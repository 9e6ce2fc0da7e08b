SPECIFICATION StoreSpec
CONSTANTS
    a1 = a1
    a2 = a2
    Actions <- MCActions
    Args = {send}
    Policies = {p1, p2}
    Results = {succeeded, failed}
    Horizon = 2
    NoBinding = NoBinding
    NoOutcome = NoOutcome
PROPERTIES
    HistoryIsFinal
    ImplementsPermit
