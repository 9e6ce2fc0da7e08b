SPECIFICATION ScheduledSpec
CONSTANTS
    a1 = a1
    a2 = a2
    c1 = c1
    c2 = c2
    c3 = c3
    Clients = {c1, c2}
    Actions <- MCActions
    Args = {send}
    Policies = {p1}
    Results = {ok}
    Horizon = 1
    Window = 1
    RepeatWindow = 1
    MaxRepeats = 1
    Remember = TRUE
    MaxFaults = 1
    MaxRestarts = 0
    NoBinding = NoBinding
    NoOutcome = NoOutcome
    NoAction = NoAction
PROPERTIES
    RememberedApprovalIsReal
    WaitsEnd
CHECK_DEADLOCK FALSE
