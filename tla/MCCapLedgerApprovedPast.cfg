SPECIFICATION Spec
CONSTANTS
    a1 = a1
    a2 = a2
    a3 = a3
    g1 = g1
    Actions <- MCActions
    Grants = {}
    Args <- MCAmounts
    Policies = {p1}
    Results = {ok}
    Horizon = 2
    Window = 2
    DayLength = 1
    ToolRules <- MCReviewRules
    MaxUses = 1
    MaxFaults = 0
    MaxRestarts = 0
    NoBinding = NoBinding
    NoOutcome = NoOutcome
    NoAction = NoAction
    NoGrant = NoGrant
INVARIANTS
    AllowedTotalWithinCap
SYMMETRY CapSymmetry
CHECK_DEADLOCK FALSE
