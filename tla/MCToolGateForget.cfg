SPECIFICATION Spec
CONSTANTS
    a1 = a1
    a2 = a2
    c1 = c1
    c2 = c2
    c3 = c3
    Actions <- MCActions
    Clients <- MCClients
    Args = {send}
    Policies = {p1}
    Results = {ok}
    Horizon = 1
    Window = 1
    RepeatWindow = 1
    MaxRepeats = 0
    Remember = FALSE
    MaxFaults = 0
    MaxRestarts = 0
    NoBinding = NoBinding
    NoOutcome = NoOutcome
    NoAction = NoAction
PROPERTIES
    DenialIsRemembered
SYMMETRY Symmetry
CHECK_DEADLOCK FALSE
