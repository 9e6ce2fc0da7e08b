SPECIFICATION Spec
CONSTANTS
    a1 = a1
    a2 = a2
    c1 = c1
    c2 = c2
    c3 = c3
    Clients <- MCClients
    Actions = {a1}
    Args = {send}
    Policies = {p1, p2}
    Results = {ok}
    Horizon = 2
    Window = 1
    RepeatWindow = 1
    MaxRepeats = 0
    Remember = FALSE
    MaxFaults = 1
    MaxRestarts = 1
    NoBinding = NoBinding
    NoOutcome = NoOutcome
    NoAction = NoAction
INVARIANTS
    ExecuteOnce
    ExactlyOneDecider
    AnswersAreTrue
PROPERTIES
    GateUsesLedger
SYMMETRY RequestSymmetry
CHECK_DEADLOCK FALSE
