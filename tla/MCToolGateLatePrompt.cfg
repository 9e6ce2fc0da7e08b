SPECIFICATION ScheduledSpec
CONSTANTS
    a1 = a1
    a2 = a2
    c1 = c1
    c2 = c2
    c3 = c3
    Clients = {c1, c2}
    Actions = {a1}
    Args = {send}
    Policies = {p1}
    Results = {ok}
    Horizon = 2
    Window = 1
    RepeatWindow = 1
    MaxRepeats = 0
    Remember = FALSE
    MaxFaults = 1
    MaxRestarts = 0
    NoBinding = NoBinding
    NoOutcome = NoOutcome
    NoAction = NoAction
PROPERTIES
    RefusedPromptCloses
CHECK_DEADLOCK FALSE
