SPECIFICATION Spec
CONSTANTS
    ana = ana
    bob = bob
    Users <- MCUsers
    Permitted <- MCUsers
    Need = 2
    MaxClicks = 3
    MaxPosts = 2
    MaxFaults = 1
INVARIANTS
    ButtonsGo
CHECK_DEADLOCK FALSE
