SPECIFICATION Spec
CONSTANTS
    ana = ana
    bob = bob
    Users <- MCUsers
    Permitted <- MCUsers
    Need = 2
    MaxClicks = 3
    MaxPosts = 2
    MaxFaults = 1
INVARIANTS
    ApprovedByQuorum
    ShownIsTrue
PROPERTIES
    QuestionsEnd
CHECK_DEADLOCK FALSE
