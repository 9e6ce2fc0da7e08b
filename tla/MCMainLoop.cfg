SPECIFICATION Spec
CONSTANTS
    DayLength = 3
    Slot = 1
    Window = 2
    MaySend = TRUE
    CommandBuffer = 2
    Horizon = 4
    MaxUpdates = 2
    MaxFaults = 1
    MaxBoots = 2
INVARIANTS
    SentOnce
PROPERTIES
    StopEnds
CHECK_DEADLOCK FALSE
