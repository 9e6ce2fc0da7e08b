SPECIFICATION Spec
CONSTANTS
    p1 = p1
    r1 = r1
    r2 = r2
    key = key
    sig = sig
    Pipes <- OnePipe
    Schedules = {"timer", "webhook"}
    Reqs <- TwoReqs
    PipeOf <- MCPipeOf
    KeyOf <- MCKeyOf
    Bodies = {"signed", "plain"}
    SigOf <- MCSigOf
    PauseAfter = 2
    NoKey = NoKey
    NoSig = NoSig
    Nobody = Nobody
    Unread = Unread
    MaxRuns = 2
    MaxFaults = 1
    MaxReloads = 2
    MaxCommands = 1
    MaxRestarts = 1
INVARIANTS
    ClaimHasOneHolder
    KeyStartsOneRun
    AdmissionTellsRun
    FailingStreakPauses
SYMMETRY ReqSymmetry
CHECK_DEADLOCK FALSE
