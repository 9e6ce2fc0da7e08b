SPECIFICATION Spec
CONSTANTS
    g1 = g1
    g2 = g2
    o1 = o1
    o2 = o2
    o3 = o3
    Gates <- TwoGates
    Operators <- MCOperators
    Approvers <- MCApprovers
    Quorum <- MCQuorum
    WaiterBuffer = 2
    MaxUpdates = 4
    MaxFaults = 1
    MaxRestarts = 2
    NoOne = NoOne
    NoMessage = NoMessage
INVARIANTS
    ReleaseIsApproved
    OneVerdict
    NoGateVanishes
SYMMETRY OperatorSymmetry
CHECK_DEADLOCK FALSE
