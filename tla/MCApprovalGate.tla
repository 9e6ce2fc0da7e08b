--------------------------- MODULE MCApprovalGate ---------------------------
(* Instances of ApprovalGate for TLC: a gate one operator decides and one    *)
(* that takes two, three operators of whom two may decide.                   *)
EXTENDS ApprovalGate, TLC

CONSTANTS g1, g2, o1, o2, o3

OneGate == {g1}
TwoGates == {g1, g2}
TheQuorumGate == {g2}
MCOperators == {o1, o2, o3}
MCApprovers == {o1, o2}
QuorumOf(gates) == [g \in gates |-> IF g = g2 THEN 2 ELSE 1]
MCQuorum == QuorumOf(Gates)
OperatorSymmetry == Permutations(MCApprovers)

=============================================================================
