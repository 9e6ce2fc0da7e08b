----------------------------- MODULE MCToolGate -----------------------------
(* Instances of ToolGate for TLC: three requests racing on one action id, or *)
(* on two.                                                                   *)
EXTENDS ToolGate, TLC

CONSTANTS a1, a2, c1, c2, c3

MCActions == {a1, a2}
MCClients == {c1, c2, c3}
RequestSymmetry == Permutations(MCClients)
Symmetry == Permutations(MCActions) \cup RequestSymmetry

=============================================================================
