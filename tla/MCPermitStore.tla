--------------------------- MODULE MCPermitStore ---------------------------
(* Two actions on a three-tick clock, two policies, two reports.            *)
EXTENDS PermitStore, TLC

CONSTANTS a1, a2

MCActions == {a1, a2}
ActionSymmetry == Permutations(MCActions)

=============================================================================
