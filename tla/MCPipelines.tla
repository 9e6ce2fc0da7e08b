----------------------------- MODULE MCPipelines -----------------------------
(* An instance of Pipelines for TLC: one pipeline and two requests that      *)
(* carry the same key and, each as it likes, the signed or the unsigned body *)
EXTENDS Pipelines

CONSTANTS p1, r1, r2, key, sig

OnePipe == {p1}
TwoReqs == {r1, r2}
MCPipeOf == [r \in Reqs |-> p1]
MCKeyOf == [r \in Reqs |-> key]
MCSigOf == [b \in Bodies |-> IF b = "signed" THEN sig ELSE NoSig]
ReqSymmetry == Permutations(TwoReqs)

=============================================================================
