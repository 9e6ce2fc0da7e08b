---------------------------- MODULE MCMainLoop ----------------------------
(* An instance of MainLoop for TLC: two days of three ticks, a digest in the *)
(* second, a /reply that may wait across midnight.                           *)
EXTENDS MainLoop
=============================================================================
