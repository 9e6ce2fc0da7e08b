------------------------------ MODULE MCRelay ------------------------------
(* An instance of Relay for TLC: a quorum of two, out of two people, with    *)
(* three clicks and two faults.                                               *)
EXTENDS Relay, TLC

CONSTANTS ana, bob

MCUsers == {ana, bob}
=============================================================================
