------------------------------- MODULE Permit -------------------------------
(***************************************************************************)
(* What draftcat promises about the permit of one gated tool call, with no *)
(* mention of tables, tickets, handlers or clocks: an action id is asked   *)
(* for once, its question is answered at most once, a granted permit is    *)
(* either spent once or closed, and the audit trail moves in the same step *)
(* as the answer and the spending it attests.                              *)
(*                                                                         *)
(* Module PermitStore implements this specification.                       *)
(***************************************************************************)

CONSTANT Actions      \* the action ids callers may use

VARIABLES
    phase,            \* phase[a]: where the permit of action a stands
    trail             \* trail[a]: what the audit log shows about action a

vars == <<phase, trail>>

Phases == {"unknown", "open", "granted", "spent", "closed"}
Trails == {"none", "allow", "deny", "spent"}

TypeOK ==
    /\ phase \in [Actions -> Phases]
    /\ trail \in [Actions -> Trails]

Init ==
    /\ phase = [a \in Actions |-> "unknown"]
    /\ trail = [a \in Actions |-> "none"]

Ask(a) ==
    /\ phase[a] = "unknown"
    /\ phase' = [phase EXCEPT ![a] = "open"]
    /\ UNCHANGED trail

\* A grant is never unaudited: both change together.
Grant(a) ==
    /\ phase[a] = "open"
    /\ phase' = [phase EXCEPT ![a] = "granted"]
    /\ trail' = [trail EXCEPT ![a] = "allow"]

Refuse(a) ==
    /\ phase[a] = "open"
    /\ phase' = [phase EXCEPT ![a] = "closed"]
    /\ trail' = [trail EXCEPT ![a] = "deny"]

\* Expiry, revocation and a changed policy close permits that are not spent,
\* one at a time or (at a restart) many at once.
Close(S) ==
    /\ S # {}
    /\ \A a \in S : phase[a] \in {"open", "granted"}
    /\ phase' = [a \in Actions |-> IF a \in S THEN "closed" ELSE phase[a]]
    /\ UNCHANGED trail

Spend(a) ==
    /\ phase[a] = "granted"
    /\ phase' = [phase EXCEPT ![a] = "spent"]
    /\ trail' = [trail EXCEPT ![a] = "spent"]

Next ==
    \/ \E a \in Actions : Ask(a) \/ Grant(a) \/ Refuse(a) \/ Spend(a)
    \/ \E S \in SUBSET Actions : Close(S)

Spec == Init /\ [][Next]_vars

=============================================================================
