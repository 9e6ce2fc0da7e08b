---------------------------- MODULE MCCapLedger ----------------------------
(* Instances of CapLedger for TLC: three calls and one grant of one tool.   *)
EXTENDS CapLedger, TLC

CONSTANTS a1, a2, a3, g1

MCActions == {a1, a2, a3}
MCGrants == {g1}
CapSymmetry == Permutations(MCActions)

MCAmounts == {-1, 2, 3}

\* Three units a day; above 2 a human decides; what does not fit is refused.
Refusing == [capped |-> TRUE, maxPerDay |-> 3, maxCallsPerDay |-> 3, reviewAbove |-> 2,
             requireApproval |-> FALSE, allowGrants |-> FALSE, denyMismatch |-> TRUE]

\* One call a day, of any amount.
OneCall == [Refusing EXCEPT !.maxPerDay = 9, !.maxCallsPerDay = 1]

\* Three units a day, and a human or a standing grant for each of them.
Granted == [Refusing EXCEPT !.requireApproval = TRUE, !.allowGrants = TRUE]

\* The same without caps: calls take the grant's uses side by side.
SideBySide == [Granted EXCEPT !.capped = FALSE]

MCCapRules == {Refusing, OneCall, Granted, SideBySide}
MCReviewRules == {Refusing}

\* Bound: under the rule with grants two calls, no fault and no restart; the
\* instance in MCComponents has those.
GrantsAreFew ==
    rule.allowGrants =>
        faults = 0 /\ restarts = 0 /\ Cardinality({a \in Actions : Known(a)}) <= 2

=============================================================================
