------------------------------ MODULE CapLedger ------------------------------
(***************************************************************************)
(* What the rules of one tool decide (tool_policy.go, tool_grants.go): the *)
(* daily totals of max_per_day and max_calls_per_day, the mutex capped     *)
(* decisions are made under, standing grants, and the operators who answer *)
(* what the rules send to them outside that mutex.  The permits are those  *)
(* of PermitStore; each action is one call, decided by the request that    *)
(* created it (ToolGate's OneDecider), and its one argument is an amount.  *)
(* A decision is taken in the tick its transaction runs: ToolGate models   *)
(* the gap.  Freezes are GateTrip's.                                       *)
(***************************************************************************)
EXTENDS PermitStore, Integers, FiniteSetsExt

CONSTANTS
    Grants,          \* grant ids
    ToolRules,       \* the rules the tool may have in gate.yaml
    Window,          \* timeouts.operator_approval
    DayLength,       \* ticks of a UTC day
    MaxUses,         \* bound: uses an operator grants
    MaxFaults,       \* bound: store statements that fail
    MaxRestarts,     \* bound: restarts
    NoAction,
    NoGrant

\* capped: the rule has max_per_day or max_calls_per_day; denyMismatch:
\* on_mismatch is deny.
ToolRule == [capped : BOOLEAN, maxPerDay : Nat, maxCallsPerDay : Nat, reviewAbove : Nat,
             requireApproval : BOOLEAN, allowGrants : BOOLEAN, denyMismatch : BOOLEAN]

ASSUME CapAssumption ==
    /\ Args \subseteq Int
    /\ ToolRules \subseteq ToolRule
    /\ {MaxFaults, MaxRestarts} \subseteq Nat
    /\ {Window, DayLength, MaxUses} \subseteq Nat \ {0}
    /\ NoAction \notin Actions /\ NoGrant \notin Grants

VARIABLES
    rule,            \* the tool's rule
    calls,           \* the request deciding each action
    capMu,           \* who holds g.capMu
    amounts,         \* tool_action_amounts: per action, the day it counts in
    grants,          \* tool_grants
    takers,          \* history: the calls that took a use of each grant
    faults,          \* store statements that failed so far
    restarts

capVars == <<rule, calls, capMu, amounts, grants, takers, faults, restarts>>
vars == <<storeVars, capVars>>

-----------------------------------------------------------------------------
Day(t) == t \div DayLength
Uncounted == -1
Days == {Day(t) : t \in Time}

NoCall == [pc |-> "idle", day |-> 0, over |-> FALSE, verdict |-> "deny",
           at |-> 0, grant |-> NoGrant, uses |-> 0, tries |-> 0]

Pcs == {"idle", "lock", "record", "total", "count", "select", "take", "commit", "asking", "over"}
CallRecord == [pc : Pcs, day : Days, over : BOOLEAN, verdict : Verdicts, at : Time,
               grant : Grants \cup {NoGrant}, uses : 0 .. MaxUses, tries : 0 .. 2]

NoGrantYet == [issued |-> FALSE, expires |-> 0, max |-> 0, uses |-> 0, revoked |-> FALSE]
GrantRecord == [issued : BOOLEAN, expires : Time, max : 0 .. MaxUses,
                uses : 0 .. MaxUses, revoked : BOOLEAN]

At(a, p) == calls[a].pc = p
Go(a, p) == calls' = [calls EXCEPT ![a].pc = p]
Amount(a) == rows[a].bind.args

\* ToolArgTotal: what the allowed actions of a day amount to, and their number.
Counted(d) == {a \in Actions : amounts[a] = d /\ rows[a].decision = "allow"}
Total(S) == SumFunctionOnSet([a \in Actions |-> Amount(a)], S)

Unlocked(a) == capMu' = IF capMu = a THEN NoAction ELSE capMu

\* Mutant: what the rules say is taken for the receipt's decision.
DecideByRule(a, d) ==
    /\ calls' = [calls EXCEPT ![a].pc = "commit",
                              ![a].verdict = IF d = "deny" THEN "deny" ELSE "allow"]
    /\ UNCHANGED capMu

\* The call is decided under the lock, if it has it.
Decide(a, d) == calls' = [calls EXCEPT ![a].pc = "commit", ![a].verdict = d] /\ UNCHANGED capMu

\* Mutant: the lock is kept until the request ends.
AskHumanLocked(a) == Go(a, "asking") /\ UNCHANGED capMu

\* The lock is never held while a human decides.
AskHuman(a) == Go(a, "asking") /\ Unlocked(a)

Fault == faults < MaxFaults /\ faults' = faults + 1

\* evaluateToolPolicy, past the totals: an argument or a total outside the
\* rule is refused or escalated, what requires approval or is above
\* review_above is asked, and only a plain ask may be answered by a grant.
Outside(a) == rule.capped /\ Amount(a) < 0

Verdict(a, over) ==
    IF over
    THEN IF rule.denyMismatch THEN Decide(a, "deny") ELSE AskHuman(a)
    ELSE IF rule.requireApproval
         THEN IF rule.allowGrants
              THEN calls' = [calls EXCEPT ![a].pc = "select", ![a].at = now] /\ UNCHANGED capMu
              ELSE AskHuman(a)
         ELSE IF Amount(a) > rule.reviewAbove THEN AskHuman(a) ELSE Decide(a, "policy_approve")

-----------------------------------------------------------------------------
\* HandleCall, from the reservation on.

Arrive(a) ==
    /\ At(a, "idle") /\ ~Known(a)
    /\ now + Window <= Horizon
    /\ \E k \in Args, p \in Policies :
        ReserveToolAction(a, [args |-> k, policy |-> p, expires |-> now + Window])
    /\ Go(a, "lock")
    /\ UNCHANGED <<rule, capMu, amounts, grants, takers, faults, restarts>>

\* Mutant: capped decisions are made side by side.
LockShared(a) ==
    /\ At(a, "lock")
    /\ \/ rule.capped /\ capMu' = a /\ Go(a, "record")
       \/ ~rule.capped /\ Verdict(a, FALSE)
    /\ UNCHANGED <<storeVars, rule, amounts, grants, takers, faults, restarts>>

Lock(a) ==
    /\ At(a, "lock")
    /\ \/ rule.capped /\ capMu = NoAction /\ capMu' = a /\ Go(a, "record")
       \/ ~rule.capped /\ Verdict(a, FALSE)
    /\ UNCHANGED <<storeVars, rule, amounts, grants, takers, faults, restarts>>

\* Mutant: a call whose amount could not be stored is left to the operator.
RecordOrAsk(a) ==
    /\ At(a, "record")
    /\ \/ /\ amounts' = [amounts EXCEPT ![a] = IF @ = Uncounted THEN Day(now) ELSE @]
          /\ calls' = [calls EXCEPT ![a].pc = "total", ![a].day = Day(now)]
          /\ UNCHANGED <<capMu, faults>>
       \/ Fault /\ AskHuman(a) /\ UNCHANGED amounts
    /\ UNCHANGED <<storeVars, rule, grants, takers, restarts>>

\* RecordToolActionAmounts, under the day the decision starts in; whatever the
\* arguments are.
Record(a) ==
    /\ At(a, "record")
    /\ \/ /\ amounts' = [amounts EXCEPT ![a] = IF @ = Uncounted THEN Day(now) ELSE @]
          /\ calls' = [calls EXCEPT ![a].pc = "total", ![a].day = Day(now)]
          /\ UNCHANGED <<capMu, faults>>
       \/ Fault /\ Decide(a, "deny") /\ UNCHANGED amounts
    /\ UNCHANGED <<storeVars, rule, grants, takers, restarts>>

\* The day's total is read; a total that cannot be read denies, and a rule that
\* refuses stops at the first cap the call would pass.
ReadTotal(a) ==
    /\ At(a, "total")
    /\ LET over == Total(Counted(calls[a].day)) + Amount(a) > rule.maxPerDay IN
       \/ Outside(a) /\ Verdict(a, TRUE) /\ UNCHANGED faults
       \/ ~Outside(a) /\ over /\ rule.denyMismatch /\ Decide(a, "deny") /\ UNCHANGED faults
       \/ /\ ~Outside(a) /\ ~(over /\ rule.denyMismatch)
          /\ calls' = [calls EXCEPT ![a].pc = "count", ![a].over = over]
          /\ UNCHANGED <<capMu, faults>>
       \/ ~Outside(a) /\ Fault /\ Decide(a, "deny")
    /\ UNCHANGED <<storeVars, rule, amounts, grants, takers, restarts>>

ReadCount(a) ==
    /\ At(a, "count")
    /\ \/ /\ Verdict(a, calls[a].over \/ Cardinality(Counted(calls[a].day)) + 1 > rule.maxCallsPerDay)
          /\ UNCHANGED faults
       \/ Fault /\ Decide(a, "deny")
    /\ UNCHANGED <<storeVars, rule, amounts, grants, takers, restarts>>

\* UseToolGrant: the live grant that expires first ...
Live(g, at) ==
    /\ grants[g].issued /\ ~grants[g].revoked
    /\ grants[g].expires > at /\ grants[g].uses < grants[g].max

SelectGrant(a) ==
    /\ At(a, "select")
    /\ LET at == calls[a].at
           live == {g \in Grants : Live(g, at)}
       IN  \/ /\ \E g \in live :
                    /\ \A o \in live : grants[g].expires <= grants[o].expires
                    /\ calls' = [calls EXCEPT ![a].pc = "take", ![a].grant = g,
                                              ![a].uses = grants[g].uses]
              /\ UNCHANGED <<capMu, faults>>
           \/ live = {} /\ AskHuman(a) /\ UNCHANGED faults
           \/ Fault /\ AskHuman(a)
    /\ UNCHANGED <<storeVars, rule, amounts, grants, takers, restarts>>

\* Mutants: the update looks at the use count alone; at the life of the grant
\* alone.
TakableByCount(g, at, uses) == grants[g].uses = uses
TakableByLife(g, at, uses) == ~grants[g].revoked /\ grants[g].expires > at

\* ... of which one use is taken if nobody took it meanwhile, in three tries.
Takable(g, at, uses) == Live(g, at) /\ grants[g].uses = uses

TakeGrant(a) ==
    /\ At(a, "take")
    /\ LET g == calls[a].grant IN
       \/ /\ Takable(g, calls[a].at, calls[a].uses)
          /\ grants' = [grants EXCEPT ![g].uses = @ + 1]
          /\ takers' = [takers EXCEPT ![g] = @ \cup {a}]
          /\ Decide(a, "policy_approve")
          /\ UNCHANGED faults
       \/ /\ ~Takable(g, calls[a].at, calls[a].uses)
          /\ IF calls[a].tries < 2
             THEN calls' = [calls EXCEPT ![a].pc = "select", ![a].tries = @ + 1] /\ UNCHANGED capMu
             ELSE AskHuman(a)
          /\ UNCHANGED <<grants, takers, faults>>
       \/ Fault /\ AskHuman(a) /\ UNCHANGED <<grants, takers>>
    /\ UNCHANGED <<storeVars, rule, amounts, restarts>>

AtDecision(a, d) == IF now >= rows[a].bind.expires THEN "deny" ELSE d

\* finishAction, and the deferred unlock.
Commit(a) ==
    /\ At(a, "commit")
    /\ \/ /\ DecideToolActionWithReceipt(a, rows[a].bind, AtDecision(a, calls[a].verdict), now)
          /\ UNCHANGED faults
       \/ Fault /\ UNCHANGED storeVars
    /\ Go(a, "over")
    /\ Unlocked(a)
    /\ UNCHANGED <<rule, amounts, grants, takers, restarts>>

\* The operator's answer, or the end of the prompt.
HumanDecides(a) ==
    /\ At(a, "asking")
    /\ \E d \in {"approve", "deny"} :
        DecideToolActionWithReceipt(a, rows[a].bind, AtDecision(a, d), now)
    /\ Go(a, "over")
    /\ UNCHANGED <<rule, capMu, amounts, grants, takers, faults, restarts>>

-----------------------------------------------------------------------------
\* Meanwhile: polls, revokes and consumes of the permit, the operators'
\* /grant and /ungrant, restarts and the clock.

PermitMoves(a) ==
    /\ Known(a)
    /\ \/ NormalizeToolAction(a, rows[a].bind.policy, now)
       \/ CancelToolAction(a, rows[a].bind)
       \/ ConsumeToolActionWithReceipt(a, rows[a].bind, now)
    /\ UNCHANGED capVars

Grant(g) ==
    /\ rule.allowGrants /\ ~grants[g].issued
    /\ \E e \in now + 1 .. Horizon, m \in 1 .. MaxUses :
        grants' = [grants EXCEPT ![g] = [NoGrantYet EXCEPT !.issued = TRUE, !.expires = e, !.max = m]]
    /\ UNCHANGED <<storeVars, rule, calls, capMu, amounts, takers, faults, restarts>>

Ungrant(g) ==
    /\ grants[g].issued /\ ~grants[g].revoked
    /\ grants' = [grants EXCEPT ![g].revoked = TRUE]
    /\ UNCHANGED <<storeVars, rule, calls, capMu, amounts, takers, faults, restarts>>

Restart ==
    /\ restarts < MaxRestarts
    /\ restarts' = restarts + 1
    /\ ExpireToolActions(now)
    /\ calls' = [a \in Actions |-> IF At(a, "idle") THEN NoCall ELSE [NoCall EXCEPT !.pc = "over"]]
    /\ capMu' = NoAction
    /\ UNCHANGED <<rule, amounts, grants, takers, faults>>

TimePasses == Tick /\ UNCHANGED capVars

-----------------------------------------------------------------------------
Init ==
    /\ StoreInit
    /\ rule \in ToolRules
    /\ calls = [a \in Actions |-> NoCall]
    /\ capMu = NoAction
    /\ amounts = [a \in Actions |-> Uncounted]
    /\ grants = [g \in Grants |-> NoGrantYet]
    /\ takers = [g \in Grants |-> {}]
    /\ faults = 0
    /\ restarts = 0

\* What the process does on its own with a call it has begun.
HandlerStep(a) ==
    \/ Lock(a) \/ Record(a) \/ ReadTotal(a) \/ ReadCount(a)
    \/ SelectGrant(a) \/ TakeGrant(a) \/ Commit(a)

Next ==
    \/ \E a \in Actions : Arrive(a) \/ HandlerStep(a) \/ HumanDecides(a) \/ PermitMoves(a)
    \/ \E g \in Grants : Grant(g) \/ Ungrant(g)
    \/ Restart
    \/ TimePasses

Spec == Init /\ [][Next]_vars

-----------------------------------------------------------------------------
CapTypeOK ==
    /\ TypeOK
    /\ rule \in ToolRules
    /\ calls \in [Actions -> CallRecord]
    /\ capMu \in Actions \cup {NoAction}
    /\ amounts \in [Actions -> Days \cup {Uncounted}]
    /\ grants \in [Grants -> GrantRecord]
    /\ takers \in [Grants -> SUBSET Actions]
    /\ faults \in Nat /\ restarts \in Nat

PolicyAllowed(a) == receipts[a] # <<>> /\ receipts[a][1].decision = "policy_approve"

\* What the rules and grants allow on their own stays inside both daily caps,
\* whatever operators approve, revoke or let expire meanwhile, and across
\* restarts: no two concurrent calls fit under a total only one fits under.
\* (Where a human may approve a negative amount, that amount lowers the total.)
RulesStayWithinCaps ==
    rule.capped /\ (rule.denyMismatch \/ Args \subseteq Nat) => \A d \in Days :
        LET allowed == {a \in Counted(d) : PolicyAllowed(a)} IN
        /\ Total(allowed) <= rule.maxPerDay
        /\ Cardinality(allowed) <= rule.maxCallsPerDay

\* No call of a capped tool is allowed, by the rules or by an operator, without
\* its amount on record for a day: a total never misses what was allowed.
AllowedIsCounted ==
    rule.capped => \A a \in Actions : rows[a].decision = "allow" => amounts[a] # Uncounted

\* Both: what a cap is checked against is what it caps.
CapsHold == RulesStayWithinCaps /\ AllowedIsCounted

\* A tool that requires approval is never allowed without an operator's tap or
\* a use of a standing grant of its own; each use is taken by one call, and no
\* grant is used past its limit.
UsesAreAccounted ==
    /\ \A g \in Grants : grants[g].uses = Cardinality(takers[g]) /\ grants[g].uses <= grants[g].max
    /\ \A g, h \in Grants : g # h => takers[g] \cap takers[h] = {}
    /\ rule.requireApproval => \A a \in Actions : PolicyAllowed(a) => \E g \in Grants : a \in takers[g]

\* A grant an operator ended is not used again, not even by a call that had
\* looked it up before.
UsesOnlyLive == \A g \in Grants : grants[g].revoked => takers'[g] = takers[g]

\* A call holds the cap lock exactly while the code decides it: never while a
\* human does, nor after an early return, so no operator or failed statement
\* keeps the tool's other callers waiting.
LockIsPassedOn ==
    \A a \in Actions :
        /\ capMu = a => calls[a].pc \notin {"idle", "lock", "asking", "over"}
        /\ rule.capped /\ calls[a].pc \in {"record", "total", "count", "select", "take"} => capMu = a

-----------------------------------------------------------------------------
\* What docs/tool-gate.md says, and the code does not do.

\* "today's allowed total may not pass" max_per_day, where a call that would is
\* refused (on_mismatch: deny).
AllowedTotalWithinCap ==
    rule.capped /\ rule.denyMismatch => \A d \in Days : Total(Counted(d)) <= rule.maxPerDay

=============================================================================
