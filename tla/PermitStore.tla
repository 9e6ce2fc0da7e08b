---------------------------- MODULE PermitStore ----------------------------
(***************************************************************************)
(* The durable permit ledger of the tool-call gate: the SQLite tables      *)
(* tool_actions, action_approvals (the receipts of tool calls) and         *)
(* tool_execution_outcomes, and every statement of internal/state that     *)
(* writes them.  The store runs on one connection, so a statement, and a   *)
(* transaction of several, is one step.                                    *)
(*                                                                         *)
(* A binding hash is collision free: it is modelled by the bound facts     *)
(* themselves (args stands for tool, agent, run, arguments and             *)
(* precondition).  Times passed to a statement were read by its caller     *)
(* before the statement ran, so "at" ranges over the past.                 *)
(***************************************************************************)
EXTENDS Naturals, Sequences

CONSTANTS
    Actions,        \* action ids
    Args,           \* what a call wants to do
    Policies,       \* effective policies, by their hash
    Results,        \* what a caller may report about an execution
    Horizon,        \* bound on the clock
    NoBinding,      \* the binding of an action nobody asked for
    NoOutcome       \* no execution has been reported

Time == 0 .. Horizon
Bindings == [args : Args, policy : Policies, expires : Time]

ASSUME HorizonAssumption == Horizon \in Nat
ASSUME SentinelAssumption == NoBinding \notin Bindings /\ NoOutcome \notin Results

VARIABLES
    rows,           \* tool_actions
    receipts,       \* action_approvals, per action, in row order
    outcomes,       \* tool_execution_outcomes
    now             \* the wall clock, in seconds

storeVars == <<rows, receipts, outcomes, now>>

-----------------------------------------------------------------------------
Statuses == {"none", "pending", "allowed", "denied", "expired", "revoked", "consumed"}

Row == [status : Statuses, bind : Bindings \cup {NoBinding},
        decision : {"", "allow", "deny"}, consumedAt : Time]

Known(a) == rows[a].status # "none"

NoRow == [status |-> "none", bind |-> NoBinding, decision |-> "", consumedAt |-> 0]

Verdicts == {"approve", "policy_approve", "deny"}

Receipt == [lifecycle : {"decided", "consumed"},
            decision : Verdicts \cup {"consume"},
            bind : Bindings]

DecisionReceipt(d, b) == [lifecycle |-> "decided", decision |-> d, bind |-> b]
ConsumptionReceipt(b) == [lifecycle |-> "consumed", decision |-> "consume", bind |-> b]

TypeOK ==
    /\ rows \in [Actions -> Row]
    /\ receipts \in [Actions -> Seq(Receipt)]
    /\ outcomes \in [Actions -> Results \cup {NoOutcome}]
    /\ now \in Time
    /\ \A a \in Actions : Known(a) => rows[a].bind \in Bindings

-----------------------------------------------------------------------------
\* Row transformers: what one UPDATE makes of the row it matches.

\* Mutant: a revoke also matches a spent permit.
UnspentOrSpent(r) == r.status \in {"pending", "allowed", "consumed"}

Unspent(r) == r.status \in {"pending", "allowed"}
Lapsed(r, at) == r.bind.expires <= at

\* Mutant: closing a permit leaves its decision column alone.
ClosedKeepingDecision(r, s) == [r EXCEPT !.status = s]

Closed(r, s) == [r EXCEPT !.status = s, !.decision = "deny"]

\* Mutant: the verdict lands in the status column.
DecidedVerbatim(r, d) == [r EXCEPT !.status = d, !.decision = "allow"]

Decided(r, d) ==
    IF d = "deny"
    THEN [r EXCEPT !.status = "denied", !.decision = "deny"]
    ELSE [r EXCEPT !.status = "allowed", !.decision = "allow"]

Write(a, r) == rows' = [rows EXCEPT ![a] = r]
Append1(a, e) == receipts' = [receipts EXCEPT ![a] = Append(@, e)]

-----------------------------------------------------------------------------
\* The statements.

\* Mutant: INSERT OR REPLACE.
ReserveAnew(a, b) ==
    /\ Write(a, [status |-> "pending", bind |-> b, decision |-> "", consumedAt |-> 0])
    /\ UNCHANGED <<receipts, outcomes, now>>

\* INSERT OR IGNORE: the first request for an action id creates its row, every
\* later one finds it.
ReserveToolAction(a, b) ==
    /\ IF Known(a)
       THEN UNCHANGED rows
       ELSE Write(a, [status |-> "pending", bind |-> b, decision |-> "", consumedAt |-> 0])
    /\ UNCHANGED <<receipts, outcomes, now>>

\* One transaction: a pending row whose window has passed expires; a row still
\* pending takes the decision together with its receipt.
DecideToolActionWithReceipt(a, b, d, at) ==
    /\ IF rows[a].status = "pending"
       THEN IF Lapsed(rows[a], at)
            THEN /\ Write(a, Closed(rows[a], "expired"))
                 /\ UNCHANGED receipts
            ELSE /\ Write(a, Decided(rows[a], d))
                 /\ Append1(a, DecisionReceipt(d, b))
       ELSE UNCHANGED <<rows, receipts>>
    /\ UNCHANGED <<outcomes, now>>

\* The one unaudited decision: a call without an action id of its own that
\* joins an identical pending one gives its fresh id up.
DecideToolAction(a) ==
    /\ IF rows[a].status = "pending"
       THEN Write(a, Decided(rows[a], "deny"))
       ELSE UNCHANGED rows
    /\ UNCHANGED <<receipts, outcomes, now>>

\* Mutants: a permit is spent without a look at its window; a spent permit is
\* spent again.
ConsumableForever(a, b, at) == rows[a].status = "allowed" /\ rows[a].bind = b
ConsumableAgain(a, b, at) ==
    rows[a].status \in {"allowed", "consumed"} /\ rows[a].bind = b /\ ~Lapsed(rows[a], at)

Consumable(a, b, at) ==
    /\ rows[a].status = "allowed"
    /\ rows[a].bind = b
    /\ ~Lapsed(rows[a], at)

\* Mutant: the consumption receipt is left for another transaction.
ConsumeToolActionBare(a, b, at) ==
    /\ IF Consumable(a, b, at)
       THEN Write(a, [rows[a] EXCEPT !.status = "consumed", !.consumedAt = at])
       ELSE UNCHANGED rows
    /\ UNCHANGED <<receipts, outcomes, now>>

ConsumeToolActionWithReceipt(a, b, at) ==
    /\ IF Consumable(a, b, at)
       THEN /\ Write(a, [rows[a] EXCEPT !.status = "consumed", !.consumedAt = at])
            /\ Append1(a, ConsumptionReceipt(b))
       ELSE UNCHANGED <<rows, receipts>>
    /\ UNCHANGED <<outcomes, now>>

NormalizeToolAction(a, policy, at) ==
    /\ IF Unspent(rows[a]) /\ (rows[a].bind.policy # policy \/ Lapsed(rows[a], at))
       THEN Write(a, Closed(rows[a], "expired"))
       ELSE UNCHANGED rows
    /\ UNCHANGED <<receipts, outcomes, now>>

CancelToolAction(a, b) ==
    /\ IF Unspent(rows[a]) /\ rows[a].bind = b
       THEN Write(a, Closed(rows[a], "revoked"))
       ELSE UNCHANGED rows
    /\ UNCHANGED <<receipts, outcomes, now>>

\* Mutant: an outcome is taken of a permit nobody spent.
CompleteAnyAction(a, b, o) ==
    /\ IF rows[a].bind = b /\ outcomes[a] = NoOutcome
       THEN outcomes' = [outcomes EXCEPT ![a] = o]
       ELSE UNCHANGED outcomes
    /\ UNCHANGED <<rows, receipts, now>>

CompleteToolAction(a, b, o) ==
    /\ IF rows[a].status = "consumed" /\ rows[a].bind = b /\ outcomes[a] = NoOutcome
       THEN outcomes' = [outcomes EXCEPT ![a] = o]
       ELSE UNCHANGED outcomes
    /\ UNCHANGED <<rows, receipts, now>>

\* At boot: nothing pending can be resumed, and a lapsed permit is closed; a
\* permit still inside its window stays consumable.
ExpireToolActions(at) ==
    /\ rows' = [a \in Actions |->
                  IF \/ rows[a].status = "pending"
                     \/ rows[a].status = "allowed" /\ Lapsed(rows[a], at)
                  THEN Closed(rows[a], "expired")
                  ELSE rows[a]]
    /\ UNCHANGED <<receipts, outcomes, now>>

Tick ==
    /\ now < Horizon
    /\ now' = now + 1
    /\ UNCHANGED <<rows, receipts, outcomes>>

-----------------------------------------------------------------------------
\* The ledger under any callers that keep the two disciplines ToolGate keeps:
\* a decision carries the binding its caller reserved, and no statement is
\* issued with a time from the future.

StoreInit ==
    /\ rows = [a \in Actions |-> NoRow]
    /\ receipts = [a \in Actions |-> <<>>]
    /\ outcomes = [a \in Actions |-> NoOutcome]
    /\ now = 0

Statement(a) ==
    \/ \E b \in Bindings : ReserveToolAction(a, b)
    \/ /\ Known(a)
       /\ \/ \E d \in Verdicts, at \in 0 .. now :
                DecideToolActionWithReceipt(a, rows[a].bind, d, at)
          \/ DecideToolAction(a)
          \/ \E b \in Bindings, at \in 0 .. now : ConsumeToolActionWithReceipt(a, b, at)
          \/ \E p \in Policies, at \in 0 .. now : NormalizeToolAction(a, p, at)
          \/ \E b \in Bindings : CancelToolAction(a, b)
          \/ \E b \in Bindings, o \in Results : CompleteToolAction(a, b, o)

StoreNext ==
    \/ \E a \in Actions : Statement(a)
    \/ \E at \in 0 .. now : ExpireToolActions(at)
    \/ Tick

StoreSpec == StoreInit /\ [][StoreNext]_storeVars

-----------------------------------------------------------------------------
\* Safety.

Approvals(b) == {DecisionReceipt("approve", b), DecisionReceipt("policy_approve", b)}

AllowTrails(b) == {<<e>> : e \in Approvals(b)}

\* The receipts a row in state r may have, no more and no fewer.
AuditTrails(r) ==
    CASE r.status \in {"none", "pending"} -> {<<>>}
      [] r.status = "allowed" -> AllowTrails(r.bind)
      [] r.status = "consumed" -> {<<e, ConsumptionReceipt(r.bind)>> : e \in Approvals(r.bind)}
      [] r.status = "denied" -> {<<>>, <<DecisionReceipt("deny", r.bind)>>}
      [] r.status \in {"expired", "revoked"} -> {<<>>} \cup AllowTrails(r.bind)

\* The receipts agree with the row at every instant: a permit that is allowed
\* or spent has exactly the approval (and consumption) receipt of its own
\* binding, and a permit closed before a decision never gained one.
AuditMatchesState == \A a \in Actions : receipts[a] \in AuditTrails(rows[a])

\* The decision column, which the daily totals are summed over, says "allow"
\* exactly while the permit is allowed or spent: a permit revoked or expired
\* unspent stops counting, a spent one never does.
DecisionFollowsStatus ==
    \A a \in Actions :
        /\ rows[a].decision = "allow" <=> rows[a].status \in {"allowed", "consumed"}
        /\ rows[a].decision = "" <=> rows[a].status \in {"none", "pending"}

\* No permit is spent at or after the end of the window that was approved.
SpentInsideWindow ==
    \A a \in Actions :
        rows[a].status = "consumed" => rows[a].consumedAt < rows[a].bind.expires

\* Only an execution that was authorized can have a reported outcome.
OutcomeOnlyIfSpent ==
    \A a \in Actions : outcomes[a] # NoOutcome => rows[a].status = "consumed"

\* What no step may do: reopen or respend a settled permit, forget or rebind
\* an action id, drop or rewrite a receipt, or change a reported outcome.
Settled(a) == rows[a].status \in {"denied", "expired", "revoked", "consumed"}

KeepsHistory(a) ==
    /\ Settled(a) => rows'[a] = rows[a]
    /\ Known(a) => rows'[a].status # "none" /\ rows'[a].bind = rows[a].bind
    /\ Len(receipts'[a]) >= Len(receipts[a])
    /\ \A i \in 1 .. Len(receipts[a]) : receipts'[a][i] = receipts[a][i]
    /\ outcomes[a] # NoOutcome => outcomes'[a] = outcomes[a]

HistoryIsFinal == [][\A a \in Actions : KeepsHistory(a)]_storeVars

-----------------------------------------------------------------------------
\* Refinement of the abstract permit.

PhaseOf(r) ==
    CASE r.status = "none" -> "unknown"
      [] r.status = "pending" -> "open"
      [] r.status = "allowed" -> "granted"
      [] r.status = "consumed" -> "spent"
      [] r.status \in {"denied", "expired", "revoked"} -> "closed"

TrailOf(s) ==
    CASE s = <<>> -> "none"
      [] Len(s) = 1 -> IF s[1].decision = "deny" THEN "deny" ELSE "allow"
      [] Len(s) > 1 -> "spent"

AbstractPermit == INSTANCE Permit WITH
    phase <- [a \in Actions |-> PhaseOf(rows[a])],
    trail <- [a \in Actions |-> TrailOf(receipts[a])]

\* Every behaviour of the ledger is a behaviour of the abstract permit.
ImplementsPermit == AbstractPermit!Spec

=============================================================================
