------------------------- MODULE PermitStoreProofs -------------------------
(***************************************************************************)
(* Proofs about the permit ledger, for any sets of actions, bindings and   *)
(* results and any horizon.                                                *)
(*                                                                         *)
(* Every statement rewrites the records of one action (ExpireToolActions:  *)
(* of many, each on its own), so the inductive invariant is a predicate    *)
(* RowOK on the three records of one action, and each statement needs one  *)
(* lemma that its rewriting preserves RowOK.                               *)
(***************************************************************************)
EXTENDS PermitStore, SequenceTheorems, TLAPS

RowOK(r, s, o) ==
    /\ r \in Row
    /\ s \in Seq(Receipt)
    /\ o \in Results \cup {NoOutcome}
    /\ r.status # "none" => r.bind \in Bindings
    /\ s \in AuditTrails(r)
    /\ r.decision = "allow" <=> r.status \in {"allowed", "consumed"}
    /\ r.decision = "" <=> r.status \in {"none", "pending"}
    /\ r.status = "consumed" => r.consumedAt < r.bind.expires
    /\ o # NoOutcome => r.status = "consumed"

StoreInv ==
    /\ rows \in [Actions -> Row]
    /\ receipts \in [Actions -> Seq(Receipt)]
    /\ outcomes \in [Actions -> Results \cup {NoOutcome}]
    /\ now \in Time
    /\ \A a \in Actions : RowOK(rows[a], receipts[a], outcomes[a])

-----------------------------------------------------------------------------
\* Appending to a one-element sequence.
LEMMA AppendToOne ==
    ASSUME NEW S, NEW x \in S, NEW y \in S
    PROVE  Append(<<x>>, y) = <<x, y>>
  <1>1. <<x>> \in Seq(S) /\ <<x, y>> \in Seq(S) /\ Len(<<x>>) = 1 /\ Len(<<x, y>>) = 2
    OBVIOUS
  <1> DEFINE t == Append(<<x>>, y)
  <1>2. t \in Seq(S) /\ Len(t) = 2 /\ t[1] = x /\ t[2] = y
    BY <1>1, AppendProperties
  <1> HIDE DEF t
  <1>3. \A i \in 1 .. Len(t) : t[i] = <<x, y>>[i]
    <2>1. 1 .. Len(t) = {1, 2}
      BY <1>2
    <2> QED
      BY <1>2, <2>1
  <1>4. t = <<x, y>>
    BY <1>1, <1>2, <1>3, SeqEqual
  <1> QED
    BY <1>4 DEF t

-----------------------------------------------------------------------------
\* What each rewriting of one action's records preserves.

\* The records of an action nobody asked for.
LEMMA NoRowOK == RowOK(NoRow, <<>>, NoOutcome)
  BY HorizonAssumption DEF RowOK, NoRow, Row, Statuses, AuditTrails, Time

\* A reserved row awaits its decision without any receipt.
LEMMA ReservedOK ==
    ASSUME NEW b \in Bindings
    PROVE  RowOK([status |-> "pending", bind |-> b, decision |-> "", consumedAt |-> 0],
                 <<>>, NoOutcome)
  BY HorizonAssumption DEF RowOK, Row, Statuses, AuditTrails, Time

\* Expiry and revocation keep the receipts a row already has.
LEMMA ClosedOK ==
    ASSUME NEW r, NEW s, NEW o, RowOK(r, s, o), Unspent(r),
           NEW st \in {"expired", "revoked"}
    PROVE  RowOK(Closed(r, st), s, o)
  BY DEF RowOK, Closed, Unspent, Row, Statuses, AuditTrails

\* The joined duplicate is denied without a receipt.
LEMMA UnauditedDenialOK ==
    ASSUME NEW r, NEW s, NEW o, RowOK(r, s, o), r.status = "pending"
    PROVE  RowOK(Decided(r, "deny"), s, o)
  BY DEF RowOK, Decided, Row, Statuses, AuditTrails

\* A decision and its receipt.
LEMMA DecidedOK ==
    ASSUME NEW r, NEW s, NEW o, RowOK(r, s, o), r.status = "pending", NEW d \in Verdicts
    PROVE  RowOK(Decided(r, d), Append(s, DecisionReceipt(d, r.bind)), o)
  <1> DEFINE e == DecisionReceipt(d, r.bind)
  <1>1. s = <<>> /\ r.bind \in Bindings
    BY DEF RowOK, AuditTrails
  <1>2. e \in Receipt
    BY <1>1 DEF Receipt, DecisionReceipt
  <1>3. Append(s, e) = <<e>> /\ Append(s, e) \in Seq(Receipt)
    BY <1>1, <1>2
  <1>4. CASE d = "deny"
    BY <1>1, <1>3, <1>4 DEF RowOK, Decided, Row, Statuses, AuditTrails
  <1>5. CASE d # "deny"
    <2>1. e \in Approvals(r.bind)
      BY <1>5 DEF Verdicts, Approvals
    <2>2. Decided(r, d).status = "allowed" /\ Decided(r, d).bind = r.bind
      BY <1>5 DEF Decided, RowOK, Row
    <2>3. Append(s, e) \in AuditTrails(Decided(r, d))
      BY <1>3, <2>1, <2>2 DEF AuditTrails, AllowTrails
    <2> QED
      BY <1>1, <1>3, <1>5, <2>3 DEF RowOK, Decided, Row, Statuses
  <1> QED
    BY <1>4, <1>5

\* Spending a permit inside its window, and the receipt of it.
LEMMA SpentOK ==
    ASSUME NEW r, NEW s, NEW o, RowOK(r, s, o), r.status = "allowed",
           NEW at \in Time, ~Lapsed(r, at)
    PROVE  RowOK([r EXCEPT !.status = "consumed", !.consumedAt = at],
                 Append(s, ConsumptionReceipt(r.bind)), o)
  <1> DEFINE e == ConsumptionReceipt(r.bind)
             q == [r EXCEPT !.status = "consumed", !.consumedAt = at]
  <1>1. r \in Row /\ r.bind \in Bindings /\ s \in Seq(Receipt)
    BY DEF RowOK
  <1>2. PICK f \in Approvals(r.bind) : s = <<f>>
    BY DEF RowOK, AuditTrails, AllowTrails
  <1>3. e \in Receipt
    BY <1>1 DEF Receipt, ConsumptionReceipt
  <1>4. q \in Row /\ q.status = "consumed" /\ q.bind = r.bind /\ q.consumedAt = at
        /\ q.decision = r.decision
    BY <1>1 DEF Row, Statuses
  <1> HIDE DEF q, e
  <1>5. Append(s, e) = <<f, e>> /\ Append(s, e) \in Seq(Receipt)
    <2>1. f \in Receipt
      BY <1>1, <1>2 DEF Receipt, Approvals, DecisionReceipt, Verdicts
    <2>2. Append(<<f>>, e) = <<f, e>>
      BY <1>3, <2>1, AppendToOne
    <2> QED
      BY <1>1, <1>2, <1>3, <2>2
  <1>6. Append(s, e) \in AuditTrails(q)
    <2>1. e = ConsumptionReceipt(q.bind)
      BY <1>4 DEF e
    <2> QED
      BY <1>2, <1>4, <1>5, <2>1 DEF AuditTrails
  <1>7. at < r.bind.expires
    BY <1>1, HorizonAssumption DEF Lapsed, Bindings, Time
  <1>8. r.decision = "allow" /\ o \in Results \cup {NoOutcome}
    BY DEF RowOK
  <1>9. RowOK(q, Append(s, e), o)
    BY <1>1, <1>4, <1>5, <1>6, <1>7, <1>8 DEF RowOK
  <1> QED
    BY <1>9 DEF q, e

\* The outcome of a spent permit.
LEMMA ReportedOK ==
    ASSUME NEW r, NEW s, NEW o, RowOK(r, s, o), r.status = "consumed", NEW p \in Results
    PROVE  RowOK(r, s, p)
  BY DEF RowOK

-----------------------------------------------------------------------------
\* The statements, reduced to what they do to one action's records.

Rewrites(a, r, s, o) ==
    /\ rows' = [rows EXCEPT ![a] = r]
    /\ receipts' = [receipts EXCEPT ![a] = s]
    /\ outcomes' = [outcomes EXCEPT ![a] = o]
    /\ now' = now

Reserved(b) == [status |-> "pending", bind |-> b, decision |-> "", consumedAt |-> 0]
SpentRow(r, at) == [r EXCEPT !.status = "consumed", !.consumedAt = at]

Reserves(a) ==
    /\ rows[a].status = "none"
    /\ \E b \in Bindings : Rewrites(a, Reserved(b), receipts[a], outcomes[a])
Closes(a) ==
    /\ Unspent(rows[a])
    /\ \E st \in {"expired", "revoked"} :
        Rewrites(a, Closed(rows[a], st), receipts[a], outcomes[a])
Decides(a) ==
    /\ rows[a].status = "pending"
    /\ \E d \in Verdicts :
        Rewrites(a, Decided(rows[a], d),
                 Append(receipts[a], DecisionReceipt(d, rows[a].bind)), outcomes[a])
JoinsOther(a) ==
    /\ rows[a].status = "pending"
    /\ Rewrites(a, Decided(rows[a], "deny"), receipts[a], outcomes[a])
Spends(a) ==
    /\ rows[a].status = "allowed"
    /\ \E at \in Time :
        /\ ~Lapsed(rows[a], at)
        /\ Rewrites(a, SpentRow(rows[a], at),
                    Append(receipts[a], ConsumptionReceipt(rows[a].bind)), outcomes[a])
Reports(a) ==
    /\ rows[a].status = "consumed"
    /\ outcomes[a] = NoOutcome
    /\ \E o \in Results : Rewrites(a, rows[a], receipts[a], o)

Effect(a) ==
    \/ UNCHANGED storeVars
    \/ Reserves(a) \/ Closes(a) \/ Decides(a) \/ JoinsOther(a) \/ Spends(a) \/ Reports(a)

\* Every statement is one of those rewritings, or changes nothing.
LEMMA StatementEffect ==
    ASSUME StoreInv, NEW a \in Actions, Statement(a)
    PROVE  Effect(a)
  <1> USE DEF StoreInv
  <1>0. /\ rows = [rows EXCEPT ![a] = rows[a]]
        /\ receipts = [receipts EXCEPT ![a] = receipts[a]]
        /\ outcomes = [outcomes EXCEPT ![a] = outcomes[a]]
    OBVIOUS
  <1>1. ASSUME NEW b \in Bindings, ReserveToolAction(a, b)
        PROVE  Effect(a)
    BY <1>0, <1>1 DEF ReserveToolAction, Write, Known, Effect, Reserves, Rewrites, Reserved, storeVars
  <1>2. ASSUME NEW d \in Verdicts, NEW at \in 0 .. now,
               DecideToolActionWithReceipt(a, rows[a].bind, d, at)
        PROVE  Effect(a)
    <2>1. CASE rows[a].status = "pending" /\ Lapsed(rows[a], at)
      <3>1. Rewrites(a, Closed(rows[a], "expired"), receipts[a], outcomes[a])
        BY <1>0, <1>2, <2>1 DEF DecideToolActionWithReceipt, Write, Rewrites
      <3> QED
        BY <2>1, <3>1 DEF Effect, Closes, Unspent
    <2>2. CASE rows[a].status = "pending" /\ ~Lapsed(rows[a], at)
      <3>1. Rewrites(a, Decided(rows[a], d),
                     Append(receipts[a], DecisionReceipt(d, rows[a].bind)), outcomes[a])
        BY <1>0, <1>2, <2>2 DEF DecideToolActionWithReceipt, Write, Append1, Rewrites
      <3> QED
        BY <2>2, <3>1 DEF Effect, Decides
    <2>3. CASE rows[a].status # "pending"
      BY <1>2, <2>3 DEF DecideToolActionWithReceipt, Effect, storeVars
    <2> QED
      BY <2>1, <2>2, <2>3
  <1>3. ASSUME DecideToolAction(a)
        PROVE  Effect(a)
    BY <1>0, <1>3 DEF DecideToolAction, Write, Effect, JoinsOther, Rewrites, storeVars
  <1>4. ASSUME NEW b \in Bindings, NEW at \in 0 .. now, ConsumeToolActionWithReceipt(a, b, at)
        PROVE  Effect(a)
    <2>1. CASE Consumable(a, b, at)
      <3>1. at \in Time
        BY HorizonAssumption DEF Time
      <3>2. /\ rows[a].status = "allowed" /\ ~Lapsed(rows[a], at)
            /\ Rewrites(a, SpentRow(rows[a], at),
                        Append(receipts[a], ConsumptionReceipt(rows[a].bind)), outcomes[a])
        BY <1>0, <1>4, <2>1
        DEF ConsumeToolActionWithReceipt, Consumable, Write, Append1, Rewrites, SpentRow
      <3> QED
        BY <3>1, <3>2 DEF Effect, Spends
    <2>2. CASE ~Consumable(a, b, at)
      BY <1>4, <2>2 DEF ConsumeToolActionWithReceipt, Effect, storeVars
    <2> QED
      BY <2>1, <2>2
  <1>5. ASSUME NEW p \in Policies, NEW at \in 0 .. now, NormalizeToolAction(a, p, at)
        PROVE  Effect(a)
    BY <1>0, <1>5 DEF NormalizeToolAction, Write, Effect, Closes, Rewrites, storeVars
  <1>6. ASSUME NEW b \in Bindings, CancelToolAction(a, b)
        PROVE  Effect(a)
    BY <1>0, <1>6 DEF CancelToolAction, Write, Effect, Closes, Rewrites, storeVars
  <1>7. ASSUME NEW b \in Bindings, NEW o \in Results, CompleteToolAction(a, b, o)
        PROVE  Effect(a)
    BY <1>0, <1>7 DEF CompleteToolAction, Effect, Reports, Rewrites, storeVars
  <1> QED
    BY <1>1, <1>2, <1>3, <1>4, <1>5, <1>6, <1>7 DEF Statement

\* Rewriting one action's records to good ones keeps the invariant.
LEMMA RewriteKeepsInv ==
    ASSUME StoreInv, NEW a \in Actions, NEW r, NEW s, NEW o,
           RowOK(r, s, o), Rewrites(a, r, s, o)
    PROVE  StoreInv'
  <1>1. r \in Row /\ s \in Seq(Receipt) /\ o \in Results \cup {NoOutcome}
    BY DEF RowOK
  <1>2. /\ rows' \in [Actions -> Row]
        /\ receipts' \in [Actions -> Seq(Receipt)]
        /\ outcomes' \in [Actions -> Results \cup {NoOutcome}]
        /\ now' \in Time
    BY <1>1 DEF StoreInv, Rewrites
  <1>3. ASSUME NEW x \in Actions
        PROVE  RowOK(rows'[x], receipts'[x], outcomes'[x])
    <2>1. CASE x = a
      <3>1. rows'[x] = r /\ receipts'[x] = s /\ outcomes'[x] = o
        BY <2>1 DEF StoreInv, Rewrites
      <3> QED
        BY <3>1
    <2>2. CASE x # a
      <3>1. rows'[x] = rows[x] /\ receipts'[x] = receipts[x] /\ outcomes'[x] = outcomes[x]
        BY <2>2 DEF StoreInv, Rewrites
      <3> QED
        BY <3>1 DEF StoreInv
    <2> QED
      BY <2>1, <2>2
  <1> QED
    BY <1>2, <1>3 DEF StoreInv

\* The invariant holds initially.
LEMMA StoreInvInit == StoreInit => StoreInv
  <1> SUFFICES ASSUME StoreInit PROVE StoreInv
    OBVIOUS
  <1>1. NoRow \in Row /\ <<>> \in Seq(Receipt)
    BY NoRowOK DEF RowOK
  <1>2. 0 \in Time
    BY HorizonAssumption DEF Time
  <1> QED
    BY <1>1, <1>2, NoRowOK DEF StoreInit, StoreInv

\* Every step of the ledger keeps the invariant.
LEMMA StoreInvStep == StoreInv /\ [StoreNext]_storeVars => StoreInv'
  <1> SUFFICES ASSUME StoreInv, [StoreNext]_storeVars
               PROVE  StoreInv'
    OBVIOUS
  <1>0. \A a \in Actions : RowOK(rows[a], receipts[a], outcomes[a])
    BY DEF StoreInv
  <1>u. CASE UNCHANGED storeVars
    BY <1>u DEF StoreInv, storeVars
  <1>1. ASSUME NEW a \in Actions, Statement(a)
        PROVE  StoreInv'
    <2>1. CASE Reserves(a)
      <3>1. receipts[a] = <<>> /\ outcomes[a] = NoOutcome
        BY <1>0, <2>1 DEF RowOK, AuditTrails, Reserves
      <3> QED
        BY <2>1, <3>1, ReservedOK, RewriteKeepsInv DEF Reserves, Reserved
    <2>2. CASE Closes(a)
      BY <1>0, <2>2, ClosedOK, RewriteKeepsInv DEF Closes
    <2>3. CASE Decides(a)
      BY <1>0, <2>3, DecidedOK, RewriteKeepsInv DEF Decides
    <2>4. CASE JoinsOther(a)
      BY <1>0, <2>4, UnauditedDenialOK, RewriteKeepsInv DEF JoinsOther
    <2>5. CASE Spends(a)
      BY <1>0, <2>5, SpentOK, RewriteKeepsInv DEF Spends, SpentRow
    <2>6. CASE Reports(a)
      BY <1>0, <2>6, ReportedOK, RewriteKeepsInv DEF Reports
    <2> QED
      BY <1>1, <1>u, <2>1, <2>2, <2>3, <2>4, <2>5, <2>6, StatementEffect DEF Effect
  <1>2. ASSUME NEW at \in 0 .. now, ExpireToolActions(at)
        PROVE  StoreInv'
    <2>1. ASSUME NEW a \in Actions
          PROVE  RowOK(rows'[a], receipts'[a], outcomes'[a])
      <3>1. receipts'[a] = receipts[a] /\ outcomes'[a] = outcomes[a]
        BY <1>2 DEF ExpireToolActions
      <3>2. \/ rows'[a] = rows[a]
            \/ Unspent(rows[a]) /\ rows'[a] = Closed(rows[a], "expired")
        BY <1>2 DEF ExpireToolActions, Unspent
      <3> QED
        BY <1>0, <3>1, <3>2, ClosedOK
    <2>2. \A a \in Actions : rows'[a] \in Row
      BY <2>1 DEF RowOK
    <2>3. rows' \in [Actions -> Row]
      BY <1>2, <2>2 DEF ExpireToolActions
    <2> QED
      BY <1>2, <2>1, <2>3 DEF StoreInv, ExpireToolActions
  <1>3. CASE Tick
    BY <1>3, HorizonAssumption DEF Tick, StoreInv, Time
  <1> QED
    BY <1>1, <1>2, <1>3, <1>u DEF StoreNext

\* So it always holds.
LEMMA StoreInvAlways == StoreSpec => []StoreInv
  BY StoreInvInit, StoreInvStep, PTL DEF StoreSpec

-----------------------------------------------------------------------------
\* The invariant implies what the runs check.

LEMMA StoreInvImplies ==
    StoreInv => /\ TypeOK
                /\ AuditMatchesState
                /\ DecisionFollowsStatus
                /\ SpentInsideWindow
                /\ OutcomeOnlyIfSpent
  BY DEF StoreInv, RowOK, TypeOK, Known, AuditMatchesState, DecisionFollowsStatus,
         SpentInsideWindow, OutcomeOnlyIfSpent

\* The ledger's tables stay well typed, and every known action has a binding
\* (ReserveToolAction writes it, nothing rewrites it).
THEOREM LedgerTypes == StoreSpec => []TypeOK
  BY StoreInvAlways, StoreInvImplies, PTL

\* The receipts agree with the rows at every instant: a decision and its
\* receipt, a consumption and its receipt, are one transaction each.
THEOREM ReceiptsMatchRows == StoreSpec => []AuditMatchesState
  BY StoreInvAlways, StoreInvImplies, PTL

\* The decision column that the daily totals sum over follows the status.
THEOREM DecisionColumn == StoreSpec => []DecisionFollowsStatus
  BY StoreInvAlways, StoreInvImplies, PTL

\* No permit is spent at or after the end of its window.
THEOREM WindowHolds == StoreSpec => []SpentInsideWindow
  BY StoreInvAlways, StoreInvImplies, PTL

\* Only a spent permit has a reported outcome.
THEOREM OutcomesAreOfSpentPermits == StoreSpec => []OutcomeOnlyIfSpent
  BY StoreInvAlways, StoreInvImplies, PTL

-----------------------------------------------------------------------------
\* Action property: history is final.

\* An action whose records a step leaves alone keeps its history.
LEMMA UntouchedKeepsHistory ==
    ASSUME StoreInv, NEW a \in Actions,
           rows'[a] = rows[a], receipts'[a] = receipts[a], outcomes'[a] = outcomes[a]
    PROVE  KeepsHistory(a)
  <1>1. Len(receipts[a]) \in Nat
    BY DEF StoreInv
  <1> QED
    BY <1>1 DEF KeepsHistory, Known

\* Appending a receipt keeps the earlier ones.
LEMMA AppendKeepsReceipts ==
    ASSUME StoreInv, NEW a \in Actions, NEW e \in Receipt,
           receipts'[a] = Append(receipts[a], e)
    PROVE  /\ Len(receipts'[a]) >= Len(receipts[a])
           /\ \A i \in 1 .. Len(receipts[a]) : receipts'[a][i] = receipts[a][i]
  <1>1. receipts[a] \in Seq(Receipt)
    BY DEF StoreInv
  <1> QED
    BY <1>1, AppendProperties

\* Receipts of every kind are receipts.
LEMMA ReceiptTypes ==
    ASSUME NEW b \in Bindings
    PROVE  /\ ConsumptionReceipt(b) \in Receipt
           /\ \A d \in Verdicts : DecisionReceipt(d, b) \in Receipt
  BY DEF Receipt, ConsumptionReceipt, DecisionReceipt

\* What a statement does to one action keeps every action's history.
LEMMA EffectKeepsHistory ==
    ASSUME StoreInv, NEW a \in Actions, Effect(a), NEW x \in Actions
    PROVE  KeepsHistory(x)
  <1>0. RowOK(rows[a], receipts[a], outcomes[a]) /\ rows[a] \in Row /\ Len(receipts[a]) \in Nat
    BY DEF StoreInv
  <1>u. CASE UNCHANGED storeVars
    BY <1>u, UntouchedKeepsHistory DEF storeVars
  <1>r. ASSUME NEW r, NEW s, NEW o, Rewrites(a, r, s, o)
        PROVE  /\ rows'[a] = r /\ receipts'[a] = s /\ outcomes'[a] = o
               /\ x # a => KeepsHistory(x)
    <2>1. rows'[a] = r /\ receipts'[a] = s /\ outcomes'[a] = o
      BY <1>r DEF Rewrites, StoreInv
    <2>2. ASSUME x # a
          PROVE  rows'[x] = rows[x] /\ receipts'[x] = receipts[x] /\ outcomes'[x] = outcomes[x]
      BY <1>r, <2>2 DEF Rewrites, StoreInv
    <2> QED
      BY <2>1, <2>2, UntouchedKeepsHistory
  <1>1. CASE Reserves(a)
    BY <1>0, <1>1, <1>r DEF Reserves, KeepsHistory, Settled, Known
  <1>2. CASE Closes(a)
    <2>1. PICK st \in {"expired", "revoked"} :
            Rewrites(a, Closed(rows[a], st), receipts[a], outcomes[a])
      BY <1>2 DEF Closes
    <2>2. /\ Closed(rows[a], st).status # "none"
          /\ Closed(rows[a], st).bind = rows[a].bind
          /\ ~Settled(a)
      BY <1>0, <1>2 DEF Closed, Row, Closes, Unspent, Settled
    <2> QED
      BY <1>0, <1>r, <2>1, <2>2 DEF KeepsHistory
  <1>3. CASE Decides(a)
    <2> DEFINE e(d) == DecisionReceipt(d, rows[a].bind)
    <2>1. PICK d \in Verdicts :
            Rewrites(a, Decided(rows[a], d), Append(receipts[a], e(d)), outcomes[a])
      BY <1>3 DEF Decides
    <2>2. /\ Decided(rows[a], d).status # "none"
          /\ Decided(rows[a], d).bind = rows[a].bind
          /\ ~Settled(a) /\ e(d) \in Receipt
      BY <1>0, <1>3, ReceiptTypes DEF Decided, Row, Decides, Settled, RowOK
    <2> HIDE DEF e
    <2>3. /\ rows'[a] = Decided(rows[a], d) /\ receipts'[a] = Append(receipts[a], e(d))
          /\ outcomes'[a] = outcomes[a]
          /\ x # a => KeepsHistory(x)
      <3> DEFINE r == Decided(rows[a], d)
                 s == Append(receipts[a], e(d))
      <3>1. Rewrites(a, r, s, outcomes[a])
        BY <2>1
      <3> HIDE DEF r, s
      <3>2. /\ rows'[a] = r /\ receipts'[a] = s /\ outcomes'[a] = outcomes[a]
            /\ x # a => KeepsHistory(x)
        BY <1>r, <3>1
      <3> QED
        BY <3>2 DEF r, s
    <2>4. /\ Len(receipts'[a]) >= Len(receipts[a])
          /\ \A i \in 1 .. Len(receipts[a]) : receipts'[a][i] = receipts[a][i]
      BY <2>2, <2>3, AppendKeepsReceipts
    <2>5. KeepsHistory(a)
      BY <2>2, <2>3, <2>4 DEF KeepsHistory
    <2> QED
      BY <2>3, <2>5
  <1>4. CASE JoinsOther(a)
    <2>1. /\ Decided(rows[a], "deny").status # "none"
          /\ Decided(rows[a], "deny").bind = rows[a].bind
          /\ ~Settled(a)
      BY <1>0, <1>4 DEF Decided, Row, JoinsOther, Settled
    <2> QED
      BY <1>0, <1>4, <1>r, <2>1 DEF KeepsHistory, JoinsOther
  <1>5. CASE Spends(a)
    <2> DEFINE e == ConsumptionReceipt(rows[a].bind)
    <2>1. PICK at \in Time :
            Rewrites(a, SpentRow(rows[a], at), Append(receipts[a], e), outcomes[a])
      BY <1>5 DEF Spends
    <2>2. /\ SpentRow(rows[a], at).status # "none"
          /\ SpentRow(rows[a], at).bind = rows[a].bind
          /\ ~Settled(a) /\ e \in Receipt
      BY <1>0, <1>5, ReceiptTypes DEF SpentRow, Row, Spends, Settled, RowOK
    <2> HIDE DEF e
    <2>3. /\ rows'[a] = SpentRow(rows[a], at) /\ receipts'[a] = Append(receipts[a], e)
          /\ outcomes'[a] = outcomes[a]
          /\ x # a => KeepsHistory(x)
      <3> DEFINE r == SpentRow(rows[a], at)
                 s == Append(receipts[a], e)
      <3>1. Rewrites(a, r, s, outcomes[a])
        BY <2>1
      <3> HIDE DEF r, s
      <3>2. /\ rows'[a] = r /\ receipts'[a] = s /\ outcomes'[a] = outcomes[a]
            /\ x # a => KeepsHistory(x)
        BY <1>r, <3>1
      <3> QED
        BY <3>2 DEF r, s
    <2>4. /\ Len(receipts'[a]) >= Len(receipts[a])
          /\ \A i \in 1 .. Len(receipts[a]) : receipts'[a][i] = receipts[a][i]
      BY <2>2, <2>3, AppendKeepsReceipts
    <2>5. KeepsHistory(a)
      BY <2>2, <2>3, <2>4 DEF KeepsHistory
    <2> QED
      BY <2>3, <2>5
  <1>6. CASE Reports(a)
    BY <1>0, <1>6, <1>r DEF Reports, KeepsHistory, Settled, Known
  <1> QED
    BY <1>u, <1>1, <1>2, <1>3, <1>4, <1>5, <1>6 DEF Effect

\* Every step of the ledger keeps every action's history.
LEMMA StepKeepsHistory ==
    ASSUME StoreInv, [StoreNext]_storeVars, NEW a \in Actions
    PROVE  KeepsHistory(a)
  <1>u. CASE UNCHANGED storeVars
    BY <1>u, UntouchedKeepsHistory DEF storeVars
  <1>1. ASSUME NEW x \in Actions, Statement(x)
        PROVE  KeepsHistory(a)
    BY <1>1, StatementEffect, EffectKeepsHistory
  <1>2. ASSUME NEW at \in 0 .. now, ExpireToolActions(at)
        PROVE  KeepsHistory(a)
    <2>1. receipts'[a] = receipts[a] /\ outcomes'[a] = outcomes[a]
          /\ Len(receipts[a]) \in Nat /\ rows[a] \in Row
      BY <1>2 DEF ExpireToolActions, StoreInv
    <2>2. \/ rows'[a] = rows[a]
          \/ Unspent(rows[a]) /\ rows'[a] = Closed(rows[a], "expired")
      BY <1>2 DEF ExpireToolActions, Unspent
    <2>3. CASE rows'[a] = rows[a]
      BY <2>1, <2>3, UntouchedKeepsHistory
    <2>4. CASE Unspent(rows[a]) /\ rows'[a] = Closed(rows[a], "expired")
      <3>1. ~Settled(a) /\ rows'[a].status # "none" /\ rows'[a].bind = rows[a].bind
        BY <2>1, <2>4 DEF Settled, Unspent, Closed, Row
      <3> QED
        BY <2>1, <3>1 DEF KeepsHistory
    <2> QED
      BY <2>2, <2>3, <2>4
  <1>3. CASE Tick
    BY <1>3, UntouchedKeepsHistory DEF Tick
  <1> QED
    BY <1>u, <1>1, <1>2, <1>3 DEF StoreNext

\* No step reopens or respends a settled permit, forgets or rebinds an action
\* id, drops or rewrites a receipt, or changes a reported outcome.
THEOREM HistoryFinal == StoreSpec => HistoryIsFinal
  <1>1. StoreInv /\ [StoreNext]_storeVars => [\A a \in Actions : KeepsHistory(a)]_storeVars
    BY StepKeepsHistory
  <1> QED
    BY <1>1, StoreInvAlways, PTL DEF StoreSpec, HistoryIsFinal

-----------------------------------------------------------------------------
\* Refinement of the abstract permit.

Phase == [a \in Actions |-> PhaseOf(rows[a])]
Trail == [a \in Actions |-> TrailOf(receipts[a])]

\* What the abstract trail makes of the receipts a row may have.
LEMMA TrailOfReceipts ==
    ASSUME NEW b \in Bindings
    PROVE  /\ TrailOf(<<>>) = "none"
           /\ TrailOf(<<DecisionReceipt("deny", b)>>) = "deny"
           /\ \A f \in Approvals(b) : TrailOf(<<f>>) = "allow"
           /\ \A f \in Approvals(b) : TrailOf(<<f, ConsumptionReceipt(b)>>) = "spent"
  <1>1. \A f \in Approvals(b) : f.decision # "deny"
    BY DEF Approvals, DecisionReceipt
  <1>2. \A f : Len(<<f>>) = 1 /\ <<f>> # <<>> /\ <<f>>[1] = f
    OBVIOUS
  <1>3. \A f, g : Len(<<f, g>>) = 2 /\ <<f, g>> # <<>>
    OBVIOUS
  <1> QED
    BY <1>1, <1>2, <1>3 DEF TrailOf, DecisionReceipt

\* A rewriting of one action's records moves the abstract permit of that
\* action only.
LEMMA RewriteMapped ==
    ASSUME StoreInv, NEW a \in Actions, NEW r, NEW s, NEW o, Rewrites(a, r, s, o)
    PROVE  /\ Phase' = [Phase EXCEPT ![a] = PhaseOf(r)]
           /\ Trail' = [Trail EXCEPT ![a] = TrailOf(s)]
  BY DEF StoreInv, Rewrites, Phase, Trail

\* What a statement does is a step of the abstract permit, or none.
LEMMA EffectMapped ==
    ASSUME StoreInv, NEW a \in Actions, Effect(a)
    PROVE  AbstractPermit!Next \/ (Phase' = Phase /\ Trail' = Trail)
  <1>0. RowOK(rows[a], receipts[a], outcomes[a]) /\ rows[a] \in Row
    BY DEF StoreInv
  <1>p. Phase[a] = PhaseOf(rows[a]) /\ Trail[a] = TrailOf(receipts[a])
    BY DEF Phase, Trail
  <1>s. /\ Phase = [Phase EXCEPT ![a] = Phase[a]]
        /\ Trail = [Trail EXCEPT ![a] = Trail[a]]
    BY DEF Phase, Trail
  <1>u. CASE UNCHANGED storeVars
    BY <1>u DEF storeVars, Phase, Trail
  <1>c. ASSUME Unspent(rows[a]), Phase' = [Phase EXCEPT ![a] = "closed"], Trail' = Trail
        PROVE  AbstractPermit!Next
    <2>1. Phase[a] \in {"open", "granted"}
      BY <1>c, <1>p DEF Unspent, PhaseOf
    <2>2. Phase' = [x \in Actions |-> IF x \in {a} THEN "closed" ELSE Phase[x]]
      BY <1>c DEF Phase
    <2>3. AbstractPermit!Close({a})
      BY <1>c, <2>1, <2>2 DEF AbstractPermit!Close, Phase, Trail
    <2> QED
      BY <2>3 DEF AbstractPermit!Next
  <1>1. CASE Reserves(a)
    <2>1. PICK b \in Bindings : Rewrites(a, Reserved(b), receipts[a], outcomes[a])
      BY <1>1 DEF Reserves
    <2>2. Phase[a] = "unknown" /\ PhaseOf(Reserved(b)) = "open"
      BY <1>1, <1>p DEF Reserves, PhaseOf, Reserved
    <2>3. Phase' = [Phase EXCEPT ![a] = "open"] /\ Trail' = Trail
      BY <1>p, <1>s, <2>1, <2>2, RewriteMapped
    <2>4. AbstractPermit!Ask(a)
      BY <2>2, <2>3 DEF AbstractPermit!Ask, Phase, Trail
    <2> QED
      BY <2>4 DEF AbstractPermit!Next
  <1>2. CASE Closes(a)
    <2>1. PICK st \in {"expired", "revoked"} :
            Rewrites(a, Closed(rows[a], st), receipts[a], outcomes[a])
      BY <1>2 DEF Closes
    <2>2. PhaseOf(Closed(rows[a], st)) = "closed"
      BY <1>0 DEF PhaseOf, Closed, Row
    <2>3. Phase' = [Phase EXCEPT ![a] = "closed"] /\ Trail' = Trail
      BY <1>p, <1>s, <2>1, <2>2, RewriteMapped
    <2> QED
      BY <1>2, <1>c, <2>3 DEF Closes
  <1>3. CASE Decides(a)
    <2> DEFINE e(d) == DecisionReceipt(d, rows[a].bind)
    <2>1. PICK d \in Verdicts :
            Rewrites(a, Decided(rows[a], d), Append(receipts[a], e(d)), outcomes[a])
      BY <1>3 DEF Decides
    <2>2. receipts[a] = <<>> /\ rows[a].bind \in Bindings /\ Phase[a] = "open"
      BY <1>0, <1>3, <1>p DEF RowOK, AuditTrails, Decides, PhaseOf
    <2>3. Append(receipts[a], e(d)) = <<e(d)>>
      BY <2>2
    <2>4. Phase' = [Phase EXCEPT ![a] = PhaseOf(Decided(rows[a], d))]
          /\ Trail' = [Trail EXCEPT ![a] = TrailOf(<<e(d)>>)]
      BY <2>1, <2>3, RewriteMapped
    <2>5. CASE d = "deny"
      <3>1. PhaseOf(Decided(rows[a], d)) = "closed" /\ TrailOf(<<e(d)>>) = "deny"
        BY <1>0, <2>2, <2>5, TrailOfReceipts DEF PhaseOf, Decided, Row
      <3>2. AbstractPermit!Refuse(a)
        BY <2>2, <2>4, <3>1 DEF AbstractPermit!Refuse, Phase, Trail
      <3> QED
        BY <3>2 DEF AbstractPermit!Next
    <2>6. CASE d # "deny"
      <3>1. e(d) \in Approvals(rows[a].bind)
        BY <2>6 DEF Verdicts, Approvals
      <3>2. PhaseOf(Decided(rows[a], d)) = "granted" /\ TrailOf(<<e(d)>>) = "allow"
        BY <1>0, <2>2, <2>6, <3>1, TrailOfReceipts DEF PhaseOf, Decided, Row
      <3>3. AbstractPermit!Grant(a)
        BY <2>2, <2>4, <3>2 DEF AbstractPermit!Grant, Phase, Trail
      <3> QED
        BY <3>3 DEF AbstractPermit!Next
    <2> QED
      BY <2>5, <2>6
  <1>4. CASE JoinsOther(a)
    <2>1. PhaseOf(Decided(rows[a], "deny")) = "closed"
      BY <1>0 DEF PhaseOf, Decided, Row
    <2>2. Phase' = [Phase EXCEPT ![a] = "closed"] /\ Trail' = Trail
      BY <1>4, <1>p, <1>s, <2>1, RewriteMapped DEF JoinsOther
    <2> QED
      BY <1>4, <1>c, <2>2 DEF JoinsOther, Unspent
  <1>5. CASE Spends(a)
    <2> DEFINE b == rows[a].bind
               e == ConsumptionReceipt(b)
    <2>1. PICK at \in Time :
            Rewrites(a, SpentRow(rows[a], at), Append(receipts[a], e), outcomes[a])
      BY <1>5 DEF Spends
    <2>2. PICK f \in Approvals(b) : receipts[a] = <<f>>
      BY <1>0, <1>5 DEF RowOK, AuditTrails, AllowTrails, Spends
    <2>3. b \in Bindings /\ Phase[a] = "granted" /\ f \in Receipt /\ e \in Receipt
      <3>1. b \in Bindings /\ Phase[a] = "granted"
        BY <1>0, <1>5, <1>p DEF RowOK, Spends, PhaseOf
      <3> QED
        BY <2>2, <3>1, ReceiptTypes DEF Approvals, Verdicts
    <2> HIDE DEF b, e
    <2>4. Append(receipts[a], e) = <<f, e>>
      BY <2>2, <2>3, AppendToOne
    <2>5. PhaseOf(SpentRow(rows[a], at)) = "spent" /\ TrailOf(<<f, e>>) = "spent"
      BY <1>0, <2>2, <2>3, TrailOfReceipts DEF PhaseOf, SpentRow, Row, e
    <2>6. Phase' = [Phase EXCEPT ![a] = "spent"] /\ Trail' = [Trail EXCEPT ![a] = "spent"]
      BY <2>1, <2>4, <2>5, RewriteMapped
    <2>7. AbstractPermit!Spend(a)
      BY <2>3, <2>6 DEF AbstractPermit!Spend, Phase, Trail
    <2> QED
      BY <2>7 DEF AbstractPermit!Next
  <1>6. CASE Reports(a)
    <2>1. PICK o \in Results : Rewrites(a, rows[a], receipts[a], o)
      BY <1>6 DEF Reports
    <2> QED
      BY <1>p, <1>s, <2>1, RewriteMapped
  <1> QED
    BY <1>u, <1>1, <1>2, <1>3, <1>4, <1>5, <1>6 DEF Effect

\* Every behaviour of the ledger, through any interleaving of statements,
\* restarts included, is a behaviour of the abstract permit: asked once,
\* answered at most once, spent at most once, each with its receipt.
THEOREM LedgerImplementsPermit == StoreSpec => ImplementsPermit
  <1>1. StoreInit => AbstractPermit!Init
    <2>1. PhaseOf(NoRow) = "unknown" /\ TrailOf(<<>>) = "none"
      BY DEF PhaseOf, NoRow, TrailOf
    <2> QED
      BY <2>1 DEF StoreInit, AbstractPermit!Init
  <1>2. StoreInv /\ [StoreNext]_storeVars => [AbstractPermit!Next]_(AbstractPermit!vars)
    <2> SUFFICES ASSUME StoreInv, [StoreNext]_storeVars
                 PROVE  AbstractPermit!Next \/ (Phase' = Phase /\ Trail' = Trail)
      BY DEF AbstractPermit!vars, Phase, Trail
    <2>u. CASE UNCHANGED storeVars
      BY <2>u DEF storeVars, Phase, Trail
    <2>1. ASSUME NEW a \in Actions, Statement(a)
          PROVE  AbstractPermit!Next \/ (Phase' = Phase /\ Trail' = Trail)
      BY <2>1, StatementEffect, EffectMapped
    <2>2. ASSUME NEW at \in 0 .. now, ExpireToolActions(at)
          PROVE  AbstractPermit!Next \/ (Phase' = Phase /\ Trail' = Trail)
      <3> DEFINE S == {a \in Actions : \/ rows[a].status = "pending"
                                       \/ rows[a].status = "allowed" /\ Lapsed(rows[a], at)}
      <3>1. Trail' = Trail
        BY <2>2 DEF ExpireToolActions, Trail
      <3>2. ASSUME NEW a \in Actions
            PROVE  Phase'[a] = IF a \in S THEN "closed" ELSE Phase[a]
        <4>1. rows[a] \in Row
          BY DEF StoreInv
        <4>2. CASE a \in S
          BY <2>2, <4>1, <4>2 DEF ExpireToolActions, Phase, PhaseOf, Closed, Row
        <4>3. CASE a \notin S
          BY <2>2, <4>3 DEF ExpireToolActions, Phase
        <4> QED
          BY <4>2, <4>3
      <3>3. Phase' = [a \in Actions |-> IF a \in S THEN "closed" ELSE Phase[a]]
        BY <3>2 DEF Phase
      <3>4. \A a \in S : Phase[a] \in {"open", "granted"}
        BY DEF Phase, PhaseOf
      <3>5. CASE S = {}
        BY <3>1, <3>3, <3>5 DEF Phase
      <3>6. CASE S # {}
        <4>1. S \in SUBSET Actions
          OBVIOUS
        <4> HIDE DEF S
        <4>2. AbstractPermit!Close(S)
          BY <3>1, <3>3, <3>4, <3>6 DEF AbstractPermit!Close, Phase, Trail
        <4> QED
          BY <4>1, <4>2 DEF AbstractPermit!Next
      <3> QED
        BY <3>5, <3>6
    <2>3. CASE Tick
      BY <2>3 DEF Tick, Phase, Trail
    <2> QED
      BY <2>u, <2>1, <2>2, <2>3 DEF StoreNext
  <1> QED
    BY <1>1, <1>2, StoreInvAlways, PTL DEF StoreSpec, ImplementsPermit, AbstractPermit!Spec

=============================================================================
