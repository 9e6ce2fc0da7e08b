--------------------------- MODULE ApprovalProofs ---------------------------
(***************************************************************************)
(* What ApprovalGate's run shows on two gates and three operators, proved   *)
(* for every set of gates, operators and approvers, every quorum and every  *)
(* bound: a release is approved, a draft has one verdict, and no gate       *)
(* vanishes over a restart.                                                 *)
(*                                                                          *)
(* None of the three is inductive.  Each speaks of the trail, and what the  *)
(* trail may still become is decided by where the goroutine of the gate     *)
(* stands, by its durable row and by what the boot has still to audit:      *)
(* GateOK ties these together, gate by gate, since a step of one gate       *)
(* touches no other.                                                        *)
(***************************************************************************)
EXTENDS ApprovalGate, FiniteSetTheorems, TLAPS

Kept == {"none", "pending", "resolved", "interrupted"}

\* The types of the state.  Nothing is said of askers: a text is never a
\* decision by itself, whoever it is delivered to.
Typed ==
    /\ steps \in [Gates -> StepRecord]
    /\ waiters \in [Gates -> {0} \cup Cycles]
    /\ buffers \in [Gates -> Seq(Update)]
    /\ pending \in [Gates -> [Cycles -> Kept]]
    /\ audit \in [Gates -> SUBSET ((Cycles \cup {PolicyCycle}) \X Decisions)]
    /\ tapped \in [Gates -> SUBSET (Cycles \X Operators)]
    /\ todo \subseteq Gates \X Cycles /\ marking \in (Gates \X Cycles) \cup {NoMessage}

\* Who tapped approve on the message of the draft in force, of those who may.
Tappers(g) == {o \in Approvers : <<Cycle(g), o>> \in tapped[g]}

\* What the trail says of a cycle; a quorum that was not reached adds its own
\* row to the adjustment that used the cycles up.
Verdicts(g, c) == {d \in Decisions \ {"quorum_fail"} : <<c, d>> \in audit[g]}

\* A tap counts only while its gate waits, on the message it was made on.
Counts(g, u) ==
    u.kind = "approve" => At(g, "wait") /\ (u.from \in Approvers => u.from \in Tappers(g))

\* The goroutine's own variables: the waiter and the cycle go with the place
\* it stands at, and nobody is counted who has not tapped on this draft.
StepOK(g) ==
    /\ waiters[g] = IF At(g, "wait") THEN Cycle(g) ELSE 0
    /\ At(g, "idle") => steps[g] = NoStep
    /\ steps[g].pc \notin {"idle", "over"} => Cycle(g) \in Cycles
    /\ At(g, "rewrite") => Cycle(g) <= MaxAdjust(g)
    /\ steps[g].approved \subseteq Tappers(g)
    /\ \A i \in 1 .. Len(buffers[g]) : Counts(g, buffers[g][i])
    /\ steps[g].pc \in {"resolve", "audit"} =>
           /\ steps[g].action # ""
           /\ steps[g].action = "approve" => Cardinality(steps[g].approved) >= Quorum[g]

\* A veto of a quorum gate stands wherever the goroutine is.
VetoOK(g) ==
    Quorum[g] >= 2 /\ g \in vetoed =>
        \/ At(g, "wait") /\ steps[g].textFor = "skip"
        \/ steps[g].pc \in {"resolve", "audit"} /\ steps[g].action = "skip"
        \/ steps[g].pc \in {"note", "over"} /\ ~steps[g].released

\* A release, and what stands behind it.
ReleaseOK(g) ==
    steps[g].released =>
      /\ At(g, "over")
      /\ Quorum[g] >= 2 => g \notin vetoed
      /\ \/ <<PolicyCycle, "policy_approve">> \in audit[g]
         \/ /\ <<Cycle(g), "approve">> \in audit[g]
            /\ Cardinality(Tappers(g)) >= Quorum[g]

\* The durable row goes with the goroutine: none ahead of it, pending from
\* the prompt to the decision, settled once the decision is being recorded.
RowOK(g) ==
    \A c \in Cycles :
        /\ c > Cycle(g) => pending[g][c] = "none"
        /\ c = Cycle(g) =>
             /\ steps[g].pc \in {"send", "register", "wait", "resolve"} => pending[g][c] = "pending"
             /\ steps[g].pc \in {"audit", "note", "fail", "rewrite"} => pending[g][c] = "resolved"

\* At most one verdict, none before the decision, and a draft whose row is
\* still pending can only have been found interrupted.
VerdictOK(g) ==
    \A c \in Cycles :
        /\ \A d, e \in Verdicts(g, c) : d = e
        /\ Verdicts(g, c) # {} =>
             c < Cycle(g) \/ (c = Cycle(g) /\ steps[g].pc \in {"note", "fail", "rewrite", "over"})
        /\ pending[g][c] = "pending" => Verdicts(g, c) \subseteq {"interrupted"}

\* What the boot has in hand is a row that a dead run left pending; it marks
\* the row once it has audited it, or the write that failed is in the log.
BootOK(g) ==
    \A c \in Cycles :
        /\ <<g, c>> \in todo \/ marking = <<g, c>> => At(g, "over") /\ pending[g][c] = "pending"
        /\ marking = <<g, c>> =>
             /\ <<g, c>> \notin todo
             /\ g \notin excused => <<c, "interrupted">> \in audit[g]

\* Nothing vanishes: not even while the boot is at work.
Live(g, c) == Cycle(g) = c /\ ~At(g, "over")
TrailOK(g) ==
    g \notin excused => \A c \in Cycles :
        /\ pending[g][c] = "pending" => Live(g, c) \/ <<g, c>> \in todo \/ marking = <<g, c>>
        /\ pending[g][c] \in {"resolved", "interrupted"} =>
               \/ Live(g, c) /\ At(g, "audit")
               \/ Verdicts(g, c) # {}

\* The invariant of one gate.
GateOK(g) ==
    StepOK(g) /\ VetoOK(g) /\ ReleaseOK(g) /\ RowOK(g) /\ VerdictOK(g) /\ BootOK(g) /\ TrailOK(g)

\* The inductive invariant.
ApprovalInv == Typed /\ \A g \in Gates : GateOK(g)

-----------------------------------------------------------------------------
\* Steps leave the gates they are not about alone.

\* Nothing of what the invariant says of a gate has changed.
Same(h) ==
    /\ steps'[h] = steps[h] /\ waiters'[h] = waiters[h] /\ buffers'[h] = buffers[h]
    /\ pending'[h] = pending[h] /\ audit'[h] = audit[h] /\ tapped'[h] = tapped[h]
    /\ h \in vetoed' <=> h \in vetoed
    /\ h \in excused' <=> h \in excused
    /\ \A c \in Cycles : /\ <<h, c>> \in todo' <=> <<h, c>> \in todo
                         /\ marking' = <<h, c>> <=> marking = <<h, c>>

\* A gate that nothing happened to keeps its invariant.
LEMMA SameKeeps ==
    ASSUME NEW h \in Gates, Same(h), GateOK(h)
    PROVE  GateOK(h)'
<1>1. /\ steps'[h] = steps[h] /\ waiters'[h] = waiters[h] /\ buffers'[h] = buffers[h]
      /\ pending'[h] = pending[h] /\ audit'[h] = audit[h] /\ tapped'[h] = tapped[h]
      /\ h \in vetoed' <=> h \in vetoed
      /\ h \in excused' <=> h \in excused
      /\ \A c \in Cycles : /\ <<h, c>> \in todo' <=> <<h, c>> \in todo
                           /\ marking' = <<h, c>> <=> marking = <<h, c>>
  BY DEF Same
<1>2. Cycle(h)' = Cycle(h) /\ Tappers(h)' = Tappers(h)
  BY <1>1 DEF Cycle, Tappers
<1>3. \A c \in Cycles : Verdicts(h, c)' = Verdicts(h, c) /\ (Live(h, c)' <=> Live(h, c))
  BY <1>1 DEF Verdicts, Live, Cycle, At
<1>4. StepOK(h)'
  <2>1. StepOK(h)
    BY DEF GateOK
  <2>2. \A i \in 1 .. Len(buffers[h]) : Counts(h, buffers[h][i])'
    BY <1>1, <1>2, <2>1 DEF StepOK, Counts, At
  <2> QED BY <1>1, <1>2, <2>1, <2>2 DEF StepOK, At, MaxAdjust
<1>5. VetoOK(h)'
  BY <1>1 DEF GateOK, VetoOK, At
<1>6. ReleaseOK(h)'
  BY <1>1, <1>2 DEF GateOK, ReleaseOK, At
<1>7. RowOK(h)'
  BY <1>1, <1>2 DEF GateOK, RowOK
<1>8. VerdictOK(h)'
  BY <1>1, <1>2, <1>3 DEF GateOK, VerdictOK
<1>9. BootOK(h)'
  BY <1>1 DEF GateOK, BootOK, At
<1>10. TrailOK(h)'
  BY <1>1, <1>2, <1>3 DEF GateOK, TrailOK, At
<1> QED BY <1>4, <1>5, <1>6, <1>7, <1>8, <1>9, <1>10 DEF GateOK

\* The goroutine of a gate writes its own entries only.
LEMMA RunAlone ==
    ASSUME Typed, NEW g \in Gates, Run(g), NEW h \in Gates, h # g
    PROVE  Same(h)
<1> USE DEF Typed, Same, pumpVars, storeVars, bootVars, history, bounds
<1>1. CASE AutoApprove(g)
  BY <1>1 DEF AutoApprove, Halt, Excuse, Go
<1>2. CASE Enter(g)
  BY <1>2 DEF Enter
<1>3. CASE BeginApproval(g)
  BY <1>3 DEF BeginApproval, Halt, Excuse, Go
<1>4. CASE SendDraft(g)
  BY <1>4 DEF SendDraft
<1>5. CASE Register(g)
  BY <1>5 DEF Register
<1>6. CASE Handle(g)
  <2> PICK u : /\ \/ Ignore(g)
                  \/ HandleQuorum(g, u)
                  \/ HandleSingle(g, u)
               /\ UNCHANGED <<storeVars, bootVars, tapped, excused, bounds>>
    BY <1>6 DEF Handle
  <2>1. CASE Ignore(g)
    BY <2>1 DEF Ignore, Stay
  <2>2. ASSUME NEW a, NEW b, NEW c, Decide(g, a, b, c) PROVE Same(h)
    BY <2>2 DEF Decide
  <2>3. ASSUME NEW for, Ask(g, for, u) PROVE Same(h)
    BY <2>3 DEF Ask, Stay
  <2>4. CASE Approving(g, u)
    <3>1. CASE Decide(g, "approve", steps[g].approved \cup {u.from}, FALSE)
      BY <3>1, <2>2
    <3>2. CASE ~ Decide(g, "approve", steps[g].approved \cup {u.from}, FALSE)
      BY <3>2, <2>4 DEF Approving, Stay
    <3> QED BY <3>1, <3>2
  <2>5. CASE HandleQuorum(g, u)
    BY <2>2, <2>3, <2>4, <2>5 DEF HandleQuorum
  <2>6. CASE HandleSingle(g, u)
    BY <2>2, <2>3, <2>6 DEF HandleSingle
  <2> QED BY <2>1, <2>5, <2>6
<1>7. CASE Elapse(g)
  BY <1>7 DEF Elapse, Decide
<1>8. CASE ResolveApproval(g)
  BY <1>8 DEF ResolveApproval, Halt, Excuse, Go
<1>9. CASE RecordAudit(g)
  BY <1>9 DEF RecordAudit, Row, Halt, Excuse, Go
<1>10. CASE Finish(g)
  BY <1>10 DEF Finish, Row, Go
<1>11. CASE Rewrite(g)
  BY <1>11 DEF Rewrite, Go
<1> QED BY <1>1, <1>2, <1>3, <1>4, <1>5, <1>6, <1>7, <1>8, <1>9, <1>10, <1>11 DEF Run

-----------------------------------------------------------------------------
\* The types, step by step.

\* The step records a gate can be given are step records.
LEMMA StepShapes ==
    ASSUME NEW s \in StepRecord
    PROVE  /\ NoStep \in StepRecord
           /\ \A p \in Pcs, r \in BOOLEAN :
                /\ [s EXCEPT !.pc = p] \in StepRecord
                /\ [s EXCEPT !.pc = p, !.released = r] \in StepRecord
           /\ \A p \in Pcs, a \in Actions : [s EXCEPT !.pc = p, !.action = a] \in StepRecord
           /\ \A p \in Pcs, c \in Cycles :
                /\ [s EXCEPT !.pc = p, !.cycle = c] \in StepRecord
                /\ [NoStep EXCEPT !.pc = p, !.cycle = c] \in StepRecord
                /\ \A a \in Actions, b \in SUBSET Operators, r \in BOOLEAN :
                     [NoStep EXCEPT !.pc = p, !.cycle = c, !.action = a,
                                    !.approved = b, !.reason = r] \in StepRecord
           /\ \A b \in SUBSET Operators : [s EXCEPT !.approved = b] \in StepRecord
           /\ \A f \in {"skip", "adjust"}, o \in Operators, r \in BOOLEAN :
                [s EXCEPT !.textFor = f, !.textFrom = o, !.armed = r] \in StepRecord
<1>1. NoStep \in StepRecord
  BY DEF NoStep, StepRecord, Pcs, Actions
<1>2. \A p \in Pcs, r \in BOOLEAN :
                /\ [s EXCEPT !.pc = p] \in StepRecord
                /\ [s EXCEPT !.pc = p, !.released = r] \in StepRecord
  BY DEF StepRecord
<1>3. \A p \in Pcs, a \in Actions : [s EXCEPT !.pc = p, !.action = a] \in StepRecord
  BY DEF StepRecord
<1>4. \A p \in Pcs, c \in Cycles :
                /\ [s EXCEPT !.pc = p, !.cycle = c] \in StepRecord
                /\ [NoStep EXCEPT !.pc = p, !.cycle = c] \in StepRecord
  BY <1>1 DEF StepRecord
<1>5. \A p \in Pcs, c \in Cycles, a \in Actions, b \in SUBSET Operators, r \in BOOLEAN :
                     [NoStep EXCEPT !.pc = p, !.cycle = c, !.action = a,
                                    !.approved = b, !.reason = r] \in StepRecord
  BY <1>1 DEF StepRecord
<1>6. \A b \in SUBSET Operators : [s EXCEPT !.approved = b] \in StepRecord
  BY DEF StepRecord
<1>7. \A f \in {"skip", "adjust"}, o \in Operators, r \in BOOLEAN :
                [s EXCEPT !.textFor = f, !.textFrom = o, !.armed = r] \in StepRecord
  BY DEF StepRecord
<1> QED BY <1>1, <1>2, <1>3, <1>4, <1>5, <1>6, <1>7, Zenon

\* A decision, as a change of the state: the goroutine goes on to settle the
\* row, and its waiter is gone.
Decided(g, a, b) ==
    /\ steps' \in [Gates -> StepRecord]
    /\ waiters' \in [Gates -> {0} \cup Cycles]
    /\ buffers' \in [Gates -> Seq(Update)]
    /\ steps'[g].pc = "resolve" /\ steps'[g].cycle = steps[g].cycle
    /\ steps'[g].action = a /\ steps'[g].approved = b /\ ~steps'[g].released
    /\ waiters'[g] = 0 /\ buffers'[g] = <<>>
    /\ vetoed' = vetoed

\* What Decide does to the state of its gate.
LEMMA DecideShape ==
    ASSUME Typed, NEW g \in Gates, At(g, "wait"), Cycle(g) \in Cycles,
           NEW a \in Actions, NEW b \in SUBSET Operators, NEW r \in BOOLEAN, Decide(g, a, b, r)
    PROVE  Decided(g, a, b)
<1> DEFINE q == [NoStep EXCEPT !.pc = "resolve", !.cycle = Cycle(g),
                               !.action = a, !.approved = b, !.reason = r]
<1>1. q \in StepRecord
  <2>1. "resolve" \in Pcs
    BY DEF Pcs
  <2> QED BY <2>1, StepShapes DEF Typed
<1>2. /\ q.pc = "resolve" /\ q.cycle = Cycle(g) /\ q.action = a /\ q.approved = b
      /\ ~q.released /\ q.textFor = ""
  BY DEF NoStep
<1>3. steps' = [steps EXCEPT ![g] = q] /\ waiters' = [waiters EXCEPT ![g] = 0]
      /\ buffers' = [buffers EXCEPT ![g] = <<>>] /\ vetoed' = vetoed
  BY DEF Decide
<1> HIDE DEF q
<1>4. <<>> \in Seq(Update)
  OBVIOUS
<1> QED BY <1>1, <1>2, <1>3, <1>4 DEF Typed, Cycle, Decided

\* The loop reads an update: the rest of the buffer is left for later.
LEMMA StayShape ==
    ASSUME Typed, NEW g \in Gates, buffers[g] # <<>>, Stay(g)
    PROVE  /\ buffers' \in [Gates -> Seq(Update)]
           /\ waiters' = waiters
           /\ Len(buffers'[g]) = Len(buffers[g]) - 1
           /\ \A i \in 1 .. Len(buffers'[g]) : buffers'[g][i] = buffers[g][i + 1]
<1>1. buffers[g] \in Seq(Update) /\ buffers' = [buffers EXCEPT ![g] = Tail(buffers[g])]
  BY DEF Typed, Stay
<1>2. /\ Tail(buffers[g]) \in Seq(Update) /\ Len(Tail(buffers[g])) = Len(buffers[g]) - 1
      /\ \A i \in 1 .. Len(Tail(buffers[g])) : Tail(buffers[g])[i] = buffers[g][i + 1]
  BY <1>1
<1>3. buffers'[g] = Tail(buffers[g])
  BY <1>1 DEF Typed
<1> QED BY <1>1, <1>2, <1>3 DEF Stay, Typed

-----------------------------------------------------------------------------
\* Each step of a gate keeps the types and the invariant of that gate.

\* The names of the places, and a gate that has not begun.
LEMMA IdleIsFresh ==
    ASSUME NEW g \in Gates, GateOK(g), At(g, "idle")
    PROVE  /\ steps[g] = NoStep /\ Cycle(g) = 0 /\ waiters[g] = 0
           /\ steps[g].approved = {} /\ ~steps[g].released
           /\ Quorum[g] >= 2 => g \notin vetoed
           /\ \A i \in 1 .. Len(buffers[g]) : buffers[g][i].kind # "approve"
           /\ \A c \in Cycles : /\ pending[g][c] = "none" /\ Verdicts(g, c) = {}
                                /\ <<g, c>> \notin todo /\ marking # <<g, c>>
<1>1. steps[g] = NoStep
  BY DEF GateOK, StepOK
<1>2. steps[g].pc = "idle" /\ Cycle(g) = 0 /\ steps[g].approved = {} /\ ~steps[g].released
  <2>1. /\ NoStep.pc = "idle" /\ NoStep.cycle = 0 /\ NoStep.approved = {}
        /\ NoStep.released = FALSE
    BY DEF NoStep
  <2> QED BY <1>1, <2>1 DEF Cycle
<1>3. waiters[g] = 0 /\ \A i \in 1 .. Len(buffers[g]) : buffers[g][i].kind # "approve"
  BY <1>2 DEF GateOK, StepOK, Counts, At
<1>4. Quorum[g] >= 2 => g \notin vetoed
  BY <1>2 DEF GateOK, VetoOK, At
<1>5. ASSUME NEW c \in Cycles
      PROVE  /\ pending[g][c] = "none" /\ Verdicts(g, c) = {}
             /\ <<g, c>> \notin todo /\ marking # <<g, c>>
  <2>1. c > Cycle(g) /\ ~ (c < Cycle(g)) /\ c # Cycle(g)
    BY <1>2 DEF Cycles
  <2>2. pending[g][c] = "none" /\ Verdicts(g, c) = {}
    BY <2>1 DEF GateOK, RowOK, VerdictOK
  <2> QED BY <2>2, <1>2 DEF GateOK, BootOK, At
<1> QED BY <1>1, <1>2, <1>3, <1>4, <1>5

\* A gate in flight: the boot has nothing of it in hand.
LEMMA AliveIsFree ==
    ASSUME NEW g \in Gates, GateOK(g), ~At(g, "over")
    PROVE  /\ \A c \in Cycles : <<g, c>> \notin todo /\ marking # <<g, c>>
           /\ ~steps[g].released
BY DEF GateOK, BootOK, ReleaseOK

\* A step released by its policy is over at once, with the row that says so.
LEMMA AutoApproveKeeps ==
    ASSUME Typed, NEW g \in Gates, GateOK(g), AutoApprove(g)
    PROVE  Typed' /\ GateOK(g)'
<1>1. At(g, "idle") /\ steps[g] \in StepRecord
  BY DEF AutoApprove, Typed
<1>2. /\ steps[g] = NoStep /\ Cycle(g) = 0 /\ waiters[g] = 0
      /\ steps[g].approved = {} /\ ~steps[g].released
      /\ Quorum[g] >= 2 => g \notin vetoed
      /\ \A i \in 1 .. Len(buffers[g]) : buffers[g][i].kind # "approve"
      /\ \A c \in Cycles : /\ pending[g][c] = "none" /\ Verdicts(g, c) = {}
                           /\ <<g, c>> \notin todo /\ marking # <<g, c>>
  BY <1>1, IdleIsFresh
<1>3. /\ waiters' = waiters /\ buffers' = buffers /\ pending' = pending /\ tapped' = tapped
      /\ vetoed' = vetoed /\ todo' = todo /\ marking' = marking
  BY DEF AutoApprove, pumpVars, bootVars
<1>4. /\ steps' \in [Gates -> StepRecord] /\ At(g, "over")' /\ Cycle(g)' = 0
      /\ steps'[g].approved = {}
      /\ audit' \in [Gates -> SUBSET ((Cycles \cup {PolicyCycle}) \X Decisions)]
      /\ \A c \in Cycles, d \in Decisions : <<c, d>> \in audit'[g] <=> <<c, d>> \in audit[g]
      /\ steps'[g].released => <<PolicyCycle, "policy_approve">> \in audit'[g]
  <2>1. CASE /\ audit' = [audit EXCEPT ![g] = @ \cup {<<PolicyCycle, "policy_approve">>}]
             /\ steps' = [steps EXCEPT ![g].pc = "over", ![g].released = TRUE]
    <3>1. [steps[g] EXCEPT !.pc = "over", !.released = TRUE] \in StepRecord
      BY <1>1, StepShapes, Zenon DEF Pcs
    <3>2. steps' \in [Gates -> StepRecord] /\ At(g, "over")' /\ Cycle(g)' = 0
          /\ steps'[g].approved = {}
      BY <1>1, <1>2, <2>1, <3>1 DEF Typed, At, Cycle, StepRecord
    <3>3. <<PolicyCycle, "policy_approve">> \in (Cycles \cup {PolicyCycle}) \X Decisions
      BY DEF Decisions
    <3>4. audit' \in [Gates -> SUBSET ((Cycles \cup {PolicyCycle}) \X Decisions)]
          /\ audit'[g] = audit[g] \cup {<<PolicyCycle, "policy_approve">>}
      BY <2>1, <3>3 DEF Typed
    <3>5. \A c \in Cycles, d \in Decisions : <<c, d>> \in audit'[g] <=> <<c, d>> \in audit[g]
      BY <3>4 DEF Cycles, PolicyCycle
    <3> QED BY <3>2, <3>4, <3>5
  <2>2. CASE Halt(g) /\ UNCHANGED audit
    <3>1. [steps[g] EXCEPT !.pc = "over"] \in StepRecord
      BY <1>1, StepShapes, Zenon DEF Pcs
    <3>2. steps' = [steps EXCEPT ![g].pc = "over"] /\ audit' = audit
      BY <2>2 DEF Halt, Go
    <3> QED BY <1>1, <1>2, <3>1, <3>2 DEF Typed, At, Cycle, StepRecord
  <2> QED BY <2>1, <2>2 DEF AutoApprove
<1>5. Typed'
  BY <1>3, <1>4 DEF Typed
<1>6. \A c \in Cycles : Verdicts(g, c)' = {}
  BY <1>2, <1>4 DEF Verdicts
<1>7. StepOK(g)'
  BY <1>2, <1>3, <1>4 DEF StepOK, At, Counts, Tappers
<1>8. VetoOK(g)'
  BY <1>2, <1>3 DEF VetoOK
<1>9. ReleaseOK(g)'
  BY <1>2, <1>3, <1>4 DEF ReleaseOK
<1>10. RowOK(g)'
  BY <1>2, <1>3, <1>4 DEF RowOK, At, Cycles
<1>11. VerdictOK(g)' /\ BootOK(g)' /\ TrailOK(g)'
  BY <1>2, <1>3, <1>6 DEF VerdictOK, BootOK, TrailOK
<1> QED BY <1>5, <1>7, <1>8, <1>9, <1>10, <1>11 DEF GateOK

\* A run reaches its approval step.
LEMMA EnterKeeps ==
    ASSUME Typed, NEW g \in Gates, GateOK(g), Enter(g)
    PROVE  Typed' /\ GateOK(g)'
<1>1. At(g, "idle") /\ steps[g] \in StepRecord
  BY DEF Enter, Typed
<1>2. /\ steps[g] = NoStep /\ Cycle(g) = 0 /\ waiters[g] = 0
      /\ steps[g].approved = {} /\ ~steps[g].released
      /\ Quorum[g] >= 2 => g \notin vetoed
      /\ \A i \in 1 .. Len(buffers[g]) : buffers[g][i].kind # "approve"
      /\ \A c \in Cycles : /\ pending[g][c] = "none" /\ Verdicts(g, c) = {}
                           /\ <<g, c>> \notin todo /\ marking # <<g, c>>
  BY <1>1, IdleIsFresh
<1>3. /\ waiters' = waiters /\ buffers' = buffers /\ pending' = pending /\ tapped' = tapped
      /\ audit' = audit /\ vetoed' = vetoed /\ excused' = excused
      /\ todo' = todo /\ marking' = marking
  BY DEF Enter, pumpVars, storeVars, bootVars, history
<1>4. /\ steps' \in [Gates -> StepRecord] /\ At(g, "begin")' /\ Cycle(g)' = 1
      /\ steps'[g].approved = {} /\ ~steps'[g].released
  <2>1. [steps[g] EXCEPT !.pc = "begin", !.cycle = 1] \in StepRecord
    <3>1. "begin" \in Pcs /\ 1 \in Cycles
      BY DEF Pcs, Cycles
    <3> QED BY <1>1, <3>1, StepShapes, Zenon
  <2> QED BY <1>1, <1>2, <2>1 DEF Enter, Typed, At, Cycle, StepRecord
<1>5. Typed'
  BY <1>3, <1>4 DEF Typed
<1>6. \A c \in Cycles : Verdicts(g, c)' = {}
  BY <1>2, <1>3 DEF Verdicts
<1>7. StepOK(g)'
  BY <1>2, <1>3, <1>4 DEF StepOK, At, Counts, Tappers, Cycles
<1>8. VetoOK(g)' /\ ReleaseOK(g)'
  BY <1>2, <1>3, <1>4 DEF VetoOK, ReleaseOK
<1>9. RowOK(g)'
  BY <1>2, <1>3, <1>4 DEF RowOK, At, Cycles
<1>10. VerdictOK(g)' /\ BootOK(g)' /\ TrailOK(g)'
  BY <1>2, <1>3, <1>6 DEF VerdictOK, BootOK, TrailOK
<1> QED BY <1>5, <1>7, <1>8, <1>9, <1>10 DEF GateOK

\* A step that neither waits nor is about to wait, on the same draft: what
\* StepOK asks of the place it reaches is left to show.
LEMMA StepsOn ==
    ASSUME Typed, NEW g \in Gates, GateOK(g), ~At(g, "wait"), ~At(g, "idle"), ~At(g, "over"),
           NEW p \in Pcs \ {"idle", "wait"}, At(g, p)', Cycle(g)' = Cycle(g),
           steps'[g].approved = steps[g].approved,
           waiters' = waiters, buffers' = buffers, tapped' = tapped,
           p = "rewrite" => Cycle(g) <= MaxAdjust(g),
           p \in {"resolve", "audit"} =>
               /\ steps'[g].action # ""
               /\ steps'[g].action = "approve" => Cardinality(steps[g].approved) >= Quorum[g]
    PROVE  StepOK(g)'
<1>1. Tappers(g)' = Tappers(g)
  BY DEF Tappers
<1>2. waiters'[g] = 0 /\ \A i \in 1 .. Len(buffers'[g]) : buffers'[g][i].kind # "approve"
  BY DEF GateOK, StepOK, Counts
<1>3. steps[g].pc \notin {"idle", "over"} /\ steps'[g].pc = p
  BY DEF At
<1>4. \A i \in 1 .. Len(buffers'[g]) : Counts(g, buffers[g][i])'
  BY <1>2 DEF Counts
<1> QED BY <1>1, <1>2, <1>3, <1>4 DEF GateOK, StepOK, At, MaxAdjust

\* The row of a draft is pending from here on, or the run halts.
LEMMA BeginApprovalKeeps ==
    ASSUME Typed, NEW g \in Gates, GateOK(g), BeginApproval(g)
    PROVE  Typed' /\ GateOK(g)'
<1>1. At(g, "begin") /\ steps[g] \in StepRecord /\ Cycle(g) \in Cycles
  BY DEF BeginApproval, Typed, GateOK, StepOK, At
<1>2. /\ waiters' = waiters /\ buffers' = buffers /\ audit' = audit /\ tapped' = tapped
      /\ vetoed' = vetoed /\ todo' = todo /\ marking' = marking
  BY DEF BeginApproval, pumpVars, bootVars
<1>3. PICK p \in {"send", "over"} : steps' = [steps EXCEPT ![g].pc = p]
  BY DEF BeginApproval, Halt, Go
<1>4. /\ steps' \in [Gates -> StepRecord] /\ steps'[g].pc = p /\ Cycle(g)' = Cycle(g)
      /\ steps'[g].approved = steps[g].approved /\ steps'[g].released = steps[g].released
  <2>1. [steps[g] EXCEPT !.pc = p] \in StepRecord
    BY <1>1, StepShapes, Zenon DEF Pcs
  <2> QED BY <1>1, <1>3, <2>1 DEF Typed, Cycle, StepRecord
<1>5. /\ pending' \in [Gates -> [Cycles -> Kept]]
      /\ \A c \in Cycles : c # Cycle(g) => pending'[g][c] = pending[g][c]
      /\ \/ p = "send" /\ pending'[g][Cycle(g)] = "pending" /\ excused' = excused
         \/ p = "over" /\ pending' = pending /\ g \in excused'
  <2>1. CASE /\ pending' = [pending EXCEPT ![g][Cycle(g)] = "pending"]
             /\ Go(g, "send") /\ excused' = excused
    <3>1. p = "send"
      BY <1>1, <1>4, <2>1 DEF Go, Typed
    <3> QED BY <1>1, <2>1, <3>1 DEF Typed, Kept
  <2>2. CASE Halt(g) /\ pending' = pending
    <3>1. p = "over" /\ g \in excused'
      BY <1>1, <1>4, <2>2 DEF Halt, Excuse, Go, Typed
    <3> QED BY <2>2, <3>1 DEF Typed
  <2> QED BY <2>1, <2>2 DEF BeginApproval
<1>6. Typed'
  BY <1>2, <1>4, <1>5 DEF Typed
<1>7. /\ \A c \in Cycles : <<g, c>> \notin todo /\ marking # <<g, c>>
      /\ ~steps[g].released
  BY <1>1, AliveIsFree DEF At
<1>8. \A c \in Cycles : Verdicts(g, c)' = Verdicts(g, c)
  BY <1>2 DEF Verdicts
<1>9. StepOK(g)'
  BY <1>1, <1>2, <1>4, StepsOn DEF At, Pcs
<1>10. VetoOK(g)' /\ ReleaseOK(g)'
  <2>1. Quorum[g] >= 2 => g \notin vetoed
    BY <1>1 DEF GateOK, VetoOK, At
  <2> QED BY <2>1, <1>2, <1>4, <1>7 DEF VetoOK, ReleaseOK
<1>11. RowOK(g)'
  <2>1. RowOK(g) /\ Cycle(g) \in Nat /\ Cycles \subseteq Nat
    BY <1>1 DEF GateOK, Cycles
  <2> QED BY <2>1, <1>4, <1>5 DEF RowOK
<1>12. Verdicts(g, Cycle(g)) = {}
  BY <1>1 DEF GateOK, VerdictOK, At, Cycles
<1>13. VerdictOK(g)'
  <2>1. VerdictOK(g)
    BY DEF GateOK
  <2>2. ASSUME NEW c \in Cycles
        PROVE  /\ \A d, e \in Verdicts(g, c)' : d = e
               /\ Verdicts(g, c)' # {} => c < Cycle(g)
               /\ pending'[g][c] = "pending" => Verdicts(g, c)' \subseteq {"interrupted"}
    <3>1. CASE c = Cycle(g)
      BY <3>1, <1>8, <1>12
    <3>2. CASE c # Cycle(g)
      BY <3>2, <2>1, <1>1, <1>5, <1>8 DEF VerdictOK, At
    <3> QED BY <3>1, <3>2
  <2> QED BY <2>2, <1>4 DEF VerdictOK
<1>14. BootOK(g)'
  BY <1>2, <1>7 DEF BootOK
<1>15. TrailOK(g)'
  <2> SUFFICES ASSUME g \notin excused', NEW c \in Cycles
               PROVE  /\ pending'[g][c] = "pending" => Live(g, c)' \/ <<g, c>> \in todo' \/ marking' = <<g, c>>
                      /\ pending'[g][c] \in {"resolved", "interrupted"} => Verdicts(g, c)' # {}
    BY DEF TrailOK
  <2>1. excused' = excused /\ p = "send"
    BY <1>5
  <2>2. CASE c = Cycle(g)
    BY <2>1, <2>2, <1>1, <1>4, <1>5 DEF Live, At
  <2>3. CASE c # Cycle(g)
    BY <2>1, <2>3, <1>1, <1>2, <1>5, <1>7, <1>8 DEF GateOK, TrailOK, Live, At
  <2> QED BY <2>2, <2>3
<1> QED BY <1>6, <1>9, <1>10, <1>11, <1>13, <1>14, <1>15 DEF GateOK

\* The message goes out, or the gate times out on the spot.
LEMMA SendDraftKeeps ==
    ASSUME Typed, NEW g \in Gates, GateOK(g), SendDraft(g)
    PROVE  Typed' /\ GateOK(g)'
<1>1. At(g, "send") /\ steps[g] \in StepRecord /\ Cycle(g) \in Cycles
  BY DEF SendDraft, Typed, GateOK, StepOK, At
<1>2. /\ waiters' = waiters /\ buffers' = buffers /\ audit' = audit /\ tapped' = tapped
      /\ pending' = pending /\ vetoed' = vetoed /\ excused' = excused
      /\ todo' = todo /\ marking' = marking
  BY DEF SendDraft, pumpVars, storeVars, bootVars, history
<1>3. /\ steps' \in [Gates -> StepRecord] /\ Cycle(g)' = Cycle(g)
      /\ steps'[g].pc \in {"register", "resolve"}
      /\ steps'[g].pc = "resolve" => steps'[g].action = "timeout"
      /\ steps'[g].approved = steps[g].approved /\ steps'[g].released = steps[g].released
  <2>1. CASE steps' = [steps EXCEPT ![g].pc = "register"]
    <3>1. [steps[g] EXCEPT !.pc = "register"] \in StepRecord
      BY <1>1, StepShapes, Zenon DEF Pcs
    <3> QED BY <1>1, <2>1, <3>1 DEF Typed, Cycle, StepRecord
  <2>2. CASE steps' = [steps EXCEPT ![g].pc = "resolve", ![g].action = "timeout"]
    <3>1. [steps[g] EXCEPT !.pc = "resolve", !.action = "timeout"] \in StepRecord
      <4>1. "resolve" \in Pcs /\ "timeout" \in Actions
        BY DEF Pcs, Actions
      <4> QED BY <1>1, <4>1, StepShapes, Zenon
    <3> QED BY <1>1, <2>2, <3>1 DEF Typed, Cycle, StepRecord
  <2> QED BY <2>1, <2>2 DEF SendDraft
<1>4. Typed'
  BY <1>2, <1>3 DEF Typed
<1>5. /\ \A c \in Cycles : <<g, c>> \notin todo /\ marking # <<g, c>>
      /\ ~steps[g].released
  BY <1>1, AliveIsFree DEF At
<1>6. \A c \in Cycles : Verdicts(g, c)' = Verdicts(g, c)
  BY <1>2 DEF Verdicts
<1>7. StepOK(g)'
  <2>1. CASE steps'[g].pc = "register"
    BY <2>1, <1>1, <1>2, <1>3, StepsOn DEF At, Pcs
  <2>2. CASE steps'[g].pc = "resolve"
    BY <2>2, <1>1, <1>2, <1>3, StepsOn DEF At, Pcs
  <2> QED BY <2>1, <2>2, <1>3
<1>8. VetoOK(g)' /\ ReleaseOK(g)'
  <2>1. Quorum[g] >= 2 => g \notin vetoed
    BY <1>1 DEF GateOK, VetoOK, At
  <2> QED BY <2>1, <1>2, <1>3, <1>5 DEF VetoOK, ReleaseOK
<1>9. RowOK(g)'
  BY <1>1, <1>2, <1>3 DEF GateOK, RowOK, At
<1>10. VerdictOK(g)'
  BY <1>1, <1>2, <1>3, <1>6 DEF GateOK, VerdictOK, At
<1>11. BootOK(g)'
  BY <1>2, <1>5 DEF BootOK
<1>12. TrailOK(g)'
  BY <1>1, <1>2, <1>3, <1>6 DEF GateOK, TrailOK, Live, At
<1> QED BY <1>4, <1>7, <1>8, <1>9, <1>10, <1>11, <1>12 DEF GateOK

\* The waiter is that of this draft, and nothing buffered before it counts.
LEMMA RegisterKeeps ==
    ASSUME Typed, NEW g \in Gates, GateOK(g), Register(g)
    PROVE  Typed' /\ GateOK(g)'
<1>1. At(g, "register") /\ steps[g] \in StepRecord /\ Cycle(g) \in Cycles
  BY DEF Register, Typed, GateOK, StepOK, At
<1>2. /\ buffers' = buffers /\ audit' = audit /\ tapped' = tapped
      /\ pending' = pending /\ vetoed' = vetoed /\ excused' = excused
      /\ todo' = todo /\ marking' = marking
  BY DEF Register, storeVars, bootVars, history
<1>3. waiters' \in [Gates -> {0} \cup Cycles] /\ waiters'[g] = Cycle(g)
  BY <1>1 DEF Register, Typed
<1> DEFINE q == [NoStep EXCEPT !.pc = "wait", !.cycle = Cycle(g)]
<1>4. /\ q \in StepRecord /\ q.pc = "wait" /\ q.cycle = Cycle(g) /\ q.approved = {}
      /\ ~q.released
  <2>1. "wait" \in Pcs
    BY DEF Pcs
  <2>2. q \in StepRecord
    BY <1>1, <2>1, StepShapes, Zenon
  <2> QED BY <2>2 DEF NoStep
<1>5. steps' = [steps EXCEPT ![g] = q]
  BY DEF Register
<1> HIDE DEF q
<1>6. /\ steps' \in [Gates -> StepRecord] /\ Cycle(g)' = Cycle(g) /\ steps'[g].pc = "wait"
      /\ steps'[g].approved = {} /\ ~steps'[g].released
  BY <1>4, <1>5 DEF Typed, Cycle
<1>7. Typed'
  BY <1>2, <1>3, <1>6 DEF Typed
<1>8. \A c \in Cycles : <<g, c>> \notin todo /\ marking # <<g, c>>
  BY <1>1, AliveIsFree DEF At
<1>9. \A c \in Cycles : Verdicts(g, c)' = Verdicts(g, c)
  BY <1>2 DEF Verdicts
<1>10. StepOK(g)'
  <2>1. \A i \in 1 .. Len(buffers'[g]) : buffers'[g][i].kind # "approve"
    BY <1>1, <1>2 DEF GateOK, StepOK, Counts, At
  <2>2. \A i \in 1 .. Len(buffers'[g]) : Counts(g, buffers[g][i])'
    BY <2>1 DEF Counts
  <2> QED BY <2>2, <1>1, <1>3, <1>6 DEF StepOK, At
<1>11. VetoOK(g)' /\ ReleaseOK(g)'
  <2>1. Quorum[g] >= 2 => g \notin vetoed
    BY <1>1 DEF GateOK, VetoOK, At
  <2> QED BY <2>1, <1>2, <1>6 DEF VetoOK, ReleaseOK
<1>12. RowOK(g)'
  BY <1>1, <1>2, <1>6 DEF GateOK, RowOK, At
<1>13. VerdictOK(g)'
  BY <1>1, <1>2, <1>6, <1>9 DEF GateOK, VerdictOK, At
<1>14. BootOK(g)'
  BY <1>2, <1>8 DEF BootOK
<1>15. TrailOK(g)'
  BY <1>1, <1>2, <1>6, <1>9 DEF GateOK, TrailOK, Live, At
<1> QED BY <1>7, <1>10, <1>11, <1>12, <1>13, <1>14, <1>15 DEF GateOK

\* The row is settled while its decision is still to be recorded.
LEMMA ResolveApprovalKeeps ==
    ASSUME Typed, NEW g \in Gates, GateOK(g), ResolveApproval(g)
    PROVE  Typed' /\ GateOK(g)'
<1>1. At(g, "resolve") /\ steps[g] \in StepRecord /\ Cycle(g) \in Cycles
  BY DEF ResolveApproval, Typed, GateOK, StepOK, At
<1>2. /\ waiters' = waiters /\ buffers' = buffers /\ audit' = audit /\ tapped' = tapped
      /\ vetoed' = vetoed /\ todo' = todo /\ marking' = marking
  BY DEF ResolveApproval, pumpVars, bootVars
<1>3. PICK p \in {"audit", "over"} : steps' = [steps EXCEPT ![g].pc = p]
  BY DEF ResolveApproval, Halt, Go
<1>4. /\ steps' \in [Gates -> StepRecord] /\ steps'[g].pc = p /\ Cycle(g)' = Cycle(g)
      /\ steps'[g].approved = steps[g].approved /\ steps'[g].released = steps[g].released
      /\ steps'[g].action = steps[g].action
  <2>1. [steps[g] EXCEPT !.pc = p] \in StepRecord
    BY <1>1, StepShapes, Zenon DEF Pcs
  <2> QED BY <1>1, <1>3, <2>1 DEF Typed, Cycle, StepRecord
<1>5. /\ pending' \in [Gates -> [Cycles -> Kept]]
      /\ \A c \in Cycles : c # Cycle(g) => pending'[g][c] = pending[g][c]
      /\ \/ p = "audit" /\ pending'[g][Cycle(g)] = "resolved" /\ excused' = excused
         \/ p = "over" /\ pending' = pending /\ g \in excused'
  <2>1. CASE /\ pending' = [pending EXCEPT ![g][Cycle(g)] = "resolved"]
             /\ Go(g, "audit") /\ excused' = excused
    <3>1. p = "audit"
      BY <1>1, <1>4, <2>1 DEF Go, Typed
    <3> QED BY <1>1, <2>1, <3>1 DEF Typed, Kept
  <2>2. CASE Halt(g) /\ pending' = pending
    <3>1. p = "over" /\ g \in excused'
      BY <1>1, <1>4, <2>2 DEF Halt, Excuse, Go, Typed
    <3> QED BY <2>2, <3>1 DEF Typed
  <2> QED BY <2>1, <2>2 DEF ResolveApproval
<1>6. Typed'
  BY <1>2, <1>4, <1>5 DEF Typed
<1>7. /\ \A c \in Cycles : <<g, c>> \notin todo /\ marking # <<g, c>>
      /\ ~steps[g].released
  BY <1>1, AliveIsFree DEF At
<1>8. \A c \in Cycles : Verdicts(g, c)' = Verdicts(g, c)
  BY <1>2 DEF Verdicts
<1>9. StepOK(g)'
  <2>1. /\ steps[g].action # ""
        /\ steps[g].action = "approve" => Cardinality(steps[g].approved) >= Quorum[g]
    BY <1>1 DEF GateOK, StepOK, At
  <2>2. CASE p = "audit"
    BY <2>1, <2>2, <1>1, <1>2, <1>4, StepsOn DEF At, Pcs
  <2>3. CASE p = "over"
    BY <2>3, <1>1, <1>2, <1>4, StepsOn DEF At, Pcs
  <2> QED BY <2>2, <2>3
<1>10. VetoOK(g)' /\ ReleaseOK(g)'
  <2>1. Quorum[g] >= 2 /\ g \in vetoed => steps[g].action = "skip"
    BY <1>1 DEF GateOK, VetoOK, At
  <2> QED BY <2>1, <1>2, <1>4, <1>7 DEF VetoOK, ReleaseOK, At
<1>11. RowOK(g)'
  <2>1. RowOK(g) /\ Cycle(g) \in Nat /\ Cycles \subseteq Nat
    BY <1>1 DEF GateOK, Cycles
  <2> QED BY <2>1, <1>4, <1>5 DEF RowOK
<1>12. Verdicts(g, Cycle(g)) = {}
  BY <1>1 DEF GateOK, VerdictOK, At, Cycles
<1>13. VerdictOK(g)'
  <2>1. VerdictOK(g)
    BY DEF GateOK
  <2>2. ASSUME NEW c \in Cycles
        PROVE  /\ \A d, e \in Verdicts(g, c)' : d = e
               /\ Verdicts(g, c)' # {} => c < Cycle(g)
               /\ pending'[g][c] = "pending" => Verdicts(g, c)' \subseteq {"interrupted"}
    <3>1. CASE c = Cycle(g)
      BY <3>1, <1>8, <1>12
    <3>2. CASE c # Cycle(g)
      BY <3>2, <2>1, <1>1, <1>5, <1>8 DEF VerdictOK, At
    <3> QED BY <3>1, <3>2
  <2> QED BY <2>2, <1>4 DEF VerdictOK
<1>14. BootOK(g)'
  BY <1>2, <1>7 DEF BootOK
<1>15. TrailOK(g)'
  <2> SUFFICES ASSUME g \notin excused', NEW c \in Cycles
               PROVE  /\ pending'[g][c] = "pending" => Live(g, c)' \/ <<g, c>> \in todo' \/ marking' = <<g, c>>
                      /\ pending'[g][c] \in {"resolved", "interrupted"} =>
                             (Live(g, c)' /\ At(g, "audit")') \/ Verdicts(g, c)' # {}
    BY DEF TrailOK
  <2>1. excused' = excused /\ p = "audit"
    BY <1>5
  <2>2. CASE c = Cycle(g)
    BY <2>1, <2>2, <1>1, <1>4, <1>5 DEF Live, At
  <2>3. CASE c # Cycle(g)
    BY <2>1, <2>3, <1>1, <1>2, <1>5, <1>7, <1>8 DEF GateOK, TrailOK, Live, At
  <2> QED BY <2>2, <2>3
<1> QED BY <1>6, <1>9, <1>10, <1>11, <1>13, <1>14, <1>15 DEF GateOK

\* The last writes of a gate: no further verdict.
LEMMA FinishKeeps ==
    ASSUME Typed, NEW g \in Gates, GateOK(g), Finish(g)
    PROVE  Typed' /\ GateOK(g)'
<1>1. steps[g].pc \in {"note", "fail"} /\ steps[g] \in StepRecord /\ Cycle(g) \in Cycles
  BY DEF Finish, Typed, GateOK, StepOK, At
<1>2. /\ waiters' = waiters /\ buffers' = buffers /\ tapped' = tapped /\ pending' = pending
      /\ vetoed' = vetoed /\ excused' = excused /\ todo' = todo /\ marking' = marking
  BY DEF Finish, pumpVars, bootVars, history
<1>3. /\ steps' \in [Gates -> StepRecord] /\ steps'[g].pc = "over" /\ Cycle(g)' = Cycle(g)
      /\ steps'[g].approved = steps[g].approved /\ steps'[g].released = steps[g].released
  <2>1. [steps[g] EXCEPT !.pc = "over"] \in StepRecord
    BY <1>1, StepShapes, Zenon DEF Pcs
  <2> QED BY <1>1, <2>1 DEF Finish, Go, Typed, Cycle, StepRecord
<1>4. /\ audit' \in [Gates -> SUBSET ((Cycles \cup {PolicyCycle}) \X Decisions)]
      /\ \A c \in Cycles, d \in Decisions \ {"quorum_fail"} :
           <<c, d>> \in audit'[g] <=> <<c, d>> \in audit[g]
  <2>1. CASE Row(g, "quorum_fail")
    <3>1. <<Cycle(g), "quorum_fail">> \in (Cycles \cup {PolicyCycle}) \X Decisions
      BY <1>1 DEF Decisions
    <3> QED BY <2>1, <3>1 DEF Row, Typed
  <2>2. CASE audit' = audit
    BY <2>2 DEF Typed
  <2> QED BY <2>1, <2>2 DEF Finish
<1>5. Typed'
  BY <1>2, <1>3, <1>4 DEF Typed
<1>6. /\ \A c \in Cycles : <<g, c>> \notin todo /\ marking # <<g, c>>
      /\ ~steps[g].released
  BY <1>1, AliveIsFree DEF At
<1>7. \A c \in Cycles : Verdicts(g, c)' = Verdicts(g, c)
  BY <1>4 DEF Verdicts
<1>8. StepOK(g)'
  BY <1>1, <1>2, <1>3, StepsOn DEF At, Pcs
<1>9. VetoOK(g)' /\ ReleaseOK(g)'
  BY <1>2, <1>3, <1>6 DEF VetoOK, ReleaseOK, At
<1>10. RowOK(g)'
  BY <1>1, <1>2, <1>3 DEF GateOK, RowOK, At
<1>11. VerdictOK(g)'
  BY <1>1, <1>2, <1>3, <1>7 DEF GateOK, VerdictOK, At
<1>12. BootOK(g)'
  BY <1>2, <1>6 DEF BootOK
<1>13. TrailOK(g)'
  <2>1. pending[g][Cycle(g)] = "resolved"
    BY <1>1 DEF GateOK, RowOK
  <2> QED BY <2>1, <1>1, <1>2, <1>3, <1>6, <1>7 DEF GateOK, TrailOK, Live, At
<1> QED BY <1>5, <1>8, <1>9, <1>10, <1>11, <1>12, <1>13 DEF GateOK

\* The operators who tapped can be counted, and more of them count for more.
LEMMA MoreTappers ==
    ASSUME NEW S, NEW T, S \subseteq T, T \subseteq Approvers
    PROVE  /\ Cardinality(S) \in Nat /\ Cardinality(T) \in Nat
           /\ Cardinality(S) <= Cardinality(T)
<1>1. IsFiniteSet(Approvers)
  BY ApprovalAssumption, FS_Subset
<1>2. IsFiniteSet(T)
  BY <1>1, FS_Subset
<1> QED BY <1>2, FS_Subset, FS_CardinalityType

\* Where a recorded decision leads.
LEMMA AfterTheRow ==
    ASSUME Typed, NEW g \in Gates
    PROVE  /\ NextPc(g) \in {"note", "rewrite", "fail", "over"}
           /\ NextPc(g) = "rewrite" => Cycle(g) <= MaxAdjust(g)
           /\ steps[g].action = "skip" => NextPc(g) \in {"note", "over"}
           /\ steps[g].action = "approve" => NextPc(g) = "over"
BY DEF NextPc

\* The verdict of a draft is its first, and a release has its quorum.
LEMMA RecordAuditKeeps ==
    ASSUME Typed, NEW g \in Gates, GateOK(g), RecordAudit(g)
    PROVE  Typed' /\ GateOK(g)'
<1>1. At(g, "audit") /\ steps[g] \in StepRecord /\ Cycle(g) \in Cycles
  BY DEF RecordAudit, Typed, GateOK, StepOK, At
<1>2. /\ waiters' = waiters /\ buffers' = buffers /\ tapped' = tapped /\ pending' = pending
      /\ vetoed' = vetoed /\ todo' = todo /\ marking' = marking
  BY DEF RecordAudit, pumpVars, bootVars
<1>3. /\ steps[g].action \in Decisions \ {"quorum_fail"}
      /\ steps[g].action = "approve" => Cardinality(steps[g].approved) >= Quorum[g]
      /\ Quorum[g] >= 2 /\ g \in vetoed => steps[g].action = "skip"
      /\ steps[g].approved \subseteq Tappers(g)
      /\ pending[g][Cycle(g)] = "resolved"
      /\ Verdicts(g, Cycle(g)) = {}
  <2>1. steps[g].action \in Actions
    BY <1>1 DEF StepRecord
  <2>2. /\ steps[g].action # ""
        /\ steps[g].action = "approve" => Cardinality(steps[g].approved) >= Quorum[g]
        /\ steps[g].approved \subseteq Tappers(g)
    BY <1>1 DEF GateOK, StepOK, At
  <2>3. Quorum[g] >= 2 /\ g \in vetoed => steps[g].action = "skip"
    BY <1>1 DEF GateOK, VetoOK, At
  <2>4. pending[g][Cycle(g)] = "resolved"
    BY <1>1 DEF GateOK, RowOK, At
  <2>5. Verdicts(g, Cycle(g)) = {}
    BY <1>1 DEF GateOK, VerdictOK, At, Cycles
  <2> QED BY <2>1, <2>2, <2>3, <2>4, <2>5 DEF Actions, Decisions
<1>4. /\ \A c \in Cycles : <<g, c>> \notin todo /\ marking # <<g, c>>
      /\ ~steps[g].released
  BY <1>1, AliveIsFree DEF At
<1>5. CASE /\ Row(g, steps[g].action)
           /\ steps' = [steps EXCEPT ![g].pc = NextPc(g),
                                     ![g].released = steps[g].action = "approve"]
           /\ UNCHANGED <<faults, excused>>
  <2> PICK a, p, r : a = steps[g].action /\ p = NextPc(g) /\ r = (steps[g].action = "approve")
    OBVIOUS
  <2>1. /\ p \in {"note", "rewrite", "fail", "over"}
        /\ p = "rewrite" => Cycle(g) <= MaxAdjust(g)
        /\ a = "skip" => p \in {"note", "over"}
        /\ a = "approve" => p = "over"
        /\ r \in BOOLEAN /\ (r <=> a = "approve")
    BY AfterTheRow
  <2>2. steps' = [steps EXCEPT ![g] = [steps[g] EXCEPT !.pc = p, !.released = r]]
    BY <1>1, <1>5 DEF Typed
  <2>3. a \in Decisions \ {"quorum_fail"} /\ audit' = [audit EXCEPT ![g] = @ \cup {<<Cycle(g), a>>}]
    BY <1>3, <1>5 DEF Row
  <2>4. /\ a = "approve" => Cardinality(steps[g].approved) >= Quorum[g]
        /\ Quorum[g] >= 2 /\ g \in vetoed => a = "skip"
    BY <1>3
  <2>5. /\ steps' \in [Gates -> StepRecord] /\ steps'[g].pc = p /\ Cycle(g)' = Cycle(g)
        /\ steps'[g].approved = steps[g].approved /\ (steps'[g].released <=> r)
    <3>1. p \in Pcs
      BY <2>1 DEF Pcs
    <3>2. [steps[g] EXCEPT !.pc = p, !.released = r] \in StepRecord
      BY <1>1, <2>1, <3>1, StepShapes, Zenon
    <3>3. steps'[g] = [steps[g] EXCEPT !.pc = p, !.released = r]
      BY <2>2 DEF Typed
    <3>4. steps' \in [Gates -> StepRecord]
      BY <2>2, <3>2 DEF Typed
    <3> QED BY <1>1, <3>3, <3>4 DEF Cycle, StepRecord
  <2>6. /\ audit' \in [Gates -> SUBSET ((Cycles \cup {PolicyCycle}) \X Decisions)]
        /\ audit'[g] = audit[g] \cup {<<Cycle(g), a>>}
    <3>1. <<Cycle(g), a>> \in (Cycles \cup {PolicyCycle}) \X Decisions
      BY <1>1, <2>3
    <3> QED BY <2>3, <3>1 DEF Typed
  <2>7. Typed'
    BY <1>2, <2>5, <2>6 DEF Typed
  <2>8. /\ \A c \in Cycles : c = Cycle(g) => Verdicts(g, c)' = {a}
        /\ \A c \in Cycles : c # Cycle(g) => Verdicts(g, c)' = Verdicts(g, c)
    <3>1. \A c \in Cycles : Verdicts(g, c)' = {d \in Decisions \ {"quorum_fail"} :
                                                 <<c, d>> \in audit[g] \/ (c = Cycle(g) /\ d = a)}
      BY <2>6 DEF Verdicts
    <3>2. \A c \in Cycles : c = Cycle(g) => Verdicts(g, c)' = {a}
      <4>1. \A d \in Decisions \ {"quorum_fail"} : <<Cycle(g), d>> \notin audit[g]
        BY <1>3 DEF Verdicts
      <4> QED BY <4>1, <2>3, <3>1
    <3> QED BY <3>1, <3>2 DEF Verdicts
  <2>9. Tappers(g)' = Tappers(g)
    BY <1>2, <2>5 DEF Tappers
  <2>10. StepOK(g)'
    <3>1. p \in Pcs \ {"idle", "wait", "resolve", "audit"} /\ At(g, p)'
      BY <2>1, <2>5 DEF Pcs, At
    <3>2. ~At(g, "wait") /\ ~At(g, "idle") /\ ~At(g, "over")
      BY <1>1 DEF At
    <3> QED BY <3>1, <3>2, <2>1, <2>5, <1>2, StepsOn
  <2>11. VetoOK(g)'
    BY <1>2, <2>1, <2>4, <2>5 DEF VetoOK, At
  <2>12. ReleaseOK(g)'
    <3> SUFFICES ASSUME r PROVE /\ p = "over"
                                /\ Quorum[g] >= 2 => g \notin vetoed
                                /\ <<Cycle(g), "approve">> \in audit'[g]
                                /\ Cardinality(Tappers(g)) >= Quorum[g]
      BY <1>2, <2>5, <2>9 DEF ReleaseOK, At
    <3>1. a = "approve" /\ p = "over" /\ <<Cycle(g), "approve">> \in audit'[g]
      BY <2>1, <2>6
    <3>2. Cardinality(Tappers(g)) >= Quorum[g]
      <4>1. Cardinality(steps[g].approved) >= Quorum[g] /\ Quorum[g] \in Nat
        BY <2>4, <3>1, ApprovalAssumption
      <4>2. steps[g].approved \subseteq Tappers(g) /\ Tappers(g) \subseteq Approvers
        BY <1>3 DEF Tappers
      <4> DEFINE n == Cardinality(steps[g].approved)
                 m == Cardinality(Tappers(g))
      <4>3. n \in Nat /\ m \in Nat /\ n <= m
        BY <4>2, MoreTappers
      <4>4. n >= Quorum[g]
        BY <4>1
      <4> HIDE DEF n, m
      <4>5. m >= Quorum[g]
        BY <4>1, <4>3, <4>4
      <4> QED BY <4>5 DEF m
    <3> QED BY <3>1, <3>2, <2>4
  <2>13. RowOK(g)'
    BY <1>1, <1>2, <1>3, <2>1, <2>5 DEF GateOK, RowOK, At
  <2>14. VerdictOK(g)'
    <3> SUFFICES ASSUME NEW c \in Cycles
                 PROVE  /\ \A d, e \in Verdicts(g, c)' : d = e
                        /\ Verdicts(g, c)' # {} => c < Cycle(g) \/ c = Cycle(g)
                        /\ pending[g][c] = "pending" => Verdicts(g, c)' \subseteq {"interrupted"}
      BY <1>2, <2>1, <2>5 DEF VerdictOK
    <3>1. CASE c = Cycle(g)
      BY <3>1, <2>8, <1>3
    <3>2. CASE c # Cycle(g)
      BY <3>2, <2>8, <1>1 DEF GateOK, VerdictOK
    <3> QED BY <3>1, <3>2
  <2>15. BootOK(g)'
    BY <1>2, <1>4 DEF BootOK
  <2>16. TrailOK(g)'
    <3> SUFFICES ASSUME g \notin excused, NEW c \in Cycles
                 PROVE  /\ pending[g][c] # "pending"
                        /\ pending[g][c] \in {"resolved", "interrupted"} => Verdicts(g, c)' # {}
      BY <1>2, <1>5 DEF TrailOK
    <3>1. CASE c = Cycle(g)
      BY <3>1, <2>8, <1>3
    <3>2. CASE c # Cycle(g)
      BY <3>2, <2>8, <1>4, Zenon DEF GateOK, TrailOK, Live
    <3> QED BY <3>1, <3>2
  <2> QED BY <2>7, <2>10, <2>11, <2>12, <2>13, <2>14, <2>15, <2>16 DEF GateOK
<1>6. CASE Halt(g) /\ UNCHANGED audit
  <2>1. /\ steps' \in [Gates -> StepRecord] /\ steps'[g].pc = "over" /\ Cycle(g)' = Cycle(g)
        /\ steps'[g].approved = steps[g].approved /\ steps'[g].released = steps[g].released
    <3>1. [steps[g] EXCEPT !.pc = "over"] \in StepRecord
      BY <1>1, StepShapes, Zenon DEF Pcs
    <3> QED BY <1>1, <1>6, <3>1 DEF Halt, Go, Typed, Cycle, StepRecord
  <2>2. audit' = audit /\ g \in excused'
    BY <1>6 DEF Halt, Excuse
  <2>3. Typed'
    BY <1>2, <2>1, <2>2 DEF Typed
  <2>4. \A c \in Cycles : Verdicts(g, c)' = Verdicts(g, c)
    BY <2>2 DEF Verdicts
  <2>5. StepOK(g)'
    BY <1>1, <1>2, <2>1, StepsOn DEF At, Pcs
  <2>6. VetoOK(g)' /\ ReleaseOK(g)'
    BY <1>2, <1>4, <2>1 DEF VetoOK, ReleaseOK, At
  <2>7. RowOK(g)'
    BY <1>1, <1>2, <2>1 DEF GateOK, RowOK, At
  <2>8. VerdictOK(g)'
    BY <1>1, <1>2, <2>1, <2>4 DEF GateOK, VerdictOK, At
  <2>9. BootOK(g)' /\ TrailOK(g)'
    BY <1>2, <1>4, <2>2 DEF BootOK, TrailOK
  <2> QED BY <2>3, <2>5, <2>6, <2>7, <2>8, <2>9 DEF GateOK
<1> QED BY <1>5, <1>6 DEF RecordAudit

\* The next draft starts with no taps, no row and no verdict.
LEMMA RewriteKeeps ==
    ASSUME Typed, NEW g \in Gates, GateOK(g), Rewrite(g)
    PROVE  Typed' /\ GateOK(g)'
<1>1. At(g, "rewrite") /\ steps[g] \in StepRecord /\ Cycle(g) \in Cycles
  BY DEF Rewrite, Typed, GateOK, StepOK, At
<1>2. /\ waiters' = waiters /\ buffers' = buffers /\ audit' = audit /\ tapped' = tapped
      /\ pending' = pending /\ vetoed' = vetoed /\ excused' = excused
      /\ todo' = todo /\ marking' = marking
  BY DEF Rewrite, pumpVars, storeVars, bootVars, history
<1>3. /\ \A c \in Cycles : <<g, c>> \notin todo /\ marking # <<g, c>>
      /\ ~steps[g].released
  BY <1>1, AliveIsFree DEF At
<1>4. \A c \in Cycles : Verdicts(g, c)' = Verdicts(g, c)
  BY <1>2 DEF Verdicts
<1>5. Quorum[g] >= 2 => g \notin vetoed
  BY <1>1 DEF GateOK, VetoOK, At
<1>6. pending[g][Cycle(g)] = "resolved"
  BY <1>1 DEF GateOK, RowOK, At
<1>7. CASE steps' = [steps EXCEPT ![g] = [NoStep EXCEPT !.pc = "begin", !.cycle = Cycle(g) + 1]]
  <2>1. Cycle(g) + 1 \in Cycles /\ Cycle(g) \in Nat /\ Cycles \subseteq Nat
    <3>1. Cycle(g) <= MaxAdjust(g) /\ MaxAdjust(g) \in {1, 3}
      BY <1>1 DEF GateOK, StepOK, MaxAdjust
    <3> QED BY <1>1, <3>1 DEF Cycles
  <2> DEFINE q == [NoStep EXCEPT !.pc = "begin", !.cycle = Cycle(g) + 1]
  <2>2. /\ q \in StepRecord /\ q.pc = "begin" /\ q.cycle = Cycle(g) + 1 /\ q.approved = {}
        /\ ~q.released
    <3>1. "begin" \in Pcs
      BY DEF Pcs
    <3>2. q \in StepRecord
      BY <1>1, <2>1, <3>1, StepShapes, Zenon
    <3> QED BY <3>2 DEF NoStep
  <2>3. steps' = [steps EXCEPT ![g] = q]
    BY <1>7
  <2> HIDE DEF q
  <2>4. /\ steps' \in [Gates -> StepRecord] /\ Cycle(g)' = Cycle(g) + 1 /\ steps'[g].pc = "begin"
        /\ steps'[g].approved = {} /\ ~steps'[g].released
    BY <2>2, <2>3 DEF Typed, Cycle
  <2>5. Typed'
    BY <1>2, <2>4 DEF Typed
  <2>6. StepOK(g)'
    <3>1. waiters[g] = 0 /\ \A i \in 1 .. Len(buffers[g]) : buffers[g][i].kind # "approve"
      BY <1>1 DEF GateOK, StepOK, Counts, At
    <3>2. \A i \in 1 .. Len(buffers'[g]) : Counts(g, buffers[g][i])'
      BY <3>1, <1>2 DEF Counts
    <3> QED BY <3>1, <3>2, <1>2, <2>1, <2>4 DEF StepOK, At
  <2>7. VetoOK(g)' /\ ReleaseOK(g)'
    BY <1>2, <1>5, <2>4 DEF VetoOK, ReleaseOK
  <2>8. RowOK(g)'
    BY <1>2, <2>1, <2>4 DEF GateOK, RowOK
  <2>9. VerdictOK(g)'
    BY <1>1, <1>2, <1>4, <2>1, <2>4 DEF GateOK, VerdictOK, At
  <2>10. BootOK(g)'
    BY <1>2, <1>3 DEF BootOK
  <2>11. TrailOK(g)'
    <3> SUFFICES ASSUME g \notin excused, NEW c \in Cycles
                 PROVE  /\ pending[g][c] # "pending"
                        /\ pending[g][c] \in {"resolved", "interrupted"} => Verdicts(g, c)' # {}
      BY <1>2 DEF TrailOK
    <3> QED BY <1>1, <1>3, <1>4, <1>6, Zenon DEF GateOK, TrailOK, Live, At
  <2> QED BY <2>5, <2>6, <2>7, <2>8, <2>9, <2>10, <2>11 DEF GateOK
<1>8. CASE Go(g, "over")
  <2>1. /\ steps' \in [Gates -> StepRecord] /\ steps'[g].pc = "over" /\ Cycle(g)' = Cycle(g)
        /\ steps'[g].approved = steps[g].approved /\ steps'[g].released = steps[g].released
    <3>1. [steps[g] EXCEPT !.pc = "over"] \in StepRecord
      BY <1>1, StepShapes, Zenon DEF Pcs
    <3> QED BY <1>1, <1>8, <3>1 DEF Go, Typed, Cycle, StepRecord
  <2>2. Typed'
    BY <1>2, <2>1 DEF Typed
  <2>3. StepOK(g)'
    BY <1>1, <1>2, <2>1, StepsOn DEF At, Pcs
  <2>4. VetoOK(g)' /\ ReleaseOK(g)'
    BY <1>2, <1>3, <2>1 DEF VetoOK, ReleaseOK, At
  <2>5. RowOK(g)'
    BY <1>1, <1>2, <2>1 DEF GateOK, RowOK, At
  <2>6. VerdictOK(g)'
    BY <1>1, <1>2, <1>4, <2>1 DEF GateOK, VerdictOK, At
  <2>7. BootOK(g)'
    BY <1>2, <1>3 DEF BootOK
  <2>8. TrailOK(g)'
    BY <1>1, <1>2, <1>3, <1>4, <1>6, <2>1 DEF GateOK, TrailOK, Live, At
  <2> QED BY <2>2, <2>3, <2>4, <2>5, <2>6, <2>7, <2>8 DEF GateOK
<1> QED BY <1>7, <1>8 DEF Rewrite

\* A decision is kept if a quorum stands behind an approval, and nothing but
\* the skip follows a veto.
LEMMA DecideKeeps ==
    ASSUME Typed, NEW g \in Gates, GateOK(g), At(g, "wait"),
           NEW a, a \in {"approve", "skip", "adjust", "timeout"}, NEW b, b \subseteq Tappers(g), NEW r \in BOOLEAN,
           a = "approve" => Cardinality(b) >= Quorum[g],
           Quorum[g] >= 2 /\ g \in vetoed => a = "skip",
           Decide(g, a, b, r),
           pending' = pending, audit' = audit, todo' = todo, marking' = marking,
           tapped' = tapped, excused' = excused
    PROVE  Typed' /\ GateOK(g)'
<1>1. steps[g] \in StepRecord /\ Cycle(g) \in Cycles
  BY DEF Typed, GateOK, StepOK, At
<1>2. /\ audit' = audit /\ tapped' = tapped /\ pending' = pending /\ excused' = excused
      /\ todo' = todo /\ marking' = marking
  OBVIOUS
<1>3. a \in Actions /\ b \in SUBSET Operators
  BY ApprovalAssumption DEF Tappers, Actions
<1>4. /\ steps' \in [Gates -> StepRecord]
      /\ waiters' \in [Gates -> {0} \cup Cycles]
      /\ buffers' \in [Gates -> Seq(Update)]
      /\ At(g, "resolve")' /\ Cycle(g)' = Cycle(g)
      /\ steps'[g].action = a /\ steps'[g].approved = b /\ ~steps'[g].released
      /\ waiters'[g] = 0 /\ buffers'[g] = <<>>
      /\ vetoed' = vetoed
  <2>1. Decided(g, a, b)
    BY <1>1, <1>3, DecideShape
  <2> QED BY <2>1 DEF Decided, At, Cycle
<1>14. steps[g].pc = "wait" /\ steps'[g].pc = "resolve" /\ \A i \in 1 .. Len(buffers'[g]) : FALSE
  <2>1. steps[g].pc = "wait" /\ steps'[g].pc = "resolve"
    BY <1>4 DEF At
  <2>2. Len(buffers'[g]) = 0
    BY <1>4
  <2> QED BY <2>1, <2>2
<1>5. Typed'
  BY <1>2, <1>4 DEF Typed
<1>6. \A c \in Cycles : <<g, c>> \notin todo /\ marking # <<g, c>>
  BY AliveIsFree DEF At
<1>7. \A c \in Cycles : Verdicts(g, c)' = Verdicts(g, c)
  BY <1>2 DEF Verdicts
<1>8. StepOK(g)'
  <2>1. Tappers(g)' = Tappers(g)
    BY <1>2, <1>4 DEF Tappers
  <2>2. \A i \in 1 .. Len(buffers'[g]) : Counts(g, buffers[g][i])'
    BY <1>14
  <2> QED BY <2>1, <2>2, <1>1, <1>4 DEF StepOK, At
<1>9. VetoOK(g)' /\ ReleaseOK(g)'
  BY <1>4 DEF VetoOK, ReleaseOK, At
<1>10. RowOK(g)'
  BY <1>1, <1>2, <1>4 DEF GateOK, RowOK, At
<1>11. VerdictOK(g)'
  <2>1. VerdictOK(g) /\ steps[g].pc = "wait" /\ steps'[g].pc = "resolve" /\ Cycle(g)' = Cycle(g)
    BY <1>4, <1>14 DEF GateOK
  <2>2. \A c \in Cycles : pending'[g][c] = pending[g][c] /\ Verdicts(g, c)' = Verdicts(g, c)
    BY <1>2, <1>7
  <2> QED BY <2>1, <2>2 DEF VerdictOK
<1>12. BootOK(g)'
  BY <1>2, <1>6 DEF BootOK
<1>13. TrailOK(g)'
  BY <1>1, <1>2, <1>4, <1>6, <1>7 DEF GateOK, TrailOK, Live, At
<1> QED BY <1>5, <1>8, <1>9, <1>10, <1>11, <1>12, <1>13 DEF GateOK

\* A deadline turns into a timeout, or into the skip that was asked for.
LEMMA ElapseKeeps ==
    ASSUME Typed, NEW g \in Gates, GateOK(g), Elapse(g)
    PROVE  Typed' /\ GateOK(g)'
<1>1. /\ At(g, "wait")
      /\ pending' = pending /\ audit' = audit /\ todo' = todo /\ marking' = marking
      /\ tapped' = tapped /\ excused' = excused
  BY DEF Elapse, storeVars, bootVars
<1>2. PICK a \in {"skip", "timeout"} :
          /\ Decide(g, a, {}, FALSE)
          /\ steps[g].textFor = "skip" => a = "skip"
  BY DEF Elapse
<1>3. Quorum[g] >= 2 /\ g \in vetoed => steps[g].textFor = "skip"
  BY <1>1 DEF GateOK, VetoOK, At
<1>4. a \in {"approve", "skip", "adjust", "timeout"} /\ a # "approve" /\ {} \subseteq Tappers(g) /\ FALSE \in BOOLEAN
  BY <1>2 DEF Actions
<1> QED BY <1>1, <1>2, <1>3, <1>4, DecideKeeps

\* A gate that reads an update and waits on is kept, if nobody is counted who
\* has not tapped and a veto stands.
LEMMA WaitOn ==
    ASSUME Typed, NEW g \in Gates, GateOK(g), At(g, "wait"), buffers[g] # <<>>, Stay(g),
           steps' \in [Gates -> StepRecord], steps'[g].pc = "wait",
           steps'[g].cycle = steps[g].cycle, ~steps'[g].released,
           steps'[g].approved \subseteq Tappers(g), VetoOK(g)',
           pending' = pending, audit' = audit, todo' = todo, marking' = marking,
           tapped' = tapped, excused' = excused
    PROVE  Typed' /\ GateOK(g)'
<1>1. steps[g].pc = "wait" /\ Cycle(g)' = Cycle(g) /\ Cycle(g) \in Cycles
  BY DEF GateOK, StepOK, At, Cycle
<1>2. /\ buffers' \in [Gates -> Seq(Update)] /\ buffers[g] \in Seq(Update)
      /\ waiters' = waiters
      /\ Len(buffers'[g]) = Len(buffers[g]) - 1
      /\ \A i \in 1 .. Len(buffers'[g]) : buffers'[g][i] = buffers[g][i + 1]
  BY StayShape DEF Typed
<1>3. Typed'
  BY <1>2 DEF Typed
<1>4. Tappers(g)' = Tappers(g)
  BY <1>1 DEF Tappers
<1>5. \A c \in Cycles : Verdicts(g, c)' = Verdicts(g, c)
  BY DEF Verdicts
<1>6. StepOK(g)'
  <2>1. ASSUME NEW i \in 1 .. Len(buffers'[g])
        PROVE  Counts(g, buffers[g][i])'
    <3>1. i + 1 \in 1 .. Len(buffers[g]) /\ buffers'[g][i] = buffers[g][i + 1]
      BY <1>2
    <3>2. Counts(g, buffers[g][i + 1])
      BY <3>1 DEF GateOK, StepOK
    <3> QED BY <3>1, <3>2, <1>4 DEF Counts, At
  <2> QED BY <2>1, <1>1, <1>2, <1>4 DEF GateOK, StepOK, At
<1>7. ReleaseOK(g)'
  BY DEF ReleaseOK
<1>8. RowOK(g)'
  BY <1>1 DEF GateOK, RowOK, At
<1>9. VerdictOK(g)'
  <2>1. VerdictOK(g)
    BY DEF GateOK
  <2> QED BY <2>1, <1>1, <1>5 DEF VerdictOK
<1>10. \A c \in Cycles : <<g, c>> \notin todo /\ marking # <<g, c>>
  BY <1>1, AliveIsFree DEF At
<1>11. BootOK(g)'
  BY <1>10 DEF BootOK
<1>12. TrailOK(g)'
  BY <1>1, <1>5, <1>10 DEF GateOK, TrailOK, Live, At
<1> QED BY <1>3, <1>6, <1>7, <1>8, <1>9, <1>11, <1>12 DEF GateOK

\* What the loop makes of an update.
LEMMA HandleKeeps ==
    ASSUME Typed, NEW g \in Gates, GateOK(g), Handle(g)
    PROVE  Typed' /\ GateOK(g)'
<1>1. /\ At(g, "wait") /\ buffers[g] # <<>> /\ buffers[g] \in Seq(Update)
      /\ pending' = pending /\ audit' = audit /\ todo' = todo /\ marking' = marking
      /\ tapped' = tapped /\ excused' = excused
      /\ steps[g] \in StepRecord /\ steps[g].pc = "wait"
  BY DEF Handle, storeVars, bootVars, Typed, At
<1> DEFINE head == Head(buffers[g])
<1>2. /\ head \in Update
      /\ head.kind = "approve" /\ head.from \in Approvers => head.from \in Tappers(g)
  <2>1. head = buffers[g][1] /\ 1 \in 1 .. Len(buffers[g]) /\ head \in Update
    BY <1>1
  <2> QED BY <2>1 DEF GateOK, StepOK, Counts
<1>3. \/ Ignore(g)
      \/ /\ head.from \in Approvers
         /\ IF Quorum[g] >= 2 THEN HandleQuorum(g, head) ELSE HandleSingle(g, head)
  BY DEF Handle
<1> PICK u : u = head
  OBVIOUS
<1>4. /\ u \in Update
      /\ u.kind = "approve" /\ u.from \in Approvers => u.from \in Tappers(g)
  BY <1>2
<1>5. \/ Ignore(g)
      \/ /\ u.from \in Approvers
         /\ IF Quorum[g] >= 2 THEN HandleQuorum(g, u) ELSE HandleSingle(g, u)
  BY <1>3
<1> HIDE DEF head
<1>6. Quorum[g] >= 2 /\ g \in vetoed => steps[g].textFor = "skip"
  BY <1>1 DEF GateOK, VetoOK, At
<1>7. ~steps[g].released /\ steps[g].approved \subseteq Tappers(g) /\ Quorum[g] \in Nat \ {0}
  BY <1>1, ApprovalAssumption DEF GateOK, StepOK, ReleaseOK, At
<1>8. CASE Ignore(g)
  <2>1. steps' = steps /\ vetoed' = vetoed /\ Stay(g)
    BY <1>8 DEF Ignore
  <2>2. VetoOK(g)'
    BY <2>1 DEF GateOK, VetoOK, At
  <2> QED BY <1>1, <1>7, <2>1, <2>2, WaitOn DEF Typed
<1>9. ASSUME NEW for \in {"skip", "adjust"}, Ask(g, for, u), Quorum[g] >= 2 => for = "skip",
             u.from \in Approvers
      PROVE  Typed' /\ GateOK(g)'
  <2>1. u.from \in Operators
    BY <1>9, ApprovalAssumption
  <2> PICK r \in BOOLEAN : r = (steps[g].armed \/ for = "skip")
    BY <1>1 DEF StepRecord
  <2>2. steps' = [steps EXCEPT ![g] = [steps[g] EXCEPT !.textFor = for, !.textFrom = u.from,
                                                       !.armed = r]]
    BY <1>9, <1>1 DEF Ask, Typed
  <2>3. [steps[g] EXCEPT !.textFor = for, !.textFrom = u.from, !.armed = r] \in StepRecord
    BY <1>1, <2>1, StepShapes
  <2>4. /\ steps' \in [Gates -> StepRecord]
        /\ steps'[g] = [steps[g] EXCEPT !.textFor = for, !.textFrom = u.from, !.armed = r]
    BY <2>2, <2>3 DEF Typed
  <2>5. /\ steps'[g].pc = "wait" /\ steps'[g].cycle = steps[g].cycle /\ ~steps'[g].released
        /\ steps'[g].approved = steps[g].approved /\ steps'[g].textFor = for
    BY <2>4, <1>1, <1>7 DEF StepRecord
  <2>6. VetoOK(g)'
    BY <2>5, <1>9 DEF VetoOK, At
  <2>7. Stay(g)
    BY <1>9 DEF Ask
  <2> QED BY <1>1, <1>7, <2>4, <2>5, <2>6, <2>7, WaitOn
<1>10. ASSUME NEW a, a \in {"approve", "skip", "adjust", "timeout"}, NEW b, b \subseteq Tappers(g),
              NEW r \in BOOLEAN, a = "approve" => Cardinality(b) >= Quorum[g],
              Quorum[g] >= 2 /\ g \in vetoed => a = "skip", Decide(g, a, b, r)
       PROVE  Typed' /\ GateOK(g)'
  BY <1>1, <1>10, DecideKeeps
<1>11. ASSUME Approving(g, u), u.kind = "approve", u.from \in Approvers, g \notin vetoed
       PROVE  Typed' /\ GateOK(g)'
  <2> PICK got : got = steps[g].approved \cup {u.from}
    OBVIOUS
  <2>1. got \subseteq Tappers(g) /\ got \in SUBSET Operators
    BY <1>4, <1>7, <1>11, ApprovalAssumption DEF Tappers
  <2>2. CASE Cardinality(got) >= Quorum[g]
    <3>1. Decide(g, "approve", got, FALSE)
      BY <1>11, <2>2 DEF Approving
    <3> QED BY <3>1, <2>1, <2>2, <1>10, <1>11
  <2>3. CASE ~(Cardinality(got) >= Quorum[g])
    <3>1. steps' = [steps EXCEPT ![g].approved = got] /\ Stay(g) /\ vetoed' = vetoed
      BY <1>11, <2>3 DEF Approving
    <3>2. [steps[g] EXCEPT !.approved = got] \in StepRecord
      BY <1>1, <2>1, StepShapes
    <3>3. /\ steps' \in [Gates -> StepRecord]
          /\ steps'[g] = [steps[g] EXCEPT !.approved = got]
      BY <3>1, <3>2 DEF Typed
    <3>4. /\ steps'[g].pc = "wait" /\ steps'[g].cycle = steps[g].cycle /\ ~steps'[g].released
          /\ steps'[g].approved = got
      BY <3>3, <1>1, <1>7 DEF StepRecord
    <3>5. VetoOK(g)'
      BY <3>1, <1>11 DEF VetoOK
    <3> QED BY <1>1, <2>1, <3>1, <3>3, <3>4, <3>5, WaitOn
  <2> QED BY <2>2, <2>3
<1>12. CASE Quorum[g] >= 2 /\ HandleQuorum(g, u) /\ u.from \in Approvers
  <2>1. CASE steps[g].textFor = "skip" /\ Decide(g, "skip", {}, TRUE)
    BY <2>1, <1>10
  <2>2. CASE steps[g].textFor = ""
    <3>1. g \notin vetoed
      BY <1>6, <1>12, <2>2
    <3>2. CASE u.kind = "approve" /\ Approving(g, u)
      BY <3>1, <3>2, <1>11, <1>12
    <3>3. CASE u.kind \in {"skip", "adjust"} /\ Decide(g, u.kind, {}, FALSE)
      <4>1. {} \subseteq Tappers(g) /\ u.kind # "approve" /\ FALSE \in BOOLEAN
        BY <3>3
      <4> QED BY <4>1, <3>1, <3>3, <1>10
    <3>4. CASE u.kind = "skip_reason" /\ Ask(g, "skip", u)
      BY <3>4, <1>9, <1>12
    <3> QED BY <2>2, <3>2, <3>3, <3>4, <1>12 DEF HandleQuorum
  <2> QED BY <2>1, <2>2, <1>12 DEF HandleQuorum
<1>13. CASE ~(Quorum[g] >= 2) /\ HandleSingle(g, u) /\ u.from \in Approvers
  <2>1. CASE u.kind = "approve" /\ Decide(g, "approve", {u.from}, FALSE)
    <3>1. Cardinality({u.from}) = 1 /\ Quorum[g] = 1
      <4>1. Cardinality({u.from}) = 1
        BY FS_Singleton
      <4>2. \A n \in Nat \ {0} : n >= 2 \/ n = 1
        OBVIOUS
      <4>3. Quorum[g] = 1
        BY <1>7, <1>13, <4>2
      <4> QED BY <4>1, <4>3
    <3>2. {u.from} \subseteq Tappers(g) /\ FALSE \in BOOLEAN /\ Cardinality({u.from}) >= Quorum[g]
      BY <3>1, <1>4, <1>13, <2>1
    <3> QED BY <3>2, <1>13, <2>1, <1>10
  <2>2. CASE \E a \in {"skip", "adjust"}, r \in BOOLEAN : Decide(g, a, {}, r)
    <3>1. PICK a \in {"skip", "adjust"}, r \in BOOLEAN : Decide(g, a, {}, r)
      BY <2>2
    <3>2. {} \subseteq Tappers(g) /\ a # "approve"
      OBVIOUS
    <3> QED BY <3>1, <3>2, <1>13, <1>10
  <2>3. CASE \E for \in {"skip", "adjust"} : Ask(g, for, u)
    BY <2>3, <1>9, <1>13
  <2> QED BY <2>1, <2>2, <2>3, <1>13 DEF HandleSingle
<1> QED BY <1>5, <1>8, <1>12, <1>13

\* What one goroutine does keeps the invariant of every gate.
LEMMA RunKeeps ==
    ASSUME ApprovalInv, NEW g \in Gates, Run(g)
    PROVE  ApprovalInv'
<1>1. Typed /\ GateOK(g)
  BY DEF ApprovalInv
<1>2. Typed' /\ GateOK(g)'
  BY <1>1, AutoApproveKeeps, EnterKeeps, BeginApprovalKeeps, SendDraftKeeps, RegisterKeeps,
     HandleKeeps, ElapseKeeps, ResolveApprovalKeeps, RecordAuditKeeps, FinishKeeps, RewriteKeeps
     DEF Run
<1>3. ASSUME NEW h \in Gates, h # g PROVE GateOK(h)'
  <2>1. GateOK(h)
    BY DEF ApprovalInv
  <2>2. Same(h)
    BY <1>1, <1>3, RunAlone
  <2> QED BY <2>1, <2>2, SameKeeps
<1> QED BY <1>2, <1>3 DEF ApprovalInv

-----------------------------------------------------------------------------
\* The pump, a crash and the boot.

\* What is delivered is buffered at one gate, behind what is there.
LEMMA DeliverShape ==
    ASSUME Typed, NEW g, NEW u \in Update, Deliver(g, u)
    PROVE  /\ buffers' \in [Gates -> Seq(Update)]
           /\ \A h \in Gates : \A i \in 1 .. Len(buffers'[h]) :
                \/ i \in 1 .. Len(buffers[h]) /\ buffers'[h][i] = buffers[h][i]
                \/ h = g /\ buffers'[h][i] = u
<1>1. CASE Len(buffers[g]) < WaiterBuffer /\ g \in Gates
  <2>1. buffers[g] \in Seq(Update) /\ buffers' = [buffers EXCEPT ![g] = Append(buffers[g], u)]
    BY <1>1 DEF Deliver, Typed
  <2>2. /\ Append(buffers[g], u) \in Seq(Update)
        /\ Len(Append(buffers[g], u)) = Len(buffers[g]) + 1
        /\ \A i \in 1 .. Len(Append(buffers[g], u)) :
             \/ i \in 1 .. Len(buffers[g]) /\ Append(buffers[g], u)[i] = buffers[g][i]
             \/ Append(buffers[g], u)[i] = u
    BY <2>1
  <2>3. buffers'[g] = Append(buffers[g], u) /\ \A h \in Gates : h # g => buffers'[h] = buffers[h]
    BY <2>1, <1>1 DEF Typed
  <2> QED BY <2>1, <2>2, <2>3 DEF Typed
<1>2. CASE ~(Len(buffers[g]) < WaiterBuffer /\ g \in Gates)
  <2>1. buffers' = buffers
    BY <1>2 DEF Deliver, Typed
  <2> QED BY <2>1 DEF Typed
<1> QED BY <1>1, <1>2

\* More taps and more in the buffers: the gates are kept as long as every tap
\* that is buffered counts.
LEMMA PumpKeeps ==
    ASSUME ApprovalInv, Typed', steps' = steps, waiters' = waiters, pending' = pending, audit' = audit,
           vetoed' = vetoed, excused' = excused, todo' = todo, marking' = marking,
           \A h \in Gates : tapped[h] \subseteq tapped'[h],
           \A h \in Gates : \A i \in 1 .. Len(buffers'[h]) : Counts(h, buffers[h][i])'
    PROVE  ApprovalInv'
<1> SUFFICES ASSUME NEW h \in Gates PROVE GateOK(h)'
  BY DEF ApprovalInv
<1>1. GateOK(h)
  BY DEF ApprovalInv
<1>2. Cycle(h)' = Cycle(h) /\ \A p : At(h, p)' <=> At(h, p)
  BY DEF Cycle, At
<1>3. Tappers(h) \subseteq Tappers(h)' /\ Tappers(h)' \subseteq Approvers
  BY <1>2 DEF Tappers
<1>4. \A c \in Cycles : Verdicts(h, c)' = Verdicts(h, c) /\ (Live(h, c)' <=> Live(h, c))
  BY <1>2 DEF Verdicts, Live
<1>5. StepOK(h)'
  BY <1>1, <1>2, <1>3 DEF GateOK, StepOK, MaxAdjust, At
<1>6. VetoOK(h)'
  BY <1>1 DEF GateOK, VetoOK, At
<1>7. ReleaseOK(h)'
  <2> PICK T, U, q : T = Tappers(h) /\ U = Tappers(h)' /\ q = Quorum[h]
    OBVIOUS
  <2>1. /\ Cardinality(T) \in Nat /\ Cardinality(U) \in Nat
        /\ Cardinality(T) <= Cardinality(U) /\ q \in Nat
    BY <1>3, MoreTappers, ApprovalAssumption
  <2>2. Cardinality(T) >= q => Cardinality(U) >= q
    BY <2>1
  <2>3. Cardinality(Tappers(h)) >= Quorum[h] => Cardinality(Tappers(h)') >= Quorum[h]
    BY <2>2
  <2> QED BY <1>1, <1>2, <2>3 DEF GateOK, ReleaseOK
<1>8. RowOK(h)'
  BY <1>1, <1>2 DEF GateOK, RowOK
<1>9. VerdictOK(h)'
  BY <1>1, <1>2, <1>4 DEF GateOK, VerdictOK
<1>10. BootOK(h)'
  BY <1>1 DEF GateOK, BootOK, At
<1>11. TrailOK(h)'
  BY <1>1, <1>4 DEF GateOK, TrailOK, At
<1> QED BY <1>5, <1>6, <1>7, <1>8, <1>9, <1>10, <1>11 DEF GateOK

\* Taps and texts: what was counted still counts, and an approval that is
\* buffered was tapped on the message the gate waits on.
LEMMA OperateKeeps ==
    ASSUME ApprovalInv, Operate
    PROVE  ApprovalInv'
<1>1. Typed /\ \A h \in Gates : GateOK(h)
  BY DEF ApprovalInv
<1>2. \A h \in Gates : \A i \in 1 .. Len(buffers[h]) : Counts(h, buffers[h][i])
  BY <1>1 DEF GateOK, StepOK
<1>3. ASSUME NEW g \in Gates, NEW c \in Cycles, NEW o \in Operators, NEW k \in Taps,
             Tap(g, c, [kind |-> k, from |-> o])
      PROVE  ApprovalInv'
  <2> PICK u : u = [kind |-> k, from |-> o]
    OBVIOUS
  <2>1. u \in Update /\ u.kind = k /\ u.from = o
    BY DEF Update
  <2>2. /\ steps' = steps /\ waiters' = waiters /\ pending' = pending /\ audit' = audit
        /\ vetoed' = vetoed /\ excused' = excused /\ todo' = todo /\ marking' = marking
    BY <1>3 DEF Tap, storeVars, bootVars
  <2>3. /\ tapped' \in [Gates -> SUBSET (Cycles \X Operators)]
        /\ \A h \in Gates : tapped[h] \subseteq tapped'[h]
        /\ k = "approve" /\ o \in Approvers => <<c, o>> \in tapped'[g]
    <3>1. tapped' = IF k = "approve" /\ o \in Approvers
                    THEN [tapped EXCEPT ![g] = @ \cup {<<c, o>>}] ELSE tapped
      BY <1>3, <2>1 DEF Tap
    <3>2. <<c, o>> \in Cycles \X Operators
      OBVIOUS
    <3> QED BY <3>1, <3>2, <1>1 DEF Typed
  <2>4. CASE waiters[g] = c /\ Deliver(g, u)
    <3>1. /\ buffers' \in [Gates -> Seq(Update)]
          /\ \A h \in Gates : \A i \in 1 .. Len(buffers'[h]) :
               \/ i \in 1 .. Len(buffers[h]) /\ buffers'[h][i] = buffers[h][i]
               \/ h = g /\ buffers'[h][i] = u
      BY <1>1, <2>1, <2>4, DeliverShape
    <3>2. Typed'
      BY <1>1, <2>2, <2>3, <3>1 DEF Typed
    <3>3. At(g, "wait") /\ Cycle(g) = c
      <4>1. waiters[g] = IF At(g, "wait") THEN Cycle(g) ELSE 0
        BY <1>1 DEF GateOK, StepOK
      <4>2. c # 0
        BY DEF Cycles
      <4> QED BY <4>1, <4>2, <2>4
    <3>4. \A h \in Gates : Tappers(h) \subseteq Tappers(h)'
      BY <2>2, <2>3 DEF Tappers, Cycle
    <3>5. k = "approve" /\ o \in Approvers => o \in Tappers(g)'
      BY <2>2, <2>3, <3>3 DEF Tappers, Cycle
    <3>6. ASSUME NEW h \in Gates, NEW i \in 1 .. Len(buffers'[h])
          PROVE  Counts(h, buffers[h][i])'
      <4>1. CASE i \in 1 .. Len(buffers[h]) /\ buffers'[h][i] = buffers[h][i]
        BY <4>1, <1>2, <2>2, <3>4 DEF Counts, At
      <4>2. CASE h = g /\ buffers'[h][i] = u
        BY <4>2, <2>1, <2>2, <3>3, <3>5 DEF Counts, At
      <4> QED BY <4>1, <4>2, <3>1
    <3> QED BY <2>2, <2>3, <3>2, <3>6, PumpKeeps
  <2>5. CASE buffers' = buffers
    <3>1. Typed'
      BY <1>1, <2>2, <2>3, <2>5 DEF Typed
    <3>2. \A h \in Gates : Tappers(h) \subseteq Tappers(h)'
      BY <2>2, <2>3 DEF Tappers, Cycle
    <3>3. ASSUME NEW h \in Gates, NEW i \in 1 .. Len(buffers'[h])
          PROVE  Counts(h, buffers[h][i])'
      BY <1>2, <2>2, <2>5, <3>2 DEF Counts, At
    <3> QED BY <2>2, <2>3, <3>1, <3>3, PumpKeeps
  <2> QED BY <1>3, <2>4, <2>5 DEF Tap, RouteTap
<1>4. ASSUME NEW o \in Operators, Type(o)
      PROVE  ApprovalInv'
  <2> PICK u : u = [kind |-> "text", from |-> o]
    OBVIOUS
  <2>1. u \in Update /\ u.kind = "text"
    BY DEF Update
  <2>2. /\ steps' = steps /\ waiters' = waiters /\ pending' = pending /\ audit' = audit
        /\ vetoed' = vetoed /\ excused' = excused /\ todo' = todo /\ marking' = marking
        /\ tapped' = tapped
    BY <1>4 DEF Type, storeVars, bootVars, history
  <2> PICK g : Deliver(g, u)
    BY <1>4 DEF Type
  <2>3. /\ buffers' \in [Gates -> Seq(Update)]
        /\ \A h \in Gates : \A i \in 1 .. Len(buffers'[h]) :
             \/ i \in 1 .. Len(buffers[h]) /\ buffers'[h][i] = buffers[h][i]
             \/ h = g /\ buffers'[h][i] = u
    BY <1>1, <2>1, DeliverShape
  <2>4. Typed'
    BY <1>1, <2>2, <2>3 DEF Typed
  <2>5. \A h \in Gates : Tappers(h)' = Tappers(h)
    BY <2>2 DEF Tappers, Cycle
  <2>6. ASSUME NEW h \in Gates, NEW i \in 1 .. Len(buffers'[h])
        PROVE  Counts(h, buffers[h][i])'
    <3>1. CASE i \in 1 .. Len(buffers[h]) /\ buffers'[h][i] = buffers[h][i]
      BY <3>1, <1>2, <2>2, <2>5 DEF Counts, At
    <3>2. CASE h = g /\ buffers'[h][i] = u
      BY <3>2, <2>1 DEF Counts
    <3> QED BY <3>1, <3>2, <2>3
  <2> QED BY <2>2, <2>4, <2>6, PumpKeeps
<1> QED BY <1>3, <1>4 DEF Operate

\* A crash ends every gate that was in flight.  The row it left pending is
\* what the next boot lists; a row settled without its decision, and the rows
\* of a boot that cannot list them, are excused.
LEMMA CrashKeeps ==
    ASSUME ApprovalInv, Crash
    PROVE  ApprovalInv'
<1>1. Typed
  BY DEF ApprovalInv
<1>2. /\ waiters' = [g \in Gates |-> 0] /\ buffers' = [g \in Gates |-> <<>>]
      /\ pending' = pending /\ audit' = audit /\ tapped' = tapped /\ vetoed' = vetoed
      /\ marking' = NoMessage
      /\ steps' = [g \in Gates |->
                    IF At(g, "idle") \/ At(g, "over") THEN steps[g]
                    ELSE [NoStep EXCEPT !.pc = "over", !.cycle = Cycle(g)]]
  BY DEF Crash, storeVars
<1> PICK open : open = {m \in Gates \X Cycles : pending[m[1]][m[2]] = "pending"}
  OBVIOUS
<1>3. \A g \in Gates, c \in Cycles : <<g, c>> \in open <=> pending[g][c] = "pending"
  OBVIOUS
<1>4. \/ todo' = open /\ excused' = excused \cup Cut
      \/ todo' = {} /\ excused' = excused \cup Cut \cup {m[1] : m \in open}
  BY DEF Crash
<1>5. ASSUME NEW g \in Gates
      PROVE  /\ steps'[g] \in StepRecord /\ steps'[g].pc \in {"idle", "over"}
             /\ steps'[g].cycle = steps[g].cycle
             /\ steps'[g].approved \subseteq steps[g].approved
             /\ steps'[g].released => steps[g].released
             /\ steps'[g].pc = "idle" => steps'[g] = NoStep
             /\ steps'[g].pc = "idle" <=> steps[g].pc = "idle"
             /\ steps[g].pc = "over" => steps'[g].pc = "over"
  <2>1. GateOK(g) /\ steps[g] \in StepRecord
    BY <1>1 DEF ApprovalInv, Typed
  <2>2. CASE At(g, "idle") \/ At(g, "over")
    <3>1. steps'[g] = steps[g]
      BY <1>2, <2>2
    <3> QED BY <3>1, <2>1, <2>2 DEF At, GateOK, StepOK
  <2>3. CASE ~(At(g, "idle") \/ At(g, "over"))
    <3> DEFINE q == [NoStep EXCEPT !.pc = "over", !.cycle = Cycle(g)]
    <3>1. steps'[g] = q
      BY <1>2, <2>3
    <3>2. Cycle(g) \in Cycles /\ "over" \in Pcs
      BY <2>1, <2>3 DEF GateOK, StepOK, At, Pcs
    <3>3. q \in StepRecord
      BY <2>1, <3>2, StepShapes, Zenon
    <3>4. q.pc = "over" /\ q.cycle = Cycle(g) /\ q.approved = {} /\ ~q.released
      BY DEF NoStep
    <3> HIDE DEF q
    <3> QED BY <3>1, <3>3, <3>4, <2>3 DEF At, Cycle
  <2> QED BY <2>2, <2>3
<1>6. Typed'
  <2>1. steps' \in [Gates -> StepRecord]
    BY <1>2, <1>5
  <2>2. buffers' \in [Gates -> Seq(Update)]
    <3>1. <<>> \in Seq(Update)
      OBVIOUS
    <3> QED BY <3>1, <1>2
  <2>3. todo' \subseteq Gates \X Cycles
    BY <1>4
  <2> QED BY <1>1, <1>2, <2>1, <2>2, <2>3 DEF Typed
<1>7. ASSUME NEW g \in Gates
      PROVE  GateOK(g)'
  <2>1. GateOK(g)
    BY DEF ApprovalInv
  <2>2. /\ steps'[g].pc \in {"idle", "over"} /\ Cycle(g)' = Cycle(g)
        /\ Tappers(g)' = Tappers(g)
        /\ \A c \in Cycles : Verdicts(g, c)' = Verdicts(g, c)
    BY <1>2, <1>5 DEF Cycle, Tappers, Verdicts
  <2>3. waiters'[g] = 0 /\ Len(buffers'[g]) = 0
    BY <1>2
  <2>4. StepOK(g)'
    <3>1. \A i \in 1 .. Len(buffers'[g]) : Counts(g, buffers[g][i])'
      BY <2>3
    <3> QED BY <3>1, <2>1, <2>2, <2>3, <1>5 DEF GateOK, StepOK, At
  <2>5. VetoOK(g)'
    <3>1. steps[g].pc = "idle" => ~(Quorum[g] >= 2 /\ g \in vetoed)
      BY <2>1 DEF GateOK, VetoOK, At
    <3>2. Quorum[g] >= 2 /\ g \in vetoed => ~steps'[g].released
      BY <2>1, <1>5 DEF GateOK, VetoOK, ReleaseOK, At
    <3> QED BY <1>2, <1>5, <3>1, <3>2 DEF VetoOK, At
  <2>6. ReleaseOK(g)'
    BY <2>1, <2>2, <1>2, <1>5 DEF GateOK, ReleaseOK, At
  <2>7. RowOK(g)'
    BY <2>1, <2>2, <1>2 DEF GateOK, RowOK
  <2>8. VerdictOK(g)'
    <3> SUFFICES ASSUME NEW c \in Cycles, Verdicts(g, c) # {}, ~(c < Cycle(g))
                 PROVE  c = Cycle(g) /\ steps'[g].pc = "over"
      BY <2>1, <2>2, <1>2, ZenonT(60) DEF GateOK, VerdictOK
    <3>1. c = Cycle(g) /\ steps[g].pc # "idle"
      BY <2>1 DEF GateOK, VerdictOK
    <3> QED BY <3>1, <2>2, <1>5
  <2>9. \A c \in Cycles : pending[g][c] = "pending" => steps'[g].pc = "over"
    <3> SUFFICES ASSUME NEW c \in Cycles, pending[g][c] = "pending", steps[g].pc = "idle"
                 PROVE  FALSE
      BY <1>5
    <3> QED BY <2>1, IdleIsFresh DEF At
  <2>10. BootOK(g)'
    <3> SUFFICES ASSUME NEW c \in Cycles
                 PROVE  /\ <<g, c>> \in todo' => At(g, "over")' /\ pending'[g][c] = "pending"
                        /\ marking' # <<g, c>>
      BY DEF BootOK
    <3>1. <<g, c>> # NoMessage
      BY ApprovalAssumption DEF Cycles
    <3> QED BY <3>1, <1>2, <1>3, <1>4, <2>9 DEF At
  <2>11. TrailOK(g)'
    <3> SUFFICES ASSUME g \notin excused', NEW c \in Cycles
                 PROVE  /\ pending[g][c] = "pending" => <<g, c>> \in todo'
                        /\ pending[g][c] \in {"resolved", "interrupted"} => Verdicts(g, c) # {}
      BY <2>2, <1>2 DEF TrailOK
    <3>1. g \notin excused /\ g \notin Cut
      BY <1>4
    <3>2. pending[g][c] = "pending" => <<g, c>> \in todo'
      <4>1. CASE todo' = open
        BY <4>1, <1>3
      <4>2. CASE excused' = excused \cup Cut \cup {m[1] : m \in open}
        <5>1. \A m \in open : m[1] # g
          BY <4>2
        <5> QED BY <5>1, <1>3
      <4> QED BY <4>1, <4>2, <1>4
    <3>3. pending[g][c] \in {"resolved", "interrupted"} => Verdicts(g, c) # {}
      BY <3>1, <2>1 DEF GateOK, TrailOK, Cut
    <3> QED BY <3>2, <3>3
  <2> QED BY <2>4, <2>5, <2>6, <2>7, <2>8, <2>10, <2>11 DEF GateOK
<1> QED BY <1>6, <1>7 DEF ApprovalInv

\* The boot audits a row it has listed: the draft was never decided, and the
\* only verdict its trail can hold already is the same one.
LEMMA ReconcileAuditKeeps ==
    ASSUME ApprovalInv, ReconcileAudit
    PROVE  ApprovalInv'
<1>1. Typed
  BY DEF ApprovalInv
<1> PICK m \in todo :
          /\ todo' = todo \ {m} /\ marking' = m
          /\ \/ /\ audit' = [audit EXCEPT ![m[1]] = @ \cup {<<m[2], "interrupted">>}]
                /\ UNCHANGED <<faults, excused>>
             \/ Fault /\ Excuse(m[1]) /\ UNCHANGED audit
  BY DEF ReconcileAudit
<1>2. /\ steps' = steps /\ waiters' = waiters /\ buffers' = buffers /\ pending' = pending
      /\ tapped' = tapped /\ vetoed' = vetoed /\ marking = NoMessage
  BY DEF ReconcileAudit, pumpVars
<1>3. PICK g \in Gates, c \in Cycles : m = <<g, c>>
  BY <1>1 DEF Typed
<1>4. /\ \/ /\ audit' = [audit EXCEPT ![g] = @ \cup {<<c, "interrupted">>}]
            /\ excused' = excused
         \/ audit' = audit /\ excused' = excused \cup {g}
  BY <1>3 DEF Excuse
<1>5. GateOK(g) /\ At(g, "over") /\ pending[g][c] = "pending"
  BY <1>3 DEF ApprovalInv, GateOK, BootOK
<1>6. /\ audit' \in [Gates -> SUBSET ((Cycles \cup {PolicyCycle}) \X Decisions)]
      /\ \A b \in Cycles : b # c => Verdicts(g, b)' = Verdicts(g, b)
      /\ audit[g] \subseteq audit'[g]
      /\ Verdicts(g, c) \subseteq Verdicts(g, c)' /\ Verdicts(g, c)' \subseteq {"interrupted"}
      /\ g \notin excused' => <<c, "interrupted">> \in audit'[g]
  <2>1. Verdicts(g, c) \subseteq {"interrupted"}
    BY <1>5 DEF GateOK, VerdictOK
  <2>2. CASE /\ audit' = [audit EXCEPT ![g] = @ \cup {<<c, "interrupted">>}]
             /\ excused' = excused
    <3>1. <<c, "interrupted">> \in (Cycles \cup {PolicyCycle}) \X Decisions
      BY DEF Decisions
    <3>2. /\ audit' \in [Gates -> SUBSET ((Cycles \cup {PolicyCycle}) \X Decisions)]
          /\ audit'[g] = audit[g] \cup {<<c, "interrupted">>}
      BY <1>1, <2>2, <3>1 DEF Typed
    <3> QED BY <2>1, <3>2 DEF Verdicts
  <2>3. CASE audit' = audit /\ excused' = excused \cup {g}
    BY <1>1, <2>1, <2>3 DEF Typed, Verdicts
  <2> QED BY <2>2, <2>3, <1>4
<1>7. todo' = todo \ {<<g, c>>} /\ marking' = <<g, c>> /\ <<g, c>> \in todo
  BY <1>3
<1>8. Typed'
  BY <1>1, <1>2, <1>6 DEF Typed
<1>9. ASSUME NEW h \in Gates, h # g PROVE GateOK(h)'
  <2>1. GateOK(h)
    BY DEF ApprovalInv
  <2>2. audit'[h] = audit[h] /\ (h \in excused' <=> h \in excused)
    BY <1>1, <1>4, <1>9 DEF Typed
  <2>3. \A b \in Cycles : /\ <<h, b>> \in todo' <=> <<h, b>> \in todo
                          /\ marking' = <<h, b>> <=> marking = <<h, b>>
    <3> SUFFICES ASSUME NEW b \in Cycles
                 PROVE  /\ <<h, b>> \in todo' <=> <<h, b>> \in todo
                        /\ marking' = <<h, b>> <=> marking = <<h, b>>
      OBVIOUS
    <3>1. <<h, b>> # <<g, c>>
      BY <1>9
    <3>2. <<h, b>> # NoMessage
      BY ApprovalAssumption DEF Cycles
    <3> QED BY <3>1, <3>2, <1>2, <1>7
  <2>4. Same(h)
    BY <1>2, <2>2, <2>3 DEF Same
  <2> QED BY <2>1, <2>4, SameKeeps
<1>10. GateOK(g)'
  <2>1. /\ Cycle(g)' = Cycle(g) /\ Tappers(g)' = Tappers(g) /\ steps[g].pc = "over"
        /\ \A b : Live(g, b)' <=> Live(g, b)
    BY <1>2, <1>5 DEF Cycle, Tappers, Live, At
  <2>2. c <= Cycle(g) /\ Cycle(g) \in Nat
    <3>1. Cycle(g) \in Nat /\ c \in Nat
      <4>1. steps[g] \in StepRecord
        BY <1>1 DEF Typed
      <4>2. steps[g].cycle \in {0} \cup Cycles
        BY <4>1 DEF StepRecord
      <4> QED BY <4>2 DEF Cycle, Cycles
    <3>2. ~(c > Cycle(g))
      BY <1>5 DEF GateOK, RowOK
    <3> QED BY <3>1, <3>2
  <2>3. StepOK(g)'
    <3>1. \A i \in 1 .. Len(buffers'[g]) : Counts(g, buffers[g][i])'
      BY <1>2, <1>5, <2>1 DEF GateOK, StepOK, Counts, At
    <3> QED BY <3>1, <1>2, <1>5, <2>1 DEF GateOK, StepOK, At, MaxAdjust
  <2>4. VetoOK(g)'
    BY <1>2, <1>5 DEF GateOK, VetoOK, At
  <2>5. ReleaseOK(g)'
    BY <1>2, <1>5, <1>6, <2>1 DEF GateOK, ReleaseOK, At
  <2>6. RowOK(g)'
    BY <1>2, <1>5, <2>1 DEF GateOK, RowOK
  <2>7. VerdictOK(g)'
    <3>1. VerdictOK(g)
      BY <1>5 DEF GateOK
    <3> SUFFICES ASSUME NEW b \in Cycles
                 PROVE  /\ \A d, e \in Verdicts(g, b)' : d = e
                        /\ Verdicts(g, b)' # {} => b < Cycle(g) \/ b = Cycle(g)
                        /\ pending[g][b] = "pending" => Verdicts(g, b)' \subseteq {"interrupted"}
      BY <1>2, <2>1 DEF VerdictOK
    <3>2. CASE b = c
      <4>1. b < Cycle(g) \/ b = Cycle(g)
        BY <2>2, <3>2 DEF Cycles
      <4>2. Verdicts(g, b)' \subseteq {"interrupted"}
        BY <1>6, <3>2
      <4> QED BY <4>1, <4>2
    <3>3. CASE b # c
      BY <3>1, <3>3, <1>6 DEF VerdictOK
    <3> QED BY <3>2, <3>3
  <2>8. BootOK(g)'
    <3> SUFFICES ASSUME NEW b \in Cycles
                 PROVE  /\ <<g, b>> \in todo' \/ marking' = <<g, b>> =>
                             At(g, "over") /\ pending[g][b] = "pending"
                        /\ marking' = <<g, b>> => /\ <<g, b>> \notin todo'
                                                  /\ g \notin excused' => <<b, "interrupted">> \in audit'[g]
      BY <1>2 DEF BootOK, At
    <3>1. CASE b = c
      BY <3>1, <1>5, <1>6, <1>7
    <3>2. CASE b # c
      <4>1. marking' # <<g, b>> /\ (<<g, b>> \in todo' => <<g, b>> \in todo)
        BY <3>2, <1>7
      <4> QED BY <4>1, <1>5 DEF GateOK, BootOK
    <3> QED BY <3>1, <3>2
  <2>9. TrailOK(g)'
    <3> SUFFICES ASSUME g \notin excused', NEW b \in Cycles
                 PROVE  /\ pending[g][b] = "pending" => <<g, b>> \in todo' \/ marking' = <<g, b>>
                        /\ pending[g][b] \in {"resolved", "interrupted"} => Verdicts(g, b)' # {}
      BY <1>2 DEF TrailOK
    <3>1. g \notin excused
      BY <1>4
    <3>2. CASE b = c
      BY <3>2, <1>5, <1>7
    <3>3. CASE b # c
      <4>1. pending[g][b] = "pending" => <<g, b>> \in todo
        <5>1. marking # <<g, b>>
          BY <1>2, ApprovalAssumption DEF Cycles
        <5> QED BY <5>1, <3>1, <1>5 DEF GateOK, TrailOK, Live
      <4>2. <<g, b>> \in todo => <<g, b>> \in todo'
        BY <3>3, <1>7
      <4>3. pending[g][b] \in {"resolved", "interrupted"} => Verdicts(g, b) # {}
        BY <3>1, <1>5 DEF GateOK, TrailOK, Live
      <4> QED BY <4>1, <4>2, <4>3, <3>3, <1>6
    <3> QED BY <3>2, <3>3
  <2> QED BY <2>3, <2>4, <2>5, <2>6, <2>7, <2>8, <2>9 DEF GateOK
<1> QED BY <1>8, <1>9, <1>10 DEF ApprovalInv

\* The boot marks the row it has audited, or logs that it could not.
LEMMA MarkInterruptedKeeps ==
    ASSUME ApprovalInv, MarkInterrupted
    PROVE  ApprovalInv'
<1>1. Typed
  BY DEF ApprovalInv
<1>2. /\ steps' = steps /\ waiters' = waiters /\ buffers' = buffers /\ audit' = audit
      /\ tapped' = tapped /\ vetoed' = vetoed /\ todo' = todo
      /\ marking # NoMessage /\ marking' = NoMessage
  BY DEF MarkInterrupted, pumpVars
<1>3. PICK g \in Gates, c \in Cycles : marking = <<g, c>>
  BY <1>1, <1>2 DEF Typed
<1>4. \/ /\ pending' = [pending EXCEPT ![g][c] = "interrupted"]
         /\ excused' = excused
      \/ pending' = pending /\ excused' = excused \cup {g}
  BY <1>3 DEF MarkInterrupted, Excuse
<1>5. /\ GateOK(g) /\ At(g, "over") /\ pending[g][c] = "pending" /\ <<g, c>> \notin todo
      /\ g \notin excused => <<c, "interrupted">> \in audit[g]
  BY <1>3 DEF ApprovalInv, GateOK, BootOK
<1>6. /\ pending' \in [Gates -> [Cycles -> Kept]]
      /\ \A b \in Cycles : b # c => pending'[g][b] = pending[g][b]
      /\ pending'[g][c] \in {"pending", "interrupted"}
      /\ g \notin excused' => pending'[g][c] = "interrupted" /\ g \notin excused
  <2>1. pending \in [Gates -> [Cycles -> Kept]] /\ "interrupted" \in Kept
    BY <1>1 DEF Typed, Kept
  <2>2. CASE pending' = [pending EXCEPT ![g][c] = "interrupted"] /\ excused' = excused
    BY <2>1, <2>2
  <2>3. CASE pending' = pending /\ excused' = excused \cup {g}
    BY <2>1, <2>3, <1>5
  <2> QED BY <2>2, <2>3, <1>4
<1>7. Typed'
  BY <1>1, <1>2, <1>6 DEF Typed
<1>8. \A h \in Gates, b \in Cycles : marking' # <<h, b>>
  BY <1>2, ApprovalAssumption DEF Cycles
<1>9. ASSUME NEW h \in Gates, h # g PROVE GateOK(h)'
  <2>1. GateOK(h)
    BY DEF ApprovalInv
  <2>2. pending'[h] = pending[h] /\ (h \in excused' <=> h \in excused)
    BY <1>1, <1>4, <1>9 DEF Typed
  <2>3. \A b \in Cycles : marking # <<h, b>>
    BY <1>3, <1>9
  <2>4. Same(h)
    BY <1>2, <1>8, <2>2, <2>3 DEF Same
  <2> QED BY <2>1, <2>4, SameKeeps
<1>10. GateOK(g)'
  <2>1. /\ Cycle(g)' = Cycle(g) /\ Tappers(g)' = Tappers(g) /\ steps[g].pc = "over"
        /\ \A b \in Cycles : Verdicts(g, b)' = Verdicts(g, b)
    BY <1>2, <1>5 DEF Cycle, Tappers, Verdicts, At
  <2>2. ~(c > Cycle(g))
    BY <1>5 DEF GateOK, RowOK
  <2>3. StepOK(g)'
    <3>1. \A i \in 1 .. Len(buffers'[g]) : Counts(g, buffers[g][i])'
      BY <1>2, <1>5, <2>1 DEF GateOK, StepOK, Counts, At
    <3> QED BY <3>1, <1>2, <1>5, <2>1 DEF GateOK, StepOK, At, MaxAdjust
  <2>4. VetoOK(g)'
    BY <1>2, <1>5 DEF GateOK, VetoOK, At
  <2>5. ReleaseOK(g)'
    BY <1>2, <1>5, <2>1 DEF GateOK, ReleaseOK, At
  <2>6. RowOK(g)'
    BY <1>2, <1>5, <1>6, <2>1, <2>2 DEF GateOK, RowOK
  <2>7. VerdictOK(g)'
    <3> SUFFICES ASSUME NEW b \in Cycles
                 PROVE  /\ \A d, e \in Verdicts(g, b) : d = e
                        /\ Verdicts(g, b) # {} => b < Cycle(g) \/ b = Cycle(g)
                        /\ pending'[g][b] = "pending" => Verdicts(g, b) \subseteq {"interrupted"}
      BY <1>2, <2>1 DEF VerdictOK
    <3>1. pending'[g][b] = "pending" => pending[g][b] = "pending"
      BY <1>5, <1>6
    <3> QED BY <3>1, <1>5 DEF GateOK, VerdictOK
  <2>8. BootOK(g)'
    <3> SUFFICES ASSUME NEW b \in Cycles, <<g, b>> \in todo
                 PROVE  At(g, "over") /\ pending'[g][b] = "pending"
      BY <1>2, <1>8 DEF BootOK, At
    <3>1. b # c /\ pending[g][b] = "pending"
      BY <1>5 DEF GateOK, BootOK
    <3> QED BY <3>1, <1>5, <1>6
  <2>9. TrailOK(g)'
    <3> SUFFICES ASSUME g \notin excused', NEW b \in Cycles
                 PROVE  /\ pending'[g][b] = "pending" => <<g, b>> \in todo
                        /\ pending'[g][b] \in {"resolved", "interrupted"} => Verdicts(g, b) # {}
      BY <1>2, <2>1 DEF TrailOK
    <3>1. g \notin excused /\ pending'[g][c] = "interrupted"
      BY <1>6
    <3>2. CASE b = c
      <4>1. "interrupted" \in Verdicts(g, c)
        BY <1>5, <3>1 DEF Verdicts, Decisions
      <4> QED BY <4>1, <3>1, <3>2
    <3>3. CASE b # c
      <4>1. marking # <<g, b>>
        BY <1>3, <3>3
      <4> QED BY <4>1, <3>1, <3>3, <1>5, <1>6 DEF GateOK, TrailOK, Live
    <3> QED BY <3>2, <3>3
  <2> QED BY <2>3, <2>4, <2>5, <2>6, <2>7, <2>8, <2>9 DEF GateOK
<1> QED BY <1>7, <1>9, <1>10 DEF ApprovalInv

-----------------------------------------------------------------------------
\* The theorems.

\* Nothing has been posted.
LEMMA ApprovalInvInit == Init => ApprovalInv
<1> SUFFICES ASSUME Init PROVE ApprovalInv
  OBVIOUS
<1>1. /\ steps = [g \in Gates |-> NoStep]
      /\ waiters = [g \in Gates |-> 0] /\ buffers = [g \in Gates |-> <<>>]
      /\ pending = [g \in Gates |-> [c \in Cycles |-> "none"]]
      /\ audit = [g \in Gates |-> {}] /\ tapped = [g \in Gates |-> {}]
      /\ todo = {} /\ marking = NoMessage /\ vetoed = {}
  BY DEF Init
<1>2. NoStep \in StepRecord
  BY DEF NoStep, StepRecord, Pcs, Actions
<1>3. Typed
  <2>1. <<>> \in Seq(Update)
    OBVIOUS
  <2> QED BY <1>1, <1>2, <2>1 DEF Typed, Kept
<1>4. ASSUME NEW g \in Gates PROVE GateOK(g)
  <2>1. /\ steps[g] = NoStep /\ waiters[g] = 0 /\ Len(buffers[g]) = 0
        /\ audit[g] = {} /\ \A c \in Cycles : pending[g][c] = "none"
    BY <1>1
  <2>2. NoStep.pc = "idle" /\ NoStep.approved = {} /\ NoStep.released = FALSE
    BY DEF NoStep
  <2>3. \A c \in Cycles : Verdicts(g, c) = {}
    BY <2>1 DEF Verdicts
  <2>4. \A c \in Cycles : <<g, c>> \notin todo /\ marking # <<g, c>>
    BY <1>1, ApprovalAssumption DEF Cycles
  <2>5. StepOK(g)
    <3>1. \A i \in 1 .. Len(buffers[g]) : Counts(g, buffers[g][i])
      BY <2>1
    <3> QED BY <3>1, <2>1, <2>2 DEF StepOK, At
  <2>6. VetoOK(g) /\ ReleaseOK(g)
    BY <1>1, <2>1, <2>2 DEF VetoOK, ReleaseOK
  <2>7. RowOK(g)
    BY <2>1, <2>2 DEF RowOK
  <2>8. VerdictOK(g) /\ BootOK(g) /\ TrailOK(g)
    BY <2>1, <2>3, <2>4 DEF VerdictOK, BootOK, TrailOK
  <2> QED BY <2>5, <2>6, <2>7, <2>8 DEF GateOK
<1> QED BY <1>3, <1>4 DEF ApprovalInv

\* Every step of the engine keeps the invariant.
LEMMA ApprovalInvNext == ApprovalInv /\ [Next]_vars => ApprovalInv'
<1> SUFFICES ASSUME ApprovalInv, [Next]_vars PROVE ApprovalInv'
  OBVIOUS
<1>1. ASSUME NEW g \in Gates, Run(g) PROVE ApprovalInv'
  BY <1>1, RunKeeps
<1>2. CASE UNCHANGED vars
  <2>1. /\ steps' = steps /\ waiters' = waiters /\ buffers' = buffers /\ pending' = pending
        /\ audit' = audit /\ tapped' = tapped /\ vetoed' = vetoed /\ excused' = excused
        /\ todo' = todo /\ marking' = marking
    BY <1>2 DEF vars, pumpVars, storeVars, bootVars, history
  <2>2. Typed'
    BY <2>1 DEF ApprovalInv, Typed
  <2>3. ASSUME NEW h \in Gates PROVE GateOK(h)'
    <3>1. Same(h) /\ GateOK(h)
      BY <2>1 DEF Same, ApprovalInv
    <3> QED BY <3>1, SameKeeps
  <2> QED BY <2>2, <2>3 DEF ApprovalInv
<1> QED BY <1>1, <1>2, OperateKeeps, CrashKeeps, ReconcileAuditKeeps, MarkInterruptedKeeps DEF Next

\* The invariant holds at all times.
LEMMA ApprovalInvAlways == Spec => []ApprovalInv
BY ApprovalInvInit, ApprovalInvNext, PTL DEF Spec

\* A step is released by its policy or by the quorum of distinct permitted
\* operators who tapped approve on the draft in force, and none of a quorum
\* gate after a veto: for every number of gates, operators, taps, crashes and
\* failed writes (main.go SendForApproval, SendForQuorumApproval).
THEOREM ReleasesAreApproved == Spec => []ReleaseIsApproved
<1>1. ApprovalInv => ReleaseIsApproved
  BY DEF ApprovalInv, GateOK, ReleaseOK, ReleaseIsApproved, Tappers
<1> QED BY <1>1, ApprovalInvAlways, PTL

\* A draft that was posted never has two verdicts in the trail, whatever is
\* lost and however often the boot is interrupted.
THEOREM VerdictsAreUnique == Spec => []OneVerdict
<1>1. ApprovalInv => OneVerdict
  <2> SUFFICES ASSUME ApprovalInv, NEW g \in Gates, NEW c \in Cycles
               PROVE  Cardinality(Verdicts(g, c)) <= 1
    BY DEF OneVerdict, Verdicts
  <2>1. \A d, e \in Verdicts(g, c) : d = e
    BY DEF ApprovalInv, GateOK, VerdictOK
  <2>2. CASE Verdicts(g, c) = {}
    <3>1. Cardinality(Verdicts(g, c)) = 0
      BY <2>2, FS_EmptySet
    <3> QED BY <3>1
  <2>3. CASE Verdicts(g, c) # {}
    <3>1. PICK d : Verdicts(g, c) = {d}
      BY <2>1, <2>3
    <3>2. Cardinality(Verdicts(g, c)) = 1
      BY <3>1, FS_Singleton
    <3> QED BY <3>2
  <2> QED BY <2>2, <2>3
<1> QED BY <1>1, ApprovalInvAlways, PTL

\* Once the engine is up, a row that is settled or marked has its verdict and
\* one still pending belongs to a run that is alive, but for the runs a failed
\* write halted and those cut between the row and its decision.
THEOREM GatesDoNotVanish == Spec => []NoGateVanishes
<1>1. ApprovalInv => NoGateVanishes
  <2> SUFFICES ASSUME ApprovalInv, Up, NEW g \in Gates \ excused, NEW c \in Cycles
               PROVE  /\ pending[g][c] = "pending" => Live(g, c)
                      /\ pending[g][c] \in {"resolved", "interrupted"} =>
                           \/ Live(g, c) /\ At(g, "audit")
                           \/ \E d \in Decisions : <<c, d>> \in audit[g]
    BY DEF NoGateVanishes, Live
  <2>1. TrailOK(g) /\ <<g, c>> \notin todo /\ marking # <<g, c>>
    BY ApprovalAssumption DEF ApprovalInv, GateOK, Up, Cycles
  <2>2. Verdicts(g, c) # {} => \E d \in Decisions : <<c, d>> \in audit[g]
    BY DEF Verdicts
  <2> QED BY <2>1, <2>2 DEF TrailOK
<1> QED BY <1>1, ApprovalInvAlways, PTL
=============================================================================
