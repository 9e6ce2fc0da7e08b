---------------------------- MODULE ApprovalGate ----------------------------
(***************************************************************************)
(* The approval steps of pipeline runs (main.go runPipeline, SendForApproval*)
(* and SendForQuorumApproval), the Telegram pump that routes the operators' *)
(* taps and texts to them (telegram_pump.go), the durable row of every open *)
(* gate, the audit trail, and what the next boot makes of the rows a crash  *)
(* left open (reconcileInterruptedApprovals).                               *)
(*                                                                          *)
(* A gate is one approval step of one run.  Each time its draft is posted,  *)
(* first or rewritten, is a cycle: a pending row, a message with buttons    *)
(* and a waiter of its own.  Time is abstracted: a deadline may pass        *)
(* whenever its select waits for it, so a buffered tap and the deadline     *)
(* are taken in either order, as Go's select does.                          *)
(***************************************************************************)
EXTENDS Naturals, Sequences, FiniteSets, SequencesExt

CONSTANTS
    Gates,
    Operators,      \* telegram.security.allowed_users
    Approvers,      \* of them, the step's approvers
    Quorum,         \* per gate, the step's quorum, at least 1
    WaiterBuffer,   \* tgWaiterBuffer
    MaxUpdates,     \* bound: what operators tap and type
    MaxFaults,      \* bound: store, channel or model calls that fail
    MaxRestarts,    \* bound: crashes
    NoOne,
    NoMessage

ASSUME ApprovalAssumption ==
    /\ Approvers \subseteq Operators /\ IsFiniteSet(Operators)
    /\ Quorum \in [Gates -> Nat \ {0}]
    /\ {MaxUpdates, MaxFaults, MaxRestarts} \subseteq Nat
    /\ WaiterBuffer \in Nat \ {0}
    /\ NoOne \notin Operators /\ NoMessage \notin Gates \X (1 .. 4)

VARIABLES
    steps,          \* per gate, the goroutine at its approval step
    waiters,        \* tgPump.waiters: per gate, the cycle whose message is registered
    buffers,        \* per gate, the registered waiter's channel
    askers,         \* the waiters that want text, the longest waiting first
    pending,        \* pending_approvals: per gate and cycle
    audit,          \* action_approvals: per gate, the rows as <<cycle, decision>>
    todo,           \* the rows the boot has listed and not yet audited
    marking,        \* the row it audited and has not yet marked
    tapped,         \* history: per gate, who tapped approve on which cycle
    vetoed,         \* history: gates that took a "skip with reason"
    excused,        \* history: gates whose trail a failed write or a crash cut
    updates, faults, restarts

pumpVars == <<waiters, buffers, askers>>
storeVars == <<pending, audit>>
bootVars == <<todo, marking>>
history == <<tapped, vetoed, excused>>
bounds == <<updates, faults, restarts>>
vars == <<steps, pumpVars, storeVars, bootVars, history, bounds>>

-----------------------------------------------------------------------------
\* A single-approver step is rewritten once, a quorum step three times.
MaxAdjust(g) == IF Quorum[g] >= 2 THEN 3 ELSE 1
Cycles == 1 .. 4
PolicyCycle == 0

Decisions == {"approve", "skip", "adjust", "timeout", "quorum_fail", "policy_approve", "interrupted"}
Actions == {"", "approve", "skip", "adjust", "timeout"}
Taps == {"approve", "skip", "skip_reason", "adjust"}
Update == [kind : Taps \cup {"text"}, from : Operators]

Pcs == {"idle", "begin", "send", "register", "wait", "resolve", "audit", "note",
        "fail", "rewrite", "over"}

\* textFor, textFrom, approved are the loop variables of SendForApproval and
\* SendForQuorumApproval (vetoBy is textFrom with textFor "skip"); armed: the
\* reason deadline runs.
StepRecord == [pc : Pcs, cycle : {0} \cup Cycles, textFor : {"", "skip", "adjust"},
               textFrom : Operators \cup {NoOne}, armed : BOOLEAN,
               approved : SUBSET Operators, action : Actions, reason : BOOLEAN,
               released : BOOLEAN]

NoStep == [pc |-> "idle", cycle |-> 0, textFor |-> "", textFrom |-> NoOne, armed |-> FALSE,
           approved |-> {}, action |-> "", reason |-> FALSE, released |-> FALSE]

At(g, p) == steps[g].pc = p
Go(g, p) == steps' = [steps EXCEPT ![g].pc = p]
Cycle(g) == steps[g].cycle

Up == todo = {} /\ marking = NoMessage
Fault == faults < MaxFaults /\ faults' = faults + 1
Excuse(g) == excused' = excused \cup {g}

\* A write that fails halts the run: nothing is released.
Halt(g) == Fault /\ Excuse(g) /\ Go(g, "over")

\* RecordApprovalV2 on the cycle's draft.
Row(g, d) == audit' = [audit EXCEPT ![g] = @ \cup {<<Cycle(g), d>>}]

-----------------------------------------------------------------------------
\* The approval step of runPipeline.

\* approval_policy releases the step without a prompt, once it is recorded.
AutoApprove(g) ==
    /\ Up /\ At(g, "idle")
    /\ \/ /\ audit' = [audit EXCEPT ![g] = @ \cup {<<PolicyCycle, "policy_approve">>}]
          /\ steps' = [steps EXCEPT ![g].pc = "over", ![g].released = TRUE]
          /\ UNCHANGED <<faults, excused>>
       \/ Halt(g) /\ UNCHANGED audit
    /\ UNCHANGED <<pumpVars, pending, bootVars, tapped, vetoed, updates, restarts>>

Enter(g) ==
    /\ Up /\ At(g, "idle")
    /\ steps' = [steps EXCEPT ![g].pc = "begin", ![g].cycle = 1]
    /\ UNCHANGED <<pumpVars, storeVars, bootVars, history, bounds>>

\* BeginApproval: the gate is durable before the draft leaves.
BeginApproval(g) ==
    /\ At(g, "begin")
    /\ \/ /\ pending' = [pending EXCEPT ![g][Cycle(g)] = "pending"]
          /\ Go(g, "send")
          /\ UNCHANGED <<faults, excused>>
       \/ Halt(g) /\ UNCHANGED pending
    /\ UNCHANGED <<pumpVars, audit, bootVars, tapped, vetoed, updates, restarts>>

\* sendWithButtons: from here on operators see the message.
SendDraft(g) ==
    /\ At(g, "send")
    /\ \/ /\ steps' = [steps EXCEPT ![g].pc = "register"]
          /\ UNCHANGED faults
       \/ /\ Fault
          /\ steps' = [steps EXCEPT ![g].pc = "resolve", ![g].action = "timeout"]
    /\ UNCHANGED <<pumpVars, storeVars, bootVars, history, updates, restarts>>

Register(g) ==
    /\ At(g, "register")
    /\ waiters' = [waiters EXCEPT ![g] = Cycle(g)]
    /\ steps' = [steps EXCEPT ![g] = [NoStep EXCEPT !.pc = "wait", !.cycle = Cycle(g)]]
    /\ UNCHANGED <<buffers, askers, storeVars, bootVars, history, bounds>>

\* Mutant: the waiter stays registered after the decision.
DecideLeavingWaiter(g, action, approved, reason) ==
    /\ steps' = [steps EXCEPT ![g] = [NoStep EXCEPT !.pc = "resolve", !.cycle = Cycle(g),
                                          !.action = action, !.approved = approved,
                                          !.reason = reason]]
    /\ UNCHANGED <<waiters, buffers, askers, vetoed>>

\* A decision leaves the loop; the deferred release forgets the waiter.
Decide(g, action, approved, reason) ==
    /\ steps' = [steps EXCEPT ![g] = [NoStep EXCEPT !.pc = "resolve", !.cycle = Cycle(g),
                                          !.action = action, !.approved = approved,
                                          !.reason = reason]]
    /\ waiters' = [waiters EXCEPT ![g] = 0]
    /\ buffers' = [buffers EXCEPT ![g] = <<>>]
    /\ askers' = SelectSeq(askers, LAMBDA a : a # g)
    /\ UNCHANGED vetoed

\* The loop goes on.
Stay(g) == buffers' = [buffers EXCEPT ![g] = Tail(@)] /\ UNCHANGED waiters
Ignore(g) == Stay(g) /\ UNCHANGED <<steps, askers, vetoed>>

\* wantText: the waiter asks from now on; only a skip starts the deadline of
\* its reason.
Ask(g, for, u) ==
    /\ steps' = [steps EXCEPT ![g].textFor = for, ![g].textFrom = u.from,
                              ![g].armed = @ \/ for = "skip"]
    /\ askers' = Append(SelectSeq(askers, LAMBDA a : a # g), g)
    /\ vetoed' = IF for = "skip" THEN vetoed \cup {g} ELSE vetoed
    /\ Stay(g)

\* What a single-approver gate does with an update of a permitted operator.
HandleSingle(g, u) ==
    \/ u.kind = "approve" /\ Decide(g, "approve", {u.from}, FALSE)
    \/ u.kind = "skip" /\ Decide(g, "skip", {}, FALSE)
    \/ u.kind = "skip_reason" /\ Ask(g, "skip", u)
    \/ u.kind = "adjust" /\ Ask(g, "adjust", u)
    \/ /\ u.kind = "text" /\ steps[g].textFor = "skip" /\ u.from = steps[g].textFrom
       /\ Decide(g, "skip", {}, TRUE)
    \/ /\ u.kind = "text" /\ steps[g].textFor = "adjust"
       /\ Decide(g, "adjust", {}, FALSE)

Approving(g, u) ==
    LET got == steps[g].approved \cup {u.from} IN
    IF Cardinality(got) >= Quorum[g]
    THEN Decide(g, "approve", got, FALSE)
    ELSE /\ steps' = [steps EXCEPT ![g].approved = got]
         /\ Stay(g) /\ UNCHANGED <<askers, vetoed>>

\* Mutant: the veto does not stop an approval that is already buffered.
HandleQuorumUnvetoed(g, u) ==
    \/ u.kind = "approve" /\ Approving(g, u)
    \/ u.kind \in {"skip", "adjust"} /\ Decide(g, u.kind, {}, FALSE)
    \/ u.kind = "skip_reason" /\ Ask(g, "skip", u)

\* What a quorum gate does: after a veto only its reason is read.
HandleQuorum(g, u) ==
    \/ /\ steps[g].textFor = "skip"
       /\ u.kind = "text" /\ u.from = steps[g].textFrom
       /\ Decide(g, "skip", {}, TRUE)
    \/ /\ steps[g].textFor = ""
       /\ \/ u.kind = "approve" /\ Approving(g, u)
          \/ u.kind \in {"skip", "adjust"} /\ Decide(g, u.kind, {}, FALSE)
          \/ u.kind = "skip_reason" /\ Ask(g, "skip", u)

\* An update of somebody who may not decide this step, over the rate limit or
\* not clean is dropped, as is one that means nothing now.
Handle(g) ==
    /\ At(g, "wait") /\ buffers[g] # <<>>
    /\ LET u == Head(buffers[g]) IN
       \/ Ignore(g)
       \/ /\ u.from \in Approvers
          /\ IF Quorum[g] >= 2 THEN HandleQuorum(g, u) ELSE HandleSingle(g, u)
    /\ UNCHANGED <<storeVars, bootVars, tapped, excused, bounds>>

\* The reason did not come, or the window of the approval ended: a skip whose
\* reason is outstanding stands.
Elapse(g) ==
    /\ At(g, "wait")
    /\ \/ steps[g].armed /\ Decide(g, "skip", {}, FALSE)
       \/ Decide(g, IF steps[g].textFor = "skip" THEN "skip" ELSE "timeout", {}, FALSE)
    /\ UNCHANGED <<storeVars, bootVars, tapped, excused, bounds>>

\* Mutant: the row is settled after the decision is recorded.
ResolveApprovalLate(g) ==
    /\ At(g, "resolve")
    /\ Go(g, "audit")
    /\ UNCHANGED <<pumpVars, storeVars, bootVars, history, bounds>>

\* ResolveApproval: the pending row is settled before the decision is recorded.
ResolveApproval(g) ==
    /\ At(g, "resolve")
    /\ \/ /\ pending' = [pending EXCEPT ![g][Cycle(g)] = "resolved"]
          /\ Go(g, "audit")
          /\ UNCHANGED <<faults, excused>>
       \/ Halt(g) /\ UNCHANGED pending
    /\ UNCHANGED <<pumpVars, audit, bootVars, tapped, vetoed, updates, restarts>>

\* After the row of a decision: released, reason still to note, rewritten, or
\* the adjustments are used up.  Cycle(g) counts the adjustments once this one
\* is counted.
NextPc(g) ==
    CASE steps[g].action = "skip" /\ steps[g].reason -> "note"
      [] steps[g].action = "adjust" /\ Cycle(g) <= MaxAdjust(g) -> "rewrite"
      [] steps[g].action = "adjust" /\ Quorum[g] >= 2 -> "fail"
      [] OTHER -> "over"

RecordAudit(g) ==
    /\ At(g, "audit")
    /\ \/ /\ Row(g, steps[g].action)
          /\ steps' = [steps EXCEPT ![g].pc = NextPc(g),
                                    ![g].released = steps[g].action = "approve"]
          /\ UNCHANGED <<faults, excused>>
       \/ Halt(g) /\ UNCHANGED audit
    /\ UNCHANGED <<pumpVars, pending, bootVars, tapped, vetoed, updates, restarts>>

\* recordSkip's note, and the row of a quorum that was not reached.
Finish(g) ==
    /\ \/ At(g, "note") /\ UNCHANGED <<audit, faults>>
       \/ At(g, "fail") /\ Row(g, "quorum_fail") /\ UNCHANGED faults
       \/ (At(g, "note") \/ At(g, "fail")) /\ Fault /\ UNCHANGED audit
    /\ Go(g, "over")
    /\ UNCHANGED <<pumpVars, pending, bootVars, history, updates, restarts>>

\* callLLM rewrites the draft, which re-enters the gate, or fails the run.
Rewrite(g) ==
    /\ At(g, "rewrite")
    /\ \/ /\ steps' = [steps EXCEPT ![g] = [NoStep EXCEPT !.pc = "begin", !.cycle = Cycle(g) + 1]]
          /\ UNCHANGED faults
       \/ Fault /\ Go(g, "over")
    /\ UNCHANGED <<pumpVars, storeVars, bootVars, history, updates, restarts>>

-----------------------------------------------------------------------------
\* The pump.  A full buffer drops; the command loop drops taps and does not
\* take text for an answer.

Deliver(g, u) ==
    buffers' = IF Len(buffers[g]) < WaiterBuffer
               THEN [buffers EXCEPT ![g] = Append(@, u)] ELSE buffers

Posted(g, c) == c \in 1 .. Cycle(g) /\ ~(c = Cycle(g) /\ steps[g].pc \in {"begin", "send"})

\* Mutant: a tap goes to the gate, whichever message it was on.
RouteTapAnywhere(g, c, u) == IF waiters[g] # 0 THEN Deliver(g, u) ELSE UNCHANGED buffers

\* route: a tap goes to the waiter of its message.
RouteTap(g, c, u) == IF waiters[g] = c THEN Deliver(g, u) ELSE UNCHANGED buffers

\* An operator taps a button of a message that was posted, old ones included.
Tap(g, c, u) ==
    /\ updates < MaxUpdates /\ Posted(g, c)
    /\ updates' = updates + 1
    /\ RouteTap(g, c, u)
    /\ tapped' = IF u.kind = "approve" /\ u.from \in Approvers
                 THEN [tapped EXCEPT ![g] = @ \cup {<<c, u.from>>}] ELSE tapped
    /\ UNCHANGED <<steps, waiters, askers, storeVars, bootVars, vetoed, excused, faults, restarts>>

\* textWaiter: the waiter that has wanted text the longest.
Type(o) ==
    /\ updates < MaxUpdates /\ askers # <<>>
    /\ updates' = updates + 1
    /\ Deliver(Head(askers), [kind |-> "text", from |-> o])
    /\ UNCHANGED <<steps, waiters, askers, storeVars, bootVars, history, faults, restarts>>

-----------------------------------------------------------------------------
\* The process dies; the next one lists the rows still pending, or cannot.

\* A run that dies between settling its row and recording the decision.
Cut == {g \in Gates : At(g, "audit") \/ At(g, "fail")}

Crash ==
    /\ restarts < MaxRestarts
    /\ restarts' = restarts + 1
    /\ steps' = [g \in Gates |->
                    IF At(g, "idle") \/ At(g, "over") THEN steps[g]
                    ELSE [NoStep EXCEPT !.pc = "over", !.cycle = Cycle(g)]]
    /\ waiters' = [g \in Gates |-> 0]
    /\ buffers' = [g \in Gates |-> <<>>]
    /\ askers' = <<>>
    /\ marking' = NoMessage
    /\ LET open == {m \in Gates \X Cycles : pending[m[1]][m[2]] = "pending"} IN
       \/ todo' = open /\ excused' = excused \cup Cut /\ UNCHANGED faults
       \/ /\ Fault /\ todo' = {}
          /\ excused' = excused \cup Cut \cup {m[1] : m \in open}
    /\ UNCHANGED <<storeVars, tapped, vetoed, updates>>

\* reconcileInterruptedApprovals: an audit row, then the mark; either write
\* may fail, which is logged.
ReconcileAudit ==
    /\ marking = NoMessage
    /\ \E m \in todo :
        /\ todo' = todo \ {m} /\ marking' = m
        /\ \/ /\ audit' = [audit EXCEPT ![m[1]] = @ \cup {<<m[2], "interrupted">>}]
              /\ UNCHANGED <<faults, excused>>
           \/ Fault /\ Excuse(m[1]) /\ UNCHANGED audit
    /\ UNCHANGED <<steps, pumpVars, pending, tapped, vetoed, updates, restarts>>

\* Mutant: every gate of the run is marked, audited or not.
MarkAll ==
    /\ marking # NoMessage
    /\ marking' = NoMessage /\ todo' = {}
    /\ pending' = [g \in Gates |-> [c \in Cycles |->
                      IF pending[g][c] = "pending" THEN "interrupted" ELSE pending[g][c]]]
    /\ UNCHANGED <<steps, pumpVars, audit, history, bounds>>

MarkInterrupted ==
    /\ marking # NoMessage
    /\ marking' = NoMessage
    /\ \/ /\ pending' = [pending EXCEPT ![marking[1]][marking[2]] = "interrupted"]
          /\ UNCHANGED <<faults, excused>>
       \/ Fault /\ Excuse(marking[1]) /\ UNCHANGED pending
    /\ UNCHANGED <<steps, pumpVars, audit, todo, tapped, vetoed, updates, restarts>>

-----------------------------------------------------------------------------
Init ==
    /\ steps = [g \in Gates |-> NoStep]
    /\ waiters = [g \in Gates |-> 0] /\ buffers = [g \in Gates |-> <<>>] /\ askers = <<>>
    /\ pending = [g \in Gates |-> [c \in Cycles |-> "none"]]
    /\ audit = [g \in Gates |-> {}]
    /\ todo = {} /\ marking = NoMessage
    /\ tapped = [g \in Gates |-> {}] /\ vetoed = {} /\ excused = {}
    /\ updates = 0 /\ faults = 0 /\ restarts = 0

Run(g) ==
    \/ AutoApprove(g) \/ Enter(g) \/ BeginApproval(g) \/ SendDraft(g) \/ Register(g)
    \/ Handle(g) \/ Elapse(g) \/ ResolveApproval(g) \/ RecordAudit(g) \/ Finish(g) \/ Rewrite(g)

Operate ==
    \/ \E g \in Gates, c \in Cycles, o \in Operators, k \in Taps :
        Tap(g, c, [kind |-> k, from |-> o])
    \/ \E o \in Operators : Type(o)

Next ==
    \/ \E g \in Gates : Run(g)
    \/ Operate \/ Crash \/ ReconcileAudit \/ MarkInterrupted

Spec == Init /\ [][Next]_vars

-----------------------------------------------------------------------------
\* The types of the state; a waiter is the one of the message its gate waits on.
ApprovalTypeOK ==
    /\ steps \in [Gates -> StepRecord]
    /\ \A g \in Gates : /\ waiters[g] = IF At(g, "wait") THEN Cycle(g) ELSE 0
                        /\ buffers[g] \in Seq(Update) /\ Len(buffers[g]) <= WaiterBuffer
                        /\ waiters[g] = 0 => buffers[g] = <<>>
                        /\ g \in ToSet(askers) <=> At(g, "wait") /\ steps[g].textFor # ""
    /\ pending \in [Gates -> [Cycles -> {"none", "pending", "resolved", "interrupted"}]]
    /\ audit \in [Gates -> SUBSET ((Cycles \cup {PolicyCycle}) \X Decisions)]
    /\ todo \subseteq Gates \X Cycles /\ marking \in (Gates \X Cycles) \cup {NoMessage}

\* A step is released by its policy or by the quorum of distinct permitted
\* operators who tapped approve on the message that showed the draft in
\* force: a tap on the message of an earlier draft, a second tap of the same
\* operator and one of somebody outside approvers never count, and the row
\* that says so is in the trail; and none of a quorum gate comes after a veto,
\* whatever is buffered (main.go:1535, main.go:818, main.go:873).
ReleaseIsApproved ==
    \A g \in Gates : steps[g].released =>
      /\ Quorum[g] >= 2 => g \notin vetoed
      /\ \/ <<PolicyCycle, "policy_approve">> \in audit[g]
         \/ /\ <<Cycle(g), "approve">> \in audit[g]
            /\ Cardinality({o \in Approvers : <<Cycle(g), o>> \in tapped[g]}) >= Quorum[g]

\* Each draft that was posted ends in one verdict of the trail: a crash, a
\* failed write or a boot that is itself interrupted never adds a second one
\* that says otherwise (main.go:1547, main.go:1713).
OneVerdict ==
    \A g \in Gates, c \in Cycles :
        Cardinality({d \in Decisions \ {"quorum_fail"} : <<c, d>> \in audit[g]}) <= 1

\* Once the engine is up, no gate has vanished: a row that is settled or
\* marked has its verdict in the trail, and one still pending belongs to a run
\* that is alive.  Excused are the runs a failed write halted, which the log
\* shows, and a crash between settling the row and recording the decision,
\* which nothing shows (main.go:1547, main.go:1682).
NoGateVanishes ==
    Up => \A g \in Gates \ excused, c \in Cycles :
        LET live == Cycle(g) = c /\ ~At(g, "over") IN
        /\ pending[g][c] = "pending" => live
        /\ pending[g][c] \in {"resolved", "interrupted"} =>
               \/ live /\ At(g, "audit")
               \/ \E d \in Decisions : <<c, d>> \in audit[g]

\* The skip is decided when the button is tapped: a gate that took it is not
\* released (docs/action-receipts.md:267).
SkipStands == \A g \in vetoed : ~steps[g].released

\* A text goes to the gate that asked for one last (telegram_pump.go:19).
TextGoesToTheLatest ==
    [][\A g \in Gates : Len(buffers'[g]) > Len(buffers[g]) /\ Last(buffers'[g]).kind = "text"
            => g = Last(askers)]_vars
=============================================================================
