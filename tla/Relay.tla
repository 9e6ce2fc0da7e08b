------------------------------- MODULE Relay -------------------------------
(***************************************************************************)
(* An approval that goes out over hitl/v0: the gate's side                  *)
(* (relay_channel.go, internal/relay/protocol.go) and its two relays, with  *)
(* the HTTP calls between them.  The gate registers, dispatches and waits.  *)
(* The Slack relay (contrib/slack-relay) posts one message, forwards one    *)
(* click at a time, and closes the message on the gate's answer or at the   *)
(* deadline; the Teams relay (contrib/teams-relay) forwards whatever comes  *)
(* in until one decision was answered.  Each side keeps its own map by      *)
(* approval id, so one approval is the whole story.                         *)
(*                                                                          *)
(* A user stands for the one identity the relay maps it to (parseApprovers  *)
(* refuses two).  A decision carries the nonce and the hash of its          *)
(* dispatch, so those checks never fail between an honest pair.  Of the     *)
(* message in Slack the buttons and the status line are kept; two updates   *)
(* of it are two HTTP calls, in whichever order Slack takes them.           *)
(***************************************************************************)
EXTENDS Naturals, Sequences, FiniteSets, Functions

CONSTANTS
    Users,      \* the relay's approvers
    Permitted,  \* those the step admits
    Need,       \* the quorum
    MaxClicks,  \* bound: clicks that the Slack relay forwards
    MaxPosts,   \* bound: decisions that the Teams relay forwards
    MaxFaults   \* bound: lost calls, refused posts, crashes, repeated dispatches

Copies == {"first", "again"}  \* of the one dispatch
Verbs == {"approve", "skip", "adjust"}
Message == [buttons : BOOLEAN, says : {"nothing", "progress", "expired", "already"} \cup Verbs]
Decision == [n : 1 .. MaxClicks, user : Users, verb : Verbs]

\* SendForQuorumApproval refuses a gate nobody can satisfy.
Satisfiable == Permitted # {} /\ Need \in 1 .. Cardinality(Permitted)

ASSUME RelayAssumption ==
    /\ IsFiniteSet(Users)
    /\ Permitted \subseteq Users /\ Satisfiable
    /\ {MaxClicks, MaxPosts, MaxFaults} \subseteq Nat /\ MaxPosts <= MaxClicks

VARIABLES
    kind,       \* the relay at relay.url
    clock,      \* 1: expires_at, cut to the second, has passed; 2: the context's deadline
    gate,       \* where SendForQuorumApproval stands
    live,       \* the gate is in pending
    approvers,  \* whose approval it has, in order
    done,       \* the channel of one decision
    result,     \* what the pipeline was told
    dispatches, \* dispatches on their way to the relay
    posting,    \* the one whose message is on its way to Slack
    ack,        \* the relay's answer to the first
    arriving,   \* decisions on their way to the gate
    verified,   \* decisions that found the gate and passed VerifyDecision
    phase,      \* the relay's phase of the approval; "unknown" when not in its map
    approved,   \* whose approval it knows to be recorded
    outcome,    \* why it closed
    timer,      \* its expiry timer is set
    deciding,   \* the decisions whose handlers wait for the gate
    answer,     \* the gate's answers to those
    lapsing,    \* a handler is about to close a reopened message
    shown,      \* the message in Slack
    updates,    \* updates of it on their way
    clicks,     \* clicks forwarded so far
    pressed,    \* history: what was clicked
    faults

gateVars == <<gate, live, approvers, done, result>>
net == <<dispatches, posting, ack, arriving, verified>>
slack == <<shown, updates>>
relayVars == <<phase, approved, outcome, timer, deciding, answer, lapsing, slack, clicks, pressed>>
vars == <<kind, clock, gateVars, net, relayVars, faults>>

RelayTypeOK ==
    /\ kind \in {"slack", "teams"} /\ clock \in 0 .. 2 /\ faults \in 0 .. MaxFaults
    /\ gate \in {"new", "dispatching", "waiting", "returned", "ended"}
    /\ live \in BOOLEAN /\ result \in {"none", "timeout", "lost"} \cup Verbs
    /\ Range(approvers) \subseteq Permitted /\ done \subseteq Verbs
    /\ dispatches \subseteq Copies /\ posting \subseteq Copies /\ ack \in {"none", "ok", "refused"}
    /\ arriving \subseteq Decision /\ verified \subseteq Decision /\ deciding \subseteq Decision
    /\ phase \in {"unknown", "posting", "open", "deciding", "closed"}
    /\ approved \subseteq Users /\ timer \in BOOLEAN /\ lapsing \in BOOLEAN
    /\ outcome \in {"none", "expired", "already"} \cup Verbs
    /\ shown \in Message /\ updates \subseteq Message

-----------------------------------------------------------------------------
Fault == faults < MaxFaults /\ faults' = faults + 1

Tick ==
    /\ clock < 2 /\ clock' = clock + 1
    /\ UNCHANGED <<kind, gateVars, net, relayVars, faults>>

\* The gate is registered before its dispatch leaves.
Register ==
    /\ gate = "new" /\ gate' = "dispatching"
    /\ live' = TRUE /\ dispatches' = {"first"}
    /\ UNCHANGED <<kind, clock, approvers, done, result, posting, ack, arriving, verified, relayVars, faults>>

Return(r) == gate' = "returned" /\ result' = r

\* dispatch returns with the relay's answer, or without one.
Dispatched ==
    /\ gate = "dispatching"
    /\ \/ ack = "ok" /\ gate' = "waiting" /\ UNCHANGED <<result, dispatches, faults>>
       \/ ack = "refused" /\ Return("timeout") /\ UNCHANGED <<dispatches, faults>>
       \/ /\ Fault
          /\ Return("timeout") /\ dispatches' \in {dispatches, {}}
       \/ /\ clock = 2 /\ ack = "none"
          /\ Return("timeout") /\ UNCHANGED <<dispatches, faults>>
    /\ UNCHANGED <<kind, clock, live, approvers, done, posting, ack, arriving, verified, relayVars>>

\* The select of SendForQuorumApproval: either case, when both are ready.
Decided ==
    /\ gate = "waiting"
    /\ \E r \in done : Return(r)
    /\ UNCHANGED <<kind, clock, live, approvers, done, net, relayVars, faults>>

TimedOut ==
    /\ gate = "waiting" /\ clock = 2
    /\ Return("timeout")
    /\ UNCHANGED <<kind, clock, live, approvers, done, net, relayVars, faults>>

\* Its deferred delete.
Unregister ==
    /\ gate = "returned" /\ gate' = "ended" /\ live' = FALSE
    /\ UNCHANGED <<kind, clock, approvers, done, result, net, relayVars, faults>>

EngineCrash ==
    /\ gate \in {"dispatching", "waiting", "returned"} /\ Fault
    /\ gate' = "ended" /\ live' = FALSE /\ verified' = {}
    /\ result' = IF gate = "returned" THEN result ELSE "lost"
    /\ UNCHANGED <<kind, clock, approvers, done, dispatches, posting, ack, arriving, relayVars>>

-----------------------------------------------------------------------------
Acknowledge(x, status) == ack' = IF x = "first" THEN status ELSE ack

\* External: the network delivers the dispatch again.
Repeat ==
    /\ gate # "new" /\ Fault
    /\ dispatches' = dispatches \cup {"again"}
    /\ UNCHANGED <<kind, clock, gateVars, posting, ack, arriving, verified, relayVars>>

\* renderBlocks: what a message shows besides the dispatch.
View(buttons, says) == [buttons |-> buttons, says |-> says]

\* checkDispatch, of a dispatch that was not altered on its way.
CheckDispatch == clock = 0

\* The Slack relay's handleDispatch up to the post: expired, already known, or
\* reserved.
HandleDispatch(x) ==
    /\ kind = "slack" /\ x \in dispatches /\ dispatches' = dispatches \ {x}
    /\ \/ ~CheckDispatch /\ Acknowledge(x, "refused") /\ UNCHANGED <<phase, posting>>
       \/ CheckDispatch /\ phase # "unknown" /\ Acknowledge(x, "ok") /\ UNCHANGED <<phase, posting>>
       \/ CheckDispatch /\ phase = "unknown" /\ phase' = "posting" /\ posting' = {x} /\ UNCHANGED ack
    /\ UNCHANGED <<kind, clock, gateVars, arriving, verified, approved, outcome, timer, deciding,
                   answer, lapsing, slack, clicks, pressed, faults>>

\* ... and after it.
Posted ==
    /\ phase = "posting" /\ posting' = {}
    /\ \E x \in posting :
          \/ /\ phase' = "open" /\ timer' = TRUE /\ shown' = View(TRUE, "nothing")
             /\ Acknowledge(x, "ok") /\ UNCHANGED faults
          \/ phase' = "unknown" /\ Acknowledge(x, "refused") /\ Fault /\ UNCHANGED <<timer, shown>>
    /\ UNCHANGED <<kind, clock, gateVars, dispatches, arriving, verified, approved, outcome,
                   deciding, answer, lapsing, updates, clicks, pressed>>

\* slackClient.call: an update reaches Slack, or fails and is logged.
Update(w) ==
    /\ w \in updates /\ updates' = updates \ {w}
    /\ \/ shown' = w /\ UNCHANGED faults
       \/ UNCHANGED shown /\ Fault
    /\ UNCHANGED <<kind, clock, gateVars, net, phase, approved, outcome, timer, deciding, answer,
                   lapsing, clicks, pressed>>

\* Mutant of Expire: it closes whatever it finds.
CloseAll ==
    /\ phase' = "closed" /\ outcome' = "expired"
    /\ updates' = updates \cup {View(FALSE, "expired")}

\* expire: only an open approval.
Expire ==
    \/ /\ phase = "open"
       /\ phase' = "closed" /\ outcome' = "expired"
       /\ updates' = updates \cup {View(FALSE, "expired")}
    \/ phase # "open" /\ UNCHANGED <<phase, outcome, updates>>

TimerFires ==
    /\ timer /\ clock > 0
    /\ timer' = FALSE
    /\ Expire
    /\ UNCHANGED <<kind, clock, gateVars, net, approved, deciding, answer, lapsing, shown, clicks, pressed, faults>>

BuildDecision(u, v) == [n |-> clicks + 1, user |-> u, verb |-> v]

\* handleClick up to the post; a click that it refuses changes nothing.
Click(u, v) ==
    /\ kind = "slack" /\ phase = "open" /\ clicks < MaxClicks
    /\ u \in Permitted /\ ~(v = "approve" /\ u \in approved)
    /\ LET d == BuildDecision(u, v)
       IN  deciding' = {d} /\ arriving' = arriving \cup {d} /\ pressed' = pressed \cup {d}
    /\ phase' = "deciding" /\ clicks' = clicks + 1 /\ answer' = {}
    /\ UNCHANGED <<kind, clock, gateVars, dispatches, posting, ack, verified, approved, outcome, timer,
                   lapsing, slack, faults>>

-----------------------------------------------------------------------------
\* The answer reaches the handler that still waits for it.
Answer(d, status, resolved) ==
    answer' = answer \cup {[of |-> x, status |-> status, resolved |-> resolved] : x \in {d} \cap deciding}

\* VerifyDecision, and the status its error is answered with.
VerifyDecision(d) ==
    CASE clock = 2 -> 410
      [] d.user \notin Permitted -> 403
      [] OTHER -> 200

\* handleDecision up to VerifyDecision: the entry is looked up, the lock given back.
Verify(d) ==
    /\ d \in arriving /\ arriving' = arriving \ {d}
    /\ \/ ~live /\ Answer(d, 409, TRUE) /\ UNCHANGED verified
       \/ live /\ VerifyDecision(d) # 200 /\ Answer(d, VerifyDecision(d), TRUE) /\ UNCHANGED verified
       \/ live /\ VerifyDecision(d) = 200 /\ verified' = verified \cup {d} /\ UNCHANGED answer
    /\ UNCHANGED <<kind, clock, gateVars, dispatches, posting, ack, phase, approved, outcome, timer, deciding,
                   lapsing, slack, clicks, pressed, faults>>

\* resolve: once.
Resolve(v) == done' = IF done = {} THEN {v} ELSE done

\* Mutant of Record: approvals are counted, not the people who gave them.
RecordAny(d) ==
    /\ d \in verified /\ verified' = verified \ {d}
    /\ \/ /\ d.verb # "approve"
          /\ Resolve(d.verb) /\ Answer(d, 200, TRUE) /\ UNCHANGED approvers
       \/ /\ d.verb = "approve"
          /\ approvers' = Append(approvers, d.user)
          /\ IF Len(approvers') >= Need
             THEN Resolve("approve") /\ Answer(d, 200, TRUE)
             ELSE UNCHANGED done /\ Answer(d, 200, FALSE)
    /\ UNCHANGED <<kind, clock, gate, live, result, dispatches, posting, ack, arriving, phase, approved,
                   outcome, timer, deciding, lapsing, slack, clicks, pressed, faults>>

\* ... and from the lock on: a skip or an adjust resolves, approvals count by
\* who gave them.  A decision that finds the gate resolved is answered like
\* the one that resolved it.
Record(d) ==
    /\ d \in verified /\ verified' = verified \ {d}
    /\ \/ /\ d.verb # "approve"
          /\ Resolve(d.verb) /\ Answer(d, 200, TRUE) /\ UNCHANGED approvers
       \/ /\ d.verb = "approve" /\ d.user \in Range(approvers)
          /\ Answer(d, 200, FALSE) /\ UNCHANGED <<approvers, done>>
       \/ /\ d.verb = "approve" /\ d.user \notin Range(approvers)
          /\ approvers' = Append(approvers, d.user)
          /\ IF Len(approvers') >= Need
             THEN Resolve("approve") /\ Answer(d, 200, TRUE)
             ELSE UNCHANGED done /\ Answer(d, 200, FALSE)
    /\ UNCHANGED <<kind, clock, gate, live, result, dispatches, posting, ack, arriving, phase, approved,
                   outcome, timer, deciding, lapsing, slack, clicks, pressed, faults>>

\* What handleClick makes of the answer, none included.
Reopen == phase' = "open" /\ UNCHANGED <<outcome, timer>>
Close(why) ==
    /\ phase' = "closed" /\ outcome' = why /\ timer' = FALSE
    /\ updates' = updates \cup {View(FALSE, why)}

\* Mutant of Lapsed: a reopened message is left to the timer.
LeftToTimer == FALSE

\* The timer passes over an approval that is being decided.
Lapsed == phase' = "open" /\ clock > 0

Settle ==
    /\ kind = "slack"
    /\ \E a \in answer, d \in deciding :
          \/ /\ a.status = 200 /\ ~a.resolved /\ Reopen
             /\ approved' = approved \cup {d.user}
             /\ updates' = updates \cup {View(TRUE, "progress")}
          \/ a.status = 403 /\ Reopen /\ UNCHANGED <<approved, updates>>
          \/ /\ a.status = 200 /\ a.resolved /\ Close(d.verb)
             /\ approved' = IF d.verb = "approve" THEN approved \cup {d.user} ELSE approved
          \/ a.status = 409 /\ Close("already") /\ UNCHANGED approved
          \/ a.status = 410 /\ Close("expired") /\ UNCHANGED approved
    /\ lapsing' = (lapsing \/ Lapsed)
    /\ deciding' = {} /\ answer' = {}
    /\ UNCHANGED <<kind, clock, gateVars, net, shown, clicks, pressed, faults>>

\* postDecision fails, or nobody is left to answer: the decision may still
\* arrive, or have been recorded.
Unanswered(d) == d \notin arriving \cup verified /\ \A a \in answer : a.of # d

GiveUp ==
    /\ kind = "slack"
    /\ \E d \in deciding : Fault \/ (Unanswered(d) /\ UNCHANGED faults)
    /\ Reopen /\ lapsing' = (lapsing \/ Lapsed)
    /\ arriving' \in {arriving, arriving \ deciding}
    /\ deciding' = {} /\ answer' = {}
    /\ UNCHANGED <<kind, clock, gateVars, dispatches, posting, ack, verified, approved, slack, clicks, pressed>>

\* After the handler's own update.
Lapse ==
    /\ lapsing /\ View(TRUE, "progress") \notin updates
    /\ lapsing' = FALSE
    /\ Expire
    /\ UNCHANGED <<kind, clock, gateVars, net, approved, timer, deciding, answer, shown, clicks, pressed, faults>>

\* pruneLocked, in the dispatch of another approval, long after the deadline.
Prune ==
    /\ phase = "closed" /\ clock = 2
    /\ phase' = "unknown" /\ approved' = {} /\ outcome' = "none"
    /\ UNCHANGED <<kind, clock, gateVars, net, timer, deciding, answer, lapsing, slack, clicks,
                   pressed, faults>>

-----------------------------------------------------------------------------
\* The Teams relay's handleDispatch: it keeps every dispatch, and its answer
\* leaves when the handler returns ...
KeepDispatch(x) ==
    /\ kind = "teams" /\ x \in dispatches /\ dispatches' = dispatches \ {x}
    /\ phase' = "open" /\ posting' = posting \cup {x}
    /\ UNCHANGED <<kind, clock, gateVars, ack, arriving, verified, approved, outcome, timer,
                   deciding, answer, lapsing, slack, clicks, pressed, faults>>

\* ... which is after renderCard; a card that could not be posted is logged.
RenderCard(x) ==
    /\ kind = "teams" /\ x \in posting /\ posting' = posting \ {x}
    /\ Acknowledge(x, "ok")
    /\ \/ shown' = View(TRUE, "nothing") /\ UNCHANGED faults
       \/ UNCHANGED shown /\ Fault
    /\ UNCHANGED <<kind, clock, gateVars, dispatches, arriving, verified, phase, approved, outcome,
                   timer, deciding, answer, lapsing, updates, clicks, pressed>>

\* handleHumanDecision up to the post: side by side, of anyone, at any time.
HumanDecision(u, v) ==
    /\ kind = "teams" /\ phase = "open" /\ clicks < MaxPosts
    /\ LET d == BuildDecision(u, v)
       IN  /\ deciding' = deciding \cup {d} /\ arriving' = arriving \cup {d}
           /\ pressed' = pressed \cup {d}
    /\ clicks' = clicks + 1
    /\ UNCHANGED <<kind, clock, gateVars, dispatches, posting, ack, verified, phase, approved, outcome,
                   timer, answer, lapsing, slack, faults>>

\* ... and after it: whatever the gate answered, the approval is forgotten.
Forwarded(a) ==
    /\ kind = "teams" /\ a \in answer
    /\ phase' = "unknown"
    /\ deciding' = deciding \ {a.of} /\ answer' = answer \ {a}
    /\ UNCHANGED <<kind, clock, gateVars, net, approved, outcome, timer, lapsing, slack, clicks,
                   pressed, faults>>

ForwardingFailed(d) ==
    /\ kind = "teams" /\ d \in deciding
    /\ Fault \/ (Unanswered(d) /\ UNCHANGED faults)
    /\ arriving' \in {arriving, arriving \ {d}}
    /\ deciding' = deciding \ {d} /\ answer' = {a \in answer : a.of # d}
    /\ UNCHANGED <<kind, clock, gateVars, dispatches, posting, ack, verified, phase, approved, outcome,
                   timer, lapsing, slack, clicks, pressed>>

-----------------------------------------------------------------------------
\* The relays keep nothing on disk.  (The Teams relay's handlers share its map
\* without a lock, which may end the process too.)
RelayRestart ==
    /\ (phase # "unknown" \/ deciding # {} \/ posting # {}) /\ Fault
    /\ phase' = "unknown" /\ approved' = {} /\ outcome' = "none" /\ timer' = FALSE
    /\ deciding' = {} /\ answer' = {} /\ lapsing' = FALSE
    /\ posting' = {} /\ ack' = IF "first" \in posting THEN "refused" ELSE ack
    /\ updates' \in {updates, {}}
    /\ UNCHANGED <<kind, clock, gateVars, dispatches, arriving, verified, shown, clicks, pressed>>

-----------------------------------------------------------------------------
Init ==
    /\ kind \in {"slack", "teams"} /\ clock = 0 /\ faults = 0
    /\ gate = "new" /\ live = FALSE /\ approvers = <<>> /\ done = {} /\ result = "none"
    /\ dispatches = {} /\ posting = {} /\ ack = "none" /\ arriving = {} /\ verified = {}
    /\ phase = "unknown" /\ approved = {} /\ outcome = "none" /\ timer = FALSE
    /\ deciding = {} /\ answer = {} /\ lapsing = FALSE /\ clicks = 0 /\ pressed = {}
    /\ shown = View(FALSE, "nothing") /\ updates = {}

Next ==
    \/ Tick \/ Register \/ Posted \/ Dispatched \/ Decided \/ TimedOut \/ Unregister \/ EngineCrash
    \/ Repeat \/ TimerFires \/ (\E w \in updates : Update(w)) \/ Settle \/ GiveUp \/ Lapse \/ Prune \/ RelayRestart
    \/ \E x \in Copies : HandleDispatch(x) \/ KeepDispatch(x) \/ RenderCard(x)
    \/ \E u \in Users, v \in Verbs : Click(u, v) \/ HumanDecision(u, v)
    \/ (\E a \in answer : Forwarded(a)) \/ (\E d \in deciding : ForwardingFailed(d))
    \/ \E d \in Decision : Verify(d) \/ Record(d)

\* Time passes, timers fire, and a handler that was called runs to its end.
Fairness ==
    /\ WF_vars(Tick) /\ WF_vars(TimerFires) /\ WF_vars(Lapse)
    /\ WF_vars(Settle \/ \E a \in answer : Forwarded(a))
    /\ WF_vars(GiveUp \/ \E d \in deciding : ForwardingFailed(d))
    /\ WF_vars(TimedOut) /\ WF_vars(Unregister) /\ WF_vars(Dispatched)
    /\ WF_vars(Posted \/ \E x \in posting : RenderCard(x))
    /\ WF_vars(\E w \in updates : Update(w))
    /\ \A d \in Decision : WF_vars(Verify(d)) /\ WF_vars(Record(d))

Spec == Init /\ [][Next]_vars /\ Fairness

-----------------------------------------------------------------------------
\* The pipeline is told "approve" only when as many different permitted people
\* as the quorum asks for pressed Approve on the relay's message, whatever was
\* lost, sent again, or pressed twice after an answer was lost (handleDecision).
ApprovedByQuorum ==
    result = "approve" =>
        Cardinality({u \in Permitted : \E d \in pressed : d.user = u /\ d.verb = "approve"}) >= Need

\* When nothing failed, a verdict shown in Slack is the one the gate recorded,
\* and the pipeline was told no other: the verdict itself, or "timeout" when the
\* deadline passed before the select took the recorded verdict up, for then
\* both its cases are ready (SendForQuorumApproval).  "Expired" and "Already
\* resolved" never stand beside a recorded or a told verdict, also when the
\* deadline passes while a decision is on its way or updates overtake each
\* other (expire, handleClick).
ShownIsTrue ==
    faults = 0 =>
        /\ shown.says \in Verbs =>
              /\ done = {shown.says}
              /\ result \in {"none", shown.says} \/ (result = "timeout" /\ clock = 2)
        /\ shown.says \in {"expired", "already"} => done = {} /\ result \notin Verbs

\* "On draftcat's answer, draftcat-slack replaces the message with the outcome,
\* removing the buttons" (contrib/slack-relay/README.md): once a closed
\* approval's updates have all reached Slack, its message has no buttons.
ButtonsGo ==
    faults = 0 /\ phase = "closed" /\ updates = {} => ~shown.buttons

\* "For quorum.required > 1 the relay posts one decision per approver"
\* (docs/hitl-protocol.md:184): as long as the gate collects approvals and
\* nothing failed, its relay takes one from whoever has given none.
ApproversAreHeard ==
    faults = 0 /\ clock = 0 /\ gate = "waiting" /\ done = {} /\ deciding = {} =>
        phase = "open"

\* No gate waits for ever, and no message keeps its buttons past the deadline,
\* also when the timer fired while a decision was in flight that then failed
\* (handleClick's lapsed, SendForQuorumApproval's context).
QuestionsEnd ==
    /\ gate = "dispatching" ~> gate = "ended"
    /\ phase = "open" /\ kind = "slack" ~> phase \in {"closed", "unknown"}

=============================================================================
