---------------------------- MODULE RelayProofs ----------------------------
(***************************************************************************)
(* Proofs about the relayed approval: for any set of people, any quorum and *)
(* any number of clicks, posts and faults, the pipeline is told "approve"   *)
(* only when enough different permitted people pressed Approve.             *)
(*                                                                          *)
(* The invariant follows an approval from the click to the verdict.  What   *)
(* is on its way was pressed; what passed VerifyDecision is of somebody     *)
(* permitted; the gate counts nobody twice, and nobody who did not press;   *)
(* and it resolves to "approve" on a full count only.                       *)
(*                                                                          *)
(* A second invariant follows a click of the Slack relay while nothing      *)
(* fails: it is under way, verified or answered, its one answer tells       *)
(* whether it resolved the gate, and a message that tells a verdict is that *)
(* of an approval no click can reach any more.                              *)
(***************************************************************************)
EXTENDS Relay, FiniteSetTheorems, TLAPS

\* Nothing reaches the gate that nobody pressed.
OnTheirWay ==
    /\ arriving \cup verified \subseteq pressed
    /\ \A d \in verified : d.user \in Permitted

HasPressed(u) == \E d \in pressed : d.user = u /\ d.verb = "approve"

\* The approvers the gate keeps: permitted, each once, each of whom pressed.
Counted ==
    /\ approvers \in Seq(Permitted)
    /\ IsFiniteSet(Range(approvers)) /\ Cardinality(Range(approvers)) = Len(approvers)
    /\ \A u \in Range(approvers) : HasPressed(u)

\* An approval is resolved, and returned, on a full count.
Told == "approve" \in done \cup {result} => Len(approvers) >= Need

QuorumInv == OnTheirWay /\ Counted /\ Told

-----------------------------------------------------------------------------

\* The quorum is a number.
LEMMA NeedIsNat == Need \in Nat
  BY RelayAssumption, FS_Subset, FS_CardinalityType DEF Satisfiable

\* Appending an approver that is not there yet counts one person more.
LEMMA AppendCounts ==
    ASSUME NEW S, NEW s \in Seq(S), NEW x \in S, IsFiniteSet(Range(s))
    PROVE  /\ Append(s, x) \in Seq(S) /\ Len(Append(s, x)) = Len(s) + 1
           /\ Range(Append(s, x)) = Range(s) \cup {x}
           /\ IsFiniteSet(Range(Append(s, x)))
           /\ x \notin Range(s) =>
                 Cardinality(Range(Append(s, x))) = Cardinality(Range(s)) + 1
  <1>1. Append(s, x) \in Seq(S) /\ Len(Append(s, x)) = Len(s) + 1 /\ Len(s) \in Nat
    OBVIOUS
  <1>2. Range(Append(s, x)) = Range(s) \cup {x}
    <2>1. DOMAIN s = 1 .. Len(s) /\ DOMAIN Append(s, x) = 1 .. Len(s) + 1
      OBVIOUS
    <2>2. Append(s, x)[Len(s) + 1] = x /\ \A i \in 1 .. Len(s) : Append(s, x)[i] = s[i]
      OBVIOUS
    <2> QED
      BY <1>1, <2>1, <2>2 DEF Range
  <1> QED
    BY <1>1, <1>2, FS_AddElement

\* A step that forgets decisions, or passes on what was pressed, changes
\* nothing about the count.
LEMMA CountKept ==
    ASSUME QuorumInv, UNCHANGED <<approvers, done>>, pressed \subseteq pressed',
           arriving' \cup verified' \subseteq pressed',
           \A d \in verified' : d.user \in Permitted,
           result' = "approve" => "approve" \in done \cup {result}
    PROVE  QuorumInv'
  BY DEF QuorumInv, OnTheirWay, Counted, HasPressed, Told

-----------------------------------------------------------------------------
\* The type invariant, with the number of the next click, which it leaves open.
Typed == RelayTypeOK /\ clicks \in 0 .. MaxClicks

\* Every step keeps the shape.
LEMMA TypedStep ==
    ASSUME Typed, QuorumInv, [Next]_vars
    PROVE  Typed'
  <1>0. /\ MaxClicks \in Nat /\ MaxPosts \in Nat /\ MaxFaults \in Nat
        /\ MaxPosts <= MaxClicks /\ Permitted \subseteq Users
    BY RelayAssumption
  <1>f. Fault => faults' \in 0 .. MaxFaults
    BY <1>0 DEF Fault, Typed, RelayTypeOK
  <1>m. /\ View(TRUE, "nothing") \in Message /\ View(TRUE, "progress") \in Message
        /\ View(FALSE, "expired") \in Message /\ View(FALSE, "already") \in Message
        /\ \A v \in Verbs : View(FALSE, v) \in Message
    BY DEF Message, View
  <1>d. /\ \A d \in Decision : d.user \in Users /\ d.verb \in Verbs
        /\ clicks < MaxClicks => \A u \in Users, v \in Verbs : BuildDecision(u, v) \in Decision
    BY <1>0 DEF Decision, BuildDecision, Typed
  <1>c. "first" \in Copies /\ "again" \in Copies /\ "approve" \in Verbs
    BY DEF Copies, Verbs
  <1>a. CASE UNCHANGED vars
    BY <1>a DEF Typed, RelayTypeOK, vars, gateVars, net, relayVars, slack
  <1>1. CASE Tick
    BY <1>0, <1>1 DEF Tick, Typed, RelayTypeOK, gateVars, net, relayVars, slack
  <1>2. CASE Register
    BY <1>0, <1>c, <1>2 DEF Register, Typed, RelayTypeOK, gateVars, net, relayVars, slack
  <1>3. CASE Posted
    <2>1. PICK x \in posting :
             \/ /\ phase' = "open" /\ timer' = TRUE /\ shown' = View(TRUE, "nothing")
                /\ Acknowledge(x, "ok") /\ UNCHANGED faults
             \/ phase' = "unknown" /\ Acknowledge(x, "refused") /\ Fault /\ UNCHANGED <<timer, shown>>
      BY <1>3 DEF Posted
    <2>2. /\ phase' \in {"open", "unknown"} /\ timer' \in BOOLEAN /\ shown' \in Message
          /\ faults' \in 0 .. MaxFaults
      BY <1>f, <1>m, <2>1 DEF Typed, RelayTypeOK
    <2>3. ack' \in {"none", "ok", "refused"}
      BY <2>1 DEF Acknowledge, Typed, RelayTypeOK
    <2> QED
      BY <1>3, <2>2, <2>3 DEF Posted, Typed, RelayTypeOK, gateVars
  <1>4. CASE Dispatched
    BY <1>0, <1>f, <1>4 DEF Dispatched, Return, Typed, RelayTypeOK, gateVars, net, relayVars, slack
  <1>5. CASE Decided
    BY <1>0, <1>5 DEF Decided, Return, Typed, RelayTypeOK, gateVars, net, relayVars, slack
  <1>6. CASE TimedOut
    BY <1>0, <1>6 DEF TimedOut, Return, Typed, RelayTypeOK, gateVars, net, relayVars, slack
  <1>7. CASE Unregister
    BY <1>0, <1>7, ZenonT(60) DEF Unregister, Typed, RelayTypeOK, gateVars, net, relayVars, slack
  <1>8. CASE EngineCrash
    BY <1>0, <1>f, <1>8, ZenonT(60) DEF EngineCrash, Typed, RelayTypeOK, gateVars, net, relayVars, Decision, slack
  <1>9. CASE Repeat
    BY <1>0, <1>c, <1>f, <1>9 DEF Repeat, Typed, RelayTypeOK, gateVars, net, relayVars, slack
  <1>10. CASE TimerFires
    BY <1>0, <1>m, <1>10, ZenonT(60) DEF TimerFires, Expire, Typed, RelayTypeOK, gateVars, net, relayVars, slack
  <1>11. CASE Settle
    <2>1. /\ UNCHANGED <<kind, clock, gateVars, net, shown, clicks, pressed, faults>>
          /\ deciding' = {} /\ lapsing' \in BOOLEAN
      BY <1>11 DEF Settle, Lapsed
    <2>2. PICK a \in answer, d \in deciding :
             \/ /\ a.status = 200 /\ ~a.resolved /\ Reopen
                /\ approved' = approved \cup {d.user}
                /\ updates' = updates \cup {View(TRUE, "progress")}
             \/ a.status = 403 /\ Reopen /\ UNCHANGED <<approved, updates>>
             \/ /\ a.status = 200 /\ a.resolved /\ Close(d.verb)
                /\ approved' = IF d.verb = "approve" THEN approved \cup {d.user} ELSE approved
             \/ a.status = 409 /\ Close("already") /\ UNCHANGED approved
             \/ a.status = 410 /\ Close("expired") /\ UNCHANGED approved
      BY <1>11 DEF Settle
    <2>3. d \in Decision /\ d.user \in Users /\ d.verb \in Verbs
      BY <1>d DEF Typed, RelayTypeOK
    <2>4. approved' \subseteq Users /\ updates' \subseteq Message
      BY <1>m, <2>2, <2>3 DEF Reopen, Close, Typed, RelayTypeOK
    <2>5. /\ phase' \in {"unknown", "posting", "open", "deciding", "closed"}
          /\ timer' \in BOOLEAN /\ outcome' \in {"none", "expired", "already"} \cup Verbs
      BY <2>2, <2>3 DEF Reopen, Close, Typed, RelayTypeOK
    <2> QED
      BY <2>1, <2>4, <2>5 DEF Typed, RelayTypeOK, gateVars, net
  <1>12. CASE GiveUp
    BY <1>0, <1>f, <1>12 DEF GiveUp, Reopen, Lapsed, Typed, RelayTypeOK, gateVars, net, relayVars, slack
  <1>13. CASE Lapse
    BY <1>0, <1>m, <1>13, ZenonT(60) DEF Lapse, Expire, Typed, RelayTypeOK, gateVars, net, relayVars, slack
  <1>14. CASE Prune
    BY <1>0, <1>14 DEF Prune, Typed, RelayTypeOK, gateVars, net, relayVars, slack
  <1>15. CASE RelayRestart
    BY <1>0, <1>f, <1>15 DEF RelayRestart, Typed, RelayTypeOK, gateVars, net, relayVars, slack
  <1>16. ASSUME NEW w \in updates, Update(w)
        PROVE  Typed'
    BY <1>0, <1>f, <1>16 DEF Update, Typed, RelayTypeOK, gateVars, net, relayVars, slack
  <1>17. ASSUME NEW x \in Copies, HandleDispatch(x)
        PROVE  Typed'
    BY <1>0, <1>c, <1>17 DEF HandleDispatch, Acknowledge, CheckDispatch, Typed, RelayTypeOK, gateVars, net, relayVars, slack
  <1>18. ASSUME NEW x \in Copies, KeepDispatch(x)
        PROVE  Typed'
    BY <1>0, <1>c, <1>18 DEF KeepDispatch, Typed, RelayTypeOK, gateVars, net, relayVars, slack
  <1>19. ASSUME NEW x \in Copies, RenderCard(x)
        PROVE  Typed'
    <2>1. shown' \in Message /\ faults' \in 0 .. MaxFaults
      BY <1>f, <1>m, <1>19 DEF RenderCard, Typed, RelayTypeOK
    <2>2. ack' \in {"none", "ok", "refused"}
      BY <1>19 DEF RenderCard, Acknowledge, Typed, RelayTypeOK
    <2> QED
      BY <1>19, <2>1, <2>2 DEF RenderCard, Typed, RelayTypeOK, gateVars
  <1>20. ASSUME NEW u \in Users, NEW v \in Verbs, Click(u, v)
        PROVE  Typed'
    BY <1>0, <1>d, <1>20 DEF Click, Typed, RelayTypeOK, gateVars, net, relayVars, slack
  <1>21. ASSUME NEW u \in Users, NEW v \in Verbs, HumanDecision(u, v)
        PROVE  Typed'
    BY <1>0, <1>d, <1>21 DEF HumanDecision, Typed, RelayTypeOK, gateVars, net, relayVars, slack
  <1>22. ASSUME NEW a \in answer, Forwarded(a)
        PROVE  Typed'
    BY <1>0, <1>22 DEF Forwarded, Typed, RelayTypeOK, gateVars, net, relayVars, slack
  <1>23. ASSUME NEW d \in deciding, ForwardingFailed(d)
        PROVE  Typed'
    BY <1>0, <1>f, <1>23 DEF ForwardingFailed, Typed, RelayTypeOK, gateVars, net, relayVars, slack
  <1>24. ASSUME NEW d \in Decision, Verify(d)
        PROVE  Typed'
    BY <1>0, <1>24 DEF Verify, Answer, Typed, RelayTypeOK, gateVars, net, relayVars, slack
  <1>25. ASSUME NEW d \in Decision, Record(d)
        PROVE  Typed'
    <2>1. d.user \in Permitted /\ d.verb \in Verbs
      BY <1>d, <1>25 DEF QuorumInv, OnTheirWay, Record
    <2>2. done' \subseteq Verbs
      BY <1>c, <1>25, <2>1 DEF Record, Resolve, Typed, RelayTypeOK
    <2>3. Range(approvers') \subseteq Permitted
      <3>1. approvers \in Seq(Permitted) /\ IsFiniteSet(Range(approvers))
        BY DEF QuorumInv, Counted
      <3>2. Range(Append(approvers, d.user)) = Range(approvers) \cup {d.user}
        BY <2>1, <3>1, AppendCounts
      <3>3. approvers' = approvers \/ approvers' = Append(approvers, d.user)
        BY <1>25 DEF Record
      <3> QED
        BY <2>1, <3>2, <3>3 DEF Typed, RelayTypeOK
    <2>4. verified' \subseteq Decision
      BY <1>25 DEF Record, Typed, RelayTypeOK
    <2> QED
      BY <1>25, <2>2, <2>3, <2>4 DEF Record, Typed, RelayTypeOK, gateVars, net, relayVars, slack
  <1> QED
    BY <1>a, <1>1, <1>2, <1>3, <1>4, <1>5, <1>6, <1>7, <1>8, <1>9, <1>10, <1>11, <1>12, <1>13, <1>14, <1>15, <1>16, <1>17, <1>18, <1>19, <1>20, <1>21, <1>22, <1>23, <1>24, <1>25 DEF Next

-----------------------------------------------------------------------------
\* Every step keeps the count right.  Only Record adds to it, under the
\* gate's lock, and only what Verify let through.
LEMMA QuorumStep ==
    ASSUME Typed, QuorumInv, [Next]_vars
    PROVE  QuorumInv'
  <1>a. CASE UNCHANGED vars
    BY <1>a, CountKept DEF QuorumInv, OnTheirWay, vars, gateVars, net, relayVars
  <1>1. CASE Tick
    BY <1>1, CountKept DEF Tick, QuorumInv, OnTheirWay, gateVars, net, relayVars
  <1>2. CASE Register
    BY <1>2, CountKept DEF Register, QuorumInv, OnTheirWay, gateVars, net, relayVars
  <1>3. CASE Posted
    BY <1>3, CountKept DEF Posted, QuorumInv, OnTheirWay, gateVars, net, relayVars
  <1>4. CASE Dispatched
    BY <1>4, CountKept DEF Dispatched, Return, QuorumInv, OnTheirWay, gateVars, net, relayVars
  <1>5. CASE Decided
    BY <1>5, CountKept DEF Decided, Return, QuorumInv, OnTheirWay, gateVars, net, relayVars
  <1>6. CASE TimedOut
    BY <1>6, CountKept DEF TimedOut, Return, QuorumInv, OnTheirWay, gateVars, net, relayVars
  <1>7. CASE Unregister
    BY <1>7, CountKept DEF Unregister, QuorumInv, OnTheirWay, gateVars, net, relayVars
  <1>8. CASE Repeat
    BY <1>8, CountKept DEF Repeat, QuorumInv, OnTheirWay, gateVars, net, relayVars
  <1>9. CASE TimerFires
    BY <1>9, CountKept DEF TimerFires, QuorumInv, OnTheirWay, gateVars, net, relayVars
  <1>10. CASE Settle
    BY <1>10, CountKept DEF Settle, QuorumInv, OnTheirWay, gateVars, net, relayVars
  <1>11. CASE GiveUp
    BY <1>11, CountKept DEF GiveUp, QuorumInv, OnTheirWay, gateVars, net, relayVars
  <1>12. CASE Lapse
    BY <1>12, CountKept DEF Lapse, QuorumInv, OnTheirWay, gateVars, net, relayVars
  <1>13. CASE Prune
    BY <1>13, CountKept DEF Prune, QuorumInv, OnTheirWay, gateVars, net, relayVars
  <1>14. CASE RelayRestart
    BY <1>14, CountKept DEF RelayRestart, QuorumInv, OnTheirWay, gateVars, net, relayVars
  <1>15. ASSUME NEW w \in updates, Update(w)
        PROVE  QuorumInv'
    BY <1>15, CountKept DEF Update, QuorumInv, OnTheirWay, gateVars, net, relayVars
  <1>16. ASSUME NEW x \in Copies, HandleDispatch(x)
        PROVE  QuorumInv'
    BY <1>16, CountKept DEF HandleDispatch, QuorumInv, OnTheirWay, gateVars, net, relayVars
  <1>17. ASSUME NEW x \in Copies, KeepDispatch(x)
        PROVE  QuorumInv'
    BY <1>17, CountKept DEF KeepDispatch, QuorumInv, OnTheirWay, gateVars, net, relayVars
  <1>18. ASSUME NEW x \in Copies, RenderCard(x)
        PROVE  QuorumInv'
    BY <1>18, CountKept DEF RenderCard, QuorumInv, OnTheirWay, gateVars, net, relayVars
  <1>19. ASSUME NEW u \in Users, NEW v \in Verbs, Click(u, v)
        PROVE  QuorumInv'
    BY <1>19, CountKept DEF Click, BuildDecision, QuorumInv, OnTheirWay, gateVars, net, relayVars
  <1>20. ASSUME NEW u \in Users, NEW v \in Verbs, HumanDecision(u, v)
        PROVE  QuorumInv'
    BY <1>20, CountKept DEF HumanDecision, BuildDecision, QuorumInv, OnTheirWay, gateVars, net, relayVars
  <1>21. ASSUME NEW a \in answer, Forwarded(a)
        PROVE  QuorumInv'
    BY <1>21, CountKept DEF Forwarded, QuorumInv, OnTheirWay, gateVars, net, relayVars
  <1>22. ASSUME NEW d \in deciding, ForwardingFailed(d)
        PROVE  QuorumInv'
    BY <1>22, CountKept DEF ForwardingFailed, QuorumInv, OnTheirWay, gateVars, net, relayVars
  <1>23. CASE EngineCrash
    BY <1>23, CountKept DEF EngineCrash, QuorumInv, OnTheirWay, relayVars
  <1>24. ASSUME NEW d \in Decision, Verify(d)
        PROVE  QuorumInv'
    <2>1. d \in verified' => d.user \in Permitted \/ d \in verified
      <3>1. verified' = verified \/ VerifyDecision(d) = 200
        BY <1>24 DEF Verify
      <3>2. VerifyDecision(d) = 200 => d.user \in Permitted
        BY DEF VerifyDecision
      <3> QED
        BY <1>24, <3>1, <3>2 DEF Verify
    <2>2. /\ UNCHANGED <<approvers, done, result, pressed>>
          /\ verified' \subseteq verified \cup arriving /\ arriving' \subseteq arriving
      BY <1>24 DEF Verify, gateVars
    <2>3. \A e \in verified' : e.user \in Permitted
      <3>1. verified' \subseteq verified \cup {d}
        BY <1>24 DEF Verify
      <3> QED
        BY <2>1, <3>1 DEF QuorumInv, OnTheirWay
    <2> QED
      BY <2>1, <2>2, <2>3, CountKept DEF QuorumInv, OnTheirWay
  <1>25. ASSUME NEW d \in Decision, Record(d)
        PROVE  QuorumInv'
    <2>1. d \in verified /\ d \in pressed /\ d.user \in Permitted
      BY <1>25 DEF Record, QuorumInv, OnTheirWay
    <2>2. UNCHANGED <<arriving, pressed, result>> /\ verified' \subseteq verified
      BY <1>25 DEF Record
    <2>3. OnTheirWay'
      BY <2>2 DEF QuorumInv, OnTheirWay
    <2>4. CASE approvers' = approvers /\ (done' = done \/ "approve" \notin done')
      <3>1. Counted' /\ Told'
        BY <2>2, <2>4 DEF QuorumInv, Counted, HasPressed, Told
      <3> QED
        BY <2>3, <3>1 DEF QuorumInv
    <2>5. CASE d.verb = "approve" /\ d.user \notin Range(approvers) /\ approvers' = Append(approvers, d.user)
               /\ (Len(approvers') >= Need \/ done' = done)
      <3>1. approvers \in Seq(Permitted) /\ IsFiniteSet(Range(approvers))
            /\ Cardinality(Range(approvers)) = Len(approvers)
        BY DEF QuorumInv, Counted
      <3>2. /\ approvers' \in Seq(Permitted) /\ Len(approvers') = Len(approvers) + 1
            /\ Range(approvers)' = Range(approvers) \cup {d.user} /\ IsFiniteSet(Range(approvers)')
            /\ Cardinality(Range(approvers)') = Cardinality(Range(approvers)) + 1
        BY <2>1, <2>5, <3>1, AppendCounts
      <3>3. HasPressed(d.user)
        BY <2>1, <2>5 DEF HasPressed
      <3>4. Counted'
        BY <2>2, <3>1, <3>2, <3>3 DEF QuorumInv, Counted, HasPressed
      <3>5. Told'
        BY <2>2, <2>5, <3>1, <3>2, NeedIsNat DEF QuorumInv, Told
      <3> QED
        BY <2>3, <3>4, <3>5 DEF QuorumInv
    <2>6. \/ approvers' = approvers /\ (done' = done \/ "approve" \notin done')
          \/ d.verb = "approve" /\ d.user \notin Range(approvers) /\ approvers' = Append(approvers, d.user)
             /\ (Len(approvers') >= Need \/ done' = done)
      BY <1>25 DEF Record, Resolve
    <2> QED
      BY <2>4, <2>5, <2>6
  <1> QED
    BY <1>a, <1>1, <1>2, <1>3, <1>4, <1>5, <1>6, <1>7, <1>8, <1>9, <1>10, <1>11, <1>12, <1>13, <1>14, <1>15, <1>16, <1>17, <1>18, <1>19, <1>20, <1>21, <1>22, <1>23, <1>24, <1>25 DEF Next

-----------------------------------------------------------------------------
\* Whoever is counted is permitted and pressed Approve, and nobody is counted
\* twice: a count of Need is Need people.
LEMMA CountIsQuorum ==
    ASSUME QuorumInv
    PROVE  ApprovedByQuorum
  <1> DEFINE People == {u \in Permitted : \E d \in pressed : d.user = u /\ d.verb = "approve"}
  <1>1. SUFFICES ASSUME result = "approve"
                 PROVE  Cardinality(People) >= Need
    BY DEF ApprovedByQuorum
  <1>2. Len(approvers) >= Need /\ Len(approvers) \in Nat /\ Cardinality(Range(approvers)) = Len(approvers)
    BY <1>1 DEF QuorumInv, Told, Counted
  <1>3. Range(approvers) \subseteq People
    <2>1. Range(approvers) \subseteq Permitted
      BY DEF QuorumInv, Counted, Range
    <2> QED
      BY <2>1 DEF QuorumInv, Counted, HasPressed
  <1>4. IsFiniteSet(People)
    <2>1. IsFiniteSet(Users) /\ People \in SUBSET Users
      BY RelayAssumption
    <2> QED
      BY <2>1, FS_Subset
  <1>5. Cardinality(Range(approvers)) <= Cardinality(People) /\ Cardinality(People) \in Nat
    BY <1>3, <1>4, FS_Subset, FS_CardinalityType
  <1> QED
    BY <1>2, <1>5, NeedIsNat

-----------------------------------------------------------------------------
\* What a message may say when nothing failed.

\* A message that says how its approval ended.
Final(w) == w.says \notin {"nothing", "progress"}

\* One click is decided at a time, and it is on its way, verified or answered.
OneClick ==
    /\ deciding # {} <=> phase = "deciding"
    /\ \A d, e \in deciding : d = e
    /\ arriving \cup verified \subseteq deciding /\ arriving \cap verified = {}
    /\ \A d \in deciding : ~Unanswered(d)

\* An answer is the last word on its click, and tells whether the click
\* resolved the gate.
AnswersTell ==
    \A a \in answer :
        /\ a.of \in deciding /\ a.of \notin arriving \cup verified
        /\ a.status \in Nat /\ a.resolved \in BOOLEAN
        /\ done = IF a.status = 200 /\ a.resolved THEN {a.of.verb} ELSE {}

\* The gate is undecided up to such an answer, and as long as the relay may
\* take a click.
Undecided ==
    /\ phase \in {"posting", "open"} => done = {}
    /\ phase = "deciding" /\ answer = {} => done = {}
    /\ phase = "unknown" /\ clock < 2 => done = {}

\* A final message, also one on its way, is that of an approval that is over.
FinalsAreTrue ==
    \A w \in updates \cup {shown} : Final(w) =>
        /\ phase = "closed" \/ (phase = "unknown" /\ clock = 2)
        /\ done = IF w.says \in Verbs THEN {w.says} ELSE {}

SlackInv == OneClick /\ AnswersTell /\ Undecided /\ FinalsAreTrue

\* The Teams relay's card never tells a verdict.
TeamsInv ==
    /\ ~timer /\ ~lapsing /\ phase \in {"unknown", "open"}
    /\ updates = {} /\ ~Final(shown)

\* An approval of which the Slack relay has shown nothing.
Untouched == phase = "unknown" /\ updates = {} /\ ~Final(shown)

\* The relay takes the one dispatch of the gate once; when it refuses it, there
\* is no message, and that apart, a gate ends without a verdict at its deadline.
DispatchInv ==
    /\ dispatches \subseteq {"first"}
    /\ gate = "new" => dispatches = {}
    /\ ack = "refused" => dispatches = {} /\ gate # "new"
    /\ gate = "new" \/ dispatches # {} \/ ack = "refused" => Untouched
    /\ result = "lost" => FALSE
    /\ result = "timeout" => clock = 2 \/ ack = "refused"

ShownInv ==
    /\ result \in Verbs => result \in done
    /\ kind = "slack" => (faults = 0 => SlackInv /\ DispatchInv)
    /\ kind = "teams" => TeamsInv

-----------------------------------------------------------------------------
\* A verdict of the gate stays: resolve is once.
LEMMA VerdictStep ==
    ASSUME result \in Verbs => result \in done, [Next]_vars
    PROVE  (result \in Verbs => result \in done)'
  <1>1. done' = done \/ done = {}
    BY DEF Next, vars, gateVars, net, relayVars, slack, Tick, Register, Posted, Dispatched, Decided,
           TimedOut, Unregister, EngineCrash, Repeat, TimerFires, Update, Settle, GiveUp, Lapse, Prune,
           RelayRestart, HandleDispatch, KeepDispatch, RenderCard, Click, HumanDecision, Forwarded,
           ForwardingFailed, Verify, Record, Resolve
  <1>2. "lost" \notin Verbs /\ "timeout" \notin Verbs
    BY DEF Verbs
  <1>3. result' = result \/ result' \in done \cup {"lost", "timeout"}
    BY DEF Next, vars, gateVars, net, relayVars, slack, Tick, Register, Posted, Dispatched, Decided,
           TimedOut, Unregister, EngineCrash, Repeat, TimerFires, Update, Settle, GiveUp, Lapse, Prune,
           RelayRestart, HandleDispatch, KeepDispatch, RenderCard, Click, HumanDecision, Forwarded,
           ForwardingFailed, Verify, Record, Return
  <1> QED
    BY <1>1, <1>2, <1>3

\* The Teams relay sets no timer and updates no card.
LEMMA TeamsStep ==
    ASSUME kind = "teams" => TeamsInv, [Next]_vars
    PROVE  (kind = "teams" => TeamsInv)'
  <1>0. kind' = kind
    BY DEF Next, vars, gateVars, net, relayVars, slack, Tick, Register, Posted, Dispatched, Decided,
           TimedOut, Unregister, EngineCrash, Repeat, TimerFires, Update, Settle, GiveUp, Lapse, Prune,
           RelayRestart, HandleDispatch, KeepDispatch, RenderCard, Click, HumanDecision, Forwarded,
           ForwardingFailed, Verify, Record
  <1>1. SUFFICES ASSUME kind = "teams", TeamsInv
                 PROVE  TeamsInv'
    BY <1>0
  <1>2. /\ ~Posted /\ ~TimerFires /\ ~Settle /\ ~GiveUp /\ ~Lapse /\ ~Prune
        /\ \A w \in updates : FALSE
        /\ \A x \in Copies : ~HandleDispatch(x)
        /\ \A u \in Users, v \in Verbs : ~Click(u, v)
    BY <1>1 DEF TeamsInv, Posted, TimerFires, Settle, GiveUp, Lapse, Prune, HandleDispatch, Click
  <1>3. ~Final(View(TRUE, "nothing"))
    BY DEF Final, View
  <1>4. CASE RelayRestart
    BY <1>1, <1>4 DEF RelayRestart, TeamsInv, Final
  <1>5. ASSUME NEW x \in Copies, RenderCard(x)
        PROVE  TeamsInv'
    BY <1>1, <1>3, <1>5 DEF RenderCard, TeamsInv, Final
  <1>6. ASSUME NEW x \in Copies, KeepDispatch(x)
        PROVE  TeamsInv'
    BY <1>1, <1>6 DEF KeepDispatch, TeamsInv, Final, slack
  <1>7. ASSUME NEW a \in answer, Forwarded(a)
        PROVE  TeamsInv'
    BY <1>1, <1>7 DEF Forwarded, TeamsInv, Final, slack
  <1>8. CASE UNCHANGED <<timer, lapsing, phase, updates, shown>>
    BY <1>1, <1>8 DEF TeamsInv, Final
  <1> QED
    BY <1>2, <1>4, <1>5, <1>6, <1>7, <1>8
       DEF Next, vars, gateVars, net, relayVars, slack, Tick, Register, Dispatched, Decided,
           TimedOut, Unregister, EngineCrash, Repeat, HumanDecision, ForwardingFailed, Verify, Record

\* What a step leaves alone, as far as the Slack relay's message goes.
slackVars == <<phase, done, deciding, arriving, verified, answer, updates, shown>>

LEMMA SlackKept ==
    ASSUME SlackInv, UNCHANGED slackVars, clock' = clock \/ (clock < 2 /\ clock' = clock + 1),
           clock \in 0 .. 2
    PROVE  SlackInv'
  <1>1. OneClick' /\ AnswersTell'
    BY DEF SlackInv, OneClick, AnswersTell, Unanswered, slackVars
  <1>2. Undecided' /\ FinalsAreTrue'
    BY DEF SlackInv, Undecided, FinalsAreTrue, Final, slackVars
  <1> QED
    BY <1>1, <1>2 DEF SlackInv

\* An open approval expires with the gate undecided: its message says so, and
\* it will take no click.
LEMMA ExpireIsTrue ==
    ASSUME SlackInv, Expire, UNCHANGED <<clock, done, deciding, arriving, verified, answer, shown>>
    PROVE  SlackInv'
  <1>1. CASE phase # "open"
    BY <1>1, SlackKept DEF Expire, slackVars, SlackInv, OneClick, AnswersTell, Undecided, FinalsAreTrue, Unanswered, Final
  <1>2. CASE phase = "open"
    <2>1. /\ phase' = "closed" /\ updates' = updates \cup {View(FALSE, "expired")}
          /\ done = {} /\ deciding = {}
      BY <1>2 DEF Expire, SlackInv, OneClick, Undecided
    <2>2. OneClick' /\ AnswersTell' /\ Undecided'
      BY <1>2, <2>1 DEF SlackInv, OneClick, AnswersTell, Undecided, Unanswered
    <2>3. FinalsAreTrue'
      <3>1. \A w \in updates \cup {shown} : ~Final(w)
        BY <1>2 DEF SlackInv, FinalsAreTrue
      <3>2. View(FALSE, "expired").says = "expired" /\ "expired" \notin Verbs
        BY DEF View, Verbs
      <3> QED
        BY <2>1, <3>1, <3>2 DEF FinalsAreTrue, Final
    <2> QED
      BY <2>2, <2>3 DEF SlackInv
  <1> QED
    BY <1>1, <1>2

\* The one place a click is answered: its answer is the only one.
LEMMA AnsweredOnce ==
    ASSUME SlackInv, NEW d \in arriving \cup verified
    PROVE  deciding = {d} /\ answer = {} /\ phase = "deciding" /\ done = {}
  <1>1. d \in deciding
    BY DEF SlackInv, OneClick
  <1>2. deciding = {d} /\ phase = "deciding"
    BY <1>1 DEF SlackInv, OneClick
  <1>3. answer = {}
    BY <1>2 DEF SlackInv, AnswersTell
  <1> QED
    BY <1>2, <1>3 DEF SlackInv, Undecided

\* Its handler is given one answer.
LEMMA TheAnswer ==
    ASSUME NEW d, deciding = {d}, answer = {}, NEW s, NEW r \in BOOLEAN, Answer(d, s, r)
    PROVE  \E b : answer' = {b} /\ b.of = d /\ b.status = s /\ b.resolved \in BOOLEAN /\ b.resolved = r
  <1> DEFINE b == [of |-> d, status |-> s, resolved |-> r]
  <1>1. answer' = {b}
    BY DEF Answer
  <1>2. b.of = d /\ b.status = s /\ b.resolved \in BOOLEAN /\ b.resolved = r
    OBVIOUS
  <1> HIDE DEF b
  <1> QED
    BY <1>1, <1>2

\* Unless something fails, the Slack relay's messages stay true.
LEMMA SlackStep ==
    ASSUME Typed, kind = "slack" /\ faults = 0 => SlackInv, [Next]_vars
    PROVE  (kind = "slack" /\ faults = 0 => SlackInv)'
  <1>k. kind' = kind
    BY DEF Next, vars, gateVars, net, relayVars, slack, Tick, Register, Posted, Dispatched, Decided,
           TimedOut, Unregister, EngineCrash, Repeat, TimerFires, Update, Settle, GiveUp, Lapse, Prune,
           RelayRestart, HandleDispatch, KeepDispatch, RenderCard, Click, HumanDecision, Forwarded,
           ForwardingFailed, Verify, Record
  <1>f. faults \in Nat
    BY RelayAssumption DEF Typed, RelayTypeOK
  <1>n. faults' = faults \/ Fault
    BY DEF Next, vars, gateVars, net, relayVars, slack, Tick, Register, Posted, Dispatched, Decided,
           TimedOut, Unregister, EngineCrash, Repeat, TimerFires, Update, Settle, GiveUp, Lapse, Prune,
           RelayRestart, HandleDispatch, KeepDispatch, RenderCard, Click, HumanDecision, Forwarded,
           ForwardingFailed, Verify, Record
  <1>s. SUFFICES ASSUME kind = "slack", faults' = 0
                 PROVE  SlackInv'
    BY <1>k
  <1>0. faults = 0 /\ ~Fault /\ SlackInv
    BY <1>f, <1>n, <1>s DEF Fault
  <1>c. clock \in 0 .. 2
    BY DEF Typed, RelayTypeOK
  <1>1. CASE UNCHANGED slackVars /\ UNCHANGED clock
    BY <1>0, <1>1, <1>c, SlackKept
  <1>2. CASE Tick
    BY <1>0, <1>2, <1>c, SlackKept DEF Tick, slackVars, gateVars, net, relayVars, slack
  <1>3. CASE Posted
    <2>1. /\ phase = "posting" /\ phase' = "open" /\ shown' = View(TRUE, "nothing")
          /\ UNCHANGED <<clock, done, deciding, arriving, verified, answer, updates>>
      BY <1>0, <1>3 DEF Posted, gateVars
    <2>2. OneClick' /\ AnswersTell' /\ Undecided'
      BY <1>0, <2>1 DEF SlackInv, OneClick, AnswersTell, Undecided, Unanswered
    <2>3. FinalsAreTrue'
      <3>1. ~Final(View(TRUE, "nothing"))
        BY DEF Final, View
      <3>2. \A w \in updates : ~Final(w)
        BY <1>0, <2>1 DEF SlackInv, FinalsAreTrue
      <3> QED
        BY <2>1, <3>1, <3>2 DEF FinalsAreTrue, Final
    <2> QED
      BY <2>2, <2>3 DEF SlackInv
  <1>4. CASE TimerFires \/ Lapse
    BY <1>0, <1>4, ExpireIsTrue DEF TimerFires, Lapse, gateVars, net
  <1>5. ASSUME NEW w \in updates, Update(w)
        PROVE  SlackInv'
    <2>1. /\ updates' = updates \ {w} /\ shown' = w
          /\ UNCHANGED <<clock, phase, done, deciding, arriving, verified, answer>>
      BY <1>0, <1>5 DEF Update, gateVars, net
    <2>2. OneClick' /\ AnswersTell' /\ Undecided'
      BY <1>0, <2>1 DEF SlackInv, OneClick, AnswersTell, Undecided, Unanswered
    <2>3. FinalsAreTrue'
      BY <1>0, <2>1 DEF SlackInv, FinalsAreTrue, Final
    <2> QED
      BY <2>2, <2>3 DEF SlackInv
  <1>6. ASSUME NEW x \in Copies, HandleDispatch(x)
        PROVE  SlackInv'
    <2>1. /\ phase' = phase \/ (clock = 0 /\ phase = "unknown" /\ phase' = "posting")
          /\ UNCHANGED <<clock, done, deciding, arriving, verified, answer, updates, shown>>
      BY <1>6 DEF HandleDispatch, CheckDispatch, gateVars, slack
    <2>2. CASE phase' = phase
      BY <1>0, <1>c, <2>1, <2>2, SlackKept DEF slackVars
    <2>3. CASE clock = 0 /\ phase = "unknown" /\ phase' = "posting"
      <3>1. OneClick' /\ AnswersTell' /\ Undecided'
        BY <1>0, <2>1, <2>3 DEF SlackInv, OneClick, AnswersTell, Undecided, Unanswered
      <3>2. FinalsAreTrue'
        BY <1>0, <2>1, <2>3 DEF SlackInv, FinalsAreTrue, Final
      <3> QED
        BY <3>1, <3>2 DEF SlackInv
    <2> QED
      BY <2>1, <2>2, <2>3
  <1>7. ASSUME NEW u \in Users, NEW v \in Verbs, Click(u, v)
        PROVE  SlackInv'
    <2> DEFINE d == BuildDecision(u, v)
    <2>1. /\ phase = "open" /\ phase' = "deciding" /\ deciding' = {d}
          /\ arriving' = arriving \cup {d} /\ answer' = {}
          /\ UNCHANGED <<clock, done, verified, updates, shown>>
      BY <1>7 DEF Click, gateVars, slack
    <2>2. done = {} /\ deciding = {} /\ arriving = {} /\ verified = {}
      BY <1>0, <2>1 DEF SlackInv, OneClick, Undecided
    <2> HIDE DEF d
    <2>3. OneClick' /\ AnswersTell' /\ Undecided'
      BY <2>1, <2>2 DEF OneClick, AnswersTell, Undecided, Unanswered
    <2>4. FinalsAreTrue'
      BY <1>0, <2>1 DEF SlackInv, FinalsAreTrue, Final
    <2> QED
      BY <2>3, <2>4 DEF SlackInv
  <1>8. ASSUME NEW d \in Decision, Verify(d)
        PROVE  SlackInv'
    <2>1. /\ d \in arriving /\ arriving' = arriving \ {d}
          /\ UNCHANGED <<clock, phase, done, deciding, updates, shown>>
      BY <1>8 DEF Verify, gateVars, slack
    <2>2. deciding = {d} /\ answer = {} /\ phase = "deciding" /\ done = {} /\ d \notin verified
      <3>1. d \notin verified
        BY <1>0, <2>1 DEF SlackInv, OneClick
      <3> QED
        BY <1>0, <2>1, <3>1, AnsweredOnce
    <2>3. \/ /\ \E b : answer' = {b} /\ b.of = d /\ b.status \in {403, 409, 410} /\ b.resolved \in BOOLEAN
             /\ verified' = verified
          \/ verified' = verified \cup {d} /\ answer' = {}
      <3>1. \A s : \A r \in BOOLEAN :
              Answer(d, s, r) => \E b : answer' = {b} /\ b.of = d /\ b.status = s /\ b.resolved \in BOOLEAN
        BY <2>2, TheAnswer
      <3>2. VerifyDecision(d) \in {200, 403, 410}
        BY DEF VerifyDecision
      <3>3. CASE ~live /\ Answer(d, 409, TRUE) /\ UNCHANGED verified
        <4>1. \E b : answer' = {b} /\ b.of = d /\ b.status = 409 /\ b.resolved \in BOOLEAN
          BY <3>1, <3>3, ZenonT(60)
        <4> QED
          BY <3>3, <4>1
      <3>4. CASE VerifyDecision(d) # 200 /\ Answer(d, VerifyDecision(d), TRUE) /\ UNCHANGED verified
        <4> DEFINE s == VerifyDecision(d)
        <4>1. \E b : answer' = {b} /\ b.of = d /\ b.status = s /\ b.resolved \in BOOLEAN
          BY <3>1, <3>4
        <4>2. s \in {403, 410}
          BY <3>2, <3>4
        <4> HIDE DEF s
        <4> QED
          BY <3>4, <4>1, <4>2
      <3>5. CASE verified' = verified \cup {d} /\ UNCHANGED answer
        BY <2>2, <3>5
      <3> QED
        BY <1>8, <3>3, <3>4, <3>5 DEF Verify
    <2>4. arriving = {d} /\ verified = {}
      BY <1>0, <2>1, <2>2 DEF SlackInv, OneClick
    <2>5. OneClick'
      <3>1. d \in arriving' \cup verified' \/ \E a \in answer' : a.of = d
        BY <2>3
      <3> QED
        BY <2>1, <2>2, <2>3, <2>4, <3>1 DEF OneClick, Unanswered
    <2>6. AnswersTell' /\ Undecided'
      <3>1. CASE verified' = verified /\ \E b : answer' = {b} /\ b.of = d /\ b.status \in {403, 409, 410} /\ b.resolved \in BOOLEAN
        <4>1. PICK b : answer' = {b} /\ b.of = d /\ b.status \in {403, 409, 410} /\ b.resolved \in BOOLEAN
          BY <3>1
        <4>2. b.status \in Nat /\ b.status # 200 /\ b.resolved \in BOOLEAN
          BY <4>1
        <4>3. AnswersTell'
          BY <2>1, <2>2, <2>4, <3>1, <4>1, <4>2 DEF AnswersTell
        <4> QED
          BY <2>1, <2>2, <4>3 DEF Undecided
      <3>2. CASE verified' = verified \cup {d} /\ answer' = {}
        BY <2>1, <2>2, <3>2 DEF AnswersTell, Undecided
      <3> QED
        BY <2>3, <3>1, <3>2
    <2>7. FinalsAreTrue'
      BY <1>0, <2>1 DEF SlackInv, FinalsAreTrue, Final
    <2> QED
      BY <2>5, <2>6, <2>7 DEF SlackInv
  <1>9. ASSUME NEW d \in Decision, Record(d)
        PROVE  SlackInv'
    <2>1. /\ d \in verified /\ verified' = verified \ {d}
          /\ UNCHANGED <<clock, phase, arriving, deciding, updates, shown>>
      BY <1>9 DEF Record, slack
    <2>2. deciding = {d} /\ answer = {} /\ phase = "deciding" /\ done = {} /\ d \notin arriving
      <3>1. d \notin arriving
        BY <1>0, <2>1 DEF SlackInv, OneClick
      <3> QED
        BY <1>0, <2>1, <3>1, AnsweredOnce
    <2>3. verified = {d} /\ arriving = {}
      BY <1>0, <2>1, <2>2 DEF SlackInv, OneClick
    <2>4. \E b : /\ answer' = {b} /\ b.of = d /\ b.status = 200 /\ b.resolved \in BOOLEAN
                 /\ done' = IF b.resolved THEN {d.verb} ELSE {}
      <3>1. \A r \in BOOLEAN : Answer(d, 200, r) => \E b : answer' = {b} /\ b.of = d /\ b.status = 200
                                                   /\ b.resolved \in BOOLEAN /\ b.resolved = r
        BY <2>2, TheAnswer
      <3>2. Resolve(d.verb) => done' = {d.verb}
        BY <2>2 DEF Resolve
      <3>3. \/ done' = {d.verb} /\ Answer(d, 200, TRUE)
            \/ done' = {} /\ Answer(d, 200, FALSE)
        BY <1>9, <2>2, <3>2 DEF Record
      <3>4. CASE done' = {d.verb} /\ Answer(d, 200, TRUE)
        BY <3>1, <3>4
      <3>5. CASE done' = {} /\ Answer(d, 200, FALSE)
        BY <3>1, <3>5
      <3> QED
        BY <3>3, <3>4, <3>5
    <2>5. PICK b : /\ answer' = {b} /\ b.of = d /\ b.status = 200 /\ b.resolved \in BOOLEAN
                   /\ done' = IF b.resolved THEN {d.verb} ELSE {}
      BY <2>4
    <2>6. OneClick' /\ AnswersTell' /\ Undecided'
      BY <2>1, <2>2, <2>3, <2>5 DEF OneClick, Unanswered, AnswersTell, Undecided
    <2>7. FinalsAreTrue'
      <3>1. \A w \in updates \cup {shown} : ~Final(w)
        BY <1>0, <2>2 DEF SlackInv, FinalsAreTrue
      <3> QED
        BY <2>1, <3>1 DEF FinalsAreTrue, Final
    <2> QED
      BY <2>6, <2>7 DEF SlackInv
  <1>10. CASE Settle
    <2>1. PICK a \in answer, d \in deciding :
             \/ /\ a.status = 200 /\ ~a.resolved /\ Reopen
                /\ approved' = approved \cup {d.user}
                /\ updates' = updates \cup {View(TRUE, "progress")}
             \/ a.status = 403 /\ Reopen /\ UNCHANGED <<approved, updates>>
             \/ /\ a.status = 200 /\ a.resolved /\ Close(d.verb)
                /\ approved' = IF d.verb = "approve" THEN approved \cup {d.user} ELSE approved
             \/ a.status = 409 /\ Close("already") /\ UNCHANGED approved
             \/ a.status = 410 /\ Close("expired") /\ UNCHANGED approved
      BY <1>10 DEF Settle
    <2>2. /\ deciding' = {} /\ answer' = {}
          /\ UNCHANGED <<clock, done, arriving, verified, shown>>
      BY <1>10 DEF Settle, gateVars, net
    <2>3. a.of = d /\ deciding = {d} /\ arriving = {} /\ verified = {} /\ phase = "deciding"
      BY <1>0 DEF SlackInv, OneClick, AnswersTell
    <2>4. a.status \in Nat /\ a.resolved \in BOOLEAN
          /\ done = IF a.status = 200 /\ a.resolved THEN {d.verb} ELSE {}
      BY <1>0, <2>3 DEF SlackInv, AnswersTell
    <2>5. \/ /\ done = {} /\ phase' = "open"
             /\ updates' \in {updates, updates \cup {View(TRUE, "progress")}}
          \/ \E v : /\ phase' = "closed" /\ updates' = updates \cup {View(FALSE, v)}
                   /\ \/ v = d.verb /\ done = {v}
                      \/ v \in {"already", "expired"} /\ done = {}
      <3>1. CASE a.status = 200 /\ ~a.resolved /\ Reopen /\ updates' = updates \cup {View(TRUE, "progress")}
        BY <2>4, <3>1 DEF Reopen
      <3>2. CASE a.status = 403 /\ Reopen /\ UNCHANGED updates
        BY <2>4, <3>2 DEF Reopen
      <3>3. CASE a.status = 200 /\ a.resolved /\ Close(d.verb)
        <4>1. done = {d.verb}
          BY <2>4, <3>3
        <4>2. PICK w : w = d.verb
          OBVIOUS
        <4>3. phase' = "closed" /\ updates' = updates \cup {View(FALSE, w)}
          BY <3>3, <4>2 DEF Close
        <4> QED
          BY <4>1, <4>2, <4>3
      <3>4. CASE a.status = 409 /\ Close("already")
        <4>1. done = {}
          BY <2>4, <3>4
        <4> QED
          BY <3>4, <4>1 DEF Close
      <3>5. CASE a.status = 410 /\ Close("expired")
        <4>1. done = {}
          BY <2>4, <3>5
        <4> QED
          BY <3>5, <4>1 DEF Close
      <3> QED
        BY <2>1, <3>1, <3>2, <3>3, <3>4, <3>5
    <2>6. OneClick' /\ AnswersTell' /\ Undecided'
      BY <2>2, <2>3, <2>5 DEF OneClick, AnswersTell, Undecided
    <2>7. FinalsAreTrue'
      <3>1. \A w \in updates \cup {shown} : ~Final(w)
        BY <1>0, <2>3 DEF SlackInv, FinalsAreTrue
      <3>2. d.verb \in Verbs /\ "already" \notin Verbs /\ "expired" \notin Verbs
        BY DEF Typed, RelayTypeOK, Decision, Verbs
      <3>3. ~Final(View(TRUE, "progress")) /\ \A v : View(FALSE, v).says = v
        BY DEF Final, View
      <3>4. \A w \in updates' : ~Final(w) \/ (phase' = "closed" /\ done = IF w.says \in Verbs THEN {w.says} ELSE {})
        <4>1. CASE phase' = "open"
          BY <2>5, <3>1, <3>3, <4>1
        <4>2. ASSUME NEW v, phase' = "closed", updates' = updates \cup {View(FALSE, v)},
                     \/ v = d.verb /\ done = {v}
                     \/ v \in {"already", "expired"} /\ done = {}
              PROVE  \A w \in updates' : ~Final(w) \/ (phase' = "closed" /\ done = IF w.says \in Verbs THEN {w.says} ELSE {})
          <5>1. done = IF View(FALSE, v).says \in Verbs THEN {View(FALSE, v).says} ELSE {}
            BY <3>2, <3>3, <4>2
          <5> QED
            BY <3>1, <4>2, <5>1
        <4> QED
          BY <2>5, <4>1, <4>2
      <3> QED
        BY <2>2, <3>1, <3>4 DEF FinalsAreTrue, Final
    <2> QED
      BY <2>6, <2>7 DEF SlackInv
  <1>11. ~GiveUp
    BY <1>0 DEF GiveUp, SlackInv, OneClick
  <1>12. CASE Prune
    <2>1. /\ phase = "closed" /\ clock = 2 /\ phase' = "unknown"
          /\ UNCHANGED <<clock, done, deciding, arriving, verified, answer, updates, shown>>
      BY <1>12 DEF Prune, gateVars, net, slack
    <2>2. OneClick' /\ AnswersTell' /\ Undecided'
      BY <1>0, <2>1 DEF SlackInv, OneClick, AnswersTell, Undecided, Unanswered
    <2>3. FinalsAreTrue'
      BY <1>0, <2>1 DEF SlackInv, FinalsAreTrue, Final
    <2> QED
      BY <2>2, <2>3 DEF SlackInv
  <1>13. /\ ~RelayRestart /\ ~EngineCrash /\ ~Repeat
         /\ \A x \in Copies : ~KeepDispatch(x) /\ ~RenderCard(x)
         /\ \A u \in Users, v \in Verbs : ~HumanDecision(u, v)
         /\ \A a \in answer : ~Forwarded(a)
         /\ \A d \in deciding : ~ForwardingFailed(d)
    BY <1>0, <1>s DEF RelayRestart, EngineCrash, Repeat, KeepDispatch, RenderCard, HumanDecision,
                      Forwarded, ForwardingFailed
  <1>14. UNCHANGED vars \/ Register \/ Dispatched \/ Decided \/ TimedOut \/ Unregister
         => UNCHANGED slackVars /\ UNCHANGED clock
    BY DEF Register, Dispatched, Decided, TimedOut, Unregister, slackVars, vars, gateVars, net, relayVars, slack
  <1> QED
    BY <1>1, <1>2, <1>3, <1>4, <1>5, <1>6, <1>7, <1>8, <1>9, <1>10, <1>11, <1>12, <1>13, <1>14 DEF Next

\* The one dispatch: what is shown of it, and how its gate ended.
LEMMA DispatchStep ==
    ASSUME Typed, ShownInv, [Next]_vars, kind = "slack", faults' = 0
    PROVE  DispatchInv'
  <1>f. faults \in Nat
    BY RelayAssumption DEF Typed, RelayTypeOK
  <1>n. faults' = faults \/ Fault
    BY DEF Next, vars, gateVars, net, relayVars, slack, Tick, Register, Posted, Dispatched, Decided,
           TimedOut, Unregister, EngineCrash, Repeat, TimerFires, Update, Settle, GiveUp, Lapse, Prune,
           RelayRestart, HandleDispatch, KeepDispatch, RenderCard, Click, HumanDecision, Forwarded,
           ForwardingFailed, Verify, Record
  <1>0. faults = 0 /\ ~Fault /\ SlackInv /\ DispatchInv
    BY <1>f, <1>n DEF Fault, ShownInv
  <1>1. clock \in 0 .. 2 /\ done \subseteq Verbs /\ "lost" \notin Verbs /\ "timeout" \notin Verbs
    BY DEF Typed, RelayTypeOK, Verbs
  <1>2. CASE Tick
    BY <1>0, <1>1, <1>2 DEF Tick, DispatchInv, Untouched, Final, gateVars, net, relayVars, slack
  <1>3. CASE Register
    BY <1>0, <1>3 DEF Register, DispatchInv, Untouched, Final, relayVars, slack
  <1>4. CASE Dispatched \/ Decided \/ TimedOut \/ Unregister
    BY <1>0, <1>1, <1>4 DEF Dispatched, Decided, TimedOut, Unregister, Return, DispatchInv, Untouched, Final,
                            net, relayVars, slack, gateVars
  <1>5. CASE Posted
    BY <1>0, <1>5 DEF Posted, Acknowledge, DispatchInv, Untouched, Final, gateVars
  <1>6. ASSUME NEW x \in Copies, HandleDispatch(x)
        PROVE  DispatchInv'
    <2>1. x = "first" /\ dispatches = {"first"} /\ dispatches' = {} /\ gate # "new" /\ Untouched
      BY <1>0, <1>6 DEF HandleDispatch, DispatchInv
    <2> QED
      BY <1>0, <1>6, <2>1 DEF HandleDispatch, Acknowledge, DispatchInv, Untouched, Final, gateVars, slack
  <1>7. CASE \E w \in updates : Update(w)
    BY <1>0, <1>7 DEF Update, DispatchInv, Untouched, Final, gateVars, net
  <1>8. CASE TimerFires \/ Lapse
    BY <1>0, <1>8 DEF TimerFires, Lapse, Expire, DispatchInv, Untouched, Final, gateVars, net
  <1>9. CASE Settle \/ GiveUp
    <2>1. phase = "deciding"
      BY <1>0, <1>9 DEF Settle, GiveUp, SlackInv, OneClick
    <2> QED
      BY <1>0, <1>9, <2>1 DEF Settle, GiveUp, DispatchInv, Untouched, gateVars, net
  <1>10. CASE Prune
    BY <1>0, <1>10 DEF Prune, DispatchInv, Untouched, gateVars, net
  <1>11. ASSUME NEW u \in Users, NEW v \in Verbs, Click(u, v)
         PROVE  DispatchInv'
    BY <1>0, <1>11 DEF Click, DispatchInv, Untouched, gateVars
  <1>12. ASSUME NEW d \in Decision, Verify(d) \/ Record(d)
         PROVE  DispatchInv'
    BY <1>0, <1>12 DEF Verify, Record, DispatchInv, Untouched, Final, gateVars, slack
  <1>13. CASE UNCHANGED vars
    BY <1>0, <1>13 DEF DispatchInv, Untouched, Final, vars, gateVars, net, relayVars, slack
  <1>14. /\ ~RelayRestart /\ ~EngineCrash /\ ~Repeat
         /\ \A x \in Copies : ~KeepDispatch(x) /\ ~RenderCard(x)
         /\ \A u \in Users, v \in Verbs : ~HumanDecision(u, v)
         /\ \A a \in answer : ~Forwarded(a)
         /\ \A d \in deciding : ~ForwardingFailed(d)
    BY <1>0 DEF RelayRestart, EngineCrash, Repeat, KeepDispatch, RenderCard, HumanDecision, Forwarded,
                ForwardingFailed
  <1> QED
    BY <1>2, <1>3, <1>4, <1>5, <1>6, <1>7, <1>8, <1>9, <1>10, <1>11, <1>12, <1>13, <1>14 DEF Next

\* What is shown is what the gate recorded, and the pipeline is told it unless
\* the deadline came first.
LEMMA ShownFollows ==
    ASSUME ShownInv, Typed
    PROVE  ShownIsTrue
  <1>1. SUFFICES ASSUME faults = 0, Final(shown)
                 PROVE  /\ shown.says \in Verbs =>
                              /\ done = {shown.says}
                              /\ result \in {"none", shown.says} \/ (result = "timeout" /\ clock = 2)
                        /\ shown.says \in {"expired", "already"} => done = {} /\ result \notin Verbs
    BY DEF ShownIsTrue, Final, Verbs
  <1>2. kind = "slack" /\ SlackInv /\ DispatchInv
    BY <1>1 DEF ShownInv, TeamsInv, Typed, RelayTypeOK
  <1>3. done = IF shown.says \in Verbs THEN {shown.says} ELSE {}
    BY <1>1, <1>2 DEF SlackInv, FinalsAreTrue
  <1>4. result \in {"none", "timeout"} \cup Verbs /\ (result \in Verbs => result \in done)
    BY <1>2 DEF ShownInv, DispatchInv, Typed, RelayTypeOK
  <1>5. result = "timeout" => clock = 2
    BY <1>1, <1>2 DEF DispatchInv, Untouched
  <1>6. shown.says \in {"expired", "already"} => shown.says \notin Verbs
    BY DEF Verbs
  <1> QED
    BY <1>3, <1>4, <1>5, <1>6

-----------------------------------------------------------------------------
\* Nothing is counted or told at first.
LEMMA RelayInit ==
    ASSUME Init
    PROVE  Typed /\ QuorumInv
  <1>1. MaxClicks \in Nat /\ MaxFaults \in Nat
    BY RelayAssumption
  <1>2. Range(approvers) = {} /\ Len(approvers) = 0 /\ approvers \in Seq(Permitted)
    <2>1. Range(<<>>) = {}
      BY DEF Range
    <2> QED
      BY <2>1 DEF Init
  <1>3. Typed
    <2>1. shown \in Message
      BY DEF Init, View, Message
    <2>2. /\ 0 \in 0 .. MaxClicks /\ 0 \in 0 .. MaxFaults
          /\ Range(approvers) \subseteq Permitted
      BY <1>1, <1>2
    <2>3. /\ kind \in {"slack", "teams"} /\ clock \in 0 .. 2 /\ faults \in 0 .. MaxFaults
          /\ clicks \in 0 .. MaxClicks
      BY <2>2 DEF Init
    <2>4. /\ done \subseteq Verbs /\ dispatches \subseteq Copies /\ posting \subseteq Copies
          /\ arriving \subseteq Decision /\ verified \subseteq Decision /\ deciding \subseteq Decision
          /\ approved \subseteq Users /\ updates \subseteq Message
      BY DEF Init
    <2>5. /\ gate = "new" /\ live = FALSE /\ result = "none" /\ ack = "none" /\ phase = "unknown"
          /\ timer = FALSE /\ lapsing = FALSE /\ outcome = "none"
      BY DEF Init
    <2> QED
      BY <2>1, <2>2, <2>3, <2>4, <2>5 DEF Typed, RelayTypeOK
  <1>4. QuorumInv
    BY <1>2, FS_EmptySet DEF Init, QuorumInv, OnTheirWay, Counted, Told
  <1> QED
    BY <1>3, <1>4

\* The state of the relayed approval stays in its types.
THEOREM RelayTypes == Spec => []RelayTypeOK
  <1>1. Typed => RelayTypeOK
    BY DEF Typed
  <1> QED
    BY RelayInit, TypedStep, QuorumStep, <1>1, PTL DEF Spec

\* However decisions are lost, repeated, or pressed again after an answer was
\* lost, and wherever either side crashes: the pipeline is told "approve" only
\* when a quorum of different permitted people pressed Approve (handleDecision).
THEOREM QuorumApproves == Spec => []ApprovedByQuorum
  BY RelayInit, TypedStep, QuorumStep, CountIsQuorum, PTL DEF Spec

\* Nothing is shown or told at first.
LEMMA ShownInit ==
    ASSUME Init
    PROVE  ShownInv
  <1>1. SlackInv /\ TeamsInv
    BY DEF Init, SlackInv, OneClick, AnswersTell, Undecided, FinalsAreTrue, TeamsInv, Final, View
  <1>2. "none" \notin Verbs
    BY DEF Verbs
  <1>3. DispatchInv
    BY DEF Init, DispatchInv, Untouched, Final, View
  <1> QED
    BY <1>1, <1>2, <1>3 DEF Init, ShownInv

\* Whatever the order the clicks, the answers, the deadline and the updates of
\* the message come in: when nothing failed, a verdict shown in Slack is the one
\* the gate recorded, and the pipeline was told it or, at the deadline, the
\* timeout; "Expired" and "Already resolved" stand beside no verdict
\* (handleClick, expire, SendForQuorumApproval).
THEOREM ShownVerdictsAreTrue == Spec => []ShownIsTrue
  <1>1. Typed /\ QuorumInv /\ ShownInv /\ [Next]_vars => ShownInv'
    <2>1. SUFFICES ASSUME Typed, ShownInv, [Next]_vars
                   PROVE  ShownInv'
      OBVIOUS
    <2>2. kind' = kind
      BY <2>1 DEF Next, vars, gateVars, net, relayVars, slack, Tick, Register, Posted, Dispatched, Decided,
             TimedOut, Unregister, EngineCrash, Repeat, TimerFires, Update, Settle, GiveUp, Lapse, Prune,
             RelayRestart, HandleDispatch, KeepDispatch, RenderCard, Click, HumanDecision, Forwarded,
             ForwardingFailed, Verify, Record
    <2>3. kind = "slack" /\ faults' = 0 => DispatchInv'
      BY <2>1, DispatchStep
    <2> QED
      BY <2>1, <2>2, <2>3, VerdictStep, TeamsStep, SlackStep DEF ShownInv
  <1> QED
    BY RelayInit, ShownInit, TypedStep, QuorumStep, ShownFollows, <1>1, PTL DEF Spec

=============================================================================
