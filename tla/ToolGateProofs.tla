--------------------------- MODULE ToolGateProofs ---------------------------
(***************************************************************************)
(* Proofs about the gate: whatever requests, askers, failures and restarts *)
(* interleave, for any number of each and any horizon, the gate drives the *)
(* ledger only through its statements and inside its disciplines, so that  *)
(* every theorem of PermitStoreProofs holds of the gate, and hands out     *)
(* "permit: execute" once per action at most.                              *)
(*                                                                         *)
(* The invariant says what a request or an asker carries from one step to  *)
(* the next: the action id it works on, the binding it reserved, the time  *)
(* it read.                                                                *)
(***************************************************************************)
EXTENDS ToolGate, PermitStoreProofs

\* A request that reserved its action, and one that found the action known.
BoundPcs == DecidingPcs \cup {"settle", "holdSync", "holdWait"}
LookupPcs == {"poll", "pollSet", "spend", "lostSet", "wonSet", "revokeSet"}

ClientOK(c) ==
    /\ clients[c].pc \notin {"idle", "answered"} => Act(c) \in Actions
    /\ clients[c].pc \in {"reserve", "spend"} => clients[c].bind \in Bindings
    /\ clients[c].pc \in BoundPcs => Known(Act(c)) /\ clients[c].bind = rows[Act(c)].bind
    /\ clients[c].pc \in LookupPcs => Known(Act(c))
    /\ clients[c].at <= now

AskerOK(a) ==
    /\ askers[a].pc # "off" => Known(a)
    /\ askers[a].at <= now

\* The consume that won a permit, until it is answered, is the only one.
WinnerOK ==
    /\ \A c \in Clients : At(c, "wonSet") => rows[Act(c)].status = "consumed" /\ permits[Act(c)] = 0
    /\ \A c, d \in Clients : At(c, "wonSet") /\ At(d, "wonSet") /\ Act(c) = Act(d) => c = d

GateInv ==
    /\ StoreInv
    /\ GateTypeOK
    /\ \A c \in Clients : ClientOK(c)
    /\ \A a \in Actions : AskerOK(a)

-----------------------------------------------------------------------------
\* What a step of the ledger leaves in place for everybody else.

LEMMA StoreGrows ==
    ASSUME StoreInv, [StoreNext]_storeVars
    PROVE  /\ StoreInv'
           /\ TypeOK'
           /\ now <= now'
           /\ \A a \in Actions : Known(a) => Known(a)' /\ rows'[a].bind = rows[a].bind
           /\ \A a \in Actions : rows[a].status = "consumed" => rows'[a].status = "consumed"
  <1>1. StoreInv'
    BY StoreInvStep
  <1>2. TypeOK'
    <2>1. StoreInv' => TypeOK'
      BY DEF StoreInv, RowOK, TypeOK, Known
    <2> QED
      BY <1>1, <2>1
  <1>3. now <= now'
    <2>0. now \in Nat
      BY HorizonAssumption DEF StoreInv, Time
    <2>1. ASSUME NEW a \in Actions, Statement(a)
          PROVE  now' = now
      BY <2>1, StatementEffect
      DEF Effect, Reserves, Closes, Decides, JoinsOther, Spends, Reports, Rewrites, storeVars
    <2>2. ASSUME NEW at \in 0 .. now, ExpireToolActions(at)
          PROVE  now' = now
      BY <2>2 DEF ExpireToolActions
    <2>3. Tick => now' = now + 1
      BY DEF Tick
    <2>4. UNCHANGED storeVars => now' = now
      BY DEF storeVars
    <2>5. now' = now \/ now' = now + 1
      BY <2>1, <2>2, <2>3, <2>4 DEF StoreNext
    <2> QED
      BY <2>0, <2>5
  <1>4. \A a \in Actions : KeepsHistory(a)
    BY StepKeepsHistory
  <1> QED
    BY <1>1, <1>2, <1>3, <1>4 DEF KeepsHistory, Known, Settled

\* A step of the ledger leaves good every request and asker it does not move.
LEMMA OthersKept ==
    ASSUME GateInv, [StoreNext]_storeVars
    PROVE  /\ \A c \in Clients : clients'[c] = clients[c] => ClientOK(c)'
           /\ \A a \in Actions : askers'[a] = askers[a] => AskerOK(a)'
  <1>1. /\ now \in Nat /\ now' \in Nat /\ now <= now'
        /\ \A a \in Actions : Known(a) => Known(a)' /\ rows'[a].bind = rows[a].bind
    BY StoreGrows, HorizonAssumption DEF GateInv, StoreInv, Time
  <1>2. ASSUME NEW c \in Clients, clients'[c] = clients[c]
        PROVE  ClientOK(c)'
    <2>1. clients[c].at \in Nat
      <3>1. clients[c] \in Client
        BY DEF GateInv, GateTypeOK
      <3>2. clients[c].at \in Time
        BY <3>1 DEF Client
      <3> QED
        BY <3>2, HorizonAssumption DEF Time
    <2>2. ClientOK(c)
      BY DEF GateInv
    <2>3. clients[c].at <= now'
      BY <1>1, <2>1, <2>2 DEF ClientOK
    <2>4. clients[c].pc \in BoundPcs \cup LookupPcs => Act(c) \in Actions
      BY <2>2 DEF ClientOK, BoundPcs, LookupPcs, DecidingPcs
    <2> QED
      BY <1>1, <1>2, <2>2, <2>3, <2>4 DEF ClientOK, Act
  <1>3. ASSUME NEW a \in Actions, askers'[a] = askers[a]
        PROVE  AskerOK(a)'
    <2>1. askers[a].at \in Nat /\ AskerOK(a)
      BY HorizonAssumption DEF GateInv, GateTypeOK, Asker, Time
    <2> QED
      BY <1>1, <1>3, <2>1 DEF AskerOK
  <1> QED
    BY <1>2, <1>3

-----------------------------------------------------------------------------
\* Every step of the gate is a step of the ledger and keeps the invariant.

GateShape ==
    /\ policy \in Policies
    /\ tickets \in [Actions -> Ticket]
    /\ recent \in [Args -> [act : Actions \cup {NoAction}, asks : Nat, last : Time]]
    /\ clients \in [Clients -> Client]
    /\ askers \in [Actions -> Asker]
    /\ gates \in [Actions -> {"none", "pending", "resolved", "interrupted"}]
    /\ permits \in [Actions -> Nat]
    /\ refused \subseteq Actions
    /\ broken \subseteq Actions
    /\ restarts \in Nat

\* The type invariant is the ledger's, and the shape of the gate's memory.
LEMMA ShapeOK == GateTypeOK <=> TypeOK /\ GateShape
  BY DEF GateTypeOK, GateShape

\* A step that only touches the records of clients and askers it leaves good.
Preserved ==
    /\ [StoreNext]_storeVars
    /\ GateShape'
    /\ \A c \in Clients : clients'[c] = clients[c] \/ ClientOK(c)'
    /\ \A a \in Actions : askers'[a] = askers[a] \/ AskerOK(a)'

\* A preserving step keeps the invariant.
LEMMA PreservedKeepsInv ==
    ASSUME GateInv, Preserved
    PROVE  GateInv'
  <1>1. StoreInv' /\ TypeOK'
    BY StoreGrows DEF GateInv, Preserved
  <1>2. GateTypeOK'
    BY <1>1 DEF Preserved, GateTypeOK, GateShape
  <1> QED
    BY <1>1, <1>2, OthersKept DEF GateInv, Preserved

\* The parts of the invariant, for citing one by one.
LEMMA InvParts ==
    ASSUME GateInv
    PROVE  StoreInv /\ TypeOK /\ GateShape
  BY ShapeOK DEF GateInv

\* One request changes, and no asker.
ClientMoves(c, q) ==
    /\ clients' = [clients EXCEPT ![c] = q]
    /\ UNCHANGED <<policy, askers>>

\* What moving one request leaves in place.
LEMMA ClientMoved ==
    ASSUME GateInv, NEW c \in Clients, NEW q \in Client, ClientMoves(c, q)
    PROVE  /\ clients' \in [Clients -> Client]
           /\ clients'[c] = q
           /\ \A d \in Clients : d # c => clients'[d] = clients[d]
           /\ \A a \in Actions : askers'[a] = askers[a]
           /\ policy' \in Policies /\ askers' \in [Actions -> Asker]
  BY InvParts DEF GateShape, ClientMoves

\* A request not yet made, and one answered, are requests.
LEMMA AnsweredFits == Answered \in Client /\ Idle \in Client
  <1>1. 0 \in Time
    BY HorizonAssumption DEF Time
  <1>2. Idle \in Client
    BY <1>1 DEF Idle, Client, Pcs, Statuses, Verdicts
  <1> QED
    BY <1>2 DEF Answered, Client, Pcs

\* Answering a request, in a step of the ledger that keeps the shape.
LEMMA DoneOK ==
    ASSUME GateInv, NEW c \in Clients, Done(c), UNCHANGED <<policy, askers>>, TypeOK'
    PROVE  ClientMoves(c, Answered) /\ ClientOK(c)'
  <1>1. ClientMoves(c, Answered)
    BY DEF Done, ClientMoves
  <1>2. clients'[c] = Answered
    BY <1>1, ClientMoved, AnsweredFits
  <1>3. 0 <= now'
    BY HorizonAssumption DEF TypeOK, Time
  <1> QED
    BY <1>1, <1>2, <1>3 DEF ClientOK, Answered, Idle, BoundPcs, LookupPcs, DecidingPcs, At

\* The ticket an answer leaves.
LEMMA UpdatedFits ==
    ASSUME NEW t \in Ticket, NEW s \in TicketStates
    PROVE  Updated(t, s) \in Ticket
  <1>1. CASE Updated(t, s) = t
    BY <1>1
  <1>2. CASE Updated(t, s) # t
    <2> DEFINE d == t.decided \/ s # "pending"
               k == t.cut \/ (s # "pending" /\ t.armed)
    <2>1. Updated(t, s) = [t EXCEPT !.state = s, !.decided = d, !.cut = k]
      BY <1>2 DEF Updated
    <2>2. d \in BOOLEAN /\ k \in BOOLEAN
      OBVIOUS
    <2> HIDE DEF d, k
    <2> QED
      BY <2>1, <2>2 DEF Ticket
  <1> QED
    BY <1>1, <1>2

\* Writing any answer to a ticket leaves tickets.
LEMMA UpdateTicketFits ==
    ASSUME GateInv, NEW a \in Actions, NEW s \in TicketStates, UpdateTicket(a, s)
    PROVE  tickets' \in [Actions -> Ticket]
  <1>1. tickets \in [Actions -> Ticket]
    BY InvParts DEF GateShape
  <1>2. Updated(tickets[a], s) \in Ticket
    BY <1>1, UpdatedFits
  <1> QED
    BY <1>1, <1>2 DEF UpdateTicket

\* Telling the caller of an action keeps the history of refusals typed.
LEMMA TellFits ==
    ASSUME GateInv, NEW a \in Actions, NEW s, Tell(a, s)
    PROVE  refused' \subseteq Actions
  BY InvParts DEF GateShape, Tell

-----------------------------------------------------------------------------
\* What a step may rely on about the request or the asker it moves.

LEMMA ClientHere ==
    ASSUME GateInv, NEW c \in Clients
    PROVE  /\ clients[c] \in Client
           /\ ClientOK(c)
           /\ clients[c].pc \in Pcs
           /\ clients[c].act \in Actions \cup {NoAction}
           /\ clients[c].bind \in Bindings \cup {NoBinding}
           /\ clients[c].verdict \in Verdicts
           /\ clients[c].at \in Time
           /\ clients[c].seen \in TicketStates
  <1>1. clients[c] \in Client /\ ClientOK(c)
    BY InvParts DEF GateShape, GateInv
  <1> QED
    BY <1>1 DEF Client, TicketStates

\* The asker of an action, field by field.
LEMMA AskerHere ==
    ASSUME GateInv, NEW a \in Actions
    PROVE  /\ askers[a] \in Asker
           /\ AskerOK(a)
           /\ askers[a].pc \in AskerPcs
           /\ askers[a].verdict \in Verdicts
           /\ askers[a].at \in Time
           /\ askers[a].seen \in TicketStates
  <1>1. askers[a] \in Asker /\ AskerOK(a)
    BY InvParts DEF GateShape, GateInv
  <1> QED
    BY <1>1 DEF Asker, TicketStates

\* The clock, its bounds, and what an unchanged ledger keeps.
LEMMA Clock ==
    ASSUME GateInv
    PROVE  now \in Nat /\ 0 .. now \subseteq Time /\ Time \subseteq Nat /\ 0 \in Time
  BY InvParts, HorizonAssumption DEF TypeOK, Time

\* A request that goes on to another step keeps what it carries.
LEMMA GoOK ==
    ASSUME GateInv, NEW c \in Clients, NEW p \in Pcs, Go(c, p), [StoreNext]_storeVars,
           NEW a \in Actions, Act(c) = a,
           p \in {"reserve", "spend"} => clients[c].bind \in Bindings,
           p \in BoundPcs => Known(a)' /\ clients[c].bind = rows'[a].bind,
           p \in LookupPcs => Known(a)'
    PROVE  /\ clients' \in [Clients -> Client]
           /\ ClientOK(c)'
           /\ \A d \in Clients : d # c => clients'[d] = clients[d]
  <1> DEFINE q == [clients[c] EXCEPT !.pc = p]
  <1>1. clients' = [clients EXCEPT ![c] = q] /\ clients \in [Clients -> Client]
    BY InvParts DEF Go, GateShape
  <1>2. /\ q \in Client /\ q.pc = p /\ q.act = clients[c].act
        /\ q.bind = clients[c].bind /\ q.at = clients[c].at
    BY ClientHere DEF Client
  <1> HIDE DEF q
  <1>3. clients' \in [Clients -> Client] /\ clients'[c] = q
        /\ \A d \in Clients : d # c => clients'[d] = clients[d]
    BY <1>1, <1>2
  <1>4. clients[c].at <= now'
    <2>1. now <= now' /\ now' \in Nat
      BY StoreGrows, HorizonAssumption DEF GateInv, StoreInv, Time
    <2> QED
      BY <2>1, ClientHere, Clock DEF ClientOK
  <1> QED
    BY <1>2, <1>3, <1>4 DEF ClientOK, Act, Known

\* A new call: its record carries a binding under the current policy.
LEMMA CallPreserved ==
    ASSUME GateInv, NEW c \in Clients, Call(c)
    PROVE  Preserved
  <1>1. PICK a \in Actions, k \in Args, named \in BOOLEAN, e \in Time :
          clients' = [clients EXCEPT ![c] =
            [Idle EXCEPT !.pc = "reserve", !.op = "call", !.act = a, !.named = named,
                         !.bind = [args |-> k, policy |-> policy, expires |-> e]]]
    BY DEF Call
  <1> DEFINE b == [args |-> k, policy |-> policy, expires |-> e]
             q == [Idle EXCEPT !.pc = "reserve", !.op = "call", !.act = a, !.named = named, !.bind = b]
  <1>2. b \in Bindings
    BY InvParts DEF GateShape, Bindings
  <1>3. UNCHANGED <<storeVars, policy, tickets, recent, askers, gates, history, restarts>>
    BY DEF Call
  <1> HIDE DEF b
  <1>4. q \in Client /\ q.pc = "reserve" /\ q.act = a /\ q.bind = b /\ q.at = 0
    BY <1>2, AnsweredFits, ZenonT(60) DEF Client, Pcs, Idle
  <1>5. ClientMoves(c, q)
    BY <1>1, <1>3 DEF ClientMoves, b
  <1> HIDE DEF q
  <1>6. /\ clients' \in [Clients -> Client] /\ clients'[c] = q
        /\ \A d \in Clients : d # c => clients'[d] = clients[d]
    BY <1>4, <1>5, ClientMoved
  <1>7. ClientOK(c)'
    BY <1>2, <1>3, <1>4, <1>6, Clock
    DEF ClientOK, Act, BoundPcs, LookupPcs, DecidingPcs, storeVars
  <1>8. GateShape'
    BY <1>3, <1>6, InvParts DEF GateShape, history
  <1> QED
    BY <1>3, <1>6, <1>7, <1>8 DEF Preserved

\* A step that leaves the ledger alone.
LEMMA StoreKept ==
    ASSUME GateInv, UNCHANGED storeVars
    PROVE  /\ [StoreNext]_storeVars
           /\ TypeOK'
           /\ \A a \in Actions : (Known(a)' <=> Known(a)) /\ rows'[a] = rows[a]
           /\ now' = now
  <1>1. rows' = rows /\ now' = now /\ [StoreNext]_storeVars
    BY DEF storeVars
  <1> QED
    BY <1>1, StoreGrows DEF GateInv, Known

\* A request that is deciding or settling carries its row's binding.
LEMMA BoundHere ==
    ASSUME GateInv, NEW c \in Clients, clients[c].pc \in BoundPcs
    PROVE  \E a \in Actions :
             /\ Act(c) = a
             /\ Known(a)
             /\ clients[c].bind = rows[a].bind
             /\ rows[a].bind \in Bindings
  <1>1. /\ Act(c) \in Actions /\ Known(Act(c))
        /\ clients[c].bind = rows[Act(c)].bind
    BY ClientHere DEF ClientOK, BoundPcs, DecidingPcs
  <1> QED
    BY <1>1, InvParts DEF TypeOK

\* A poll, consume or revoke works on a known action.
LEMMA LookupHere ==
    ASSUME GateInv, NEW c \in Clients, clients[c].pc \in LookupPcs
    PROVE  \E a \in Actions :
             /\ Act(c) = a
             /\ Known(a)
             /\ rows[a].bind \in Bindings
             /\ rows[a].status \in Statuses
  <1>1. Act(c) \in Actions /\ Known(Act(c))
    BY ClientHere DEF ClientOK, LookupPcs
  <1> QED
    BY <1>1, InvParts DEF TypeOK, Row

\* The request decides, with the time of its decision.
LEMMA FinishOK ==
    ASSUME GateInv, NEW c \in Clients, NEW d \in Verdicts, Finish(c, d),
           clients[c].pc \in BoundPcs, UNCHANGED storeVars
    PROVE  /\ clients' \in [Clients -> Client]
           /\ ClientOK(c)'
           /\ \A x \in Clients : x # c => clients'[x] = clients[x]
  <1>1. PICK a \in Actions :
          Act(c) = a /\ Known(a) /\ clients[c].bind = rows[a].bind /\ rows[a].bind \in Bindings
    BY BoundHere
  <1> DEFINE v == AtDecision(clients[c].bind, d)
             q == [clients[c] EXCEPT !.pc = "commit", !.at = now, !.verdict = v]
  <1>2. v \in Verdicts
    BY DEF AtDecision, Verdicts
  <1> HIDE DEF v
  <1>3. now \in Time
    BY InvParts DEF TypeOK
  <1>4. /\ q \in Client /\ q.pc = "commit" /\ q.act = clients[c].act
        /\ q.bind = clients[c].bind /\ q.at = now
    BY <1>2, <1>3, ClientHere, ZenonT(60) DEF Client, Pcs, DecidingPcs
  <1>5. clients' = [clients EXCEPT ![c] = q] /\ clients \in [Clients -> Client]
    BY InvParts DEF Finish, GateShape, v
  <1> HIDE DEF q
  <1>6. clients' \in [Clients -> Client] /\ clients'[c] = q
        /\ \A x \in Clients : x # c => clients'[x] = clients[x]
    BY <1>4, <1>5
  <1>7. Known(a)' /\ rows'[a] = rows[a] /\ now' = now /\ now \in Nat
    BY <1>1, StoreKept, Clock
  <1>8. ClientOK(c)'
    BY <1>1, <1>4, <1>6, <1>7 DEF ClientOK, Act, BoundPcs, LookupPcs, DecidingPcs
  <1> QED
    BY <1>6, <1>8

\* Going on with an action the ledger keeps.
LEMMA GoOnOK ==
    ASSUME GateInv, NEW c \in Clients, NEW p \in BoundPcs, Go(c, p),
           clients[c].pc \in BoundPcs, UNCHANGED storeVars
    PROVE  /\ clients' \in [Clients -> Client]
           /\ ClientOK(c)'
           /\ \A x \in Clients : x # c => clients'[x] = clients[x]
  <1>1. PICK a \in Actions :
          Act(c) = a /\ Known(a) /\ clients[c].bind = rows[a].bind /\ rows[a].bind \in Bindings
    BY BoundHere
  <1>2. Known(a)' /\ rows'[a] = rows[a]
    BY <1>1, StoreKept
  <1>3. p \in Pcs /\ p \notin LookupPcs
    BY DEF Pcs, BoundPcs, LookupPcs, DecidingPcs
  <1> QED
    BY <1>1, <1>2, <1>3, StoreKept, GoOK

\* Answering a request leaves it good.
LEMMA DoneMoves ==
    ASSUME GateInv, NEW c \in Clients, Done(c), UNCHANGED <<policy, askers>>, TypeOK'
    PROVE  /\ clients' \in [Clients -> Client]
           /\ ClientOK(c)'
           /\ \A x \in Clients : x # c => clients'[x] = clients[x]
  BY DoneOK, ClientMoved, AnsweredFits

\* What the cases of a step that moves request c have in common.
MovesWell(c) ==
    /\ clients' \in [Clients -> Client]
    /\ ClientOK(c)'
    /\ \A x \in Clients : x # c => clients'[x] = clients[x]

\* reserveAction: the creator and a matching retry end up bound to the row.
LEMMA ReservePreserved ==
    ASSUME GateInv, NEW c \in Clients, Reserve(c)
    PROVE  Preserved
  <1>1. PICK a \in Actions, b \in Bindings : a = Act(c) /\ b = clients[c].bind
    BY ClientHere DEF ClientOK, Reserve, At
  <1>2. /\ UNCHANGED <<policy, tickets, recent, askers, gates, permits, refused, restarts>>
        /\ broken' \subseteq Actions
    BY <1>1, InvParts DEF Reserve, Fail, GateShape
  <1>3. CASE Done(c) /\ UNCHANGED storeVars
    <2>1. MovesWell(c)
      BY <1>2, <1>3, StoreKept, DoneMoves DEF MovesWell
    <2>2. GateShape'
      BY <1>2, <2>1, InvParts DEF GateShape, MovesWell
    <2> QED
      BY <1>2, <1>3, <2>1, <2>2, StoreKept DEF Preserved, MovesWell
  <1>4. CASE ReserveToolAction(a, b)
    <2>1. [StoreNext]_storeVars
      BY <1>1, <1>4 DEF StoreNext, Statement
    <2>2. StoreInv' /\ TypeOK'
      BY <2>1, StoreGrows, InvParts
    <2>3. Known(a)' /\ (Known(a) => rows'[a].bind = rows[a].bind)
          /\ (~Known(a) => rows'[a].bind = b)
      <3>1. rows \in [Actions -> Row]
        BY InvParts DEF TypeOK
      <3>2. CASE Known(a)
        BY <1>4, <3>2 DEF ReserveToolAction, Known
      <3>3. CASE ~Known(a)
        <4> DEFINE q == [status |-> "pending", bind |-> b, decision |-> "", consumedAt |-> 0]
        <4>1. rows' = [rows EXCEPT ![a] = q]
          BY <1>4, <3>3 DEF ReserveToolAction, Write
        <4>2. q.status = "pending" /\ q.bind = b
          OBVIOUS
        <4> HIDE DEF q
        <4>3. rows'[a] = q
          BY <3>1, <4>1
        <4> QED
          BY <3>3, <4>2, <4>3 DEF Known
      <3> QED
        BY <3>2, <3>3
    <2>4. /\ clients' \in [Clients -> Client]
          /\ ClientOK(c)'
          /\ \A d \in Clients : d # c => clients'[d] = clients[d]
      <3>1. CASE ~Known(a) /\ Go(c, "rules")
        BY <1>1, <2>1, <2>3, <3>1, GoOK DEF Pcs, DecidingPcs, BoundPcs, LookupPcs
      <3>2. CASE Known(a) /\ Go(c, "poll")
        BY <1>1, <2>1, <2>3, <3>2, GoOK DEF Pcs, DecidingPcs, BoundPcs, LookupPcs
      <3>3. CASE Done(c)
        BY <1>2, <2>2, <3>3, DoneOK, ClientMoved, AnsweredFits
      <3> QED
        BY <1>1, <3>1, <3>2, <3>3 DEF Reserve
    <2>5. GateShape'
      BY <1>2, <2>4, InvParts DEF GateShape
    <2> QED
      BY <1>2, <2>1, <2>4, <2>5 DEF Preserved
  <1> QED
    BY <1>1, <1>3, <1>4 DEF Reserve

\* The rules of HandleCall.
LEMMA RulesPreserved ==
    ASSUME GateInv, NEW c \in Clients, Rules(c)
    PROVE  Preserved
  <1>1. UNCHANGED <<storeVars, policy, tickets, recent, askers, gates, history, restarts>>
        /\ clients[c].pc \in BoundPcs
    BY DEF Rules, At, BoundPcs, DecidingPcs
  <1>2. MovesWell(c)
    <2>1. ASSUME NEW d \in {"policy_approve", "deny"}, Finish(c, d)
          PROVE  MovesWell(c)
      BY <1>1, <2>1, FinishOK DEF Verdicts, MovesWell
    <2>2. CASE Go(c, "check")
      BY <1>1, <2>2, GoOnOK DEF BoundPcs, DecidingPcs, MovesWell
    <2> QED
      BY <2>1, <2>2 DEF Rules
  <1>3. GateShape'
    BY <1>1, <1>2, InvParts DEF GateShape, history, MovesWell
  <1> QED
    BY <1>1, <1>2, <1>3, StoreKept DEF Preserved, MovesWell

\* What the gate remembers of a call, once what is past the window is dropped.
LEMMA RememberedFits ==
    ASSUME GateInv, NEW k \in Args
    PROVE  /\ recent[k] \in [act : Actions \cup {NoAction}, asks : Nat, last : Time]
           /\ Nothing \in [act : Actions \cup {NoAction}, asks : Nat, last : Time]
  BY InvParts, Clock DEF GateShape, Nothing

\* repeatCheck.
LEMMA CheckPreserved ==
    ASSUME GateInv, NEW c \in Clients, Check(c)
    PROVE  Preserved
  <1>1. UNCHANGED <<storeVars, policy, tickets, askers, gates, history, restarts>>
        /\ clients[c].pc \in BoundPcs
    BY DEF Check, At, BoundPcs, DecidingPcs
  <1>2. PICK k \in Args : clients[c].bind.args = k
    BY <1>1, BoundHere DEF Bindings
  <1>3. recent' \in [Args -> [act : Actions \cup {NoAction}, asks : Nat, last : Time]]
    <2> DEFINE e == IF Forgotten(k) THEN Nothing ELSE recent[k]
    <2>1. e \in [act : Actions \cup {NoAction}, asks : Nat, last : Time]
      BY RememberedFits
    <2>2. recent' = [recent EXCEPT ![k] = e]
      BY <1>2 DEF Check
    <2> HIDE DEF e
    <2> QED
      BY <2>1, <2>2, InvParts DEF GateShape
  <1>4. MovesWell(c)
    <2>1. ASSUME NEW d \in {"policy_approve", "deny"}, Finish(c, d)
          PROVE  MovesWell(c)
      BY <1>1, <2>1, FinishOK DEF Verdicts, MovesWell
    <2>2. ASSUME NEW p \in {"open", "join"}, Go(c, p)
          PROVE  MovesWell(c)
      BY <1>1, <2>2, GoOnOK DEF BoundPcs, DecidingPcs, MovesWell
    <2>3. \/ Finish(c, "deny") \/ Finish(c, "policy_approve")
          \/ Go(c, "open") \/ Go(c, "join")
      BY DEF Check
    <2> QED
      BY <2>1, <2>2, <2>3
  <1>5. GateShape'
    BY <1>1, <1>3, <1>4, InvParts DEF GateShape, history, MovesWell
  <1> QED
    BY <1>1, <1>4, <1>5, StoreKept DEF Preserved, MovesWell

\* A call that joins gives its own id up.
LEMMA JoinPreserved ==
    ASSUME GateInv, NEW c \in Clients, Join(c)
    PROVE  Preserved
  <1>1. /\ UNCHANGED <<policy, tickets, recent, askers, gates, permits, refused, restarts>>
        /\ Done(c) /\ clients[c].pc \in BoundPcs
    BY DEF Join, At, BoundPcs, DecidingPcs
  <1>2. PICK a \in Actions : Act(c) = a /\ Known(a)
    BY <1>1, BoundHere
  <1>3. [StoreNext]_storeVars /\ broken' \subseteq Actions
    <2>1. CASE DecideToolAction(a) /\ UNCHANGED broken
      BY <1>2, <2>1, InvParts DEF StoreNext, Statement, GateShape
    <2>2. CASE Fail(a) /\ UNCHANGED storeVars
      BY <1>2, <2>2, InvParts DEF Fail, GateShape
    <2> QED
      BY <1>2, <2>1, <2>2 DEF Join
  <1>4. MovesWell(c)
    BY <1>1, <1>3, StoreGrows, DoneMoves, InvParts DEF MovesWell
  <1>5. GateShape'
    BY <1>1, <1>3, <1>4, InvParts DEF GateShape, MovesWell
  <1> QED
    BY <1>1, <1>3, <1>4, <1>5 DEF Preserved, MovesWell

\* newTicket, and the asker it starts, whose action is known.
LEMMA OpenPreserved ==
    ASSUME GateInv, NEW c \in Clients, Open(c)
    PROVE  Preserved
  <1>1. UNCHANGED <<storeVars, policy, gates, history, restarts>>
        /\ clients[c].pc \in BoundPcs
    BY DEF Open, At, BoundPcs, DecidingPcs
  <1>2. PICK a \in Actions : Act(c) = a /\ Known(a) /\ clients[c].bind = rows[a].bind
                            /\ rows[a].bind \in Bindings
    BY <1>1, BoundHere
  <1>3. PICK k \in Args : clients[c].bind.args = k
    BY <1>2 DEF Bindings
  <1>4. tickets' \in [Actions -> Ticket]
    <2>1. NewTicket \in Ticket
      BY DEF NewTicket, NoTicket, Ticket, TicketStates
    <2> QED
      BY <1>2, <2>1, InvParts DEF Open, GateShape
  <1>5. recent' \in [Args -> [act : Actions \cup {NoAction}, asks : Nat, last : Time]]
    <2> DEFINE e == IF Forgotten(k) THEN Nothing ELSE recent[k]
               m == [act |-> a, asks |-> e.asks + 1, last |-> now]
    <2>1. e.asks \in Nat
      BY RememberedFits
    <2>2. m \in [act : Actions \cup {NoAction}, asks : Nat, last : Time]
      BY <2>1, InvParts DEF TypeOK
    <2>3. recent' = [x \in Args |-> IF x = k THEN m ELSE IF Forgotten(x) THEN Nothing ELSE recent[x]]
      BY <1>2, <1>3 DEF Open
    <2> HIDE DEF m
    <2> QED
      BY <2>2, <2>3, RememberedFits
  <1>6. /\ askers' \in [Actions -> Asker]
        /\ \A x \in Actions : askers'[x] = askers[x] \/ AskerOK(x)'
    <2> DEFINE q == [Off EXCEPT !.pc = "begin"]
    <2>1. q \in Asker /\ q.at = 0
      BY Clock DEF Off, Asker, AskerPcs, Verdicts, Statuses
    <2>2. askers' = [askers EXCEPT ![a] = q] /\ askers \in [Actions -> Asker]
      BY <1>2, InvParts DEF Open, GateShape
    <2> HIDE DEF q
    <2>3. Known(a)' /\ 0 <= now'
      BY <1>1, <1>2, StoreKept, Clock
    <2>4. AskerOK(a)'
      BY <2>1, <2>2, <2>3 DEF AskerOK
    <2> QED
      BY <2>1, <2>2, <2>4
  <1>7. MovesWell(c)
    <2>1. ASSUME NEW p \in {"holdSync", "holdWait"}, Go(c, p)
          PROVE  MovesWell(c)
      BY <1>1, <2>1, GoOnOK DEF BoundPcs, MovesWell
    <2>2. CASE Done(c)
      <3>1. TypeOK' /\ 0 <= now'
        BY <1>1, StoreKept, Clock
      <3>2. clients' = [clients EXCEPT ![c] = Answered] /\ clients \in [Clients -> Client]
        BY <2>2, InvParts DEF Done, GateShape
      <3>3. clients'[c] = Answered /\ clients' \in [Clients -> Client]
        BY <3>2, AnsweredFits
      <3> QED
        BY <3>1, <3>2, <3>3
        DEF MovesWell, ClientOK, Answered, Idle, BoundPcs, LookupPcs, DecidingPcs
    <2> QED
      BY <2>1, <2>2 DEF Open
  <1>8. GateShape'
    BY <1>1, <1>4, <1>5, <1>6, <1>7, InvParts DEF GateShape, history, MovesWell
  <1> QED
    BY <1>1, <1>6, <1>7, <1>8, StoreKept DEF Preserved, MovesWell

\* A request that goes on with the status it read.
LEMMA LearnOK ==
    ASSUME GateInv, NEW c \in Clients, NEW p \in Pcs, NEW s \in Statuses \cup {"unavailable"},
           clients' = [clients EXCEPT ![c].pc = p, ![c].seen = s],
           [StoreNext]_storeVars, NEW a \in Actions, Act(c) = a, Known(a),
           p \notin {"reserve", "spend"},
           p \in BoundPcs => clients[c].bind = rows[a].bind
    PROVE  MovesWell(c)
  <1> DEFINE q == [clients[c] EXCEPT !.pc = p, !.seen = s]
  <1>1. clients' = [clients EXCEPT ![c] = q] /\ clients \in [Clients -> Client]
    BY InvParts DEF GateShape
  <1>2. /\ q \in Client /\ q.pc = p /\ q.act = clients[c].act
        /\ q.bind = clients[c].bind /\ q.at = clients[c].at
    BY ClientHere DEF Client
  <1> HIDE DEF q
  <1>3. clients' \in [Clients -> Client] /\ clients'[c] = q
        /\ \A d \in Clients : d # c => clients'[d] = clients[d]
    BY <1>1, <1>2, ZenonT(60)
  <1>4. clients[c].at <= now' /\ Known(a)' /\ rows'[a].bind = rows[a].bind
    <2>1. /\ now <= now' /\ now' \in Nat
          /\ Known(a)' /\ rows'[a].bind = rows[a].bind
      BY StoreGrows, HorizonAssumption DEF GateInv, StoreInv, Time
    <2> QED
      BY <2>1, ClientHere, Clock DEF ClientOK
  <1> QED
    BY <1>2, <1>3, <1>4 DEF MovesWell, ClientOK, Act, Known

\* finishAction's transaction: the binding is the row's, the time is past.
LEMMA CommitPreserved ==
    ASSUME GateInv, NEW c \in Clients, Commit(c)
    PROVE  Preserved
  <1>1. /\ UNCHANGED <<policy, tickets, recent, askers, gates, permits, refused, restarts>>
        /\ clients[c].pc \in BoundPcs
    BY DEF Commit, At, BoundPcs, DecidingPcs
  <1>2. PICK a \in Actions : Act(c) = a /\ Known(a) /\ clients[c].bind = rows[a].bind
                            /\ rows[a].bind \in Bindings
    BY <1>1, BoundHere
  <1>3. "settle" \in Pcs /\ "settle" \notin {"reserve", "spend"}
    BY DEF Pcs
  <1>4. [StoreNext]_storeVars /\ MovesWell(c) /\ broken' \subseteq Actions
    <2>1. CASE /\ DecideToolActionWithReceipt(a, clients[c].bind, clients[c].verdict, clients[c].at)
               /\ clients' = [clients EXCEPT ![c].pc = "settle", ![c].seen = rows'[a].status]
               /\ UNCHANGED broken
      <3>1. clients[c].at \in 0 .. now /\ clients[c].verdict \in Verdicts
        BY ClientHere, Clock DEF ClientOK
      <3>2. [StoreNext]_storeVars
        BY <1>2, <2>1, <3>1 DEF StoreNext, Statement
      <3>3. rows'[a].status \in Statuses
        BY <3>2, StoreGrows, InvParts DEF TypeOK, Row
      <3> QED
        BY <1>2, <1>3, <2>1, <3>2, <3>3, LearnOK, InvParts DEF GateShape
    <2>2. CASE /\ Fail(a)
               /\ clients' = [clients EXCEPT ![c].pc = "settle", ![c].seen = "unavailable"]
               /\ UNCHANGED storeVars
      BY <1>2, <1>3, <2>2, LearnOK, StoreKept, InvParts DEF Fail, GateShape
    <2> QED
      BY <1>2, <2>1, <2>2 DEF Commit
  <1>5. GateShape'
    BY <1>1, <1>4, InvParts DEF GateShape, MovesWell
  <1> QED
    BY <1>1, <1>4, <1>5 DEF Preserved, MovesWell

\* finishAction's ticket.
LEMMA SettlePreserved ==
    ASSUME GateInv, NEW c \in Clients, Settle(c)
    PROVE  Preserved
  <1>1. /\ UNCHANGED <<storeVars, policy, recent, askers, gates, permits, broken, restarts>>
        /\ Done(c) /\ clients[c].pc \in BoundPcs
    BY DEF Settle, At, BoundPcs, DecidingPcs
  <1>2. PICK a \in Actions : Act(c) = a
    BY <1>1, BoundHere
  <1>3. clients[c].seen \in TicketStates
    BY ClientHere
  <1>4. tickets' \in [Actions -> Ticket] /\ refused' \subseteq Actions
    <2> DEFINE t == IF tickets[a].state = "absent" THEN NewTicket ELSE tickets[a]
               u == Updated(t, clients[c].seen)
    <2>1. t \in Ticket
      <3>1. NewTicket \in Ticket
        BY DEF NewTicket, NoTicket, Ticket, TicketStates
      <3> QED
        BY <3>1, InvParts DEF GateShape
    <2>2. u \in Ticket
      BY <1>3, <2>1, UpdatedFits
    <2>3. tickets' = [tickets EXCEPT ![a] = u]
      BY <1>2 DEF Settle
    <2> HIDE DEF u
    <2> QED
      BY <1>2, <2>2, <2>3, InvParts, TellFits DEF Settle, GateShape
  <1>5. MovesWell(c)
    BY <1>1, StoreKept, DoneMoves DEF MovesWell
  <1>6. GateShape'
    BY <1>1, <1>4, <1>5, InvParts DEF GateShape, MovesWell
  <1> QED
    BY <1>1, <1>5, <1>6, StoreKept DEF Preserved, MovesWell

\* The three ways a hold ends.
LEMMA HoldPreserved ==
    ASSUME GateInv, NEW c \in Clients, HoldAnswered(c) \/ HoldElapsed(c) \/ HoldClosed(c)
    PROVE  Preserved
  <1>1. /\ UNCHANGED <<storeVars, policy, recent, askers, gates, permits, broken, restarts>>
        /\ Done(c) /\ clients[c].pc \in BoundPcs
    BY DEF HoldAnswered, HoldElapsed, HoldClosed, At, BoundPcs, history
  <1>2. PICK a \in Actions : Act(c) = a
    BY <1>1, BoundHere
  <1>3. tickets' \in [Actions -> Ticket]
    <2>1. CASE UNCHANGED tickets
      BY <2>1, InvParts DEF GateShape
    <2>2. CASE tickets' = [tickets EXCEPT ![a].cut = TRUE]
      <3> DEFINE u == [tickets[a] EXCEPT !.cut = TRUE]
      <3>1. tickets \in [Actions -> Ticket]
        BY InvParts DEF GateShape
      <3>2. u \in Ticket
        BY <3>1 DEF Ticket
      <3>3. tickets' = [tickets EXCEPT ![a] = u]
        BY <2>2
      <3> HIDE DEF u
      <3> QED
        BY <3>1, <3>2, <3>3
    <2> QED
      BY <1>2, <2>1, <2>2 DEF HoldAnswered, HoldElapsed, HoldClosed
  <1>4. refused' \subseteq Actions
    BY <1>2, InvParts, TellFits DEF HoldAnswered, HoldElapsed, HoldClosed, GateShape, history
  <1>5. MovesWell(c)
    BY <1>1, StoreKept, DoneMoves DEF MovesWell
  <1>6. GateShape'
    BY <1>1, <1>3, <1>4, <1>5, InvParts DEF GateShape, MovesWell
  <1> QED
    BY <1>1, <1>5, <1>6, StoreKept DEF Preserved, MovesWell

\* A new request about an action that is known.
LEMMA LookupOK ==
    ASSUME GateInv, NEW c \in Clients, NEW q \in Client, clients' = [clients EXCEPT ![c] = q],
           [StoreNext]_storeVars, NEW a \in Actions, Known(a),
           q.pc \in {"poll", "revokeSet"}, q.act = a, q.at = 0
    PROVE  MovesWell(c)
  <1>1. /\ clients' \in [Clients -> Client] /\ clients'[c] = q
        /\ \A d \in Clients : d # c => clients'[d] = clients[d]
    BY InvParts DEF GateShape
  <1>2. 0 <= now' /\ Known(a)'
    BY StoreGrows, HorizonAssumption DEF GateInv, StoreInv, Time
  <1> QED
    BY <1>1, <1>2 DEF MovesWell, ClientOK, Act, Known, BoundPcs, LookupPcs, DecidingPcs

\* A status read or a consume begins.
LEMMA AskPreserved ==
    ASSUME GateInv, NEW c \in Clients, Ask(c)
    PROVE  Preserved
  <1>1. UNCHANGED <<storeVars, policy, tickets, recent, askers, gates, history, restarts>>
    BY DEF Ask
  <1>2. PICK a \in Actions, op \in {"status", "consume"}, k \in Args :
          /\ Known(a)
          /\ clients' = [clients EXCEPT ![c] =
                [Idle EXCEPT !.pc = "poll", !.op = op, !.act = a,
                             !.bind = [rows[a].bind EXCEPT !.args = k]]]
    BY DEF Ask
  <1> DEFINE b == [rows[a].bind EXCEPT !.args = k]
             q == [Idle EXCEPT !.pc = "poll", !.op = op, !.act = a, !.bind = b]
  <1>3. b \in Bindings
    BY <1>2, InvParts DEF TypeOK, Bindings
  <1> HIDE DEF b
  <1>4. q \in Client /\ q.pc = "poll" /\ q.act = a /\ q.at = 0
    BY <1>3, AnsweredFits DEF Client, Pcs, Idle
  <1>5. clients' = [clients EXCEPT ![c] = q]
    BY <1>2 DEF b
  <1> HIDE DEF q
  <1>6. MovesWell(c)
    BY <1>1, <1>2, <1>4, <1>5, StoreKept, LookupOK
  <1>7. GateShape'
    BY <1>1, <1>6, InvParts DEF GateShape, history, MovesWell
  <1> QED
    BY <1>1, <1>6, <1>7, StoreKept DEF Preserved, MovesWell

\* A revoke of the row's own binding or of another.
LEMMA RevokePreserved ==
    ASSUME GateInv, NEW c \in Clients, Revoke(c)
    PROVE  Preserved
  <1>1. UNCHANGED <<policy, tickets, recent, askers, gates, history, restarts>>
    BY DEF Revoke
  <1>2. PICK a \in Actions, k \in Args :
          /\ Known(a)
          /\ CancelToolAction(a, [rows[a].bind EXCEPT !.args = k]) \/ UNCHANGED storeVars
          /\ \/ clients' = [clients EXCEPT ![c] =
                   [Idle EXCEPT !.pc = "revokeSet", !.act = a, !.seen = rows'[a].status]]
             \/ Done(c)
    BY DEF Revoke
  <1> DEFINE b == [rows[a].bind EXCEPT !.args = k]
             s == rows'[a].status
             q == [Idle EXCEPT !.pc = "revokeSet", !.act = a, !.seen = s]
  <1>3. b \in Bindings
    BY <1>2, InvParts DEF TypeOK, Bindings
  <1> HIDE DEF b
  <1>4. [StoreNext]_storeVars
    BY <1>2, <1>3, StoreKept DEF StoreNext, Statement, b
  <1>5. s \in Statuses /\ TypeOK'
    BY <1>4, StoreGrows, InvParts DEF TypeOK, Row
  <1> HIDE DEF s
  <1>6. q \in Client /\ q.pc = "revokeSet" /\ q.act = a /\ q.at = 0
    BY <1>5, AnsweredFits DEF Client, Pcs, Idle
  <1>7. clients' = [clients EXCEPT ![c] = q] \/ Done(c)
    BY <1>2 DEF s
  <1> HIDE DEF q
  <1>8. MovesWell(c)
    <2>1. CASE clients' = [clients EXCEPT ![c] = q]
      BY <1>2, <1>4, <1>6, <2>1, LookupOK
    <2>2. CASE Done(c)
      BY <1>1, <1>5, <2>2, DoneMoves DEF MovesWell
    <2> QED
      BY <1>7, <2>1, <2>2
  <1>9. GateShape'
    BY <1>1, <1>8, InvParts DEF GateShape, history, MovesWell
  <1> QED
    BY <1>1, <1>4, <1>8, <1>9 DEF Preserved, MovesWell

\* A completion report.
LEMMA CompletePreserved ==
    ASSUME GateInv, NEW c \in Clients, Complete(c)
    PROVE  Preserved
  <1>1. UNCHANGED <<policy, tickets, recent, askers, gates, history, restarts>>
    BY DEF Complete
  <1>2. PICK a \in Actions, k \in Args, o \in Results :
          /\ Known(a)
          /\ \/ /\ CompleteToolAction(a, [rows[a].bind EXCEPT !.args = k], o)
                /\ clients' = [clients EXCEPT ![c] = [Idle EXCEPT !.pc = "poll", !.op = "status", !.act = a]]
             \/ Done(c) /\ UNCHANGED storeVars
    BY DEF Complete
  <1> DEFINE b == [rows[a].bind EXCEPT !.args = k]
             q == [Idle EXCEPT !.pc = "poll", !.op = "status", !.act = a]
  <1>3. b \in Bindings
    BY <1>2, InvParts DEF TypeOK, Bindings
  <1> HIDE DEF b
  <1>4. [StoreNext]_storeVars /\ TypeOK'
    <2>1. [StoreNext]_storeVars
      BY <1>2, <1>3, StoreKept DEF StoreNext, Statement, b
    <2> QED
      BY <2>1, StoreGrows, InvParts
  <1>5. q \in Client /\ q.pc = "poll" /\ q.act = a /\ q.at = 0
    BY AnsweredFits DEF Client, Pcs, Idle
  <1>6. clients' = [clients EXCEPT ![c] = q] \/ Done(c)
    BY <1>2
  <1> HIDE DEF q
  <1>7. MovesWell(c)
    <2>1. CASE clients' = [clients EXCEPT ![c] = q]
      BY <1>2, <1>4, <1>5, <2>1, LookupOK
    <2>2. CASE Done(c)
      BY <1>1, <1>4, <2>2, DoneMoves DEF MovesWell
    <2> QED
      BY <1>6, <2>1, <2>2
  <1>8. GateShape'
    BY <1>1, <1>7, InvParts DEF GateShape, history, MovesWell
  <1> QED
    BY <1>1, <1>4, <1>7, <1>8 DEF Preserved, MovesWell

\* actionResponse's read, under this process's policy and clock.
LEMMA PollReadPreserved ==
    ASSUME GateInv, NEW c \in Clients, PollRead(c)
    PROVE  Preserved
  <1>1. UNCHANGED <<policy, tickets, recent, askers, gates, permits, broken, restarts>>
        /\ clients[c].pc \in LookupPcs
    BY DEF PollRead, At, LookupPcs
  <1>2. PICK a \in Actions : Act(c) = a /\ Known(a)
    BY <1>1, LookupHere
  <1>3. [StoreNext]_storeVars
    <2>1. NormalizeToolAction(a, policy, now) \/ UNCHANGED storeVars
      BY <1>2 DEF PollRead
    <2>2. policy \in Policies /\ now \in 0 .. now
      BY InvParts, Clock DEF GateShape
    <2>3. CASE NormalizeToolAction(a, policy, now)
      BY <1>2, <2>2, <2>3 DEF StoreNext, Statement
    <2> QED
      BY <2>1, <2>3
  <1>4. TypeOK' /\ rows'[a].status \in Statuses
    BY <1>3, StoreGrows, InvParts DEF TypeOK, Row
  <1>5. MovesWell(c)
    <2>1. CASE Done(c)
      BY <1>1, <1>4, <2>1, DoneMoves DEF MovesWell
    <2>2. CASE clients' = [clients EXCEPT ![c].pc = "pollSet", ![c].seen = rows'[a].status]
      <3>1. "pollSet" \in Pcs /\ "pollSet" \notin BoundPcs \cup {"reserve", "spend"}
        BY DEF Pcs, BoundPcs, DecidingPcs
      <3> QED
        BY <1>2, <1>3, <1>4, <2>2, <3>1, LearnOK
    <2> QED
      BY <1>2, <2>1, <2>2 DEF PollRead
  <1>6. refused' \subseteq Actions
    <2>1. Tell(a, "unavailable") \/ UNCHANGED refused
      BY <1>2 DEF PollRead
    <2> QED
      BY <2>1, TellFits, InvParts DEF GateShape
  <1>7. GateShape'
    BY <1>1, <1>5, <1>6, InvParts DEF GateShape, MovesWell
  <1> QED
    BY <1>1, <1>3, <1>5, <1>7 DEF Preserved, MovesWell

\* actionResponse's write to the ticket; a consume keeps the time it reads.
LEMMA PollSetPreserved ==
    ASSUME GateInv, NEW c \in Clients, PollSet(c)
    PROVE  Preserved
  <1>1. UNCHANGED <<storeVars, policy, recent, askers, gates, permits, broken, restarts>>
        /\ clients[c].pc \in LookupPcs
    BY DEF PollSet, At, LookupPcs
  <1>2. PICK a \in Actions : Act(c) = a /\ Known(a) /\ rows[a].bind \in Bindings
    BY <1>1, LookupHere
  <1>3. clients[c].seen \in TicketStates
    BY ClientHere
  <1>4. tickets' \in [Actions -> Ticket] /\ refused' \subseteq Actions
    BY <1>2, <1>3, UpdateTicketFits, TellFits DEF PollSet
  <1>5. MovesWell(c)
    <2>1. CASE Done(c)
      BY <1>1, <2>1, StoreKept, DoneMoves DEF MovesWell
    <2>2. CASE /\ clients[c].bind = rows[a].bind
               /\ clients' = [clients EXCEPT ![c].pc = "spend", ![c].at = now]
      <3> DEFINE q == [clients[c] EXCEPT !.pc = "spend", !.at = now]
      <3>1. now \in Time
        BY InvParts DEF TypeOK
      <3>2. /\ q \in Client /\ q.pc = "spend" /\ q.act = clients[c].act
            /\ q.bind = clients[c].bind /\ q.at = now
        BY <3>1, ClientHere DEF Client, Pcs
      <3>3. clients' = [clients EXCEPT ![c] = q] /\ clients \in [Clients -> Client]
        BY <2>2, InvParts DEF GateShape
      <3> HIDE DEF q
      <3>4. /\ clients' \in [Clients -> Client] /\ clients'[c] = q
            /\ \A d \in Clients : d # c => clients'[d] = clients[d]
        BY <3>2, <3>3
      <3>5. Known(a)' /\ now' = now /\ now \in Nat
        BY <1>1, <1>2, StoreKept, Clock
      <3> QED
        BY <1>2, <2>2, <3>2, <3>4, <3>5
        DEF MovesWell, ClientOK, Act, BoundPcs, LookupPcs, DecidingPcs
    <2> QED
      BY <1>2, <2>1, <2>2 DEF PollSet
  <1>6. GateShape'
    BY <1>1, <1>4, <1>5, InvParts DEF GateShape, MovesWell
  <1> QED
    BY <1>1, <1>5, <1>6, StoreKept DEF Preserved, MovesWell


\* The consume transaction.
LEMMA SpendPreserved ==
    ASSUME GateInv, NEW c \in Clients, Spend(c)
    PROVE  Preserved
  <1>1. UNCHANGED <<policy, tickets, recent, askers, gates, history, restarts>>
        /\ At(c, "spend")
    BY DEF Spend
  <1>2. PICK a \in Actions : Act(c) = a /\ Known(a)
    BY <1>1, LookupHere DEF At, LookupPcs
  <1>3. clients[c].bind \in Bindings /\ clients[c].at \in 0 .. now
    BY <1>1, ClientHere, Clock DEF ClientOK, At
  <1>4. [StoreNext]_storeVars /\ MovesWell(c)
    <2>1. ASSUME NEW p \in {"wonSet", "lostSet"},
                 ConsumeToolActionWithReceipt(a, clients[c].bind, clients[c].at),
                 clients' = [clients EXCEPT ![c].pc = p, ![c].seen = rows'[a].status]
          PROVE  [StoreNext]_storeVars /\ MovesWell(c)
      <3>1. [StoreNext]_storeVars
        BY <1>2, <1>3, <2>1 DEF StoreNext, Statement
      <3>2. rows'[a].status \in Statuses
        BY <3>1, StoreGrows, InvParts DEF TypeOK, Row
      <3>3. p \in Pcs /\ p \notin BoundPcs \cup {"reserve", "spend"}
        BY DEF Pcs, BoundPcs, DecidingPcs
      <3> QED
        BY <1>2, <2>1, <3>1, <3>2, <3>3, LearnOK
    <2>2. CASE Done(c) /\ UNCHANGED storeVars
      BY <1>1, <2>2, StoreKept, DoneMoves DEF MovesWell
    <2> QED
      BY <1>2, <2>1, <2>2 DEF Spend
  <1>5. GateShape'
    BY <1>1, <1>4, InvParts DEF GateShape, history, MovesWell
  <1> QED
    BY <1>1, <1>4, <1>5 DEF Preserved, MovesWell

\* The consume's answer.
LEMMA SpendSetPreserved ==
    ASSUME GateInv, NEW c \in Clients, SpendSet(c)
    PROVE  Preserved
  <1>1. /\ UNCHANGED <<storeVars, policy, recent, askers, gates, broken, restarts>>
        /\ Done(c) /\ clients[c].pc \in LookupPcs
    BY DEF SpendSet, LookupPcs
  <1>2. PICK a \in Actions : Act(c) = a
    BY <1>1, LookupHere
  <1>3. tickets' \in [Actions -> Ticket] /\ refused' \subseteq Actions
    BY <1>2, ClientHere, UpdateTicketFits, TellFits DEF SpendSet
  <1>4. permits' \in [Actions -> Nat]
    BY <1>2, InvParts DEF SpendSet, GateShape
  <1>5. MovesWell(c)
    BY <1>1, StoreKept, DoneMoves DEF MovesWell
  <1>6. GateShape'
    BY <1>1, <1>3, <1>4, <1>5, InvParts DEF GateShape, MovesWell
  <1> QED
    BY <1>1, <1>5, <1>6, StoreKept DEF Preserved, MovesWell

\* The revoke's answer.
LEMMA RevokeSetPreserved ==
    ASSUME GateInv, NEW c \in Clients, RevokeSet(c)
    PROVE  Preserved
  <1>1. /\ UNCHANGED <<storeVars, policy, recent, askers, gates, permits, broken, restarts>>
        /\ Done(c) /\ clients[c].pc \in LookupPcs
    BY DEF RevokeSet, At, LookupPcs
  <1>2. PICK a \in Actions : Act(c) = a
    BY <1>1, LookupHere
  <1>3. tickets' \in [Actions -> Ticket] /\ refused' \subseteq Actions
    BY <1>2, ClientHere, UpdateTicketFits, TellFits DEF RevokeSet
  <1>4. MovesWell(c)
    BY <1>1, StoreKept, DoneMoves DEF MovesWell
  <1>5. GateShape'
    BY <1>1, <1>3, <1>4, InvParts DEF GateShape, MovesWell
  <1> QED
    BY <1>1, <1>4, <1>5, StoreKept DEF Preserved, MovesWell

-----------------------------------------------------------------------------
\* The askers.

\* What the steps of asker a have in common.
AskerMovesWell(a) ==
    /\ askers' \in [Actions -> Asker]
    /\ AskerOK(a)'
    /\ \A x \in Actions : x # a => askers'[x] = askers[x]

\* An asker that moves on stays with its action and reads no future time.
LEMMA AskerMovedOK ==
    ASSUME GateInv, NEW a \in Actions, NEW q \in Asker, askers' = [askers EXCEPT ![a] = q],
           [StoreNext]_storeVars, askers[a].pc # "off", q.at = askers[a].at \/ q.at = now
    PROVE  AskerMovesWell(a)
  <1>1. askers' \in [Actions -> Asker] /\ askers'[a] = q
        /\ \A x \in Actions : x # a => askers'[x] = askers[x]
    BY InvParts DEF GateShape
  <1>2. Known(a)' /\ now <= now' /\ now' \in Nat
    BY StoreGrows, AskerHere, HorizonAssumption DEF GateInv, StoreInv, Time, AskerOK
  <1>3. q.at <= now /\ q.at \in Nat /\ now \in Nat
    BY AskerHere, Clock DEF AskerOK
  <1> QED
    BY <1>1, <1>2, <1>3 DEF AskerMovesWell, AskerOK, Known

\* ... also when only its program counter moves.
LEMMA AskerGoOK ==
    ASSUME GateInv, NEW a \in Actions, NEW p \in AskerPcs, AskerGo(a, p),
           [StoreNext]_storeVars, askers[a].pc # "off"
    PROVE  AskerMovesWell(a)
  <1> DEFINE q == [askers[a] EXCEPT !.pc = p]
  <1>1. q \in Asker /\ q.at = askers[a].at
    BY AskerHere DEF Asker
  <1>2. askers' = [askers EXCEPT ![a] = q]
    BY InvParts DEF AskerGo, GateShape
  <1> HIDE DEF q
  <1> QED
    BY <1>1, <1>2, AskerMovedOK

\* A prompt that ends, by a tap or by its context, with a verdict.
LEMMA PromptClosesOK ==
    ASSUME GateInv, NEW a \in Actions, NEW d \in Verdicts, askers[a].pc # "off",
           askers' = [askers EXCEPT ![a].pc = "resolve", ![a].verdict = d],
           [StoreNext]_storeVars
    PROVE  AskerMovesWell(a)
  <1> DEFINE q == [askers[a] EXCEPT !.pc = "resolve", !.verdict = d]
  <1>1. q \in Asker /\ q.at = askers[a].at
    BY AskerHere DEF Asker, AskerPcs
  <1>2. askers' = [askers EXCEPT ![a] = q]
    BY InvParts DEF GateShape
  <1> HIDE DEF q
  <1> QED
    BY <1>1, <1>2, AskerMovedOK

\* The prompt ends, by a tap or by its context.
LEMMA PromptPreserved ==
    ASSUME GateInv, NEW a \in Actions, Tap(a) \/ PromptEnds(a)
    PROVE  Preserved
  <1>1. /\ UNCHANGED <<storeVars, policy, tickets, recent, clients, gates, history, restarts>>
        /\ askers[a].pc # "off"
    BY DEF Tap, PromptEnds, AskerAt
  <1>2. PICK d \in Verdicts : askers' = [askers EXCEPT ![a].pc = "resolve", ![a].verdict = d]
    BY DEF Tap, PromptEnds, Verdicts
  <1>3. AskerMovesWell(a)
    BY <1>1, <1>2, PromptClosesOK, StoreKept
  <1>4. GateShape'
    BY <1>1, <1>3, InvParts DEF GateShape, history, AskerMovesWell
  <1> QED
    BY <1>1, <1>3, <1>4, StoreKept DEF Preserved, AskerMovesWell

\* Opening and closing the recorded prompt, either of which may fail.
LEMMA RecordedPromptPreserved ==
    ASSUME GateInv, NEW a \in Actions, AskerBegin(a) \/ AskerResolve(a)
    PROVE  Preserved
  <1>1. /\ UNCHANGED <<storeVars, policy, recent, clients, permits, refused, restarts>>
        /\ askers[a].pc # "off"
    BY DEF AskerBegin, AskerResolve, AskerAt
  <1>2. AskerMovesWell(a)
    <2>1. ASSUME NEW p \in {"arm", "verdict", "over"}, AskerGo(a, p)
          PROVE  AskerMovesWell(a)
      BY <1>1, <2>1, AskerGoOK, StoreKept DEF AskerPcs
    <2> QED
      BY <2>1 DEF AskerBegin, AskerResolve
  <1>3. tickets' \in [Actions -> Ticket]
    <2>1. "unavailable" \in TicketStates
      BY DEF TicketStates
    <2> QED
      BY <2>1, UpdateTicketFits, InvParts DEF AskerBegin, AskerResolve, GateShape
  <1>4. gates' \in [Actions -> {"none", "pending", "resolved", "interrupted"}]
        /\ broken' \subseteq Actions
    BY InvParts DEF AskerBegin, AskerResolve, GateShape, Fail
  <1>5. GateShape'
    BY <1>1, <1>2, <1>3, <1>4, InvParts DEF GateShape, AskerMovesWell
  <1> QED
    BY <1>1, <1>2, <1>5, StoreKept DEF Preserved, AskerMovesWell

\* The prompt is armed, or found answered.
LEMMA AskerArmPreserved ==
    ASSUME GateInv, NEW a \in Actions, AskerArm(a)
    PROVE  Preserved
  <1>1. /\ UNCHANGED <<storeVars, policy, recent, clients, history, restarts>>
        /\ askers[a].pc # "off"
    BY DEF AskerArm, AskerAt
  <1>2. AskerMovesWell(a)
    <2>1. ASSUME NEW p \in {"prompt", "over"}, AskerGo(a, p)
          PROVE  AskerMovesWell(a)
      BY <1>1, <2>1, AskerGoOK, StoreKept DEF AskerPcs
    <2> QED
      BY <2>1 DEF AskerArm
  <1>3. tickets' \in [Actions -> Ticket]
    <2>1. CASE UNCHANGED tickets
      BY <2>1, InvParts DEF GateShape
    <2>2. CASE tickets' = [tickets EXCEPT ![a].armed = TRUE]
      <3> DEFINE u == [tickets[a] EXCEPT !.armed = TRUE]
      <3>1. tickets \in [Actions -> Ticket]
        BY InvParts DEF GateShape
      <3>2. u \in Ticket
        BY <3>1 DEF Ticket
      <3>3. tickets' = [tickets EXCEPT ![a] = u]
        BY <2>2
      <3> HIDE DEF u
      <3> QED
        BY <3>1, <3>2, <3>3
    <2> QED
      BY <2>1, <2>2 DEF AskerArm
  <1>4. gates' \in [Actions -> {"none", "pending", "resolved", "interrupted"}]
    BY InvParts DEF AskerArm, GateShape
  <1>5. GateShape'
    BY <1>1, <1>2, <1>3, <1>4, InvParts DEF GateShape, AskerMovesWell, history
  <1> QED
    BY <1>1, <1>2, <1>5, StoreKept DEF Preserved, AskerMovesWell

\* The asker takes the time of its decision.
LEMMA AskerVerdictPreserved ==
    ASSUME GateInv, NEW a \in Actions, AskerVerdict(a)
    PROVE  Preserved
  <1>1. /\ UNCHANGED <<storeVars, policy, tickets, recent, clients, gates, history, restarts>>
        /\ askers[a].pc # "off"
    BY DEF AskerVerdict, AskerAt
  <1>2. AskerMovesWell(a)
    <2>1. CASE AskerGo(a, "over")
      BY <1>1, <2>1, AskerGoOK, StoreKept DEF AskerPcs
    <2>2. CASE askers' = [askers EXCEPT ![a].pc = "commit", ![a].at = now,
                             ![a].verdict = AtDecision(rows[a].bind, @)]
      <3> DEFINE v == AtDecision(rows[a].bind, askers[a].verdict)
                 q == [askers[a] EXCEPT !.pc = "commit", !.at = now, !.verdict = v]
      <3>1. v \in Verdicts
        BY AskerHere DEF AtDecision, Verdicts
      <3>2. askers' = [askers EXCEPT ![a] = q]
        BY <2>2, InvParts DEF GateShape
      <3> HIDE DEF v
      <3>3. now \in Time
        BY InvParts DEF TypeOK
      <3>4. q \in Asker /\ q.at = now
        BY <3>1, <3>3, AskerHere DEF Asker, AskerPcs
      <3> HIDE DEF q
      <3> QED
        BY <1>1, <3>2, <3>4, AskerMovedOK, StoreKept
    <2> QED
      BY <2>1, <2>2 DEF AskerVerdict
  <1>3. GateShape'
    BY <1>1, <1>2, InvParts DEF GateShape, history, AskerMovesWell
  <1> QED
    BY <1>1, <1>2, <1>3, StoreKept DEF Preserved, AskerMovesWell

\* The asker's decision, under the row's own binding.
LEMMA AskerCommitPreserved ==
    ASSUME GateInv, NEW a \in Actions, AskerCommit(a)
    PROVE  Preserved
  <1>1. /\ UNCHANGED <<policy, tickets, recent, clients, gates, permits, refused, restarts>>
        /\ askers[a].pc # "off"
    BY DEF AskerCommit, AskerAt
  <1>2. Known(a) /\ askers[a].at \in 0 .. now /\ askers[a].verdict \in Verdicts
    BY <1>1, AskerHere, Clock DEF AskerOK
  <1>3. ASSUME NEW s \in Statuses \cup {"unavailable"}, [StoreNext]_storeVars,
               askers' = [askers EXCEPT ![a].pc = "settle", ![a].seen = s]
        PROVE  AskerMovesWell(a)
    <2> DEFINE q == [askers[a] EXCEPT !.pc = "settle", !.seen = s]
    <2>1. q \in Asker /\ q.at = askers[a].at
      BY AskerHere DEF Asker, AskerPcs
    <2>2. askers' = [askers EXCEPT ![a] = q]
      BY <1>3, InvParts DEF GateShape
    <2> HIDE DEF q
    <2> QED
      BY <1>1, <1>3, <2>1, <2>2, AskerMovedOK
  <1>4. [StoreNext]_storeVars /\ AskerMovesWell(a) /\ broken' \subseteq Actions
    <2>1. CASE /\ DecideToolActionWithReceipt(a, rows[a].bind, askers[a].verdict, askers[a].at)
               /\ askers' = [askers EXCEPT ![a].pc = "settle", ![a].seen = rows'[a].status]
               /\ UNCHANGED broken
      <3>1. [StoreNext]_storeVars
        BY <1>2, <2>1 DEF StoreNext, Statement
      <3>2. rows'[a].status \in Statuses
        BY <3>1, StoreGrows, InvParts DEF TypeOK, Row
      <3> QED
        BY <1>3, <2>1, <3>1, <3>2, InvParts DEF GateShape
    <2>2. CASE /\ Fail(a)
               /\ askers' = [askers EXCEPT ![a].pc = "settle", ![a].seen = "unavailable"]
               /\ UNCHANGED storeVars
      BY <1>3, <2>2, StoreKept, InvParts DEF Fail, GateShape
    <2> QED
      BY <2>1, <2>2 DEF AskerCommit
  <1>5. GateShape'
    BY <1>1, <1>4, InvParts DEF GateShape, AskerMovesWell
  <1> QED
    BY <1>1, <1>4, <1>5 DEF Preserved, AskerMovesWell

\* The asker's answer.
LEMMA AskerSettlePreserved ==
    ASSUME GateInv, NEW a \in Actions, AskerSettle(a)
    PROVE  Preserved
  <1>1. /\ UNCHANGED <<storeVars, policy, recent, clients, gates, history, restarts>>
        /\ askers[a].pc # "off"
    BY DEF AskerSettle, AskerAt
  <1>2. AskerMovesWell(a)
    BY <1>1, AskerGoOK, StoreKept DEF AskerSettle, AskerPcs
  <1>3. tickets' \in [Actions -> Ticket]
    BY AskerHere, UpdateTicketFits DEF AskerSettle
  <1>4. GateShape'
    BY <1>1, <1>2, <1>3, InvParts DEF GateShape, AskerMovesWell, history
  <1> QED
    BY <1>1, <1>2, <1>4, StoreKept DEF Preserved, AskerMovesWell

-----------------------------------------------------------------------------
\* The process and the clock.

LEMMA RestingFacts ==
    /\ Idle.pc = "idle" /\ Idle.at = 0
    /\ Answered.pc = "answered" /\ Answered.at = 0
  BY DEF Idle, Answered

\* A restart forgets every request and asker, and expires rows.
LEMMA RestartPreserved ==
    ASSUME GateInv, Restart
    PROVE  Preserved
  <1>1. [StoreNext]_storeVars
    <2>1. ExpireToolActions(now) /\ now \in 0 .. now
      BY Clock DEF Restart
    <2> QED
      BY <2>1 DEF StoreNext
  <1>2. 0 <= now'
    BY <1>1, StoreGrows, HorizonAssumption DEF GateInv, StoreInv, Time
  <1>3. NoTicket \in Ticket /\ Off \in Asker /\ Nothing.asks = 0
        /\ Nothing \in [act : Actions \cup {NoAction}, asks : Nat, last : Time]
    BY Clock DEF NoTicket, Ticket, TicketStates, Off, Asker, AskerPcs, Verdicts, Statuses, Nothing
  <1>4. clients' \in [Clients -> Client] /\ \A c \in Clients : ClientOK(c)'
    <2>1. clients' = [c \in Clients |-> IF At(c, "idle") THEN Idle ELSE Answered]
      BY DEF Restart
    <2>2. clients' \in [Clients -> Client]
      BY <2>1, AnsweredFits
    <2>3. ASSUME NEW c \in Clients
          PROVE  ClientOK(c)'
      <3>1. clients'[c] = Idle \/ clients'[c] = Answered
        BY <2>1
      <3> QED
        BY <1>2, <3>1, RestingFacts DEF ClientOK, BoundPcs, LookupPcs, DecidingPcs
    <2> QED
      BY <2>2, <2>3
  <1>5. askers' = [a \in Actions |-> Off] /\ \A a \in Actions : AskerOK(a)'
    BY <1>2 DEF Restart, AskerOK, Off
  <1>6. GateShape'
    BY <1>3, <1>4, <1>5, InvParts DEF Restart, GateShape, history
  <1> QED
    BY <1>1, <1>4, <1>5, <1>6 DEF Preserved

\* The clock moves.
LEMMA TimePreserved ==
    ASSUME GateInv, TimePasses
    PROVE  Preserved
  BY InvParts DEF TimePasses, Preserved, StoreNext, gateVars, history, GateShape

\* Every step of the gate preserves.
LEMMA NextPreserved ==
    ASSUME GateInv, Next
    PROVE  Preserved
  <1>1. ASSUME NEW c \in Clients, ClientStep(c)
        PROVE  Preserved
    BY <1>1, ReservePreserved, RulesPreserved, CheckPreserved, JoinPreserved, OpenPreserved,
       CommitPreserved, SettlePreserved, HoldPreserved, PollReadPreserved, PollSetPreserved,
       SpendPreserved, SpendSetPreserved, RevokeSetPreserved DEF ClientStep
  <1>2. ASSUME NEW c \in Clients, CallerStep(c)
        PROVE  Preserved
    BY <1>2, CallPreserved, AskPreserved, RevokePreserved, CompletePreserved, HoldPreserved
    DEF CallerStep
  <1>3. ASSUME NEW a \in Actions, AskerStep(a) \/ Tap(a)
        PROVE  Preserved
    BY <1>3, RecordedPromptPreserved, AskerArmPreserved, PromptPreserved,
       AskerVerdictPreserved, AskerCommitPreserved, AskerSettlePreserved DEF AskerStep
  <1> QED
    BY <1>1, <1>2, <1>3, RestartPreserved, TimePreserved DEF Next

\* The invariant holds when the first process starts.
LEMMA GateInvInit == Init => GateInv
  <1> SUFFICES ASSUME Init PROVE GateInv
    OBVIOUS
  <1>1. StoreInv
    BY StoreInvInit DEF Init
  <1>2. TypeOK
    BY <1>1, StoreInvImplies
  <1>3. 0 \in Time /\ now = 0
    BY HorizonAssumption DEF Time, Init, StoreInit
  <1>4. GateShape
    <2>1. NoTicket \in Ticket /\ Off \in Asker
      BY <1>3 DEF NoTicket, Ticket, TicketStates, Off, Asker, AskerPcs, Verdicts, Statuses
    <2>2. Nothing \in [act : Actions \cup {NoAction}, asks : Nat, last : Time]
      BY <1>3 DEF Nothing
    <2> QED
      BY <2>1, <2>2, AnsweredFits DEF Init, GateShape
  <1>5. ASSUME NEW c \in Clients
        PROVE  ClientOK(c)
    BY <1>3, RestingFacts DEF Init, ClientOK, BoundPcs, LookupPcs, DecidingPcs
  <1>6. ASSUME NEW a \in Actions
        PROVE  AskerOK(a)
    BY <1>3 DEF Init, AskerOK, Off
  <1> QED
    BY <1>1, <1>2, <1>4, <1>5, <1>6, ShapeOK DEF GateInv

\* The invariant is inductive.
LEMMA GateInvStep == GateInv /\ [Next]_vars => GateInv'
  <1> SUFFICES ASSUME GateInv, [Next]_vars PROVE GateInv'
    OBVIOUS
  <1>1. CASE Next
    BY <1>1, NextPreserved, PreservedKeepsInv
  <1>2. CASE UNCHANGED vars
    <2>1. Preserved
      BY <1>2, InvParts DEF vars, gateVars, history, Preserved, GateShape
    <2> QED
      BY <2>1, PreservedKeepsInv
  <1> QED
    BY <1>1, <1>2

\* So it always holds.
LEMMA GateInvAlways == Spec => []GateInv
  BY GateInvInit, GateInvStep, PTL DEF Spec

-----------------------------------------------------------------------------
\* What the runs check, for every number of requests, actions and restarts.

\* Types: every request, ticket, asker and row stays inside its type.
THEOREM GateTypes == Spec => []GateTypeOK
  <1>1. GateInv => GateTypeOK
    BY DEF GateInv
  <1> QED
    BY <1>1, GateInvAlways, PTL

\* The gate drives the ledger only through its statements: a decision carries
\* the binding its request reserved, and no time comes from the future.
THEOREM GateDrivesLedger == Spec => GateUsesLedger
  <1>1. Init => StoreInit
    BY DEF Init
  <1>2. GateInv /\ [Next]_vars => [StoreNext]_storeVars
    <2>1. ASSUME GateInv, Next
          PROVE  [StoreNext]_storeVars
      BY <2>1, NextPreserved DEF Preserved
    <2>2. UNCHANGED vars => UNCHANGED storeVars
      BY DEF vars
    <2> QED
      BY <2>1, <2>2
  <1> QED
    BY <1>1, <1>2, GateInvAlways, PTL DEF Spec, GateUsesLedger, StoreSpec

\* So the ledger's theorems hold of the gate: the receipts agree with the rows.
THEOREM GateKeepsAudit == Spec => []AuditMatchesState
  BY GateDrivesLedger, ReceiptsMatchRows, PTL DEF GateUsesLedger

\* ... no step of a request, an asker or a restart rewrites settled history.
THEOREM GateKeepsHistory == Spec => HistoryIsFinal
  BY GateDrivesLedger, HistoryFinal, PTL DEF GateUsesLedger

\* ... and the gate, handlers and all, implements the abstract permit.
THEOREM GateImplementsPermit == Spec => ImplementsPermit
  BY GateDrivesLedger, LedgerImplementsPermit, PTL DEF GateUsesLedger

-----------------------------------------------------------------------------
\* "permit: execute" once per action.

WinInv == GateInv /\ WinnerOK /\ ExecuteOnce

\* A step that hands out no permit and lets no consume win.
Quiet ==
    /\ permits' = permits
    /\ \A c \in Clients : clients'[c].pc = "wonSet" => clients'[c] = clients[c]

\* A quiet step keeps the winner unique and its permit unspent.
LEMMA QuietKeepsWin ==
    ASSUME WinInv, Preserved, Quiet
    PROVE  WinnerOK' /\ ExecuteOnce'
  <1>1. \A a \in Actions : rows[a].status = "consumed" => rows'[a].status = "consumed"
    BY StoreGrows DEF WinInv, GateInv, Preserved
  <1>2. \A c \in Clients : At(c, "wonSet") => Act(c) \in Actions
    BY ClientHere DEF WinInv, ClientOK, At
  <1>3. ExecuteOnce'
    BY <1>1 DEF WinInv, ExecuteOnce, Quiet
  <1>4. WinnerOK'
    BY <1>1, <1>2 DEF WinInv, WinnerOK, Quiet, At, Act
  <1> QED
    BY <1>3, <1>4

\* A request that goes anywhere but to the winner's answer.
LEMMA MovedQuietly ==
    ASSUME GateInv, NEW c \in Clients, NEW q, clients' = [clients EXCEPT ![c] = q],
           q.pc # "wonSet", UNCHANGED permits
    PROVE  Quiet
  BY InvParts DEF GateShape, Quiet

\* The ways a request moves on, but to the winner's answer, are quiet.
LEMMA WentQuietly ==
    ASSUME GateInv, NEW c \in Clients, UNCHANGED permits,
           \/ Done(c)
           \/ \E d \in Verdicts : Finish(c, d)
           \/ \E p \in Pcs \ {"wonSet"} : Go(c, p)
           \/ \E p \in Pcs \ {"wonSet"} : \E s : clients' = [clients EXCEPT ![c].pc = p, ![c].seen = s]
           \/ \E p \in Pcs \ {"wonSet"} : \E t : clients' = [clients EXCEPT ![c].pc = p, ![c].at = t]
    PROVE  Quiet
  <1>1. clients[c] \in Client
    BY ClientHere
  <1>2. ASSUME NEW p \in Pcs \ {"wonSet"}, Go(c, p)
        PROVE  Quiet
    <2> DEFINE q == [clients[c] EXCEPT !.pc = p]
    <2>1. clients' = [clients EXCEPT ![c] = q] /\ q.pc # "wonSet"
      BY <1>1, <1>2, InvParts DEF Go, GateShape, Client
    <2> HIDE DEF q
    <2> QED
      BY <2>1, MovedQuietly
  <1>3. ASSUME NEW p \in Pcs \ {"wonSet"}, NEW s,
               clients' = [clients EXCEPT ![c].pc = p, ![c].seen = s]
        PROVE  Quiet
    <2> DEFINE q == [clients[c] EXCEPT !.pc = p, !.seen = s]
    <2>1. clients' = [clients EXCEPT ![c] = q] /\ q.pc # "wonSet"
      BY <1>1, <1>3, InvParts DEF GateShape, Client
    <2> HIDE DEF q
    <2> QED
      BY <2>1, MovedQuietly
  <1>4. ASSUME NEW p \in Pcs \ {"wonSet"}, NEW t,
               clients' = [clients EXCEPT ![c].pc = p, ![c].at = t]
        PROVE  Quiet
    <2> DEFINE q == [clients[c] EXCEPT !.pc = p, !.at = t]
    <2>1. clients' = [clients EXCEPT ![c] = q] /\ q.pc # "wonSet"
      BY <1>1, <1>4, InvParts DEF GateShape, Client
    <2> HIDE DEF q
    <2> QED
      BY <2>1, MovedQuietly
  <1>5. ASSUME NEW d \in Verdicts, Finish(c, d)
        PROVE  Quiet
    <2> DEFINE v == AtDecision(clients[c].bind, d)
               q == [clients[c] EXCEPT !.pc = "commit", !.at = now, !.verdict = v]
    <2>1. clients' = [clients EXCEPT ![c] = q] /\ q.pc # "wonSet"
      BY <1>1, <1>5, InvParts DEF Finish, GateShape, Client
    <2> HIDE DEF q
    <2> QED
      BY <2>1, MovedQuietly
  <1>6. CASE Done(c)
    BY <1>6, MovedQuietly, RestingFacts DEF Done
  <1> QED
    BY <1>2, <1>3, <1>4, <1>5, <1>6

\* Every step of a request is quiet, but the consume and its answer.
LEMMA ClientStepQuiet ==
    ASSUME GateInv, NEW c \in Clients, ClientStep(c) \/ CallerStep(c),
           ~Spend(c), ~SpendSet(c)
    PROVE  Quiet
  <1>v. {"policy_approve", "deny"} \subseteq Verdicts
        /\ {"rules", "poll", "check", "open", "join", "holdSync", "holdWait", "settle",
            "pollSet", "spend"} \subseteq Pcs \ {"wonSet"}
    BY DEF Verdicts, Pcs, DecidingPcs
  <1>1. CASE Reserve(c) \/ Rules(c) \/ Check(c)
    BY <1>1, <1>v, WentQuietly DEF Reserve, Rules, Check, history
  <1>2. CASE Join(c) \/ Open(c) \/ Settle(c)
    BY <1>2, <1>v, WentQuietly DEF Join, Open, Settle, history
  <1>3. CASE Commit(c)
    BY <1>3, <1>v, WentQuietly DEF Commit
  <1>4. CASE HoldAnswered(c) \/ HoldElapsed(c) \/ HoldClosed(c) \/ RevokeSet(c)
    BY <1>4, WentQuietly DEF HoldAnswered, HoldElapsed, HoldClosed, RevokeSet, history
  <1>5. CASE PollRead(c)
    BY <1>5, <1>v, WentQuietly DEF PollRead, history
  <1>6. CASE PollSet(c)
    BY <1>6, <1>v, WentQuietly DEF PollSet
  <1>7. ASSUME Call(c) \/ Ask(c) \/ Revoke(c) \/ Complete(c)
        PROVE  Quiet
    <2>0. UNCHANGED permits
      BY <1>7 DEF Call, Ask, Revoke, Complete, history
    <2>1. CASE Done(c)
      BY <2>0, <2>1, WentQuietly
    <2>2. ASSUME ~Done(c)
          PROVE  \E q : clients' = [clients EXCEPT ![c] = q] /\ q.pc # "wonSet"
      <3>1. CASE Call(c)
        <4>1. PICK a \in Actions, k \in Args, named \in BOOLEAN, e \in Time :
                clients' = [clients EXCEPT ![c] =
                  [Idle EXCEPT !.pc = "reserve", !.op = "call", !.act = a, !.named = named,
                               !.bind = [args |-> k, policy |-> policy, expires |-> e]]]
          BY <3>1 DEF Call
        <4> DEFINE b == [args |-> k, policy |-> policy, expires |-> e]
        <4> HIDE DEF b
        <4> DEFINE q == [Idle EXCEPT !.pc = "reserve", !.op = "call", !.act = a,
                                     !.named = named, !.bind = b]
        <4>2. q.pc = "reserve"
          BY DEF Idle
        <4>3. clients' = [clients EXCEPT ![c] = q]
          BY <4>1 DEF b
        <4> HIDE DEF q
        <4> QED
          BY <4>2, <4>3
      <3>2. CASE Ask(c)
        <4>1. PICK a \in Actions, op \in {"status", "consume"}, k \in Args :
                clients' = [clients EXCEPT ![c] =
                  [Idle EXCEPT !.pc = "poll", !.op = op, !.act = a,
                               !.bind = [rows[a].bind EXCEPT !.args = k]]]
          BY <3>2 DEF Ask
        <4> DEFINE b == [rows[a].bind EXCEPT !.args = k]
                   q == [Idle EXCEPT !.pc = "poll", !.op = op, !.act = a, !.bind = b]
        <4>2. q.pc = "poll"
          BY DEF Idle
        <4> HIDE DEF q
        <4> QED
          BY <4>1, <4>2 DEF q
      <3>3. CASE Revoke(c)
        <4>1. PICK a \in Actions :
                clients' = [clients EXCEPT ![c] =
                  [Idle EXCEPT !.pc = "revokeSet", !.act = a, !.seen = rows'[a].status]]
          BY <2>2, <3>3 DEF Revoke
        <4> DEFINE s == rows'[a].status
                   q == [Idle EXCEPT !.pc = "revokeSet", !.act = a, !.seen = s]
        <4>2. q.pc = "revokeSet"
          BY DEF Idle
        <4> QED
          BY <4>1, <4>2
      <3>4. CASE Complete(c)
        <4>1. PICK a \in Actions :
                clients' = [clients EXCEPT ![c] =
                  [Idle EXCEPT !.pc = "poll", !.op = "status", !.act = a]]
          BY <2>2, <3>4 DEF Complete
        <4> DEFINE q == [Idle EXCEPT !.pc = "poll", !.op = "status", !.act = a]
        <4>2. q.pc = "poll"
          BY DEF Idle
        <4> QED
          BY <4>1, <4>2
      <3> QED
        BY <1>7, <3>1, <3>2, <3>3, <3>4
    <2> QED
      BY <2>0, <2>1, <2>2, MovedQuietly
  <1> QED
    BY <1>1, <1>2, <1>3, <1>4, <1>5, <1>6, <1>7 DEF ClientStep, CallerStep

\* Askers, restarts and the clock are quiet.
LEMMA OtherStepQuiet ==
    ASSUME GateInv, Next, \A c \in Clients : ~ClientStep(c) /\ ~CallerStep(c)
    PROVE  Quiet
  <1>1. CASE Restart
    BY <1>1, RestingFacts DEF Restart, history, Quiet
  <1>2. CASE TimePasses
    BY <1>2 DEF TimePasses, gateVars, history, Quiet
  <1>3. ASSUME NEW a \in Actions, AskerStep(a) \/ Tap(a)
        PROVE  UNCHANGED <<clients, permits>>
    BY <1>3 DEF AskerStep, Tap, AskerBegin, AskerArm, PromptEnds, AskerResolve,
       AskerVerdict, AskerCommit, AskerSettle, history
  <1> QED
    BY <1>1, <1>2, <1>3 DEF Next, Quiet

\* The consume that wins finds the permit allowed, so nobody won it before.
LEMMA SpendKeepsWin ==
    ASSUME WinInv, NEW c \in Clients, Spend(c)
    PROVE  WinnerOK' /\ ExecuteOnce'
  <1>0. GateInv /\ Preserved /\ UNCHANGED permits /\ At(c, "spend")
    BY SpendPreserved DEF WinInv, Spend, history
  <1>1. PICK a \in Actions : Act(c) = a
    BY <1>0, LookupHere DEF At, LookupPcs
  <1>2. CASE Done(c)
    BY <1>0, <1>2, WentQuietly, QuietKeepsWin
  <1>3. CASE ~Consumable(a, clients[c].bind, clients[c].at)
    <2>1. Done(c) \/ clients' = [clients EXCEPT ![c].pc = "lostSet", ![c].seen = rows'[a].status]
      BY <1>1, <1>3 DEF Spend
    <2>2. "lostSet" \in Pcs \ {"wonSet"}
      BY DEF Pcs
    <2> QED
      BY <1>0, <2>1, <2>2, WentQuietly, QuietKeepsWin
  <1>4. CASE /\ Consumable(a, clients[c].bind, clients[c].at)
             /\ ConsumeToolActionWithReceipt(a, clients[c].bind, clients[c].at)
             /\ clients' = [clients EXCEPT ![c].pc = "wonSet", ![c].seen = rows'[a].status]
    <2>1. /\ rows[a].status = "allowed"
          /\ rows' = [rows EXCEPT ![a] = [rows[a] EXCEPT !.status = "consumed",
                                                        !.consumedAt = clients[c].at]]
      BY <1>4 DEF Consumable, ConsumeToolActionWithReceipt, Write
    <2>2. rows'[a].status = "consumed"
      BY <1>0, <2>1, InvParts DEF TypeOK, Row
    <2>3. \A x \in Actions : rows[x].status = "consumed" => rows'[x].status = "consumed"
      BY <1>0, StoreGrows DEF GateInv, Preserved
    <2>4. permits[a] = 0 /\ \A d \in Clients : At(d, "wonSet") => Act(d) # a
      <3>1. permits[a] \in Nat
        BY <1>0, InvParts DEF GateShape
      <3>2. permits[a] = 0
        BY <2>1, <3>1 DEF WinInv, ExecuteOnce
      <3> QED
        BY <2>1, <3>2 DEF WinInv, WinnerOK
    <2>5. \A d \in Clients : d # c => clients'[d] = clients[d]
      BY <1>0, <1>4, InvParts DEF GateShape
    <2>6. clients'[c].act = a
      BY <1>0, <1>1, <1>4, ClientHere, InvParts DEF GateShape, Client, Act
    <2>7. \A d \in Clients : At(d, "wonSet") => Act(d) \in Actions
      BY <1>0, ClientHere DEF ClientOK, At
    <2>8. ExecuteOnce'
      BY <1>0, <2>3 DEF WinInv, ExecuteOnce
    <2>9. WinnerOK'
      BY <1>0, <2>2, <2>3, <2>4, <2>5, <2>6, <2>7 DEF WinInv, WinnerOK, At, Act
    <2> QED
      BY <2>8, <2>9
  <1> QED
    BY <1>1, <1>2, <1>3, <1>4 DEF Spend

\* The winner's answer is the first "permit: execute" of its action.
LEMMA SpendSetKeepsWin ==
    ASSUME WinInv, NEW c \in Clients, SpendSet(c)
    PROVE  WinnerOK' /\ ExecuteOnce'
  <1>0. GateInv /\ Preserved /\ rows' = rows /\ Done(c)
    BY SpendSetPreserved DEF WinInv, SpendSet, storeVars
  <1>1. CASE ~At(c, "wonSet")
    <2>1. UNCHANGED permits
      BY <1>1 DEF SpendSet
    <2> QED
      BY <1>0, <2>1, WentQuietly, QuietKeepsWin
  <1>2. CASE At(c, "wonSet")
    <2>1. PICK a \in Actions : Act(c) = a
      BY <1>0, <1>2, LookupHere DEF At, LookupPcs
    <2>2. rows[a].status = "consumed" /\ permits[a] = 0
      BY <1>2, <2>1 DEF WinInv, WinnerOK
    <2>3. permits' = [permits EXCEPT ![a] = @ + 1] /\ permits \in [Actions -> Nat]
      BY <1>0, <1>2, <2>1, InvParts DEF SpendSet, GateShape
    <2>4. permits'[a] = 1 /\ \A x \in Actions : x # a => permits'[x] = permits[x]
      BY <2>2, <2>3
    <2>5. clients'[c] = Answered /\ \A d \in Clients : d # c => clients'[d] = clients[d]
      BY <1>0, InvParts DEF Done, GateShape
    <2>6. \A d \in Clients : At(d, "wonSet") => Act(d) \in Actions /\ (Act(d) = a => d = c)
      BY <1>0, <1>2, <2>1, ClientHere DEF WinInv, WinnerOK, ClientOK, At
    <2>7. ExecuteOnce'
      BY <1>0, <2>2, <2>4 DEF WinInv, ExecuteOnce
    <2>8. WinnerOK'
      BY <1>0, <2>4, <2>5, <2>6, RestingFacts DEF WinInv, WinnerOK, At, Act
    <2> QED
      BY <2>7, <2>8
  <1> QED
    BY <1>1, <1>2

\* However many consumes race and processes restart, "permit: execute" is
\* answered at most once per action id, for a permit spent in the ledger.
THEOREM ExecutedOnce == Spec => []ExecuteOnce
  <1>1. Init => WinInv
    BY GateInvInit, RestingFacts DEF Init, WinInv, WinnerOK, ExecuteOnce, At
  <1>2. WinInv /\ [Next]_vars => WinInv'
    <2> SUFFICES ASSUME WinInv, [Next]_vars PROVE WinInv'
      OBVIOUS
    <2>1. GateInv'
      BY GateInvStep DEF WinInv
    <2>2. ASSUME Quiet, Next
          PROVE  WinnerOK' /\ ExecuteOnce'
      BY <2>2, NextPreserved, QuietKeepsWin DEF WinInv
    <2>3. CASE \E c \in Clients : ClientStep(c) \/ CallerStep(c)
      <3>1. PICK c \in Clients : ClientStep(c) \/ CallerStep(c)
        BY <2>3
      <3>2. Next
        BY <3>1 DEF Next
      <3>3. GateInv
        BY DEF WinInv
      <3> QED
        BY <2>1, <2>2, <3>1, <3>2, <3>3, SpendKeepsWin, SpendSetKeepsWin, ClientStepQuiet
        DEF WinInv
    <2>4. CASE Next /\ ~\E c \in Clients : ClientStep(c) \/ CallerStep(c)
      BY <2>1, <2>2, <2>4, OtherStepQuiet DEF WinInv
    <2>5. CASE UNCHANGED vars
      <3>1. UNCHANGED <<permits, clients, rows>>
        BY <2>5 DEF vars, gateVars, history, storeVars
      <3> QED
        BY <3>1, <2>1 DEF WinInv, WinnerOK, ExecuteOnce, At, Act
    <2> QED
      BY <2>1, <2>3, <2>4, <2>5 DEF WinInv
  <1>3. WinInv => ExecuteOnce
    BY DEF WinInv
  <1> QED
    BY <1>1, <1>2, <1>3, PTL DEF Spec

-----------------------------------------------------------------------------
(***************************************************************************)
(* Who decides an action and what everybody is told of it: for any          *)
(* requests, askers, failures and restarts, an undecided action has exactly *)
(* one decider, a final no is never followed by an execution, and tickets,  *)
(* prompts and receipts agree with the ledger.                              *)
(*                                                                         *)
(* The invariant is a conjunction of parts, each about one thing that is    *)
(* carried from one step to a later one: who may still decide; what a       *)
(* ticket, a request or an asker holds to be the state of its action; what  *)
(* a prompt has recorded; why a refused action is beyond execution.         *)
(***************************************************************************)

\* An asker that has not written its decision, and a request that holds a
\* status it read or wrote.
UndecidedPcs == {"begin", "arm", "prompt", "resolve", "verdict", "commit"}
SeenPcs == {"settle", "pollSet", "lostSet", "wonSet", "revokeSet"}

DecidedBy(a) == \E c \in Clients : Deciding(c, a)
MayDecide(a) == askers[a].pc \in UndecidedPcs \/ DecidedBy(a)

\* As long as somebody may decide an action it has no receipt, hence is
\* neither allowed nor spent.
DecidersHaveNotDecided == \A a \in Actions : MayDecide(a) => receipts[a] = <<>>

\* s, held to be the state of a, is its state or was overtaken.
Agrees(a, s) ==
    /\ s \in {"denied", "expired", "revoked", "consumed"} => rows[a].status = s
    /\ s = "allowed" =>
          rows[a].status \in {"allowed", "consumed", "expired", "revoked"} /\ receipts[a] # <<>>
    /\ s = "unavailable" => a \in broken

\* A permit that is spent, or about to be.
Spending(a) ==
    rows[a].status = "consumed" \/ \E c \in Clients : At(c, "spend") /\ Act(c) = a

TicketOK(a) ==
    /\ Agrees(a, tickets[a].state)
    /\ tickets[a].decided => rows[a].status \notin {"none", "pending"} \/ a \in broken
    /\ tickets[a].state \in {"revoked", "consumed", "expired"} => tickets[a].decided
    /\ Spending(a) => tickets[a].decided \/ tickets[a].state = "absent"

SeenOK(c) ==
    /\ clients[c].pc \in SeenPcs => Agrees(Act(c), clients[c].seen) /\ clients[c].seen # "none"
    /\ clients[c].pc = "settle" => clients[c].seen # "pending"
    /\ clients[c].pc \in SeenPcs \ {"settle"} => clients[c].seen # "unavailable"
    /\ clients[c].pc = "spend" => receipts[Act(c)] # <<>>
    /\ clients[c].pc \in {"holdSync", "holdWait"} => tickets[Act(c)].state # "absent"
    /\ clients[c].verdict # "approve"

AskerSeenOK(a) ==
    askers[a].pc = "settle" => Agrees(a, askers[a].seen) /\ askers[a].seen \notin {"none", "pending"}

\* The row of a prompt, from its opening to its end.
PromptOK(a) ==
    /\ askers[a].pc \in {"arm", "prompt", "resolve"} => gates[a] = "pending"
    /\ askers[a].pc \in {"verdict", "commit", "settle"} => gates[a] = "resolved"
    /\ gates[a] = "pending" => Asking(a) \/ a \in broken
    /\ receipts[a] # <<>> /\ receipts[a][1].decision = "approve" => gates[a] = "resolved"

\* Nobody will execute a: it is closed; or nobody is left to allow it; or its
\* window is over, and no consume carries a time from inside it.
Dead(a) ==
    /\ rows[a].status \notin {"none", "consumed"}
    /\ \/ rows[a].status \in {"denied", "expired", "revoked"}
       \/ rows[a].status = "pending" /\ ~MayDecide(a)
       \/ /\ now >= rows[a].bind.expires
          /\ \A c \in Clients : At(c, "spend") /\ Act(c) = a => clients[c].at >= rows[a].bind.expires

\* Whoever was told a decision against an action, or is about to be, was told it
\* of a dead one.
RefusalsOK ==
    /\ \A a \in Actions :
          a \in refused \/ tickets[a].state = "unavailable"
          \/ (askers[a].pc = "settle" /\ askers[a].seen = "unavailable") => Dead(a)
    /\ \A c \in Clients : At(c, "settle") /\ clients[c].seen = "unavailable" => Dead(Act(c))

DecisionInv ==
    /\ ExactlyOneDecider
    /\ DecidersHaveNotDecided
    /\ \A a \in Actions : TicketOK(a) /\ AskerSeenOK(a) /\ PromptOK(a)
    /\ \A c \in Clients : SeenOK(c)
    /\ RefusalsOK

-----------------------------------------------------------------------------
\* What every step of the gate may do, aspect by aspect.

\* Who may decide: a request begins to with the row it creates, an asker with
\* the request that opens its ticket and decides no more.
DecidersMove ==
    \A a \in Actions :
        /\ \A c \in Clients : Deciding(c, a)' =>
              Deciding(c, a) \/ (~Known(a) /\ \A d \in Clients : Deciding(d, a)' => d = c)
        /\ Asking(a)' => Asking(a) \/ \E c \in Clients : Deciding(c, a) /\ ~Deciding(c, a)'
        /\ askers'[a].pc \in UndecidedPcs =>
              askers[a].pc \in UndecidedPcs \/ \E c \in Clients : Deciding(c, a) /\ ~Deciding(c, a)'

\* What becomes of a permit: only who may decide it allows it, only a consume
\* with a time inside the window spends it, only an asker's commit approves it.
LedgerMoves ==
    /\ [StoreNext]_storeVars
    /\ broken \subseteq broken'
    /\ \A a \in Actions :
          /\ MayDecide(a)' => receipts'[a] = receipts[a]
          /\ rows'[a].status = "allowed" => rows[a].status = "allowed" \/ MayDecide(a)
          /\ rows'[a].status = "consumed" =>
                \/ rows[a].status = "consumed"
                \/ \E c \in Clients : At(c, "spend") /\ Act(c) = a /\ clients[c].at < rows[a].bind.expires
          /\ receipts[a] = <<>> /\ receipts'[a] # <<>> /\ receipts'[a][1].decision = "approve" =>
                askers[a].pc = "commit" /\ gates'[a] = gates[a]

\* A consume takes the time it will present when it has told the ticket.
SpendsBegin ==
    \A c \in Clients : At(c, "spend")' =>
        \/ clients'[c] = clients[c]
        \/ /\ clients'[c].at = now'
           /\ tickets'[clients'[c].act].decided \/ tickets'[clients'[c].act].state = "absent"

\* A ticket is forgotten, opened by who decides, or told something true.
TicketMoves(a) ==
    \/ tickets'[a].state = tickets[a].state /\ tickets'[a].decided = tickets[a].decided
    \/ tickets'[a] = NoTicket /\ \A c \in Clients : clients'[c].pc \in {"idle", "answered"}
    \/ tickets'[a] = NewTicket /\ DecidedBy(a) /\ ~Spending(a)'
    \/ \E s \in Statuses \cup {"unavailable"} :
          /\ s # "none" /\ Agrees(a, s)' /\ (s = "unavailable" => Dead(a)')
          /\ \/ tickets'[a] = Updated(tickets[a], s)
             \/ tickets'[a] = Updated(NewTicket, s) /\ s # "pending"

\* What a step does beyond that to the request or the asker it moves.
MindsMove ==
    /\ \A a \in Actions : TicketMoves(a)
    /\ \A c \in Clients : clients'[c] = clients[c] \/ SeenOK(c)'
    /\ \A a \in Actions : askers'[a] = askers[a] \/ AskerSeenOK(a)'

\* Prompts are recorded before they are shown, and closed in their row first.
PromptsMove ==
    \A a \in Actions :
        /\ \/ askers'[a] = askers[a] /\ gates'[a] = gates[a]
           \/ /\ askers'[a].pc \in {"arm", "prompt", "resolve"} => gates'[a] = "pending"
              /\ askers'[a].pc \in {"verdict", "commit", "settle"} => gates'[a] = "resolved"
              /\ gates'[a] = "pending" => Asking(a)' \/ a \in broken'
        /\ gates[a] = "resolved" => gates'[a] = "resolved" \/ askers[a].pc \in UndecidedPcs \ {"verdict", "commit"}

\* A decision against an action is told of a dead one.
RefusalsMove ==
    /\ \A a \in refused' : a \in refused \/ Dead(a)'
    /\ \A a \in Actions : askers'[a].pc = "settle" /\ askers'[a].seen = "unavailable" =>
          askers'[a] = askers[a] \/ Dead(a)'
    /\ \A c \in Clients : clients'[c].pc = "settle" /\ clients'[c].seen = "unavailable" =>
          clients'[c] = clients[c] \/ Dead(Act(c))'

Steps ==
    /\ DecidersMove /\ LedgerMoves /\ SpendsBegin
    /\ MindsMove /\ PromptsMove /\ RefusalsMove
    /\ NoOrphanedAction'

-----------------------------------------------------------------------------
\* A step of the ledger, in the terms of the invariant.
LEMMA StatusSteps ==
    ASSUME StoreInv, [StoreNext]_storeVars, NEW a \in Actions
    PROVE  /\ rows'[a].status = "pending" => rows[a].status \in {"none", "pending"}
           /\ rows[a].status = "allowed" => rows'[a].status \in {"allowed", "consumed", "expired", "revoked"}
           /\ rows[a].status = "pending" => rows'[a].status \in {"pending", "allowed", "denied", "expired", "revoked"}
           /\ Settled(a) => rows'[a] = rows[a]
           /\ receipts[a] # <<>> => receipts'[a] # <<>> /\ receipts'[a][1] = receipts[a][1]
           /\ Known(a) => Known(a)' /\ rows'[a].bind = rows[a].bind
           /\ now \in Nat /\ now' \in Nat /\ now <= now'
  <1>1. KeepsHistory(a)
    BY StepKeepsHistory
  <1>2. now \in Nat /\ now' \in Nat /\ now <= now'
    BY StoreGrows, HorizonAssumption DEF StoreInv, Time
  <1>3. receipts[a] # <<>> => receipts'[a] # <<>> /\ receipts'[a][1] = receipts[a][1]
    <2>1. receipts[a] \in Seq(Receipt) /\ receipts'[a] \in Seq(Receipt)
      BY StoreGrows DEF StoreInv
    <2>2. SUFFICES ASSUME receipts[a] # <<>>
                   PROVE  receipts'[a] # <<>> /\ receipts'[a][1] = receipts[a][1]
      OBVIOUS
    <2>3. Len(receipts[a]) \in Nat /\ Len(receipts[a]) >= 1
      BY <2>1, <2>2
    <2>4. Len(receipts'[a]) >= 1 /\ receipts'[a][1] = receipts[a][1]
      BY <1>1, <2>1, <2>3 DEF KeepsHistory
    <2> QED
      BY <2>4
  <1>4. /\ rows'[a].status = "pending" => rows[a].status \in {"none", "pending"}
        /\ rows[a].status = "allowed" => rows'[a].status \in {"allowed", "consumed", "expired", "revoked"}
        /\ rows[a].status = "pending" => rows'[a].status \in {"pending", "allowed", "denied", "expired", "revoked"}
    <2>0. rows \in [Actions -> Row] /\ rows[a] \in Row
      BY DEF StoreInv
    <2>1. CASE rows'[a] = rows[a]
      BY <2>1
    <2>2. ASSUME NEW x \in Actions, Statement(x)
          PROVE  rows'[a] = rows[a] \/ (x = a /\ Effect(a))
      <3>1. Effect(x)
        BY <2>2, StatementEffect
      <3>2. rows' = rows \/ \E r : rows' = [rows EXCEPT ![x] = r]
        BY <3>1
        DEF Effect, Reserves, Closes, Decides, JoinsOther, Spends, Reports, Rewrites, storeVars
      <3> QED
        <4>1. CASE x = a
          BY <3>1, <4>1
        <4>2. CASE x # a
          BY <2>0, <3>2, <4>2
        <4> QED
          BY <4>1, <4>2
    <2>3. CASE Effect(a)
      BY <2>0, <2>3, ZenonT(60)
      DEF Effect, Reserves, Closes, Decides, JoinsOther, Spends, Reports, Rewrites, storeVars,
          Reserved, Closed, Decided, SpentRow, Unspent, Row
    <2>4. ASSUME NEW at \in 0 .. now, ExpireToolActions(at)
          PROVE  rows'[a] = rows[a] \/ (Unspent(rows[a]) /\ rows'[a].status = "expired")
      <3>1. rows'[a] = rows[a] \/ (Unspent(rows[a]) /\ rows'[a] = Closed(rows[a], "expired"))
        <4>1. rows'[a] = IF \/ rows[a].status = "pending"
                            \/ rows[a].status = "allowed" /\ Lapsed(rows[a], at)
                         THEN Closed(rows[a], "expired") ELSE rows[a]
          BY <2>4 DEF ExpireToolActions
        <4> QED
          BY <4>1 DEF Unspent
      <3> QED
        BY <2>0, <3>1 DEF Closed, Row
    <2>5. Tick \/ UNCHANGED storeVars => rows'[a] = rows[a]
      BY DEF Tick, storeVars
    <2> QED
      BY <2>0, <2>1, <2>2, <2>3, <2>4, <2>5 DEF StoreNext, Unspent
  <1> QED
    BY <1>1, <1>2, <1>3, <1>4 DEF KeepsHistory, Known, Settled

\* A status that was read stays true, or is overtaken.
LEMMA AgreesStays ==
    ASSUME StoreInv, [StoreNext]_storeVars, broken \subseteq broken',
           NEW a \in Actions, NEW s, Agrees(a, s)
    PROVE  Agrees(a, s)'
  <1>1. /\ rows[a].status = "allowed" => rows'[a].status \in {"allowed", "consumed", "expired", "revoked"}
        /\ rows[a].status \in {"denied", "expired", "revoked", "consumed"} => rows'[a].status = rows[a].status
        /\ receipts[a] # <<>> => receipts'[a] # <<>>
    BY StatusSteps DEF Settled
  <1> QED
    BY <1>1 DEF Agrees

\* What is held to be the state of an action, and is no question, means that
\* it is decided or lost.
LEMMA AgreedIsDecided ==
    ASSUME NEW a \in Actions, NEW s \in Statuses \cup {"unavailable"}, Agrees(a, s),
           s \notin {"none", "pending"}
    PROVE  rows[a].status \notin {"none", "pending"} \/ a \in broken
  BY DEF Agrees, Statuses

\* An action without receipts is undecided, or closed before its decision.
LEMMA NoReceiptYet ==
    ASSUME StoreInv, NEW a \in Actions, receipts[a] = <<>>
    PROVE  rows[a].status \notin {"allowed", "consumed"}
  <1>1. receipts[a] \in AuditTrails(rows[a]) /\ rows[a].status \in Statuses
    BY DEF StoreInv, RowOK, Row
  <1>2. rows[a].status = "allowed" => receipts[a] # <<>>
    <2>1. rows[a].status = "allowed" => receipts[a] \in AllowTrails(rows[a].bind)
      BY <1>1 DEF AuditTrails
    <2> QED
      BY <2>1 DEF AllowTrails
  <1>3. rows[a].status = "consumed" => receipts[a] # <<>>
    <2>1. rows[a].status = "consumed" =>
            receipts[a] \in {<<e, ConsumptionReceipt(rows[a].bind)>> : e \in Approvals(rows[a].bind)}
      BY <1>1 DEF AuditTrails
    <2> QED
      BY <2>1
  <1> QED
    BY <1>2, <1>3

\* ... and an action nobody asked for has none.
LEMMA UnknownHasNoReceipt ==
    ASSUME StoreInv, NEW a \in Actions, ~Known(a)
    PROVE  receipts[a] = <<>>
  BY DEF StoreInv, RowOK, AuditTrails, Known

\* The parts that speak of who may decide.
DecidersOK == OneDecider /\ DecidersHaveNotDecided

\* Nobody decides what nobody asked for.
LEMMA UnknownIsIdle ==
    ASSUME GateInv, NEW a \in Actions, ~Known(a)
    PROVE  ~MayDecide(a) /\ ~Asking(a) /\ ~DecidedBy(a)
  <1>1. ASSUME NEW c \in Clients, Deciding(c, a)
        PROVE  FALSE
    BY <1>1, BoundHere DEF Deciding, BoundPcs
  <1>2. askers[a].pc \in AskerPcs /\ (askers[a].pc # "off" => Known(a))
    BY AskerHere DEF AskerOK
  <1>3. askers[a].pc = "off"
    BY <1>2
  <1> QED
    BY <1>1, <1>3 DEF MayDecide, DecidedBy, Asking, UndecidedPcs

\* Nobody comes to decide an action that is known and has no decider.
LEMMA NoNewDecider ==
    ASSUME DecidersMove, NEW a \in Actions, Known(a), ~MayDecide(a)
    PROVE  ~MayDecide(a)'
  BY DEF DecidersMove, MayDecide, DecidedBy, Deciding

\* Deciders: the first part of the invariant.
LEMMA DecidersKept ==
    ASSUME GateInv, DecidersOK, DecidersMove, LedgerMoves
    PROVE  DecidersOK'
  <1>1. ASSUME NEW a \in Actions
        PROVE  /\ \A c, d \in Clients : Deciding(c, a)' /\ Deciding(d, a)' => c = d
               /\ Asking(a)' => \A c \in Clients : ~Deciding(c, a)'
    <2>1. CASE Known(a)
      <3>1. \A c \in Clients : Deciding(c, a)' => Deciding(c, a)
        BY <2>1 DEF DecidersMove
      <3>2. \A c, d \in Clients : Deciding(c, a) /\ Deciding(d, a) => c = d
        BY DEF DecidersOK, OneDecider
      <3>3. Asking(a) => \A c \in Clients : ~Deciding(c, a)
        BY DEF DecidersOK, OneDecider
      <3>4. Asking(a)' => Asking(a) \/ \E c \in Clients : Deciding(c, a) /\ ~Deciding(c, a)'
        BY DEF DecidersMove
      <3> QED
        BY <3>1, <3>2, <3>3, <3>4
    <2>2. CASE ~Known(a)
      BY <2>2, UnknownIsIdle DEF DecidersMove, DecidedBy
    <2> QED
      BY <2>1, <2>2
  <1>2. ASSUME NEW a \in Actions, MayDecide(a)'
        PROVE  receipts'[a] = <<>>
    <2>1. receipts'[a] = receipts[a]
      BY <1>2 DEF LedgerMoves
    <2>2. CASE Known(a)
      <3>1. MayDecide(a)
        BY <1>2, <2>2, NoNewDecider
      <3> QED
        BY <2>1, <3>1 DEF DecidersOK, DecidersHaveNotDecided
    <2>3. CASE ~Known(a)
      BY <2>1, <2>3, UnknownHasNoReceipt DEF GateInv
    <2> QED
      BY <2>2, <2>3
  <1>3. OneDecider'
    BY <1>1 DEF OneDecider
  <1>4. DecidersHaveNotDecided'
    BY <1>2 DEF DecidersHaveNotDecided
  <1> QED
    BY <1>3, <1>4 DEF DecidersOK

\* Once dead, always dead.
LEMMA DeadStays ==
    ASSUME GateInv, DecidersMove, LedgerMoves, SpendsBegin, NEW a \in Actions, Dead(a)
    PROVE  Dead(a)'
  <1>1. StoreInv /\ [StoreNext]_storeVars /\ Known(a)
    BY InvParts DEF LedgerMoves, Dead, Known
  <1>2. /\ Settled(a) => rows'[a] = rows[a]
        /\ rows[a].status = "pending" => rows'[a].status \in {"pending", "allowed", "denied", "expired", "revoked"}
        /\ Known(a)' /\ rows'[a].bind = rows[a].bind
        /\ now \in Nat /\ now' \in Nat /\ now <= now'
    BY <1>1, StatusSteps
  <1>3. CASE rows[a].status \in {"denied", "expired", "revoked"}
    BY <1>2, <1>3 DEF Settled, Dead
  <1>4. CASE rows[a].status = "pending" /\ ~MayDecide(a)
    <2>1. ~MayDecide(a)'
      BY <1>1, <1>4, NoNewDecider
    <2>2. rows'[a].status # "allowed"
      BY <1>4 DEF LedgerMoves
    <2> QED
      BY <1>2, <1>4, <2>1, <2>2 DEF Dead
  <1>5. CASE /\ now >= rows[a].bind.expires
             /\ \A c \in Clients : At(c, "spend") /\ Act(c) = a => clients[c].at >= rows[a].bind.expires
    <2>0. rows[a].bind.expires \in Nat
      BY <1>1, InvParts, HorizonAssumption DEF TypeOK, Bindings, Time
    <2>1. rows'[a].status # "consumed"
      <3>1. ASSUME NEW c \in Clients, At(c, "spend"), Act(c) = a, clients[c].at < rows[a].bind.expires
            PROVE  FALSE
        <4>1. clients[c].at \in Nat
          BY ClientHere, Clock
        <4> QED
          BY <1>5, <2>0, <3>1, <4>1
      <3> QED
        BY <3>1 DEF LedgerMoves, Dead
    <2>2. now' >= rows'[a].bind.expires
      BY <1>2, <1>5, <2>0
    <2>3. ASSUME NEW c \in Clients, At(c, "spend")', Act(c)' = a
          PROVE  clients'[c].at >= rows'[a].bind.expires
      BY <1>2, <1>5, <2>2, <2>3 DEF SpendsBegin, At, Act
    <2> QED
      BY <1>2, <2>1, <2>2, <2>3 DEF Dead, Known
  <1> QED
    BY <1>3, <1>4, <1>5 DEF Dead

-----------------------------------------------------------------------------
\* The parts of the invariant, kept by any step of those.

\* What an answer makes of a ticket.
LEMMA UpdatedTicket ==
    ASSUME NEW t \in Ticket, NEW s \in Statuses \cup {"unavailable"}, s # "none",
           t.state \in {"revoked", "consumed", "expired"} => t.decided
    PROVE  /\ Updated(t, s).state \in {t.state, s}
           /\ Updated(t, s).state = s \/ Updated(t, s) = t
           /\ Updated(t, s).decided => t.decided \/ s # "pending"
           /\ t.decided => Updated(t, s).decided
           /\ t.state = "absent" => Updated(t, s) = t
           /\ t.state # "absent" /\ s # "pending" => Updated(t, s).decided
           /\ t.state # "absent" => Updated(t, s).state # "absent"
           /\ Updated(t, s).state \in {"revoked", "consumed", "expired"} => Updated(t, s).decided
  <1>1. CASE \/ t.state = "absent"
             \/ t.state \in {"revoked", "consumed", "expired"} /\ s \in {"allowed", "pending"}
    BY <1>1 DEF Updated
  <1>2. CASE ~(\/ t.state = "absent"
               \/ t.state \in {"revoked", "consumed", "expired"} /\ s \in {"allowed", "pending"})
    <2> DEFINE d == t.decided \/ s # "pending"
               k == t.cut \/ (s # "pending" /\ t.armed)
    <2>1. Updated(t, s) = [t EXCEPT !.state = s, !.decided = d, !.cut = k]
      BY <1>2 DEF Updated
    <2> HIDE DEF k
    <2>2. Updated(t, s).state = s /\ (Updated(t, s).decided <=> d)
      BY <2>1 DEF Ticket
    <2> QED
      BY <1>2, <2>2 DEF Statuses
  <1> QED
    BY <1>1, <1>2

\* ... and of the fresh one.
LEMMA NewTicketFits ==
    NewTicket \in Ticket /\ NewTicket.state = "" /\ ~NewTicket.decided
    /\ NoTicket \in Ticket /\ NoTicket.state = "absent" /\ ~NoTicket.decided
  BY DEF NewTicket, NoTicket, Ticket, TicketStates

\* What a ticket says.
LEMMA TicketKept ==
    ASSUME GateInv, DecisionInv, Steps, NEW a \in Actions
    PROVE  TicketOK(a)'
  <1>1. /\ StoreInv /\ [StoreNext]_storeVars /\ broken \subseteq broken'
        /\ tickets[a] \in Ticket /\ TicketOK(a) /\ TicketMoves(a)
    BY InvParts DEF DecisionInv, Steps, LedgerMoves, MindsMove, GateShape
  <1>2. \A s : Agrees(a, s) => Agrees(a, s)'
    BY <1>1, AgreesStays
  <1>3. rows[a].status \notin {"none", "pending"} \/ a \in broken =>
            rows'[a].status \notin {"none", "pending"} \/ a \in broken'
    BY <1>1, StatusSteps DEF Known
  <1>4. Spending(a)' => tickets[a].decided \/ tickets[a].state = "absent"
                       \/ tickets'[a].decided \/ tickets'[a].state = "absent"
    <2>1. ASSUME rows'[a].status = "consumed"
          PROVE  Spending(a)
      BY <2>1 DEF Steps, LedgerMoves, Spending
    <2>2. ASSUME NEW c \in Clients, At(c, "spend")', Act(c)' = a
          PROVE  Spending(a) \/ tickets'[a].decided \/ tickets'[a].state = "absent"
      BY <2>2 DEF Steps, SpendsBegin, At, Act, Spending
    <2> QED
      BY <1>1, <2>1, <2>2 DEF Spending, TicketOK
  <1>5. CASE tickets'[a].state = tickets[a].state /\ tickets'[a].decided = tickets[a].decided
    BY <1>1, <1>2, <1>3, <1>4, <1>5 DEF TicketOK, Agrees
  <1>6. CASE tickets'[a] = NoTicket
    BY <1>6, NewTicketFits DEF TicketOK, Agrees
  <1>7. CASE tickets'[a] = NewTicket /\ ~Spending(a)'
    BY <1>7, NewTicketFits DEF TicketOK, Agrees
  <1>8. ASSUME NEW s \in Statuses \cup {"unavailable"}, s # "none", Agrees(a, s)',
               \/ tickets'[a] = Updated(tickets[a], s)
               \/ tickets'[a] = Updated(NewTicket, s) /\ s # "pending"
        PROVE  TicketOK(a)'
    <2>1. s # "pending" => rows'[a].status \notin {"none", "pending"} \/ a \in broken'
      BY <1>8 DEF Agrees, Statuses
    <2>2. CASE tickets'[a] = Updated(tickets[a], s)
      <3> DEFINE u == Updated(tickets[a], s)
      <3>1. tickets'[a] = u /\ u.state \in {tickets[a].state, s}
            /\ (u.decided => tickets[a].decided \/ s # "pending")
            /\ (tickets[a].decided => u.decided)
            /\ (tickets[a].state = "absent" => u.state = "absent")
            /\ (u.state \in {"revoked", "consumed", "expired"} => u.decided)
        BY <1>1, <1>8, <2>2, UpdatedTicket DEF TicketOK
      <3> HIDE DEF u
      <3>2. Agrees(a, tickets[a].state)'
        BY <1>1, <1>2, <1>8, <3>1 DEF TicketOK, Agrees
      <3> QED
        BY <1>3, <1>1, <1>4, <2>1, <3>1, <3>2 DEF TicketOK
    <2>3. CASE tickets'[a] = Updated(NewTicket, s) /\ s # "pending"
      <3> DEFINE u == Updated(NewTicket, s)
      <3>1. tickets'[a] = u /\ u.state \in {"", s} /\ u.decided
        BY <1>8, <2>3, NewTicketFits, UpdatedTicket
      <3> HIDE DEF u
      <3>2. Agrees(a, tickets[a].state)'
        BY <1>8, <3>1 DEF Agrees
      <3> QED
        BY <2>1, <2>3, <3>1, <3>2 DEF TicketOK
    <2> QED
      BY <1>8, <2>2, <2>3
  <1> QED
    BY <1>1, <1>5, <1>6, <1>7, <1>8 DEF TicketMoves

\* What a request holds, when the step moves another.
LEMMA SeenKept ==
    ASSUME GateInv, DecisionInv, Steps, NEW c \in Clients
    PROVE  SeenOK(c)'
  <1>1. SUFFICES ASSUME clients'[c] = clients[c]
                 PROVE  SeenOK(c)'
    BY DEF Steps, MindsMove
  <1>2. /\ StoreInv /\ [StoreNext]_storeVars /\ broken \subseteq broken' /\ SeenOK(c)
        /\ clients[c].pc \in Pcs /\ (clients[c].pc \notin {"idle", "answered"} => Act(c) \in Actions)
    BY InvParts, ClientHere DEF DecisionInv, Steps, LedgerMoves, ClientOK
  <1>3. CASE clients[c].pc \in {"idle", "answered"}
    BY <1>1, <1>2, <1>3 DEF SeenOK, SeenPcs
  <1>4. CASE clients[c].pc \notin {"idle", "answered"}
    <2>1. PICK a \in Actions : a = Act(c)
      BY <1>2, <1>4
    <2>2. clients[c].pc \in SeenPcs => Agrees(a, clients[c].seen)'
      <3>1. ASSUME NEW s, s = clients[c].seen, clients[c].pc \in SeenPcs
            PROVE  Agrees(a, s)'
        BY <1>2, <2>1, <3>1, AgreesStays DEF SeenOK
      <3> QED
        BY <1>1, <3>1 DEF Agrees
    <2>3. receipts[a] # <<>> => receipts'[a] # <<>>
      BY <1>2, StatusSteps
    <2>4. clients[c].pc \in {"holdSync", "holdWait"} => tickets'[a].state # "absent"
      <3>1. SUFFICES ASSUME clients[c].pc \in {"holdSync", "holdWait"}
                     PROVE  tickets'[a].state # "absent"
        OBVIOUS
      <3>2. /\ tickets[a].state # "absent" /\ tickets[a] \in Ticket
            /\ TicketMoves(a) /\ TicketOK(a)
        BY <1>2, <2>1, <3>1, InvParts DEF SeenOK, GateShape, Steps, MindsMove, DecisionInv
      <3>3. ASSUME NEW s \in Statuses \cup {"unavailable"}, s # "none"
            PROVE  Updated(tickets[a], s).state # "absent" /\ Updated(NewTicket, s).state # "absent"
        <4>1. tickets[a].state \in {"revoked", "consumed", "expired"} => tickets[a].decided
          BY <3>2 DEF TicketOK
        <4>2. Updated(tickets[a], s).state # "absent"
          BY <3>2, <3>3, <4>1, UpdatedTicket
        <4>3. Updated(NewTicket, s).state # "absent"
          BY <3>3, UpdatedTicket, NewTicketFits, ZenonT(60)
        <4> QED
          BY <4>2, <4>3
      <3> QED
        BY <1>1, <3>1, <3>2, <3>3, NewTicketFits DEF TicketMoves
    <2> QED
      BY <1>1, <1>2, <2>1, <2>2, <2>3, <2>4 DEF SeenOK, Act
  <1> QED
    BY <1>3, <1>4

\* What an asker holds.
LEMMA AskerSeenKept ==
    ASSUME GateInv, DecisionInv, Steps, NEW a \in Actions
    PROVE  AskerSeenOK(a)'
  <1>1. /\ StoreInv /\ [StoreNext]_storeVars /\ broken \subseteq broken' /\ AskerSeenOK(a)
    BY InvParts DEF DecisionInv, Steps, LedgerMoves
  <1>2. CASE askers'[a] = askers[a]
    <2>1. ASSUME NEW s, s = askers[a].seen, askers[a].pc = "settle"
          PROVE  Agrees(a, s)'
      BY <1>1, <2>1, AgreesStays DEF AskerSeenOK
    <2> QED
      BY <1>1, <1>2, <2>1 DEF AskerSeenOK, Agrees
  <1> QED
    BY <1>2 DEF Steps, MindsMove

\* Prompts.
LEMMA PromptKept ==
    ASSUME GateInv, DecisionInv, Steps, NEW a \in Actions
    PROVE  PromptOK(a)'
  <1>1. /\ StoreInv /\ [StoreNext]_storeVars /\ broken \subseteq broken' /\ PromptOK(a)
        /\ (MayDecide(a) => receipts[a] = <<>>)
    BY InvParts DEF DecisionInv, Steps, LedgerMoves, DecidersHaveNotDecided
  <1>2. /\ askers'[a].pc \in {"arm", "prompt", "resolve"} => gates'[a] = "pending"
        /\ askers'[a].pc \in {"verdict", "commit", "settle"} => gates'[a] = "resolved"
        /\ gates'[a] = "pending" => Asking(a)' \/ a \in broken'
    BY <1>1 DEF PromptOK, Steps, PromptsMove, Asking
  <1>3. ASSUME receipts'[a] # <<>>, receipts'[a][1].decision = "approve"
        PROVE  gates'[a] = "resolved"
    <2>1. CASE receipts[a] = <<>>
      BY <1>1, <1>3, <2>1 DEF Steps, LedgerMoves, PromptOK
    <2>2. CASE receipts[a] # <<>>
      <3>1. receipts[a][1] = receipts'[a][1]
        BY <1>1, <2>2, StatusSteps
      <3>2. gates[a] = "resolved"
        BY <1>1, <1>3, <2>2, <3>1 DEF PromptOK
      <3>3. askers[a].pc \notin UndecidedPcs
        BY <1>1, <2>2 DEF MayDecide
      <3> QED
        BY <3>2, <3>3 DEF Steps, PromptsMove
    <2> QED
      BY <2>1, <2>2
  <1> QED
    BY <1>2, <1>3 DEF PromptOK

\* Refusals.
LEMMA RefusalsKept ==
    ASSUME GateInv, DecisionInv, Steps
    PROVE  RefusalsOK'
  <1>1. \A a \in Actions : Dead(a) => Dead(a)'
    BY DeadStays DEF Steps
  <1>3. ASSUME NEW a \in Actions, tickets'[a].state = "unavailable"
        PROVE  Dead(a)'
    <2>1. tickets[a].state = "unavailable" => Dead(a)'
      BY <1>1 DEF DecisionInv, RefusalsOK
    <2>2. tickets[a] \in Ticket /\ TicketMoves(a) /\ TicketOK(a)
      BY InvParts DEF GateShape, Steps, MindsMove, DecisionInv
    <2>3. ASSUME NEW s \in Statuses \cup {"unavailable"}, s # "none"
          PROVE  /\ Updated(tickets[a], s).state \in {tickets[a].state, s}
                 /\ Updated(NewTicket, s).state \in {"", s}
      BY <2>2, <2>3, UpdatedTicket, NewTicketFits DEF TicketOK
    <2> QED
      BY <1>3, <2>1, <2>2, <2>3, NewTicketFits DEF TicketMoves
  <1>4. ASSUME NEW a \in Actions, a \in refused'
        PROVE  Dead(a)'
    BY <1>1, <1>4 DEF Steps, RefusalsMove, DecisionInv, RefusalsOK
  <1>5. ASSUME NEW a \in Actions, askers'[a].pc = "settle", askers'[a].seen = "unavailable"
        PROVE  Dead(a)'
    BY <1>1, <1>5 DEF Steps, RefusalsMove, DecisionInv, RefusalsOK
  <1>6. ASSUME NEW c \in Clients, At(c, "settle")', clients'[c].seen = "unavailable"
        PROVE  Dead(Act(c))'
    <2>1. CASE clients'[c] = clients[c]
      <3>1. At(c, "settle") /\ clients[c].seen = "unavailable" /\ Act(c)' = Act(c)
        BY <1>6, <2>1 DEF At, Act
      <3>2. Act(c) \in Actions /\ Dead(Act(c))
        BY <3>1, ClientHere DEF ClientOK, At, DecisionInv, RefusalsOK
      <3>3. PICK a \in Actions : a = Act(c)
        BY <3>2
      <3>4. Dead(a)'
        BY <1>1, <3>2, <3>3
      <3> QED
        BY <3>1, <3>3, <3>4 DEF Dead
    <2> QED
      BY <1>6, <2>1 DEF Steps, RefusalsMove, At
  <1> QED
    BY <1>3, <1>4, <1>5, <1>6 DEF RefusalsOK

\* Together: any such step keeps the invariant.
LEMMA StepsKeep ==
    ASSUME GateInv, DecisionInv, Steps
    PROVE  DecisionInv'
  <1>1. DecidersOK'
    BY DecidersKept DEF DecisionInv, ExactlyOneDecider, DecidersOK, Steps
  <1>2. ExactlyOneDecider' /\ DecidersHaveNotDecided'
    BY <1>1 DEF DecidersOK, ExactlyOneDecider, Steps
  <1> QED
    BY <1>2, TicketKept, SeenKept, AskerSeenKept, PromptKept, RefusalsKept DEF DecisionInv

-----------------------------------------------------------------------------
\* How a request moves.

\* One request gets a new record.
LEMMA OneMoves ==
    ASSUME GateInv, NEW c \in Clients, NEW q, clients' = [clients EXCEPT ![c] = q]
    PROVE  clients'[c] = q /\ \A d \in Clients : d # c => clients'[d] = clients[d]
  BY InvParts DEF GateShape

\* Request c ends up at p, the rest of its record but what it learns the same.
GoesTo(c, p) ==
    /\ \A d \in Clients : d # c => clients'[d] = clients[d]
    /\ clients'[c].pc = p /\ clients'[c].act = clients[c].act

\* A request that goes on keeps its action and verdict.
LEMMA GoGoes ==
    ASSUME GateInv, NEW c \in Clients, NEW p, Go(c, p)
    PROVE  GoesTo(c, p) /\ clients'[c].verdict = clients[c].verdict
  <1> DEFINE q == [clients[c] EXCEPT !.pc = p]
  <1>1. clients' = [clients EXCEPT ![c] = q]
    BY InvParts DEF Go, GateShape
  <1>2. q.pc = p /\ q.act = clients[c].act /\ q.verdict = clients[c].verdict
    BY ClientHere DEF Client
  <1> HIDE DEF q
  <1> QED
    BY <1>1, <1>2, OneMoves DEF GoesTo

\* A request that finishes goes on to write its verdict, never "approve".
LEMMA FinishGoes ==
    ASSUME GateInv, NEW c \in Clients, NEW d \in {"policy_approve", "deny"}, Finish(c, d)
    PROVE  GoesTo(c, "commit") /\ clients'[c].verdict # "approve"
  <1> DEFINE v == AtDecision(clients[c].bind, d)
             q == [clients[c] EXCEPT !.pc = "commit", !.at = now, !.verdict = v]
  <1>1. clients' = [clients EXCEPT ![c] = q]
    BY InvParts DEF Finish, GateShape
  <1>2. q.pc = "commit" /\ q.act = clients[c].act /\ q.verdict = v
    BY ClientHere DEF Client
  <1>3. v # "approve"
    BY DEF AtDecision
  <1> HIDE DEF q, v
  <1> QED
    BY <1>1, <1>2, <1>3, OneMoves DEF GoesTo

\* A request that reads or writes its row learns a status.
LEMMA LearnGoes ==
    ASSUME GateInv, NEW c \in Clients, NEW p, NEW s,
           clients' = [clients EXCEPT ![c].pc = p, ![c].seen = s]
    PROVE  GoesTo(c, p) /\ clients'[c].seen = s /\ clients'[c].verdict = clients[c].verdict
  <1> DEFINE q == [clients[c] EXCEPT !.pc = p, !.seen = s]
  <1>1. clients' = [clients EXCEPT ![c] = q]
    BY InvParts DEF GateShape
  <1>2. q.pc = p /\ q.act = clients[c].act /\ q.seen = s /\ q.verdict = clients[c].verdict
    BY ClientHere DEF Client
  <1> HIDE DEF q
  <1> QED
    BY <1>1, <1>2, OneMoves DEF GoesTo

\* A request that is over, or not yet made, holds nothing.
LEMMA RestingHolds ==
    /\ Answered.pc = "answered" /\ Answered.verdict = "deny" /\ Answered.act = NoAction
    /\ Idle.pc = "idle" /\ Idle.verdict = "deny" /\ Idle.act = NoAction
  BY DEF Answered, Idle

\* A request that is answered.
LEMMA DoneGoes ==
    ASSUME GateInv, NEW c \in Clients, Done(c)
    PROVE  /\ \A d \in Clients : d # c => clients'[d] = clients[d]
           /\ clients'[c].pc = "answered" /\ clients'[c].verdict = "deny"
  BY OneMoves, RestingHolds DEF Done

-----------------------------------------------------------------------------
\* Steps of a request that is not deciding, and does not begin to.

\* What they leave: askers and prompts, who decides, and every row but one
\* that they close.
Bystands(c) ==
    /\ UNCHANGED <<askers, gates, receipts>>
    /\ [StoreNext]_storeVars /\ broken \subseteq broken'
    /\ \A a \in Actions : rows'[a].status = rows[a].status \/ rows'[a].status \in {"expired", "revoked"}
    /\ \A d \in Clients : d # c => clients'[d] = clients[d]
    /\ \A a \in Actions : Deciding(c, a)' <=> Deciding(c, a)

\* Such a step leaves the deciders, the ledger and the prompts in order.
LEMMA BystanderSteps ==
    ASSUME GateInv, DecisionInv, NEW c \in Clients, Bystands(c)
    PROVE  DecidersMove /\ LedgerMoves /\ PromptsMove /\ NoOrphanedAction'
  <1>1. \A a \in Actions, d \in Clients : Deciding(d, a)' <=> Deciding(d, a)
    BY DEF Bystands, Deciding, Act
  <1>2. DecidersMove
    BY <1>1 DEF Bystands, DecidersMove, Asking
  <1>3. LedgerMoves
    BY DEF Bystands, LedgerMoves
  <1>4. PromptsMove
    BY DEF Bystands, PromptsMove
  <1>5. NoOrphanedAction'
    <2>1. ASSUME NEW a \in Actions, rows'[a].status = "pending", a \notin broken'
          PROVE  Asking(a)' \/ \E d \in Clients : Deciding(d, a)'
      <3>1. rows[a].status = "pending" /\ a \notin broken
        BY <2>1 DEF Bystands
      <3>2. Asking(a) \/ \E d \in Clients : Deciding(d, a)
        BY <3>1 DEF DecisionInv, ExactlyOneDecider, NoOrphanedAction
      <3> QED
        BY <1>1, <3>2 DEF Bystands, Asking
    <2> QED
      BY <2>1 DEF NoOrphanedAction
  <1> QED
    BY <1>2, <1>3, <1>4, <1>5

\* A step without the ledger: the request moves, and no more.
LEMMA LedgerLeft ==
    ASSUME GateInv, NEW c \in Clients, UNCHANGED <<storeVars, askers, gates>>, broken \subseteq broken',
           \A d \in Clients : d # c => clients'[d] = clients[d],
           \A a \in Actions : Deciding(c, a)' <=> Deciding(c, a)
    PROVE  Bystands(c)
  BY DEF Bystands, storeVars

\* The request told nobody anything, and learned nothing.
LEMMA PlainMove ==
    ASSUME GateInv, DecisionInv, NEW c \in Clients, UNCHANGED <<tickets, refused, askers>>,
           \A d \in Clients : d # c => clients'[d] = clients[d],
           clients'[c].pc \notin SeenPcs \cup {"spend", "holdSync", "holdWait"},
           clients'[c].verdict # "approve"
    PROVE  SpendsBegin /\ MindsMove /\ RefusalsMove
  <1>1. SeenOK(c)'
    BY DEF SeenOK, SeenPcs
  <1>2. SpendsBegin
    BY DEF SpendsBegin, At
  <1>3. MindsMove
    BY <1>1 DEF MindsMove, TicketMoves
  <1>4. RefusalsMove
    BY DEF RefusalsMove, SeenPcs
  <1> QED
    BY <1>2, <1>3, <1>4

\* What a request holds.
LEMMA HoldsHere ==
    ASSUME GateInv, DecisionInv, NEW c \in Clients
    PROVE  /\ SeenOK(c) /\ clients[c].verdict # "approve"
           /\ StoreInv
           /\ clients[c].pc \notin {"idle", "answered"} => Act(c) \in Actions
           /\ clients[c].pc \in BoundPcs \cup LookupPcs => Known(Act(c))
  BY InvParts, ClientHere DEF DecisionInv, SeenOK, ClientOK

\* The rules and the repeat check send the deciding request on.
LEMMA RulesSteps ==
    ASSUME GateInv, DecisionInv, NEW c \in Clients, Rules(c) \/ Check(c)
    PROVE  Steps
  <1>1. /\ UNCHANGED <<storeVars, askers, gates, broken, tickets, refused>>
        /\ clients[c].pc \in DecidingPcs
    BY DEF Rules, Check, history, At, DecidingPcs
  <1>2. PICK p \in {"commit", "check", "open", "join"} : GoesTo(c, p) /\ clients'[c].verdict # "approve"
    <2>1. \/ Finish(c, "deny") \/ Finish(c, "policy_approve")
          \/ Go(c, "check") \/ Go(c, "open") \/ Go(c, "join")
      BY DEF Rules, Check
    <2> QED
      BY <2>1, FinishGoes, GoGoes, HoldsHere
  <1>3. \A a \in Actions : Deciding(c, a)' <=> Deciding(c, a)
    BY <1>1, <1>2 DEF GoesTo, Deciding, DecidingPcs, Act
  <1>4. Bystands(c)
    BY <1>1, <1>2, <1>3, LedgerLeft DEF GoesTo
  <1>5. SpendsBegin /\ MindsMove /\ RefusalsMove
    BY <1>1, <1>2, PlainMove DEF GoesTo, SeenPcs
  <1> QED
    BY <1>4, <1>5, BystanderSteps DEF Steps

\* A new request begins.
LEMMA BeginSteps ==
    ASSUME GateInv, DecisionInv, NEW c \in Clients, Call(c) \/ Ask(c)
    PROVE  Steps
  <1>1. /\ UNCHANGED <<storeVars, askers, gates, broken, tickets, refused>>
        /\ clients[c].pc = "idle"
    BY DEF Call, Ask, history, At
  <1>2. PICK q : clients' = [clients EXCEPT ![c] = q] /\ q.pc \in {"reserve", "poll"} /\ q.verdict = "deny"
    <2>1. CASE Call(c)
      <3>1. PICK a \in Actions, k \in Args, named \in BOOLEAN, e \in Time :
              clients' = [clients EXCEPT ![c] =
                [Idle EXCEPT !.pc = "reserve", !.op = "call", !.act = a, !.named = named,
                             !.bind = [args |-> k, policy |-> policy, expires |-> e]]]
        BY <2>1 DEF Call
      <3> DEFINE b == [args |-> k, policy |-> policy, expires |-> e]
                 q == [Idle EXCEPT !.pc = "reserve", !.op = "call", !.act = a, !.named = named, !.bind = b]
      <3>2. q.pc = "reserve" /\ q.verdict = "deny"
        BY DEF Idle
      <3> HIDE DEF q
      <3> QED
        BY <3>1, <3>2 DEF q
    <2>2. CASE Ask(c)
      <3>1. PICK a \in Actions, op \in {"status", "consume"}, k \in Args :
              clients' = [clients EXCEPT ![c] =
                [Idle EXCEPT !.pc = "poll", !.op = op, !.act = a,
                             !.bind = [rows[a].bind EXCEPT !.args = k]]]
        BY <2>2 DEF Ask
      <3> DEFINE q == [Idle EXCEPT !.pc = "poll", !.op = op, !.act = a,
                             !.bind = [rows[a].bind EXCEPT !.args = k]]
      <3>2. q.pc = "poll" /\ q.verdict = "deny"
        BY DEF Idle
      <3> HIDE DEF q
      <3> QED
        BY <3>1, <3>2 DEF q
    <2> QED
      BY <2>1, <2>2
  <1>3. /\ clients'[c] = q /\ \A d \in Clients : d # c => clients'[d] = clients[d]
    BY <1>2, OneMoves
  <1>4. \A a \in Actions : Deciding(c, a)' <=> Deciding(c, a)
    BY <1>1, <1>2, <1>3 DEF Deciding, DecidingPcs
  <1>5. Bystands(c)
    BY <1>1, <1>3, <1>4, LedgerLeft
  <1>6. SpendsBegin /\ MindsMove /\ RefusalsMove
    BY <1>1, <1>2, <1>3, PlainMove DEF SeenPcs
  <1> QED
    BY <1>5, <1>6, BystanderSteps DEF Steps


\* A request's step is a step of the ledger.
LEMMA RequestSteps ==
    ASSUME GateInv, NEW c \in Clients, ClientStep(c) \/ CallerStep(c)
    PROVE  [StoreNext]_storeVars /\ StoreInv'
  <1>1. Next
    BY DEF Next
  <1>2. [StoreNext]_storeVars
    BY <1>1, NextPreserved DEF Preserved
  <1> QED
    BY <1>2, InvParts, StoreGrows

\* The state of a known action, read in the step, is true.
LEMMA ReadAgrees ==
    ASSUME StoreInv, [StoreNext]_storeVars, NEW a \in Actions, Known(a)
    PROVE  /\ Agrees(a, rows[a].status)'
           /\ rows'[a].status \in Statuses \ {"none"}
  <1>1. StoreInv'
    BY StoreInvStep
  <1>2. rows'[a].status \in Statuses \ {"none"}
    <2>1. rows'[a] \in Row
      BY <1>1 DEF StoreInv
    <2> QED
      BY <2>1, StatusSteps DEF Row, Known
  <1>3. rows'[a].status = "allowed" => receipts'[a] # <<>>
    <2>1. receipts'[a] \in AuditTrails(rows'[a])
      BY <1>1 DEF StoreInv, RowOK
    <2>2. rows'[a].status = "allowed" => receipts'[a] \in AllowTrails(rows'[a].bind)
      BY <2>1 DEF AuditTrails
    <2> QED
      BY <2>2, SMTT(30) DEF AllowTrails
  <1> QED
    BY <1>2, <1>3 DEF Agrees, Statuses

\* A decision against an action that agrees with it is about a dead one.
LEMMA DeniedIsDead ==
    ASSUME NEW a \in Actions, NEW s, Agrees(a, s), Denying(s), s = "unavailable" => Dead(a)
    PROVE  Dead(a)
  BY DEF Agrees, Denying, Dead

\* Telling ticket and caller of a what is true of it.
LEMMA ToldMove ==
    ASSUME GateInv, NEW a \in Actions, NEW s \in Statuses \cup {"unavailable"}, s # "none",
           Agrees(a, s), Agrees(a, s)', s = "unavailable" => Dead(a), Dead(a) => Dead(a)',
           NEW t, tickets' = [tickets EXCEPT ![a] = t],
           t = Updated(tickets[a], s) \/ (t = Updated(NewTicket, s) /\ s # "pending"),
           Tell(a, s)
    PROVE  /\ \A x \in Actions : TicketMoves(x)
           /\ \A x \in refused' : x \in refused \/ Dead(x)'
  <1>1. tickets \in [Actions -> Ticket]
    BY InvParts DEF GateShape
  <1>2. tickets'[a] = t /\ \A x \in Actions : x # a => tickets'[x] = tickets[x]
    BY <1>1
  <1>3. TicketMoves(a)
    BY <1>2 DEF TicketMoves
  <1>4. \A x \in Actions : TicketMoves(x)
    BY <1>2, <1>3 DEF TicketMoves
  <1>5. \A x \in refused' : x \in refused \/ Dead(x)'
    BY DeniedIsDead DEF Tell
  <1> QED
    BY <1>4, <1>5

\* A request that goes where it holds nothing.
LEMMA RestsHolding ==
    ASSUME NEW c \in Clients, clients'[c].pc \notin SeenPcs \cup {"spend", "holdSync", "holdWait"},
           clients'[c].verdict # "approve"
    PROVE  SeenOK(c)'
  BY DEF SeenOK, SeenPcs

\* ... leaves the times of consumes alone.
LEMMA RestsSpending ==
    ASSUME NEW c \in Clients, clients'[c].pc # "spend",
           \A d \in Clients : d # c => clients'[d] = clients[d]
    PROVE  SpendsBegin
  BY DEF SpendsBegin, At

\* A report of an execution, and a hold that elapses.
LEMMA ReportSteps ==
    ASSUME GateInv, DecisionInv, NEW c \in Clients, Complete(c) \/ HoldElapsed(c)
    PROVE  Steps
  <1>1. /\ UNCHANGED <<rows, receipts, askers, gates, broken, tickets, refused>>
        /\ clients[c].pc \in {"idle", "holdWait"}
    BY DEF Complete, HoldElapsed, history, At, storeVars, CompleteToolAction
  <1>2. [StoreNext]_storeVars
    BY RequestSteps DEF CallerStep
  <1>3. /\ \A d \in Clients : d # c => clients'[d] = clients[d]
        /\ clients'[c].pc \in {"poll", "answered"} /\ clients'[c].verdict = "deny"
    <2>1. CASE HoldElapsed(c)
      BY <2>1, DoneGoes DEF HoldElapsed
    <2>2. CASE Done(c)
      BY <2>2, DoneGoes
    <2>3. CASE Complete(c) /\ ~Done(c)
      <3>1. PICK a \in Actions :
              clients' = [clients EXCEPT ![c] =
                [Idle EXCEPT !.pc = "poll", !.op = "status", !.act = a]]
        BY <2>3 DEF Complete
      <3> DEFINE q == [Idle EXCEPT !.pc = "poll", !.op = "status", !.act = a]
      <3>2. q.pc = "poll" /\ q.verdict = "deny"
        BY DEF Idle
      <3>3. clients' = [clients EXCEPT ![c] = q]
        BY <3>1
      <3> HIDE DEF q
      <3> QED
        BY <3>2, <3>3, OneMoves
    <2> QED
      BY <2>1, <2>2, <2>3
  <1>4. \A a \in Actions : Deciding(c, a)' <=> Deciding(c, a)
    BY <1>1, <1>3 DEF Deciding, DecidingPcs
  <1>5. Bystands(c)
    BY <1>1, <1>2, <1>3, <1>4 DEF Bystands
  <1>6. SpendsBegin /\ MindsMove /\ RefusalsMove
    BY <1>1, <1>3, PlainMove DEF SeenPcs
  <1> QED
    BY <1>5, <1>6, BystanderSteps DEF Steps

\* A request that held on its ticket is answered, or goes away.
LEMMA HoldSteps ==
    ASSUME GateInv, DecisionInv, NEW c \in Clients, HoldAnswered(c) \/ HoldClosed(c)
    PROVE  Steps
  <1>1. /\ UNCHANGED <<storeVars, askers, gates, broken>> /\ Done(c)
        /\ clients[c].pc \in {"holdSync", "holdWait"}
    BY DEF HoldAnswered, HoldClosed, At
  <1>2. PICK a \in Actions : Act(c) = a /\ Known(a) /\ clients[c].bind = rows[a].bind
    BY <1>1, BoundHere DEF BoundPcs
  <1>3. /\ \A d \in Clients : d # c => clients'[d] = clients[d]
        /\ clients'[c].pc = "answered" /\ clients'[c].verdict = "deny"
    BY <1>1, DoneGoes
  <1>4. \A x \in Actions : Deciding(c, x)' <=> Deciding(c, x)
    BY <1>1, <1>3 DEF Deciding, DecidingPcs
  <1>5. DecidersMove /\ LedgerMoves /\ PromptsMove /\ NoOrphanedAction'
    BY <1>1, <1>3, <1>4, LedgerLeft, BystanderSteps
  <1>6. SpendsBegin /\ SeenOK(c)'
    BY <1>3, RestsHolding, RestsSpending DEF SeenPcs
  <1>7. tickets \in [Actions -> Ticket] /\ tickets[a] \in Ticket /\ TicketOK(a)
    BY InvParts DEF GateShape, DecisionInv
  <1>8. \A x \in Actions : TicketMoves(x)
    <2>1. CASE HoldAnswered(c)
      BY <2>1 DEF HoldAnswered, TicketMoves
    <2>2. CASE HoldClosed(c)
      <3>1. tickets' = [tickets EXCEPT ![a].cut = TRUE]
        BY <1>2, <2>2 DEF HoldClosed
      <3> QED
        BY <1>7, <3>1 DEF TicketMoves, Ticket
    <2> QED
      BY <2>1, <2>2
  <1>9. \A x \in refused' : x \in refused \/ Dead(x)
    <2>1. CASE HoldAnswered(c)
      <3>1. Agrees(a, tickets[a].state) /\ (tickets[a].state = "unavailable" => Dead(a))
        BY <1>7 DEF TicketOK, DecisionInv, RefusalsOK
      <3>2. Denying(tickets[a].state) => Dead(a)
        BY <3>1, DeniedIsDead
      <3> QED
        BY <1>2, <2>1, <3>2 DEF HoldAnswered, Tell
    <2>2. CASE HoldClosed(c)
      <3>1. tickets[a].state # "absent" /\ ~tickets[a].decided
        BY <1>1, <1>2, <2>2, HoldsHere DEF SeenOK, HoldClosed
      <3>2. ~Spending(a)
        BY <1>7, <3>1 DEF TicketOK
      <3>3. now >= rows[a].bind.expires => Dead(a)
        BY <1>2, <3>2 DEF Dead, Spending, Known
      <3> QED
        BY <1>2, <2>2, <3>3 DEF HoldClosed, Tell
    <2> QED
      BY <2>1, <2>2
  <1>10. \A x \in refused' : x \in Actions
    BY <1>2, InvParts DEF GateShape, HoldAnswered, HoldClosed, Tell
  <1>11. RefusalsMove
    BY <1>1, <1>3, <1>5, <1>6, <1>9, <1>10, DeadStays DEF RefusalsMove
  <1>12. MindsMove
    BY <1>1, <1>3, <1>6, <1>8 DEF MindsMove
  <1> QED
    BY <1>5, <1>6, <1>11, <1>12 DEF Steps

\* The request learned the state of its action, and told nobody.
LEMMA LearnMove ==
    ASSUME GateInv, DecisionInv, NEW c \in Clients, NEW a \in Actions, Known(a),
           [StoreNext]_storeVars, UNCHANGED <<tickets, refused, askers>>,
           \A d \in Clients : d # c => clients'[d] = clients[d],
           clients'[c].pc \in {"pollSet", "lostSet", "wonSet", "revokeSet"}, clients'[c].act = a,
           clients'[c].seen = rows'[a].status, clients'[c].verdict # "approve"
    PROVE  SpendsBegin /\ MindsMove /\ RefusalsMove
  <1>1. Agrees(a, rows[a].status)' /\ rows'[a].status \in Statuses \ {"none"}
    BY InvParts, ReadAgrees
  <1>2. Agrees(Act(c), clients[c].seen)' /\ clients'[c].seen \notin {"none", "unavailable"}
    BY <1>1 DEF Agrees, Act, Statuses
  <1>3. SeenOK(c)'
    BY <1>2 DEF SeenOK
  <1>4. SpendsBegin
    BY RestsSpending
  <1>5. MindsMove
    BY <1>3 DEF MindsMove, TicketMoves
  <1>6. RefusalsMove
    BY DEF RefusalsMove
  <1> QED
    BY <1>4, <1>5, <1>6

\* A poll reads its row, and a revoke closes it.
LEMMA ReadSteps ==
    ASSUME GateInv, DecisionInv, NEW c \in Clients, PollRead(c) \/ Revoke(c)
    PROVE  Steps
  <1>1. /\ UNCHANGED <<receipts, askers, gates, broken, tickets>>
        /\ clients[c].pc \in {"idle", "poll"} /\ [StoreNext]_storeVars
    BY RequestSteps DEF PollRead, Revoke, history, At, NormalizeToolAction, CancelToolAction,
       ClientStep, CallerStep, storeVars
  <1>2. PICK a \in Actions :
           /\ Known(a)
           /\ rows' = rows \/ \E s \in {"expired", "revoked"} : rows' = [rows EXCEPT ![a] = Closed(rows[a], s)]
           /\ \/ Done(c)
              \/ /\ clients'[c].pc \in {"pollSet", "revokeSet"} /\ clients'[c].act = a
                 /\ clients'[c].seen = rows'[a].status /\ clients'[c].verdict # "approve"
                 /\ \A d \in Clients : d # c => clients'[d] = clients[d]
           /\ \/ UNCHANGED refused
              \/ Tell(a, "unavailable") /\ tickets[a].state = "unavailable" /\ Done(c)
    <2>1. CASE PollRead(c)
      <3>1. PICK a \in Actions : Act(c) = a /\ Known(a)
        BY <2>1, LookupHere DEF PollRead, At, LookupPcs
      <3>2. rows' = rows \/ rows' = [rows EXCEPT ![a] = Closed(rows[a], "expired")]
        BY <2>1, <3>1 DEF PollRead, NormalizeToolAction, Write, storeVars
      <3>3. Done(c) \/ clients' = [clients EXCEPT ![c].pc = "pollSet", ![c].seen = rows'[a].status]
        BY <2>1, <3>1 DEF PollRead
      <3>5. \/ UNCHANGED refused
            \/ Tell(a, "unavailable") /\ tickets[a].state = "unavailable" /\ Done(c)
        BY <2>1, <3>1 DEF PollRead
      <3> DEFINE s == rows'[a].status
      <3>4. ASSUME clients' = [clients EXCEPT ![c].pc = "pollSet", ![c].seen = s]
            PROVE  /\ clients'[c].pc = "pollSet" /\ clients'[c].act = a
                   /\ clients'[c].seen = s /\ clients'[c].verdict # "approve"
                   /\ \A d \in Clients : d # c => clients'[d] = clients[d]
        <4> HIDE DEF s
        <4>1. /\ GoesTo(c, "pollSet") /\ clients'[c].seen = s
              /\ clients'[c].verdict = clients[c].verdict
          BY <3>4, LearnGoes
        <4> QED
          BY <3>1, <4>1, HoldsHere DEF GoesTo, Act
      <3> QED
        BY <3>1, <3>2, <3>3, <3>4, <3>5
    <2>2. CASE Revoke(c) /\ Done(c)
      BY <2>2 DEF Revoke, CancelToolAction, Write, history, storeVars
    <2>3. CASE Revoke(c) /\ ~Done(c)
      <3>1. PICK a \in Actions, k \in Args :
              /\ Known(a)
              /\ CancelToolAction(a, [rows[a].bind EXCEPT !.args = k])
              /\ clients' = [clients EXCEPT ![c] =
                    [Idle EXCEPT !.pc = "revokeSet", !.act = a, !.seen = rows'[a].status]]
        BY <2>3 DEF Revoke
      <3> DEFINE q == [Idle EXCEPT !.pc = "revokeSet", !.act = a, !.seen = rows'[a].status]
      <3>2. q.pc = "revokeSet" /\ q.act = a /\ q.seen = rows'[a].status /\ q.verdict = "deny"
        BY DEF Idle
      <3>3. clients' = [clients EXCEPT ![c] = q]
        BY <3>1
      <3> HIDE DEF q
      <3>4. clients'[c] = q /\ \A d \in Clients : d # c => clients'[d] = clients[d]
        BY <3>3, OneMoves
      <3>5. rows' = rows \/ rows' = [rows EXCEPT ![a] = Closed(rows[a], "revoked")]
        BY <3>1 DEF CancelToolAction, Write
      <3>6. UNCHANGED refused
        BY <2>3 DEF Revoke, history
      <3> QED
        BY <3>1, <3>2, <3>4, <3>5, <3>6
    <2> QED
      BY <2>1, <2>2, <2>3
  <1>3. \A x \in Actions : rows'[x].status = rows[x].status \/ rows'[x].status \in {"expired", "revoked"}
    <2>1. rows \in [Actions -> Row]
      BY InvParts DEF TypeOK
    <2>2. \A s : Closed(rows[a], s).status = s
      BY <2>1 DEF Closed, Row
    <2> QED
      BY <1>2, <2>1, <2>2
  <1>4. /\ \A d \in Clients : d # c => clients'[d] = clients[d]
        /\ clients'[c].pc \in {"answered", "pollSet", "revokeSet"} /\ clients'[c].verdict # "approve"
    BY <1>2, DoneGoes
  <1>5. \A x \in Actions : Deciding(c, x)' <=> Deciding(c, x)
    BY <1>1, <1>4 DEF Deciding, DecidingPcs
  <1>6. Bystands(c)
    BY <1>1, <1>3, <1>4, <1>5 DEF Bystands
  <1>7. DecidersMove /\ LedgerMoves /\ PromptsMove /\ NoOrphanedAction'
    BY <1>6, BystanderSteps
  <1>8. SpendsBegin /\ MindsMove /\ RefusalsMove
    <2>1. CASE Done(c) /\ UNCHANGED refused
      BY <1>1, <1>4, <2>1, DoneGoes, PlainMove DEF SeenPcs
    <2>2. CASE ~Done(c) /\ UNCHANGED refused
      BY <1>1, <1>2, <1>4, <2>2, LearnMove
    <2>3. CASE Done(c) /\ tickets[a].state = "unavailable" /\ Tell(a, "unavailable")
      <3>1. clients'[c].pc = "answered"
        BY <2>3, DoneGoes
      <3>2. SpendsBegin /\ SeenOK(c)'
        BY <1>4, <3>1, RestsSpending, RestsHolding DEF SeenPcs
      <3>3. Dead(a)'
        BY <1>7, <2>3, <3>2, DeadStays DEF DecisionInv, RefusalsOK
      <3>4. MindsMove
        BY <1>1, <1>4, <3>2 DEF MindsMove, TicketMoves
      <3>5. \A x \in refused' : x \in refused \/ Dead(x)'
        BY <2>3, <3>3 DEF Tell
      <3>6. RefusalsMove
        BY <1>1, <1>4, <3>1, <3>5 DEF RefusalsMove
      <3> QED
        BY <3>2, <3>4, <3>6
    <2> QED
      BY <1>2, <2>1, <2>2, <2>3
  <1> QED
    BY <1>7, <1>8 DEF Steps

\* What was read or written is told to the ticket and the caller.
LEMMA TellSteps ==
    ASSUME GateInv, DecisionInv, NEW c \in Clients,
           Settle(c) \/ PollSet(c) \/ SpendSet(c) \/ RevokeSet(c)
    PROVE  Steps
  <1>1. UNCHANGED <<storeVars, askers, gates, broken>> /\ clients[c].pc \in SeenPcs
    BY DEF Settle, PollSet, SpendSet, RevokeSet, At, SeenPcs
  <1>2. PICK a \in Actions, s \in Statuses \cup {"unavailable"} : a = Act(c) /\ s = clients[c].seen
    BY <1>1, HoldsHere, ClientHere DEF Client, SeenPcs
  <1>3. /\ Agrees(a, s) /\ s # "none"
        /\ (clients[c].pc = "settle" => s # "pending")
        /\ (s = "unavailable" => clients[c].pc = "settle")
    BY <1>1, <1>2, HoldsHere DEF SeenOK
  <1>4. tickets \in [Actions -> Ticket] /\ tickets[a] \in Ticket /\ TicketOK(a)
    BY InvParts DEF GateShape, DecisionInv
  <1>5. PICK t :
           /\ tickets' = [tickets EXCEPT ![a] = t]
           /\ t = Updated(tickets[a], s) \/ (t = Updated(NewTicket, s) /\ s # "pending")
           /\ ~At(c, "settle") => t = Updated(tickets[a], s)
    <2>1. CASE Settle(c)
      <3>1. PICK u : /\ tickets' = [tickets EXCEPT ![a] = Updated(u, s)]
                     /\ u = NewTicket \/ u = tickets[a]
        BY <1>2, <2>1 DEF Settle
      <3>2. At(c, "settle") /\ s # "pending"
        BY <1>3, <2>1 DEF Settle, At
      <3> QED
        BY <3>1, <3>2
    <2>2. CASE PollSet(c) \/ SpendSet(c) \/ RevokeSet(c)
      <3>1. UpdateTicket(a, s)
        BY <1>2, <2>2 DEF PollSet, SpendSet, RevokeSet
      <3>2. tickets' = [tickets EXCEPT ![a] = Updated(tickets[a], s)]
        BY <3>1, <1>4 DEF UpdateTicket
      <3> QED
        BY <3>2
    <2> QED
      BY <2>1, <2>2
  <1>6. Tell(a, s)
    BY <1>2 DEF Settle, PollSet, SpendSet, RevokeSet
  <1>7. \/ Done(c)
        \/ s = "allowed" /\ At(c, "pollSet") /\ clients' = [clients EXCEPT ![c].pc = "spend", ![c].at = now]
    BY <1>2 DEF Settle, PollSet, SpendSet, RevokeSet
  <1>8. /\ \A d \in Clients : d # c => clients'[d] = clients[d]
        /\ clients'[c].pc \in {"answered", "spend"} /\ clients'[c].verdict # "approve"
        /\ clients'[c].pc = "spend" =>
              s = "allowed" /\ At(c, "pollSet") /\ clients'[c].act = a /\ clients'[c].at = now
    <2>1. CASE Done(c)
      BY <2>1, DoneGoes
    <2>2. CASE s = "allowed" /\ At(c, "pollSet") /\ clients' = [clients EXCEPT ![c].pc = "spend", ![c].at = now]
      <3> DEFINE q == [clients[c] EXCEPT !.pc = "spend", !.at = now]
      <3>1. clients' = [clients EXCEPT ![c] = q]
        BY <2>2, InvParts DEF GateShape
      <3>2. q.pc = "spend" /\ q.act = clients[c].act /\ q.at = now /\ q.verdict = clients[c].verdict
        BY ClientHere DEF Client
      <3> HIDE DEF q
      <3> QED
        BY <1>2, <2>2, <3>1, <3>2, OneMoves, HoldsHere DEF Act
    <2> QED
      BY <1>7, <2>1, <2>2
  <1>9. \A x \in Actions : Deciding(c, x)' <=> Deciding(c, x)
    BY <1>1, <1>8 DEF Deciding, DecidingPcs, SeenPcs
  <1>10. DecidersMove /\ LedgerMoves /\ PromptsMove /\ NoOrphanedAction'
    BY <1>1, <1>8, <1>9, LedgerLeft, BystanderSteps
  <1>11. tickets'[a] = t /\ (clients'[c].pc = "spend" => t.decided \/ t.state = "absent")
    <2>1. tickets'[a] = t
      BY <1>4, <1>5
    <2>2. ASSUME clients'[c].pc = "spend"
          PROVE  t.decided \/ t.state = "absent"
      <3>1. t = Updated(tickets[a], s) /\ s = "allowed"
        BY <1>5, <1>8, <2>2 DEF At
      <3>2. tickets[a].state \in {"revoked", "consumed", "expired"} => tickets[a].decided
        BY <1>4 DEF TicketOK
      <3> QED
        BY <1>3, <1>4, <3>1, <3>2, UpdatedTicket
    <2> QED
      BY <2>1, <2>2
  <1>12. SpendsBegin
    <2>1. now' = now
      BY <1>1 DEF storeVars
    <2> QED
      BY <1>8, <1>11, <2>1 DEF SpendsBegin, At
  <1>13. SeenOK(c)'
    <2>1. clients'[c].pc = "spend" => Act(c)' = a /\ receipts'[a] # <<>>
      BY <1>1, <1>3, <1>8 DEF Agrees, Act, storeVars
    <2> QED
      BY <1>8, <2>1 DEF SeenOK, SeenPcs
  <1>14. /\ \A x \in Actions : TicketMoves(x)
         /\ \A x \in refused' : x \in refused \/ Dead(x)'
    <2>1. Agrees(a, s)'
      BY <1>1, <1>3 DEF Agrees, storeVars
    <2>2. s = "unavailable" => Dead(a)
      BY <1>2, <1>3 DEF DecisionInv, RefusalsOK, At
    <2>3. Dead(a) => Dead(a)'
      BY <1>10, <1>12, DeadStays
    <2> QED
      BY <1>3, <1>5, <1>6, <2>1, <2>2, <2>3, ToldMove
  <1>15. MindsMove /\ RefusalsMove
    BY <1>1, <1>8, <1>13, <1>14 DEF MindsMove, RefusalsMove
  <1> QED
    BY <1>10, <1>12, <1>15 DEF Steps

-----------------------------------------------------------------------------
\* Steps of the request that decides.

\* A reservation makes its request the decider of a new action, and of no other.
LEMMA ReserveSteps ==
    ASSUME GateInv, DecisionInv, NEW c \in Clients, Reserve(c)
    PROVE  Steps
  <1>1. /\ UNCHANGED <<receipts, askers, gates, tickets, refused>>
        /\ clients[c].pc = "reserve" /\ [StoreNext]_storeVars
        /\ broken \subseteq broken'
    BY RequestSteps DEF Reserve, At, ReserveToolAction, ClientStep, storeVars, Fail
  <1>2. PICK a \in Actions : a = Act(c)
    BY <1>1, HoldsHere
  <1>3. /\ \A d \in Clients : d # c => clients'[d] = clients[d]
        /\ clients'[c].pc \in {"rules", "poll", "answered"} /\ clients'[c].verdict # "approve"
        /\ clients'[c].pc = "rules" => ~Known(a) /\ clients'[c].act = a
        /\ rows' = rows \/ a \in broken' \/ clients'[c].pc = "rules"
    <2>1. CASE ~Known(a) /\ Go(c, "rules")
      BY <1>2, <2>1, GoGoes, HoldsHere DEF GoesTo, Act
    <2>2. CASE Known(a) /\ Go(c, "poll") /\ rows' = rows
      BY <1>2, <2>2, GoGoes, HoldsHere DEF GoesTo
    <2>3. CASE Done(c) /\ (rows' = rows \/ a \in broken')
      BY <2>3, DoneGoes
    <2> QED
      BY <1>2, <2>1, <2>2, <2>3 DEF Reserve, ReserveToolAction, Fail, storeVars
  <1>4. \/ rows' = rows
        \/ ~Known(a) /\ rows'[a].status = "pending" /\ \A x \in Actions : x # a => rows'[x] = rows[x]
    <2>1. rows \in [Actions -> Row]
      BY InvParts DEF TypeOK
    <2>2. CASE UNCHANGED storeVars
      BY <2>2 DEF storeVars
    <2>3. ASSUME NEW b, ReserveToolAction(a, b)
          PROVE  \/ rows' = rows
                 \/ /\ ~Known(a) /\ rows'[a].status = "pending"
                    /\ \A x \in Actions : x # a => rows'[x] = rows[x]
      <3>1. ~Known(a) => rows' = [rows EXCEPT ![a] = Reserved(b)]
        BY <2>3 DEF ReserveToolAction, Write, Reserved
      <3>2. Reserved(b).status = "pending"
        BY DEF Reserved
      <3>3. Known(a) => rows' = rows
        BY <2>3 DEF ReserveToolAction
      <3> QED
        BY <2>1, <3>1, <3>2, <3>3
    <2> QED
      BY <1>2, <2>2, <2>3 DEF Reserve
  <1>5. \A x \in Actions, d \in Clients : d # c => (Deciding(d, x)' <=> Deciding(d, x))
    BY <1>3 DEF Deciding, Act
  <1>6. \A x \in Actions : ~Deciding(c, x) /\ (Deciding(c, x)' => x = a /\ ~Known(a))
    BY <1>1, <1>3 DEF Deciding, DecidingPcs, Act
  <1>7. DecidersMove
    <2>1. ~Known(a) => \A d \in Clients : ~Deciding(d, a)
      BY UnknownIsIdle DEF DecidedBy
    <2>2. ASSUME NEW x \in Actions
          PROVE  \A d \in Clients : Deciding(d, x)' =>
                    Deciding(d, x) \/ (~Known(x) /\ \A e \in Clients : Deciding(e, x)' => e = d)
      BY <1>5, <1>6, <2>1
    <2>3. \A x \in Actions : askers'[x] = askers[x]
      BY <1>1
    <2> QED
      BY <2>2, <2>3 DEF DecidersMove, Asking
  <1>8. LedgerMoves
    BY <1>1, <1>4 DEF LedgerMoves
  <1>9. NoOrphanedAction'
    <2>1. ASSUME NEW x \in Actions, rows'[x].status = "pending", x \notin broken'
          PROVE  Asking(x)' \/ \E d \in Clients : Deciding(d, x)'
      <3>1. CASE x = a /\ clients'[c].pc = "rules"
        <4>1. Deciding(c, a)'
          BY <1>3, <3>1 DEF Deciding, DecidingPcs, Act
        <4> QED
          BY <3>1, <4>1
      <3>2. CASE ~(x = a /\ clients'[c].pc = "rules")
        <4>1. rows[x].status = "pending" /\ x \notin broken
          BY <1>1, <1>3, <1>4, <2>1, <3>2
        <4>2. Asking(x) \/ \E d \in Clients : Deciding(d, x)
          BY <4>1 DEF DecisionInv, ExactlyOneDecider, NoOrphanedAction
        <4> QED
          BY <1>1, <1>5, <1>6, <4>2 DEF Asking
      <3> QED
        BY <3>1, <3>2
    <2> QED
      BY <2>1 DEF NoOrphanedAction
  <1>10. SpendsBegin /\ MindsMove /\ RefusalsMove
    BY <1>1, <1>3, PlainMove DEF SeenPcs
  <1>11. PromptsMove
    BY <1>1 DEF PromptsMove
  <1> QED
    BY <1>7, <1>8, <1>9, <1>10, <1>11 DEF Steps

\* Request c leaves action a undecided behind, or decided; nobody else moves.
LEMMA DeciderLeaves ==
    ASSUME GateInv, DecisionInv, NEW c \in Clients, NEW a \in Actions, Deciding(c, a),
           \A d \in Clients : d # c => clients'[d] = clients[d],
           clients'[c].pc \notin DecidingPcs, UNCHANGED askers
    PROVE  /\ ~MayDecide(a)' /\ MayDecide(a) /\ DecidersMove
           /\ \A x \in Actions, d \in Clients : x # a => (Deciding(d, x)' <=> Deciding(d, x))
           /\ receipts[a] = <<>>
  <1>1. /\ \A d \in Clients : Deciding(d, a) => d = c
        /\ ~Asking(a)
        /\ receipts[a] = <<>> /\ MayDecide(a)
    BY DEF DecisionInv, ExactlyOneDecider, OneDecider, DecidersHaveNotDecided, MayDecide, DecidedBy
  <1>2. \A x \in Actions, d \in Clients : Deciding(d, x)' => d # c /\ Deciding(d, x)
    BY DEF Deciding, Act
  <1>3. \A x \in Actions, d \in Clients : x # a /\ Deciding(d, x) => Deciding(d, x)'
    BY DEF Deciding, Act
  <1>4. askers'[a].pc \notin UndecidedPcs
    BY <1>1 DEF Asking, UndecidedPcs
  <1>5. ~MayDecide(a)'
    BY <1>1, <1>2, <1>4 DEF MayDecide, DecidedBy
  <1>6. DecidersMove
    BY <1>2 DEF DecidersMove, Asking
  <1> QED
    BY <1>1, <1>2, <1>3, <1>5, <1>6

\* Only action a is written, and it is not left waiting.
LEMMA OthersNotOrphaned ==
    ASSUME GateInv, DecisionInv, NEW a \in Actions, broken \subseteq broken',
           \A x \in Actions : x # a => rows'[x] = rows[x] /\ askers'[x] = askers[x],
           \A x \in Actions, d \in Clients : x # a => (Deciding(d, x)' <=> Deciding(d, x)),
           rows'[a].status # "pending" \/ a \in broken' \/ Asking(a)'
    PROVE  NoOrphanedAction'
  <1>1. ASSUME NEW x \in Actions, rows'[x].status = "pending", x \notin broken', x # a
        PROVE  Asking(x)' \/ \E d \in Clients : Deciding(d, x)'
    <2>1. Asking(x) \/ \E d \in Clients : Deciding(d, x)
      BY <1>1 DEF DecisionInv, ExactlyOneDecider, NoOrphanedAction
    <2> QED
      BY <1>1, <2>1 DEF Asking
  <1> QED
    BY <1>1 DEF NoOrphanedAction

\* Who gives up deciding an action leaves it dead, unless it wrote its decision.
LEMMA LeftIsDead ==
    ASSUME GateInv, NEW a \in Actions, Known(a), receipts[a] = <<>>, UNCHANGED storeVars,
           ~MayDecide(a)'
    PROVE  Dead(a)'
  <1>1. rows[a].status \in Statuses \ {"none", "allowed", "consumed"}
    BY InvParts, NoReceiptYet DEF TypeOK, Row, Known
  <1>2. rows' = rows
    BY DEF storeVars
  <1> QED
    BY <1>1, <1>2 DEF Dead, Statuses

\* A call that joins another gives its own action up, denied or lost.
LEMMA JoinSteps ==
    ASSUME GateInv, DecisionInv, NEW c \in Clients, Join(c)
    PROVE  Steps
  <1>1. /\ UNCHANGED <<receipts, askers, gates, tickets, refused>> /\ Done(c)
        /\ clients[c].pc = "join" /\ [StoreNext]_storeVars
    BY RequestSteps DEF Join, At, DecideToolAction, storeVars, ClientStep
  <1>2. PICK a \in Actions : a = Act(c)
    BY <1>1, HoldsHere
  <1>3. /\ \A d \in Clients : d # c => clients'[d] = clients[d]
        /\ clients'[c].pc = "answered" /\ clients'[c].verdict = "deny"
    BY <1>1, DoneGoes
  <1>4. Deciding(c, a)
    BY <1>1, <1>2 DEF Deciding, DecidingPcs
  <1>5. /\ ~MayDecide(a)' /\ DecidersMove
        /\ \A x \in Actions, d \in Clients : x # a => (Deciding(d, x)' <=> Deciding(d, x))
    BY <1>1, <1>3, <1>4, DeciderLeaves DEF DecidingPcs
  <1>6. /\ broken \subseteq broken' /\ \A x \in Actions : x # a => rows'[x] = rows[x]
        /\ rows'[a].status # "pending" \/ a \in broken'
        /\ rows'[a].status \in {rows[a].status, "denied"}
    <2>1. rows \in [Actions -> Row]
      BY InvParts DEF TypeOK
    <2>2. CASE DecideToolAction(a) /\ UNCHANGED broken
      <3>1. Decided(rows[a], "deny").status = "denied"
        BY <2>1 DEF Decided, Row
      <3>2. IF rows[a].status = "pending" THEN rows' = [rows EXCEPT ![a] = Decided(rows[a], "deny")]
            ELSE rows' = rows
        BY <2>2 DEF DecideToolAction, Write
      <3> QED
        BY <2>1, <2>2, <3>1, <3>2
    <2>3. CASE Fail(a) /\ UNCHANGED storeVars
      BY <2>3 DEF Fail, storeVars
    <2> QED
      BY <1>2, <2>2, <2>3 DEF Join
  <1>7. LedgerMoves
    <2>1. \A x \in Actions : rows'[x].status \in {rows[x].status, "denied"}
      BY <1>6
    <2> QED
      BY <1>1, <1>6, <2>1 DEF LedgerMoves
  <1>8. NoOrphanedAction'
    BY <1>1, <1>5, <1>6, OthersNotOrphaned
  <1>9. SpendsBegin /\ MindsMove /\ RefusalsMove
    BY <1>1, <1>3, PlainMove DEF SeenPcs
  <1>10. PromptsMove
    BY <1>1 DEF PromptsMove
  <1> QED
    BY <1>5, <1>7, <1>8, <1>9, <1>10 DEF Steps

\* The asker takes over from the request that opens the ticket.
LEMMA OpenSteps ==
    ASSUME GateInv, DecisionInv, NEW c \in Clients, Open(c)
    PROVE  Steps
  <1>1. /\ UNCHANGED <<storeVars, gates, broken, refused>> /\ clients[c].pc = "open"
    BY DEF Open, At, history
  <1>2. PICK a \in Actions : a = Act(c)
    BY <1>1, HoldsHere
  <1>3. /\ \A d \in Clients : d # c => clients'[d] = clients[d]
        /\ clients'[c].pc \in {"holdSync", "holdWait", "answered"} /\ clients'[c].verdict # "approve"
        /\ clients'[c].pc # "answered" => clients'[c].act = a
    BY <1>2, GoGoes, DoneGoes, HoldsHere DEF Open, GoesTo, Act
  <1>4. /\ tickets'[a] = NewTicket /\ \A x \in Actions : x # a => tickets'[x] = tickets[x]
        /\ askers'[a].pc = "begin" /\ \A x \in Actions : x # a => askers'[x] = askers[x]
    <2>1. tickets \in [Actions -> Ticket] /\ askers \in [Actions -> Asker]
      BY InvParts DEF GateShape
    <2>2. tickets' = [tickets EXCEPT ![a] = NewTicket]
      BY <1>2 DEF Open
    <2>3. askers' = [askers EXCEPT ![a] = [Off EXCEPT !.pc = "begin"]]
      BY <1>2 DEF Open
    <2>4. [Off EXCEPT !.pc = "begin"].pc = "begin"
      BY DEF Off
    <2> HIDE DEF Off
    <2> DEFINE q == [Off EXCEPT !.pc = "begin"]
    <2> HIDE DEF q
    <2>5. askers' = [askers EXCEPT ![a] = q] /\ q.pc = "begin"
      BY <2>3, <2>4 DEF q
    <2> QED
      BY <2>1, <2>2, <2>5
  <1>5. Deciding(c, a) /\ receipts[a] = <<>>
    <2>1. Deciding(c, a)
      BY <1>1, <1>2 DEF Deciding, DecidingPcs
    <2> QED
      BY <2>1 DEF DecisionInv, DecidersHaveNotDecided, MayDecide, DecidedBy
  <1>6. /\ \A x \in Actions, d \in Clients : Deciding(d, x)' => Deciding(d, x)
        /\ \A x \in Actions, d \in Clients : x # a => (Deciding(d, x)' <=> Deciding(d, x))
        /\ ~Deciding(c, a)'
    <2>1. \A x \in Actions : ~Deciding(c, x)' /\ (Deciding(c, x) => x = a)
      BY <1>2, <1>3 DEF Deciding, DecidingPcs
    <2>2. \A x \in Actions, d \in Clients : d # c => (Deciding(d, x)' <=> Deciding(d, x))
      BY <1>3 DEF Deciding, Act
    <2> QED
      BY <2>1, <2>2
  <1>7. DecidersMove
    BY <1>4, <1>5, <1>6 DEF DecidersMove, Asking
  <1>8. LedgerMoves
    BY <1>1 DEF LedgerMoves, storeVars
  <1>9. NoOrphanedAction'
    <2>1. rows' = rows /\ Asking(a)'
      BY <1>1, <1>4 DEF storeVars, Asking
    <2> QED
      BY <1>1, <1>4, <1>6, <2>1, OthersNotOrphaned
  <1>10. PromptsMove
    BY <1>1, <1>4 DEF PromptsMove, Asking
  <1>11. SpendsBegin
    BY <1>3, RestsSpending
  <1>12. MindsMove
    <2>1. ~Spending(a)'
      <3>1. rows'[a].status # "consumed"
        BY <1>1, <1>5, NoReceiptYet, InvParts DEF storeVars
      <3>2. ASSUME NEW d \in Clients, At(d, "spend")', Act(d)' = a
            PROVE  FALSE
        <4>1. d # c
          BY <1>3, <3>2 DEF At
        <4>2. At(d, "spend") /\ Act(d) = a
          BY <1>3, <3>2, <4>1 DEF At, Act
        <4> QED
          BY <1>5, <4>2, HoldsHere DEF SeenOK, At
      <3> QED
        BY <3>1, <3>2 DEF Spending
    <2>2. \A x \in Actions : TicketMoves(x)
      BY <1>4, <1>5, <2>1 DEF TicketMoves, DecidedBy
    <2>3. SeenOK(c)'
      <3>1. clients'[c].pc # "answered" => tickets'[Act(c)'].state # "absent"
        BY <1>3, <1>4, NewTicketFits DEF Act
      <3> QED
        BY <1>3, <3>1 DEF SeenOK, SeenPcs
    <2>4. AskerSeenOK(a)'
      BY <1>4 DEF AskerSeenOK
    <2> QED
      BY <1>3, <1>4, <2>2, <2>3, <2>4 DEF MindsMove
  <1>13. RefusalsMove
    BY <1>1, <1>3, <1>4 DEF RefusalsMove
  <1> QED
    BY <1>7, <1>8, <1>9, <1>10, <1>11, <1>12, <1>13 DEF Steps

\* A decider writes its verdict v, or fails to, and learns s.
Writes(a, v, s) ==
    \/ \E b, at : DecideToolActionWithReceipt(a, b, v, at) /\ s = rows'[a].status /\ UNCHANGED broken
    \/ Fail(a) /\ UNCHANGED storeVars /\ s = "unavailable"

\* Either way the action is left without a decider, closed or lost.
LEMMA DecisionWritten ==
    ASSUME GateInv, DecisionInv, [StoreNext]_storeVars, NEW a \in Actions, Known(a),
           MayDecide(a), ~MayDecide(a)', NEW v, v = "approve" => askers[a].pc = "commit",
           UNCHANGED gates, NEW s, Writes(a, v, s)
    PROVE  /\ LedgerMoves
           /\ \A x \in Actions : x # a => rows'[x] = rows[x]
           /\ rows'[a].status # "pending" \/ a \in broken'
           /\ s \in (Statuses \cup {"unavailable"}) \ {"none", "pending"}
           /\ Agrees(a, s)' /\ (s = "unavailable" => Dead(a)')
  <1>1. rows \in [Actions -> Row] /\ receipts \in [Actions -> Seq(Receipt)] /\ receipts[a] = <<>>
    BY InvParts DEF TypeOK, DecisionInv, DecidersHaveNotDecided
  <1>2. ASSUME NEW b, NEW at, DecideToolActionWithReceipt(a, b, v, at)
        PROVE  /\ \A x \in Actions : x # a => rows'[x] = rows[x] /\ receipts'[x] = receipts[x]
               /\ rows'[a].status # "pending"
               /\ rows'[a].status = "consumed" => rows[a].status = "consumed"
               /\ receipts'[a] # <<>> => receipts'[a][1].decision = v
    <2> DEFINE e == DecisionReceipt(v, b)
    <2>1. e.decision = v
      BY DEF DecisionReceipt
    <2> HIDE DEF e
    <2>2. \/ rows[a].status # "pending" /\ rows' = rows /\ receipts' = receipts
          \/ rows' = [rows EXCEPT ![a] = Closed(rows[a], "expired")] /\ receipts' = receipts
          \/ /\ rows' = [rows EXCEPT ![a] = Decided(rows[a], v)]
             /\ receipts' = [receipts EXCEPT ![a] = Append(receipts[a], e)]
      BY <1>2 DEF DecideToolActionWithReceipt, Write, Append1, e
    <2>3. Append(receipts[a], e)[1] = e
      BY <1>1
    <2>4. /\ Closed(rows[a], "expired").status = "expired"
          /\ Decided(rows[a], v).status \in {"allowed", "denied"}
      BY <1>1 DEF Closed, Decided, Row
    <2>5. /\ \A x \in Actions : x # a => rows'[x] = rows[x] /\ receipts'[x] = receipts[x]
          /\ receipts'[a] = <<>> \/ receipts'[a] = Append(receipts[a], e)
      BY <1>1, <2>2
    <2>6. /\ rows'[a].status # "pending"
          /\ rows'[a].status = "consumed" => rows[a].status = "consumed"
      BY <1>1, <2>2, <2>4
    <2> QED
      BY <2>1, <2>3, <2>5, <2>6
  <1>3. /\ \A x \in Actions : x # a => rows'[x] = rows[x] /\ receipts'[x] = receipts[x]
        /\ rows'[a].status # "pending" \/ a \in broken'
        /\ rows'[a].status = "consumed" => rows[a].status = "consumed"
        /\ receipts'[a] # <<>> => receipts'[a][1].decision = v
        /\ broken \subseteq broken'
    BY <1>1, <1>2 DEF Writes, Fail, storeVars
  <1>4. LedgerMoves
    <2>1. \A x \in Actions : MayDecide(x)' => receipts'[x] = receipts[x]
      BY <1>3
    <2>2. \A x \in Actions : rows'[x].status = "allowed" => rows[x].status = "allowed" \/ MayDecide(x)
      BY <1>3
    <2>3. \A x \in Actions : rows'[x].status = "consumed" => rows[x].status = "consumed"
      BY <1>3
    <2>4. ASSUME NEW x \in Actions, receipts[x] = <<>>, receipts'[x] # <<>>,
                 receipts'[x][1].decision = "approve"
          PROVE  askers[x].pc = "commit" /\ gates'[x] = gates[x]
      BY <1>3, <2>4
    <2> QED
      BY <1>3, <2>1, <2>2, <2>3, <2>4 DEF LedgerMoves
  <1>5. CASE \E b, at : DecideToolActionWithReceipt(a, b, v, at) /\ s = rows'[a].status
    <2>1. Agrees(a, rows[a].status)' /\ rows'[a].status \in Statuses \ {"none"}
      BY InvParts, ReadAgrees
    <2>2. s = rows'[a].status /\ s # "pending" /\ s # "unavailable"
      BY <1>2, <1>5, <2>1 DEF Statuses
    <2> QED
      BY <1>3, <1>4, <2>1, <2>2 DEF Agrees
  <1>6. CASE Fail(a) /\ UNCHANGED storeVars /\ s = "unavailable"
    <2>1. Agrees(a, s)'
      BY <1>6 DEF Agrees, Fail
    <2>2. Dead(a)'
      BY <1>1, <1>6, LeftIsDead
    <2> QED
      BY <1>3, <1>4, <1>6, <2>1, <2>2
  <1> QED
    BY <1>5, <1>6 DEF Writes

\* A request writes the decision of the rules.
LEMMA CommitSteps ==
    ASSUME GateInv, DecisionInv, NEW c \in Clients, Commit(c)
    PROVE  Steps
  <1>1. /\ UNCHANGED <<askers, gates, tickets, refused>>
        /\ clients[c].pc = "commit" /\ [StoreNext]_storeVars
    BY RequestSteps DEF Commit, At, ClientStep
  <1>2. PICK a \in Actions : a = Act(c) /\ Known(a)
    BY <1>1, BoundHere DEF BoundPcs, DecidingPcs
  <1>3. PICK s : /\ Writes(a, clients[c].verdict, s)
                 /\ clients' = [clients EXCEPT ![c].pc = "settle", ![c].seen = s]
    <2>1. CASE /\ DecideToolActionWithReceipt(a, clients[c].bind, clients[c].verdict, clients[c].at)
               /\ clients' = [clients EXCEPT ![c].pc = "settle", ![c].seen = rows'[a].status]
               /\ UNCHANGED broken
      BY <2>1 DEF Writes
    <2>2. CASE /\ Fail(a)
               /\ clients' = [clients EXCEPT ![c].pc = "settle", ![c].seen = "unavailable"]
               /\ UNCHANGED storeVars
      BY <2>2 DEF Writes
    <2> QED
      BY <1>2, <2>1, <2>2 DEF Commit
  <1>4. GoesTo(c, "settle") /\ clients'[c].seen = s /\ clients'[c].verdict = clients[c].verdict
    BY <1>3, LearnGoes
  <1>5. Deciding(c, a) /\ clients[c].verdict # "approve" /\ clients'[c].act = a
    BY <1>1, <1>2, <1>4, HoldsHere DEF Deciding, DecidingPcs, GoesTo, Act
  <1>6. /\ ~MayDecide(a)' /\ MayDecide(a) /\ DecidersMove
        /\ \A x \in Actions, d \in Clients : x # a => (Deciding(d, x)' <=> Deciding(d, x))
    BY <1>1, <1>4, <1>5, DeciderLeaves DEF DecidingPcs, GoesTo
  <1>7. /\ LedgerMoves
        /\ \A x \in Actions : x # a => rows'[x] = rows[x]
        /\ rows'[a].status # "pending" \/ a \in broken'
        /\ s \in (Statuses \cup {"unavailable"}) \ {"none", "pending"}
        /\ Agrees(a, s)' /\ (s = "unavailable" => Dead(a)')
    BY <1>1, <1>2, <1>3, <1>5, <1>6, DecisionWritten
  <1>8. NoOrphanedAction'
    BY <1>1, <1>6, <1>7, OthersNotOrphaned DEF LedgerMoves
  <1>9. SpendsBegin
    BY <1>4, RestsSpending DEF GoesTo
  <1>10. SeenOK(c)'
    <2>1. Agrees(Act(c), clients[c].seen)' /\ clients'[c].seen \notin {"none", "pending"}
      BY <1>4, <1>5, <1>7 DEF Agrees, Act
    <2> QED
      BY <1>4, <1>5, <2>1 DEF SeenOK, GoesTo
  <1>11. MindsMove
    BY <1>1, <1>4, <1>10 DEF MindsMove, TicketMoves, GoesTo
  <1>12. RefusalsMove
    <2>1. clients'[c].seen = "unavailable" => Dead(Act(c))'
      BY <1>4, <1>5, <1>7 DEF Dead, Act
    <2> QED
      BY <1>1, <1>4, <2>1 DEF RefusalsMove, GoesTo
  <1>13. PromptsMove
    BY <1>1 DEF PromptsMove
  <1> QED
    BY <1>6, <1>7, <1>8, <1>9, <1>11, <1>12, <1>13 DEF Steps

-----------------------------------------------------------------------------
\* The consume.

\* A consume spends a permit nobody can decide any more, inside its window.
LEMMA SpendSteps ==
    ASSUME GateInv, DecisionInv, NEW c \in Clients, Spend(c)
    PROVE  Steps
  <1>1. /\ UNCHANGED <<askers, gates, broken, tickets, refused>>
        /\ clients[c].pc = "spend" /\ [StoreNext]_storeVars
    BY RequestSteps DEF Spend, At, ClientStep, history
  <1>2. PICK a \in Actions : a = Act(c) /\ Known(a) /\ rows[a].bind \in Bindings
    BY <1>1, LookupHere DEF LookupPcs
  <1>3. /\ \/ /\ ConsumeToolActionWithReceipt(a, clients[c].bind, clients[c].at)
              /\ clients'[c].pc \in {"wonSet", "lostSet"} /\ clients'[c].act = a
              /\ clients'[c].seen = rows'[a].status
           \/ UNCHANGED storeVars /\ Done(c) /\ clients'[c].pc = "answered"
        /\ \A d \in Clients : d # c => clients'[d] = clients[d]
        /\ clients'[c].verdict # "approve"
    <2>1. CASE /\ ConsumeToolActionWithReceipt(a, clients[c].bind, clients[c].at)
               /\ \E p \in {"wonSet", "lostSet"} :
                     clients' = [clients EXCEPT ![c].pc = p, ![c].seen = rows'[a].status]
      <3> DEFINE s == rows'[a].status
      <3>1. PICK p \in {"wonSet", "lostSet"} : clients' = [clients EXCEPT ![c].pc = p, ![c].seen = s]
        BY <2>1
      <3> HIDE DEF s
      <3>2. GoesTo(c, p) /\ clients'[c].seen = s /\ clients'[c].verdict = clients[c].verdict
        BY <3>1, LearnGoes
      <3>3. /\ clients'[c].pc \in {"wonSet", "lostSet"} /\ clients'[c].act = a
            /\ \A d \in Clients : d # c => clients'[d] = clients[d]
            /\ clients'[c].verdict # "approve"
        BY <1>2, <3>2, HoldsHere DEF GoesTo, Act
      <3> QED
        BY <2>1, <3>2, <3>3 DEF s
    <2>2. CASE Done(c) /\ UNCHANGED storeVars
      BY <2>2, DoneGoes
    <2> QED
      <3>1. \/ /\ ConsumeToolActionWithReceipt(a, clients[c].bind, clients[c].at)
               /\ clients' = [clients EXCEPT
                    ![c].pc = IF Consumable(a, clients[c].bind, clients[c].at) THEN "wonSet" ELSE "lostSet",
                    ![c].seen = rows'[a].status]
            \/ Done(c) /\ UNCHANGED storeVars
        BY <1>2 DEF Spend
      <3> QED
        BY <2>1, <2>2, <3>1
  <1>4. \A x \in Actions, d \in Clients : Deciding(d, x)' <=> Deciding(d, x)
    BY <1>1, <1>3 DEF Deciding, DecidingPcs, Act
  <1>5. DecidersMove
    BY <1>1, <1>4 DEF DecidersMove, Asking
  <1>6. receipts[a] # <<>> /\ ~MayDecide(a) /\ ~MayDecide(a)'
    <2>1. receipts[a] # <<>>
      BY <1>1, <1>2, HoldsHere DEF SeenOK
    <2>2. ~MayDecide(a)
      BY <2>1 DEF DecisionInv, DecidersHaveNotDecided
    <2> QED
      BY <1>2, <1>5, <2>1, <2>2, NoNewDecider
  <1>7. /\ \A x \in Actions : x # a => rows'[x] = rows[x] /\ receipts'[x] = receipts[x]
        /\ \/ rows'[a] = rows[a]
           \/ rows'[a].status = "consumed" /\ clients[c].at < rows[a].bind.expires
    <2>1. rows \in [Actions -> Row] /\ receipts \in [Actions -> Seq(Receipt)]
      BY InvParts DEF TypeOK
    <2>2. CASE rows' = rows /\ receipts' = receipts
      BY <2>2
    <2>3. CASE /\ Consumable(a, clients[c].bind, clients[c].at)
               /\ Write(a, SpentRow(rows[a], clients[c].at))
               /\ Append1(a, ConsumptionReceipt(clients[c].bind))
      <3>1. SpentRow(rows[a], clients[c].at).status = "consumed"
        BY <2>1 DEF SpentRow, Row
      <3>2. clients[c].at \in Nat /\ rows[a].bind.expires \in Nat
        BY <1>2, ClientHere, Clock DEF Bindings
      <3>3. clients[c].at < rows[a].bind.expires
        BY <2>3, <3>2 DEF Consumable, Lapsed
      <3> QED
        BY <2>1, <2>3, <3>1, <3>3 DEF Write, Append1
    <2> QED
      BY <1>3, <2>2, <2>3 DEF ConsumeToolActionWithReceipt, SpentRow, storeVars
  <1>8. LedgerMoves
    <2>1. \A x \in Actions : MayDecide(x)' => receipts'[x] = receipts[x]
      BY <1>6, <1>7
    <2>2. \A x \in Actions : rows'[x].status = "allowed" => rows[x].status = "allowed"
      BY <1>7
    <2>3. ASSUME NEW x \in Actions, rows'[x].status = "consumed", rows[x].status # "consumed"
          PROVE  \E d \in Clients : At(d, "spend") /\ Act(d) = x /\ clients[d].at < rows[x].bind.expires
      <3>1. x = a /\ clients[c].at < rows[a].bind.expires
        BY <1>7, <2>3
      <3> QED
        BY <1>1, <1>2, <3>1 DEF At
    <2>4. \A x \in Actions : receipts[x] = <<>> => receipts'[x] = receipts[x]
      BY <1>6, <1>7
    <2> QED
      BY <1>1, <1>3, <2>1, <2>2, <2>3, <2>4 DEF LedgerMoves
  <1>9. NoOrphanedAction'
    <2>1. ASSUME NEW x \in Actions, rows'[x].status = "pending", x \notin broken'
          PROVE  Asking(x)' \/ \E d \in Clients : Deciding(d, x)'
      <3>1. rows[x].status = "pending" /\ x \notin broken
        BY <1>1, <1>7, <2>1
      <3>2. Asking(x) \/ \E d \in Clients : Deciding(d, x)
        BY <3>1 DEF DecisionInv, ExactlyOneDecider, NoOrphanedAction
      <3> QED
        BY <1>1, <1>4, <3>2 DEF Asking
    <2> QED
      BY <2>1 DEF NoOrphanedAction
  <1>10. SpendsBegin /\ MindsMove /\ RefusalsMove
    <2>1. CASE clients'[c].pc = "answered"
      BY <1>1, <1>3, <2>1, PlainMove DEF SeenPcs
    <2>2. CASE clients'[c].pc # "answered"
      BY <1>1, <1>2, <1>3, <2>2, LearnMove
    <2> QED
      BY <2>1, <2>2
  <1>11. PromptsMove
    BY <1>1 DEF PromptsMove
  <1> QED
    BY <1>5, <1>8, <1>9, <1>10, <1>11 DEF Steps

-----------------------------------------------------------------------------
\* Steps of the asker of an action.

\* The asker of one action moves, and nobody else.
LEMMA AskerMoves ==
    ASSUME GateInv, NEW a \in Actions, NEW q, askers' = [askers EXCEPT ![a] = q]
    PROVE  askers'[a] = q /\ \A x \in Actions : x # a => askers'[x] = askers[x]
  BY InvParts DEF GateShape

\* ... when only its program counter does.
LEMMA AskerGoes ==
    ASSUME GateInv, NEW a \in Actions, NEW p, AskerGo(a, p)
    PROVE  askers'[a].pc = p /\ \A x \in Actions : x # a => askers'[x] = askers[x]
  <1> DEFINE q == [askers[a] EXCEPT !.pc = p]
  <1>1. askers' = [askers EXCEPT ![a] = q]
    BY InvParts DEF AskerGo, GateShape
  <1>2. q.pc = p
    BY AskerHere DEF Asker
  <1> HIDE DEF q
  <1> QED
    BY <1>1, <1>2, AskerMoves

\* It asks on, or stops; the ledger, the requests and what callers were told
\* stay as they are.
AskerTurns(a) ==
    /\ UNCHANGED <<storeVars, clients, refused>> /\ broken \subseteq broken'
    /\ \A x \in Actions : x # a => askers'[x] = askers[x]
    /\ askers'[a].pc \in UndecidedPcs => askers[a].pc \in UndecidedPcs
    /\ Asking(a) /\ (Asking(a)' \/ rows[a].status # "pending" \/ a \in broken')

\* Such a step leaves the deciders and the ledger in order.
LEMMA AskerTurnSteps ==
    ASSUME GateInv, DecisionInv, NEW a \in Actions, AskerTurns(a)
    PROVE  DecidersMove /\ LedgerMoves /\ SpendsBegin /\ NoOrphanedAction'
  <1>1. \A x \in Actions, d \in Clients : Deciding(d, x)' <=> Deciding(d, x)
    BY DEF AskerTurns, Deciding, Act
  <1>2. DecidersMove
    BY <1>1 DEF AskerTurns, DecidersMove, Asking
  <1>3. LedgerMoves
    BY DEF AskerTurns, LedgerMoves, storeVars
  <1>4. SpendsBegin
    BY DEF AskerTurns, SpendsBegin, At
  <1>5. NoOrphanedAction'
    BY <1>1, OthersNotOrphaned DEF AskerTurns, storeVars
  <1> QED
    BY <1>2, <1>3, <1>4, <1>5

\* The ticket of one action is told s.
LEMMA TicketTold ==
    ASSUME GateInv, NEW a \in Actions, NEW s \in Statuses \cup {"unavailable"}, s # "none",
           UpdateTicket(a, s), Agrees(a, s)', s = "unavailable" => Dead(a)'
    PROVE  \A x \in Actions : TicketMoves(x)
  <1>1. tickets \in [Actions -> Ticket]
    BY InvParts DEF GateShape
  <1>2. tickets'[a] = Updated(tickets[a], s) /\ \A x \in Actions : x # a => tickets'[x] = tickets[x]
    BY <1>1 DEF UpdateTicket
  <1>3. TicketMoves(a)
    BY <1>2 DEF TicketMoves
  <1> QED
    BY <1>2, <1>3 DEF TicketMoves

\* Recording a prompt, or closing its row: either may fail, and then the action
\* is lost.
LEMMA RecordSteps ==
    ASSUME GateInv, DecisionInv, NEW a \in Actions, AskerBegin(a) \/ AskerResolve(a)
    PROVE  Steps
  <1>1. /\ UNCHANGED <<storeVars, clients, refused>>
        /\ askers[a].pc \in {"begin", "resolve"}
        /\ gates \in [Actions -> {"none", "pending", "resolved", "interrupted"}]
    BY InvParts DEF AskerBegin, AskerResolve, AskerAt, GateShape
  <1>2. Asking(a) /\ MayDecide(a) /\ receipts[a] = <<>> /\ Known(a)
    <2>1. MayDecide(a)
      BY <1>1 DEF MayDecide, UndecidedPcs
    <2> QED
      BY <1>1, <2>1, AskerHere DEF Asking, DecisionInv, DecidersHaveNotDecided, AskerOK
  <1>3. CASE \/ gates' = [gates EXCEPT ![a] = "pending"] /\ AskerGo(a, "arm") /\ AskerAt(a, "begin")
             \/ gates' = [gates EXCEPT ![a] = "resolved"] /\ AskerGo(a, "verdict") /\ AskerAt(a, "resolve")
    <2>1. /\ \A x \in Actions : x # a => askers'[x] = askers[x] /\ gates'[x] = gates[x]
          /\ \/ askers'[a].pc = "arm" /\ gates'[a] = "pending" /\ askers[a].pc = "begin"
             \/ askers'[a].pc = "verdict" /\ gates'[a] = "resolved"
      BY <1>1, <1>3, AskerGoes DEF AskerAt
    <2>2. UNCHANGED <<tickets, broken>>
      <3>1. ~AskerGo(a, "over")
        BY <2>1, AskerGoes
      <3> QED
        BY <3>1 DEF AskerBegin, AskerResolve
    <2>3. AskerTurns(a)
      BY <1>1, <1>2, <2>1, <2>2 DEF AskerTurns, UndecidedPcs, Asking
    <2>4. PromptsMove
      BY <1>1, <2>1, <2>2 DEF PromptsMove, UndecidedPcs, Asking
    <2>5. MindsMove
      BY <1>1, <2>1, <2>2 DEF MindsMove, TicketMoves, AskerSeenOK
    <2>6. RefusalsMove
      BY <1>1, <2>1 DEF RefusalsMove
    <2> QED
      BY <2>3, <2>4, <2>5, <2>6, AskerTurnSteps DEF Steps
  <1>4. CASE Fail(a) /\ UpdateTicket(a, "unavailable") /\ AskerGo(a, "over") /\ UNCHANGED gates
    <2>1. /\ askers'[a].pc = "over" /\ \A x \in Actions : x # a => askers'[x] = askers[x]
          /\ broken \subseteq broken' /\ a \in broken'
      BY <1>4, AskerGoes DEF Fail
    <2>2. AskerTurns(a)
      BY <1>1, <1>2, <2>1 DEF AskerTurns, UndecidedPcs
    <2>3. ~MayDecide(a)'
      <3>1. \A d \in Clients : ~Deciding(d, a)
        BY <1>2 DEF DecisionInv, ExactlyOneDecider, OneDecider
      <3>2. \A d \in Clients : ~Deciding(d, a)'
        BY <1>1, <3>1 DEF Deciding, Act
      <3> QED
        BY <2>1, <3>2 DEF MayDecide, DecidedBy, UndecidedPcs
    <2>4. Dead(a)'
      BY <1>1, <1>2, <2>3, LeftIsDead
    <2>5. \A x \in Actions : TicketMoves(x)
      <3>1. Agrees(a, "unavailable")'
        BY <2>1 DEF Agrees
      <3> QED
        BY <1>4, <2>4, <3>1, TicketTold
    <2>6. PromptsMove
      BY <1>1, <1>4, <2>1 DEF PromptsMove
    <2>7. MindsMove /\ RefusalsMove
      BY <1>1, <2>1, <2>5 DEF MindsMove, RefusalsMove, AskerSeenOK
    <2> QED
      BY <2>2, <2>6, <2>7, AskerTurnSteps DEF Steps
  <1> QED
    BY <1>3, <1>4 DEF AskerBegin, AskerResolve

\* The prompt is armed, unless its ticket was answered meanwhile.
LEMMA ArmSteps ==
    ASSUME GateInv, DecisionInv, NEW a \in Actions, AskerArm(a)
    PROVE  Steps
  <1>1. /\ UNCHANGED <<storeVars, clients, refused, broken>> /\ askers[a].pc = "arm"
        /\ gates \in [Actions -> {"none", "pending", "resolved", "interrupted"}]
        /\ tickets \in [Actions -> Ticket] /\ TicketOK(a) /\ PromptOK(a)
    BY InvParts DEF AskerArm, AskerAt, history, GateShape, DecisionInv
  <1>2. CASE tickets[a].decided
    <2>1. /\ askers'[a].pc = "over" /\ gates'[a] = "resolved" /\ tickets' = tickets
          /\ \A x \in Actions : x # a => askers'[x] = askers[x] /\ gates'[x] = gates[x]
      BY <1>1, <1>2, AskerGoes DEF AskerArm
    <2>2. AskerTurns(a)
      BY <1>1, <1>2, <2>1 DEF AskerTurns, UndecidedPcs, Asking, TicketOK
    <2>3. PromptsMove /\ MindsMove /\ RefusalsMove
      BY <1>1, <2>1 DEF PromptsMove, MindsMove, TicketMoves, AskerSeenOK, RefusalsMove
    <2> QED
      BY <2>2, <2>3, AskerTurnSteps DEF Steps
  <1>3. CASE ~tickets[a].decided
    <2>1. /\ askers'[a].pc = "prompt" /\ gates' = gates
          /\ \A x \in Actions : x # a => askers'[x] = askers[x] /\ tickets'[x] = tickets[x]
          /\ tickets'[a].state = tickets[a].state /\ tickets'[a].decided = tickets[a].decided
      <3>1. tickets' = [tickets EXCEPT ![a].armed = TRUE] /\ AskerGo(a, "prompt") /\ gates' = gates
        BY <1>3 DEF AskerArm
      <3>2. tickets[a] \in Ticket
        BY <1>1
      <3> QED
        BY <1>1, <3>1, <3>2, AskerGoes DEF Ticket
    <2>2. AskerTurns(a)
      BY <1>1, <2>1 DEF AskerTurns, UndecidedPcs, Asking
    <2>3. PromptsMove
      BY <1>1, <2>1 DEF PromptsMove, PromptOK, Asking
    <2>4. MindsMove /\ RefusalsMove
      BY <1>1, <2>1 DEF MindsMove, TicketMoves, AskerSeenOK, RefusalsMove
    <2> QED
      BY <2>2, <2>3, <2>4, AskerTurnSteps DEF Steps
  <1> QED
    BY <1>2, <1>3

\* The prompt ends, by the operator or without.
LEMMA PromptSteps ==
    ASSUME GateInv, DecisionInv, NEW a \in Actions, Tap(a) \/ PromptEnds(a)
    PROVE  Steps
  <1>1. /\ UNCHANGED <<storeVars, clients, tickets, gates, refused, broken>> /\ askers[a].pc = "prompt"
        /\ PromptOK(a)
    BY DEF Tap, PromptEnds, AskerAt, history, DecisionInv
  <1>2. askers'[a].pc = "resolve" /\ \A x \in Actions : x # a => askers'[x] = askers[x]
    <2>1. PICK d : askers' = [askers EXCEPT ![a].pc = "resolve", ![a].verdict = d]
      BY DEF Tap, PromptEnds
    <2> DEFINE q == [askers[a] EXCEPT !.pc = "resolve", !.verdict = d]
    <2>2. askers' = [askers EXCEPT ![a] = q] /\ q.pc = "resolve"
      BY <2>1, AskerHere, InvParts DEF GateShape, Asker
    <2> HIDE DEF q
    <2> QED
      BY <2>2, AskerMoves
  <1>3. AskerTurns(a)
    BY <1>1, <1>2 DEF AskerTurns, UndecidedPcs, Asking
  <1>4. PromptsMove
    BY <1>1, <1>2 DEF PromptsMove, PromptOK, Asking
  <1>5. MindsMove /\ RefusalsMove
    BY <1>1, <1>2 DEF MindsMove, TicketMoves, AskerSeenOK, RefusalsMove
  <1> QED
    BY <1>3, <1>4, <1>5, AskerTurnSteps DEF Steps

\* A ticket answered meanwhile keeps its answer; else the verdict is dated.
LEMMA VerdictSteps ==
    ASSUME GateInv, DecisionInv, NEW a \in Actions, AskerVerdict(a)
    PROVE  Steps
  <1>1. /\ UNCHANGED <<storeVars, clients, tickets, gates, refused, broken>> /\ askers[a].pc = "verdict"
        /\ PromptOK(a) /\ TicketOK(a)
    BY DEF AskerVerdict, AskerAt, history, DecisionInv
  <1>2. /\ \A x \in Actions : x # a => askers'[x] = askers[x]
        /\ askers'[a].pc = "commit" \/ (askers'[a].pc = "over" /\ tickets[a].decided)
    <2>1. CASE AskerGo(a, "over") /\ tickets[a].decided
      BY <2>1, AskerGoes
    <2>2. ASSUME NEW v, askers' = [askers EXCEPT ![a].pc = "commit", ![a].at = now, ![a].verdict = v]
          PROVE  askers'[a].pc = "commit" /\ \A x \in Actions : x # a => askers'[x] = askers[x]
      <3> DEFINE q == [askers[a] EXCEPT !.pc = "commit", !.at = now, !.verdict = v]
      <3>1. askers' = [askers EXCEPT ![a] = q] /\ q.pc = "commit"
        BY <2>2, AskerHere, InvParts DEF GateShape, Asker
      <3> HIDE DEF q
      <3> QED
        BY <3>1, AskerMoves
    <2>3. \/ AskerGo(a, "over") /\ tickets[a].decided
          \/ \E v : askers' = [askers EXCEPT ![a].pc = "commit", ![a].at = now, ![a].verdict = v]
      <3>1. CASE tickets[a].decided /\ tickets[a].state # "pending"
        BY <3>1 DEF AskerVerdict
      <3>2. CASE ~(tickets[a].decided /\ tickets[a].state # "pending")
        <4> DEFINE v == AtDecision(rows[a].bind, askers[a].verdict)
        <4>1. askers' = [askers EXCEPT ![a].pc = "commit", ![a].at = now, ![a].verdict = v]
          BY <3>2, AskerHere, InvParts DEF AskerVerdict, GateShape, Asker
        <4> HIDE DEF v
        <4> QED
          BY <4>1
      <3> QED
        BY <3>1, <3>2
    <2> QED
      BY <2>1, <2>2, <2>3
  <1>3. AskerTurns(a)
    BY <1>1, <1>2 DEF AskerTurns, UndecidedPcs, Asking, TicketOK
  <1>4. PromptsMove
    BY <1>1, <1>2 DEF PromptsMove, PromptOK, Asking
  <1>5. MindsMove /\ RefusalsMove
    BY <1>1, <1>2 DEF MindsMove, TicketMoves, AskerSeenOK, RefusalsMove
  <1> QED
    BY <1>3, <1>4, <1>5, AskerTurnSteps DEF Steps

\* The ticket is told what the asker wrote.
LEMMA AskerSettleSteps ==
    ASSUME GateInv, DecisionInv, NEW a \in Actions, AskerSettle(a)
    PROVE  Steps
  <1>1. /\ UNCHANGED <<storeVars, clients, gates, refused, broken>> /\ askers[a].pc = "settle"
        /\ PromptOK(a) /\ AskerSeenOK(a)
    BY DEF AskerSettle, AskerAt, history, DecisionInv
  <1>2. PICK s \in Statuses \cup {"unavailable"} : s = askers[a].seen
    BY AskerHere DEF Asker
  <1>3. Agrees(a, s) /\ s \notin {"none", "pending"} /\ (s = "unavailable" => Dead(a))
    BY <1>1, <1>2 DEF AskerSeenOK, DecisionInv, RefusalsOK
  <1>4. rows[a].status # "pending" \/ a \in broken
    BY <1>3, AgreedIsDecided
  <1>5. askers'[a].pc = "over" /\ \A x \in Actions : x # a => askers'[x] = askers[x]
    BY AskerGoes DEF AskerSettle
  <1>6. AskerTurns(a)
    BY <1>1, <1>4, <1>5 DEF AskerTurns, UndecidedPcs, Asking
  <1>7. DecidersMove /\ LedgerMoves /\ SpendsBegin /\ NoOrphanedAction'
    BY <1>6, AskerTurnSteps
  <1>8. Agrees(a, s)' /\ (s = "unavailable" => Dead(a)')
    BY <1>1, <1>3, <1>7, DeadStays DEF Agrees, storeVars
  <1>9. \A x \in Actions : TicketMoves(x)
    BY <1>2, <1>3, <1>8, TicketTold DEF AskerSettle
  <1>10. PromptsMove
    BY <1>1, <1>5 DEF PromptsMove, PromptOK
  <1>11. MindsMove /\ RefusalsMove
    BY <1>1, <1>5, <1>9 DEF MindsMove, AskerSeenOK, RefusalsMove
  <1> QED
    BY <1>7, <1>10, <1>11 DEF Steps

\* The asker writes the operator's decision.
LEMMA AskerCommitSteps ==
    ASSUME GateInv, DecisionInv, NEW a \in Actions, AskerCommit(a)
    PROVE  Steps
  <1>1. /\ UNCHANGED <<clients, tickets, gates, refused>> /\ askers[a].pc = "commit"
        /\ PromptOK(a)
    BY DEF AskerCommit, AskerAt, DecisionInv
  <1>2. [StoreNext]_storeVars
    <2>1. Next
      BY DEF Next, AskerStep
    <2> QED
      BY <2>1, NextPreserved DEF Preserved
  <1>3. PICK s : /\ Writes(a, askers[a].verdict, s)
                 /\ askers' = [askers EXCEPT ![a].pc = "settle", ![a].seen = s]
    <2>1. CASE /\ DecideToolActionWithReceipt(a, rows[a].bind, askers[a].verdict, askers[a].at)
               /\ askers' = [askers EXCEPT ![a].pc = "settle", ![a].seen = rows'[a].status]
               /\ UNCHANGED broken
      BY <2>1 DEF Writes
    <2>2. CASE /\ Fail(a)
               /\ askers' = [askers EXCEPT ![a].pc = "settle", ![a].seen = "unavailable"]
               /\ UNCHANGED storeVars
      BY <2>2 DEF Writes
    <2> QED
      BY <2>1, <2>2 DEF AskerCommit
  <1>4. /\ askers'[a].pc = "settle" /\ askers'[a].seen = s
        /\ \A x \in Actions : x # a => askers'[x] = askers[x]
    <2> DEFINE q == [askers[a] EXCEPT !.pc = "settle", !.seen = s]
    <2>1. askers' = [askers EXCEPT ![a] = q] /\ q.pc = "settle" /\ q.seen = s
      BY <1>3, AskerHere, InvParts DEF GateShape, Asker
    <2> HIDE DEF q
    <2> QED
      BY <2>1, AskerMoves
  <1>5. \A x \in Actions, d \in Clients : Deciding(d, x)' <=> Deciding(d, x)
    BY <1>1 DEF Deciding, Act
  <1>6. DecidersMove
    BY <1>1, <1>4, <1>5 DEF DecidersMove, Asking, UndecidedPcs
  <1>7. MayDecide(a) /\ ~MayDecide(a)' /\ Known(a)
    <2>1. Asking(a) /\ MayDecide(a) /\ Known(a)
      BY <1>1, AskerHere DEF Asking, MayDecide, UndecidedPcs, AskerOK
    <2>2. \A d \in Clients : ~Deciding(d, a)
      BY <2>1 DEF DecisionInv, ExactlyOneDecider, OneDecider
    <2> QED
      BY <1>4, <1>5, <2>1, <2>2 DEF MayDecide, DecidedBy, UndecidedPcs
  <1>8. /\ LedgerMoves
        /\ \A x \in Actions : x # a => rows'[x] = rows[x]
        /\ rows'[a].status # "pending" \/ a \in broken'
        /\ s \in (Statuses \cup {"unavailable"}) \ {"none", "pending"}
        /\ Agrees(a, s)' /\ (s = "unavailable" => Dead(a)')
    BY <1>1, <1>2, <1>3, <1>7, DecisionWritten
  <1>9. NoOrphanedAction'
    BY <1>4, <1>5, <1>8, OthersNotOrphaned DEF LedgerMoves
  <1>10. SpendsBegin
    BY <1>1 DEF SpendsBegin, At
  <1>11. PromptsMove
    BY <1>1, <1>4 DEF PromptsMove, PromptOK
  <1>12. AskerSeenOK(a)'
    BY <1>4, <1>8 DEF AskerSeenOK, Agrees
  <1>13. MindsMove
    BY <1>1, <1>4, <1>12 DEF MindsMove, TicketMoves
  <1>14. RefusalsMove
    BY <1>1, <1>4, <1>8 DEF RefusalsMove
  <1> QED
    BY <1>6, <1>8, <1>9, <1>10, <1>11, <1>13, <1>14 DEF Steps

-----------------------------------------------------------------------------
\* The process, the clock, and every step.

\* A restart forgets who decides together with what there was to decide.
LEMMA RestartSteps ==
    ASSUME GateInv, DecisionInv, Restart
    PROVE  Steps
  <1>1. /\ UNCHANGED <<receipts, refused, broken>> /\ ExpireToolActions(now)
        /\ tickets' = [a \in Actions |-> NoTicket]
        /\ clients' = [c \in Clients |-> IF At(c, "idle") THEN Idle ELSE Answered]
        /\ askers' = [a \in Actions |-> Off]
        /\ gates' = [a \in Actions |-> IF gates[a] = "pending" THEN "interrupted" ELSE gates[a]]
    BY DEF Restart, history, ExpireToolActions
  <1>2. [StoreNext]_storeVars
    BY RestartPreserved DEF Preserved
  <1>3. \A c \in Clients : clients'[c].pc \in {"idle", "answered"} /\ clients'[c].verdict = "deny"
    BY <1>1, RestingHolds
  <1>4. \A a \in Actions : askers'[a].pc = "off"
    BY <1>1 DEF Off
  <1>5. \A a \in Actions, c \in Clients : ~Deciding(c, a)'
    BY <1>3 DEF Deciding, DecidingPcs
  <1>6. \A a \in Actions : ~Asking(a)' /\ ~MayDecide(a)'
    BY <1>4, <1>5 DEF Asking, MayDecide, DecidedBy, UndecidedPcs
  <1>7. ASSUME NEW a \in Actions
        PROVE  (rows'[a] = rows[a] /\ rows[a].status # "pending") \/ rows'[a].status = "expired"
    <2>1. rows[a] \in Row
      BY InvParts DEF TypeOK
    <2>2. Closed(rows[a], "expired").status = "expired"
      BY <2>1 DEF Closed, Row
    <2> QED
      BY <1>1, <2>2 DEF ExpireToolActions
  <1>8. DecidersMove
    BY <1>4, <1>5, <1>6 DEF DecidersMove, UndecidedPcs
  <1>9. LedgerMoves
    BY <1>1, <1>2, <1>7 DEF LedgerMoves
  <1>10. SpendsBegin
    BY <1>3 DEF SpendsBegin, At
  <1>11. NoOrphanedAction'
    BY <1>7 DEF NoOrphanedAction
  <1>12. MindsMove
    <2>1. \A c \in Clients : SeenOK(c)'
      BY <1>3 DEF SeenOK, SeenPcs
    <2>2. \A a \in Actions : AskerSeenOK(a)'
      BY <1>4 DEF AskerSeenOK
    <2>3. \A a \in Actions : TicketMoves(a)
      BY <1>1, <1>3 DEF TicketMoves
    <2> QED
      BY <2>1, <2>2, <2>3 DEF MindsMove
  <1>13. PromptsMove
    <2>1. \A a \in Actions : gates'[a] = IF gates[a] = "pending" THEN "interrupted" ELSE gates[a]
      BY <1>1
    <2> QED
      BY <1>4, <2>1 DEF PromptsMove
  <1>14. RefusalsMove
    BY <1>1, <1>3, <1>4 DEF RefusalsMove
  <1> QED
    BY <1>8, <1>9, <1>10, <1>11, <1>12, <1>13, <1>14 DEF Steps

\* The clock, and a step that changes nothing.
LEMMA TimeSteps ==
    ASSUME GateInv, DecisionInv, TimePasses \/ UNCHANGED vars
    PROVE  Steps
  <1>1. UNCHANGED <<rows, receipts, tickets, clients, askers, gates, refused, broken>>
    BY DEF TimePasses, Tick, vars, storeVars, gateVars, history
  <1>2. [StoreNext]_storeVars
    BY TimePreserved DEF Preserved, vars
  <1>3. \A x \in Actions, d \in Clients : Deciding(d, x)' <=> Deciding(d, x)
    BY <1>1 DEF Deciding, Act
  <1>4. DecidersMove
    BY <1>1, <1>3 DEF DecidersMove, Asking
  <1>5. LedgerMoves
    BY <1>1, <1>2 DEF LedgerMoves
  <1>6. NoOrphanedAction'
    BY <1>1, <1>3 DEF DecisionInv, ExactlyOneDecider, NoOrphanedAction, Asking
  <1>7. SpendsBegin /\ MindsMove /\ PromptsMove /\ RefusalsMove
    BY <1>1 DEF SpendsBegin, At, MindsMove, TicketMoves, PromptsMove, RefusalsMove
  <1> QED
    BY <1>4, <1>5, <1>6, <1>7 DEF Steps

\* Every step of the gate is one of those.
LEMMA NextSteps ==
    ASSUME GateInv, DecisionInv, [Next]_vars
    PROVE  Steps
  <1>1. ASSUME NEW c \in Clients, ClientStep(c)
        PROVE  Steps
    BY <1>1, ReserveSteps, RulesSteps, JoinSteps, OpenSteps, CommitSteps, TellSteps, HoldSteps,
       ReadSteps, SpendSteps DEF ClientStep
  <1>2. ASSUME NEW c \in Clients, CallerStep(c)
        PROVE  Steps
    BY <1>2, BeginSteps, ReadSteps, ReportSteps, HoldSteps DEF CallerStep
  <1>3. ASSUME NEW a \in Actions, AskerStep(a) \/ Tap(a)
        PROVE  Steps
    BY <1>3, RecordSteps, ArmSteps, PromptSteps, VerdictSteps, AskerCommitSteps, AskerSettleSteps
    DEF AskerStep
  <1> QED
    BY <1>1, <1>2, <1>3, RestartSteps, TimeSteps DEF Next

\* Nobody decides anything at first.
LEMMA DecisionInvInit == Init => DecisionInv
  <1> SUFFICES ASSUME Init PROVE DecisionInv
    OBVIOUS
  <1>1. /\ \A a \in Actions : rows[a] = NoRow /\ receipts[a] = <<>> /\ tickets[a] = NoTicket
                             /\ askers[a] = Off /\ gates[a] = "none"
        /\ \A c \in Clients : clients[c] = Idle
        /\ refused = {}
    BY DEF Init, StoreInit
  <1>2. /\ NoRow.status = "none" /\ Off.pc = "off"
    BY DEF NoRow, Off
  <1>3. \A a \in Actions, c \in Clients : ~Deciding(c, a)
    BY <1>1, RestingHolds DEF Deciding, DecidingPcs
  <1>4. \A a \in Actions : ~Asking(a)
    BY <1>1, <1>2 DEF Asking
  <1>5. ExactlyOneDecider
    BY <1>1, <1>2, <1>3, <1>4 DEF ExactlyOneDecider, OneDecider, NoOrphanedAction
  <1>6. DecidersHaveNotDecided
    BY <1>1 DEF DecidersHaveNotDecided
  <1>7. \A a \in Actions : TicketOK(a) /\ AskerSeenOK(a) /\ PromptOK(a)
    <2>1. \A a \in Actions : TicketOK(a)
      BY <1>1, NewTicketFits DEF TicketOK, Agrees
    <2> QED
      BY <1>1, <1>2, <2>1 DEF AskerSeenOK, PromptOK
  <1>8. \A c \in Clients : SeenOK(c)
    BY <1>1, RestingHolds DEF SeenOK, SeenPcs
  <1>9. RefusalsOK
    BY <1>1, <1>2, NewTicketFits, RestingHolds DEF RefusalsOK, At
  <1> QED
    BY <1>5, <1>6, <1>7, <1>8, <1>9 DEF DecisionInv

\* The invariant always holds.
LEMMA DecisionInvAlways == Spec => [](GateInv /\ DecisionInv)
  <1>1. Init => GateInv /\ DecisionInv
    BY GateInvInit, DecisionInvInit
  <1>2. GateInv /\ DecisionInv /\ [Next]_vars => (GateInv /\ DecisionInv)'
    BY GateInvStep, NextSteps, StepsKeep
  <1> QED
    BY <1>1, <1>2, PTL DEF Spec

-----------------------------------------------------------------------------
\* What the runs check, for every number of requests, actions, failures and
\* restarts, and every window and horizon.

\* Retries, concurrent deliveries and restarts never put two deciders on an
\* action, and an undecided action always has one, unless a store failure took
\* its decision.
THEOREM OneDecides == Spec => []ExactlyOneDecider
  <1>1. DecisionInv => ExactlyOneDecider
    BY DEF DecisionInv
  <1> QED
    BY <1>1, DecisionInvAlways, PTL

\* A final no stands, tickets say what the ledger says, every prompt is
\* recorded while it is shown, and an operator's approval was asked for.
THEOREM ToldTheTruth == Spec => []AnswersAreTrue
  <1>1. ASSUME GateInv, DecisionInv, ExecuteOnce
        PROVE  AnswersAreTrue
    <2>1. DenialIsFinal
      <3>1. ASSUME NEW a \in refused
            PROVE  permits[a] = 0
        <4>1. a \in Actions /\ permits[a] \in Nat
          BY <1>1, InvParts DEF GateShape
        <4>2. rows[a].status # "consumed"
          BY <1>1, <4>1 DEF DecisionInv, RefusalsOK, Dead
        <4> QED
          BY <1>1, <4>1, <4>2 DEF ExecuteOnce
      <3> QED
        BY <3>1 DEF DenialIsFinal
    <2>2. TicketAgreesWithLedger
      BY <1>1 DEF TicketAgreesWithLedger, DecisionInv, TicketOK, Agrees
    <2>3. PromptIsRecorded /\ OperatorApprovalWasAsked
      BY <1>1 DEF PromptIsRecorded, OperatorApprovalWasAsked, DecisionInv, PromptOK
    <2> QED
      BY <2>1, <2>2, <2>3 DEF AnswersAreTrue
  <1> QED
    BY <1>1, DecisionInvAlways, ExecutedOnce, PTL

\* Who is allowed, expired, revoked or spent and has a receipt was approved.
LEMMA ApprovedFirst ==
    ASSUME StoreInv, NEW a \in Actions,
           \/ receipts[a] # <<>> /\ rows[a].status \in {"allowed", "consumed", "expired", "revoked"}
           \/ rows[a].status = "consumed"
    PROVE  receipts[a] # <<>> /\ receipts[a][1] \in Approvals(rows[a].bind)
  <1>1. RowOK(rows[a], receipts[a], outcomes[a])
    BY DEF StoreInv
  <1>2. receipts[a] \in AuditTrails(rows[a])
    BY <1>1 DEF RowOK
  <1>3. CASE rows[a].status = "consumed"
    <2>1. PICK e \in Approvals(rows[a].bind) : receipts[a] = <<e, ConsumptionReceipt(rows[a].bind)>>
      BY <1>2, <1>3 DEF AuditTrails
    <2> QED
      BY <2>1
  <1>4. CASE rows[a].status \in {"allowed", "expired", "revoked"} /\ receipts[a] # <<>>
    <2>1. PICK e \in Approvals(rows[a].bind) : receipts[a] = <<e>>
      BY <1>2, <1>4 DEF AuditTrails, AllowTrails
    <2> QED
      BY <2>1
  <1> QED
    BY <1>3, <1>4

\* Only repeatCheck takes a request from there to the commit.
LEMMA OnlyCheckRemembers ==
    ASSUME GateInv, [Next]_vars, NEW c \in Clients, At(c, "check"), clients'[c].pc = "commit"
    PROVE  Check(c)
  <1>0. clients'[c] # clients[c] /\ clients[c].pc = "check"
    BY DEF At
  <1>1. Next
    BY <1>0 DEF vars, gateVars
  <1>2. ASSUME NEW a \in Actions, AskerStep(a) \/ Tap(a)
        PROVE  clients' = clients
    BY <1>2 DEF AskerStep, Tap, AskerBegin, AskerArm, PromptEnds, AskerResolve,
       AskerVerdict, AskerCommit, AskerSettle, history
  <1>3. ~Restart
    BY <1>0, RestingHolds, InvParts DEF Restart, At, GateShape
  <1>4. ~TimePasses
    BY <1>0 DEF TimePasses, gateVars
  <1>5. ASSUME NEW d \in Clients, ClientStep(d) \/ CallerStep(d), d # c
        PROVE  FALSE
    <2>0. clients \in [Clients -> Client]
      BY InvParts DEF GateShape
    <2>1. Reserve(d) \/ Rules(d) \/ Check(d) \/ Join(d) \/ Open(d) => clients'[c] = clients[c]
      BY <1>5, <2>0, Zenon DEF Reserve, Rules, Check, Join, Open, Go, Done, Finish
    <2>2. Commit(d) \/ Settle(d) \/ HoldAnswered(d) \/ PollRead(d) \/ PollSet(d) => clients'[c] = clients[c]
      BY <1>5, <2>0 DEF Commit, Settle, HoldAnswered, PollRead, PollSet, Done
    <2>3. Spend(d) \/ SpendSet(d) \/ RevokeSet(d) \/ HoldElapsed(d) \/ HoldClosed(d) => clients'[c] = clients[c]
      BY <1>5, <2>0 DEF Spend, SpendSet, RevokeSet, HoldElapsed, HoldClosed, Done
    <2>4. Call(d) \/ Ask(d) \/ Revoke(d) \/ Complete(d) => clients'[c] = clients[c]
      <3>1. Call(d) \/ Ask(d) => clients'[c] = clients[c]
        BY <1>5, <2>0, Zenon DEF Call, Ask
      <3>2. Revoke(d) => clients'[c] = clients[c]
        BY <1>5, <2>0, Zenon DEF Revoke, Done
      <3>3. Complete(d) => clients'[c] = clients[c]
        BY <1>5, <2>0, Zenon DEF Complete, Done
      <3> QED
        BY <3>1, <3>2, <3>3
    <2> QED
      BY <1>0, <1>5, <2>1, <2>2, <2>3, <2>4 DEF ClientStep, CallerStep
  <1>6. ClientStep(c) \/ CallerStep(c)
    <2>1. clients' # clients
      BY <1>0
    <2>2. PICK d \in Clients : ClientStep(d) \/ CallerStep(d)
      BY <1>1, <1>2, <1>3, <1>4, <2>1 DEF Next
    <2> QED
      BY <1>5, <2>2
  <1> QED
    BY <1>0, <1>6 DEF ClientStep, CallerStep, Reserve, Rules, Join, Open, Commit, Settle,
       HoldAnswered, PollRead, PollSet, Spend, SpendSet, RevokeSet, Call, Ask, Revoke, Complete,
       HoldElapsed, HoldClosed, At

\* remember_approval answers for what the operator or a rule approved: the
\* action that repeatCheck remembers has its approval receipt (repeatCheck,
\* updateTicket).
THEOREM RemembersApprovals == Spec => RememberedApprovalIsReal
  <1> DEFINE Remembers ==
        \A c \in Clients :
            LET a == recent[clients[c].bind.args].act IN
            At(c, "check") /\ clients'[c].pc = "commit" /\ clients'[c].verdict = "policy_approve" =>
                receipts[a] # <<>> /\ receipts[a][1] \in Approvals(rows[a].bind)
  <1>1. ASSUME GateInv, DecisionInv, [Next]_vars
        PROVE  Remembers
    <2>1. SUFFICES ASSUME NEW c \in Clients, At(c, "check"), clients'[c].pc = "commit",
                          clients'[c].verdict = "policy_approve",
                          NEW a, a = recent[clients[c].bind.args].act
                   PROVE  receipts[a] # <<>> /\ receipts[a][1] \in Approvals(rows[a].bind)
      BY Zenon
    <2>2. Check(c)
      BY <1>1, <2>1, OnlyCheckRemembers
    <2>3. PICK k \in Args : clients[c].bind.args = k
      BY <1>1, <2>1, BoundHere DEF Bindings, At, BoundPcs, DecidingPcs
    <2>4. ~Finish(c, "deny")
      <3>1. ASSUME Finish(c, "deny") PROVE FALSE
        <4> DEFINE q == [clients[c] EXCEPT !.pc = "commit", !.at = now, !.verdict = "deny"]
        <4>1. clients' = [clients EXCEPT ![c] = q]
          BY <1>1, <2>1, <3>1, InvParts DEF Finish, AtDecision, GateShape
        <4>2. q.verdict = "deny"
          BY <1>1, <2>1, ClientHere DEF Client
        <4> HIDE DEF q
        <4> QED BY <1>1, <2>1, <4>1, <4>2, OneMoves
      <3> QED BY <3>1
    <2>5. ~Go(c, "open") /\ ~Go(c, "join")
      BY <1>1, <2>1, GoGoes DEF GoesTo
    <2>6. /\ ~Forgotten(k) /\ recent[k].act # NoAction
          /\ tickets[recent[k].act].state \in {"allowed", "consumed"}
      BY <2>2, <2>3, <2>4, <2>5 DEF Check, Nothing, Allowing
    <2>7. a \in Actions
      BY <1>1, <2>1, <2>3, <2>6, RememberedFits
    <2>8. Agrees(a, tickets[a].state)
      BY <1>1, <2>7 DEF DecisionInv, TicketOK
    <2>9. \/ receipts[a] # <<>> /\ rows[a].status \in {"allowed", "consumed", "expired", "revoked"}
          \/ rows[a].status = "consumed"
      BY <2>1, <2>3, <2>6, <2>8 DEF Agrees
    <2> QED
      BY <1>1, <2>7, <2>9, ApprovedFirst, InvParts
  <1>2. Remembers => [Remembers]_vars
    OBVIOUS
  <1>3. GateInv /\ DecisionInv /\ [Next]_vars => [Remembers]_vars
    BY <1>1, <1>2
  <1> QED
    BY <1>3, DecisionInvAlways, PTL DEF Spec, RememberedApprovalIsReal

=============================================================================
