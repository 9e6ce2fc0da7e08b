------------------------------ MODULE ToolGate ------------------------------
(***************************************************************************)
(* The tool-call gate (tool_gate.go, tool_lifecycle.go) over the permit    *)
(* ledger of PermitStore: concurrent HTTP handlers (calls, polls, consume, *)
(* revoke, complete), one operator prompt per asked action, the in-memory  *)
(* tickets and repeat memory they share, store failures and restarts.      *)
(*                                                                         *)
(* A handler is a client with a program counter; a step ends where the     *)
(* code lets another goroutine in (a store statement, a mutex released).   *)
(* What the rules decide (allowlist, arguments, daily totals, grants,      *)
(* freezes) is any of allow, deny, ask: CapLedger and GateTrip model it.   *)
(* The horizon is shorter than toolTicketRetention, so newTicket's sweep   *)
(* only drops repeat memory.                                               *)
(***************************************************************************)
EXTENDS PermitStore, FiniteSets

CONSTANTS
    Clients,        \* bound: the HTTP requests of a behaviour
    Window,         \* timeouts.operator_approval
    RepeatWindow,   \* tool_gate.repeat_window, 0 = off
    MaxRepeats,     \* tool_gate.max_repeats, 0 = no cap
    Remember,       \* remember_approval of the rule
    MaxFaults,      \* bound: actions whose decision a failing statement may take
    MaxRestarts,    \* bound: restarts
    NoAction

ASSUME GateAssumption ==
    /\ Window \in Nat \ {0}
    /\ {RepeatWindow, MaxRepeats, MaxFaults, MaxRestarts} \subseteq Nat
    /\ Remember \in BOOLEAN
    /\ NoAction \notin Actions

VARIABLES
    policy,         \* the policy hash this process decides under
    tickets,        \* g.tickets
    recent,         \* g.recent, the repeat memory
    clients,        \* handlers in flight
    askers,         \* askHuman goroutines, one per asked action
    gates,          \* pending_approvals rows of tool calls
    permits,        \* history: "execute" answers handed out
    refused,        \* history: actions whose caller was told a decision against it
    broken,         \* history: actions whose decision a failed statement took
    restarts        \* restarts so far

gateVars == <<policy, tickets, recent, clients, askers, gates>>
history == <<permits, refused, broken>>
vars == <<storeVars, gateVars, history, restarts>>

-----------------------------------------------------------------------------
\* A response is its State, with "unavailable" for the 503 form of a denial.
\* An action without a ticket is a ticket in state "absent"; a ticket nobody
\* has answered yet is in state "".

TicketStates == Statuses \cup {"", "absent", "unavailable"}
Ticket == [state : TicketStates, decided : BOOLEAN, armed : BOOLEAN, cut : BOOLEAN]

NoTicket == [state |-> "absent", decided |-> FALSE, armed |-> FALSE, cut |-> FALSE]
NewTicket == [NoTicket EXCEPT !.state = ""]

\* updateTicket: a late "allowed" or "pending" does not reopen a ticket that
\* is past them; the first terminal answer closes done and cuts the prompt.
Updated(t, s) ==
    IF \/ t.state = "absent"
       \/ t.state \in {"revoked", "consumed", "expired"} /\ s \in {"allowed", "pending"}
    THEN t
    ELSE [t EXCEPT !.state = s,
                   !.decided = @ \/ s # "pending",
                   !.cut = @ \/ (s # "pending" /\ t.armed)]

UpdateTicket(a, s) == tickets' = [tickets EXCEPT ![a] = Updated(@, s)]

Denying(s) == s \in {"denied", "unavailable", "expired", "revoked"}

Allowing(s) == s \in {"allowed", "consumed"}

Nothing == [act |-> NoAction, asks |-> 0, last |-> 0]
Forgotten(k) ==
    RepeatWindow > 0 /\ recent[k].act # NoAction /\ now - recent[k].last > RepeatWindow

-----------------------------------------------------------------------------
Idle == [pc |-> "idle", op |-> "", act |-> NoAction, bind |-> NoBinding, named |-> TRUE,
         verdict |-> "deny", at |-> 0, seen |-> "none"]
Answered == [Idle EXCEPT !.pc = "answered"]

\* Where a request is the one that will decide its action.
DecidingPcs == {"rules", "check", "join", "open", "commit"}
Pcs == DecidingPcs \cup {"idle", "answered", "reserve", "settle", "holdSync", "holdWait",
                         "poll", "pollSet", "spend", "lostSet", "wonSet", "revokeSet"}
Client == [pc : Pcs, op : {"", "call", "status", "consume"}, act : Actions \cup {NoAction},
           bind : Bindings \cup {NoBinding}, named : BOOLEAN, verdict : Verdicts,
           at : Time, seen : Statuses \cup {"unavailable"}]

Off == [pc |-> "off", verdict |-> "deny", at |-> 0, seen |-> "none"]
AskerPcs == {"off", "begin", "arm", "prompt", "resolve", "verdict", "commit", "settle", "over"}
Asker == [pc : AskerPcs, verdict : Verdicts, at : Time, seen : Statuses \cup {"unavailable"}]

At(c, p) == clients[c].pc = p
Go(c, p) == clients' = [clients EXCEPT ![c].pc = p]
Done(c) == clients' = [clients EXCEPT ![c] = Answered]
Act(c) == clients[c].act

AskerAt(a, p) == askers[a].pc = p
AskerGo(a, p) == askers' = [askers EXCEPT ![a].pc = p]

\* The caller of action a is answered with the decision s.  A request that is
\* not served because a read, a reservation, a revoke or a consume failed gets
\* the same words as a decision that could not be written (deny, denied, 503),
\* but nothing was decided: no Tell, and a permit may still be spent later.
Tell(a, s) == refused' = IF Denying(s) THEN refused \cup {a} ELSE refused

\* A store statement fails that leaves an undecided action without a decider.
\* Statements that fail and decide nothing need no bound.
Fail(a) ==
    /\ Cardinality(broken \cup {a}) <= MaxFaults
    /\ broken' = broken \cup {a}

\* finishAction: a decision reached at the end of the window is a denial.
AtDecision(b, d) == IF now >= b.expires THEN "deny" ELSE d

Finish(c, d) ==
    clients' = [clients EXCEPT ![c].pc = "commit", ![c].at = now,
                               ![c].verdict = AtDecision(clients[c].bind, d)]

-----------------------------------------------------------------------------
\* POST /gate/tool-call

\* The window of a retry is that of the ticket or row it finds; a caller may
\* also name an earlier end.  A call without an action_id gets a fresh one.
Call(c) ==
    /\ At(c, "idle")
    /\ now + Window <= Horizon
    /\ \E a \in Actions, k \in Args, named \in BOOLEAN, e \in Time :
        /\ \/ e = IF Known(a) THEN rows[a].bind.expires ELSE now + Window
           \/ e \in now + 1 .. now + Window
        /\ named \/ (~Known(a) /\ \A o \in Clients : Act(o) # a)
        /\ clients' = [clients EXCEPT ![c] =
              [Idle EXCEPT !.pc = "reserve", !.op = "call", !.act = a, !.named = named,
                           !.bind = [args |-> k, policy |-> policy, expires |-> e]]]
    /\ UNCHANGED <<storeVars, policy, tickets, recent, askers, gates, history, restarts>>

\* reserveAction: the creator goes on to decide, a matching retry reads the
\* current state, anything else is answered 409.  The INSERT may fail; and so
\* may the read that follows it, when the row is there and nobody decides it.
Reserve(c) ==
    /\ At(c, "reserve")
    /\ \/ /\ ReserveToolAction(Act(c), clients[c].bind)
          /\ \/ ~Known(Act(c)) /\ Go(c, "rules")
             \/ Known(Act(c)) /\ rows[Act(c)].bind = clients[c].bind /\ Go(c, "poll")
             \/ Known(Act(c)) /\ rows[Act(c)].bind # clients[c].bind /\ Done(c)
          /\ UNCHANGED broken
       \/ Done(c) /\ UNCHANGED <<storeVars, broken>>
       \/ /\ ~Known(Act(c))
          /\ ReserveToolAction(Act(c), clients[c].bind)
          /\ Fail(Act(c))
          /\ Done(c)
    /\ UNCHANGED <<policy, tickets, recent, askers, gates, permits, refused, restarts>>

Rules(c) ==
    /\ At(c, "rules")
    /\ \/ Finish(c, "policy_approve")
       \/ Finish(c, "deny")
       \/ Go(c, "check")
    /\ UNCHANGED <<storeVars, policy, tickets, recent, askers, gates, history, restarts>>

\* repeatCheck and the branches HandleCall takes on its result.
Check(c) ==
    /\ At(c, "check")
    /\ LET k == clients[c].bind.args
           e == IF Forgotten(k) THEN Nothing ELSE recent[k]
           known == RepeatWindow > 0 /\ e.act # NoAction
           t == tickets[e.act]
       IN  /\ recent' = [recent EXCEPT ![k] = e]
           /\ \/ ~known /\ Go(c, "open")
              \/ known /\ ~t.decided /\ (IF clients[c].named THEN Finish(c, "deny") ELSE Go(c, "join"))
              \/ /\ known /\ t.decided
                 /\ IF Denying(t.state) THEN Finish(c, "deny")
                    ELSE IF Allowing(t.state) /\ Remember THEN Finish(c, "policy_approve")
                    ELSE IF MaxRepeats > 0 /\ e.asks >= MaxRepeats THEN Finish(c, "deny")
                    ELSE Go(c, "open")
    /\ UNCHANGED <<storeVars, policy, tickets, askers, gates, history, restarts>>

\* A call without its own id joins the pending ticket: its id is closed
\* without a receipt and the caller is told to poll the other one.
Join(c) ==
    /\ At(c, "join")
    /\ \/ DecideToolAction(Act(c)) /\ UNCHANGED broken
       \/ Fail(Act(c)) /\ UNCHANGED storeVars
    /\ Done(c)
    /\ UNCHANGED <<policy, tickets, recent, askers, gates, permits, refused, restarts>>

\* newTicket, and the goroutine that asks the operator.
Open(c) ==
    /\ At(c, "open")
    /\ LET a == Act(c)
           k == clients[c].bind.args
           e == IF Forgotten(k) THEN Nothing ELSE recent[k]
       IN  /\ tickets' = [tickets EXCEPT ![a] = NewTicket]
           /\ recent' = [x \in Args |->
                 IF x = k THEN [act |-> a, asks |-> e.asks + 1, last |-> now]
                 ELSE IF Forgotten(x) THEN Nothing ELSE recent[x]]
           /\ askers' = [askers EXCEPT ![a] = [Off EXCEPT !.pc = "begin"]]
    /\ Go(c, "holdSync") \/ Go(c, "holdWait") \/ Done(c)
    /\ UNCHANGED <<storeVars, policy, gates, history, restarts>>

\* finishAction's transaction, and what follows it once the mutexes are free.
Commit(c) ==
    /\ At(c, "commit")
    /\ \/ /\ DecideToolActionWithReceipt(Act(c), clients[c].bind, clients[c].verdict, clients[c].at)
          /\ clients' = [clients EXCEPT ![c].pc = "settle", ![c].seen = rows'[Act(c)].status]
          /\ UNCHANGED broken
       \/ /\ Fail(Act(c))
          /\ clients' = [clients EXCEPT ![c].pc = "settle", ![c].seen = "unavailable"]
          /\ UNCHANGED storeVars
    /\ UNCHANGED <<policy, tickets, recent, askers, gates, permits, refused, restarts>>

Settle(c) ==
    /\ At(c, "settle")
    /\ LET a == Act(c)
           t == IF tickets[a].state = "absent" THEN NewTicket ELSE tickets[a]
       IN  /\ tickets' = [tickets EXCEPT ![a] = Updated(t, clients[c].seen)]
           /\ Tell(a, clients[c].seen)
    /\ Done(c)
    /\ UNCHANGED <<storeVars, policy, recent, askers, gates, permits, broken, restarts>>

\* The request holds until its ticket is decided.
HoldAnswered(c) ==
    /\ clients[c].pc \in {"holdSync", "holdWait"}
    /\ tickets[Act(c)].decided
    /\ Tell(Act(c), tickets[Act(c)].state)
    /\ Done(c)
    /\ UNCHANGED <<storeVars, policy, tickets, recent, askers, gates, permits, broken, restarts>>

\* A bounded hold elapses: 202 pending, the prompt goes on.
HoldElapsed(c) ==
    /\ At(c, "holdWait")
    /\ Done(c)
    /\ UNCHANGED <<storeVars, policy, tickets, recent, askers, gates, history, restarts>>

\* A plain sync request ends with its window (answered "denied" on its own
\* clock) or with its caller; either ends the prompt's context with it.
HoldClosed(c) ==
    /\ At(c, "holdSync")
    /\ ~tickets[Act(c)].decided
    /\ \/ now >= clients[c].bind.expires /\ Tell(Act(c), "denied")
       \/ UNCHANGED refused
    /\ tickets' = [tickets EXCEPT ![Act(c)].cut = TRUE]
    /\ Done(c)
    /\ UNCHANGED <<storeVars, policy, recent, askers, gates, permits, broken, restarts>>

-----------------------------------------------------------------------------
\* askHuman

AskerBegin(a) ==
    /\ AskerAt(a, "begin")
    /\ \/ /\ gates' = [gates EXCEPT ![a] = "pending"]
          /\ AskerGo(a, "arm")
          /\ UNCHANGED <<tickets, broken>>
       \/ /\ Fail(a)
          /\ UpdateTicket(a, "unavailable")
          /\ AskerGo(a, "over")
          /\ UNCHANGED gates
    /\ UNCHANGED <<storeVars, policy, recent, clients, permits, refused, restarts>>

\* Under the ticket's mutex: a ticket decided meanwhile is never prompted for.
AskerArm(a) ==
    /\ AskerAt(a, "arm")
    /\ IF tickets[a].decided
       THEN /\ gates' = [gates EXCEPT ![a] = "resolved"]
            /\ AskerGo(a, "over")
            /\ UNCHANGED tickets
       ELSE /\ tickets' = [tickets EXCEPT ![a].armed = TRUE]
            /\ AskerGo(a, "prompt")
            /\ UNCHANGED gates
    /\ UNCHANGED <<storeVars, policy, recent, clients, history, restarts>>

\* SendForApproval returns: the operator's tap, or a failed channel.
Tap(a) ==
    /\ AskerAt(a, "prompt")
    /\ \E d \in {"approve", "deny"} :
        askers' = [askers EXCEPT ![a].pc = "resolve", ![a].verdict = d]
    /\ UNCHANGED <<storeVars, policy, tickets, recent, clients, gates, history, restarts>>

\* Mutant: a closed prompt decides nothing.
PromptEndsUndecided(a) ==
    /\ AskerAt(a, "prompt")
    /\ tickets[a].cut \/ now >= rows[a].bind.expires
    /\ AskerGo(a, "over")
    /\ UNCHANGED <<storeVars, policy, tickets, recent, clients, gates, history, restarts>>

\* ... or its context: the window closed, the ticket was decided, or the sync
\* caller went away.
PromptEnds(a) ==
    /\ AskerAt(a, "prompt")
    /\ tickets[a].cut \/ now >= rows[a].bind.expires
    /\ askers' = [askers EXCEPT ![a].pc = "resolve", ![a].verdict = "deny"]
    /\ UNCHANGED <<storeVars, policy, tickets, recent, clients, gates, history, restarts>>

AskerResolve(a) ==
    /\ AskerAt(a, "resolve")
    /\ \/ /\ gates' = [gates EXCEPT ![a] = "resolved"]
          /\ AskerGo(a, "verdict")
          /\ UNCHANGED <<tickets, broken>>
       \/ /\ Fail(a)
          /\ UpdateTicket(a, "unavailable")
          /\ AskerGo(a, "over")
          /\ UNCHANGED gates
    /\ UNCHANGED <<storeVars, policy, recent, clients, permits, refused, restarts>>

\* A ticket answered while the prompt was open keeps its answer.
AskerVerdict(a) ==
    /\ AskerAt(a, "verdict")
    /\ IF tickets[a].decided /\ tickets[a].state # "pending"
       THEN AskerGo(a, "over")
       ELSE askers' = [askers EXCEPT ![a].pc = "commit", ![a].at = now,
                          ![a].verdict = AtDecision(rows[a].bind, @)]
    /\ UNCHANGED <<storeVars, policy, tickets, recent, clients, gates, history, restarts>>

\* Mutants: the ticket is told the verdict, even of a commit that failed; the
\* decision is written without its receipt.
AskerCommitUnchecked(a) ==
    /\ AskerAt(a, "commit")
    /\ askers' = [askers EXCEPT ![a].pc = "settle",
                     ![a].seen = IF askers[a].verdict = "deny" THEN "denied" ELSE "allowed"]
    /\ \/ /\ DecideToolActionWithReceipt(a, rows[a].bind, askers[a].verdict, askers[a].at)
          /\ UNCHANGED broken
       \/ Fail(a) /\ UNCHANGED storeVars
    /\ UNCHANGED <<policy, tickets, recent, clients, gates, permits, refused, restarts>>
AskerCommitBare(a) ==
    /\ AskerAt(a, "commit")
    /\ IF rows[a].status = "pending" THEN Write(a, Decided(rows[a], askers[a].verdict)) ELSE UNCHANGED rows
    /\ askers' = [askers EXCEPT ![a].pc = "settle", ![a].seen = rows'[a].status]
    /\ UNCHANGED <<receipts, outcomes, now, policy, tickets, recent, clients, gates, history, restarts>>

AskerCommit(a) ==
    /\ AskerAt(a, "commit")
    /\ \/ /\ DecideToolActionWithReceipt(a, rows[a].bind, askers[a].verdict, askers[a].at)
          /\ askers' = [askers EXCEPT ![a].pc = "settle", ![a].seen = rows'[a].status]
          /\ UNCHANGED broken
       \/ /\ Fail(a)
          /\ askers' = [askers EXCEPT ![a].pc = "settle", ![a].seen = "unavailable"]
          /\ UNCHANGED storeVars
    /\ UNCHANGED <<policy, tickets, recent, clients, gates, permits, refused, restarts>>

\* Mutant: the ticket is not told.
AskerSettleSilent(a) ==
    /\ AskerAt(a, "settle")
    /\ AskerGo(a, "over")
    /\ UNCHANGED <<storeVars, policy, tickets, recent, clients, gates, history, restarts>>

AskerSettle(a) ==
    /\ AskerAt(a, "settle")
    /\ UpdateTicket(a, askers[a].seen)
    /\ AskerGo(a, "over")
    /\ UNCHANGED <<storeVars, policy, recent, clients, gates, history, restarts>>

-----------------------------------------------------------------------------
\* GET /gate/tool-call/<id>, and the consume, revoke and complete transitions

\* A status read, a consume, and the read that ends a complete all start with
\* actionResponse.  The caller presents some binding with a consume.
Ask(c) ==
    /\ At(c, "idle")
    /\ \E a \in Actions, op \in {"status", "consume"}, k \in Args :
        /\ Known(a)
        /\ clients' = [clients EXCEPT ![c] =
              [Idle EXCEPT !.pc = "poll", !.op = op, !.act = a,
                           !.bind = [rows[a].bind EXCEPT !.args = k]]]
    /\ UNCHANGED <<storeVars, policy, tickets, recent, askers, gates, history, restarts>>

\* actionResponse reads the row after closing it if it is no longer valid; a
\* pending one whose decision was lost is answered as its ticket was.  The reads
\* around the UPDATE change nothing and are one step with it; any of them may
\* fail, before it or after it, and tells the ticket nothing.
PollRead(c) ==
    /\ At(c, "poll")
    /\ LET a == Act(c)
           lost == rows'[a].status = "pending" /\ tickets[a].state = "unavailable"
       IN  \/ /\ NormalizeToolAction(a, policy, now)
              /\ \/ lost /\ Tell(a, "unavailable") /\ Done(c)
                 \/ /\ ~lost
                    /\ clients' = [clients EXCEPT ![c].pc = "pollSet", ![c].seen = rows'[a].status]
                    /\ UNCHANGED refused
                 \/ Done(c) /\ UNCHANGED refused
           \/ Done(c) /\ UNCHANGED <<storeVars, refused>>
    /\ UNCHANGED <<policy, tickets, recent, askers, gates, permits, broken, restarts>>

\* ... and then writes what it read to the ticket.
PollSet(c) ==
    /\ At(c, "pollSet")
    /\ UpdateTicket(Act(c), clients[c].seen)
    /\ IF clients[c].op = "consume"
       THEN /\ \/ /\ clients[c].seen = "allowed"
                  /\ clients[c].bind = rows[Act(c)].bind
                  /\ clients' = [clients EXCEPT ![c].pc = "spend", ![c].at = now]
               \/ Done(c)     \* not consumable, frozen, a failed precondition or read
       ELSE Done(c)
    /\ Tell(Act(c), clients[c].seen)
    /\ UNCHANGED <<storeVars, policy, recent, askers, gates, permits, broken, restarts>>

\* Of the consumes of one permit, the one that finds it consumable wins.  One
\* that fails leaves the permit to the next.
Spend(c) ==
    /\ At(c, "spend")
    /\ LET a == Act(c)
           b == clients[c].bind
           won == Consumable(a, b, clients[c].at)
       IN  \/ /\ ConsumeToolActionWithReceipt(a, b, clients[c].at)
              /\ clients' = [clients EXCEPT ![c].pc = IF won THEN "wonSet" ELSE "lostSet",
                                           ![c].seen = rows'[a].status]
           \/ Done(c) /\ UNCHANGED storeVars
    /\ UNCHANGED <<policy, tickets, recent, askers, gates, history, restarts>>

\* Only the winner is answered "permit: execute".
SpendSet(c) ==
    /\ clients[c].pc \in {"wonSet", "lostSet"}
    /\ UpdateTicket(Act(c), clients[c].seen)
    /\ permits' = IF At(c, "wonSet") THEN [permits EXCEPT ![Act(c)] = @ + 1] ELSE permits
    /\ Tell(Act(c), clients[c].seen)
    /\ Done(c)
    /\ UNCHANGED <<storeVars, policy, recent, askers, gates, broken, restarts>>

\* The UPDATE, and the read of what it left; either may fail.
Revoke(c) ==
    /\ At(c, "idle")
    /\ \E a \in Actions, k \in Args :
        /\ Known(a)
        /\ \/ /\ CancelToolAction(a, [rows[a].bind EXCEPT !.args = k])
              /\ \/ clients' = [clients EXCEPT ![c] =
                       [Idle EXCEPT !.pc = "revokeSet", !.act = a, !.seen = rows'[a].status]]
                 \/ Done(c)
           \/ Done(c) /\ UNCHANGED storeVars
    /\ UNCHANGED <<policy, tickets, recent, askers, gates, history, restarts>>

RevokeSet(c) ==
    /\ At(c, "revokeSet")
    /\ UpdateTicket(Act(c), clients[c].seen)
    /\ Tell(Act(c), clients[c].seen)
    /\ Done(c)
    /\ UNCHANGED <<storeVars, policy, recent, askers, gates, permits, broken, restarts>>

Complete(c) ==
    /\ At(c, "idle")
    /\ \E a \in Actions, k \in Args, o \in Results :
        /\ Known(a)
        /\ \/ /\ CompleteToolAction(a, [rows[a].bind EXCEPT !.args = k], o)
              /\ clients' = [clients EXCEPT ![c] =
                    [Idle EXCEPT !.pc = "poll", !.op = "status", !.act = a]]
           \/ Done(c) /\ UNCHANGED storeVars
    /\ UNCHANGED <<policy, tickets, recent, askers, gates, history, restarts>>

-----------------------------------------------------------------------------

\* Mutant: the boot does not reconcile the prompts a dead process left open.
RestartUnreconciled ==
    /\ restarts < MaxRestarts
    /\ restarts' = restarts + 1
    /\ ExpireToolActions(now)
    /\ policy' \in Policies
    /\ tickets' = [a \in Actions |-> NoTicket]
    /\ recent' = [k \in Args |-> Nothing]
    /\ clients' = [c \in Clients |-> IF At(c, "idle") THEN Idle ELSE Answered]
    /\ askers' = [a \in Actions |-> Off]
    /\ UNCHANGED <<gates, history>>

\* The process dies, with all it held in memory, and boots again, perhaps
\* with another configuration: open prompts are reconciled, permits expired.
Restart ==
    /\ restarts < MaxRestarts
    /\ restarts' = restarts + 1
    /\ ExpireToolActions(now)
    /\ policy' \in Policies
    /\ tickets' = [a \in Actions |-> NoTicket]
    /\ recent' = [k \in Args |-> Nothing]
    /\ clients' = [c \in Clients |-> IF At(c, "idle") THEN Idle ELSE Answered]
    /\ askers' = [a \in Actions |-> Off]
    /\ gates' = [a \in Actions |-> IF gates[a] = "pending" THEN "interrupted" ELSE gates[a]]
    /\ UNCHANGED history

TimePasses == Tick /\ UNCHANGED <<gateVars, history, restarts>>

-----------------------------------------------------------------------------
Init ==
    /\ StoreInit
    /\ policy \in Policies
    /\ tickets = [a \in Actions |-> NoTicket]
    /\ recent = [k \in Args |-> Nothing]
    /\ clients = [c \in Clients |-> Idle]
    /\ askers = [a \in Actions |-> Off]
    /\ gates = [a \in Actions |-> "none"]
    /\ permits = [a \in Actions |-> 0]
    /\ refused = {}
    /\ broken = {}
    /\ restarts = 0

\* Steps the running process takes on its own once a request is in.
ClientStep(c) ==
    \/ Reserve(c) \/ Rules(c) \/ Check(c) \/ Join(c) \/ Open(c) \/ Commit(c) \/ Settle(c)
    \/ HoldAnswered(c) \/ PollRead(c) \/ PollSet(c) \/ Spend(c) \/ SpendSet(c) \/ RevokeSet(c)

\* Steps that wait for the outside: a new request, a caller that leaves.
CallerStep(c) ==
    Call(c) \/ Ask(c) \/ Revoke(c) \/ Complete(c) \/ HoldElapsed(c) \/ HoldClosed(c)

AskerStep(a) ==
    \/ AskerBegin(a) \/ AskerArm(a) \/ PromptEnds(a)
    \/ AskerResolve(a) \/ AskerVerdict(a) \/ AskerCommit(a) \/ AskerSettle(a)

Next ==
    \/ \E c \in Clients : ClientStep(c) \/ CallerStep(c)
    \/ \E a \in Actions : AskerStep(a) \/ Tap(a)
    \/ Restart
    \/ TimePasses

Spec == Init /\ [][Next]_vars

\* Goroutines are scheduled; operators and callers owe nothing.
ScheduledSpec ==
    /\ Spec
    /\ \A c \in Clients : WF_vars(ClientStep(c))
    /\ \A a \in Actions : WF_vars(AskerStep(a))

-----------------------------------------------------------------------------
\* Safety.

GateTypeOK ==
    /\ TypeOK
    /\ policy \in Policies
    /\ tickets \in [Actions -> Ticket]
    /\ recent \in [Args -> [act : Actions \cup {NoAction}, asks : Nat, last : Time]]
    /\ clients \in [Clients -> Client]
    /\ askers \in [Actions -> Asker]
    /\ gates \in [Actions -> {"none", "pending", "resolved", "interrupted"}]
    /\ permits \in [Actions -> Nat]
    /\ refused \subseteq Actions
    /\ broken \subseteq Actions
    /\ restarts \in Nat

\* However many consumes race, polls and revokes interleave and processes
\* restart, "permit: execute" is answered once per action id at most, and only
\* for a permit that is spent in the ledger.
ExecuteOnce ==
    \A a \in Actions :
        /\ permits[a] <= 1
        /\ permits[a] = 1 => rows[a].status = "consumed"

\* A decision against an action that a caller was told (denied, expired,
\* revoked, a decision that could not be written, or the timeout a sync request
\* answers on its own clock) is final: nobody is told to execute it.  It is not
\* so of an answer that decides nothing: see UnservedIsNotAllowed.
DenialIsFinal ==
    \A a \in refused : permits[a] = 0

Deciding(c, a) == clients[c].pc \in DecidingPcs /\ Act(c) = a
Asking(a) == askers[a].pc \notin {"off", "over"}

\* Retries and concurrent deliveries of one action id never put two deciders
\* on it: the request that created the row decides, then its asker does.
OneDecider ==
    \A a \in Actions :
        /\ \A c, d \in Clients : Deciding(c, a) /\ Deciding(d, a) => c = d
        /\ Asking(a) => \A c \in Clients : ~Deciding(c, a)

\* An undecided action always has somebody who will decide it, unless a store
\* failure took its decision (the window then closes it).
NoOrphanedAction ==
    \A a \in Actions :
        rows[a].status = "pending" /\ a \notin broken =>
            Asking(a) \/ \E c \in Clients : Deciding(c, a)

\* What an answered ticket says is what the ledger says, or was overtaken by
\* a later close or consume of an allowed permit.
TicketAgreesWithLedger ==
    \A a \in Actions :
        LET s == tickets[a].state IN
        /\ s \in {"denied", "expired", "revoked", "consumed"} => rows[a].status = s
        /\ s = "allowed" => rows[a].status \in {"allowed", "consumed", "expired", "revoked"}

\* A prompt on the operator's screen has its pending_approvals row, so a crash
\* can be reconciled; and the row of a prompt that ended is closed, unless
\* closing it failed.
PromptIsRecorded ==
    \A a \in Actions :
        /\ askers[a].pc \in {"arm", "prompt", "resolve"} => gates[a] = "pending"
        /\ gates[a] = "pending" => Asking(a) \/ a \in broken

\* A ticket that is not answered yet is being asked about: a request that joins
\* or holds on it does not wait for nobody.
OpenTicketIsAsked ==
    \A a \in Actions : tickets[a].state # "absent" /\ ~tickets[a].decided => Asking(a)

\* remember_approval reuses only what the ledger approved: the action it
\* remembers has its approval receipt, whatever races settled its ticket.
RememberedApprovalIsReal ==
    [][\A c \in Clients :
         LET a == recent[clients[c].bind.args].act IN
         At(c, "check") /\ clients'[c].pc = "commit" /\ clients'[c].verdict = "policy_approve" =>
             receipts[a] # <<>> /\ receipts[a][1] \in Approvals(rows[a].bind)]_vars

\* Only the operator's tap allows an asked action: an approval receipt signed
\* "approve" needs a prompt that was recorded and answered.
OperatorApprovalWasAsked ==
    \A a \in Actions :
        receipts[a] # <<>> /\ receipts[a][1].decision = "approve" =>
            gates[a] = "resolved"

\* An undecided action has exactly one who will decide it.
ExactlyOneDecider == OneDecider /\ NoOrphanedAction

\* What callers, waiting requests and the operator's screen were told is what
\* the ledger and the rows a crash is reconciled from say.
AnswersAreTrue ==
    DenialIsFinal /\ TicketAgreesWithLedger /\ PromptIsRecorded /\ OperatorApprovalWasAsked

\* The gate drives the ledger only through its statements, and keeps the
\* callers' disciplines the ledger's own properties rest on.
GateUsesLedger == StoreSpec

-----------------------------------------------------------------------------
\* Liveness, under ScheduledSpec.

TimeGoesOn == WF_vars(TimePasses)

\* If time passes, every prompt ends, whatever the operator does, by its window
\* at the latest; and every request that waits for a decision is answered or
\* gives up.
WaitsEnd ==
    TimeGoesOn =>
        /\ \A a \in Actions : Asking(a) ~> ~Asking(a)
        /\ \A c \in Clients :
             clients[c].pc \in {"holdSync", "holdWait"} ~> clients[c].pc \notin {"holdSync", "holdWait"}

\* A prompt whose ticket was answered from elsewhere (a revoke, a poll that
\* found the permit lapsed) closes without the operator and without waiting for
\* its window: under ScheduledSpec time may stand still.
AnsweredPromptCloses ==
    \A a \in Actions : tickets[a].decided /\ AskerAt(a, "prompt") ~> ~AskerAt(a, "prompt")

-----------------------------------------------------------------------------
\* What comments of tool_gate.go and tool_lifecycle.go say, and the code does
\* not do.

\* "updateTicket wakes all waiters on a terminal state and interrupts the
\* operator prompt": an action the ledger refused does not keep its prompt open.
RefusedPromptCloses ==
    \A a \in Actions : rows[a].status \in {"revoked", "expired"} ~> ~AskerAt(a, "prompt")

\* "Inside repeat_window a call the gate already denied is denied again
\* without asking": the check lets no call through to a fresh prompt while the
\* ticket it remembers was answered and its action is denied in the ledger.
DenialIsRemembered ==
    [][\A c \in Clients :
         LET e == recent[clients[c].bind.args] IN
         At(c, "check") /\ clients'[c].pc = "open" /\ e.act # NoAction =>
             ~(tickets[e.act].decided /\ rows[e.act].status = "denied")]_vars

\* "durable approval state or audit unavailable; no execution authorized", with
\* decision deny and state denied: a poll or a consume that is answered so
\* leaves no permit that somebody may still spend.
UnservedIsNotAllowed ==
    [][\A c \in Clients :
         clients[c].pc \in {"poll", "spend"} /\ clients'[c].pc = "answered" /\ restarts' = restarts =>
             rows'[Act(c)].status # "allowed"]_vars

\* "an in-flight identical call joins the pending decision": the operator
\* never has two prompts for one identical call.
OnePromptPerCall ==
    \A a, b \in Actions :
        AskerAt(a, "prompt") /\ AskerAt(b, "prompt") /\ rows[a].bind.args = rows[b].bind.args => a = b

=============================================================================
