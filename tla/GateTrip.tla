------------------------------ MODULE GateTrip ------------------------------
(***************************************************************************)
(* The freeze of the whole gate and of one agent (gate_freeze.go), and the *)
(* trip that sets it after enough denials (gate_trip.go), as the handlers  *)
(* of tool calls and consumes meet them (tool_gate.go).                    *)
(*                                                                         *)
(* The freezes are two rows of the state store, written by the engine, by  *)
(* an operator's command and by a second shell; the counts are memory of   *)
(* the engine.  What the rules and the operators answer is any of allow,   *)
(* a denial that counts and one that does not: CapLedger models the rules, *)
(* ToolGate the prompt and the permit's other states.                      *)
(***************************************************************************)
EXTENDS Integers, FiniteSets

CONSTANTS
    Agents,
    Calls,          \* bound: the tool calls of a behaviour
    Denials,        \* tool_gate.trip.denials
    Within,         \* tool_gate.trip.within
    Scopes,         \* the tool_gate.trip.scope values the instance tries
    Lag,            \* longest a handler is held up between its clock and tripMu
    Horizon,        \* bound: the last tick
    MaxFaults,      \* bound: freeze statements that fail
    MaxRestarts,    \* bound: restarts
    NoAgent

TripAssumption ==
    /\ Denials \in Nat \ {0, 1}
    /\ Within \in Nat \ {0}
    /\ {Lag, Horizon, MaxFaults, MaxRestarts} \subseteq Nat
    /\ Scopes \subseteq {"agent", "gate"}
    /\ NoAgent \notin Agents /\ "gate" \notin Agents

VARIABLES
    now,
    scope,          \* tool_gate.trip.scope
    gateFreeze,     \* who froze the gate, "" when it is not frozen
    agentFreeze,    \* the same, per agent
    trips,          \* g.trips: per agent the denials counted, as their calls
    latest,         \* the clock of the one counted last
    tripSwept,      \* g.tripSwept
    calls,          \* handlers, one call or consume at a time per action
    tripped,        \* history: the denials each trip was made of
    stops,          \* history: the freezes somebody was told of, not lifted
    faults,
    restarts

freezeVars == <<gateFreeze, agentFreeze>>
countVars == <<trips, latest, tripSwept>>
bounds == <<faults, restarts>>
vars == <<now, scope, freezeVars, countVars, calls, tripped, stops, bounds>>

-----------------------------------------------------------------------------
Time == 0 .. Horizon
Who == {"", "operator", "trip"}

Pcs == {"idle", "gate", "agent", "rules", "count", "trip", "answer",
        "permit", "consumeGate", "consumeAgent", "spend", "over"}

\* at: the clock read for the count; counted: it is in this process's count;
\* froze: its trip stored a freeze nobody lifted yet; barred: the stops that
\* were on when the request came and still are.
CallRecord == [pc : Pcs, agent : Agents \cup {NoAgent}, at : Time, counted : BOOLEAN,
               allowed : BOOLEAN, spent : BOOLEAN, froze : BOOLEAN,
               barred : SUBSET (Agents \cup {"gate"})]

NoCall == [pc |-> "idle", agent |-> NoAgent, at |-> 0, counted |-> FALSE,
           allowed |-> FALSE, spent |-> FALSE, froze |-> FALSE, barred |-> {}]

At(c, p) == calls[c].pc = p
Go(c, p) == calls' = [calls EXCEPT ![c].pc = p]
Agent(c) == calls[c].agent

Fault == faults < MaxFaults /\ faults' = faults + 1

\* What stops an agent's calls.
StopsOf(a) == stops \cap {a, "gate"}

\* A call denied without being counted, and a permit left as it was.
Refuse(c) == calls' = [calls EXCEPT ![c].pc = "over", ![c].barred = {}]
Keep(c) == calls' = [calls EXCEPT ![c].pc = "permit", ![c].barred = {}]

-----------------------------------------------------------------------------
\* HandleCall.  A freeze that cannot be read freezes; neither denial counts.

Arrive(c) ==
    /\ At(c, "idle")
    /\ \E a \in Agents :
        calls' = [calls EXCEPT ![c].pc = "gate", ![c].agent = a, ![c].barred = StopsOf(a)]
    /\ UNCHANGED <<now, scope, freezeVars, countVars, tripped, stops, bounds>>

\* One freeze is read: frozen or unreadable ends the request, else it goes on.
\* Mutant: a freeze that cannot be read lets the request pass.
ReadFreezeOpen(c, frozen, next) ==
    /\ \/ frozen /\ Refuse(c) /\ UNCHANGED faults
       \/ ~frozen /\ Go(c, next) /\ UNCHANGED faults
       \/ Fault /\ Go(c, next)
    /\ UNCHANGED <<now, scope, freezeVars, countVars, tripped, stops, restarts>>

ReadFreeze(c, frozen, next) ==
    /\ \/ frozen /\ Refuse(c) /\ UNCHANGED faults
       \/ ~frozen /\ Go(c, next) /\ UNCHANGED faults
       \/ Fault /\ Refuse(c)
    /\ UNCHANGED <<now, scope, freezeVars, countVars, tripped, stops, restarts>>

Frozen(c) == At(c, "gate") /\ ReadFreeze(c, gateFreeze # "", "agent")
AgentFrozen(c) == At(c, "agent") /\ ReadFreeze(c, agentFreeze[Agent(c)] # "", "rules")

\* The rules, a grant, the repeat guard or (ticks later) an operator answer;
\* finishAction counts a denial that is about the call, the clock read first.
Decide(c) ==
    /\ At(c, "rules")
    /\ \/ calls' = [calls EXCEPT ![c].pc = "permit", ![c].allowed = TRUE]
       \/ Refuse(c)
       \/ calls' = [calls EXCEPT ![c].pc = "count", ![c].at = now]
    /\ UNCHANGED <<now, scope, freezeVars, countVars, tripped, stops, bounds>>

\* A sweep starts when the last one is a window ago; it drops the agents
\* whose last counted denial is out of the window.
Sweeping(t) == t - tripSwept > Within
Stale(a, t) == trips[a] = {} \/ t - latest[a] > Within

Swept(t) == [a \in Agents |-> IF Sweeping(t) /\ Stale(a, t) THEN {} ELSE trips[a]]

Recent(s, t) == {e \in s : t - calls[e].at <= Within}

\* Mutant: the count that tripped is kept.
CountDenialKept(c) ==
    LET a == Agent(c)
        t == calls[c].at
        evs == Recent(Swept(t)[a], t) \cup {c}
        full == Cardinality(evs) >= Denials
    IN  /\ At(c, "count")
        /\ trips' = [Swept(t) EXCEPT ![a] = evs]
        /\ latest' = [latest EXCEPT ![a] = t]
        /\ tripSwept' = IF Sweeping(t) THEN t ELSE tripSwept
        /\ tripped' = IF full THEN tripped \cup {evs} ELSE tripped
        /\ calls' = [calls EXCEPT ![c].counted = TRUE,
                                  ![c].pc = IF full THEN "trip" ELSE "answer"]
        /\ UNCHANGED <<now, scope, freezeVars, stops, bounds>>

\* countDenial, under tripMu.
CountDenial(c) ==
    LET a == Agent(c)
        t == calls[c].at
        evs == Recent(Swept(t)[a], t) \cup {c}
        full == Cardinality(evs) >= Denials
    IN  /\ At(c, "count")
        /\ trips' = [Swept(t) EXCEPT ![a] = IF full THEN {} ELSE evs]
        /\ latest' = [latest EXCEPT ![a] = t]
        /\ tripSwept' = IF Sweeping(t) THEN t ELSE tripSwept
        /\ tripped' = IF full THEN tripped \cup {evs} ELSE tripped
        /\ calls' = [calls EXCEPT ![c].counted = TRUE,
                                  ![c].pc = IF full THEN "trip" ELSE "answer"]
        /\ UNCHANGED <<now, scope, freezeVars, stops, bounds>>

\* SetGateFreeze, SetAgentFreeze: the first freeze keeps who set it.
Freeze(f, who) == IF f = "" THEN who ELSE f

\* trip: the count already started over when the freeze is stored, or is not.
Trip(c) ==
    /\ At(c, "trip")
    /\ \/ /\ IF scope = "gate"
             THEN gateFreeze' = Freeze(gateFreeze, "trip") /\ UNCHANGED agentFreeze
             ELSE /\ agentFreeze' = [agentFreeze EXCEPT ![Agent(c)] = Freeze(@, "trip")]
                  /\ UNCHANGED gateFreeze
          /\ calls' = [calls EXCEPT ![c].pc = "answer", ![c].froze = TRUE]
          /\ UNCHANGED faults
       \/ Fault /\ Go(c, "answer") /\ UNCHANGED freezeVars
    /\ UNCHANGED <<now, scope, countVars, tripped, stops, restarts>>

\* The ticket resolves and the caller is answered.
Answer(c) ==
    /\ At(c, "answer")
    /\ stops' = IF ~calls[c].froze THEN stops
                ELSE stops \cup {IF scope = "gate" THEN "gate" ELSE Agent(c)}
    /\ calls' = [calls EXCEPT ![c].pc = "over", ![c].froze = FALSE, ![c].barred = {}]
    /\ UNCHANGED <<now, scope, freezeVars, countVars, tripped, bounds>>

-----------------------------------------------------------------------------
\* handleConsume: the two freezes are read one after the other, then the
\* permit is taken in a transaction that does not look at them.

Consume(c) ==
    /\ At(c, "permit")
    /\ calls' = [calls EXCEPT ![c].pc = "consumeGate", ![c].barred = StopsOf(Agent(c))]
    /\ UNCHANGED <<now, scope, freezeVars, countVars, tripped, stops, bounds>>

\* Refused or unreadable: the permit is left as it was.
ReadAtConsume(c, frozen, next) ==
    /\ \/ frozen /\ Keep(c) /\ UNCHANGED faults
       \/ ~frozen /\ Go(c, next) /\ UNCHANGED faults
       \/ Fault /\ Keep(c)
    /\ UNCHANGED <<now, scope, freezeVars, countVars, tripped, stops, restarts>>

ConsumeGate(c) == At(c, "consumeGate") /\ ReadAtConsume(c, gateFreeze # "", "consumeAgent")
ConsumeAgent(c) ==
    At(c, "consumeAgent") /\ ReadAtConsume(c, agentFreeze[Agent(c)] # "", "spend")

Spend(c) ==
    /\ At(c, "spend")
    /\ calls' = [calls EXCEPT ![c].pc = "over", ![c].spent = TRUE]
    /\ UNCHANGED <<now, scope, freezeVars, countVars, tripped, stops, bounds>>

-----------------------------------------------------------------------------
\* freezeCommand and gateFreezeCmd, one statement each.

OperatorFreeze ==
    /\ gateFreeze = ""
    /\ gateFreeze' = Freeze(gateFreeze, "operator")
    /\ stops' = stops \cup {"gate"}
    /\ UNCHANGED <<now, scope, agentFreeze, countVars, calls, tripped, bounds>>

\* Whoever lifts x releases the requests it stopped.
Released(x) ==
    calls' = [c \in Calls |->
        [calls[c] EXCEPT !.barred = @ \ {x},
                         !.froze = @ /\ x # IF scope = "gate" THEN "gate" ELSE Agent(c)]]

OperatorUnfreeze ==
    /\ \/ /\ gateFreeze # "" /\ gateFreeze' = ""
          /\ stops' = stops \ {"gate"} /\ Released("gate")
          /\ UNCHANGED agentFreeze
       \/ \E a \in Agents :
            /\ agentFreeze[a] # "" /\ agentFreeze' = [agentFreeze EXCEPT ![a] = ""]
            /\ stops' = stops \ {a} /\ Released(a)
            /\ UNCHANGED gateFreeze
    /\ UNCHANGED <<now, scope, countVars, tripped, bounds>>

\* The engine's handlers and counts are gone, the freezes are not; a permit
\* can be consumed after the restart.
NeverSwept == 0 - Within - 1
Interrupted(c) ==
    [calls[c] EXCEPT !.counted = FALSE, !.froze = FALSE, !.barred = {},
                     !.pc = CASE calls[c].allowed /\ ~calls[c].spent -> "permit"
                              [] @ = "idle" -> "idle"
                              [] OTHER -> "over"]
Restart ==
    /\ restarts < MaxRestarts
    /\ restarts' = restarts + 1
    /\ calls' = [c \in Calls |-> Interrupted(c)]
    /\ trips' = [a \in Agents |-> {}]
    /\ tripSwept' = NeverSwept
    /\ UNCHANGED <<now, latest, scope, freezeVars, tripped, stops, faults>>

Tick ==
    /\ now < Horizon
    /\ \A c \in Calls : At(c, "count") => now - calls[c].at < Lag
    /\ now' = now + 1
    /\ UNCHANGED <<scope, freezeVars, countVars, calls, tripped, stops, bounds>>

Init ==
    /\ now = 0 /\ scope \in Scopes
    /\ gateFreeze = "" /\ agentFreeze = [a \in Agents |-> ""]
    /\ trips = [a \in Agents |-> {}] /\ latest = [a \in Agents |-> 0] /\ tripSwept = NeverSwept
    /\ calls = [c \in Calls |-> NoCall]
    /\ tripped = {} /\ stops = {} /\ faults = 0 /\ restarts = 0

Handle(c) ==
    \/ Arrive(c) \/ Frozen(c) \/ AgentFrozen(c) \/ Decide(c)
    \/ CountDenial(c) \/ Trip(c) \/ Answer(c)
    \/ Consume(c) \/ ConsumeGate(c) \/ ConsumeAgent(c) \/ Spend(c)

Next ==
    \/ \E c \in Calls : Handle(c)
    \/ OperatorFreeze \/ OperatorUnfreeze \/ Restart \/ Tick

Spec == Init /\ [][Next]_vars

-----------------------------------------------------------------------------
\* The types of the state; an agent's count stays below the threshold.
TripTypeOK ==
    /\ now \in Time /\ scope \in Scopes
    /\ gateFreeze \in Who /\ agentFreeze \in [Agents -> Who]
    /\ latest \in [Agents -> Time]
    /\ trips \in [Agents -> SUBSET Calls] /\ \A a \in Agents : Cardinality(trips[a]) < Denials
    /\ calls \in [Calls -> CallRecord]
    /\ tripped \subseteq SUBSET Calls
    /\ stops \subseteq Agents \cup {"gate"}

\* A trip is made of the threshold's number of one agent's counted denials,
\* none of which another trip was made of, no further apart than the window
\* and what a handler can be held up before it takes the lock (gate_trip.go:128).
TripIsEarned ==
    /\ \A S \in tripped :
        /\ Cardinality(S) = Denials
        /\ \A c, d \in S : /\ Agent(c) = Agent(d)
                           /\ calls[c].at - calls[d].at <= Within + Lag
    /\ \A S, T \in tripped : S = T \/ S \cap T = {}

\* No denial is dropped from its agent's count before the window has passed,
\* but for what a handler can be held up: neither by the sweep another
\* agent's denial starts nor by one counted out of order (gate_trip.go:128).
NoDenialLost ==
    \A c \in Calls :
        /\ calls[c].counted /\ now - calls[c].at <= Within - Lag
        /\ \A S \in tripped : c \notin S
        => c \in trips[Agent(c)]

\* From the moment an operator is told the gate is frozen, or the caller of
\* the call that tripped is answered, until the freeze is lifted, no call
\* that comes in is allowed and no permit is handed out to a request that
\* comes in, across restarts, unreadable rows and a trip that races an
\* operator (gate_freeze.go:51, gate_trip.go:72, tool_gate.go:609).
StoppedMeansStopped ==
    \A c \in Calls : calls[c].barred # {} => ~calls[c].spent /\ ~At(c, "permit")
=============================================================================
