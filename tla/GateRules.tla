------------------------------ MODULE GateRules ------------------------------
(***************************************************************************)
(* How a call lives under tool_gate's rules while they change: who may ask *)
(* (gate_callers.go), what the rules say (ToolPolicy), the definition file *)
(* a reload re-reads under running calls (tool_definition_file.go), the    *)
(* policy hash a permit is bound to, the settings a restart brings in, and *)
(* the candidate rules that decide beside the live ones (gate_shadow.go).  *)
(* One tool, one argument, one day.  A capped decision holds capMu from    *)
(* its reading to its store write, so it is one step; CapLedger has that   *)
(* mutex, the days and the grants in detail, PermitStore the permit.       *)
(***************************************************************************)
EXTENDS ToolPolicy, Functions

CONSTANTS
    Calls,           \* tool calls
    Callers,         \* named callers
    Settings,        \* the tool_gate sections config.yaml may hold
    Values,          \* the arguments calls carry
    Sent,            \* the definitions they carry, or none
    MaxEdits,        \* bound: reloads and restarts
    MaxGrants        \* bound: grant uses an operator issues

Shared == "webhook token"
Nobody == "nobody"

Setting == [rules : SUBSET Rule, callers : SUBSET Callers, limited : SUBSET Callers,
            requireCaller : BOOLEAN, shadow : SUBSET Rule]

AtMostOne(S) == \A x, y \in S : x = y

RulesAssumption ==
    /\ {MaxEdits, MaxGrants} \subseteq Nat
    /\ NoDefinition \notin Definitions /\ Sent \subseteq Definitions \cup {NoDefinition}
    /\ \A v \in Values : v \in Value /\ AtMostOne(v.num) /\ (v.num # {} => v.present)
    /\ \A s \in Settings :
          /\ s \in Setting /\ AtMostOne(s.rules) /\ AtMostOne(s.shadow)
          /\ \A r \in s.rules \cup s.shadow : AtMostOne(r.maxPerDay) /\ AtMostOne(r.maxCalls)

VARIABLES
    gate,            \* the settings the engine runs
    pinned,          \* what definition_file held when it was last read
    candidate,       \* liveShadow: the candidate's rules and what their file held
    calls,
    uses,            \* uses left on the tool's standing grant
    due,             \* comparisons under the candidate not made yet
    diffs,           \* gate_shadow_diffs
    edits,
    grantsIssued

vars == <<gate, pinned, candidate, calls, uses, due, diffs, edits, grantsIssued>>

\* A call not made yet; one that was denied or has expired, of which nothing is
\* asked any more, but whether it once made room (below).
NoCall == [pc |-> "idle"]
Ended(room) == [pc |-> "over", room |-> room]

-----------------------------------------------------------------------------
\* The calls that count toward today's totals, and what they add.
Standing == {c \in Calls : calls[c].pc \in {"allowed", "checked", "consumed"}}
TotalOf(S) == SumFunctionOnSet([c \in S |-> calls[c].amounts.arg], S)
CountOf(S) == SumFunctionOnSet([c \in S |-> calls[c].amounts.calls], S)

\* A human let a negative number through.
Negative(c) == calls[c].by = "operator" /\ \E n \in calls[c].value.num : n < 0

End(c) == calls' = [calls EXCEPT ![c] = Ended(c \in Standing /\ Negative(c))]
Move(c, pc) == calls' = [calls EXCEPT ![c].pc = pc]
At(c, pcs) == calls[c].pc \in pcs

\* identify: whom the gate takes a bearer token for.
Askers == gate.callers \cup {x \in {Shared} : ~gate.requireCaller}

\* Allows: the rules of the calls a caller may ask about.
RulesFor(who) == IF who \in gate.limited THEN {} ELSE gate.rules

\* A caller's own name is the agent; the webhook token says any.
AgentsOf(who) == IF who = Shared THEN Callers \cup {Nobody} ELSE {who}

\* A caller reaches only the actions it asked for.
Reaches(who, c) == who = Shared \/ calls[c].agent = who

-----------------------------------------------------------------------------
\* HandleCall: the policy hash is taken before the action is reserved ...
Arrive(c) ==
    /\ At(c, {"idle"})
    /\ \E who \in Askers, v \in Values, d \in Sent :
         \E a \in AgentsOf(who) :
           calls' = [calls EXCEPT ![c] =
             [pc |-> "hashed", who |-> who, agent |-> a, value |-> v, def |-> d,
              policy |-> Policy(gate.rules, pinned)]]
    /\ UNCHANGED <<gate, pinned, candidate, uses, due, diffs, edits, grantsIssued>>

Recorded(k) == CappedAmounts(CHOOSE r \in gate.rules : TRUE, k.value)

\* ... and the rules are read again for the verdict.  A shadow compares the
\* rules' own verdict, before a grant answers it; a caller's denial is not
\* compared.
Decide(c) ==
    /\ At(c, {"hashed"})
    /\ LET k      == calls[c]
           told   == Evaluate(RulesFor(k.who), pinned, k.value, k.def, TotalOf(Standing), CountOf(Standing))
           To(pc, by) == calls' = [calls EXCEPT ![c] =
             [pc |-> pc, by |-> by, agent |-> k.agent, value |-> k.value, def |-> k.def,
              policy |-> k.policy, amounts |-> Recorded(k), under |-> gate.rules, pin |-> pinned,
              inForce |-> {}]]
       IN  /\ \/ told.decision = "deny"  /\ End(c) /\ UNCHANGED uses
              \/ told.decision = "allow" /\ To("allowed", "allowlist") /\ UNCHANGED uses
              \/ told.grantable /\ uses > 0 /\ To("allowed", "grant") /\ uses' = uses - 1
              \/ /\ told.decision = "ask" /\ ~(told.grantable /\ uses > 0)
                 /\ To("asked", Nobody) /\ UNCHANGED uses
           /\ due' = due \cup
                {[call |-> c, cand |-> x, value |-> k.value, def |-> k.def,
                  live |-> [decision |-> told.decision, why |-> told.why],
                  alike |-> Policy(x.rules, x.pinned) = Policy(gate.rules, pinned),
                  seen |-> Standing,
                  uncounted |-> \E o \in Standing : calls[o].under # gate.rules] :
                    x \in {y \in candidate : k.who \notin gate.limited}}
    /\ UNCHANGED <<gate, pinned, candidate, diffs, edits, grantsIssued>>

\* askHuman.
OperatorDecides(c) ==
    /\ At(c, {"asked"})
    /\ calls' = [calls EXCEPT ![c].pc = "allowed", ![c].by = "operator"] \/ End(c)
    /\ UNCHANGED <<gate, pinned, candidate, uses, due, diffs, edits, grantsIssued>>

\* actionResponse, on a status poll and at the start of a consume: an action
\* whose policy is no longer the current one is expired; so is one whose time
\* is up.
Look(c) ==
    /\ At(c, {"asked", "allowed", "checked"})
    /\ \E who \in Askers : Reaches(who, c)
    /\ End(c)
    /\ UNCHANGED <<gate, pinned, candidate, uses, due, diffs, edits, grantsIssued>>

\* inForce is history: the definitions pinned then.
ConsumeStart(c) ==
    /\ At(c, {"allowed"})
    /\ calls[c].policy = Policy(gate.rules, pinned)
    /\ \E who \in Askers : Reaches(who, c)
    /\ calls' = [calls EXCEPT ![c].pc = "checked", ![c].inForce = UNION {Pin(r, pinned) : r \in gate.rules}]
    /\ UNCHANGED <<gate, pinned, candidate, uses, due, diffs, edits, grantsIssued>>

Consume(c) ==
    /\ At(c, {"checked"})
    /\ Move(c, "consumed")
    /\ UNCHANGED <<gate, pinned, candidate, uses, due, diffs, edits, grantsIssued>>

\* parseGrant: only for a tool whose rule takes grants.
Grant ==
    /\ \E r \in gate.rules : Grantable(r)
    /\ grantsIssued < MaxGrants
    /\ grantsIssued' = grantsIssued + 1
    /\ uses' = uses + 1
    /\ UNCHANGED <<gate, pinned, candidate, calls, due, diffs, edits>>

-----------------------------------------------------------------------------
\* The candidate decides on the totals it finds when its turn comes, less the
\* call's own share; a call count is taken from the actions themselves.
Same(x, y) == x.decision = y.decision /\ x.why = y.why

\* Mutant: the call's own amount is in the total its candidate reads.
OthersAndItself(c) == Standing

Others(c) == Standing \ {c}

CompareShadow(x) ==
    /\ due' = due \ {x}
    /\ LET told == Evaluate(x.cand.rules, x.cand.pinned, x.value, x.def,
                            TotalOf(Others(x.call)), Cardinality(Others(x.call)))
       IN  diffs' = diffs \cup
             {[alike |-> x.alike, moved |-> Standing \ {x.call} # x.seen, uncounted |-> x.uncounted] :
                y \in {z \in {told} : ~Same(z, x.live)}}
    /\ UNCHANGED <<gate, pinned, candidate, calls, uses, edits, grantsIssued>>

-----------------------------------------------------------------------------
\* Operators edit the settings and the definition file, reload and restart.
\* What the file holds then is f, NoDefinition when it cannot be read.
Edit == edits < MaxEdits /\ edits' = edits + 1
Files == Definitions \cup {NoDefinition}

\* ReadToolDefinition, for the rules that name a file: one that cannot be read
\* is an error.
Readable(rules, f) == (\E r \in rules : r.definitionFile) => f # NoDefinition
Reads(rules, f) == IF \E r \in rules : r.definitionFile THEN f ELSE NoDefinition

RulesOk(rules) == \A r \in rules : RuleOk(r)

\* loadShadowCandidate: rules that fail the checks of the live ones, or whose
\* file cannot be read, are no candidate.
Candidate(s, f) == {[rules |-> s.shadow, pinned |-> Reads(s.shadow, f)] :
                      x \in {y \in s.shadow : RulesOk(s.shadow) /\ Readable(s.shadow, f)}}

\* reloadEngine: the running rules' file is read again, or the reload refused;
\* the candidate is that of the config file as it is now.
Reload ==
    /\ Edit
    /\ \E f \in Files, s \in Settings :
         /\ Readable(gate.rules, f)
         /\ pinned' = Reads(gate.rules, f)
         /\ candidate' = Candidate(s, f)
    /\ UNCHANGED <<gate, calls, uses, due, diffs, grantsIssued>>

\* The engine starts on new settings, if validate accepts them: undecided calls
\* end, comparisons not made are lost.
Starts(s, f) ==
    /\ RulesOk(s.rules \cup s.shadow) /\ Readable(s.rules \cup s.shadow, f)
    /\ s.requireCaller => s.callers # {}

Restart ==
    /\ Edit
    /\ \E s \in Settings, f \in Files :
         /\ Starts(s, f)
         /\ gate' = s
         /\ pinned' = Reads(s.rules, f)
         /\ candidate' = Candidate(s, f)
    /\ calls' = [c \in Calls |-> IF At(c, {"hashed", "asked"}) THEN Ended(FALSE)
                                 ELSE IF At(c, {"checked"}) THEN [calls[c] EXCEPT !.pc = "allowed"]
                                 ELSE calls[c]]
    /\ due' = {}
    /\ UNCHANGED <<uses, diffs, grantsIssued>>

-----------------------------------------------------------------------------
Init ==
    /\ gate \in Settings
    /\ \E f \in Files : /\ Starts(gate, f)
                        /\ pinned = Reads(gate.rules, f)
                        /\ candidate = Candidate(gate, f)
    /\ calls = [c \in Calls |-> NoCall]
    /\ uses = 0 /\ due = {} /\ diffs = {}
    /\ edits = 0 /\ grantsIssued = 0

Next ==
    \/ \E c \in Calls : Arrive(c) \/ Decide(c) \/ OperatorDecides(c) \/ Look(c)
                         \/ ConsumeStart(c) \/ Consume(c)
    \/ \E x \in due : CompareShadow(x)
    \/ Grant \/ Reload \/ Restart

Spec == Init /\ [][Next]_vars

-----------------------------------------------------------------------------
Silent == {c \in Standing : calls[c].by # "operator"}

\* A call of a high-risk tool is never let through on the rules' or a grant's
\* word: validate accepts no rule that would (validate.go:826,
\* docs/tool-gate.md:858).
HighRiskIsAsked ==
    \A c \in Silent : \A r \in calls[c].under : RiskOf(r) # "high"

\* What a rule let through unasked today stays within its caps, whatever humans
\* let through besides, grants released or a restart changed and changed back;
\* as long as no human let a negative amount through.  It makes room, and what was
\* let through in that room still counts when its permit expires unconsumed.
SilentStaysWithin ==
    \A r \in gate.rules :
      LET mine == {c \in Silent : calls[c].under = {r}}
          room == \E c \in Calls : IF At(c, {"over"}) THEN calls[c].room ELSE c \in Standing /\ Negative(c)
      IN  /\ \A m \in r.maxPerDay : room \/ TotalOf(mine) <= m
          /\ \A m \in r.maxCalls : CountOf(mine) <= m

\* A call that runs unasked under a pin carries the definition that was pinned
\* when its permit was consumed: a reload that changes the definition file under
\* it, or a restart that changes the rule, expires the permit.  (Unless they
\* changed and changed back around the verdict.)
RunsOnItsDefinition ==
    \A c \in Calls : At(c, {"consumed"}) /\ calls[c].by # "operator" =>
      \A r \in calls[c].under : Pin(r, calls[c].pin) # {} =>
        \/ calls[c].def \in calls[c].inForce
        \/ Policy(calls[c].under, calls[c].pin) # calls[c].policy

\* A candidate with the live rules differs from them on a call only when
\* another call was decided in between, or had been allowed under other rules:
\* it never sees a call's own share (gate_shadow.go:141).
NoFalseDifference == \A d \in diffs : d.alike => d.moved \/ d.uncounted

\* The total that max_per_day caps never falls: it counts amounts of 0 or more
\* (internal/config/config.go:1131).
CountsZeroOrMore ==
    \A c \in Standing : calls[c].amounts.arg >= 0

\* Numbers compare by value (docs/tool-gate.md:104): a call whose number is the
\* rule's never fails its `equals`.
EqualsComparesByValue ==
    \A c \in Calls : At(c, {"asked", "allowed"}) =>
      \A r \in calls[c].under : \A e \in r.equals :
        e.num # {} /\ e.num = calls[c].value.num => "equals" \notin Failing(r, calls[c].value)

=============================================================================
