------------------------------ MODULE GateHook ------------------------------
(***************************************************************************)
(* The gate as a harness's pre-tool hook (gate_hook.go): the harness starts *)
(* `draftcat gate hook` before a tool call and runs the call on its answer, *)
(* or when the hook takes longer than the timeout the installer gave it     *)
(* (gate_install.go), for most harnesses let such a call through.  The      *)
(* harness may start the hook again for the same call; the action id is     *)
(* then the same (hookActionID).                                            *)
(*                                                                          *)
(* The gate is what module Permit promises of it.  A hook's clock counts    *)
(* seconds from its own start; of every span that can vary, the shortest    *)
(* and the longest are taken.                                               *)
(***************************************************************************)
EXTENDS Integers, FiniteSets, FiniteSetsExt

CONSTANTS
    Call,       \* the action id of the call
    Hooks,      \* the hooks the harness starts for it
    Waits,      \* --wait, in seconds
    MaxFaults   \* bound: requests that are lost or refused, polls answered at once

HoldCap == 100
Grace == 10
Short == 15

\* Mutant of HookTimeout: no more than a request's own margin.
TightTimeout(wait) == wait + Grace

\* hookTimeout: what the installed entry allows the hook.
HookTimeout(wait) == wait + 60

GateHookAssumption == Waits \subseteq Nat \ {0} /\ MaxFaults \in Nat

VARIABLES
    phase, trail,   \* the permit (module Permit)
    wait,           \* wait[h]
    stage,          \* what the hook is doing
    elapsed,        \* seconds since it started
    requests,       \* requests on their way to the gate
    retried,        \* the POSTs (hook, stage) that had their second try
    spender,        \* history: whose consume was told "execute"
    faults

Gate == INSTANCE Permit WITH Actions <- {Call}

hookVars == <<wait, stage, elapsed>>
vars == <<phase, trail, hookVars, requests, retried, spender, faults>>

\* "allow", "deny" and "withdrawn" are verdicts (hookVerdict), "allowed" and
\* "blocked" what the harness was told.
Stages == {"new", "ask", "poll", "revoke", "consume", "allow", "deny", "withdrawn",
           "allowed", "blocked"}

-----------------------------------------------------------------------------
Fault == faults < MaxFaults /\ faults' = faults + 1

Left(h) == wait[h] - elapsed[h]
Hold(h) == Min({IF stage[h] = "ask" THEN wait[h] ELSE Left(h), HoldCap})

Spend(h, seconds) == elapsed' = [elapsed EXCEPT ![h] = @ + seconds]
Go(h, s) == stage' = [stage EXCEPT ![h] = s]
Request(h, kind) == requests' = requests \cup {<<h, kind>>}
InFlight(h) == \E kind \in Stages : <<h, kind>> \in requests

\* The id names the session and the harness's tool-use id, for every hook of a
\* call the same.
HookActionID(h) == Call

\* A usage error: exit status 2, which a harness takes for a block.
UsageError(h) ==
    /\ stage[h] = "new" /\ Go(h, "blocked")
    /\ UNCHANGED <<phase, trail, wait, elapsed, requests, retried, spender, faults>>

\* parseHookPayload finds no call of a tool: the verdict is no, unasked.
UnreadPayload(h) ==
    /\ stage[h] = "new" /\ Go(h, "deny")
    /\ UNCHANGED <<phase, trail, wait, elapsed, requests, retried, spender, faults>>

\* runGateHook sends its ask.
Start(h) ==
    /\ stage[h] = "new"
    /\ Go(h, "ask") /\ Request(h, "ask")
    /\ UNCHANGED <<phase, trail, wait, elapsed, retried, spender, faults>>

\* The gate takes a request: an ask joins the action or opens it, a revoke
\* closes what is not spent, a consume spends what is granted.
Take(h, kind) ==
    LET id == HookActionID(h)
    IN  /\ <<h, kind>> \in requests /\ requests' = requests \ {<<h, kind>>}
        /\ CASE kind = "ask" /\ phase[id] = "unknown" -> Gate!Ask(id) /\ UNCHANGED spender
             [] kind = "revoke" /\ phase[id] \in {"open", "granted"} ->
                    Gate!Close({id}) /\ UNCHANGED spender
             [] kind = "consume" /\ phase[id] = "granted" ->
                    Gate!Spend(id) /\ spender' = spender \cup {h}
             [] OTHER -> UNCHANGED <<phase, trail, spender>>
        /\ UNCHANGED <<hookVars, retried, faults>>

\* Rules, a human, the permit's window.
Decide ==
    /\ Gate!Grant(Call) \/ Gate!Refuse(Call) \/ Gate!Close({Call})
    /\ UNCHANGED <<hookVars, requests, retried, spender, faults>>

\* A POST is refused with 401, and tried again once in the next second: the
\* gate says so before it holds, so only the request's own margin may pass.
Retry(h) ==
    /\ stage[h] \in {"ask", "revoke", "consume"} /\ <<h, stage[h]>> \in requests
    /\ <<h, stage[h]>> \notin retried /\ retried' = retried \cup {<<h, stage[h]>>}
    /\ \E seconds \in {1, 1 + (IF stage[h] = "ask" THEN Grace ELSE Short)} : Spend(h, seconds)
    /\ Fault
    /\ UNCHANGED <<phase, trail, wait, stage, requests, spender>>

\* An ask or a poll is answered with a decision, held the whole time or not at all.
Decided(h) ==
    /\ stage[h] \in {"ask", "poll"} /\ ~InFlight(h) /\ phase[HookActionID(h)] # "open"
    /\ \E seconds \in {0, Hold(h) + Grace} : Spend(h, seconds)
    /\ IF phase[HookActionID(h)] = "granted"
       THEN Go(h, "consume") /\ Request(h, "consume")
       ELSE Go(h, "deny") /\ UNCHANGED requests
    /\ UNCHANGED <<phase, trail, wait, retried, spender, faults>>

\* ... or with "pending", after the hold or, by a gate that does not hold, at
\* once: the hook polls again until its wait is over, then withdraws.
Pending(h) ==
    /\ stage[h] \in {"ask", "poll"} /\ ~InFlight(h) /\ phase[HookActionID(h)] = "open"
    /\ \/ \E seconds \in {Hold(h), Hold(h) + Grace} : Spend(h, seconds) /\ UNCHANGED faults
       \/ Fault /\ Spend(h, 1)
    /\ LET next == IF elapsed'[h] >= wait[h] THEN "revoke" ELSE "poll"
       IN  Go(h, next) /\ Request(h, next)
    /\ UNCHANGED <<phase, trail, wait, retried, spender>>

\* No usable answer: the call is blocked.  The request may still arrive.
Limit(h) == IF stage[h] \in {"ask", "poll"} THEN Hold(h) + Grace ELSE Short

Lost(h) ==
    /\ stage[h] \in {"ask", "poll", "consume"}
    /\ Fault /\ Spend(h, Limit(h)) /\ Go(h, "deny")
    /\ requests' \in {requests, {r \in requests : r[1] # h}}
    /\ UNCHANGED <<phase, trail, wait, retried, spender>>

\* Only "permit: execute" lets the call run.
Consumed(h) ==
    /\ stage[h] = "consume" /\ ~InFlight(h)
    /\ \E seconds \in {0, Short} : Spend(h, seconds)
    /\ Go(h, IF h \in spender THEN "allow" ELSE "deny")
    /\ UNCHANGED <<phase, trail, wait, requests, retried, spender, faults>>

\* writeHookAnswer: the verdict reaches the harness, or the hook exits with 2.
WriteHookAnswer(h) ==
    /\ stage[h] \in {"allow", "deny"}
    /\ \/ Go(h, IF stage[h] = "allow" THEN "allowed" ELSE "blocked") /\ UNCHANGED faults
       \/ Go(h, "blocked") /\ Fault
    /\ UNCHANGED <<phase, trail, wait, elapsed, requests, retried, spender>>

\* The answer to the revoke is not read.
Withdrawn(h) ==
    /\ stage[h] = "revoke"
    /\ \/ ~InFlight(h) /\ UNCHANGED <<requests, faults>>
       \/ Fault /\ requests' \in {requests, {r \in requests : r[1] # h}}
    /\ \E seconds \in {0, Short} : Spend(h, seconds)
    /\ Go(h, "withdrawn")
    /\ UNCHANGED <<phase, trail, wait, retried, spender>>

-----------------------------------------------------------------------------
Init ==
    /\ Gate!Init /\ spender = {} /\ requests = {} /\ retried = {} /\ faults = 0
    /\ wait \in [Hooks -> Waits]
    /\ stage = [h \in Hooks |-> "new"] /\ elapsed = [h \in Hooks |-> 0]

Next ==
    \/ Decide
    \/ \E h \in Hooks :
          \/ UsageError(h) \/ UnreadPayload(h) \/ Start(h) \/ Retry(h) \/ Decided(h) \/ Pending(h)
          \/ Lost(h) \/ Consumed(h) \/ WriteHookAnswer(h) \/ Withdrawn(h)
          \/ \E kind \in Stages : Take(h, kind)

Spec == Init /\ [][Next]_vars

-----------------------------------------------------------------------------
\* The harness runs the call on the hook's word, or because the hook took too long.
Runs(h) == stage[h] = "allowed" \/ elapsed[h] > HookTimeout(wait[h])

\* A call runs only by a hook that spent its permit, and at most once for all
\* the hooks started for it: no lost, late or repeated request and no timing,
\* that of the harness included, lets a call through (runGateHook, hookTimeout).
RunsOnlyOnPermit ==
    /\ \A h \in Hooks : Runs(h) => h \in spender
    /\ Cardinality(spender) <= 1

\* A hook that stops waiting leaves nothing to approve, unless a request of its
\* own was lost: "the prompt closes and nothing is left to approve" (runGateHook).
WithdrawnIsClosed ==
    faults = 0 => \A h \in Hooks : stage[h] = "withdrawn" => phase[Call] \in {"closed", "spent"}

=============================================================================
