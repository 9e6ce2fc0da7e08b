---------------------------- MODULE BudgetLedger ----------------------------
(***************************************************************************)
(* Model calls and the money they spend: the admission gate and tracker of  *)
(* the engine (budget.go, provider_call.go, main.go providerCallLLM), the   *)
(* ledger of calls and daily totals (internal/state/budget.go), the alerts  *)
(* on the way to a cap (budget_alerts.go) and `draftcat budget reconcile`   *)
(* (budget_cmd.go).  The provider is external: what it completes it bills,  *)
(* whether or not the answer arrives.                                       *)
(*                                                                          *)
(* A usage is a number of tokens and a cost.  Every call asks for Requested *)
(* tokens and costs Worst at most as long as the provider keeps to that.    *)
(***************************************************************************)
EXTENDS Naturals, Sequences, FiniteSets, FiniteSetsExt, Functions

CONSTANTS
    Runs, NoRun,    \* callers: pipeline runs and operator commands
    Pipeline,       \* [Runs -> names]
    Usages,         \* what a completion can use
    Requested,      \* max_tokens of a call
    Worst,          \* its worst-case cost
    DayCap,         \* budgets.per_day_tokens, per_day_cost, reserve_max_cost
    PipelineCap,    \* the same of each pipeline, for its own day
    RunTokens,      \* budgets.per_pipeline_tokens
    AlertAt,        \* daily token totals that alert
    Retries,        \* retries of a rate-limited request
    MaxDays,        \* bound: days
    MaxCalls,       \* bound: calls
    MaxFaults       \* bound: store calls that fail

Days == 1 .. MaxDays
Usage == [tokens : Nat, cost : Nat]
Cap == [tokens : Nat, cost : Nat, reserve : BOOLEAN]

BudgetAssumption ==
    /\ NoRun \notin Runs /\ DOMAIN Pipeline = Runs
    /\ Usages \subseteq Usage
    /\ DayCap \in Cap /\ PipelineCap \in [Range(Pipeline) -> Cap]
    /\ {Requested, Worst, RunTokens, Retries, MaxCalls, MaxFaults} \subseteq Nat /\ MaxDays \in Nat \ {0}
    /\ AlertAt \subseteq Nat

VARIABLES
    day,        \* the UTC day
    up,         \* the engine runs
    holder,     \* who has the admission gate
    stage,      \* what it does: "admit", "calling" or "answered"
    attempt,    \* retries of the open call
    answer,     \* what came back
    runUsed,    \* tokensUsedPipeline of each run
    mem,        \* the tracker: its day, tokens used on it, and stateErr
    fired,      \* alerts given since boot
    calls,      \* budget_calls, in order of admission
    days,       \* budget_days
    marks,      \* alert marks in the store
    alerts,     \* history: the alerts that went out, in order
    paid,       \* external: completions billed for each call
    faults

gateVars == <<holder, stage, attempt, answer>>
trackerVars == <<runUsed, mem, fired>>
storeVars == <<calls, days, marks>>
vars == <<day, up, gateVars, trackerVars, storeVars, alerts, paid, faults>>

-----------------------------------------------------------------------------
Zero == [tokens |-> 0, cost |-> 0]
Plus(u, v) == [tokens |-> u.tokens + v.tokens, cost |-> u.cost + v.cost]
Open == Len(calls)

Settled(d) == {c \in DOMAIN calls : calls[c].status = "settled" /\ calls[c].day = d}
Spent(S) ==
    [tokens |-> SumFunctionOnSet([c \in DOMAIN calls |-> calls[c].used.tokens], S),
     cost |-> SumFunctionOnSet([c \in DOMAIN calls |-> calls[c].used.cost], S)]

\* One cap's conditions on an admission: tokens are a ceiling on what is
\* requested, cost a stop on what is spent, or with a reservation a ceiling.
Fits(spent, cap) ==
    /\ cap.tokens > 0 => spent.tokens + Requested <= cap.tokens
    /\ cap.cost > 0 => spent.cost < cap.cost
    /\ cap.cost > 0 /\ cap.reserve => spent.cost + Worst <= cap.cost

NoPending == \A c \in DOMAIN calls : calls[c].status # "pending"

\* Mutant: a call whose usage is unknown stops nobody.
MayBeginAnyway(name) ==
    /\ Fits(days[day], DayCap)
    /\ Fits(Spent({c \in Settled(day) : calls[c].pipeline = name}), PipelineCap[name])

\* BeginBudgetCall's WHERE clause; no call is pending, so none holds a reservation.
MayBegin(name) ==
    /\ NoPending
    /\ Fits(days[day], DayCap)
    /\ Fits(Spent({c \in Settled(day) : calls[c].pipeline = name}), PipelineCap[name])

\* refreshLocked: the tracker takes the day's totals from the store.
Refreshed == [mem EXCEPT !.day = day, !.used = days[day].tokens]

Fault == faults < MaxFaults /\ faults' = faults + 1
ReleaseGate == holder' = NoRun /\ stage' = "admit" /\ attempt' = 0 /\ answer' = "none"

-----------------------------------------------------------------------------
\* The channel of capacity one.
Acquire(r) ==
    /\ up /\ holder = NoRun /\ Open < MaxCalls
    /\ holder' = r /\ stage' = "admit"
    /\ UNCHANGED <<day, up, attempt, answer, trackerVars, storeVars, alerts, paid, faults>>

\* admit: the tracker's checks on the totals it has just read, and the same
\* ones in the statement that inserts the row.
Admit ==
    /\ holder # NoRun /\ stage = "admit"
    /\ ~mem.err
    /\ RunTokens > 0 => runUsed[holder] + Requested <= RunTokens
    /\ MayBegin(Pipeline[holder])
    /\ mem' = Refreshed
    /\ calls' = Append(calls, [day |-> day, pipeline |-> Pipeline[holder],
                               status |-> "pending", used |-> Zero])
    /\ paid' = Append(paid, {})
    /\ stage' = "calling"
    /\ UNCHANGED <<day, up, holder, attempt, answer, runUsed, fired, days, marks, alerts, faults>>

\* Blocked or given up on; a total that cannot be read blocks every later call.
Refuse ==
    /\ holder # NoRun /\ stage = "admit"
    /\ \/ mem' = Refreshed /\ UNCHANGED faults
       \/ Fault /\ mem' = [mem EXCEPT !.err = TRUE]
    /\ ReleaseGate
    /\ UNCHANGED <<day, up, runUsed, fired, storeVars, alerts, paid>>

\* One attempt.  The provider completes the request and the usage arrives; or
\* it does not arrive, or not whole, and nobody knows whether it was billed;
\* or the request is refused unbilled.
Bill(U) == \E u \in U : paid' = [paid EXCEPT ![Open] = @ \cup {<<attempt, u>>}]

Complete ==
    /\ stage = "calling"
    /\ Bill(Usages)
    /\ answer' = "usage" /\ stage' = "answered"
    /\ UNCHANGED <<day, up, holder, attempt, trackerVars, storeVars, alerts, faults>>

Lose ==
    /\ stage = "calling"
    /\ Bill(Usages) \/ UNCHANGED paid
    /\ answer' = "uncertain" /\ stage' = "answered"
    /\ UNCHANGED <<day, up, holder, attempt, trackerVars, storeVars, alerts, faults>>

\* A refusal of the request; of a rate limit, when the retries are used up or
\* the run ends during the wait.
Reject ==
    /\ stage = "calling"
    /\ answer' = "refused" /\ stage' = "answered"
    /\ UNCHANGED <<day, up, holder, attempt, trackerVars, storeVars, alerts, paid, faults>>

\* Mutant: an answer that was lost is asked for again.
RetryLost ==
    /\ stage = "calling" /\ attempt < Retries
    /\ attempt' = attempt + 1
    /\ Bill(Usages) \/ UNCHANGED paid
    /\ UNCHANGED <<day, up, holder, stage, answer, trackerVars, storeVars, alerts, faults>>

\* Only an explicit rate limit without usage is tried again.
Retry ==
    /\ stage = "calling" /\ attempt < Retries
    /\ attempt' = attempt + 1
    /\ UNCHANGED <<day, up, holder, stage, answer, trackerVars, storeVars, alerts, paid, faults>>

-----------------------------------------------------------------------------
Crossed(used) == {k \in {mem.day} \X AlertAt : k[2] <= used} \ fired

\* Mutant: only the process remembers what it has said.
AlertUnmarked(used) ==
    LET crossed == Crossed(used)
    IN  /\ fired' = fired \cup crossed
        /\ alerts' = IF crossed = {} THEN alerts
                     ELSE Append(alerts, [day |-> mem.day, at |-> Max({k[2] : k \in crossed}),
                                          marked |-> TRUE])
        /\ UNCHANGED <<marks, faults>>

\* observeLocked, crossLocked: every threshold reached that did not fire is
\* marked for the tracker's day, and the highest that was not marked before
\* alerts; so does one whose mark the store fails to write.
Alert(used) ==
    \E lost \in {{}, Crossed(used)} :
       LET crossed == Crossed(used)
           new     == (crossed \ marks) \cup lost
       IN  /\ fired' = fired \cup crossed
           /\ IF lost = {} THEN marks' = marks \cup crossed /\ UNCHANGED faults
                           ELSE Fault /\ UNCHANGED marks
           /\ alerts' = IF new = {} THEN alerts
                        ELSE Append(alerts, [day |-> mem.day, at |-> Max({k[2] : k \in new}),
                                             marked |-> lost = {}])

Charge(c, u) ==
    /\ calls' = [calls EXCEPT ![c].status = "settled", ![c].used = u]
    /\ days' = [days EXCEPT ![calls[c].day] = Plus(@, u)]

\* Mutant: the usage is charged to the day the answer arrives on.
ChargeToday(c, u) ==
    /\ calls' = [calls EXCEPT ![c].status = "settled", ![c].used = u]
    /\ days' = [days EXCEPT ![day] = Plus(@, u)]

\* recordUsageLocked
Record(tokens) ==
    /\ mem' = [mem EXCEPT !.used = @ + tokens]
    /\ runUsed' = [runUsed EXCEPT ![holder] = @ + tokens]

\* finish, with a response: SettleBudgetCall charges the day of the admission,
\* and the tracker adds the usage to the totals it has.
Settle ==
    /\ stage = "answered" /\ answer = "usage"
    /\ \E p \in paid[Open] :
          /\ p[1] = attempt
          /\ Charge(Open, p[2])
          /\ Record(p[2].tokens)
          /\ Alert(mem.used + p[2].tokens)
    /\ ReleaseGate
    /\ UNCHANGED <<day, up, paid>>

\* The settlement or the release fails: the row stays pending and the tracker
\* admits nothing until a restart.
Unrecorded ==
    /\ stage = "answered" /\ answer \in {"usage", "refused"}
    /\ Fault /\ mem' = [mem EXCEPT !.err = TRUE]
    /\ ReleaseGate
    /\ UNCHANGED <<day, up, runUsed, fired, storeVars, alerts, paid>>

\* finish, without a response: an uncertain call stays pending.
KeepPending ==
    /\ stage = "answered" /\ answer = "uncertain"
    /\ ReleaseGate
    /\ UNCHANGED <<day, up, trackerVars, storeVars, alerts, paid, faults>>

ReleaseCall ==
    /\ stage = "answered" /\ answer = "refused"
    /\ calls' = [calls EXCEPT ![Open].status = "rejected"]
    /\ ReleaseGate
    /\ UNCHANGED <<day, up, trackerVars, days, marks, alerts, paid, faults>>

-----------------------------------------------------------------------------
\* snapshot: /status, approval_policy and the end of a run read the totals.
Snapshot ==
    /\ up
    /\ \/ mem' = Refreshed /\ UNCHANGED faults
       \/ Fault /\ mem' = [mem EXCEPT !.err = TRUE]
    /\ UNCHANGED <<day, up, gateVars, runUsed, fired, storeVars, alerts, paid>>

\* newRun
NewRun(r) ==
    /\ up /\ holder # r
    /\ runUsed' = [runUsed EXCEPT ![r] = 0]
    /\ UNCHANGED <<day, up, gateVars, mem, fired, storeVars, alerts, paid, faults>>

\* configureAlerts, on a reload: what fired is forgotten.
ReloadAlerts ==
    /\ up /\ fired # {} /\ fired' = {}
    /\ UNCHANGED <<day, up, gateVars, runUsed, mem, storeVars, alerts, paid, faults>>

Midnight ==
    /\ day < MaxDays /\ day' = day + 1
    /\ UNCHANGED <<up, gateVars, trackerVars, storeVars, alerts, paid, faults>>

\* The engine stops at any point; what the provider has not answered may have
\* reached it.
Stop ==
    /\ up /\ up' = FALSE
    /\ IF stage = "calling" THEN Bill(Usages) \/ UNCHANGED paid ELSE UNCHANGED paid
    /\ ReleaseGate
    /\ UNCHANGED <<day, trackerVars, storeVars, alerts, faults>>

\* attachStore
Boot ==
    /\ ~up /\ up' = TRUE
    /\ mem' = [Refreshed EXCEPT !.err = FALSE]
    /\ runUsed' = [r \in Runs |-> 0] /\ fired' = {}
    /\ UNCHANGED <<day, gateVars, storeVars, alerts, paid, faults>>

Actual(c) == IF paid[c] = {} THEN Zero ELSE (CHOOSE p \in paid[c] : TRUE)[2]

\* `draftcat budget reconcile`, used as its help says: with the engine stopped
\* and the provider's actual usage.
Reconcile(c) ==
    /\ ~up /\ calls[c].status = "pending"
    /\ Charge(c, Actual(c))
    /\ UNCHANGED <<day, up, gateVars, trackerVars, marks, alerts, paid, faults>>

-----------------------------------------------------------------------------
Init ==
    /\ day = 1 /\ up = TRUE
    /\ holder = NoRun /\ stage = "admit" /\ attempt = 0 /\ answer = "none"
    /\ runUsed = [r \in Runs |-> 0] /\ mem = [day |-> 1, used |-> 0, err |-> FALSE]
    /\ calls = <<>> /\ days = [d \in Days |-> Zero]
    /\ fired = {} /\ marks = {} /\ alerts = <<>> /\ paid = <<>> /\ faults = 0

Next ==
    \/ \E r \in Runs : Acquire(r) \/ NewRun(r)
    \/ Admit \/ Refuse \/ Complete \/ Lose \/ Reject \/ Retry
    \/ Settle \/ Unrecorded \/ KeepPending \/ ReleaseCall
    \/ Snapshot \/ ReloadAlerts \/ Midnight \/ Stop \/ Boot
    \/ \E c \in DOMAIN calls : Reconcile(c)

Spec == Init /\ [][Next]_vars

-----------------------------------------------------------------------------
\* Type correctness.
BudgetTypeOK ==
    /\ day \in Days /\ up \in BOOLEAN
    /\ holder \in Runs \cup {NoRun} /\ stage \in {"admit", "calling", "answered"}
    /\ attempt \in 0 .. Retries /\ answer \in {"none", "usage", "uncertain", "refused"}
    /\ runUsed \in [Runs -> Nat]
    /\ mem \in [day : Days, used : Nat, err : BOOLEAN]
    /\ calls \in Seq([day : Days, pipeline : Range(Pipeline), used : Usage,
                      status : {"pending", "settled", "rejected"}])
    /\ days \in [Days -> Usage]
    /\ fired \subseteq Days \X AlertAt /\ marks \subseteq Days \X AlertAt
    /\ alerts \in Seq([day : Days, at : AlertAt, marked : BOOLEAN])
    /\ paid \in Seq(SUBSET ((0 .. Retries) \X Usages)) /\ Len(paid) = Len(calls)
    /\ faults \in 0 .. MaxFaults

\* What the provider bills is on the books: a call is billed at most once,
\* retries and crashes included; a settled call is charged what was billed, to
\* the day it was admitted on, once; and no billed call is written off as
\* rejected (SettleBudgetCall, ReleaseBudgetCall, llmRetryable, providerError).
BooksMatchProvider ==
    /\ \A c \in DOMAIN calls :
          /\ Cardinality(paid[c]) <= 1
          /\ calls[c].status = "settled" => calls[c].used = Actual(c)
          /\ calls[c].status = "rejected" => paid[c] = {}
    /\ \A d \in Days : days[d] = Spent(Settled(d))

\* A day's spend passes a cap by the answer of its last call alone, for the
\* day, for each pipeline on the day, and across restarts, failed store calls
\* and reconciled calls; with a reservation, and answers that keep to Worst,
\* it does not pass the cost cap at all (BeginBudgetCall, admit).
Within(S, cap) ==
    LET Last == Max(S)
        Cost == Spent(S).cost
    IN  S # {} =>
        /\ cap.tokens > 0 => Spent(S \ {Last}).tokens + Requested <= cap.tokens
        /\ cap.cost > 0 => Spent(S \ {Last}).cost < cap.cost
        /\ cap.cost > 0 /\ cap.reserve /\ (\A c \in S : calls[c].used.cost <= Worst)
              => Cost <= cap.cost

OvershootIsOneAnswer ==
    \A d \in Days :
        /\ Within(Settled(d), DayCap)
        /\ \A name \in Range(Pipeline) :
              Within({c \in Settled(d) : calls[c].pipeline = name}, PipelineCap[name])

\* A threshold alerts once a day, across restarts and reloads, unless the store
\* could not write its mark: "the mark is kept in the state store so a restart
\* does not repeat it" (budget_alerts.go:13).
AlertsOnce ==
    \A i, j \in DOMAIN alerts :
       i # j /\ alerts[i].marked /\ alerts[j].marked =>
          alerts[i].day # alerts[j].day \/ alerts[i].at # alerts[j].at

=============================================================================
