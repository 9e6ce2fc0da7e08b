------------------------------ MODULE Pipelines ------------------------------
(***************************************************************************)
(* What starts a pipeline and what becomes of its run: the scheduler        *)
(* (scheduler.go), the webhook trigger with its durable admissions (main.go *)
(* newWebhookHandler), the operator's /run and /cron, the timer of the main *)
(* loop, the reload of the configuration (config_reload.go), the drain at   *)
(* shutdown and what a boot restores (engine_lifecycle.go).                 *)
(*                                                                          *)
(* The main loop is one goroutine: its commands, its reload and its timer   *)
(* tick do not overlap.  Each HTTP request and each run is a goroutine of   *)
(* its own.  What a run does inside is module PipelineRun.                  *)
(*                                                                          *)
(* Time is abstracted: the next run of a timer pipeline is "later" until    *)
(* its moment passes, then "due".                                           *)
(***************************************************************************)
EXTENDS Naturals, Sequences, FiniteSets, SequencesExt

CONSTANTS
    Pipes,
    Schedules,      \* the schedules in use: "timer", "webhook", "manual"
    Reqs,           \* webhook requests; each creates at most one admission
    PipeOf,         \* per request, the pipeline its path names
    KeyOf,          \* its Idempotency-Key, NoKey without one
    Bodies,         \* what a request may carry
    SigOf,          \* per body, the signature sent with it, NoSig for none
    PauseAfter,     \* pause_after_failures, 0 for never
    NoKey, NoSig, Nobody, Unread,
    MaxRuns,        \* bound: runs started
    MaxFaults,      \* bound: statements of the store that fail
    MaxReloads,     \* bound: reloads applied
    MaxCommands,    \* bound: commands of the operator
    MaxRestarts     \* bound: boots after a shutdown or a crash

ASSUME PipelinesAssumption ==
    /\ IsFiniteSet(Pipes) /\ PipeOf \in [Reqs -> Pipes]
    /\ Schedules \subseteq {"timer", "webhook", "manual"}
    /\ Unread \notin Bodies
    /\ {PauseAfter, MaxRuns, MaxFaults, MaxReloads, MaxCommands, MaxRestarts} \subseteq Nat
    /\ Nobody \notin Reqs

VARIABLES
    phase,      \* of the process: "serving", "draining" or "down"
    loop,       \* of the main loop: "idle", or "sync" inside a reload
    live,       \* liveConfig: its number and each pipeline's schedule
    entry,      \* Scheduler.pipelines
    req,        \* per request, its handler and the snapshot it read
    answer,     \* per request, the reply: a code and the admission it names
    admitting,  \* admissionMu
    runs,       \* the runs in the order they started
    rows,       \* webhook_admissions: per request that made one, its status
    spent,      \* seen_items: the signatures claimed
    runHistory, \* pipeline_runs: per pipeline, the last outcomes, newest first
    streak,     \* history: failed recorded runs since a success or a fresh start
    faults, commands, restarts

storeVars == <<rows, spent, runHistory>>
webVars == <<req, answer, admitting>>
bounds == <<faults, commands, restarts>>
vars == <<phase, loop, live, entry, webVars, runs, storeVars, streak, bounds>>

-----------------------------------------------------------------------------
Kinds == Schedules \cup {"absent"}

Entry == [known : BOOLEAN, kind : Kinds, timer : BOOLEAN, next : {"never", "later", "due"},
          paused : BOOLEAN, running : BOOLEAN, removed : BOOLEAN,
          failures : Nat, ran : BOOLEAN]

NoEntry == [known |-> FALSE, kind |-> "absent", timer |-> FALSE, next |-> "never",
            paused |-> FALSE, running |-> FALSE, removed |-> FALSE,
            failures |-> 0, ran |-> FALSE]

\* setSchedule plans the next run from now.
WithSchedule(e, kind) ==
    [e EXCEPT !.known = TRUE, !.kind = kind, !.timer = (kind = "timer"),
              !.next = IF kind = "timer" THEN "later" ELSE "never"]

\* What keeps claimLocked from admitting a run.
MayClaim(p, manual) ==
    /\ entry[p].known /\ ~entry[p].removed
    /\ phase # "draining"
    /\ manual \/ ~entry[p].paused
    /\ ~entry[p].running

Claimed(p) == [entry EXCEPT ![p].running = TRUE]
Release(p) == entry' = [entry EXCEPT ![p].running = FALSE]

\* dueLocked
IsDue(p) ==
    LET e == entry[p] IN e.known /\ ~e.paused /\ ~e.running /\ e.timer /\ e.next = "due"

Fault == faults < MaxFaults /\ faults' = faults + 1
Command == loop = "idle" /\ phase = "serving" /\ commands < MaxCommands /\ commands' = commands + 1

Run(p, by) == [pipe |-> p, by |-> by, at |-> "working", ok |-> FALSE]
RunAt == {"working", "recorded", "settled", "over", "lost"}
Active(i) == runs[i].at \in {"working", "recorded", "settled"}
MayStart(n) == Len(runs) + n <= MaxRuns

-----------------------------------------------------------------------------
\* The main loop: the timer tick.

Elapse(p) ==
    /\ phase = "serving" /\ entry[p].next = "later"
    /\ entry' = [entry EXCEPT ![p].next = "due"]
    /\ UNCHANGED <<phase, loop, live, webVars, runs, storeVars, streak, bounds>>

\* ClaimDue claims every due pipeline in one critical section, but one that was
\* removed; the loop, the only goroutine that reloads, finds each in the live
\* snapshot and starts it.
ClaimDue ==
    LET due == {p \in Pipes : IsDue(p) /\ MayClaim(p, FALSE)} IN
    /\ phase = "serving" /\ loop = "idle" /\ due # {} /\ MayStart(Cardinality(due))
    /\ entry' = [p \in Pipes |-> [entry[p] EXCEPT !.running = @ \/ p \in due]]
    /\ \E order \in SetToSeqs(due) :
          runs' = runs \o [i \in DOMAIN order |-> Run(order[i], Nobody)]
    /\ UNCHANGED <<phase, loop, live, webVars, storeVars, streak, bounds>>

\* handleRun: /run and the Run-now button.
RunNow(p) ==
    /\ Command /\ MayStart(1)
    /\ live.kind[p] # "absent" /\ MayClaim(p, TRUE)
    /\ entry' = Claimed(p)
    /\ runs' = Append(runs, Run(p, Nobody))
    /\ UNCHANGED <<phase, loop, live, webVars, storeVars, streak, faults, restarts>>

Pause(p) ==
    /\ Command /\ entry[p].known
    /\ entry' = [entry EXCEPT ![p].paused = TRUE]
    /\ UNCHANGED <<phase, loop, live, webVars, runs, storeVars, streak, faults, restarts>>

Resume(p) ==
    /\ Command /\ entry[p].known
    /\ entry' = [entry EXCEPT ![p].paused = FALSE, ![p].failures = 0,
                              ![p].next = IF entry[p].timer THEN "later" ELSE @]
    /\ streak' = [streak EXCEPT ![p] = 0]
    /\ UNCHANGED <<phase, loop, live, webVars, runs, storeVars, faults, restarts>>

\* /cron set
Reschedule(p, kind) ==
    /\ Command /\ entry[p].known
    /\ entry' = [entry EXCEPT ![p] = WithSchedule(@, kind)]
    /\ streak' = [streak EXCEPT ![p] = IF kind = entry[p].kind THEN @ ELSE 0]
    /\ UNCHANGED <<phase, loop, live, webVars, runs, storeVars, faults, restarts>>

-----------------------------------------------------------------------------
\* reloadEngine stores the snapshot and then syncs the scheduler with it.

ReloadStore ==
    /\ phase = "serving" /\ loop = "idle" /\ live.number < MaxReloads
    /\ \E kind \in [Pipes -> Kinds] :
          kind # live.kind /\ live' = [number |-> live.number + 1, kind |-> kind]
    /\ loop' = "sync"
    /\ UNCHANGED <<phase, entry, webVars, runs, storeVars, streak, bounds>>

\* The entry of a pipeline the configuration still has; an interval that is
\* already overdue runs at the next tick.
Changed(p) == LET e == entry[p] IN ~e.known \/ e.removed \/ e.kind # live.kind[p]
Synced(p, overdue) ==
    LET planned == WithSchedule([entry[p] EXCEPT !.removed = FALSE], live.kind[p]) IN
    IF ~Changed(p) THEN entry[p]
    ELSE IF planned.timer /\ planned.ran /\ overdue THEN [planned EXCEPT !.next = "due"]
    ELSE planned

DroppedAtOnce(p) == NoEntry

\* A pipeline that disappeared is dropped, at the end of its run if it has one.
Dropped(p) ==
    IF entry[p].running
      THEN [entry[p] EXCEPT !.removed = TRUE, !.timer = FALSE, !.next = "never"]
      ELSE NoEntry

Sync ==
    /\ phase = "serving" /\ loop = "sync"
    /\ \E overdue \in BOOLEAN :
          entry' = [p \in Pipes |-> IF live.kind[p] # "absent" THEN Synced(p, overdue) ELSE Dropped(p)]
    /\ streak' = [p \in Pipes |-> IF Changed(p) THEN 0 ELSE streak[p]]
    /\ loop' = "idle"
    /\ UNCHANGED <<phase, live, webVars, runs, storeVars, bounds>>

-----------------------------------------------------------------------------
\* POST /hooks/<pipeline>.

Gone(r) == [req[r] EXCEPT !.pc = "done", !.number = 0]
Done(r, code, id) ==
    /\ req' = [req EXCEPT ![r] = Gone(r)]
    /\ answer' = [answer EXCEPT ![r] = [code |-> code, id |-> id]]
    /\ admitting' = Nobody

\* The handler reads the live snapshot before it waits for admissionMu.
ReadSnapshot(r) ==
    /\ phase = "serving" /\ req[r].pc = "new"
    /\ \/ /\ live.kind[PipeOf[r]] = "webhook"
          /\ \E body \in Bodies : req' = [req EXCEPT ![r] = [pc |-> "read", number |-> live.number, body |-> body]]
          /\ UNCHANGED answer
       \/ /\ live.kind[PipeOf[r]] # "webhook"
          /\ req' = [req EXCEPT ![r] = Gone(r)]
          /\ answer' = [answer EXCEPT ![r] = [code |-> 404, id |-> Nobody]]
    /\ UNCHANGED <<phase, loop, live, entry, admitting, runs, storeVars, streak, bounds>>

\* Refused before the snapshot is read: a wrong token, or a signature that does
\* not hold for the body or is older or newer than the window.
Refuse(r) ==
    /\ phase = "serving" /\ req[r].pc = "new"
    /\ req' = [req EXCEPT ![r] = Gone(r)]
    /\ answer' = [answer EXCEPT ![r] = [code |-> 401, id |-> Nobody]]
    /\ UNCHANGED <<phase, loop, live, entry, admitting, runs, storeVars, streak, bounds>>

BoundWhileOpen(r) == {q \in Reqs : /\ rows[q] \in {"accepted", "running"} /\ KeyOf[r] # NoKey
                                    /\ PipeOf[q] = PipeOf[r] /\ KeyOf[q] = KeyOf[r]}

\* WebhookAdmissionForKey
BoundTo(r) == {q \in Reqs : /\ rows[q] # "none" /\ KeyOf[r] # NoKey
                            /\ PipeOf[q] = PipeOf[r] /\ KeyOf[q] = KeyOf[r]}

Lookup(r) ==
    /\ phase # "down" /\ req[r].pc = "read" /\ admitting = Nobody
    /\ \/ /\ BoundTo(r) = {}
          /\ req' = [req EXCEPT ![r].pc = "locked"]
          /\ admitting' = r
          /\ UNCHANGED <<answer, faults>>
       \/ \E q \in BoundTo(r) :
             /\ IF req[q].body = req[r].body THEN Done(r, 202, q) ELSE Done(r, 409, Nobody)
             /\ UNCHANGED faults
       \/ KeyOf[r] # NoKey /\ Fault /\ Done(r, 503, Nobody)
    /\ UNCHANGED <<phase, loop, live, entry, runs, storeVars, streak, commands, restarts>>

TryStart(r) ==
    /\ phase # "down" /\ req[r].pc = "locked"
    /\ \/ /\ MayClaim(PipeOf[r], FALSE)
          /\ entry' = Claimed(PipeOf[r])
          /\ req' = [req EXCEPT ![r].pc = "claimed"]
          /\ UNCHANGED <<answer, admitting>>
       \/ /\ ~MayClaim(PipeOf[r], FALSE)
          /\ Done(r, 409, Nobody) /\ UNCHANGED entry
    /\ UNCHANGED <<phase, loop, live, runs, storeVars, streak, bounds>>

ClaimSignature(r) ==
    /\ phase # "down" /\ req[r].pc = "claimed"
    /\ \/ /\ SigOf[req[r].body] \notin spent
          /\ spent' = spent \cup ({SigOf[req[r].body]} \ {NoSig})
          /\ req' = [req EXCEPT ![r].pc = "signed"]
          /\ UNCHANGED <<entry, answer, admitting, faults>>
       \/ /\ SigOf[req[r].body] \in spent \/ (SigOf[req[r].body] # NoSig /\ faults < MaxFaults)
          /\ faults' = IF SigOf[req[r].body] \in spent THEN faults ELSE faults + 1
          /\ Release(PipeOf[r]) /\ Done(r, 401, Nobody)
          /\ UNCHANGED spent
    /\ UNCHANGED <<phase, loop, live, runs, rows, runHistory, streak, commands, restarts>>

\* AdmitWebhook inserts the row and reads it back.  A failing insert hands the
\* admission back with its ID, which the handler answers 409; a failing read
\* leaves the row in place and is a 503.  The insert meets no other row of the
\* key: the lookup came first, under the same admissionMu.
AdmitWebhook(r) ==
    /\ phase # "down" /\ req[r].pc = "signed"
    /\ \/ /\ rows' = [rows EXCEPT ![r] = "accepted"]
          /\ req' = [req EXCEPT ![r].pc = "admitted"]
          /\ UNCHANGED <<entry, answer, admitting, faults>>
       \/ /\ Fault /\ Release(PipeOf[r])
          /\ \/ UNCHANGED rows /\ Done(r, 409, Nobody)
             \/ rows' = [rows EXCEPT ![r] = "accepted"] /\ Done(r, 503, Nobody)
    /\ UNCHANGED <<phase, loop, live, runs, spent, runHistory, streak, commands, restarts>>

LaunchAnyway(r) ==
    /\ phase # "down" /\ req[r].pc = "admitted" /\ MayStart(1)
    /\ \/ rows' = [rows EXCEPT ![r] = "running"] /\ UNCHANGED faults
       \/ Fault /\ UNCHANGED rows
    /\ runs' = Append(runs, Run(PipeOf[r], r))
    /\ Done(r, 202, r)
    /\ UNCHANGED <<phase, loop, live, entry, spent, runHistory, streak, commands, restarts>>

\* FinishWebhookAdmission "running", the goroutine of the run, and the 202.
Launch(r) ==
    /\ phase # "down" /\ req[r].pc = "admitted"
    /\ \/ /\ MayStart(1)
          /\ rows' = [rows EXCEPT ![r] = "running"]
          /\ runs' = Append(runs, Run(PipeOf[r], r))
          /\ Done(r, 202, r)
          /\ UNCHANGED <<entry, faults>>
       \/ /\ Fault
          /\ Release(PipeOf[r]) /\ Done(r, 503, Nobody)
          /\ UNCHANGED <<rows, runs>>
    /\ UNCHANGED <<phase, loop, live, spent, runHistory, streak, commands, restarts>>

-----------------------------------------------------------------------------
\* A run ends: runPipeline's deferred record, the admission's terminal status,
\* then finishRun.  Neither write, if it fails, stops the next step.

Window == IF PauseAfter = 0 THEN 1 ELSE PauseAfter  \* what restoreSchedules reads
Kept(p, ok) == SubSeq(<<ok>> \o runHistory[p], 1,
                      IF Len(runHistory[p]) < Window THEN Len(runHistory[p]) + 1 ELSE Window)

RecordRun(i, ok) ==
    /\ phase # "down" /\ runs[i].at = "working"
    /\ \/ /\ runHistory' = [runHistory EXCEPT ![runs[i].pipe] = Kept(runs[i].pipe, ok)]
          /\ UNCHANGED faults
       \/ Fault /\ UNCHANGED runHistory
    /\ runs' = [runs EXCEPT ![i].ok = ok,
                            ![i].at = IF runs[i].by = Nobody THEN "settled" ELSE "recorded"]
    /\ streak' = [streak EXCEPT ![runs[i].pipe] =
                     IF ok THEN 0 ELSE IF faults' = faults THEN @ + 1 ELSE @]
    /\ UNCHANGED <<phase, loop, live, entry, webVars, rows, spent, commands, restarts>>

FinishAdmission(i) ==
    /\ phase # "down" /\ runs[i].at = "recorded"
    /\ runs' = [runs EXCEPT ![i].at = "settled"]
    /\ \/ /\ rows' = [rows EXCEPT ![runs[i].by] = IF runs[i].ok THEN "completed" ELSE "error"]
          /\ UNCHANGED faults
       \/ Fault /\ UNCHANGED rows
    /\ UNCHANGED <<phase, loop, live, entry, webVars, spent, runHistory, streak, commands, restarts>>

\* Scheduler.Finish
Finished(p, ok) ==
    LET e == [entry[p] EXCEPT !.running = FALSE, !.ran = TRUE,
                              !.next = IF entry[p].timer THEN "later" ELSE @]
        failed == [e EXCEPT !.failures = @ + 1]
    IN IF e.removed THEN NoEntry
       ELSE IF ok THEN [e EXCEPT !.failures = 0]
       ELSE IF e.timer /\ PauseAfter > 0 /\ failed.failures >= PauseAfter /\ ~e.paused
              THEN [failed EXCEPT !.paused = TRUE]
              ELSE failed

FinishRun(i) ==
    LET p == runs[i].pipe IN
    /\ phase # "down" /\ runs[i].at = "settled"
    /\ entry' = [entry EXCEPT ![p] = Finished(p, runs[i].ok)]
    /\ streak' = [streak EXCEPT ![p] = IF entry[p].removed THEN 0 ELSE @]
    /\ runs' = [runs EXCEPT ![i].at = "over"]
    /\ UNCHANGED <<phase, loop, live, webVars, storeVars, bounds>>

-----------------------------------------------------------------------------
\* Shutdown, crash and boot.

\* drainEngine from the main loop: no run is admitted, no connection accepted.
BeginDrain ==
    /\ phase = "serving" /\ loop = "idle"
    /\ phase' = "draining"
    /\ UNCHANGED <<loop, live, entry, webVars, runs, storeVars, streak, bounds>>

\* The process ends: what its goroutines were doing is gone.
Dies ==
    /\ phase' = "down" /\ loop' = "idle"
    /\ entry' = [p \in Pipes |-> NoEntry]
    /\ req' = [r \in Reqs |-> IF req[r].pc = "new" THEN req[r] ELSE Gone(r)]
    /\ admitting' = Nobody
    /\ runs' = [i \in DOMAIN runs |-> IF Active(i) THEN [runs[i] EXCEPT !.at = "lost"] ELSE runs[i]]
    /\ UNCHANGED <<live, answer, storeVars, streak, bounds>>

\* The drain found or waited for no running pipeline, or its grace elapsed.
Exit == phase = "draining" /\ Dies
Crash == phase = "serving" /\ restarts < MaxRestarts /\ Dies

NoFailures(h) == 0

\* Restore: the schedule and the failing streak continue from the history.
LeadingFailures(h) ==
    CHOOSE n \in 0 .. Len(h) : (\A i \in 1 .. n : ~h[i]) /\ (n < Len(h) => h[n + 1])

Restored(p, overdue) ==
    LET fresh == IF live.kind[p] = "absent" THEN NoEntry ELSE WithSchedule(NoEntry, live.kind[p])
        failures == LeadingFailures(runHistory[p])
        stops == fresh.timer /\ PauseAfter > 0 /\ failures >= PauseAfter
    IN IF ~fresh.known \/ runHistory[p] = <<>> THEN fresh
       ELSE [fresh EXCEPT !.ran = TRUE, !.failures = failures, !.paused = stops,
                          !.next = IF fresh.timer /\ overdue THEN "due" ELSE @]

\* newScheduler, restoreSchedules and InterruptWebhookAdmissions, before the
\* listener opens.  A pipeline whose history cannot be read starts afresh, and
\* a failed interrupt only leaves its rows as they are.
Boot ==
    /\ phase = "down" /\ restarts < MaxRestarts
    /\ restarts' = restarts + 1 /\ phase' = "serving"
    /\ \E overdue \in BOOLEAN, unread \in SUBSET Pipes, interrupts \in BOOLEAN :
          /\ IF unread = {} /\ interrupts THEN UNCHANGED faults ELSE Fault
          /\ entry' = [p \in Pipes |-> IF p \notin unread THEN Restored(p, overdue)
                                       ELSE IF live.kind[p] = "absent" THEN NoEntry
                                       ELSE WithSchedule(NoEntry, live.kind[p])]
          /\ streak' = [p \in Pipes |-> IF p \in unread THEN 0 ELSE streak[p]]
          /\ rows' = IF interrupts
                       THEN [r \in Reqs |-> IF rows[r] \in {"accepted", "running"} THEN "interrupted" ELSE rows[r]]
                       ELSE rows
    /\ UNCHANGED <<loop, live, webVars, runs, spent, runHistory, commands>>

-----------------------------------------------------------------------------
Init ==
    /\ phase = "serving" /\ loop = "idle"
    /\ live \in [number : {0}, kind : [Pipes -> Schedules]]
    /\ entry = [p \in Pipes |-> WithSchedule(NoEntry, live.kind[p])]
    /\ req = [r \in Reqs |-> [pc |-> "new", number |-> 0, body |-> Unread]]
    /\ answer = [r \in Reqs |-> [code |-> 0, id |-> Nobody]]
    /\ admitting = Nobody
    /\ runs = <<>>
    /\ rows = [r \in Reqs |-> "none"]
    /\ spent = {}
    /\ runHistory = [p \in Pipes |-> <<>>]
    /\ streak = [p \in Pipes |-> 0]
    /\ faults = 0 /\ commands = 0 /\ restarts = 0

Operator ==
    \E p \in Pipes : \/ RunNow(p) \/ Pause(p) \/ Resume(p)
                     \/ \E kind \in Schedules : Reschedule(p, kind)

Webhook ==
    \E r \in Reqs : \/ Refuse(r) \/ ReadSnapshot(r) \/ Lookup(r) \/ TryStart(r) \/ ClaimSignature(r)
                    \/ AdmitWebhook(r) \/ Launch(r)

Ending ==
    \E i \in DOMAIN runs : \/ \E ok \in BOOLEAN : RecordRun(i, ok)
                           \/ FinishAdmission(i) \/ FinishRun(i)

Next ==
    \/ \E p \in Pipes : Elapse(p)
    \/ ClaimDue \/ Operator \/ ReloadStore \/ Sync \/ Webhook \/ Ending
    \/ BeginDrain \/ Exit \/ Crash \/ Boot

Spec == Init /\ [][Next]_vars

-----------------------------------------------------------------------------
\* Type correctness.
PipelinesTypeOK ==
    /\ phase \in {"serving", "draining", "down"} /\ loop \in {"idle", "sync"}
    /\ live \in [number : 0 .. MaxReloads, kind : [Pipes -> Kinds]]
    /\ entry \in [Pipes -> Entry]
    /\ req \in [Reqs -> [pc : {"new", "read", "locked", "claimed", "signed", "admitted", "done"},
                         number : 0 .. MaxReloads, body : Bodies \cup {Unread}]]
    /\ answer \in [Reqs -> [code : {0, 202, 401, 404, 409, 503}, id : Reqs \cup {Nobody}]]
    /\ admitting \in Reqs \cup {Nobody}
    /\ runs \in Seq([pipe : Pipes, by : Reqs \cup {Nobody}, at : RunAt, ok : BOOLEAN])
    /\ Len(runs) <= MaxRuns
    /\ rows \in [Reqs -> {"none", "accepted", "running", "completed", "error", "interrupted"}]
    /\ spent \subseteq {SigOf[b] : b \in Bodies}
    /\ runHistory \in [Pipes -> Seq(BOOLEAN)]
    /\ streak \in [Pipes -> Nat]

\* Those who hold the claim of a pipeline: a handler that has not yet handed
\* it on, or a run that has not yet finished.
Holders(p) ==
    {r \in Reqs : PipeOf[r] = p /\ req[r].pc \in {"claimed", "signed", "admitted"}}
    \cup {i \in DOMAIN runs : runs[i].pipe = p /\ Active(i)}

\* A pipeline runs at most once at a time and its claim is neither lost nor
\* leaked, through every refusal of the webhook handler, reload, removal and
\* re-adding, drain and restart: the entry says running exactly while one
\* handler or run holds it.  It is also what Wait counts (Scheduler.claimLocked,
\* Finish, Release, Sync).
ClaimHasOneHolder ==
    \A p \in Pipes : Cardinality(Holders(p)) = IF entry[p].running THEN 1 ELSE 0

\* An Idempotency-Key starts at most one run of its pipeline, whatever store
\* call fails and across restarts (newWebhookHandler, AdmitWebhook).
KeyStartsOneRun ==
    \A i, j \in DOMAIN runs :
        LET r == runs[i].by
            q == runs[j].by
        IN i # j /\ r # Nobody /\ q # Nobody /\ KeyOf[r] # NoKey
             => ~(PipeOf[r] = PipeOf[q] /\ KeyOf[r] = KeyOf[q])

\* What a poll of an admission says is true of its run: while the run works
\* the row says running, a terminal status is the run's own outcome, and
\* interrupted means the run is gone or never started.  A 202 names an
\* admission of the caller's pipeline, body and, if not its own, key.
AdmissionTellsRun ==
    /\ \A i \in DOMAIN runs :
          LET r == runs[i].by IN
          r # Nobody =>
            /\ runs[i].at \in {"working", "recorded"} => rows[r] = "running"
            /\ rows[r] \in {"completed", "error"} => (rows[r] = "completed") = runs[i].ok
            /\ rows[r] = "interrupted" => runs[i].at \in {"lost", "over"}
    /\ \A r \in Reqs :
          /\ rows[r] \in {"running", "completed", "error"} => \E i \in DOMAIN runs : runs[i].by = r
          /\ answer[r].code = 202 =>
               LET q == answer[r].id IN
               /\ rows[q] # "none" /\ PipeOf[q] = PipeOf[r] /\ req[q].body = req[r].body
               /\ q = r \/ (KeyOf[q] = KeyOf[r] /\ KeyOf[r] # NoKey)

\* A timer pipeline whose last PauseAfter recorded runs failed, since it was
\* resumed, rescheduled or added, is paused whenever it is not running, over
\* reloads, crashes between the record of a run and its Finish, and boots
\* (Scheduler.Finish, Restore, Sync).
FailingStreakPauses ==
    \A p \in Pipes :
        entry[p].timer /\ ~entry[p].running /\ PauseAfter > 0 /\ streak[p] >= PauseAfter
          => entry[p].paused

\* A webhook run reads the snapshot that is current when it is claimed
\* (the comment at config_reload.go:21).
ClaimReadsLiveSnapshot ==
    [][\A r \in Reqs : req[r].pc = "locked" /\ req'[r].pc = "claimed"
                          => req[r].number = live.number]_vars

=============================================================================
