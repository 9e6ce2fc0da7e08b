--------------------------- MODULE PipelineProofs ---------------------------
(***************************************************************************)
(* What Pipelines' run shows on one pipeline and two requests, proved for   *)
(* every set of pipelines, requests, keys and bodies and every bound: the   *)
(* claim of a pipeline has one holder, a key starts one run, the admission  *)
(* tells what became of its run, and a failing streak pauses its pipeline.  *)
(*                                                                          *)
(* The first three meet in the webhook handler, which takes admissionMu,    *)
(* the claim, the signature and the row in this order: what the handler at  *)
(* each place may count on is LockOK and RowsOK, what it hands to the run   *)
(* it starts is RunsOK and HoldOK.  The last is about two counters of       *)
(* failures, the scheduler's and the one of the history, of which either    *)
(* can be ahead: StreakOK says by how much.                                 *)
(***************************************************************************)
EXTENDS Pipelines, FiniteSetTheorems, WellFoundedInduction, TLAPS

RunRecord == [pipe : Pipes, by : Reqs \cup {Nobody}, at : RunAt, ok : BOOLEAN]
Status == {"none", "accepted", "running", "completed", "error", "interrupted"}
Stages == {"new", "read", "locked", "claimed", "signed", "admitted", "done"}
Request == [pc : Stages, number : Nat, body : Bodies \cup {Unread}]
Answer == [code : {0, 202, 401, 404, 409, 503}, id : Reqs \cup {Nobody}]

\* The types of the state.
Typed ==
    /\ phase \in {"serving", "draining", "down"}
    /\ live \in [number : Nat, kind : [Pipes -> Kinds]]
    /\ entry \in [Pipes -> Entry]
    /\ req \in [Reqs -> Request]
    /\ answer \in [Reqs -> Answer]
    /\ runs \in Seq(RunRecord)
    /\ rows \in [Reqs -> Status]
    /\ runHistory \in [Pipes -> Seq(BOOLEAN)]
    /\ streak \in [Pipes -> Nat]

\* The handler past the lookup holds admissionMu.
Holding == {"claimed", "signed", "admitted"}
LockOK == \A r \in Reqs : req[r].pc \in {"locked"} \cup Holding => admitting = r

\* The rows of the handlers: none before it is inserted, and none of its key
\* under the lock before it is; so a key is bound to one request.
SameKey(q, r) == KeyOf[r] # NoKey /\ PipeOf[q] = PipeOf[r] /\ KeyOf[q] = KeyOf[r]
RowsOK ==
    \A r \in Reqs :
        /\ req[r].pc \in {"new", "read", "locked", "claimed", "signed"} => rows[r] = "none"
        /\ req[r].pc = "admitted" => rows[r] = "accepted"
        /\ req[r].pc \in {"locked", "claimed", "signed"} =>
               \A q \in Reqs : SameKey(q, r) => rows[q] = "none"
        /\ \A q \in Reqs : SameKey(q, r) /\ rows[q] # "none" /\ rows[r] # "none" => q = r

\* A run that a request started is the only one it started, and its row goes
\* with it.
RunsOK ==
    /\ \A i \in DOMAIN runs : runs[i].by # Nobody =>
          LET r == runs[i].by IN
          /\ runs[i].pipe = PipeOf[r] /\ req[r].pc = "done" /\ rows[r] # "none"
          /\ \A j \in DOMAIN runs : runs[j].by = r => j = i
          /\ runs[i].at \in {"working", "recorded"} => rows[r] = "running"
          /\ runs[i].at = "settled" => rows[r] \in {"running", "completed", "error"}
          /\ rows[r] \in {"completed", "error"} => (rows[r] = "completed") = runs[i].ok
    /\ \A i \in DOMAIN runs : runs[i].at = "recorded" => runs[i].by # Nobody
    /\ \A r \in Reqs : rows[r] \in {"running", "completed", "error"} =>
                           \E i \in DOMAIN runs : runs[i].by = r

\* A 202 names an admission that is there, of the same pipeline, body and key.
AnswersOK ==
    \A r \in Reqs : answer[r].code = 202 =>
        LET q == answer[r].id IN
        /\ req[r].pc = "done" /\ q \in Reqs
        /\ rows[q] # "none" /\ PipeOf[q] = PipeOf[r] /\ req[q].body = req[r].body
        /\ q = r \/ SameKey(q, r)

\* The holders of the claim of a pipeline: a handler or a run, never both,
\* never two, and one exactly while its entry says running.
HeldBy(r, p) == PipeOf[r] = p /\ req[r].pc \in Holding
RunsOn(i, p) == runs[i].pipe = p /\ Active(i)
HoldAt(p) ==
    /\ \A i, j \in DOMAIN runs : RunsOn(i, p) /\ RunsOn(j, p) => i = j
    /\ \A r \in Reqs, i \in DOMAIN runs : ~(HeldBy(r, p) /\ RunsOn(i, p))
    /\ entry[p].running <=>
         (\E r \in Reqs : HeldBy(r, p)) \/ (\E i \in DOMAIN runs : RunsOn(i, p))
    /\ entry[p].running => entry[p].known /\ phase # "down"
HoldOK == \A p \in Pipes : HoldAt(p)

\* A failure that is recorded and that the scheduler has yet to count, and a
\* success that is recorded and that it has yet to take note of.
Recorded(i, p) == runs[i].pipe = p /\ runs[i].at \in {"recorded", "settled"}
Owed(p) == IF \E i \in DOMAIN runs : Recorded(i, p) /\ ~runs[i].ok THEN 1 ELSE 0
Cleared(p) == \E i \in DOMAIN runs : Recorded(i, p) /\ runs[i].ok

\* Below the limit the scheduler's count is never behind the streak by more
\* than what is owed; at the limit the pipeline is paused; and a pipeline that
\* was removed starts anew.
Follows(e, n, owed) ==
    /\ e.known /\ e.failures < PauseAfter => n <= e.failures + owed
    /\ e.timer /\ PauseAfter > 0 /\ n >= PauseAfter + owed => e.paused
    /\ e.removed => n <= owed
    /\ e.known /\ ~e.removed => e.timer = (e.kind = "timer")
    /\ e.timer => e.known
    /\ e.known => e.kind # "absent"

\* The history holds the streak as far as it reaches.
Remembers(h, n) ==
    /\ \A k \in 1 .. Len(h) : k <= n => ~h[k]
    /\ n <= Len(h) \/ Len(h) >= Window

StreakAt(p) ==
    /\ Follows(entry[p], streak[p], Owed(p))
    /\ Remembers(runHistory[p], streak[p])
    /\ Cleared(p) => streak[p] = 0
StreakOK == \A p \in Pipes : StreakAt(p)

\* The inductive invariant.
PipelinesInv ==
    Typed /\ LockOK /\ RowsOK /\ RunsOK /\ AnswersOK /\ HoldOK /\ StreakOK

-----------------------------------------------------------------------------
\* What the steps that leave a part of the state alone keep.

\* The handlers, the runs and the rows are as they were.
LEMMA WebFrame ==
    ASSUME LockOK, RowsOK, RunsOK, AnswersOK, req' = req, admitting' = admitting, answer' = answer,
           rows' = rows, runs' = runs
    PROVE  LockOK' /\ RowsOK' /\ RunsOK' /\ AnswersOK'
<1>1. LockOK'
  BY DEF LockOK
<1>2. RowsOK'
  BY DEF RowsOK
<1>3. RunsOK'
  BY DEF RunsOK
<1>4. AnswersOK'
  BY DEF AnswersOK
<1> QED BY <1>1, <1>2, <1>3, <1>4

\* The claim of a pipeline changes hands only if its holders or its entry do.
LEMMA HoldFrame ==
    ASSUME NEW p \in Pipes, HoldAt(p), req' = req, runs' = runs,
           entry'[p].running = entry[p].running,
           entry[p].running => entry'[p].known /\ phase' # "down"
    PROVE  HoldAt(p)'
BY DEF HoldAt, HeldBy, RunsOn, Active

\* The streak of a pipeline is as it was.
LEMMA StreakFrame ==
    ASSUME NEW p \in Pipes, StreakAt(p), runs' = runs, runHistory' = runHistory,
           entry'[p] = entry[p], streak'[p] = streak[p]
    PROVE  StreakAt(p)'
BY DEF StreakAt, Owed, Cleared, Recorded

\* A fresh start: whatever the scheduler has counted, nothing is owed for it.
LEMMA StreakRestarts ==
    ASSUME Typed, Typed', NEW p \in Pipes, streak'[p] = 0,
           entry'[p].known /\ ~entry'[p].removed => entry'[p].timer = (entry'[p].kind = "timer"),
           entry'[p].timer => entry'[p].known, entry'[p].known => entry'[p].kind # "absent"
    PROVE  StreakAt(p)'
<1>1. Owed(p)' \in Nat
  BY DEF Owed
<1>2. entry'[p].failures \in Nat /\ PauseAfter \in Nat /\ runHistory'[p] \in Seq(BOOLEAN)
  BY PipelinesAssumption DEF Typed, Entry
<1>3. Follows(entry[p], streak[p], Owed(p))'
  BY <1>1, <1>2 DEF Follows
<1>4. Remembers(runHistory[p], streak[p])'
  BY <1>2 DEF Remembers
<1> QED BY <1>3, <1>4 DEF StreakAt

\* The entries a schedule makes of an entry are entries, with the claim and
\* the count of it.
LEMMA ScheduleShape ==
    ASSUME NEW e \in Entry, NEW kind \in Kinds
    PROVE  LET s == WithSchedule(e, kind) IN
           /\ s \in Entry /\ s.known /\ s.kind = kind /\ s.timer = (kind = "timer")
           /\ s.running = e.running /\ s.removed = e.removed /\ s.failures = e.failures
           /\ s.paused = e.paused /\ s.ran = e.ran /\ s.next \in {"later", "never"}
BY DEF WithSchedule, Entry

\* A run is a run.
LEMMA RunTyped ==
    ASSUME Typed, NEW i \in DOMAIN runs
    PROVE  runs[i] \in RunRecord
<1>1. runs \in Seq(RunRecord)
  BY DEF Typed
<1> QED BY <1>1

\* A pipeline the scheduler does not have.
LEMMA NoEntryShape ==
    /\ NoEntry \in Entry /\ ~NoEntry.known /\ ~NoEntry.running /\ ~NoEntry.removed
    /\ ~NoEntry.timer /\ NoEntry.failures = 0 /\ ~NoEntry.paused
<1>1. "absent" \in Kinds
  BY DEF Kinds
<1> QED BY <1>1 DEF NoEntry, Entry

\* A step of the scheduler's entries alone: the web and the runs are as they
\* were, every claim is kept, and the counters agree afterwards.
LEMMA EntriesStep ==
    ASSUME PipelinesInv, Typed', req' = req, admitting' = admitting, answer' = answer,
           rows' = rows, runs' = runs,
           \A p \in Pipes : /\ entry'[p].running = entry[p].running
                            /\ entry[p].running => entry'[p].known /\ phase' # "down",
           \A p \in Pipes : StreakAt(p)'
    PROVE  PipelinesInv'
<1>1. LockOK' /\ RowsOK' /\ RunsOK' /\ AnswersOK'
  BY WebFrame DEF PipelinesInv
<1>2. ASSUME NEW p \in Pipes PROVE HoldAt(p)'
  BY HoldFrame DEF PipelinesInv, HoldOK
<1>3. HoldOK'
  BY <1>2 DEF HoldOK
<1>4. StreakOK'
  BY DEF StreakOK
<1> QED BY <1>1, <1>3, <1>4 DEF PipelinesInv

\* The claims are kept where the entry of one pipeline changes but its claim.
LEMMA ClaimsStay ==
    ASSUME PipelinesInv, NEW p \in Pipes, NEW e \in Entry, entry' = [entry EXCEPT ![p] = e],
           e.running = entry[p].running, e.known, phase' = phase
    PROVE  \A o \in Pipes : /\ entry'[o].running = entry[o].running
                            /\ entry[o].running => entry'[o].known /\ phase' # "down"
<1>1. entry \in [Pipes -> Entry] /\ HoldOK
  BY DEF PipelinesInv, Typed
<1>2. ASSUME NEW o \in Pipes PROVE entry[o].running => entry[o].known /\ phase # "down"
  BY <1>1 DEF HoldOK, HoldAt
<1>3. ASSUME NEW o \in Pipes PROVE entry'[o] = IF o = p THEN e ELSE entry[o]
  BY <1>1
<1> QED BY <1>2, <1>3

\* The counters of the other pipelines are as they were.
LEMMA StreaksStay ==
    ASSUME PipelinesInv, NEW p \in Pipes, NEW e, entry' = [entry EXCEPT ![p] = e],
           runs' = runs, runHistory' = runHistory,
           \A o \in Pipes \ {p} : streak'[o] = streak[o], StreakAt(p)'
    PROVE  \A o \in Pipes : StreakAt(o)'
<1>1. ASSUME NEW o \in Pipes, o # p PROVE StreakAt(o)'
  <2>1. entry'[o] = entry[o]
    BY <1>1 DEF PipelinesInv, Typed
  <2> QED BY <1>1, <2>1, StreakFrame DEF PipelinesInv, StreakOK
<1> QED BY <1>1

\* An interval that elapses.
LEMMA ElapseKeeps ==
    ASSUME PipelinesInv, NEW p \in Pipes, Elapse(p)
    PROVE  PipelinesInv'
<1> DEFINE e == [entry[p] EXCEPT !.next = "due"]
<1>0. entry[p] \in Entry /\ entry \in [Pipes -> Entry] /\ Typed
  BY DEF PipelinesInv, Typed
<1>1. e \in Entry /\ e.running = entry[p].running /\ e.known = entry[p].known
      /\ e.timer = entry[p].timer /\ e.kind = entry[p].kind /\ e.removed = entry[p].removed
      /\ e.failures = entry[p].failures /\ e.paused = entry[p].paused
  BY <1>0 DEF Entry
<1>2. entry' = [entry EXCEPT ![p] = e]
  BY DEF Elapse
<1> HIDE DEF e
<1>3. phase' = phase /\ live' = live /\ req' = req /\ admitting' = admitting /\ answer' = answer
      /\ rows' = rows /\ runs' = runs /\ runHistory' = runHistory /\ streak' = streak
  BY DEF Elapse, webVars, storeVars
<1>4. Typed'
  BY <1>0, <1>1, <1>2, <1>3 DEF Typed
<1>5. entry'[p] = e
  BY <1>0, <1>2
<1>6. StreakAt(p)
  BY DEF PipelinesInv, StreakOK
<1>7. StreakAt(p)'
  BY <1>1, <1>3, <1>5, <1>6 DEF StreakAt, Follows, Owed, Cleared, Recorded
<1>8. \A o \in Pipes : StreakAt(o)'
  BY <1>2, <1>3, <1>7, StreaksStay
<1>9. \A o \in Pipes : /\ entry'[o].running = entry[o].running
                       /\ entry[o].running => entry'[o].known /\ phase' # "down"
  <2>1. ASSUME NEW o \in Pipes PROVE entry[o].running => entry[o].known /\ phase # "down"
    BY DEF PipelinesInv, HoldOK, HoldAt
  <2>2. ASSUME NEW o \in Pipes PROVE entry'[o] = IF o = p THEN e ELSE entry[o]
    BY <1>0, <1>2
  <2> QED BY <1>1, <1>3, <2>1, <2>2
<1> QED BY <1>3, <1>4, <1>8, <1>9, EntriesStep

\* The operator pauses a pipeline.
LEMMA PauseKeeps ==
    ASSUME PipelinesInv, NEW p \in Pipes, Pause(p)
    PROVE  PipelinesInv'
<1> DEFINE e == [entry[p] EXCEPT !.paused = TRUE]
<1>0. entry[p] \in Entry /\ entry \in [Pipes -> Entry] /\ Typed /\ entry[p].known
  BY DEF PipelinesInv, Typed, Pause
<1>1. e \in Entry /\ e.running = entry[p].running /\ e.known
      /\ e.timer = entry[p].timer /\ e.kind = entry[p].kind /\ e.removed = entry[p].removed
      /\ e.failures = entry[p].failures /\ e.paused
  BY <1>0 DEF Entry
<1>2. entry' = [entry EXCEPT ![p] = e]
  BY DEF Pause
<1> HIDE DEF e
<1>3. phase' = phase /\ live' = live /\ req' = req /\ admitting' = admitting /\ answer' = answer
      /\ rows' = rows /\ runs' = runs /\ runHistory' = runHistory /\ streak' = streak
  BY DEF Pause, webVars, storeVars
<1>4. Typed'
  BY <1>0, <1>1, <1>2, <1>3 DEF Typed
<1>5. entry'[p] = e
  BY <1>0, <1>2
<1>6. StreakAt(p)
  BY DEF PipelinesInv, StreakOK
<1>7. StreakAt(p)'
  BY <1>0, <1>1, <1>3, <1>5, <1>6 DEF StreakAt, Follows, Owed, Cleared, Recorded
<1>8. \A o \in Pipes : StreakAt(o)'
  BY <1>2, <1>3, <1>7, StreaksStay
<1>9. \A o \in Pipes : /\ entry'[o].running = entry[o].running
                       /\ entry[o].running => entry'[o].known /\ phase' # "down"
  BY <1>1, <1>2, <1>3, ClaimsStay
<1> QED BY <1>3, <1>4, <1>8, <1>9, EntriesStep

\* A resumed pipeline counts afresh, and so does its streak.
LEMMA ResumeKeeps ==
    ASSUME PipelinesInv, NEW p \in Pipes, Resume(p)
    PROVE  PipelinesInv'
<1> DEFINE n == IF entry[p].timer THEN "later" ELSE entry[p].next
           e == [entry[p] EXCEPT !.paused = FALSE, !.failures = 0, !.next = n]
<1>0. entry[p] \in Entry /\ entry \in [Pipes -> Entry] /\ Typed /\ entry[p].known
  BY DEF PipelinesInv, Typed, Resume
<1>1. e \in Entry /\ e.running = entry[p].running /\ e.known
      /\ e.timer = entry[p].timer /\ e.kind = entry[p].kind /\ e.removed = entry[p].removed
  <2>1. n \in {"never", "later", "due"}
    BY <1>0 DEF Entry
  <2> QED BY <1>0, <2>1 DEF Entry
<1>2. entry' = [entry EXCEPT ![p] = e]
  BY DEF Resume
<1> HIDE DEF e
<1>3. phase' = phase /\ live' = live /\ req' = req /\ admitting' = admitting /\ answer' = answer
      /\ rows' = rows /\ runs' = runs /\ runHistory' = runHistory
      /\ streak' = [streak EXCEPT ![p] = 0]
  BY DEF Resume, webVars, storeVars
<1>4. Typed'
  BY <1>0, <1>1, <1>2, <1>3 DEF Typed
<1>5. entry'[p] = e /\ streak'[p] = 0 /\ \A o \in Pipes \ {p} : streak'[o] = streak[o]
  BY <1>0, <1>2, <1>3 DEF Typed
<1>6. StreakAt(p)
  BY DEF PipelinesInv, StreakOK
<1>7. StreakAt(p)'
  <2>1. (e.known /\ ~e.removed => e.timer = (e.kind = "timer")) /\ e.kind # "absent"
    BY <1>0, <1>1, <1>6 DEF StreakAt, Follows
  <2> QED BY <1>0, <1>1, <1>4, <1>5, <2>1, StreakRestarts
<1>8. \A o \in Pipes : StreakAt(o)'
  BY <1>2, <1>3, <1>5, <1>7, StreaksStay
<1>9. \A o \in Pipes : /\ entry'[o].running = entry[o].running
                       /\ entry[o].running => entry'[o].known /\ phase' # "down"
  BY <1>1, <1>2, <1>3, ClaimsStay
<1> QED BY <1>3, <1>4, <1>8, <1>9, EntriesStep

\* A new schedule: of another kind it starts a new streak, of the same kind it
\* goes on with the old one, and a removed pipeline has none.
LEMMA RescheduleKeeps ==
    ASSUME PipelinesInv, NEW p \in Pipes, NEW kind \in Schedules, Reschedule(p, kind)
    PROVE  PipelinesInv'
<1>0. /\ entry[p] \in Entry /\ entry \in [Pipes -> Entry] /\ Typed /\ entry[p].known
      /\ kind \in Kinds /\ kind # "absent"
  BY PipelinesAssumption DEF PipelinesInv, Typed, Reschedule, Kinds
<1> PICK e : e = WithSchedule(entry[p], kind)
  OBVIOUS
<1>1. e \in Entry /\ e.running = entry[p].running /\ e.known /\ e.kind = kind
      /\ e.timer = (kind = "timer") /\ e.removed = entry[p].removed
      /\ e.failures = entry[p].failures /\ e.paused = entry[p].paused
  BY <1>0, ScheduleShape
<1>2. entry' = [entry EXCEPT ![p] = e]
  BY DEF Reschedule
<1>3. phase' = phase /\ live' = live /\ req' = req /\ admitting' = admitting /\ answer' = answer
      /\ rows' = rows /\ runs' = runs /\ runHistory' = runHistory
  BY DEF Reschedule, webVars, storeVars
<1>a. streak' = [streak EXCEPT ![p] = IF kind = entry[p].kind THEN streak[p] ELSE 0]
  BY DEF Reschedule
<1>4. Typed'
  <2>1. streak \in [Pipes -> Nat]
    BY <1>0 DEF Typed
  <2>2. streak' \in [Pipes -> Nat]
    BY <1>a, <2>1
  <2> QED BY <1>0, <1>1, <1>2, <1>3, <2>2 DEF Typed
<1>5. /\ entry'[p] = e /\ streak'[p] = (IF kind = entry[p].kind THEN streak[p] ELSE 0)
      /\ \A o \in Pipes \ {p} : streak'[o] = streak[o]
  BY <1>0, <1>2, <1>a DEF Typed
<1>6. StreakAt(p)
  BY DEF PipelinesInv, StreakOK
<1>7. StreakAt(p)'
  <2>1. CASE kind # entry[p].kind
    BY <1>0, <1>1, <1>4, <1>5, <2>1, StreakRestarts
  <2>2. CASE kind = entry[p].kind
    <3>1. Owed(p)' = Owed(p) /\ Cleared(p)' = Cleared(p) /\ Owed(p) \in Nat
      BY <1>3 DEF Owed, Cleared, Recorded
    <3>2. Follows(entry[p], streak[p], Owed(p))
      BY <1>6 DEF StreakAt
    <3>3. PauseAfter \in Nat /\ streak[p] \in Nat
      BY <1>0, PipelinesAssumption DEF Typed
    <3>a. e.removed => ~(PauseAfter > 0 /\ streak[p] >= PauseAfter + Owed(p))
      BY <1>1, <3>1, <3>2, <3>3 DEF Follows
    <3>4. Follows(e, streak[p], Owed(p))
      BY <1>0, <1>1, <2>2, <3>2, <3>a DEF Follows
    <3> QED BY <1>3, <1>5, <1>6, <2>2, <3>1, <3>4 DEF StreakAt
  <2> QED BY <2>1, <2>2
<1>8. \A o \in Pipes : StreakAt(o)'
  BY <1>2, <1>3, <1>5, <1>7, StreaksStay
<1>9. \A o \in Pipes : /\ entry'[o].running = entry[o].running
                       /\ entry[o].running => entry'[o].known /\ phase' # "down"
  BY <1>1, <1>2, <1>3, ClaimsStay
<1> QED BY <1>3, <1>4, <1>8, <1>9, EntriesStep

\* The entries are untouched by a new snapshot, and by the start of a drain.
LEMMA StoreKeeps ==
    ASSUME PipelinesInv, ReloadStore \/ BeginDrain
    PROVE  PipelinesInv'
<1>1. entry' = entry /\ req' = req /\ admitting' = admitting /\ answer' = answer
      /\ rows' = rows /\ runs' = runs /\ runHistory' = runHistory /\ streak' = streak
      /\ phase' \in {"serving", "draining"}
  BY DEF ReloadStore, BeginDrain, webVars, storeVars
<1>2. live' \in [number : Nat, kind : [Pipes -> Kinds]]
  <2>1. live \in [number : Nat, kind : [Pipes -> Kinds]]
    BY DEF PipelinesInv, Typed
  <2>2. CASE BeginDrain
    BY <2>1, <2>2 DEF BeginDrain
  <2>3. CASE ReloadStore
    <3>1. PICK kind \in [Pipes -> Kinds] : live' = [number |-> live.number + 1, kind |-> kind]
      BY <2>3 DEF ReloadStore
    <3> QED BY <2>1, <3>1
  <2> QED BY <2>2, <2>3
<1>3. Typed'
  BY <1>1, <1>2 DEF PipelinesInv, Typed
<1>4. ASSUME NEW p \in Pipes PROVE StreakAt(p)'
  BY <1>1, StreakFrame DEF PipelinesInv, StreakOK
<1>5. ASSUME NEW p \in Pipes PROVE entry[p].running => entry[p].known
  BY DEF PipelinesInv, HoldOK, HoldAt
<1>6. \A p \in Pipes : /\ entry'[p].running = entry[p].running
                       /\ entry[p].running => entry'[p].known /\ phase' # "down"
  BY <1>1, <1>5
<1> QED BY <1>1, <1>3, <1>4, <1>6, EntriesStep

\* What Sync makes of an entry: the claim stays, and an entry that changed has
\* the timer of its new schedule.
LEMMA SyncedShape ==
    ASSUME NEW p \in Pipes, entry[p] \in Entry, live.kind[p] \in Kinds, NEW overdue \in BOOLEAN
    PROVE  LET e == Synced(p, overdue) IN
           /\ e \in Entry /\ e.running = entry[p].running /\ e.known
           /\ ~Changed(p) => e = entry[p]
           /\ Changed(p) => e.timer = (e.kind = "timer") /\ e.kind = live.kind[p]
<1>1. CASE ~Changed(p)
  BY <1>1 DEF Synced, Changed
<1>2. CASE Changed(p)
  <2> DEFINE k == [entry[p] EXCEPT !.removed = FALSE]
  <2>1. k \in Entry /\ k.running = entry[p].running
    BY DEF Entry
  <2> HIDE DEF k
  <2> PICK s : s = WithSchedule(k, live.kind[p])
    OBVIOUS
  <2>2. s \in Entry /\ s.running = entry[p].running /\ s.known /\ s.timer = (s.kind = "timer")
       /\ s.kind = live.kind[p]
    BY <2>1, ScheduleShape
  <2>3. Synced(p, overdue) = IF s.timer /\ s.ran /\ overdue THEN [s EXCEPT !.next = "due"] ELSE s
    BY <1>2 DEF Synced, k
  <2> DEFINE d == [s EXCEPT !.next = "due"]
  <2>4. d \in Entry /\ d.running = s.running /\ d.known = s.known /\ d.timer = s.timer /\ d.kind = s.kind
    BY <2>2 DEF Entry
  <2> HIDE DEF d
  <2>5. Synced(p, overdue) = s \/ Synced(p, overdue) = d
    BY <2>3 DEF d
  <2> QED BY <1>2, <2>2, <2>4, <2>5
<1> QED BY <1>1, <1>2

\* What Sync makes of the entry of a pipeline that disappeared: none, or one that
\* is removed at the end of its run.
LEMMA DroppedShape ==
    ASSUME NEW p \in Pipes, entry[p] \in Entry
    PROVE  LET e == Dropped(p) IN
           /\ e \in Entry /\ e.running = entry[p].running
           /\ e = NoEntry \/ (/\ entry[p].running /\ e.removed /\ ~e.timer
                              /\ e.known = entry[p].known /\ e.kind = entry[p].kind)
<1>1. CASE entry[p].running
  BY <1>1 DEF Dropped, Entry
<1>2. CASE ~entry[p].running
  BY <1>2, NoEntryShape DEF Dropped, Entry
<1> QED BY <1>1, <1>2

\* The snapshot reaches the scheduler.
LEMMA SyncKeeps ==
    ASSUME PipelinesInv, Sync
    PROVE  PipelinesInv'
<1>0. Typed /\ \A p \in Pipes : entry[p] \in Entry /\ live.kind[p] \in Kinds
  BY DEF PipelinesInv, Typed
<1>1. PICK overdue \in BOOLEAN :
        entry' = [p \in Pipes |-> IF live.kind[p] # "absent" THEN Synced(p, overdue) ELSE Dropped(p)]
  BY DEF Sync
<1>2. streak' = [p \in Pipes |-> IF Changed(p) THEN 0 ELSE streak[p]]
  BY DEF Sync
<1>3. phase' = phase /\ live' = live /\ req' = req /\ admitting' = admitting /\ answer' = answer
      /\ rows' = rows /\ runs' = runs /\ runHistory' = runHistory
  BY DEF Sync, webVars, storeVars
<1>a. ASSUME NEW p \in Pipes
      PROVE  entry'[p] = (IF live.kind[p] # "absent" THEN Synced(p, overdue) ELSE Dropped(p))
  BY <1>1
<1>b. ASSUME NEW p \in Pipes PROVE streak'[p] = (IF Changed(p) THEN 0 ELSE streak[p])
  BY <1>2
<1>c. ASSUME NEW p \in Pipes PROVE entry'[p] \in Entry /\ entry'[p].running = entry[p].running
  BY <1>0, <1>a, SyncedShape, DroppedShape
<1>4. Typed'
  <2>1. entry' \in [Pipes -> Entry]
    BY <1>1, <1>a, <1>c
  <2>2. streak' \in [Pipes -> Nat]
    BY <1>0, <1>2 DEF Typed
  <2> QED BY <1>0, <1>3, <2>1, <2>2 DEF Typed
<1>d. ASSUME NEW p \in Pipes PROVE entry[p].running => entry[p].known /\ phase # "down"
  BY DEF PipelinesInv, HoldOK, HoldAt
<1>5. ASSUME NEW p \in Pipes PROVE entry[p].running => entry'[p].known
  BY <1>0, <1>a, <1>c, <1>d, SyncedShape, DroppedShape, NoEntryShape
<1>6. ASSUME NEW p \in Pipes PROVE StreakAt(p)'
  <2>0. StreakAt(p)
    BY DEF PipelinesInv, StreakOK
  <2>1. CASE live.kind[p] # "absent" /\ ~Changed(p)
    <3>1. entry'[p] = entry[p] /\ streak'[p] = streak[p]
      BY <1>0, <1>a, <1>b, <2>1, SyncedShape
    <3> QED BY <1>3, <2>0, <3>1, StreakFrame
  <2>2. CASE live.kind[p] # "absent" /\ Changed(p)
    BY <1>0, <1>4, <1>a, <1>b, <2>2, SyncedShape, StreakRestarts
  <2>3. CASE live.kind[p] = "absent" /\ Changed(p)
    <3>1. entry[p].known => entry[p].kind # "absent"
      BY <2>0 DEF StreakAt, Follows
    <3>2. /\ entry'[p].timer => entry'[p].known
          /\ entry'[p].known /\ ~entry'[p].removed => entry'[p].timer = (entry'[p].kind = "timer")
          /\ entry'[p].known => entry'[p].kind # "absent"
      BY <1>0, <1>a, <2>3, <3>1, DroppedShape, NoEntryShape
    <3> QED BY <1>0, <1>4, <1>b, <2>3, <3>2, StreakRestarts
  <2>4. CASE live.kind[p] = "absent" /\ ~Changed(p)
    BY <1>0, <2>0, <2>4 DEF Changed, StreakAt, Follows
  <2> QED BY <2>1, <2>2, <2>3, <2>4
<1> QED BY <1>3, <1>4, <1>6, <1>c, <1>d, <1>5, EntriesStep

\* The new runs of a set of pipelines, one each, that no request asked for.
Starts(due) ==
    /\ runs' \in Seq(RunRecord)
    /\ \A i \in DOMAIN runs : i \in DOMAIN runs' /\ runs'[i] = runs[i]
    /\ \A i \in DOMAIN runs' \ DOMAIN runs :
          runs'[i].pipe \in due /\ runs'[i].by = Nobody /\ runs'[i].at = "working"
    /\ \A i, j \in DOMAIN runs' \ DOMAIN runs : runs'[i].pipe = runs'[j].pipe => i = j
    /\ \A p \in due : \E i \in DOMAIN runs' \ DOMAIN runs : runs'[i].pipe = p

\* The entries of the pipelines say so and are otherwise as they were.
Claims(due) ==
    /\ entry' \in [Pipes -> Entry]
    /\ \A p \in Pipes :
          /\ entry'[p].running = (entry[p].running \/ p \in due)
          /\ entry'[p].known = entry[p].known /\ entry'[p].kind = entry[p].kind
          /\ entry'[p].timer = entry[p].timer /\ entry'[p].paused = entry[p].paused
          /\ entry'[p].removed = entry[p].removed /\ entry'[p].failures = entry[p].failures

\* Runs that no request asked for start for pipelines that were not running.
LEMMA StartsKeep ==
    ASSUME PipelinesInv, NEW due \in SUBSET Pipes, Starts(due), Claims(due),
           \A p \in due : entry[p].known /\ ~entry[p].running,
           phase = "serving", phase' = phase, live' = live, req' = req, admitting' = admitting,
           answer' = answer, rows' = rows, runHistory' = runHistory, streak' = streak
    PROVE  PipelinesInv'
<1>0. Typed /\ LockOK /\ RowsOK /\ RunsOK /\ AnswersOK /\ HoldOK /\ StreakOK
  BY DEF PipelinesInv
<1>1. Typed'
  BY <1>0 DEF Typed, Starts, Claims
<1>2. LockOK'
  BY <1>0 DEF LockOK
<1>3. RowsOK'
  BY <1>0 DEF RowsOK
<1>4. AnswersOK'
  BY <1>0 DEF AnswersOK
<1>5. RunsOK'
  <2>0. Nobody \notin Reqs
    BY PipelinesAssumption
  <2>1. ASSUME NEW i \in DOMAIN runs', runs'[i].by # Nobody
        PROVE  i \in DOMAIN runs /\ runs'[i] = runs[i]
    BY <2>1 DEF Starts
  <2>2. ASSUME NEW i \in DOMAIN runs', runs'[i].by # Nobody
        PROVE  LET r == runs'[i].by IN
               /\ runs'[i].pipe = PipeOf[r] /\ req'[r].pc = "done" /\ rows'[r] # "none"
               /\ \A j \in DOMAIN runs' : runs'[j].by = r => j = i
               /\ runs'[i].at \in {"working", "recorded"} => rows'[r] = "running"
               /\ runs'[i].at = "settled" => rows'[r] \in {"running", "completed", "error"}
               /\ rows'[r] \in {"completed", "error"} => (rows'[r] = "completed") = runs'[i].ok
    BY <1>0, <2>1, <2>2 DEF RunsOK
  <2>3. ASSUME NEW i \in DOMAIN runs', runs'[i].at = "recorded" PROVE runs'[i].by # Nobody
    BY <1>0, <2>3 DEF RunsOK, Starts
  <2>4. ASSUME NEW r \in Reqs, rows'[r] \in {"running", "completed", "error"}
        PROVE  \E i \in DOMAIN runs' : runs'[i].by = r
    BY <1>0, <2>4 DEF RunsOK, Starts
  <2> QED BY <2>2, <2>3, <2>4 DEF RunsOK
<1>6. ASSUME NEW p \in Pipes PROVE HoldAt(p)'
  <2>0. HoldAt(p)
    BY <1>0 DEF HoldOK
  <2>1. ASSUME NEW i \in DOMAIN runs, RunsOn(i, p)
        PROVE  i \in DOMAIN runs' /\ RunsOn(i, p)'
    BY <2>1 DEF RunsOn, Active, Starts
  <2>2. ASSUME NEW i \in DOMAIN runs, i \in DOMAIN runs', RunsOn(i, p)' PROVE RunsOn(i, p)
    BY <2>2 DEF RunsOn, Active, Starts
  <2>3. ASSUME NEW i \in DOMAIN runs', i \notin DOMAIN runs
        PROVE  RunsOn(i, p)' <=> runs'[i].pipe = p
    BY <2>3 DEF RunsOn, Active, Starts
  <2>4. ASSUME NEW r \in Reqs PROVE HeldBy(r, p)' <=> HeldBy(r, p)
    BY DEF HeldBy
  <2>5. CASE p \in due
    <3>1. /\ \A r \in Reqs : ~HeldBy(r, p) /\ \A i \in DOMAIN runs : ~RunsOn(i, p)
          /\ \A i \in DOMAIN runs : ~RunsOn(i, p)
      BY <2>0, <2>5 DEF HoldAt
    <3>2. \A i \in DOMAIN runs' : RunsOn(i, p)' <=> i \notin DOMAIN runs /\ runs'[i].pipe = p
      BY <2>2, <2>3, <3>1
    <3>3. \A i, j \in DOMAIN runs' : RunsOn(i, p)' /\ RunsOn(j, p)' => i = j
      BY <3>2 DEF Starts
    <3>4. \E i \in DOMAIN runs' : RunsOn(i, p)'
      BY <2>5, <3>2 DEF Starts
    <3>5. entry'[p].running /\ entry'[p].known /\ phase' # "down"
      BY <2>5 DEF Claims
    <3>6. \A r \in Reqs : ~HeldBy(r, p)'
      BY <2>4, <3>1
    <3> QED BY <3>3, <3>4, <3>5, <3>6 DEF HoldAt
  <2>6. CASE p \notin due
    <3>1. \A i \in DOMAIN runs' : RunsOn(i, p)' => i \in DOMAIN runs /\ RunsOn(i, p)
      BY <2>2, <2>3, <2>6 DEF Starts
    <3>2. entry'[p].running = entry[p].running /\ entry'[p].known = entry[p].known
      <4>1. entry[p].running \in BOOLEAN
        BY <1>0 DEF Typed, Entry
      <4> QED BY <2>6, <4>1 DEF Claims
    <3>3. \A i, j \in DOMAIN runs' : RunsOn(i, p)' /\ RunsOn(j, p)' => i = j
      BY <2>0, <3>1 DEF HoldAt
    <3>4. \A r \in Reqs, i \in DOMAIN runs' : ~(HeldBy(r, p)' /\ RunsOn(i, p)')
      BY <2>0, <2>4, <3>1 DEF HoldAt
    <3>5. entry'[p].running <=>
             (\E r \in Reqs : HeldBy(r, p)') \/ (\E i \in DOMAIN runs' : RunsOn(i, p)')
      BY <2>0, <2>1, <2>4, <3>1, <3>2 DEF HoldAt
    <3>6. entry'[p].running => entry'[p].known /\ phase' # "down"
      BY <2>0, <3>2 DEF HoldAt
    <3> QED BY <3>3, <3>4, <3>5, <3>6 DEF HoldAt
  <2> QED BY <2>5, <2>6
<1>7. HoldOK'
  BY <1>6 DEF HoldOK
<1>8. ASSUME NEW p \in Pipes PROVE StreakAt(p)'
  <2>0. StreakAt(p)
    BY <1>0 DEF StreakOK
  <2>1. \A i \in DOMAIN runs' : Recorded(i, p)' => i \in DOMAIN runs
    BY DEF Recorded, Starts
  <2>2. \A i \in DOMAIN runs : i \in DOMAIN runs' /\ (Recorded(i, p)' <=> Recorded(i, p))
                               /\ runs'[i].ok = runs[i].ok
    BY DEF Recorded, Starts
  <2>3. Owed(p)' = Owed(p)
    BY <2>1, <2>2 DEF Owed
  <2>4. Cleared(p)' => Cleared(p)
    BY <2>1, <2>2 DEF Cleared
  <2>5. Follows(entry[p], streak[p], Owed(p))'
    BY <2>0, <2>3 DEF StreakAt, Follows, Claims
  <2> QED BY <2>0, <2>4, <2>5 DEF StreakAt
<1>9. StreakOK'
  BY <1>8 DEF StreakOK
<1> QED BY <1>1, <1>2, <1>3, <1>4, <1>5, <1>7, <1>9 DEF PipelinesInv

\* An order of a finite set lists every member once.
LEMMA OrderIsOnto ==
    ASSUME NEW S, IsFiniteSet(S), NEW order \in SetToSeqs(S)
    PROVE  /\ Cardinality(S) \in Nat /\ order \in [1 .. Cardinality(S) -> S]
           /\ \A i, j \in 1 .. Cardinality(S) : order[i] = order[j] => i = j
           /\ \A x \in S : \E i \in 1 .. Cardinality(S) : order[i] = x
<1> PICK c : c = Cardinality(S)
  OBVIOUS
<1>1. c \in Nat
  BY FS_CardinalityType
<1>2. order \in [1 .. c -> S] /\ \A i, j \in 1 .. c : i # j => order[i] # order[j]
  BY DEF SetToSeqs
<1>3. order \in Injection(1 .. c, S)
  BY <1>2 DEF Injection, IsInjective
<1>4. Cardinality(1 .. c) = c
  <2>1. IsFiniteSet(1 .. c) /\ Cardinality(1 .. c) = IF 1 > c THEN 0 ELSE c - 1 + 1
    <3>1. 1 \in Int /\ c \in Int
      BY <1>1
    <3> QED BY <3>1, FS_Interval
  <2> QED BY <1>1, <2>1
<1>5. order \in Surjection(1 .. c, S)
  BY <1>3, <1>4, FS_Injection
<1>6. \A x \in S : \E i \in 1 .. c : order[i] = x
  BY <1>5 DEF Surjection
<1> QED BY <1>1, <1>2, <1>6

\* A new run on record.
LEMMA RunShape ==
    ASSUME NEW p \in Pipes, NEW by \in Reqs \cup {Nobody}
    PROVE  /\ Run(p, by) \in RunRecord /\ Run(p, by).pipe = p /\ Run(p, by).by = by
           /\ Run(p, by).at = "working" /\ ~Run(p, by).ok
BY DEF Run, RunRecord, RunAt

\* The tick claims every due pipeline and starts each once.
LEMMA ClaimDueKeeps ==
    ASSUME PipelinesInv, ClaimDue
    PROVE  PipelinesInv'
<1>d. PICK due : due = {p \in Pipes : IsDue(p) /\ MayClaim(p, FALSE)}
  OBVIOUS
<1>0. Typed /\ entry \in [Pipes -> Entry] /\ runs \in Seq(RunRecord)
  BY DEF PipelinesInv, Typed
<1>1. PICK order \in SetToSeqs(due) : runs' = runs \o [i \in DOMAIN order |-> Run(order[i], Nobody)]
  BY <1>d DEF ClaimDue
<1>2. entry' = [p \in Pipes |-> [entry[p] EXCEPT !.running = entry[p].running \/ p \in due]]
  BY <1>d DEF ClaimDue
<1>3. phase = "serving" /\ phase' = phase /\ live' = live /\ req' = req /\ admitting' = admitting
      /\ answer' = answer /\ rows' = rows /\ runHistory' = runHistory /\ streak' = streak
  BY DEF ClaimDue, webVars, storeVars
<1>4. due \in SUBSET Pipes /\ \A p \in due : entry[p].known /\ ~entry[p].running
  BY <1>d DEF MayClaim
<1>5. IsFiniteSet(due)
  BY <1>4, FS_Subset, PipelinesAssumption
<1>b. PICK c : c = Cardinality(due)
  OBVIOUS
<1>6. /\ c \in Nat /\ order \in [1 .. c -> due]
      /\ \A i, j \in 1 .. c : order[i] = order[j] => i = j
      /\ \A p \in due : \E i \in 1 .. c : order[i] = p
  <2>1. /\ Cardinality(due) \in Nat /\ order \in [1 .. Cardinality(due) -> due]
        /\ \A i, j \in 1 .. Cardinality(due) : order[i] = order[j] => i = j
        /\ \A p \in due : \E i \in 1 .. Cardinality(due) : order[i] = p
    BY <1>5, OrderIsOnto, Zenon
  <2> QED BY <1>b, <2>1
<1>c. c \in Nat
  BY <1>6
<1>s. PICK started : started = [i \in DOMAIN order |-> Run(order[i], Nobody)]
  OBVIOUS
<1>7. /\ DOMAIN started = 1 .. c /\ started \in Seq(RunRecord) /\ Len(started) = c
      /\ \A i \in 1 .. c : /\ started[i].pipe = order[i] /\ started[i].by = Nobody
                           /\ started[i].at = "working"
  <2>1. DOMAIN order = 1 .. c
    BY <1>6
  <2>2. ASSUME NEW i \in 1 .. c
        PROVE  /\ started[i] \in RunRecord /\ started[i].pipe = order[i] /\ started[i].by = Nobody
               /\ started[i].at = "working"
    <3>1. started[i] = Run(order[i], Nobody) /\ order[i] \in Pipes
      BY <1>4, <1>6, <1>s, <2>1
    <3> QED BY <3>1, RunShape
  <2>3. started \in [1 .. c -> RunRecord] /\ DOMAIN started = 1 .. c
    BY <1>s, <2>1, <2>2
  <2>4. started \in Seq(RunRecord) /\ Len(started) = c
    BY <1>c, <2>3
  <2> QED BY <2>2, <2>3, <2>4
<1>n. PICK n : n = Len(runs)
  OBVIOUS
<1>8. n \in Nat /\ DOMAIN runs = 1 .. n
  BY <1>0, <1>n
<1>9. runs' = runs \o started
  BY <1>1, <1>s
<1>10. /\ runs' \in Seq(RunRecord) /\ DOMAIN runs' = 1 .. n + c
       /\ \A i \in 1 .. n + c : runs'[i] = IF i <= n THEN runs[i] ELSE started[i - n]
  <2>1. runs \in Seq(RunRecord) /\ started \in Seq(RunRecord) /\ Len(started) = c
    BY <1>0, <1>7
  <2>2. runs \o started \in Seq(RunRecord) /\ Len(runs \o started) = n + c
    BY <1>n, <2>1
  <2>3. \A i \in 1 .. n + c : (runs \o started)[i] = IF i <= n THEN runs[i] ELSE started[i - n]
    BY <1>n, <2>1
  <2> QED BY <1>9, <2>2, <2>3
<1>11. Starts(due)
  <2>1. \A i \in DOMAIN runs : i \in DOMAIN runs' /\ runs'[i] = runs[i]
    BY <1>c, <1>8, <1>10
  <2>2. ASSUME NEW i \in DOMAIN runs' \ DOMAIN runs
        PROVE  i \in Nat /\ i - n \in 1 .. c /\ runs'[i] = started[i - n]
    BY <1>c, <1>8, <1>10
  <2>3. ASSUME NEW i \in DOMAIN runs' \ DOMAIN runs
        PROVE  runs'[i].pipe = order[i - n] /\ order[i - n] \in due
               /\ runs'[i].by = Nobody /\ runs'[i].at = "working"
    BY <1>6, <1>7, <2>2
  <2>4. ASSUME NEW i \in DOMAIN runs' \ DOMAIN runs, NEW j \in DOMAIN runs' \ DOMAIN runs,
               runs'[i].pipe = runs'[j].pipe
        PROVE  i = j
    <3>1. i - n = j - n
      BY <1>6, <2>2, <2>3, <2>4
    <3> QED BY <1>8, <2>2, <3>1
  <2>5. ASSUME NEW p \in due
        PROVE  \E i \in DOMAIN runs' \ DOMAIN runs : runs'[i].pipe = p
    <3>1. PICK k \in 1 .. c : order[k] = p
      BY <1>6
    <3>2. n + k \in DOMAIN runs' \ DOMAIN runs /\ (n + k) - n = k
      BY <1>6, <1>8, <1>10
    <3>3. runs'[n + k].pipe = p
      BY <2>3, <3>1, <3>2
    <3> QED BY <3>2, <3>3
  <2> QED BY <1>10, <2>1, <2>3, <2>4, <2>5 DEF Starts
<1>12. Claims(due)
  <2>1. ASSUME NEW p \in Pipes
        PROVE  /\ entry'[p] \in Entry
               /\ entry'[p].running = (entry[p].running \/ p \in due)
               /\ entry'[p].known = entry[p].known /\ entry'[p].kind = entry[p].kind
               /\ entry'[p].timer = entry[p].timer /\ entry'[p].paused = entry[p].paused
               /\ entry'[p].removed = entry[p].removed /\ entry'[p].failures = entry[p].failures
    <3>1. entry[p] \in Entry
      BY <1>0
    <3> PICK b \in BOOLEAN : b = (entry[p].running \/ p \in due)
      OBVIOUS
    <3>2. entry'[p] = [entry[p] EXCEPT !.running = b]
      BY <1>2
    <3> QED BY <3>1, <3>2 DEF Entry
  <2>2. entry' \in [Pipes -> Entry]
    BY <1>2, <2>1
  <2> QED BY <2>1, <2>2 DEF Claims
<1> QED BY <1>3, <1>4, <1>11, <1>12, StartsKeep

\* The operator starts one.
LEMMA RunNowKeeps ==
    ASSUME PipelinesInv, NEW p \in Pipes, RunNow(p)
    PROVE  PipelinesInv'
<1>0. Typed /\ entry \in [Pipes -> Entry] /\ runs \in Seq(RunRecord)
  BY DEF PipelinesInv, Typed
<1>1. entry' = [entry EXCEPT ![p].running = TRUE]
  BY DEF RunNow, Claimed
<1>2. runs' = Append(runs, Run(p, Nobody))
  BY DEF RunNow
<1>3. phase = "serving" /\ phase' = phase /\ live' = live /\ req' = req /\ admitting' = admitting
      /\ answer' = answer /\ rows' = rows /\ runHistory' = runHistory /\ streak' = streak
      /\ entry[p].known /\ ~entry[p].running
  BY DEF RunNow, Command, MayClaim, webVars, storeVars
<1> PICK run : run = Run(p, Nobody)
  OBVIOUS
<1>4. run \in RunRecord /\ run.pipe = p /\ run.by = Nobody /\ run.at = "working"
  BY RunShape
<1> PICK n : n = Len(runs)
  OBVIOUS
<1>5. /\ n \in Nat /\ DOMAIN runs = 1 .. n /\ DOMAIN runs' = 1 .. n + 1 /\ runs' \in Seq(RunRecord)
      /\ \A i \in 1 .. n : runs'[i] = runs[i]
      /\ runs'[n + 1] = run
  BY <1>0, <1>2, <1>4
<1>6. Starts({p})
  <2>1. \A i \in DOMAIN runs : i \in DOMAIN runs' /\ runs'[i] = runs[i]
    BY <1>5
  <2>2. DOMAIN runs' \ DOMAIN runs = {n + 1}
    BY <1>5
  <2> QED BY <1>4, <1>5, <2>1, <2>2 DEF Starts
<1>7. Claims({p})
  <2> DEFINE e == [entry[p] EXCEPT !.running = TRUE]
  <2>1. entry' = [entry EXCEPT ![p] = e]
    BY <1>1
  <2>2. e \in Entry /\ e.running /\ e.known = entry[p].known /\ e.kind = entry[p].kind
        /\ e.timer = entry[p].timer /\ e.paused = entry[p].paused
        /\ e.removed = entry[p].removed /\ e.failures = entry[p].failures
    BY <1>0 DEF Entry
  <2> HIDE DEF e
  <2>3. ASSUME NEW o \in Pipes PROVE entry'[o] = (IF o = p THEN e ELSE entry[o]) /\ entry[o].running \in BOOLEAN
    BY <1>0, <2>1 DEF Entry
  <2>4. entry' \in [Pipes -> Entry]
    BY <1>0, <2>1, <2>2
  <2>5. ASSUME NEW o \in Pipes PROVE entry'[o].running = (entry[o].running \/ o \in {p})
    <3>1. CASE o = p
      <4>1. e.running = TRUE
        BY <2>2 DEF Entry
      <4> QED BY <2>3, <3>1, <4>1
    <3>2. CASE o # p
      BY <2>3, <3>2
    <3> QED BY <3>1, <3>2
  <2> QED BY <2>2, <2>3, <2>4, <2>5 DEF Claims
<1> QED BY <1>3, <1>6, <1>7, StartsKeep

-----------------------------------------------------------------------------
\* The webhook handler.

\* What a handler's step to x does to the claim of its pipeline: it takes a
\* free one, keeps its own, or gives it back.
Hands(r, x) ==
    /\ entry' \in [Pipes -> Entry]
    /\ \A p \in Pipes :
          /\ p # PipeOf[r] => entry'[p].running = entry[p].running
          /\ entry'[p].known = entry[p].known /\ entry'[p].kind = entry[p].kind
          /\ entry'[p].timer = entry[p].timer /\ entry'[p].paused = entry[p].paused
          /\ entry'[p].removed = entry[p].removed /\ entry'[p].failures = entry[p].failures
    /\ entry'[PipeOf[r]].running <=>
          (entry[PipeOf[r]].running /\ req[r].pc \notin Holding) \/ x.pc \in Holding
    /\ x.pc \in Holding =>
          \/ req[r].pc \in Holding
          \/ ~entry[PipeOf[r]].running /\ entry[PipeOf[r]].known /\ phase # "down"

\* What it does to admissionMu: it takes it free, keeps it, or gives it back.
Locks(r, x) ==
    /\ admitting' = admitting \/ admitting \in {r, Nobody}
    /\ x.pc \in {"locked"} \cup Holding => admitting' = r

\* What it may say of the row of its request.
Books(r, x, row) ==
    /\ row = rows[r] \/ (req[r].pc = "signed" /\ row = "accepted")
    /\ x.pc \in {"new", "read", "locked", "claimed", "signed"} => row = "none"
    /\ x.pc = "admitted" => row = "accepted"
    /\ x.pc \in {"locked", "claimed", "signed"} =>
          \A q \in Reqs : SameKey(q, r) => rows[q] = "none"
    /\ x.body = req[r].body \/ rows[r] = "none"

\* What it may answer while its request has started no run.
Says(r, x, a) ==
    a.code = 202 =>
        LET q == a.id IN
        /\ x.pc = "done" /\ q \in Reqs \ {r} /\ rows[q] # "none"
        /\ req[q].body = x.body /\ SameKey(q, r)

\* A step of a handler keeps the claims: it takes a free one or has its own.
LEMMA HandsKeep ==
    ASSUME PipelinesInv, NEW r \in Reqs, NEW x \in Request, req' = [req EXCEPT ![r] = x],
           Hands(r, x), runs' = runs, phase' = phase
    PROVE  HoldOK'
<1>0. Typed /\ LockOK /\ HoldOK /\ r # Nobody
  BY PipelinesAssumption DEF PipelinesInv
<1>1. ASSUME NEW q \in Reqs PROVE req'[q] = IF q = r THEN x ELSE req[q]
  BY <1>0 DEF Typed
<1>2. ASSUME NEW p \in Pipes PROVE HoldAt(p)'
  <2>0. HoldAt(p)
    BY <1>0 DEF HoldOK
  <2>1. ASSUME NEW i \in DOMAIN runs PROVE RunsOn(i, p)' <=> RunsOn(i, p)
    BY DEF RunsOn, Active
  <2>2. ASSUME NEW q \in Reqs, q # r PROVE HeldBy(q, p)' <=> HeldBy(q, p)
    BY <1>1, <2>2 DEF HeldBy
  <2>3. HeldBy(r, p)' <=> PipeOf[r] = p /\ x.pc \in Holding
    BY <1>1 DEF HeldBy
  <2>4. HeldBy(r, p) <=> PipeOf[r] = p /\ req[r].pc \in Holding
    BY DEF HeldBy
  <2>5. CASE PipeOf[r] # p
    <3>1. \A q \in Reqs : HeldBy(q, p)' <=> HeldBy(q, p)
      BY <2>2, <2>3, <2>4, <2>5
    <3>2. entry'[p].running = entry[p].running /\ entry'[p].known = entry[p].known
      BY <2>5 DEF Hands
    <3> QED BY <2>0, <2>1, <3>1, <3>2 DEF HoldAt
  <2>6. CASE PipeOf[r] = p
    <3>1. entry'[p].running <=> (entry[p].running /\ req[r].pc \notin Holding) \/ x.pc \in Holding
      BY <2>6 DEF Hands
    <3>2. entry'[p].known = entry[p].known
      BY DEF Hands
    <3>3. CASE req[r].pc \in Holding
      <4>1. \A q \in Reqs \ {r} : ~HeldBy(q, p)
        BY <1>0, <3>3 DEF LockOK, HeldBy, Holding
      <4>2. \A i \in DOMAIN runs : ~RunsOn(i, p)
        BY <2>0, <2>4, <2>6, <3>3 DEF HoldAt
      <4>3. entry[p].known /\ phase # "down"
        BY <2>0, <2>4, <2>6, <3>3 DEF HoldAt
      <4>4. entry'[p].running <=> x.pc \in Holding
        BY <3>1, <3>3
      <4>5. \A q \in Reqs \ {r} : ~HeldBy(q, p)'
        BY <2>2, <4>1
      <4>6. \A i \in DOMAIN runs' : ~RunsOn(i, p)'
        BY <2>1, <4>2
      <4>7. entry'[p].running <=>
               (\E q \in Reqs : HeldBy(q, p)') \/ (\E i \in DOMAIN runs' : RunsOn(i, p)')
        BY <2>3, <2>6, <4>4, <4>5, <4>6
      <4> QED BY <3>2, <4>3, <4>6, <4>7 DEF HoldAt
    <3>4. CASE req[r].pc \notin Holding /\ x.pc \notin Holding
      <4>1. \A q \in Reqs : HeldBy(q, p)' <=> HeldBy(q, p)
        BY <2>2, <2>3, <2>4, <3>4
      <4>2. entry'[p].running <=> entry[p].running
        BY <3>1, <3>4
      <4> QED BY <2>0, <2>1, <3>2, <4>1, <4>2 DEF HoldAt
    <3>5. CASE req[r].pc \notin Holding /\ x.pc \in Holding
      <4>1. ~entry[p].running /\ entry[p].known /\ phase # "down"
        BY <2>6, <3>5 DEF Hands
      <4>2. (\A q \in Reqs : ~HeldBy(q, p)) /\ (\A i \in DOMAIN runs : ~RunsOn(i, p))
        BY <2>0, <4>1 DEF HoldAt
      <4>3. \A i \in DOMAIN runs' : ~RunsOn(i, p)'
        BY <2>1, <4>2
      <4>4. HeldBy(r, p)' /\ entry'[p].running
        BY <2>3, <2>6, <3>1, <3>5
      <4> QED BY <3>2, <4>1, <4>3, <4>4 DEF HoldAt
    <3> QED BY <3>3, <3>4, <3>5
  <2> QED BY <2>5, <2>6
<1> QED BY <1>2 DEF HoldOK

\* A step of a handler that starts no run.
LEMMA HandlerKeeps ==
    ASSUME PipelinesInv, NEW r \in Reqs, req[r].pc # "done",
           NEW x \in Request, req' = [req EXCEPT ![r] = x],
           NEW a \in Answer, answer' = [answer EXCEPT ![r] = a],
           NEW row \in Status, rows' = [rows EXCEPT ![r] = row],
           Hands(r, x), Locks(r, x), Books(r, x, row), Says(r, x, a),
           runs' = runs, runHistory' = runHistory, streak' = streak, live' = live, phase' = phase
    PROVE  PipelinesInv'
<1>0. Typed /\ LockOK /\ RowsOK /\ RunsOK /\ AnswersOK /\ HoldOK /\ StreakOK /\ Nobody \notin Reqs
  BY PipelinesAssumption DEF PipelinesInv
<1>1. ASSUME NEW q \in Reqs
      PROVE  /\ req'[q] = IF q = r THEN x ELSE req[q]
             /\ answer'[q] = IF q = r THEN a ELSE answer[q]
             /\ rows'[q] = IF q = r THEN row ELSE rows[q]
  BY <1>0 DEF Typed
<1>2. Typed'
  BY <1>0 DEF Typed, Hands
<1>3. LockOK'
  BY <1>0, <1>1 DEF LockOK, Locks
<1>4. row = rows[r] \/ (/\ rows[r] = "none" /\ row = "accepted" /\ req[r].pc = "signed"
                        /\ admitting = r /\ \A q \in Reqs : SameKey(q, r) => rows[q] = "none")
  BY <1>0 DEF Books, RowsOK, LockOK, Holding
<1>5. RowsOK'
  <2>1. ASSUME NEW q \in Reqs, req'[q].pc \in {"new", "read", "locked", "claimed", "signed"}
        PROVE  rows'[q] = "none"
    BY <1>0, <1>1, <2>1 DEF RowsOK, Books
  <2>2. ASSUME NEW q \in Reqs, req'[q].pc = "admitted" PROVE rows'[q] = "accepted"
    BY <1>0, <1>1, <2>2 DEF RowsOK, Books
  <2>3. ASSUME NEW q \in Reqs, req'[q].pc \in {"locked", "claimed", "signed"},
               NEW o \in Reqs, SameKey(o, q)
        PROVE  rows'[o] = "none"
    <3>1. CASE q = r
      <4>1. rows[o] = "none"
        BY <1>1, <2>3, <3>1 DEF Books
      <4>2. row = "none"
        BY <1>1, <2>3, <3>1 DEF Books
      <4> QED BY <1>1, <4>1, <4>2
    <3>2. CASE q # r
      <4>1. rows[o] = "none" /\ admitting = q
        BY <1>0, <1>1, <2>3, <3>2 DEF RowsOK, LockOK, Holding
      <4> QED BY <1>1, <1>4, <3>2, <4>1
    <3> QED BY <3>1, <3>2
  <2>4. ASSUME NEW q \in Reqs, NEW o \in Reqs, SameKey(o, q), rows'[o] # "none", rows'[q] # "none"
        PROVE  o = q
    <3>1. SameKey(q, o)
      BY <2>4 DEF SameKey
    <3>2. CASE row = rows[r]
      BY <1>0, <1>1, <2>4, <3>2 DEF RowsOK
    <3>3. CASE row # rows[r]
      BY <1>0, <1>1, <1>4, <2>4, <3>1, <3>3 DEF RowsOK
    <3> QED BY <3>2, <3>3
  <2> QED BY <2>1, <2>2, <2>3, <2>4 DEF RowsOK
<1>6. RunsOK'
  <2>1. ASSUME NEW i \in DOMAIN runs, runs[i].by # Nobody
        PROVE  /\ runs[i].by \in Reqs /\ runs[i].by # r
               /\ req'[runs[i].by] = req[runs[i].by] /\ rows'[runs[i].by] = rows[runs[i].by]
    <3>1. runs[i].by \in Reqs
      BY <1>0, <2>1, RunTyped DEF RunRecord
    <3>2. runs[i].by # r
      BY <1>0, <2>1 DEF RunsOK
    <3> QED BY <1>1, <3>1, <3>2
  <2>2. ASSUME NEW q \in Reqs, rows'[q] \in {"running", "completed", "error"}
        PROVE  rows[q] = rows'[q]
    BY <1>1, <1>4, <2>2
  <2> QED BY <1>0, <2>1, <2>2 DEF RunsOK
<1>7. AnswersOK'
  <2>1. ASSUME NEW q \in Reqs, answer'[q].code = 202
        PROVE  LET o == answer'[q].id IN
               /\ req'[q].pc = "done" /\ o \in Reqs /\ rows'[o] # "none"
               /\ PipeOf[o] = PipeOf[q] /\ req'[o].body = req'[q].body
               /\ o = q \/ SameKey(o, q)
    <3>1. CASE q = r
      BY <1>1, <2>1, <3>1 DEF Says, SameKey
    <3>2. CASE q # r
      <4>1. PICK o : o = answer[q].id
        OBVIOUS
      <4>2. /\ answer'[q] = answer[q] /\ req'[q] = req[q]
            /\ req[q].pc = "done" /\ o \in Reqs /\ rows[o] # "none"
            /\ PipeOf[o] = PipeOf[q] /\ req[o].body = req[q].body
            /\ o = q \/ SameKey(o, q)
        BY <1>0, <1>1, <2>1, <3>2, <4>1 DEF AnswersOK
      <4>3. rows'[o] # "none" /\ req'[o].body = req[o].body
        BY <1>1, <1>4, <4>2 DEF Books
      <4> QED BY <4>1, <4>2, <4>3
    <3> QED BY <3>1, <3>2
  <2> QED BY <2>1 DEF AnswersOK
<1>8. HoldOK'
  BY HandsKeep
<1>9. StreakOK'
  <2>1. ASSUME NEW p \in Pipes PROVE StreakAt(p)'
    <3>1. StreakAt(p)
      BY <1>0 DEF StreakOK
    <3> QED BY <3>1 DEF StreakAt, Follows, Owed, Cleared, Recorded, Hands
  <2> QED BY <2>1 DEF StreakOK
<1> QED BY <1>2, <1>3, <1>5, <1>6, <1>7, <1>8, <1>9 DEF PipelinesInv

\* The ways a handler's step deals with the claim of its pipeline: it has none,
LEMMA HandsFree ==
    ASSUME Typed, NEW r \in Reqs, NEW x, entry' = entry, req[r].pc \notin Holding, x.pc \notin Holding
    PROVE  Hands(r, x)
BY DEF Hands, Typed

\* The handler goes on with its claim,
LEMMA HandsOn ==
    ASSUME PipelinesInv, NEW r \in Reqs, NEW x, entry' = entry, req[r].pc \in Holding, x.pc \in Holding
    PROVE  Hands(r, x)
<1>1. PipeOf[r] \in Pipes
  BY PipelinesAssumption
<1>2. entry[PipeOf[r]].running
  BY <1>1 DEF PipelinesInv, HoldOK, HoldAt, HeldBy
<1> QED BY <1>2 DEF Hands, PipelinesInv, Typed

\* An entry with another claim and all else as it was.
LEMMA ClaimSet ==
    ASSUME Typed, NEW p \in Pipes, NEW b \in BOOLEAN, entry' = [entry EXCEPT ![p].running = b]
    PROVE  /\ entry' \in [Pipes -> Entry] /\ entry'[p].running = b
           /\ \A o \in Pipes :
                 /\ o # p => entry'[o].running = entry[o].running
                 /\ entry'[o].known = entry[o].known /\ entry'[o].kind = entry[o].kind
                 /\ entry'[o].timer = entry[o].timer /\ entry'[o].paused = entry[o].paused
                 /\ entry'[o].removed = entry[o].removed /\ entry'[o].failures = entry[o].failures
<1> DEFINE e == [entry[p] EXCEPT !.running = b]
<1>0. entry \in [Pipes -> Entry]
  BY DEF Typed
<1>1. entry' = [entry EXCEPT ![p] = e]
  OBVIOUS
<1>2. e \in Entry /\ e.running = b /\ e.known = entry[p].known /\ e.kind = entry[p].kind
      /\ e.timer = entry[p].timer /\ e.paused = entry[p].paused
      /\ e.removed = entry[p].removed /\ e.failures = entry[p].failures
  BY <1>0 DEF Entry
<1> HIDE DEF e
<1>3. entry' \in [Pipes -> Entry]
  BY <1>0, <1>1, <1>2
<1>4. ASSUME NEW o \in Pipes PROVE entry'[o] = IF o = p THEN e ELSE entry[o]
  BY <1>0, <1>1
<1> QED BY <1>2, <1>3, <1>4

\* gives it back,
LEMMA HandsBack ==
    ASSUME Typed, NEW r \in Reqs, NEW x, Release(PipeOf[r]), req[r].pc \in Holding, x.pc \notin Holding
    PROVE  Hands(r, x)
<1>1. PipeOf[r] \in Pipes
  BY PipelinesAssumption
<1>2. entry' = [entry EXCEPT ![PipeOf[r]].running = FALSE]
  BY DEF Release
<1> QED BY <1>1, <1>2, ClaimSet DEF Hands

\* or takes it.
LEMMA HandsTaken ==
    ASSUME Typed, NEW r \in Reqs, NEW x, entry' = Claimed(PipeOf[r]), MayClaim(PipeOf[r], FALSE),
           phase # "down", x.pc \in Holding
    PROVE  Hands(r, x)
<1>1. PipeOf[r] \in Pipes
  BY PipelinesAssumption
<1>2. entry' = [entry EXCEPT ![PipeOf[r]].running = TRUE]
  BY DEF Claimed
<1>3. ~entry[PipeOf[r]].running /\ entry[PipeOf[r]].known
  BY DEF MayClaim
<1> QED BY <1>1, <1>2, <1>3, ClaimSet DEF Hands

\* A request that is answered.
LEMMA GoneShape ==
    ASSUME NEW r \in Reqs, req[r] \in Request
    PROVE  Gone(r) \in Request /\ Gone(r).pc = "done" /\ Gone(r).body = req[r].body
<1>1. "done" \in Stages
  BY DEF Stages
<1> QED BY <1>1 DEF Gone, Request

\* A row and an answer that stay.
LEMMA StaysSo ==
    ASSUME Typed, NEW r \in Reqs
    PROVE  /\ rows[r] \in Status /\ rows = [rows EXCEPT ![r] = rows[r]]
           /\ answer[r] \in Answer /\ answer = [answer EXCEPT ![r] = answer[r]]
           /\ req[r] \in Request
BY DEF Typed

\* A handler that answers, and gives its locks back.
LEMMA DoneKeeps ==
    ASSUME PipelinesInv, NEW r \in Reqs, req[r].pc # "done",
           req[r].pc \in {"locked"} \cup Holding \/ admitting = Nobody,
           NEW code \in {202, 401, 404, 409, 503}, NEW id \in Reqs \cup {Nobody},
           Done(r, code, id), Hands(r, Gone(r)),
           code = 202 => id \in Reqs /\ req[id].body = req[r].body /\ SameKey(id, r) /\ rows[id] # "none"
                           /\ rows[r] = "none",
           rows' = rows \/ (req[r].pc = "signed" /\ rows' = [rows EXCEPT ![r] = "accepted"]),
           runs' = runs, runHistory' = runHistory, streak' = streak, live' = live, phase' = phase
    PROVE  PipelinesInv'
<1>0. /\ Typed /\ LockOK /\ req[r] \in Request
      /\ rows[r] \in Status /\ rows = [rows EXCEPT ![r] = rows[r]]
  BY StaysSo DEF PipelinesInv
<1>r. PICK row \in Status : /\ rows' = [rows EXCEPT ![r] = row]
                            /\ row = rows[r] \/ (req[r].pc = "signed" /\ row = "accepted")
  <2>1. "accepted" \in Status
    BY DEF Status
  <2> QED BY <1>0, <2>1
<1> PICK x : x = Gone(r)
  OBVIOUS
<1> DEFINE a == [code |-> code, id |-> id]
<1>1. x \in Request /\ x.pc = "done" /\ x.body = req[r].body
  BY <1>0, GoneShape
<1>2. a \in Answer /\ a.code = code /\ a.id = id
  BY DEF Answer
<1>3. req' = [req EXCEPT ![r] = x] /\ answer' = [answer EXCEPT ![r] = a] /\ admitting' = Nobody
  BY DEF Done
<1> HIDE DEF a
<1>4. Locks(r, x)
  BY <1>0, <1>1, <1>3 DEF Locks, LockOK, Holding
<1>5. Books(r, x, row)
  BY <1>1, <1>r DEF Books, Holding
<1>6. Says(r, x, a)
  BY <1>1, <1>2 DEF Says
<1>7. Hands(r, x)
  OBVIOUS
<1> QED BY <1>1, <1>2, <1>3, <1>4, <1>5, <1>6, <1>7, <1>r, HandlerKeeps,
           ZenonT(60)

\* An admission answered so far is not the one of a handler at work.
LEMMA NotYetSaid ==
    ASSUME PipelinesInv, NEW r \in Reqs, req[r].pc # "done", NEW x
    PROVE  Says(r, x, answer[r])
BY DEF PipelinesInv, AnswersOK, Says

\* A handler that refuses before it has read the snapshot.
LEMMA TurnedAway ==
    ASSUME PipelinesInv, NEW r \in Reqs, req[r].pc = "new", NEW code \in {401, 404},
           req' = [req EXCEPT ![r] = Gone(r)],
           answer' = [answer EXCEPT ![r] = [code |-> code, id |-> Nobody]],
           phase' = phase, live' = live, entry' = entry, admitting' = admitting, runs' = runs,
           rows' = rows, runHistory' = runHistory, streak' = streak
    PROVE  PipelinesInv'
<1>0. Typed /\ rows[r] \in Status /\ rows' = [rows EXCEPT ![r] = rows[r]] /\ req[r] \in Request
  BY StaysSo DEF PipelinesInv
<1> PICK x : x = Gone(r)
  OBVIOUS
<1> DEFINE a == [code |-> code, id |-> Nobody]
<1>1. x \in Request /\ x.pc = "done" /\ x.body = req[r].body
  BY <1>0, GoneShape
<1>2. a \in Answer /\ a.code = code
  BY DEF Answer
<1>3. req' = [req EXCEPT ![r] = x] /\ answer' = [answer EXCEPT ![r] = a]
  OBVIOUS
<1> HIDE DEF a
<1>4. Hands(r, x)
  BY <1>0, <1>1, HandsFree DEF Holding
<1>5. Locks(r, x)
  BY <1>1 DEF Locks, Holding
<1>6. Books(r, x, rows[r])
  BY <1>1 DEF Books
<1>7. Says(r, x, a)
  BY <1>2 DEF Says
<1> QED BY <1>0, <1>1, <1>2, <1>3, <1>4, <1>5, <1>6, <1>7, HandlerKeeps, ZenonT(60)

\* A wrong token, or a signature that does not hold.
LEMMA RefuseKeeps ==
    ASSUME PipelinesInv, NEW r \in Reqs, Refuse(r)
    PROVE  PipelinesInv'
BY TurnedAway, ZenonT(60) DEF Refuse, storeVars

\* The handler reads the snapshot and the body.
LEMMA ReadSnapshotKeeps ==
    ASSUME PipelinesInv, NEW r \in Reqs, ReadSnapshot(r)
    PROVE  PipelinesInv'
<1>0. /\ Typed /\ rows[r] \in Status /\ rows = [rows EXCEPT ![r] = rows[r]]
      /\ answer[r] \in Answer /\ answer = [answer EXCEPT ![r] = answer[r]]
  BY StaysSo DEF PipelinesInv
<1>1. req[r].pc = "new" /\ phase' = phase /\ live' = live /\ entry' = entry /\ admitting' = admitting
      /\ runs' = runs /\ rows' = rows /\ runHistory' = runHistory /\ streak' = streak
  BY DEF ReadSnapshot, storeVars
<1>2. CASE answer' = answer /\ \E body \in Bodies :
             req' = [req EXCEPT ![r] = [pc |-> "read", number |-> live.number, body |-> body]]
  <2>1. PICK body \in Bodies :
          req' = [req EXCEPT ![r] = [pc |-> "read", number |-> live.number, body |-> body]]
    BY <1>2
  <2> DEFINE x == [pc |-> "read", number |-> live.number, body |-> body]
  <2>2. live.number \in Nat
    BY <1>0 DEF Typed
  <2>3. x \in Request /\ x.pc = "read"
    BY <2>2 DEF Request, Stages
  <2>4. req' = [req EXCEPT ![r] = x]
    BY <2>1
  <2> HIDE DEF x
  <2>5. Hands(r, x)
    BY <1>0, <1>1, <2>3, HandsFree DEF Holding
  <2>6. Locks(r, x)
    BY <1>1, <2>3 DEF Locks, Holding
  <2>7. rows[r] = "none"
    BY <1>1 DEF PipelinesInv, RowsOK
  <2>8. Books(r, x, rows[r])
    BY <2>3, <2>7 DEF Books
  <2>9. Says(r, x, answer[r])
    BY <1>1, NotYetSaid
  <2> QED BY <1>0, <1>1, <1>2, <2>3, <2>4, <2>5, <2>6, <2>8, <2>9, HandlerKeeps
<1>3. CASE /\ req' = [req EXCEPT ![r] = Gone(r)]
           /\ answer' = [answer EXCEPT ![r] = [code |-> 404, id |-> Nobody]]
  BY <1>1, <1>3, TurnedAway, ZenonT(60)
<1> QED BY <1>2, <1>3 DEF ReadSnapshot

\* The lookup under admissionMu: the key is free, or it is bound already.
LEMMA LookupKeeps ==
    ASSUME PipelinesInv, NEW r \in Reqs, Lookup(r)
    PROVE  PipelinesInv'
<1>0. /\ Typed /\ rows[r] \in Status /\ rows = [rows EXCEPT ![r] = rows[r]] /\ req[r] \in Request
      /\ answer[r] \in Answer /\ answer = [answer EXCEPT ![r] = answer[r]]
  BY StaysSo DEF PipelinesInv
<1>1. req[r].pc = "read" /\ admitting = Nobody /\ phase' = phase /\ live' = live /\ entry' = entry
      /\ runs' = runs /\ rows' = rows /\ runHistory' = runHistory /\ streak' = streak
  BY DEF Lookup, storeVars
<1>2. rows[r] = "none"
  BY <1>1 DEF PipelinesInv, RowsOK
<1>a. Hands(r, Gone(r))
  BY <1>0, <1>1, GoneShape, HandsFree DEF Holding
<1>3. CASE BoundTo(r) = {} /\ req' = [req EXCEPT ![r].pc = "locked"] /\ admitting' = r /\ answer' = answer
  <2> DEFINE x == [req[r] EXCEPT !.pc = "locked"]
  <2>1. x \in Request /\ x.pc = "locked" /\ x.body = req[r].body
    BY <1>0 DEF Request, Stages
  <2>2. req' = [req EXCEPT ![r] = x]
    BY <1>3
  <2> HIDE DEF x
  <2>3. Hands(r, x)
    BY <1>0, <1>1, <2>1, HandsFree DEF Holding
  <2>4. Locks(r, x)
    BY <1>1, <1>3 DEF Locks
  <2>5. \A q \in Reqs : SameKey(q, r) => rows[q] = "none"
    BY <1>3 DEF BoundTo, SameKey
  <2>6. Books(r, x, rows[r])
    BY <1>2, <2>1, <2>5 DEF Books
  <2>7. Says(r, x, answer[r])
    BY <1>1, NotYetSaid
  <2> QED BY <1>0, <1>1, <1>3, <2>1, <2>2, <2>3, <2>4, <2>6, <2>7, HandlerKeeps
<1>4. ASSUME NEW q \in BoundTo(r),
             IF req[q].body = req[r].body THEN Done(r, 202, q) ELSE Done(r, 409, Nobody)
      PROVE  PipelinesInv'
  <2>1. q \in Reqs /\ rows[q] # "none" /\ SameKey(q, r)
    BY DEF BoundTo, SameKey
  <2>2. CASE req[q].body = req[r].body /\ Done(r, 202, q)
    BY <1>0, <1>1, <1>2, <1>a, <2>1, <2>2, DoneKeeps
  <2>3. CASE Done(r, 409, Nobody)
    BY <1>0, <1>1, <1>2, <1>a, <2>3, DoneKeeps
  <2> QED BY <1>4, <2>2, <2>3
<1>5. CASE Done(r, 503, Nobody)
  BY <1>0, <1>1, <1>a, <1>5, DoneKeeps
<1> QED BY <1>3, <1>4, <1>5 DEF Lookup

\* The handler claims the pipeline, or finds it taken.
LEMMA TryStartKeeps ==
    ASSUME PipelinesInv, NEW r \in Reqs, TryStart(r)
    PROVE  PipelinesInv'
<1>0. /\ Typed /\ rows[r] \in Status /\ rows = [rows EXCEPT ![r] = rows[r]] /\ req[r] \in Request
      /\ answer[r] \in Answer /\ answer = [answer EXCEPT ![r] = answer[r]]
  BY StaysSo DEF PipelinesInv
<1>1. req[r].pc = "locked" /\ phase' = phase /\ live' = live /\ phase # "down"
      /\ runs' = runs /\ rows' = rows /\ runHistory' = runHistory /\ streak' = streak
  BY DEF TryStart, storeVars
<1>2. /\ rows[r] = "none" /\ admitting = r
      /\ \A q \in Reqs : SameKey(q, r) => rows[q] = "none"
  BY <1>1 DEF PipelinesInv, RowsOK, LockOK
<1>3. CASE /\ MayClaim(PipeOf[r], FALSE) /\ entry' = Claimed(PipeOf[r])
           /\ req' = [req EXCEPT ![r].pc = "claimed"] /\ answer' = answer /\ admitting' = admitting
  <2> DEFINE x == [req[r] EXCEPT !.pc = "claimed"]
  <2>1. x \in Request /\ x.pc = "claimed" /\ x.body = req[r].body
    BY <1>0 DEF Request, Stages
  <2>2. req' = [req EXCEPT ![r] = x]
    BY <1>3
  <2> HIDE DEF x
  <2>3. Hands(r, x)
    BY <1>0, <1>1, <1>3, <2>1, HandsTaken DEF Holding
  <2>4. Locks(r, x)
    BY <1>2, <1>3 DEF Locks
  <2>5. Books(r, x, rows[r])
    BY <1>2, <2>1 DEF Books
  <2>6. Says(r, x, answer[r])
    BY <1>1, NotYetSaid
  <2> QED BY <1>0, <1>1, <1>3, <2>1, <2>2, <2>3, <2>4, <2>5, <2>6, HandlerKeeps
<1>4. CASE Done(r, 409, Nobody) /\ entry' = entry
  <2>1. Hands(r, Gone(r))
    BY <1>0, <1>1, <1>4, GoneShape, HandsFree DEF Holding
  <2> QED BY <1>0, <1>1, <1>4, <2>1, DoneKeeps
<1> QED BY <1>3, <1>4 DEF TryStart

\* It claims the signature of the body.
LEMMA ClaimSignatureKeeps ==
    ASSUME PipelinesInv, NEW r \in Reqs, ClaimSignature(r)
    PROVE  PipelinesInv'
<1>0. /\ Typed /\ rows[r] \in Status /\ rows = [rows EXCEPT ![r] = rows[r]] /\ req[r] \in Request
      /\ answer[r] \in Answer /\ answer = [answer EXCEPT ![r] = answer[r]]
  BY StaysSo DEF PipelinesInv
<1>1. req[r].pc = "claimed" /\ phase' = phase /\ live' = live
      /\ runs' = runs /\ rows' = rows /\ runHistory' = runHistory /\ streak' = streak
  BY DEF ClaimSignature
<1>2. /\ rows[r] = "none" /\ admitting = r
      /\ \A q \in Reqs : SameKey(q, r) => rows[q] = "none"
  BY <1>1 DEF PipelinesInv, RowsOK, LockOK, Holding
<1>3. CASE /\ req' = [req EXCEPT ![r].pc = "signed"] /\ entry' = entry
           /\ answer' = answer /\ admitting' = admitting
  <2> DEFINE x == [req[r] EXCEPT !.pc = "signed"]
  <2>1. x \in Request /\ x.pc = "signed" /\ x.body = req[r].body
    BY <1>0 DEF Request, Stages
  <2>2. req' = [req EXCEPT ![r] = x]
    BY <1>3
  <2> HIDE DEF x
  <2>3. Hands(r, x)
    BY <1>0, <1>1, <1>3, <2>1, HandsOn DEF Holding
  <2>4. Locks(r, x)
    BY <1>2, <1>3 DEF Locks
  <2>5. Books(r, x, rows[r])
    BY <1>2, <2>1 DEF Books
  <2>6. Says(r, x, answer[r])
    BY <1>1, NotYetSaid
  <2> QED BY <1>0, <1>1, <1>3, <2>1, <2>2, <2>3, <2>4, <2>5, <2>6, HandlerKeeps
<1>4. CASE Release(PipeOf[r]) /\ Done(r, 401, Nobody)
  <2>1. Hands(r, Gone(r))
    BY <1>0, <1>1, <1>4, GoneShape, HandsBack DEF Holding
  <2> QED BY <1>0, <1>1, <1>4, <2>1, DoneKeeps DEF Holding
<1> QED BY <1>3, <1>4 DEF ClaimSignature

\* It inserts the row, which may be there although the call failed.
LEMMA AdmitWebhookKeeps ==
    ASSUME PipelinesInv, NEW r \in Reqs, AdmitWebhook(r)
    PROVE  PipelinesInv'
<1>0. /\ Typed /\ rows[r] \in Status /\ rows = [rows EXCEPT ![r] = rows[r]] /\ req[r] \in Request
      /\ answer[r] \in Answer /\ answer = [answer EXCEPT ![r] = answer[r]]
  BY StaysSo DEF PipelinesInv
<1>1. req[r].pc = "signed" /\ phase' = phase /\ live' = live
      /\ runs' = runs /\ runHistory' = runHistory /\ streak' = streak
  BY DEF AdmitWebhook
<1>2. /\ rows[r] = "none" /\ admitting = r
      /\ \A q \in Reqs : SameKey(q, r) => rows[q] = "none"
  BY <1>1 DEF PipelinesInv, RowsOK, LockOK, Holding
<1>a. "accepted" \in Status
  BY DEF Status
<1>3. CASE /\ rows' = [rows EXCEPT ![r] = "accepted"]
           /\ req' = [req EXCEPT ![r].pc = "admitted"] /\ entry' = entry
           /\ answer' = answer /\ admitting' = admitting
  <2> DEFINE x == [req[r] EXCEPT !.pc = "admitted"]
  <2>1. x \in Request /\ x.pc = "admitted" /\ x.body = req[r].body
    BY <1>0 DEF Request, Stages
  <2>2. req' = [req EXCEPT ![r] = x]
    BY <1>3
  <2> HIDE DEF x
  <2>3. Hands(r, x)
    BY <1>0, <1>1, <1>3, <2>1, HandsOn DEF Holding
  <2>4. Locks(r, x)
    BY <1>2, <1>3 DEF Locks
  <2>5. Books(r, x, "accepted")
    BY <1>1, <1>2, <2>1 DEF Books
  <2>6. Says(r, x, answer[r])
    BY <1>1, NotYetSaid
  <2> QED BY <1>0, <1>1, <1>3, <1>a, <2>1, <2>2, <2>3, <2>4, <2>5, <2>6, HandlerKeeps
<1>4. CASE Release(PipeOf[r]) /\ Done(r, 409, Nobody) /\ rows' = rows
  <2>1. Hands(r, Gone(r))
    BY <1>0, <1>1, <1>4, GoneShape, HandsBack DEF Holding
  <2> QED BY <1>0, <1>1, <1>4, <2>1, DoneKeeps DEF Holding
<1>5. CASE /\ Release(PipeOf[r]) /\ Done(r, 503, Nobody)
           /\ rows' = [rows EXCEPT ![r] = "accepted"]
  <2>1. Hands(r, Gone(r))
    BY <1>0, <1>1, <1>5, GoneShape, HandsBack DEF Holding
  <2>2. rows' = rows \/ (req[r].pc = "signed" /\ rows' = [rows EXCEPT ![r] = "accepted"])
    BY <1>1, <1>5
  <2>3. Done(r, 503, Nobody) /\ req[r].pc # "done" /\ req[r].pc \in {"locked"} \cup Holding
    BY <1>1, <1>5 DEF Holding
  <2> QED BY <1>1, <2>1, <2>2, <2>3, DoneKeeps
<1> QED BY <1>1, <1>3, <1>4, <1>5 DEF AdmitWebhook

\* One more run.
LEMMA RunAppended ==
    ASSUME Typed, NEW p \in Pipes, NEW by \in Reqs \cup {Nobody}, runs' = Append(runs, Run(p, by)),
           NEW last, last = Len(runs) + 1
    PROVE  /\ runs' \in Seq(RunRecord) /\ last \notin DOMAIN runs /\ last \in DOMAIN runs'
           /\ DOMAIN runs' = DOMAIN runs \cup {last}
           /\ \A i \in DOMAIN runs : runs'[i] = runs[i]
           /\ runs'[last].pipe = p /\ runs'[last].by = by /\ runs'[last].at = "working"
<1>0. runs \in Seq(RunRecord)
  BY DEF Typed
<1>h. PICK run : run = Run(p, by)
  OBVIOUS
<1>1. run \in RunRecord /\ run.pipe = p /\ run.by = by /\ run.at = "working"
  BY <1>h, RunShape
<1>n. PICK n : n = Len(runs)
  OBVIOUS
<1>2. n \in Nat /\ DOMAIN runs = 1 .. n /\ last = n + 1
  BY <1>0, <1>n
<1>a. runs' = Append(runs, run)
  BY <1>h
<1>3. /\ DOMAIN runs' = 1 .. n + 1 /\ runs' \in Seq(RunRecord)
      /\ \A i \in 1 .. n : runs'[i] = runs[i]
      /\ runs'[n + 1] = run
  BY <1>0, <1>1, <1>a, <1>n, <1>2
<1>4. 1 .. n + 1 = (1 .. n) \cup {n + 1} /\ n + 1 \notin 1 .. n
  BY <1>2
<1> QED BY <1>1, <1>2, <1>3, <1>4

\* The admission is running, its run is started, and the caller is told.
LEMMA LaunchStarts ==
    ASSUME PipelinesInv, NEW r \in Reqs, req[r].pc = "admitted",
           rows' = [rows EXCEPT ![r] = "running"], runs' = Append(runs, Run(PipeOf[r], r)),
           Done(r, 202, r), entry' = entry,
           runHistory' = runHistory, streak' = streak, live' = live, phase' = phase
    PROVE  PipelinesInv'
<1>0. /\ Typed /\ LockOK /\ RowsOK /\ RunsOK /\ AnswersOK /\ HoldOK /\ StreakOK
      /\ Nobody \notin Reqs /\ PipeOf[r] \in Pipes
  BY PipelinesAssumption DEF PipelinesInv
<1>g. PICK x : x = Gone(r)
  OBVIOUS
<1>a. PICK a : a = [code |-> 202, id |-> r]
  OBVIOUS
<1>1. x \in Request /\ x.pc = "done" /\ x.body = req[r].body
  BY <1>0, <1>g, GoneShape DEF Typed
<1>2. a \in Answer /\ a.code = 202 /\ a.id = r
  BY <1>a DEF Answer
<1>3. /\ req' = [req EXCEPT ![r] = x] /\ answer' = [answer EXCEPT ![r] = a] /\ admitting' = Nobody
  BY <1>a, <1>g DEF Done
<1>4. ASSUME NEW q \in Reqs
      PROVE  /\ req'[q] = IF q = r THEN x ELSE req[q]
             /\ answer'[q] = IF q = r THEN a ELSE answer[q]
             /\ rows'[q] = IF q = r THEN "running" ELSE rows[q]
  BY <1>0, <1>3 DEF Typed
<1>l. PICK last : last = Len(runs) + 1
  OBVIOUS
<1>5. /\ runs' \in Seq(RunRecord) /\ last \notin DOMAIN runs /\ last \in DOMAIN runs'
      /\ DOMAIN runs' = DOMAIN runs \cup {last}
      /\ \A i \in DOMAIN runs : runs'[i] = runs[i]
      /\ runs'[last].pipe = PipeOf[r] /\ runs'[last].by = r /\ runs'[last].at = "working"
  BY <1>0, <1>l, RunAppended
<1>6. /\ admitting = r /\ rows[r] = "accepted"
      /\ \A q \in Reqs \ {r} : req[q].pc \notin {"locked"} \cup Holding
  BY <1>0 DEF LockOK, RowsOK, Holding
<1>7. Typed'
  <2>1. "running" \in Status
    BY DEF Status
  <2>2. req' \in [Reqs -> Request] /\ answer' \in [Reqs -> Answer] /\ rows' \in [Reqs -> Status]
    BY <1>0, <1>1, <1>2, <1>3, <2>1 DEF Typed
  <2> QED BY <1>0, <1>5, <2>2 DEF Typed
<1>8. LockOK'
  BY <1>1, <1>4, <1>6 DEF LockOK, Holding
<1>9. RowsOK'
  <2>1. ASSUME NEW q \in Reqs
        PROVE  /\ req'[q].pc \in {"new", "read", "locked", "claimed", "signed"} => rows'[q] = "none"
               /\ req'[q].pc = "admitted" => rows'[q] = "accepted"
               /\ req'[q].pc \notin {"locked", "claimed", "signed"}
    BY <1>0, <1>1, <1>4, <1>6 DEF RowsOK, Holding
  <2>2. ASSUME NEW q \in Reqs, NEW o \in Reqs, SameKey(o, q), rows'[o] # "none", rows'[q] # "none"
        PROVE  o = q
    BY <1>0, <1>4, <1>6, <2>2 DEF RowsOK
  <2> QED BY <2>1, <2>2 DEF RowsOK
<1>b. ASSUME NEW i \in DOMAIN runs PROVE runs[i].by # r
  BY <1>0 DEF RunsOK
<1>10. RunsOK'
  <2>1. ASSUME NEW i \in DOMAIN runs', runs'[i].by # Nobody
        PROVE  LET q == runs'[i].by IN
               /\ runs'[i].pipe = PipeOf[q] /\ req'[q].pc = "done" /\ rows'[q] # "none"
               /\ \A j \in DOMAIN runs' : runs'[j].by = q => j = i
               /\ runs'[i].at \in {"working", "recorded"} => rows'[q] = "running"
               /\ runs'[i].at = "settled" => rows'[q] \in {"running", "completed", "error"}
               /\ rows'[q] \in {"completed", "error"} => (rows'[q] = "completed") = runs'[i].ok
    <3>1. CASE i = last
      BY <1>1, <1>4, <1>5, <1>b, <3>1
    <3>2. CASE i \in DOMAIN runs
      <4>1. PICK q : q = runs[i].by
        OBVIOUS
      <4>2. q \in Reqs /\ q # r /\ runs'[i] = runs[i]
        BY <1>0, <1>5, <1>b, <2>1, <3>2, <4>1, RunTyped DEF RunRecord
      <4>3. req'[q] = req[q] /\ rows'[q] = rows[q]
        BY <1>4, <4>2
      <4>4. \A j \in DOMAIN runs' : runs'[j].by = q => j = i
        BY <1>0, <1>5, <3>2, <4>1, <4>2 DEF RunsOK
      <4> QED BY <1>0, <2>1, <3>2, <4>1, <4>2, <4>3, <4>4 DEF RunsOK
    <3> QED BY <1>5, <3>1, <3>2
  <2>2. ASSUME NEW i \in DOMAIN runs', runs'[i].at = "recorded" PROVE runs'[i].by # Nobody
    BY <1>0, <1>5, <2>2 DEF RunsOK
  <2>3. ASSUME NEW q \in Reqs, rows'[q] \in {"running", "completed", "error"}
        PROVE  \E i \in DOMAIN runs' : runs'[i].by = q
    <3>1. CASE q = r
      BY <1>5, <3>1
    <3>2. CASE q # r
      BY <1>0, <1>4, <1>5, <2>3, <3>2 DEF RunsOK
    <3> QED BY <3>1, <3>2
  <2> QED BY <2>1, <2>2, <2>3 DEF RunsOK
<1>11. AnswersOK'
  <2>1. ASSUME NEW q \in Reqs, answer'[q].code = 202
        PROVE  LET o == answer'[q].id IN
               /\ req'[q].pc = "done" /\ o \in Reqs /\ rows'[o] # "none"
               /\ PipeOf[o] = PipeOf[q] /\ req'[o].body = req'[q].body
               /\ o = q \/ SameKey(o, q)
    <3>1. CASE q = r
      BY <1>1, <1>2, <1>4, <3>1
    <3>2. CASE q # r
      <4>1. PICK o : o = answer[q].id
        OBVIOUS
      <4>2. /\ answer'[q] = answer[q] /\ req'[q] = req[q]
            /\ req[q].pc = "done" /\ o \in Reqs /\ rows[o] # "none"
            /\ PipeOf[o] = PipeOf[q] /\ req[o].body = req[q].body
            /\ o = q \/ SameKey(o, q)
        BY <1>0, <1>4, <2>1, <3>2, <4>1 DEF AnswersOK
      <4>3. rows'[o] # "none" /\ req'[o].body = req[o].body
        BY <1>1, <1>4, <4>2
      <4> QED BY <4>1, <4>2, <4>3
    <3> QED BY <3>1, <3>2
  <2> QED BY <2>1 DEF AnswersOK
<1>12. HoldOK'
  <2>1. ASSUME NEW p \in Pipes PROVE HoldAt(p)'
    <3>0. HoldAt(p)
      BY <1>0 DEF HoldOK
    <3>1. ASSUME NEW i \in DOMAIN runs PROVE i \in DOMAIN runs' /\ (RunsOn(i, p)' <=> RunsOn(i, p))
      BY <1>5 DEF RunsOn, Active
    <3>2. RunsOn(last, p)' <=> PipeOf[r] = p
      BY <1>5 DEF RunsOn, Active
    <3>3. ASSUME NEW q \in Reqs, q # r PROVE HeldBy(q, p)' <=> HeldBy(q, p)
      BY <1>4, <3>3 DEF HeldBy
    <3>4. ~HeldBy(r, p)' /\ (HeldBy(r, p) <=> PipeOf[r] = p)
      BY <1>1, <1>4 DEF HeldBy, Holding
    <3>5. CASE PipeOf[r] = p
      <4>1. \A q \in Reqs : ~HeldBy(q, p)'
        BY <1>6, <3>3, <3>4 DEF HeldBy
      <4>2. \A i \in DOMAIN runs : ~RunsOn(i, p)'
        BY <3>0, <3>1, <3>4, <3>5 DEF HoldAt
      <4>3. entry[p].running
        BY <3>0, <3>4, <3>5 DEF HoldAt
      <4>4. \A i \in DOMAIN runs' : RunsOn(i, p)' <=> i = last
        BY <1>5, <3>2, <3>5, <4>2
      <4> QED BY <1>5, <3>0, <4>1, <4>3, <4>4 DEF HoldAt
    <3>6. CASE PipeOf[r] # p
      <4>1. \A q \in Reqs : HeldBy(q, p)' <=> HeldBy(q, p)
        BY <3>3, <3>4, <3>6
      <4>2. \A i \in DOMAIN runs' : RunsOn(i, p)' => i \in DOMAIN runs /\ RunsOn(i, p)
        BY <1>5, <3>1, <3>2, <3>6
      <4>3. \A i \in DOMAIN runs : RunsOn(i, p) => i \in DOMAIN runs' /\ RunsOn(i, p)'
        BY <3>1
      <4> QED BY <3>0, <4>1, <4>2, <4>3 DEF HoldAt
    <3> QED BY <3>5, <3>6
  <2> QED BY <2>1 DEF HoldOK
<1>13. StreakOK'
  <2>1. ASSUME NEW p \in Pipes PROVE StreakAt(p)'
    <3>1. StreakAt(p)
      BY <1>0 DEF StreakOK
    <3>2. \A i \in DOMAIN runs' : Recorded(i, p)' => i \in DOMAIN runs
      BY <1>5 DEF Recorded
    <3>3. \A i \in DOMAIN runs : i \in DOMAIN runs' /\ (Recorded(i, p)' <=> Recorded(i, p))
                                 /\ runs'[i].ok = runs[i].ok
      BY <1>5 DEF Recorded
    <3>4. Owed(p)' = Owed(p)
      BY <3>2, <3>3 DEF Owed
    <3>5. Cleared(p)' => Cleared(p)
      BY <3>2, <3>3 DEF Cleared
    <3> QED BY <3>1, <3>4, <3>5 DEF StreakAt, Follows
  <2> QED BY <2>1 DEF StreakOK
<1> QED BY <1>7, <1>8, <1>9, <1>10, <1>11, <1>12, <1>13 DEF PipelinesInv

\* The launch, or its failure.
LEMMA LaunchKeeps ==
    ASSUME PipelinesInv, NEW r \in Reqs, Launch(r)
    PROVE  PipelinesInv'
<1>0. Typed /\ req[r] \in Request
  BY StaysSo DEF PipelinesInv
<1>1. req[r].pc = "admitted" /\ phase' = phase /\ live' = live /\ runHistory' = runHistory /\ streak' = streak
  BY DEF Launch
<1>2. CASE /\ rows' = [rows EXCEPT ![r] = "running"] /\ runs' = Append(runs, Run(PipeOf[r], r))
           /\ Done(r, 202, r) /\ entry' = entry
  BY <1>1, <1>2, LaunchStarts
<1>3. CASE Release(PipeOf[r]) /\ Done(r, 503, Nobody) /\ rows' = rows /\ runs' = runs
  <2>1. Hands(r, Gone(r))
    BY <1>0, <1>1, <1>3, GoneShape, HandsBack DEF Holding
  <2> QED BY <1>1, <1>3, <2>1, DoneKeeps DEF Holding
<1> QED BY <1>2, <1>3 DEF Launch

-----------------------------------------------------------------------------
\* A run ends.

\* The other runs of a pipeline that runs are none, and it is known.
LEMMA OneRuns ==
    ASSUME PipelinesInv, NEW i \in DOMAIN runs, Active(i)
    PROVE  LET p == runs[i].pipe IN
           /\ p \in Pipes /\ entry[p].running /\ entry[p].known /\ phase # "down"
           /\ \A j \in DOMAIN runs : RunsOn(j, p) => j = i
           /\ \A r \in Reqs : ~HeldBy(r, p)
<1>1. runs[i].pipe \in Pipes
  BY RunTyped DEF PipelinesInv, RunRecord
<1>2. RunsOn(i, runs[i].pipe)
  BY DEF RunsOn
<1> QED BY <1>1, <1>2 DEF PipelinesInv, HoldOK, HoldAt

\* A run moves on: the others stay.
LEMMA RunMoves ==
    ASSUME Typed, NEW i \in DOMAIN runs, NEW ok \in BOOLEAN, NEW at \in RunAt,
           runs' = [runs EXCEPT ![i] = [runs[i] EXCEPT !.ok = ok, !.at = at]]
    PROVE  /\ runs' \in Seq(RunRecord) /\ DOMAIN runs' = DOMAIN runs
           /\ \A j \in DOMAIN runs : j # i => runs'[j] = runs[j]
           /\ runs'[i].pipe = runs[i].pipe /\ runs'[i].by = runs[i].by
           /\ runs'[i].ok = ok /\ runs'[i].at = at
<1>0. runs \in Seq(RunRecord)
  BY DEF Typed
<1>1. PICK run : run = [runs[i] EXCEPT !.ok = ok, !.at = at]
  OBVIOUS
<1>2. run \in RunRecord /\ run.pipe = runs[i].pipe /\ run.by = runs[i].by /\ run.ok = ok /\ run.at = at
  BY <1>1, RunTyped DEF RunRecord
<1>3. runs' = [runs EXCEPT ![i] = run]
  BY <1>1
<1>4. runs' \in Seq(RunRecord) /\ DOMAIN runs' = DOMAIN runs
  BY <1>0, <1>2, <1>3
<1>5. ASSUME NEW j \in DOMAIN runs PROVE runs'[j] = IF j = i THEN run ELSE runs[j]
  BY <1>0, <1>3
<1> QED BY <1>2, <1>4, <1>5

\* The claims are kept where the runs that are active stay so.
LEMMA MovesKeepHold ==
    ASSUME HoldOK, req' = req, phase' = phase, DOMAIN runs' = DOMAIN runs,
           \A j \in DOMAIN runs : runs'[j].pipe = runs[j].pipe /\ (Active(j)' <=> Active(j)),
           entry' = entry
    PROVE  HoldOK'
<1>1. ASSUME NEW p \in Pipes PROVE HoldAt(p)'
  <2>1. HoldAt(p)
    BY DEF HoldOK
  <2>2. ASSUME NEW j \in DOMAIN runs PROVE RunsOn(j, p)' <=> RunsOn(j, p)
    BY DEF RunsOn
  <2>3. ASSUME NEW r \in Reqs PROVE HeldBy(r, p)' <=> HeldBy(r, p)
    BY DEF HeldBy
  <2> QED BY <2>1, <2>2, <2>3 DEF HoldAt
<1> QED BY <1>1 DEF HoldOK

\* The history with one more outcome at its head.
LEMMA KeptShape ==
    ASSUME NEW p \in Pipes, NEW ok \in BOOLEAN, runHistory[p] \in Seq(BOOLEAN)
    PROVE  /\ Kept(p, ok) \in Seq(BOOLEAN)
           /\ Len(Kept(p, ok)) = (IF Len(runHistory[p]) < Window THEN Len(runHistory[p]) + 1 ELSE Window)
           /\ \A k \in 1 .. Len(Kept(p, ok)) :
                 Kept(p, ok)[k] = IF k = 1 THEN ok ELSE runHistory[p][k - 1]
<1>h. PICK h : h = runHistory[p]
  OBVIOUS
<1>0. h \in Seq(BOOLEAN)
  BY <1>h
<1>n. PICK n : n = Len(h)
  OBVIOUS
<1>1. n \in Nat /\ Window \in Nat /\ Window >= 1
  BY <1>0, <1>n, PipelinesAssumption DEF Window
<1>m. PICK m : m = IF n < Window THEN n + 1 ELSE Window
  OBVIOUS
<1>2. m \in Nat /\ m >= 1 /\ m <= n + 1
  BY <1>1, <1>m
<1>g. PICK g : g = <<ok>> \o h
  OBVIOUS
<1>3. g \in Seq(BOOLEAN) /\ Len(g) = n + 1
  BY <1>0, <1>g, <1>n
<1>4. \A k \in 1 .. n + 1 : g[k] = IF k = 1 THEN ok ELSE h[k - 1]
  BY <1>0, <1>g, <1>n
<1>s. PICK s : s = SubSeq(g, 1, m)
  OBVIOUS
<1>5. s \in Seq(BOOLEAN) /\ Len(s) = m /\ \A k \in 1 .. m : s[k] = g[k]
  <2>1. m \in 1 .. Len(g) /\ 1 \in 1 .. Len(g)
    BY <1>1, <1>2, <1>3
  <2> QED BY <1>2, <1>3, <1>s, <2>1
<1>6. \A k \in 1 .. m : s[k] = IF k = 1 THEN ok ELSE h[k - 1]
  <2>1. ASSUME NEW k \in 1 .. m PROVE k \in 1 .. n + 1
    BY <1>1, <1>2
  <2> QED BY <1>4, <1>5, <2>1
<1>7. Kept(p, ok) = s
  BY <1>g, <1>h, <1>m, <1>n, <1>s DEF Kept
<1> QED BY <1>5, <1>6, <1>7, <1>h, <1>m, <1>n

\* One more failure on record, and one more in the streak.
LEMMA RemembersFailure ==
    ASSUME NEW p \in Pipes, runHistory[p] \in Seq(BOOLEAN), NEW n \in Nat,
           Remembers(runHistory[p], n)
    PROVE  Remembers(Kept(p, FALSE), n + 1)
<1>h. PICK h : h = runHistory[p]
  OBVIOUS
<1>s. PICK s : s = Kept(p, FALSE)
  OBVIOUS
<1>1. h \in Seq(BOOLEAN) /\ Len(h) \in Nat /\ Window \in Nat
  BY <1>h, PipelinesAssumption DEF Window
<1>2. /\ s \in Seq(BOOLEAN) /\ Len(s) = (IF Len(h) < Window THEN Len(h) + 1 ELSE Window)
      /\ \A k \in 1 .. Len(s) : s[k] = IF k = 1 THEN FALSE ELSE h[k - 1]
  BY <1>h, <1>s, KeptShape
<1>3. (\A k \in 1 .. Len(h) : k <= n => ~h[k]) /\ (n <= Len(h) \/ Len(h) >= Window)
  BY <1>h DEF Remembers
<1>4. ASSUME NEW k \in 1 .. Len(s), k <= n + 1 PROVE ~s[k]
  <2>1. k = 1 \/ (k - 1 \in 1 .. Len(h) /\ k - 1 <= n)
    BY <1>1, <1>2, <1>4
  <2> QED BY <1>2, <1>3, <2>1
<1>5. n + 1 <= Len(s) \/ Len(s) >= Window
  BY <1>1, <1>2, <1>3
<1> QED BY <1>4, <1>5, <1>s DEF Remembers

\* The run writes its outcome down, or fails to.
LEMMA RecordRunKeeps ==
    ASSUME PipelinesInv, faults \in Nat, NEW i \in DOMAIN runs, NEW ok \in BOOLEAN, RecordRun(i, ok)
    PROVE  PipelinesInv'
<1>0. /\ Typed /\ LockOK /\ RowsOK /\ RunsOK /\ AnswersOK /\ HoldOK /\ StreakOK /\ Nobody \notin Reqs
      /\ runs[i] \in RunRecord
  BY PipelinesAssumption, RunTyped DEF PipelinesInv
<1>p. PICK p : p = runs[i].pipe
  OBVIOUS
<1>1. /\ runs[i].at = "working" /\ phase' = phase /\ live' = live /\ entry' = entry /\ rows' = rows
      /\ req' = req /\ answer' = answer /\ admitting' = admitting
  BY DEF RecordRun, webVars
<1>t. PICK at \in RunAt : at = (IF runs[i].by = Nobody THEN "settled" ELSE "recorded")
  BY DEF RunAt
<1>2. runs' = [runs EXCEPT ![i] = [runs[i] EXCEPT !.ok = ok, !.at = at]]
  BY <1>t DEF RecordRun
<1>3. /\ runs' \in Seq(RunRecord) /\ DOMAIN runs' = DOMAIN runs
      /\ \A j \in DOMAIN runs : j # i => runs'[j] = runs[j]
      /\ runs'[i].pipe = p /\ runs'[i].by = runs[i].by
      /\ runs'[i].ok = ok /\ runs'[i].at = at /\ at \in {"settled", "recorded"}
  BY <1>0, <1>2, <1>p, <1>t, RunMoves, ZenonT(60)
<1>4. /\ p \in Pipes /\ entry[p].known
      /\ \A j \in DOMAIN runs : RunsOn(j, p) => j = i
  BY <1>1, <1>p, OneRuns DEF Active
<1>5. runHistory[p] \in Seq(BOOLEAN) /\ streak[p] \in Nat
  BY <1>0, <1>4 DEF Typed
<1>6. /\ runHistory' \in [Pipes -> Seq(BOOLEAN)] /\ streak' \in [Pipes -> Nat]
      /\ \A o \in Pipes \ {p} : runHistory'[o] = runHistory[o] /\ streak'[o] = streak[o]
      /\ \/ ok /\ streak'[p] = 0
         \/ ~ok /\ streak'[p] = streak[p] + 1 /\ runHistory'[p] = Kept(p, FALSE)
         \/ ~ok /\ streak'[p] = streak[p] /\ runHistory'[p] = runHistory[p]
  <2>1. runHistory \in [Pipes -> Seq(BOOLEAN)] /\ streak \in [Pipes -> Nat]
    BY <1>0 DEF Typed
  <2>2. Kept(p, ok) \in Seq(BOOLEAN)
    BY <1>4, <1>5, KeptShape
  <2>3. streak' = [streak EXCEPT ![p] = IF ok THEN 0 ELSE IF faults' = faults THEN streak[p] + 1 ELSE streak[p]]
    BY <1>p DEF RecordRun
  <2>4. CASE runHistory' = [runHistory EXCEPT ![p] = Kept(p, ok)] /\ faults' = faults
    <3>1. streak' = [streak EXCEPT ![p] = IF ok THEN 0 ELSE streak[p] + 1]
      BY <2>3, <2>4
    <3>2. streak[p] + 1 \in Nat
      BY <1>5
    <3>a. PICK kept : kept = Kept(p, ok)
      OBVIOUS
    <3>3. runHistory' = [runHistory EXCEPT ![p] = kept] /\ kept \in Seq(BOOLEAN)
      BY <2>2, <2>4, <3>a
    <3>4. runHistory' \in [Pipes -> Seq(BOOLEAN)] /\ runHistory'[p] = kept
          /\ \A o \in Pipes \ {p} : runHistory'[o] = runHistory[o]
      BY <1>4, <2>1, <3>3
    <3>5. streak' \in [Pipes -> Nat] /\ streak'[p] = (IF ok THEN 0 ELSE streak[p] + 1)
          /\ \A o \in Pipes \ {p} : streak'[o] = streak[o]
      BY <1>4, <2>1, <3>1, <3>2
    <3>6. ~ok => kept = Kept(p, FALSE)
      BY <3>a
    <3> QED BY <3>4, <3>5, <3>6
  <2>5. CASE runHistory' = runHistory /\ faults' = faults + 1
    <3>1. faults' # faults
      BY <2>5
    <3>2. streak' = [streak EXCEPT ![p] = IF ok THEN 0 ELSE streak[p]]
      BY <2>3, <3>1
    <3>3. streak' \in [Pipes -> Nat] /\ streak'[p] = (IF ok THEN 0 ELSE streak[p])
          /\ \A o \in Pipes \ {p} : streak'[o] = streak[o]
      BY <1>4, <1>5, <2>1, <3>2
    <3> QED BY <2>1, <2>5, <3>3
  <2> QED BY <1>p, <2>4, <2>5 DEF RecordRun, Fault
<1>7. Typed'
  BY <1>0, <1>1, <1>3, <1>6 DEF Typed
<1>8. LockOK' /\ RowsOK'
  BY <1>0, <1>1 DEF LockOK, RowsOK
<1>9. AnswersOK'
  BY <1>0, <1>1 DEF AnswersOK
<1>10. RunsOK'
  <2>1. ASSUME NEW j \in DOMAIN runs PROVE runs'[j].by = runs[j].by /\ runs'[j].pipe = runs[j].pipe
    BY <1>3, <1>p
  <2>2. ASSUME NEW j \in DOMAIN runs, runs[j].by # Nobody
        PROVE  LET r == runs[j].by IN
               /\ runs[j].pipe = PipeOf[r] /\ req[r].pc = "done" /\ rows[r] # "none"
               /\ \A k \in DOMAIN runs : runs'[k].by = r => k = j
               /\ runs'[j].at \in {"working", "recorded"} => rows[r] = "running"
               /\ runs'[j].at = "settled" => rows[r] \in {"running", "completed", "error"}
               /\ rows[r] \in {"completed", "error"} => (rows[r] = "completed") = runs'[j].ok
    <3>1. CASE j = i
      <4>1. rows[runs[i].by] = "running" /\ at = "recorded"
        BY <1>0, <1>1, <1>t, <2>2, <3>1 DEF RunsOK
      <4> QED BY <1>0, <1>3, <2>1, <2>2, <3>1, <4>1 DEF RunsOK
    <3>2. CASE j # i
      BY <1>0, <1>3, <2>1, <2>2, <3>2 DEF RunsOK
    <3> QED BY <3>1, <3>2
  <2>3. ASSUME NEW j \in DOMAIN runs, runs'[j].at = "recorded" PROVE runs'[j].by # Nobody
    BY <1>0, <1>3, <1>t, <2>3 DEF RunsOK
  <2>4. ASSUME NEW r \in Reqs, rows[r] \in {"running", "completed", "error"}
        PROVE  \E j \in DOMAIN runs : runs'[j].by = r
    BY <1>0, <2>1, <2>4 DEF RunsOK
  <2> QED BY <1>1, <1>3, <2>1, <2>2, <2>3, <2>4 DEF RunsOK
<1>11. HoldOK'
  <2>1. ASSUME NEW j \in DOMAIN runs
        PROVE  runs'[j].pipe = runs[j].pipe /\ (Active(j)' <=> Active(j))
    BY <1>1, <1>3, <1>p DEF Active
  <2> QED BY <1>0, <1>1, <1>3, <2>1, MovesKeepHold
<1>12. ASSUME NEW o \in Pipes PROVE StreakAt(o)'
  <2>0. StreakAt(o)
    BY <1>0 DEF StreakOK
  <2>1. CASE o # p
    <3>1. ASSUME NEW j \in DOMAIN runs
          PROVE  (Recorded(j, o)' <=> Recorded(j, o)) /\ (Recorded(j, o) => runs'[j].ok = runs[j].ok)
      BY <1>1, <1>3, <1>p, <2>1 DEF Recorded
    <3>2. Owed(o)' = Owed(o)
      BY <1>3, <3>1 DEF Owed
    <3>3. Cleared(o)' => Cleared(o)
      BY <1>3, <3>1 DEF Cleared
    <3>4. runHistory'[o] = runHistory[o] /\ streak'[o] = streak[o]
      BY <1>6, <2>1
    <3> QED BY <1>1, <2>0, <3>2, <3>3, <3>4 DEF StreakAt, Follows
  <2>2. CASE o = p
    <3>1. \A j \in DOMAIN runs : ~Recorded(j, p)
      <4>1. ASSUME NEW j \in DOMAIN runs, Recorded(j, p) PROVE FALSE
        <5>1. j = i
          BY <1>4, <4>1 DEF Recorded, RunsOn, Active
        <5> QED BY <1>1, <4>1, <5>1 DEF Recorded
      <4> QED BY <4>1
    <3>2. \A j \in DOMAIN runs : Recorded(j, p)' <=> j = i
      <4>1. ASSUME NEW j \in DOMAIN runs, j # i PROVE ~Recorded(j, p)'
        BY <1>3, <3>1, <4>1 DEF Recorded
      <4>2. Recorded(i, p)'
        BY <1>3 DEF Recorded
      <4> QED BY <4>1, <4>2
    <3>3. Owed(p) = 0 /\ Owed(p)' = IF ok THEN 0 ELSE 1
      BY <1>3, <3>1, <3>2 DEF Owed
    <3>4. Cleared(p)' => ok
      BY <1>3, <3>2 DEF Cleared
    <3>5. entry[p] \in Entry /\ entry[p].failures \in Nat /\ PauseAfter \in Nat
      BY <1>0, <1>4, PipelinesAssumption DEF Typed, Entry
    <3>6. Follows(entry[p], streak[p], 0) /\ Remembers(runHistory[p], streak[p])
      BY <2>0, <2>2, <3>3 DEF StreakAt
    <3>7. CASE ok /\ streak'[p] = 0
      <4>1. Follows(entry[p], 0, 0)
        BY <3>5, <3>6 DEF Follows
      <4>2. Len(runHistory'[p]) \in Nat
        BY <1>4, <1>6
      <4>3. Remembers(runHistory'[p], 0)
        BY <4>2 DEF Remembers
      <4> QED BY <1>1, <2>2, <3>3, <3>7, <4>1, <4>3 DEF StreakAt
    <3>8. CASE ~ok /\ streak'[p] = streak[p] + 1 /\ runHistory'[p] = Kept(p, FALSE)
      <4>1. Follows(entry[p], streak[p] + 1, 1)
        BY <1>5, <3>5, <3>6 DEF Follows
      <4>2. Remembers(Kept(p, FALSE), streak[p] + 1)
        BY <1>4, <1>5, <3>6, RemembersFailure
      <4> QED BY <1>1, <2>2, <3>3, <3>4, <3>8, <4>1, <4>2 DEF StreakAt
    <3>9. CASE ~ok /\ streak'[p] = streak[p] /\ runHistory'[p] = runHistory[p]
      <4>1. Follows(entry[p], streak[p], 1)
        BY <1>5, <3>5, <3>6 DEF Follows
      <4> QED BY <1>1, <2>2, <3>3, <3>4, <3>6, <3>9, <4>1 DEF StreakAt
    <3> QED BY <1>6, <3>7, <3>8, <3>9
  <2> QED BY <2>1, <2>2
<1>13. StreakOK'
  BY <1>12 DEF StreakOK
<1> QED BY <1>7, <1>8, <1>9, <1>10, <1>11, <1>13 DEF PipelinesInv

\* The row of the run's admission gets its outcome, or the write fails.
LEMMA FinishAdmissionKeeps ==
    ASSUME PipelinesInv, NEW i \in DOMAIN runs, FinishAdmission(i)
    PROVE  PipelinesInv'
<1>0. /\ Typed /\ LockOK /\ RowsOK /\ RunsOK /\ AnswersOK /\ HoldOK /\ StreakOK /\ Nobody \notin Reqs
      /\ runs[i] \in RunRecord
  BY PipelinesAssumption, RunTyped DEF PipelinesInv
<1>b. PICK by : by = runs[i].by
  OBVIOUS
<1>o. PICK ok : ok = runs[i].ok
  OBVIOUS
<1>1. /\ runs[i].at = "recorded" /\ phase' = phase /\ live' = live /\ entry' = entry
      /\ req' = req /\ answer' = answer /\ admitting' = admitting
      /\ runHistory' = runHistory /\ streak' = streak
  BY DEF FinishAdmission, webVars
<1>2. /\ by \in Reqs /\ ok \in BOOLEAN /\ "settled" \in RunAt
      /\ rows[by] = "running" /\ req[by].pc = "done"
      /\ \A j \in DOMAIN runs : runs[j].by = by => j = i
  BY <1>0, <1>1, <1>b, <1>o DEF RunsOK, RunRecord, RunAt
<1>3. runs' = [runs EXCEPT ![i] = [runs[i] EXCEPT !.ok = ok, !.at = "settled"]]
  <2>1. [runs[i] EXCEPT !.ok = ok, !.at = "settled"] = [runs[i] EXCEPT !.at = "settled"]
    BY <1>0, <1>o DEF RunRecord
  <2> QED BY <2>1 DEF FinishAdmission
<1>4. /\ runs' \in Seq(RunRecord) /\ DOMAIN runs' = DOMAIN runs
      /\ \A j \in DOMAIN runs : j # i => runs'[j] = runs[j]
      /\ runs'[i].pipe = runs[i].pipe /\ runs'[i].by = by
      /\ runs'[i].ok = ok /\ runs'[i].at = "settled"
  BY <1>0, <1>2, <1>3, <1>b, RunMoves, ZenonT(60)
<1>r. PICK row \in Status :
        /\ row = "running" \/ (row \in {"completed", "error"} /\ (row = "completed") = ok)
        /\ rows' = [rows EXCEPT ![by] = row]
  <2>1. {"completed", "error", "running"} \subseteq Status
    BY DEF Status
  <2>2. CASE rows' = rows
    <3>1. rows = [rows EXCEPT ![by] = "running"]
      BY <1>0, <1>2 DEF Typed
    <3> QED BY <2>1, <2>2, <3>1
  <2>3. CASE rows' = [rows EXCEPT ![by] = IF ok THEN "completed" ELSE "error"]
    <3>1. CASE ok
      BY <1>2, <2>1, <2>3, <3>1
    <3>2. CASE ~ok
      BY <1>2, <2>1, <2>3, <3>2
    <3> QED BY <3>1, <3>2
  <2> QED BY <1>b, <1>o, <2>2, <2>3 DEF FinishAdmission
<1>5. ASSUME NEW r \in Reqs PROVE rows'[r] = IF r = by THEN row ELSE rows[r]
  BY <1>0, <1>2, <1>r DEF Typed
<1>6. Typed'
  BY <1>0, <1>1, <1>4, <1>r DEF Typed
<1>7. LockOK'
  BY <1>0, <1>1 DEF LockOK
<1>8. RowsOK'
  <2>1. ASSUME NEW r \in Reqs PROVE rows'[r] # "none" <=> rows[r] # "none"
    BY <1>2, <1>5, <1>r
  <2>2. ASSUME NEW r \in Reqs, req[r].pc # "done" PROVE rows'[r] = rows[r]
    BY <1>2, <1>5, <2>2
  <2> QED BY <1>0, <1>1, <2>1, <2>2 DEF RowsOK
<1>9. AnswersOK'
  <2>1. ASSUME NEW r \in Reqs PROVE rows'[r] # "none" <=> rows[r] # "none"
    BY <1>2, <1>5, <1>r
  <2> QED BY <1>0, <1>1, <2>1 DEF AnswersOK
<1>10. RunsOK'
  <2>1. ASSUME NEW j \in DOMAIN runs PROVE runs'[j].by = runs[j].by /\ runs'[j].pipe = runs[j].pipe
    BY <1>4, <1>b
  <2>2. ASSUME NEW j \in DOMAIN runs, runs[j].by # Nobody
        PROVE  LET r == runs[j].by IN
               /\ runs[j].pipe = PipeOf[r] /\ req[r].pc = "done" /\ rows'[r] # "none"
               /\ \A k \in DOMAIN runs : runs'[k].by = r => k = j
               /\ runs'[j].at \in {"working", "recorded"} => rows'[r] = "running"
               /\ runs'[j].at = "settled" => rows'[r] \in {"running", "completed", "error"}
               /\ rows'[r] \in {"completed", "error"} => (rows'[r] = "completed") = runs'[j].ok
    <3>1. CASE j = i
      <4>1. rows'[by] = row /\ row # "none" /\ row \in {"running", "completed", "error"}
        BY <1>2, <1>5, <1>r
      <4>2. runs[i].pipe = PipeOf[by]
        BY <1>0, <1>2, <1>b DEF RunsOK
      <4>3. row \in {"completed", "error"} => (row = "completed") = ok
        BY <1>r
      <4> QED BY <1>2, <1>4, <1>b, <2>1, <3>1, <4>1, <4>2, <4>3
    <3>2. CASE j # i
      <4>1. PICK r : r = runs[j].by
        OBVIOUS
      <4>2. r \in Reqs /\ r # by /\ runs'[j] = runs[j]
        BY <1>0, <1>2, <1>4, <2>2, <3>2, <4>1, RunTyped DEF RunRecord
      <4>3. rows'[r] = rows[r]
        BY <1>5, <4>2
      <4>4. /\ runs[j].pipe = PipeOf[r] /\ req[r].pc = "done" /\ rows[r] # "none"
            /\ \A k \in DOMAIN runs : runs[k].by = r => k = j
            /\ runs[j].at \in {"working", "recorded"} => rows[r] = "running"
            /\ runs[j].at = "settled" => rows[r] \in {"running", "completed", "error"}
            /\ rows[r] \in {"completed", "error"} => (rows[r] = "completed") = runs[j].ok
        BY <1>0, <2>2, <4>1 DEF RunsOK
      <4> QED BY <2>1, <4>1, <4>2, <4>3, <4>4
    <3> QED BY <3>1, <3>2
  <2>3. ASSUME NEW j \in DOMAIN runs, runs'[j].at = "recorded" PROVE runs'[j].by # Nobody
    BY <1>0, <1>4, <2>3 DEF RunsOK
  <2>4. ASSUME NEW r \in Reqs, rows'[r] \in {"running", "completed", "error"}
        PROVE  \E j \in DOMAIN runs : runs'[j].by = r
    <3>1. CASE r = by
      BY <1>4, <3>1
    <3>2. CASE r # by
      BY <1>0, <1>5, <2>1, <2>4, <3>2 DEF RunsOK
    <3> QED BY <3>1, <3>2
  <2> QED BY <1>1, <1>4, <2>1, <2>2, <2>3, <2>4 DEF RunsOK
<1>11. HoldOK'
  <2>1. ASSUME NEW j \in DOMAIN runs
        PROVE  runs'[j].pipe = runs[j].pipe /\ (Active(j)' <=> Active(j))
    BY <1>1, <1>4 DEF Active
  <2> QED BY <1>0, <1>1, <1>4, <2>1, MovesKeepHold
<1>12. ASSUME NEW p \in Pipes PROVE StreakAt(p)'
  <2>1. StreakAt(p)
    BY <1>0 DEF StreakOK
  <2>2. ASSUME NEW j \in DOMAIN runs
        PROVE  (Recorded(j, p)' <=> Recorded(j, p)) /\ runs'[j].ok = runs[j].ok
    BY <1>1, <1>4, <1>o DEF Recorded
  <2>3. Owed(p)' = Owed(p)
    BY <1>4, <2>2 DEF Owed
  <2>4. Cleared(p)' <=> Cleared(p)
    BY <1>4, <2>2 DEF Cleared
  <2> QED BY <1>1, <2>1, <2>3, <2>4 DEF StreakAt, Follows
<1>13. StreakOK'
  BY <1>12 DEF StreakOK
<1> QED BY <1>6, <1>7, <1>8, <1>9, <1>10, <1>11, <1>13 DEF PipelinesInv

\* What Finish makes of the entry of a run's pipeline.
LEMMA FinishedShape ==
    ASSUME NEW p \in Pipes, NEW ok \in BOOLEAN, entry[p] \in Entry, ~entry[p].removed
    PROVE  LET f == Finished(p, ok) IN
           /\ f \in Entry /\ ~f.running /\ ~f.removed /\ f.known = entry[p].known
           /\ f.kind = entry[p].kind /\ f.timer = entry[p].timer
           /\ f.failures = IF ok THEN 0 ELSE entry[p].failures + 1
           /\ entry[p].paused => f.paused
           /\ ~ok /\ f.timer /\ PauseAfter > 0 /\ f.failures >= PauseAfter => f.paused
<1>n. PICK n \in {"never", "later", "due"} : n = IF entry[p].timer THEN "later" ELSE entry[p].next
  BY DEF Entry
<1>e. PICK e : e = [entry[p] EXCEPT !.running = FALSE, !.ran = TRUE, !.next = n]
  OBVIOUS
<1>1. /\ e \in Entry /\ ~e.running /\ ~e.removed /\ e.known = entry[p].known /\ e.kind = entry[p].kind
      /\ e.timer = entry[p].timer /\ e.failures = entry[p].failures /\ e.paused = entry[p].paused
  BY <1>e DEF Entry
<1>f. PICK failed : failed = [e EXCEPT !.failures = e.failures + 1]
  OBVIOUS
<1>2. /\ failed \in Entry /\ ~failed.running /\ ~failed.removed /\ failed.known = e.known
      /\ failed.kind = e.kind /\ failed.timer = e.timer /\ failed.failures = e.failures + 1
      /\ failed.paused = e.paused
  BY <1>1, <1>f DEF Entry
<1>3. Finished(p, ok) =
        IF ok THEN [e EXCEPT !.failures = 0]
        ELSE IF e.timer /\ PauseAfter > 0 /\ failed.failures >= PauseAfter /\ ~e.paused
               THEN [failed EXCEPT !.paused = TRUE]
               ELSE failed
  BY <1>1, <1>e, <1>f, <1>n DEF Finished
<1>4. CASE ok
  <2>1. Finished(p, ok) = [e EXCEPT !.failures = 0]
    BY <1>3, <1>4
  <2>g. PICK g : g = [e EXCEPT !.failures = 0]
    OBVIOUS
  <2>2. /\ g \in Entry /\ ~g.running /\ ~g.removed /\ g.known = e.known /\ g.kind = e.kind
        /\ g.timer = e.timer /\ g.failures = 0 /\ g.paused = e.paused
    BY <1>1, <2>g DEF Entry
  <2> QED BY <1>1, <1>4, <2>1, <2>2, <2>g
<1>5. CASE ~ok /\ e.timer /\ PauseAfter > 0 /\ failed.failures >= PauseAfter /\ ~e.paused
  <2>1. Finished(p, ok) = [failed EXCEPT !.paused = TRUE]
    BY <1>3, <1>5
  <2> QED BY <1>1, <1>2, <1>5, <2>1 DEF Entry
<1>6. CASE ~ok /\ ~(e.timer /\ PauseAfter > 0 /\ failed.failures >= PauseAfter /\ ~e.paused)
  <2>1. Finished(p, ok) = failed
    BY <1>3, <1>6
  <2>2. failed.timer /\ PauseAfter > 0 /\ failed.failures >= PauseAfter => failed.paused
    BY <1>2, <1>6
  <2> QED BY <1>1, <1>2, <1>6, <2>1, <2>2
<1> QED BY <1>4, <1>5, <1>6

\* The scheduler takes note of the run and gives the claim back.
LEMMA FinishRunKeeps ==
    ASSUME PipelinesInv, NEW i \in DOMAIN runs, FinishRun(i)
    PROVE  PipelinesInv'
<1>0. /\ Typed /\ LockOK /\ RowsOK /\ RunsOK /\ AnswersOK /\ HoldOK /\ StreakOK /\ Nobody \notin Reqs
      /\ runs[i] \in RunRecord
  BY PipelinesAssumption, RunTyped DEF PipelinesInv
<1>p. PICK p : p = runs[i].pipe
  OBVIOUS
<1>o. PICK ok : ok = runs[i].ok
  OBVIOUS
<1>1. /\ runs[i].at = "settled" /\ phase' = phase /\ live' = live
      /\ req' = req /\ answer' = answer /\ admitting' = admitting
      /\ rows' = rows /\ runHistory' = runHistory
  BY DEF FinishRun, webVars, storeVars
<1>2. ok \in BOOLEAN /\ "over" \in RunAt
  BY <1>0, <1>o DEF RunRecord, RunAt
<1>3. runs' = [runs EXCEPT ![i] = [runs[i] EXCEPT !.ok = ok, !.at = "over"]]
  <2>1. [runs[i] EXCEPT !.ok = ok, !.at = "over"] = [runs[i] EXCEPT !.at = "over"]
    BY <1>0, <1>o DEF RunRecord
  <2> QED BY <2>1 DEF FinishRun
<1>4. /\ runs' \in Seq(RunRecord) /\ DOMAIN runs' = DOMAIN runs
      /\ \A j \in DOMAIN runs : j # i => runs'[j] = runs[j]
      /\ runs'[i].pipe = p /\ runs'[i].by = runs[i].by
      /\ runs'[i].ok = ok /\ runs'[i].at = "over"
  BY <1>0, <1>2, <1>3, <1>p, RunMoves
<1>5. /\ p \in Pipes /\ entry[p].known
      /\ \A j \in DOMAIN runs : RunsOn(j, p) => j = i
      /\ \A r \in Reqs : ~HeldBy(r, p)
  BY <1>1, <1>p, OneRuns DEF Active
<1>e. PICK e : e = Finished(p, ok)
  OBVIOUS
<1>6. e \in Entry /\ ~e.running
  <2>0. entry[p] \in Entry
    BY <1>0, <1>5 DEF Typed
  <2>1. CASE entry[p].removed
    <3>1. e = NoEntry
      BY <1>e, <2>0, <2>1 DEF Finished, Entry
    <3> QED BY <3>1, NoEntryShape
  <2>2. CASE ~entry[p].removed
    BY <1>2, <1>5, <1>e, <2>0, <2>2, FinishedShape
  <2> QED BY <2>1, <2>2
<1>7. entry' = [entry EXCEPT ![p] = e]
  BY <1>e, <1>o, <1>p DEF FinishRun
<1>8. ASSUME NEW q \in Pipes PROVE entry'[q] = IF q = p THEN e ELSE entry[q]
  BY <1>0, <1>7 DEF Typed
<1>9. /\ streak' \in [Pipes -> Nat] /\ streak'[p] = (IF entry[p].removed THEN 0 ELSE streak[p])
      /\ \A q \in Pipes \ {p} : streak'[q] = streak[q]
  <2>1. streak' = [streak EXCEPT ![p] = IF entry[p].removed THEN 0 ELSE streak[p]]
    BY <1>p DEF FinishRun
  <2>2. streak \in [Pipes -> Nat]
    BY <1>0 DEF Typed
  <2> QED BY <1>5, <2>1, <2>2
<1>10. Typed'
  <2>1. entry' \in [Pipes -> Entry]
    BY <1>0, <1>6, <1>7 DEF Typed
  <2> QED BY <1>0, <1>1, <1>4, <1>9, <2>1 DEF Typed
<1>11. LockOK' /\ RowsOK' /\ AnswersOK'
  BY <1>0, <1>1 DEF LockOK, RowsOK, AnswersOK
<1>12. RunsOK'
  <2>1. ASSUME NEW j \in DOMAIN runs PROVE runs'[j].by = runs[j].by /\ runs'[j].pipe = runs[j].pipe
                                           /\ runs'[j].ok = runs[j].ok
    BY <1>4, <1>o, <1>p
  <2>2. ASSUME NEW j \in DOMAIN runs PROVE runs'[j].at = "over" \/ runs'[j].at = runs[j].at
    BY <1>4
  <2> QED BY <1>0, <1>1, <1>4, <2>1, <2>2 DEF RunsOK
<1>13. ASSUME NEW q \in Pipes PROVE HoldAt(q)'
  <2>0. HoldAt(q)
    BY <1>0 DEF HoldOK
  <2>1. \A r \in Reqs : HeldBy(r, q)' <=> HeldBy(r, q)
    BY <1>1 DEF HeldBy
  <2>2. CASE q = p
    <3>1. \A j \in DOMAIN runs : ~RunsOn(j, p)'
      <4>1. ASSUME NEW j \in DOMAIN runs, j # i PROVE ~RunsOn(j, p)'
        BY <1>4, <1>5, <4>1 DEF RunsOn, Active
      <4>2. ~RunsOn(i, p)'
        BY <1>4 DEF RunsOn, Active
      <4> QED BY <4>1, <4>2
    <3>2. ~entry'[p].running
      BY <1>5, <1>6, <1>8
    <3> QED BY <1>4, <1>5, <2>1, <2>2, <3>1, <3>2 DEF HoldAt
  <2>3. CASE q # p
    <3>1. ASSUME NEW j \in DOMAIN runs PROVE RunsOn(j, q)' <=> RunsOn(j, q)
      <4>1. CASE j = i
        BY <1>4, <1>p, <2>3, <4>1 DEF RunsOn
      <4>2. CASE j # i
        BY <1>4, <4>2 DEF RunsOn, Active
      <4> QED BY <4>1, <4>2
    <3>2. entry'[q] = entry[q]
      BY <1>8, <2>3
    <3> QED BY <1>1, <1>4, <2>0, <2>1, <3>1, <3>2 DEF HoldAt
  <2> QED BY <2>2, <2>3
<1>14. HoldOK'
  BY <1>13 DEF HoldOK
<1>15. ASSUME NEW q \in Pipes PROVE StreakAt(q)'
  <2>0. StreakAt(q)
    BY <1>0 DEF StreakOK
  <2>1. CASE q # p
    <3>1. ASSUME NEW j \in DOMAIN runs
          PROVE  (Recorded(j, q)' <=> Recorded(j, q)) /\ runs'[j].ok = runs[j].ok
      <4>1. CASE j = i
        BY <1>4, <1>o, <1>p, <2>1, <4>1 DEF Recorded
      <4>2. CASE j # i
        BY <1>4, <4>2 DEF Recorded
      <4> QED BY <4>1, <4>2
    <3>2. Owed(q)' = Owed(q)
      BY <1>4, <3>1 DEF Owed
    <3>3. Cleared(q)' <=> Cleared(q)
      BY <1>4, <3>1 DEF Cleared
    <3>4. entry'[q] = entry[q] /\ streak'[q] = streak[q]
      BY <1>8, <1>9, <2>1
    <3> QED BY <1>1, <2>0, <3>2, <3>3, <3>4 DEF StreakAt, Follows
  <2>2. CASE q = p /\ entry[p].removed
    <3>1. e = NoEntry
      BY <1>0, <1>5, <1>e, <2>2 DEF Finished, Typed, Entry
    <3>2. entry'[p] = NoEntry /\ streak'[p] = 0
      BY <1>5, <1>8, <1>9, <2>2, <3>1
    <3> QED BY <1>0, <1>5, <1>10, <2>2, <3>2, NoEntryShape, StreakRestarts
  <2>3. CASE q = p /\ ~entry[p].removed
    <3>1. \A j \in DOMAIN runs : Recorded(j, p) <=> j = i
      BY <1>1, <1>5, <1>p DEF Recorded, RunsOn, Active
    <3>2. \A j \in DOMAIN runs : ~Recorded(j, p)'
      BY <1>4, <3>1 DEF Recorded
    <3>3. Owed(p) = (IF ok THEN 0 ELSE 1) /\ Owed(p)' = 0 /\ ~Cleared(p)'
      BY <1>4, <1>o, <3>1, <3>2 DEF Owed, Cleared
    <3>4. ok => streak[p] = 0
      BY <1>o, <2>0, <2>3, <3>1 DEF StreakAt, Cleared
    <3>5. /\ entry[p] \in Entry /\ entry[p].failures \in Nat /\ PauseAfter \in Nat /\ streak[p] \in Nat
      BY <1>0, <1>5, PipelinesAssumption DEF Typed, Entry
    <3>6. /\ ~e.removed /\ e.known = entry[p].known /\ e.kind = entry[p].kind /\ e.timer = entry[p].timer
          /\ e.failures = IF ok THEN 0 ELSE entry[p].failures + 1
          /\ entry[p].paused => e.paused
          /\ ~ok /\ e.timer /\ PauseAfter > 0 /\ e.failures >= PauseAfter => e.paused
      BY <1>2, <1>5, <1>e, <2>3, <3>5, FinishedShape
    <3>7. Follows(entry[p], streak[p], IF ok THEN 0 ELSE 1)
      BY <2>0, <2>3, <3>3 DEF StreakAt
    <3>8. Follows(e, streak[p], 0)
      <4>1. CASE ok
        <5>1. streak[p] = 0 /\ e.failures = 0 /\ ~(PauseAfter > 0 /\ 0 >= PauseAfter + 0)
              /\ 0 <= 0 + 0 /\ ~e.removed
          BY <3>4, <3>5, <3>6, <4>1
        <5>2. /\ e.known /\ ~e.removed => e.timer = (e.kind = "timer")
              /\ e.timer => e.known
              /\ e.known => e.kind # "absent"
          BY <2>3, <3>6, <3>7 DEF Follows
        <5> QED BY <5>1, <5>2 DEF Follows
      <4>2. CASE ~ok
        BY <1>5, <2>3, <3>5, <3>6, <3>7, <4>2 DEF Follows
      <4> QED BY <4>1, <4>2
    <3>9. entry'[p] = e /\ streak'[p] = streak[p]
      BY <1>5, <1>8, <1>9, <2>3
    <3> QED BY <1>1, <2>0, <2>3, <3>3, <3>8, <3>9 DEF StreakAt
  <2> QED BY <2>1, <2>2, <2>3
<1>16. StreakOK'
  BY <1>15 DEF StreakOK
<1> QED BY <1>10, <1>11, <1>12, <1>14, <1>16 DEF PipelinesInv

-----------------------------------------------------------------------------
\* The end of a process and the boot of the next.

\* What the goroutines did is gone: no handler and no run holds anything.
LEMMA DiesKeeps ==
    ASSUME PipelinesInv, Dies
    PROVE  PipelinesInv'
<1>0. /\ Typed /\ LockOK /\ RowsOK /\ RunsOK /\ AnswersOK /\ HoldOK /\ StreakOK
  BY DEF PipelinesInv
<1>1. /\ phase' = "down" /\ live' = live /\ answer' = answer /\ admitting' = Nobody
      /\ rows' = rows /\ runHistory' = runHistory /\ streak' = streak
  BY DEF Dies, storeVars
<1>2. entry' = [p \in Pipes |-> NoEntry]
  BY DEF Dies
<1>3. ASSUME NEW r \in Reqs
      PROVE  /\ req'[r] = (IF req[r].pc = "new" THEN req[r] ELSE Gone(r))
             /\ req'[r] \in Request /\ req'[r].body = req[r].body
             /\ req'[r].pc = (IF req[r].pc = "new" THEN "new" ELSE "done")
  <2>1. req[r] \in Request
    BY <1>0 DEF Typed
  <2>2. req'[r] = IF req[r].pc = "new" THEN req[r] ELSE Gone(r)
    BY DEF Dies
  <2> QED BY <2>1, <2>2, GoneShape
<1>4. ASSUME NEW i \in DOMAIN runs
      PROVE  /\ i \in DOMAIN runs' /\ runs'[i] \in RunRecord /\ ~Active(i)'
             /\ runs'[i].pipe = runs[i].pipe /\ runs'[i].by = runs[i].by /\ runs'[i].ok = runs[i].ok
  <2>1. runs[i] \in RunRecord
    BY <1>0, RunTyped
  <2>2. runs'[i] = (IF Active(i) THEN [runs[i] EXCEPT !.at = "lost"] ELSE runs[i]) /\ i \in DOMAIN runs'
    BY DEF Dies
  <2>3. CASE Active(i)
    <3>1. runs'[i] = [runs[i] EXCEPT !.at = "lost"]
      BY <2>2, <2>3
    <3> QED BY <2>1, <2>2, <3>1 DEF RunRecord, RunAt, Active
  <2>4. CASE ~Active(i)
    <3>1. runs'[i] = runs[i]
      BY <2>2, <2>4
    <3> QED BY <2>1, <2>2, <2>4, <3>1 DEF Active
  <2> QED BY <2>3, <2>4
<1>5. DOMAIN runs' = DOMAIN runs /\ runs' \in Seq(RunRecord)
  <2>1. runs \in Seq(RunRecord)
    BY <1>0 DEF Typed
  <2>2. PICK n \in Nat : DOMAIN runs = 1 .. n
    BY <2>1
  <2>3. runs' = [i \in 1 .. n |-> IF Active(i) THEN [runs[i] EXCEPT !.at = "lost"] ELSE runs[i]]
    BY <2>2 DEF Dies
  <2>4. DOMAIN runs' = 1 .. n
    BY <2>3
  <2>5. runs' \in [1 .. n -> RunRecord]
    BY <1>4, <2>2, <2>3, <2>4
  <2> QED BY <2>2, <2>4, <2>5
<1>6. Typed'
  <2>1. entry' \in [Pipes -> Entry]
    BY <1>2, NoEntryShape
  <2>2. req' \in [Reqs -> Request]
    <3>1. req' = [r \in Reqs |-> IF req[r].pc = "new" THEN req[r] ELSE Gone(r)]
      BY DEF Dies
    <3> QED BY <1>3, <3>1
  <2> QED BY <1>0, <1>1, <1>5, <2>1, <2>2 DEF Typed
<1>7. LockOK'
  BY <1>3 DEF LockOK, Holding
<1>8. RowsOK'
  BY <1>0, <1>1, <1>3 DEF RowsOK
<1>9. AnswersOK'
  <2>1. ASSUME NEW r \in Reqs, answer[r].code = 202
        PROVE  LET q == answer[r].id IN
               /\ req'[r].pc = "done" /\ q \in Reqs
               /\ rows[q] # "none" /\ PipeOf[q] = PipeOf[r] /\ req'[q].body = req'[r].body
               /\ q = r \/ SameKey(q, r)
    BY <1>0, <1>3, <2>1 DEF AnswersOK
  <2> QED BY <1>1, <2>1 DEF AnswersOK
<1>10. RunsOK'
  <2>1. ASSUME NEW i \in DOMAIN runs, runs[i].by # Nobody
        PROVE  LET r == runs[i].by IN
               /\ runs[i].pipe = PipeOf[r] /\ req'[r].pc = "done" /\ rows[r] # "none"
               /\ \A j \in DOMAIN runs : runs[j].by = r => j = i
               /\ rows[r] \in {"completed", "error"} => (rows[r] = "completed") = runs[i].ok
    <3>1. runs[i].by \in Reqs
      BY <1>0, <2>1, RunTyped DEF RunRecord
    <3> QED BY <1>0, <1>3, <2>1, <3>1 DEF RunsOK
  <2>2. ASSUME NEW i \in DOMAIN runs
        PROVE  runs'[i].at \notin {"working", "recorded", "settled"}
    BY <1>4 DEF Active
  <2>3. ASSUME NEW r \in Reqs, rows[r] \in {"running", "completed", "error"}
        PROVE  \E i \in DOMAIN runs : runs[i].by = r
    BY <1>0, <2>3 DEF RunsOK
  <2> QED BY <1>1, <1>4, <1>5, <2>1, <2>2, <2>3 DEF RunsOK
<1>11. ASSUME NEW p \in Pipes PROVE HoldAt(p)'
  <2>1. \A r \in Reqs : ~HeldBy(r, p)'
    BY <1>3 DEF HeldBy, Holding
  <2>2. \A i \in DOMAIN runs' : ~RunsOn(i, p)'
    BY <1>4, <1>5 DEF RunsOn
  <2>3. ~entry'[p].running
    BY <1>2, NoEntryShape
  <2> QED BY <2>1, <2>2, <2>3 DEF HoldAt
<1>12. ASSUME NEW p \in Pipes PROVE StreakAt(p)'
  <2>0. StreakAt(p) /\ streak[p] \in Nat /\ PauseAfter \in Nat
    BY <1>0, PipelinesAssumption DEF StreakOK, Typed
  <2>1. \A i \in DOMAIN runs' : ~Recorded(i, p)'
    BY <1>4, <1>5 DEF Recorded, Active
  <2>2. Owed(p)' = 0 /\ ~Cleared(p)'
    BY <2>1 DEF Owed, Cleared
  <2>3. entry'[p] = NoEntry
    BY <1>2
  <2>4. Follows(NoEntry, streak[p], 0)
    BY <2>0, NoEntryShape DEF Follows
  <2> QED BY <1>1, <2>0, <2>2, <2>3, <2>4 DEF StreakAt
<1>13. HoldOK' /\ StreakOK'
  BY <1>11, <1>12 DEF HoldOK, StreakOK
<1> QED BY <1>6, <1>7, <1>8, <1>9, <1>10, <1>13 DEF PipelinesInv

\* What a boot counts: the failures at the head of the history, none of them
\* a success, and the outcome after them, if there is one, a success.
LEMMA LeadingFailuresCount ==
    ASSUME NEW h \in Seq(BOOLEAN)
    PROVE  LET m == LeadingFailures(h) IN
           m \in 0 .. Len(h) /\ (\A i \in 1 .. m : ~h[i]) /\ (m < Len(h) => h[m + 1])
<1>n. PICK n : n = Len(h)
  OBVIOUS
<1>0. n \in Nat
  BY <1>n
<1>1. \E m \in 0 .. n : (\A i \in 1 .. m : ~h[i]) /\ (m < n => h[m + 1])
  <2>t. PICK T : T = {i \in 1 .. n : h[i]}
    OBVIOUS
  <2>1. CASE T = {}
    <3>1. \A i \in 1 .. n : ~h[i]
      BY <2>1, <2>t
    <3>2. n \in 0 .. n /\ ~(n < n)
      BY <1>0
    <3> QED BY <3>1, <3>2
  <2>2. CASE T # {}
    <3>1. T \subseteq Nat
      BY <1>0, <2>t
    <3>2. PICK k \in T : \A j \in T : ~(<<j, k>> \in OpToRel(<, Nat))
      <4>1. IsWellFoundedOn(OpToRel(<, Nat), Nat)
        BY NatLessThanWellFounded
      <4> QED BY <2>2, <3>1, <4>1, WFMin, Zenon
    <3>3. \A j \in T : ~(j < k)
      <4>1. ASSUME NEW j \in T, j < k PROVE FALSE
        <5>1. <<j, k>> \in Nat \X Nat
          BY <3>1
        <5>2. <<j, k>> \in OpToRel(<, Nat)
          BY <4>1, <5>1 DEF OpToRel
        <5> QED BY <3>2, <5>2
      <4> QED BY <4>1
    <3>4. k \in 1 .. n /\ h[k]
      BY <2>t
    <3>5. \A i \in 1 .. k - 1 : ~h[i]
      BY <1>0, <2>t, <3>3, <3>4
    <3>6. k - 1 \in 0 .. n /\ (k - 1) + 1 = k
      BY <1>0, <3>4
    <3> QED BY <3>4, <3>5, <3>6
  <2> QED BY <2>1, <2>2
<1>2. LeadingFailures(h) = CHOOSE m \in 0 .. n : (\A i \in 1 .. m : ~h[i]) /\ (m < n => h[m + 1])
  BY <1>n DEF LeadingFailures
<1> QED BY <1>1, <1>2, <1>n

\* The entry a boot starts with, with the schedule of the snapshot.
LEMMA FreshShape ==
    ASSUME NEW kind \in Kinds
    PROVE  LET e == IF kind = "absent" THEN NoEntry ELSE WithSchedule(NoEntry, kind) IN
           /\ e \in Entry /\ ~e.running /\ ~e.removed /\ e.failures = 0 /\ ~e.paused
           /\ e.known => e.timer = (e.kind = "timer") /\ e.kind # "absent"
           /\ e.timer => e.known
<1>1. CASE kind = "absent"
  BY <1>1, NoEntryShape
<1>2. CASE kind # "absent"
  <2>1. PICK s : s = WithSchedule(NoEntry, kind)
    OBVIOUS
  <2>2. /\ s \in Entry /\ s.known /\ s.kind = kind /\ s.timer = (kind = "timer")
        /\ s.running = NoEntry.running /\ s.removed = NoEntry.removed
        /\ s.failures = NoEntry.failures /\ s.paused = NoEntry.paused
    BY <2>1, NoEntryShape, ScheduleShape
  <2> QED BY <1>2, <2>1, <2>2, NoEntryShape
<1> QED BY <1>1, <1>2

\* What a boot restores.
LEMMA RestoredShape ==
    ASSUME NEW p \in Pipes, NEW overdue \in BOOLEAN, live.kind[p] \in Kinds,
           runHistory[p] \in Seq(BOOLEAN)
    PROVE  LET e == Restored(p, overdue)
               m == LeadingFailures(runHistory[p]) IN
           /\ e \in Entry /\ ~e.running /\ ~e.removed
           /\ e.known => e.timer = (e.kind = "timer") /\ e.kind # "absent"
           /\ e.timer => e.known
           /\ e.known /\ runHistory[p] # <<>> => e.failures = m
           /\ e.timer /\ runHistory[p] # <<>> /\ PauseAfter > 0 /\ m >= PauseAfter => e.paused
<1>f. PICK f : f = (IF live.kind[p] = "absent" THEN NoEntry ELSE WithSchedule(NoEntry, live.kind[p]))
  OBVIOUS
<1>1. /\ f \in Entry /\ ~f.running /\ ~f.removed /\ f.failures = 0 /\ ~f.paused
      /\ f.known => f.timer = (f.kind = "timer") /\ f.kind # "absent"
      /\ f.timer => f.known
  BY <1>f, FreshShape
<1>m. PICK m : m = LeadingFailures(runHistory[p])
  OBVIOUS
<1>2. m \in Nat
  <2>1. m \in 0 .. Len(runHistory[p]) /\ Len(runHistory[p]) \in Nat
    BY <1>m, LeadingFailuresCount
  <2> QED BY <2>1
<1>s. PICK stops \in BOOLEAN : stops = (f.timer /\ PauseAfter > 0 /\ m >= PauseAfter)
  OBVIOUS
<1>n. PICK next \in {"never", "later", "due"} : next = IF f.timer /\ overdue THEN "due" ELSE f.next
  BY <1>1 DEF Entry
<1>g. PICK g : g = [f EXCEPT !.ran = TRUE, !.failures = m, !.paused = stops, !.next = next]
  OBVIOUS
<1>3. /\ g \in Entry /\ g.running = f.running /\ g.removed = f.removed /\ g.known = f.known
      /\ g.kind = f.kind /\ g.timer = f.timer /\ g.failures = m /\ g.paused = stops
  BY <1>1, <1>2, <1>g DEF Entry
<1>4. Restored(p, overdue) = IF ~f.known \/ runHistory[p] = <<>> THEN f ELSE g
  BY <1>f, <1>g, <1>m, <1>n, <1>s DEF Restored
<1>5. CASE ~f.known \/ runHistory[p] = <<>>
  <2>1. Restored(p, overdue) = f
    BY <1>4, <1>5
  <2> QED BY <1>1, <1>5, <2>1
<1>6. CASE f.known /\ runHistory[p] # <<>>
  <2>1. Restored(p, overdue) = g
    BY <1>4, <1>6
  <2> QED BY <1>1, <1>3, <1>m, <1>s, <2>1
<1> QED BY <1>5, <1>6

\* A restored entry follows the streak that the history remembers: if the
\* count stops short of the streak, then it has reached the window, and with
\* it the limit.
LEMMA RestoredFollows ==
    ASSUME NEW p \in Pipes, NEW overdue \in BOOLEAN, live.kind[p] \in Kinds,
           runHistory[p] \in Seq(BOOLEAN), NEW n \in Nat, Remembers(runHistory[p], n)
    PROVE  Follows(Restored(p, overdue), n, 0)
<1>e. PICK e : e = Restored(p, overdue)
  OBVIOUS
<1>h. PICK h : h = runHistory[p]
  OBVIOUS
<1>m. PICK m : m = LeadingFailures(h)
  OBVIOUS
<1>1. /\ e \in Entry /\ ~e.running /\ ~e.removed
      /\ e.known => e.timer = (e.kind = "timer") /\ e.kind # "absent"
      /\ e.timer => e.known
      /\ e.known /\ h # <<>> => e.failures = m
      /\ e.timer /\ h # <<>> /\ PauseAfter > 0 /\ m >= PauseAfter => e.paused
  BY <1>e, <1>h, <1>m, RestoredShape
<1>2. /\ h \in Seq(BOOLEAN) /\ Len(h) \in Nat /\ PauseAfter \in Nat /\ e.failures \in Nat
      /\ Window \in Nat /\ Window >= 1 /\ Window >= PauseAfter
  BY <1>1, <1>h, PipelinesAssumption DEF Window, Entry
<1>3. m \in 0 .. Len(h) /\ (\A i \in 1 .. m : ~h[i]) /\ (m < Len(h) => h[m + 1])
  BY <1>2, <1>m, LeadingFailuresCount
<1>4. (\A k \in 1 .. Len(h) : k <= n => ~h[k]) /\ (n <= Len(h) \/ Len(h) >= Window)
  BY <1>h DEF Remembers
<1>5. n <= m \/ m >= Window
  <2>1. CASE m < Len(h)
    <3>1. m + 1 \in 1 .. Len(h) /\ h[m + 1]
      BY <1>2, <1>3, <2>1
    <3>2. ~(m + 1 <= n)
      BY <1>4, <3>1
    <3> QED BY <1>2, <1>3, <3>2
  <2>2. CASE m = Len(h)
    BY <1>4, <2>2
  <2> QED BY <1>2, <1>3, <2>1, <2>2
<1>6. h = <<>> => n = 0
  BY <1>2, <1>4
<1>7. e.known /\ e.failures < PauseAfter => n <= e.failures + 0
  BY <1>1, <1>2, <1>3, <1>5, <1>6
<1>8. e.timer /\ PauseAfter > 0 /\ n >= PauseAfter + 0 => e.paused
  BY <1>1, <1>2, <1>3, <1>5, <1>6
<1> QED BY <1>1, <1>7, <1>8, <1>e DEF Follows

\* The boot finds no holder, and the streak in the history.
LEMMA BootKeeps ==
    ASSUME PipelinesInv, Boot
    PROVE  PipelinesInv'
<1>0. /\ Typed /\ LockOK /\ RowsOK /\ RunsOK /\ AnswersOK /\ HoldOK /\ StreakOK /\ Nobody \notin Reqs
  BY PipelinesAssumption DEF PipelinesInv
<1>1. /\ phase = "down" /\ phase' = "serving" /\ live' = live /\ runs' = runs
      /\ req' = req /\ answer' = answer /\ admitting' = admitting /\ runHistory' = runHistory
  BY DEF Boot, webVars
<1>2. PICK overdue \in BOOLEAN, unread \in SUBSET Pipes :
        /\ entry' = [p \in Pipes |-> IF p \notin unread THEN Restored(p, overdue)
                                     ELSE IF live.kind[p] = "absent" THEN NoEntry
                                     ELSE WithSchedule(NoEntry, live.kind[p])]
        /\ streak' = [p \in Pipes |-> IF p \in unread THEN 0 ELSE streak[p]]
  BY DEF Boot
<1>3. ASSUME NEW p \in Pipes
      PROVE  /\ live.kind[p] \in Kinds /\ runHistory[p] \in Seq(BOOLEAN) /\ streak[p] \in Nat
             /\ streak'[p] = IF p \in unread THEN 0 ELSE streak[p]
             /\ p \notin unread => entry'[p] = Restored(p, overdue)
             /\ p \in unread => entry'[p] = IF live.kind[p] = "absent" THEN NoEntry
                                            ELSE WithSchedule(NoEntry, live.kind[p])
  BY <1>0, <1>2 DEF Typed
<1>4. ASSUME NEW p \in Pipes
      PROVE  /\ entry'[p] \in Entry /\ ~entry'[p].running
             /\ entry'[p].known => entry'[p].timer = (entry'[p].kind = "timer") /\ entry'[p].kind # "absent"
             /\ entry'[p].timer => entry'[p].known
  <2>1. CASE p \in unread
    BY <1>3, <2>1, FreshShape
  <2>2. CASE p \notin unread
    BY <1>3, <2>2, RestoredShape
  <2> QED BY <2>1, <2>2
<1>5. ASSUME NEW r \in Reqs
      PROVE  /\ rows'[r] = rows[r] \/ (rows[r] \in {"accepted", "running"} /\ rows'[r] = "interrupted")
             /\ rows'[r] \in Status
  <2>1. rows[r] \in Status /\ "interrupted" \in Status
    BY <1>0 DEF Typed, Status
  <2>2. \/ rows' = rows
        \/ rows' = [q \in Reqs |-> IF rows[q] \in {"accepted", "running"} THEN "interrupted" ELSE rows[q]]
    BY DEF Boot
  <2> QED BY <2>1, <2>2
<1>6. Typed'
  <2>1. entry' \in [Pipes -> Entry]
    BY <1>2, <1>4
  <2>2. streak' \in [Pipes -> Nat]
    BY <1>2, <1>3
  <2>3. rows' \in [Reqs -> Status]
    <3>1. \/ rows' = rows
          \/ rows' = [q \in Reqs |-> IF rows[q] \in {"accepted", "running"} THEN "interrupted" ELSE rows[q]]
      BY DEF Boot
    <3> QED BY <1>0, <1>5, <3>1 DEF Typed
  <2> QED BY <1>0, <1>1, <2>1, <2>2, <2>3 DEF Typed
<1>7. \A p \in Pipes : (\A r \in Reqs : ~HeldBy(r, p)) /\ (\A i \in DOMAIN runs : ~RunsOn(i, p))
  BY <1>0, <1>1 DEF HoldOK, HoldAt
<1>8. \A i \in DOMAIN runs : ~Active(i)
  <2>1. ASSUME NEW i \in DOMAIN runs PROVE runs[i].pipe \in Pipes
    BY <1>0, RunTyped DEF RunRecord
  <2> QED BY <1>7, <2>1 DEF RunsOn
<1>9. \A r \in Reqs : req[r].pc \notin Holding
  <2>1. \A r \in Reqs : PipeOf[r] \in Pipes
    BY PipelinesAssumption
  <2> QED BY <1>7, <2>1 DEF HeldBy
<1>10. LockOK'
  BY <1>0, <1>1 DEF LockOK
<1>11. RowsOK'
  <2>1. \A r \in Reqs : rows'[r] = "none" <=> rows[r] = "none"
    BY <1>5
  <2> QED BY <1>0, <1>1, <1>9, <2>1 DEF RowsOK, Holding
<1>12. AnswersOK'
  <2>1. \A r \in Reqs : rows'[r] = "none" <=> rows[r] = "none"
    BY <1>5
  <2> QED BY <1>0, <1>1, <2>1 DEF AnswersOK
<1>13. RunsOK'
  <2>1. ASSUME NEW i \in DOMAIN runs, runs[i].by # Nobody
        PROVE  LET r == runs[i].by IN
               /\ runs[i].pipe = PipeOf[r] /\ req[r].pc = "done" /\ rows'[r] # "none"
               /\ \A j \in DOMAIN runs : runs[j].by = r => j = i
               /\ runs[i].at \notin {"working", "recorded", "settled"}
               /\ rows'[r] \in {"completed", "error"} => (rows'[r] = "completed") = runs[i].ok
    <3>1. runs[i].by \in Reqs
      BY <1>0, <2>1, RunTyped DEF RunRecord
    <3>2. runs[i].at \notin {"working", "recorded", "settled"}
      BY <1>8 DEF Active
    <3>3. PICK r \in Reqs : r = runs[i].by
      BY <3>1
    <3>4. /\ runs[i].pipe = PipeOf[r] /\ req[r].pc = "done" /\ rows[r] # "none"
          /\ \A j \in DOMAIN runs : runs[j].by = r => j = i
          /\ rows[r] \in {"completed", "error"} => (rows[r] = "completed") = runs[i].ok
      BY <1>0, <2>1, <3>3 DEF RunsOK
    <3> QED BY <1>5, <3>2, <3>3, <3>4
  <2>2. ASSUME NEW i \in DOMAIN runs, runs[i].at = "recorded" PROVE runs[i].by # Nobody
    BY <1>8, <2>2 DEF Active
  <2>3. ASSUME NEW r \in Reqs, rows'[r] \in {"running", "completed", "error"}
        PROVE  \E i \in DOMAIN runs : runs[i].by = r
    BY <1>0, <1>5, <2>3 DEF RunsOK
  <2> QED BY <1>1, <2>1, <2>2, <2>3 DEF RunsOK
<1>14. ASSUME NEW p \in Pipes PROVE HoldAt(p)'
  <2>1. \A r \in Reqs : ~HeldBy(r, p)'
    BY <1>1, <1>7 DEF HeldBy
  <2>2. \A i \in DOMAIN runs' : ~RunsOn(i, p)'
    BY <1>1, <1>7 DEF RunsOn, Active
  <2> QED BY <1>4, <2>1, <2>2 DEF HoldAt
<1>15. ASSUME NEW p \in Pipes PROVE StreakAt(p)'
  <2>0. StreakAt(p)
    BY <1>0 DEF StreakOK
  <2>1. CASE p \in unread
    <3>1. streak'[p] = 0
      BY <1>3, <2>1
    <3> QED BY <1>0, <1>4, <1>6, <3>1, StreakRestarts
  <2>2. CASE p \notin unread
    <3>1. \A i \in DOMAIN runs' : ~Recorded(i, p)'
      BY <1>1, <1>8 DEF Recorded, Active
    <3>2. Owed(p)' = 0 /\ ~Cleared(p)'
      BY <3>1 DEF Owed, Cleared
    <3>3. Remembers(runHistory[p], streak[p])
      BY <2>0 DEF StreakAt
    <3>4. Follows(Restored(p, overdue), streak[p], 0)
      BY <1>3, <3>3, RestoredFollows
    <3>5. PICK e : e = Restored(p, overdue)
      OBVIOUS
    <3>6. entry'[p] = e /\ streak'[p] = streak[p] /\ Follows(e, streak[p], 0)
      BY <1>3, <2>2, <3>4, <3>5
    <3> QED BY <1>1, <3>2, <3>3, <3>6 DEF StreakAt
  <2> QED BY <2>1, <2>2
<1>16. HoldOK' /\ StreakOK'
  BY <1>14, <1>15 DEF HoldOK, StreakOK
<1> QED BY <1>6, <1>10, <1>11, <1>12, <1>13, <1>16 DEF PipelinesInv

-----------------------------------------------------------------------------
\* The invariant holds from the start and through every step.

\* It holds at the start.
LEMMA PipelinesInit ==
    Init => PipelinesInv /\ faults \in Nat
<1> SUFFICES ASSUME Init PROVE PipelinesInv /\ faults \in Nat
  OBVIOUS
<1>1. /\ phase = "serving" /\ admitting = Nobody /\ runs = <<>> /\ faults = 0
      /\ live \in [number : {0}, kind : [Pipes -> Schedules]]
      /\ entry = [p \in Pipes |-> WithSchedule(NoEntry, live.kind[p])]
      /\ req = [r \in Reqs |-> [pc |-> "new", number |-> 0, body |-> Unread]]
      /\ answer = [r \in Reqs |-> [code |-> 0, id |-> Nobody]]
      /\ rows = [r \in Reqs |-> "none"]
      /\ runHistory = [p \in Pipes |-> <<>>]
      /\ streak = [p \in Pipes |-> 0]
  BY DEF Init
<1>2. ASSUME NEW p \in Pipes
      PROVE  /\ entry[p] \in Entry /\ ~entry[p].running /\ ~entry[p].removed /\ entry[p].known
             /\ entry[p].timer = (entry[p].kind = "timer") /\ entry[p].kind # "absent"
             /\ runHistory[p] = <<>> /\ streak[p] = 0
  <2>1. live.kind[p] \in Schedules
    BY <1>1
  <2>2. live.kind[p] \in Kinds /\ live.kind[p] # "absent"
    BY <2>1, PipelinesAssumption DEF Kinds
  <2>3. PICK e : e = WithSchedule(NoEntry, live.kind[p])
    OBVIOUS
  <2>4. /\ e \in Entry /\ e.known /\ e.kind = live.kind[p] /\ e.timer = (live.kind[p] = "timer")
        /\ e.running = NoEntry.running /\ e.removed = NoEntry.removed
    BY <2>2, <2>3, NoEntryShape, ScheduleShape
  <2>5. entry[p] = e /\ runHistory[p] = <<>> /\ streak[p] = 0
    BY <1>1, <2>3
  <2> QED BY <2>2, <2>4, <2>5, NoEntryShape
<1>3. ASSUME NEW r \in Reqs
      PROVE  req[r].pc = "new" /\ answer[r].code = 0 /\ rows[r] = "none"
  BY <1>1
<1>4. DOMAIN runs = {} /\ Len(<<>>) = 0
  BY <1>1
<1>5. Typed
  <2>1. live \in [number : Nat, kind : [Pipes -> Kinds]]
    BY <1>1 DEF Kinds
  <2>2. entry \in [Pipes -> Entry]
    BY <1>1, <1>2
  <2>3. req \in [Reqs -> Request]
    BY <1>1 DEF Request, Stages
  <2>4. answer \in [Reqs -> Answer]
    BY <1>1 DEF Answer
  <2>5. runs \in Seq(RunRecord) /\ rows \in [Reqs -> Status]
    BY <1>1 DEF Status
  <2>6. runHistory \in [Pipes -> Seq(BOOLEAN)] /\ streak \in [Pipes -> Nat]
    BY <1>1
  <2> QED BY <1>1, <2>1, <2>2, <2>3, <2>4, <2>5, <2>6 DEF Typed
<1>6. LockOK /\ RowsOK /\ AnswersOK
  BY <1>3 DEF LockOK, RowsOK, AnswersOK, Holding
<1>7. RunsOK
  BY <1>3, <1>4 DEF RunsOK
<1>8. HoldOK
  BY <1>2, <1>3, <1>4 DEF HoldOK, HoldAt, HeldBy, Holding
<1>9. ASSUME NEW p \in Pipes PROVE StreakAt(p)
  <2>1. Owed(p) = 0 /\ ~Cleared(p)
    BY <1>4 DEF Owed, Cleared
  <2>2. entry[p].failures \in Nat /\ PauseAfter \in Nat
    BY <1>2, PipelinesAssumption DEF Entry
  <2>3. Follows(entry[p], 0, 0)
    BY <1>2, <2>2 DEF Follows
  <2>4. Remembers(<<>>, 0)
    BY <1>4 DEF Remembers
  <2> QED BY <1>2, <2>1, <2>3, <2>4 DEF StreakAt
<1>10. StreakOK
  BY <1>9 DEF StreakOK
<1> QED BY <1>1, <1>5, <1>6, <1>7, <1>8, <1>10 DEF PipelinesInv

\* Faults are counted.
LEMMA FaultsCounted ==
    ASSUME faults \in Nat, [Next]_vars
    PROVE  faults' \in Nat
<1>1. CASE UNCHANGED vars
  BY <1>1 DEF vars, bounds
<1>2. CASE Boot
  BY <1>2 DEF Boot, Fault
<1>3. ASSUME NEW r \in Reqs,
             Lookup(r) \/ ClaimSignature(r) \/ AdmitWebhook(r) \/ Launch(r)
      PROVE  faults' \in Nat
  BY <1>3 DEF Lookup, ClaimSignature, AdmitWebhook, Launch, Fault
<1>4. ASSUME NEW r \in Reqs, Refuse(r) \/ ReadSnapshot(r) \/ TryStart(r)
      PROVE  faults' \in Nat
  BY <1>4 DEF Refuse, ReadSnapshot, TryStart, bounds
<1>5. ASSUME NEW i \in DOMAIN runs, NEW ok \in BOOLEAN,
             RecordRun(i, ok) \/ FinishAdmission(i) \/ FinishRun(i)
      PROVE  faults' \in Nat
  BY <1>5 DEF RecordRun, FinishAdmission, FinishRun, Fault, bounds
<1>6. ASSUME NEW p \in Pipes, NEW kind \in Schedules,
             Elapse(p) \/ RunNow(p) \/ Pause(p) \/ Resume(p) \/ Reschedule(p, kind)
      PROVE  faults' \in Nat
  BY <1>6 DEF Elapse, RunNow, Pause, Resume, Reschedule, bounds
<1>a. ASSUME NEW p \in Pipes, Elapse(p) \/ RunNow(p) \/ Pause(p) \/ Resume(p)
      PROVE  faults' \in Nat
  BY <1>a DEF Elapse, RunNow, Pause, Resume, bounds
<1>7. CASE ClaimDue \/ ReloadStore \/ Sync \/ BeginDrain \/ Exit \/ Crash
  BY <1>7 DEF ClaimDue, ReloadStore, Sync, BeginDrain, Exit, Crash, Dies, bounds
<1> QED BY <1>1, <1>2, <1>3, <1>4, <1>5, <1>6, <1>a, <1>7 DEF Next, Operator, Webhook, Ending

\* It holds after every step.
LEMMA PipelinesNext ==
    ASSUME PipelinesInv, faults \in Nat, [Next]_vars
    PROVE  PipelinesInv'
<1>1. CASE UNCHANGED vars
  <2>1. /\ phase' = phase /\ live' = live /\ entry' = entry /\ req' = req /\ answer' = answer
        /\ admitting' = admitting /\ runs' = runs /\ rows' = rows /\ runHistory' = runHistory
        /\ streak' = streak
    BY <1>1 DEF vars, webVars, storeVars
  <2>2. Typed'
    BY <2>1 DEF PipelinesInv, Typed
  <2>3. ASSUME NEW p \in Pipes PROVE entry[p].running => entry[p].known /\ phase # "down"
    BY DEF PipelinesInv, HoldOK, HoldAt
  <2>4. ASSUME NEW p \in Pipes PROVE StreakAt(p)'
    BY <2>1, StreakFrame DEF PipelinesInv, StreakOK
  <2>5. \A p \in Pipes : /\ entry'[p].running = entry[p].running
                         /\ entry[p].running => entry'[p].known /\ phase' # "down"
    BY <2>1, <2>3
  <2> QED BY <2>1, <2>2, <2>4, <2>5, EntriesStep
<1>2. ASSUME NEW p \in Pipes, Elapse(p) PROVE PipelinesInv'
  BY <1>2, ElapseKeeps
<1>3. ASSUME Operator PROVE PipelinesInv'
  BY <1>3, RunNowKeeps, PauseKeeps, ResumeKeeps, RescheduleKeeps DEF Operator
<1>4. ASSUME Webhook PROVE PipelinesInv'
  BY <1>4, RefuseKeeps, ReadSnapshotKeeps, LookupKeeps, TryStartKeeps, ClaimSignatureKeeps,
     AdmitWebhookKeeps, LaunchKeeps DEF Webhook
<1>5. ASSUME Ending PROVE PipelinesInv'
  BY <1>5, RecordRunKeeps, FinishAdmissionKeeps, FinishRunKeeps DEF Ending
<1>6. CASE ClaimDue
  BY <1>6, ClaimDueKeeps
<1>7. CASE ReloadStore \/ BeginDrain
  BY <1>7, StoreKeeps
<1>8. CASE Sync
  BY <1>8, SyncKeeps
<1>9. CASE Exit \/ Crash
  BY <1>9, DiesKeeps DEF Exit, Crash
<1>10. CASE Boot
  BY <1>10, BootKeeps
<1> QED BY <1>1, <1>2, <1>3, <1>4, <1>5, <1>6, <1>7, <1>8, <1>9, <1>10 DEF Next

\* So it always holds.
LEMMA PipelinesInvHolds ==
    Spec => []PipelinesInv
<1> DEFINE Inv == PipelinesInv /\ faults \in Nat
<1>1. Init => Inv
  BY PipelinesInit
<1>2. Inv /\ [Next]_vars => Inv'
  BY PipelinesNext, FaultsCounted
<1>3. Inv => PipelinesInv
  OBVIOUS
<1> QED BY <1>1, <1>2, <1>3, PTL DEF Spec

-----------------------------------------------------------------------------
\* What it says of the properties.

\* The holders of a claim are one, or none.
LEMMA HoldersCount ==
    ASSUME PipelinesInv, NEW p \in Pipes
    PROVE  Cardinality(Holders(p)) = IF entry[p].running THEN 1 ELSE 0
<1>0. LockOK /\ HoldAt(p)
  BY DEF PipelinesInv, HoldOK
<1>1. \A x \in Holders(p) : (x \in Reqs /\ HeldBy(x, p)) \/ (x \in DOMAIN runs /\ RunsOn(x, p))
  BY DEF Holders, HeldBy, RunsOn, Holding
<1>2. /\ \A r \in Reqs : HeldBy(r, p) => r \in Holders(p)
      /\ \A i \in DOMAIN runs : RunsOn(i, p) => i \in Holders(p)
  BY DEF Holders, HeldBy, RunsOn, Holding
<1>3. \A r, q \in Reqs : HeldBy(r, p) /\ HeldBy(q, p) => r = q
  BY <1>0 DEF LockOK, HeldBy
<1>4. CASE ~entry[p].running
  <2>1. Holders(p) = {}
    BY <1>0, <1>1, <1>4 DEF HoldAt
  <2> QED BY <1>4, <2>1, FS_EmptySet
<1>5. CASE entry[p].running
  <2>1. PICK x : x \in Holders(p)
    BY <1>0, <1>2, <1>5 DEF HoldAt
  <2>2. ASSUME NEW y \in Holders(p) PROVE y = x
    BY <1>0, <1>1, <1>3, <2>1 DEF HoldAt
  <2>3. Holders(p) = {x}
    BY <2>1, <2>2
  <2> QED BY <1>5, <2>3, FS_Singleton
<1> QED BY <1>4, <1>5

\* A pipeline runs at most once at a time and its claim is neither lost nor
\* leaked (Scheduler.claimLocked, Finish, Release, Sync).
THEOREM ClaimsHaveOneHolder == Spec => []ClaimHasOneHolder
<1>1. PipelinesInv => ClaimHasOneHolder
  BY HoldersCount DEF ClaimHasOneHolder
<1> QED BY <1>1, PipelinesInvHolds, PTL

\* An Idempotency-Key starts at most one run of its pipeline
\* (newWebhookHandler, AdmitWebhook).
THEOREM KeysStartOneRun == Spec => []KeyStartsOneRun
<1>1. PipelinesInv => KeyStartsOneRun
  <2> SUFFICES ASSUME PipelinesInv, NEW i \in DOMAIN runs, NEW j \in DOMAIN runs, i # j,
                      runs[i].by # Nobody, runs[j].by # Nobody, KeyOf[runs[i].by] # NoKey,
                      PipeOf[runs[i].by] = PipeOf[runs[j].by], KeyOf[runs[i].by] = KeyOf[runs[j].by]
               PROVE  FALSE
    BY DEF KeyStartsOneRun
  <2>0. Typed /\ RowsOK /\ RunsOK
    BY DEF PipelinesInv
  <2>1. runs[i].by \in Reqs /\ runs[j].by \in Reqs
    BY <2>0, RunTyped DEF RunRecord
  <2>2. rows[runs[i].by] # "none" /\ rows[runs[j].by] # "none"
    BY <2>0 DEF RunsOK
  <2>3. SameKey(runs[i].by, runs[j].by)
    BY DEF SameKey
  <2>4. runs[i].by = runs[j].by
    BY <2>0, <2>1, <2>2, <2>3 DEF RowsOK
  <2> QED BY <2>0, <2>4 DEF RunsOK
<1> QED BY <1>1, PipelinesInvHolds, PTL

\* What a poll of an admission says is true of its run, and a 202 names an
\* admission of the caller's own (newWebhookHandler, FinishWebhookAdmission,
\* InterruptWebhookAdmissions).
THEOREM AdmissionsTellTheirRuns == Spec => []AdmissionTellsRun
<1>1. PipelinesInv => AdmissionTellsRun
  <2> SUFFICES ASSUME PipelinesInv PROVE AdmissionTellsRun
    OBVIOUS
  <2>0. Typed /\ RunsOK /\ AnswersOK
    BY DEF PipelinesInv
  <2>1. ASSUME NEW i \in DOMAIN runs, runs[i].by # Nobody
        PROVE  LET r == runs[i].by IN
               /\ runs[i].at \in {"working", "recorded"} => rows[r] = "running"
               /\ rows[r] \in {"completed", "error"} => (rows[r] = "completed") = runs[i].ok
               /\ rows[r] = "interrupted" => runs[i].at \in {"lost", "over"}
    <3>1. runs[i].at \in RunAt
      BY <2>0, RunTyped DEF RunRecord
    <3> QED BY <2>0, <2>1, <3>1 DEF RunsOK, RunAt
  <2>2. ASSUME NEW r \in Reqs, rows[r] \in {"running", "completed", "error"}
        PROVE  \E i \in DOMAIN runs : runs[i].by = r
    BY <2>0, <2>2 DEF RunsOK
  <2>3. ASSUME NEW r \in Reqs, answer[r].code = 202
        PROVE  LET q == answer[r].id IN
               /\ rows[q] # "none" /\ PipeOf[q] = PipeOf[r] /\ req[q].body = req[r].body
               /\ q = r \/ (KeyOf[q] = KeyOf[r] /\ KeyOf[r] # NoKey)
    BY <2>0, <2>3 DEF AnswersOK, SameKey
  <2> QED BY <2>1, <2>2, <2>3 DEF AdmissionTellsRun
<1> QED BY <1>1, PipelinesInvHolds, PTL

\* A timer pipeline whose last PauseAfter recorded runs failed is paused
\* whenever it is not running (Scheduler.Finish, Restore, Sync).
THEOREM FailingStreaksPause == Spec => []FailingStreakPauses
<1>1. PipelinesInv => FailingStreakPauses
  <2> SUFFICES ASSUME PipelinesInv, NEW p \in Pipes, entry[p].timer, ~entry[p].running,
                      PauseAfter > 0, streak[p] >= PauseAfter
               PROVE  entry[p].paused
    BY DEF FailingStreakPauses
  <2>0. HoldAt(p) /\ StreakAt(p)
    BY DEF PipelinesInv, HoldOK, StreakOK
  <2>1. \A i \in DOMAIN runs : ~RunsOn(i, p)
    BY <2>0 DEF HoldAt
  <2>2. Owed(p) = 0
    BY <2>1 DEF Owed, Recorded, RunsOn, Active
  <2>3. PauseAfter \in Nat
    BY PipelinesAssumption
  <2> QED BY <2>0, <2>2, <2>3 DEF StreakAt, Follows
<1> QED BY <1>1, PipelinesInvHolds, PTL
=============================================================================
