------------------------------ MODULE MainLoop ------------------------------
(***************************************************************************)
(* The engine's one main goroutine (main.go): the operator's commands and   *)
(* texts in the order the Telegram pump queued them, the /reply command,    *)
(* which asks its own question on the way, the daily digest (digest.go) and *)
(* the signal that stops the process.                                       *)
(*                                                                          *)
(* Whatever the loop does, it does nothing else meanwhile: a /reply that    *)
(* waits for its answer holds up commands, digest and signal.  A tick of    *)
(* the clock is longer than a round of the loop and the digest's retry      *)
(* pause, so it passes only when the loop has nothing to do or waits for a  *)
(* person.  Pipelines models what the loop starts.                          *)
(***************************************************************************)
EXTENDS Integers, Sequences, FiniteSets

CONSTANTS
    DayLength,      \* ticks of a day
    Slot,           \* telegram.digest.at, in ticks of the day
    Window,         \* how long /reply waits for the operator
    MaySend,        \* gmail.permission is "send"
    CommandBuffer,  \* tgCommandBuffer
    Horizon,        \* bound: the last tick
    MaxUpdates,     \* bound: what the operator types
    MaxFaults,      \* bound: store or channel calls of the digest that fail
    MaxBoots        \* bound: starts of the process

ASSUME MainLoopAssumption ==
    /\ {DayLength, Window, CommandBuffer} \subseteq Nat \ {0}
    /\ {Slot, Horizon, MaxUpdates, MaxFaults, MaxBoots} \subseteq Nat
    /\ Slot < DayLength /\ MaySend \in BOOLEAN

VARIABLES
    clock,
    phase,      \* of the process: "up" or "down"
    signal,     \* SIGTERM waits to be read
    loop,       \* where the main goroutine is
    ticked,     \* a round of the loop has ended since the clock moved
    queue,      \* tgPump.commands
    batch,      \* what drainUpdates took and the round has not handled
    prompts,    \* the drafts /reply posted, and what became of each
    deadline,   \* of the one it waits for
    needs,      \* something needs a person
    digest,     \* digestJob: loaded, lastDay and retryAt
    lastDay,    \* operator_digest
    saidOn,     \* history: per day, the digests the operator received
    quietOn,    \* history: the days on which nothing needed a person
    slips,      \* history: the days whose digest was sent and not recorded
    updates, faults, boots

loopVars == <<loop, ticked, queue, batch>>
replyVars == <<prompts, deadline>>
digestVars == <<digest, lastDay, saidOn, quietOn, slips>>
bounds == <<updates, faults, boots>>
vars == <<clock, phase, signal, loopVars, replyVars, needs, digestVars, bounds>>

-----------------------------------------------------------------------------
Day(t) == t \div DayLength
Days == 0 .. Day(Horizon)
NoDay == -1

\* What the operator says, a text by what the model takes it for.
Updates == {"command", "reply"}
Unread == [loaded |-> FALSE, lastDay |-> NoDay, retryAt |-> 0]
Draft == [state |-> "open", sent |-> 0, drafted |-> FALSE, told |-> ""]

At(l) == phase = "up" /\ loop = l
Fault == faults < MaxFaults /\ faults' = faults + 1
Last == Len(prompts)

-----------------------------------------------------------------------------
\* The pump hands the loop what no prompt asked for, while there is room.
Say(u) ==
    /\ phase = "up" /\ updates < MaxUpdates /\ updates' = updates + 1
    /\ queue' = IF Len(queue) < CommandBuffer THEN Append(queue, u) ELSE queue
    /\ UNCHANGED <<clock, phase, signal, loop, ticked, batch, replyVars, needs, digestVars,
                   faults, boots>>

\* A round of the loop takes everything that is queued.
Drain ==
    /\ At("idle") /\ (queue # <<>> \/ ~ticked)
    /\ batch' = queue /\ queue' = <<>> /\ loop' = "updates"
    /\ UNCHANGED <<clock, phase, signal, ticked, replyVars, needs, digestVars, bounds>>

Take(u) == At("updates") /\ batch # <<>> /\ Head(batch) = u /\ batch' = Tail(batch)

\* A command or a text is answered on the spot.
Answer ==
    /\ Take("command")
    /\ UNCHANGED <<clock, phase, signal, loop, ticked, queue, replyVars, needs, digestVars, bounds>>

\* handleReply up to its question: mail or the model may be out of reach, the
\* number beyond the list, and the draft may not be posted.
Reply ==
    /\ Take("reply")
    /\ \/ UNCHANGED <<loop, prompts, deadline>>
       \/ /\ clock + Window <= Horizon
          /\ loop' = "reply" /\ prompts' = Append(prompts, Draft) /\ deadline' = clock + Window
    /\ UNCHANGED <<clock, phase, signal, ticked, queue, needs, digestVars, bounds>>

Closed(p) == prompts' = [prompts EXCEPT ![Last] = p] /\ loop' = "updates"

\* An approved reply is sent, or saved as a draft where it may not be sent or
\* the send failed, whether or not it went out; then the operator is told.
Mailed(p) ==
    \/ MaySend /\ Closed([p EXCEPT !.sent = 1, !.told = "sent"])
    \/ /\ MaySend
       /\ \E went \in 0 .. 1 :
             \/ Closed([p EXCEPT !.sent = went, !.drafted = TRUE, !.told = "sent"])
             \/ Closed([p EXCEPT !.sent = went, !.told = "failed"])
    \/ ~MaySend /\ Closed([p EXCEPT !.drafted = TRUE, !.told = "drafted"])
    \/ ~MaySend /\ Closed([p EXCEPT !.told = "failed"])

\* The operator decides the draft ...
Decide ==
    /\ At("reply")
    /\ \/ Mailed([prompts[Last] EXCEPT !.state = "approved"])
       \/ \E s \in {"skipped", "adjusted"} : Closed([prompts[Last] EXCEPT !.state = s])
    /\ UNCHANGED <<clock, phase, signal, ticked, queue, batch, deadline, needs, digestVars,
                   bounds>>

\* Mutant of TimedOut: the command waits for its answer.
NeverTimedOut ==
    /\ At("reply") /\ clock > Horizon
    /\ Closed([prompts[Last] EXCEPT !.state = "timed out"])
    /\ UNCHANGED <<clock, phase, signal, ticked, queue, batch, deadline, needs, digestVars,
                   bounds>>

\* ... or lets its deadline pass.
TimedOut ==
    /\ At("reply") /\ clock >= deadline
    /\ Closed([prompts[Last] EXCEPT !.state = "timed out"])
    /\ UNCHANGED <<clock, phase, signal, ticked, queue, batch, deadline, needs, digestVars,
                   bounds>>

-----------------------------------------------------------------------------
\* digestJob.tick, when the round's updates are handled.

Today == Day(clock)
Due == clock % DayLength >= Slot /\ clock >= digest.retryAt

\* The day the job takes for the last one handled, once it has read it.
LastDay == IF digest.loaded THEN digest.lastDay ELSE lastDay

Retry(l) ==
    /\ digest' = [digest EXCEPT !.loaded = l, !.lastDay = IF l THEN LastDay ELSE @,
                                !.retryAt = clock + 1]
    /\ loop' = "idle" /\ ticked' = TRUE

RoundEnds == At("updates") /\ batch = <<>>

\* Nothing is due, or the day is handled.
Pass ==
    /\ RoundEnds /\ (~Due \/ LastDay = Today)
    /\ loop' = "idle" /\ ticked' = TRUE
    /\ digest' = IF Due THEN [digest EXCEPT !.loaded = TRUE, !.lastDay = LastDay] ELSE digest
    /\ UNCHANGED <<clock, phase, signal, queue, batch, replyVars, needs, lastDay, saidOn, quietOn,
                   slips, bounds>>

\* The store cannot be read, before or after the job knows its last day.
Unreadable ==
    /\ RoundEnds /\ Due
    /\ Fault
    /\ \/ ~digest.loaded /\ Retry(FALSE)
       \/ LastDay # Today /\ Retry(TRUE)
    /\ UNCHANGED <<clock, phase, signal, queue, batch, replyVars, needs, lastDay, saidOn, quietOn,
                   slips, updates, boots>>

\* Mutant of Report: the day is not compared with the one the store names.
ReportAgain ==
    /\ RoundEnds /\ Due /\ ~(digest.loaded /\ digest.lastDay = Today)
    /\ digest' = [digest EXCEPT !.loaded = TRUE, !.lastDay = LastDay]
    /\ loop' = "record"
    /\ IF needs THEN saidOn' = [saidOn EXCEPT ![Today] = @ + 1] /\ UNCHANGED quietOn
                ELSE quietOn' = quietOn \cup {Today} /\ UNCHANGED saidOn
    /\ UNCHANGED <<clock, phase, signal, ticked, queue, batch, replyVars, needs, lastDay, slips,
                   bounds>>

\* The digest is sent, or there is nothing to say.
Report ==
    /\ RoundEnds /\ Due /\ LastDay # Today
    /\ digest' = [digest EXCEPT !.loaded = TRUE, !.lastDay = LastDay]
    /\ loop' = "record"
    /\ IF needs THEN saidOn' = [saidOn EXCEPT ![Today] = @ + 1] /\ UNCHANGED quietOn
                ELSE quietOn' = quietOn \cup {Today} /\ UNCHANGED saidOn
    /\ UNCHANGED <<clock, phase, signal, ticked, queue, batch, replyVars, needs, lastDay, slips,
                   bounds>>

\* Mutant of SendFails: the day counts as handled.
SendFailsForGood ==
    /\ RoundEnds /\ Due /\ LastDay # Today /\ needs
    /\ Fault /\ loop' = "record"
    /\ digest' = [digest EXCEPT !.loaded = TRUE, !.lastDay = LastDay]
    /\ UNCHANGED <<clock, phase, signal, ticked, queue, batch, replyVars, needs, lastDay, saidOn,
                   quietOn, slips, updates, boots>>

\* The send fails, or its answer is lost: it is tried again later.
SendFails ==
    /\ RoundEnds /\ Due /\ LastDay # Today /\ needs
    /\ Fault /\ Retry(TRUE)
    /\ \/ UNCHANGED <<saidOn, slips>>
       \/ saidOn' = [saidOn EXCEPT ![Today] = @ + 1] /\ slips' = slips \cup {Today}
    /\ UNCHANGED <<clock, phase, signal, queue, batch, replyVars, needs, lastDay, quietOn, updates,
                   boots>>

\* SetDigestLastDay; a failure is logged.
Record ==
    /\ At("record")
    /\ digest' = [digest EXCEPT !.lastDay = Today]
    /\ \/ lastDay' = Today /\ UNCHANGED <<slips, faults>>
       \/ Fault /\ slips' = slips \cup {Today} /\ UNCHANGED lastDay
    /\ loop' = "idle" /\ ticked' = TRUE
    /\ UNCHANGED <<clock, phase, signal, queue, batch, replyVars, needs, saidOn, quietOn, updates,
                   boots>>

-----------------------------------------------------------------------------
\* The process ends: what is queued and what is asked is gone with it.
Ends ==
    /\ phase' = "down" /\ signal' = FALSE /\ loop' = "idle" /\ ticked' = FALSE
    /\ queue' = <<>> /\ batch' = <<>>
    /\ prompts' = IF loop = "reply" THEN [prompts EXCEPT ![Last].state = "lost"] ELSE prompts
    /\ digest' = Unread
    /\ UNCHANGED <<clock, deadline, needs, lastDay, saidOn, quietOn, updates, faults>>

Signal ==
    /\ phase = "up" /\ ~signal /\ signal' = TRUE
    /\ UNCHANGED <<clock, phase, loopVars, replyVars, needs, digestVars, bounds>>

\* The signal is read between two rounds.
Stop == signal /\ At("idle") /\ Ends /\ UNCHANGED <<slips, boots>>

Crash ==
    /\ phase = "up" /\ boots < MaxBoots /\ Ends /\ UNCHANGED boots
    /\ slips' = IF loop = "record" THEN slips \cup {Today} ELSE slips

\* A configuration that is refused ends the process before it opened the store;
\* otherwise what operators sent meanwhile is fetched and thrown away.
Boot ==
    /\ phase = "down" /\ boots < MaxBoots /\ boots' = boots + 1
    /\ phase' \in {"up", "down"}
    /\ UNCHANGED <<clock, signal, loopVars, replyVars, needs, digestVars, updates, faults>>

Waiting == \/ phase = "down"
           \/ loop = "idle" /\ ticked /\ queue = <<>> /\ ~signal
           \/ loop = "reply" /\ clock < deadline

\* Gates, freezes and failed outcomes come up and are dealt with.
TimePasses ==
    /\ Waiting /\ clock < Horizon
    /\ clock' = clock + 1 /\ ticked' = FALSE /\ needs' \in BOOLEAN
    /\ UNCHANGED <<phase, signal, loop, queue, batch, replyVars, digestVars, bounds>>

-----------------------------------------------------------------------------
Init ==
    /\ clock = 0 /\ phase = "up" /\ signal = FALSE
    /\ loop = "idle" /\ ticked = FALSE /\ queue = <<>> /\ batch = <<>>
    /\ prompts = <<>> /\ deadline = 0
    /\ needs \in BOOLEAN
    /\ digest = Unread /\ lastDay = NoDay
    /\ saidOn = [d \in Days |-> 0] /\ quietOn = {} /\ slips = {}
    /\ updates = 0 /\ faults = 0 /\ boots = 1

Loop ==
    \/ Drain \/ Answer \/ Reply \/ TimedOut
    \/ Pass \/ Unreadable \/ Report \/ SendFails \/ Record \/ Stop

Next ==
    \/ Loop \/ Decide
    \/ \E u \in Updates : Say(u)
    \/ Signal \/ Crash \/ Boot \/ TimePasses

\* The goroutine keeps running and time passes; nobody has to answer a draft.
Spec == Init /\ [][Next]_vars /\ WF_vars(Loop) /\ WF_vars(TimePasses)

-----------------------------------------------------------------------------
\* A day's digest arrives a second time only if the first was not recorded: the
\* process died after the send, the store refused the day, or the send's answer
\* was lost.  No restart, retry or /reply in between repeats it.  And a day counts
\* as handled only when its digest arrived or a check found nothing that needs a
\* person (digestJob.tick).
DigestComesOnce ==
    /\ \A d \in Days : saidOn[d] > 1 => d \in slips
    /\ lastDay # NoDay => saidOn[lastDay] > 0 \/ lastDay \in quietOn

\* An approval of a drafted reply sends it once at most, and no other answer, no
\* deadline and no restart sends it (handleReply).
RepliedOnce ==
    \A i \in DOMAIN prompts :
        /\ prompts[i].sent <= 1
        /\ prompts[i].sent = 1 \/ prompts[i].drafted => prompts[i].state = "approved"

\* Both: what the loop sends goes out once (digest.go, handleReply).
SentOnce == DigestComesOnce /\ RepliedOnce

\* A process that is told to stop ends, although the loop reads the signal only
\* between two rounds and the operator may never answer a /reply.
StopEnds == signal ~> phase = "down"

-----------------------------------------------------------------------------
\* What the code or its comments say, and the code does not do.

\* Commands "always reach the command loop, so /status keeps working while a
\* gate waits" (telegram_pump.go): no command waits while time passes.
CommandsKeepWorking ==
    [][clock' # clock => queue = <<>> /\ batch = <<>>]_vars

\* The operator is told "Sent" for a reply that was sent (handleReply).
SentIsSent == \A i \in DOMAIN prompts : prompts[i].told = "sent" => prompts[i].sent = 1

=============================================================================
