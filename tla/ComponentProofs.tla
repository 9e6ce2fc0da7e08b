--------------------------- MODULE ComponentProofs ---------------------------
(***************************************************************************)
(* Proofs about the engine's loop and about RunParts: the harness's hook,  *)
(* the freezes and the denial trip, a run's model calls, and its steps.    *)
(* Each is an instance whose variables have names of their own.            *)
(*                                                                         *)
(* The loop sends a digest once because one that was sent is on record,    *)
(* about to be recorded, or a slip, and the job never knows an older day   *)
(* than the store; it posts a reply once because a draft that waits for    *)
(* its answer is as it was posted. The hook keeps its deadline because     *)
(* each of its places leaves the time the steps after it may take. A stop  *)
(* holds because a request it bars has not read that freeze yet, and a     *)
(* trip is earned because the denials counted are those of its agent, the  *)
(* last of them no later than the store's clock allows. A text is cleared  *)
(* because a place from which it can go on is only reached through its     *)
(* verdict. What is sent was released because an approval lies between any *)
(* two requests, so what is approved for the next one was released once    *)
(* more than it was sent; and an item that was taken up is marked as seen. *)
(***************************************************************************)
EXTENDS MainLoop, RunParts, FiniteSets, FiniteSetsExt, FiniteSetTheorems, SequenceTheorems, TLAPS

Prompt == [state : {"open", "approved", "skipped", "adjusted", "timed out", "lost"},
           sent : 0 .. 1, drafted : BOOLEAN, told : {"", "sent", "drafted", "failed"}]

\* A day that needs no digest any more.
Handled(d) == saidOn[d] > 0 \/ d \in quietOn

LoopTyped ==
    /\ clock \in 0 .. Horizon /\ phase \in {"up", "down"}
    /\ loop \in {"idle", "updates", "reply", "record"}
    /\ phase = "down" => loop = "idle"
    /\ saidOn \in [Days -> Nat]
    /\ lastDay \in Days \cup {NoDay} /\ lastDay <= Today
    /\ digest \in [loaded : BOOLEAN, lastDay : Days \cup {NoDay}, retryAt : Nat]

\* What the job takes for the last day handled is today, or what the store says,
\* or a later day that the store refused.
JobKnows ==
    digest.loaded => lastDay <= digest.lastDay /\ digest.lastDay <= Today

\* A digest that was sent is recorded, about to be, or a slip.
SaidIsKept ==
    \A d \in Days : saidOn[d] > 0 /\ d \notin slips =>
        d <= lastDay \/ (loop = "record" /\ d = Today)

DigestInv ==
    /\ LoopTyped /\ JobKnows /\ SaidIsKept
    /\ loop = "record" => Handled(Today)
    /\ DigestComesOnce

\* A draft that waits for its answer is as it was posted.
ReplyInv ==
    /\ prompts \in Seq(Prompt)
    /\ loop = "reply" => prompts # <<>> /\ prompts[Last] = Draft
    /\ RepliedOnce
-----------------------------------------------------------------------------
\* The clock's day is a day of the model, and days follow one another.
LEMMA DaysFollow ==
    ASSUME clock \in 0 .. Horizon, clock' = clock \/ clock' = clock + 1
    PROVE  Today \in Days /\ Today \in Nat /\ Today <= Today' /\ NoDay = -1
  <1>1. clock \in Nat /\ Horizon \in Nat /\ clock <= Horizon /\ DayLength \in Nat \ {0}
    BY MainLoopAssumption
  <1>2. \A t \in Nat : t \div DayLength \in Nat
    BY <1>1
  <1>3. clock \div DayLength \in 0 .. Horizon \div DayLength
    BY <1>1
  <1>4. clock \div DayLength <= (clock + 1) \div DayLength
    BY <1>1
  <1>5. clock \div DayLength <= clock' \div DayLength
    BY <1>1, <1>2, <1>4
  <1> QED
    BY <1>1, <1>2, <1>3, <1>5 DEF Today, Days, Day, NoDay

\* A step that leaves the digest and the clock alone, and records nothing.
LEMMA DigestKept ==
    ASSUME DigestInv, UNCHANGED <<clock, digestVars>>, phase' \in {"up", "down"},
           \/ loop' = loop
           \/ loop # "record" /\ loop' \in {"idle", "updates", "reply"},
           phase' = "down" => loop' = "idle"
    PROVE  DigestInv'
  <1>1. LoopTyped' /\ JobKnows' /\ SaidIsKept'
    BY DEF DigestInv, LoopTyped, JobKnows, SaidIsKept, Today, Day, digestVars
  <1>2. (loop = "record" => Handled(Today))' /\ DigestComesOnce'
    BY DEF DigestInv, Handled, DigestComesOnce, Today, Day, digestVars
  <1> QED
    BY <1>1, <1>2 DEF DigestInv

\* The job knows the day of a digest that was sent and is no slip.
LEMMA SaidIsKnown ==
    ASSUME DigestInv, loop # "record", LastDay # Today, Today \in Days, Today \in Nat,
           saidOn[Today] > 0
    PROVE  Today \in slips
  <1>1. SUFFICES ASSUME Today \notin slips
                 PROVE  FALSE
    OBVIOUS
  <1> DEFINE t == Today
  <1>2. t <= lastDay /\ lastDay <= t
    BY <1>1 DEF DigestInv, SaidIsKept, LoopTyped
  <1>3. lastDay \in Int /\ digest.lastDay \in Int /\ t \in Int
    BY MainLoopAssumption DEF DigestInv, LoopTyped, Days, NoDay
  <1>4. digest.loaded => lastDay <= digest.lastDay /\ digest.lastDay <= t
    BY DEF DigestInv, JobKnows
  <1> HIDE DEF t
  <1>5. lastDay = t /\ (digest.loaded => digest.lastDay = t)
    BY <1>2, <1>3, <1>4
  <1> QED
    BY <1>5 DEF LastDay, t
\* The digest's part of a step that keeps the day.
LEMMA DigestStep ==
    ASSUME DigestInv, [Next]_vars
    PROVE  DigestInv'
  <1>0. clock \in 0 .. Horizon /\ phase \in {"up", "down"} /\ loop \in {"idle", "updates", "reply", "record"}
        /\ (phase = "down" => loop = "idle")
    BY DEF DigestInv, LoopTyped
  <1>d. Today \in Days /\ Today \in Nat /\ NoDay = -1
    <2>1. ASSUME NEW x, x = clock
          PROVE  Today \in Days /\ Today \in Nat /\ NoDay = -1
      <3>1. clock \in Nat /\ Horizon \in Nat /\ clock <= Horizon /\ DayLength \in Nat \ {0}
        BY <1>0, MainLoopAssumption
      <3>2. clock \div DayLength \in Nat /\ clock \div DayLength \in 0 .. Horizon \div DayLength
        BY <3>1
      <3> QED
        BY <3>2 DEF Today, Days, Day, NoDay
    <2> QED
      BY <2>1
  <1>l. /\ lastDay \in Int /\ digest.lastDay \in Int /\ LastDay \in Days \cup {NoDay}
        /\ LastDay \in Int /\ lastDay <= LastDay /\ LastDay <= Today
    <2>1. lastDay \in Days \cup {NoDay} /\ digest.lastDay \in Days \cup {NoDay} /\ lastDay <= Today
      BY DEF DigestInv, LoopTyped
    <2>2. digest.loaded => lastDay <= digest.lastDay /\ digest.lastDay <= Today
      BY DEF DigestInv, JobKnows
    <2>3. Days \cup {NoDay} \subseteq Int
      BY <1>d DEF Days
    <2> QED
      BY <2>1, <2>2, <2>3 DEF LastDay
  <1>s. saidOn \in [Days -> Nat] /\ \A d \in Days : saidOn[d] \in Nat
    BY DEF DigestInv, LoopTyped
  <1>1. CASE \/ UNCHANGED vars \/ Drain \/ Answer \/ Reply \/ TimedOut \/ Decide \/ Signal \/ Boot
             \/ \E u \in Updates : Say(u)
    BY <1>0, <1>1, DigestKept
       DEF vars, Drain, Answer, Reply, TimedOut, Decide, Mailed, Closed, Signal, Boot, Say, At, Take, loopVars, bounds
  <1>g. digest \in [loaded : BOOLEAN, lastDay : Days \cup {NoDay}, retryAt : Nat]
    BY DEF DigestInv, LoopTyped
  <1> DEFINE Read == [digest EXCEPT !.loaded = TRUE, !.lastDay = LastDay]
  <1>r. /\ Read \in [loaded : BOOLEAN, lastDay : Days \cup {NoDay}, retryAt : Nat]
        /\ Read.loaded /\ Read.lastDay = LastDay
    BY <1>g, <1>l
  <1> HIDE DEF Read
  <1>t. clock \in Nat
    BY <1>0, MainLoopAssumption
  <1>2. CASE Pass
    <2>1. UNCHANGED <<clock, phase, lastDay, saidOn, quietOn, slips>> /\ loop' = "idle" /\ loop # "record"
      BY <1>2 DEF Pass, RoundEnds, At
    <2>2. digest' = digest \/ digest' = Read
      BY <1>2 DEF Pass, Read
    <2>3. Today' = Today
      BY <2>1 DEF Today
    <2>4. LoopTyped' /\ JobKnows'
      BY <1>l, <1>r, <2>1, <2>2, <2>3 DEF DigestInv, LoopTyped, JobKnows
    <2>5. SaidIsKept' /\ DigestComesOnce'
      BY <2>1, <2>3 DEF DigestInv, SaidIsKept, DigestComesOnce
    <2> QED
      BY <2>1, <2>4, <2>5 DEF DigestInv
  <1>3. ASSUME NEW l \in BOOLEAN, Retry(l), UNCHANGED <<clock, phase, lastDay, quietOn>>,
               loop # "record", l \/ ~digest.loaded,
               \/ UNCHANGED <<saidOn, slips>>
               \/ saidOn' = [saidOn EXCEPT ![Today] = @ + 1] /\ slips' = slips \cup {Today}
        PROVE  DigestInv'
    <2>1. loop' = "idle" /\ digest' \in [loaded : BOOLEAN, lastDay : Days \cup {NoDay}, retryAt : Nat]
      <3> DEFINE v == IF l THEN LastDay ELSE digest.lastDay
      <3>1. v \in Days \cup {NoDay}
        BY <1>g, <1>l
      <3>2. digest' = [digest EXCEPT !.loaded = l, !.lastDay = v, !.retryAt = clock + 1]
        BY <1>3 DEF Retry
      <3>3. loop' = "idle" /\ clock + 1 \in Nat /\ l \in BOOLEAN
        BY <1>3, <1>t DEF Retry
      <3> HIDE DEF v
      <3> QED
        BY <1>g, <3>1, <3>2, <3>3
    <2>2. digest'.loaded = l /\ digest'.lastDay = (IF l THEN LastDay ELSE digest.lastDay)
      BY <1>3, <1>g DEF Retry
    <2>3. Today' = Today
      BY <1>3 DEF Today
    <2>4. /\ saidOn' \in [Days -> Nat] /\ \A d \in Days : saidOn'[d] >= saidOn[d]
          /\ \A d \in Days : d \notin slips' => saidOn'[d] = saidOn[d] /\ d \notin slips
      <3>1. CASE UNCHANGED <<saidOn, slips>>
        BY <1>s, <3>1
      <3>2. CASE saidOn' = [saidOn EXCEPT ![Today] = @ + 1] /\ slips' = slips \cup {Today}
        <4>1. \A d \in Days : saidOn'[d] = IF d = Today THEN saidOn[d] + 1 ELSE saidOn[d]
          BY <1>s, <3>2
        <4> QED
          BY <1>d, <1>s, <3>2, <4>1
      <3> QED
        BY <1>3, <3>1, <3>2
    <2>5. LoopTyped' /\ JobKnows'
      BY <1>3, <1>l, <2>1, <2>2, <2>3, <2>4 DEF DigestInv, LoopTyped, JobKnows
    <2>6. SaidIsKept'
      BY <1>3, <2>3, <2>4 DEF DigestInv, SaidIsKept
    <2>7. DigestComesOnce'
      <3>1. lastDay # NoDay => lastDay \in Days
        BY DEF DigestInv, LoopTyped
      <3> QED
        BY <1>3, <1>s, <2>4, <3>1 DEF DigestInv, DigestComesOnce
    <2> QED
      BY <2>1, <2>5, <2>6, <2>7 DEF DigestInv
  <1>4. CASE Unreadable
    BY <1>3, <1>4 DEF Unreadable, RoundEnds, At
  <1>5. CASE SendFails
    BY <1>3, <1>5 DEF SendFails, RoundEnds, At
  <1>6. CASE Report
    <2>1. /\ UNCHANGED <<clock, phase, lastDay, slips>> /\ digest' = Read /\ LastDay # Today
          /\ loop = "updates" /\ loop' = "record" /\ phase = "up"
      BY <1>6 DEF Report, RoundEnds, At, Read
    <2>2. Today' = Today
      BY <2>1 DEF Today
    <2>3. \/ saidOn' = [saidOn EXCEPT ![Today] = @ + 1] /\ quietOn' = quietOn
          \/ quietOn' = quietOn \cup {Today} /\ saidOn' = saidOn
      BY <1>6 DEF Report
    <2>4. /\ saidOn' \in [Days -> Nat] /\ quietOn \subseteq quietOn'
          /\ \A d \in Days : saidOn'[d] >= saidOn[d] /\ (d # Today => saidOn'[d] = saidOn[d])
          /\ saidOn'[Today] <= saidOn[Today] + 1
          /\ saidOn'[Today] > 0 \/ Today \in quietOn'
      <3>1. CASE saidOn' = [saidOn EXCEPT ![Today] = @ + 1] /\ quietOn' = quietOn
        <4>1. saidOn' \in [Days -> Nat] /\ \A d \in Days : saidOn'[d] = IF d = Today THEN saidOn[d] + 1 ELSE saidOn[d]
          BY <1>d, <1>s, <3>1
        <4> QED
          BY <1>d, <1>s, <3>1, <4>1
      <3>2. CASE quietOn' = quietOn \cup {Today} /\ saidOn' = saidOn
        BY <1>d, <1>s, <3>2
      <3> QED
        BY <2>3, <3>1, <3>2
    <2>5. LoopTyped' /\ JobKnows'
      BY <1>l, <1>r, <2>1, <2>2, <2>4 DEF DigestInv, LoopTyped, JobKnows
    <2>6. SaidIsKept' /\ (loop = "record" => Handled(Today))'
      BY <1>d, <2>1, <2>2, <2>4 DEF DigestInv, SaidIsKept, Handled
    <2>7. DigestComesOnce'
      <3>1. lastDay # NoDay => lastDay \in Days
        BY DEF DigestInv, LoopTyped
      <3>2. saidOn[Today] > 0 => Today \in slips
        BY <1>d, <2>1, SaidIsKnown
      <3>3. \A d \in Days : saidOn'[d] > 1 => d \in slips
        BY <1>d, <1>s, <2>4, <3>2 DEF DigestInv, DigestComesOnce
      <3>4. lastDay # NoDay => saidOn'[lastDay] > 0 \/ lastDay \in quietOn'
        BY <1>s, <2>4, <3>1 DEF DigestInv, DigestComesOnce
      <3> QED
        BY <2>1, <3>3, <3>4 DEF DigestComesOnce
    <2> QED
      BY <2>5, <2>6, <2>7 DEF DigestInv
  <1>7. CASE Record
    <2>1. /\ UNCHANGED <<clock, phase, saidOn, quietOn>> /\ loop = "record" /\ loop' = "idle"
          /\ digest' = [digest EXCEPT !.lastDay = Today]
          /\ (lastDay' = Today /\ slips' = slips) \/ (lastDay' = lastDay /\ slips' = slips \cup {Today})
      BY <1>7 DEF Record, At
    <2>2. Today' = Today
      BY <2>1 DEF Today
    <2>3. /\ digest' \in [loaded : BOOLEAN, lastDay : Days \cup {NoDay}, retryAt : Nat]
          /\ digest'.lastDay = Today
      BY <1>d, <1>g, <2>1
    <2>4. LoopTyped' /\ JobKnows'
      BY <1>d, <1>l, <2>1, <2>2, <2>3 DEF DigestInv, LoopTyped, JobKnows
    <2>5. SaidIsKept'
      <3>1. \A d \in Days : d <= lastDay => d <= Today
        BY <1>d, <1>l DEF Days
      <3> QED
        BY <1>d, <2>1, <2>2, <3>1 DEF DigestInv, SaidIsKept
    <2>6. DigestComesOnce'
      BY <2>1 DEF DigestInv, DigestComesOnce, Handled
    <2> QED
      BY <2>1, <2>4, <2>5, <2>6 DEF DigestInv
  <1>8. CASE Stop \/ Crash
    <2>1. /\ UNCHANGED <<clock, lastDay, saidOn, quietOn>> /\ loop' = "idle" /\ phase' = "down"
          /\ digest' = Unread
          /\ slips' = IF loop = "record" THEN slips \cup {Today} ELSE slips
      BY <1>8 DEF Stop, Crash, Ends, At
    <2>2. Today' = Today
      BY <2>1 DEF Today
    <2>3. Unread \in [loaded : BOOLEAN, lastDay : Days \cup {NoDay}, retryAt : Nat] /\ ~Unread.loaded
      BY DEF Unread
    <2>4. LoopTyped' /\ JobKnows'
      BY <2>1, <2>2, <2>3 DEF DigestInv, LoopTyped, JobKnows
    <2>5. SaidIsKept' /\ DigestComesOnce'
      BY <2>1, <2>2 DEF DigestInv, SaidIsKept, DigestComesOnce
    <2> QED
      BY <2>1, <2>4, <2>5 DEF DigestInv
  <1>9. CASE TimePasses
    <2>1. /\ UNCHANGED <<phase, loop, digest, lastDay, saidOn, quietOn, slips>> /\ loop # "record"
          /\ clock' = clock + 1 /\ clock' \in 0 .. Horizon
      BY <1>0, <1>9, MainLoopAssumption DEF TimePasses, Waiting, digestVars, Days
    <2>2. Today <= Today' /\ Today' \in Int
      <3>1. clock + 1 \in Nat /\ DayLength \in Nat \ {0}
        BY <1>t, MainLoopAssumption
      <3>2. (clock + 1) \div DayLength \in Nat
        BY <3>1
      <3>3. Today' = (clock + 1) \div DayLength
        BY <2>1 DEF Today, Day
      <3> QED
        BY <1>0, <2>1, <3>2, <3>3, DaysFollow
    <2>3. LoopTyped' /\ JobKnows'
      <3>1. digest.loaded => digest.lastDay <= Today'
        BY <1>d, <1>l, <2>2 DEF DigestInv, JobKnows
      <3>2. lastDay <= Today'
        BY <1>d, <1>l, <2>2 DEF DigestInv, LoopTyped
      <3> QED
        BY <1>0, <2>1, <3>1, <3>2 DEF DigestInv, LoopTyped, JobKnows
    <2>4. SaidIsKept' /\ DigestComesOnce'
      BY <2>1 DEF DigestInv, SaidIsKept, DigestComesOnce
    <2> QED
      BY <2>1, <2>3, <2>4 DEF DigestInv
  <1> QED
    BY <1>1, <1>2, <1>4, <1>5, <1>6, <1>7, <1>8, <1>9 DEF Next, Loop

-----------------------------------------------------------------------------
\* A draft is closed by the first answer to it, or by the end of the process.
LEMMA ClosedKeeps ==
    ASSUME ReplyInv, loop = "reply", NEW p \in Prompt, prompts' = [prompts EXCEPT ![Last] = p],
           loop' # "reply", (p.sent = 0 /\ ~p.drafted) \/ p.state = "approved"
    PROVE  ReplyInv'
  <1>1. /\ prompts \in Seq(Prompt) /\ prompts # <<>> /\ Last \in DOMAIN prompts
        /\ DOMAIN prompts = 1 .. Len(prompts)
    BY DEF ReplyInv, Last
  <1>3. /\ prompts' \in Seq(Prompt) /\ DOMAIN prompts' = DOMAIN prompts
        /\ \A i \in DOMAIN prompts : prompts'[i] = IF i = Last THEN p ELSE prompts[i]
    BY <1>1
  <1>4. p.sent <= 1
    <2>1. p.sent \in 0 .. 1
      BY DEF Prompt
    <2> QED
      BY <2>1
  <1>5. RepliedOnce'
    <2>1. SUFFICES ASSUME NEW i \in DOMAIN prompts'
                   PROVE  /\ prompts'[i].sent <= 1
                          /\ prompts'[i].sent = 1 \/ prompts'[i].drafted => prompts'[i].state = "approved"
      BY DEF RepliedOnce
    <2>2. CASE i = Last
      <3>1. prompts'[i] = p
        BY <1>3, <2>2
      <3> QED
        BY <1>4, <3>1
    <2>3. CASE i # Last
      BY <1>3, <2>3 DEF ReplyInv, RepliedOnce
    <2> QED
      BY <2>2, <2>3
  <1> QED
    BY <1>3, <1>5 DEF ReplyInv

\* A step that leaves the drafts alone, and asks no question.
LEMMA RepliesKept ==
    ASSUME ReplyInv, UNCHANGED prompts, loop' = loop \/ loop' # "reply"
    PROVE  ReplyInv'
  BY DEF ReplyInv, RepliedOnce, Last

\* A draft as it was posted.
LEMMA PostedDraft == Draft \in Prompt /\ Draft.sent = 0 /\ ~Draft.drafted
  BY DEF Draft, Prompt

\* A draft is closed without a send.
LEMMA EndedDraft ==
    ASSUME NEW p \in Prompt,
           NEW s \in {"approved", "skipped", "adjusted", "timed out", "lost"}
    PROVE  /\ [p EXCEPT !.state = s] \in Prompt /\ [p EXCEPT !.state = s].state = s
           /\ [p EXCEPT !.state = s].sent = p.sent
           /\ [p EXCEPT !.state = s].drafted = p.drafted
  <1>1. [p EXCEPT !.state = s] \in Prompt
    BY DEF Prompt
  <1>2. [p EXCEPT !.state = s].state = s
    BY DEF Prompt
  <1>3. [p EXCEPT !.state = s].sent = p.sent
    BY DEF Prompt
  <1>4. [p EXCEPT !.state = s].drafted = p.drafted
    BY DEF Prompt
  <1> QED
    BY <1>1, <1>2, <1>3, <1>4

\* Whatever became of its mail, an approved draft stays an approved one.
LEMMA MailedDraft ==
    ASSUME NEW p \in Prompt, p.state = "approved", Mailed(p)
    PROVE  \E q \in Prompt : q.state = "approved" /\ Closed(q)
  <1>1. ASSUME NEW went \in 0 .. 1
        PROVE  /\ [p EXCEPT !.sent = went, !.told = "sent"] \in Prompt
               /\ [p EXCEPT !.sent = went, !.told = "sent"].state = "approved"
    BY DEF Prompt
  <1>2. ASSUME NEW went \in 0 .. 1
        PROVE  /\ [p EXCEPT !.sent = went, !.drafted = TRUE, !.told = "sent"] \in Prompt
               /\ [p EXCEPT !.sent = went, !.drafted = TRUE, !.told = "sent"].state = "approved"
    BY DEF Prompt
  <1>3. ASSUME NEW went \in 0 .. 1
        PROVE  /\ [p EXCEPT !.sent = went, !.told = "failed"] \in Prompt
               /\ [p EXCEPT !.sent = went, !.told = "failed"].state = "approved"
    BY DEF Prompt
  <1>4. /\ [p EXCEPT !.drafted = TRUE, !.told = "drafted"] \in Prompt
        /\ [p EXCEPT !.drafted = TRUE, !.told = "drafted"].state = "approved"
    BY DEF Prompt
  <1>5. /\ [p EXCEPT !.told = "failed"] \in Prompt
        /\ [p EXCEPT !.told = "failed"].state = "approved"
    BY DEF Prompt
  <1>6. \/ \E went \in 0 .. 1 : Closed([p EXCEPT !.sent = went, !.told = "sent"])
        \/ \E went \in 0 .. 1 : Closed([p EXCEPT !.sent = went, !.drafted = TRUE, !.told = "sent"])
        \/ \E went \in 0 .. 1 : Closed([p EXCEPT !.sent = went, !.told = "failed"])
        \/ Closed([p EXCEPT !.drafted = TRUE, !.told = "drafted"])
        \/ Closed([p EXCEPT !.told = "failed"])
    BY DEF Mailed
  <1> QED
    BY <1>1, <1>2, <1>3, <1>4, <1>5, <1>6

\* The drafts' part of a step.
LEMMA ReplyStep ==
    ASSUME ReplyInv, [Next]_vars
    PROVE  ReplyInv'
  <1>1. CASE Reply
    <2>1. CASE UNCHANGED <<loop, prompts, deadline>>
      BY <2>1, RepliesKept
    <2>2. CASE loop' = "reply" /\ prompts' = Append(prompts, Draft)
      <3>1. prompts \in Seq(Prompt) /\ Len(prompts) \in Nat
        BY DEF ReplyInv
      <3>2. Draft \in Prompt /\ Draft.sent = 0 /\ ~Draft.drafted
        BY PostedDraft
      <3>3. /\ prompts' \in Seq(Prompt) /\ Len(prompts') = Len(prompts) + 1 /\ prompts' # <<>>
            /\ prompts'[Len(prompts) + 1] = Draft
            /\ \A i \in 1 .. Len(prompts) : prompts'[i] = prompts[i]
            /\ DOMAIN prompts' = 1 .. Len(prompts) + 1 /\ DOMAIN prompts = 1 .. Len(prompts)
        BY <2>2, <3>1, <3>2
      <3>4. \A i \in DOMAIN prompts' : i \in DOMAIN prompts \/ i = Len(prompts) + 1
        BY <3>1, <3>3
      <3>5. RepliedOnce'
        <4>1. SUFFICES ASSUME NEW i \in DOMAIN prompts'
                       PROVE  /\ prompts'[i].sent <= 1
                              /\ prompts'[i].sent = 1 \/ prompts'[i].drafted => prompts'[i].state = "approved"
          BY DEF RepliedOnce
        <4>2. CASE i \in DOMAIN prompts
          BY <3>3, <4>2 DEF ReplyInv, RepliedOnce
        <4>3. CASE i = Len(prompts) + 1
          <5>1. prompts'[i] = Draft
            BY <3>3, <4>3
          <5> QED
            BY <3>2, <5>1
        <4> QED
          BY <3>4, <4>2, <4>3
      <3> QED
        BY <2>2, <3>3, <3>5 DEF ReplyInv, Last
    <2> QED
      BY <1>1, <2>1, <2>2 DEF Reply
  <1>2. CASE Decide
    <2>1. loop = "reply" /\ prompts[Last] = Draft
      BY <1>2 DEF Decide, At, ReplyInv
    <2>2. ASSUME NEW s \in {"skipped", "adjusted"}, Closed([Draft EXCEPT !.state = s])
          PROVE  ReplyInv'
      <3> DEFINE q == [Draft EXCEPT !.state = s]
      <3>0. s \in {"approved", "skipped", "adjusted", "timed out", "lost"}
        BY <2>2
      <3>1. q \in Prompt /\ q.sent = 0 /\ ~q.drafted /\ Closed(q)
        BY <2>2, <3>0, PostedDraft, EndedDraft, ZenonT(60)
      <3> HIDE DEF q
      <3> QED
        BY <2>1, <3>1, ClosedKeeps DEF Closed
    <2>3. ASSUME Mailed([Draft EXCEPT !.state = "approved"])
          PROVE  ReplyInv'
      <3> DEFINE p == [Draft EXCEPT !.state = "approved"]
      <3>1. p \in Prompt /\ p.state = "approved" /\ Mailed(p)
        BY <2>3, PostedDraft, EndedDraft
      <3> HIDE DEF p
      <3> QED
        BY <2>1, <3>1, MailedDraft, ClosedKeeps DEF Closed
    <2> QED
      BY <1>2, <2>1, <2>2, <2>3 DEF Decide
  <1>3. CASE TimedOut
    <2>1. loop = "reply" /\ prompts[Last] = Draft /\ Closed([Draft EXCEPT !.state = "timed out"])
      BY <1>3 DEF TimedOut, At, ReplyInv
    <2> DEFINE q == [Draft EXCEPT !.state = "timed out"]
    <2>2. q \in Prompt /\ q.sent = 0 /\ ~q.drafted /\ Closed(q)
      BY <2>1, PostedDraft, EndedDraft
    <2> HIDE DEF q
    <2> QED
      BY <2>1, <2>2, ClosedKeeps DEF Closed
  <1>4. CASE Stop \/ Crash
    <2>1. /\ loop' = "idle"
          /\ prompts' = IF loop = "reply" THEN [prompts EXCEPT ![Last].state = "lost"] ELSE prompts
      BY <1>4 DEF Stop, Crash, Ends
    <2>2. CASE loop # "reply"
      BY <2>1, <2>2, RepliesKept
    <2>3. CASE loop = "reply"
      <3>1. prompts \in Seq(Prompt) /\ prompts # <<>> /\ prompts[Last] = Draft
            /\ Last \in DOMAIN prompts /\ DOMAIN prompts = 1 .. Len(prompts)
        BY <2>3 DEF ReplyInv, Last
      <3> DEFINE q == [Draft EXCEPT !.state = "lost"]
      <3>2. prompts' = [prompts EXCEPT ![Last] = q]
        BY <2>1, <2>3, <3>1
      <3>3. q \in Prompt /\ q.sent = 0 /\ ~q.drafted
        BY PostedDraft, EndedDraft
      <3> HIDE DEF q
      <3> QED
        BY <2>1, <2>3, <3>2, <3>3, ClosedKeeps
    <2> QED
      BY <2>2, <2>3
  <1>5. \/ UNCHANGED vars \/ Drain \/ Answer \/ Pass \/ Unreadable \/ Report \/ SendFails \/ Record
        \/ Signal \/ Boot \/ TimePasses \/ (\E u \in Updates : Say(u))
        => UNCHANGED prompts /\ (loop' = loop \/ loop' # "reply")
    BY DEF vars, loopVars, replyVars, Drain, Answer, Take, Pass, Unreadable, Report, SendFails, Retry, Record,
           Signal, Boot, TimePasses, Say
  <1> QED
    BY <1>1, <1>2, <1>3, <1>4, <1>5, RepliesKept DEF Next, Loop

\* Nothing is sent, asked or recorded at first.
LEMMA LoopInit ==
    ASSUME Init
    PROVE  DigestInv /\ ReplyInv
  <1>1. 0 \in 0 .. Horizon
    BY MainLoopAssumption
  <1>3. Today \in Nat /\ NoDay = -1
    <2>1. 0 \div DayLength \in Nat
      BY MainLoopAssumption
    <2> QED
      BY <2>1 DEF Init, Today, Day, NoDay
  <1>4. LoopTyped /\ JobKnows /\ SaidIsKept
    BY <1>1, <1>3 DEF Init, LoopTyped, JobKnows, SaidIsKept, Unread
  <1>5. DigestComesOnce /\ loop # "record"
    BY DEF Init, DigestComesOnce
  <1>6. ReplyInv
    BY DEF Init, ReplyInv, RepliedOnce
  <1> QED
    BY <1>4, <1>5, <1>6 DEF DigestInv

\* However the loop's rounds, restarts, lost sends and refused records fall: a
\* day's digest arrives once unless a send or its record slipped, and a drafted
\* reply is sent once at most, on an approval only (digestJob.tick, handleReply).
THEOREM LoopSendsOnce == Spec => []SentOnce
  <1>1. DigestInv /\ ReplyInv /\ [Next]_vars => (DigestInv /\ ReplyInv)'
    BY DigestStep, ReplyStep
  <1>2. DigestInv /\ ReplyInv => SentOnce
    BY DEF DigestInv, ReplyInv, SentOnce
  <1> QED
    BY LoopInit, <1>1, <1>2, PTL DEF Spec
-----------------------------------------------------------------------------
HookTyped ==
    /\ permit \in [{Call} -> Hook!Gate!Phases]
    /\ wait \in [Hooks -> Waits] /\ stage \in [Hooks -> Hook!Stages]
    /\ elapsed \in [Hooks -> Nat] /\ hookFaults \in Nat

\* Only a granted permit is spent, and it is not granted again.
SpentOnce ==
    /\ spender \subseteq Hooks /\ \A g, h \in spender : g = h
    /\ spender # {} => permit[Call] = "spent"

\* How late a hook can be where it stands.
HookOnTime(h) ==
    /\ stage[h] = "new" => elapsed[h] = 0
    /\ stage[h] = "ask" => elapsed[h] <= IF <<h, "ask">> \in retried THEN 11 ELSE 0
    /\ stage[h] = "poll" => elapsed[h] < wait[h]
    /\ stage[h] = "revoke" =>
           elapsed[h] <= wait[h] + IF <<h, "revoke">> \in retried THEN 37 ELSE 21
    /\ stage[h] = "consume" =>
           elapsed[h] <= wait[h] + IF <<h, "consume">> \in retried THEN 37 ELSE 21
    /\ elapsed[h] <= wait[h] + 52

AllowedSpent(h) == stage[h] \in {"allow", "allowed"} => h \in spender

HookInv ==
    /\ HookTyped /\ SpentOnce
    /\ \A h \in Hooks : HookOnTime(h) /\ AllowedSpent(h)

\* The hold of a request (hookHoldCap) is a number, at most what is left to wait.
LEMMA HoldIsBounded ==
    ASSUME Hook!GateHookAssumption, HookInv, NEW h \in Hooks, stage[h] \in {"ask", "poll"}
    PROVE  /\ Hook!Hold(h) \in Nat
           /\ stage[h] = "ask" => Hook!Hold(h) <= wait[h]
           /\ stage[h] = "poll" => Hook!Hold(h) <= wait[h] - elapsed[h]
<1> DEFINE a == IF stage[h] = "ask" THEN wait[h] ELSE wait[h] - elapsed[h]
<1>1. a \in Nat
  <2>1. wait[h] \in Nat /\ elapsed[h] \in Nat /\ HookOnTime(h)
    BY DEF HookInv, HookTyped, Hook!GateHookAssumption
  <2> QED BY <2>1 DEF HookOnTime
<1>2. \E x \in {a, 100} : \A y \in {a, 100} : x <= y
  <2>1. CASE a <= 100 BY <1>1, <2>1
  <2>2. CASE ~(a <= 100) BY <1>1, <2>2
  <2> QED BY <2>1, <2>2
<1>3. Hook!Hold(h) = Min({a, 100})
  BY DEF Hook!Hold, Hook!Left, Hook!HoldCap, Hook!Min, Min
<1> HIDE DEF a
<1>4. Hook!Hold(h) \in {a, 100} /\ Hook!Hold(h) <= a
  BY <1>2, <1>3 DEF Min
<1> QED BY <1>1, <1>4 DEF a

\* A step of one hook that spends time, moves on and keeps what the others did.
LEMMA OneHookMoves ==
    ASSUME Hook!GateHookAssumption, HookInv, NEW h \in Hooks,
           NEW s \in Hook!Stages, NEW n \in Nat,
           stage' = [stage EXCEPT ![h] = s], elapsed' = [elapsed EXCEPT ![h] = @ + n],
           permit' = permit, wait' = wait, spender' = spender, hookFaults' \in Nat,
           retried \subseteq retried', HookOnTime(h)', AllowedSpent(h)'
    PROVE  HookInv'
<1>1. HookTyped'
  BY DEF HookInv, HookTyped
<1>2. SpentOnce'
  BY DEF HookInv, SpentOnce
<1>3. ASSUME NEW g \in Hooks PROVE HookOnTime(g)' /\ AllowedSpent(g)'
  <2>1. CASE g = h BY <2>1
  <2>2. CASE g # h
    <3>1. stage'[g] = stage[g] /\ elapsed'[g] = elapsed[g] /\ wait'[g] = wait[g]
      BY <2>2 DEF HookInv, HookTyped
    <3>2. AllowedSpent(g)' BY <3>1 DEF HookInv, AllowedSpent
    <3>3. elapsed[g] \in Nat /\ wait[g] \in Nat
      BY DEF HookInv, HookTyped, Hook!GateHookAssumption
    <3>4. HookOnTime(g)
      BY DEF HookInv
    <3>5. HookOnTime(g)'
      BY <3>1, <3>3, <3>4 DEF HookOnTime
    <3> QED BY <3>2, <3>5
  <2> QED BY <2>1, <2>2
<1> QED BY <1>1, <1>2, <1>3 DEF HookInv

\* The invariant holds when the harness starts its hooks.
LEMMA HookInitInv ==
    ASSUME Hook!GateHookAssumption, Hook!Init PROVE HookInv
<1>1. HookTyped
  BY DEF Hook!Init, Hook!Gate!Init, HookTyped, Hook!Gate!Phases, Hook!Stages
<1>2. SpentOnce
  BY DEF Hook!Init, SpentOnce
<1>3. ASSUME NEW h \in Hooks PROVE HookOnTime(h) /\ AllowedSpent(h)
  <2>1. stage[h] = "new" /\ elapsed[h] = 0 /\ wait[h] \in Nat
    BY DEF Hook!Init, Hook!GateHookAssumption
  <2> QED BY <2>1 DEF HookOnTime, AllowedSpent
<1> QED BY <1>1, <1>2, <1>3 DEF HookInv

\* A request taken by the gate spends no time of a hook.
LEMMA HookTakeKeeps ==
    ASSUME Hook!GateHookAssumption, HookInv, NEW h \in Hooks, NEW kind, Hook!Take(h, kind)
    PROVE  HookInv'
<1>1. /\ wait' = wait /\ stage' = stage /\ elapsed' = elapsed /\ retried' = retried
      /\ hookFaults' = hookFaults
  BY DEF Hook!Take, Hook!hookVars
<1>2. \/ permit[Call] # "spent" /\ spender' = spender /\ permit' \in [{Call} -> Hook!Gate!Phases]
      \/ permit[Call] = "granted" /\ spender' = spender \cup {h}
           /\ permit' \in [{Call} -> Hook!Gate!Phases] /\ permit'[Call] = "spent"
      \/ permit' = permit /\ spender' = spender
  BY DEF Hook!Take, Hook!HookActionID, Hook!Gate!Ask, Hook!Gate!Close, Hook!Gate!Spend,
         HookInv, HookTyped, Hook!Gate!Phases
<1>3. HookTyped' /\ SpentOnce'
  BY <1>1, <1>2 DEF HookInv, HookTyped, SpentOnce
<1>4. spender \subseteq spender'
  BY <1>2
<1>5. ASSUME NEW g \in Hooks PROVE HookOnTime(g)' /\ AllowedSpent(g)'
  BY <1>1, <1>4 DEF HookInv, HookOnTime, AllowedSpent
<1> QED BY <1>3, <1>5 DEF HookInv

\* A decision of the gate leaves the hooks alone, and nothing spent.
LEMMA HookDecideKeeps ==
    ASSUME Hook!GateHookAssumption, HookInv, Hook!Decide PROVE HookInv'
<1>1. /\ wait' = wait /\ stage' = stage /\ elapsed' = elapsed /\ retried' = retried
      /\ hookFaults' = hookFaults /\ spender' = spender
  BY DEF Hook!Decide, Hook!hookVars
<1>2. permit[Call] # "spent" /\ permit' \in [{Call} -> Hook!Gate!Phases]
  BY DEF Hook!Decide, Hook!Gate!Grant, Hook!Gate!Refuse, Hook!Gate!Close, HookInv, HookTyped,
         Hook!Gate!Phases
<1>3. HookTyped' /\ SpentOnce'
  BY <1>1, <1>2 DEF HookInv, HookTyped, SpentOnce
<1>4. ASSUME NEW g \in Hooks PROVE HookOnTime(g)' /\ AllowedSpent(g)'
  BY <1>1 DEF HookInv, HookOnTime, AllowedSpent
<1> QED BY <1>3, <1>4 DEF HookInv

\* Every step of a hook keeps the invariant.
LEMMA HookStepKeeps ==
    ASSUME Hook!GateHookAssumption, HookInv, NEW h \in Hooks,
           \/ Hook!UsageError(h) \/ Hook!UnreadPayload(h) \/ Hook!Start(h) \/ Hook!Retry(h)
           \/ Hook!Decided(h) \/ Hook!Pending(h) \/ Hook!Lost(h) \/ Hook!Consumed(h)
           \/ Hook!WriteHookAnswer(h) \/ Hook!Withdrawn(h)
    PROVE  HookInv'
<1>1. /\ elapsed[h] \in Nat /\ wait[h] \in Nat /\ wait[h] > 0 /\ stage[h] \in Hook!Stages
      /\ hookFaults \in Nat
  <2>1. /\ elapsed[h] \in Nat /\ wait[h] \in Waits /\ stage[h] \in Hook!Stages
        /\ hookFaults \in Nat
    BY DEF HookInv, HookTyped
  <2>2. \A w \in Waits : w \in Nat /\ w > 0
    BY DEF Hook!GateHookAssumption
  <2> QED BY <2>1, <2>2
<1>2. HookOnTime(h) /\ AllowedSpent(h)
  BY DEF HookInv
<1>3. elapsed = [elapsed EXCEPT ![h] = @ + 0] /\ stage = [stage EXCEPT ![h] = stage[h]]
  BY <1>1 DEF HookInv, HookTyped
<1>4. ASSUME NEW s \in Hook!Stages, NEW n \in Nat,
             stage' = [stage EXCEPT ![h] = s], elapsed' = [elapsed EXCEPT ![h] = @ + n],
             permit' = permit, wait' = wait, spender' = spender, hookFaults' \in Nat
      PROVE  /\ stage'[h] = s /\ elapsed'[h] = elapsed[h] + n /\ wait'[h] = wait[h]
             /\ spender' = spender
  BY <1>4 DEF HookInv, HookTyped
<1>5. CASE Hook!UsageError(h) \/ Hook!UnreadPayload(h) \/ Hook!Start(h)
  <2>1. PICK s \in {"blocked", "deny", "ask"} : stage' = [stage EXCEPT ![h] = s]
    BY <1>5 DEF Hook!UsageError, Hook!UnreadPayload, Hook!Start, Hook!Go
  <2>2. /\ stage[h] = "new" /\ elapsed' = [elapsed EXCEPT ![h] = @ + 0] /\ permit' = permit
        /\ wait' = wait /\ spender' = spender /\ hookFaults' \in Nat /\ retried' = retried
    BY <1>1, <1>3, <1>5 DEF Hook!UsageError, Hook!UnreadPayload, Hook!Start
  <2>3. s \in Hook!Stages
    BY DEF Hook!Stages
  <2>4. stage'[h] = s /\ elapsed'[h] = elapsed[h] + 0 /\ wait'[h] = wait[h] /\ elapsed[h] = 0
    BY <1>2, <1>4, <2>1, <2>2, <2>3 DEF HookOnTime
  <2>5. HookOnTime(h)' /\ AllowedSpent(h)'
    BY <1>1, <2>4 DEF HookOnTime, AllowedSpent
  <2> QED BY <2>1, <2>2, <2>3, <2>5, OneHookMoves
<1>6. CASE Hook!Retry(h)
  <2>1. PICK n \in {1, 1 + (IF stage[h] = "ask" THEN 10 ELSE 15)} :
               elapsed' = [elapsed EXCEPT ![h] = @ + n]
    BY <1>6 DEF Hook!Retry, Hook!Spend, Hook!Grace, Hook!Short
  <2>2. /\ stage[h] \in {"ask", "revoke", "consume"} /\ stage' = [stage EXCEPT ![h] = stage[h]]
        /\ permit' = permit /\ wait' = wait /\ spender' = spender /\ hookFaults' \in Nat
        /\ <<h, stage[h]>> \notin retried /\ retried' = retried \cup {<<h, stage[h]>>}
    BY <1>1, <1>3, <1>6 DEF Hook!Retry, Hook!Fault
  <2>3. n \in Nat /\ (stage[h] = "ask" => n <= 11) /\ n <= 16
    BY <2>1
  <2>4. stage'[h] = stage[h] /\ elapsed'[h] = elapsed[h] + n /\ wait'[h] = wait[h]
    BY <1>1, <1>4, <2>1, <2>2, <2>3
  <2>5. HookOnTime(h)' /\ AllowedSpent(h)'
    <3>1. CASE stage[h] = "ask"
      BY <1>1, <1>2, <2>2, <2>3, <2>4, <3>1 DEF HookOnTime, AllowedSpent
    <3>2. CASE stage[h] = "revoke"
      BY <1>1, <1>2, <2>2, <2>3, <2>4, <3>2 DEF HookOnTime, AllowedSpent
    <3>3. CASE stage[h] = "consume"
      BY <1>1, <1>2, <2>2, <2>3, <2>4, <3>3 DEF HookOnTime, AllowedSpent
    <3> QED BY <2>2, <3>1, <3>2, <3>3
  <2> QED BY <1>1, <2>1, <2>2, <2>3, <2>5, OneHookMoves
<1>7. CASE Hook!Decided(h) \/ Hook!Pending(h)
  <2>1. /\ stage[h] \in {"ask", "poll"} /\ permit' = permit /\ wait' = wait
        /\ spender' = spender /\ retried' = retried /\ hookFaults' \in Nat
    BY <1>1, <1>7 DEF Hook!Decided, Hook!Pending, Hook!Fault
  <2>2. /\ Hook!Hold(h) \in Nat
        /\ stage[h] = "ask" => Hook!Hold(h) <= wait[h]
        /\ stage[h] = "poll" => Hook!Hold(h) <= wait[h] - elapsed[h]
    BY <2>1, HoldIsBounded
  <2>3. PICK n \in {0, 1, Hook!Hold(h), Hook!Hold(h) + 10} :
               elapsed' = [elapsed EXCEPT ![h] = @ + n]
    BY <1>7 DEF Hook!Decided, Hook!Pending, Hook!Spend, Hook!Grace
  <2>4. n \in Nat /\ elapsed[h] + n <= wait[h] + 21
    BY <1>1, <1>2, <2>1, <2>2, <2>3 DEF HookOnTime
  <2>5. elapsed'[h] = elapsed[h] + n
    BY <1>1, <2>3 DEF HookInv, HookTyped
  <2>6. PICK s \in {"consume", "deny", "revoke", "poll"} :
               /\ stage' = [stage EXCEPT ![h] = s]
               /\ s = "poll" => elapsed'[h] < wait[h]
    BY <1>1, <1>7, <2>4, <2>5 DEF Hook!Decided, Hook!Pending, Hook!Go
  <2>7. s \in Hook!Stages
    BY DEF Hook!Stages
  <2>8. stage'[h] = s /\ wait'[h] = wait[h]
    BY <1>1, <1>4, <2>1, <2>3, <2>4, <2>6, <2>7
  <2>9. HookOnTime(h)' /\ AllowedSpent(h)'
    BY <1>1, <2>4, <2>5, <2>6, <2>8 DEF HookOnTime, AllowedSpent
  <2> QED BY <2>1, <2>3, <2>4, <2>6, <2>7, <2>9, OneHookMoves
<1>8. CASE Hook!Lost(h)
  <2>1. /\ stage[h] \in {"ask", "poll", "consume"} /\ permit' = permit /\ wait' = wait
        /\ spender' = spender /\ retried' = retried /\ hookFaults' \in Nat
        /\ stage' = [stage EXCEPT ![h] = "deny"]
        /\ elapsed' = [elapsed EXCEPT ![h] = @ + Hook!Limit(h)]
    BY <1>1, <1>8 DEF Hook!Lost, Hook!Fault, Hook!Go, Hook!Spend
  <2>2. Hook!Limit(h) \in Nat /\ elapsed[h] + Hook!Limit(h) <= wait[h] + 52
    <3>1. CASE stage[h] = "consume"
      BY <1>1, <1>2, <3>1 DEF HookOnTime, Hook!Limit, Hook!Short
    <3>2. CASE stage[h] \in {"ask", "poll"}
      <4>1. /\ Hook!Hold(h) \in Nat
            /\ stage[h] = "ask" => Hook!Hold(h) <= wait[h]
            /\ stage[h] = "poll" => Hook!Hold(h) <= wait[h] - elapsed[h]
        BY <3>2, HoldIsBounded
      <4>2. Hook!Limit(h) = Hook!Hold(h) + 10
        BY <3>2 DEF Hook!Limit, Hook!Grace
      <4> QED BY <1>1, <1>2, <3>2, <4>1, <4>2 DEF HookOnTime
    <3> QED BY <2>1, <3>1, <3>2
  <2>3. "deny" \in Hook!Stages
    BY DEF Hook!Stages
  <2>4. stage'[h] = "deny" /\ elapsed'[h] = elapsed[h] + Hook!Limit(h) /\ wait'[h] = wait[h]
    BY <1>4, <2>1, <2>2, <2>3
  <2>5. HookOnTime(h)' /\ AllowedSpent(h)'
    BY <1>1, <2>2, <2>4 DEF HookOnTime, AllowedSpent
  <2> QED BY <2>1, <2>2, <2>3, <2>5, OneHookMoves
<1>9. CASE Hook!Consumed(h) \/ Hook!Withdrawn(h)
  <2>1. /\ stage[h] \in {"consume", "revoke"} /\ permit' = permit /\ wait' = wait
        /\ spender' = spender /\ retried' = retried /\ hookFaults' \in Nat
    BY <1>1, <1>9 DEF Hook!Consumed, Hook!Withdrawn, Hook!Fault
  <2>2. PICK n \in {0, 15} : elapsed' = [elapsed EXCEPT ![h] = @ + n]
    BY <1>9 DEF Hook!Consumed, Hook!Withdrawn, Hook!Spend, Hook!Short
  <2>3. PICK s \in {"allow", "deny", "withdrawn"} :
               stage' = [stage EXCEPT ![h] = s] /\ (s = "allow" => h \in spender)
    BY <1>9 DEF Hook!Consumed, Hook!Withdrawn, Hook!Go
  <2>4. s \in Hook!Stages /\ n \in Nat /\ elapsed[h] + n <= wait[h] + 52
    <3>1. elapsed[h] <= wait[h] + 37
      BY <1>1, <1>2, <2>1 DEF HookOnTime
    <3>2. s \in Hook!Stages
      BY DEF Hook!Stages
    <3> QED BY <1>1, <2>2, <3>1, <3>2
  <2>5. stage'[h] = s /\ elapsed'[h] = elapsed[h] + n /\ wait'[h] = wait[h]
    BY <1>4, <2>1, <2>2, <2>3, <2>4
  <2>6. HookOnTime(h)' /\ AllowedSpent(h)'
    BY <1>1, <2>1, <2>3, <2>4, <2>5 DEF HookOnTime, AllowedSpent
  <2> QED BY <2>1, <2>2, <2>3, <2>4, <2>6, OneHookMoves
<1>10. CASE Hook!WriteHookAnswer(h)
  <2>1. /\ permit' = permit /\ wait' = wait /\ spender' = spender /\ retried' = retried
        /\ hookFaults' \in Nat /\ elapsed' = [elapsed EXCEPT ![h] = @ + 0]
    BY <1>1, <1>3, <1>10 DEF Hook!WriteHookAnswer, Hook!Fault
  <2>2. PICK s \in {"allowed", "blocked"} :
               stage' = [stage EXCEPT ![h] = s] /\ (s = "allowed" => stage[h] = "allow")
    BY <1>10 DEF Hook!WriteHookAnswer, Hook!Go
  <2>3. s \in Hook!Stages
    BY DEF Hook!Stages
  <2>4. stage'[h] = s /\ elapsed'[h] = elapsed[h] + 0 /\ wait'[h] = wait[h]
    BY <1>4, <2>1, <2>2, <2>3
  <2>5. HookOnTime(h)' /\ AllowedSpent(h)'
    BY <1>1, <1>2, <2>1, <2>2, <2>4 DEF HookOnTime, AllowedSpent
  <2> QED BY <2>1, <2>2, <2>3, <2>5, OneHookMoves
<1> QED BY <1>5, <1>6, <1>7, <1>8, <1>9, <1>10

\* Every step of the hooks and of the gate keeps the invariant.
LEMMA HookStep ==
    ASSUME Hook!GateHookAssumption, HookInv, [Hook!Next]_(Hook!vars) PROVE HookInv'
<1>1. CASE Hook!Decide BY <1>1, HookDecideKeeps
<1>2. ASSUME NEW h \in Hooks, NEW kind \in Hook!Stages, Hook!Take(h, kind) PROVE HookInv'
  BY <1>2, HookTakeKeeps
<1>3. ASSUME NEW h \in Hooks,
             \/ Hook!UsageError(h) \/ Hook!UnreadPayload(h) \/ Hook!Start(h) \/ Hook!Retry(h)
             \/ Hook!Decided(h) \/ Hook!Pending(h) \/ Hook!Lost(h) \/ Hook!Consumed(h)
             \/ Hook!WriteHookAnswer(h) \/ Hook!Withdrawn(h)
      PROVE  HookInv'
  BY <1>3, HookStepKeeps
<1>4. CASE UNCHANGED Hook!vars
  BY <1>4 DEF Hook!vars, Hook!hookVars, HookInv, HookTyped, SpentOnce, HookOnTime, AllowedSpent
<1> QED BY <1>1, <1>2, <1>3, <1>4 DEF Hook!Next

\* A call runs only by a hook that spent its permit, and by one hook at most,
\* for any wait, any number of hooks and of lost or refused requests: every
\* stage of runGateHook leaves less than hookTimeout behind it.
THEOREM HookRunsOnPermit ==
    ASSUME Hook!GateHookAssumption
    PROVE  Hook!Spec => [](Hook!RunsOnlyOnPermit /\ RunsOnlyOnPermit)
<1>1. HookInv /\ [Hook!Next]_(Hook!vars) => HookInv'
  BY HookStep
<1>2. ASSUME HookInv PROVE Hook!RunsOnlyOnPermit
  <2>1. ASSUME NEW h \in Hooks, Hook!Runs(h) PROVE h \in spender
    <3>1. elapsed[h] \in Nat /\ wait[h] \in Nat /\ elapsed[h] <= wait[h] + 52
      BY <1>2 DEF HookInv, HookTyped, HookOnTime, Hook!GateHookAssumption
    <3>2. stage[h] = "allowed"
      BY <2>1, <3>1 DEF Hook!Runs, Hook!HookTimeout
    <3> QED BY <1>2, <3>2 DEF HookInv, AllowedSpent
  <2>2. Cardinality(spender) <= 1
    <3>1. spender = {} \/ \E h \in spender : spender = {h}
      BY <1>2 DEF HookInv, SpentOnce
    <3>2. Cardinality({}) = 0 /\ \A h \in spender : Cardinality({h}) = 1
      BY FS_EmptySet, FS_Singleton
    <3> QED BY <3>1, <3>2
  <2>3. Hook!Cardinality(spender) = Cardinality(spender)
    BY DEF Hook!Cardinality, Cardinality
  <2> QED BY <2>1, <2>2, <2>3 DEF Hook!RunsOnlyOnPermit
<1>3. Hook!RunsOnlyOnPermit => RunsOnlyOnPermit
  BY DEF RunsOnlyOnPermit
<1> QED BY <1>1, <1>2, <1>3, HookInitInv, PTL DEF Hook!Spec

-----------------------------------------------------------------------------
\* Until something is lost, a hook's request is on its way or was taken.
Asked(h) ==
    /\ stage[h] = "ask" => <<h, "ask">> \in requests \/ permit[Call] # "unknown"
    /\ stage[h] \in {"poll", "revoke"} => permit[Call] # "unknown"
    /\ stage[h] = "revoke" => <<h, "revoke">> \in requests \/ permit[Call] \in {"closed", "spent"}
    /\ stage[h] = "withdrawn" => permit[Call] \in {"closed", "spent"}

WithdrawInv == hookFaults = 0 => \A h \in Hooks : Asked(h)

\* What the gate does to a permit never makes it unknown or open again.
LEMMA PermitMovesOn ==
    ASSUME HookTyped, \/ Hook!Decide
                      \/ \E h \in Hooks, kind \in Hook!Stages : Hook!Take(h, kind)
    PROVE  /\ permit[Call] # "unknown" => permit'[Call] # "unknown"
           /\ permit[Call] \in {"closed", "spent"} => permit'[Call] = permit[Call]
<1>1. CASE Hook!Decide
  BY <1>1 DEF HookTyped, Hook!Decide, Hook!Gate!Grant, Hook!Gate!Refuse, Hook!Gate!Close
<1>2. ASSUME NEW h \in Hooks, NEW kind \in Hook!Stages, Hook!Take(h, kind)
      PROVE  /\ permit[Call] # "unknown" => permit'[Call] # "unknown"
             /\ permit[Call] \in {"closed", "spent"} => permit'[Call] = permit[Call]
  BY <1>2 DEF HookTyped, Hook!Take, Hook!HookActionID, Hook!Gate!Ask, Hook!Gate!Close,
             Hook!Gate!Spend
<1> QED BY <1>1, <1>2

\* The gate takes what is asked: an ask opens the action, a revoke closes it.
LEMMA TakenIsDone ==
    ASSUME HookTyped, NEW h \in Hooks, NEW kind, Hook!Take(h, kind)
    PROVE  /\ kind = "ask" => permit'[Call] # "unknown"
           /\ kind = "revoke" /\ permit[Call] # "unknown" => permit'[Call] \in {"closed", "spent"}
           /\ requests' = requests \ {<<h, kind>>} /\ stage' = stage /\ hookFaults' = hookFaults
<1>1. permit[Call] \in Hook!Gate!Phases
  BY DEF HookTyped
<1> QED BY <1>1 DEF HookTyped, Hook!Take, Hook!HookActionID, Hook!Gate!Ask, Hook!Gate!Close,
               Hook!Gate!Spend, Hook!Gate!Phases, Hook!hookVars

\* A hook that stops waiting leaves nothing to approve, unless a request of its
\* own was lost: it withdraws what it asked, and a withdrawn ask stays withdrawn.
THEOREM HookWithdraws ==
    ASSUME Hook!GateHookAssumption PROVE Hook!Spec => []Hook!WithdrawnIsClosed
<1>1. ASSUME Hook!Init PROVE WithdrawInv
  BY <1>1 DEF Hook!Init, WithdrawInv, Asked
<1>2. ASSUME HookInv, WithdrawInv, [Hook!Next]_(Hook!vars) PROVE WithdrawInv'
  <2> SUFFICES ASSUME hookFaults' = 0 PROVE \A h \in Hooks : Asked(h)'
    BY DEF WithdrawInv
  <2>1. HookTyped /\ hookFaults \in Nat
    BY <1>2 DEF HookInv, HookTyped
  <2>2. ASSUME Hook!Fault PROVE FALSE
    BY <2>1, <2>2 DEF Hook!Fault
  <2>3. hookFaults = 0 => \A g \in Hooks : Asked(g)
    BY <1>2 DEF WithdrawInv
  <2>4. CASE Hook!Decide
    <3>1. /\ stage' = stage /\ requests' = requests /\ hookFaults' = hookFaults
      BY <2>4 DEF Hook!Decide, Hook!hookVars
    <3> QED BY <2>1, <2>3, <2>4, <3>1, PermitMovesOn DEF Asked
  <2>5. ASSUME NEW h \in Hooks, NEW kind \in Hook!Stages, Hook!Take(h, kind)
        PROVE  \A g \in Hooks : Asked(g)'
    <3>1. /\ kind = "ask" => permit'[Call] # "unknown"
          /\ kind = "revoke" /\ permit[Call] # "unknown" => permit'[Call] \in {"closed", "spent"}
          /\ requests' = requests \ {<<h, kind>>} /\ stage' = stage /\ hookFaults' = hookFaults
      BY <2>1, <2>5, TakenIsDone
    <3>2. /\ permit[Call] # "unknown" => permit'[Call] # "unknown"
          /\ permit[Call] \in {"closed", "spent"} => permit'[Call] = permit[Call]
      BY <2>1, <2>5, PermitMovesOn
    <3> TAKE g \in Hooks
    <3>3. Asked(g)
      BY <2>3, <3>1
    <3>4. \A k : <<g, k>> \in requests => <<g, k>> \in requests' \/ (g = h /\ k = kind)
      BY <3>1
    <3> QED BY <3>1, <3>2, <3>3, <3>4 DEF Asked
  <2>6. ASSUME NEW h \in Hooks, NEW s \in Hook!Stages,
               stage' = [stage EXCEPT ![h] = s], permit' = permit, requests \subseteq requests',
               hookFaults' = hookFaults, Asked(h) => Asked(h)'
        PROVE  \A g \in Hooks : Asked(g)'
    <3> TAKE g \in Hooks
    <3>1. Asked(g)
      BY <2>3, <2>6
    <3>2. g # h => stage'[g] = stage[g]
      BY <2>1, <2>6 DEF HookTyped
    <3> QED BY <2>6, <3>1, <3>2 DEF Asked
  <2>7. ASSUME NEW h \in Hooks, Hook!UsageError(h) \/ Hook!UnreadPayload(h)
        PROVE  \A g \in Hooks : Asked(g)'
    <3>1. PICK s \in {"blocked", "deny"} : stage' = [stage EXCEPT ![h] = s]
      BY <2>7 DEF Hook!UsageError, Hook!UnreadPayload, Hook!Go
    <3>2. stage'[h] = s /\ s \in Hook!Stages
      BY <2>1, <3>1 DEF HookTyped, Hook!Stages
    <3> QED BY <2>6, <2>7, <3>1, <3>2 DEF Hook!UsageError, Hook!UnreadPayload, Asked
  <2>8. ASSUME NEW h \in Hooks, Hook!Start(h) PROVE \A g \in Hooks : Asked(g)'
    <3>1. stage' = [stage EXCEPT ![h] = "ask"] /\ requests' = requests \cup {<<h, "ask">>}
      BY <2>8 DEF Hook!Start, Hook!Go, Hook!Request
    <3>2. stage'[h] = "ask" /\ "ask" \in Hook!Stages
      BY <2>1, <3>1 DEF HookTyped, Hook!Stages
    <3> QED BY <2>6, <2>8, <3>1, <3>2 DEF Hook!Start, Asked
  <2>9. ASSUME NEW h \in Hooks, Hook!Decided(h) PROVE \A g \in Hooks : Asked(g)'
    <3>1. PICK s \in {"consume", "deny"} : stage' = [stage EXCEPT ![h] = s]
      BY <2>9 DEF Hook!Decided, Hook!Go
    <3>2. stage'[h] = s /\ s \in Hook!Stages
      BY <2>1, <3>1 DEF HookTyped, Hook!Stages
    <3>3. requests \subseteq requests'
      BY <2>9 DEF Hook!Decided, Hook!Request
    <3> QED BY <2>6, <2>9, <3>1, <3>2, <3>3 DEF Hook!Decided, Asked
  <2>10. ASSUME NEW h \in Hooks, Hook!Pending(h) PROVE \A g \in Hooks : Asked(g)'
    <3>1. PICK s \in {"poll", "revoke"} :
                 stage' = [stage EXCEPT ![h] = s] /\ requests' = requests \cup {<<h, s>>}
      BY <2>10 DEF Hook!Pending, Hook!Go, Hook!Request
    <3>2. stage'[h] = s /\ s \in Hook!Stages
      BY <2>1, <3>1 DEF HookTyped, Hook!Stages
    <3>3. permit[Call] = "open" /\ permit' = permit
      BY <2>10 DEF Hook!Pending, Hook!HookActionID
    <3>4. hookFaults' = hookFaults
      BY <2>2, <2>10 DEF Hook!Pending
    <3> QED BY <2>6, <3>1, <3>2, <3>3, <3>4 DEF Asked
  <2>11. ASSUME NEW h \in Hooks, Hook!Retry(h) \/ Hook!Lost(h) PROVE FALSE
    BY <2>2, <2>11 DEF Hook!Retry, Hook!Lost
  <2>12. ASSUME NEW h \in Hooks, Hook!Consumed(h) \/ Hook!WriteHookAnswer(h)
         PROVE  \A g \in Hooks : Asked(g)'
    <3>1. PICK s \in {"allow", "deny", "allowed", "blocked"} : stage' = [stage EXCEPT ![h] = s]
      BY <2>12 DEF Hook!Consumed, Hook!WriteHookAnswer, Hook!Go
    <3>2. stage'[h] = s /\ s \in Hook!Stages
      BY <2>1, <3>1 DEF HookTyped, Hook!Stages
    <3>3. hookFaults' = hookFaults /\ permit' = permit /\ requests' = requests
      BY <2>2, <2>12 DEF Hook!Consumed, Hook!WriteHookAnswer
    <3> QED BY <2>6, <3>1, <3>2, <3>3 DEF Asked
  <2>13. ASSUME NEW h \in Hooks, Hook!Withdrawn(h) PROVE \A g \in Hooks : Asked(g)'
    <3>1. /\ stage[h] = "revoke" /\ stage' = [stage EXCEPT ![h] = "withdrawn"]
          /\ permit' = permit /\ requests' = requests /\ hookFaults' = hookFaults
          /\ ~Hook!InFlight(h)
      BY <2>2, <2>13 DEF Hook!Withdrawn, Hook!Go
    <3>2. stage'[h] = "withdrawn" /\ "withdrawn" \in Hook!Stages
      BY <2>1, <3>1 DEF HookTyped, Hook!Stages
    <3>3. <<h, "revoke">> \notin requests
      BY <3>1 DEF Hook!InFlight, Hook!Stages
    <3> QED BY <2>6, <3>1, <3>2, <3>3 DEF Asked
  <2>14. CASE UNCHANGED Hook!vars
    BY <2>3, <2>14 DEF Hook!vars, Hook!hookVars, Asked
  <2> QED BY <1>2, <2>4, <2>5, <2>7, <2>8, <2>9, <2>10, <2>11, <2>12, <2>13, <2>14 DEF Hook!Next
<1>3. WithdrawInv => Hook!WithdrawnIsClosed
  BY DEF WithdrawInv, Asked, Hook!WithdrawnIsClosed
<1>4. HookInv /\ [Hook!Next]_(Hook!vars) => HookInv'
  BY HookStep
<1> QED BY <1>1, <1>2, <1>3, <1>4, HookInitInv, PTL DEF Hook!Spec
-----------------------------------------------------------------------------
TripTyped ==
    /\ now \in Trip!Time /\ scope \in Scopes
    /\ gateFreeze \in Trip!Who /\ agentFreeze \in [Agents -> Trip!Who]
    /\ trips \in [Agents -> SUBSET Calls] /\ latest \in [Agents -> Trip!Time]
    /\ calls \in [Calls -> Trip!CallRecord]
    /\ tripped \subseteq SUBSET Calls
    /\ stops \subseteq Agents \cup {"gate"}

\* What somebody was told of is stored.
StopsAreStored ==
    /\ "gate" \in stops => gateFreeze # ""
    /\ \A a \in Agents : a \in stops => agentFreeze[a] # ""

\* A request that came while its stop was on has not read that freeze yet, and
\* a trip about to be answered stored its own.
CallIsStopped(c) ==
    /\ calls[c].pc # "idle" => calls[c].agent \in Agents
    /\ calls[c].barred \subseteq stops \cap {calls[c].agent, "gate"}
    /\ "gate" \in calls[c].barred => calls[c].pc \in {"gate", "consumeGate"}
    /\ calls[c].agent \in calls[c].barred =>
           calls[c].pc \in {"gate", "agent", "consumeGate", "consumeAgent"}
    /\ calls[c].allowed =>
           calls[c].pc \in {"permit", "consumeGate", "consumeAgent", "spend", "over"}
    /\ calls[c].spent => calls[c].pc = "over"
    /\ calls[c].froze => /\ calls[c].pc = "answer"
                         /\ scope = "gate" => gateFreeze # ""
                         /\ scope # "gate" => agentFreeze[calls[c].agent] # ""

StopInv == TripTyped /\ StopsAreStored /\ \A c \in Calls : CallIsStopped(c)

\* One handler's record changes, no freeze is lifted, no stop is forgotten.
LEMMA OneCallMoves ==
    ASSUME StopInv, NEW c \in Calls, NEW r \in Trip!CallRecord, calls' = [calls EXCEPT ![c] = r],
           stops \subseteq stops', scope' = scope,
           gateFreeze # "" => gateFreeze' # "",
           \A a \in Agents : agentFreeze[a] # "" => agentFreeze'[a] # "",
           TripTyped', StopsAreStored', CallIsStopped(c)'
    PROVE  StopInv'
<1>1. ASSUME NEW d \in Calls PROVE CallIsStopped(d)'
  <2>1. CASE d = c BY <2>1
  <2>2. CASE d # c
    <3>1. calls'[d] = calls[d] BY <2>2 DEF StopInv, TripTyped
    <3>2. calls[d].froze => calls[d].agent \in Agents
      BY DEF StopInv, CallIsStopped
    <3> QED BY <3>1, <3>2, ZenonT(60) DEF StopInv, CallIsStopped
  <2> QED BY <2>1, <2>2
<1> QED BY <1>1 DEF StopInv

\* Refusing a call, keeping a permit and going on to a place are typed.
LEMMA RecordMoves ==
    ASSUME TripTyped, NEW c \in Calls, NEW p \in Trip!Pcs
    PROVE  /\ [calls[c] EXCEPT !.pc = p] \in Trip!CallRecord
           /\ [calls[c] EXCEPT !.pc = p, !.barred = {}] \in Trip!CallRecord
           /\ [calls EXCEPT ![c].pc = p] = [calls EXCEPT ![c] = [calls[c] EXCEPT !.pc = p]]
           /\ [calls EXCEPT ![c].pc = p, ![c].barred = {}]
                = [calls EXCEPT ![c] = [calls[c] EXCEPT !.pc = p, !.barred = {}]]
           /\ [calls EXCEPT ![c] = [calls[c] EXCEPT !.pc = p]] \in [Calls -> Trip!CallRecord]
           /\ [calls EXCEPT ![c] = [calls[c] EXCEPT !.pc = p, !.barred = {}]]
                \in [Calls -> Trip!CallRecord]
<1>1. calls[c] \in Trip!CallRecord
  BY DEF TripTyped
<1>2. [calls[c] EXCEPT !.pc = p] \in Trip!CallRecord
  BY <1>1 DEF Trip!CallRecord
<1>3. [calls[c] EXCEPT !.pc = p, !.barred = {}] \in Trip!CallRecord
  BY <1>1 DEF Trip!CallRecord
<1> QED BY <1>2, <1>3 DEF TripTyped

\* A request that is refused, or whose permit is left as it was, and one that
\* read a freeze that is off and goes on.
LEMMA ReadingStops ==
    ASSUME Trip!TripAssumption, StopInv, NEW c \in Calls,
           UNCHANGED <<now, scope, gateFreeze, agentFreeze, trips, latest, tripped, stops>>,
           \/ \E p \in {"over", "permit"} :
                 calls' = [calls EXCEPT ![c].pc = p, ![c].barred = {}] /\ ~calls[c].froze
                    /\ calls[c].agent \in Agents /\ (p = "permit" => ~calls[c].spent)
           \/ /\ calls[c].pc \in {"gate", "consumeGate"} /\ gateFreeze = ""
              /\ calls' = [calls EXCEPT ![c].pc =
                              IF calls[c].pc = "gate" THEN "agent" ELSE "consumeAgent"]
           \/ /\ calls[c].pc \in {"agent", "consumeAgent"} /\ agentFreeze[calls[c].agent] = ""
              /\ calls' = [calls EXCEPT ![c].pc =
                              IF calls[c].pc = "agent" THEN "rules" ELSE "spend"]
    PROVE  StopInv'
<1>1. CallIsStopped(c) /\ TripTyped /\ calls[c] \in Trip!CallRecord
  BY DEF StopInv, TripTyped
<1>2. StopsAreStored'
  BY DEF StopInv, StopsAreStored
<1>3. ASSUME NEW p \in {"over", "permit"},
             calls' = [calls EXCEPT ![c].pc = p, ![c].barred = {}], ~calls[c].froze,
             calls[c].agent \in Agents, p = "permit" => ~calls[c].spent
      PROVE  StopInv'
  <2> DEFINE r == [calls[c] EXCEPT !.pc = p, !.barred = {}]
  <2>1. p \in Trip!Pcs
    BY DEF Trip!Pcs
  <2>2. r \in Trip!CallRecord /\ calls' = [calls EXCEPT ![c] = r] /\ calls' \in [Calls -> Trip!CallRecord]
    BY <1>1, <1>3, <2>1, RecordMoves
  <2>3. calls'[c] = r
    BY <1>1, <2>2 DEF TripTyped
  <2>4. r.pc = p /\ r.barred = {} /\ r.froze = calls[c].froze /\ r.agent = calls[c].agent
        /\ r.spent = calls[c].spent /\ r.allowed = calls[c].allowed
    BY <1>1 DEF Trip!CallRecord
  <2> HIDE DEF r
  <2>5. CallIsStopped(c)'
    BY <1>1, <1>3, <2>3, <2>4 DEF CallIsStopped
  <2>6. TripTyped'
    BY <1>1, <2>2 DEF TripTyped
  <2> QED BY <1>2, <2>2, <2>5, <2>6, OneCallMoves
<1>4. ASSUME NEW p \in {"agent", "consumeAgent", "rules", "spend"},
             calls' = [calls EXCEPT ![c].pc = p],
             calls[c].pc \in {"gate", "consumeGate", "agent", "consumeAgent"},
             "gate" \in calls[c].barred => FALSE,
             calls[c].agent \in calls[c].barred => p \in {"agent", "consumeAgent"},
             p \in {"agent", "rules"} => calls[c].pc \in {"gate", "agent"}
      PROVE  StopInv'
  <2> DEFINE r == [calls[c] EXCEPT !.pc = p]
  <2>1. p \in Trip!Pcs
    BY DEF Trip!Pcs
  <2>2. r \in Trip!CallRecord /\ calls' = [calls EXCEPT ![c] = r] /\ calls' \in [Calls -> Trip!CallRecord]
    BY <1>1, <1>4, <2>1, RecordMoves
  <2>3. calls'[c] = r
    BY <1>1, <2>2 DEF TripTyped
  <2>4. r.pc = p /\ r.barred = calls[c].barred /\ r.froze = calls[c].froze
        /\ r.agent = calls[c].agent /\ r.spent = calls[c].spent /\ r.allowed = calls[c].allowed
    BY <1>1 DEF Trip!CallRecord
  <2> HIDE DEF r
  <2>5. CallIsStopped(c)'
    BY <1>1, <1>4, <2>3, <2>4 DEF CallIsStopped
  <2>6. TripTyped'
    BY <1>1, <2>2 DEF TripTyped
  <2> QED BY <1>2, <2>2, <2>5, <2>6, OneCallMoves
<1>5. "gate" \in calls[c].barred => gateFreeze # "" /\ calls[c].pc \in {"gate", "consumeGate"}
  BY <1>1 DEF StopInv, StopsAreStored, CallIsStopped
<1>6. calls[c].pc # "idle" /\ calls[c].agent \in calls[c].barred => agentFreeze[calls[c].agent] # ""
  BY <1>1 DEF StopInv, StopsAreStored, CallIsStopped
<1>7. CASE /\ calls[c].pc \in {"gate", "consumeGate"} /\ gateFreeze = ""
           /\ calls' = [calls EXCEPT ![c].pc =
                              IF calls[c].pc = "gate" THEN "agent" ELSE "consumeAgent"]
  BY <1>4, <1>5, <1>7
<1>8. CASE /\ calls[c].pc \in {"agent", "consumeAgent"} /\ agentFreeze[calls[c].agent] = ""
           /\ calls' = [calls EXCEPT ![c].pc =
                              IF calls[c].pc = "agent" THEN "rules" ELSE "spend"]
  BY <1>4, <1>5, <1>6, <1>8
<1> QED BY <1>3, <1>7, <1>8

\* Each statement of HandleCall, finishAction and handleConsume keeps it.
LEMMA HandleKeepsStops ==
    ASSUME Trip!TripAssumption, StopInv, NEW c \in Calls, Trip!Handle(c)
    PROVE  StopInv'
<1> DEFINE a == calls[c].agent
<1>1. CallIsStopped(c) /\ TripTyped /\ calls[c] \in Trip!CallRecord /\ StopsAreStored
  BY DEF StopInv, TripTyped
<1>2. ASSUME NEW r \in Trip!CallRecord, calls' = [calls EXCEPT ![c] = r]
      PROVE  calls' \in [Calls -> Trip!CallRecord] /\ calls'[c] = r
  BY <1>1, <1>2 DEF TripTyped
<1>3. CASE Trip!Arrive(c)
  <2>1. PICK b \in Agents : calls' = [calls EXCEPT ![c].pc = "gate", ![c].agent = b,
                                                  ![c].barred = Trip!StopsOf(b)]
    BY <1>3 DEF Trip!Arrive
  <2>2. /\ calls[c].pc = "idle"
        /\ UNCHANGED <<now, scope, gateFreeze, agentFreeze, trips, latest, tripped, stops>>
    BY <1>3 DEF Trip!Arrive, Trip!At, Trip!freezeVars, Trip!countVars
  <2> DEFINE r == [calls[c] EXCEPT !.pc = "gate", !.agent = b, !.barred = Trip!StopsOf(b)]
  <2>3. r \in Trip!CallRecord
    BY <1>1 DEF Trip!CallRecord, Trip!Pcs, Trip!StopsOf, TripTyped
  <2>4. calls' = [calls EXCEPT ![c] = r]
    BY <2>1
  <2>5. /\ r.pc = "gate" /\ r.agent = b /\ r.barred = stops \cap {b, "gate"}
        /\ r.froze = calls[c].froze /\ r.spent = calls[c].spent /\ r.allowed = calls[c].allowed
    BY <1>1 DEF Trip!CallRecord, Trip!StopsOf
  <2> HIDE DEF r
  <2>6. CallIsStopped(c)'
    BY <1>1, <1>2, <2>2, <2>3, <2>4, <2>5 DEF CallIsStopped
  <2> QED BY <1>1, <1>2, <2>2, <2>3, <2>4, <2>6, OneCallMoves DEF TripTyped, StopsAreStored
<1>4. CASE Trip!Frozen(c) \/ Trip!AgentFrozen(c)
  <2>1. /\ UNCHANGED <<now, scope, gateFreeze, agentFreeze, trips, latest, tripped, stops>>
        /\ calls[c].pc \in {"gate", "agent"}
        /\ \/ calls' = [calls EXCEPT ![c].pc = "over", ![c].barred = {}]
           \/ /\ calls[c].pc = "gate" /\ gateFreeze = ""
              /\ calls' = [calls EXCEPT ![c].pc = "agent"]
           \/ /\ calls[c].pc = "agent" /\ agentFreeze[calls[c].agent] = ""
              /\ calls' = [calls EXCEPT ![c].pc = "rules"]
    BY <1>4 DEF Trip!Frozen, Trip!AgentFrozen, Trip!ReadFreeze, Trip!Refuse, Trip!Go, Trip!At,
                Trip!Agent, Trip!freezeVars, Trip!countVars
  <2>2. ~calls[c].froze /\ a \in Agents
    BY <1>1, <2>1 DEF CallIsStopped
  <2> QED BY <2>1, <2>2, ReadingStops
<1>5. CASE Trip!ConsumeGate(c) \/ Trip!ConsumeAgent(c)
  <2>1. /\ UNCHANGED <<now, scope, gateFreeze, agentFreeze, trips, latest, tripped, stops>>
        /\ calls[c].pc \in {"consumeGate", "consumeAgent"}
        /\ \/ calls' = [calls EXCEPT ![c].pc = "permit", ![c].barred = {}]
           \/ /\ calls[c].pc = "consumeGate" /\ gateFreeze = ""
              /\ calls' = [calls EXCEPT ![c].pc = "consumeAgent"]
           \/ /\ calls[c].pc = "consumeAgent" /\ agentFreeze[calls[c].agent] = ""
              /\ calls' = [calls EXCEPT ![c].pc = "spend"]
    BY <1>5 DEF Trip!ConsumeGate, Trip!ConsumeAgent, Trip!ReadAtConsume, Trip!Keep, Trip!Go,
                Trip!At, Trip!Agent, Trip!freezeVars, Trip!countVars
  <2>2. ~calls[c].froze /\ ~calls[c].spent /\ a \in Agents
    BY <1>1, <2>1 DEF CallIsStopped
  <2> QED BY <2>1, <2>2, ReadingStops
<1>6. CASE Trip!Decide(c)
  <2>1. /\ UNCHANGED <<now, scope, gateFreeze, agentFreeze, trips, latest, tripped, stops>>
        /\ calls[c].pc = "rules"
        /\ \/ calls' = [calls EXCEPT ![c].pc = "over", ![c].barred = {}]
           \/ calls' = [calls EXCEPT ![c].pc = "permit", ![c].allowed = TRUE]
           \/ calls' = [calls EXCEPT ![c].pc = "count", ![c].at = now]
    BY <1>6 DEF Trip!Decide, Trip!Refuse, Trip!At, Trip!freezeVars, Trip!countVars
  <2>2. ~calls[c].froze /\ ~calls[c].spent /\ a \in Agents
        /\ "gate" \notin calls[c].barred /\ a \notin calls[c].barred
    BY <1>1, <2>1 DEF CallIsStopped
  <2>3. CASE calls' = [calls EXCEPT ![c].pc = "over", ![c].barred = {}]
    BY <2>1, <2>2, <2>3, ReadingStops
  <2>4. CASE \/ calls' = [calls EXCEPT ![c].pc = "permit", ![c].allowed = TRUE]
             \/ calls' = [calls EXCEPT ![c].pc = "count", ![c].at = now]
    <3> DEFINE r == [calls[c] EXCEPT !.pc = "permit", !.allowed = TRUE]
               s == [calls[c] EXCEPT !.pc = "count", !.at = now]
    <3>1. r \in Trip!CallRecord /\ s \in Trip!CallRecord
      BY <1>1 DEF Trip!CallRecord, Trip!Pcs, TripTyped
    <3>2. calls' = [calls EXCEPT ![c] = r] \/ calls' = [calls EXCEPT ![c] = s]
      BY <2>4
    <3>3. \A x \in {r, s} : /\ x.pc \in {"permit", "count"} /\ x.agent = a
                            /\ x.barred = calls[c].barred
                            /\ x.froze = calls[c].froze /\ x.spent = calls[c].spent
                            /\ x.allowed => calls[c].allowed \/ x.pc = "permit"
      BY <1>1 DEF Trip!CallRecord
    <3> HIDE DEF r, s
    <3>4. PICK x \in {r, s} : calls' = [calls EXCEPT ![c] = x]
      BY <3>2
    <3>5. x \in Trip!CallRecord
      BY <3>1
    <3>6. CallIsStopped(c)'
      BY <1>1, <1>2, <2>1, <2>2, <3>3, <3>4, <3>5 DEF CallIsStopped
    <3> QED BY <1>1, <1>2, <2>1, <3>4, <3>5, <3>6, OneCallMoves DEF TripTyped, StopsAreStored
  <2> QED BY <2>1, <2>3, <2>4
<1>7. CASE Trip!CountDenial(c)
  <2>1. /\ UNCHANGED <<now, scope, gateFreeze, agentFreeze, stops>>
        /\ calls[c].pc = "count"
    BY <1>7 DEF Trip!CountDenial, Trip!At, Trip!freezeVars
  <2>2. ~calls[c].froze /\ ~calls[c].spent /\ a \in Agents
        /\ "gate" \notin calls[c].barred /\ a \notin calls[c].barred
    BY <1>1, <2>1 DEF CallIsStopped
  <2>3. PICK p \in {"trip", "answer"} : calls' = [calls EXCEPT ![c].counted = TRUE, ![c].pc = p]
    BY <1>7 DEF Trip!CountDenial
  <2> DEFINE r == [calls[c] EXCEPT !.counted = TRUE, !.pc = p]
  <2>4. r \in Trip!CallRecord
    BY <1>1 DEF Trip!CallRecord, Trip!Pcs
  <2>5. calls' = [calls EXCEPT ![c] = r]
    BY <2>3
  <2>6. /\ r.pc = p /\ r.agent = a /\ r.barred = calls[c].barred
        /\ r.froze = calls[c].froze /\ r.spent = calls[c].spent /\ r.allowed = calls[c].allowed
    BY <1>1 DEF Trip!CallRecord
  <2> HIDE DEF r
  <2>7. CallIsStopped(c)'
    BY <1>1, <1>2, <2>1, <2>2, <2>4, <2>5, <2>6 DEF CallIsStopped
  <2>8. /\ trips' \in [Agents -> SUBSET Calls] /\ latest' \in [Agents -> Trip!Time]
        /\ tripped' \subseteq SUBSET Calls
    <3> DEFINE S == Trip!Recent(Trip!Swept(calls[c].at)[a], calls[c].at) \cup {c}
    <3>1. Trip!Swept(calls[c].at) \in [Agents -> SUBSET Calls]
      BY <1>1 DEF Trip!Swept, TripTyped
    <3>2. S \in SUBSET Calls
      BY <2>2, <3>1 DEF Trip!Recent
    <3>3. calls[c].at \in Trip!Time
      BY <1>1 DEF Trip!CallRecord
    <3>4. /\ \E T \in {{}, S} : trips' = [Trip!Swept(calls[c].at) EXCEPT ![a] = T]
          /\ latest' = [latest EXCEPT ![a] = calls[c].at]
          /\ tripped' \in {tripped, tripped \cup {S}}
      BY <1>7 DEF Trip!CountDenial, Trip!Agent
    <3> HIDE DEF S
    <3>5. PICK T \in {{}, S} : trips' = [Trip!Swept(calls[c].at) EXCEPT ![a] = T]
      BY <3>4
    <3>6. trips' \in [Agents -> SUBSET Calls]
      BY <3>1, <3>2, <3>5
    <3>7. latest' \in [Agents -> Trip!Time]
      BY <1>1, <3>3, <3>4 DEF TripTyped
    <3>8. tripped' \subseteq SUBSET Calls
      BY <1>1, <3>2, <3>4 DEF TripTyped
    <3> QED BY <3>6, <3>7, <3>8
  <2> QED BY <1>1, <1>2, <2>1, <2>4, <2>5, <2>7, <2>8, OneCallMoves DEF TripTyped, StopsAreStored
<1>8. CASE Trip!Trip(c)
  <2>1. /\ UNCHANGED <<now, scope, trips, latest, tripped, stops>> /\ calls[c].pc = "trip"
    BY <1>8 DEF Trip!Trip, Trip!At, Trip!countVars
  <2>2. ~calls[c].froze /\ ~calls[c].spent /\ a \in Agents
        /\ "gate" \notin calls[c].barred /\ a \notin calls[c].barred
    BY <1>1, <2>1 DEF CallIsStopped
  <2> DEFINE r == [calls[c] EXCEPT !.pc = "answer", !.froze = TRUE]
             s == [calls[c] EXCEPT !.pc = "answer"]
  <2>3. r \in Trip!CallRecord /\ s \in Trip!CallRecord
    BY <1>1 DEF Trip!CallRecord, Trip!Pcs
  <2>4. /\ r.pc = "answer" /\ r.agent = a /\ r.barred = calls[c].barred
        /\ r.spent = calls[c].spent /\ r.allowed = calls[c].allowed
        /\ s.allowed = calls[c].allowed /\ s.pc = "answer" /\ s.agent = a /\ s.barred = calls[c].barred
        /\ s.spent = calls[c].spent /\ s.froze = calls[c].froze
    BY <1>1 DEF Trip!CallRecord
  <2>5. CASE calls' = [calls EXCEPT ![c] = s] /\ UNCHANGED <<gateFreeze, agentFreeze>>
    <3> HIDE DEF r, s
    <3>1. CallIsStopped(c)'
      BY <1>1, <1>2, <2>1, <2>2, <2>3, <2>4, <2>5 DEF CallIsStopped
    <3> QED BY <1>1, <1>2, <2>1, <2>3, <2>5, <3>1, OneCallMoves DEF TripTyped, StopsAreStored
  <2>6. CASE /\ calls' = [calls EXCEPT ![c] = r]
             /\ IF scope = "gate"
                THEN gateFreeze' = Trip!Freeze(gateFreeze, "trip") /\ UNCHANGED agentFreeze
                ELSE /\ agentFreeze' = [agentFreeze EXCEPT ![a] = Trip!Freeze(@, "trip")]
                     /\ UNCHANGED gateFreeze
    <3> HIDE DEF r, s
    <3>1. \A f \in Trip!Who : Trip!Freeze(f, "trip") \in Trip!Who /\ Trip!Freeze(f, "trip") # ""
      BY DEF Trip!Freeze, Trip!Who
    <3>2. /\ gateFreeze' \in Trip!Who /\ agentFreeze' \in [Agents -> Trip!Who]
          /\ gateFreeze # "" => gateFreeze' # ""
          /\ \A b \in Agents : agentFreeze[b] # "" => agentFreeze'[b] # ""
          /\ scope = "gate" => gateFreeze' # ""
          /\ scope # "gate" => agentFreeze'[a] # ""
      <4>1. gateFreeze \in Trip!Who /\ agentFreeze \in [Agents -> Trip!Who]
        BY <1>1 DEF TripTyped
      <4>2. CASE scope = "gate" BY <2>6, <3>1, <4>1, <4>2
      <4>3. CASE scope # "gate"
        BY <2>2, <2>6, <3>1, <4>1, <4>3, ZenonT(60)
      <4> QED BY <4>2, <4>3
    <3>3. CallIsStopped(c)'
      BY <1>1, <1>2, <2>1, <2>2, <2>3, <2>4, <2>6, <3>2 DEF CallIsStopped
    <3> QED BY <1>1, <1>2, <2>1, <2>3, <2>6, <3>2, <3>3, OneCallMoves DEF TripTyped, StopsAreStored
  <2>7. [calls EXCEPT ![c].pc = "answer"] = [calls EXCEPT ![c] = s]
    OBVIOUS
  <2>8. [calls EXCEPT ![c].pc = "answer", ![c].froze = TRUE] = [calls EXCEPT ![c] = r]
    OBVIOUS
  <2> QED BY <1>8, <2>5, <2>6, <2>7, <2>8 DEF Trip!Trip, Trip!Go, Trip!freezeVars, Trip!Agent
<1>9. CASE Trip!Answer(c)
  <2>1. /\ UNCHANGED <<now, scope, gateFreeze, agentFreeze, trips, latest, tripped>>
        /\ calls[c].pc = "answer"
        /\ calls' = [calls EXCEPT ![c].pc = "over", ![c].froze = FALSE, ![c].barred = {}]
        /\ stops' = IF ~calls[c].froze THEN stops
                    ELSE stops \cup {IF scope = "gate" THEN "gate" ELSE a}
    BY <1>9 DEF Trip!Answer, Trip!At, Trip!Agent, Trip!countVars, Trip!freezeVars
  <2>2. ~calls[c].spent /\ a \in Agents
    BY <1>1, <2>1 DEF CallIsStopped
  <2> DEFINE r == [calls[c] EXCEPT !.pc = "over", !.froze = FALSE, !.barred = {}]
  <2>3. r \in Trip!CallRecord
    BY <1>1 DEF Trip!CallRecord, Trip!Pcs
  <2>4. r.pc = "over" /\ r.agent = a /\ r.barred = {} /\ r.spent = calls[c].spent /\ ~r.froze
        /\ r.allowed = calls[c].allowed
    BY <1>1 DEF Trip!CallRecord
  <2>5. calls' = [calls EXCEPT ![c] = r]
    BY <2>1
  <2> HIDE DEF r
  <2>6. CallIsStopped(c)'
    BY <1>1, <1>2, <2>1, <2>2, <2>3, <2>4, <2>5 DEF CallIsStopped
  <2>7. stops \subseteq stops' /\ stops' \subseteq Agents \cup {"gate"}
    BY <1>1, <2>1, <2>2 DEF TripTyped
  <2>8. StopsAreStored'
    <3>1. CASE ~calls[c].froze BY <1>1, <2>1, <3>1 DEF StopsAreStored
    <3>2. CASE calls[c].froze /\ scope = "gate"
      BY <1>1, <2>1, <3>2 DEF StopsAreStored, CallIsStopped, Trip!TripAssumption
    <3>3. CASE calls[c].froze /\ scope # "gate"
      BY <1>1, <2>1, <2>2, <3>3 DEF StopsAreStored, CallIsStopped, Trip!TripAssumption
    <3> QED BY <3>1, <3>2, <3>3
  <2> QED BY <1>1, <1>2, <2>1, <2>3, <2>5, <2>6, <2>7, <2>8, OneCallMoves DEF TripTyped
<1>10. CASE Trip!Consume(c)
  <2>1. /\ UNCHANGED <<now, scope, gateFreeze, agentFreeze, trips, latest, tripped, stops>>
        /\ calls[c].pc = "permit"
        /\ calls' = [calls EXCEPT ![c].pc = "consumeGate", ![c].barred = Trip!StopsOf(a)]
    BY <1>10 DEF Trip!Consume, Trip!At, Trip!Agent, Trip!countVars, Trip!freezeVars
  <2>2. ~calls[c].spent /\ ~calls[c].froze /\ a \in Agents
    BY <1>1, <2>1 DEF CallIsStopped
  <2> DEFINE r == [calls[c] EXCEPT !.pc = "consumeGate", !.barred = Trip!StopsOf(a)]
  <2>3. r \in Trip!CallRecord
    BY <1>1, <2>2 DEF Trip!CallRecord, Trip!Pcs, Trip!StopsOf, TripTyped
  <2>4. r.pc = "consumeGate" /\ r.agent = a /\ r.barred = stops \cap {a, "gate"}
        /\ r.froze = calls[c].froze /\ r.spent = calls[c].spent /\ r.allowed = calls[c].allowed
    BY <1>1 DEF Trip!CallRecord, Trip!StopsOf
  <2>5. calls' = [calls EXCEPT ![c] = r]
    BY <2>1
  <2> HIDE DEF r
  <2>6. CallIsStopped(c)'
    BY <1>1, <1>2, <2>1, <2>2, <2>3, <2>4, <2>5 DEF CallIsStopped
  <2> QED BY <1>1, <1>2, <2>1, <2>3, <2>5, <2>6, OneCallMoves DEF TripTyped, StopsAreStored
<1>11. CASE Trip!Spend(c)
  <2>1. /\ UNCHANGED <<now, scope, gateFreeze, agentFreeze, trips, latest, tripped, stops>>
        /\ calls[c].pc = "spend"
        /\ calls' = [calls EXCEPT ![c].pc = "over", ![c].spent = TRUE]
    BY <1>11 DEF Trip!Spend, Trip!At, Trip!countVars, Trip!freezeVars
  <2>2. ~calls[c].froze /\ a \in Agents /\ "gate" \notin calls[c].barred /\ a \notin calls[c].barred
    BY <1>1, <2>1 DEF CallIsStopped
  <2> DEFINE r == [calls[c] EXCEPT !.pc = "over", !.spent = TRUE]
  <2>3. r \in Trip!CallRecord
    BY <1>1 DEF Trip!CallRecord, Trip!Pcs
  <2>4. r.pc = "over" /\ r.agent = a /\ r.barred = calls[c].barred /\ r.froze = calls[c].froze
    BY <1>1 DEF Trip!CallRecord
  <2>5. calls' = [calls EXCEPT ![c] = r]
    BY <2>1
  <2> HIDE DEF r
  <2>6. CallIsStopped(c)'
    BY <1>1, <1>2, <2>1, <2>2, <2>3, <2>4, <2>5 DEF CallIsStopped
  <2> QED BY <1>1, <1>2, <2>1, <2>3, <2>5, <2>6, OneCallMoves DEF TripTyped, StopsAreStored
<1> QED BY <1>3, <1>4, <1>5, <1>6, <1>7, <1>8, <1>9, <1>10, <1>11 DEF Trip!Handle

\* Whoever lifts a freeze releases what it stopped, and nothing else.
LEMMA UnfreezeKeepsStops ==
    ASSUME Trip!TripAssumption, StopInv, NEW x \in Agents \cup {"gate"}, Trip!Released(x),
           stops' = stops \ {x}, UNCHANGED <<now, scope, trips, latest, tripped>>,
           \/ x = "gate" /\ gateFreeze' = "" /\ agentFreeze' = agentFreeze
           \/ x \in Agents /\ gateFreeze' = gateFreeze /\ agentFreeze' = [agentFreeze EXCEPT ![x] = ""]
    PROVE  StopInv'
<1>1. ASSUME NEW c \in Calls
      PROVE  /\ calls'[c] \in Trip!CallRecord /\ calls'[c].pc = calls[c].pc
             /\ calls'[c].agent = calls[c].agent /\ calls'[c].spent = calls[c].spent
             /\ calls'[c].barred = calls[c].barred \ {x} /\ calls'[c].allowed = calls[c].allowed
             /\ calls'[c].froze => /\ calls[c].froze
                                   /\ x # IF scope = "gate" THEN "gate" ELSE calls[c].agent
  <2> DEFINE f == calls[c].froze /\ x # IF scope = "gate" THEN "gate" ELSE calls[c].agent
             r == [calls[c] EXCEPT !.barred = @ \ {x}, !.froze = f]
  <2>1. calls[c] \in Trip!CallRecord
    BY DEF StopInv, TripTyped
  <2>2. calls'[c] = [calls[c] EXCEPT !.barred = @ \ {x},
                         !.froze = @ /\ x # IF scope = "gate" THEN "gate" ELSE calls[c].agent]
    BY DEF Trip!Released, Trip!Agent
  <2>3. calls'[c] = r
    BY <2>1, <2>2 DEF Trip!CallRecord
  <2>4. f \in BOOLEAN
    BY DEF f
  <2>5. r \in Trip!CallRecord /\ r.froze = f /\ r.pc = calls[c].pc
        /\ r.agent = calls[c].agent /\ r.spent = calls[c].spent /\ r.barred = calls[c].barred \ {x}
        /\ r.allowed = calls[c].allowed
    <3> HIDE DEF f
    <3> QED BY <2>1, <2>4 DEF Trip!CallRecord
  <2> QED BY <2>3, <2>5 DEF f
<1>2. TripTyped'
  <2>1. calls' \in [Calls -> Trip!CallRecord]
    <3>1. calls' = [c \in Calls |-> calls'[c]]
      BY DEF Trip!Released
    <3> QED BY <1>1, <3>1
  <2>2. gateFreeze' \in Trip!Who /\ agentFreeze' \in [Agents -> Trip!Who]
    BY DEF StopInv, TripTyped, Trip!Who
  <2> QED BY <2>1, <2>2 DEF StopInv, TripTyped
<1>3. StopsAreStored'
  BY DEF StopInv, StopsAreStored, TripTyped, Trip!TripAssumption
<1>4. ASSUME NEW c \in Calls PROVE CallIsStopped(c)'
  <2>1. CallIsStopped(c) /\ (calls[c].froze => calls[c].agent \in Agents)
    BY DEF StopInv, CallIsStopped
  <2>2. calls'[c].barred \subseteq stops' \cap {calls'[c].agent, "gate"}
    BY <1>1, <2>1 DEF CallIsStopped
  <2>3. calls'[c].froze => /\ scope' = "gate" => gateFreeze' # ""
                           /\ scope' # "gate" => agentFreeze'[calls'[c].agent] # ""
    <3> SUFFICES ASSUME calls'[c].froze
                 PROVE  /\ scope = "gate" => gateFreeze' # ""
                        /\ scope # "gate" => agentFreeze'[calls[c].agent] # ""
      BY <1>1
    <3>1. /\ calls[c].froze /\ x # IF scope = "gate" THEN "gate" ELSE calls[c].agent
          /\ scope = "gate" => gateFreeze # ""
          /\ scope # "gate" => agentFreeze[calls[c].agent] # ""
          /\ calls[c].agent \in Agents
      BY <1>1, <2>1 DEF CallIsStopped
    <3>2. agentFreeze \in [Agents -> Trip!Who]
      BY DEF StopInv, TripTyped
    <3> QED BY <3>1, <3>2
  <2> QED BY <1>1, <2>1, <2>2, <2>3, ZenonT(60) DEF CallIsStopped
<1> QED BY <1>2, <1>3, <1>4 DEF StopInv

\* A restart ends every request; what was frozen stays frozen.
LEMMA RestartKeepsStops ==
    ASSUME StopInv, Trip!Restart PROVE StopInv'
<1>1. ASSUME NEW c \in Calls
      PROVE  /\ calls'[c] \in Trip!CallRecord /\ calls'[c].barred = {} /\ ~calls'[c].froze
             /\ calls'[c].agent = calls[c].agent
             /\ calls'[c].pc # "idle" => calls[c].pc # "idle"
             /\ calls'[c].spent => calls'[c].pc = "over"
             /\ calls'[c].allowed => calls'[c].pc \in {"permit", "over"}
  <2>1. calls[c] \in Trip!CallRecord /\ CallIsStopped(c)
    BY DEF StopInv, TripTyped
  <2>2. calls'[c] = Trip!Interrupted(c)
    BY DEF Trip!Restart
  <2> DEFINE p == IF calls[c].allowed /\ ~calls[c].spent THEN "permit"
                  ELSE IF calls[c].pc = "idle" THEN "idle" ELSE "over"
  <2>3. Trip!Interrupted(c) = [calls[c] EXCEPT !.counted = FALSE, !.froze = FALSE,
                                               !.barred = {}, !.pc = p]
    <3>1. CASE calls[c].allowed /\ ~calls[c].spent 
      BY <2>1, <3>1 DEF Trip!Interrupted, Trip!CallRecord, CallIsStopped
    <3>2. CASE ~(calls[c].allowed /\ ~calls[c].spent) /\ calls[c].pc = "idle"
      BY <2>1, <3>2 DEF Trip!Interrupted, Trip!CallRecord
    <3>3. CASE ~(calls[c].allowed /\ ~calls[c].spent) /\ calls[c].pc # "idle"
      BY <2>1, <3>3 DEF Trip!Interrupted, Trip!CallRecord
    <3> QED BY <3>1, <3>2, <3>3
  <2> DEFINE r == [calls[c] EXCEPT !.counted = FALSE, !.froze = FALSE, !.barred = {}, !.pc = p]
  <2>4. r \in Trip!CallRecord
    BY <2>1, ZenonT(60) DEF Trip!CallRecord, Trip!Pcs
  <2>5. /\ r.barred = {} /\ ~r.froze /\ r.pc = p /\ r.spent = calls[c].spent
        /\ r.allowed = calls[c].allowed /\ r.agent = calls[c].agent
    BY <2>1 DEF Trip!CallRecord
  <2>6. calls'[c] = r
    BY <2>2, <2>3
  <2> HIDE DEF r
  <2> QED BY <2>1, <2>3, <2>4, <2>5, <2>6 DEF CallIsStopped
<1>2. UNCHANGED <<now, scope, gateFreeze, agentFreeze, tripped, stops, latest>>
  BY DEF Trip!Restart, Trip!freezeVars
<1>3. TripTyped'
  <2>1. calls' = [c \in Calls |-> Trip!Interrupted(c)] /\ trips' = [a \in Agents |-> {}]
    BY DEF Trip!Restart
  <2>2. calls' \in [Calls -> Trip!CallRecord]
    BY <1>1, <2>1
  <2> QED BY <1>2, <2>1, <2>2 DEF StopInv, TripTyped
<1>4. StopsAreStored'
  BY <1>2 DEF StopInv, StopsAreStored
<1>5. ASSUME NEW c \in Calls PROVE CallIsStopped(c)'
  <2>1. CallIsStopped(c)
    BY DEF StopInv
  <2> QED BY <1>1, <2>1 DEF CallIsStopped
<1> QED BY <1>3, <1>4, <1>5 DEF StopInv

\* The invariant holds at the start, and every step keeps it.
LEMMA StopInit ==
    ASSUME Trip!TripAssumption, Trip!Init PROVE StopInv
<1>1. Trip!NoCall \in Trip!CallRecord
  BY DEF Trip!NoCall, Trip!CallRecord, Trip!Pcs, Trip!Time, Trip!TripAssumption
<1>2. TripTyped
  <2>1. 0 \in Trip!Time /\ "" \in Trip!Who
    BY DEF Trip!TripAssumption, Trip!Time, Trip!Who
  <2> QED BY <1>1, <2>1 DEF Trip!Init, TripTyped
<1>3. ASSUME NEW c \in Calls PROVE CallIsStopped(c)
  <2>1. calls[c] = Trip!NoCall
    BY DEF Trip!Init
  <2> QED BY <2>1 DEF CallIsStopped, Trip!NoCall
<1> QED BY <1>2, <1>3 DEF Trip!Init, StopInv, StopsAreStored

\* The same.
LEMMA StopStep ==
    ASSUME Trip!TripAssumption, StopInv, [Trip!Next]_(Trip!vars) PROVE StopInv'
<1>1. ASSUME NEW c \in Calls, Trip!Handle(c) PROVE StopInv'
  BY <1>1, HandleKeepsStops
<1>2. CASE Trip!OperatorFreeze
  BY <1>2 DEF Trip!OperatorFreeze, Trip!Freeze, Trip!Who, Trip!countVars, StopInv, TripTyped,
              StopsAreStored, CallIsStopped, Trip!TripAssumption
<1>3. CASE Trip!OperatorUnfreeze
  <2>1. UNCHANGED <<now, scope, trips, latest, tripped>>
    BY <1>3 DEF Trip!OperatorUnfreeze, Trip!countVars
  <2>2. CASE /\ gateFreeze' = "" /\ stops' = stops \ {"gate"} /\ Trip!Released("gate")
             /\ UNCHANGED agentFreeze
    BY <2>1, <2>2, UnfreezeKeepsStops
  <2>3. ASSUME NEW a \in Agents, agentFreeze' = [agentFreeze EXCEPT ![a] = ""],
               stops' = stops \ {a}, Trip!Released(a), UNCHANGED gateFreeze
        PROVE  StopInv'
    BY <2>1, <2>3, UnfreezeKeepsStops
  <2> QED BY <1>3, <2>2, <2>3 DEF Trip!OperatorUnfreeze
<1>4. CASE Trip!Restart
  BY <1>4, RestartKeepsStops
<1>5. CASE Trip!Tick
  <2>1. now' \in Trip!Time
    BY <1>5 DEF Trip!Tick, Trip!Time, StopInv, TripTyped, Trip!TripAssumption
  <2> QED BY <1>5, <2>1 DEF Trip!Tick, Trip!freezeVars, Trip!countVars, StopInv, TripTyped,
              StopsAreStored, CallIsStopped
<1>6. CASE UNCHANGED Trip!vars
  BY <1>6 DEF Trip!vars, Trip!freezeVars, Trip!countVars, StopInv, TripTyped,
              StopsAreStored, CallIsStopped
<1> QED BY <1>1, <1>2, <1>3, <1>4, <1>5, <1>6 DEF Trip!Next

\* From the moment somebody is told of a freeze until it is lifted, nothing that
\* comes in is allowed and no permit is handed out: a request that came while
\* its stop was on meets the row of that stop before it gets anywhere.
THEOREM FreezeStops ==
    ASSUME Trip!TripAssumption
    PROVE  Trip!Spec => [](Trip!StoppedMeansStopped /\ StoppedMeansStopped)
<1>1. StopInv => Trip!StoppedMeansStopped
  <2> SUFFICES ASSUME StopInv, NEW c \in Calls, calls[c].barred # {}
               PROVE  ~calls[c].spent /\ ~Trip!At(c, "permit")
    BY DEF Trip!StoppedMeansStopped
  <2>1. CallIsStopped(c)
    BY DEF StopInv
  <2>2. "gate" \in calls[c].barred \/ calls[c].agent \in calls[c].barred
    BY <2>1 DEF CallIsStopped
  <2> QED BY <2>1, <2>2 DEF CallIsStopped, Trip!At
<1>2. StopInv /\ [Trip!Next]_(Trip!vars) => StopInv'
  BY StopStep
<1>3. Trip!StoppedMeansStopped => StoppedMeansStopped
  BY DEF StoppedMeansStopped
<1> QED BY <1>1, <1>2, <1>3, StopInit, PTL DEF Trip!Spec

\* Denied for good: what a counted denial stays, across restarts.
Denied(c) == calls[c].pc \in {"trip", "answer", "over"} /\ ~calls[c].allowed

ClockedCall(c) ==
    /\ calls[c].at <= now /\ (calls[c].pc = "count" => now - calls[c].at <= Lag)
    /\ calls[c].counted => Denied(c)

\* The denials an agent's count holds, none of them in a trip.
CountIsFair(a) ==
    /\ IsFiniteSet(trips[a]) /\ Cardinality(trips[a]) < Denials
    /\ \A c \in trips[a] : /\ Denied(c) /\ calls[c].agent = a
                           /\ calls[c].at <= latest[a] + Lag
                           /\ \A S \in tripped : c \notin S

Earned(S) ==
    /\ Cardinality(S) = Denials /\ \A c \in S : Denied(c)
    /\ \A c, d \in S : /\ calls[c].agent = calls[d].agent
                       /\ calls[c].at - calls[d].at <= TripWithin + Lag

KeptOrOld(c) ==
    calls[c].counted => \/ c \in trips[calls[c].agent] \/ \E S \in tripped : c \in S
                        \/ now - calls[c].at > TripWithin - Lag

TripInv ==
    /\ StopInv
    /\ \A c \in Calls : ClockedCall(c) /\ KeptOrOld(c)
    /\ \A a \in Agents : CountIsFair(a)
    /\ \A S \in tripped : Earned(S) /\ \A T \in tripped : S = T \/ S \cap T = {}

\* The numbers among the constants, and those of the state.
LEMMA TripNumbers ==
    ASSUME Trip!TripAssumption, TripTyped
    PROVE  /\ Denials \in Nat /\ Denials > 1 /\ TripWithin \in Nat /\ Lag \in Nat /\ now \in Nat
           /\ \A c \in Calls : calls[c].at \in Nat /\ calls[c].counted \in BOOLEAN
           /\ \A a \in Agents : latest[a] \in Nat
<1>1. \A n \in Trip!Time : n \in Nat
  BY DEF Trip!TripAssumption, Trip!Time
<1>2. now \in Nat /\ \A a \in Agents : latest[a] \in Nat
  BY <1>1 DEF TripTyped
<1>3. ASSUME NEW c \in Calls PROVE calls[c].at \in Nat /\ calls[c].counted \in BOOLEAN
  <2>1. calls[c] \in Trip!CallRecord
    BY DEF TripTyped
  <2>2. calls[c].at \in Trip!Time /\ calls[c].counted \in BOOLEAN
    BY <2>1 DEF Trip!CallRecord
  <2> QED BY <1>1, <2>2
<1>4. Denials \in Nat /\ Denials > 1 /\ TripWithin \in Nat /\ Lag \in Nat
  BY DEF Trip!TripAssumption
<1> QED BY <1>2, <1>3, <1>4

\* A step that counts nothing: the counts and the trips stand as they are.
LEMMA NothingCounted ==
    ASSUME Trip!TripAssumption, TripInv, StopInv', UNCHANGED <<latest, tripped>>,
           trips' = trips \/ (trips' = [a \in Agents |-> {}] /\ \A c \in Calls : ~calls'[c].counted),
           now' >= now,
           \A c \in Calls : /\ Denied(c) => /\ Denied(c)' /\ calls'[c].agent = calls[c].agent
                                            /\ calls'[c].at = calls[c].at
                            /\ calls'[c].counted => calls[c].counted
                            /\ calls'[c].at <= now'
                            /\ calls'[c].pc = "count" => now' - calls'[c].at <= Lag
    PROVE  TripInv'
<1>1. TripTyped /\ TripTyped'
  BY DEF TripInv, StopInv
<1>2. /\ Denials \in Nat /\ Denials > 1 /\ TripWithin \in Nat /\ Lag \in Nat /\ now \in Nat
      /\ \A c \in Calls : calls[c].at \in Nat
      /\ \A a \in Agents : latest[a] \in Nat
  BY <1>1, TripNumbers
<1>3. now' \in Nat
  BY <1>1 DEF TripTyped, Trip!Time, Trip!TripAssumption
<1>4. ASSUME NEW c \in Calls PROVE ClockedCall(c)' /\ KeptOrOld(c)'
  <2>1. ClockedCall(c) /\ KeptOrOld(c)
    BY DEF TripInv
  <2>2. ClockedCall(c)'
    BY <2>1 DEF ClockedCall
  <2>3. CASE ~calls'[c].counted BY <2>2, <2>3 DEF KeptOrOld
  <2>4. CASE calls'[c].counted
    <3>1. trips' = trips
      BY <2>4
    <3>2. Denied(c) /\ calls'[c].at = calls[c].at /\ calls'[c].agent = calls[c].agent
      BY <2>1, <2>4 DEF ClockedCall
    <3>3. now - calls[c].at > TripWithin - Lag => now' - calls'[c].at > TripWithin - Lag
      BY <1>2, <1>3, <3>2
    <3> QED BY <2>1, <2>2, <2>4, <3>1, <3>2, <3>3 DEF KeptOrOld
  <2> QED BY <2>2, <2>3, <2>4
<1>5. ASSUME NEW a \in Agents PROVE CountIsFair(a)'
  <2>1. CountIsFair(a) /\ \A c \in trips[a] : c \in Calls
    BY <1>1 DEF TripInv, TripTyped
  <2>2. CASE trips' = trips
    BY <2>1, <2>2 DEF CountIsFair
  <2>3. CASE trips' = [b \in Agents |-> {}]
    <3>1. trips'[a] = {} /\ Cardinality({}) = 0 /\ IsFiniteSet({})
      BY <2>3, FS_EmptySet
    <3> QED BY <1>2, <3>1 DEF CountIsFair
  <2> QED BY <2>2, <2>3
<1>6. ASSUME NEW S \in tripped' PROVE Earned(S)' /\ \A T \in tripped' : S = T \/ S \cap T = {}
  <2>1. Earned(S) /\ \A c \in S : c \in Calls
    BY <1>1 DEF TripInv, TripTyped
  <2>2. \A c \in S : /\ Denied(c)' /\ calls'[c].agent = calls[c].agent
                     /\ calls'[c].at = calls[c].at
    BY <2>1 DEF Earned
  <2> QED BY <2>1, <2>2 DEF Earned, TripInv
<1> QED BY <1>4, <1>5, <1>6 DEF TripInv

\* A handler that counts nothing: a denied call goes on to its end, another
\* one's clock is read at most.
LEMMA HandleCountsNothing ==
    ASSUME Trip!TripAssumption, TripInv, StopInv', NEW c \in Calls, Trip!Handle(c),
           ~Trip!CountDenial(c)
    PROVE  TripInv'
<1>1. TripTyped /\ calls[c] \in Trip!CallRecord /\ ClockedCall(c) /\ CallIsStopped(c)
  BY DEF TripInv, StopInv, TripTyped
<1>2. calls[c].at \in Nat /\ now \in Nat /\ Lag \in Nat
  BY <1>1, TripNumbers
<1> DEFINE Same(r) == r.counted = calls[c].counted /\ r.agent = calls[c].agent
           StaysDenied(r) == /\ calls[c].pc \in {"trip", "answer"} /\ r.pc \in {"answer", "over"}
                      /\ r.at = calls[c].at /\ r.agent = calls[c].agent
                      /\ r.allowed = calls[c].allowed
           GoesOn(r) == /\ calls[c].pc \notin {"trip", "answer", "over"}
                      /\ \/ r.at = calls[c].at /\ r.pc # "count"
                         \/ r.at = now
<1>3. ASSUME NEW r, calls' = [calls EXCEPT ![c] = r], r.counted = calls[c].counted,
             StaysDenied(r) \/ GoesOn(r), UNCHANGED <<now, latest, tripped, trips>>
      PROVE  TripInv'
  <2>1. calls'[c] = r /\ \A d \in Calls : d # c => calls'[d] = calls[d]
    BY <1>1, <1>3 DEF TripTyped
  <2>2. ASSUME NEW d \in Calls
        PROVE  /\ Denied(d) => /\ Denied(d)' /\ calls'[d].agent = calls[d].agent
                               /\ calls'[d].at = calls[d].at
               /\ calls'[d].counted => calls[d].counted
               /\ calls'[d].at <= now'
               /\ calls'[d].pc = "count" => now' - calls'[d].at <= Lag
    <3>1. CASE d # c
      <4>1. ClockedCall(d)
        BY DEF TripInv
      <4> QED BY <1>3, <2>1, <3>1, <4>1 DEF Denied, ClockedCall
    <3>2. CASE d = c /\ StaysDenied(r)
      BY <1>1, <1>3, <2>1, <3>2 DEF Denied, ClockedCall
    <3>3. CASE d = c /\ GoesOn(r)
      BY <1>1, <1>2, <1>3, <2>1, <3>3 DEF Denied, ClockedCall
    <3> QED BY <1>3, <3>1, <3>2, <3>3
  <2>3. now' >= now
    BY <1>2, <1>3
  <2> QED BY <1>3, <2>2, <2>3, NothingCounted
<1>4. ASSUME NEW p \in {"over", "permit", "agent", "rules", "consumeAgent", "spend"},
             \/ calls' = [calls EXCEPT ![c].pc = p, ![c].barred = {}]
             \/ calls' = [calls EXCEPT ![c].pc = p],
             calls[c].pc \notin {"trip", "answer", "over"},
             UNCHANGED <<now, latest, tripped, trips>>
      PROVE  TripInv'
  <2> DEFINE r == [calls[c] EXCEPT !.pc = p, !.barred = {}]
             s == [calls[c] EXCEPT !.pc = p]
  <2>1. \A x \in {r, s} : x.counted = calls[c].counted /\ x.at = calls[c].at /\ x.pc = p
    BY <1>1 DEF Trip!CallRecord
  <2>2. calls' = [calls EXCEPT ![c] = r] \/ calls' = [calls EXCEPT ![c] = s]
    BY <1>4
  <2> HIDE DEF r, s
  <2>3. \A x \in {r, s} : GoesOn(x)
    BY <1>4, <2>1
  <2> QED BY <1>3, <1>4, <2>1, <2>2, <2>3
<1>5. CASE Trip!Frozen(c) \/ Trip!AgentFrozen(c)
  BY <1>4, <1>5 DEF Trip!Frozen, Trip!AgentFrozen, Trip!ReadFreeze, Trip!Refuse, Trip!Go, Trip!At,
                    Trip!countVars
<1>6. CASE Trip!ConsumeGate(c) \/ Trip!ConsumeAgent(c)
  BY <1>4, <1>6 DEF Trip!ConsumeGate, Trip!ConsumeAgent, Trip!ReadAtConsume, Trip!Keep, Trip!Go,
                    Trip!At, Trip!countVars
<1>7. CASE Trip!Arrive(c) \/ Trip!Consume(c)
  <2> DEFINE Comes(p, b, B) ==
               calls' = [calls EXCEPT ![c] = [calls[c] EXCEPT !.pc = p, !.agent = b, !.barred = B]]
  <2>1. \E p \in {"gate", "consumeGate"} : \E b, B : Comes(p, b, B)
    <3>1. CASE Trip!Arrive(c)
      <4>1. PICK b \in Agents : Comes("gate", b, Trip!StopsOf(b))
        BY <3>1 DEF Trip!Arrive
      <4> HIDE DEF Comes
      <4> QED BY <4>1
    <3>2. CASE Trip!Consume(c)
      <4>1. calls' = [calls EXCEPT ![c].pc = "consumeGate",
                                   ![c].barred = Trip!StopsOf(calls[c].agent)]
        BY <3>2 DEF Trip!Consume, Trip!Agent
      <4>2. [calls[c] EXCEPT !.pc = "consumeGate", !.barred = Trip!StopsOf(calls[c].agent)]
              = [calls[c] EXCEPT !.pc = "consumeGate", !.agent = calls[c].agent,
                                 !.barred = Trip!StopsOf(calls[c].agent)]
        BY <1>1 DEF Trip!CallRecord
      <4>3. Comes("consumeGate", calls[c].agent, Trip!StopsOf(calls[c].agent))
        BY <4>1, <4>2
      <4> HIDE DEF Comes
      <4> QED BY <4>3
    <3> QED BY <1>7, <3>1, <3>2
  <2>5. PICK p \in {"gate", "consumeGate"} : \E b, B : Comes(p, b, B)
    BY <2>1
  <2>6. PICK b, B : Comes(p, b, B)
    BY <2>5
  <2> DEFINE r == [calls[c] EXCEPT !.pc = p, !.agent = b, !.barred = B]
  <2>2. r.counted = calls[c].counted /\ r.at = calls[c].at /\ r.pc = p
    BY <1>1 DEF Trip!CallRecord
  <2>3. /\ calls[c].pc \in {"idle", "permit"} /\ UNCHANGED <<now, latest, tripped, trips>>
    BY <1>7 DEF Trip!Arrive, Trip!Consume, Trip!At, Trip!countVars
  <2>4. calls' = [calls EXCEPT ![c] = r]
    BY <2>6
  <2> HIDE DEF r
  <2> QED BY <1>3, <2>2, <2>3, <2>4
<1>8. CASE Trip!Decide(c)
  <2>1. /\ UNCHANGED <<now, trips, latest, tripped>> /\ calls[c].pc = "rules"
        /\ \/ calls' = [calls EXCEPT ![c].pc = "over", ![c].barred = {}]
           \/ calls' = [calls EXCEPT ![c].pc = "permit", ![c].allowed = TRUE]
           \/ calls' = [calls EXCEPT ![c].pc = "count", ![c].at = now]
    BY <1>8 DEF Trip!Decide, Trip!Refuse, Trip!At, Trip!countVars
  <2> DEFINE r == [calls[c] EXCEPT !.pc = "permit", !.allowed = TRUE]
             s == [calls[c] EXCEPT !.pc = "count", !.at = now]
  <2>2. /\ r.counted = calls[c].counted /\ r.at = calls[c].at /\ r.pc = "permit"
        /\ s.counted = calls[c].counted /\ s.at = now
    BY <1>1 DEF Trip!CallRecord
  <2>3. CASE calls' = [calls EXCEPT ![c].pc = "over", ![c].barred = {}]
    BY <1>4, <2>1, <2>3
  <2>4. CASE calls' = [calls EXCEPT ![c].pc = "permit", ![c].allowed = TRUE]
    <3>1. calls' = [calls EXCEPT ![c] = r]
      BY <2>4
    <3> HIDE DEF r, s
    <3> QED BY <1>3, <2>1, <2>2, <3>1
  <2>5. CASE calls' = [calls EXCEPT ![c].pc = "count", ![c].at = now]
    <3>1. calls' = [calls EXCEPT ![c] = s]
      BY <2>5
    <3> HIDE DEF r, s
    <3> QED BY <1>3, <2>1, <2>2, <3>1
  <2> QED BY <2>1, <2>3, <2>4, <2>5
<1>9. CASE Trip!Trip(c) \/ Trip!Answer(c)
  <2> DEFINE r == [calls[c] EXCEPT !.pc = "answer", !.froze = TRUE]
             s == [calls[c] EXCEPT !.pc = "answer"]
             t == [calls[c] EXCEPT !.pc = "over", !.froze = FALSE, !.barred = {}]
  <2>1. \A x \in {r, s, t} : /\ x.counted = calls[c].counted /\ x.at = calls[c].at
                             /\ x.pc \in {"answer", "over"} /\ x.agent = calls[c].agent
                             /\ x.allowed = calls[c].allowed
    BY <1>1 DEF Trip!CallRecord
  <2>2. \E x \in {r, s, t} : calls' = [calls EXCEPT ![c] = x]
    BY <1>9 DEF Trip!Trip, Trip!Answer, Trip!Go
  <2>3. calls[c].pc \in {"trip", "answer"} /\ UNCHANGED <<now, latest, tripped, trips>>
    BY <1>9 DEF Trip!Trip, Trip!Answer, Trip!At, Trip!countVars
  <2> HIDE DEF r, s, t
  <2> QED BY <1>3, <2>1, <2>2, <2>3
<1>10. CASE Trip!Spend(c)
  <2> DEFINE r == [calls[c] EXCEPT !.pc = "over", !.spent = TRUE]
  <2>1. r.counted = calls[c].counted /\ r.at = calls[c].at /\ r.pc = "over"
    BY <1>1 DEF Trip!CallRecord
  <2>2. calls' = [calls EXCEPT ![c] = r]
    BY <1>10 DEF Trip!Spend
  <2>3. calls[c].pc = "spend" /\ UNCHANGED <<now, latest, tripped, trips>>
    BY <1>10 DEF Trip!Spend, Trip!At, Trip!countVars
  <2> HIDE DEF r
  <2> QED BY <1>3, <2>1, <2>2, <2>3
<1> QED BY <1>5, <1>6, <1>7, <1>8, <1>9, <1>10 DEF Trip!Handle

\* countDenial: what leaves a count is older than the window, less what a
\* handler can be held up; what fills it trips, and leaves it.
LEMMA CountKeepsTrips ==
    ASSUME Trip!TripAssumption, TripInv, StopInv', NEW c \in Calls, Trip!CountDenial(c)
    PROVE  TripInv'
<1> DEFINE a == calls[c].agent
           t == calls[c].at
           S == Trip!Swept(t)
           R == Trip!Recent(S[a], t)
           E == R \cup {c}
<1>1. TripTyped /\ TripTyped' /\ calls[c] \in Trip!CallRecord /\ ClockedCall(c) /\ CallIsStopped(c)
  BY DEF TripInv, StopInv, TripTyped
<1>2. /\ Denials \in Nat /\ Denials > 1 /\ TripWithin \in Nat /\ Lag \in Nat /\ now \in Nat
      /\ \A d \in Calls : calls[d].at \in Nat /\ calls[d].counted \in BOOLEAN
      /\ \A b \in Agents : latest[b] \in Nat
  BY <1>1, TripNumbers
<1>3. /\ calls[c].pc = "count" /\ now' = now
      /\ trips' = [S EXCEPT ![a] = IF Cardinality(E) >= Denials THEN {} ELSE E]
      /\ latest' = [latest EXCEPT ![a] = t]
      /\ tripped' = IF Cardinality(E) >= Denials THEN tripped \cup {E} ELSE tripped
      /\ \E p \in {"trip", "answer"} : calls' = [calls EXCEPT ![c].counted = TRUE, ![c].pc = p]
  BY DEF Trip!CountDenial, Trip!At, Trip!Agent, Trip!Cardinality, Cardinality
<1>4. a \in Agents /\ ~calls[c].allowed /\ ~calls[c].counted /\ ~Denied(c)
  BY <1>1, <1>3 DEF CallIsStopped, ClockedCall, Denied
<1>5. t \in Nat /\ t <= now /\ now <= t + Lag
  BY <1>1, <1>2, <1>3 DEF ClockedCall
<1>6. /\ \A d \in Calls : d # c => calls'[d] = calls[d]
      /\ Denied(c)' /\ calls'[c].agent = a /\ calls'[c].at = t
      /\ calls'[c].pc # "count"
  <2>1. PICK p \in {"trip", "answer"} : calls' = [calls EXCEPT ![c].counted = TRUE, ![c].pc = p]
    BY <1>3
  <2> DEFINE r == [calls[c] EXCEPT !.counted = TRUE, !.pc = p]
  <2>2. r.pc = p /\ r.allowed = calls[c].allowed /\ r.agent = a /\ r.at = t
    BY <1>1 DEF Trip!CallRecord
  <2>3. calls' = [calls EXCEPT ![c] = r]
    BY <2>1
  <2>4. calls'[c] = r /\ \A d \in Calls : d # c => calls'[d] = calls[d]
    BY <1>1, <2>3 DEF TripTyped
  <2> HIDE DEF r
  <2> QED BY <1>4, <2>2, <2>4 DEF Denied
<1>7. ASSUME NEW b \in Agents
      PROVE  /\ S[b] \in {{}, trips[b]}
             /\ \A d \in trips[b] : d \notin S[b] => t - latest[b] > TripWithin
  <2>1. S[b] = IF Trip!Sweeping(t) /\ Trip!Stale(b, t) THEN {} ELSE trips[b]
    BY DEF Trip!Swept
  <2> QED BY <2>1 DEF Trip!Stale
<1>8. R = {d \in S[a] : t - calls[d].at <= TripWithin} /\ S \in [Agents -> SUBSET Calls]
  BY <1>1, <1>7 DEF Trip!Recent, Trip!Swept, TripTyped
<1> HIDE DEF S
<1>9. /\ R \subseteq trips[a] /\ R \subseteq Calls /\ c \notin R
      /\ \A d \in R : t - calls[d].at <= TripWithin
  <2>1. CountIsFair(a)
    BY <1>4 DEF TripInv
  <2>2. \A d \in trips[a] : Denied(d) /\ d \in Calls
    BY <1>1, <1>4, <2>1 DEF CountIsFair, TripTyped
  <2> QED BY <1>4, <1>7, <1>8, <2>2
<1> HIDE DEF R
<1>10. IsFiniteSet(E) /\ Cardinality(E) \in Nat /\ Cardinality(E) <= Denials
  <2>1. IsFiniteSet(trips[a]) /\ Cardinality(trips[a]) < Denials
    BY <1>4 DEF TripInv, CountIsFair
  <2>2. IsFiniteSet(R) /\ Cardinality(R) <= Cardinality(trips[a])
    BY <1>9, <2>1, FS_Subset
  <2>3. Cardinality(R) \in Nat /\ Cardinality(trips[a]) \in Nat
    BY <2>1, <2>2, FS_CardinalityType
  <2>4. IsFiniteSet(E) /\ Cardinality(E) = Cardinality(R) + 1
    BY <1>9, <2>2, FS_AddElement
  <2> QED BY <1>2, <2>1, <2>2, <2>3, <2>4
<1>11. \A d \in E : /\ d \in Calls /\ calls[d].agent = a /\ calls'[d].agent = a /\ Denied(d)'
                    /\ calls'[d].at = calls[d].at
                    /\ t - calls[d].at <= TripWithin /\ calls[d].at <= t + Lag
                    /\ \A T \in tripped : d \notin T
  <2>1. ASSUME NEW d \in R
        PROVE  /\ d \in Calls /\ calls[d].agent = a /\ calls'[d].agent = a /\ Denied(d)'
               /\ calls'[d].at = calls[d].at
               /\ t - calls[d].at <= TripWithin /\ calls[d].at <= t + Lag
               /\ \A T \in tripped : d \notin T
    <3>1. d \in Calls /\ d # c /\ d \in trips[a]
      BY <1>9
    <3>2. Denied(d) /\ calls[d].agent = a /\ \A T \in tripped : d \notin T
      BY <1>4, <3>1 DEF TripInv, CountIsFair
    <3>3. calls[d].at <= now
      BY <3>1 DEF TripInv, ClockedCall
    <3>4. calls[d].at <= t + Lag
      BY <1>2, <1>5, <3>1, <3>3
    <3> QED BY <1>6, <1>9, <3>1, <3>2, <3>4 DEF Denied
  <2>2. /\ c \in Calls /\ calls[c].agent = a /\ calls'[c].agent = a /\ Denied(c)'
        /\ calls'[c].at = calls[c].at /\ t - calls[c].at <= TripWithin /\ calls[c].at <= t + Lag
    BY <1>2, <1>5, <1>6
  <2>3. \A T \in tripped : c \notin T
    BY <1>4 DEF TripInv, Earned
  <2> QED BY <2>1, <2>2, <2>3
<1>12. ASSUME NEW d \in Calls, Denied(d)
       PROVE  Denied(d)' /\ calls'[d] = calls[d] /\ d # c
  BY <1>4, <1>6, <1>12 DEF Denied
<1> HIDE DEF E
<1>12a. PICK F : F = E
  OBVIOUS
<1>13. ASSUME NEW T \in tripped' PROVE Earned(T)' /\ \A U \in tripped' : T = U \/ T \cap U = {}
  <2>1. ASSUME NEW V \in tripped PROVE Earned(V)' /\ V \subseteq Calls
    <3>1. Earned(V) /\ V \subseteq Calls
      BY <1>1 DEF TripInv, TripTyped
    <3>2. \A d \in V : Denied(d)' /\ calls'[d] = calls[d]
      BY <1>12, <3>1 DEF Earned
    <3> QED BY <3>1, <3>2 DEF Earned
  <2>2. CASE T \in tripped /\ \A U \in tripped' : U \in tripped
    BY <2>1, <2>2 DEF TripInv
  <2>3. CASE Cardinality(E) >= Denials
    <3>1. Cardinality(E) = Denials
      BY <1>2, <1>10, <2>3
    <3>2. ASSUME NEW d \in F, NEW e \in F
          PROVE  calls'[d].agent = calls'[e].agent /\ calls'[d].at - calls'[e].at <= TripWithin + Lag
      <4>1. /\ d \in Calls /\ e \in Calls /\ calls'[d].agent = a /\ calls'[e].agent = a
            /\ calls'[d].at = calls[d].at /\ calls'[e].at = calls[e].at
            /\ t - calls[e].at <= TripWithin /\ calls[d].at <= t + Lag
        BY <1>11, <1>12a
      <4>2. calls[d].at \in Nat /\ calls[e].at \in Nat
        BY <1>2, <4>1
      <4>3. calls[d].at - calls[e].at <= TripWithin + Lag
        BY <1>2, <1>5, <4>1, <4>2
      <4> QED BY <4>1, <4>3
    <3>3. Earned(F)'
      <4>1. Cardinality(F) = Denials /\ \A d \in F : Denied(d)'
        BY <1>11, <1>12a, <3>1
      <4> QED BY <3>2, <4>1 DEF Earned
    <3>4. tripped' = tripped \cup {F} /\ \A V \in tripped : V \cap F = {}
      BY <1>3, <1>11, <1>12a, <2>3
    <3>5. \A V, U \in tripped : V = U \/ V \cap U = {}
      BY DEF TripInv
    <3>6. Earned(T)'
      BY <2>1, <3>3, <3>4
    <3>7. \A U \in tripped' : T = U \/ T \cap U = {}
      BY <3>4, <3>5
    <3> QED BY <3>6, <3>7
  <2> QED BY <1>3, <2>2, <2>3
<1>14. ASSUME NEW b \in Agents PROVE CountIsFair(b)'
  <2>1. CountIsFair(b) /\ \A d \in trips[b] : d \in Calls
    BY <1>1 DEF TripInv, TripTyped
  <2>2. IsFiniteSet({}) /\ Cardinality({}) = 0
    BY FS_EmptySet
  <2>3. CASE trips'[b] = {}
    BY <1>2, <2>2, <2>3 DEF CountIsFair
  <2>4. CASE b = a /\ ~(Cardinality(E) >= Denials)
    <3>1. trips'[b] = E /\ latest'[b] = t /\ tripped' = tripped
      BY <1>1, <1>3, <1>8, <2>4 DEF TripTyped
    <3>2. Cardinality(E) < Denials
      BY <1>2, <1>10, <2>4
    <3> QED BY <1>10, <1>11, <2>4, <3>1, <3>2 DEF CountIsFair
  <2>5. CASE b # a /\ trips'[b] = trips[b]
    <3>1. latest'[b] = latest[b]
      BY <1>1, <1>3, <2>5 DEF TripTyped
    <3>2. ASSUME NEW d \in trips[b]
          PROVE  /\ Denied(d)' /\ calls'[d].agent = b /\ calls'[d].at <= latest[b] + Lag
                 /\ \A T \in tripped' : d \notin T
      <4>1. d \in Calls /\ Denied(d) /\ calls[d].agent = b /\ calls[d].at <= latest[b] + Lag
            /\ \A T \in tripped : d \notin T
        BY <2>1 DEF CountIsFair
      <4>2. d \notin E
        BY <1>11, <2>5, <4>1
      <4> QED BY <1>3, <1>12, <4>1, <4>2
    <3> QED BY <2>1, <2>5, <3>1, <3>2 DEF CountIsFair
  <2>6. b # a => trips'[b] \in {{}, trips[b]}
    BY <1>3, <1>7, <1>8
  <2>7. b = a => trips'[b] = IF Cardinality(E) >= Denials THEN {} ELSE E
    BY <1>3, <1>8
  <2> QED BY <2>3, <2>4, <2>5, <2>6, <2>7
<1>15. E \subseteq trips'[a] \/ E \in tripped'
  BY <1>3, <1>4, <1>8
<1>16. ASSUME NEW d \in Calls PROVE ClockedCall(d)' /\ KeptOrOld(d)'
  <2>1. CASE d = c
    <3>1. c \in E
      BY DEF E
    <3>2. ClockedCall(c)'
      BY <1>3, <1>5, <1>6 DEF ClockedCall
    <3>3. c \in trips'[calls'[c].agent] \/ \E T \in tripped' : c \in T
      BY <1>6, <1>15, <3>1
    <3> QED BY <2>1, <3>2, <3>3 DEF KeptOrOld
  <2>2. CASE d # c
    <3>1. calls'[d] = calls[d] /\ ClockedCall(d) /\ KeptOrOld(d)
      BY <1>6, <2>2 DEF TripInv
    <3>2. ClockedCall(d)'
      BY <1>3, <3>1 DEF ClockedCall, Denied
    <3> DEFINE b == calls[d].agent
    <3>3. ASSUME calls[d].counted
          PROVE  \/ d \in trips'[b] \/ \E T \in tripped' : d \in T
                 \/ now' - calls[d].at > TripWithin - Lag
      <4>1. CASE now - calls[d].at > TripWithin - Lag
        BY <1>3, <4>1
      <4>2. CASE \E T \in tripped : d \in T
        BY <1>3, <4>2
      <4>3. CASE d \in trips[b]
        <5>1. b \in Agents
          BY <3>1, <3>3 DEF ClockedCall, Denied, TripInv, StopInv, CallIsStopped
        <5>2. calls[d].at <= latest[b] + Lag
          BY <4>3, <5>1 DEF TripInv, CountIsFair
        <5>3. calls[d].at \in Nat /\ latest[b] \in Nat
          BY <1>2, <5>1
        <5>4. CASE d \notin S[b]
          <6>1. t - latest[b] > TripWithin
            BY <1>7, <4>3, <5>1, <5>4
          <6>2. now - calls[d].at > TripWithin - Lag
            BY <1>2, <1>5, <5>2, <5>3, <6>1
          <6> QED BY <1>3, <6>2
        <5>5. CASE d \in S[b] /\ b # a
          BY <1>3, <1>8, <5>1, <5>5
        <5>6. CASE d \in S[b] /\ b = a
          <6>1. CASE d \in R
            <7>1. d \in E
              BY <6>1 DEF E
            <7> QED BY <1>15, <5>6, <7>1
          <6>2. CASE d \notin R
            <7>1. ~(t - calls[d].at <= TripWithin)
              BY <1>8, <5>6, <6>2
            <7>2. now - calls[d].at > TripWithin - Lag
              BY <1>2, <1>5, <5>3, <7>1
            <7> QED BY <1>3, <7>2
          <6> QED BY <6>1, <6>2
        <5> QED BY <5>4, <5>5, <5>6
      <4> QED BY <3>1, <3>3, <4>1, <4>2, <4>3 DEF KeptOrOld
    <3> QED BY <3>1, <3>2, <3>3 DEF KeptOrOld
  <2> QED BY <2>1, <2>2
<1> QED BY <1>13, <1>14, <1>16 DEF TripInv

\* The invariant holds at the start, and every step keeps it.
LEMMA TripInit ==
    ASSUME Trip!TripAssumption, Trip!Init PROVE TripInv
<1>1. StopInv
  BY StopInit
<1>2. IsFiniteSet({}) /\ Cardinality({}) = 0
  BY FS_EmptySet
<1>3. Denials \in Nat /\ Denials > 1 /\ Lag \in Nat
  BY DEF Trip!TripAssumption
<1>4. /\ now = 0 /\ tripped = {} /\ \A a \in Agents : trips[a] = {}
      /\ \A c \in Calls : calls[c] = Trip!NoCall
  BY DEF Trip!Init
<1>6. ASSUME NEW a \in Agents PROVE CountIsFair(a)
  <2>1. trips[a] = {}
    BY <1>4
  <2> QED BY <1>2, <1>3, <2>1 DEF CountIsFair
<1>5. ASSUME NEW c \in Calls PROVE ClockedCall(c) /\ KeptOrOld(c)
  <2>1. calls[c].at = 0 /\ calls[c].pc = "idle" /\ ~calls[c].counted
    BY <1>4 DEF Trip!NoCall
  <2> QED BY <1>3, <1>4, <2>1 DEF ClockedCall, KeptOrOld
<1> QED BY <1>1, <1>4, <1>5, <1>6 DEF TripInv

\* The same.
LEMMA TripStep ==
    ASSUME Trip!TripAssumption, TripInv, [Trip!Next]_(Trip!vars) PROVE TripInv'
<1>1. StopInv'
  BY StopStep DEF TripInv
<1>2. TripTyped /\ now \in Nat /\ Lag \in Nat /\ \A c \in Calls : calls[c].at \in Nat
  BY TripNumbers DEF TripInv, StopInv
<1>3. ASSUME NEW c \in Calls, Trip!Handle(c) PROVE TripInv'
  BY <1>1, <1>3, HandleCountsNothing, CountKeepsTrips
<1>4. ASSUME UNCHANGED <<latest, tripped, trips>>, now' = now,
             \A c \in Calls : /\ calls'[c].pc = calls[c].pc /\ calls'[c].at = calls[c].at
                              /\ calls'[c].agent = calls[c].agent
                              /\ calls'[c].allowed = calls[c].allowed
                              /\ calls'[c].counted = calls[c].counted
      PROVE  TripInv'
  <2>1. \A c \in Calls : ClockedCall(c)
    BY DEF TripInv
  <2> QED BY <1>1, <1>2, <1>4, <2>1, NothingCounted DEF ClockedCall, Denied
<1>5. CASE Trip!OperatorFreeze
  BY <1>4, <1>5 DEF Trip!OperatorFreeze, Trip!countVars
<1>6. CASE Trip!OperatorUnfreeze
  <2>1. PICK x : Trip!Released(x)
    BY <1>6 DEF Trip!OperatorUnfreeze
  <2>2. ASSUME NEW c \in Calls
        PROVE  /\ calls'[c].pc = calls[c].pc /\ calls'[c].at = calls[c].at
               /\ calls'[c].agent = calls[c].agent
               /\ calls'[c].allowed = calls[c].allowed
               /\ calls'[c].counted = calls[c].counted
    <3>1. calls[c] \in Trip!CallRecord
      BY <1>2 DEF TripTyped
    <3>2. calls'[c] = [calls[c] EXCEPT !.barred = @ \ {x},
                         !.froze = @ /\ x # IF scope = "gate" THEN "gate" ELSE calls[c].agent]
      BY <2>1 DEF Trip!Released, Trip!Agent
    <3> QED BY <3>1, <3>2 DEF Trip!CallRecord
  <2> QED BY <1>4, <1>6, <2>2 DEF Trip!OperatorUnfreeze, Trip!countVars
<1>7. CASE Trip!Restart
  <2>1. UNCHANGED <<latest, tripped, now>> /\ trips' = [a \in Agents |-> {}]
    BY <1>7 DEF Trip!Restart
  <2>2. ASSUME NEW c \in Calls
        PROVE  /\ Denied(c) => /\ Denied(c)' /\ calls'[c].agent = calls[c].agent
                               /\ calls'[c].at = calls[c].at
               /\ ~calls'[c].counted /\ calls'[c].at <= now'
               /\ calls'[c].pc # "count"
    <3>1. calls[c] \in Trip!CallRecord /\ ClockedCall(c)
      BY <1>2 DEF TripTyped, TripInv
    <3>2. PICK p \in {"permit", "idle", "over"} :
                 /\ Trip!Interrupted(c) = [calls[c] EXCEPT !.counted = FALSE, !.froze = FALSE,
                                                           !.barred = {}, !.pc = p]
                 /\ Denied(c) => p = "over"
      <4>1. CASE calls[c].allowed /\ ~calls[c].spent
        <5>1. calls[c].pc # "idle"
          BY <4>1 DEF TripInv, StopInv, CallIsStopped
        <5> QED BY <3>1, <4>1, <5>1 DEF Trip!Interrupted, Denied
      <4>2. CASE ~(calls[c].allowed /\ ~calls[c].spent) /\ calls[c].pc = "idle"
        BY <3>1, <4>2 DEF Trip!Interrupted, Denied
      <4>3. CASE ~(calls[c].allowed /\ ~calls[c].spent) /\ calls[c].pc # "idle"
        BY <3>1, <4>3 DEF Trip!Interrupted, Denied
      <4> QED BY <4>1, <4>2, <4>3
    <3> DEFINE r == [calls[c] EXCEPT !.counted = FALSE, !.froze = FALSE, !.barred = {}, !.pc = p]
    <3>3. /\ ~r.counted /\ r.at = calls[c].at /\ r.agent = calls[c].agent /\ r.pc = p
          /\ r.allowed = calls[c].allowed
      BY <3>1 DEF Trip!CallRecord
    <3>4. calls'[c] = r
      BY <1>7, <3>2 DEF Trip!Restart
    <3> HIDE DEF r
    <3> QED BY <2>1, <3>1, <3>2, <3>3, <3>4 DEF Denied, ClockedCall
  <2> QED BY <1>1, <1>2, <2>1, <2>2, NothingCounted
<1>8. CASE Trip!Tick
  <2>1. /\ UNCHANGED <<trips, latest, tripped, calls>> /\ now' = now + 1
        /\ \A c \in Calls : calls[c].pc = "count" => now - calls[c].at < Lag
    BY <1>8 DEF Trip!Tick, Trip!countVars, Trip!At
  <2>2. ASSUME NEW c \in Calls
        PROVE  /\ Denied(c) => Denied(c)'
               /\ calls'[c].at <= now'
               /\ calls'[c].pc = "count" => now' - calls'[c].at <= Lag
    <3>1. ClockedCall(c)
      BY DEF TripInv
    <3> QED BY <1>2, <2>1, <3>1 DEF ClockedCall, Denied
  <2>3. now' >= now
    BY <1>2, <2>1
  <2> QED BY <1>1, <2>1, <2>2, <2>3, NothingCounted
<1>9. CASE UNCHANGED Trip!vars
  BY <1>4, <1>9 DEF Trip!vars, Trip!countVars
<1> QED BY <1>3, <1>5, <1>6, <1>7, <1>8, <1>9 DEF Trip!Next

\* A trip is made of the threshold's number of one agent's denials, close enough
\* to each other, and of no denial another trip was made of; and no denial that
\* was counted is dropped before its window is over, sweeps and clocks read out
\* of order included (countDenial).
THEOREM TripsAreEarned ==
    ASSUME Trip!TripAssumption
    PROVE  Trip!Spec => [](Trip!TripIsEarned /\ Trip!NoDenialLost /\ TripIsEarned)
<1>1. ASSUME TripInv PROVE Trip!TripIsEarned
  <2>1. \A S : Trip!Cardinality(S) = Cardinality(S)
    BY DEF Trip!Cardinality, Cardinality
  <2> QED BY <1>1, <2>1 DEF TripInv, Earned, Trip!TripIsEarned, Trip!Agent
<1>2. ASSUME TripInv PROVE Trip!NoDenialLost
  <2> SUFFICES ASSUME NEW c \in Calls, calls[c].counted, now - calls[c].at <= TripWithin - Lag,
                      \A S \in tripped : c \notin S
               PROVE  c \in trips[calls[c].agent]
    BY DEF Trip!NoDenialLost, Trip!Agent
  <2>1. /\ now \in Nat /\ TripWithin \in Nat /\ Lag \in Nat /\ calls[c].at \in Nat /\ KeptOrOld(c)
    BY <1>2, TripNumbers DEF TripInv, StopInv
  <2> QED BY <2>1 DEF KeptOrOld
<1>3. TripInv /\ [Trip!Next]_(Trip!vars) => TripInv'
  BY TripStep
<1>4. Trip!TripIsEarned /\ Trip!NoDenialLost => TripIsEarned
  BY DEF TripIsEarned
<1> QED BY <1>1, <1>2, <1>3, <1>4, TripInit, PTL DEF Trip!Spec

-----------------------------------------------------------------------------
\* A call under way.
ModelCallRecord ==
    [pc : {"check", "review", "acquire", "calling", "used", "blocked"}, id : Nat, role : Roles,
     policy : ModelPolicies, phase : {"input", "output"}, text : Texts, prompt : Texts]

\* What a call's place says of its texts: an answer is only looked at when its
\* prompt was cleared, and a person is only asked about a rule that reviews.
ClearedSoFar(r) ==
    /\ modelCall[r].phase = "input" => modelCall[r].text = modelCall[r].prompt
                                       /\ modelCall[r].pc # "used"
    /\ modelCall[r].phase = "output" =>
           /\ modelCall[r].pc \notin {"acquire", "calling"}
           /\ Model!Cleared(r, "input", modelCall[r].prompt)
    /\ modelCall[r].pc \in {"acquire", "calling"} => Model!Cleared(r, "input", modelCall[r].prompt)
    /\ modelCall[r].pc = "used" => Model!Cleared(r, "output", modelCall[r].text)
    /\ modelCall[r].pc = "review" => \A rule \in Model!Verdict(r) : rule.action = "review"

ModelInv ==
    /\ live \in ModelPolicies /\ modelCalls \in Nat
    /\ modelCall \in [ModelRuns -> ModelCallRecord \cup {Model!Idle}]
    /\ \A r \in ModelRuns : modelCall[r] = Model!Idle \/ ClearedSoFar(r)

\* Match finds one rule at most.
LEMMA MatchIsOne ==
    ASSUME NEW policy, NEW role, NEW phase_, NEW text,
           NEW x \in Model!Match(policy, role, phase_, text),
           NEW y \in Model!Match(policy, role, phase_, text)
    PROVE  x = y
<1> DEFINE k == Model!SelectInSeq(policy, LAMBDA rule : Model!Applies(rule, role, phase_, text))
<1>1. Model!Match(policy, role, phase_, text) = IF k = 0 THEN {} ELSE {policy[k]}
  BY Zenon DEF Model!Match
<1> HIDE DEF k
<1> QED BY <1>1

\* A record of a call under way is no idle one.
LEMMA IdleIsNoCall ==
    ASSUME NEW x \in ModelCallRecord PROVE x # Model!Idle /\ x.pc # "idle"
<1>1. x.pc # "idle"
  BY DEF ModelCallRecord
<1>2. Model!Idle.pc = "idle"
  BY DEF Model!Idle
<1> QED BY <1>1, <1>2

\* What was cleared stays cleared while the call goes on and receipts are added.
LEMMA ClearedStays ==
    ASSUME NEW r, NEW phase_, NEW text, Model!Cleared(r, phase_, text),
           receipts \subseteq receipts', modelCall'[r].policy = modelCall[r].policy,
           modelCall'[r].role = modelCall[r].role, modelCall'[r].id = modelCall[r].id
    PROVE  Model!Cleared(r, phase_, text)'
<1> DEFINE M == Model!Match(modelCall[r].policy, modelCall[r].role, phase_, text)
<1>1. Model!Match(modelCall'[r].policy, modelCall'[r].role, phase_, text) = M
  OBVIOUS
<1>2. \A rule \in M : /\ rule.action = "review"
                      /\ [call |-> modelCall[r].id, phase |-> phase_, text |-> text,
                          rule |-> rule.id, decision |-> "approve"] \in receipts
  BY Zenon DEF Model!Cleared
<1> HIDE DEF M
<1>3. \A rule \in M : /\ rule.action = "review"
                      /\ [call |-> modelCall'[r].id, phase |-> phase_, text |-> text,
                          rule |-> rule.id, decision |-> "approve"] \in receipts'
  BY <1>2
<1> QED BY <1>1, <1>3, Zenon DEF Model!Cleared

\* One call changes, receipts are added.
LEMMA OneCallGoesOn ==
    ASSUME ModelInv, NEW r \in ModelRuns, NEW x \in ModelCallRecord \cup {Model!Idle},
           modelCall' = [modelCall EXCEPT ![r] = x], receipts \subseteq receipts',
           live' = live, modelCalls' \in Nat, x = Model!Idle \/ ClearedSoFar(r)'
    PROVE  ModelInv'
<1>1. modelCall' \in [ModelRuns -> ModelCallRecord \cup {Model!Idle}] /\ modelCall'[r] = x
  BY DEF ModelInv
<1>2. ASSUME NEW s \in ModelRuns PROVE modelCall'[s] = Model!Idle \/ ClearedSoFar(s)'
  <2>1. CASE s = r BY <1>1, <2>1
  <2>2. CASE s # r
    <3>1. modelCall'[s] = modelCall[s]
      BY <2>2 DEF ModelInv
    <3>2. CASE modelCall[s] = Model!Idle BY <3>1, <3>2
    <3>3. CASE ClearedSoFar(s)
      <4>1. \A phase_, text : Model!Cleared(s, phase_, text) => Model!Cleared(s, phase_, text)'
        BY <3>1, ClearedStays
      <4>2. Model!Verdict(s)' = Model!Verdict(s)
        BY <3>1 DEF Model!Verdict
      <4> QED BY <3>1, <3>3, <4>1, <4>2 DEF ClearedSoFar
    <3> QED BY <3>2, <3>3 DEF ModelInv
  <2> QED BY <2>1, <2>2
<1> QED BY <1>1, <1>2 DEF ModelInv

\* Every step of a run keeps the invariant.
LEMMA ModelRunKeeps ==
    ASSUME ModelInv, NEW r \in ModelRuns,
           \/ \E role \in Roles, text \in Texts : Model!Begin(r, role, text)
           \/ Model!Pass(r) \/ Model!Ask(r) \/ Model!Deny(r) \/ Model!Approve(r)
           \/ \E d \in {"skip", "adjust", "timeout"} : Model!Turn(r, d)
           \/ Model!Acquire(r) \/ Model!Abandon(r) \/ Model!Continue(r)
           \/ \E text \in Texts : Model!Answer(r, text)
    PROVE  ModelInv'
<1> DEFINE c == modelCall[r]
<1>1. c \in ModelCallRecord \cup {Model!Idle} /\ (c = Model!Idle \/ ClearedSoFar(r))
  BY DEF ModelInv
<1>2. Model!Idle.pc = "idle"
  BY DEF Model!Idle
<1>3. c.pc # "idle" => c \in ModelCallRecord /\ ClearedSoFar(r)
  BY <1>1, <1>2
<1>4. ASSUME NEW x \in ModelCallRecord \cup {Model!Idle}, modelCall' = [modelCall EXCEPT ![r] = x]
      PROVE  modelCall'[r] = x
  BY <1>4 DEF ModelInv
\* A step that moves the call on, with its texts.
<1>5. ASSUME NEW p \in {"check", "review", "acquire", "calling", "used", "blocked"},
             NEW put, NEW said, put = c.prompt, said = c.text,
             modelCall' = [modelCall EXCEPT ![r].pc = p], c.pc # "idle",
             receipts \subseteq receipts', live' = live, modelCalls' = modelCalls,
             p \in {"acquire", "calling"} =>
                 c.phase = "input" /\ Model!Cleared(r, "input", put)',
             p = "used" => c.phase = "output" /\ Model!Cleared(r, "output", said)',
             p = "review" => \A rule \in Model!Verdict(r) : rule.action = "review"
      PROVE  ModelInv'
  <2> DEFINE x == [c EXCEPT !.pc = p]
  <2>1. x \in ModelCallRecord /\ c \in ModelCallRecord /\ ClearedSoFar(r)
    BY <1>3, <1>5 DEF ModelCallRecord
  <2>2. /\ x.pc = p /\ x.id = c.id /\ x.role = c.role /\ x.policy = c.policy
        /\ x.phase = c.phase /\ x.text = c.text /\ x.prompt = c.prompt
    BY <2>1 DEF ModelCallRecord
  <2>3. modelCall' = [modelCall EXCEPT ![r] = x] /\ modelCall'[r] = x
    BY <1>4, <1>5, <2>1
  <2> HIDE DEF x
  <2>4. \A phase_, text : Model!Cleared(r, phase_, text) => Model!Cleared(r, phase_, text)'
    BY <1>5, <2>2, <2>3, ClearedStays
  <2>5. Model!Verdict(r)' = Model!Verdict(r)
    BY <2>2, <2>3 DEF Model!Verdict
  <2>6. c.phase \in {"input", "output"}
    BY <2>1 DEF ModelCallRecord
  <2>7. ClearedSoFar(r)'
    BY <1>5, <2>1, <2>2, <2>3, <2>4, <2>5, <2>6 DEF ClearedSoFar
  <2>8. modelCalls' \in Nat
    BY <1>5 DEF ModelInv
  <2> QED BY <1>5, <2>1, <2>3, <2>7, <2>8, OneCallGoesOn
<1>6. ASSUME NEW role \in Roles, NEW text \in Texts, Model!Begin(r, role, text) PROVE ModelInv'
  <2> DEFINE x == [pc |-> "check", id |-> modelCalls + 1, role |-> role, policy |-> live,
                   phase |-> "input", text |-> text, prompt |-> text]
  <2>1. /\ modelCall' = [modelCall EXCEPT ![r] = x] /\ modelCalls' = modelCalls + 1
        /\ receipts' = receipts /\ live' = live
    BY <1>6 DEF Model!Begin
  <2>2. x \in ModelCallRecord /\ modelCalls' \in Nat
    BY <2>1 DEF ModelInv, ModelCallRecord
  <2>3. x.pc = "check" /\ x.phase = "input" /\ x.text = x.prompt
    OBVIOUS
  <2> HIDE DEF x
  <2>4. modelCall'[r] = x
    BY <1>4, <2>1, <2>2
  <2>5. ClearedSoFar(r)'
    BY <2>3, <2>4 DEF ClearedSoFar
  <2> QED BY <2>1, <2>2, <2>5, OneCallGoesOn
\* A text that no rule names, or whose approval is on record, goes on.
<1>7. ASSUME c.pc # "idle", modelCall' = [modelCall EXCEPT ![r].pc = Model!Passed(r)],
             receipts \subseteq receipts', live' = live, modelCalls' = modelCalls,
             \A rule \in Model!Verdict(r) :
                rule.action = "review" /\ Model!Receipt(r, rule, "approve") \in receipts'
      PROVE  ModelInv'
  <2>1. c \in ModelCallRecord /\ ClearedSoFar(r)
    BY <1>3, <1>7
  <2>2. c.phase \in {"input", "output"}
    BY <2>1 DEF ModelCallRecord
  <2>3. PICK ph, tx, pr : ph = c.phase /\ tx = c.text /\ pr = c.prompt
    OBVIOUS
  <2> DEFINE M == Model!Match(c.policy, c.role, ph, tx)
             x == [c EXCEPT !.pc = Model!Passed(r)]
  <2>4. \A rule \in M : /\ rule.action = "review"
                        /\ [call |-> c.id, phase |-> ph, text |-> tx,
                            rule |-> rule.id, decision |-> "approve"] \in receipts'
    <3>1. M = Model!Verdict(r)
      BY <2>3 DEF Model!Verdict
    <3>2. \A rule : Model!Receipt(r, rule, "approve") =
                      [call |-> c.id, phase |-> ph, text |-> tx,
                       rule |-> rule.id, decision |-> "approve"]
      BY <2>3 DEF Model!Receipt
    <3> HIDE DEF M
    <3> QED BY <1>7, <3>1, <3>2
  <2>5. x.id = c.id /\ x.role = c.role /\ x.policy = c.policy /\ modelCall'[r] = x
    <3>1. modelCall' = [modelCall EXCEPT ![r] = x]
      BY <1>7
    <3>2. modelCall'[r] = x
      BY <3>1 DEF ModelInv
    <3> QED BY <2>1, <3>2 DEF ModelCallRecord
  <2> HIDE DEF x
  <2>6. Model!Cleared(r, ph, tx)'
    <3>1. Model!Match(modelCall'[r].policy, modelCall'[r].role, ph, tx) = M
      BY <2>5
    <3>2. modelCall'[r].id = c.id
      BY <2>5
    <3> HIDE DEF M
    <3>3. \A rule \in M : /\ rule.action = "review"
                        /\ [call |-> modelCall'[r].id, phase |-> ph, text |-> tx,
                            rule |-> rule.id, decision |-> "approve"] \in receipts'
      BY <2>4, <3>2
    <3> QED BY <3>1, <3>3, Zenon DEF Model!Cleared
  <2>7. CASE ph = "input"
    <3>1. Model!Passed(r) = "acquire" /\ pr = tx
      BY <2>1, <2>3, <2>7 DEF Model!Passed, ClearedSoFar
    <3>2. Model!Cleared(r, "input", pr)'
      BY <2>6, <2>7, <3>1
    <3>3. modelCall' = [modelCall EXCEPT ![r].pc = "acquire"]
      BY <1>7, <3>1
    <3> QED BY <1>5, <1>7, <2>3, <2>7, <3>2, <3>3
  <2>8. CASE ph = "output"
    <3>1. Model!Passed(r) = "used"
      BY <2>3, <2>8 DEF Model!Passed
    <3>2. Model!Cleared(r, "output", tx)'
      BY <2>6, <2>8
    <3>3. modelCall' = [modelCall EXCEPT ![r].pc = "used"]
      BY <1>7, <3>1
    <3> QED BY <1>5, <1>7, <2>3, <2>8, <3>2, <3>3
  <2> QED BY <2>2, <2>3, <2>7, <2>8
<1>8. PICK prompt, wrote : prompt = c.prompt /\ wrote = c.text
  OBVIOUS
<1>9. CASE Model!Pass(r)
  BY <1>7, <1>9 DEF Model!Pass, Model!Go
<1>10. CASE Model!Ask(r)
  <2>1. PICK rule \in Model!Verdict(r) : rule.action = "review"
    BY <1>10 DEF Model!Ask
  <2>2. \A x \in Model!Verdict(r) : x.action = "review"
    BY <2>1, MatchIsOne DEF Model!Verdict
  <2> QED BY <1>5, <1>8, <1>10, <2>2 DEF Model!Ask, Model!Go
<1>11. CASE Model!Deny(r)
  BY <1>5, <1>8, <1>11 DEF Model!Deny, Model!Go, Model!Record
<1>12. ASSUME NEW d \in {"skip", "adjust", "timeout"}, Model!Turn(r, d) PROVE ModelInv'
  BY <1>5, <1>8, <1>12 DEF Model!Turn, Model!Go, Model!Record
<1>13. CASE Model!Approve(r)
  <2>1. /\ c.pc = "review" /\ live' = live /\ modelCalls' = modelCalls
    BY <1>13 DEF Model!Approve
  <2>2. PICK rule \in Model!Verdict(r) :
               \/ /\ receipts' = receipts \cup {Model!Receipt(r, rule, "approve")}
                  /\ Model!Go(r, Model!Passed(r))
               \/ Model!Go(r, "blocked") /\ UNCHANGED receipts
    BY <1>13 DEF Model!Approve
  <2>3. ClearedSoFar(r)
    BY <1>3, <2>1
  <2>4. \A y \in Model!Verdict(r) : y = rule /\ y.action = "review"
    BY <2>1, <2>3, MatchIsOne DEF Model!Verdict, ClearedSoFar
  <2>5. CASE /\ receipts' = receipts \cup {Model!Receipt(r, rule, "approve")}
             /\ Model!Go(r, Model!Passed(r))
    BY <1>7, <2>1, <2>4, <2>5 DEF Model!Go
  <2>6. CASE Model!Go(r, "blocked") /\ UNCHANGED receipts
    BY <1>5, <1>8, <2>1, <2>6 DEF Model!Go
  <2> QED BY <2>2, <2>5, <2>6
<1>14. CASE Model!Acquire(r)
  <2>1. c.pc = "acquire" /\ modelCall' = [modelCall EXCEPT ![r].pc = "calling"]
        /\ receipts' = receipts /\ live' = live /\ modelCalls' = modelCalls
    BY <1>14 DEF Model!Acquire, Model!Go
  <2>2. ClearedSoFar(r) /\ c \in ModelCallRecord
    BY <1>3, <2>1
  <2>3. Model!Cleared(r, "input", prompt) /\ c.phase = "input"
    BY <1>8, <2>1, <2>2 DEF ClearedSoFar, ModelCallRecord
  <2> DEFINE x == [c EXCEPT !.pc = "calling"]
  <2>4. x.id = c.id /\ x.role = c.role /\ x.policy = c.policy
    BY <2>2 DEF ModelCallRecord
  <2>5. modelCall'[r] = x
    BY <2>1 DEF ModelInv
  <2> HIDE DEF x
  <2>6. Model!Cleared(r, "input", prompt)'
    BY <2>1, <2>3, <2>4, <2>5, ClearedStays
  <2> QED BY <1>5, <1>8, <2>1, <2>3, <2>6
<1>15. CASE Model!Abandon(r)
  BY <1>5, <1>8, <1>15 DEF Model!Abandon, Model!Go
<1>16. CASE Model!Continue(r)
  BY <1>16, OneCallGoesOn DEF Model!Continue, ModelInv
<1>17. ASSUME NEW answer \in Texts, Model!Answer(r, answer) PROVE ModelInv'
  <2>1. /\ c.pc = "calling" /\ receipts' = receipts /\ live' = live /\ modelCalls' = modelCalls
        /\ modelCall' = [modelCall EXCEPT ![r].pc = "check", ![r].phase = "output",
                                          ![r].text = answer]
    BY <1>17 DEF Model!Answer
  <2> DEFINE x == [c EXCEPT !.pc = "check", !.phase = "output", !.text = answer]
  <2>2. ClearedSoFar(r) /\ c \in ModelCallRecord
    BY <1>3, <2>1
  <2>3. x \in ModelCallRecord
    BY <2>2 DEF ModelCallRecord
  <2>4. /\ x.id = c.id /\ x.role = c.role /\ x.policy = c.policy /\ x.prompt = prompt
        /\ x.phase = "output" /\ x.pc = "check"
    BY <1>8, <2>2 DEF ModelCallRecord
  <2>5. modelCall' = [modelCall EXCEPT ![r] = x]
    BY <2>1
  <2>6. modelCall'[r] = x
    BY <1>4, <2>3, <2>5
  <2> HIDE DEF x
  <2>7. Model!Cleared(r, "input", prompt)
    BY <1>8, <2>1, <2>2 DEF ClearedSoFar
  <2>8. Model!Cleared(r, "input", prompt)'
    BY <2>1, <2>4, <2>6, <2>7, ClearedStays
  <2>9. ClearedSoFar(r)'
    BY <2>4, <2>6, <2>8 DEF ClearedSoFar
  <2>10. modelCalls' \in Nat
    BY <2>1 DEF ModelInv
  <2> QED BY <2>1, <2>3, <2>5, <2>9, <2>10, OneCallGoesOn
<1> QED BY <1>6, <1>9, <1>10, <1>11, <1>12, <1>13, <1>14, <1>15, <1>16, <1>17

\* The invariant holds at the start, and every step keeps it.
LEMMA ModelStep ==
    ASSUME ModelInv, [Model!Next]_(Model!vars) PROVE ModelInv'
<1>1. ASSUME NEW policy \in ModelPolicies, Model!Reload(policy) PROVE ModelInv'
  <2>1. live' \in ModelPolicies /\ UNCHANGED <<modelCall, receipts, modelCalls>>
    BY <1>1 DEF Model!Reload
  <2>2. ASSUME NEW r \in ModelRuns PROVE modelCall'[r] = Model!Idle \/ ClearedSoFar(r)'
    <3>1. \A phase_, text : Model!Cleared(r, phase_, text) => Model!Cleared(r, phase_, text)'
      BY <2>1, ClearedStays
    <3>2. Model!Verdict(r)' = Model!Verdict(r)
      BY <2>1 DEF Model!Verdict
    <3> QED BY <2>1, <3>1, <3>2 DEF ModelInv, ClearedSoFar
  <2> QED BY <2>1, <2>2 DEF ModelInv
<1>2. CASE Model!Crash
  BY <1>2 DEF Model!Crash, ModelInv
<1>3. CASE UNCHANGED Model!vars
  <2>1. UNCHANGED <<live, modelCall, receipts, modelCalls>>
    BY <1>3 DEF Model!vars
  <2>2. ASSUME NEW r \in ModelRuns PROVE modelCall'[r] = Model!Idle \/ ClearedSoFar(r)'
    <3>1. \A phase_, text : Model!Cleared(r, phase_, text) => Model!Cleared(r, phase_, text)'
      BY <2>1, ClearedStays
    <3>2. Model!Verdict(r)' = Model!Verdict(r)
      BY <2>1 DEF Model!Verdict
    <3> QED BY <2>1, <3>1, <3>2 DEF ModelInv, ClearedSoFar
  <2> QED BY <2>1, <2>2 DEF ModelInv
<1> QED BY <1>1, <1>2, <1>3, ModelRunKeeps DEF Model!Next

\* No prompt reaches the provider, and no answer the run, that the policy the
\* run started under did not clear: the first rule that names the text reviews
\* it, and a person's approval of it is on record (callLLM).
THEOREM TextsAreCleared == Model!Spec => [](Model!TextIsCleared /\ TextIsCleared)
<1>1. Model!Init => ModelInv
  BY DEF Model!Init, ModelInv
<1>2. ModelInv => Model!TextIsCleared
  <2> SUFFICES ASSUME ModelInv, NEW r \in ModelRuns
               PROVE  /\ modelCall[r].pc = "calling" =>
                             Model!Cleared(r, "input", modelCall[r].prompt)
                      /\ modelCall[r].pc = "used" =>
                             /\ Model!Cleared(r, "input", modelCall[r].prompt)
                             /\ Model!Cleared(r, "output", modelCall[r].text)
    BY DEF Model!TextIsCleared
  <2>1. Model!Idle.pc = "idle"
    BY DEF Model!Idle
  <2>2. CASE modelCall[r] = Model!Idle BY <2>1, <2>2
  <2>3. CASE modelCall[r] \in ModelCallRecord /\ ClearedSoFar(r)
    <3>1. modelCall[r].phase \in {"input", "output"}
      BY <2>3 DEF ModelCallRecord
    <3> QED BY <2>3, <3>1 DEF ClearedSoFar
  <2> QED BY <2>2, <2>3 DEF ModelInv
<1>3. ModelInv /\ [Model!Next]_(Model!vars) => ModelInv'
  BY ModelStep
<1>4. Model!TextIsCleared => TextIsCleared
  BY DEF TextIsCleared
<1> QED BY <1>1, <1>2, <1>3, <1>4, PTL DEF Model!Spec

\* The admission gate is held by the call that is at the provider and by no
\* other: a text under review never holds another run's budget.
THEOREM ReviewsHoldNoGate ==
    ASSUME Model!ModelCallAssumption PROVE Model!Spec => []Model!ReviewHoldsNoBudget
<1> DEFINE Held == /\ Model!ReviewHoldsNoBudget /\ ModelInv
<1>1. Model!Init => Held
  <2>1. Model!Idle.pc = "idle"
    BY DEF Model!Idle
  <2> QED BY <2>1 DEF Model!Init, Model!ReviewHoldsNoBudget, Model!ModelCallAssumption, ModelInv
<1>2. ASSUME Held, [Model!Next]_(Model!vars) PROVE Held'
  <2>1. ModelInv'
    BY <1>2, ModelStep
  <2>2. ASSUME NEW r \in ModelRuns, \A s \in ModelRuns \ {r} : modelCall'[s] = modelCall[s],
               \/ gateHolder' = gateHolder /\ modelCall[r].pc # "calling" /\ modelCall'[r].pc # "calling"
               \/ gateHolder' = "none" /\ modelCall[r].pc = "calling" /\ modelCall'[r].pc # "calling"
               \/ gateHolder = "none" /\ gateHolder' = r /\ modelCall'[r].pc = "calling"
        PROVE  Model!ReviewHoldsNoBudget'
    <3>1. /\ \A s \in ModelRuns : gateHolder = s <=> modelCall[s].pc = "calling"
          /\ \A s \in ModelRuns : s # "none"
      BY <1>2 DEF Model!ReviewHoldsNoBudget, Model!ModelCallAssumption, Model!NoRun
    <3> SUFFICES ASSUME NEW s \in ModelRuns
                 PROVE  gateHolder' = s <=> modelCall'[s].pc = "calling"
      BY DEF Model!ReviewHoldsNoBudget
    <3> QED BY <2>2, <3>1
  <2>3. ASSUME NEW r \in ModelRuns, NEW x, modelCall' = [modelCall EXCEPT ![r] = x]
        PROVE  modelCall'[r] = x /\ \A s \in ModelRuns \ {r} : modelCall'[s] = modelCall[s]
    BY <1>2, <2>3 DEF ModelInv
  <2>4. ASSUME NEW r \in ModelRuns, NEW p, modelCall[r].pc # "idle",
               modelCall' = [modelCall EXCEPT ![r].pc = p]
        PROVE  /\ modelCall'[r].pc = p
               /\ \A s \in ModelRuns \ {r} : modelCall'[s] = modelCall[s]
    <3>1. Model!Idle.pc = "idle"
      BY DEF Model!Idle
    <3>2. modelCall[r] \in ModelCallRecord
      BY <1>2, <2>4, <3>1 DEF ModelInv
    <3>3. modelCall'[r] = [modelCall[r] EXCEPT !.pc = p]
      BY <1>2, <2>4 DEF ModelInv
    <3>4. \A s \in ModelRuns \ {r} : modelCall'[s] = modelCall[s]
      BY <1>2, <2>4 DEF ModelInv
    <3> QED BY <3>2, <3>3, <3>4 DEF ModelCallRecord
  <2>5. ASSUME NEW r \in ModelRuns, NEW role \in Roles, NEW text \in Texts,
               Model!Begin(r, role, text)
        PROVE  Model!ReviewHoldsNoBudget'
    BY <2>2, <2>3, <2>5 DEF Model!Begin
  <2>6. ASSUME NEW r \in ModelRuns,
               \/ Model!Pass(r) \/ Model!Ask(r) \/ Model!Deny(r) \/ Model!Approve(r)
               \/ \E d \in {"skip", "adjust", "timeout"} : Model!Turn(r, d)
        PROVE  Model!ReviewHoldsNoBudget'
    <3>1. /\ gateHolder' = gateHolder /\ modelCall[r].pc \in {"check", "review"}
          /\ \E p \in {"acquire", "used", "review", "blocked"} :
                 modelCall' = [modelCall EXCEPT ![r].pc = p]
      BY <2>6 DEF Model!Pass, Model!Ask, Model!Deny, Model!Approve, Model!Turn, Model!Go,
                  Model!Passed
    <3> QED BY <2>2, <2>4, <3>1
  <2>7. ASSUME NEW r \in ModelRuns, Model!Acquire(r) PROVE Model!ReviewHoldsNoBudget'
    <3>1. /\ gateHolder = "none" /\ gateHolder' = r /\ modelCall[r].pc = "acquire"
          /\ modelCall' = [modelCall EXCEPT ![r].pc = "calling"]
      BY <2>7 DEF Model!Acquire, Model!Go, Model!NoRun
    <3>2. modelCall'[r].pc = "calling" /\ \A s \in ModelRuns \ {r} : modelCall'[s] = modelCall[s]
      BY <2>4, <3>1
    <3> QED BY <2>2, <3>1, <3>2
  <2>8. ASSUME NEW r \in ModelRuns, Model!Abandon(r) PROVE Model!ReviewHoldsNoBudget'
    <3>1. /\ modelCall[r].pc \in {"acquire", "calling"}
          /\ gateHolder' = IF modelCall[r].pc = "calling" THEN "none" ELSE gateHolder
          /\ modelCall' = [modelCall EXCEPT ![r].pc = "blocked"]
      BY <2>8 DEF Model!Abandon, Model!Go, Model!NoRun
    <3>2. modelCall'[r].pc = "blocked" /\ \A s \in ModelRuns \ {r} : modelCall'[s] = modelCall[s]
      BY <2>4, <3>1
    <3> QED BY <2>2, <3>1, <3>2
  <2>9. ASSUME NEW r \in ModelRuns, Model!Continue(r) PROVE Model!ReviewHoldsNoBudget'
    BY <2>2, <2>3, <2>9 DEF Model!Continue, Model!Idle
  <2>10. ASSUME NEW r \in ModelRuns, NEW text \in Texts, Model!Answer(r, text)
         PROVE  Model!ReviewHoldsNoBudget'
    <3>1. modelCall[r].pc = "calling" /\ gateHolder' = "none"
      BY <2>10 DEF Model!Answer, Model!NoRun
    <3> DEFINE x == [modelCall[r] EXCEPT !.pc = "check", !.phase = "output", !.text = text]
    <3>2. modelCall' = [modelCall EXCEPT ![r] = x]
      BY <2>10 DEF Model!Answer
    <3>3. modelCall[r] \in ModelCallRecord
      <4>1. Model!Idle.pc = "idle"
        BY DEF Model!Idle
      <4> QED BY <1>2, <3>1, <4>1 DEF ModelInv
    <3>4. x.pc = "check"
      BY <3>3 DEF ModelCallRecord
    <3> HIDE DEF x
    <3> QED BY <2>2, <2>3, <3>1, <3>2, <3>4
  <2>11. ASSUME NEW policy \in ModelPolicies, Model!Reload(policy) PROVE Model!ReviewHoldsNoBudget'
    BY <1>2, <2>11 DEF Model!Reload, Model!ReviewHoldsNoBudget
  <2>12. ASSUME Model!Crash PROVE Model!ReviewHoldsNoBudget'
    <3>1. gateHolder' = "none" /\ \A r \in ModelRuns : modelCall'[r].pc = "idle" /\ r # "none"
      BY <2>12 DEF Model!Crash, Model!Idle, Model!NoRun, Model!ModelCallAssumption
    <3> SUFFICES ASSUME NEW s \in ModelRuns
                 PROVE  gateHolder' = s <=> modelCall'[s].pc = "calling"
      BY DEF Model!ReviewHoldsNoBudget
    <3> QED BY <3>1
  <2>13. ASSUME UNCHANGED Model!vars PROVE Model!ReviewHoldsNoBudget'
    <3>1. gateHolder' = gateHolder /\ modelCall' = modelCall
      BY <2>13 DEF Model!vars
    <3> SUFFICES ASSUME NEW s \in ModelRuns
                 PROVE  gateHolder' = s <=> modelCall'[s].pc = "calling"
      BY DEF Model!ReviewHoldsNoBudget
    <3> QED BY <1>2, <3>1 DEF Model!ReviewHoldsNoBudget
  <2> QED BY <1>2, <2>1, <2>5, <2>6, <2>7, <2>8, <2>9, <2>10, <2>11, <2>12, <2>13 DEF Model!Next
<1>3. Held => Model!ReviewHoldsNoBudget
  OBVIOUS
<1> HIDE DEF Held
<1> QED BY <1>1, <1>2, <1>3, PTL DEF Model!Spec

-----------------------------------------------------------------------------
Releases == (1 .. MaxPipeRuns) \X SendNames \X StepContents

StepsTyped ==
    /\ pipeline \in Steps!ValidPipelines /\ pipeline \in Seq(Steps!Step)
    /\ runNumber \in 0 .. MaxPipeRuns /\ at \in 0 .. Len(pipeline)
    /\ at > 0 => runNumber > 0
    /\ content \in StepContents \cup {NoContent}
    /\ approvedFor \in [SendNames -> Releases \cup {NoRequest}]
    /\ asked \in Seq(Releases) /\ sentOut \in Seq(Releases)

\* The http_request that is next from step k on, no approval in between.
IsNext(k, i) ==
    /\ i \in k .. Len(pipeline) /\ pipeline[i].kind = "send"
    /\ \A j \in k .. i - 1 : pipeline[j].kind \notin {"approval", "send"}

\* An approval step that waits shows the request it releases, if it releases one.
ShowsIt ==
    at > 0 /\ place = "ask" =>
        /\ pipeline[at].kind = "approval"
        /\ shown \in Releases \cup {NoRequest}
        /\ \A i \in Steps!Released : shown \in Releases /\ shown[2] = pipeline[i].name

\* What is approved for the next http_request was released once more than sent.
OwedOne ==
    \A i \in DOMAIN pipeline : at > 0 /\ IsNext(at, i) =>
        LET q == approvedFor[pipeline[i].name] IN
        q \in Releases /\ Steps!Count(sentOut, q) < Steps!Count(asked, q)

SendsInv ==
    /\ StepsTyped /\ ShowsIt /\ OwedOne
    /\ \A q \in Releases : Steps!Count(sentOut, q) <= Steps!Count(asked, q)

\* What is taken up was marked, or let through by a failure; what was fetched was not.
TakenInv ==
    /\ taken \in [Listable -> Nat] /\ fetched \cap seen = {}
    /\ \A i \in Listable \ degraded : taken[i] <= 1 /\ (taken[i] = 1 => i \in seen)

\* One more of a sequence.
LEMMA CountAppends ==
    ASSUME NEW S, NEW s \in Seq(S), NEW x \in S, NEW y
    PROVE  /\ Steps!Count(s, y) \in Nat /\ Steps!Count(Append(s, x), y) \in Nat
           /\ x = y => Steps!Count(Append(s, x), y) = Steps!Count(s, y) + 1
           /\ x # y => Steps!Count(Append(s, x), y) = Steps!Count(s, y)
<1> DEFINE A == {i \in DOMAIN s : s[i] = y}
           B == {i \in DOMAIN Append(s, x) : Append(s, x)[i] = y}
<1>1. /\ Len(s) \in Nat /\ DOMAIN s = 1 .. Len(s) /\ DOMAIN Append(s, x) = 1 .. Len(s) + 1
      /\ Append(s, x)[Len(s) + 1] = x /\ \A i \in 1 .. Len(s) : Append(s, x)[i] = s[i]
  OBVIOUS
<1>2. IsFiniteSet(A)
  <2>1. A \subseteq 1 .. Len(s) /\ IsFiniteSet(1 .. Len(s))
    BY <1>1, FS_Interval
  <2> QED BY <2>1, FS_Subset
<1>3. x = y => B = A \cup {Len(s) + 1}
  BY <1>1
<1>4. x # y => B = A
  BY <1>1
<1>5. Len(s) + 1 \notin A
  BY <1>1
<1>6. Cardinality(A) \in Nat /\ Cardinality(A \cup {Len(s) + 1}) = Cardinality(A) + 1
  BY <1>2, <1>5, FS_CardinalityType, FS_AddElement
<1>7. \A S_ : Steps!Cardinality(S_) = Cardinality(S_)
  BY DEF Steps!Cardinality, Cardinality
<1>8. Steps!Count(s, y) = Cardinality(A) /\ Steps!Count(Append(s, x), y) = Cardinality(B)
  BY <1>7 DEF Steps!Count
<1> HIDE DEF A, B
<1>9. CASE x = y
  <2>1. Cardinality(B) = Cardinality(A) + 1
    BY <1>3, <1>6, <1>9
  <2>2. Cardinality(B) \in Nat
    BY <1>6, <2>1
  <2> QED BY <1>6, <1>8, <1>9, <2>1, <2>2
<1>10. CASE x # y
  BY <1>4, <1>6, <1>8, <1>10
<1> QED BY <1>9, <1>10

\* An approval step releases one request: the next.
LEMMA ReleasedIsNext ==
    ASSUME StepsTyped, at > 0
    PROVE  /\ \A i : i \in Steps!Released <=> IsNext(at + 1, i)
           /\ \A i, j \in Steps!Released : i = j
<1>1. at \in Nat /\ Len(pipeline) \in Nat
  BY DEF StepsTyped
<1>2. \A i : i \in Steps!Released <=> IsNext(at + 1, i)
  BY <1>1 DEF Steps!Released, IsNext
<1>3. ASSUME NEW i \in Steps!Released, NEW j \in Steps!Released, i < j PROVE FALSE
  BY <1>1, <1>3 DEF Steps!Released
<1>4. \A i \in Steps!Released : i \in Nat
  BY <1>1 DEF Steps!Released
<1>5. ASSUME NEW i \in Steps!Released, NEW j \in Steps!Released PROVE i = j
  <2>1. i \in Nat /\ j \in Nat
    BY <1>4
  <2> QED BY <1>3, <2>1
<1> QED BY <1>2, <1>5

\* The step after the first or a request is not owed anything: an accepted
\* pipeline has an approval before each request, after any earlier one.
LEMMA ApprovalFirst ==
    ASSUME StepsTyped, NEW k \in Nat \ {0}, NEW i, IsNext(k, i),
           k = 1 \/ pipeline[k - 1].kind = "send"
    PROVE  FALSE
<1>1. Len(pipeline) \in Nat /\ DOMAIN pipeline = 1 .. Len(pipeline)
  BY DEF StepsTyped
<1>2. i \in DOMAIN pipeline /\ i \in Nat /\ i >= k /\ pipeline[i].kind = "send"
  BY <1>1 DEF IsNext
<1>3. PICK j \in 1 .. i - 1 : /\ pipeline[j].kind = "approval"
                              /\ \A l \in j .. i - 1 : pipeline[l].kind # "send"
  BY <1>2 DEF StepsTyped, Steps!ValidPipelines, Steps!ReleasedByOwnStep
<1>4. j < k
  BY <1>2, <1>3 DEF IsNext
<1>5. k - 1 \in j .. i - 1 /\ pipeline[k - 1].kind = "send"
  BY <1>2, <1>3, <1>4
<1> QED BY <1>3, <1>5

\* The counts of a sequence of releases are numbers.
LEMMA CountIsNat ==
    ASSUME NEW S, NEW s \in Seq(S), NEW y
    PROVE  Steps!Count(s, y) \in Nat
<1>1. CASE s = <<>>
  <2>1. {i \in DOMAIN s : s[i] = y} = {}
    BY <1>1
  <2>2. \A S_ : Steps!Cardinality(S_) = Cardinality(S_)
    BY DEF Steps!Cardinality, Cardinality
  <2>3. Steps!Count(s, y) = Cardinality({i \in DOMAIN s : s[i] = y})
    BY <2>2 DEF Steps!Count
  <2>4. Cardinality({}) = 0
    BY FS_EmptySet
  <2> QED BY <2>1, <2>3, <2>4
<1>2. CASE s # <<>>
  <2>1. s[1] \in S
    BY <1>2
  <2> QED BY <2>1, CountAppends
<1> QED BY <1>1, <1>2

\* Before the first run nothing was sent.
LEMMA StepsInit == ASSUME Steps!PipelineRunAssumption, Steps!Init PROVE SendsInv /\ TakenInv
<1>1. /\ pipeline \in Steps!ValidPipelines /\ runNumber = 0 /\ at = 0 /\ content = NoContent
      /\ approvedFor = [n \in SendNames |-> NoRequest] /\ asked = <<>> /\ sentOut = <<>>
      /\ fetched = {} /\ seen = {} /\ taken = [i \in Listable |-> 0]
  BY DEF Steps!Init
<1>2. pipeline \in Seq(Steps!Step)
  <2>1. PICK n \in 1 .. MaxSteps : pipeline \in [1 .. n -> Steps!Step]
    BY <1>1 DEF Steps!ValidPipelines
  <2>2. n \in Nat
    BY <2>1 DEF Steps!PipelineRunAssumption
  <2> QED BY <2>1, <2>2
<1>3. StepsTyped
  BY <1>1, <1>2 DEF StepsTyped, Steps!PipelineRunAssumption
<1>4. ShowsIt /\ OwedOne
  BY <1>1 DEF ShowsIt, OwedOne
<1>5. \A q \in Releases : Steps!Count(sentOut, q) <= Steps!Count(asked, q)
  <2>1. sentOut = asked /\ asked \in Seq(Releases)
    BY <1>1
  <2> QED BY <2>1, CountIsNat
<1>6. TakenInv
  BY <1>1 DEF TakenInv
<1> QED BY <1>3, <1>4, <1>5, <1>6 DEF SendsInv

\* A step that sends nothing and releases nothing, and stays where it is.
LEMMA StaysThere ==
    ASSUME SendsInv, UNCHANGED <<pipeline, runNumber, at, approvedFor, asked, sentOut>>,
           content' \in StepContents \cup {NoContent}, ShowsIt'
    PROVE  SendsInv'
<1>1. StepsTyped'
  BY DEF SendsInv, StepsTyped
<1>2. OwedOne'
  BY DEF SendsInv, OwedOne, IsNext
<1> QED BY <1>1, <1>2 DEF SendsInv

\* A run that is over owes nothing.
LEMMA RunIsOver ==
    ASSUME StepsTyped, pipeline' = pipeline, runNumber' = runNumber, at' = 0,
           content' \in StepContents \cup {NoContent},
           approvedFor' \in [SendNames -> Releases \cup {NoRequest}],
           asked' \in Seq(Releases), sentOut' \in Seq(Releases)
    PROVE  StepsTyped' /\ ShowsIt' /\ OwedOne'
<1>1. StepsTyped'
  BY DEF StepsTyped
<1>2. ShowsIt' /\ OwedOne'
  BY DEF ShowsIt, OwedOne
<1> QED BY <1>1, <1>2

\* On to the next step: what matters is what it may send.
LEMMA GoesOn ==
    ASSUME StepsTyped, at > 0, Steps!NextStep, pipeline' = pipeline, runNumber' = runNumber,
           content' \in StepContents \cup {NoContent},
           approvedFor' \in [SendNames -> Releases \cup {NoRequest}],
           asked' \in Seq(Releases), sentOut' \in Seq(Releases),
           \A i \in DOMAIN pipeline : IsNext(at + 1, i) =>
               LET q == approvedFor'[pipeline[i].name] IN
               q \in Releases /\ Steps!Count(sentOut', q) < Steps!Count(asked', q)
    PROVE  StepsTyped' /\ ShowsIt' /\ OwedOne'
<1>1. CASE Steps!EndRun
  <2>1. at' = 0
    BY <1>1 DEF Steps!EndRun
  <2> QED BY <2>1, RunIsOver
<1>2. CASE at' = at + 1 /\ place' = "enter" /\ at # Len(pipeline)
  <2>1. StepsTyped'
    BY <1>2 DEF StepsTyped
  <2>2. ShowsIt'
    BY <1>2 DEF ShowsIt
  <2>3. \A i : IsNext(at, i)' <=> IsNext(at + 1, i)
    BY <1>2 DEF IsNext
  <2>4. OwedOne'
    BY <2>3 DEF OwedOne, Steps!Count
  <2> QED BY <2>1, <2>2, <2>4
<1> QED BY <1>1, <1>2 DEF Steps!NextStep

\* On from a step that neither sends nor releases.
LEMMA GoesOnQuietly ==
    ASSUME SendsInv, at > 0, pipeline[at].kind \notin {"approval", "send"},
           Steps!NextStep \/ Steps!EndRun,
           UNCHANGED <<pipeline, runNumber, approvedFor, asked, sentOut>>,
           content' \in StepContents \cup {NoContent}
    PROVE  SendsInv'
<1>1. StepsTyped /\ at \in Nat
  BY DEF SendsInv, StepsTyped
<1>2. \A i \in DOMAIN pipeline : IsNext(at + 1, i) => IsNext(at, i)
  BY <1>1 DEF IsNext
<1>3. \A i \in DOMAIN pipeline : IsNext(at + 1, i) =>
         LET q == approvedFor'[pipeline[i].name] IN
         q \in Releases /\ Steps!Count(sentOut', q) < Steps!Count(asked', q)
  BY <1>2 DEF SendsInv, OwedOne
<1>4. /\ approvedFor' \in [SendNames -> Releases \cup {NoRequest}]
      /\ asked' \in Seq(Releases) /\ sentOut' \in Seq(Releases)
  BY <1>1 DEF StepsTyped
<1>5. StepsTyped' /\ ShowsIt' /\ OwedOne'
  <2>1. CASE Steps!NextStep
    BY <1>1, <1>3, <1>4, <2>1, GoesOn
  <2>2. CASE Steps!EndRun
    <3>1. at' = 0
      BY <2>2 DEF Steps!EndRun
    <3> QED BY <1>1, <1>4, <3>1, RunIsOver
  <2> QED BY <2>1, <2>2
<1>6. \A q \in Releases : Steps!Count(sentOut', q) <= Steps!Count(asked', q)
  BY DEF SendsInv
<1>7. (\A q \in Releases : Steps!Count(sentOut, q) <= Steps!Count(asked, q))'
  BY DEF SendsInv, Releases
<1> QED BY <1>5, <1>7 DEF SendsInv

\* The source lists one more, a fetch takes stock, a mark records: no request moves.
LEMMA ItemsStep ==
    ASSUME SendsInv, \/ \E i \in Listable : Steps!List(i)
                     \/ Steps!Fetch \/ Steps!Mark
    PROVE  SendsInv'
<1>0. content \in StepContents \cup {NoContent}
  BY DEF SendsInv, StepsTyped
<1>1. ASSUME NEW i \in Listable, Steps!List(i) PROVE SendsInv'
  <2>1. UNCHANGED <<pipeline, runNumber, at, place, shown, content, approvedFor, asked, sentOut>>
    BY <1>1 DEF Steps!List, Steps!stepVars, Steps!history
  <2>2. ShowsIt'
    BY <2>1 DEF SendsInv, ShowsIt, Steps!Released, Releases
  <2> QED BY <1>0, <2>1, <2>2, StaysThere
<1>2. CASE Steps!Fetch
  <2>1. /\ UNCHANGED <<pipeline, runNumber, shown, content, approvedFor, asked, sentOut>>
        /\ at > 0 /\ pipeline[at].kind = "fetch"
        /\ ((UNCHANGED at /\ place' = "mark") \/ Steps!NextStep)
    BY <1>2 DEF Steps!Fetch, Steps!stepVars, Steps!history, Steps!In
  <2>2. CASE UNCHANGED at /\ place' = "mark"
    <3>1. ShowsIt'
      BY <2>2 DEF ShowsIt
    <3> QED BY <1>0, <2>1, <2>2, <3>1, StaysThere
  <2>3. CASE Steps!NextStep
    BY <1>0, <2>1, <2>3, GoesOnQuietly
  <2> QED BY <2>1, <2>2, <2>3
<1>3. CASE Steps!Mark
  <2>1. /\ UNCHANGED <<pipeline, runNumber, content, approvedFor, asked, sentOut>>
        /\ at > 0 /\ pipeline[at].kind = "fetch" /\ (Steps!NextStep \/ Steps!EndRun)
    BY <1>3 DEF Steps!Mark, Steps!stepVars, Steps!history, Steps!In
  <2> QED BY <1>0, <2>1, GoesOnQuietly
<1> QED BY <1>1, <1>2, <1>3

\* A run starts; what it has to send comes after an approval of its own.
LEMMA StartStep ==
    ASSUME Steps!PipelineRunAssumption, SendsInv, Steps!StartRun
    PROVE  SendsInv'
<1>1. /\ at = 0 /\ runNumber < MaxPipeRuns /\ runNumber' = runNumber + 1 /\ at' = 1 /\ place' = "enter"
      /\ content' = NoContent /\ approvedFor' = [n \in SendNames |-> NoRequest]
      /\ UNCHANGED <<pipeline, asked, sentOut>>
  BY DEF Steps!StartRun, Steps!history
<1>2. StepsTyped /\ Len(pipeline) > 0
  <2>1. PICK n \in 1 .. MaxSteps : pipeline \in [1 .. n -> Steps!Step]
    BY DEF SendsInv, StepsTyped, Steps!ValidPipelines
  <2>2. n \in Nat /\ n > 0 /\ DOMAIN pipeline = 1 .. n
    BY <2>1 DEF Steps!PipelineRunAssumption
  <2> QED BY <2>2 DEF SendsInv, StepsTyped
<1>3. StepsTyped'
  BY <1>1, <1>2 DEF StepsTyped, Steps!PipelineRunAssumption
<1>4. ShowsIt'
  BY <1>1 DEF ShowsIt
<1>5. \A i : ~IsNext(1, i)
  <2>1. 1 \in Nat \ {0}
    OBVIOUS
  <2> QED BY <1>2, <2>1, ApprovalFirst, Zenon
<1>6. OwedOne'
  BY <1>1, <1>5 DEF OwedOne, IsNext
<1>7. (\A q \in Releases : Steps!Count(sentOut, q) <= Steps!Count(asked, q))'
  BY <1>1 DEF SendsInv, Releases
<1> QED BY <1>3, <1>4, <1>6, <1>7 DEF SendsInv

\* A run ends early.
LEMMA HaltStep == ASSUME SendsInv, Steps!Halt PROVE SendsInv'
<1>1. at' = 0 /\ UNCHANGED <<pipeline, runNumber, content, approvedFor, asked, sentOut>>
  BY DEF Steps!Halt, Steps!EndRun, Steps!stepVars, Steps!history
<1>2. StepsTyped' /\ ShowsIt' /\ OwedOne'
  BY <1>1, RunIsOver DEF SendsInv, StepsTyped
<1>3. (\A q \in Releases : Steps!Count(sentOut, q) <= Steps!Count(asked, q))'
  BY <1>1 DEF SendsInv, Releases
<1> QED BY <1>2, <1>3 DEF SendsInv

\* The model writes.
LEMMA CompleteStep == ASSUME SendsInv, Steps!Complete PROVE SendsInv'
<1>1. /\ at > 0 /\ pipeline[at].kind = "ai" /\ content' \in StepContents /\ Steps!NextStep
      /\ UNCHANGED <<pipeline, runNumber, approvedFor, asked, sentOut>>
  BY DEF Steps!Complete, Steps!In, Steps!history
<1> QED BY <1>1, GoesOnQuietly

\* An approval step shows its request.
LEMMA ShowStep == ASSUME SendsInv, Steps!Show PROVE SendsInv'
<1>1. /\ at > 0 /\ pipeline[at].kind = "approval" /\ place' = "ask"
      /\ (Steps!Released # {} => content # NoContent)
      /\ shown' = IF Steps!Released = {} THEN NoRequest
                  ELSE Steps!Request(pipeline[CHOOSE j \in Steps!Released : TRUE].name)
      /\ UNCHANGED <<pipeline, runNumber, at, content, approvedFor, asked, sentOut>>
  BY DEF Steps!Show, Steps!In, Steps!history
<1>2. StepsTyped
  BY DEF SendsInv
<1>3. ASSUME NEW i \in Steps!Released
      PROVE  shown' \in Releases /\ shown'[2] = pipeline[i].name
  <2>1. (CHOOSE j \in Steps!Released : TRUE) = i
    BY <1>1, <1>2, <1>3, ReleasedIsNext
  <2>2. shown' = <<runNumber, pipeline[i].name, content>>
    BY <1>1, <1>3, <2>1 DEF Steps!Request
  <2>3. i \in DOMAIN pipeline /\ pipeline[i].kind = "send"
    BY <1>2, <1>3 DEF Steps!Released, StepsTyped
  <2>4. pipeline[i].name \in SendNames
    <3>1. pipeline[i] \in Steps!Step
      BY <1>2, <2>3 DEF StepsTyped
    <3> QED BY <2>3, <3>1 DEF Steps!Step
  <2>5. runNumber \in 1 .. MaxPipeRuns /\ content \in StepContents
    BY <1>1, <1>2, <1>3 DEF StepsTyped
  <2> QED BY <2>2, <2>4, <2>5 DEF Releases
<1>4. shown' \in Releases \cup {NoRequest}
  BY <1>1, <1>3
<1>5. Steps!Released' = Steps!Released
  BY <1>1 DEF Steps!Released
<1>6. ShowsIt'
  BY <1>1, <1>3, <1>4, <1>5 DEF ShowsIt, Releases
<1> QED BY <1>1, <1>2, <1>6, StaysThere DEF StepsTyped

\* The operator has the draft rewritten.
LEMMA AdjustStep == ASSUME SendsInv, Steps!Adjust PROVE SendsInv'
<1>1. /\ at > 0 /\ pipeline[at].kind = "approval" /\ place = "ask" /\ place' = "ask"
      /\ IF shown = NoRequest THEN UNCHANGED <<content, shown>>
         ELSE content' \in StepContents /\ shown' = <<runNumber, shown[2], content'>>
      /\ UNCHANGED <<pipeline, runNumber, at, approvedFor, asked, sentOut>>
  BY DEF Steps!Adjust, Steps!In, Steps!history
<1>2. StepsTyped /\ ShowsIt
  BY DEF SendsInv
<1>3. content' \in StepContents \cup {NoContent}
  BY <1>1, <1>2 DEF StepsTyped
<1>4. Steps!Released' = Steps!Released
  BY <1>1 DEF Steps!Released
<1>5. /\ shown' \in Releases \cup {NoRequest}
      /\ \A i \in Steps!Released : shown' \in Releases /\ shown'[2] = pipeline[i].name
  <2>0. /\ shown \in Releases \cup {NoRequest}
        /\ \A i \in Steps!Released : shown \in Releases /\ shown[2] = pipeline[i].name
    BY <1>1, <1>2 DEF ShowsIt
  <2>1. CASE shown = NoRequest
    BY <1>1, <2>0, <2>1
  <2>2. CASE shown # NoRequest
    <3>1. shown \in Releases /\ runNumber \in 1 .. MaxPipeRuns
      BY <1>1, <1>2, <2>0, <2>2 DEF StepsTyped
    <3>2. shown' = <<runNumber, shown[2], content'>> /\ content' \in StepContents /\ shown[2] \in SendNames
      BY <1>1, <2>2, <3>1 DEF Releases
    <3>3. shown' \in Releases /\ shown'[2] = shown[2]
      BY <3>1, <3>2 DEF Releases
    <3> QED BY <2>0, <3>3
  <2> QED BY <2>1, <2>2
<1>6. ShowsIt'
  BY <1>1, <1>4, <1>5 DEF ShowsIt, Releases
<1> QED BY <1>1, <1>3, <1>6, StaysThere

\* Approved: the request that was shown is released, and it is the next one's.
LEMMA ApproveStep ==
    ASSUME Steps!PipelineRunAssumption, SendsInv, Steps!Approve
    PROVE  SendsInv'
<1>1. /\ at > 0 /\ pipeline[at].kind = "approval" /\ place = "ask" /\ Steps!NextStep
      /\ IF shown = NoRequest THEN UNCHANGED <<approvedFor, asked>>
         ELSE /\ approvedFor' = [approvedFor EXCEPT ![shown[2]] = shown]
              /\ asked' = Append(asked, shown)
      /\ UNCHANGED <<pipeline, runNumber, content, sentOut>>
  BY DEF Steps!Approve, Steps!In
<1>2. StepsTyped /\ ShowsIt
  BY DEF SendsInv
<1>3. /\ shown \in Releases \cup {NoRequest}
      /\ \A i \in Steps!Released : shown \in Releases /\ shown[2] = pipeline[i].name
  BY <1>1, <1>2 DEF ShowsIt
<1>4. \A i : i \in Steps!Released <=> IsNext(at + 1, i)
  BY <1>1, <1>2, ReleasedIsNext
<1>5. /\ approvedFor \in [SendNames -> Releases \cup {NoRequest}]
      /\ asked \in Seq(Releases) /\ sentOut \in Seq(Releases)
      /\ content \in StepContents \cup {NoContent}
  BY <1>2 DEF StepsTyped
<1>n. NoRequest \notin Releases
  BY DEF Steps!PipelineRunAssumption, Releases
<1>6. CASE shown = NoRequest
  <2>1. \A i : ~IsNext(at + 1, i)
    BY <1>3, <1>4, <1>6, <1>n
  <2>2. UNCHANGED <<approvedFor, asked>>
    BY <1>1, <1>6
  <2>3. StepsTyped' /\ ShowsIt' /\ OwedOne'
    BY <1>1, <1>2, <1>5, <2>1, <2>2, GoesOn
  <2>4. (\A q \in Releases : Steps!Count(sentOut, q) <= Steps!Count(asked, q))'
    BY <1>1, <2>2 DEF SendsInv, Releases
  <2> QED BY <2>3, <2>4 DEF SendsInv
<1>7. CASE shown # NoRequest
  <2>1. shown \in Releases /\ shown[2] \in SendNames
    BY <1>3, <1>7 DEF Releases
  <2>2. approvedFor' = [approvedFor EXCEPT ![shown[2]] = shown] /\ asked' = Append(asked, shown)
    BY <1>1, <1>7
  <2>3. PICK q : q = shown
    OBVIOUS
  <2>4. /\ approvedFor' \in [SendNames -> Releases \cup {NoRequest}] /\ asked' \in Seq(Releases)
        /\ approvedFor'[shown[2]] = q
    BY <1>5, <2>1, <2>2, <2>3
  <2>5. \A r \in Releases : Steps!Count(sentOut, r) <= Steps!Count(asked, r)
    BY DEF SendsInv
  <2>6. \A r \in Releases : Steps!Count(sentOut, r) \in Nat /\ Steps!Count(asked, r) \in Nat
    BY <1>5, CountIsNat
  <2>7. \A r \in Releases : r # q => Steps!Count(asked', r) = Steps!Count(asked, r)
    BY <1>5, <2>1, <2>2, <2>3, CountAppends
  <2>8. Steps!Count(asked', q) = Steps!Count(asked, q) + 1
    BY <1>5, <2>1, <2>2, <2>3, CountAppends
  <2>9. q \in Releases /\ Steps!Count(sentOut, q) < Steps!Count(asked', q)
    BY <2>1, <2>3, <2>5, <2>6, <2>8
  <2>10. sentOut' = sentOut
    BY <1>1
  <2>11. Steps!Count(sentOut', q) < Steps!Count(asked', q)
    BY <2>9, <2>10
  <2>12. \A i \in DOMAIN pipeline : IsNext(at + 1, i) =>
            LET r == approvedFor'[pipeline[i].name] IN
            r \in Releases /\ Steps!Count(sentOut', r) < Steps!Count(asked', r)
    BY <1>3, <1>4, <2>4, <2>9, <2>11
  <2>13. StepsTyped' /\ ShowsIt' /\ OwedOne'
    BY <1>1, <1>2, <1>5, <2>4, <2>12, GoesOn
  <2>14. \A r \in Releases : Steps!Count(sentOut', r) <= Steps!Count(asked', r)
    <3> SUFFICES ASSUME NEW r \in Releases
                 PROVE  Steps!Count(sentOut', r) <= Steps!Count(asked', r)
      OBVIOUS
    <3>1. Steps!Count(sentOut', r) = Steps!Count(sentOut, r)
      BY <2>10
    <3>2. CASE r = q
      BY <2>5, <2>6, <2>8, <3>1, <3>2
    <3>3. CASE r # q
      BY <2>5, <2>7, <3>1, <3>3
    <3> QED BY <3>2, <3>3
  <2>15. (\A r \in Releases : Steps!Count(sentOut, r) <= Steps!Count(asked, r))'
    BY <2>14 DEF Releases
  <2> QED BY <2>13, <2>15 DEF SendsInv
<1> QED BY <1>6, <1>7

\* Sent: the one that was released once more than sent.
LEMMA SendStep ==
    ASSUME SendsInv, Steps!Send
    PROVE  SendsInv'
<1>1. /\ at > 0 /\ pipeline[at].kind = "send"
      /\ approvedFor[pipeline[at].name] = Steps!Request(pipeline[at].name)
      /\ sentOut' = Append(sentOut, Steps!Request(pipeline[at].name))
      /\ Steps!NextStep \/ Steps!EndRun
      /\ UNCHANGED <<pipeline, runNumber, content, approvedFor, asked>>
  BY DEF Steps!Send, Steps!In, Steps!stepVars
<1>2. StepsTyped /\ OwedOne
  BY DEF SendsInv
<1>3. at \in Nat /\ at \in DOMAIN pipeline /\ IsNext(at, at)
  BY <1>1, <1>2 DEF StepsTyped, IsNext
<1>4. PICK q : q = Steps!Request(pipeline[at].name)
  OBVIOUS
<1>5. q \in Releases /\ Steps!Count(sentOut, q) < Steps!Count(asked, q)
  BY <1>1, <1>2, <1>3, <1>4 DEF OwedOne
<1>6. /\ approvedFor \in [SendNames -> Releases \cup {NoRequest}]
      /\ asked \in Seq(Releases) /\ sentOut \in Seq(Releases)
      /\ content \in StepContents \cup {NoContent}
  BY <1>2 DEF StepsTyped
<1>7. sentOut' = Append(sentOut, q) /\ sentOut' \in Seq(Releases)
  BY <1>1, <1>4, <1>5, <1>6
<1>8. \A i : ~IsNext(at + 1, i)
  <2>1. PICK k \in Nat \ {0} : k = at + 1
    BY <1>3
  <2>2. k - 1 = at
    BY <1>3, <2>1
  <2>3. pipeline[k - 1].kind = "send"
    BY <1>1, <2>2
  <2>4. \A i : ~IsNext(k, i)
    BY <1>2, <2>3, ApprovalFirst
  <2> QED BY <2>1, <2>4
<1>9. StepsTyped' /\ ShowsIt' /\ OwedOne'
  <2>1. /\ approvedFor' \in [SendNames -> Releases \cup {NoRequest}] /\ asked' \in Seq(Releases)
        /\ content' \in StepContents \cup {NoContent}
    BY <1>1, <1>6
  <2>2. CASE Steps!NextStep
    BY <1>1, <1>2, <1>7, <1>8, <2>1, <2>2, GoesOn
  <2>3. CASE Steps!EndRun
    <3>1. at' = 0
      BY <2>3 DEF Steps!EndRun
    <3> QED BY <1>1, <1>2, <1>7, <2>1, <3>1, RunIsOver
  <2> QED BY <1>1, <2>2, <2>3
<1>10. \A r \in Releases : Steps!Count(sentOut, r) \in Nat /\ Steps!Count(asked, r) \in Nat
  BY <1>6, CountIsNat
<1>11. \A r \in Releases : r # q => Steps!Count(sentOut', r) = Steps!Count(sentOut, r)
  BY <1>5, <1>6, <1>7, CountAppends
<1>12. Steps!Count(sentOut', q) = Steps!Count(sentOut, q) + 1
  BY <1>5, <1>6, <1>7, CountAppends
<1>13. \A r \in Releases : Steps!Count(sentOut', r) <= Steps!Count(asked, r)
  <2>1. \A r \in Releases : Steps!Count(sentOut, r) <= Steps!Count(asked, r)
    BY DEF SendsInv
  <2>2. Steps!Count(sentOut', q) <= Steps!Count(asked, q)
    BY <1>5, <1>10, <1>12
  <2> QED BY <1>11, <2>1, <2>2
<1>14. (\A r \in Releases : Steps!Count(sentOut, r) <= Steps!Count(asked, r))'
  BY <1>1, <1>13 DEF Releases
<1> QED BY <1>9, <1>14 DEF SendsInv

\* Items: what is fetched is new, and what is taken up is marked or degraded.
LEMMA TakenStep ==
    ASSUME TakenInv, [Steps!Next]_(Steps!vars)
    PROVE  TakenInv'
<1>1. CASE UNCHANGED Steps!itemVars \/ UNCHANGED Steps!vars
  BY <1>1 DEF TakenInv, Steps!itemVars, Steps!vars
<1>2. ASSUME NEW i \in Listable, Steps!List(i) PROVE TakenInv'
  BY <1>2 DEF TakenInv, Steps!List
<1>3. CASE Steps!Halt
  BY <1>3 DEF TakenInv, Steps!Halt
<1>4. CASE Steps!Fetch
  <2>1. CASE fetched' = listed \ seen /\ UNCHANGED <<seen, taken, degraded>>
    BY <2>1 DEF TakenInv
  <2>2. CASE /\ UNCHANGED <<fetched, seen>> /\ degraded' = degraded \cup listed
             /\ taken' = [i \in Listable |-> IF i \in listed THEN taken[i] + 1 ELSE taken[i]]
    BY <2>2 DEF TakenInv
  <2> QED BY <1>4, <2>1, <2>2 DEF Steps!Fetch, Steps!Unseen
<1>5. CASE Steps!Mark
  <2>1. /\ fetched' = {}
        /\ taken' = [i \in Listable |-> IF i \in fetched THEN taken[i] + 1 ELSE taken[i]]
        /\ \/ seen' = seen \cup fetched /\ degraded' = degraded
           \/ degraded' = degraded \cup fetched /\ seen' = seen
    BY <1>5 DEF Steps!Mark
  <2>2. taken' \in [Listable -> Nat] /\ fetched' \cap seen' = {}
    BY <2>1 DEF TakenInv
  <2>3. ASSUME NEW i \in Listable, i \notin degraded'
        PROVE  taken'[i] <= 1 /\ (taken'[i] = 1 => i \in seen')
    <3>1. i \notin degraded /\ taken[i] \in Nat /\ taken[i] <= 1 /\ (taken[i] = 1 => i \in seen)
      BY <2>1, <2>3 DEF TakenInv
    <3>2. CASE i \in fetched
      <4>1. i \notin seen /\ i \in seen' /\ taken'[i] = taken[i] + 1
        BY <2>1, <2>3, <3>2 DEF TakenInv
      <4> QED BY <3>1, <4>1
    <3>3. CASE i \notin fetched
      BY <2>1, <3>1, <3>3
    <3> QED BY <3>2, <3>3
  <2> QED BY <2>2, <2>3 DEF TakenInv
<1>6. CASE Steps!StartRun \/ Steps!Complete \/ Steps!Show \/ Steps!Approve \/ Steps!Adjust \/ Steps!Send
  <2>1. UNCHANGED Steps!itemVars
    BY <1>6 DEF Steps!StartRun, Steps!Complete, Steps!Show, Steps!Approve, Steps!Adjust, Steps!Send
  <2> QED BY <1>1, <2>1
<1> QED BY <1>1, <1>2, <1>3, <1>4, <1>5, <1>6 DEF Steps!Next

\* What leaves was shown and released in its run, once for each release, for
\* every pipeline the validator accepts (runHTTPRequest, releasedHTTPRequest,
\* checkHTTPRequestStep).
THEOREM RequestsWereReleased ==
    ASSUME Steps!PipelineRunAssumption
    PROVE  Steps!Spec => []Steps!SentWasReleased
<1>1. Steps!Init => SendsInv
  BY StepsInit
<1>2. SendsInv /\ [Steps!Next]_(Steps!vars) => SendsInv'
  <2> SUFFICES ASSUME SendsInv, [Steps!Next]_(Steps!vars)
               PROVE  SendsInv'
    OBVIOUS
  <2>1. CASE UNCHANGED Steps!vars
    <3>1. UNCHANGED <<pipeline, runNumber, at, place, shown, content, approvedFor, asked, sentOut>>
      BY <2>1 DEF Steps!vars, Steps!stepVars, Steps!history
    <3>2. ShowsIt' /\ content' \in StepContents \cup {NoContent}
      BY <3>1 DEF SendsInv, ShowsIt, StepsTyped, Steps!Released, Releases
    <3> QED BY <3>1, <3>2, StaysThere
  <2>2. CASE Steps!Next
    BY <2>2, ItemsStep, StartStep, HaltStep, CompleteStep, ShowStep, AdjustStep, ApproveStep, SendStep
       DEF Steps!Next
  <2> QED BY <2>1, <2>2
<1>3. SendsInv => Steps!SentWasReleased
  <2> SUFFICES ASSUME SendsInv, NEW i \in DOMAIN sentOut
               PROVE  Steps!Count(sentOut, sentOut[i]) <= Steps!Count(asked, sentOut[i])
    BY DEF Steps!SentWasReleased
  <2>1. sentOut[i] \in Releases
    BY DEF SendsInv, StepsTyped
  <2> QED BY <2>1 DEF SendsInv
<1> QED BY <1>1, <1>2, <1>3, PTL DEF Steps!Spec

\* An item is taken up once over all runs, crashes included, unless the store
\* failed to say or to record that it was seen (DedupByID, MarkSeen).
THEOREM ItemsAreTakenOnce ==
    ASSUME Steps!PipelineRunAssumption
    PROVE  Steps!Spec => []Steps!ItemsTakenOnce
<1>1. Steps!Init => TakenInv
  BY StepsInit
<1>2. TakenInv /\ [Steps!Next]_(Steps!vars) => TakenInv'
  BY TakenStep
<1>3. TakenInv => Steps!ItemsTakenOnce
  BY DEF TakenInv, Steps!ItemsTakenOnce
<1> QED BY <1>1, <1>2, <1>3, PTL DEF Steps!Spec

\* Both together: nothing acts twice on one release or on one item, whatever is
\* retried, halted or lost in a crash.
THEOREM StepsAct ==
    ASSUME Steps!PipelineRunAssumption
    PROVE  Steps!Spec => []StepsActOnce
<1>1. Steps!SentWasReleased /\ Steps!ItemsTakenOnce => StepsActOnce
  BY DEF StepsActOnce
<1> QED BY <1>1, RequestsWereReleased, ItemsAreTakenOnce, PTL
=============================================================================
