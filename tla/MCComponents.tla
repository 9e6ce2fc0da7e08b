---------------------------- MODULE MCComponents ----------------------------
(***************************************************************************)
(* Instances for TLC of the components that share nothing with each other: *)
(* a behaviour is of one component, `part`, and those of the others have   *)
(* no state.  Steps, properties and state spaces are those of each alone.  *)
(* Most components and their properties are in the modules this one        *)
(* extends, where the proofs are of them too.                              *)
(***************************************************************************)
EXTENDS RunParts, FileParts, LimitParts, Integers, Sequences, FiniteSets, TLC

CONSTANTS
    k1, k2, k3, m1, m2,  \* calls, receipts; agents, items, requests, runs, sessions
    None,
    Absent,            \* the state of a component that does not run
    Parts,          \* the components of a run
    Zones           \* the clock changes of the calendar schedules

VARIABLES
    part,
    v1, v2, v3, v4, v5, v6, v7, v8, v9, v10, v11, v12   \* of the standing grants or a schedule

ownPart == <<v1, v2, v3, v4, v5, v6, v7, v8, v9, v10, v11, v12>>
vars == <<part, hookPart, tripPart, modelPart, stepsPart, tokensPart, configPart, anchorsPart,
          installPart, rulesPart, moneyPart, ownPart>>

Three == {k1, k2, k3}
Two == {m1, m2}

Symmetric == Permutations(Three) \cup Permutations(Two)

-----------------------------------------------------------------------------
\* The hook's entry in settings files: documents with the person's hooks before,
\* after and in one group with draftcat's, an entry of draftcat's twice, and
\* lists and groups left empty.
Group(hooks) == [group |-> TRUE, hooks |-> hooks]
Bare(hook) == [group |-> FALSE, hooks |-> <<hook>>]
Doc(list, others) == [kind |-> "document", has |-> list # <<>>, list |-> list, others |-> others]

SettingsFiles == {
    Doc(<<>>, TRUE), [Doc(<<>>, FALSE) EXCEPT !.has = TRUE],
    Doc(<<Group(<<"lint">>), Group(<<"ours 1">>), Group(<<"log">>)>>, FALSE),
    Doc(<<Group(<<"lint", "ours 1", "log">>)>>, TRUE),
    Doc(<<Bare("ours 1"), Group(<<"ours 2", "lint">>), Group(<<"ours 1", "ours 2">>),
          Group(<<>>)>>, FALSE),
    Doc(<<Bare("lint"), Bare("ours 2")>>, TRUE)}

Installs ==
    [path : {"project"}, remove : BOOLEAN, dryRun : {FALSE}, hook : {"ours 1", "ours 2"}]
      \cup [path : {"project"}, remove : {TRUE}, dryRun : {TRUE}, hook : {"ours 1"}]

-----------------------------------------------------------------------------
\* Rules that change under calls.
Numbers == {"-1", "4", "4.0", "6", "acme"}
Num(s, n) == [present |-> TRUE, spell |-> s, num |-> {n}]
Signed == {Num("-1", -1), Num("4", 4), Num("6", 6)}
SpelledTwice == {Num("4", 4), Num("4.0", 4), [present |-> TRUE, spell |-> "acme", num |-> {}],
                 [present |-> FALSE, spell |-> "acme", num |-> {}]}

AnyArgument == [risk |-> "normal", requireApproval |-> FALSE, denyMismatch |-> FALSE,
                rememberApproval |-> FALSE, allowGrants |-> FALSE, wellFormed |-> TRUE,
                equals |-> {}, matches |-> Numbers, optional |-> TRUE,
                min |-> {}, max |-> {}, reviewAbove |-> {}, maxPerDay |-> {}, maxCalls |-> {},
                hash |-> {}, definitionFile |-> FALSE]

\* An amount with bands and a total, its definition in a file; a tool that asks
\* and takes grants, its definition pinned by hash.
Banded == [AnyArgument EXCEPT !.max = {9}, !.reviewAbove = {6}, !.maxPerDay = {5},
                              !.definitionFile = TRUE]
Granted == [AnyArgument EXCEPT !.requireApproval = TRUE, !.allowGrants = TRUE,
                               !.denyMismatch = TRUE, !.maxCalls = {1}, !.hash = {"def A"}]

Section(rules, shadow) ==
    [rules |-> rules, callers |-> {}, limited |-> {}, requireCaller |-> FALSE, shadow |-> shadow]

\* The third pins by hash what the first's file may hold.  The last is refused: a
\* high-risk tool that nobody approves.
ManySettings == {
    [Section({Banded}, {Banded}) EXCEPT !.callers = {"inbox"}, !.limited = {"inbox"}],
    [Section({Granted}, {[Granted EXCEPT !.maxCalls = {2}]}) EXCEPT !.callers = {"inbox"},
                                                                    !.requireCaller = TRUE],
    Section({[Banded EXCEPT !.hash = {"def A"}, !.definitionFile = FALSE]}, {}),
    Section({[AnyArgument EXCEPT !.risk = "high"]}, {})}

\* A high-risk tool nobody approves, the risk with a space around it.
PaddedRisk == {Section({[AnyArgument EXCEPT !.risk = "high, padded"]}, {})}

\* A number a rule wants exactly.
EqualToFour == {Section({[AnyArgument EXCEPT !.equals = {Num("4", 4)}]}, {})}

-----------------------------------------------------------------------------
\* Standing grants, without caps and under them: a tool that requires approval,
\* two calls of one unit, two grants.
Requiring == [capped |-> FALSE, maxPerDay |-> 3, maxCallsPerDay |-> 3, reviewAbove |-> 2,
              requireApproval |-> TRUE, allowGrants |-> TRUE, denyMismatch |-> TRUE]

Grants == INSTANCE CapLedger WITH
    Actions <- Two, Grants <- {"grant 1", "grant 2"}, Args <- {1}, Policies <- {"p"},
    Results <- {"ok"}, Horizon <- 1, Window <- 1, DayLength <- 1,
    ToolRules <- {Requiring, [Requiring EXCEPT !.capped = TRUE, !.maxPerDay = 1]},
    MaxUses <- 1, MaxFaults <- 1, MaxRestarts <- 0,
    NoBinding <- None, NoOutcome <- None, NoAction <- None, NoGrant <- "none",
    rows <- v1, receipts <- v2, outcomes <- v3, now <- v4, rule <- v5, calls <- v6, capMu <- v7,
    amounts <- v8, grants <- v9, takers <- v10, faults <- v11, restarts <- v12

-----------------------------------------------------------------------------
\* The configuration: files with and without a relay, with roles and models that
\* are declared or not, and steps that fit or do not.
Operator(u) == [id |-> u, identity |-> u]
AI(skill, role) == [type |-> "ai", skill |-> skill, role |-> role]
Approval(over, quorum, approvers) ==
    [type |-> "approval", channel |-> over, quorum |-> quorum, approvers |-> approvers]

\* Telegram alone; a relay for the same two people; a relay that knows one.
TelegramOnly == [relay |-> FALSE, allowed |-> <<1, 2>>, relayAllowed |-> <<>>, operators |-> <<>>]
WithRelay == [relay |-> TRUE, allowed |-> <<1, 2>>, relayAllowed |-> <<1, 2>>,
              operators |-> <<Operator(1), Operator(2)>>]
HalfRelay == [WithRelay EXCEPT !.operators = <<Operator(1)>>]

RoleMaps == {"writer" :> "m", "writer" :> "undeclared", <<>>}
File(ch, roles, steps) ==
    [relay |-> ch.relay, allowed |-> ch.allowed, relayAllowed |-> ch.relayAllowed,
     operators |-> ch.operators, roles |-> roles, models |-> {"m"}, steps |-> steps]

\* Each file names the channel its operators use, as the documentation has it.
FilesAsDocumented ==
    {File(TelegramOnly, "writer" :> "m", s) : s \in {
        <<AI("draft", "none"), Approval("telegram", 2, <<>>)>>,
        <<AI("draft", "none"), Approval("telegram", 2, <<1, 1>>)>>,
        <<AI("other", "writer"), Approval("telegram", 0, <<2>>)>>,
        <<AI("none", "writer"), Approval("telegram", 1, <<3>>)>>}}
    \cup {File(TelegramOnly, r, <<AI("draft", "none")>>) : r \in RoleMaps}
    \cup {File(WithRelay, "writer" :> "m", s) : s \in {
        <<AI("draft", "none"), Approval("relay", 2, <<>>)>>,
        <<AI("other", "writer"), Approval("relay", 0, <<2>>)>>}}
    \cup {File(HalfRelay, "writer" :> "m", <<Approval("relay", 2, <<>>)>>)}

\* Files that are accepted though a run of theirs cannot go on: the role of the step
\* hides that of its skill; one operator is listed twice, and a step has no role;
\* an approver of the relay is looked for among Telegram's operators.  (A reload
\* takes the steps of one file to the operators of another.)
FilesOverlooked ==
    {File(TelegramOnly, "reader" :> "m", <<AI("draft", "reader")>>),
     File([TelegramOnly EXCEPT !.allowed = <<1, 1>>], <<>>,
          <<Approval("telegram", 2, <<>>), AI("none", "none")>>),
     File([HalfRelay EXCEPT !.relayAllowed = <<1, 1>>], "writer" :> "m",
          <<Approval("relay", 1, <<2>>)>>)}

FilesOnDisk == FilesAsDocumented \cup FilesOverlooked

Skill(n) == [name |-> n, role |-> "writer", readable |-> TRUE]
SkillFolders ==
    {<<Skill("draft"), Skill("other")>>, <<Skill("draft"), [Skill("other") EXCEPT !.readable = FALSE]>>,
     <<Skill("draft"), Skill("draft")>>, <<Skill("other")>>}

-----------------------------------------------------------------------------
\* Model policies: no rule; a review before a denial; rules for one role and one
\* phase; and one the checks refuse.
Rule(i, phase, roles, pattern, action) ==
    [id |-> i, phase |-> phase, roles |-> roles, pattern |-> pattern, action |-> action]
SomePolicies == {
    <<>>,
    <<Rule(1, "both", {}, "word", "review"), Rule(2, "output", {}, "any", "deny")>>,
    <<Rule(1, "input", {"drafter"}, "word", "deny"), Rule(2, "output", {"drafter"}, "any", "review")>>,
    <<Rule(1, "output", {}, "word", "deny"), Rule(1, "both", {}, "any", "review")>>,
    <<Rule(1, "never", {}, "any", "deny")>>}

-----------------------------------------------------------------------------
\* Calendar schedules: a day of four hours of two minutes, a week of three days,
\* a month of four; clocks put forward and back, east and west of Greenwich.
Each == [star |-> TRUE, from |-> 0, to |-> 0, step |-> 1, stepped |-> FALSE]
Every(n) == [Each EXCEPT !.step = n, !.stepped = TRUE]
To(i, j) == [star |-> FALSE, from |-> i, to |-> j, step |-> 1, stepped |-> FALSE]

HoursAndDays ==
    {{Each}, {To(1, 1)}, {To(2, 2)}, {To(1, 2)}, {To(0, 0), To(3, 3)}}
      \X {<<{Each}, {Each}>>, <<{To(2, 2)}, {Each}>>, <<{Each}, {To(3, 3)}>>,
          <<{To(1, 1)}, {To(1, 1)}>>}
CronSpecs ==
    {[minute |-> m, hour |-> hd[1], dom |-> hd[2][1], month |-> n, dow |-> hd[2][2]] :
       m \in {{Every(2)}, {To(1, 1)}}, hd \in HoursAndDays, n \in {{Each}, {To(2, 2)}}}

\* On the second day, 40 minutes in: at its second hour forward, at its third
\* back; and forward at its midnight.
Forward(o, m) == [before |-> o, after |-> o + 2, at |-> m - o]
Back(o, m) == [before |-> o + 2, after |-> o, at |-> m - o - 2]
UsualZones == {Forward(o, 44) : o \in {-4, 0, 2}} \cup {Back(o, 46) : o \in {-4, 0, 2}}
MidnightZone == {Forward(-4, 40)}

\* Half an hour off the full hour, west of Greenwich.
StJohns == {Forward(-3, 44)}

Schedule == INSTANCE Cron WITH
    HourLength <- 2, DayLength <- 4, WeekLength <- 3, MonthLength <- 4, YearMonths <- 2,
    Reach <- 40, Specs <- CronSpecs, Zones <- Zones, Starts <- 30 .. 50,
    zone <- v1, cron <- v2, start <- v3, t <- v4, walk <- v5, passes <- v6

-----------------------------------------------------------------------------
\* A run of a pipeline and an operator's command over two days.
SmallOrLarge == {[tokens |-> 1, cost |-> 1], [tokens |-> 3, cost |-> 2]}
CapOfDay == [tokens |-> 4, cost |-> 4, reserve |-> TRUE]
CapOfPipeline == "p" :> [tokens |-> 4, cost |-> 2, reserve |-> FALSE]
               @@ "" :> [tokens |-> 0, cost |-> 0, reserve |-> FALSE]

PipelineOfRun == "run" :> "p" @@ "command" :> ""

\* The ledger with voice calls beside it: one model call, no retry, one fault.
FewCalls == Len(billed') <= 1 /\ attempt' = 0 /\ moneyFaults' <= 1

AnyHit == ("any" :> {"plain", "secret"}) @@ ("word" :> {"secret"})

-----------------------------------------------------------------------------
\* The variables of a part that does not run.
NoHook == permit = Absent /\ trail = Absent /\ wait = Absent /\ stage = Absent /\ elapsed = Absent
          /\ requests = Absent /\ retried = Absent /\ spender = Absent /\ hookFaults = Absent
NoTrip == now = Absent /\ scope = Absent /\ gateFreeze = Absent /\ agentFreeze = Absent
          /\ trips = Absent /\ latest = Absent /\ tripSwept = Absent /\ calls = Absent
          /\ tripped = Absent /\ stops = Absent /\ tripFaults = Absent /\ restarts = Absent
NoModel == channel = Absent /\ live = Absent /\ modelCall = Absent /\ gateHolder = Absent
           /\ receipts = Absent /\ modelCalls = Absent /\ modelFaults = Absent /\ reloads = Absent
NoRunSteps == pipeline = Absent /\ runNumber = Absent /\ at = Absent /\ place = Absent
              /\ content = Absent /\ fetched = Absent /\ shown = Absent /\ adjusts = Absent
              /\ approvedFor = Absent /\ listed = Absent /\ seen = Absent /\ taken = Absent
              /\ degraded = Absent /\ asked = Absent /\ sentOut = Absent /\ stepFaults = Absent
NoTokens == vendor = Absent /\ connected = Absent /\ mu = Absent /\ refresh = Absent /\ access = Absent
            /\ fresh = Absent /\ stored = Absent /\ hand = Absent /\ good = Absent /\ issued = Absent
            /\ slipped = Absent /\ told = Absent /\ tokenFaults = Absent
NoConfig == file = Absent /\ dir = Absent /\ process = Absent /\ inForce = Absent /\ next = Absent
            /\ reload = Absent /\ run = Absent /\ edits = Absent /\ configBoots = Absent
NoAnchors == chain = Absent /\ altered = Absent /\ anchorFile = Absent /\ messages = Absent
             /\ anchorState = Absent /\ stateLoaded = Absent /\ jobState = Absent /\ jobStep = Absent
             /\ placing = Absent /\ extends = Absent /\ rewritten = Absent /\ anchorFaults = Absent
NoInstall == settings = Absent /\ installing = Absent /\ options = Absent /\ hadRead = Absent
             /\ lastWrite = Absent /\ settingsEdits = Absent
NoRules == gate = Absent /\ pinned = Absent /\ candidate = Absent /\ toolCalls = Absent /\ uses = Absent
           /\ due = Absent /\ diffs = Absent /\ ruleEdits = Absent /\ grantsIssued = Absent
NoMoney == day = Absent /\ engine = Absent /\ admitted = Absent /\ callStage = Absent
           /\ attempt = Absent /\ completion = Absent /\ runUsed = Absent /\ mem = Absent
           /\ fired = Absent /\ billed = Absent /\ totals = Absent /\ marks = Absent /\ alerts = Absent
           /\ paid = Absent /\ moneyFaults = Absent /\ voice = Absent /\ spoken = Absent
           /\ started = Absent /\ byStart = Absent
NoOwn == v1 = Absent /\ v2 = Absent /\ v3 = Absent /\ v4 = Absent /\ v5 = Absent /\ v6 = Absent
NoPlaces == v7 = Absent /\ v8 = Absent /\ v9 = Absent /\ v10 = Absent /\ v11 = Absent /\ v12 = Absent
places == <<v7, v8, v9, v10, v11, v12>>

Init ==
    /\ part \in Parts
    /\ IF part = "hook" THEN Hook!Init ELSE NoHook
    /\ IF part = "freezes" THEN Trip!Init ELSE NoTrip
    /\ IF part = "model" THEN Model!Init ELSE NoModel
    /\ IF part = "steps" THEN Steps!Init ELSE NoRunSteps
    /\ IF part = "tokens" THEN Renewal!Init ELSE NoTokens
    /\ IF part = "config" THEN Config!Init ELSE NoConfig
    /\ IF part = "anchors" THEN Anchor!Init ELSE NoAnchors
    /\ IF part = "install" THEN Install!Init ELSE NoInstall
    /\ IF part = "rules" THEN Rules!Init ELSE NoRules
    /\ IF part \in {"ledger", "spending"} THEN Money!SpendInit ELSE NoMoney
    /\ CASE part = "grants" -> Grants!Init
         [] part = "schedule" -> Schedule!Init /\ NoPlaces
         [] OTHER -> NoPlaces /\ NoOwn

\* The other parts stay as they are.
Others ==
    /\ IF part = "hook" THEN TRUE ELSE UNCHANGED hookPart
    /\ IF part = "freezes" THEN TRUE ELSE UNCHANGED tripPart
    /\ IF part = "model" THEN TRUE ELSE UNCHANGED modelPart
    /\ IF part = "steps" THEN TRUE ELSE UNCHANGED stepsPart
    /\ IF part = "tokens" THEN TRUE ELSE UNCHANGED tokensPart
    /\ IF part = "config" THEN TRUE ELSE UNCHANGED configPart
    /\ IF part = "anchors" THEN TRUE ELSE UNCHANGED anchorsPart
    /\ IF part = "install" THEN TRUE ELSE UNCHANGED installPart
    /\ IF part = "rules" THEN TRUE ELSE UNCHANGED rulesPart
    /\ IF part \in {"ledger", "spending"} THEN TRUE ELSE UNCHANGED moneyPart
    /\ IF part \in {"grants", "schedule"} THEN TRUE ELSE UNCHANGED ownPart

Next ==
    /\ UNCHANGED part /\ Others
    /\ \/ part = "hook" /\ Hook!Next
       \/ part = "freezes" /\ Trip!Next
       \/ part = "model" /\ Model!Next
       \/ part = "steps" /\ Steps!Next
       \/ part = "tokens" /\ Renewal!Next
       \/ part = "config" /\ Config!Next
       \/ part = "anchors" /\ Anchor!Next
       \/ part = "install" /\ Install!Next
       \/ part = "rules" /\ Rules!Next
       \/ part = "ledger" /\ Money!Next /\ UNCHANGED <<voice, spoken, started, byStart>>
       \/ part = "spending" /\ Money!SpendNext /\ FewCalls
       \/ part = "grants" /\ Grants!Next
       \/ part = "schedule" /\ Schedule!Next /\ UNCHANGED places

Spec == Init /\ [][Next]_vars

\* What each component asks of its constants.
ASSUME ComponentsAssumption ==
    /\ Trip!TripAssumption /\ Hook!GateHookAssumption /\ Install!HookSettingsAssumption
    /\ Rules!RulesAssumption /\ Grants!CapAssumption /\ Config!ConfigAssumption /\ Steps!PipelineRunAssumption
    /\ Model!ModelCallAssumption /\ Schedule!CronAssumption /\ Anchor!AnchorsAssumption
    /\ Money!BudgetAssumption /\ Money!Voice!VoiceAssumption /\ Renewal!ConnectorsAssumption

-----------------------------------------------------------------------------
\* The properties of the two that have no module of their own here.

\* A grant an operator ended is not used again (internal/state/tool_grants.go).
NoUseAfterRevoke == [][part = "grants" => Grants!UsesOnlyLive]_vars

\* Next is the first time the schedule is due (internal/schedule).
NextIsFirstRun == part = "schedule" => Schedule!NextIsFirstRun

\* Each pass of the walk goes forward in time: "walks forward in wall-clock
\* steps" (internal/schedule/schedule.go:237).
WalksForward == [][part = "schedule" => Schedule!PassGoesForward]_vars

\* "A slot inside a skipped hour runs once right after the jump"
\* (docs/operations.md:82).
SkippedSlotRuns == part = "schedule" => Schedule!SkippedSlotRuns

=============================================================================
