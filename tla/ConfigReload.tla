---------------------------- MODULE ConfigReload ----------------------------
(***************************************************************************)
(* The configuration a run works with (internal/validate, config_reload.go, *)
(* the boot part of main.go): the checks of a file, the boot that refuses    *)
(* one with errors, the reload that puts the sections a reload applies into  *)
(* the running configuration, and the two snapshots, of the configuration    *)
(* and of the skills, a run takes when it starts.                            *)
(*                                                                          *)
(* A file has one pipeline, of ai and approval steps, and the sections its   *)
(* steps are looked up in.  Files and skills directories are edited at any   *)
(* time, by whoever operates the engine: that is external.                   *)
(***************************************************************************)
EXTENDS Integers, Sequences, FiniteSets, SequencesExt

CONSTANTS
    Files,      \* configuration files
    SkillDirs,  \* contents of the skills directory
    Requests,   \* runs
    NoRole, NoSkill, NoSteps,
    MaxEdits,   \* bound: edits of the file or of the directory
    MaxBoots    \* bound: boots

IsList(s) == s \in Seq(Range(s))

\* What the steps and the operators of a file look like: quorum and approvers
\* of an approval step; a skill, or a prompt of its own, of an ai step.  The
\* directory is a sequence of files in the order they are read.
ConfigAssumption ==
    /\ \A f \in Files :
        /\ DOMAIN f = {"relay", "allowed", "relayAllowed", "operators", "roles", "models", "steps"}
        /\ f.relay \in BOOLEAN /\ Len(f.allowed) > 0
        /\ IsList(f.allowed) /\ IsList(f.relayAllowed) /\ IsList(f.operators) /\ IsList(f.steps)
        /\ \A st \in Range(f.steps) : st.type = "approval" => st.quorum \in Int
    /\ \A d \in SkillDirs :
        /\ IsList(d)
        /\ \A i \in DOMAIN d : DOMAIN d[i] = {"name", "role", "readable"}
    /\ {MaxEdits, MaxBoots} \subseteq Nat

VARIABLES
    file,       \* config.yaml
    dir,        \* skills/
    phase,      \* of the process: "down", "booting" or "up"
    live,       \* liveConfig and liveSkills; history: the directory its check read
    next,       \* what a boot or a reload is building
    reload,     \* where the reload is
    run,
    edits, boots

vars == <<file, dir, phase, live, next, reload, run, edits, boots>>

-----------------------------------------------------------------------------
\* LoadSkills: a file that cannot be read is passed over, the last of a name wins.
Readable(d) == {i \in DOMAIN d : d[i].readable}
Names(d) == {d[i].name : i \in Readable(d)}
Registry(d) ==
    [n \in Names(d) |->
        LET i == CHOOSE i \in Readable(d) :
                    d[i].name = n /\ \A j \in Readable(d) : d[j].name = n => j <= i
        IN  d[i].role]

\* loadSkillsForValidate: there it is an error, and so is a second one of a name.
SkillsOk(d) ==
    /\ Readable(d) = DOMAIN d
    /\ \A i, j \in DOMAIN d : d[i].name = d[j].name => i = j

\* checkRolesToModels
RolesOk(c) == \A r \in DOMAIN c.roles : c.roles[r] \in c.models

IdentityFor(c, u) ==
    LET I == {i \in DOMAIN c.operators : c.operators[i].id = u}
    IN  {c.operators[i].identity : i \in {i \in I : \A j \in I : i <= j}}

\* checkRelay
RelayOk(c) ==
    c.relay =>
        /\ c.operators # <<>> /\ c.relayAllowed # <<>>
        /\ \A i, j \in DOMAIN c.operators :
            c.operators[i].id = c.operators[j].id
                \/ c.operators[i].identity = c.operators[j].identity => i = j
        /\ \A u \in Range(c.relayAllowed) : IdentityFor(c, u) # {}

Need(st) == IF st.quorum < 1 THEN 1 ELSE st.quorum

\* Mutant of ApproversOk: an approver listed twice is counted twice.
ApproversCounted(c, st) ==
    st.approvers # <<>> =>
        /\ Range(st.approvers) \subseteq Range(c.allowed)
        /\ Len(st.approvers) >= Need(st)

\* checkApprovers
ApproversOk(c, st) ==
    st.approvers # <<>> =>
        /\ Range(st.approvers) \subseteq Range(c.allowed)
        /\ Cardinality(Range(st.approvers)) >= Need(st)

Pool(c, st) == IF st.channel = "relay" THEN c.relayAllowed ELSE c.allowed

\* checkPipelines, of an approval step: the pool is the named channel's.
ApprovalOk(c, st) ==
    /\ st.channel \in {"telegram", "relay"}
    /\ st.channel = "relay" => c.relay
    /\ st.quorum >= 0
    /\ st.quorum <= Len(Pool(c, st))
    /\ ApproversOk(c, st)

\* Mutant of AIOk: a role that comes with the skill is not looked at.
AIOkOwnRole(c, reg, st) ==
    /\ st.skill # NoSkill => st.skill \in DOMAIN reg
    /\ st.role # NoRole => st.role \in DOMAIN c.roles

\* The role of an ai step that is looked up: its own, or else its skill's.
RoleChecked(reg, st) ==
    IF st.role = NoRole /\ st.skill \in DOMAIN reg THEN reg[st.skill] ELSE st.role

\* checkPipelines, of an ai step.
AIOk(c, reg, st) ==
    /\ st.skill # NoSkill => st.skill \in DOMAIN reg
    /\ RoleChecked(reg, st) # NoRole => RoleChecked(reg, st) \in DOMAIN c.roles

StepsOk(c, reg) ==
    /\ c.steps # <<>>
    /\ \A st \in Range(c.steps) :
        IF st.type = "ai" THEN AIOk(c, reg, st) ELSE ApprovalOk(c, st)

\* CheckAtStartup: no finding that is an error.
Accepted(c, d) ==
    /\ SkillsOk(d) /\ RolesOk(c) /\ RelayOk(c)
    /\ StepsOk(c, Registry(d))

\* main: the channel the engine runs is the relay when one is configured.
Running(c) == IF c.relay THEN "relay" ELSE "telegram"

-----------------------------------------------------------------------------
Nothing == [config |-> NoSteps, skills |-> <<>>, checked |-> <<>>]
Idle == [pc |-> "idle", config |-> NoSteps, skills |-> <<>>, checked |-> <<>>, step |-> 1, why |-> "none"]

Edit ==
    /\ edits < MaxEdits /\ edits' = edits + 1
    /\ \/ \E f \in Files \ {file} : file' = f /\ UNCHANGED dir
       \/ \E d \in SkillDirs \ {dir} : dir' = d /\ UNCHANGED file
    /\ UNCHANGED <<phase, live, next, reload, run, boots>>

\* main reads the file and the skills; the checks read the skills again.
BootRead ==
    /\ phase = "down" /\ boots < MaxBoots /\ boots' = boots + 1
    /\ phase' = "booting"
    /\ next' = [config |-> file, skills |-> Registry(dir), checked |-> <<>>]
    /\ UNCHANGED <<file, dir, live, reload, run, edits>>

BootCheck ==
    /\ phase = "booting"
    /\ IF Accepted(next.config, dir)
       THEN phase' = "up" /\ live' = [next EXCEPT !.checked = dir]
       ELSE phase' = "down" /\ UNCHANGED live
    /\ next' = Nothing
    /\ UNCHANGED <<file, dir, reload, run, edits, boots>>

\* The process ends, by a signal or not; its runs end with it.
Stop ==
    /\ phase = "up"
    /\ phase' = "down" /\ live' = Nothing /\ next' = Nothing /\ reload' = "none"
    /\ run' = [q \in Requests |-> IF run[q].pc = "idle" THEN Idle ELSE [Idle EXCEPT !.pc = "over"]]
    /\ UNCHANGED <<file, dir, edits, boots>>

\* buildReload takes the sections that only shape runs; operators, channels
\* and the relay are those of the boot.
ReloadRead ==
    /\ phase = "up" /\ reload = "none"
    /\ reload' = "check"
    /\ next' = [config |-> [live.config EXCEPT !.roles = file.roles, !.models = file.models,
                                               !.steps = file.steps],
                skills |-> <<>>, checked |-> <<>>]
    /\ UNCHANGED <<file, dir, phase, live, run, edits, boots>>

\* Mutant of ReloadCheck: the file is checked, not what will run.
ReloadCheckFile ==
    /\ reload = "check"
    /\ IF Accepted(file, dir)
       THEN reload' = "load" /\ next' = [next EXCEPT !.checked = dir]
       ELSE reload' = "none" /\ next' = Nothing
    /\ UNCHANGED <<file, dir, phase, live, run, edits, boots>>

ReloadCheck ==
    /\ reload = "check"
    /\ IF Accepted(next.config, dir)
       THEN reload' = "load" /\ next' = [next EXCEPT !.checked = dir]
       ELSE reload' = "none" /\ next' = Nothing
    /\ UNCHANGED <<file, dir, phase, live, run, edits, boots>>

\* The skills the runs will have are read after the ones that were checked.
ReloadLoad ==
    /\ reload = "load" /\ reload' = "config"
    /\ next' = [next EXCEPT !.skills = Registry(dir)]
    /\ UNCHANGED <<file, dir, phase, live, run, edits, boots>>

\* reloadEngine stores the two snapshots one after the other.
StoreConfig ==
    /\ reload = "config" /\ reload' = "skills"
    /\ live' = [live EXCEPT !.config = next.config, !.checked = next.checked]
    /\ UNCHANGED <<file, dir, phase, next, run, edits, boots>>

StoreSkills ==
    /\ reload = "skills" /\ reload' = "none"
    /\ live' = [live EXCEPT !.skills = next.skills] /\ next' = Nothing
    /\ UNCHANGED <<file, dir, phase, run, edits, boots>>

\* The webhook handler reads the configuration, then the skills; the main
\* loop, which also reloads, reads both with nothing between.
ReadConfig(q) ==
    /\ phase = "up" /\ run[q].pc = "idle"
    /\ run' = [run EXCEPT ![q].pc = "skills", ![q].config = live.config, ![q].checked = live.checked]

ReadSkills(q) ==
    /\ run[q].pc = "skills"
    /\ run' = [run EXCEPT ![q].pc = "running", ![q].skills = live.skills]

Claim(q) ==
    /\ phase = "up" /\ reload = "none" /\ run[q].pc = "idle"
    /\ run' = [run EXCEPT ![q] = [pc |-> "running", config |-> live.config, skills |-> live.skills,
                                  checked |-> live.checked, step |-> 1, why |-> "none"]]

Step(q) == run[q].config.steps[run[q].step]
Fail(q, why) == run' = [run EXCEPT ![q].pc = "over", ![q].why = why]

\* A run that completes, is skipped or times out leaves nothing to tell.
End(q) == run' = [run EXCEPT ![q] = [Idle EXCEPT !.pc = "over"]]
Onward(q) ==
    IF run[q].step = Len(run[q].config.steps) THEN End(q)
    ELSE run' = [run EXCEPT ![q].step = @ + 1, ![q].pc = "running"]

\* The role an ai step is run with: its skill's, when it has a skill.
RoleUsed(reg, st) == IF st.skill = NoSkill THEN st.role ELSE reg[st.skill]

\* The ai step: its skill, its role and the role's model.
RunAI(q) ==
    LET st == Step(q)
        reg == run[q].skills
        role == RoleUsed(reg, st)
        c == run[q].config
    IN  /\ run[q].pc = "running" /\ st.type = "ai"
        /\ IF st.skill # NoSkill /\ st.skill \notin DOMAIN reg THEN Fail(q, "unknown skill")
           ELSE IF role \notin DOMAIN c.roles THEN Fail(q, "unknown role")
           ELSE IF c.roles[role] \notin c.models THEN Fail(q, "unknown model")
           ELSE Onward(q)

\* Who may decide the gate: of Telegram's operators those the step names; the
\* relay takes the step's list for its own and knows some of them.
Deciders(c, st) ==
    IF Running(c) = "telegram"
    THEN {u \in Range(c.allowed) : st.approvers = <<>> \/ u \in Range(st.approvers)}
    ELSE UNION {IdentityFor(c, u) :
                u \in Range(IF st.approvers = <<>> THEN c.relayAllowed ELSE st.approvers)}

\* The approval step, and SendForQuorumApproval of the relay.
RunApproval(q) ==
    LET st == Step(q)
        c == run[q].config
    IN  /\ run[q].pc = "running" /\ st.type = "approval"
        /\ IF st.channel # Running(c) THEN Fail(q, "channel")
           ELSE IF c.relay /\ Cardinality(Deciders(c, st)) < Need(st)
           THEN Fail(q, "unsatisfiable")
           ELSE run' = [run EXCEPT ![q].pc = "asking"]

\* The gate is approved, or skipped or timed out.
Decided(q) == run[q].pc = "asking" /\ (Onward(q) \/ End(q))

-----------------------------------------------------------------------------
RunNext(q) ==
    /\ \/ ReadConfig(q) \/ ReadSkills(q) \/ Claim(q) \/ RunAI(q) \/ RunApproval(q) \/ Decided(q)
    /\ UNCHANGED <<file, dir, phase, live, next, reload, edits, boots>>

Init ==
    /\ file \in Files /\ dir \in SkillDirs
    /\ phase = "down" /\ live = Nothing /\ next = Nothing /\ reload = "none"
    /\ run = [q \in Requests |-> Idle]
    /\ edits = 0 /\ boots = 0

Next ==
    \/ Edit \/ BootRead \/ BootCheck \/ Stop
    \/ ReloadRead \/ ReloadCheck \/ ReloadLoad \/ StoreConfig \/ StoreSkills
    \/ \E q \in Requests : RunNext(q)

Spec == Init /\ [][Next]_vars

-----------------------------------------------------------------------------
\* What runs was checked as it runs, the sections of the boot together with
\* those of the reload (config_reload.go, CheckAtStartup).
LiveWasAccepted == phase = "up" => Accepted(live.config, live.checked)

\* What the checks pass over: the role an ai step is run with is none, or is not
\* the one that was looked up ...
RoleOverlooked(reg, st) == RoleUsed(reg, st) = NoRole \/ RoleUsed(reg, st) # RoleChecked(reg, st)

\* ... somebody is on the list of operators twice, or an approver of a relay's
\* gate, whom the check looks for among Telegram's operators, is not the relay's.
PeopleOverlooked(c, st) ==
    IF st.approvers = <<>> THEN ~IsInjective(Pool(c, st))
    ELSE st.channel = "relay" /\ \E u \in Range(st.approvers) : IdentityFor(c, u) = {}

\* "Problems surface at boot rather than mid-run" (README.md:134), of every file
\* that is accepted: a run that has the skills its configuration was checked
\* with ends at no skill and no model it cannot find, at a role only if the
\* checks overlooked it, and at a gate with too few people only if they
\* overlooked those.  A step it cannot route was left on Telegram beside a relay.
AcceptedRunsResolve ==
    \A q \in Requests :
        /\ run[q].why = "channel" => run[q].config.relay /\ Step(q).channel = "telegram"
        /\ run[q].why = "unsatisfiable" => PeopleOverlooked(run[q].config, Step(q))
        /\ run[q].skills = Registry(run[q].checked) =>
              /\ run[q].why \notin {"unknown skill", "unknown model"}
              /\ run[q].why = "unknown role" => RoleOverlooked(run[q].skills, Step(q))

\* A gate that asks can be decided: as many people may approve it as it needs
\* (checkApprovers: otherwise the gate hangs until the approval timeout), but
\* for a gate on Telegram whose operators were counted twice.
GatesCanBeDecided ==
    \A q \in Requests :
        LET c == run[q].config
        IN  run[q].pc = "asking" =>
                \/ Cardinality(Deciders(c, Step(q))) >= Need(Step(q))
                \/ ~c.relay /\ PeopleOverlooked(c, Step(q))

\* An approval step of a configuration that was accepted is on the channel the
\* engine runs (main.go: validate catches this before boot).
StepsAreRouted == \A q \in Requests : run[q].why # "channel"
=============================================================================
