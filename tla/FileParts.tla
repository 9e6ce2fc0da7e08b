----------------------------- MODULE FileParts ------------------------------
(***************************************************************************)
(* The components that keep their state in files, side by side: the tokens *)
(* of a connector, the configuration and its reload, the receipts' anchors *)
(* and the harness's settings file.  They share nothing, and each has      *)
(* constants and variables of its own name; what is proved of them and     *)
(* what TLC checks is said here once.  The variables of a component that   *)
(* is left out of a behaviour have no state.                               *)
(***************************************************************************)
CONSTANT NoFilePart   \* what they are then

CONSTANTS TokenCallers, MainCaller, MaxTokens, TokenFaults
VARIABLES vendor, connected, mu, refresh, access, fresh, stored, hand, good, issued, slipped,
          told, tokenFaults

Renewal == INSTANCE Connectors WITH
    Callers <- TokenCallers, Loop <- MainCaller, MaxFaults <- TokenFaults, up <- connected,
    call <- hand, faults <- tokenFaults

tokensPart == <<vendor, connected, mu, refresh, access, fresh, stored, hand, good, issued, slipped,
                told, tokenFaults>>

\* No refresh token that is used up is presented, and memory and file hold a good
\* one, unless an answer was lost, a write failed or the process died in between
\* (internal/ghl, internal/gmail).
CanRenew == hand # NoFilePart => Renewal!CanRenew

\* After "Success. Gmail now has send/compose permissions" (main.go:2180) the
\* connector has them, and has them after a restart, if nothing failed.
ReauthHolds == hand # NoFilePart => Renewal!ReauthHolds

-----------------------------------------------------------------------------
CONSTANTS ConfigFiles, SkillDirs, RunStarts, NoRole, NoSkill, NoSteps, MaxEdits, MaxConfigBoots
VARIABLES file, dir, process, inForce, next, reload, run, edits, configBoots

Config == INSTANCE ConfigReload WITH
    Files <- ConfigFiles, Requests <- RunStarts, MaxBoots <- MaxConfigBoots,
    phase <- process, live <- inForce, boots <- configBoots

configPart == <<file, dir, process, inForce, next, reload, run, edits, configBoots>>

\* A run of an accepted configuration finds its skills, roles and models, and
\* its gates have the people they need, except where the checks look at another
\* role, list of people or channel than the run (validate.go, config_reload.go).
AcceptedRunsResolve == run # NoFilePart => Config!AcceptedRunsResolve /\ Config!GatesCanBeDecided

\* A step of an accepted configuration is on the channel the engine runs:
\* "`draftcat validate` catches this before boot" (main.go:1439).
StepsAreRouted == run # NoFilePart => Config!StepsAreRouted

-----------------------------------------------------------------------------
CONSTANTS Ids, Torn, MaxRows, MaxAlter, MaxLines, MaxAnchorFaults
VARIABLES chain, altered, anchorFile, messages, anchorState, stateLoaded, jobState, jobStep, placing,
          extends, rewritten, anchorFaults

Anchor == INSTANCE Anchors WITH
    MaxFaults <- MaxAnchorFaults, rows <- chain, file <- anchorFile, stored <- anchorState,
    loaded <- stateLoaded, last <- jobState, step <- jobStep, anchor <- placing,
    faults <- anchorFaults

anchorsPart == <<chain, altered, anchorFile, messages, anchorState, stateLoaded, jobState, jobStep,
                 placing, extends, rewritten, anchorFaults>>

\* A recorded slot is in both places, the operator was told of a rewritten
\* history, and the check of an anchor finds the first receipt that is not what
\* it was (receipt_anchor_job.go, internal/state/receipt_anchor.go).
AnchorsTellTheTruth ==
    jobState # NoFilePart =>
        Anchor!RecordedIsPlaced /\ Anchor!RewriteIsTold /\ Anchor!CheckTellsTheTruth

-----------------------------------------------------------------------------
CONSTANTS Installers, SettingsPaths, InstallOptions, Ours, Theirs, Grouped, Documents,
          MaxSettingsEdits
VARIABLES settings, installing, options, hadRead, lastWrite, settingsEdits

Install == INSTANCE HookSettings WITH
    Paths <- SettingsPaths, Options <- InstallOptions, MaxEdits <- MaxSettingsEdits,
    file <- settings, stage <- installing, opt <- options, read <- hadRead, last <- lastWrite,
    edits <- settingsEdits

installPart == <<settings, installing, options, hadRead, lastWrite, settingsEdits>>

\* An install leaves one entry of draftcat's and all of the person's; run again
\* it changes nothing (gate_install.go).
EntryIsUpserted == installing # NoFilePart => Install!EntryIsUpserted /\ Install!UpsertSettles
=============================================================================
