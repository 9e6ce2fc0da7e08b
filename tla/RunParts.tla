------------------------------ MODULE RunParts ------------------------------
(***************************************************************************)
(* The components around the runs of an agent and of a pipeline, side by   *)
(* side: the hook of a harness, the freezes and the denial trip, the model *)
(* calls and the steps of a run.  They share nothing, and each has         *)
(* constants and variables of its own name; what is proved of them and     *)
(* what TLC checks is said here once.  The variables of a component that   *)
(* is left out of a behaviour have no state.                               *)
(***************************************************************************)
CONSTANT NoRunPart   \* what they are then

CONSTANTS Call, Hooks, Waits, HookFaults
VARIABLES permit, trail, wait, stage, elapsed, requests, retried, spender, hookFaults

Hook == INSTANCE GateHook WITH phase <- permit, faults <- hookFaults, MaxFaults <- HookFaults

hookPart == <<permit, trail, wait, stage, elapsed, requests, retried, spender, hookFaults>>

\* The harness runs a call only by a hook that spent its permit, once at most
\* (gate_hook.go).
RunsOnlyOnPermit == stage # NoRunPart => Hook!RunsOnlyOnPermit

-----------------------------------------------------------------------------
CONSTANTS Agents, Calls, Denials, TripWithin, Scopes, Lag, TripHorizon, TripFaults, MaxRestarts,
          NoAgent
VARIABLES now, scope, gateFreeze, agentFreeze, trips, latest, tripSwept, calls, tripped, stops,
          tripFaults, restarts

Trip == INSTANCE GateTrip WITH
    Within <- TripWithin, Horizon <- TripHorizon, MaxFaults <- TripFaults, faults <- tripFaults

tripPart == <<now, scope, gateFreeze, agentFreeze, trips, latest, tripSwept, calls, tripped, stops,
              tripFaults, restarts>>

\* A trip is made of the threshold's number of one agent's denials inside the
\* window, and no denial inside the window is lost to the count (gate_trip.go).
TripIsEarned == calls # NoRunPart => Trip!TripIsEarned /\ Trip!NoDenialLost

\* After an operator is told of a freeze no call that comes in is let through
\* (gate_freeze.go, tool_gate.go).
StoppedMeansStopped == calls # NoRunPart => Trip!StoppedMeansStopped

-----------------------------------------------------------------------------
CONSTANTS ModelRuns, Roles, Texts, Patterns, Hits, ModelPolicies, MaxModelCalls, ModelFaults,
          MaxReloads
VARIABLES channel, live, modelCall, gateHolder, receipts, modelCalls, modelFaults, reloads

Model == INSTANCE ModelCall WITH
    Runs <- ModelRuns, Policies <- ModelPolicies, MaxCalls <- MaxModelCalls,
    MaxFaults <- ModelFaults, call <- modelCall, holder <- gateHolder, calls <- modelCalls,
    faults <- modelFaults

modelPart == <<channel, live, modelCall, gateHolder, receipts, modelCalls, modelFaults, reloads>>

\* No text passes a model policy that did not clear it (model_policy.go).
TextIsCleared == modelCall # NoRunPart => Model!TextIsCleared

-----------------------------------------------------------------------------
CONSTANTS Listable, StepContents, NoContent, NoRequest, SendNames, MaxAdjust, MaxSteps,
          MaxPipeRuns, StepFaults
VARIABLES pipeline, runNumber, at, place, content, fetched, shown, adjusts, approvedFor, listed,
          seen, taken, degraded, asked, sentOut, stepFaults

Steps == INSTANCE PipelineRun WITH
    Items <- Listable, Contents <- StepContents, MaxRuns <- MaxPipeRuns, MaxFaults <- StepFaults,
    run <- runNumber, pc <- place, approved <- approvedFor, sent <- sentOut, faults <- stepFaults

stepsPart == <<pipeline, runNumber, at, place, content, fetched, shown, adjusts, approvedFor, listed,
               seen, taken, degraded, asked, sentOut, stepFaults>>

\* A request leaves as often as an approval showed and released it, and an item
\* is taken up once over all runs (http_action.go, internal/state/dedup.go).
StepsActOnce == approvedFor # NoRunPart => Steps!SentWasReleased /\ Steps!ItemsTakenOnce
=============================================================================
