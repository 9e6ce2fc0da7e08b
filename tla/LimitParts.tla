----------------------------- MODULE LimitParts -----------------------------
(***************************************************************************)
(* The components that hold totals to limits, side by side: the gate's     *)
(* rules under calls, and the daily ledger that model calls and voice      *)
(* calls spend on.  They share nothing, and each has constants and         *)
(* variables of its own name; what is proved of them and what TLC checks   *)
(* is said here once.  The variables of a component that is left out of a  *)
(* behaviour have no state.                                                *)
(***************************************************************************)
CONSTANT NoLimitPart   \* what they are then

CONSTANTS ToolCalls, Callers, Settings, ArgValues, SentDefinitions, MaxRuleEdits, MaxGrants, Spellings,
          Definitions, NoDefinition
VARIABLES gate, pinned, candidate, toolCalls, uses, due, diffs, ruleEdits, grantsIssued

Rules == INSTANCE GateRules WITH
    Calls <- ToolCalls, Values <- ArgValues, Sent <- SentDefinitions, MaxEdits <- MaxRuleEdits,
    calls <- toolCalls, edits <- ruleEdits

rulesPart == <<gate, pinned, candidate, toolCalls, uses, due, diffs, ruleEdits, grantsIssued>>

\* A call let through unasked is inside the caps of its rule, not of a high-risk
\* tool, and runs on the definition that was pinned when its permit was consumed
\* (tool_gate.go, validate.go, tool_definition_file.go).
SilentIsCovered ==
    toolCalls # NoLimitPart =>
        Rules!SilentStaysWithin /\ Rules!HighRiskIsAsked /\ Rules!RunsOnItsDefinition

\* A candidate that has the live rules differs from them only on what changed
\* in between (gate_shadow.go).
NoFalseDifference == toolCalls # NoLimitPart => Rules!NoFalseDifference

\* A call whose number is the rule's never fails its `equals`: "numbers compare
\* by value" (docs/tool-gate.md:104).
EqualsComparesByValue == toolCalls # NoLimitPart => Rules!EqualsComparesByValue

-----------------------------------------------------------------------------
CONSTANTS Spenders, NoSpender, PipelineOf, Usages, RequestedTokens, Worst, DayCap, PipelineCap,
          RunTokens, AlertAt, Attempts, MoneyDays, MaxBudgetCalls, MoneyFaults,
          Sessions, Lengths, CallCap, MinuteCap
VARIABLES day, engine, admitted, callStage, attempt, completion, runUsed, mem, fired, billed,
          totals, marks, alerts, paid, moneyFaults, voice, spoken, started, byStart

Money == INSTANCE Spending WITH
    Runs <- Spenders, NoRun <- NoSpender, Pipeline <- PipelineOf, Requested <- RequestedTokens,
    Retries <- Attempts, MaxDays <- MoneyDays, MaxCalls <- MaxBudgetCalls,
    MaxFaults <- MoneyFaults, up <- engine, holder <- admitted, stage <- callStage,
    answer <- completion, calls <- billed, days <- totals, faults <- moneyFaults

moneyPart == <<day, engine, admitted, callStage, attempt, completion, runUsed, mem, fired, billed,
               totals, marks, alerts, paid, moneyFaults, voice, spoken, started, byStart>>

\* What the provider bills is on the books, once (internal/state/budget.go).
BooksMatchProvider == totals # NoLimitPart => Money!BooksMatchProvider

\* A day passes a cap by one answer at most (budget.go).
OvershootIsOneAnswer == totals # NoLimitPart => Money!OvershootIsOneAnswer

\* A threshold alerts once a day (budget_alerts.go).
AlertsOnce == totals # NoLimitPart => Money!AlertsOnce

\* A voice call is counted once, and no more are welcome than the cap allows
\* (voice_calls.go).
WelcomeIsCounted == totals # NoLimitPart => Money!VoiceCountedOnce /\ Money!WelcomeIsCounted
=============================================================================
