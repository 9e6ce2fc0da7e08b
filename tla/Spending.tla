------------------------------ MODULE Spending ------------------------------
(***************************************************************************)
(* The daily ledger with both that spend on it: model calls (BudgetLedger)  *)
(* and voice calls (VoiceCalls).  They share the day, the process and the   *)
(* row of budget_days; each writes its own columns of it.                   *)
(***************************************************************************)
EXTENDS BudgetLedger

CONSTANTS Sessions, Lengths, CallCap, MinuteCap

VARIABLES voice, spoken, started, byStart

Voice == INSTANCE VoiceCalls WITH Today <- Days

voiceVars == <<voice, spoken, started, byStart>>
budgetOnly == <<day, up, gateVars, trackerVars, storeVars, alerts, paid>>
spendVars == <<vars, voiceVars>>

SpendInit == Init /\ Voice!VoiceInit

\* The webhooks of the voice plugin are served while the engine runs.
SpendNext ==
    \/ Next /\ UNCHANGED voiceVars
    \/ up /\ Voice!VoiceNext(day) /\ UNCHANGED budgetOnly

SpendSpec == SpendInit /\ [][SpendNext]_spendVars

\* The two components' own properties, of the system both are in.
VoiceCountedOnce == Voice!VoiceCountedOnce
WelcomeIsCounted == Voice!WelcomeIsCounted
=============================================================================
