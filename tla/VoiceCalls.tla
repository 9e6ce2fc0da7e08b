----------------------------- MODULE VoiceCalls -----------------------------
(***************************************************************************)
(* Voice calls on the daily ledger (internal/state/voice_calls.go), held to *)
(* their caps by the gate of the voice plugin (internal/voicebridge/        *)
(* callgate.go) behind its webhooks (voice/receivers.go).  The caller of    *)
(* the webhooks is external: it may send one late, twice, out of order or   *)
(* never.                                                                   *)
(***************************************************************************)
EXTENDS Naturals, FiniteSets, Functions

CONSTANTS
    Sessions,       \* ids of voice calls
    Lengths,        \* minutes a call can last
    CallCap,        \* budgets.per_day_calls, 0 for none
    MinuteCap,      \* budgets.per_day_call_minutes, 0 for none
    Today,          \* the days there are
    MaxFaults       \* bound: store calls that fail

VoiceAssumption ==
    /\ Lengths \subseteq Nat /\ CallCap + MinuteCap > 0
    /\ {CallCap, MinuteCap, MaxFaults} \subseteq Nat

VARIABLES
    voice,          \* budget_voice_calls: per session, [day, status, minutes]
    spoken,         \* budget_days: [calls, minutes] of each day
    started,        \* voice_sessions: the calls whose start was answered with 200
    byStart,        \* history: sessions counted when they started
    faults

voiceVars == <<voice, spoken, started, byStart, faults>>

-----------------------------------------------------------------------------
\* Mutant: one call more than the cap.
ReachedPast(d) ==
    \/ CallCap > 0 /\ spoken[d].calls > CallCap
    \/ MinuteCap > 0 /\ spoken[d].minutes > MinuteCap

\* voiceCapReached
Reached(d) ==
    \/ CallCap > 0 /\ spoken[d].calls >= CallCap
    \/ MinuteCap > 0 /\ spoken[d].minutes >= MinuteCap

Known(s) == voice[s].status # "none"
Count(d, calls, minutes) ==
    spoken' = [spoken EXCEPT ![d] = [calls |-> @.calls + calls, minutes |-> @.minutes + minutes]]
VoiceFault == faults < MaxFaults /\ faults' = faults + 1

\* InsertSessionStart, which may fail after the call was counted: the caller
\* is told so and may send the start again.
Answer(s) ==
    \/ started' = started \cup {s} /\ UNCHANGED faults
    \/ VoiceFault /\ UNCHANGED started

\* handleSessionStart, AdmitVoiceCall: a session already counted is welcome
\* again; otherwise the caps of the day decide, for a refused one anew.
Admitted(s, d) ==
    /\ IF voice[s].status \in {"open", "ended"} THEN UNCHANGED <<voice, spoken, byStart>>
       ELSE /\ ~Reached(d)
            /\ voice' = [voice EXCEPT ![s] = [day |-> d, status |-> "open", minutes |-> 0]]
            /\ Count(d, 1, 0)
            /\ byStart' = byStart \cup {s}
    /\ Answer(s)

Refused(s, d) ==
    /\ voice[s].status \in {"none", "refused"} /\ Reached(d)
    /\ voice' = IF Known(s) THEN voice
                ELSE [voice EXCEPT ![s] = [day |-> d, status |-> "refused", minutes |-> 0]]
    /\ UNCHANGED <<spoken, started, byStart, faults>>

\* The ledger fails: a call it cannot decide on is refused.  Without a cap it
\* would go on, uncounted; the caps here are set.
Undecided == VoiceFault /\ UNCHANGED <<voice, spoken, started, byStart>>

SessionStart(s, d) == Admitted(s, d) \/ Refused(s, d) \/ Undecided

\* callGate.End: a call whose start never arrived has no known length.
Minutes(s) == IF s \in started THEN Lengths ELSE {0}

\* Mutant: the end of a call that has ended counts again.
EndOpenOnly(s, d) ==
    /\ voice[s].status \in {"open", "ended"}
    /\ \E m \in Minutes(s) :
          /\ voice' = [voice EXCEPT ![s].status = "ended", ![s].minutes = m]
          /\ Count(voice[s].day, 0, m)
    /\ UNCHANGED <<started, byStart, faults>>

\* handleSessionEnd, EndVoiceCall: minutes once, on the day the call was
\* counted; a call that never was is counted here; a refused one is not.
SessionEnd(s, d) ==
    /\ \E m \in Minutes(s) :
          \/ /\ voice[s].status = "open"
             /\ voice' = [voice EXCEPT ![s].status = "ended", ![s].minutes = m]
             /\ Count(voice[s].day, 0, m)
          \/ /\ ~Known(s)
             /\ voice' = [voice EXCEPT ![s] = [day |-> d, status |-> "ended", minutes |-> m]]
             /\ Count(d, 1, m)
    /\ UNCHANGED <<started, byStart, faults>>

VoiceInit ==
    /\ voice = [s \in Sessions |-> [day |-> 1, status |-> "none", minutes |-> 0]]
    /\ spoken = [d \in Today |-> [calls |-> 0, minutes |-> 0]]
    /\ started = {} /\ byStart = {} /\ faults = 0

VoiceNext(d) == \E s \in Sessions : SessionStart(s, d) \/ SessionEnd(s, d)

-----------------------------------------------------------------------------
Counted(d) == {s \in Sessions : voice[s].day = d /\ voice[s].status \in {"open", "ended"}}

\* Each call is counted once and its minutes once, on one day, however often
\* and in whatever order its webhooks arrive (AdmitVoiceCall, EndVoiceCall).
VoiceCountedOnce ==
    \A d \in Today :
        /\ spoken[d].calls = Cardinality(Counted(d))
        /\ spoken[d].minutes = SumFunctionOnSet([s \in Sessions |-> voice[s].minutes], Counted(d))

\* A call whose start was answered with 200 is on the ledger, and no more calls
\* start on a day than the cap allows (callGate.Admit, AdmitVoiceCall).
WelcomeIsCounted ==
    /\ \A s \in started : voice[s].status \in {"open", "ended"}
    /\ CallCap > 0 =>
         \A d \in Today : Cardinality(Counted(d) \cap byStart) <= CallCap

=============================================================================
