----------------------------- MODULE ModelCall ------------------------------
(***************************************************************************)
(* One model call of a run (provider_call.go callLLM): the model policy is  *)
(* applied to the prompt before it is sent and to the answer before the run *)
(* sees it (model_policy.go), and the provider is called in between, behind *)
(* the admission gate that all runs share.  A rule denies a text or has a   *)
(* person review it.  What the gate admits and what a call costs is module  *)
(* BudgetLedger, how the review's prompt is answered module ApprovalGate.   *)
(***************************************************************************)
EXTENDS Naturals, Sequences, SequencesExt, FiniteSets

CONSTANTS
    Runs,
    Roles,          \* declared roles
    Texts,          \* prompts and answers
    Patterns,       \* Hits[x]: the texts a pattern matches
    Hits,
    Policies,       \* the model policies a configuration may hold
    MaxCalls, MaxFaults, MaxReloads     \* bounds

Phases == {"input", "output"}
Rule == [id : Nat, phase : STRING, roles : SUBSET STRING, pattern : Patterns, action : STRING]

NoRun == "none"

ModelCallAssumption ==
    /\ Hits \in [Patterns -> SUBSET Texts]
    /\ NoRun \notin Runs
    /\ {MaxCalls, MaxFaults, MaxReloads} \subseteq Nat

VARIABLES
    channel,    \* an operator channel runs
    live,       \* the policy in force
    call,       \* call[r]: the call a run is making, and the policy of its snapshot
    holder,     \* who holds the admission gate
    receipts,   \* the decisions recorded
    calls, faults, reloads

vars == <<channel, live, call, holder, receipts, calls, faults, reloads>>

-----------------------------------------------------------------------------
\* checkModelPolicy
Accepted(policy) ==
    /\ \A k \in DOMAIN policy :
          /\ policy[k].phase \in Phases \cup {"both"}
          /\ policy[k].action \in {"deny", "review"}
          /\ policy[k].roles \subseteq Roles
    /\ \A j, k \in DOMAIN policy : policy[j].id = policy[k].id => j = k

\* ModelPolicyConfig.Match: the first rule that applies, in a set.
Applies(rule, role, phase, text) ==
    /\ rule.phase \in {"both", phase}
    /\ rule.roles # {} => role \in rule.roles
    /\ text \in Hits[rule.pattern]

Match(policy, role, phase, text) ==
    LET k == SelectInSeq(policy, LAMBDA rule : Applies(rule, role, phase, text))
    IN  IF k = 0 THEN {} ELSE {policy[k]}

Fault == faults < MaxFaults /\ faults' = faults + 1

Verdict(r) == Match(call[r].policy, call[r].role, call[r].phase, call[r].text)

\* recordModelPolicyDecision
Receipt(r, rule, decision) ==
    [call |-> call[r].id, phase |-> call[r].phase, text |-> call[r].text,
     rule |-> rule.id, decision |-> decision]

Idle == [pc |-> "idle"]
Go(r, pc) == call' = [call EXCEPT ![r].pc = pc]

\* The text may go on: the prompt to the gate, the answer to the run.
Passed(r) == IF call[r].phase = "input" THEN "acquire" ELSE "used"

-----------------------------------------------------------------------------
\* A step of a run asks for a completion; the run keeps its snapshot.
Begin(r, role, text) ==
    /\ call[r].pc = "idle" /\ calls < MaxCalls
    /\ call' = [call EXCEPT ![r] = [pc |-> "check", id |-> calls + 1, role |-> role,
                                    policy |-> live, phase |-> "input",
                                    text |-> text, prompt |-> text]]
    /\ calls' = calls + 1
    /\ UNCHANGED <<channel, live, holder, receipts, faults, reloads>>

\* enforceModelPolicy: no rule; a review; or a denial, for want of a channel too.
Pass(r) ==
    /\ call[r].pc = "check" /\ Verdict(r) = {}
    /\ Go(r, Passed(r))
    /\ UNCHANGED <<channel, live, holder, receipts, calls, faults, reloads>>

Ask(r) ==
    /\ call[r].pc = "check" /\ channel
    /\ \E rule \in Verdict(r) : rule.action = "review"
    /\ Go(r, "review")
    /\ UNCHANGED <<channel, live, holder, receipts, calls, faults, reloads>>

\* The decision is recorded, or the store refuses it; either way the text is
\* blocked.
Record(r, rule, decision) ==
    \/ receipts' = receipts \cup {Receipt(r, rule, decision)} /\ UNCHANGED faults
    \/ Fault /\ UNCHANGED receipts

Deny(r) ==
    /\ call[r].pc = "check"
    /\ \E rule \in Verdict(r) :
          /\ rule.action = "deny" \/ ~channel
          /\ Record(r, rule, "policy_deny")
    /\ Go(r, "blocked")
    /\ UNCHANGED <<channel, live, holder, calls, reloads>>

\* Anything but an approval: a skip, an adjustment, the end of the window or of
\* the run.
Turn(r, decision) ==
    /\ call[r].pc = "review" /\ decision \in {"skip", "adjust", "timeout"}
    /\ \E rule \in Verdict(r) : Record(r, rule, decision)
    /\ Go(r, "blocked")
    /\ UNCHANGED <<channel, live, holder, calls, reloads>>

\* Mutant: the text goes on although its approval was not recorded.
ApproveAnyway(r) ==
    /\ call[r].pc = "review"
    /\ \E rule \in Verdict(r) : Record(r, rule, "approve")
    /\ Go(r, Passed(r))
    /\ UNCHANGED <<channel, live, holder, calls, reloads>>

Approve(r) ==
    /\ call[r].pc = "review"
    /\ \E rule \in Verdict(r) :
          \/ /\ receipts' = receipts \cup {Receipt(r, rule, "approve")}
             /\ Go(r, Passed(r)) /\ UNCHANGED faults
          \/ Fault /\ Go(r, "blocked") /\ UNCHANGED receipts
    /\ UNCHANGED <<channel, live, holder, calls, reloads>>

-----------------------------------------------------------------------------
\* acquire, and the admission; refused, or given up on, the call ends.
Acquire(r) ==
    /\ call[r].pc = "acquire" /\ holder = NoRun
    /\ holder' = r
    /\ Go(r, "calling")
    /\ UNCHANGED <<channel, live, receipts, calls, faults, reloads>>

Abandon(r) ==
    /\ call[r].pc \in {"acquire", "calling"}
    /\ holder' = IF call[r].pc = "calling" THEN NoRun ELSE holder
    /\ Go(r, "blocked")
    /\ UNCHANGED <<channel, live, receipts, calls, faults, reloads>>

\* Mutant: the gate is held until the answer has passed the policy.
AnswerHolding(r, text) ==
    /\ call[r].pc = "calling"
    /\ call' = [call EXCEPT ![r].pc = "check", ![r].phase = "output", ![r].text = text]
    /\ UNCHANGED <<channel, live, holder, receipts, calls, faults, reloads>>

\* The provider answers and the call is settled: the gate is free again.
Answer(r, text) ==
    /\ call[r].pc = "calling"
    /\ holder' = NoRun
    /\ call' = [call EXCEPT ![r].pc = "check", ![r].phase = "output", ![r].text = text]
    /\ UNCHANGED <<channel, live, receipts, calls, faults, reloads>>

\* The run's next call.
Continue(r) ==
    /\ call[r].pc \in {"used", "blocked"}
    /\ call' = [call EXCEPT ![r] = Idle]
    /\ UNCHANGED <<channel, live, holder, receipts, calls, faults, reloads>>

\* A reload puts an accepted policy in force for the runs that start later.
Reload(policy) ==
    /\ reloads < MaxReloads /\ reloads' = reloads + 1
    /\ Accepted(policy)
    /\ live' = policy
    /\ UNCHANGED <<channel, call, holder, receipts, calls, faults>>

\* The process dies; a review leaves nothing behind.
Crash ==
    /\ Fault
    /\ call' = [r \in Runs |-> Idle]
    /\ holder' = NoRun
    /\ UNCHANGED <<channel, live, receipts, calls, reloads>>

Init ==
    /\ channel \in BOOLEAN
    /\ live \in {p \in Policies : Accepted(p)}
    /\ call = [r \in Runs |-> Idle]
    /\ holder = NoRun /\ receipts = {}
    /\ calls = 0 /\ faults = 0 /\ reloads = 0

Next ==
    \/ \E r \in Runs :
          \/ \E role \in Roles, text \in Texts : Begin(r, role, text)
          \/ Pass(r) \/ Ask(r) \/ Deny(r) \/ Approve(r)
          \/ \E d \in {"skip", "adjust", "timeout"} : Turn(r, d)
          \/ Acquire(r) \/ Abandon(r) \/ Continue(r)
          \/ \E text \in Texts : Answer(r, text)
    \/ \E policy \in Policies : Reload(policy)
    \/ Crash

Spec == Init /\ [][Next]_vars

-----------------------------------------------------------------------------
\* The first rule of the run's policy that names the text let it through: there
\* is none, or it has the text reviewed and an approval of it is on record.
Cleared(r, phase, text) ==
    \A rule \in Match(call[r].policy, call[r].role, phase, text) :
       /\ rule.action = "review"
       /\ [call |-> call[r].id, phase |-> phase, text |-> text,
           rule |-> rule.id, decision |-> "approve"] \in receipts

\* No prompt reaches the provider, and no answer the run, that the policy the
\* run started under did not clear, whatever is reloaded, lost or refused in
\* between (config.go ModelPolicyConfig: "immediately before model input is sent
\* and immediately after model output is received").
TextIsCleared ==
    \A r \in Runs :
       /\ call[r].pc = "calling" => Cleared(r, "input", call[r].prompt)
       /\ call[r].pc = "used" => Cleared(r, "input", call[r].prompt)
                                 /\ Cleared(r, "output", call[r].text)

\* The gate is held by a call that is at the provider and by no other: "human
\* review of a paid response must not hold another run's budget"
\* (provider_call.go:93).
ReviewHoldsNoBudget ==
    \A r \in Runs : holder = r <=> call[r].pc = "calling"

=============================================================================
