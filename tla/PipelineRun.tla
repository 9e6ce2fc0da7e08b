----------------------------- MODULE PipelineRun -----------------------------
(***************************************************************************)
(* The steps of a pipeline's runs (main.go runPipeline): fetches that are   *)
(* deduplicated against the state store, model calls, approvals, and the    *)
(* http_request that sends what an approval released (http_action.go,       *)
(* internal/httpaction).  Runs of a pipeline follow each other: module      *)
(* Pipelines shows that its claim has one holder.  How an approval is       *)
(* decided is module ApprovalGate; here it ends in any of its outcomes.     *)
(*                                                                          *)
(* The pipeline is any the validator accepts.  What a model writes is one   *)
(* of Contents, and a request is what its digest covers: the run, the step  *)
(* name and the content it is built from.                                   *)
(***************************************************************************)
EXTENDS Naturals, Sequences, FiniteSets

CONSTANTS
    Items,          \* what the source of a fetch can list
    Contents,       \* what a model can write
    NoContent,
    NoRequest,
    SendNames,      \* names of http_request steps
    MaxAdjust,      \* rewrites an approval step allows
    MaxSteps,       \* bound: steps of the pipeline
    MaxRuns,        \* bound: runs
    MaxFaults       \* bound: calls of the store that fail

PipelineRunAssumption ==
    /\ NoContent \notin Contents
    /\ \A r \in 1 .. MaxRuns, n \in SendNames, c \in Contents : NoRequest # <<r, n, c>>
    /\ {MaxAdjust, MaxSteps, MaxRuns, MaxFaults} \subseteq Nat

VARIABLES
    pipeline,   \* its steps
    run,        \* the number of the run
    at,         \* the step it is in, 0 between runs
    pc,         \* where in the step
    content,    \* data["ai_output"]
    fetched,    \* items a fetch lists and has not yet marked
    shown,      \* the request in front of the operator
    adjusts,    \* adjustCycles of the approval step
    approved,   \* approvedRequests: per step name, the digest released
    listed,     \* items the source lists
    seen,       \* seen_items
    taken,      \* history: per item, the runs that took it up
    degraded,   \* history: items a failed store call let through
    asked,      \* history: requests an approval step released, in order
    sent,       \* history: requests sent, in order
    faults

stepVars == <<content, shown, adjusts, approved>>
itemVars == <<fetched, listed, seen, taken, degraded>>
history == <<asked, sent>>
vars == <<pipeline, run, at, pc, stepVars, itemVars, history, faults>>

-----------------------------------------------------------------------------
Step == [kind : {"fetch", "ai", "approval"}, name : {""}]
        \cup [kind : {"send"}, name : SendNames]

\* checkHTTPRequestStep: an approval before the request, after any earlier one.
ReleasedByOwnStep(steps, i) ==
    \E j \in 1 .. i - 1 :
        /\ steps[j].kind = "approval"
        /\ \A k \in j .. i - 1 : steps[k].kind # "send"

ValidPipelines ==
    {steps \in UNION {[1 .. n -> Step] : n \in 1 .. MaxSteps} :
        \A i \in DOMAIN steps : steps[i].kind = "send" => ReleasedByOwnStep(steps, i)}

In(kind, where) == at > 0 /\ pipeline[at].kind = kind /\ pc = where
Request(name) == <<run, name, content>>

\* releasedHTTPRequest: the first http_request after the approval step, unless
\* another approval step comes first.
Released ==
    {j \in at + 1 .. Len(pipeline) :
        /\ pipeline[j].kind = "send"
        /\ \A k \in at + 1 .. j - 1 : pipeline[k].kind \notin {"approval", "send"}}

\* Mutant: what the store has seen is not filtered out.
ListedAgain == listed

\* FilterUnseen.
Unseen == listed \ seen

Fault == faults < MaxFaults /\ faults' = faults + 1

EndRun == at' = 0 /\ pc' = "enter"
NextStep == IF at = Len(pipeline) THEN EndRun ELSE at' = at + 1 /\ pc' = "enter"

-----------------------------------------------------------------------------
List(i) ==
    /\ listed' = listed \cup {i}
    /\ i \notin listed
    /\ UNCHANGED <<pipeline, run, at, pc, stepVars, fetched, seen, taken, degraded, history, faults>>

StartRun ==
    /\ at = 0 /\ run < MaxRuns
    /\ run' = run + 1 /\ at' = 1 /\ pc' = "enter"
    /\ content' = NoContent /\ shown' = NoRequest /\ adjusts' = 0
    /\ approved' = [n \in SendNames |-> NoRequest]
    /\ UNCHANGED <<pipeline, itemVars, history, faults>>

\* The run ends early: an error, the pipeline's deadline, a step with nothing
\* to do, or the end of the process.  Nothing after the step it is in runs.
Halt ==
    /\ at > 0 /\ EndRun
    /\ fetched' = {}
    /\ UNCHANGED <<pipeline, run, stepVars, listed, seen, taken, degraded, history, faults>>

\* DedupByID: the unseen of what is listed, or all of it when the store cannot
\* say, and then nothing is marked.
Fetch ==
    /\ In("fetch", "enter") /\ listed # {}
    /\ \/ /\ fetched' = Unseen
          /\ pc' = "mark"
          /\ UNCHANGED <<at, taken, degraded, faults>>
       \/ /\ Fault
          /\ taken' = [i \in Items |-> IF i \in listed THEN taken[i] + 1 ELSE taken[i]]
          /\ degraded' = degraded \cup listed
          /\ NextStep /\ UNCHANGED fetched
    /\ UNCHANGED <<pipeline, run, stepVars, listed, seen, history>>

\* MarkSeen marks all that was fetched, and only then the run takes it up; it
\* ends when nothing is new.  If the marking fails the run goes on.
Mark ==
    /\ In("fetch", "mark")
    /\ \/ seen' = seen \cup fetched /\ UNCHANGED <<degraded, faults>>
       \/ Fault /\ degraded' = degraded \cup fetched /\ UNCHANGED seen
    /\ taken' = [i \in Items |-> IF i \in fetched THEN taken[i] + 1 ELSE taken[i]]
    /\ fetched' = {}
    /\ IF fetched = {} THEN EndRun ELSE NextStep
    /\ UNCHANGED <<pipeline, run, stepVars, listed, history>>

\* An ai step: the model's output replaces the last one.
Complete ==
    /\ In("ai", "enter")
    /\ content' \in Contents
    /\ NextStep
    /\ UNCHANGED <<pipeline, run, shown, adjusts, approved, itemVars, history, faults>>

\* An approval step shows the request it releases, if it releases one; a
\* request that cannot be rendered halts the run.
Show ==
    /\ In("approval", "enter")
    /\ Released # {} => content # NoContent
    /\ shown' = IF Released = {} THEN NoRequest
                ELSE Request(pipeline[CHOOSE j \in Released : TRUE].name)
    /\ adjusts' = 0 /\ pc' = "ask"
    /\ UNCHANGED <<pipeline, run, at, content, approved, itemVars, history, faults>>

\* Approved by the operator or by approval_policy; the digest is kept under
\* the name of the step it releases.
Approve ==
    /\ In("approval", "ask")
    /\ IF shown = NoRequest THEN UNCHANGED <<approved, asked>>
       ELSE /\ approved' = [approved EXCEPT ![shown[2]] = shown]
            /\ asked' = Append(asked, shown)
    /\ shown' = NoRequest /\ NextStep
    /\ UNCHANGED <<pipeline, run, content, adjusts, itemVars, sent, faults>>

\* The rewrite becomes the output the request is built from and is shown in
\* its place; past MaxAdjust the run halts, and so it does after a skip.
Adjust ==
    /\ In("approval", "ask") /\ adjusts < MaxAdjust
    /\ adjusts' = adjusts + 1
    /\ IF shown = NoRequest THEN UNCHANGED <<content, shown>>
       ELSE /\ content' \in Contents
            /\ shown' = <<run, shown[2], content'>>
    /\ UNCHANGED <<pipeline, run, at, pc, approved, itemVars, history, faults>>

\* Mutant: any approval of the step name will do.
SendApproved ==
    /\ In("send", "enter")
    /\ content # NoContent /\ approved[pipeline[at].name] # NoRequest
    /\ sent' = Append(sent, Request(pipeline[at].name))
    /\ NextStep
    /\ UNCHANGED <<pipeline, run, stepVars, itemVars, asked, faults>>

\* runHTTPRequest sends only the request whose digest was approved.  It is
\* sent once; whatever comes back, it has left.  Halt is the other outcome of
\* this step: nothing sent, or an answer that fails the run.
Send ==
    /\ In("send", "enter")
    /\ content # NoContent /\ approved[pipeline[at].name] = Request(pipeline[at].name)
    /\ sent' = Append(sent, Request(pipeline[at].name))
    /\ NextStep \/ EndRun
    /\ UNCHANGED <<pipeline, run, stepVars, itemVars, asked, faults>>

-----------------------------------------------------------------------------
Init ==
    /\ pipeline \in ValidPipelines
    /\ run = 0 /\ at = 0 /\ pc = "enter"
    /\ content = NoContent /\ shown = NoRequest /\ adjusts = 0
    /\ approved = [n \in SendNames |-> NoRequest]
    /\ fetched = {} /\ listed = {} /\ seen = {} /\ degraded = {}
    /\ taken = [i \in Items |-> 0]
    /\ asked = <<>> /\ sent = <<>> /\ faults = 0

Next ==
    \/ \E i \in Items : List(i)
    \/ StartRun \/ Halt \/ Fetch \/ Mark \/ Complete \/ Show \/ Approve \/ Adjust \/ Send

Spec == Init /\ [][Next]_vars

-----------------------------------------------------------------------------
\* Type correctness.
RunTypeOK ==
    LET Requests == (1 .. MaxRuns) \X SendNames \X Contents IN
    /\ pipeline \in ValidPipelines
    /\ run \in 0 .. MaxRuns /\ at \in 0 .. Len(pipeline) /\ pc \in {"enter", "mark", "ask"}
    /\ content \in Contents \cup {NoContent}
    /\ shown \in Requests \cup {NoRequest} /\ adjusts \in 0 .. MaxAdjust
    /\ approved \in [SendNames -> Requests \cup {NoRequest}]
    /\ fetched \subseteq Items /\ listed \subseteq Items /\ seen \subseteq Items
    /\ degraded \subseteq Items /\ taken \in [Items -> Nat]
    /\ asked \in Seq(Requests) /\ sent \in Seq(Requests) /\ faults \in 0 .. MaxFaults

Count(s, x) == Cardinality({i \in DOMAIN s : s[i] = x})

\* Every request that left was shown to the operator and released in the run
\* that sent it, and one approval step releases one request: the very same
\* request never leaves more often than it was released, whatever steps change
\* the output in between and however the http_request steps are named
\* (runHTTPRequest, releasedHTTPRequest, checkHTTPRequestStep).
SentWasReleased ==
    \A i \in DOMAIN sent : Count(sent, sent[i]) <= Count(asked, sent[i])

\* A run takes up an item at most once over all runs, crashes included, unless
\* the store failed to say or to record that it was seen (DedupByID).
ItemsTakenOnce == \A i \in Items \ degraded : taken[i] <= 1

=============================================================================
