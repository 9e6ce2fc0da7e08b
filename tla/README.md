# draftcat in TLA+

TLA+ models of draftcat, the TLC runs that check them on small instances, and
TLAPS proofs of the results that matter most for every value of the constants.
Every definition is translated from the Go source; `PROJECT.json` says which
lines each one stands for, which run checks which property, and what every
property would catch (its mutant).

1. The system · 2. Modules · 3. Runs · 4. Bounds · 5. Fairness · 6. Proofs ·
7. What the models showed besides · 8. Plan · 9. Not modelled

## 1. The system

draftcat puts a human between an agent and what the agent does. It is one Go
process with one SQLite store (one connection, so a statement or a transaction
is atomic), an operator channel (Telegram or a relay), and HTTP servers for
tool calls, triggers and voice webhooks. Around it are commands that open the
same store (`gate freeze`, `budget reconcile`, `receipts verify-anchor`), the
hook a harness starts for each tool call, and the relays.

| Component | State | Operations | What is hard | Module |
|---|---|---|---|---|
| **Permit ledger** (`internal/state`) | `tool_actions`, `action_approvals`, `tool_execution_outcomes` | reserve, decide, consume, normalize, cancel, complete, expire at boot | one row moved by many callers with times read earlier; row and receipt move together | Permit, PermitStore |
| **Tool-call gate** (`tool_gate.go`, `tool_lifecycle.go`) | tickets, repeat memory, one asking goroutine per asked action | call, status, consume, revoke, complete; prompt, tap, timeout | all of them at once on one action id, retries, a cut prompt, store failures, restarts | ToolGate |
| **Rules, caps, grants** (`tool_policy.go`, `tool_grants.go`, `config.go`) | `tool_action_amounts`, `tool_grants`, the cap mutex, the pinned definition | evaluate, read totals, take a use, `/grant`, `/ungrant`, reload of a definition | check-then-act on totals and uses; humans decide outside the mutex; rules change under calls | CapLedger, ToolPolicy, GateRules |
| **Shadow and callers** (`gate_shadow.go`, `gate_callers.go`) | candidate rules, differences, caller tokens | decide beside the live rules, authenticate | totals read at another moment than the verdict | GateRules |
| **Freezes and trip** (`gate_freeze.go`, `gate_trip.go`) | two freeze rows, denial counts in memory | freeze, unfreeze, count a denial, trip | a freeze between a check and the act it guards; events out of order | GateTrip |
| **Hook and install** (`gate_hook.go`, `gate_install.go`) | the harness's settings file | ask, poll, consume, withdraw, answer; upsert and remove the entry | the harness's own timeout; a file others edit | GateHook, HookSettings |
| **Approval gate and pump** (`main.go`, `telegram_pump.go`) | `pending_approvals`, the audit trail, waiters, bounded buffers | post, tap, text, quorum, adjust, skip, timeout, reconcile | late taps, several operators, a crash between two writes | ApprovalGate |
| **Relay channel and relays** (`relay_channel.go`, `contrib/slack-relay`, `contrib/teams-relay`) | open gates; the relay's approvals and messages | dispatch, click, decide, expire, update | lost answers, retries, two processes' clocks, updates that overtake | Relay |
| **Scheduler, webhooks** (`scheduler.go`, `main.go`) | claims, pauses, failures; `webhook_admissions`, nonces | timer, webhook, `/run`, `/cron`, reload, drain, restore | four triggers on one pipeline; keys, retries, restarts | Pipelines, Cron |
| **Pipeline runs** (`main.go`, `http_action.go`) | the run's data, seen items, released requests | steps, halts, adjust loop, http_request | what was approved and what is sent | PipelineRun |
| **Budget, voice** (`budget.go`, `internal/state/budget*.go`, `voice/`) | `budget_calls`, `budget_days`, voice calls, alert marks | admit, settle, release, reconcile; begin and end a call | crash after the provider billed; midnight; a webhook twice or never | BudgetLedger, VoiceCalls, Spending |
| **Model policy** (`model_policy.go`, `provider_call.go`) | the run's policy, the admission gate | check input and output, review | a review must not hold the gate | ModelCall |
| **Configuration** (`config_reload.go`, `internal/validate`) | two snapshots, config and skills | check, boot, reload | files read twice, snapshots taken one after the other | ConfigReload |
| **Main loop** (`main.go`, `digest.go`) | command queue, `/reply`, the digest's day | commands, digest, signal | one goroutine for all of it | MainLoop |
| **Receipts and anchors** (`receipt_anchor*.go`) | the chain, the anchor file, the operator's messages | anchor, save, verify | two destinations, retries, a history that was rewritten | Anchors |
| **Connectors' tokens** (`internal/ghl`, `internal/gmail`) | tokens in memory and in a file | boot, renew, `/authcode`, save | single-use refresh tokens; concurrent callers, for Gmail without a lock | Connectors |
| Proofs, output schemas, reports, API calls | - | - | cryptography, I/O, pure functions | not modelled |

How they interact. A tool call enters `HandleCall`, which authenticates the
caller, reads the freezes, reserves a row of the ledger, evaluates the rules
(caps and grants read and write the store), and then decides, or opens a ticket
and starts `askHuman`. The asker records its prompt in `pending_approvals`,
waits on the operator channel and commits its decision to the ledger. Polls,
consumes and revokes go to the ledger first and then tell the ticket, which may
cut the prompt. A trigger claims a pipeline from the scheduler; the run takes
the two snapshots of the configuration, its steps pass the model policy, the
admission gate and the budget ledger, and its approval steps wait on the pump
or the relay. All of them share the store and the operator's channel, and
nothing else: that is why they can be checked one by one.

## 2. Modules

    Permit            what a tool call is promised: asked once, answered at most
      |               once, spent at most once, audited
      |-- PermitStore implements it: one action per SQL statement
      |     |-- ToolGate    extends it: handlers, tickets, askers, restarts
      |     '-- CapLedger   extends it: caps, grants, the cap mutex
      '-- GateHook    uses it: the gate as a harness's hook sees it
    ToolPolicy <- GateRules          GateTrip         HookSettings
    ApprovalGate    Relay    MainLoop    Pipelines    PipelineRun    Cron
    BudgetLedger + VoiceCalls <- Spending    ModelCall    ConfigReload    Anchors
    RunParts    GateHook, GateTrip, ModelCall, PipelineRun side by side
    FileParts   Connectors, ConfigReload, Anchors, HookSettings side by side
    LimitParts  GateRules, Spending side by side
    PermitStoreProofs <- ToolGateProofs, LimitProofs (with CapLedger and LimitParts)
    ApprovalProofs, RelayProofs, PipelineProofs      theorems about these modules
    ComponentProofs (MainLoop and RunParts), FileProofs (FileParts)
    MC*                                      instances for TLC

A step of a module ends where the code lets another goroutine in: a store
statement, a mutex given back, a channel, an HTTP call. Operators have the names
of the functions they model.

**Permit, PermitStore.** `Permit` has an action's phase and its audit trail; a
grant and its receipt are one step. `PermitStore` keeps `rows`, `receipts`,
`outcomes` and the clock. Each operator named after a `StateStore` method is that
statement or transaction: the guard is its `WHERE`, the primed row its `SET`.
Callers read the clock before the statement runs, so every time argument ranges
over the past. A binding hash is the facts it binds. `StoreSpec` is the ledger
under any callers that keep two disciplines: a decision carries the reserved
binding, and no time is from the future.

**ToolGate** has one record per HTTP request with a program counter (`clients`)
and one per asking goroutine (`askers`). `finishAction` is two steps (`Commit`,
the transaction; `Settle`, the ticket), `actionResponse` two, `handleConsume`
four, and `askHuman` is `AskerBegin`, `AskerArm`, the prompt, `AskerResolve`,
`AskerVerdict`, `AskerCommit`, `AskerSettle`. Contexts are what they do: `cut`
is a cancelled prompt. A failing statement takes its handler's 503 path: the read or
INSERT of a reservation and its read-back, the reads around a poll, a consume, a
revoke, a completion, and the decisions. Of these only a lost decision is one, and
`refused` records it; the others decide nothing. `Restart` loses
all memory, expires what `ExpireToolActions` expires, marks open prompts
interrupted, and may come back under another policy.

**CapLedger** decides what ToolGate takes as an input: a call reserves its row,
takes `capMu` if its rule is capped, records its amount, reads the day's total
and count, and is allowed, refused, asked, or answered by a grant. Operators
answer outside the mutex. **ToolPolicy** is `evaluateToolPolicy`,
`ToolRule.Check` and what validate accepts, over whole rules; **GateRules** has
calls living under rules that change: caller tokens, the definition file and its
pin, restarts with other rules, the candidate of the shadow. **GateTrip** has the
freeze rows (an unreadable one counts as frozen), the counts and the checks of
call and consume.

**GateHook** has two hooks of one call, each with its own clock in seconds, and
the gate as `Permit` promises it, so that all timings of the gate are covered.
**HookSettings** keeps of a settings document the list of hooks of one event.

**ApprovalGate**: a gate is one approval step of one run; each posting of a draft
is a cycle with a row, a message and a waiter. The pump routes by waiter and
drops when a buffer is full. Deadlines may pass whenever their select waits.
**Relay**: one approval, the two HTTP calls between engine and relay, and the
updates of the Slack message. `kind` says which relay is at the other end: Slack's
has phases, a timer and one decision in flight; that of Teams keeps a dispatch until
a decision on it was answered, and renders its card once. **MainLoop**: the one goroutine, whose clock only
passes while it has nothing to do or waits for a person. **Pipelines**: scheduler,
webhook handler (nonce, snapshot, claim, admission, launch as steps of their
own), commands, reload, drain and boot. **PipelineRun**: every valid pipeline of
up to `MaxSteps` steps. **Cron**: the walk of `cronSpec.next` over a small
calendar with one change of the clocks.

**BudgetLedger** has the one-slot gate, the tracker in memory, the tables, and a
provider that bills what it completes. **Spending** is its composition with
**VoiceCalls** on the shared day rows. **ModelCall**, **ConfigReload** and
**Anchors** are described in their headers; in Anchors a chain link is the
sequence of receipts it covers.

**Connectors** is one connector and the provider's side of its tokens, which are
numbered in the order of their issue.

**RunParts, FileParts, LimitParts** put components that share nothing side by side:
each is an instance whose constants and variables have names of their own, and the
properties said of them here are what TLC checks and what the theorems state. In a
behaviour without a component its variables are no state (`NoRunPart`,
`NoFilePart`, `NoLimitPart`), of which its properties say nothing.

**MCComponents** checks thirteen components in one run, those of the three modules
above with the standing grants and the calendar schedules. Their interleavings would
only multiply states, so a behaviour is of one component, `part`; steps, properties
and state spaces are exactly those of the component alone. Properties with the name
of a module's are that module's, or a conjunction of its properties:
`TripIsEarned` includes `NoDenialLost`; `EntryIsUpserted` includes
`UpsertSettles`; `SilentIsCovered` is `SilentStaysWithin`, `HighRiskIsAsked` and
`RunsOnItsDefinition`; `AcceptedRunsResolve` includes `GatesCanBeDecided`;
`StepsActOnce` is `SentWasReleased` and `ItemsTakenOnce`; `AnchorsTellTheTruth` is
`RecordedIsPlaced`, `RewriteIsTold` and `CheckTellsTheTruth`; `WelcomeIsCounted`
includes `VoiceCountedOnce`. Likewise `CapsHold` (`RulesStayWithinCaps`,
`AllowedIsCounted`), `ExactlyOneDecider` (`OneDecider`, `NoOrphanedAction`),
`AnswersAreTrue` (`DenialIsFinal`, `TicketAgreesWithLedger`, `PromptIsRecorded`,
`OperatorApprovalWasAsked`) and `WaitsEnd` (prompts end, held requests end).

## 3. Runs

**permit_ledger.** `ImplementsPermit`: every statement is a step of the abstract
permit or none. `HistoryIsFinal`: a settled row, a receipt or an outcome never
changes.

**gate_races.** `ExecuteOnce`: of any number of consumers at most one is told to
execute. `ExactlyOneDecider`: an undecided action has one who will decide it,
never two. `AnswersAreTrue`: after a caller was told a decision against
an action (denied, expired, revoked, lost, or the timeout of a held request) nobody is
told to execute it; an answered ticket never contradicts the ledger except by lagging behind; a prompt
on the screen has its row; an operator's approval has a prompt that was answered.
`GateUsesLedger`: every step of the gate is one of `StoreSpec`, so what is proved
of the ledger holds here.

**gate_live.** `RememberedApprovalIsReal`: what the repeat window reuses was
approved and recorded. `WaitsEnd`: every prompt and every held request ends.

**caps.** `CapsHold`: what the rules allow on their own never passes a cap, whatever
humans approve meanwhile, and no allowed call is missing from the total.
`LockIsPassedOn`: the cap mutex is held exactly while code decides, or a standing
grant is looked up and used under it. `UsesAreAccounted`: every use of a standing
grant is one call's, and none is used past its limit.

**approvals.** `ReleaseIsApproved`: a step is released by its policy or by distinct
permitted operators' taps on the message that shows the draft in force.
`OneVerdict`, `NoGateVanishes`: every posted draft has exactly one verdict in the
trail once the engine is up, but for the two exceptions the definition names.

**pipelines.** `ClaimHasOneHolder`: running exactly while one handler or run holds
the claim. `KeyStartsOneRun`. `AdmissionTellsRun`: what a poll says is true of its
run. `FailingStreakPauses`: over reloads, crashes and boots.

**engine.** `SentOnce`: a digest a day (`DigestComesOnce`, but for a crash, a failed
record or a lost answer, which the definition excuses) and a mail per approval
(`RepliedOnce`). `StopEnds`: a signal ends the process.

**relay**, through either relay. `ApprovedByQuorum`: "approve" takes as many permitted people's clicks as
the quorum asks for, whatever is lost or sent again. `ShownIsTrue`, when
nothing failed: the verdict the message shows is the one the gate recorded, and the
pipeline was told no other, except "timeout" at the deadline; "Expired" and "Already
resolved" stand beside no verdict. `QuestionsEnd`: no gate waits for
ever, and at the Slack relay no approval stays open past its deadline, also when the
timer fired while a decision was in flight.

**components.**

| Component | Properties |
|---|---|
| freezes | `TripIsEarned` (and no denial is lost to the count), `StoppedMeansStopped`: after an operator was told, nothing that comes in is let through |
| hook | `RunsOnlyOnPermit`: the harness runs a call, also one whose hook took too long, only by a hook that spent its permit |
| install | `EntryIsUpserted`: one entry of draftcat's, the person's hooks as they were; the same command again changes nothing |
| rules | `SilentIsCovered`: a call let through unasked is in its caps, not of a high-risk tool, and runs on the definition it was decided with; `NoFalseDifference` of the shadow |
| grants | `NoUseAfterRevoke` |
| config | `AcceptedRunsResolve`: a run of any file that is accepted finds its skills and models, unless the directory was edited between two reads; it fails on a role, a channel or too few people, or asks too few, only in the cases the checks pass over, which the property names |
| steps | `StepsActOnce`: what leaves was shown and released in its run, once per release; an item is taken up once over all runs |
| model | `TextIsCleared`: no text passes a policy that did not clear it |
| schedule | `NextIsFirstRun`: the next run is after now, due, and the first, clock changes included |
| anchors | `AnchorsTellTheTruth`: a recorded slot is in both places, a rewritten history was told, and `verify-anchor` finds the first receipt that is not what was anchored |
| ledger | `BooksMatchProvider`, `OvershootIsOneAnswer`, `AlertsOnce` |
| spending | `WelcomeIsCounted`: a voice call let in is on the day's row, once, beside model calls that settle on it |
| tokens | `CanRenew`: no used-up refresh token is presented, and memory and file hold a good one, unless an answer was lost, a write failed or the process died in between |

### What the violations show

1. `relay_buttons`. The relay renders a message under its lock and sends the update
   after giving it back. With a quorum, the update of the first approval may reach
   Slack after the one that closed the message: it keeps its buttons and says the
   approval is open, though nothing failed. Clicks on it are refused as closed.
2. `schedule_midnight`. Where the clocks go forward at midnight west of Greenwich,
   the walk to the next day lands an hour before it, and starts again, for ever.
3. `schedule_skipped`. A slot in the skipped hour is lost when the schedule names
   the hour before too.

Five further disagreements are configurations to run by hand, each with the
property it violates: `MCRulesEqual` (`EqualsComparesByValue`: 4.0 does not equal 4,
docs/tool-gate.md:104), `MCToolGateLatePrompt` (`RefusedPromptCloses`: a revoke
between the row and its ticket leaves the prompt open), `MCToolGateForget`
(`DenialIsRemembered`: a poll that read "pending" overwrites a denial in the repeat
memory), `MCToolGateTwice` (`OnePromptPerCall`: the memory is looked up and the
ticket opened in two critical sections), `MCCapLedgerApprovedPast`
(`AllowedTotalWithinCap`: human approvals pass `max_per_day`). For example:
`tlc -config MCToolGateTwice.cfg MCToolGate`.

Others are violated when their property takes the place of those in another
configuration. In MCToolGateForget.cfg: the PROPERTY `UnservedIsNotAllowed` ("no
execution authorized" is answered while the permit stays allowed: section 7). In that
of `approvals`: `SkipStands` (an approve after a skip tap,
before its reason) and the PROPERTY `TextGoesToTheLatest`. In that of `engine`: the
PROPERTY `CommandsKeepWorking` (a /reply blocks /status and /freeze for up to four
hours) and `SentIsSent` ("Sent" is told of a saved draft). In that of `relay`:
`ApproversAreHeard` (docs/hitl-protocol.md:184: the Teams relay forgets a dispatch
once one decision on it was answered, so a quorum's second approver gets 404). In
that of `components`: `NextIsFirstRun`, with `Parts = {"schedule"}` and
`Zones <- StJohns` (section 7); `StepsAreRouted`, with `Parts = {"config"}` (main.go:1440
"catches this before boot": a step left on Telegram with a relay is accepted and fails
every run); `SilentIsCovered`, with `Parts = {"rules"}` and
`Settings <- PaddedRisk` (validate.go:826 compares the risk with its spaces, which the
switch above it cuts off; "A high-risk tool that anyone can call without a human is the
exact shape of the gap this gate exists to close"); and `ReauthHolds`, with `Parts = {"tokens"}` (a renewal under way
while `/authcode` succeeds puts the old grant's access token, or the old refresh token
in the file, over the new).

## 4. Bounds

| Run | Bounds | Why they are enough |
|---|---|---|
| permit_ledger | 2 actions, 2 policies, clock of 3 | statements touch one row; before, at and after the end of a window |
| gate_races | 3 requests on 1 action, 1 failing action, 1 restart | creator, and two of consumer, poller, revoker, retry |
| gate_live | 2 requests, 2 action ids of identical calls | a prompt shared, and remembered |
| caps | 3 calls of -1, 2 or 3 against 3 a day with review above 2, or one call a day; days of one tick; under a rule with a grant (`GrantsAreFew`, the constraint) 2 calls, no fault, no restart | two calls that fit alone and not together, a third that must be refused; midnight between any two steps |
| approvals | a gate of 1 and a gate of 2, 3 operators of whom 2 are permitted, buffers of 2, 4 updates, 1 failed write, 2 restarts | a stale tap of another gate, a repeated one, an outsider; a boot that is itself interrupted |
| pipelines | 1 pipeline, 2 requests with one key, signed or not, 2 runs, pause after 2, 1 failed call, 2 reloads, 1 command, 1 restart | removed and re-added, a retry during and after, a streak over a restart |
| engine | 2 days of 3 ticks, digest at 1, reply window 2, buffer 2, 2 updates, 1 fault, 2 boots | a reply that waits across midnight |
| relay | 2 people, quorum 2, 3 clicks in Slack or 2 decisions through Teams, 1 fault of any kind | one person twice, and a decision in flight at the deadline |
| freezes | 3 calls, 2 agents, 2 denials in 2 ticks, a handler held up by 1 | a sweep by the other agent |
| hook | 2 hooks, waits of 1, 20 and 130 s, 2 faults | below and above the longest hold (100 s) |
| install | 2 installers, 1 edit, 6 documents | hooks before, after and in one group; entries twice; empty lists |
| rules, grants | 2 calls of -1, 4 or 6, 1 edit, 1 restart, pins by file and by hash; 2 grants | the second call under other rules than the first; more takers than uses |
| config, model | 2 runs, 2 edits, 13 files, 3 of which the checks should have refused; 2 runs, 2 calls, 5 policies | a reload between a run's two reads; each case the checks pass over; a review while the other run is admitted |
| steps | up to 5 steps, 2 items, 2 runs | fetch, ai, approval, two requests of one name |
| schedule | hours of 2 minutes, days of 4, weeks of 3, months of 4; 40 expressions; 6 zones | forward and back, east and west and at Greenwich, near both ends of the change |
| anchors | 3 receipts, 1 alteration, 2 lines, 2 faults | two anchors with a change between; a failure, then a crash |
| tokens | 3 callers, 2 issues, 1 fault | two renewals at once, and one beside `/authcode` |
| ledger, spending | 2 model calls, 2 days, 2 faults, 1 retry; 1 model call and 2 voice calls | an answer past midnight and after a crash |

Clocks stop at their horizons and inputs are used up, so behaviours end: deadlock
is not checked, and liveness properties say what must have happened before that.
Symmetry is used in safety runs only. Horizons are shorter than the retention of
tickets, so tickets are not swept. The type invariant of each module holds on the
same instances; those of PermitStore, ToolGate, CapLedger and Relay are proved, and
of ApprovalGate, Pipelines and the instances what the proofs need of it (`Typed` and
its like in the proof modules).

## 5. Fairness

`ScheduledSpec` of ToolGate assumes weak fairness of each handler's and each
asker's own steps: goroutines are scheduled and store statements return. Callers,
operators, revokes and restarts owe nothing. `WaitsEnd` assumes in addition that
time goes on (`TimeGoesOn`), which the approval window needs. In Relay the clock,
timers, called handlers and HTTP calls that have left go on; clicks owe nothing. In
MainLoop the loop and time go on; operators owe nothing, which is why a /reply ends
only by its window. All these are weak: each such step stays possible until taken.

## 6. Proofs

Constants are arbitrary: any sets of actions, arguments, policies, requests, rules,
people and pipelines, any horizon, window, quorum and bound. What is assumed of them
is the ASSUME of each module, which TLC evaluates on its instance:
`HorizonAssumption`, `SentinelAssumption`, `GateAssumption`, `CapAssumption`,
`ApprovalAssumption`, `RelayAssumption`, `PipelinesAssumption`, `MainLoopAssumption`,
and the named assumption of each instance (`GateHookAssumption`, `TripAssumption`,
`ModelCallAssumption`, `BudgetAssumption`, `VoiceAssumption`,
`ConnectorsAssumption`, `PipelineRunAssumption`, `ConfigAssumption`,
`AnchorsAssumption`, `HookSettingsAssumption`, `RulesAssumption`). They say that numbers are numbers, that a sentinel is no
member of the set it stands outside of, and that people and pipelines are finitely
many; calls, requests, actions and sessions need not be.

Each argument is one inductive invariant, checked by TLC on the instance of the run
before it was proved, one lemma per action, and a last theorem that the property
follows.

**PermitStoreProofs.** `LedgerTypes`; then the inductive invariant `StoreInv`,
types with `AuditMatchesState`, `DecisionFollowsStatus` and `SpentInsideWindow`.
They are proved together because a decision's receipt is the right one only if
its row was pending with no receipt, and a consume's only if its row had exactly
an approval. One lemma per statement says what it does to its row and receipts;
the theorems about steps (`HistoryFinal`, and `LedgerImplementsPermit`, where
each statement maps to one abstract action or a stutter) use the same lemmas.
`ExpireToolActions` closes many permits at once and maps to `Close(S)`.

**ToolGateProofs.** `GateInv` is type correctness with what program counters
promise: a request past `Reserve` holds the binding of its row, times in flight
are not from the future, an asker exists only for a reserved action. It is what
makes every gate step one of `StoreNext` (`GateDrivesLedger`); the ledger's
theorems then carry over (`GateKeepsAudit`, `GateKeepsHistory`,
`GateImplementsPermit`). `ExecutedOnce` adds `WinnerOK`: a request about to
answer "execute" owns a consumed row nobody else won or was answered for, and
there is at most one. `ExecuteOnce` alone is not inductive: two winners on their
way to the answer would both be counted. `OneDecides` and `ToldTheTruth` need
`DecisionInv`: who may still decide has not decided; what a ticket, a request or an
asker has seen of the ledger is true of it, or something later is; a prompt on the
screen has its row; a ticket that says unavailable means that the decision was lost, and an action whose
caller was told a decision against it is one nobody can allow any more. A 503 that
decided nothing is no part of this: the permit behind it may still be spent. Its
steps are first put into a few aspects (who may decide, which tickets and prompts
move, how), and each part of the invariant is proved from those. `RemembersApprovals`
has one of its own: what the memory holds, and a request that was answered from it,
has an approval in the ledger.

**ApprovalProofs.** `GateOK` ties, gate by gate, where the gate's goroutine stands
to its durable row, its trail and what the boot has still to audit. None of the
three properties is inductive, since what the trail may still become depends on
those. From it `ReleasesAreApproved`, `VerdictsAreUnique`, `GatesDoNotVanish`.

**PipelineProofs.** `LockOK`, `RowsOK`, `RunsOK` and `HoldOK` say what the webhook
handler may count on at each place between `admissionMu`, claim, signature and row,
and what it hands to its run; `StreakOK` by how much the scheduler's count of
failures and that of the history may differ. The proof found a guard that the model
had left out: a due pipeline is not claimed once a reload removed it
(`claimLocked`).

**RelayProofs.** `QuorumInv` follows an approval from the click to the verdict: what
is on its way was pressed, what was verified is of somebody permitted, the gate
counts nobody twice, and "approve" is resolved on a full count only
(`QuorumApproves`, with faults of every kind). `ShownInv` follows a click of the
Slack relay while nothing fails: it is under way, verified or answered, once
(`OneClick`); its one answer tells whether it resolved the gate (`AnswersTell`); and
a message with a verdict is of an approval no click can reach any more. What the
pipeline was told besides is where the gate's two ways to return join: the recorded
verdict, or the timeout once the clock is at the deadline (`ShownVerdictsAreTrue`).

**LimitProofs** begins with sums. `SumFunctionOnSet` folds a set in an order of its own
choice; that the order does not matter (`SumAdds`) is proved over the sizes of sets by a
smallest counterexample, the one form of induction the provers can be given. Then the
caps. `CapInv`: from the moment a capped call was found to fit until its
decision is written, it fits beside everything the rules have allowed (`RoomOK`).
This holds because nobody else decides by rule meanwhile (`LockOK`), because what
operators approve, which the total includes, has no negative amount under a rule
that refuses them (`AmountOK`), and because a grant's uses are those of the calls
that took one (`TakerOK`, `GrantOK`). The rules and grants of one instance change
over restarts; the totals are sums over the actions requested, of which there are
finitely many at any time. From it `CapsAreKept`, `LockPassesOn`, `UsesAccounted`
and, about steps, `OnlyLiveGrantsAreUsed`. Its `StageOK` also says that who decides has a row,
so every step is a statement of the ledger (`CapDrivesLedger`), and the ledger's
theorems hold of calls under caps and grants too: their receipts match
(`CapKeepsAudit`), the column a total sums over says "allow" exactly while a permit
is allowed or spent (`CapCountsWhatStands`), history is final (`CapKeepsHistory`),
and together they implement the abstract permit (`CapImplementsPermit`).

**ComponentProofs** (the loop and RunParts), **FileProofs** (FileParts) and the rest of
**LimitProofs** (LimitParts) are about instances with variables of their own: a theorem
is about the component's specification (`Hook!Spec`, ...) for every value of its
constants, and states the property that the run `components` checks:

| Theorem | Property | Why it holds |
|---|---|---|
| `LoopSendsOnce` | `SentOnce` | a digest sent is on record, about to be recorded, or a slip; the job never knows an older day than the store; a draft that waits is as it was posted |
| `HookRunsOnPermit`, `HookWithdraws` | `RunsOnlyOnPermit` | each place of `runGateHook` leaves the time that the steps after it may take |
| `FreezeStops`, `TripsAreEarned` | `StoppedMeansStopped`, `TripIsEarned` | a request that a stop bars has not read that freeze yet; denials counted are of their agent, and the last is no later than the clock allows |
| `TextsAreCleared`, `ReviewsHoldNoGate` | `TextIsCleared` | a place from which a text goes on is reached through its verdict only; the gate is held between admission and settlement |
| `StepsAct` (`RequestsWereReleased`, `ItemsAreTakenOnce`) | `StepsActOnce` | an approval lies between any two requests, so what is approved for the next one was released once more than it was sent; an item taken up is marked, or the store failed |
| `BooksMatch`, `OvershootsByOneAnswer`, `AlertsComeOnce` | `BooksMatchProvider`, `OvershootIsOneAnswer`, `AlertsOnce` | the last row alone may be pending, it still fits what its day and pipeline had spent when it was admitted, and totals are the sums of settled rows; an alert whose mark was written is in the store |
| `SpendingIsCounted` | these and `WelcomeIsCounted` | on shared day rows, a call let in is in the day's number, an open one has no minutes yet |
| `AcceptedRuns` | `AcceptedRunsResolve` | what was checked is what the two snapshots hold, unless the directory was edited between its reads; a role that is looked up is found, distinct people on the list that was counted are as many as its length |
| `AnchorsTell` | `AnchorsTellTheTruth` | what the job keeps is where it says it is; histories of receipts that are all different are told apart by their links, and the walk stops at the first place where two differ |
| `EntriesAreUpserted` | `EntryIsUpserted` | the operators on a list of hooks (`Others`, `Kept`, `AllHooks`) are one walk, `Gather`, which joins as its lists do; an entry stands between two lists that keep all they have, so it is found at its place again |
| `SilentCallsAreCovered` | `SilentIsCovered` | a rule judged a call on the total of all that stands, which is at least that of its own calls unless a human made room; a permit's pins are the definitions in force when its policy is. `HighRiskIsAsked` if no risk is written with spaces (`RisksArePlain`; section 3) |
| `DifferencesAreReal` | `NoFalseDifference` | rules that hash alike judge alike, and a comparison that waits stays true of the calls it saw as long as those stand |
| `RenewalGoesOn` | `CanRenew` | GoHighLevel: the holder of the mutex is alone between the answer and the file, and what came is good; Google: no token goes bad, and only good ones or none come |

Proofs that did not go through showed where a model or a property was wrong. The
hook's repeated a request for ever on 401, where `runGateHook` repeats once; with it
the deadline could not hold. That of the configuration did not go through for every file the checks accept: the
cases they pass over are now named in the property (`RoleOverlooked`,
`PeopleOverlooked`, a step left on Telegram beside a relay), the theorem has no
hypothesis, and the run has files of each case. The rules' invariant was not
inductive: an approved negative amount makes room in a day's total that outlives its
own permit, and a restart may pin by hash what the file pinned, which expires nothing.
`SilentStaysWithin` and `RunsOnItsDefinition` now say so.

**Only model-checked.** Liveness and everything under fairness (`WaitsEnd`,
`QuestionsEnd`, `StopEnds`), which with `ENABLED` is out of the prover's reach;
and `NextIsFirstRun`: it says of a walk over a calendar what no pass leaves out, and
the calendar divides by its constants (`\div`, `%` of hour, day, week and month); no
proof of that was attempted. Induction over data is out of reach too; where a proof needs an
instance of it, over the sizes of sets (`SumAdds`) or of sequences (`Longer`, from
which `Gather`'s laws follow), a smallest counterexample stands in.

## 7. What the models showed besides

Behaviours that are models' facts and a reader of the code may want to know;
none of them lets a call through that was not approved.

- *Gate rules.* An approved negative amount lowers the day's total
  (`CountsZeroOrMore`; `Check` and docs say amounts of 0 or more are counted). A
  grant releases a value above `review_above`, which docs/tool-gate.md:612 says.
  Room made by an approved negative amount is not taken back when its permit expires.
  A definition changed and changed
  back around a verdict lets a silent call run on the one in between. A call count
  added by a restart starts at 0 while the shadow counts the actions themselves;
  comparisons not yet made are lost at a restart.
- *Permits.* Every store failure is answered "deny", state "denied", "durable approval
  state or audit unavailable; no execution authorized" (tool_lifecycle.go:17), and the
  hook reads a 503 as a decision (gate_hook.go:470). It is one only where a decision was
  lost. After a failed read, reservation, revoke or consume the permit stays what it was,
  and may be spent by the next consume (`UnservedIsNotAllowed`). An unknown id (404) and
  another binding (409) have the words of a denial too and decide nothing. A reservation
  whose read-back fails leaves a pending row nobody decides until its window or a restart.
- *Hook and settings.* Installed timeouts assume a 401 is answered at once. "The ask
  was withdrawn" is said even if the revoke was lost. An edit between the command's
  read and its rename is lost, as docs/harness-hooks.md says.
- *Pipelines.* A webhook whose "running" write fails answers 503 and leaves an
  "accepted" row: the key's retry gets 202 for a run that never starts. A signature
  is used up even when admission fails. `/cron resume` clears the count of failures
  and a restart computes it again; an operator's pause is lost at a restart. Release
  leaves an entry a reload removed until the next sync. An adjust-rewrite without an
  outbound request leaves `ai_output` as it was. Webhook runs may take the
  configuration of one reload and the skills of the other.
- *Approvals.* A skip tap decides only with its reason; an approve in between wins.
  A crash between settling the row and the audit row leaves no verdict.
- *Main loop.* A waiting /reply holds up commands, digest, timers and SIGTERM, and
  has no `pending_approvals` row; one that waits past midnight can skip a digest.
  Updates sent while the engine was down are dropped at boot, a /freeze included,
  and the webhook server serves before that drain. After Adjust the notice says
  "or use the buttons", whose waiter is gone.
- *Budget.* A store error of the ledger blocks model calls until a restart. A
  reconcile while the call is in flight makes its settlement fail. An alert after
  midnight names the day before. A call that ends before it starts counts no minute.
- *Model policy.* A crash during a review loses a paid answer.
- *Configuration.* The README says "problems surface at boot rather than mid-run"
  (README.md:134); of accepted files these do not. `checkApprovers` looks for a relay
  step's approvers among `telegram.security.allowed_users` (validate.go:630 "otherwise the
  gate hangs until the approval timeout"): it refuses relay gates that could be decided and accepts some that
  cannot, which the run ends with an error. A quorum is compared with the length of its
  channel's list, so somebody listed twice counts twice (validate.go:610 "unsatisfiable
  ones"): on Telegram the gate then hangs. A step with a skill and a role is
  checked with its own role (validate.go:578) and runs with the skill's. An ai step
  without a role whose skill has none fails with "unknown role". A step left on Telegram
  beside a relay cannot be routed. A reload joins the steps of the new file to the
  operators and channels of the boot, which is checked as it will run.
- *Anchors.* A crash between the line and the save repeats the line and the
  message. A torn line makes the log unreadable to `verify-anchor --log` (exit 2).
- *Relay.* A decision may be answered 200 and the gate still time out: at the deadline
  both cases of `SendForQuorumApproval`'s select are ready (relay_channel.go:253). The
  message then says "Approved" of a run that was told "timeout". A decision after
  the resolution is answered 200 before the deferred delete, 409 after it
  (relay_channel.go:61 says 409). After a lost answer the message may say "Expired,
  nothing is sent" of an approval that went through; `ShownIsTrue` is for runs
  without faults. The Teams relay answers a dispatch only after it posted the card,
  never drops an entry nobody decides, and its handlers share a map without a lock
  (teams-relay/main.go): the process may die of it, which is a `RelayRestart`.
- *Connectors.* GoHighLevel's stored token is taken to be good for an hour at boot,
  whatever the age of the file ("assume we need to refresh if file is old",
  ghl.go:149). After a crash between its answer and the write no stored token is
  good. An answer of Google's that cannot be read is taken for one: `/authcode`
  reports "Success" of it. When the first renewal fails at boot there is no Gmail
  connector, and `/reauth`, which could mend it, says it is not configured.
- *Schedules.* The hour put back is run twice west of Greenwich when the walk
  reaches it minute by minute. In a zone half an hour off the full hour and west of
  Greenwich (Newfoundland), a slot in the first half of the hour after the clocks go
  forward is missed: `Truncate(time.Hour)` (schedule.go:256) cuts the absolute time, not
  the wall clock's, and the walk lands at 3:30; schedule.go:95 promises "the next
  matching minute in the schedule's zone".

## 8. Plan

Nothing is left of it: each safety property of the runs has a theorem but
`NextIsFirstRun`. Two hazards have no property since what could go wrong does: a total
grows while a capped call waits for a human (`tool_gate.go:437`,
MCCapLedgerApprovedPast.cfg), and nothing guards the Gmail tokens (`gmail.go:77`,
`ReauthHolds`). A change of the code there is the next thing to model.

## 9. Not modelled, and why

- Cryptography (receipt signatures, execution grants, zero-knowledge and FHE
  proofs) is algebra over large numbers: signatures are taken to do what they
  are for.
- What the API clients send and parse (Gmail, GHL, PDF), reports, rendering,
  metrics and logging are I/O without state the properties tell apart. The same holds of
  commands that only read: `pending`, `hitl`, `runs`, `report`, `doctor`,
  `gate budget`, `gate shadow`.
- Output schemas, redaction, argument decoding and the format checks of validation
  are pure functions of one input. `matches` expressions are the set of spellings
  that satisfy them.
- Within modelled parts: malformed requests and strict JSON (they return before any
  state changes), the deduplicated denial notices, several capped arguments on one
  rule (each has its own total), the sections of a configuration that only size
  resources, the deterministic operations' results.
- Steps taken as one where the code has a gap: a reload's `applyToolDefinitions` and the
  swap of the shadow (config_reload.go:171-174); the "running" write of a webhook run and
  the start of its goroutine (main.go:3405-3413).
- Simplifications by component. *PipelineRun*: requests are built from `ai_output`, and
  one leaves once, though net/http may resend on a lost reused connection what has an
  Idempotency-Key (httpaction.go:461). *Relay*: the approver of a Teams click is who the
  request names, by default the first of the list, as the Teams relay does not
  authenticate it. *BudgetLedger*: the cost limit of a single run is left out, which
  admits more. *ModelCall*: there is a store; without one a review passes without a
  receipt. *Anchors*: a file and the operator's notice are both configured and the file
  keeps its path.
