# Statewright, modelled in TLA+

Statewright keeps an AI agent on the rails of a workflow: a state machine
written in JSON that says which tools each state allows, which events lead
where, which steps a human must review. The MCP gateway
(`src/crates/mcp-gateway`) sits between the agent and its tools, holds the
session of every client, enforces the workflow on each call and keeps the runs
in a database. A second program, the command line (`src/crates/cli`), drives a
language model through the repair of a repository with workflows of its own.
This directory specifies both, model-checks them with TLC and proves the safety
properties of nearly all of it with TLAPS.

## The system and its parts

| Part | State it keeps | Operations | Hard behaviour | What makes it correct |
|---|---|---|---|---|
| engine (`crates/engine`) | none | `resolve_transition`, `validate_definition`, `match_interrupts`, `evaluate_guard` | fuzzy matching of events, `safe_next`, `$return` | a valid definition never leads outside itself |
| tool policy (`agent/tool_enforcer.rs`, `mcp-gateway/enforcement.rs`) | none | `enforce_tools`, `find_implicit_transition`, `enforce_tool_call` | a tool call can move the workflow | an implicit step respects what an explicit one would ask for |
| session manager (`session.rs`) | a map from session keys to sessions | `create`, `update_state`, `start_subflow`, `complete_subflow`, `restore`, checkpoints | several transports share it | a session is in a state of the definition it runs; a checkpoint can be restored |
| gateway handlers (`gateway.rs`, `custom_tools.rs`) | per transport: session key, active workflow, run id | transition, interrupt, branch done, force state, load, resume, pause, deactivate, pre- and post-tool hooks, upstream calls | spawned database writes, lost answers, loss of the process | runs keep their workflow; what is paused can be resumed |
| approvals (`remote.rs`, `gateway.rs`) | pending approval in the session, checkpoint in the run row, record in the approval service | park, poll, recover, apply receipt, callback | decision delivered twice, or after a crash | nothing advances without an approval; an approval is audited once, in its own run |
| subflows | the suspended parent in the session | invoke, decision record, completion | child shares context keys with its parent | the parent resumes when the child is final |
| fork and join | `_fork` in the parent's context, one session per branch | fork, `BRANCH_DONE`, switch to a branch, panes | several transports on related sessions | the join waits for every branch |
| quota (`quota.rs`) | run row, period counters, receipts | `persist_durable_admission`, `admit_or_hold`, `continue_held_admission`, `cancel_held_admission` | retries, concurrent clients, changes of plan and period | the allowance is never exceeded, an operation is charged once |
| native approval broker (`native_approval.rs`, `native_remote.rs`) | transports, open prompts, one task per prompt | open, reply, cancel, time out, retire, callback, retry | a late answer, a stopped run, two deciders | a transition is made only for an approval the service holds |
| event delivery (`event_delivery.rs`, `events.rs`) | outbox, subscriptions, grants | subscribe, publish, send, retry, give up, purge | several workers, lost answers, lost workers, rotated keys | nothing is sent without authority, nothing stays pending |
| usage ledger (`usage.rs`) | totals per state epoch, sequence per channel | report, note, move, end | reports repeated, overtaken or late | totals only improve |
| risk and shell classification (`risk_assessment.rs`, `bash_classifier.rs`, `shell_ast_shadow.rs`) | none; queue, worker and deadline of a semantic provider | classify, assess, ask | a compound command; a late answer | no effect is let through that the state does not grant |
| hooks, upstream servers, interceptors (`hooks.rs`, `upstream.rs`, `interceptors.rs`) | the shared session; a pipe to each server | pre-tool, post-tool, start, discover, call | a session that moves while a call is assessed; a server that dies or says too much | a call gets its own answer |
| remote transport (`remote.rs`, `native_remote.rs`) | the map of sessions, their locks | load, call, event stream, native conversation, retire | lookup, lock and reclaim race; a client hangs up | a session is reclaimed only when it is idle and ended |
| harness (`cli/src/main.rs`, `tools.rs`, `candidate_bank.rs`, `causal_*.rs`) | working tree, snapshots, hypotheses, bank, budgets | one turn of the loop: answer, tool calls, tests, escalation, transition | many policies write the same tree | the run ends; it hands over the best tree it verified |
| candidate search (`candidate_fanout.rs`, `candidate_validation.rs`, localization in `main.rs`) | children in work trees of their own, environment of the process | rank files, find a test scope, run children, validate, arbitrate, apply | threads share variables; children are killed; a model decides | a verdict is about the patch that is applied |
| agent loop, TUI, plugins, PocketBase hooks | | | | see *Not modelled* |

The handlers of one transport run under that transport's lock. Transports of
one client share the session manager: the root connection has the key of its
session, a pane that works on branch `b` has the key `parent/b`, which a fork
of the parent fills in. A handler reads and writes the session synchronously,
awaits the database where it must know the outcome (load, resume, pause, park)
and spawns a write where it need not (history entries, the end of a run).

## Modules

| Module | Models | Uses |
|---|---|---|
| `Workflow` | engine: definitions, `Resolve`, `Validate` | |
| `ToolPolicy` | tool permissions and implicit transitions | `Workflow` |
| `Session` | the session record and the pure part of every operation on it | `ToolPolicy` |
| `Gateway` | the state machine: transports, session manager, run rows, spawned writes, approval service, crashes | `Session` |
| `GatewaySafety` | the properties of `Gateway` | `Gateway` |
| `GatewayProofs` | theorems: types, the history of decisions | `GatewaySafety`, `TLAPS` |
| `GateProofs` | theorems: reviews, runs, interrupts, children and forks | `GatewayProofs` |
| `Quota` | transition accounting: runs, periods, receipts, holds, plans and time | |
| `QuotaSafety` | its properties, and the mapping to `Ledger` | `Quota`, `Ledger` |
| `Ledger` | the abstract promise: each operation charged once, charges of a period numbered without a gap | |
| `QuotaProofs` | theorems | `QuotaSafety`, `TLAPS` |
| `MCQuota` | the instance that TLC runs | `QuotaSafety` |
| `MCReview`, `MCRuns`, `MCFork` | the workflows that TLC runs | `GatewaySafety` |
| `EventDelivery` | outbox, subscriptions, workers and their row locks | |
| `Usage` | the usage ledger and the reports under way | |
| `NativeApproval` | prompts, their tasks, the page and the operations that race with them | |
| `ServicesProofs` | theorems about the three | these three, `TLAPS` |
| `MCServices` | the three services, one per behaviour | these three |
| `Shell` | the shell classifier, as operators on abstract command lines | |
| `Risk` | the parse-tree assessment, risk bands, the provider's answer, tool intents | `Shell`, `ToolPolicy` |
| `Admission` | tool calls of gateway and hook server over one session, with the provider's queue | `Risk` |
| `MCAdmission` | the calls and the workflow that TLC runs | `Admission` |
| `AdmissionProofs` | theorems | `Admission`, `TLAPS` |
| `Transport` | sessions of remote clients, their locks and tasks | |
| `Upstream` | tool servers and their pipes | |
| `MCRemote` | both ends, one per behaviour | `Transport`, `Upstream` |
| `RemoteProofs` | theorems about both | `Transport`, `Upstream`, `TLAPS` |
| `Machines` | the workflows built into the command line and what a lane changes in them | |
| `CandidateBank`, `CausalControl` | what a run keeps for later; the causal policy and its checkpoint | |
| `Harness`, `HarnessCalls`, `HarnessRun` | the loop: its head, a turn's tool calls, tests and the end | the above |
| `HarnessSafety`, `MCHarness` | its properties; the starts that TLC runs | `HarnessRun` |
| `HarnessProofs` | theorems | `HarnessSafety`, `TLAPS` |
| `Ranking`, `Localization` | file ranking, test scopes, policy, lanes | |
| `Validation`, `Fanout` | what a test run says of a patch; children, verdicts, the choice | |
| `MCSolver` | both parts, one per behaviour | `Localization`, `Fanout` |
| `SolverProofs` | theorems about the candidate search | `Localization`, `Fanout`, `TLAPS` |

### Data

A workflow definition is a record with the fields of the JSON document that
decide something. A context is a JSON object in the code; the engine reads the
key `_interrupt_return` of it (`ret`), the gateway the key `_fork` (`fork`), and
guards look at the rest, so the rest is the set of guards it satisfies
(`facts`). Event data from a client, from which the two reserved keys are
stripped, can make any guard true or false: `Patched`. State and event names
are compared exactly except in the engine's fuzzy matching, whose two relations
(equal up to case, one contains the other) are the constants `SameName` and
`Overlap`. Resolution of an event returns a set with at most one result, the
empty set standing for every error.

### Actions of `Gateway`

* `Connect` is `handle_streamable_http` for a transport without a gateway
  object; `PollUnknown` the same by an approval poll, which makes the gateway
  but not the session.
* `Load`, `Resume`, `Pause`, `Deactivate` are the tools of these names;
  `LoadUnconfirmed`, `ResumeUnconfirmed`, `PauseUnconfirmed` are the cases in
  which the database did it and the answer was lost. The case in which nothing
  was done changes nothing.
* `Interrupt`, `BranchDone`, `Park`/`ParkUnconfirmed`, `StartFork`,
  `InvokeSubflow`, `Advance` are the exits of `statewright_transition`, in the
  order in which the handler looks at them; `SwitchBranch` is `load_workflow`
  with a branch, `ForceState` the debugging tool.
* `AdapterPreTool`, `UpstreamTool` are the implicit transitions of the two ways
  a tool call reaches the gateway, `AdapterPostTool`, `UpstreamEdit` the
  interrupts of an edited file. A tool call that moves nothing is not an action.
* `RecoverPendingApproval`, `PresentApproval`, `ApplyReceipt` (and its unsaved
  variant) are the steps of `handle_runtime_approval`, `ApprovalCallback` is the
  callback endpoint, `Decide` the reviewer (external).
* `AppendLands`, `EndLands` are spawned writes reaching the database, in any
  order; `Crash` loses all memory and those spawned writes that had not left.

### Actions of `Quota`

`admit` is one database transaction under the lock of the owner's row, so each
outcome that writes is one action and each refusal is no step: `Attempt` (both
entry points, when there is room), `AttemptHeld` (`admit_or_hold` when there is
none), `Continue`, `ContinueHeld` (continued, still no room), `Cancel`. A request
may come at any time and any number of times, which covers lost answers, retries
and duplicates. `Stop` and `Edit` are other writers of the run row; `Tick`,
`ChangePlan`, `ChangeSubscription` and `SwitchAccounting` are what the
transaction reads. A session is a value and the engine a function `Step` on
values and events. The module is dormant in the code: the gateway's own
transitions do not call it yet, so it is not composed with `Gateway`; a
checkpoint with a hold is refused by `from_checkpoint`, so a held run cannot be
resumed around it.

### Actions of the services

* `EventDelivery`: a worker sends inside a transaction, so `Send` takes the row
  locks and `CommitSend` or `Crash` gives them up; a statement that would wait for
  a locked row is guarded by its being free. `CommitSend` has one case per answer,
  among them `lost` (the receiver took it, the answer did not arrive). `Revoke` waits
  for the transaction that has read the grant; `GrantLapses` does not, since its
  expiry is compared with the clock once and no lock holds time up. `FallsDue`,
  `Expires`, `Ages` are time; `Reclaim`, `Purge`, `PurgeDelivery` the cleaning.
* `Usage`: `MakeReport` makes a cumulative report, `ReportUsage` and `ReportTool`
  apply one at any later time, and as often as it comes.
* `NativeApproval`: `OpenPrompt` starts a task; `Reply`, `CancelRequest`, `TimeOut`
  and `Lapse` give it something to find, and the steps of `EndTask` are what it does
  when it has the conversation's lock. `DecideOnPage` is the browser, `Mutate`,
  `Deactivate` and `ParkTransition` the owner's other operations.

### Actions of `Admission`

A request is a task with a program counter. `Start` reads the session and puts a
question into the provider's queue when the code would; `SemanticTimeout`,
`WorkerTakes`, `ProviderAnswers` and `Delivered` are the wait; `PreToolDecides`
reads the session again (the hook does), `ToolsCallDecides` keeps the one it read
(the gateway does, under its own lock). `PreToolMoves` applies an implicit
transition, `UpstreamReturns` the interrupts of an edited file. The session is
moved meanwhile by `Transition`, `Decide`, `AdapterPost` and `HookPost`. `parked` is
the model's record, for each pre-tool request, of an approval that was pending when it
came or was parked while it waited.

The text of a command is a sequence of segments, each reduced to what the
classifier tells apart. `does`, the effects a call really has, is known to the
model and never read by the code's operators: `NoUngrantedEffect` compares the
decision with it.

### Actions of `Transport` and `Upstream`

A web load is `WebLoad`, `WebAdmit`, `WebLoaded`, a web call `WebCall` (lookup),
`Locks`, `WebRecheck`, `WebCalled`. A message is `MessageArrives` (lookup),
`MessageVerified` (under the lock, which is let go), `MessageRevalidated`, `Locks`,
`MessageHandled`, `MessageSent` (the lock is let go again). Both look up any key of
the map, whatever its kind and owner. `TakenOut` is the removal by key, without the
session's lock, after a failed load, a refused key or a send that found no receiver:
a message to a web session always ends in one, as its receiver was dropped when the
session was made. Native requests are split at their awaits in the same way, and
`Cancelled` drops any of them there. `dismissed` is the model's record of what a
request of the session's own owner took out.

`Spawn`, `Initialize`, `Discover`, `CallTool`, `ReadAnswer` are the gateway's side of
a pipe; `ServerTakes`, `ServerSays` (a line nobody asked for, such as a notification)
and `ServerDies` the external server's.

### Actions of the harness

The program counter `pc` is where the loop is: at its head (`Arrive`, `GiveUp`,
`StartNext`, `Localize`, the `Validate...` steps, `HardLimit`), asking the model
(`Ask`, `Answer`, `AnswerLost`, `FileBlock`, `Unreadable`), in a tool call (`Read`,
`WriteReproducer`, one step per guard that refuses an edit, `EditLands`), in the
tests that follow an edit (`CausalTest`, `TestPasses`, `TestFails...`), after the
calls (`AfterCalls` with the escalation), in the transition (`Move...`), at the end
(`HandOver`, `Verify`). A tree is the set of edits it carries; a test depends on it
only in that a broken file does not pass. The model behind the loop is `\E`.

`Localization` is the programmatic state before the first answer: scopes are tried
under process-wide variables that are saved and restored, then a plan is made and
its lanes run. `Fanout` runs each candidate as a thread with steps of its own:
`RunChild`, `SaveTestEnv`, `SetTestEnv`, `RunTest`, `RestoreTestEnv`, `Strengthen`,
`Finish`; `Select` and `Apply` are the parent's choice. What a child printed and
what its parent heard are two fields, since the last lines can be lost.

## What TLC checks

Every run explores its instance completely; `runs` has the constraint `OneWorkflow`, which stops
at a second workflow in the same database.

| Run | Instance | Properties |
|---|---|---|
| `review` (`MCReview.cfg`) | one client; a workflow with a reviewed transition, an interrupt, an ambiguous and a case-insensitive event; 1 run, 2 approvals, 2 crashes or lost answers, 2 writes in flight | `TypeOK`, `GateHonoured`, `ApprovalAuditedOnce`, `AuditImpliesApproved`, `ParkIsDurable` |
| `runs` (`MCRuns.cfg`) | one of two catalogues: two runs of a workflow with a review, in debug mode; or a decision record, then a parent that invokes a child with guards, fallback and interrupt; 1 approval, 1 fault | `AuditInOwnRun`, `PausedIsResumable`, `StateDefined`, `ReturnIsLocal`, `SubflowReturns`, `RunKeepsWorkflow` |
| `fork` (`MCFork.cfg`) | a fork with two branches under `all`; the root connection and a pane on one branch; 1 fault | `JoinWaitsForAll` |
| `quota` (`MCQuota.cfg`) | 3 operations on 2 runs (symmetric), 2 months and a subscription renewed before it ends, limits 0, 1 and unlimited, counters at their maximum, a user with legacy grace | `CounterMatchesReceipts`, `EachTransitionPaid`, `AllowanceHonoured`, `HoldIsExclusive`, `StoppedIsNeverCharged`, `ImplementsLedger` |
| `services` (`MCServices.cfg`) | delivery: 2 subscribers with one secret, 2 workers, 1 event and 1 fault; or one that rotates its secret; or one with 2 events and a grant that lapses; 2 attempts. Usage: 2 channels, 2 epochs, 2 sittings, 2 reports. Native: 2 transports, 2 prompts, 2 approvals, 4 revisions, 1 outage | `SendIsAuthorized`, `DuplicateNeedsFault`, `DeliveriesSettle`, `TotalsOnlyImprove`, `AppliedIsApproved`, `PromptsEnd` |
| `admission` (`MCAdmission.cfg`) | some fifty calls that reach every branch of the classifier, a workflow of seven states, one of which names another shell tool, 7 configurations, one hook client beside the gateway, a queue of one, 3 answers of the provider; two requests at once for a read and a write | `NoUngrantedEffect`, `ParkedAdapterDenies`, `ReceiptIsOwn`, `RequestsAnswered` |
| `remote` (`MCRemote.cfg`) | 2 callers, 2 owners, room for one session, 2 sessions ever, 2 decisions about consent; 2 servers that list a common name and may each write a line unasked, 2 calls | `RunsStayPinned`, `NeverDetached`, `ConsentNotRestored`, `AnswerIsOwn` |
| `harness` (`MCHarness.cfg`) | 2 files; a good, an oversized and a broken edit; eight ways of starting (tournament with a bank, raw answers, generated machine with a scope that proves nothing or none, control, a budget that is spent on arrival, causal, causal with raw answers); 1 to 4 steps and a grace of 1 | `CompletedIsClean`, `BestTreeHandedOver`, `GivenUpStaysGivenUp`, `HarnessEnds` |
| `solver` (`MCSolver.cfg`) | 3 source files, 2 test files, 42 cases of localization; 2 candidates, 4 patches, 6 things a child may leave, 3 setups | `ScopeGainsNoPower`, `VerdictIsOfPatch`, `ArbiterWeakensNothing`, `SolverEnds` |

The properties:

* `GateHonoured`: a state that only reviewed transitions enter (and that lists
  no tools) is entered only after an approval, across crashes, recoveries,
  callbacks, polls, interrupts and lost answers.
* `ApprovalAuditedOnce`, `AuditImpliesApproved`, `AuditInOwnRun`: the history of
  a run holds each approval once, only approvals, and only its own, although a
  decision may be delivered by poll and callback, and again after a crash.
* `ParkIsDurable`: while a transition is parked and its run is running, the row
  holds a checkpoint of this approval that can be restored.
* `PausedIsResumable`: the row of a paused run satisfies `from_checkpoint`,
  although the answer of a pause, a resume or a save may be lost.
* `StateDefined`, `ReturnIsLocal`, `SubflowReturns`, `RunKeepsWorkflow`:
  interrupts, returns, subflows and pauses never leave the definition, never
  carry a return state into another definition, and never lose the workflow.
* `JoinWaitsForAll`: a fork under `all` ends only in `on_complete` and after the
  last branch, or by an explicit deactivation.
* `CounterMatchesReceipts`, `EachTransitionPaid`: the counter of a period is the
  number of its receipts, and a run's transition count the number of receipts
  charged to it, whatever is retried, held, cancelled or sent under a used id.
* `AllowanceHonoured`: an enforced charge is made only below the ceiling of the
  plan in force.
* `HoldIsExclusive`, `StoppedIsNeverCharged`: a held run advances only by the
  held request from the held checkpoint, and never once it is stopped.
* `ImplementsLedger`: `Quota` implements `Ledger`.
* `SendIsAuthorized`: while a worker sends, the subscription exists, its grant is
  not revoked, the key is its own, and no other worker sends for it, although rotation,
  revocation and deletion are asked for beside it. Expiry of the grant or of the
  subscription is not held up: either may run out during the ten seconds of a send.
* `DuplicateNeedsFault`, `DeliveriesSettle`: a receiver takes an event twice only
  after a lost answer or a lost worker, and no delivery stays pending, not even those
  that a 410 answer to another one leaves behind on a disabled subscription.
* `TotalsOnlyImprove`: within a sitting a late or repeated report never replaces a
  total by a less precise one, or a smaller one of the same precision.
* `AppliedIsApproved`, `PromptsEnd`: whichever of form, page, callback and retry is
  first or late, a transition is made only for an approval, in no run its owner
  stopped; every prompt ends.
* `NoUngrantedEffect`: a call that is let through under the semantic policy has only
  effects its state grants, or unknown ones where the state tolerates what an
  authorised provider assessed. The exception of a shell tool that the state does not
  name is under *disagreements*.
* `ParkedAdapterDenies`: an approval that is pending when a pre-tool request comes, or is
  parked while it waits for the provider, stops it as long as it is not decided.
* `ReceiptIsOwn`, `RequestsAnswered`: a request is decided on the provider's answer
  to its own question, and is decided even if the provider never answers.
* `RunsStayPinned`, `NeverDetached`: no load at capacity reclaims a session that is
  active, being started or at work, and no call runs on one that was reclaimed between
  lookup and lock. What a request of the session's own owner takes out is excepted in
  both: it may be an active session, even one with a call on it.
* `ConsentNotRestored`: a catalogue fetched before a withdrawal and applied after it
  does not turn reporting on again.
* `AnswerIsOwn`: an answer comes from the server that was assessed, and no answer left
  by start-up or a failed call is taken for another's, unless that server has written a
  line nobody asked for.
* `CompletedIsClean`, `BestTreeHandedOver`: a run that announces its completion or
  accepted a candidate hands over files that parse (or the best checkpoint of the causal
  mode, which is restored after the syntax guard has looked), and what it hands over is
  what it accepted, or a tree that passed when the bank holds one worth more than any
  untested patch.
* `GivenUpStaysGivenUp`, `HarnessEnds`: a hypothesis given up is not taken up again;
  the loop ends whatever the model answers.
* `ScopeGainsNoPower`: localization ends with the test scope it was given, or with
  one that passed on the untouched tree and cannot complete the run.
* `VerdictIsOfPatch`, `ArbiterWeakensNothing`, `SolverEnds`: the parent's verdict is
  about the patch a second child may have replaced; a model's choice is never worse
  validated than its alternatives; the search ends.

Three facts about operators are evaluated as assumptions of the runs:
`LanesStayWorkable` (no lane takes a built-in workflow's way to completion, or
points to a state it lacks), `DeltaIsChange` (only a test that failed before counts
as fixed) and `EffectsAreNoReads` (no command of the instance with an effect is
proved to read only).

Bounds: one approval per run is enough to replay a decision, a second one to
confuse two; two faults give a crash after a lost answer; the database and
crash steps need only as many runs as can be confused, two. The writes of
`record_run_end` in flight are bounded by `MaxWrites`, the rest is bounded by
the constants (`Runs`, `Approvals`, `MaxFaults`); a bound only removes
behaviours from the end of a run's life. One fault and two attempts give a retry
after a lost answer and a delivery that is given up; two subscribers and two workers
a row lock that is waited for; two events a delivery that a 410 answer leaves behind.
Room for one session makes every load after the first meet the capacity, of its owner
or of the gateway; two decisions are consent given and withdrawn, or withdrawn and given
anew. A queue of one is full with two requesters. The harness has fewer steps than in
practice (its thresholds are lowered with them) so that budgets, plateaus and limits
are met in all orders; the long starts begin at the first edit. Its data is assumed as
the code makes it: a broken file passes neither a test nor the reproducer, and localization ranks a
file once (`ModeAssumption`).

### Where the code and its documentation disagree

Three runs end in a violation. Each states what a comment, a document or a test says.

| Run | Property | What happens |
|---|---|---|
| `gate` | `ReviewNeverSkipped` | a tool call takes a review-marked transition implicitly, without a review |
| `unheard` | `FailureIsHeard` | a child's last lines are still in its readers when the channel is drained; a candidate whose own verification failed is applied |
| `evidence` | `EvidenceIsOwn` | a write that landed but whose report contains "error" prepares no patch; the checkpoint taken of the new tree carries what was shown of the old one |

Further disagreements that were met while modelling; the modules follow the code:

* with `approval_mode: external` a reviewed transition is applied at once, and
  nothing is pending that an integration could resolve (`Advance`);
* an interrupt moves a session that is parked for review (`Interrupt`);
* an approval into a child's final state does not resume the parent
  (`ApplyReceipt` does not complete a subflow);
* after switching to a branch a client cannot report it with `BRANCH_DONE`
  (`SwitchBranch`);
* a usage report delayed from an earlier sitting is applied to the epoch of the same
  number in the current one (`Admitted`);
* `handle_tools_call` never looks at a pending approval, which the adapter's pre-tool
  call does (`CallRefused`); interceptors are skipped where a call is answered by a
  checkpoint or an implicit transition;
* where a state's `allowed_commands_tool` names a tool that is no shell, `is_shell_tool`
  is false for `Bash` and its like and the interceptors pass their commands over
  (`ShellUnchecked`), although the comment at `interceptors.rs:160` says the classifier is
  always applied; in an exploratory state that lists no tools such a command may write.
  `NoUngrantedEffect` excepts it;
* `/message` takes any key of the session map. With the handle of a web session it
  always removes it, active or not and without waiting for a call that runs on it, which
  the comment at `remote.rs:933` ("never execute on a detached session") does not
  foresee; only the session's owner can do it (`MessageArrives`, `TakenOut`);
* the low-local tolerance lets a local git write through where the state lists it;
* the harness keeps observations of a file across a restore of the tree, and an edit
  whose report contains the word "error" leaves its cache standing.

`GateHonoured` and the other passing properties are stated so that they hold
around these: a gated state lists no tools, the child's interrupt returns, the
child in `runs` is not reviewed.

## What is proved

`GatewayProofs` proves, for every catalogue of workflows and any sets of keys,
transports, runs and approvals, from `CatalogueAssumption` and
`BoundsAssumption` only:

* `TypeCorrect`: `Spec => []TypeOK`. The invariant is inductive as it stands
  because it relates what refers to what: every run named by a transport or a
  spawned write has a row, every session is stored under its own id. One lemma
  per operator of `Session` shows that it returns a session; one step per action
  shows that it keeps each conjunct.
* `AuditedOnce`: `Spec => []ApprovalAuditedOnce`.
* `AuditSound`: `Spec => []AuditImpliesApproved`. This is not inductive: an
  append lands long after the decision. The strengthening `AuditInv` adds that
  every append in flight is of an approved approval, and uses that the service
  never changes a decision.

`QuotaProofs` proves every property of the run `quota`, that the types are right and
that charged periods never overlap (`PeriodsDisjoint`), for any number of
operations, runs, plans, subscriptions and for any length of a month, from
`QuotaAssumption` and `WorkflowAssumption`. None of the invariants is inductive
alone. The counter is written as an absolute value computed from the latest
period row, so its exactness needs that a period which is not the latest one is
really new, which follows from the disjointness of the recorded periods and from
the period's id determining its bounds; that is the lemma `UsedCounts`, and
`QuotaInv` is the conjunction it needs, with the numbering of receipts for the
refinement. The step properties and the refinement rest on `StepCases`: every
step admits one new request within the allowance or charges nothing.

`GateProofs` proves the remaining invariants of the runs `review` and `runs`, and the
property of `fork`. They are promises about a workflow, and which workflows keep them is
part of the statement. `GatewaySafety` names what the author of a catalogue has to see to, and
the MC modules assume it of theirs, so that TLC evaluates it:

| Hypothesis | What it says | Without it |
|---|---|---|
| `NoForks` | no parallel sections | a transport switched to a branch keeps its own run: pausing saves the branch's session in that run's row, where `paused_run` refuses it, and a receipt may name another run |
| `ChildrenReturn` | an interrupted child has to return before it can end | its `_interrupt_return` is patched over its parent's, which then returns to a state of the child |
| `Closed` | every name is a state of its workflow | `validate_definition` checks only the first target of a guarded transition, and neither `safe_next` nor `on_fail` |
| `ReviewsKeepStill` | neither interrupts nor tools move a workflow with reviews | a parked workflow moves, and `from_checkpoint` refuses the state it was parked in |
| `ChildrenMoveByEvents` | a child has no review, no tool list and no forced state | these can move it to a final state without completing it |
| `Flat` | a child has no child | the run's workflow is two levels up |
| `NoReviews` | no transition is parked for a local review | a transition that was parked and not confirmed leaves its checkpoint in the row; the client deactivates and forks, and `recover_pending_approval` puts the checkpoint in the place of the session that has forked |
| `ForksStandAlone` | a workflow that forks is no child and has none, and a fork has a branch | an invocation sets the fork aside with the suspended parent |
| `OneLevel` | a branch has no branches | a parent that forks again resets the session of a branch, and with it the fork of that branch |

Every theorem but the last needs the first two; the table of theorems below says which
needs more. The invariant is `RunsInv`. No property is inductive by itself: a review is honoured by a
session that was a checkpoint before a crash, or a suspended parent, or the target of an
interrupt's return, so `Sound` says of every session *and every checkpoint* that its
state, the state it will return to and both ways its parent can go on are `Placed`: defined,
approved if they are gated, and, for a child to be returned from, enclosed by
`ReturnBound`. What is parked is tied together by `Backed` (a session's pending
transition is the one in a checkpoint of its own run), `PendingFiled` (the service's
record, if there is one, agrees with the checkpoint) and `PendingsApart` (no two
checkpoints share an approval id), which is why a receipt that comes back after a crash,
through another path or in another order applies the transition that was reviewed.
One lemma per operation shows that it leaves a session `Sound`; one per action that it
keeps the tie.

`JoinsWait` is about catalogues with forks and has an invariant of its own, `ForkInv`: only a
root session forks, no suspended parent holds a fork, nothing is parked, and the same is
true of every checkpoint, which may come back by a resumption. `ForkStep` then says of each
action but a deactivation that no session is replaced by one that has lost its fork, unless
at most one branch was still to be reported (`FinishedFork`).

| Theorem | States | Needs also |
|---|---|---|
| `GateIsHonoured` | `GateHonoured` | |
| `AuditedInOwnRun` | `AuditInOwnRun` | |
| `ParkingIsDurable` | `ParkIsDurable` | `Closed` |
| `PausedRunsResume` | `PausedIsResumable` | `Closed`, `ReviewsKeepStill` |
| `StatesStayDefined`, `ReturnsStayLocal` | `StateDefined`, `ReturnIsLocal` | `Closed` |
| `SubflowsReturn` | `SubflowReturns` | `ChildrenMoveByEvents` |
| `RunsKeepWorkflow` | `RunKeepsWorkflow` | `Closed`, `Flat` |
| `JoinsWait` | `JoinWaitsForAll` | only `NoReviews`, `ForksStandAlone`, `OneLevel` |

`RemoteProofs` has two parts. The transport's (from `TransportAssumption`) rests on
`SessionsInOrder`. A request goes through lookup, unlocked map, session lock and recheck, so
the invariant says what each point of it still knows: that it holds the lock of the session it
has in hand, that the session's owner was compared, that a session a call runs on is in the
map or was taken out by its own owner; and of each session that its watermark covers the
withdrawals it has seen. `RunsPinned`, `CallsAttached` and `WithdrawalStands` follow, the
first because the retain spares what is locked and what is active, and everything else that
leaves the map is taken out by a request whose owner was compared.

The pipes' part rests on `OneInFlight`: calls are serialized, so what is written to the
pipes of a server that only answers and is not read yet belongs to the one call in
progress. For a server that has written something unasked `AnswersMatch` claims no more than
where the line comes from; the code compares no ids.

`ServicesProofs` proves the safety of the three services: `DeliveriesInOrder`
(a worker's copy of a row is the row, since it holds its lock; a pending delivery was not
taken without a fault) gives `SendsAuthorized` and `DuplicatesNeedFaults`;
`NativeApprovalsHold` and `FirstCommitWins` need that a commitment is made once and that
the form, the page and the callback all read it; `TotalsMoveForward` is a step
property of the ledger alone.

`AdmissionProofs` rests on `AdmissionInv`. A request waits while the session
moves and while the provider's worker takes jobs in its own time, so the invariant ties the three
together: whoever a job in the queue or with the worker is for still waits, for this
call, and has one job only (`RequestsOwnJobs`), and a request that carries a decision carries one
its state grants (`RequestKept`). `ParkedRequestsDenied` and `ReceiptsMatch` need nothing more.
`EffectsAreGranted` needs the lemmas on the shape of the classifier's answers (which verdicts there are, what
capabilities go with them, that a semantic verdict needs authority and an answer), and
`SoundCatalogue`, which `MCAdmission` assumes of its calls and its workflow, so that TLC evaluates it:

| Hypothesis | What it says | Without it |
|---|---|---|
| `ClassifierIsSound` | a verdict names all that the call does | the classifier reads a call wrongly; that it reads some fifty right is what TLC shows |
| `CallsAreKnown`, `ReadersRead` | what calls do has a name; a client's own reading tools read | a tool called `Read` that writes is let through as a read |
| `ImplicitMovesKeepTolerance` | a call moves the workflow to a state that tolerates what the state left does | the pre-tool hook asks for the tolerance (`semantic_effect_risk_denial_details`) in the state that is left only, and for the capabilities in both |
| `CheckpointsListTools` | an exploratory state that counts iterations lists its tools or denies `Write` | `handle_tools_call` skips the interceptors at a checkpoint, and `semantic_effect_capability_denial` alone admits a write where no tools are listed |

`SolverProofs` proves the safety of the run `solver`. `ScopesGainNoPower` rests on
`ScopeInv`: while scopes are tried what the run was given is in the saved variables, and a
scope that is kept has a passing record. `VerdictsAreOfPatches` and `ArbiterNeverWeakens` rest on `FanoutInv`:
a parent's verdict among the lines that count is about the patch in the tree, a candidate that was
not started has not begun, and all are at rest once one is selected, so that what
was compared is what is applied. That the static tiebreak takes one that is validated best, whatever
the numbers, is the work: the median and every field of a key are numbers, keys that
differ are ordered, and in a total order on a finite set each place is taken, so
`InOrder` lists the candidates by their keys (`InOrderLists`). `ChildrenGiveNoVerdict` is needed for the
verdicts: `CandidateEvidence::from_output` looks for the parent's line anywhere in the
output of a child, which prints none as long as it starts no children of its own.

`HarnessProofs` proves the safety of the run `harness`, for any edits, files, limits,
generated machine and way of starting, from the assumptions on the constants alone (`LimitAssumption`,
`ModeAssumption`, `BankAssumption`, `OutcomeAssumption`). The invariant `HarnessInv`
says what the loop may find when it ends, since every policy that writes the tree runs long before:

* `BankInv`: the bank's candidates differ by their number, and a trusted one is a tree that
  passed. The bank is asked last, and restores its best candidate over a patch worth 20
  points less; a patch that is looked at without its tests is worth at most 100 (`ScoresBounded`), so a
  candidate worth 120 or more is always restored.
* `AcceptedInv`: once a candidate is accepted it is the tree, and the loop is at its end, so that
  no edit, rollback or restore follows.
* `TurnInv`: no turn is worked on in a final state; the syntax guard is what lets the
  loop arrive at one.
* `HypothesesInv`: no file is a hypothesis twice and the active one is in the list.

Most steps of a turn touch none of this. They are `Ordinary` (the tree changes, the
bank only gains what is backed, the causal record keeps what was accepted), one lemma each, and
`OrdinaryKeepsInv` does the rest once. Four things came out of attempts that failed:
a run whose budget is spent when it arrives at "completed" is aborted before the guard and announces
nothing (`Announced`); the best checkpoint of the causal mode is restored after the guard and
is not held to it (the exception of `CompletedIsClean`, and, looked at further, the run
`evidence`); that no hypothesis is proposed twice needs a list without repetition to start from
(`ModeAssumption`), and the property now says so; and a reproducer that passes has to leave files
that parse.

Only model-checked: liveness under fairness (`DeliveriesSettle`, `PromptsEnd`,
`RequestsAnswered`, `HarnessEnds`, `SolverEnds`), which is beyond the prover, as is what
the classifier's folds compute.

## Fairness

The gateway's core and the quota assume none: nothing in the code obliges a
reviewer or a client to act, and the spawned writes are not retried. Elsewhere it is
what a timer, a loop or the scheduler does by itself:

* `DeliveryFairness`: workers poll for ever and take the delivery that is due
  longest, so each due delivery is taken (strong fairness, as a row may be locked
  now and then); a send ends at its timeout; time passes.
* `NativeFairness`: a prompt's timer fires and its task runs on.
* `AdmissionFairness`: a waiting request's timer fires and a running handler goes on.
  No provider and no upstream server is assumed to answer, nor a client to ask.
* `HarnessFairness`, and its like in `MCSolver`: the loop is one thread that takes its
  next step; a model call and a test run end at their timeouts.

The usage ledger and the remote transport have no liveness property: nothing is
retried there.

## Not modelled

* Counters and `previous_state` of a session, the history entries of ordinary
  transitions, the read-only tools, the authoring of workflows, a gateway without
  durable storage.
* `statewright_force_state` and the callback do not strip the reserved context keys
  from the data they are given; the model gives them data without them.
* A handler of `Gateway` is one action. The wait inside a tool call is split in
  `Admission`, where the session is what admission reads of it; a post-tool hook that
  writes back a context read before another handler's write is not.
* How the text of a command is cut into words, the options of single programs, the
  provider's prompt and the text of its answer; ambiguous tools of a workflow that is
  deactivated while a call is assessed.
* Authentication, signatures and addresses; the bodies of interceptors.
* A restore of the harness's tree is one step that succeeds; in the code it may stop
  half-way (`causal_checkpoint.rs:174-188`), and nothing is claimed of that case.
* The row of a run that a subscription is for is taken to stay (`authorized` looks it up
  before each send).
* Of the harness: prompts and the parsing of a model's text, the fallback from native
  to raw answers (deprecated), greenfield writing in two phases, patches over many
  files, the test-driven chain (`tdd.rs`, `tdd_chain.rs`), reporting. Its branch for
  a pass that is feedback only cannot be taken, as the bank never allows it, and the
  block for a causal pass after the causal exit cannot be reached.
* The agent crate's loop, the TUI, plugins, PocketBase hooks, credentials and the
  desktop launcher: clients, rendering and glue.

## Plan

1. The session's part of `RunsInv` for catalogues with forks.
2. An abstract specification of an approval gate that `Gateway` and
   `NativeApproval` implement.
3. A reviewed transition inside a branch; the post-tool hook in two steps.
4. The lease of the managed client (`executor-lease.mjs`).
