# dsh-legion in TLA+

dsh-legion is a TypeScript plugin of the DeepSeek Harness (DSH). It compiles
configuration into specialists and strategies, runs a strategy as a cohort of
DSH child Sessions, and defines *durable strategy runs*: runs whose whole state
is a fold over events in an append-only DSH Session, recovered by a controller
that holds a Host lease. This directory models the parts of it that keep state,
checks them with TLC on small instances and proves the central facts with TLAPS.

Paths below are relative to the repository; `durable-run/x.ts` is
`src/durable-run/x.ts`.

## Inventory

| Component | State it keeps | Operations | Interacts with | What makes it correct |
|---|---|---|---|---|
| Run journal and projection (`durable-run/events.ts`, `validate.ts`, `invariant.ts`, `projection.ts`, `contract.ts`, `status.ts`) | run, plan, task, attempt, mail, continuation, milestone and decision records | append one event of eight families after the gate; fold | every durable component writes through it | terminal records are final, stale writers change nothing, histories have no gap |
| Replay (`replay.ts`, `projection.ts`) | a checkpoint of the projection | parse a checkpoint, fold the tail | Session storage | a checkpoint restores what a fold reaches |
| Run control (`run-control.ts`, `recovery.ts`, `result-acceptance.ts`) | per call: lease, state read, recovery plan | resume, cancel, steer, inspect | lease, Session commits and flush, children | no ambiguous effect twice, one accepted result per generation, cancellation in order, lease given up |
| Static DAG activation (`controller.ts`) | per call: admitted tasks, budgets | admit the frontier, commit prepared, execute, commit settled | run control, children, plan graph | durable before dispatch, the budgets of a Strategy are never exceeded |
| Host services (`host.ts`, `lease.ts`, `capabilities.ts`) | external: lease, fence, receipts | acquire, renew, assert, release, look up | run control | adapters refuse answers about other runs, owners, fences |
| Durable mailbox (`mailbox.ts`) | mail records, the journal and what of it is flushed | enqueue, reserve, reclaim, incorporate, acknowledge, discard; delivery with flushes | journal, context | at least once, incorporated once per generation, acknowledged after its incorporation is durable |
| Plan graph and evolution (`graph.ts`, `plan-delta.ts`) | versions of a plan graph | compile, apply a proposal, frontier | activation, journal | no started history rewritten, authority never widened, executable |
| Continuations (`continuation.ts`) | token and its status | issue, validate, consume, invalidate | journal, flush | consumed at most once and before effects |
| Stair-step (`stair-step.ts`) | milestones, the streak without progress | evaluate, decide, checkpoint | continuations, flush | stops after the configured number without progress; nothing is reported that is not durable |
| Context (`context.ts`) | evidence pages of a recipient | derive evidence, build a manifest, revalidate before a write | mailbox | taint and freshness are inherited, required pages are kept |
| Admission (`admission.ts`) | active weight, reservations | reserve, release, reconcile | activation | never above the limit, never below zero |
| Metrics and reducer (`metrics.ts`, `reducer.ts`) | none | critical path, concurrency peak, reduction tree | admission | the longest chain, every output reduced once |
| Cohort execution (`execution.ts`, `child-run.ts`) | terminal claim, fan-out workers, artifacts | run primitives, fan out, settle and clean up children, deadline | DSH subagents, receipts | one terminal outcome, bounded children, minSuccess, no child forgotten |
| Foreground Specialist settlement (`index.ts`, `settlement.ts`, `child-run.ts`) | one call: its plan, its child, its disposal | plan, observe routes, start, hand over or wait, dispose | catalog, route observation, DSH subagents | the child of a call has one owner, on a route that is there |
| Run receipts (`run-receipt.ts`) | receipt with stages, participants and token samples | observe children, settle a stage, finish, publish | cohort execution, feed | a participant is bound once, every receipt made is one the feed accepts |
| Receipt feed (`packages/run-receipt-feed/src`) | receipts per Session, follower queues, client epoch | publish, follow, drop; client follow and switch | browser | the browser shows the selected Session and comes to show what the Host holds |
| Settings and republication (`settings.ts`, `internal/republication.ts`, `index.ts`) | stored section, running pass, pending flag, registered tool and guidance | request, materialize, publish, mount, unmount | Host settings, registries | one pass at a time, no request forgotten, tool and guidance of one generation |
| Catalogs and compilers (`config.ts`, `catalog-layer.ts`, `compiler.ts`, `route.ts`, `orchestration.ts`, `resources.ts`) | none, but for the loading of prompt files | normalize, layer, export, compile, plan, load | settings, tools | what compiles can be executed; exports read back; a file is read whole |
| Command line, schemas and renderings, repository scripts | none of their own | parse, render | all | out of scope: no state and no decision that spans several values |

The hard behaviour is in the durable half: concurrent controllers that take a
run over from each other, leases that expire between an assertion and the
effect it guards, flushes that fail, crashes that take unflushed events back,
results that arrive after their generation was retried; and in cohort
execution: workers, aborts and deadlines that race to decide how a run ends.
`PROJECT.json` lists each hazard at its line with the properties that watch it.

## Modules

| Module | Models | Extended or used by |
|---|---|---|
| `CommittedFacts` | abstract store of facts: one commit changes one fact, final facts never change | refined by `LegionJournal` |
| `LegionJournal` | the gate and the fold of the run journal | `JournalHistory` |
| `JournalHistory` | history variables: requeues of mail, the highest fence | `MCLegionJournal`, `LegionJournalProofs` |
| `LegionJournalProofs` | TLAPS proofs about the two modules above | |
| `MCLegionJournal` | bounded instance | |
| `RunControl` | concurrent `controlDurableRun` calls, recovery, activation, result acceptance, with the Host and the children | `MCRunControl`, `RunControlProofs` |
| `RunControlProofs` | TLAPS proofs about `RunControl` | |
| `MCRunControl` | bounded instance | |
| `CohortExecution` | one Cohort Run: `executeStrategyPlan`, its fan-out and `settleChildRun`, with the DSH subagent runtime | `MCCohortExecution`, `CohortExecutionProofs` |
| `CohortExecutionProofs` | TLAPS proofs about `CohortExecution` | |
| `MCCohortExecution` | bounded instance | |
| `DurableMailbox` | the mailbox of a run, its deliveries, its journal and flushes | `MCDurableProtocols`, `DurableProtocolsProofs` |
| `StairStep`, `Continuation` | the decisions about milestones; tokens | `Advancement` |
| `Advancement` | activations that observe milestones, yield and resume | `MCDurableProtocols`, `DurableProtocolsProofs` |
| `ContextManifest` | which pages a manifest keeps, how evidence is derived | `DurableMailbox`, `ContextEvidence` |
| `ContextEvidence` | the evidence of a recipient over time | `MCDurableProtocols`, `DurableProtocolsProofs` |
| `DurableProtocolsProofs` | TLAPS proofs about mailbox, advancement and context | |
| `MCDurableProtocols` | bounded instance of the three protocols above | |
| `RunReceipt` | a receipt: how a run makes one, what the feed requires of one and of its successor | `ReceiptFeed`, `ReceiptTokens` |
| `ReceiptFeed` | the Host's feed with its followers | `ReceiptClient`, `ReceiptParticipation` |
| `ReceiptClient` | the client of the selected Session over a stream that reconnects | `MCReceipts`, `ReceiptProofs` |
| `ReceiptParticipation` | the observer of a run's children, publishing into the feed | `MCReceipts`, `ReceiptProofs` |
| `ReceiptProofs` | TLAPS proofs about the observer, the feed, the client and token accounts | |
| `ReceiptTokens` | token accounts (pure) | `MCReceipts`, `ReceiptProofs` |
| `ReceiptPresentation` | the receipt on display (pure) | `MCReceipts` |
| `MCReceipts` | bounded instance of feed and client, of observer and feed, and tables | |
| `Totals` | the sum of a function over a finite set, the largest of some numbers | `PlanGraph`, `Admission`, `RunReports`, `StrategyCompiler`, `PromptResources`, `ReceiptFeed`, `ReceiptTokens` |
| `TotalsProofs` | lemmas about `Totals` and about largest and least numbers, for all finite sets | the proof modules |
| `PlanGraph` | a graph of tasks, its compilation, its frontier | `PlanDelta`, `StrategyCompiler` |
| `PlanDelta` | how a proposal becomes the next version | `PlanActivation` |
| `PlanActivation` | activations of a graph that evolves meanwhile | `MCConfiguredRuns`, `PlanActivationProofs` |
| `RunReports`, `Admission` | critical path, peak, reduction tree; reservations | `MCConfiguredRuns`, `PlanActivationProofs` |
| `PlanActivationProofs` | TLAPS proofs about plans, activations, reservations and compiled Strategies | |
| `Publication` | settings, republication and the registered tool of a row | `MCConfiguredRuns`, `DelegationRowProofs` |
| `RoutePlans`, `SpecialistCatalog` | the route of a child; what a row may delegate to (pure) | `Delegation` |
| `Delegation` | one Specialist call of the tool | `MCConfiguredRuns`, `DelegationRowProofs` |
| `PromptResources` | loading prompt files from a directory that is edited meanwhile | `MCConfiguredRuns`, `DelegationRowProofs` |
| `DelegationRowProofs` | TLAPS proofs about a row, its calls and its prompt files | |
| `CatalogLayers`, `ConfigDocuments`, `StrategyCompiler` | layers, documents with their exports, strategies (pure) | `MCConfiguredRuns`; `StrategyCompiler` also `PlanActivationProofs` |
| `MCConfiguredRuns` | bounded instance of the parts above, and tables | |
| `Absence` | the value of an absent field | |

### LegionJournal

The variables are the fields of `ProjectedRun` (`projection.ts:25-36`). One
run is modelled: every guard reads, and the fold writes, the entry of the
event's own `runId`. An action `Append<Family>` is `appendLegionEvent`
(`events.ts:115-124`) with its guard `Accepts<Family>` (a branch of
`assertLegionTransition`) followed by the matching case of
`applyLegionProjection`. `RunEvent` ... `AttemptEvent` quantify over the records
`validateLegionEventData` lets through: the relations validation enforces
between header and record are built into the record sets (a reserved mail has a
reservation, a consumed continuation has a consuming fence).

Abstractions: timestamps, texts and payloads that no guard compares are left
out. Fields that are only compared together are one value: the content of a plan,
`owner` (owner fingerprint, effect class, idempotency key), `route` (profile
and the route, environment and context digests). A binding and a result repeat
the identity of their attempt, which the gate checks, so only their route is
kept. Absence (`undefined`, a missing key) is `None`.

`JournalKeepsCommittedFacts` is the refinement: `content` maps each fact (the
run, a plan version, a task, ..., the n-th milestone, the n-th decision) to
its record, `final` collects the facts whose record is terminal, or all of
them once the run is terminal.

### RunControl

A control is one call of `controlDurableRun`; several run concurrently, as
several callers in one Host do. `pc` is the await a call stands at, and each
action is the code between two awaits. The stages of a resume are
`acquire, reread, assert, commit, flush, reassert, refresh, prepare,
prepare-flush, execute, join, settle, settle-flush, release`; a cancel goes
`..., commit, flush, cancel-children, reassert, cancelled, cancelled-flush,
release`; a steer releases after the flush of its proposal. Every rejection
goes to `release`, the `finally` block.

The repository binds no implementation of `RunControlPort` and of
`StaticDagEffectPort`; their effects are modelled from their comments, types and
uses, and are the external half of the model:

- a commit is atomic with the check that the lease is current
  (`run-control.ts:53-64`), is refused when the run is terminal, and is in the
  journal before it is durable; `flush` makes the whole journal durable or
  reports that it cannot;
- the Host grants one lease at a time, each with a larger fence; a lease may
  expire at any moment, without the holder being told;
- a prepared batch records an attempt with the current fence and the task
  running; a settled batch is revalidated with `decideResultAcceptance`;
- a recovery plan's actions change the task as their fields say: an
  incorporated receipt completes it, a retry starts the next generation,
  needs-attention suspends it. `abandon-attempt` always accompanies one of the
  last two and is merged with it;
- `closeAdmission` closes the Host's admission, so later executions reject;
  `cancelLiveChildren(state)` ends the children of every attempt recorded in
  the state it is given;
- a child ends with or without a result; a result leaves a receipt that a
  later recovery may or may not find (lookups may answer *unknown*);
- a crash ends all controls and children, reopens admission, and leaves the
  journal as of the last flush. The lease survives until it expires.

Tasks are independent in this module: edges and budgets are the subject of
`PlanActivation`.

### CohortExecution

The run is single-threaded: an action is the code between two awaits, or a step
of the Host. `main` and `stage` are the place in the loop of
`executeStrategyPlan`, `claimed` is its `TerminalArbiter`, `aborted` the
deadline's signal (parent or timer), `stageAborted`, `failedMembers` and
`marked` the controller, the counter and the set of the fan-out in execution
(`executeFanout`), `status` the stages of the Run Receipt. For each member,
`member` is where its `executeOne` stands, `execution` the `ChildExecution`
fixed before cleanup, and `child` what the Host keeps of it.

Abort listeners run inside `abort()`, before any continuation. `seen` holds what
the promise of `observeWithAbort` (`child-run.ts:20-36`) or of the cleanup was
resolved with: an abort sets it at once (`Wake`), and the continuation is a
later action of the member. So an abort that comes after a result was seen does
not take it back, and one that comes before hides it, as in the code.

The compiler accepts a plan only if `maxConcurrent` covers its widest fan-out
(`orchestration.ts:699, 975-976`), so a stage admits all its members when it
starts; the queue of the workers never holds one back.

Abstractions: the result of the preflight, whether a result materializes as the
artifact's contract and whether an artifact exceeds `maxOutputBytes` are
choices; `participation.finish` and the closing of the receipt are one step. The
Host is external: a start may publish, reject or never answer, a child may ignore
the abort, and a disposal may fail or last forever.

### The durable protocols

`DurableMailbox` has one action per effect of `deliverReservedMail`
(reserve, build the manifest, incorporate, flush, acknowledge, flush), and the
other commands of `transitionMail` at any moment. Each is the transition of the
current mailbox followed by the gate of the journal (`invariant.ts`,
`legion/mail-state`), so a command that the transition allows and the gate
refuses fails here as it does there. A flush makes the journal durable, fails,
or persists what it fails to report; a restart takes back what was not flushed
and ends every delivery; a takeover gives the run a larger fence; a retry gives
the recipient task a new generation.

`Advancement` has one action per effect of `checkpointMilestoneBeforeYield` and
of `consumeBeforeEffects`. Activations read the streak and the accepted
progress from the journal and hold the tokens they were told of, which may be
told before a restart takes the token back. The plan, the environment and the
grants change meanwhile.

`ContextEvidence` derives evidence from any of the pages at hand, also from
derived ones, lets time pass and builds a manifest of what there is.

### Receipts

`ReceiptParticipation` turns the Host's lifecycle events into participants:
`start` and `end` of runs of a child, the binding of a child to a stage, which
happens when `start()` returns and so after events of that child, the listing
of descendants when the run finishes, and the disposal of agents. Every change
publishes a receipt with the operators of `RunReceipt`, which also states what
`feed.ts` and `types.ts` require of one. `ReceiptFeed` accepts or refuses it
and replaces what its followers have not read. `ReceiptClient` selects a
Session, follows it in an epoch of its own, loses its carrier and follows again.

### From a configuration to its children

`Publication` has the row of a delegation tool: the settings service and its
owner, the stored section, the one running pass of
`SerializedRepublication` with its pending flag, and the registries of the
Host. `PublicationStep` is the code between two awaits of a pass, a change made
by somebody else, or the mounting and unmounting of a row. `Delegation` is one
execution of the published tool. `PlanActivation` starts activation after
activation from what the journal says while accepted deltas become the next
version. `PromptResources` has one action per call to the file system.

The pure compilers are operators, compared with a reference over bounded
inputs: `StrategyCompiler` states what the compiler accepts instead of
collecting its errors, and its result must be a graph that `PlanGraph` accepts.

## Runs

| Run | Module, cfg | What it asks | States |
|---|---|---|---|
| `journal_records` | `MCLegionJournal`, `MCJournalRecords.cfg` | gapless milestones, mail generations, reclaim counts, refinement of `CommittedFacts`, over plans, tasks, mail, continuations, milestones and decisions | 86 thousand |
| `journal_attempts` | `MCLegionJournal`, `MCJournalAttempts.cfg` | what a stale attempt and a bound attempt may do, refinement, with two tasks | 62 thousand |
| `journal_fence` | `MCLegionJournal`, `MCJournalFence.cfg` | violation: the run's fence can decrease | |
| `journal_checkpoint` | `MCLegionJournal`, `MCJournalCheckpoint.cfg` | violation: the checkpoint of a folded state may be refused | |
| `run_control_safety` | `MCRunControl`, `MCRunControl.cfg` | two controls, three leases, two tasks, one crash: six invariants | 1.9 million |
| `run_control_liveness` | `MCRunControl`, `MCRunControlLiveness.cfg` | every control returns and gives its lease up | 96 thousand |
| `run_control_lease_loss` | `MCRunControl`, `MCRunControlLeaseLoss.cfg` | violation: a child starts after its lease was lost | |
| `cohort_execution` | `MCCohortExecution`, `MCCohortExecution.cfg` | three invariants of a run, what its claim and its starts may do, and that it returns | 141 thousand |
| `cohort_receipt` | `MCCohortExecution`, `MCCohortReceipt.cfg` | violation: a failed run whose receipt has no failed stage | |
| `durable_protocols` | `MCDurableProtocols`, `MCDurableProtocols.cfg` | mail is acknowledged after a durable incorporation and incorporated once per generation; resumptions are delimited, reported continuations durable, a run without progress pauses; context is faithful; a reservation ends | 291 thousand |
| `run_receipts` | `MCReceipts`, `MCReceipts.cfg` | publishable receipts reach the feed; the client shows its Session and catches up; token and display tables | 146 thousand |
| `configured_runs` | `MCConfiguredRuns`, `MCConfiguredRuns.cfg` | plans stay executable, deltas within the deployment, history stands, budgets and admission hold; the publication is current; a call owns its child; resources are whole; tables of the compilers | 191 thousand |

Bounds of the journal runs: two plan versions, fences and generations are
enough to be behind, equal or ahead; three reclaim counts and three milestone
steps let a wrong count or gap show after a correct one; one live and one
terminal status stand for the two classes the gate distinguishes. The guards of
the plan, mail, attempt, continuation, milestone and decision families read the
run, the tasks and their own records only, so a behaviour of `MCSpec` uses one
of these families; the interplay with runs and tasks is complete. `Len` of the
two histories is bounded by `Steps` and `MaxDecisions`.

Bounds of the run-control runs: two controls make every pairwise race; three
leases (`MaxFence`) allow a control to be superseded and to come back;
`MaxGeneration = 1` allows one retry, and a recovery beyond the bound is
rejected, as a failed commit is; one crash (`MaxCrashes`) at any point. One task
may not be replayed, the other may. The liveness run has one task and two
leases, since nothing in it depends on a second task.

The cohort runs execute the shape of the research panel of the default catalog:
a fan-out of three members of which two must succeed, then one synthesis. One
tolerated failure and one that is not, in any order with the abort, and a second
stage after a whole, a degraded and a lost one all occur. Nothing is bounded
beyond the plan: every counter is bounded by it.

The last three runs each check components that share no state. A behaviour
chooses its part at the start (`protocol`, `part`) and the others stand still,
so the state spaces add up instead of multiplying. Two parts interact only where
a module says so (the observer with the feed, the client with the feed, deltas
with activations, deliveries with the gate).

- `durable_protocols`: two deliveries and two mails with one idempotency key,
  one of them expired when sent; two fences and generations, so that a delivery
  is overtaken once; three activations, one token and two owners, so that a
  token is used by its owner, by another and after a restart. Three observations
  make progress, repeat it and stop. Five source pages of all slots, pins and
  trust classes with two derivations make derived evidence of derived evidence.
  `MaxTime`, `MaxInstant` and `MaxNow` bound the clocks, `MaxChanges` the
  changes of plan and environment.
- `run_receipts`: two Sessions, two runs, one running receipt per Session and
  followers that keep two replacements, so that caps are met; `MaxDisturbances`
  bounds restarts, disposals and lost carriers, `MaxSelections` the selections,
  `MaxDisposed` the disposed agents. Five children, of which two are remote,
  start in chains of up to three, or twice, in the orders the Host allows
  (`MCScenarios`). The tables cover all logs of up to three events.
- `configured_runs`: a Strategy of four stages with a fan-out and an unneeded
  artifact, twelve proposals and two authorities, six tasks at most and three
  versions; four reservations; a row with five configurations of which one
  cannot be materialized and one cannot be loaded, and at the start at most one
  thing out of order (`Favourable`), then `MaxUpsets` more; one call of each
  kind under every answer of two adapters; two prompt files of up to two blocks
  and two edits. The tables cover three catalog layers of two names, documents
  in all words and versions, one or two routes, every small catalog, all pairs
  of stages, and every graph of four tasks.

Deadlock checking is off in all runs: a journal of a terminal run, a system
without leases left under the bound, a Cohort Run that returned, a table and a
component whose bounded changes are used up stop legitimately.

Fairness (`RunControl!Fairness`) is weak fairness of each control and of the
children's return: the promises they await settle (DSH's ports are calls that
resolve or reject; JavaScript runs every continuation of a settled promise).
Nothing is assumed of expiry, crashes, failing flushes or new calls.
`CohortExecution!Fairness` is weak fairness of the run's own steps, of each
member's (its preflight settles; the cleanup timer of `beginCleanup` fires) and
of `Abort`, which stands for the deadline timer. The Host's steps get none:
`RunReturns` holds though no child ever answers.
`ReservationEnds` assumes that time passes and that the current owner reclaims
what it may (`Tick`, `Reclaim`): the module offers the command and leaves it to the
owner to give it. `SelectedClientCatchesUp` assumes of the client and of the stream that
frames on their way arrive and that a lost carrier is followed again
(`ClientProgress`), which `RemoteSnapshotStream` does by itself; nothing is
assumed of selections, publications and restarts.

## What the runs show

Passing properties hold on these instances and, where proved, for all.
Four statements of the repository are refuted by what the code does:

- *"run fence cannot decrease"* (`invariant.ts:51`). The fence of a run record is
  optional and the check is skipped when either record lacks it, so a record
  without a fence resets the comparison.
- *"restores checkpoint plus tail exactly like a full fold"*
  (`tests/durable-projection.spec.ts:27`). `parseProjectionState` demands that
  recorded attempts match the current plan version and generation of their task,
  which the gate does not keep: after a retry in a new generation the checkpoint
  is refused and replay must fold from the start.
- *"Lease loss or failed flush prevents the next effect."*
  (`docs/recovery.md:11`). Nothing asserts the lease between the flush of the
  prepared batch and the start of its children. The results of such children
  are never accepted (`AcceptedOncePerGeneration`), but their effects happen.
- *"the frozen plan and actual child settlement determine stage and outcome
  state"* (`docs/run-receipts.md:52`). The outcome is claimed when `minSuccess`
  becomes impossible, but the status of the stage is read from the deadline's
  signal when its last member settled (`execution.ts:515`): an abort in between
  yields a failed run with a cancelled stage.

## Proofs

Eight modules hold theorems. Each theorem is about a specification of the
component alone (`Init /\ [][Next]_vars` without fairness, except that
`CohortExecution!Spec` has some it does not need) and for every value of its
constants that satisfies the named assumptions; bounds such as `MaxCrashes` are
parameters of which nothing is assumed but that they are numbers. The safety
properties that the runs check are the ones that are proved.

| Module | Theorems | Assumptions |
|---|---|---|
| `LegionJournalProofs` | `TypeCorrect`, `MilestonesAreContiguous`, `MailGenerationIsReached`, `StaleAttemptsAreFrozen`, `BoundRoutesAreFixed`, `JournalImplementsCommittedFacts`, `ReclaimsCoverRequeues` | `JournalAssumption`, `NoneIsAbsent` |
| `RunControlProofs` | `ControlTypes`, `ChildrenSurviveCrashes`, `AmbiguousWritesStartOnce`, `OneResultPerGeneration`, `RecoverySeesTheJournal`, `CancelledRunsAreQuiet` | `ControlAssumption`, `NoneIsAbsent` |
| `CohortExecutionProofs` | `TypeCorrect`, `DecisionIsExact`, `ChildrenAreOwned`, `ClaimStands`, `NoLateStart`, `ReceiptIsTrue` | `PlanAssumption`, `NoneIsAbsent` |
| `DurableProtocolsProofs` | `MailboxTypes`, `AcknowledgedMailIsDurable`, `MailIsInOneContext`; `AdvancementTypes`, `TokensAreOneShot`, `ReportedTokensAreStored`, `RunsWithoutProgressPause`; `ContextsAreFaithful` | `MailboxAssumption`, `AdvancementAssumption`, `EvidenceAssumption` |
| `PlanActivationProofs` | `PlansStayExecutable`, `DeltasAreWithinDeployment`, `BegunTasksNeverChange`, `BudgetsAreKept`; `AdmissionIsWithinLimit`; `StrategiesCompileToGraphs` | `NamesAssumption`, `NumbersAssumption`, `AdmissionAssumption` |
| `DelegationRowProofs` | `RowsPublishWhatIsCurrent`, `CallsOwnTheirChildren`, `LoadedResourcesAreWhole`; `RoutesAreFirstAdmissible`, `PlansAskWhatIsThere` | `PublicationAssumption`, `DelegationAssumption`, `ResourcesAssumption` |
| `ReceiptProofs` | `ReceiptReachesFeedAlways`; `ClientShowsItsSession`; `SamplesOfSessionsAgree`, `AccountsOfReceiptsAgree` | `TreeAssumption`, `CapsAssumption`; `FeedAssumption`; `CountsAssumption` |
| `TotalsProofs` | lemmas about sums, largest and least numbers | |

### Assumptions

- That `None`, the value of an absent field, is none of the values it is the
  absence of (`NoneIsAbsent`, and parts of `DelegationAssumption`,
  `NamesAssumption`, `PublicationAssumption`, `ResourcesAssumption`,
  `FeedAssumption`, and `CountsAssumption`): `undefined` is no record, name or number.
- That versions, generations, fences, limits, sizes and times are natural numbers:
  the code refuses others (`safeNatural`, `validate.ts`, the checks of
  `config.ts` and `admission.ts`). Weights of reservations are positive
  (`admission.ts`), a run starts one task at least per activation
  (`ControlAssumption`).
- `PlanAssumption`: a stage has at least one member, requires at least one and at
  most all of them, and a stage that is no fan-out has one. The compiler
  refuses other plans (`orchestration.ts`).
- `NamesAssumption`: a Strategy has finitely many primitives and a proposal
  finitely many operations; tasks of a Strategy and of a proposal have different
  identities; no input is absent; nodes and authorities have the fields of their
  types. `NumbersAssumption`: a fan-out may have one member at least
  (`STRATEGY_FANOUT_MAX`), sizes of outputs and limits of the deployment are
  numbers.
- `EvidenceAssumption`: the source pages are finitely many pages with identities
  of their own, which are below 100, since derived pages are numbered from there;
  a source is derived from nothing.
- `ResourcesAssumption`: at least one path is asked for; otherwise nothing is
  loaded.
- `FeedAssumption`: the runs that may begin are runs of Sessions.
- `TreeAssumption`: every child is below the Session of the run, of which
  parents are never in a circle; a run has finitely many subagent runs; the plan
  binds a child to one of the places of a stage. The Host creates a child under a
  Session that exists, and a binding is `{stage, index}` with an index of the
  stage's fan-out (`execution.ts`).
- `CapsAssumption`: a full receipt of one run is within the weight of a model,
  and one receipt may be active. `RECEIPT_FEED_LIMITS` has 16 active receipts, 256
  participants and a megabyte per model, four kilobytes for each participant. That
  longer names or further runs may exceed it is among *What the properties do not
  promise*.

TLC evaluates each of them in the runs of its component.

### The journal

`TypeOK` is inductive. `MilestonesContiguous` and `MailGenerationReached` are
inductive with it: the new receipt's step is one more than the last step, which
is the length; the mail events establish the generation and the task events only
raise generations. The action properties need the stronger `AttemptsAgree` (an
attempt's task exists, and its binding and result name its route), since the gate
compares the new record with its own binding and the old record with the new
binding only. For the refinement, every event is a `Commit` of one fact or a
stutter (`OneFactIsACommit`, one lemma per family), and `final` grows by that fact
at most, or to everything when the run becomes terminal. The history of requeues
does not constrain the journal (`HistoryIsOfTheJournal`); an event that takes a
mail back raises its reclaim count by one, and no other event lowers it.

### Run control

`IInv` has eight parts beside the types. `FreshInv` is the protection of the lease: as long as a
control holds its lease, what it read is the journal, because only the holder of
the current fence appends. `Past` says of a child that its task has moved
beyond the point where it was started, so that no attempt of its generation can
be recorded any more; `ChildInv` has that of every running or returned child,
in the journal and in what a crash leaves of it. With it, `RecoveryMovesOn`,
`PreparedMovesOn` and `SettledMovesOn` show that no commit of any control takes
a task back. `RecordInv` says that the attempt of a child is in the durable
journal before the child starts, and that no task runs without an attempt: with
`Past`, a task that durably runs in the generation of a child runs that child.
`StartInv` counts the starts of ambiguous writes: one is about to
start in at most one control. The lease may expire at any moment in these
proofs; that a child may start after its lease was lost (a violation below) does
not touch them.

### Cohort execution

`MemberFacts` ties each member's position to its execution, to what it saw and
to its child. `CountInv` says that the counter of a fan-out is the number of its
failing members, each counted once although two callbacks report it; with it,
the step that makes `minSuccess` impossible is exactly the one that makes the
stage lost. `LoopInv` carries the claim across stages: a stage with enough values
is not lost (`LossPreventsSuccess`: values and failures are disjoint subsets of
the members). `BookKeeping` classifies the nine steps of a member by what they do to
the failing members, so that the count is argued once. `NoLateStart` then reads
the member's signal at its start; a delegate has no signal of its own stage, and
needs that its only member has not failed yet. `ReceiptIsTrue` adds what the
status of a stage says of how its members ended.

### The durable protocols

*Mailbox.* `DeliveryInv` says what a delivery at each step has found or made
durable; `DurableInv` that mail which is incorporated durably stays in its
context in the journal. `MailStaysIn` is the step property both rest on: no
command of any delivery, owner or retry moves incorporated mail to another
context.

*Advancement.* `PlacesInv` says where a token is when an activation stands at
each step, in the journal and in the store. `ConsumedInv`: a token is consumed
in the journal and durably before the effects of the one activation that resumes
with it, and no two activations resume with one token. `ReportedInv` and `MilestonesInv`
say that the journal and the store have every token and every milestone that a
caller was told of, and the journal all that the store has. `GrantInv`: whatever
an activation or a token has is within what the first activation had; grants are
followed backwards over each step (`GrantsFrom`). `StreakInv`: a receipt counts
at least the receipts in a row before it that brought nothing new, and one whose
count reaches the bound pauses the run.

*Context.* Doubt is compared between two pages at all times at once
(`AsDoubtful`), which makes it transitive: derived evidence is as doubtful as
its sources by `Propagation`, and as theirs by induction over the steps. A
manifest is sorted by counting, for each page, the pages of smaller keys
(`Sorted`); `SortedInOrder` shows that this lists every page once, for any keys
that differ. `KeptPages` then argues from the least number of evictions after
which the rest fits: what is left after fewer evictions is, for the page that
goes next, the required pages and those that are worth at least as much.

### Plans and admission

`GraphIsSound` is what every version has, whether compiled or evolved: the edges
join tasks of the graph, inputs come over one edge each, and Kahn's algorithm
leaves nothing. That no tasks then wait for one another in a circle
(`NoTasksWaitForOneAnother`) is argued from a task that would be taken out first.
`HistoryInv` says of every task that has begun that it still stands in the graph
as it was when it began. `BudgetInv` says that the agents used are the total over
the tasks that have begun, that an admitted batch is within the concurrency of
its activation and of its graph, that what it may still write is positive, and
that it counts from the bytes the run has used (`BytesInv`), which nobody but
itself adds to; a batch is admitted only if its agents fit into what is left.

`AdmissionHolds` includes that no instant saw more than the limit, though the
report is made later from the admissions that ended. `NeverTooMany` counts, for
every past instant, the reservations that stood then, released or not; the sweep
that computes the peak is bounded by the largest of these counts.

### A row, its calls and its prompt files

`CurrentInv`: what a pass has read is current, or the pending flag is set, or
nothing was announced. `SurfaceInv`: the registered tool and guidance follow the
generation, and a tool that a free name would bring back is known to have failed.
`CallInv` goes through the places of a call: each says what has become of the
child and on which route it started. `ReadInv`: what has been read of a file is
the beginning of one version, or its time differs from what the first `stat`
found; whoever writes in place gives the file a later time.

### Feed and client

`OfFeed` says of a model handed out that, as long as the Session object and the
companion are the same, the feed has gone on from it. `FollowerInv`: the model
that went out last is at the follower's feed, and older than what is pending.
The last model is the frame on its way or what is shown, so a step that drops
either (a lost carrier, another selection) needs that the follower ends with
it. A client whose selection has moved on takes nothing from its stream. Eight
lemmas, one for the Host and one for each step of the client, keep these
together.

### The receipt of a run

`ReceiptReachesFeedAlways` says that the feed has the receipt the observer last
emitted. The feed takes a receipt only if each of its rows stands under another
and every row it had goes on, so the proof follows each row from the event that
listed it to the feed.

`ObserverInv` is inductive; the property alone says nothing of the records that
the next event is made of. `RecordsInv` has what the registry keeps (`Sound`): a
record that waits for its root is not bound, a bound one belongs to a direct child
that the plan was told of, and its root is bound as well. `Forward` and `Fresh`
say of a step that no record is lost, runs again or is bound twice, and that what
it binds is bound together with everything above it. `SeatedWell`: either every
listed run has a seat or the seats are full, and above a seat is a seat or a
descendant that was never bound. A run comes after the one above it in the order
of the rows, because it is deeper under the same binding (`CarrierPrecedes`), so
seats that are given in this order stay so (`SeatsStay`). `RowsInv` says that the
rows of the receipt are those of the seats and of the Sessions that were read;
`ColdInv` that the latter stand below a row or a mark, and `EntriesInv` that a
descendant is read once. `FeedInv` has the receipt of the feed, and that the feed
may take the receipt of the run after it as long as no row was lost.

`EmissionStep` argues once what an emission does to all of this; then there is
one lemma for each action of the observer, most of which give the records
that the emission is made of. The climb to the direct child above (`rootRecord`) and
the attachment of waiting records (`attachPendingNested`) recurse along the tree
of children: `TreeRecursion` shows for any such recursion that it defines a
function, from the fact that a set of children has an uppermost one.

An attempt to prove the property without the third case of `Unpublishable` failed
at a chain of four, the last case under *Receipts* below; TLC finds it with four
children and three seats.

### Token accounts, routes and plans of one call

These are operators, so their theorems speak of all inputs rather than of all
behaviours. A usage is `Even` when it is unknown or its total is that of its
parts; what is taken of a turn or a compaction is even (`TurnIsEven`,
`CompactionIsEven`), and so is a sum of even usages, because a sum of sums is the
sum of both (`TotalAdds`) and what is not known may be left out of it
(`TotalOfWeighted`). That is what the feed checks on a sample.

The decisions of a route plan are a recursion along the candidates.
`DecisionsAreJudgements` gives them without it: a candidate is skipped if one
before it is admissible, and otherwise rejected or selected; one more judgement is
appended, and the least position at which another solution differed is
impossible. `PlansAskWhatIsThere` compares what a mode needs with what makes a
Specialist inactive and with what makes the catalog unusable.

### From a Strategy to a graph

`StrategiesCompileToGraphs` assumes of a Cohort and of a Strategy what
`orchestration-contract.ts` lets an author write (`AuthoredCohort`,
`AuthoredStrategy`), and nothing of the profiles and of the request. What the
compiler accepts (`TemplateAccepted`) has stages with identities of their own; no
stage makes an artifact that one before it made, and an input fits an artifact made
before. So in the plan each primitive and each artifact has one name, and each
input one producer (`StagesAreCompiled`). The compiler looks for circles among
what stages say they come after and what they read, the graph among its edges,
each with Kahn's algorithm: `KahnIsDefined`, `NoTasksWaitForOneAnother` and
`NothingIsLeft` say of any edges that it leaves nothing exactly when every part of
the tasks has one that waits for none of that part, and that carries over from the
one set of edges to the other. The agents of the primitives are those of the tasks by
`TotalRenamed`. The effective `maxConcurrent` is the least of the Strategy's, of
its `maxAgents` and of what the Cohort allows at a time, and a Strategy that is
accepted has room in it for its widest stage, so the limits stay within the maxima
that the reader of a graph insists on. What the reader may still refuse is the pair
of limits a request narrowed, named under *What the properties do not promise*: the
theorem says it refuses nothing else.

### Induction over data

The prover cannot instantiate the library's induction theorems, whose parameter
is a predicate. Where a recursive function had to be known for all inputs, the
lemma forms the SET of the inputs for which it fails and takes a minimal member:
`LeastNumber` for numbers, `Smallest` for parts of a finite set. So
`TotalsProofs` shows that a sum is defined, does not depend on the order in which
members are taken, and adds up over disjoint parts.

### What is model-checked only

- Of `TablesHold`, the layers of a catalog, the documents and the reports of a
  run; of `ReceiptTablesHold`, the choices of the overlay: pure
  operators compared with references over bounded inputs, several of them
  defined with `FoldLeft` or `SelectSeq`, of which the library states no
  facts. The routes, the catalogs of Specialists and the token accounts, the
  other parts of the two, are proved for all inputs.
- Liveness (`ControlsReturn`, `LeaseGivenUp`, `RunReturns`, `ReservationEnds`,
  `SelectedClientCatchesUp`): fairness and ENABLED are out of the prover's reach.

## What the properties do not promise

Where the code promises less than one might expect, the property says what it
does promise. The limits met while modelling:

Receipts
- A participant whose local agent is disposed before it ended yields no row; the
  feed then refuses every later receipt of the run, which stays *running*.
- Two runs of one nested continuable child make two rows of one child, and a
  descendant that cannot be read leaves the rows below it without a parent:
  such receipts are refused as a whole.
- `trackChild` after the end publishes the old terminal receipt once more.
- A grandchild that starts before those above it are bound is never attached
  once the record between them has a root. A run that starts under such a
  grandchild after the binding is bound all the same (`rootRecord` climbs to the
  direct child), and its row stands under a child that has none: the feed refuses
  this receipt and all later ones. It takes a chain of four.
- A usage summary whose parts do not add up makes a sample unavailable; the cap
  of a Session may refuse a terminal receipt; a client that met
  *feed-unavailable* tries again at the next selection only.

Durable protocols
- Mail that was incorporated under a superseded fence can be neither
  acknowledged, reclaimed nor discarded, and mail to a former generation of its
  task stays as it is. `ReservationEnds` is about reserved mail.
- A token is bound to its owner's activation and fence, so no later lease
  resumes it.
- The digest of progress distinguishes an item listed twice from one listed
  once, and when *no-progress* is not in `pauseOn`, the bound stops nothing.
  `NoProgressPauses` says so.

Plans
- A task that depends on a superseded one waits forever, superseded tasks count
  against `maxAgents`, and limits may be narrowed below what was accepted.
- After one execution rejects, its siblings keep running; tasks of a batch whose
  flush was lost stay *running* until a recovery.
- The peak of concurrency leaves out admissions of no length.

Configuration
- The defaults of the durable-run policy are filled in after its limits were
  compared: `{maxStartsPerActivation: 2}` alone is accepted and its export is
  refused (`config.ts:830-833, 991-1010`). `ExportsReadBack` names this exception.
- Narrowing takes the smaller value of each limit by itself, so a Strategy may
  be compiled with limits that `graph.ts` refuses to materialize.
  `StrategiesBecomeGraphs` names this exception.
- A file that is written in place may be loaded as the beginning of a version,
  and two files may be of different moments. `ResourcesAreWhole` is about one file.
- A row that loses the owner of its settings hears of no change until the next
  event it does hear of; a section that cannot be used ends its listening; a
  failed registration leaves the guidance of the former tool.
  `PublicationIsCurrent` is about changes that are announced.

## Not modelled

Interaction of several runs in one journal (none exists in the gate); the JSONL
reader and the inspection views (no state of their own); the validation of Host
responses (pure checks of single values); the construction of environments,
attempt bindings and dispatch orders (immutable records, digests and a sort:
the attempts of `LegionJournal` carry the binding as one field); the schemas of
`orchestration-contract.ts`, renderings (`explain.ts`, `prompt.ts`, guidance
texts), constants (`default-catalog.ts`), the command line, the settings form
and the markup of the overlay; `parseToolArgs`; the disposal of the client
model; the scripts of the repository. `appendLegionEvent` trusts the state its
caller passes; the models append against the current projection, as the ports
are required to.

## Plan

The model is complete as far as *Not modelled* says, and every safety property
that the runs check is proved, but for the tables. What could follow:

1. The rest of `TablesHold` and `ReceiptTablesHold` for all inputs: layers,
   documents, the reports and the choices of the overlay.
2. Stronger statements where a proved invariant already carries more than the
   property asks: what a recovery may leave running, what a feed owes a follower.
3. Several runs of one Session in one feed, with the observer of each.

No module to be proved about declares a recursive operator: recursion is written
with recursive functions, and sums with `Totals`.
