# Aadesh in TLA+

TLA+ models of the governance core of Aadesh and of the layers around it: how a
request becomes an operation, how an operation waits for its owner, how an approved
side effect is executed and recovered; the queue and ingest tables; the registry of
capabilities and what is composed over it (workflows, interfaces, replays); and the
memory of claims with the connector that feeds it. TLC checks the models on small
instances; TLAPS proves every invariant of the passing runs for every size of the constants;
what it cannot reach (liveness) stays with TLC.

Paths below are relative to `src/crates/`: *storage* is
`adesh-storage-sqlite/src/storage.rs`, *queue* is `adesh-storage-sqlite/src/job_queue.rs`,
*routes* is `adesh-daemon/src/http/routes.rs`, *cognition* is
`adesh-daemon/src/cognition.rs`, *connector* is `adesh-daemon/src/connector_adapter.rs`.
`PROJECT.json` maps each definition to its lines.

## 1. The system

One daemon process (axum handlers on a tokio runtime, plus one recovery task that
ticks every 500 ms) over one SQLite database. Handlers share no memory that matters
to correctness except the rate limiter; they interact through rows. A storage
method is one transaction; a handler is a *sequence* of storage methods with model
and tool calls between them, and it ends early on the first error. A dropped
connection drops the handler's future between two awaits; a restart drops all of
them. Nothing undoes the steps already taken. The memory of claims is also written by
other processes (MCP server, wrappers, command line, connectors), each with its own
connection to the same file; there a merge is a sequence of single statements.

| component | state | operations | hard behaviour | what makes it correct |
|---|---|---|---|---|
| Request intake (`routes::submit_request`) | `experience_events`, `operations`, `operation_transitions`, `idempotency_keys`, `gate_decisions`, `compiled_slices`, reasoning events, `approval_items` | POST /v1/requests, cancel | concurrent retries under one key, second key for one request id, handlers that stop half-way, cancellation between any two steps | one operation per request id; one approval item per operation; one answer per key; an outcome has its audit anchors; a waiting operation can be decided |
| Approval and execution (`decide_approval`, `consume_approval_atomic`, `execute_permitted_syscalls`) | `approval_items`, `syscalls`, `operation_leases`, `idempotency_keys` | approve, deny, replayed decision, recovery tick | crash between claim, tool call and settlement; lease that lapses under its runner; retries of the tool; recovery racing handlers | no side effect without its records; one runner at a time; bounded attempts; outcome agrees with the syscall; permitted syscalls are claimed |
| Out-of-band challenges | `oob_challenges` | start, verify, spend | expiry between verify and spend, two decisions with one challenge, refusal after the spend | single use, own approval, in time, given back on refusal |
| Job queue | `jobs` | enqueue, lease, ack, fail, cancel | late and repeated reports, worker restarts, last attempt, dedupe | one live job per key, failures count once, bounded leases, settled is final |
| Ingest jobs | `ingest_jobs` + `jobs` | create, cancel | two tables in two transactions, retries | accepted means queued, cancelled means not queued |
| Capability registry and review queue | `schema_registry_entries`, `capability_snapshots`, `current_versions`, `review_queue_items` | register, mint, propose, apply, reject | activation while approvals wait; ignored inserts | references resolve, approvals stay consumable, only reviewed versions are pinned |
| Kernel gate (`kernel.rs`) | none | `compile_and_verify_stub` | what it decides must still fit when the approval is consumed | blocked / draft / approval as the request and the pinned descriptor say |
| Rate limiter (`http/mod.rs`) | timestamps per key | `allow` | clock that steps back, window boundary | at most N per window |
| Workflow instances | `workflow_specs`, `workflow_instances`, `workflow_instance_transitions` | register, create, cancel | cancellations with an outdated state | an instance ends once, its trail agrees with its state |
| Interface instances | `interface_specs`, `interface_instances` | register, create | copies pins and a gate over several reads | shows what its one subject was stored with |
| Replay dry run | an operation row without anchors | create | source still moving | a replay is over from the start and never acts |
| Memory (`store_work_episode`, `upsert_memory_claim`) | `episodes`, `experience_events`, `claims`, `claim_evidence`, `search_documents` | store an episode; merge, supersede, promote, resolve claims | separate statements without a transaction, several processes, stops half-way | no signal is lost or counted twice; accepted claims do not contradict each other; what is said of a claim is true |
| Guidance (`prepare_task_context`) and connector events | `intervention_context`, `intervention_outcomes` | task start, checkpoint, task end | several listings while claims move, repeated events, unknown contexts | guidance does not contradict itself; an outcome is learned from once |
| Evaluation runs | single rows | store, list | none of note | - |
| Model and tool providers, CLI, MCP, wrappers, auth, websocket, UI | none that is shared | pure functions and I/O | - | - |

The order of dependence is: intake creates what approval decides; approval (with a
challenge where required) permits what execution claims; recovery claims what a lost
handler left; the registry supplies what both compile and consume look up; workflows,
interfaces and replays pin or copy what the registry and the operations hold; ingest
uses the queue; connector events feed the memory that later task starts read.

## 2. Modules

| module | models | composes |
|---|---|---|
| `OperationStore` | rows shared by intake and execution, `update_operation_state`, `cancel_operation` | |
| `RequestIntake` | `submit_request`, one action per storage step | extends `OperationStore` |
| `RequestIntakeProofs` | theorems about it | |
| `ApprovedAction` | the promise: undecided, denied or approved, attempted, succeeded or failed; calls only while attempted and at most `MaxCalls` | |
| `ApprovalExecution` | decision, lease, run, recovery, faults | extends `OperationStore`, implements `ApprovedAction` |
| `ApprovalExecutionProofs` | theorems about it, and the refinement of `ApprovedAction` within the lease | |
| `OperationLifecycle` | intake and execution over the same rows | instances of both |
| `OperationLifecycleProofs` | theorems about it, and the refinement of `ApprovedAction` within the lease | instance of `RequestIntakeProofs` |
| `ApprovalOob` | challenges and the decisions that spend them, with a clock | |
| `ApprovalOobProofs` | theorems about it | |
| `JobQueue` | the `jobs` table and its workers | |
| `IngestJobs` | create and cancel of ingest jobs | extends `JobQueue` |
| `JobQueueProofs` | theorems about `JobQueue` | |
| `IngestJobsProofs` | theorems about `IngestJobs` | extends `JobQueueProofs` |
| `CapabilityRegistry` | schemas, snapshots, reviews, and operations from pinning over the kernel's gate to the decision of their approval | |
| `CompositionLayer` | workflow and interface instances, replay dry runs | extends `CapabilityRegistry` |
| `CompositionLayerProofs` | theorems about it and the registry | |
| `ClaimMemory` | episodes and the claims made of them, statement by statement | |
| `ConnectorMemory` | task starts with their guidance, checkpoints, task ends, outcomes | extends `ClaimMemory` |
| `ConnectorMemoryProofs` | theorems about it and the memory | |
| `MC*` | instances for TLC | |

Conventions. A row with a fresh uuid is named by the invocation that inserted it. A
handler is a record of its program counter and the locals it still needs. Refused
calls and replays of a stored response change no row, so they appear only where the
handler goes on afterwards. Reads and writes in one transaction are one action;
anything the code does in two calls is two actions. Definitions whose comment
starts with "Variant" are plausible mistakes that are not part of the
specification: each shows that some property would notice the mistake.

### How state and actions correspond to the code

* `RequestIntake`: `submit[r].pc` is where invocation `r` of `submit_request` stands:
  `load` (bundle stored or replayed, operation about to be read), `gate`, `slice`,
  `generate`, `finish`, `promote`, then an answer. `AcceptSubmit`, `ReplaySubmit`,
  `RejectSubmit` are the three ways `create_operation_bundle` ends. `PutAnchor` has the
  UNIQUE constraint of `gate_decisions` and `compiled_slices`, whose failure ends the
  handler with a 500. `UpdateOperationState` has **no** guard on the state it leaves,
  as in the code. `AbortSubmit` is a storage or model error, a dropped connection or
  the end of the process.
* `ApprovalExecution`: `runner[d]` is one decision handler or the recovery task. A
  decision is `ReplayDecision`, `Approve` or `Deny`; then `AcquireLease` /
  `LeaseRefused`, `ReadSyscall`, `ClaimSyscall`, `CallTool` (success, an answer that
  allows a retry, final error, and the tool may have acted in each), `SettleSyscall`,
  `FailSyscall`, `FailOperation`, `InspectOperation`, `CompleteOperation`,
  `ReleaseLease`. `StorageError` leaves the run by `?` and releases the lease (in the
  recovery task it also ends the tick: `EndTick`),
  `DropConnection` drops a handler without releasing, `Crash` drops everything but rows.
  `calls` counts how often the outside world saw the action.
* `ApprovalOob`: each endpoint is one transaction; `clock` is `Utc::now`.
* `JobQueue`: `tickets` are the leases a worker was handed and may report on, late or twice;
  a restart forgets them. `leased_until` is stored and never read, so it is not state. A
  worker may ask for any job or for those of one type (`Filters`). `failures` and `enqueued`
  are history (the latter is the order of `created_at`).
* `IngestJobs`: `creator` and `cancel` are the two handlers, each of which writes
  `ingest_jobs` and `jobs` in separate transactions.
* `CapabilityRegistry`: a payload stands for the hash that names it; of a snapshot
  only the schema its `email/send` action refers to, and whether that action supports a
  diff, is kept. An operation goes through `PinVersion` (the bundle), two `PutAnchor`
  (gate decision and slice), `FinishCompile` (the kernel's outcome) and `ConsumeApproval` or
  `DenyApproval`. A request is what the kernel looks for in it. `cancel_operation` is
  left to `RequestIntake`: it touches nothing the registry's properties are about.
* `CompositionLayer`: `workflow[w].trail` is `workflow_instance_transitions`. A cancel
  handler reads the instance in a transaction of its own, so the expected state it passes
  is any state of the trail. `ShowOperation` and `ShowWorkflow` are the two branches of
  `create_interface_instance`; they are one action each because none of the rows they read
  changes once it is there. `CreateReplay` stores an operation row that is completed, under
  the pins of its source, without anchors. `source` is history.
* `ClaimMemory`: `storer[p]` is a process inside `store_work_episode`: the tasks left
  (`todo`), and of the task at work the writes left (`writes`), each of which goes through
  `WriteRow`, `ClearEvidence`, `InsertEvidence` for each ref and `ReturnClaim`, as
  `upsert_memory_claim` does without a transaction. The evidence of a claim is a set of
  refs: the event and each artifact of an episode are rows of their own, and an artifact may
  be shared, so that a storer can be refused a row another one has just put (it then can
  only stop). `PlanSignal` computes the writes of one merge from its listing; for a global
  preference the number of workspaces is a second reading, so there it prepares both
  outcomes (`plans`) and `CountWorkspaces` takes one of them. What the code reads after that
  is what it has just written, or rows of its own listing, which it does not read again.
  `StopStoring` is the end of the process or an error that is passed on. `disturbed` counts
  overlaps and stops.
* `ConnectorMemory`: `host` is one task start: `StartTask` settles which tasks are related and
  so the listings to make, `ListClaims` makes one of them, `FindContexts` and `CountOutcomes`
  read the outcome profile, `AnswerTask` selects from what was read, `StoreContext` keeps what
  was surfaced. `call[p]` is one checkpoint or task end (`ReportEvent` stores the episode,
  `LinkContext` looks the context up, where a failed lookup counts as an unknown context,
  `StoreOutcome`).
  The rank of a claim is a sum over words, files, dates and outcomes: any order.

## 3. Runs

| run | instance | shows |
|---|---|---|
| `intake` | 3 invocations, 1 key, 2 request ids, 1 abort | `OneApprovalPerOperation`, `GateAdmitsOne`, `OutcomeIsAnchored`, `OneAnswerPerKey`, `OneOperationPerRequestId` |
| `execution` | 1 operation, 3 decisions and the recovery task, 1 key, 2 attempts, 2 errors, 1 overrun | `PermittedIffConsumed`, `OutcomeMatchesSyscall`, `OneRunnerPerOperation`, `CallsAreBounded` |
| `lifecycle` | 2 invocations of 1 request id, 2 decisions and the recovery task, 2 attempts, 1 abort, 2 errors | `OneSideEffectPerRequest`, `SendsAreAnchored`, `WaitingIsDecidable`, and `ImplementsApprovedAction` |
| `lifecycle_fair` | 2 invocations of 1 request id, 1 decision, 1 abort, 1 error, no symmetry | `CreatedIsLeft`, `PermittedIsClaimed`, `RunningIsLeftUnlessFault` |
| `oob` | 3 approvals (2 with a challenge), 3 challenges, lifetime 1, 3 ticks | `OnePerApproval`, `SpentInTime` |
| `composition` | 2 schemas, 2 names, 3 snapshots, 2 review items, 2 operations, 3 requests, 1 workflow, 1 interface, 1 spec of each | `CompositionTypeOK`, `ReferencesResolve`, `ApprovalsStayConsumable`, `PinsAreReviewed`, `WorkflowsEndOnce`, `InterfacesAgree`, `ReplaysStayDry` |
| `memory` | 2 storers, 2 workspaces, 1 task, 4 statements, 3 artifact refs, 6 events, 3 episodes and a task start, or 2 of each, 1 overlap or stop | `AcceptedAgree`, `SignalsAreKept`, `ClaimsAreProven`, `GuidanceIsConsistent`, `LearnedOnce` |
| `queue` | 2 jobs of 2 types, 2 workers, 3 attempts, 1 restart | `OneLiveJobPerKey`, `FailuresCountOnce`, `LeasesAreBounded`, `SettledIsFinal`, `LiveIsSettledUnlessOrphaned` |
| `ingest` | 3 creates, 2 cancels, 1 worker, 1 fault | `CancelledIsNotQueued`, `AcceptedIsQueued` |
| `replay_conflict` | as `intake` | violated: `ReplayIsAnswered` |
| `stuck_execution` | 1 operation, 1 decision, 1 error, fair | violated: `RunningIsLeft` |
| `lost_worker` | 1 job, 2 workers, 1 restart, fair | violated: `LiveIsSettled` |

The runs `execution`, `ingest`, `composition` and `memory` also check a type invariant;
the types of intake and of the challenges are theorems.

**Why the bounds are enough.** Intake: a first attempt, a retry and a stranger with another
key or id are the three roles; the gate admits one, so more invocations only repeat the role
of the loser (and the theorems cover any number). Execution: the approving handler, its
replay, a contradicting decision and the recovery task; two attempts tell a first from a
last attempt; two errors allow a fault while another is recovered from; one overrun lets a
second runner in. One operation suffices for execution because leases, syscalls and
approvals of different operations share no row; the one thing they share is the list of a
recovery tick, which is worked through one operation at a time, given up at the first error
(`EndTick`) and read again by the next tick, so a second operation only delays the first.
That delay is not in a run; the theorems hold for any number of operations. The life cycle
needs two decisions, so that a second approval item, if there were one, could be approved
too. The out-of-band run has two competing approvals and a challenge more than either needs;
lifetime 1 and three ticks include start, verify and spend on every side of the expiry. The
queue has three attempts so that first, middle and last failure differ, and two jobs so that
a key can pass from one to the other; each has a type of its own, so that a filter tells
them apart. The composition has a name too few for its schemas once a second one is
registered under it, a second snapshot with the action (so that the pinned and the current
descriptor differ), one without it, a request that is refused, one that waits and one that
is a draft; two operations are an original and its replay, or two that pin different
versions. No snapshot of the instance has a send action without diff: that refusal is
covered by the theorems. One workflow and one interface suffice because instances share no
row; the theorems cover any number. The memory has three episodes: two that contradict each
other (directly, or by common words) and one between or after them; a preference stated in
two workspaces is promoted; a test that fails opens a loop that a later episode resolves,
whose summary sounds like a decision against a preference; a preference stated explicitly in
one workspace is inferred from a summary in the other (a claim counts such statements too).
A second task start reads what was learned of the directions of the first. Of the artifact
refs one is deterministic and sorts before the events, the others after them, and one is
shared by two episodes and one by all events that name a context or direction, so that
storers that overlap meet on them. Events with the given, an unknown and no context are
reported, each as often as the episodes allow. One disturbance puts every overlap and every
stop between any two statements; more of them only lose more counts. Two guidance items per
list let one be suppressed and another fill up.

All bounds are constants: `MaxAborts`, `MaxFaults`, `MaxOverruns` (runs that outlive their
lease), `MaxCrashes`, `MaxTime`; `RetryAttempts`, `MaxAttempts`, `BatchLimit` and `Lifetime`
are parameters of the code; `MaxEpisodes`, `MaxStarts`, `MaxEvents` (both together) and
`MaxDisturbances` bound the memory, `MaxGuidance` is its `MAX_GUIDANCE_ITEMS`. Deadlock is
not checked in any run: a system in which every request was answered and every bound used up
really stops.

**Fairness.** Weak fairness of each handler's next step (the runtime polls every task
that is not dropped), of the recovery task (the interval ticks), of time passing (a
lease expires, a job becomes due), of some worker asking for jobs, and of a worker
reporting on a lease it remembers and that is still valid. No fairness of decisions,
cancellations, aborts, faults or restarts.

## 4. Proofs

`RequestIntakeProofs`, `ApprovalExecutionProofs`, `OperationLifecycleProofs`,
`ApprovalOobProofs`, `JobQueueProofs`, `IngestJobsProofs`, `CompositionLayerProofs` and
`ConnectorMemoryProofs` are checked to the last leaf, for arbitrary constants under
`NoRowAssumption`, `IntakeAssumption`, `ExecutionAssumption`, `LifecycleAssumption`,
`OobAssumption`, `QueueAssumption`, `IngestAssumption`, `RegistryAssumption`,
`CompositionAssumption`, `MemoryAssumption` and `ConnectorAssumption`
(distinct null values, bounds that are naturals, the bootstrap rows
among the rows, `OobRequired \subseteq Approvals`, reported work that is well formed, a
polarity for every statement).

* `TypeCorrect`: each action preserves `IntakeTypeOK`; three lemmas cover the helpers
  (`RecordState`, `Goto`, the start of a handler).
* `GateCorrect`: `GateAdmitsOne` is inductive with the types. Its parts need each
  other: one invocation per operation is past the gate *because* the row is there
  before anybody passes; an approval item exists only for an operation whose gate row
  is there and nobody but its inserter has been past it. The lemma `SteppingBack`
  covers steps of a handler that is before the gate or leaves, `SteppingOn` those that
  move on behind it; only `PutGateDecision` and `CreateApprovalItem` need an argument
  of their own.
* `OneApproval`: who inserts a second item would be past the gate of an operation that
  has one, which `GateAdmitsOne` excludes.
* `OneOperation`: strengthened by `RowsUseUpIds` (the request id of every operation has
  its event), so the primary key refuses a second.
* `OneAnswer`: strengthened by `HandlersFollowKeys` (every started handler with a key
  works on the operation stored under it, which never changes).
* `OutcomeAnchored`: strengthened by `TraceIsStored` (who is past a step has stored the row
  of that step) and `AnchorsGrow` (no row is taken back): whoever writes an outcome has the
  three rows behind it, and whoever finds one keeps it.
* `ApprovalExecutionProofs` goes in four layers, each inductive with those below it.
  `RowInv`: the types, what the runners carry, and that a syscall is permitted exactly for a
  consumed approval. `ResultInv`: a runner about to write an outcome has seen the syscall
  end that way, and an outcome that is shown agrees with it; runners that overrun and
  cancellations included. `LeaseInv`: while no run outlived its lease, every runner under a
  lease holds the live one, whence `OneRunnerAtATime`. `CourseInv`: within the lease, the
  status of the syscall is the one the runner's place implies, so the counted calls are
  those of its attempts. From the last, `ExecutionRefinesApprovedAction`: each step maps
  to a step of `ApprovedAction` or a stutter while no run outlives its lease.
  `CallsStayBounded` speaks of runs that do outlive it. It counts attempts that may still be
  made (`Spare`: attempts of runners under way on a syscall they may claim or have claimed)
  beside the calls that were made: together they are at most `RetryAttempts` for one run and
  as many again for each that outlived its lease. A call takes one of the spare attempts
  away, and nothing adds one once the syscall is claimed.
* `OperationLifecycleProofs`: the execution half does not assume its own `Init` there, so
  what it needs is stated anew: `RecordsInv` and `RunnersKnow` (a syscall has its consumed
  item and its transition; who runs one has an anchored operation). The half of intake
  takes its step lemmas from `RequestIntakeProofs` as an instance. Two facts tie them:
  `StoreMoves` (what a decision or a runner may do to shared rows) keeps all that intake
  knows, `RowsGrow` (what intake may do) all that the runners know. `OneSideEffect` then joins
  both: two syscalls of a request id belong to items of one operation, which has one.
  `WaitingInv` needs that a handler past the gate never meets its operation waiting.
  `LifecycleRefinesApprovedAction` carries the refinement over to the shared rows, by a
  `CourseInv` of its own: the syscall a runner works on belongs to its operation (`Carries`),
  and within the lease the runner holds the live one (`HoldsLive`) and finds the syscall
  where it left it, with each act of the tool counted (`Follows`). Two runs under a lease
  are then on different operations and so on different syscalls (`RunsAreApart`), so what
  one does keeps the course of the others. Intake only inserts pending items, which show
  nothing (`IntakeShowsNothing`), and leaves the items that runners work on as they are.
  The theorem assumes `faults.overruns = 0` throughout, as the run `lifecycle` does; the
  runs that do outlive their lease are the subject of `CallsStayBounded`.
* `OobTypeCorrect`, `OnePerApprovalHolds`, `SpentInTimeHolds`: one invariant `OobInv`,
  the two properties, the types, and that a verified challenge was verified in the past.
  `ApproveOob` is the case with content: its approval was pending, so by the
  equivalence in `OnePerApproval` no challenge of it was spent.

* `JobQueueProofs`: `QInv` says that a row that is not there is bare, that the lease epoch
  is the number of attempts, plus one while (or after) a lease was not reported as failed,
  and that the counted failures are epochs up to the present one. `StepOfJob` reduces a
  step of the queue to what it makes of one row (untouched, inserted, made due, leased,
  ended, failed); each part of `QInv` then needs one case per kind. `LeasesAlwaysBounded`
  follows because a job with attempts left has at most one epoch more than attempts;
  `OneLiveJobAlways` because an insertion looks for live rows in its own transaction;
  `SettledStaysFinal`, an action property, because no kind of step but the first applies to
  a settled row.
* `IngestJobsProofs`: each step of the composition is a step of the queue or leaves it alone,
  so `QInv` carries over; with it go that a queued job has its own key (`OwnKeys`), what each
  handler has already done (`HandlersKnow`), and that a cancel settles the row in the queue
  before it marks the job (`CancelSettles`), which is the order `CancelledNeverQueued` needs.
* `CompositionLayerProofs`: `IInv` joins the seven properties. They need each other: an
  approval stays consumable because its diff was taken from the pinned snapshot, pinned
  snapshots are minted, minted ones have their schemas stored, and stored schemas stay
  (`SchemasStay`, `SnapshotsStay`). An interface agrees for ever because a subject that
  is anchored is never changed again in what the interface copied (`UntouchedOperation`,
  `StepOfOperation`, `StepOfWorkflow`). A replay stays dry because a completed operation
  without anchors has no step. There is one "...Stay" lemma per property and one step
  per action in it.

* `ConnectorMemoryProofs` holds for any work that events may ask for, any ranking, any
  number of storers and any relations between statements. It has four invariants.
  `MemoryInv` and `ConnectorInv` are the types, with what a storer carries from statement to
  statement; from them `LearnsOnce`: the key under which an outcome is stored is a function
  of what was surfaced. `GuidanceOK` is for `GuidanceStaysConsistent`: what a list of
  guidance shows was considered one by one against those shown before it and the statements
  that are withheld (`Apart`), so that decisions and preferences agree together (`Agree`).
  `ProvenInv` is for `ClaimsStayProven`, overlaps and stops included: a row, stored or still
  to be written, counts no more signals than those of its statement that some storer has
  begun (`Made`), and its id is that of a signal of its own statement (`Names`), so that no
  two storers insert under one id. A row written back from an earlier reading can only count
  less. Between the two readings of a global preference both plans are right, the accepting
  one under the answer it presumes (`RowOK` with the statements so `Taken`). `TurnsInv` is
  for storers that take turns (`disturbed = 0`). One merge is spread over many statements,
  in whose middle the tables do not agree with each other; what agrees are the *final* rows:
  those of the table that the storer at work will not write any more, and those it has still
  to write (`Standing`, `Coming`). Of these each statement has one, accepted ones do not
  contradict each other, each counts the signals begun for it and has their events and
  artifacts as evidence, and each signal that was begun has its row (`Single`, `AllAgree`,
  `AllCounted`, `AllThere`). The writes of a plan leave the final rows as they are
  (`FinalsStay`); only `PlanSignal`, `CountWorkspaces` and `PlanResolve` move them (plans
  that wait for the second reading still fit the claims then: `PlansFit`), which is where
  reconsidering, superseding and merging are argued about. When nobody is at work the final
  rows are the table, whence `AcceptedStayAgreed` and `SignalsStayKept`. `CallsFollow` ties
  the connector to it: only a call that is storing has a storer at work. `MemoryKeepsTurns`,
  `MemoryIsProven` and `MemoryTypesStay` say the same of hosts that are not the connector.
  `FlattenSeq`, `SelectSeq` and the folds are reasoned about through the set of the numbers
  at which a claim about them fails, which has a least element (`LeastElement`).

Only model-checked: all liveness, which is out of the prover's reach under fairness.
`ApprovedAction` promises safety only, so both refinements are proved. The proofs say nothing
of `ClaimMemory` beyond the limit of its listings, which it does not model, and count calls
under overruns for `ApprovalExecution` alone.

## 5. Where the code and its documents differ

Three are shown by a run:

1. `replay_conflict`: a repeated POST that arrives while its operation is still
   `created` runs the pipeline too, and loses at the UNIQUE gate with a 500;
   `storage_semantics_txn.md` 4.3 asks for the stored response "without executing".
2. `stuck_execution`: recovery lists syscalls that are `permitted`; after a fault behind
   the claim, or before the last state update, an operation is `running` for ever;
   6.2 asks to retry safely or to mark as failed.
3. `lost_worker`: nothing reads `jobs.leased_until`; a job whose worker was restarted
   stays leased and blocks its dedupe key; 10.1 asks for at-least-once delivery.

Others were met and are in the models as the code has them, without a run:

* `update_operation_state` overwrites any state, so a submit handler or a runner that is
  under way replaces `cancelled` by its own outcome, although `cancel_operation` itself
  treats terminal states as final.
* A run that outlives its 30 s lease (it is never renewed) lets in a second runner, and
  the claim does not compare the status it read: `OneRunnerPerOperation` is stated
  for runs within their lease, `CallsAreBounded` counts overruns.
* A retry after a lost answer may act twice; the actuator is given the syscall id as
  its idempotency token and has to tell.
* An operation whose handler is dropped behind the gate, before its outcome, stays in
  `created`: recovery looks for permitted syscalls only, and every repeated POST meets the
  UNIQUE gate and fails with a 500. `CreatedIsLeft` excuses exactly these operations.
* An activation is applied without comparing the item's `base_version`;
  `storage_semantics_txn.md` 2.3 asks for a conflict if it is not current.
* A schema whose name and version are taken is answered with a reference that was never
  stored; a snapshot that refers to it is then refused.
* A create of an ingest job repeated under its key after the job was settled enqueues the
  same id, meets the primary key and writes `failed` over its status;
  `ingestion_pipeline_spec.md:175-177` asks for "job state unchanged".
* A preference is accepted for the user everywhere once two workspaces have it, after two
  signals (cognition:1621); `fact_ledger_and_reflection_claims.md:148` asks for three.
* An accepted claim may be superseded by a row that itself ends as a candidate: the claims a
  new row contradicts are superseded one by one until one withstands
  (cognition:987-999; `MEMORY_CONTRACT_VNEXT.md:155,178`).
* A workspace preference is accepted after one explicit signal if its episode has any
  artifact ref, and what a connector event says of itself is turned into such refs.
* A repeated checkpoint or task end stores a second episode and counts every signal in it
  again; only the outcome has an idempotency key.
* Two storers at once can lose a signal, leave a claim without part of its evidence, or
  bring back what the other had superseded: `supersede_claim` and `upsert_memory_claim` write
  back what they read earlier. `AcceptedAgree` and `SignalsAreKept` are therefore stated,
  and proved, for storers that take turns, `ClaimsAreProven` for all.
* `list_memory_claims` applies its limit before it filters by status and type, so with more
  than 100 claims in a scope a statement may not find its own claim. The instances stay
  below the limit.
* A request for an interface that names an operation and a workflow is taken as one for the
  operation, although the error of the same handler says "exactly one" (routes:2318).
* An interface of a workflow combines the pins of the workflow with the gate of its parent,
  which may have pinned another version.
* A replay of an operation that is still moving, or has no outcome yet, is stored as
  completed (`storage_semantics_txn.md:398-407` lists the reasoning output among what a
  replay needs).
* A failed approval persists no denial event (`storage_semantics_txn.md` 7.3).

## 6. Not modelled

Formatting of events and audit timelines, payload validation (one outcome), tokens and
headers, the text of errors, websocket events (nobody reads them back), full-text
search, the words of statements (relations `OverlapPairs`, `CommonPairs`, `AlikePairs` stand
for the measures of words two of them share), the scores that rank claims, evaluation runs,
and the components listed as `not_modelled` in `PROJECT.json` with their reasons. The rate
limiter is one critical section of one call: its hazard is the comparison that keeps an
entry for one second longer than the window, which a model could only restate. CLI, MCP
host and wrappers share no state with the daemon but the memory, and reach it through
`store_work_episode` and `prepare_task_context`, which are modelled. SQLite is taken to
serialise transactions.

## 7. Plan

1. The bound of `CallsStayBounded` for the whole life cycle, where cancellations and late
   submit handlers move the same rows.
2. The memory beyond the limit of its listings, as a run of its own.
3. Ingest items and artifacts, once the repository contains the worker that writes them.
