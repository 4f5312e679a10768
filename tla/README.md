# Formal models of AI-Platform

This directory holds TLA+ models of the protocols of AI-Platform that must
survive crashes, lost leases, lost answers and concurrent processes:

* the *durable execution path*: an agent runs tools with real side effects
  (capability ledger and worker, Runtime ownership, the Gateway's run capacity);
* the *knowledge index*: documents are ingested, published to two stores,
  retrieved and moved to another embedding model while queries go on.

It contains the modules, the TLC configurations that check them on small
instances, proofs checked by TLAPS, and `PROJECT.json`, which ties every
definition to source lines, every property to a mutant that breaks it, and lists
components, hazards and findings.

Paths below are relative to the repository root. `K` abbreviates
`rust/agent-runtime-overlay/kernel-rs`, `W` the capability worker
`K/ai-platform-capability-worker/src`, `A` the Agent Runtime
`K/ai-platform-agent-runtime/src`, `KS` the knowledge service
`apps/knowledge-service/src/knowledge_service`.

## 1. The system

A user's message becomes a *turn*. The **Gateway** (Python,
`src/services/agent_runtime`) authorises it, issues a snapshot, a run row and a
model lease, and posts the turn to an **Agent Runtime** process (Rust, `A`). The
Runtime claims the run with a fence, drives the vendored codex **Core**, and
journals every dynamic tool call. A call goes to the **capability worker**
(Rust, `W`), which records it as an *execution* in PostgreSQL, runs it in a task
of its own and appends its events. Any of these processes may die; another one
recovers from the database. How many runs execute at the same time is bounded by
slots of each Gateway process and by sets in Redis.

The **knowledge service** (Python, `KS`) keeps the text of a dataset in
PostgreSQL and its vectors in Qdrant. Workers claim documents from a durable
queue and publish them to both stores; no transaction spans the two, so a
publication hides behind a *fence*: `datasets.content_revision` is negative while
the stores may disagree. Retrieval reads under that fence. An embedding migration
builds a second Qdrant collection beside the one in service and flips the dataset
to it.

### Inventory

| Component | State | Operations | Hard behaviour | Correct when |
|---|---|---|---|---|
| Execution ledger (`database/baselines/.../init.sql`, `database/migrations/.../004_runtime_durable_recovery.sql`) | execution rows, fence, worker lease, receipt, event log, approvals | reserve, dispatch, append event, renew, cancel | two writers per row, idempotent event ids, expiring leases | a write happens at most once, and what is reported is true |
| Capability worker (`W/http_service*`, `W/postgres_store.rs`) | tasks, one slot, cancellation tokens | create, cancel, `run_execution`, heartbeat, recovery loop | crashes between transactions, duplicate tasks, stale scans | every dispatched write is resolved, none repeated |
| Executors (`W/*_capabilities.rs`, brokers) | receipts | run a read or a write | outcome unknown | failure is claimed only where nothing happened |
| Execution ownership (`A/postgres_store/execution.rs`, `A/http_service/recovery.rs`) | owners with fence and lease, invocation journal | claim, assert, heartbeat, take over, recover | stale owners, takeover races | only the current owner extends a turn |
| Turn handling (`A/http_service/{turns,capability_dispatch,projection,thread_lifecycle}.rs`, `A/platform_lifecycle.rs`) | rollout history, lifecycle receipts, sticky write failures | start, call, complete, abort, interrupt | appends that fail silently, terminal events | success means the history is complete |
| Gateway run ledger (`src/services/agent_runtime/control`) | run status, model lease | issue, start, complete, fail | non-atomic close, races with the Runtime | a closed run stays closed |
| Approvals (`A/approval_control.rs`) | approval rows, waiters | wait, decide, reconcile after restart | decision racing a cancel | one decision, consumed once |
| Capability client (`A/capability_execution.rs`) | none durable | create, poll, cancel and confirm | lost create reply | the Runtime's view agrees with the ledger |
| Run capacity (`src/core/gateway/admission.py`, `lua_scripts.py`, `src/services/agent_runtime/control/capacity.py`) | local counters and queues, Redis sets with expiry, leases, watches | acquire, renew, dispatch, watch, stop, quarantine, release | lost start answers, expired members, several releasers | no slot is leaked, none is given twice, work in progress keeps its slot |
| Quota and billing | reservations | reserve, settle | double settlement | nothing is charged twice |
| Resilience helpers | breaker, idempotency keys | call, retry | half-open races | one probe; one result per key |
| Ingestion and publication (`KS/services/knowledge/{worker,ingestion_service,special_publication}.py`, `KS/persistence/{database,datasets}.py`) | document status, pipeline executions, publication lock and fence, backups, manifests | enqueue, claim, publish, roll back, recover | two stores without a transaction, crashes, two recoverers | an open fence serves one generation, and no generation is lost |
| Retrieval (`KS/services/knowledge/retrieval_service.py`) | result caches | retrieve, retrieve_with_images_v2, retrieve_batch | reads that overlap a publication | an answer is one complete revision |
| Embedding migration (`KS/persistence/embedding_version_store.py`, `KS/services/knowledge/embedding_migration*.py`) | bindings, migrations, receipts, action jobs, collections | start, backfill, verify, gate, cutover, rollback, abort, reclaim | stale starts, late workers, deferred deletions | the dataset points at one complete collection |
| Local node | local ledger, transport queue | command, ack, replay | reconnects | a command runs at most once |
| Migration authority | applied migrations | apply under a lock | crash mid-way | applied in order, once |

Components interact through the database (shared rows under row locks), HTTP
(create, cancel, start, interrupt) and event streams, Redis (capacity sets) and
Qdrant (points). Nothing else is shared between processes.

`PROJECT.json` lists each component with its status, and the hazards with their
lines. The ones that matter most are: a lease that runs out while a side effect
is on the wire; a recovery that acts on a copy of a row; two transactions that
look like one (reserve + published event, lease revoked + run closed, run closed
+ calls closed); a process that lost its claim and does not know it; an append
that fails while the turn goes on; a publisher that dies between two stores; a
deletion that arrives after its name was given to something new.

## 2. Modules

| Module | Models | Extends |
|---|---|---|
| `CapabilityExecution` | execution ledger and capability worker | standard modules |
| `RuntimeOwnership` | ownership, turns, recovery, the Gateway's closing of runs | standard modules |
| `RunCapacity` | admission, watch and release of runs by Gateway processes | standard modules |
| `PublicationFence` | abstract: what publication promises retrieval | `Integers` |
| `IndexPublication` | ingestion queue, text and special publication, recovery; implements `PublicationFence` | standard modules, `INSTANCE PublicationFence` |
| `FencedRetrieval` | retrieval and its caches, composed with the abstract publisher | `PublicationFence` |
| `EmbeddingMigration` | blue-green migration with its job queue, beside ingestion | standard modules |
| `CapabilityExecutionProofs`, `RuntimeOwnershipProofs`, `RunCapacityProofs`, `FencedRetrievalProofs`, `EmbeddingMigrationProofs` | theorems about the module in the name | that module, `TLAPS` |
| `IndexPublicationProofs` | theorems about publication: types, the lock, the refinement | `IndexPublication`, `TLAPS` |
| `IndexContentProofs` | what the stores hold of a document | `IndexPublicationProofs` |
| `IndexTruthProofs` | what the executions of a document report | `IndexContentProofs` |
| `MC*` | symmetry sets and constant values for TLC | the above |

### CapabilityExecution

*State.* `row[e]` is the row of an execution: status, dispatch fence, whether
the worker lease is in the future, whether a durable receipt is stored, the
identities of its events and the statuses in its log. `appr` is the approval of
a write. `runActive` and `ownerLive` summarise what the dispatch trigger and
`assert_worker_execution_owner` look at. `req` are create handlers, `task` the
`run_execution` tasks, `tokens`/`permit` the cancellation map with `Notify`'s one
stored permit, `scan` the record a recovery loop is working on. `wire` and
`effects` are the outside world: a write that has been sent, and how often it
happened.

*Actions.* Each SQL function and each transaction is one step; between two
awaits of a handler everyone else may move.

| Code | Actions |
|---|---|
| `create_execution` | `Reserve`, `RefuseCreate`, `PublishCreated`, `PublishFails`, `SpawnCreated` |
| `run_execution` up to the claim | `Register`, `CancelWaiting`, `AcquireSlot`, `Dispatch`, `DispatchDenied`, `Adopt` |
| heartbeat task | `Renew`, `RenewLost` |
| `run_execution` under its claim | `AnnounceDispatched`, `AnnounceRunning`, `Operation*`, `AppendTerminal`, `StoreFails` |
| executors | `EffectLands` |
| `recover_executions_loop` | `Scan`, `Reconcile`, `Respawn`, `SkipRegistered` |
| `cancel_execution` | `CancelExecution` |
| Runtime, user, clock | `Approve`, `ApprovalLapses`, `AuthorityEnds`, `CancelRun`, `OwnerLeaseExpires`, `OwnerTakesOver`, `WorkerLeaseExpires`, `Crash` |

*Abstractions.* A lease is a Boolean that may turn FALSE at any time, which
covers every clock. The UUID a task generates as its fence is the task itself;
a task value is used again only when nothing refers to it. Arguments, hashes,
bindings and results are left out: they select which create is refused, and a
refusal is always possible. A `published` row stands for `awaiting_approval`
too, which the worker never writes. An executor is its outcome; *assumed* is that
a definite failure is reported only when nothing happened and nothing will. A
cancel notifies the task in the step of its commit: a permit may be taken any
time later, and a token registered in between belongs to a task that will find
the row terminal.

### RuntimeOwnership

*State.* `own` is the owner row of a run (process, fence, lease in the future),
`journal` the invocation journal, `items` the rollout history of the one thread
modelled, `life` the lifecycle receipts of calls, `events` the terminal events
sent, `run` and `lease` the run's status and authority, `gw` what the Gateway is
doing about it; `cache`, `sick`, `turn`, `closing` are a process' memory.

*Actions.* Start (`IssueTurn`, `StartTurn`, `StartRefused`, `AdmitTurn`,
`StartRejected`, `CoreStarts`), a dynamic call (`CoreCall`, `BeginInvocation`,
`PublishCall`, `DispatchCall`, `RecordResult`, `FinishInvocation`, `CoreOutput`),
the end of a turn (`CoreCompletes`, `AdmitCompleted`, `ProjectFinished`,
`ProjectFailure`, `CoreAborts`), recovery (`TakeOver`, `ReadHistory`,
`RecoverCall`, `FindOutput`, `InjectOutput`, `ResumeTurn`, `RecoveryError`,
`AssertTerminal`, `AdmitTerminal`, `CloseTerminal`, `ReportTerminal`,
`GiveUpRecovery`), the loop's other duties (`CloseExpired`, `ReportClosed`,
`HeartbeatRefused`), the Gateway (`SeeTerminal`, `RevokeLease`, `CloseRun`), and
`InterruptTurn`, `Crash`, `OwnerLeaseExpires`, `AuthorityEnds`.

*Abstractions.* One thread; child threads of subagents are left out. Core is
external: it appends synchronously, goes on when an append fails, and makes one
dynamic call at a time. The worker is external here: it answers a call, and
answers it the same way again (what `CapabilityExecution` is about). A heartbeat
that succeeds keeps the lease in the future and is no step; one that is refused
is. An item carries the fence it was written under; the code has no such column,
it is there for the property. A process runs one turn at a time; in the code a
claim does not wait for a cancelled turn that is still winding down.
`DispatchCall` is one step for the assertion of the fence, the wait for the
approval and the request: the request carries owner and fence and the worker
asserts them again as it reserves the call, so that a claim lost during the wait
is refused there and the guard is right at the request.

### RunCapacity

*State.* `st[r]` is where the start request or the watch of run `r` is; `lease`
is its `CapacityLease`, `inflight` the counter of each Gateway, `members` the
Redis set (the shared key; the tenant key is its restriction to a tenant),
`lost` the leases whose renewal failed and `lapsed` the members that expired,
`ledger` and `announced` the run's row and its terminal event, `work` what the
Runtime does.

| Code | Actions |
|---|---|
| `_acquire_local` | `TakeSlot`, `Wait`, `GiveUp` |
| `CAPACITY_ACQUIRE_PAIR_LUA` | `Admit`, `Reject`, `AskFails` |
| `start_turn` | `Dispatch`, `StartFails`, `PostAccepted`, `PostRejected`, `PostLost` |
| `watch_run`, `stop_run` | `WatchBegins`, `WatchSees`, `WatchTimeout`, `StopReads`, `StopBlind`, `InterruptAcked`, `InterruptFails` |
| `CapacityLease`, `_renew_loop` | `ReleaseShared`, `ReleaseLocal`, `RenewFails`, `Expire` |
| a client's stream | `ClientStream` |
| external | `Arrive`, `Finish` (Runtime), `Crash` |

*Abstractions.* A slot weighs one; the adaptive load shedder only lowers limits.
A successful renewal is no step. A member expires at any time if nobody renews
it, and as a fault if the renewal is late. An interrupt without an answer may have
reached the Runtime and cancelled the run, or not.

### PublicationFence, IndexPublication, FencedRetrieval

`PublicationFence` is the contract: points change only behind a negative
revision; rows also under an open one, which then grows in the same transaction
(the statement triggers); the revision that opens a fence is a new one. One unit
of revision stands for `INDEX_PUBLICATION_REVISION_RESERVE` (10^9) as well as for
the 1 of a trigger: what matters is that open revisions only grow, which holds as
long as the triggers of one unfinished publication stay below the reserve.

`IndexPublication` is the implementation, for one dataset. *State:* the revision,
the holder of the publication lock, document rows with their execution link and
special marker, pipeline executions with the phase of their manifest, the
generations that have points, the durable backups, and the consumers and the
recovery loop as processes. A *text* publication backs up, upserts batch by
batch, commits rows and fence in one transaction, and deletes the backups; on
any `BaseException` it restores and aborts. A *special* publication records a
manifest, freezes the old point ids, upserts a candidate generation, commits the
rows with phase `committed`, deletes the old points and opens the fence;
recovery finishes or undoes it by its phase. Every pair of store calls is
separated, so each of the documents' consumers, the recovery loop, a crash of any
of them, a failed or cancelled call and a lost COMMIT answer can come in
between. `ImplementsFence` is the refinement
`INSTANCE PublicationFence WITH revision <- rev, content <- ...`: points are the
generations in Qdrant, rows the generation PostgreSQL serves.

`FencedRetrieval` composes the three entrypoints with *everything* the abstract
publisher may do; together with `ImplementsFence` its results hold for the
detailed publisher. A request captures the revision, looks its result up under
it, else reads hits and then rows, and compares the revision again. Two requests
of one entrypoint share a cache key.

*Abstractions.* Generation `g` of a document is what its `g`-th execution yields;
parsing, chunking and embedding happen before the lease and are one step. So is
the handler of a failed job (`CloseFailed`), which reads the revision and the
document and writes the execution and the document: what other processes may
change between these calls, they may change before or after the step. What
`_ensure_pipeline_execution` does without a ledger is left out.
`exposed` is a history variable: it names documents whose old generation the code
lost track of (section 6) and which the properties then except, so that they say
exactly what is left.

### EmbeddingMigration

*State.* The corpus (a version per segment), the revision, the dataset's pointer,
Qdrant collections, bindings, migrations, progress receipts, action jobs, the
workers, start requests, a cutover that holds the exclusive lease, deletions that
handlers still have to make. The actions follow the source one transaction at a
time: `Start*`, `Backfill*`, `Collect*`/`VerifyMove`, `Gate*`,
`CutoverScan`/`CutoverCommit`, `Rollback`, `Abort`, `Reclaim`, `Purge`, the queue
(`EnqueueAction`, `Claim`, `FinishJob`, `FailJob`, `CancelJob`, `HeartbeatLost`,
`WorkerStop`, `WorkerCrash`), and ingestion (`PublishBegin`, `PublishCommit`,
`PublishAbort`).

*Abstractions.* A point is the version of the text it was made from, so a digest
is equality; the evaluator of the gate passes or fails at will. Ingestion is the
fenced publication as retrieval sees it, one segment at a time. Edits outside the
publication lease (a document enabled, disabled or archived, `update_segment`) are
left out, so the properties speak of fenced ingestion. A cutover that deadlocks
with another transaction is refused. `ReceiptsHavePoints` speaks of the first
shadow of a name until it is judged; the comment "never a false receipt"
(`embedding_migration.py:850`) claims more than that.

`missed` is a history variable: the segments of which a collection need not hold
the current text. A collection that was never scanned misses everything; the scan
of a cutover, which compares the whole collection, clears it; an edit published
while another collection serves, a page written by a late worker and a deferred
deletion add to it. `ServedMatchesCorpus` says that nothing else is ever stale.
`Unjudged(b)` picks the shadows of which `ReceiptsHavePoints` speaks: the first
of their name, with no migration into them judged yet.

## 3. Runs

Deadlock checking is off except in `retrieval`: finished runs, settled documents
and spent budgets legitimately stop. The one `violation` run shows a disagreement
between the code and its documentation (section 6).

| Run | Instance | Shows |
|---|---|---|
| `write_ledger` | 1 plain write, 2 workers, 2 tasks, 1 create, 1 crash | the eight safety properties of a write |
| `reads_receipts` | 1 read or 1 quiz write (one create picks), 2 workers, 2 tasks, no crash | one life in the log although a read may run twice; success reported from a receipt, and finality against late receipts |
| `resolve` | 1 read and 1 plain write, 1 worker, 2 tasks, 1 crash, fair | an announced write is resolved, an authorised read is resolved |
| `ownership` | 1 run, 2 processes, 2 calls, 2 fences | takeover of a turn with calls in flight |
| `two_turns` | 2 runs, 2 processes, no call, 1 fence | one owned run per thread |
| `run_ends` | 1 run, 2 processes, 1 call, fair | a claimed run ends |
| `run_capacity` | 2 runs, 1 Gateway, limit 1, queue 1, 3 faults, fair | the counter is exact, work keeps its slot, slots come back |
| `publication` | 1 text and 2 special documents, of which 1 may lose a commit, 2 requests, 2 revisions, 1 crash, 2 faults | one generation behind an open fence, none lost, executions tell the truth, the refinement |
| `fence_reopens` | 1 text and 2 special documents, 3 requests, 1 revision, 2 crashes, no fault, fair | the fence opens again, with three exceptions (section 6) |
| `retrieval` | 2 requests of any entrypoint, 2 publications or edits | answers are whole, caches are current |
| `embedding` | 1 segment, 2 versions, 2 starts to one target, 2 workers, 3 jobs, 1 publication, 1 fault | pointer, points, receipts and jobs agree; a cutover serves the corpus |
| `serving_collection` | 1 segment, 2 starts, 6 jobs, no fault | finding 1 |

*Bounds.* `Tasks` bounds the fences of one execution that are referred to at the
same time; two tasks on two workers are the smallest instance in which a claim
is contested, and a task can be used again after it left, so a long sequence of
claims of a read is explored. One execution suffices: executions share only the
slot, and the theorems hold for any number. `MaxCrashes` of the ledger is 1, or 0
in `reads_receipts`: a crash only removes memory, and store failures, which are
unbounded, remove a task's memory at every store call. `MaxFence` = 2 allows one
takeover, with the first owner alive as a stale one. In `two_turns` no takeover
is needed for the race between claims.

With `Limit` = 1 two runs are enough for one to wait, to be woken and to race a
newcomer; three faults allow a failed call, a lost lease and a failed interrupt
in one behaviour. In `publication` one text and two special documents are the
smallest instance in which every kind of publication meets the fence of a text
and of another special document; 2 requests give a republication. `fence_reopens`
needs the second special document, the third request and the second crash: the
text commit opens the fence of a special publication that died, and only then does
the execution of another one that dies find a second owner beside it. With one
special document and one crash that case does not occur, and the property would
hold without its third exception. `MaxRevision` bounds the revision at which
recovery retires a preparation that never got the fence: two special documents may
have theirs retired in turn for ever, each busy while the other's is retired and
each behind a fence of its own, so that without a bound the revisions never stop.
No other opening of the fence is bounded but by the requests.

In `retrieval` two revisions after the first one allow an answer to be stored two
revisions late. In `embedding` one segment
and one page keep the state space small; several segments only add pages, each
with the same two writes in the same order. One fault is enough for two workers
to hold the same job. `ServedMatchesCorpus`, `CutoverServesCorpus` and
`ReceiptsHavePoints` once held in this instance only because it has too few jobs
for a name to be given out twice and a leftover deletion to hit the new
collection; the attempt to prove them showed it, and they are now stated so that
they hold, and are proved, without bounds.

The invariants behind the proofs were model-checked, on instances like those of
the runs, before they were proved.

*Symmetry* is used in safety runs only: workers, tasks, processes, call ids,
requests and what a store holds are interchangeable there.

*Fairness.* `CapabilityExecution!Progress`: a tokio task that can go on does
(weak), an operation ends at its timeout, the semaphore serves waiters in order
(strong fairness of `AcquireSlot`), the recovery loop comes round every five
seconds and looks at every record (strong fairness of `Scan` and `Respawn`, which
other records interrupt), and a lease nobody renews runs out.
`EventuallyStable` says the store does not fail for ever and a lease that is
being renewed does not for ever run out; without it no code could make progress.
It does not exclude that a task is refused its claim again and again, although
that step looks like a store failure (hence `StoreFails(t) => TaskStep(t)`).
`RuntimeOwnership!Progress`: leases run out, and a live process' tasks and its
recovery loop go on. No fairness is assumed of users, of the Gateway, of Core
making or not making calls beyond its own turn's steps, or of takeover.
`RunCapacity!Fairness`: the asyncio loop runs every task that is ready and its
timers go off (the watch has `lease_ttl_seconds`, a waiter its deadline), and a
turn that was posted reaches the Runtime; nothing is assumed of the Runtime
finishing a turn, of clients, or of calls succeeding.
`IndexPublication!Fairness`: consumers go on, the stuck-document pass and the
recovery loop come round; no fairness of users, faults or crashes.
`EmbeddingMigration` states none: whether jobs settle is not asked.

*Mutants.* For each property of a passing run one definition is replaced by a
plausible bug (a dropped guard, a missing idempotent return, an unfenced
dispatch); the module keeps the mutants next to what they mutate, marked
`Mutant`. TLC finds the property violated under the same configuration.

## 4. Proofs

Every safety property that a run checks is also proved: for every set of
executions, processes, documents, requests and so on, and for every bound. What
a run shows on a small instance, the theorem shows for all of them.

| Module | Theorems | State that these always hold |
|---|---|---|
| `CapabilityExecutionProofs` | `TypeCorrect`, `WriteOnce`, `ApprovalFirst`, `CancelIsHonest`, `OneTaskPerWrite`, `FinishedRowsStay`, `OneEnd`, `OrderedLog`, `SuccessHappened` | `TypeOK`, `WriteAtMostOnce`, `EffectNeedsApproval`, `CancelledWriteHasNoEffect`, `WriteRunsUnderOneTask`, `TerminalIsFinal`, `OneTerminalEvent`, `LogFollowsLifecycle`, `SucceededWriteHappened` |
| `RuntimeOwnershipProofs` | `OwnershipTypes`, `OneOwner`, `FencedHistory`, `SingleOutput`, `FinalStatus`, `DispatchedOnce`, `RecordedSuccess` | `TypeOK`, `OneOwnedRun`, `HistoryFollowsFences`, `OneOutputPerCall`, `RunStatusIsFinal`, `DoneCallIsNotDispatched`, `SuccessIsRecorded` |
| `RunCapacityProofs` | `LimitsHold`, `ExactSlots`, `CoveredWork` | `TypeOK`, `SlotsAreExact`, `WorkIsCovered` |
| `IndexPublicationProofs` | `PublicationTypes`, `PublicationImplementsFence` | `TypeOK`, `ImplementsFence` |
| `IndexContentProofs` | `OpenFenceIsClean`, `ServedIsKept` | `OpenFenceServesOneGeneration`, `ServedGenerationIsKept` |
| `IndexTruthProofs` | `HonestExecutions` | `ExecutionsTellTheTruth` |
| `FencedRetrievalProofs` | `RetrievalTypes`, `WholeAnswers`, `CurrentCache` | `RTypeOK`, `AnswersAreWhole`, `CacheIsCurrent` |
| `EmbeddingMigrationProofs` | `EmbeddingTypes`, `PointerServes`, `ServesTheCorpus`, `FlipServesTheCorpus`, `ReceiptsFollowPoints`, `SettledStay` | `TypeOK`, `PointerIsServing`, `ServedMatchesCorpus`, `CutoverServesCorpus`, `ReceiptsHavePoints`, `SettledJobsStay` |

### Assumptions

* `CapabilityExecution`: reads, plain writes and quiz writes are disjoint
  (`ExecutionKinds`), `None` is neither a task nor an execution (`NoneIsFresh`),
  the crash bound is a number (`CrashBound`).
* `RuntimeOwnership`: `None` is no process, run or call and none of the words the
  model uses as modes and statuses (`NoneIsNew`), the fence bound is a number.
* `RunCapacity`: every run has a home and a tenant, limits are positive, the runs
  are finite in number (`CapacityAssumption`; counting needs it).
* `IndexPublication`: a document is text or special and not both, `LossyDocs` are
  documents, the names of the recovery loop and of nobody are no documents, the
  bounds are numbers (`PublicationAssumption`).
* `FencedRetrieval`: the bound of revisions is a number (`RevisionBound`).
* `EmbeddingMigration`: finitely many segments, the first collection is no
  target, a page is not empty, the bounds are numbers, `None` is no worker
  (`EmbeddingAssumption`).

The theorems about publication, except `PublicationTypes`, have one hypothesis
beside these: `LossyDocs \cap TextDocs = {}`, no *text* commit loses its answer.
It is needed: a text handler that commits and does not hear of it takes its
`BaseException` branch and restores the old points under an open fence (section
6). The hypothesis excludes that one fault and nothing else; lost commits of
special documents, crashes at every step, failed and cancelled calls stay.
`publication` runs under the same restriction.

### The arguments

None of the safety properties is inductive as it stands. Each proof module
begins with the strengthening, as a conjunction of named parts.

*Ledger.* That a write has had one effect says nothing about who else may cause
another. `IInv` adds what links the parts: the row carries a fence exactly when
the approval is consumed (`FenceInv`); an effect on the wire belongs to the task
whose fence the row carries, and its write has had no effect yet (`WireInv`); a
task that has not claimed has left no trace (`UnclaimedInv`); a task working on a
write holds its fence and nothing happens before its running event
(`ClaimedInv`); a write ends as cancelled only undispatched (`CancelledInv`); a
finished row has no lease (`LeaseInv`) and an unreserved one no fence
(`AbsentInv`). Fences being unique, two effects would need two claims, and a
write is claimed only while it has no fence. All actions but two are *quiet*:
they leave fences, consumed approvals and effects alone and move a task within or
out of its stage. `QuietStep` shows once that a quiet step keeps the invariant;
`Dispatch` and `EffectLands` are proved by hand. `RecordInv` goes on to the log
and to what is reported: the ranks of its events grow and the last one of a
finished row is its status (`LogInv`); a receipt, also one in a stale copy that a
recovery loop holds, a successful outcome and the status `succeeded` are only
there once the effect is (`TruthInv`).

*Ownership.* `ClaimInv`: a turn runs under the claim its process caches, a cached
fence is at most the owner row's, and so is the fence of every item of the
history. `OwnerInv`: for the process that holds the newest fence, a call being
invoked is open in the journal, and the call whose output comes next has none.
A process that lost its claim is refused by the fence at every append, so these
facts are only needed of the current owner. `RecordInv` carries success: a
healthy owner has every call of its history answered or still due (`LiveInv`),
the end of a turn finds all answered (`WholeInv`), after its end a turn is only
reported (`EndInv`, `ReportInv`), and the events, the Gateway and the run row say
success only then (`StatusInv`). Because recovery attributes history by position,
`StrayInv` is needed for calls that a cancelled turn appended behind the next
turn's start: their turn is superseded and nobody starts it again.

*Run capacity.* `CapacityInv`: where a start request is tells which lease it
holds (`StageInv`), and a run open in the ledger is owned under a lease with its
slot, or was given up before anything could reach the Runtime, or its gateway
died. `SlotsAreExact` is a cardinality, so each action is reduced to adding or
removing one run of a finite set.

*Publication.* `BaseInv` gives types, existing references and the lock: whoever
is inside a publication holds the lock, and its holder is behind the fence, which
is what the refinement needs, since points are written only by holders.
`ContentInv` says for each document what the phase of its manifest or its backups
allow: the served generation is in the points, the candidate only after its
freeze, the old ids only before the deletion; an execution that may still be
published is not the one served (`FreshInv`); nobody consumes the execution of a
manifest past its preparation again (`ConsumerInv`); whoever holds a special
publication stands at the phase its manifest records (`HolderInv`). A step of
one document changes another one only through the fence (`Around`); there
`exposed` takes up exactly the documents the code uncovers. `Truth` adds the
executions: consumers work on the newest one, which runs until it is served; a
consumer that gave up after its commit left the marker of a committed manifest;
and a failed execution is served only where its committed manifest was uncovered
by somebody else's commit, in which case the document stays exposed as long as
the marker does (`OpenKeeps`).

*Retrieval.* `RIInv`: the history variable `published` holds under every opened
revision the content it opened with (`HistoryInv`), what a request has read while
the revision it captured is in force is the content (`ReaderInv`), and nothing is
cached under a revision still to come (`CacheInv`; `Frontier`). That the
abstract publisher is implemented is `PublicationImplementsFence`, so retrieval
holds over the detailed publisher too.

*Embedding migration.* Types need the pointer: a start looks up *the* serving
binding, which exists because of `PointerIsServing` (`BaseInv`). `ServingInv`
adds that of the bindings of one name only the last is in use (`NameInv`), that
what serves or is kept for a rollback holds the corpus but for what it missed
(`ServedInv`), and that nothing but a deferred deletion touches a target between
the scan and the commit of a cutover (`CutInv`). `FirstInv` is the invariant of
receipts: a worker writes the points of a page before its receipts (`PageInv`),
and the first shadow of a name is not deleted before it was judged (`CleanInv`).

### Only model-checked

All liveness (`AnnouncedWriteIsResolved`, `AuthorisedReadIsResolved`,
`ClaimedRunEnds`, `FenceReopens`, `SlotsComeBack`): reasoning under fairness is
out of this prover's reach. The one `violation` run is a counterexample.

## 5. What is not modelled

See `PROJECT.json`, `components`. In short: request validation, catalogues and
prompts (no state), the classification of answers inside executors, child
threads of subagents, steering and archiving, the format of event streams,
approvals beyond what dispatch sees, the Runtime's capability client, quota and
billing, the orderly shutdown and the load shedder of the Gateway, parsing,
chunking, ranking and other pure computation of the knowledge service, document
versions and BM25 certification, Confluence synchronisation, the local node, the
migration authority, the vendored Core, the web client and the SDKs. Most of the
repository's lines are routes, repositories, schemas and computation of this
kind; the models take the protocols.

## 6. Findings

1. `serving_collection`: two starts of the same migration overlap. The second one
   looks its binding up while the first has not begun; when it begins, the first
   one's migration has been cut over, and nothing asks whether the target is
   still a shadow. Aborting it deletes the collection in service, of which
   `abort` says "The serving generation is untouched (dataset keeps answering)".

Other disagreements met while modelling. The models contain each of them, and
`PROJECT.json` lists them as hazards with their lines:

* A recovery loop that dispatches a row between create's two transactions has its
  status set back to `published`; if the task then dies, no branch of the recovery
  query matches the fenced write. `AnnouncedWriteIsResolved` therefore speaks of
  announced writes.
* A result over the payload limit turns a write that happened into a failed one.
* The failure event of a completed turn is broadcast without the fence, so a
  process that lost its claim can end the run.
* Recovery attributes history items by position; a call that a cancelled turn
  recorded late is dispatched in the name of the next turn.
* A run is closed before its calls are; when the owner dies in between nobody
  closes them.
* A text publication adopts any negative revision, also that of a special
  publication that died, and opens the fence over that document's two
  generations (`exposed`). The execution of the dead publication stays running
  and bound to the old revision, and nothing recovers it while the fence is open.
  The conflict check of `bind_special_publication_revision` looks at bindings to
  the same revision only, so another special document is published beside it; if
  that one dies too, "negative publication has no unique running owner"
  (`datasets.py:1996`) and its fence stays closed for ever (`Overtaken`).
* Recovery takes any backup it finds for the complete set; a death between two
  backup batches and a failing recovery lose points (`exposed`).
* A lost answer to the COMMIT of a text publication makes the handler restore the
  old points under an open fence. `LossyDocs` keeps the text document out of this
  fault in `publication`; for special documents it is included and harmless.
* Backups that a cleanup missed make a later recovery of the document refuse for
  ever, behind the fence (`Orphaned`).
* A new request for a special document between its commit and its closing leaves
  the fence without a valid owner (`Relinked`). `FenceReopens` excepts `Relinked`,
  `Orphaned` and `Overtaken`; without any one of the three TLC finds a fence that
  is never opened.
* `reconcile_special_publication_execution` asks for a document that is completed
  still; a request that comes after recovery adopted the fence makes it refuse
  (`FinishRefused`), which leaves a `Relinked` document.
* An interrupt that cannot be confirmed keeps a slot for the life of the process;
  so does a cancellation between a confirmed stop and its release (`cut`).

## 7. Plan

Done: the execution ledger with its worker; Runtime ownership and recovery; run
capacity; publication, its abstract fence and the refinement; retrieval;
embedding migration; proofs of all their safety properties.

1. *Publication with lossy text commits.* What is left when the answer of a text
   commit may be lost: which parts of `ContentInv` survive with the documents in
   that state excepted, so that the theorems lose their hypothesis.
2. *Cleaner proofs.* The lemmas about one edited row (`EditFrame`, `StepFrame`
   and their relatives) recur in several modules in the form their state needs.
3. *More of the system*, if it is extended again: approvals, the Runtime's client
   against an abstract ledger, the local node.
