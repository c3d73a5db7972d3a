# Formal specification of the bid evaluation assistant

TLA+ modules for the core of `app/`: how a job is submitted, relayed, run,
retried, dead-lettered or handed to a human; what a parse job does with its
document and an evaluation with its evidence; how resume tokens, dead-letter
items, legal holds and catalogue rows are decided on by requests that overlap;
how all of it is saved; and how a version is released. TLC checks the modules on
small instances; TLAPS proves every safety and action property and every
refinement of the twelve runs for all instances, and leaves liveness to TLC.
Paths are relative to the repository root;
document names are those of `docs/design/` unless another path is given.

## 1. The system

The program is a FastAPI application (`app/main.py`, `app/routes/`) over one
*store* object (`app/store.py`, a class put together from mixins), a *queue
backend* (`app/queue_backend.py`) and a separate *worker* process
(`scripts/run_worker.py`, `app/worker_runtime.py`).

| Component | State | Operations | Hard behaviour |
|---|---|---|---|
| Store backends `store.py`, `store_backends.py` | dictionaries of rows; a snapshot of all of them in SQLite or Postgres; some tables also row by row in Postgres | `_persist_*`, `_save_state`, `_load_state` | no lock around read-check-write; snapshot taken outside the lock; two processes with a copy each |
| Job engine `store_admin.py` | `jobs`, `parse_manifests` | `run_job_once`, `transition_job_status`, `cancel_job` | concurrent runs, stale copies, refusals half way |
| Outbox `store_ops.py`, relay `routes/internal.py` | `outbox_events`, `outbox_delivery_records` | append, list, publish, mark delivered, relay | overlapping relays, death between two writes |
| Queue backends `queue_backend.py` | deque, table or Redis lists; in-flight set | enqueue, dequeue, ack, nack, list_tenants | delayed visibility, rotation, non-atomic Redis commands |
| Worker `worker_runtime.py` | local counters | `run_once`, `run_forever`, `_process_message` | fairness between queues and tenants, swallowed exceptions, death with a message in flight |
| Requests `routes/_deps.py`, `store_admin.py`, `tools_registry.py` | `idempotency_records`, circuit breakers | `run_idempotent`, approval, `execute_tool` | two requests with one key; a retry of what was already done |
| Dead-letter review `store_ops.py` | `dlq_items` | seed, requeue, discard | overlapping reviews; a requeued job nobody relays |
| Parse pipeline `store_parse.py`, adapters | documents, chunks, manifests | create, parse with fallbacks, index | succeeded before parsed; chunks checked then stored |
| Evaluation `store_eval.py`, `evaluation_nodes.py`, `token_budget.py`, `llm_provider.py` | report, evidence, budget tracker | retrieve, pack, rules, score, gate | budgets at their limits, criteria left out, a tracker per run |
| Human review `store_workflow.py`, `langgraph_runtime.py`, `routes/evaluations.py` | `resume_tokens`, checkpoints | register, validate, consume, create resume job, run with or without LangGraph | token checked then consumed; consumed and then a failure; checkpoint numbering |
| Legal hold `store_ops.py`, `object_storage.py` | holds; object lock and retention | impose, release, clean up, archive | hold imposed while an object is cleaned up |
| Audit chain `store.py` | hash-linked log | append, verify | concurrent appends; one chain, verified per tenant |
| Catalogue `store_admin.py`, `repositories/` | projects, suppliers, rule packs, documents | create, update, delete, upload | looked up, then created; updated from a copy |
| Release `store_release.py`, gates | policies, datasets, replay runs, versions | replay, readiness, pipeline, rollout, rollback, feedback, tuning | order of a pipeline's steps; versions bumped without a lock |
| Retrieval, reranker, security, probes, frontend | mostly none | pure functions, remote calls | none a model checker would tell apart |

How they interact. A handler stores a job row and appends a `job.created` event
to the outbox. `POST /outbox/relay` turns pending events into queue messages and
remembers, per consumer, which it has delivered. Worker loops, and the debug
endpoints `drain-once` and `run`, call `run_job_once`, which moves the job row
along `ALLOWED_TRANSITIONS`, writes the parse manifest, a dead-letter item on
failure, and answers with a final status; the caller acks the message, or nacks
it with a backoff if the answer is `retrying`. A parse job parses its document;
an evaluation job runs the graph of nodes, which ends in a report or in an
interrupt with a resume token, and a person's answer makes a resume job.
Operators may cancel jobs, review dead letters, impose holds and clean up at any
moment. Handlers and worker loops are threads without a common lock, often in
different processes, and each handler saves the store when it is done.

What makes it correct, per component:

* queue: a message is waiting, in flight or gone, never two of these, never
  served before it is due, and served at last;
* relay: an event is published only after its message is in the queue, and one
  call makes one message;
* job engine: legal paths only; one executor at a time; retries within the
  budget; a failure has its dead-letter item; nothing is forgotten;
* worker: every tenant and queue is served;
* parse pipeline: chunks are never lost, every stored or indexed chunk can be
  cited, document and manifest end in a final status;
* evaluation: evidence fits its budgets without losing what is needed, spending
  is bounded, and a report nobody looks at is complete and sound;
* review, tokens, idempotency, audit chain: one decision takes effect once, and
  the answer a client got stays true;
* holds: what is held is not deleted; locks follow holds;
* store: what an operation has answered is found by those that come after it;
* release: what is admitted has earned it.

`PROJECT.json` lists every component with its status, and every hazard with its
line and the properties that cover it.

## 2. How the project is laid out

Seven systems, each a module or a few that build on one another, so that one
run asks one group of questions:

1. The queue: `QueueContract` (abstract), `InMemoryQueue`, `RedisQueue`.
2. A job's path: `JobContract` (abstract), `JobEngine` over `QueueContract`;
   `WorkerScheduler` for the order in which a loop serves tenants.
3. A parse job's work: `ParsePipeline`.
4. An evaluation's work: `TokenBudget`, `Evaluation`; its life with the person
   who decides: `HumanReview`.
5. Requests that overlap: `Requests`, extended by `DlqReview`, `LegalHold` and
   `Catalog`, which `Governance` composes.
6. What is kept: `SnapshotStore`.
7. A release: `Gates`, `Release`.

Each has an `MC` module where an instance needs one, and proofs in a module of
its own. The detailed modules leave to one another what is not their question:
`JobEngine` says of a parse or evaluation run only how it ends; `Evaluation` ends
where `HumanReview` begins; `Release` takes a run of a job as two steps.

What a continuation would add first: the SQLite queue's ordering by
`available_at`; reads and checks of a job row as separate steps.

## 3. Modules and code

| Module | Code | Notes |
|---|---|---|
| `QueueContract` | the status column of `SqliteQueueBackend` | `stage` is that column, with `unused` before the insert and `gone` after the delete; one action per method |
| `InMemoryQueue` | `InMemoryQueueBackend` | `queues`, `delivered` and `entry` are `_queues`, `_inflight` and the `QueueMessage` fields; every method holds the lock, so it is one action; the full scan of `dequeue` is `FirstAvailable` and `Rotated`; a clock replaces `datetime.now` |
| `RedisQueue` | `RedisQueueBackend` | one action per Redis command that writes, and per read that can become stale; `client[c].pc` is the place in a method, `held[c]` what the callers in a process have dequeued |
| `JobContract` | what `run_job_once` promises of one job | abstract: status, retries, parked in the dead-letter table |
| `JobEngine` | outbox, relay, `run_job_once`, `cancel_job`, worker and debug callers | one action per store or queue call, see below |
| `WorkerScheduler` | `WorkerRuntime.run_once`, `run_forever` | the local variables of `run_once` are `loop`; a message is only counted |
| `ParsePipeline` | `create_parse_job`, the parse part of `run_job_once`, `_parse_document_file`, `MineruParseService`, `parse_with_route` | one document; `run[j]` is a job's place in the code and its local variables |
| `TokenBudget` | `token_budget.py` | pure operators on sequences of evidence |
| `Evaluation` | the nodes of `evaluation_nodes.py`, `CostBudgetTracker` and scoring of `llm_provider.py` | one evaluation, one action per node, and per criterion in the scoring node |
| `HumanReview` | `create_evaluation_job`, the resume endpoint, `store_workflow.py`, `langgraph_runtime.py` | `creating[e]`, `request[q]`, `run[r]` are the threads; `trail` is `workflow_checkpoints` |
| `Requests` | handlers of `routes/admin.py` and `routes/internal.py`, `run_idempotent`, `execute_tool`, `_append_audit_log` | a thread serves one request; `pc[t]` is where it is |
| `DlqReview` | `requeue_dlq_item`, `discard_dlq_item` | the part between the idempotency record and the audit log |
| `LegalHold` | `impose_legal_hold`, `release_legal_hold`, `execute_storage_cleanup`, report archiving, both object storages | one action per store or storage call |
| `Catalog` | projects, suppliers, rule packs, upload | `FindRow`, `PersistRow`, `ReadRow`, `WriteRow`, `DeleteRow` |
| `Governance` | all four together | composition and properties |
| `SnapshotStore` | the overrides of `SqliteBackedStore` and `PostgresBackedStore` | an operation is a program of `Change`, `Touch` and `Save` steps |
| `Gates` | the four gate evaluators | a table of floors and ceilings per gate |
| `Release` | `store_release.py` and its endpoints | one request per action sequence, workers and reviewers beside them |
| `MC...` | | instances: constants, bounds, symmetry sets |
| `...Proofs` | | theorems, section 6; `QueueProofs` is about `RedisQueue`, `InMemoryQueue` and `WorkerScheduler`, whose names differ so that one module can extend all three |

### Jobs

`JobEngine`. A thread is a record with a program counter: `relay[r]` for a call
of the relay, `exec[e]` for a worker loop, a drain or a run-now request. Between
two actions any other thread may act.

* Submission: `CreateJob` (row and manifest), then `AppendOutboxEvent`; between
  the two the job is in `creating`.
* Relay: `StartRelay` reads the pending events once; per event `RelaySkip` when
  a delivery record exists, else `RelayEnqueue`, `RelayMarkDelivered`,
  `RelayMarkPublished`; `RelayDone`. Each looks only at what the code has read
  by then.
* `run_job_once`: `Start` (status to running, manifest to running, or a 409),
  then one of: `Retry` and `StoreRetriedJob`; `EnterDlqPending`,
  `EnterDlqRecorded`, `SeedDlqItem`, `FailJob`; `Succeed` and, for a parse job,
  `IndexDocument`; `Interrupt`; `WorkflowRaises`. Every transition may be
  refused (`TransitionOr409`), which ends the run.
* The caller: `AckMessage`, `NackMessage`, or `LeaveMessage` where `drain-once`
  lets the exception out and where a run-now request has no message.
* The environment: `CancelJob`, `PublishByHand`, `CrashExecutor`, `CrashRelay`,
  `CrashSubmission`, and the outcomes marked `"raise"`, each only when the
  constant `Faults` names it.

Its abstractions:

* A transition (read the row, check, store) is one action, and so is the
  submission of row and manifest.
* A row handed back by a transition is a copy. In the Postgres store that is
  literally so; in the memory store `transition_job_status` returns the stored
  copy too, except when the status is already the one asked for, where it
  returns the row itself.
* `"cancel"` writes the row at once, as the memory and SQLite stores do; that the
  Postgres store loses it is in `SnapshotStore`. `"crash"` stands for a process
  that dies while store and queue live on, as with Postgres and Redis.
* It uses the contract of the queue, not the deque: which waiting message a
  dequeue returns, backoff times and tenants are left to `InMemoryQueue` and
  `WorkerScheduler`.
* `transient_fail` and `force_fail` come from the debug endpoints; the worker
  passes neither. An evaluation job without them succeeds, interrupts or raises.
* Documents, chunks, reports, checkpoints and audit logs are elsewhere.
  `IndexDocument` stands for everything after a parse job's transition to
  succeeded; it may raise. The writes of MinerU's service to the manifest are
  left to `ParsePipeline`: `ManifestAgrees` is about a system without its key.
* Not modelled: the debug endpoint that sets any legal status by hand and the
  raw queue endpoints.

`ParsePipeline`. Two or more parse jobs of one document, created at any time,
each run at most once; between two actions any other job may act.

* Creation: `StoreJob`, `MarkQueued`, `AppendEvent`.
* The run: `BeginRun`, then `FailManifest` and `FailDocument`, or
  `SucceedManifest`, `MarkIndexed` and `LookForChunks`, which ends the run when
  the document has chunks already.
* Priority 1, MinerU: `ReadBytes` or `Presign` choose the option; `BeginMineru`,
  `Submit`, `Poll`, `Collect`, `StoreMineru`, `CompleteMineru`, `TouchDocument`
  are the steps of the service, and `AbandonMineru` its `except` branch.
* Priorities 2 and 3: `ParseLocal`, then `TryRoute` once per adapter.
* With the chunks parsed: `PersistChunks`, `CountChunks`, `CiteChunks`,
  `IndexChunks`.

Its abstractions:

* The chunks one parser makes for one job are a single output, named by parser
  kind and job: `replace_chunks` always replaces a document's chunks as a whole,
  and nothing here depends on what a chunk says. `CiteChunks` registers all of
  them in one action, since no property tells the first from the last.
* Every HTTP call has all the outcomes the code tells apart: a result, an
  answer that says not yet, failed or nothing useful, an exception. `MaxPolls`
  is what `max_poll_time_s` allows.
* No code gives a document a `source_url`, so MinerU's first option is
  unreachable and left out. `TouchDocument` always leads to `AbandonMineru`:
  the repository the store hands to the service has another signature, so the
  call raises (section 7).
* All jobs run in one process with one memory or SQLite store, whose own writes
  do not fail. Retries, refusals and cancels of the job row are `JobEngine`'s.
* `"raised"` is a run whose exception leaves `run_job_once`; `JobEngine` says
  what becomes of its message.

### Evaluations

`TokenBudget` and `Evaluation`. An item of evidence is its document, score and
token count. `TrimToBudget` ranks, drops duplicates of a document and packs;
`ApplyReportBudget` removes the worst items of the whole report. The nodes are
`RetrieveEvidence`, `EvaluateRules`, one of `LlmAnswers`, `LlmFails`,
`MockScores`, `BudgetStops` per criterion, `AllScored`, `QualityGate`;
`RunAgain` is the job of the evaluation, which runs the nodes again with a new
tracker. Which rule is violated, whether a review is forced and whether the
confidence is low are left open; what evidence and report say is left out.

`HumanReview`. Creating an evaluation (`Register` while the nodes run,
`PersistReport`, `PersistJob`), answering it (`LookUp`, `Validate`, `Consume`,
`StoreResumeJob`, `StoreAnswer`, `RecordAnswer`; `ResumeRaises` where one of them raises)
and running either job (`StartRun`, `Work`, then with LangGraph `GraphSaves`,
`GraphGate`, `GraphStops`, `GraphPersists`, `GraphFails`, and `EndRun`).
`CountTrail` and `AppendCheckpoint` are the two halves of writing a checkpoint.
LangGraph is external: a graph fails at any place, stops at the interrupt by
raising or by returning, or goes on to its end; it saves at most `MaxSaves`
states per thread.

### Requests

`Requests` is a request's life in its thread: approval, the idempotency record
(`FirstStep`, `Replay`, `Conflict`, `Record`), tool attempts and circuit breaker
(`Invoke`, `ToolReturns`, `ToolFails`), the two halves of an audit entry
(`ReadLast`, `AppendLog`), and `Raise`, by which any store call named in
`Raising` may fail. `DlqReview`, `LegalHold` and `Catalog` hang their steps
between these, and `Governance` lets them interleave. Which requests meet is the
constant `Traffic`, since requests that share nothing but the audit log need not
be combined to meet there. The body of a request is a value, its row or object
`on`; a version of a report is a file of its own, as the storage names it by the
digest of its content; hashes are positions in the log, so a `prev` that is not
the position before is a fork.

### The store and the release

`SnapshotStore` keeps of an object only which operations' changes it carries.
An operation is a program of steps, put together from what it calls and which
of these calls have an override that saves (`SaveAfter`); one operation stands
for each kind of object: kept in a row, in the snapshot, or by no override. A
save copies the idempotency records (`StartSave`), encodes the rest at once
(`Encode`, the C encoder does not let another thread in) and writes under the
lock (`WriteSnapshot`). `Found` is what a read gives, the row where the Postgres
getters ask for it. Read-check-write of one object is one step here.

`Release` has one request per step towards an admission, carried on by a release
team that passes answers from one to the next (`known`), beside workers
(`WorkerStarts`, `WorkerEnds`) and reviewers (`ReviewerAnswers`). `Gates` is the
table of thresholds, with rates counted in thousandths; `Documented` is the same
table as the checklist `2026-02-22-gate-d-four-gates-checklist` gives it, against
which `AdmittedIsEarned` measures what was admitted.

## 4. Runs

All twelve pass.

| Run | Instance | Shows |
|---|---|---|
| `InMemoryQueue` | 3 messages, 2 keys, clock 0..2, delay 0..1, 1 nack each | due messages are served in order (`VisibleFifo`) and at last (`WaitingIsServed`); implements `QueueContract` |
| `RedisQueue` | 2 processes, 2 messages, 1 nack each, 1 process death | no two processes hold one message (`OneHolder`); what is not lost by a death is served (`ServedUnlessLost`); implements `QueueContract` |
| `WorkerScheduler` | 3 tenants, burst 2, budget 7 | overtaking is bounded (`BoundedOvertaking`), every key is served |
| `MCJobEngine` | parse and evaluation job, 3 messages, 1 relay, 2 consumers, worker, drain, budget 2, raise and publish by hand | manifests follow jobs (`ManifestAgrees`); implements `JobContract` |
| `MCJobEngineCancel` | the same jobs with cancels, 2 messages, budget 1 | `OneMessagePerJob`, `ExclusiveExecution`, `RetriesWithinBudget`, `UnsettledHasCarrier`, `EverySubmittedSettles` |
| `MCJobEngineFaults` | one parse job, 2 relays, drain, run-now, raise and crash | `FailedIsAccounted`, `PublishedWasEnqueued` |
| `ParsePipeline` | 2 parse jobs of one document, MinerU with 2 polls, route http, absent, http | `StoredIsCited`, `ReturnedHasChunks`, `ManifestSettles`, `DocumentSettles`, `ChunksNeverLost`, `EveryRunEnds` |
| `Evaluation` | 3 criteria, 2 runs, budget 5, calls up to 4 | trimming keeps the budgets and the best evidence of each document (`EvidenceFits`); `SpendBounded`; a report without review is complete and sound (`UnreviewedIsSound`) |
| `HumanReview` | 1 evaluation, 2 resume requests, 2 runs, 2 keys, all three runtimes | a token makes one resume job (`ResumedOnce`); a report that waits can be answered (`WaitingCanBeAnswered`); checkpoint numbers (`TrailNumbered`) |
| `Governance` | 3 requests out of four mixes, tool retries, raising calls, local or S3 storage | `SettledOnce`, `AnsweredOnce`, `ChainVerifies`, `LockFollowsHold`, `OneRowPerCode`, `HoldProtects` |
| `SnapshotStore` | 3 operations, SQLite or Postgres with 2 processes, 1 restart | `AnsweredIsSeen`, `RecordHasEffect` |
| `Release` | the five requests of an admission or three of operations, every metric at and beyond its threshold | `AdmittedIsEarned`, `VersionsTellApart` |

`CHECK_DEADLOCK FALSE` everywhere but in `WorkerScheduler`: when all jobs are
settled, all requests answered or all messages gone, nothing is left to do.
`WorkerScheduler` never stops and is checked for deadlock.

Which guarantee needs what. Much of this code looks something up and writes it
later without a lock, so many properties say exactly what survives:

* All of the job engine's but two want one relay call at a time, no run-now
  request and no crash. `OneMessagePerJob`, `ExclusiveExecution` and
  `RetriesWithinBudget` want no more than that; `ImplementsContract` and
  `ManifestAgrees` also that nobody cancels; `UnsettledHasCarrier` and
  `EverySubmittedSettles` bear cancels, but no run that raises.
  `FailedIsAccounted` and `PublishedWasEnqueued` hold with all of these, the
  second as long as nobody publishes events by hand.
* `BoundedOvertaking` wants one queue, and an iteration that fits a burst of every
  tenant.
* `SettledOnce`, `AnsweredOnce`, `ResumedOnce`, `OneRowPerCode`, `HoldProtects`,
  `TrailNumbered` and `VersionsTellApart` are about requests or runs that began
  after others had been answered (`before`): of two that overlap both may take
  effect.
* `ChainVerifies` and `LockFollowsHold` want requests one after the other, the
  first also one tenant only, the second also no failure or second attempt. A
  report that returns to a version it had left keeps the lock that version's file
  was left with (`Returned`).
* `AnsweredIsSeen` names what is not kept (`Excused`): a cancel in Postgres, what
  only another process has in memory, and across a restart what raced a save, has
  no save, or was saved over by another process.
* `ServedUnlessLost` names what a process that dies takes with it: the message
  between `LPOP` and `RPUSH`, between a status saved as pending and its push, or
  a new tenant's list that never got into the registry. A message in flight is
  lost with its holder in every backend.
* `AdmittedIsEarned` holds for a release team that passes answers on as it got
  them; the pipeline itself believes what it is told.

## 5. Bounds and fairness

Every bound, and why it is enough for the case it is about.

* Jobs: two jobs and three messages let two jobs interfere and one job have a
  duplicate with a spare. Two consumer names let one event be delivered to the
  second consumer after the first. A budget of one or two reaches no retry, the
  last retry and the refusal.
* Queues: in `RedisQueue` two processes meet at every pair of commands over the
  same two messages, one of which may be delayed and rotate around the other;
  `MaxCrashes` of one is enough to stop any command sequence. In `InMemoryQueue`
  three entries let a delayed one stand before, between and behind ordinary
  ones, and `MaxClock` lets each delay elapse (a delay is only asked for where
  the clock can still reach its end).
* Scheduler: `MaxReady` bounds the waiting messages of one key; what starves a
  tenant is whether others have a message, not how many. The history variable
  `passed` saturates one above the bound it is compared with. With the defaults
  of `create_worker_runtime_from_env` (burst 1, budget 2 + 2 = 4) the condition of
  the run fails as soon as five tenants keep submitting to one queue.
* Parse pipeline: two jobs meet at every pair of steps, so chunks are replaced
  while another run cites or indexes its own. `MaxPolls` of two allows an answer
  at once, a late one and the timeout; the route has an adapter before, at and
  after a gap.
* Evaluation: the first criterion gets up to four items of three documents in
  every order of two scores and two sizes, the second nothing or two large ones,
  the third three of one document, so every budget is met, missed and stopped by
  the minimum. `FewScored` scores only the instances with little evidence,
  `SecondSpends` (`MaxRuns` of two) looks at a second run only after a report
  that asks for review; the theorems have neither bound.
* Human review: `TwoAtATime` lets at most three of the two requests and two runs
  begin, two of them at a time; under LangGraph the third comes after the other
  two. `MaxSaves` of one puts a state between two nodes of a trail.
* Governance: `TwoAtATime` and `OneFails`: two requests overlap in every way with
  a third before or after them, and one of the three fails or is tried twice;
  `Attempts` two, `CircuitLimit` one. `LocalUnlessHolding`: the kind of storage
  matters to holds only.
* Snapshot store: `TwoAtATime`, `OneEvaluation` (the longest program once), and
  `MaxRestarts` of one, at any step of anything.
* Release: `OneOfEach`, `TwoAtATime`; `PipelineLast` stops where the pipeline has
  answered, `LittleUnasked` leaves the replay out where readiness is not required.
  Each metric is at its threshold or one step on the wrong side of it.

Symmetry is used where identities are interchangeable: jobs and messages of one
kind, threads, processes, keys; never in a run with a liveness property.

Fairness. A request or loop that has begun goes on (weak fairness of each
thread's next step): nothing in it waits for another thread, and every HTTP call
has a timeout. A worker loop never stops polling (`run_forever`), and the relay
endpoint is assumed to be called again and again, which the code leaves to its
operator. Nothing is assumed of operators: nobody has to cancel, drain, run or
publish. In `RedisQueue` a worker polls what the registry lists, and an API
server may dequeue or not. In `InMemoryQueue` a consumer keeps polling every key
and time passes; in `WorkerScheduler` the loop goes on and backoffs end. Nacks of
a message are bounded, as `worker_max_retries` bounds the answers `retrying`. The
other modules state no fairness and no liveness: a reviewer need not answer, an
operator need not release, and a requeued job is never run.

## 6. Proofs

Eight modules, all checked by TLAPS to the last leaf. Each theorem holds for
every value of the constants that the named assumption of its module allows, and
under the hypotheses it states. Together they state every invariant, every action
property and every refinement of the twelve runs.

| Module | Theorem | States |
|---|---|---|
| `JobEngineProofs` | `TypeCorrect`, `FailureAccounted` | `TypeOK`, `FailedIsAccounted` |
| | `PublishedIsEnqueued` | `PublishedWasEnqueued`, unless events are published by hand |
| | `OneMessage`, `ExclusiveRuns`, `RetriesBounded` | `OneMessagePerJob`, `ExclusiveExecution`, `RetriesWithinBudget`, with one relay call at a time, no run-now and no crash |
| | `NoJobForgotten` | `UnsettledHasCarrier`, where also nothing raises and nobody publishes by hand |
| | `ContractImplemented`, `ManifestFollowsRow` | `ImplementsContract`, `ManifestAgrees`, where also nobody cancels |
| | `RowsWindDown`, `OutcomesAreFinal` | under the same conditions: every change of a row leaves fewer to come, at most 2 * `MaxRetries` + 5 in all; a settled row never changes again |
| `QueueProofs` | `HeldByOne`, `RedisKeepsContract` | `OneHolder` and `ImplementsContract` of `RedisQueue` |
| | `DequeKeepsContract`, `OrdinaryTrafficIsFifo` | `MemoryImplementsContract`, `VisibleFifo` |
| | `NobodyIsOvertakenForLong` | `BoundedOvertaking`, with one queue and an iteration a whole pass fits (`PassFits`) |
| `ParsePipelineProofs` | `TypeCorrect`, `ChunksCited`, `IndexedDocumentHasChunks`, `ManifestsSettle`, `DocumentsSettle`, `FewTasks`, `ChunksKept` | all safety properties of the run, and `IndexedIsCited`, `AtMostTwoTasks` |
| | `RunsWindDown` | every step of a job leaves it fewer, at most 2 * `MaxPolls` + 34 in all |
| `EvaluationProofs` | `EvidenceIsPacked`, `UnreviewedReportsAreSound`, `SpendingBounded` | `EvidenceFits`, `UnreviewedIsSound`, `SpendBounded` |
| `HumanReviewProofs` | `TokenResumesOnce`, `CheckpointsAreNumbered`, `DecisionsCanBeMade` | `ResumedOnce`, `TrailNumbered`, `WaitingCanBeAnswered` |
| `GovernanceProofs` | `ItemsSettleOnce`, `RecordedIsSettled` | `SettledOnce`, `RecordsEarned` |
| | `KeysAnswerOnce`, `HeldFilesStay` | `AnsweredOnce`, `HoldProtects` |
| | `OrderedLogVerifies`, `CodesAreTaken`, `LocksFollowHolds` | `ChainVerifies`, `OneRowPerCode`, `LockFollowsHold` |
| `SnapshotStoreProofs` | `RecordsHaveEffect`, `AnswersAreSeen` | `RecordHasEffect`, `AnsweredIsSeen` |
| `ReleaseProofs` | `AdmissionsAreEarned`, `VersionsStayApart` | `AdmittedIsEarned`, `VersionsTellApart` |

What is assumed of the constants is in the `...Assumption` of each module, and is
what the code gives: numbers are numbers and distinguished values are no members
of the sets beside them; the metrics of a gate are of the types their request
schemas give them (`Readings \subseteq Reading`); a budget keeps at least one
piece of evidence (`MinEvidence`); a request on a hold names a report, a report is
archived by its tenant (`HeldAssumption`), and what creates or updates a row has a
body (`CatalogAssumption`).

### The arguments

None of the properties but type correctness is inductive.

Jobs and queues:

* `FailureAccounted`: `FailJob` sets failed without looking at the dead-letter
  table, and `StoreRetriedJob` stores a row that may be old. `AccountInv` adds
  that an executor past `SeedDlqItem` has left an item for its job, items are
  never removed, and a copy held between `Retry` and `StoreRetriedJob` has status
  retrying. The property does not depend on exclusive execution, so duplicated
  messages, run-now requests and crashes do not harm it.
* `PublishedIsEnqueued`: `PublishInv` says that a delivery record, or a relay past
  its enqueue, means a message; no queue call takes one back.
* `OneMessage`: the relay reads the pending events once and enqueues later, so
  `RelayInv` says an event still on its list has no message yet, and `EventInv`
  that a pending event has none unless the relay is between enqueuing it and
  marking it published. `ExclusiveRuns`: `RunInv` says a busy executor holds an
  in-flight message of its job that no other holds; two busy executors of one job
  would hold the same message. `RetriesBounded`: `BudgetInv` says that the count
  in an executor's copy is the row's when the limit is tested, which is exclusive
  execution again. Each condition is needed: a second relay call doubles the
  message, a relay that dies between enqueuing and marking makes the next one
  enqueue again, and run-now takes no message.
* The last three of `JobEngineProofs` rest on `PathInv`: at each place of a run
  the row has the status `run_job_once` has given it, unless the job was cancelled,
  and a row whose message waits is queued or retrying. So each transition is made,
  or refused because of a cancel. `NoJobForgotten` adds that a message in flight
  or gone has somebody who runs it or a settled job (`ServedInv`);
  `ContractImplemented` that a dead-letter item comes at `dlq_recorded` and once
  (`ParkedInv`), after which each step of a run is the contract's from the status
  the path names, or a stutter; `ManifestFollowsRow` that row and manifest, which
  are written apart, agree before a run's first statement and at its answer.
* `RowsWindDown`: `ChangesLeft` counts two changes for each retry left and what
  is still ahead of the status. The contract alone would let a job that waits for
  a human start again and again; `PathInv` excludes it, since the message that
  brought it there is acked and only run-now would take it up
  (`ManualIsLeftAlone`). `OutcomesAreFinal` is the case of none left. With a
  run-now request both are false: it runs a job that waits for a human again.
* `HeldByOne`: `HolderInv` adds that a process has a message in hand exactly in
  the commands about one (`HandFits`), that a message that may be enqueued is
  nowhere (`FreshIsNowhere`), and that an index is deleted only of a stored one
  (`UnindexIsUsed`). Every command then keeps the messages, puts one from a hand
  into the list, takes the head, or begins a fresh one; a lemma for each.
  `RedisKeepsContract`: `StatusInv` says which status is stored of a message a
  process has in hand; nobody else can have changed it.
* The deque: `InPlace` has a message once in the deque of its key, or delivered,
  or neither. `InTurn` says that what was enqueued without a delay and never
  nacked is visible, and comes in the order of its enqueues: the scan stops at a
  visible message, so it turns none of them to the end. A nack puts its message
  in front, but has counted it out.
* `NobodyIsOvertakenForLong`: for a tenant with a message, what has passed it and
  what can still be served before it (`Ahead`) are together within the bound. That
  is at most the rest of the present pass, the part of a pass the budget cuts, and
  the tenants before it in the next: three bursts of each other tenant. A pass
  that begins with an iteration is not cut.

Parse and evaluation:

* `ParsePipelineProofs`: `IInv` is `TypeOK` and one part per question, each proved
  in a lemma that uses what a step leaves alone (`OtherRuns`, `Frame`) and where
  it leads (`CreateFlow`, `MineruFlow`, `PersistFlow`). `StoredInv` follows the run
  whose chunks are stored: it has cited them, or is about to, or is still among
  the parsers and will replace them. `ManifestInv` bounds the manifest at each
  place of a run; `DocumentInv` says an unsettled document has a job that still
  writes its status; `TasksInv` counts submissions by place and option.
* `EvidenceIsPacked` and `UnreviewedReportsAreSound` are about recursive functions
  over lists of evidence (sums, ranks, the loop that removes the worst items). What
  they compute is found without the library's induction theorems, from the
  well-foundedness of `<`: the set of numbers at which a claim fails would have a
  least member. `Sorted` lists a finite set by rank; `Considered` is what the loop
  of the report keeps true after each item; `EvaluationInv` then follows the
  evidence and the scores from node to node into the report.
* `SpendingBounded`: `SpendInv` bounds the tracker of the present run by what
  `CheckBudget` still answers "ok" to and one call, and what all runs spent by as
  many such shares.
* `TokenResumesOnce`: `Consume` marks whichever token is registered by then. That
  this is enough needs `ReviewInv`: token ids only grow, a token loses its mark
  only with its id, so a token once taken or replaced is dead (`TakenIsDead`), and
  a later request with it is refused (`LaterIsRefused`).
* `CheckpointsAreNumbered`: a run counts the trail and appends later; numbers are
  never above their place (`NumbersAreLow`), so the number counted is free but for
  runs that overlap (`CountedIsFree`). `DecisionsCanBeMade`: nobody has answered an
  evaluation that is not created yet (`CreatedFirst`), and an answer that is stored
  is asked for again only when the gate has run again (`AnswerStored`).

Requests, store and release:

* `ItemsSettleOnce`: a requeue about to make its job looked at the item when no
  request answered before it had settled it (`ClearOf`), and an outcome "ok", or a
  record, means a settled item (`EarnedOf`, `RecordsEarned`), which never opens
  again although rows are written back from copies.
* `KeysAnswerOnce`: an answer "ok" under a key names the request that executed, its
  author, which had the same key and payload, and the key has a record from then
  on; a request that is its own author began before any success with that key
  (`AuthorOf`). `HeldFilesStay`: a cleanup past its look at the holds saw
  none that were there before it began, and is about a file of the object it looked
  at (`HoldInv`).
* `OrderedLogVerifies`: served one by one, what a request read last is still last
  when it appends (`ChainInv`). `CodesAreTaken`: a row whose code another request
  has found free was made by one that overlaps with it, or was deleted and brought
  back from a copy by an update (`CodeTaken`, `DeletedIsCopied`).
  `LocksFollowHolds`: the phases of a hold, a release and an archiving, each with
  what it knows of the lock (`PhaseOf`); in between, lock and hold agree (`Calm`).
* `RecordsHaveEffect`: `SavedInv` follows a record from the thread that makes it
  (`CreationAt`: how far a creation has come) through memory to a snapshot: memory
  loses neither job nor event, because what the Postgres getters read back is in
  the row too, and a save copies the records before it reads the rest.
  `AnswersAreSeen` follows any change the same way: into memory, into what each
  save of that process has read, from its own save on into the snapshot (`KeptOf`).
* `AdmissionsAreEarned`: the team's answers name the request they come from, a
  replay or rollback is at a stage only when its jobs are as far (`Progress`), and
  no step takes a success away (`EarnInv`); that each gate implies the documented
  one is a lemma per gate. `VersionsStayApart`: versions only grow, and while no
  two requests of a kind overlap what one read is what is stored (`VersionInv`).

Only model-checked, since liveness under fairness is beyond this prover:
`WaitingIsServed`, `ServedUnlessLost`, `EveryKeyIsServed`,
`EverySubmittedSettles`, `EveryRunEnds`. The part of the last two that needs no
fairness is proved. `RunsWindDown`: a run cannot go on for ever, since every step of
it lowers `StepsLeft`, which counts the polls, the adapters and the option of MinerU
still to be tried. `RowsWindDown` and `NoJobForgotten`: a row cannot change for
ever, and until it is settled somebody has the job in hand. What remains is that
who can take a step does. For the scheduler it is `NobodyIsOvertakenForLong`.

## 7. Where code and documents disagree

Met while modelling. The models do what the code does, and the properties are
stated so that they hold; this list says what the documents would have them say.

Jobs:

* Two overlapping relay calls enqueue an event twice (`routes/internal.py`:701);
  persistence-and-queue-production-spec:91 says a repeated relay has no second
  effect.
* A run that raises has its message acked and leaves the job running
  (`worker_runtime.py`:73); workflow-and-worker-production-spec:38 has every
  failure lead to retry or dead letter.
* A retry stores its old copy over a cancel (`store_admin.py`:644);
  job-system-and-retry-spec:64 has final statuses exclusive.
* `run_once` begins with the first tenant every time and gives it a whole burst
  (`worker_runtime.py`:107), so a budget that ends within it starves the others;
  line 151 of the workflow document rules that out. It shares one budget over its
  queues in order, so a busy first queue starves the next.
* `cancel_job` fails a job from any open status (job-system-and-retry-spec:63 has
  `failed` only after `dlq_recorded`); the dead-letter item is written after
  `dlq_recorded`, not before; `needs_manual_decision` is stored as a job status
  (gate-a-terminology:60 says it is none); the job row and its outbox event are
  separate writes (persistence-and-queue-production-spec:46 wants one
  transaction). No backend gives out again what a dead worker has dequeued,
  although line 61 of the workflow document has a restarted worker go on.
* A requeued dead-letter item gets a job without an event: nothing ever runs it.

Parse:

* MinerU's service calls `upsert` with `tenant_id`, which the repository it gets
  does not take (`mineru_parse_service.py`:228, 407), so the call raises after the
  chunks are stored and the run goes on with another parser's.
* The job is succeeded and its document indexed before anything is parsed
  (mineru-ingestion-spec:168 wants vectors first), so a parse that raises leaves
  both as they are and no dead-letter item (line 214 wants one). Chunks another
  run replaced stay in the vector index, where they can still be cited.
* An upload that raises after the document is stored is answered "duplicate" when
  it is retried, and never parsed (`store_admin.py`:67).

Evaluation and review:

* `edited_scores` arrives as a list (`schemas.py`:34) and is used as a dictionary
  (`evaluation_nodes.py`:403), so a person's edits are never applied; the
  compatibility path does not look at them.
* A task over its budget drops the remaining criteria, the total is then over the
  others, and no review is asked for. With the hard constraint failed the report's
  total is 0, while its deviation is computed from the total before that. The
  budget is one per run, not per task; tokens of unreadable answers are not counted.
* Under LangGraph the gate runs again when a person has answered and registers a
  new token while the report shows the old one
  (`docs/plans/2026-02-21-end-to-end-unified-design.md`:170 has only the latest
  token used). A failing graph falls back to a path that marks the job succeeded and
  asks nobody. Two resumes that overlap both pass with one token
  (rest-api-specification:388 has it valid once).

Governance and store:

* A cleanup that has looked for holds deletes an object put on hold meanwhile;
  the design document above, line 50, says held objects are never cleaned up.
* `verify_audit_integrity` follows one global chain through one tenant's entries,
  so two tenants look like tampering; overlapping appends fork the chain.
* The write-once storage keeps a file that is there, lock and all
  (`object_storage.py`:128), so a report that returns to an older version gets
  that version's lock, whatever holds there are now.
* `update_project` brings a row deleted meanwhile back and has no override that
  saves. The S3 storage answers what the service refuses as if it were done.
* The Postgres `cancel_job` changes an object that the next getter replaces by the
  row (`store_backends.py`:921); two processes overwrite each other's snapshots.

Release:

* `execute_tool` does not look at `timeout_retry_policy`, and so repeats tools
  marked `no_retry`; rest-api-specification:1094 wants a new `strategy_version` for
  each change, and overlapping or repeated tunings mix their parts.
* Overlapping feedback runs report one dataset version (`store_release.py`:469).
* The pipeline takes the replay's and the gates' outcome from its caller;
  `decide_rollout` looks at neither admission nor a rollback that failed; a replay
  passes though its resume's outcome is never looked at; `elapsed_minutes` of a
  rollback is a constant.

## 8. Not modelled

* Retrieval, ranking, embeddings, constraint extraction, RAGAS: text and remote
  calls; `Evaluation` has what they may return.
* Token parsing, SQL whitelist, row-level security, scans: functions of one
  request without state. Tenants appear as separate keys.
* Schemas, middleware, error bodies, listing endpoints; the debug endpoints that
  set any legal job status or work on the raw queue.
* The SQL of the Postgres repositories, schema creation, connections.
* Probes, drills, benchmarks, frontend, scripts, deployment.
* The SQLite queue's ordering by `available_at` and id; a job row's read, check
  and write as separate steps.

Hazards without a property have a note in `PROJECT.json` saying why: the code has
no guard there whose working could be checked.

## 9. Slips

Operators named `X_Something` just before `X`, with a comment that begins
"Mutant", are changes a maintainer might make by mistake (a dropped guard, a
swapped order, a missing count). Replacing `X` by one of them makes the run and
property named in `PROJECT.json` under `mutants` fail; they are used nowhere else.
