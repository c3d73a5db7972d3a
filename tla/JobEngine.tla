------------------------------ MODULE JobEngine ------------------------------
(***************************************************************************)
(* A job from its submission to its end: the transactional-outbox relay    *)
(* (app/routes/internal.py), the queue, the worker loop                    *)
(* (app/worker_runtime.py), the drain-once and run-now endpoints, and      *)
(* run_job_once / transition_job_status / cancel_job (app/store_admin.py). *)
(*                                                                         *)
(* Request handlers and worker loops are threads over one store without a  *)
(* lock, so a thread's program is cut where it reads or writes what        *)
(* another thread may write: one action per transition of the job row, per *)
(* queue call, per outbox write.  A transition (read the status, check it, *)
(* store the copy) is one action.  A row handed back by a transition is a  *)
(* copy, and what run_job_once stores later is that copy.                  *)
(*                                                                         *)
(* Documents, chunks, reports and the checkpoint trail are left to other   *)
(* modules; the parse manifest is kept because run_job_once writes it      *)
(* beside the job row.  What the parsers themselves write to it, when      *)
(* MINERU_API_KEY is set, is in ParsePipeline.                             *)
(***************************************************************************)
EXTENDS Naturals, FiniteSets

CONSTANTS
    Jobs,           \* job ids
    JobType,        \* JobType[j]: what j runs
    Msgs,           \* queue message ids
    Relays,         \* threads serving POST /outbox/relay
    Consumers,      \* consumer_name values the relay is called with
    Workers,        \* WorkerRuntime loops
    Drains,         \* threads serving POST /worker/queues/{q}/drain-once
    Runners,        \* threads serving POST /jobs/{id}/run
    MaxRetries,     \* worker_max_retries
    Faults,         \* what else may happen: see FaultKinds
    None            \* no job, no message

FaultKinds == {"cancel",    \* an operator cancels jobs
               "raise",     \* the work of a job raises
               "crash",     \* a thread dies with its process
               "publish"}   \* an operator marks outbox events published

Types == {"parse", "evaluation", "resume"}

Executors == Workers \union Drains \union Runners

ASSUME JobEngineAssumption ==
    /\ JobType \in [Jobs -> Types]
    /\ MaxRetries \in Nat
    /\ Faults \subseteq FaultKinds
    /\ None \notin Jobs /\ None \notin Msgs
    /\ Workers \intersect Drains = {}
    /\ Workers \intersect Runners = {}
    /\ Drains \intersect Runners = {}

VARIABLES
    job,            \* job[j]: the row of j in the jobs table
    manifest,       \* manifest[j]: parse_manifests.status of j
    dlq,            \* dlq[j]: number of dead-letter items of j
    creating,       \* jobs stored by a handler that has not appended the event
    outbox,         \* outbox[j]: status of the job.created event of j
    delivered,      \* delivery records <<j, c>>: event of j, consumer c
    stage, attempt, \* the queue (QueueContract)
    carries,        \* carries[m]: <<j, c>> in the payload of message m
    relay,          \* relay[r]: local state of a relay request
    exec            \* exec[e]: local state of an executor

storeVars == <<job, manifest, dlq>>
outboxVars == <<creating, outbox, delivered>>
queueVars == <<stage, attempt, carries>>
vars == <<storeVars, outboxVars, queueVars, relay, exec>>

Queue == INSTANCE QueueContract

-----------------------------------------------------------------------------
(* Types *)

Status == {"absent", "queued", "running", "retrying", "needs_manual_decision",
           "succeeded", "dlq_pending", "dlq_recorded", "failed"}

\* cancelled: error_code is JOB_CANCELLED
Row == [status : Status, retries : Nat, cancelled : BOOLEAN]

NoRow == [status |-> "absent", retries |-> 0, cancelled |-> FALSE]

ManifestStatus == {"none", "queued", "running", "retrying", "succeeded", "failed"}

Modes == {"plain", "transient", "force"}

Results == {"none", "succeeded", "failed", "retrying", "needs_manual_decision",
            "raised"}

ExecutorState ==
    [pc : {"idle", "start", "ready", "retrying", "dlq_pending", "dlq_recorded",
           "seeded", "indexing", "answer"},
     job : Jobs \union {None},
     msg : Msgs \union {None},
     mode : Modes,          \* the request's force_fail / transient_fail
     copy : Row,            \* the local variable job / retried_job
     result : Results]

IdleExecutor == [pc |-> "idle", job |-> None, msg |-> None, mode |-> "plain",
                 copy |-> NoRow, result |-> "none"]

RelayState ==
    [pc : {"idle", "loop", "mark", "publish"},
     consumer : Consumers \union {None},
     todo : SUBSET Jobs,    \* events of pending_events not handled yet
     event : Jobs \union {None}]

IdleRelay == [pc |-> "idle", consumer |-> None, todo |-> {}, event |-> None]

TypeOK ==
    /\ job \in [Jobs -> Row]
    /\ manifest \in [Jobs -> ManifestStatus]
    /\ dlq \in [Jobs -> Nat]
    /\ creating \subseteq Jobs
    /\ outbox \in [Jobs -> {"none", "pending", "published"}]
    /\ delivered \subseteq Jobs \X Consumers
    /\ Queue!QueueTypeOK
    /\ carries \in [Msgs -> (Jobs \X Consumers) \union {<<None, None>>}]
    /\ relay \in [Relays -> RelayState]
    /\ exec \in [Executors -> ExecutorState]

Init ==
    /\ job = [j \in Jobs |-> NoRow]
    /\ manifest = [j \in Jobs |-> "none"]
    /\ dlq = [j \in Jobs |-> 0]
    /\ creating = {}
    /\ outbox = [j \in Jobs |-> "none"]
    /\ delivered = {}
    /\ Queue!QueueInit
    /\ carries = [m \in Msgs |-> <<None, None>>]
    /\ relay = [r \in Relays |-> IdleRelay]
    /\ exec = [e \in Executors |-> IdleExecutor]

-----------------------------------------------------------------------------
(* The job row *)

ALLOWED_TRANSITIONS ==
    {<<"queued", "running">>,
     <<"running", "retrying">>, <<"running", "succeeded">>,
     <<"running", "needs_manual_decision">>, <<"running", "dlq_pending">>,
     <<"retrying", "running">>, <<"retrying", "dlq_pending">>,
     <<"needs_manual_decision", "running">>,
     <<"needs_manual_decision", "succeeded">>,
     <<"dlq_pending", "dlq_recorded">>,
     <<"dlq_recorded", "failed">>}

\* transition_job_status accepts the present status (and does nothing) and
\* the successors in the table; anything else is a 409.
CanTransition(row, to) ==
    row.status = to \/ <<row.status, to>> \in ALLOWED_TRANSITIONS

\* Slips a change to this code could make are defined before what they would
\* replace, under its name with a suffix; each breaks a property below.
Transitioned_CountsDown(row, to) ==
    [row EXCEPT !.status = to,
                !.retries = IF to = "retrying" /\ row.status # to THEN @ - 1 ELSE @]

Transitioned(row, to) ==
    [row EXCEPT !.status = to,
                !.retries = IF to = "retrying" /\ row.status # to THEN @ + 1 ELSE @]

SetManifest(j, s) ==
    manifest' = IF JobType[j] = "parse" THEN [manifest EXCEPT ![j] = s] ELSE manifest

Settled(row) == row.status \in {"succeeded", "failed", "needs_manual_decision"}

-----------------------------------------------------------------------------
(* Submission: a handler stores the job (and the manifest of a parse job),  *)
(* then appends the job.created event.                                      *)

CreateJob(j) ==
    /\ job[j].status = "absent"
    /\ job' = [job EXCEPT ![j].status = "queued"]
    /\ SetManifest(j, "queued")
    /\ creating' = creating \union {j}
    /\ UNCHANGED <<dlq, outbox, delivered, queueVars, relay, exec>>

AppendOutboxEvent(j) ==
    /\ j \in creating
    /\ creating' = creating \ {j}
    /\ outbox' = [outbox EXCEPT ![j] = "pending"]
    /\ UNCHANGED <<storeVars, delivered, queueVars, relay, exec>>

CancelJob(j) ==
    /\ "cancel" \in Faults
    /\ job[j].status \notin {"absent", "succeeded", "failed"}
    /\ job' = [job EXCEPT ![j].status = "failed", ![j].cancelled = TRUE]
    /\ UNCHANGED <<manifest, dlq, outboxVars, queueVars, relay, exec>>

-----------------------------------------------------------------------------
(* POST /outbox/relay: the pending events are read once, then handled one   *)
(* by one; each store or queue call in between is a step of its own.        *)

\* Mutant: the relay takes up published events again.
StartRelay_AnyStatus(r, c) ==
    /\ relay[r].pc = "idle"
    /\ relay' = [relay EXCEPT ![r] = [pc |-> "loop", consumer |-> c, event |-> None,
                                      todo |-> {j \in Jobs : outbox[j] # "none"}]]
    /\ UNCHANGED <<storeVars, outboxVars, queueVars, exec>>

\* Mutant: the events are published before they are enqueued.
StartRelay_PublishesFirst(r, c) ==
    /\ relay[r].pc = "idle"
    /\ \E j \in Jobs : outbox[j] = "pending"
    /\ relay' = [relay EXCEPT ![r] = [pc |-> "loop", consumer |-> c, event |-> None,
                                      todo |-> {j \in Jobs : outbox[j] = "pending"}]]
    /\ outbox' = [j \in Jobs |-> IF outbox[j] = "none" THEN "none" ELSE "published"]
    /\ UNCHANGED <<storeVars, creating, delivered, queueVars, exec>>

StartRelay(r, c) ==
    /\ relay[r].pc = "idle"
    /\ \E j \in Jobs : outbox[j] = "pending"
    /\ relay' = [relay EXCEPT ![r] =
                    [pc |-> "loop", consumer |-> c, event |-> None,
                     todo |-> {j \in Jobs : outbox[j] = "pending"}]]
    /\ UNCHANGED <<storeVars, outboxVars, queueVars, exec>>

\* This consumer has its message already: only the status is caught up.
RelaySkip(r, j) ==
    /\ relay[r].pc = "loop"
    /\ j \in relay[r].todo
    /\ <<j, relay[r].consumer>> \in delivered
    /\ outbox' = [outbox EXCEPT ![j] = "published"]
    /\ relay' = [relay EXCEPT ![r].todo = @ \ {j}]
    /\ UNCHANGED <<storeVars, creating, delivered, queueVars, exec>>

RelayEnqueue(r, j) ==
    /\ relay[r].pc = "loop"
    /\ j \in relay[r].todo
    /\ <<j, relay[r].consumer>> \notin delivered
    /\ \E m \in Msgs :
        /\ Queue!Enqueue(m)
        /\ carries' = [carries EXCEPT ![m] = <<j, relay[r].consumer>>]
    /\ relay' = [relay EXCEPT ![r].pc = "mark", ![r].event = j,
                              ![r].todo = @ \ {j}]
    /\ UNCHANGED <<storeVars, outboxVars, exec>>

RelayMarkDelivered(r) ==
    /\ relay[r].pc = "mark"
    /\ delivered' = delivered \union {<<relay[r].event, relay[r].consumer>>}
    /\ relay' = [relay EXCEPT ![r].pc = "publish"]
    /\ UNCHANGED <<storeVars, creating, outbox, queueVars, exec>>

RelayMarkPublished(r) ==
    /\ relay[r].pc = "publish"
    /\ outbox' = [outbox EXCEPT ![relay[r].event] = "published"]
    /\ relay' = [relay EXCEPT ![r].pc = "loop", ![r].event = None]
    /\ UNCHANGED <<storeVars, creating, delivered, queueVars, exec>>

RelayDone(r) ==
    /\ relay[r].pc = "loop"
    /\ relay[r].todo = {}
    /\ relay' = [relay EXCEPT ![r] = IdleRelay]
    /\ UNCHANGED <<storeVars, outboxVars, queueVars, exec>>

\* POST /outbox/events/{id}/publish marks an event without enqueuing it.
PublishByHand(j) ==
    /\ "publish" \in Faults
    /\ outbox[j] # "none"
    /\ outbox' = [outbox EXCEPT ![j] = "published"]
    /\ UNCHANGED <<storeVars, creating, delivered, queueVars, relay, exec>>

-----------------------------------------------------------------------------
(* run_job_once, step by step, in the thread of executor e *)

JobOf(e) == exec[e].job

AtStep(e, pc) == exec[e].pc = pc

GoTo(e, pc) == exec' = [exec EXCEPT ![e].pc = pc]

Return(e, result) ==
    exec' = [exec EXCEPT ![e].pc = "answer", ![e].result = result]

\* Move the row of e's job and go on, or raise the 409 and leave it alone.
TransitionOr409(e, to, continue) ==
    LET j == JobOf(e) IN
    IF CanTransition(job[j], to)
    THEN job' = [job EXCEPT ![j] = Transitioned(@, to)] /\ continue
    ELSE UNCHANGED job /\ Return(e, "raised")

BeginRun(e, j, m, mode) ==
    exec' = [exec EXCEPT ![e] = [IdleExecutor EXCEPT !.pc = "start", !.job = j,
                                                     !.msg = m, !.mode = mode]]

\* Mutant: the message dequeued stays available.
DequeueAndRun_Peeks(e) ==
    /\ e \in Workers \union Drains
    /\ AtStep(e, "idle")
    /\ \E m \in Msgs, mode \in IF e \in Workers THEN {"plain"} ELSE Modes :
        /\ stage[m] = "pending"
        /\ BeginRun(e, carries[m][1], m, mode)
    /\ UNCHANGED <<storeVars, outboxVars, queueVars, relay>>

\* The worker never asks for a failure; the debug endpoints may.
DequeueAndRun(e) ==
    /\ e \in Workers \union Drains
    /\ AtStep(e, "idle")
    /\ \E m \in Msgs, mode \in IF e \in Workers THEN {"plain"} ELSE Modes :
        /\ Queue!Dequeue(m)
        /\ BeginRun(e, carries[m][1], m, mode)
    /\ UNCHANGED <<storeVars, outboxVars, carries, relay>>

RunNow(e, j) ==
    /\ e \in Runners
    /\ AtStep(e, "idle")
    /\ job[j].status # "absent"
    /\ \E mode \in Modes : BeginRun(e, j, None, mode)
    /\ UNCHANGED <<storeVars, outboxVars, queueVars, relay>>

\* A runnable job starts; a job already running is run again; any other
\* status is refused, but only after the manifest was set to running.
Start(e) ==
    LET j == JobOf(e)
        row == IF job[j].status \in {"queued", "retrying", "needs_manual_decision"}
               THEN Transitioned(job[j], "running")
               ELSE job[j]
    IN  /\ AtStep(e, "start")
        /\ job' = [job EXCEPT ![j] = row]
        /\ SetManifest(j, "running")
        /\ IF row.status = "running"
           THEN exec' = [exec EXCEPT ![e].pc = "ready", ![e].copy = row]
           ELSE Return(e, "raised")
        /\ UNCHANGED <<dlq, outboxVars, queueVars, relay>>

\* Mutant: the retry limit is off by one.
MayRetry_OneMore(e) == exec[e].mode = "transient" /\ exec[e].copy.retries <= MaxRetries

MayRetry(e) == exec[e].mode = "transient" /\ exec[e].copy.retries < MaxRetries

Retry(e) ==
    LET j == JobOf(e) IN
    /\ AtStep(e, "ready")
    /\ MayRetry(e)
    /\ TransitionOr409(e, "retrying",
           exec' = [exec EXCEPT ![e].pc = "retrying",
                                ![e].copy = Transitioned(job[j], "retrying")])
    /\ UNCHANGED <<manifest, dlq, outboxVars, queueVars, relay>>

\* The copy, now with next_retry_at and last_error, replaces the whole row.
StoreRetriedJob(e) ==
    LET j == JobOf(e) IN
    /\ AtStep(e, "retrying")
    /\ job' = [job EXCEPT ![j] = exec[e].copy]
    /\ SetManifest(j, "retrying")
    /\ Return(e, "retrying")
    /\ UNCHANGED <<dlq, outboxVars, queueVars, relay>>

MustFail(e) ==
    \/ exec[e].mode = "force"
    \/ exec[e].mode = "transient" /\ ~MayRetry(e)

EnterDlqPending(e) ==
    /\ AtStep(e, "ready")
    /\ MustFail(e)
    /\ TransitionOr409(e, "dlq_pending", GoTo(e, "dlq_pending"))
    /\ UNCHANGED <<manifest, dlq, outboxVars, queueVars, relay>>

\* Mutant: the job is recorded without its dead-letter item.
EnterDlqRecorded_SkipsItem(e) ==
    /\ AtStep(e, "dlq_pending")
    /\ TransitionOr409(e, "dlq_recorded", GoTo(e, "seeded"))
    /\ UNCHANGED <<manifest, dlq, outboxVars, queueVars, relay>>

EnterDlqRecorded(e) ==
    /\ AtStep(e, "dlq_pending")
    /\ TransitionOr409(e, "dlq_recorded", GoTo(e, "dlq_recorded"))
    /\ UNCHANGED <<manifest, dlq, outboxVars, queueVars, relay>>

SeedDlqItem(e) ==
    /\ AtStep(e, "dlq_recorded")
    /\ dlq' = [dlq EXCEPT ![JobOf(e)] = @ + 1]
    /\ GoTo(e, "seeded")
    /\ UNCHANGED <<job, manifest, outboxVars, queueVars, relay>>

\* Mutant: the manifest of a failed job stays running.
FailJob_LeavesManifest(e) ==
    /\ AtStep(e, "seeded")
    /\ TransitionOr409(e, "failed", Return(e, "failed"))
    /\ UNCHANGED <<manifest, dlq, outboxVars, queueVars, relay>>

FailJob(e) ==
    /\ AtStep(e, "seeded")
    /\ TransitionOr409(e, "failed", Return(e, "failed"))
    /\ IF CanTransition(job[JobOf(e)], "failed")
       THEN SetManifest(JobOf(e), "failed")
       ELSE UNCHANGED manifest
    /\ UNCHANGED <<dlq, outboxVars, queueVars, relay>>

\* A parse job is succeeded before its file is parsed.
Succeed(e) ==
    /\ AtStep(e, "ready")
    /\ exec[e].mode = "plain"
    /\ TransitionOr409(e, "succeeded",
           IF JobType[JobOf(e)] = "parse" THEN GoTo(e, "indexing")
                                          ELSE Return(e, "succeeded"))
    /\ UNCHANGED <<manifest, dlq, outboxVars, queueVars, relay>>

IndexDocument(e) ==
    /\ AtStep(e, "indexing")
    /\ SetManifest(JobOf(e), "succeeded")
    /\ \/ Return(e, "succeeded")
       \/ "raise" \in Faults /\ Return(e, "raised")
    /\ UNCHANGED <<job, dlq, outboxVars, queueVars, relay>>

\* The quality gate asks for a human.  (Where the graph falls back to the
\* compatibility path after a refused transition, that path is Succeed.)
Interrupt(e) ==
    /\ AtStep(e, "ready")
    /\ exec[e].mode = "plain"
    /\ JobType[JobOf(e)] = "evaluation"
    /\ TransitionOr409(e, "needs_manual_decision", Return(e, "needs_manual_decision"))
    /\ UNCHANGED <<manifest, dlq, outboxVars, queueVars, relay>>

\* A node of the graph raises where no fallback is allowed (true stack), or the
\* graph interrupts a resume job.
WorkflowRaises(e) ==
    /\ "raise" \in Faults
    /\ AtStep(e, "ready")
    /\ exec[e].mode = "plain"
    /\ JobType[JobOf(e)] \in {"evaluation", "resume"}
    /\ Return(e, "raised")
    /\ UNCHANGED <<storeVars, outboxVars, queueVars, relay>>

-----------------------------------------------------------------------------
(* What the caller of run_job_once does with its answer *)

GoIdle(e) == exec' = [exec EXCEPT ![e] = IdleExecutor]

\* Mutant: the message is acked whatever the answer.
AckMessage_AlsoRetrying(e) ==
    /\ AtStep(e, "answer")
    /\ e \in Workers \union Drains
    /\ Queue!Ack(exec[e].msg)
    /\ GoIdle(e)
    /\ UNCHANGED <<storeVars, outboxVars, carries, relay>>

\* The worker also acks the message of a run that raised.
AckMessage(e) ==
    /\ AtStep(e, "answer")
    /\ \/ e \in Workers /\ exec[e].result # "retrying"
       \/ e \in Drains /\ exec[e].result \notin {"retrying", "raised"}
    /\ Queue!Ack(exec[e].msg)
    /\ GoIdle(e)
    /\ UNCHANGED <<storeVars, outboxVars, carries, relay>>

\* Mutant: a nacked message is dropped.
NackMessage_Drops(e) ==
    /\ AtStep(e, "answer")
    /\ e \in Workers \union Drains
    /\ exec[e].result = "retrying"
    /\ Queue!Nack(exec[e].msg, FALSE)
    /\ GoIdle(e)
    /\ UNCHANGED <<storeVars, outboxVars, carries, relay>>

NackMessage(e) ==
    /\ AtStep(e, "answer")
    /\ e \in Workers \union Drains
    /\ exec[e].result = "retrying"
    /\ Queue!Nack(exec[e].msg, TRUE)
    /\ GoIdle(e)
    /\ UNCHANGED <<storeVars, outboxVars, carries, relay>>

\* drain-once lets the exception out and its message stays in flight;
\* run-now has no message.
LeaveMessage(e) ==
    /\ AtStep(e, "answer")
    /\ \/ e \in Drains /\ exec[e].result = "raised"
       \/ e \in Runners
    /\ GoIdle(e)
    /\ UNCHANGED <<storeVars, outboxVars, queueVars, relay>>

\* A thread dies with its process; what it stored or enqueued stays.
CrashExecutor(e) ==
    /\ "crash" \in Faults
    /\ ~AtStep(e, "idle")
    /\ GoIdle(e)
    /\ UNCHANGED <<storeVars, outboxVars, queueVars, relay>>

CrashRelay(r) ==
    /\ "crash" \in Faults
    /\ relay[r].pc # "idle"
    /\ relay' = [relay EXCEPT ![r] = IdleRelay]
    /\ UNCHANGED <<storeVars, outboxVars, queueVars, exec>>

CrashSubmission(j) ==
    /\ "crash" \in Faults
    /\ j \in creating
    /\ creating' = creating \ {j}
    /\ UNCHANGED <<storeVars, outbox, delivered, queueVars, relay, exec>>

-----------------------------------------------------------------------------
SubmissionStep(j) ==
    CreateJob(j) \/ AppendOutboxEvent(j) \/ CancelJob(j) \/ PublishByHand(j)

RelayStep(r) ==
    \/ \E c \in Consumers : StartRelay(r, c)
    \/ \E j \in Jobs : RelaySkip(r, j) \/ RelayEnqueue(r, j)
    \/ RelayMarkDelivered(r) \/ RelayMarkPublished(r) \/ RelayDone(r)

\* The rest of a run once it has begun.
RunStep(e) ==
    \/ Start(e) \/ Retry(e) \/ StoreRetriedJob(e)
    \/ EnterDlqPending(e) \/ EnterDlqRecorded(e) \/ SeedDlqItem(e) \/ FailJob(e)
    \/ Succeed(e) \/ IndexDocument(e) \/ Interrupt(e) \/ WorkflowRaises(e)
    \/ AckMessage(e) \/ NackMessage(e) \/ LeaveMessage(e)

ExecutorStep(e) ==
    \/ DequeueAndRun(e)
    \/ \E j \in Jobs : RunNow(e, j)
    \/ RunStep(e)

Crash ==
    \/ \E e \in Executors : CrashExecutor(e)
    \/ \E r \in Relays : CrashRelay(r)
    \/ \E j \in Jobs : CrashSubmission(j)

Next ==
    \/ \E j \in Jobs : SubmissionStep(j)
    \/ \E r \in Relays : RelayStep(r)
    \/ \E e \in Executors : ExecutorStep(e)
    \/ Crash

Spec == Init /\ [][Next]_vars

\* A thread that runs keeps running; the relay endpoint is called again and
\* again, and each worker loop polls for ever.  Nobody has to call
\* drain-once, run-now, cancel or publish.
FairSpec ==
    /\ Spec
    /\ \A j \in Jobs : WF_vars(AppendOutboxEvent(j))
    /\ \A r \in Relays : WF_vars(RelayStep(r))
    /\ \A e \in Executors : WF_vars(RunStep(e))
    /\ \A e \in Workers : WF_vars(DequeueAndRun(e))

-----------------------------------------------------------------------------
(* Properties.  Which of them a deployment keeps depends on its Faults and  *)
(* on how many relays, drains and runners there are; README.md says which   *)
(* run asks what.                                                           *)

Busy(e) == exec[e].pc # "idle"

Used(m) == stage[m] # "unused"

MessageJob(m) == carries[m][1]

\* run_job_once and cancel_job: a failed job has a dead-letter item, unless
\* an operator cancelled it, in every interleaving of relays, executors,
\* run-now requests and crashes.
FailedIsAccounted ==
    \A j \in Jobs :
        job[j].status = "failed" => job[j].cancelled \/ dlq[j] > 0

\* relay_outbox_events enqueues before it marks the event: whatever the relays'
\* order and wherever one dies, a published event has reached the queue.
PublishedWasEnqueued ==
    \A j \in Jobs :
        outbox[j] = "published" => \E m \in Msgs : Used(m) /\ MessageJob(m) = j

\* relay_outbox_events skips what is delivered and list_outbox_events returns
\* what is pending only: one job never has two messages.
OneMessagePerJob ==
    \A m, n \in Msgs :
        Used(m) /\ Used(n) /\ MessageJob(m) = MessageJob(n) => m = n

\* run_job_once has no lock: that two threads never run one job at a time
\* rests on the queue handing out the job's only message once.
ExclusiveExecution ==
    \A e, f \in Executors :
        Busy(e) /\ Busy(f) /\ JobOf(e) = JobOf(f) => e = f

\* run_job_once tests retry_count on its local copy and transition_job_status
\* counts on the row: together they keep to worker_max_retries.
RetriesWithinBudget ==
    \A j \in Jobs : job[j].retries <= MaxRetries

\* A job that is not settled is in somebody's hands: its handler, the outbox,
\* a relay, a queue message that will be served, or a thread that runs it.
\* Nothing scans the jobs table for forgotten ones.
UnsettledHasCarrier ==
    \A j \in Jobs :
        \/ job[j].status = "absent" \/ Settled(job[j])
        \/ j \in creating
        \/ outbox[j] = "pending"
        \/ \E m \in Msgs : stage[m] = "pending" /\ MessageJob(m) = j
        \/ \E e \in Executors : Busy(e) /\ JobOf(e) = j

\* run_job_once writes the parse manifest apart from the job row: once nobody
\* runs the job the two agree.
ManifestAgrees ==
    \A j \in Jobs :
        /\ JobType[j] = "parse"
        /\ job[j].status # "absent"
        /\ \A e \in Executors : Busy(e) => JobOf(e) # j
        => manifest[j] = job[j].status

Contract == INSTANCE JobContract WITH
    status <- [j \in Jobs |-> job[j].status],
    retries <- [j \in Jobs |-> job[j].retries],
    parked <- {j \in Jobs : dlq[j] > 0}

\* With messages delivered once and nobody cancelling, run_job_once and
\* transition_job_status walk every job along the path of JobContract.
ImplementsContract == Contract!ContractSpec

\* WorkerRuntime.run_forever and the relay: a submitted job ends as succeeded,
\* failed or waiting for a human.
EverySubmittedSettles ==
    \A j \in Jobs : job[j].status # "absent" ~> Settled(job[j])
=============================================================================
