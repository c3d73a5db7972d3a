--------------------------- MODULE JobEngineProofs ---------------------------
(***************************************************************************)
(* Theorems about JobEngine for every set of jobs, messages and threads.   *)
(*                                                                         *)
(* 1. Whatever happens: the types, that a failed job is accounted for, and *)
(*    (unless entries are published by hand) that a published event has    *)
(*    been enqueued.                                                       *)
(* 2. With one relay call at a time, no run-now requests and no process    *)
(*    deaths: one job has one message and one executor and keeps to its    *)
(*    retry budget.                                                        *)
(* 3. Under those conditions a run and the row of its job go through       *)
(*    run_job_once in step.  From that follow, each under its own faults:  *)
(*    JobEngine implements JobContract, every row goes forward to an       *)
(*    outcome that is final, the manifest of a parse job agrees with its   *)
(*    row, and no unsettled job is forgotten.                              *)
(***************************************************************************)
EXTENDS JobEngine, TLAPS

USE DEF Executors

-----------------------------------------------------------------------------
(* What the types leave out: a message in use carries a job, and a thread   *)
(* that has begun has a job, a consumer or an event to work on.             *)

WellFormed ==
    /\ \A m \in Msgs : Used(m) => carries[m] \in Jobs \X Consumers
    /\ \A r \in Relays : relay[r].pc # "idle" => relay[r].consumer \in Consumers
    /\ \A r \in Relays :
        relay[r].pc \in {"mark", "publish"} => relay[r].event \in Jobs
    /\ \A e \in Executors : Busy(e) => JobOf(e) \in Jobs

TypeInv == TypeOK /\ WellFormed

\* A transition yields a row with the new status that keeps the operator's mark.
LEMMA TransitionedRow ==
    ASSUME NEW row \in Row, NEW to \in Status
    PROVE  /\ Transitioned(row, to) \in Row
           /\ Transitioned(row, to).status = to
           /\ Transitioned(row, to).cancelled = row.cancelled
<1>1. row = [status |-> row.status, retries |-> row.retries, cancelled |-> row.cancelled]
      /\ row.status \in Status /\ row.retries \in Nat /\ row.cancelled \in BOOLEAN
  BY DEF Row
<1>2. CASE to = "retrying" /\ row.status # to
  <2>1. row.retries + 1 \in Nat
    BY <1>1
  <2>2. Transitioned(row, to) = [row EXCEPT !.status = to, !.retries = row.retries + 1]
    BY <1>2, Zenon DEF Transitioned
  <2> QED
    BY <1>1, <2>1, <2>2 DEF Row
<1>3. CASE ~(to = "retrying" /\ row.status # to)
  BY <1>1, <1>3 DEF Transitioned, Row
<1> QED
  BY <1>2, <1>3

\* A step of transition_job_status changes no row but e's job's, and that one to
\* a row of the new status.
LEMMA TransitionStep ==
    ASSUME NEW e \in Executors, NEW to \in Status, NEW continue,
           TypeInv, Busy(e), TransitionOr409(e, to, continue)
    PROVE  \/ /\ CanTransition(job[JobOf(e)], to)
              /\ continue
              /\ Transitioned(job[JobOf(e)], to) \in Row
              /\ job' = [job EXCEPT ![JobOf(e)] = Transitioned(@, to)]
           \/ /\ ~CanTransition(job[JobOf(e)], to)
              /\ job' = job
              /\ Return(e, "raised")
<1>1. JobOf(e) \in Jobs /\ job[JobOf(e)] \in Row
  BY DEF TypeInv, TypeOK, WellFormed
<1>2. Transitioned(job[JobOf(e)], to) \in Row
  BY <1>1, TransitionedRow
<1> QED
  BY <1>1, <1>2 DEF TransitionOr409

\* Init establishes the types.
LEMMA TypeInit == Init => TypeInv
BY JobEngineAssumption
   DEF Init, TypeInv, TypeOK, WellFormed, Row, NoRow, Status, ManifestStatus,
       Queue!QueueInit, Queue!QueueTypeOK, Queue!Stages, Used, Busy,
       RelayState, IdleRelay, ExecutorState, IdleExecutor, Modes, Results

\* Submission, cancelling and publishing by hand keep the types.
LEMMA TypeSubmission ==
    ASSUME TypeInv, NEW j \in Jobs, SubmissionStep(j)
    PROVE  TypeInv'
<1>0. job \in [Jobs -> Row] /\ manifest \in [Jobs -> ManifestStatus]
  BY DEF TypeInv, TypeOK
<1>1. job' \in [Jobs -> Row]
  <2>1. CASE CreateJob(j)
    <3>1. [job[j] EXCEPT !.status = "queued"] \in Row
      BY <1>0 DEF Row, Status
    <3> QED
      BY <1>0, <2>1, <3>1 DEF CreateJob
  <2>2. CASE CancelJob(j)
    <3>1. [job[j] EXCEPT !.status = "failed", !.cancelled = TRUE] \in Row
      BY <1>0 DEF Row, Status
    <3> QED
      BY <1>0, <2>2, <3>1 DEF CancelJob
  <2>3. CASE AppendOutboxEvent(j) \/ PublishByHand(j)
    BY <1>0, <2>3 DEF AppendOutboxEvent, PublishByHand, storeVars
  <2> QED
    BY <2>1, <2>2, <2>3 DEF SubmissionStep
<1>2. manifest' \in [Jobs -> ManifestStatus]
  <2>1. CASE CreateJob(j)
    BY <1>0, <2>1 DEF CreateJob, SetManifest, ManifestStatus
  <2>2. CASE CancelJob(j) \/ AppendOutboxEvent(j) \/ PublishByHand(j)
    BY <1>0, <2>2 DEF CancelJob, AppendOutboxEvent, PublishByHand, storeVars
  <2> QED
    BY <2>1, <2>2 DEF SubmissionStep
<1>3. outbox' \in [Jobs -> {"none", "pending", "published"}] /\ creating' \subseteq Jobs
  BY DEF TypeInv, TypeOK, SubmissionStep, CreateJob, CancelJob, AppendOutboxEvent,
         PublishByHand, outboxVars
<1>4. UNCHANGED <<dlq, delivered, queueVars, relay, exec>>
  BY DEF SubmissionStep, CreateJob, CancelJob, AppendOutboxEvent, PublishByHand,
         storeVars, outboxVars
<1>5. Queue!QueueTypeOK' /\ WellFormed'
  BY <1>4 DEF TypeInv, TypeOK, WellFormed, queueVars, Queue!QueueTypeOK, Used, Busy, JobOf
<1> QED
  BY <1>1, <1>2, <1>3, <1>4, <1>5 DEF TypeInv, TypeOK, queueVars

\* A relay that is done with an event keeps its form.
LEMMA BackToLoop ==
    ASSUME NEW s \in RelayState
    PROVE  [s EXCEPT !.pc = "loop", !.event = None] \in RelayState
BY DEF RelayState

\* A relay request keeps the types.
LEMMA TypeRelay ==
    ASSUME TypeInv, NEW r \in Relays, RelayStep(r)
    PROVE  TypeInv'
<1> USE DEF TypeInv, TypeOK, WellFormed, storeVars, outboxVars, queueVars, Used,
            Busy, JobOf, MessageJob, Queue!QueueTypeOK, RelayState
<1>1. ASSUME NEW c \in Consumers, StartRelay(r, c) PROVE TypeInv'
  BY <1>1 DEF StartRelay
<1>2. ASSUME NEW j \in Jobs, RelaySkip(r, j) PROVE TypeInv'
  BY <1>2 DEF RelaySkip
<1>3. ASSUME NEW j \in Jobs, RelayEnqueue(r, j) PROVE TypeInv'
  <2>1. PICK m \in Msgs :
            /\ Queue!Enqueue(m)
            /\ carries' = [carries EXCEPT ![m] = <<j, relay[r].consumer>>]
    BY <1>3 DEF RelayEnqueue
  <2>2. Queue!QueueTypeOK'
    BY <2>1 DEF Queue!Enqueue, Queue!Move, Queue!Stages
  <2>3. relay[r].consumer \in Consumers
    BY <1>3 DEF RelayEnqueue
  <2> QED
    BY <1>3, <2>1, <2>2, <2>3
       DEF RelayEnqueue, Queue!Enqueue, Queue!Move
<1>4. CASE RelayMarkDelivered(r)
  BY <1>4 DEF RelayMarkDelivered
<1>5. CASE RelayMarkPublished(r)
  <2>1. [relay[r] EXCEPT !.pc = "loop", !.event = None] \in RelayState
    BY BackToLoop
  <2>2. relay' = [relay EXCEPT ![r] = [relay[r] EXCEPT !.pc = "loop", !.event = None]]
    BY <1>5 DEF RelayMarkPublished
  <2>3. outbox' \in [Jobs -> {"none", "pending", "published"}]
    BY <1>5 DEF RelayMarkPublished
  <2>4. WellFormed'
    BY <1>5, <2>2 DEF RelayMarkPublished
  <2> QED
    BY <1>5, <2>1, <2>2, <2>3, <2>4 DEF RelayMarkPublished
<1>6. CASE RelayDone(r)
  BY <1>6 DEF RelayDone, IdleRelay
<1> QED
  BY <1>1, <1>2, <1>3, <1>4, <1>5, <1>6 DEF RelayStep

\* The steps that begin a run keep the types.
LEMMA TypeBegin ==
    ASSUME TypeInv, NEW e \in Executors,
           DequeueAndRun(e) \/ \E j \in Jobs : RunNow(e, j)
    PROVE  TypeInv'
<1> USE DEF TypeInv, TypeOK, WellFormed, storeVars, outboxVars, queueVars, Used,
            Busy, JobOf, AtStep, MessageJob, Queue!QueueTypeOK
<1>1. ASSUME NEW j \in Jobs, NEW m \in Msgs \union {None}, NEW mode \in Modes,
             BeginRun(e, j, m, mode)
      PROVE  /\ exec' \in [Executors -> ExecutorState]
             /\ \A f \in Executors : Busy(f)' => JobOf(f)' \in Jobs
  BY <1>1 DEF BeginRun, IdleExecutor, ExecutorState, Results, NoRow, Row, Status
<1>2. CASE DequeueAndRun(e)
  <2>1. PICK m \in Msgs, mode \in Modes :
            Queue!Dequeue(m) /\ BeginRun(e, carries[m][1], m, mode)
    BY <1>2 DEF DequeueAndRun, Modes
  <2>2. Used(m) /\ carries[m][1] \in Jobs
    BY <2>1 DEF Queue!Dequeue, Queue!Move
  <2>3. Queue!QueueTypeOK' /\ \A n \in Msgs : Used(n)' => Used(n)
    BY <2>1 DEF Queue!Dequeue, Queue!Move, Queue!Stages
  <2> QED
    BY <1>1, <1>2, <2>1, <2>2, <2>3 DEF DequeueAndRun
<1>3. ASSUME NEW j \in Jobs, RunNow(e, j) PROVE TypeInv'
  BY <1>1, <1>3 DEF RunNow
<1> QED
  BY <1>2, <1>3

\* The local state of a thread keeps its form as run_job_once goes on, keeps a
\* row, returns and is forgotten.
LEMMA LocalStep ==
    ASSUME NEW x \in ExecutorState, NEW row \in Row, NEW result \in Results,
           NEW pc \in {"ready", "retrying", "dlq_pending", "dlq_recorded", "seeded",
                       "indexing", "answer"}
    PROVE  /\ [x EXCEPT !.pc = pc] \in ExecutorState
           /\ [x EXCEPT !.pc = pc, !.copy = row] \in ExecutorState
           /\ [x EXCEPT !.pc = pc, !.result = result] \in ExecutorState
           /\ IdleExecutor \in ExecutorState
<1>1. [x EXCEPT !.pc = pc] \in ExecutorState
  BY DEF ExecutorState
<1>2. [x EXCEPT !.pc = pc, !.copy = row] \in ExecutorState
  BY DEF ExecutorState
<1>3. [x EXCEPT !.pc = pc, !.result = result] \in ExecutorState
  BY DEF ExecutorState
<1>4. IdleExecutor \in ExecutorState
  BY DEF ExecutorState, IdleExecutor, NoRow, Row, Status, Modes, Results
<1> QED
  BY <1>1, <1>2, <1>3, <1>4

\* A run that has begun keeps the types, up to its answer.
LEMMA TypeRun ==
    ASSUME TypeInv, NEW e \in Executors, ~AtStep(e, "idle"),
           \/ Start(e) \/ Retry(e) \/ StoreRetriedJob(e)
           \/ EnterDlqPending(e) \/ EnterDlqRecorded(e) \/ SeedDlqItem(e) \/ FailJob(e)
           \/ Succeed(e) \/ IndexDocument(e) \/ Interrupt(e) \/ WorkflowRaises(e)
    PROVE  TypeInv'
<1> DEFINE j == JobOf(e)
<1>0. j \in Jobs /\ job[j] \in Row /\ exec[e] \in ExecutorState /\ exec[e].copy \in Row
  BY DEF TypeInv, TypeOK, WellFormed, Busy, AtStep, ExecutorState
<1> DEFINE Kept(x) == x \in ExecutorState /\ x.job = exec[e].job
<1> DEFINE Continues == \E x : Kept(x) /\ exec' = [exec EXCEPT ![e] = x]
<1>1. SUFFICES /\ job' \in [Jobs -> Row]
               /\ manifest' \in [Jobs -> ManifestStatus]
               /\ dlq' \in [Jobs -> Nat]
               /\ Continues
  <2>1. UNCHANGED <<outboxVars, queueVars, relay>>
    BY DEF Start, Retry, StoreRetriedJob, EnterDlqPending, EnterDlqRecorded,
           SeedDlqItem, FailJob, Succeed, IndexDocument, Interrupt, WorkflowRaises
  <2> QED
    BY <1>0, <2>1
       DEF TypeInv, TypeOK, WellFormed, outboxVars, queueVars, Used, Busy, JobOf,
           Queue!QueueTypeOK
<1>2. \A s \in ManifestStatus : SetManifest(j, s) => manifest' \in [Jobs -> ManifestStatus]
  BY <1>0 DEF SetManifest, TypeInv, TypeOK
<1>3. \A pc \in {"ready", "retrying", "dlq_pending", "dlq_recorded", "seeded",
                 "indexing", "answer"}, row \in Row, result \in Results :
        /\ GoTo(e, pc) => Continues
        /\ exec' = [exec EXCEPT ![e].pc = pc, ![e].copy = row] => Continues
        /\ Return(e, result) => Continues
  <2> TAKE pc \in {"ready", "retrying", "dlq_pending", "dlq_recorded", "seeded",
                   "indexing", "answer"}, row \in Row, result \in Results
  <2>1. /\ Kept([exec[e] EXCEPT !.pc = pc])
        /\ Kept([exec[e] EXCEPT !.pc = pc, !.copy = row])
        /\ Kept([exec[e] EXCEPT !.pc = "answer", !.result = result])
    <3>1. /\ [exec[e] EXCEPT !.pc = pc] \in ExecutorState
          /\ [exec[e] EXCEPT !.pc = pc, !.copy = row] \in ExecutorState
          /\ [exec[e] EXCEPT !.pc = "answer", !.result = result] \in ExecutorState
      BY <1>0, LocalStep
    <3> QED
      BY <1>0, <3>1 DEF ExecutorState
  <2>2. ASSUME GoTo(e, pc) PROVE Continues
    BY <2>1, <2>2 DEF GoTo
  <2>3. ASSUME exec' = [exec EXCEPT ![e].pc = pc, ![e].copy = row] PROVE Continues
    BY <2>1, <2>3
  <2>4. ASSUME Return(e, result) PROVE Continues
    BY <2>1, <2>4 DEF Return
  <2> QED
    BY <2>2, <2>3, <2>4
<1> USE DEF TypeInv, TypeOK, AtStep
<1> HIDE DEF j, Continues
<1>4. ASSUME NEW to \in Status, NEW continue, TransitionOr409(e, to, continue),
             continue => Continues
      PROVE  job' \in [Jobs -> Row] /\ Continues
  <2>1. Return(e, "raised") => Continues
    BY <1>0, <1>3 DEF Results
  <2> QED
    BY <1>0, <1>4, <2>1, TransitionStep DEF Busy, j
<1>5. /\ Return(e, "succeeded") \/ Return(e, "failed") \/ Return(e, "retrying")
         \/ Return(e, "needs_manual_decision") \/ Return(e, "raised") => Continues
      /\ GoTo(e, "dlq_pending") \/ GoTo(e, "dlq_recorded") \/ GoTo(e, "seeded")
         \/ GoTo(e, "indexing") => Continues
  <2>1. exec[e].copy \in Row
    BY <1>0
  <2> QED
    BY <1>3, <2>1 DEF Results
<1>6. CASE Start(e)
  <2>1. Transitioned(job[j], "running") \in Row
    BY <1>0, TransitionedRow DEF Status
  <2>2. \E row \in Row :
            /\ job' = [job EXCEPT ![j] = row]
            /\ \/ exec' = [exec EXCEPT ![e].pc = "ready", ![e].copy = row]
               \/ Return(e, "raised")
            /\ SetManifest(j, "running")
            /\ UNCHANGED dlq
    BY <1>0, <1>6, <2>1 DEF Start, j
  <2> QED
    BY <1>0, <1>2, <1>3, <1>5, <2>2 DEF ManifestStatus, Results
<1>7. CASE Retry(e)
  <2>1. Transitioned(job[j], "retrying") \in Row
    BY <1>0, TransitionedRow DEF Status
  <2>2. exec' = [exec EXCEPT ![e].pc = "retrying",
                             ![e].copy = Transitioned(job[j], "retrying")] => Continues
    BY <1>3, <2>1 DEF Results
  <2>3. TransitionOr409(e, "retrying",
            exec' = [exec EXCEPT ![e].pc = "retrying",
                                 ![e].copy = Transitioned(job[j], "retrying")])
        /\ UNCHANGED <<manifest, dlq>>
    BY <1>7 DEF Retry, j
  <2> QED
    BY <1>4, <2>2, <2>3 DEF Status
<1>8. CASE StoreRetriedJob(e)
  BY <1>0, <1>2, <1>5, <1>8 DEF StoreRetriedJob, ManifestStatus, j
<1>9. CASE EnterDlqPending(e)
  BY <1>4, <1>5, <1>9 DEF EnterDlqPending, Status
<1>10. CASE EnterDlqRecorded(e)
  BY <1>4, <1>5, <1>10 DEF EnterDlqRecorded, Status
<1>11. CASE SeedDlqItem(e)
  BY <1>0, <1>5, <1>11 DEF SeedDlqItem, j
<1>12. CASE FailJob(e)
  <2>1. TransitionOr409(e, "failed", Return(e, "failed"))
        /\ (SetManifest(j, "failed") \/ UNCHANGED manifest) /\ UNCHANGED dlq
    BY <1>12 DEF FailJob, j
  <2> QED
    BY <1>2, <1>4, <1>5, <2>1 DEF Status, ManifestStatus
<1>13. CASE Succeed(e)
  <2>1. (IF JobType[JobOf(e)] = "parse" THEN GoTo(e, "indexing")
                                        ELSE Return(e, "succeeded")) => Continues
    BY <1>5
  <2> QED
    BY <1>4, <1>13, <2>1 DEF Succeed, Status
<1>2a. CASE IndexDocument(e)
  BY <1>2, <1>5, <1>2a DEF IndexDocument, ManifestStatus, j
<1>15. CASE Interrupt(e)
  BY <1>4, <1>5, <1>15 DEF Interrupt, Status
<1>16. CASE WorkflowRaises(e)
  BY <1>5, <1>16 DEF WorkflowRaises, storeVars
<1> QED
  BY <1>6, <1>7, <1>8, <1>9, <1>10, <1>11, <1>12, <1>13, <1>2a, <1>15, <1>16

\* What becomes of the message keeps the types, and so does a crash.
LEMMA TypeEnd ==
    ASSUME TypeInv,
           \/ \E e \in Executors :
                AckMessage(e) \/ NackMessage(e) \/ LeaveMessage(e) \/ CrashExecutor(e)
           \/ \E r \in Relays : CrashRelay(r)
           \/ \E j \in Jobs : CrashSubmission(j)
    PROVE  TypeInv'
<1> USE DEF TypeInv, TypeOK, WellFormed, storeVars, outboxVars, queueVars, Used,
            Busy, JobOf, Queue!QueueTypeOK
<1>1. ASSUME NEW e \in Executors, GoIdle(e)
      PROVE  /\ exec' \in [Executors -> ExecutorState]
             /\ \A f \in Executors : Busy(f)' => JobOf(f)' \in Jobs
  <2>1. IdleExecutor \in ExecutorState /\ IdleExecutor.pc = "idle"
    BY DEF IdleExecutor, ExecutorState, NoRow, Row, Status, Modes, Results
  <2> QED
    BY <1>1, <2>1 DEF GoIdle
<1>2. ASSUME NEW e \in Executors, AckMessage(e) \/ NackMessage(e)
      PROVE  TypeInv'
  <2>1. PICK m : Queue!Ack(m) \/ Queue!Nack(m, TRUE)
    BY <1>2 DEF AckMessage, NackMessage
  <2>2. Queue!QueueTypeOK' /\ \A n \in Msgs : Used(n)' => Used(n)
    BY <2>1 DEF Queue!Ack, Queue!Nack, Queue!Move, Queue!Stages
  <2> QED
    BY <1>1, <1>2, <2>2 DEF AckMessage, NackMessage
<1>3. ASSUME NEW e \in Executors, LeaveMessage(e) \/ CrashExecutor(e)
      PROVE  TypeInv'
  BY <1>1, <1>3 DEF LeaveMessage, CrashExecutor
<1>4. ASSUME NEW r \in Relays, CrashRelay(r) PROVE TypeInv'
  BY <1>4 DEF CrashRelay, RelayState, IdleRelay
<1>5. ASSUME NEW j \in Jobs, CrashSubmission(j) PROVE TypeInv'
  BY <1>5 DEF CrashSubmission
<1> QED
  BY <1>2, <1>3, <1>4, <1>5

\* Every step of Next is of one of the kinds above.
LEMMA TypeNext == TypeInv /\ [Next]_vars => TypeInv'
<1> SUFFICES ASSUME TypeInv, [Next]_vars PROVE TypeInv'
  OBVIOUS
<1>1. CASE UNCHANGED vars
  BY <1>1 DEF vars, storeVars, outboxVars, queueVars, TypeInv, TypeOK, WellFormed,
              Used, Busy, JobOf, Queue!QueueTypeOK
<1>2. CASE \E j \in Jobs : SubmissionStep(j)
  BY <1>2, TypeSubmission
<1>3. CASE \E r \in Relays : RelayStep(r)
  BY <1>3, TypeRelay
<1>4. ASSUME NEW e \in Executors, ExecutorStep(e) PROVE TypeInv'
  <2>1. CASE DequeueAndRun(e) \/ \E j \in Jobs : RunNow(e, j)
    BY <2>1, TypeBegin
  <2>2. CASE \/ Start(e) \/ Retry(e) \/ StoreRetriedJob(e) \/ EnterDlqPending(e)
             \/ EnterDlqRecorded(e) \/ SeedDlqItem(e) \/ FailJob(e) \/ Succeed(e)
             \/ IndexDocument(e) \/ Interrupt(e) \/ WorkflowRaises(e)
    <3>1. ~AtStep(e, "idle")
      BY <2>2 DEF Start, Retry, StoreRetriedJob, EnterDlqPending, EnterDlqRecorded,
                  SeedDlqItem, FailJob, Succeed, IndexDocument, Interrupt,
                  WorkflowRaises, AtStep
    <3> QED
      BY <2>2, <3>1, TypeRun
  <2>3. CASE AckMessage(e) \/ NackMessage(e) \/ LeaveMessage(e)
    BY <2>3, TypeEnd
  <2> QED
    BY <1>4, <2>1, <2>2, <2>3 DEF ExecutorStep, RunStep
<1>5. CASE Crash
  BY <1>5, TypeEnd DEF Crash
<1> QED
  BY <1>1, <1>2, <1>3, <1>4, <1>5 DEF Next

\* The variables of JobEngine keep their types, with any number of relays,
\* executors, messages and faults.
THEOREM TypeCorrect == Spec => []TypeOK
<1>1. TypeInv => TypeOK
  BY DEF TypeInv
<1> QED
  BY TypeInit, TypeNext, <1>1, PTL DEF Spec

-----------------------------------------------------------------------------
(* A failed job is accounted for.  FailedIsAccounted is not inductive: the  *)
(* last transition of the dead-letter path relies on the item seeded by the *)
(* same thread, and the copy a retry stores must not be a failed row.       *)

AccountInv ==
    /\ FailedIsAccounted
    /\ \A e \in Executors :
        /\ AtStep(e, "seeded") => dlq[JobOf(e)] > 0
        /\ AtStep(e, "retrying") => exec[e].copy.status = "retrying"

\* Who may set failed, and what is true then.
LEMMA AccountRun ==
    ASSUME TypeInv, AccountInv, NEW e \in Executors, RunStep(e)
    PROVE  AccountInv'
<1> DEFINE j == JobOf(e)
<1> DEFINE Elsewhere == \A f \in Executors \ {e} : exec'[f] = exec[f]
           Quiet == Elsewhere /\ ~AtStep(e, "seeded")' /\ ~AtStep(e, "retrying")'
           RowsKept == \A i \in Jobs : job'[i].status = "failed" => job'[i] = job[i]
<1>0. /\ ~AtStep(e, "idle") => j \in Jobs /\ job[j] \in Row
      /\ exec \in [Executors -> ExecutorState] /\ dlq \in [Jobs -> Nat]
      /\ job \in [Jobs -> Row]
  BY DEF TypeInv, TypeOK, WellFormed, Busy, AtStep
<1>1. ASSUME RowsKept, UNCHANGED dlq, Quiet PROVE AccountInv'
  BY <1>1 DEF AccountInv, FailedIsAccounted, AtStep, JobOf
<1>2. /\ \A result \in Results : Return(e, result) => Quiet
      /\ GoTo(e, "dlq_pending") \/ GoTo(e, "dlq_recorded") \/ GoTo(e, "indexing") => Quiet
      /\ GoIdle(e) => Quiet
  BY <1>0 DEF Return, GoTo, GoIdle, IdleExecutor, ExecutorState, AtStep
<1>2a. ASSUME NEW to \in Status, to # "failed", NEW continue, ~AtStep(e, "idle"),
             TransitionOr409(e, to, continue)
      PROVE  RowsKept /\ (continue \/ Quiet)
  <2>1. Transitioned(job[j], to).status = to
    BY <1>0, <1>2a, TransitionedRow
  <2> QED
    BY <1>0, <1>2, <1>2a, <2>1, TransitionStep DEF Busy, AtStep, Results
<1>3. CASE Start(e)
  <2>1. Transitioned(job[j], "running").status = "running"
    BY <1>0, <1>3, TransitionedRow DEF Start, AtStep, Status
  <2>2. RowsKept
    BY <1>0, <1>3, <2>1 DEF Start, AtStep
  <2>3. Quiet
    BY <1>0, <1>2, <1>3 DEF Start, AtStep, Results, ExecutorState
  <2> QED
    BY <1>1, <1>3, <2>2, <2>3 DEF Start
<1>4. CASE Retry(e)
  <2> DEFINE kept == Transitioned(job[j], "retrying")
  <2>1. kept.status = "retrying"
    BY <1>0, <1>4, TransitionedRow DEF Retry, AtStep, Status
  <2>2. RowsKept /\ (exec' = [exec EXCEPT ![e].pc = "retrying", ![e].copy = kept] \/ Quiet)
    BY <1>2a, <1>4 DEF Retry, AtStep, Status
  <2>3. CASE exec' = [exec EXCEPT ![e].pc = "retrying", ![e].copy = kept]
    <3> HIDE DEF kept
    <3>1. Elsewhere /\ ~AtStep(e, "seeded")' /\ exec'[e].copy = kept
      BY <1>0, <2>3 DEF AtStep, ExecutorState
    <3> QED
      BY <1>4, <2>1, <2>2, <3>1 DEF Retry, AccountInv, FailedIsAccounted, AtStep, JobOf
  <2> QED
    BY <1>1, <1>4, <2>2, <2>3 DEF Retry
<1>5. CASE StoreRetriedJob(e)
  <2>1. RowsKept
    BY <1>0, <1>5 DEF StoreRetriedJob, AccountInv
  <2> QED
    BY <1>1, <1>2, <1>5, <2>1 DEF StoreRetriedJob, Results
<1>6. CASE EnterDlqPending(e)
  BY <1>1, <1>2, <1>2a, <1>6 DEF EnterDlqPending, AtStep, Status
<1>7. CASE EnterDlqRecorded(e)
  BY <1>1, <1>2, <1>2a, <1>7 DEF EnterDlqRecorded, AtStep, Status
<1>8. CASE SeedDlqItem(e)
  <2>1. dlq'[j] > 0 /\ \A i \in Jobs : dlq[i] > 0 => dlq'[i] > 0
    BY <1>0, <1>8 DEF SeedDlqItem, AtStep
  <2>2. Elsewhere /\ JobOf(e)' = j /\ ~AtStep(e, "retrying")' /\ UNCHANGED job
    BY <1>0, <1>8 DEF SeedDlqItem, AtStep, GoTo, JobOf, ExecutorState
  <2>3. \A f \in Executors : AtStep(f, "seeded") => JobOf(f) \in Jobs
    BY DEF TypeInv, WellFormed, Busy, AtStep
  <2> QED
    BY <2>1, <2>2, <2>3 DEF AccountInv, FailedIsAccounted, AtStep, JobOf
<1>9. CASE FailJob(e)
  <2>1. dlq[j] > 0 /\ UNCHANGED dlq
    BY <1>9 DEF FailJob, AccountInv
  <2>2. (\A i \in Jobs \ {j} : job'[i] = job[i]) /\ Quiet
    BY <1>0, <1>2, <1>9 DEF FailJob, TransitionOr409, AtStep, Results
  <2> QED
    BY <2>1, <2>2 DEF AccountInv, FailedIsAccounted, AtStep, JobOf
<1>10. CASE Succeed(e)
  BY <1>1, <1>2, <1>2a, <1>10 DEF Succeed, AtStep, Status, Results
<1>11. CASE Interrupt(e)
  BY <1>1, <1>2, <1>2a, <1>11 DEF Interrupt, AtStep, Status, Results
<1>12. CASE IndexDocument(e) \/ WorkflowRaises(e)
  BY <1>1, <1>2, <1>12 DEF IndexDocument, WorkflowRaises, storeVars, Results
<1>13. CASE AckMessage(e) \/ NackMessage(e) \/ LeaveMessage(e)
  BY <1>1, <1>2, <1>13 DEF AckMessage, NackMessage, LeaveMessage, storeVars
<1> QED
  BY <1>3, <1>4, <1>5, <1>6, <1>7, <1>8, <1>9, <1>10, <1>11, <1>12, <1>13 DEF RunStep

\* Whatever relays, executors, cancellations and crashes do, a failed job has a
\* dead-letter item or was cancelled.
LEMMA AccountNext == TypeInv /\ AccountInv /\ [Next]_vars => AccountInv'
<1> SUFFICES ASSUME TypeInv, AccountInv, [Next]_vars PROVE AccountInv'
  OBVIOUS
<1> USE DEF AccountInv, FailedIsAccounted, AtStep, JobOf, storeVars
<1>1. CASE UNCHANGED vars
  BY <1>1 DEF vars
<1>2. ASSUME NEW j \in Jobs, SubmissionStep(j) PROVE AccountInv'
  BY <1>2 DEF SubmissionStep, CreateJob, AppendOutboxEvent, CancelJob, PublishByHand,
              TypeInv, TypeOK, Row
<1>3. ASSUME NEW r \in Relays, RelayStep(r) PROVE AccountInv'
  BY <1>3 DEF RelayStep, StartRelay, RelaySkip, RelayEnqueue, RelayMarkDelivered,
              RelayMarkPublished, RelayDone
<1>4. ASSUME NEW e \in Executors,
             DequeueAndRun(e) \/ (\E j \in Jobs : RunNow(e, j)) \/ CrashExecutor(e)
      PROVE  AccountInv'
  <2>1. \E x : exec' = [exec EXCEPT ![e] = x] /\ x.pc \in {"start", "idle"}
    <3>1. ASSUME NEW j, NEW m, NEW mode, BeginRun(e, j, m, mode)
          PROVE  \E x : exec' = [exec EXCEPT ![e] = x] /\ x.pc = "start"
      <4> DEFINE x == [IdleExecutor EXCEPT !.pc = "start", !.job = j,
                                           !.msg = m, !.mode = mode]
      <4>1. x.pc = "start"
        BY DEF IdleExecutor
      <4>2. exec' = [exec EXCEPT ![e] = x]
        BY <3>1 DEF BeginRun
      <4> QED
        BY <4>1, <4>2
    <3>2. CrashExecutor(e) => \E x : exec' = [exec EXCEPT ![e] = x] /\ x.pc = "idle"
      <4>1. IdleExecutor.pc = "idle"
        BY DEF IdleExecutor
      <4> QED
        BY <4>1 DEF CrashExecutor, GoIdle
    <3>3. CASE DequeueAndRun(e)
      BY <3>1, <3>3 DEF DequeueAndRun
    <3>4. CASE \E j \in Jobs : RunNow(e, j)
      BY <3>1, <3>4 DEF RunNow
    <3> QED
      BY <1>4, <3>2, <3>3, <3>4
  <2>2. UNCHANGED <<job, dlq>>
    BY <1>4 DEF DequeueAndRun, RunNow, CrashExecutor
  <2> QED
    BY <2>1, <2>2 DEF TypeInv, TypeOK
<1>5. CASE (\E r \in Relays : CrashRelay(r)) \/ (\E j \in Jobs : CrashSubmission(j))
  BY <1>5 DEF CrashRelay, CrashSubmission
<1> QED
  BY <1>1, <1>2, <1>3, <1>4, <1>5, AccountRun DEF Next, ExecutorStep, Crash

\* README.md: "failed" only after the dead-letter entry.  With an operator's
\* cancel as the one exception this holds for any number of relays and
\* executors, with crashes, and however often a message is delivered.
THEOREM FailureAccounted == Spec => []FailedIsAccounted
<1>1. Init => AccountInv
  BY DEF Init, AccountInv, FailedIsAccounted, NoRow, IdleExecutor, AtStep
<1>2. AccountInv => FailedIsAccounted
  BY DEF AccountInv
<1> QED
  BY TypeInit, TypeNext, AccountNext, <1>1, <1>2, PTL DEF Spec

-----------------------------------------------------------------------------
(* A published event has reached the queue.  Two relays may work on one     *)
(* event and either may die between its steps, so the status rests on what  *)
(* each of them knows: a delivery record, or an enqueue of its own.         *)

Enqueued(j) == \E m \in Msgs : Used(m) /\ MessageJob(m) = j

PublishInv ==
    /\ PublishedWasEnqueued
    /\ \A j \in Jobs, c \in Consumers : <<j, c>> \in delivered => Enqueued(j)
    /\ \A r \in Relays :
        relay[r].pc \in {"mark", "publish"} => Enqueued(relay[r].event)

\* No queue call takes a message back: not ack, not nack, not a drain that
\* leaves it in flight.
LEMMA StaysEnqueued ==
    ASSUME TypeInv, [Next]_vars
    PROVE  \A j \in Jobs : Enqueued(j) => Enqueued(j)'
<1> SUFFICES \A m \in Msgs : Used(m) => Used(m)' /\ carries'[m] = carries[m]
  BY DEF Enqueued, MessageJob
<1> USE DEF TypeInv, TypeOK, Queue!QueueTypeOK, Used, Queue!Move, queueVars
<1>1. CASE UNCHANGED queueVars
  BY <1>1
<1>2. ASSUME NEW r \in Relays, NEW j \in Jobs, RelayEnqueue(r, j)
      PROVE  \A m \in Msgs : Used(m) => Used(m)' /\ carries'[m] = carries[m]
  BY <1>2 DEF RelayEnqueue, Queue!Enqueue
<1>3. ASSUME NEW e \in Executors, DequeueAndRun(e) \/ AckMessage(e) \/ NackMessage(e)
      PROVE  \A m \in Msgs : Used(m) => Used(m)' /\ carries'[m] = carries[m]
  <2>1. UNCHANGED carries /\ \E n : Queue!Dequeue(n) \/ Queue!Ack(n) \/ Queue!Nack(n, TRUE)
    BY <1>3 DEF DequeueAndRun, AckMessage, NackMessage
  <2> QED
    BY <2>1 DEF Queue!Dequeue, Queue!Ack, Queue!Nack
<1>4. ASSUME NEW j \in Jobs, SubmissionStep(j) PROVE UNCHANGED queueVars
  BY <1>4 DEF SubmissionStep, CreateJob, AppendOutboxEvent, CancelJob, PublishByHand
<1>5. ASSUME NEW r \in Relays, RelayStep(r), ~\E j \in Jobs : RelayEnqueue(r, j)
      PROVE  UNCHANGED queueVars
  BY <1>5 DEF RelayStep, StartRelay, RelaySkip, RelayMarkDelivered, RelayMarkPublished,
              RelayDone
<1>6. ASSUME NEW e \in Executors, ExecutorStep(e),
             ~(DequeueAndRun(e) \/ AckMessage(e) \/ NackMessage(e))
      PROVE  UNCHANGED queueVars
  BY <1>6 DEF ExecutorStep, RunStep, RunNow, Start, Retry, StoreRetriedJob,
              EnterDlqPending, EnterDlqRecorded, SeedDlqItem, FailJob, Succeed,
              IndexDocument, Interrupt, WorkflowRaises, LeaveMessage
<1>7. Crash => UNCHANGED queueVars
  BY DEF Crash, CrashExecutor, CrashRelay, CrashSubmission
<1> QED
  BY <1>1, <1>2, <1>3, <1>4, <1>5, <1>6, <1>7 DEF Next, vars

\* Nobody but a relay touches deliveries, and nobody but a relay publishes.
LEMMA PublishUndisturbed ==
    ASSUME TypeInv, PublishInv, \A j \in Jobs : Enqueued(j) => Enqueued(j)',
           UNCHANGED <<delivered, relay>>,
           \A j \in Jobs : outbox'[j] = "published" => outbox[j] = "published"
    PROVE  PublishInv'
<1>1. \A r \in Relays : relay[r].pc \in {"mark", "publish"} => relay[r].event \in Jobs
  BY DEF TypeInv, WellFormed
<1>2. PublishedWasEnqueued <=> \A j \in Jobs : outbox[j] = "published" => Enqueued(j)
  BY DEF PublishedWasEnqueued, Enqueued
<1>3. PublishedWasEnqueued' <=> \A j \in Jobs : outbox'[j] = "published" => Enqueued(j)'
  BY DEF PublishedWasEnqueued, Enqueued
<1> QED
  BY <1>1, <1>2, <1>3 DEF PublishInv

\* The relay's order: enqueue, then the delivery record, then the status.
LEMMA PublishRelay ==
    ASSUME TypeInv, PublishInv, \A j \in Jobs : Enqueued(j) => Enqueued(j)',
           NEW r \in Relays, RelayStep(r)
    PROVE  PublishInv'
<1> USE DEF TypeInv, TypeOK, PublishInv, outboxVars
<1>0. /\ relay[r] \in RelayState
      /\ \A q \in Relays : relay[q].pc \in {"mark", "publish"} => relay[q].event \in Jobs
      /\ relay[r].pc # "idle" => relay[r].consumer \in Consumers
  BY DEF WellFormed
<1>a. PublishedWasEnqueued <=> \A j \in Jobs : outbox[j] = "published" => Enqueued(j)
  BY DEF PublishedWasEnqueued, Enqueued
<1>b. PublishedWasEnqueued' <=> \A j \in Jobs : outbox'[j] = "published" => Enqueued(j)'
  BY DEF PublishedWasEnqueued, Enqueued
<1>1. ASSUME NEW c \in Consumers, StartRelay(r, c) PROVE PublishInv'
  BY <1>0, <1>a, <1>b, <1>1 DEF StartRelay
<1>2. ASSUME NEW j \in Jobs, RelaySkip(r, j) PROVE PublishInv'
  <2>1. Enqueued(j)
    BY <1>0, <1>2 DEF RelaySkip
  <2>2. /\ UNCHANGED delivered /\ outbox' = [outbox EXCEPT ![j] = "published"]
        /\ \A q \in Relays : relay'[q].pc = relay[q].pc /\ relay'[q].event = relay[q].event
    BY <1>0, <1>2 DEF RelaySkip, RelayState
  <2> QED
    BY <1>0, <1>a, <1>b, <2>1, <2>2
<1>3. ASSUME NEW j \in Jobs, RelayEnqueue(r, j) PROVE PublishInv'
  <2>1. Enqueued(j)'
    BY <1>3 DEF RelayEnqueue, Enqueued, Queue!Enqueue, Queue!Move, Queue!QueueTypeOK,
                Used, MessageJob
  <2>2. /\ UNCHANGED <<delivered, outbox>> /\ relay'[r].event = j
        /\ \A q \in Relays \ {r} : relay'[q] = relay[q]
    BY <1>0, <1>3 DEF RelayEnqueue, RelayState
  <2> QED
    BY <1>0, <1>a, <1>b, <2>1, <2>2
<1>4. CASE RelayMarkDelivered(r)
  <2>1. /\ relay[r].event \in Jobs /\ Enqueued(relay[r].event)
        /\ delivered' = delivered \union {<<relay[r].event, relay[r].consumer>>}
        /\ UNCHANGED outbox
        /\ \A q \in Relays : relay'[q].event = relay[q].event
        /\ \A q \in Relays : relay'[q].pc \in {"mark", "publish"}
                                => relay[q].pc \in {"mark", "publish"}
    BY <1>0, <1>4 DEF RelayMarkDelivered, RelayState
  <2> QED
    BY <1>0, <1>a, <1>b, <2>1
<1>5. CASE RelayMarkPublished(r)
  <2>1. /\ relay[r].event \in Jobs /\ Enqueued(relay[r].event)
        /\ outbox' = [outbox EXCEPT ![relay[r].event] = "published"]
        /\ UNCHANGED delivered /\ relay'[r].pc = "loop"
        /\ \A q \in Relays \ {r} : relay'[q] = relay[q]
    BY <1>0, <1>5 DEF RelayMarkPublished, RelayState
  <2> QED
    BY <1>0, <1>a, <1>b, <2>1
<1>6. CASE RelayDone(r)
  BY <1>0, <1>a, <1>b, <1>6 DEF RelayDone, IdleRelay
<1> QED
  BY <1>1, <1>2, <1>3, <1>4, <1>5, <1>6 DEF RelayStep

\* Without the publish endpoint every way to "published" leads past the queue.
LEMMA PublishNext ==
    ASSUME "publish" \notin Faults, TypeInv, PublishInv, [Next]_vars
    PROVE  PublishInv'
<1> USE DEF outboxVars
<1>0. \A j \in Jobs : Enqueued(j) => Enqueued(j)'
  BY StaysEnqueued
<1>1. CASE UNCHANGED vars
  BY <1>0, <1>1, PublishUndisturbed DEF vars
<1>2. ASSUME NEW j \in Jobs, SubmissionStep(j) PROVE PublishInv'
  <2>1. UNCHANGED <<delivered, relay>>
    BY <1>2 DEF SubmissionStep, CreateJob, AppendOutboxEvent, CancelJob, PublishByHand
  <2>2. \A i \in Jobs : outbox'[i] = "published" => outbox[i] = "published"
    BY <1>2 DEF SubmissionStep, CreateJob, AppendOutboxEvent, CancelJob, PublishByHand,
                TypeInv, TypeOK
  <2> QED
    BY <1>0, <2>1, <2>2, PublishUndisturbed
<1>3. ASSUME NEW r \in Relays, RelayStep(r) PROVE PublishInv'
  BY <1>0, <1>3, PublishRelay
<1>4. ASSUME NEW e \in Executors, ExecutorStep(e) \/ CrashExecutor(e) PROVE PublishInv'
  <2>1. UNCHANGED <<delivered, relay, outbox>>
    BY <1>4 DEF ExecutorStep, RunStep, RunNow, DequeueAndRun, Start, Retry,
                StoreRetriedJob, EnterDlqPending, EnterDlqRecorded, SeedDlqItem, FailJob,
                Succeed, IndexDocument, Interrupt, WorkflowRaises, AckMessage,
                NackMessage, LeaveMessage, CrashExecutor
  <2> QED
    BY <1>0, <2>1, PublishUndisturbed
<1>5. ASSUME NEW r \in Relays, CrashRelay(r) PROVE PublishInv'
  <2>1. /\ UNCHANGED <<outbox, delivered>>
        /\ \A q \in Relays : relay'[q] = relay[q] \/ relay'[q].pc = "idle"
    BY <1>5 DEF CrashRelay, IdleRelay, TypeInv, TypeOK
  <2>2. \A q \in Relays : relay[q].pc \in {"mark", "publish"} => relay[q].event \in Jobs
    BY DEF TypeInv, WellFormed
  <2>3. PublishedWasEnqueued'
    BY <1>0, <2>1 DEF PublishInv, PublishedWasEnqueued, Enqueued
  <2> QED
    BY <1>0, <2>1, <2>2, <2>3 DEF PublishInv
<1>6. ASSUME NEW j \in Jobs, CrashSubmission(j) PROVE PublishInv'
  BY <1>0, <1>6, PublishUndisturbed DEF CrashSubmission
<1> QED
  BY <1>1, <1>2, <1>3, <1>4, <1>5, <1>6 DEF Next, Crash

\* relay_outbox_events: with any number of relays, each of which may die between
\* any two of its steps, a published event has reached the queue, provided nobody
\* uses POST /outbox/events/{id}/publish, which marks an event and enqueues nothing.
THEOREM PublishedIsEnqueued ==
    ASSUME "publish" \notin Faults
    PROVE  Spec => []PublishedWasEnqueued
<1>1. Init => PublishInv
  BY DEF Init, PublishInv, PublishedWasEnqueued, IdleRelay
<1>2. TypeInv /\ PublishInv /\ [Next]_vars => PublishInv'
  BY PublishNext
<1>3. PublishInv => PublishedWasEnqueued
  BY DEF PublishInv
<1> QED
  BY TypeInit, TypeNext, <1>1, <1>2, <1>3, PTL DEF Spec

-----------------------------------------------------------------------------
(***************************************************************************)
(* One message, one executor: one relay call at a time, no run-now         *)
(* requests, no process deaths                                             *)
(***************************************************************************)
HIDE DEF Executors

-----------------------------------------------------------------------------
(* The invariant.  The relay has read the pending events before it enqueues *)
(* any, so what must be kept is that an event still pending, or still on    *)
(* its list, has no message yet.                                            *)

Fresh(j) == \A m \in Msgs : Used(m) => MessageJob(m) # j

Relaying(r, j) == relay[r].pc \in {"mark", "publish"} /\ relay[r].event = j

RelayInv ==
    \A r \in Relays :
        /\ \A j \in relay[r].todo : outbox[j] # "none" /\ Fresh(j)
        /\ \A j \in Jobs : Relaying(r, j) => outbox[j] # "none"

EventInv ==
    \A j \in Jobs :
        /\ job[j].status = "absent" => j \notin creating /\ outbox[j] = "none"
        /\ j \in creating => outbox[j] = "none"
        /\ outbox[j] = "none" => Fresh(j)
        /\ outbox[j] = "pending" => Fresh(j) \/ \E r \in Relays : Relaying(r, j)

DeliveryInv == OneMessagePerJob /\ RelayInv /\ EventInv

\* A busy executor holds its job's message, and nobody else does.
HoldsMessage(e) ==
    /\ exec[e].msg \in Msgs
    /\ stage[exec[e].msg] = "inflight"
    /\ MessageJob(exec[e].msg) = JobOf(e)

RunInv ==
    /\ \A e \in Executors : Busy(e) => HoldsMessage(e)
    /\ \A e, f \in Executors :
        Busy(e) /\ Busy(f) /\ exec[e].msg = exec[f].msg => e = f

-----------------------------------------------------------------------------
(* The relay side *)

\* What changes no event and adds no message keeps DeliveryInv.
LEMMA DeliveryUndisturbed ==
    ASSUME DeliveryInv,
           UNCHANGED <<creating, outbox, carries, relay>>,
           \A m \in Msgs : Used(m)' => Used(m),
           \A j \in Jobs : job'[j].status = "absent" => job[j].status = "absent"
    PROVE  DeliveryInv'
BY DEF DeliveryInv, OneMessagePerJob, RelayInv, EventInv, Fresh, Relaying, MessageJob

\* Submission, cancelling and publishing by hand.
LEMMA DeliverySubmission ==
    ASSUME TypeInv, DeliveryInv, NEW i \in Jobs, SubmissionStep(i)
    PROVE  DeliveryInv'
<1> USE DEF TypeInv, TypeOK, storeVars, outboxVars, queueVars, DeliveryInv
<1>1. UNCHANGED queueVars /\ UNCHANGED relay
  BY DEF SubmissionStep, CreateJob, AppendOutboxEvent, CancelJob, PublishByHand
<1>2. OneMessagePerJob' /\ \A j : Fresh(j)' <=> Fresh(j)
  BY <1>1 DEF OneMessagePerJob, Fresh, Used, MessageJob
<1>3. \A r, j : Relaying(r, j)' <=> Relaying(r, j)
  BY <1>1 DEF Relaying
<1>4. \A j \in Jobs : outbox[j] # "none" => outbox'[j] # "none"
  BY DEF SubmissionStep, CreateJob, AppendOutboxEvent, CancelJob, PublishByHand
<1>5. RelayInv'
  <2>1. \A r \in Relays : relay[r].todo \subseteq Jobs
    BY DEF RelayState
  <2> QED
    BY <1>1, <1>2, <1>3, <1>4, <2>1 DEF RelayInv
<1>6. EventInv'
  <2>1. CASE CreateJob(i)
    BY <1>2, <1>3, <2>1 DEF CreateJob, EventInv, Row
  <2>2. CASE AppendOutboxEvent(i)
    BY <1>2, <1>3, <2>2 DEF AppendOutboxEvent, EventInv
  <2>3. CASE CancelJob(i)
    BY <1>2, <1>3, <2>3 DEF CancelJob, EventInv, Row
  <2>4. CASE PublishByHand(i)
    BY <1>2, <1>3, <2>4 DEF PublishByHand, EventInv
  <2> QED
    BY <2>1, <2>2, <2>3, <2>4 DEF SubmissionStep
<1> QED
  BY <1>2, <1>5, <1>6

\* The relay: where the assumption on Relays is used.
LEMMA DeliveryRelay ==
    ASSUME TypeInv, DeliveryInv, \A p, q \in Relays : p = q,
           NEW r \in Relays, RelayStep(r)
    PROVE  DeliveryInv'
<1> USE DEF TypeInv, TypeOK, storeVars, outboxVars, queueVars, DeliveryInv
<1>0. Relays = {r} /\ relay[r] \in RelayState /\ relay[r].todo \subseteq Jobs
  BY DEF RelayState
<1>1. ASSUME UNCHANGED <<creating, outbox, queueVars, job>>,
             \A j \in relay'[r].todo : outbox[j] # "none" /\ Fresh(j),
             \A j \in Jobs : Relaying(r, j) <=> Relaying(r, j)'
      PROVE  DeliveryInv'
  <2>1. OneMessagePerJob' /\ \A j : Fresh(j)' <=> Fresh(j)
    BY <1>1 DEF OneMessagePerJob, Fresh, Used, MessageJob
  <2>2. RelayInv'
    BY <1>0, <1>1, <2>1 DEF RelayInv
  <2>3. EventInv'
    BY <1>0, <1>1, <2>1 DEF EventInv
  <2> QED
    BY <2>1, <2>2, <2>3
<1>2. ASSUME NEW c \in Consumers, StartRelay(r, c) PROVE DeliveryInv'
  <2>1. relay'[r].todo = {j \in Jobs : outbox[j] = "pending"} /\ relay'[r].pc = "loop"
        /\ relay[r].pc = "idle"
    BY <1>2 DEF StartRelay
  <2>2. \A j \in Jobs : ~Relaying(r, j) /\ ~Relaying(r, j)'
    BY <2>1 DEF Relaying
  <2>3. \A j \in relay'[r].todo : Fresh(j)
    BY <1>0, <2>1, <2>2 DEF EventInv
  <2> QED
    BY <1>1, <1>2, <2>1, <2>2, <2>3 DEF StartRelay
<1>3. ASSUME NEW i \in Jobs, RelaySkip(r, i) PROVE DeliveryInv'
  <2>1. UNCHANGED queueVars
    BY <1>3 DEF RelaySkip
  <2>2. OneMessagePerJob' /\ \A j : Fresh(j)' <=> Fresh(j)
    BY <2>1 DEF OneMessagePerJob, Fresh, Used, MessageJob
  <2>3. relay'[r].todo = relay[r].todo \ {i} /\ relay'[r].pc = relay[r].pc
        /\ relay'[r].event = relay[r].event
    BY <1>0, <1>3 DEF RelaySkip, RelayState
  <2>4. \A j \in Jobs : Relaying(r, j)' <=> Relaying(r, j)
    BY <2>3 DEF Relaying
  <2>5. outbox' = [outbox EXCEPT ![i] = "published"] /\ outbox[i] # "none"
    BY <1>3 DEF RelaySkip, RelayInv
  <2>6. RelayInv'
    BY <1>0, <2>2, <2>3, <2>4, <2>5 DEF RelayInv
  <2>7. EventInv'
    BY <1>0, <1>3, <2>2, <2>4, <2>5 DEF EventInv, RelaySkip
  <2> QED
    BY <2>2, <2>6, <2>7
<1>4. ASSUME NEW i \in Jobs, RelayEnqueue(r, i) PROVE DeliveryInv'
  <2>1. PICK m \in Msgs :
            /\ Queue!Enqueue(m)
            /\ carries' = [carries EXCEPT ![m] = <<i, relay[r].consumer>>]
    BY <1>4 DEF RelayEnqueue
  <2>2. /\ ~Used(m) /\ MessageJob(m)' = i
        /\ \A n \in Msgs \ {m} : (Used(n)' <=> Used(n)) /\ MessageJob(n)' = MessageJob(n)
    BY <2>1 DEF Queue!Enqueue, Queue!Move, Queue!QueueTypeOK, Used, MessageJob
  <2>3. i \in relay[r].todo /\ outbox[i] # "none" /\ Fresh(i)
    BY <1>4 DEF RelayEnqueue, RelayInv
  <2>4. relay'[r].todo = relay[r].todo \ {i} /\ relay[r].pc = "loop" /\ Relaying(r, i)'
        /\ relay'[r].event = i
    BY <1>0, <1>4 DEF RelayEnqueue, RelayState, Relaying
  <2>5. OneMessagePerJob'
    BY <2>2, <2>3 DEF OneMessagePerJob, Fresh
  <2>6. \A j \in Jobs \ {i} : Fresh(j) => Fresh(j)'
    BY <2>2 DEF Fresh
  <2>7. UNCHANGED <<creating, outbox, job>>
    BY <1>4 DEF RelayEnqueue
  <2>8. RelayInv'
    BY <1>0, <2>3, <2>4, <2>6, <2>7 DEF RelayInv, Relaying
  <2>9. \A j \in Jobs : ~Relaying(r, j)
    BY <2>4 DEF Relaying
  <2>10. EventInv'
    BY <1>0, <2>3, <2>4, <2>6, <2>7, <2>9 DEF EventInv
  <2> QED
    BY <2>5, <2>8, <2>10
<1>5. CASE RelayMarkDelivered(r)
  <2>1. relay'[r].todo = relay[r].todo /\ relay[r].pc = "mark" /\ relay'[r].pc = "publish"
        /\ relay'[r].event = relay[r].event
    BY <1>0, <1>5 DEF RelayMarkDelivered, RelayState
  <2> QED
    BY <1>1, <1>5, <2>1 DEF RelayMarkDelivered, RelayInv, Relaying
<1>6. CASE RelayMarkPublished(r)
  <2> DEFINE i == relay[r].event
  <2>1. UNCHANGED queueVars
    BY <1>6 DEF RelayMarkPublished
  <2>2. OneMessagePerJob' /\ \A j : Fresh(j)' <=> Fresh(j)
    BY <2>1 DEF OneMessagePerJob, Fresh, Used, MessageJob
  <2>3. relay'[r].todo = relay[r].todo /\ relay'[r].pc = "loop"
    BY <1>0, <1>6 DEF RelayMarkPublished, RelayState
  <2>4. i \in Jobs /\ Relaying(r, i) /\ outbox[i] # "none"
    BY <1>6 DEF RelayMarkPublished, WellFormed, RelayInv, Relaying
  <2>5. outbox' = [outbox EXCEPT ![i] = "published"]
    BY <1>6 DEF RelayMarkPublished
  <2>6. RelayInv'
    BY <1>0, <2>2, <2>3, <2>4, <2>5 DEF RelayInv, Relaying
  <2>7. \A j \in Jobs \ {i} : ~Relaying(r, j)
    BY DEF Relaying
  <2>8. EventInv'
    BY <1>0, <1>6, <2>2, <2>4, <2>5, <2>7 DEF EventInv, RelayMarkPublished
  <2> QED
    BY <2>2, <2>6, <2>8
<1>7. CASE RelayDone(r)
  BY <1>0, <1>1, <1>7 DEF RelayDone, IdleRelay, Relaying
<1> QED
  BY <1>2, <1>3, <1>4, <1>5, <1>6, <1>7 DEF RelayStep

-----------------------------------------------------------------------------
(* The executor side *)

MidRun(e) ==
    \/ Start(e) \/ Retry(e) \/ StoreRetriedJob(e)
    \/ EnterDlqPending(e) \/ EnterDlqRecorded(e) \/ SeedDlqItem(e) \/ FailJob(e)
    \/ Succeed(e) \/ IndexDocument(e) \/ Interrupt(e) \/ WorkflowRaises(e)

\* A thread in run_job_once stays with its job and message until it answers.
SameRun(e) ==
    \E x : /\ exec' = [exec EXCEPT ![e] = x]
           /\ x.pc # "idle" /\ x.job = exec[e].job /\ x.msg = exec[e].msg

\* run_job_once never gives up its job or message half way.
LEMMA StaysWithItsRun ==
    ASSUME TypeInv, NEW e \in Executors, MidRun(e)
    PROVE  Busy(e) /\ SameRun(e)
<1>1. Busy(e)
  BY DEF MidRun, Start, Retry, StoreRetriedJob, EnterDlqPending, EnterDlqRecorded,
         SeedDlqItem, FailJob, Succeed, IndexDocument, Interrupt, WorkflowRaises,
         AtStep, Busy
<1>2. exec[e] \in ExecutorState
  BY DEF TypeInv, TypeOK
<1>3. ASSUME NEW pc, pc # "idle", GoTo(e, pc) PROVE SameRun(e)
  <2> DEFINE x == [exec[e] EXCEPT !.pc = pc]
  <2>1. exec' = [exec EXCEPT ![e] = x]
    BY <1>3 DEF GoTo
  <2>2. x.pc = pc /\ x.job = exec[e].job /\ x.msg = exec[e].msg
    BY <1>2 DEF ExecutorState
  <2> QED
    BY <1>3, <2>1, <2>2 DEF SameRun
<1>4. ASSUME NEW pc, pc # "idle", NEW row,
             exec' = [exec EXCEPT ![e].pc = pc, ![e].copy = row]
      PROVE  SameRun(e)
  <2> DEFINE x == [exec[e] EXCEPT !.pc = pc, !.copy = row]
  <2>1. exec' = [exec EXCEPT ![e] = x]
    BY <1>4
  <2>2. x.pc = pc /\ x.job = exec[e].job /\ x.msg = exec[e].msg
    BY <1>2 DEF ExecutorState
  <2> QED
    BY <1>4, <2>1, <2>2 DEF SameRun
<1>5. ASSUME NEW result, Return(e, result) PROVE SameRun(e)
  <2> DEFINE x == [exec[e] EXCEPT !.pc = "answer", !.result = result]
  <2>1. exec' = [exec EXCEPT ![e] = x]
    BY <1>5 DEF Return
  <2>2. x.pc = "answer" /\ x.job = exec[e].job /\ x.msg = exec[e].msg
    BY <1>2 DEF ExecutorState
  <2> QED
    BY <2>1, <2>2 DEF SameRun
<1>6. /\ GoTo(e, "dlq_pending") \/ GoTo(e, "dlq_recorded") \/ GoTo(e, "seeded")
         \/ GoTo(e, "indexing") => SameRun(e)
      /\ Return(e, "succeeded") \/ Return(e, "failed") \/ Return(e, "retrying")
         \/ Return(e, "needs_manual_decision") \/ Return(e, "raised") => SameRun(e)
  BY <1>3, <1>5
<1>7. CASE Start(e)
  <2>1. PICK row : \/ exec' = [exec EXCEPT ![e].pc = "ready", ![e].copy = row]
                   \/ Return(e, "raised")
    BY <1>7 DEF Start
  <2> QED
    BY <1>1, <1>4, <1>6, <2>1
<1>8. CASE Retry(e)
  <2>1. PICK row : \/ exec' = [exec EXCEPT ![e].pc = "retrying", ![e].copy = row]
                   \/ Return(e, "raised")
    BY <1>8 DEF Retry, TransitionOr409
  <2> QED
    BY <1>1, <1>4, <1>6, <2>1
<1>9. CASE Succeed(e)
  BY <1>1, <1>6, <1>9 DEF Succeed, TransitionOr409
<1>10. CASE EnterDlqPending(e) \/ EnterDlqRecorded(e)
  BY <1>1, <1>6, <1>10 DEF EnterDlqPending, EnterDlqRecorded, TransitionOr409
<1>11. CASE FailJob(e) \/ Interrupt(e)
  BY <1>1, <1>6, <1>11 DEF FailJob, Interrupt, TransitionOr409
<1>12. CASE StoreRetriedJob(e) \/ SeedDlqItem(e) \/ IndexDocument(e) \/ WorkflowRaises(e)
  BY <1>1, <1>6, <1>12 DEF StoreRetriedJob, SeedDlqItem, IndexDocument, WorkflowRaises
<1> QED
  BY <1>7, <1>8, <1>9, <1>10, <1>11, <1>12 DEF MidRun

\* No run takes a job out of the jobs table.
LEMMA NoRowDisappears ==
    ASSUME TypeInv, AccountInv, NEW e \in Executors, MidRun(e)
    PROVE  \A j \in Jobs : job'[j].status = "absent" => job[j].status = "absent"
<1> DEFINE j == JobOf(e)
           Kept == \A i \in Jobs : job'[i].status = "absent" => job[i].status = "absent"
<1>0. j \in Jobs /\ job[j] \in Row /\ job \in [Jobs -> Row]
  BY StaysWithItsRun DEF TypeInv, TypeOK, WellFormed
<1>1. ASSUME NEW to \in Status, to # "absent", NEW continue, TransitionOr409(e, to, continue)
      PROVE  Kept
  BY <1>0, <1>1, TransitionedRow DEF TransitionOr409
<1>2. CASE Start(e)
  <2>1. Transitioned(job[j], "running").status = "running"
    BY <1>0, TransitionedRow DEF Status
  <2> QED
    BY <1>0, <1>2, <2>1 DEF Start
<1>3. CASE StoreRetriedJob(e)
  BY <1>0, <1>3 DEF StoreRetriedJob, AccountInv
<1>4. CASE SeedDlqItem(e) \/ IndexDocument(e) \/ WorkflowRaises(e)
  BY <1>4 DEF SeedDlqItem, IndexDocument, WorkflowRaises, storeVars
<1> QED
  BY <1>1, <1>2, <1>3, <1>4
     DEF MidRun, Retry, EnterDlqPending, EnterDlqRecorded, FailJob, Succeed, Interrupt, Status

\* A step that moves no message that an executor holds keeps RunInv.
LEMMA RunUndisturbed ==
    ASSUME RunInv, UNCHANGED exec,
           \A m \in Msgs : stage[m] = "inflight"
                => stage'[m] = "inflight" /\ carries'[m] = carries[m]
    PROVE  RunInv'
BY DEF RunInv, HoldsMessage, Busy, JobOf, MessageJob

\* An executor that goes on, or lets go of its message.
LEMMA RunKeeps ==
    ASSUME TypeInv, RunInv, NEW e \in Executors,
           NEW x, exec' = [exec EXCEPT ![e] = x], UNCHANGED carries,
           \/ /\ x.pc # "idle" /\ x.job = exec[e].job /\ x.msg = exec[e].msg
              /\ Busy(e) /\ UNCHANGED stage
           \/ /\ x.pc = "idle"
              /\ \A m \in Msgs : m # exec[e].msg \/ ~Busy(e) => stage'[m] = stage[m]
    PROVE  RunInv'
<1>1. exec' \in [Executors -> {exec[f] : f \in Executors} \union {x}]
      /\ exec'[e] = x /\ \A f \in Executors \ {e} : exec'[f] = exec[f]
  BY DEF TypeInv, TypeOK
<1> QED
  BY <1>1 DEF RunInv, HoldsMessage, Busy, JobOf, MessageJob

\* What run_job_once and the caller's ack, nack or neither do.
LEMMA RunExecutor ==
    ASSUME TypeInv, RunInv, NEW e \in Executors, RunStep(e) \/ CrashExecutor(e)
    PROVE  RunInv'
<1>1. CASE MidRun(e)
  <2>1. UNCHANGED queueVars
    BY <1>1 DEF MidRun, Start, Retry, StoreRetriedJob, EnterDlqPending,
                EnterDlqRecorded, SeedDlqItem, FailJob, Succeed, IndexDocument,
                Interrupt, WorkflowRaises
  <2> QED
    BY <1>1, <2>1, StaysWithItsRun, RunKeeps DEF SameRun, queueVars
<1>2. IdleExecutor.pc = "idle"
  BY DEF IdleExecutor
<1>3. CASE AckMessage(e) \/ NackMessage(e)
  <2>1. /\ exec' = [exec EXCEPT ![e] = IdleExecutor] /\ UNCHANGED carries
        /\ Queue!Ack(exec[e].msg) \/ Queue!Nack(exec[e].msg, TRUE)
        /\ Busy(e)
    BY <1>3 DEF AckMessage, NackMessage, GoIdle, AtStep, Busy
  <2>2. \A m \in Msgs : m # exec[e].msg => stage'[m] = stage[m]
    BY <2>1 DEF Queue!Ack, Queue!Nack, Queue!Move, TypeInv, TypeOK, Queue!QueueTypeOK
  <2> QED
    BY <1>2, <2>1, <2>2, RunKeeps
<1>4. CASE LeaveMessage(e) \/ CrashExecutor(e)
  <2>1. exec' = [exec EXCEPT ![e] = IdleExecutor] /\ UNCHANGED queueVars
    BY <1>4 DEF LeaveMessage, CrashExecutor, GoIdle
  <2> QED
    BY <1>2, <2>1, RunKeeps DEF queueVars
<1> QED
  BY <1>1, <1>3, <1>4 DEF RunStep, MidRun

\* dequeue gives an executor a message nobody holds.
LEMMA RunDequeue ==
    ASSUME TypeInv, RunInv, NEW e \in Executors, DequeueAndRun(e)
    PROVE  RunInv'
<1>1. PICK m \in Msgs, mode \in Modes :
          Queue!Dequeue(m) /\ BeginRun(e, carries[m][1], m, mode)
  BY DEF DequeueAndRun, Modes
<1> DEFINE x == [IdleExecutor EXCEPT !.pc = "start", !.job = carries[m][1],
                                     !.msg = m, !.mode = mode]
<1>2. x.pc = "start" /\ x.job = carries[m][1] /\ x.msg = m
  BY DEF IdleExecutor
<1>3. exec' = [exec EXCEPT ![e] = x] /\ UNCHANGED carries
  BY <1>1 DEF BeginRun, DequeueAndRun
<1> HIDE DEF x
<1>4. exec'[e] = x /\ \A f \in Executors \ {e} : exec'[f] = exec[f]
  BY <1>3 DEF TypeInv, TypeOK
<1>5. stage[m] = "pending" /\ stage'[m] = "inflight"
      /\ \A n \in Msgs \ {m} : stage'[n] = stage[n]
  BY <1>1 DEF Queue!Dequeue, Queue!Move, TypeInv, TypeOK, Queue!QueueTypeOK
<1>6. \A f \in Executors : Busy(f) => exec[f].msg # m
  BY <1>5 DEF RunInv, HoldsMessage
<1> QED
  BY <1>2, <1>3, <1>4, <1>5, <1>6 DEF RunInv, HoldsMessage, Busy, JobOf, MessageJob

-----------------------------------------------------------------------------
(* Both sides together*)

ExclusiveInv == TypeInv /\ AccountInv /\ DeliveryInv /\ RunInv

\* At first there is no event, no message and no run.
LEMMA ExclusiveInit == Init => ExclusiveInv
<1>1. Init => AccountInv
  BY DEF Init, AccountInv, FailedIsAccounted, NoRow, IdleExecutor, AtStep
<1>2. Init => DeliveryInv /\ RunInv
  BY DEF Init, DeliveryInv, OneMessagePerJob, RelayInv, EventInv, Fresh, Relaying,
         RunInv, Busy, Used, IdleRelay, IdleExecutor, Queue!QueueInit
<1> QED
  BY <1>1, <1>2, TypeInit DEF ExclusiveInv

\* A job's only message and its only run, step by step: only the relay adds a
\* message, only dequeue begins a run.
LEMMA ExclusiveNext ==
    ASSUME \A p, q \in Relays : p = q, Runners = {}, "crash" \notin Faults,
           ExclusiveInv, [Next]_vars
    PROVE  ExclusiveInv'
<1> USE DEF ExclusiveInv
<1>0. TypeInv' /\ AccountInv'
  BY TypeNext, AccountNext
<1>1. CASE UNCHANGED vars
  <2>1. DeliveryInv'
    BY <1>1, DeliveryUndisturbed DEF vars, storeVars, outboxVars, queueVars, Used
  <2>2. RunInv'
    BY <1>1, RunUndisturbed DEF vars, queueVars
  <2> QED
    BY <1>0, <2>1, <2>2
<1>2. ASSUME NEW j \in Jobs, SubmissionStep(j) PROVE ExclusiveInv'
  <2>1. UNCHANGED exec /\ UNCHANGED queueVars
    BY <1>2 DEF SubmissionStep, CreateJob, AppendOutboxEvent, CancelJob, PublishByHand
  <2> QED
    BY <1>0, <1>2, <2>1, DeliverySubmission, RunUndisturbed DEF queueVars
<1>3. ASSUME NEW r \in Relays, RelayStep(r) PROVE ExclusiveInv'
  <2>1. UNCHANGED exec
    BY <1>3 DEF RelayStep, StartRelay, RelaySkip, RelayEnqueue, RelayMarkDelivered,
                RelayMarkPublished, RelayDone
  <2>2. \A m \in Msgs : stage[m] = "inflight"
            => stage'[m] = "inflight" /\ carries'[m] = carries[m]
    <3>1. CASE UNCHANGED queueVars
      BY <3>1 DEF queueVars
    <3>2. CASE \E j \in Jobs : RelayEnqueue(r, j)
      BY <3>2 DEF RelayEnqueue, Queue!Enqueue, Queue!Move, TypeInv, TypeOK,
                  Queue!QueueTypeOK
    <3> QED
      BY <1>3, <3>1, <3>2 DEF RelayStep, StartRelay, RelaySkip, RelayMarkDelivered,
                              RelayMarkPublished, RelayDone
  <2> QED
    BY <1>0, <1>3, <2>1, <2>2, DeliveryRelay, RunUndisturbed
<1>4. ASSUME NEW e \in Executors, ExecutorStep(e) PROVE ExclusiveInv'
  <2>1. ~\E j \in Jobs : RunNow(e, j)
    BY DEF RunNow
  <2>2. RunInv'
    BY <1>4, <2>1, RunExecutor, RunDequeue DEF ExecutorStep
  <2>3. UNCHANGED <<creating, outbox, carries, relay>>
    BY <1>4, <2>1 DEF ExecutorStep, RunStep, DequeueAndRun, Start, Retry,
        StoreRetriedJob, EnterDlqPending, EnterDlqRecorded, SeedDlqItem, FailJob,
        Succeed, IndexDocument, Interrupt, WorkflowRaises, AckMessage, NackMessage,
        LeaveMessage, outboxVars, queueVars
  <2>4. \A m \in Msgs : Used(m)' => Used(m)
    <3>1. UNCHANGED stage \/ \E m, requeue : Queue!Dequeue(m) \/ Queue!Ack(m)
                                             \/ Queue!Nack(m, requeue)
      BY <1>4, <2>1 DEF ExecutorStep, RunStep, DequeueAndRun, Start, Retry,
          StoreRetriedJob, EnterDlqPending, EnterDlqRecorded, SeedDlqItem, FailJob,
          Succeed, IndexDocument, Interrupt, WorkflowRaises, AckMessage, NackMessage,
          LeaveMessage, queueVars
    <3> QED
      BY <3>1 DEF Queue!Dequeue, Queue!Ack, Queue!Nack, Queue!Move, Used, TypeInv,
                  TypeOK, Queue!QueueTypeOK
  <2>5. \A j \in Jobs : job'[j].status = "absent" => job[j].status = "absent"
    <3>1. CASE MidRun(e)
      BY <3>1, NoRowDisappears
    <3>2. CASE ~MidRun(e)
      BY <1>4, <2>1, <3>2 DEF MidRun, ExecutorStep, RunStep, DequeueAndRun,
          AckMessage, NackMessage, LeaveMessage, storeVars
    <3> QED
      BY <3>1, <3>2
  <2> QED
    BY <1>0, <2>2, <2>3, <2>4, <2>5, DeliveryUndisturbed
<1>5. ~Crash
  BY DEF Crash, CrashExecutor, CrashRelay, CrashSubmission
<1> QED
  BY <1>1, <1>2, <1>3, <1>4, <1>5 DEF Next

\* One message, held by one executor, is one executor per job.
LEMMA OneExecutor == ExclusiveInv => ExclusiveExecution
<1> SUFFICES ASSUME ExclusiveInv, NEW e \in Executors, NEW f \in Executors,
                    Busy(e), Busy(f), JobOf(e) = JobOf(f)
             PROVE  e = f
  BY DEF ExclusiveExecution
<1>1. HoldsMessage(e) /\ HoldsMessage(f)
  BY DEF ExclusiveInv, RunInv
<1>2. exec[e].msg = exec[f].msg
  BY <1>1 DEF ExclusiveInv, DeliveryInv, OneMessagePerJob, HoldsMessage, Used
<1> QED
  BY <1>2 DEF ExclusiveInv, RunInv

-----------------------------------------------------------------------------
(* The retry budget.  The limit is tested on the copy a run took when it    *)
(* started and the count is kept in the row: with one run per job they are  *)
(* equal when the limit is tested.                                          *)

BudgetInv ==
    /\ RetriesWithinBudget
    /\ \A e \in Executors :
        /\ AtStep(e, "ready") => exec[e].copy.retries = job[JobOf(e)].retries
        /\ AtStep(e, "retrying") => exec[e].copy.retries <= MaxRetries

\* What counts no retry and is no executor's step.
LEMMA BudgetUndisturbed ==
    ASSUME TypeInv, BudgetInv, UNCHANGED exec,
           \A j \in Jobs : job'[j].retries = job[j].retries
    PROVE  BudgetInv'
BY DEF BudgetInv, RetriesWithinBudget, TypeInv, WellFormed, AtStep, Busy, JobOf

\* A step of e that leaves row as its job's row, within the budget.
LEMMA BudgetKeeps ==
    ASSUME TypeInv, BudgetInv, ExclusiveExecution, NEW e \in Executors, Busy(e),
           NEW x, exec' = [exec EXCEPT ![e] = x],
           NEW row \in Row, job' = [job EXCEPT ![JobOf(e)] = row],
           row.retries <= MaxRetries,
           x.pc = "ready" => x.job = JobOf(e) /\ x.copy.retries = row.retries,
           x.pc = "retrying" => x.copy.retries <= MaxRetries
    PROVE  BudgetInv'
<1>1. exec'[e] = x /\ \A f \in Executors \ {e} : exec'[f] = exec[f]
  BY DEF TypeInv, TypeOK
<1>2. JobOf(e) \in Jobs /\ job'[JobOf(e)] = row
      /\ \A j \in Jobs \ {JobOf(e)} : job'[j] = job[j]
  BY DEF TypeInv, TypeOK, WellFormed
<1>3. RetriesWithinBudget'
  BY <1>2 DEF BudgetInv, RetriesWithinBudget
<1>4. ASSUME NEW f \in Executors
      PROVE  /\ AtStep(f, "ready")' => exec'[f].copy.retries = job'[exec'[f].job].retries
             /\ AtStep(f, "retrying")' => exec'[f].copy.retries <= MaxRetries
  <2>1. CASE f = e
    BY <1>1, <1>2, <2>1 DEF AtStep
  <2>2. CASE f # e
    <3>1. Busy(f) => JobOf(f) # JobOf(e) /\ JobOf(f) \in Jobs
      BY <2>2 DEF ExclusiveExecution, TypeInv, WellFormed
    <3> QED
      BY <1>1, <1>2, <2>2, <3>1 DEF BudgetInv, AtStep, Busy, JobOf
  <2> QED
    BY <2>1, <2>2
<1> QED
  BY <1>3, <1>4 DEF BudgetInv, JobOf

\* Only a transition to retrying counts, and by one.
LEMMA TransitionedRetries ==
    ASSUME NEW row \in Row, NEW to \in Status
    PROVE  /\ to # "retrying" => Transitioned(row, to).retries = row.retries
           /\ Transitioned(row, to).retries <= row.retries + 1
BY DEF Transitioned, Row

\* A run keeps to the budget: Retry counts only below it.
LEMMA BudgetRun ==
    ASSUME TypeInv, AccountInv, BudgetInv, ExclusiveExecution, NEW e \in Executors, MidRun(e)
    PROVE  BudgetInv'
<1> DEFINE j == JobOf(e)
<1>0. /\ Busy(e) /\ j \in Jobs /\ job[j] \in Row /\ job \in [Jobs -> Row]
      /\ job[j].retries \in Nat /\ job[j].retries <= MaxRetries
      /\ exec[e] \in ExecutorState /\ exec[e].copy \in Row
      /\ job = [job EXCEPT ![j] = job[j]]
  BY StaysWithItsRun DEF TypeInv, TypeOK, WellFormed, BudgetInv, RetriesWithinBudget, Row,
                         ExecutorState
<1> HIDE DEF j
<1>1. ASSUME NEW x, exec' = [exec EXCEPT ![e] = x], x.pc \notin {"ready", "retrying"},
             \/ UNCHANGED job
             \/ \E to \in Status \ {"retrying"} : job' = [job EXCEPT ![j] = Transitioned(@, to)]
      PROVE  BudgetInv'
  <2>1. CASE UNCHANGED job
    BY <1>0, <1>1, <2>1, BudgetKeeps DEF j
  <2>2. CASE ~UNCHANGED job
    <3>1. PICK to \in Status \ {"retrying"} : job' = [job EXCEPT ![j] = Transitioned(job[j], to)]
      BY <1>1, <2>2
    <3>2. Transitioned(job[j], to) \in Row /\ Transitioned(job[j], to).retries <= MaxRetries
      BY <1>0, TransitionedRow, TransitionedRetries
    <3> QED
      BY <1>0, <1>1, <3>1, <3>2, BudgetKeeps DEF j
  <2> QED
    BY <2>1, <2>2
<1>2. ASSUME NEW pc, pc \notin {"ready", "retrying"},
             GoTo(e, pc) \/ \E result : pc = "answer" /\ Return(e, result),
             \/ UNCHANGED job
             \/ \E to \in Status \ {"retrying"} : job' = [job EXCEPT ![j] = Transitioned(@, to)]
      PROVE  BudgetInv'
  <2>1. CASE GoTo(e, pc)
    <3> DEFINE x == [exec[e] EXCEPT !.pc = pc]
    <3>1. exec' = [exec EXCEPT ![e] = x] /\ x.pc = pc
      BY <1>0, <2>1 DEF GoTo, ExecutorState
    <3> QED
      BY <1>1, <1>2, <3>1
  <2>2. ASSUME NEW result, pc = "answer", Return(e, result) PROVE BudgetInv'
    <3> DEFINE x == [exec[e] EXCEPT !.pc = "answer", !.result = result]
    <3>1. exec' = [exec EXCEPT ![e] = x] /\ x.pc = "answer"
      BY <1>0, <2>2 DEF Return, ExecutorState
    <3> QED
      BY <1>1, <1>2, <3>1
  <2> QED
    BY <1>2, <2>1, <2>2
<1>3. ASSUME NEW to \in Status \ {"retrying"}, NEW pc, pc \notin {"ready", "retrying"},
             NEW continue, TransitionOr409(e, to, continue),
             continue => GoTo(e, pc) \/ \E result : pc = "answer" /\ Return(e, result)
      PROVE  BudgetInv'
  <2>1. CASE CanTransition(job[j], to)
    BY <1>2, <1>3, <2>1 DEF TransitionOr409, j
  <2>2. CASE ~CanTransition(job[j], to)
    BY <1>2, <1>3, <2>2 DEF TransitionOr409, j
  <2> QED
    BY <2>1, <2>2
<1>4. CASE Start(e)
  <2> DEFINE row == IF job[j].status \in {"queued", "retrying", "needs_manual_decision"}
                    THEN Transitioned(job[j], "running") ELSE job[j]
             x == [exec[e] EXCEPT !.pc = "ready", !.copy = row]
             y == [exec[e] EXCEPT !.pc = "answer", !.result = "raised"]
  <2>1. row \in Row /\ row.retries <= MaxRetries
    BY <1>0, TransitionedRow, TransitionedRetries DEF Status
  <2>2. /\ job' = [job EXCEPT ![j] = row]
        /\ exec' = [exec EXCEPT ![e] = x] \/ exec' = [exec EXCEPT ![e] = y]
    BY <1>4 DEF Start, Return, j
  <2> HIDE DEF row
  <2>3. x.pc = "ready" /\ x.copy = row /\ x.job = JobOf(e) /\ y.pc = "answer"
    BY <1>0 DEF ExecutorState, JobOf
  <2> QED
    BY <1>0, <2>1, <2>2, <2>3, BudgetKeeps DEF j
<1>5. CASE Retry(e)
  <2>0. /\ AtStep(e, "ready") /\ exec[e].copy.retries < MaxRetries
        /\ exec[e].copy.retries = job[j].retries
    BY <1>5 DEF Retry, MayRetry, BudgetInv, j
  <2>1. CASE CanTransition(job[j], "retrying")
    <3> DEFINE row == Transitioned(job[j], "retrying")
               x == [exec[e] EXCEPT !.pc = "retrying", !.copy = row]
    <3>1. row \in Row /\ row.retries <= job[j].retries + 1 /\ row.retries \in Nat
      BY <1>0, TransitionedRow, TransitionedRetries DEF Status, Row
    <3>2. job' = [job EXCEPT ![j] = row] /\ exec' = [exec EXCEPT ![e] = x]
      BY <1>5, <2>1 DEF Retry, TransitionOr409, j
    <3> HIDE DEF row
    <3>3. x.pc = "retrying" /\ x.copy = row
      BY <1>0 DEF ExecutorState
    <3>4. row.retries <= MaxRetries
      BY <1>0, <2>0, <3>1, JobEngineAssumption
    <3> QED
      BY <1>0, <3>1, <3>2, <3>3, <3>4, BudgetKeeps DEF j
  <2>2. CASE ~CanTransition(job[j], "retrying")
    BY <1>2, <1>5, <2>2 DEF Retry, TransitionOr409, j
  <2> QED
    BY <2>1, <2>2
<1>6. CASE StoreRetriedJob(e)
  <2> DEFINE x == [exec[e] EXCEPT !.pc = "answer", !.result = "retrying"]
  <2>1. exec[e].copy.retries <= MaxRetries
    BY <1>6 DEF StoreRetriedJob, BudgetInv
  <2>2. /\ job' = [job EXCEPT ![j] = exec[e].copy] /\ exec' = [exec EXCEPT ![e] = x]
        /\ x.pc = "answer"
    BY <1>0, <1>6 DEF StoreRetriedJob, Return, ExecutorState, j
  <2> QED
    BY <1>0, <2>1, <2>2, BudgetKeeps DEF j
<1>7. CASE EnterDlqPending(e) \/ EnterDlqRecorded(e) \/ FailJob(e) \/ Interrupt(e)
  BY <1>3, <1>7 DEF EnterDlqPending, EnterDlqRecorded, FailJob, Interrupt, Status
<1>8. CASE Succeed(e)
  BY <1>3, <1>8 DEF Succeed, Status
<1>9. CASE SeedDlqItem(e) \/ IndexDocument(e) \/ WorkflowRaises(e)
  BY <1>2, <1>9 DEF SeedDlqItem, IndexDocument, WorkflowRaises, storeVars
<1> QED
  BY <1>4, <1>5, <1>6, <1>7, <1>8, <1>9 DEF MidRun

\* A run that begins, or is over, is neither ready nor retrying.
LEMMA BudgetEnds ==
    ASSUME TypeInv, BudgetInv, NEW e \in Executors, UNCHANGED job,
           NEW x, exec' = [exec EXCEPT ![e] = x], x.pc \in {"idle", "start"}
    PROVE  BudgetInv'
<1>1. exec'[e] = x /\ \A f \in Executors \ {e} : exec'[f] = exec[f]
  BY DEF TypeInv, TypeOK
<1> QED
  BY <1>1 DEF BudgetInv, RetriesWithinBudget, AtStep, JobOf

LEMMA BudgetNext ==
    ASSUME Runners = {}, "crash" \notin Faults, ExclusiveInv, BudgetInv, [Next]_vars
    PROVE  BudgetInv'
<1>0. TypeInv /\ AccountInv /\ ExclusiveExecution
  BY OneExecutor DEF ExclusiveInv
<1>1. CASE UNCHANGED vars
  BY <1>0, <1>1, BudgetUndisturbed DEF vars, storeVars
<1>2. ASSUME NEW j \in Jobs, SubmissionStep(j) PROVE BudgetInv'
  <2>1. UNCHANGED exec /\ \A i \in Jobs : job'[i].retries = job[i].retries
    BY <1>0, <1>2 DEF SubmissionStep, CreateJob, AppendOutboxEvent, CancelJob, PublishByHand,
                      storeVars, TypeInv, TypeOK, Row
  <2> QED
    BY <1>0, <2>1, BudgetUndisturbed
<1>3. ASSUME NEW r \in Relays, RelayStep(r) PROVE BudgetInv'
  <2>1. UNCHANGED exec /\ UNCHANGED job
    BY <1>3 DEF RelayStep, StartRelay, RelaySkip, RelayEnqueue, RelayMarkDelivered,
                RelayMarkPublished, RelayDone, storeVars
  <2> QED
    BY <1>0, <2>1, BudgetUndisturbed
<1>4. ASSUME NEW e \in Executors, ExecutorStep(e) PROVE BudgetInv'
  <2>1. CASE MidRun(e)
    BY <1>0, <2>1, BudgetRun
  <2>2. CASE AckMessage(e) \/ NackMessage(e) \/ LeaveMessage(e)
    <3>1. exec' = [exec EXCEPT ![e] = IdleExecutor] /\ UNCHANGED job
      BY <2>2 DEF AckMessage, NackMessage, LeaveMessage, GoIdle, storeVars
    <3> QED
      BY <1>0, <3>1, BudgetEnds DEF IdleExecutor
  <2>3. CASE DequeueAndRun(e)
    <3>1. PICK m \in Msgs, mode \in Modes : BeginRun(e, carries[m][1], m, mode)
      BY <2>3 DEF DequeueAndRun, Modes
    <3> DEFINE x == [IdleExecutor EXCEPT !.pc = "start", !.job = carries[m][1],
                                         !.msg = m, !.mode = mode]
    <3>2. x.pc = "start"
      BY DEF IdleExecutor
    <3>3. exec' = [exec EXCEPT ![e] = x] /\ UNCHANGED job
      BY <2>3, <3>1 DEF BeginRun, DequeueAndRun, storeVars
    <3> HIDE DEF x
    <3> QED
      BY <1>0, <3>2, <3>3, BudgetEnds
  <2> QED
    BY <1>4, <2>1, <2>2, <2>3 DEF ExecutorStep, RunStep, MidRun, RunNow
<1>5. ~Crash
  BY DEF Crash, CrashExecutor, CrashRelay, CrashSubmission
<1> QED
  BY <1>1, <1>2, <1>3, <1>4, <1>5 DEF Next

-----------------------------------------------------------------------------
(* The theorems *)

\* relay_outbox_events: with one relay call at a time and no process death, a
\* job is never enqueued twice, whoever cancels, publishes by hand or drains.
THEOREM OneMessage ==
    ASSUME \A p, q \in Relays : p = q, Runners = {}, "crash" \notin Faults
    PROVE  Spec => []OneMessagePerJob
<1>1. ExclusiveInv => OneMessagePerJob
  BY DEF ExclusiveInv, DeliveryInv
<1>2. ExclusiveInv /\ [Next]_vars => ExclusiveInv'
  BY ExclusiveNext
<1> QED
  BY ExclusiveInit, <1>1, <1>2, PTL DEF Spec

\* run_job_once has no lock: under the same conditions no two threads run one
\* job at a time, with any number of workers and drain-once requests.
THEOREM ExclusiveRuns ==
    ASSUME \A p, q \in Relays : p = q, Runners = {}, "crash" \notin Faults
    PROVE  Spec => []ExclusiveExecution
<1>1. ExclusiveInv => ExclusiveExecution
  BY OneExecutor
<1>2. ExclusiveInv /\ [Next]_vars => ExclusiveInv'
  BY ExclusiveNext
<1> QED
  BY ExclusiveInit, <1>1, <1>2, PTL DEF Spec

\* run_job_once tests retry_count on the copy it read when it started and
\* transition_job_status counts in the row: under the same conditions no job is
\* retried more often than worker_max_retries, cancelled in between or not.
THEOREM RetriesBounded ==
    ASSUME \A p, q \in Relays : p = q, Runners = {}, "crash" \notin Faults
    PROVE  Spec => []RetriesWithinBudget
<1>1. Init => BudgetInv
  BY JobEngineAssumption
     DEF Init, BudgetInv, RetriesWithinBudget, NoRow, IdleExecutor, AtStep
<1>2. ExclusiveInv /\ BudgetInv /\ [Next]_vars => (ExclusiveInv /\ BudgetInv)'
  BY ExclusiveNext, BudgetNext
<1>3. BudgetInv => RetriesWithinBudget
  BY DEF BudgetInv
<1> QED
  BY ExclusiveInit, <1>1, <1>2, <1>3, PTL DEF Spec

-----------------------------------------------------------------------------
(***************************************************************************)
(* Runs and rows in step                                                   *)
(***************************************************************************)
-----------------------------------------------------------------------------
(* Where a run is and what status it finds.  The one thing that may come    *)
(* between is cancel_job.                                                   *)

Stopped(row) == row.status = "failed" /\ row.cancelled

StepStatus ==
    {<<"start", "queued">>, <<"start", "retrying">>, <<"ready", "running">>,
     <<"retrying", "retrying">>, <<"dlq_pending", "dlq_pending">>,
     <<"dlq_recorded", "dlq_recorded">>, <<"seeded", "dlq_recorded">>,
     <<"indexing", "succeeded">>}

AnswerStatus ==
    {<<"retrying", "retrying">>, <<"succeeded", "succeeded">>, <<"failed", "failed">>,
     <<"needs_manual_decision", "needs_manual_decision">>}
    \union {p \in {<<"raised", "running">>, <<"raised", "succeeded">>} : "raise" \in Faults}

OnPath(x, s) ==
    \/ <<x.pc, s>> \in StepStatus
    \/ x.pc = "answer" /\ <<x.result, s>> \in AnswerStatus

PathInv ==
    /\ \A e \in Executors :
        Busy(e) => Stopped(job[JobOf(e)]) \/ OnPath(exec[e], job[JobOf(e)].status)
    /\ \A e \in Executors :
        AtStep(e, "retrying") => Stopped(job[JobOf(e)]) \/ exec[e].copy = job[JobOf(e)]
    /\ \A m \in Msgs :
        stage[m] = "pending" => \/ Stopped(job[MessageJob(m)])
                                \/ job[MessageJob(m)].status \in {"queued", "retrying"}
    /\ \A j \in Jobs :
        Fresh(j) => Stopped(job[j]) \/ job[j].status \in {"absent", "queued"}

\* A step of e's run that leaves it in local state x and its job in row.
RunsTo(e, x, row) ==
    /\ exec' = [exec EXCEPT ![e] = x]
    /\ job' = [job EXCEPT ![JobOf(e)] = row]
    /\ x.pc \notin {"idle", "start"} /\ x.job = JobOf(e) /\ x.msg = exec[e].msg
    /\ row.status # "absent"
    /\ row.cancelled => job[JobOf(e)].cancelled
    /\ Stopped(row) \/ OnPath(x, row.status)
    /\ x.pc = "retrying" => Stopped(row) \/ x.copy = row

\* A transition along the path is made, unless the job was cancelled.
LEMMA TransitionOnPath ==
    ASSUME TypeInv, PathInv, NEW e \in Executors, Busy(e),
           NEW from \in Status, NEW to \in Status,
           <<from, to>> \in ALLOWED_TRANSITIONS,
           \A s : OnPath(exec[e], s) => s = from
    PROVE  /\ Stopped(job[JobOf(e)]) \/ job[JobOf(e)].status = from
           /\ ~CanTransition(job[JobOf(e)], to) => Stopped(job[JobOf(e)])
           /\ Transitioned(job[JobOf(e)], to) \in Row
           /\ Transitioned(job[JobOf(e)], to).status = to
           /\ Transitioned(job[JobOf(e)], to).cancelled = job[JobOf(e)].cancelled
<1>1. JobOf(e) \in Jobs /\ job[JobOf(e)] \in Row
  BY DEF TypeInv, TypeOK, WellFormed
<1>2. Stopped(job[JobOf(e)]) \/ job[JobOf(e)].status = from
  BY DEF PathInv
<1> QED
  BY <1>1, <1>2, TransitionedRow DEF CanTransition

\* What a thread's next local state looks like after each kind of statement.
LEMMA NextLocal ==
    ASSUME NEW x \in ExecutorState, NEW pc, NEW row, NEW result
    PROVE  /\ [x EXCEPT !.pc = pc].pc = pc
           /\ [x EXCEPT !.pc = pc].job = x.job /\ [x EXCEPT !.pc = pc].msg = x.msg
           /\ [x EXCEPT !.pc = pc, !.copy = row].pc = pc
           /\ [x EXCEPT !.pc = pc, !.copy = row].copy = row
           /\ [x EXCEPT !.pc = pc, !.copy = row].job = x.job
           /\ [x EXCEPT !.pc = pc, !.copy = row].msg = x.msg
           /\ [x EXCEPT !.pc = "answer", !.result = result].pc = "answer"
           /\ [x EXCEPT !.pc = "answer", !.result = result].result = result
           /\ [x EXCEPT !.pc = "answer", !.result = result].job = x.job
           /\ [x EXCEPT !.pc = "answer", !.result = result].msg = x.msg
BY DEF ExecutorState

\* run_job_once keeps in step with its row, from the first transition to the
\* answer.
LEMMA RunStaysOnPath ==
    ASSUME TypeInv, AccountInv, PathInv, NEW e \in Executors, MidRun(e)
    PROVE  \E x, row : row \in Row /\ RunsTo(e, x, row)
<1> DEFINE j == JobOf(e)
           Arrived == \E x, row : row \in Row /\ RunsTo(e, x, row)
<1>0. /\ Busy(e) /\ j \in Jobs /\ job[j] \in Row /\ exec[e] \in ExecutorState
      /\ exec[e].copy \in Row /\ exec[e].job = j
      /\ job = [job EXCEPT ![j] = job[j]]
      /\ Stopped(job[j]) \/ OnPath(exec[e], job[j].status)
  BY StaysWithItsRun DEF TypeInv, TypeOK, WellFormed, PathInv, ExecutorState, JobOf
<1>1. ASSUME NEW pc \in {"dlq_pending", "dlq_recorded", "seeded", "indexing"}, GoTo(e, pc),
             NEW row \in Row, job' = [job EXCEPT ![j] = row], row.status # "absent",
             row.cancelled => job[j].cancelled,
             Stopped(row) \/ <<pc, row.status>> \in StepStatus
      PROVE  Arrived
  <2> DEFINE x == [exec[e] EXCEPT !.pc = pc]
  <2>1. exec' = [exec EXCEPT ![e] = x]
    BY <1>1 DEF GoTo
  <2>2. x.pc = pc /\ x.job = j /\ x.msg = exec[e].msg
    BY <1>0, NextLocal
  <2> HIDE DEF x
  <2> QED
    BY <1>1, <2>1, <2>2 DEF RunsTo, OnPath
<1>2. ASSUME NEW result, Return(e, result),
             NEW row \in Row, job' = [job EXCEPT ![j] = row], row.status # "absent",
             row.cancelled => job[j].cancelled,
             Stopped(row) \/ <<result, row.status>> \in AnswerStatus
      PROVE  Arrived
  <2> DEFINE x == [exec[e] EXCEPT !.pc = "answer", !.result = result]
  <2>1. exec' = [exec EXCEPT ![e] = x]
    BY <1>2 DEF Return
  <2>2. x.pc = "answer" /\ x.result = result /\ x.job = j /\ x.msg = exec[e].msg
    BY <1>0, NextLocal
  <2> HIDE DEF x
  <2> QED
    BY <1>2, <2>1, <2>2 DEF RunsTo, OnPath
<1>3. ASSUME NEW pc \in {"ready", "retrying"}, NEW row \in Row,
             exec' = [exec EXCEPT ![e].pc = pc, ![e].copy = row],
             job' = [job EXCEPT ![j] = row], row.cancelled => job[j].cancelled,
             <<pc, row.status>> \in StepStatus
      PROVE  Arrived
  <2> DEFINE x == [exec[e] EXCEPT !.pc = pc, !.copy = row]
  <2>1. exec' = [exec EXCEPT ![e] = x]
    BY <1>3
  <2>2. x.pc = pc /\ x.copy = row /\ x.job = j /\ x.msg = exec[e].msg
    BY <1>0, NextLocal
  <2>3. row.status # "absent"
    BY <1>3 DEF StepStatus
  <2> HIDE DEF x
  <2> QED
    BY <1>3, <2>1, <2>2, <2>3 DEF RunsTo, OnPath
<1>4. \A s : /\ AtStep(e, "ready") => (OnPath(exec[e], s) => s = "running")
             /\ AtStep(e, "dlq_pending") => (OnPath(exec[e], s) => s = "dlq_pending")
             /\ AtStep(e, "seeded") => (OnPath(exec[e], s) => s = "dlq_recorded")
  BY DEF OnPath, AtStep, StepStatus
<1>5. Stopped(job[j]) => job[j].status # "absent"
  BY DEF Stopped
<1>6. CASE Start(e)
  <2> DEFINE row == Transitioned(job[j], "running")
  <2>1. row \in Row /\ row.status = "running" /\ row.cancelled = job[j].cancelled
    BY <1>0, TransitionedRow DEF Status
  <2>2. CASE Stopped(job[j])
    <3>1. Return(e, "raised") /\ job' = [job EXCEPT ![j] = job[j]]
      BY <1>6, <2>2 DEF Start, Stopped
    <3> QED
      BY <1>0, <1>2, <1>5, <2>2, <3>1
  <2>3. CASE ~Stopped(job[j])
    <3>1. job[j].status \in {"queued", "retrying"}
      BY <1>0, <1>6, <2>3 DEF Start, AtStep, OnPath, StepStatus
    <3>2. job' = [job EXCEPT ![j] = row] /\ exec' = [exec EXCEPT ![e].pc = "ready", ![e].copy = row]
      BY <1>6, <2>1, <3>1 DEF Start
    <3>3. <<"ready", row.status>> \in StepStatus
      BY <2>1 DEF StepStatus
    <3> HIDE DEF row
    <3> QED
      BY <1>3, <2>1, <3>2, <3>3
  <2> QED
    BY <2>2, <2>3
<1>7. CASE Retry(e)
  <2> DEFINE row == Transitioned(job[j], "retrying")
  <2>1. <<"running", "retrying">> \in ALLOWED_TRANSITIONS
    BY DEF ALLOWED_TRANSITIONS
  <2>2. /\ row \in Row /\ row.status = "retrying" /\ row.cancelled = job[j].cancelled
        /\ ~CanTransition(job[j], "retrying") => Stopped(job[j])
    BY <1>0, <1>4, <1>7, <2>1, TransitionOnPath DEF Retry, Status
  <2>3. \/ /\ job' = [job EXCEPT ![j] = row]
           /\ exec' = [exec EXCEPT ![e].pc = "retrying", ![e].copy = row]
        \/ job' = job /\ Return(e, "raised") /\ Stopped(job[j])
    BY <1>7, <2>2 DEF Retry, TransitionOr409
  <2>4. <<"retrying", "retrying">> \in StepStatus
    BY DEF StepStatus
  <2> HIDE DEF row
  <2> QED
    BY <1>0, <1>2, <1>3, <1>5, <2>2, <2>3, <2>4
<1>8. CASE StoreRetriedJob(e)
  <2>1. /\ job' = [job EXCEPT ![j] = exec[e].copy] /\ Return(e, "retrying")
        /\ exec[e].copy.status = "retrying"
        /\ Stopped(job[j]) \/ exec[e].copy = job[j]
    BY <1>8 DEF StoreRetriedJob, AccountInv, PathInv
  <2>2. <<"retrying", "retrying">> \in AnswerStatus
    BY DEF AnswerStatus
  <2>3. exec[e].copy.cancelled => job[j].cancelled
    BY <2>1 DEF Stopped
  <2> QED
    BY <1>0, <1>2, <2>1, <2>2, <2>3
<1>9. ASSUME NEW from \in Status, NEW to \in Status, NEW pc,
             <<from, to>> \in ALLOWED_TRANSITIONS,
             \A s : OnPath(exec[e], s) => s = from,
             \/ /\ TransitionOr409(e, to, GoTo(e, pc)) /\ <<pc, to>> \in StepStatus
                /\ pc \in {"dlq_pending", "dlq_recorded", "seeded", "indexing"}
             \/ /\ TransitionOr409(e, to, Return(e, pc)) /\ <<pc, to>> \in AnswerStatus
      PROVE  Arrived
  <2> DEFINE row == Transitioned(job[j], to)
  <2>1. /\ row \in Row /\ row.status = to /\ row.cancelled = job[j].cancelled
        /\ ~CanTransition(job[j], to) => Stopped(job[j])
    BY <1>0, <1>9, TransitionOnPath
  <2>2. to # "absent"
    BY <1>9 DEF ALLOWED_TRANSITIONS
  <2>3. CASE CanTransition(job[j], to)
    <3>1. /\ job' = [job EXCEPT ![j] = row]
          /\ \/ GoTo(e, pc) /\ <<pc, to>> \in StepStatus
                /\ pc \in {"dlq_pending", "dlq_recorded", "seeded", "indexing"}
             \/ Return(e, pc) /\ <<pc, to>> \in AnswerStatus
      BY <1>9, <2>3 DEF TransitionOr409
    <3> HIDE DEF row
    <3> QED
      BY <1>1, <1>2, <2>1, <2>2, <3>1
  <2>4. CASE ~CanTransition(job[j], to)
    <3>1. job' = job /\ Return(e, "raised")
      BY <1>9, <2>4 DEF TransitionOr409
    <3> QED
      BY <1>0, <1>2, <1>5, <2>1, <2>4, <3>1
  <2> QED
    BY <2>3, <2>4
<1>10. CASE EnterDlqPending(e)
  <2>1. /\ AtStep(e, "ready") /\ TransitionOr409(e, "dlq_pending", GoTo(e, "dlq_pending"))
        /\ <<"running", "dlq_pending">> \in ALLOWED_TRANSITIONS
        /\ <<"dlq_pending", "dlq_pending">> \in StepStatus
    BY <1>10 DEF EnterDlqPending, ALLOWED_TRANSITIONS, StepStatus
  <2> QED
    BY <1>4, <1>9, <2>1 DEF Status
<1>11. CASE EnterDlqRecorded(e)
  <2>1. /\ AtStep(e, "dlq_pending") /\ TransitionOr409(e, "dlq_recorded", GoTo(e, "dlq_recorded"))
        /\ <<"dlq_pending", "dlq_recorded">> \in ALLOWED_TRANSITIONS
        /\ <<"dlq_recorded", "dlq_recorded">> \in StepStatus
    BY <1>11 DEF EnterDlqRecorded, ALLOWED_TRANSITIONS, StepStatus
  <2> QED
    BY <1>4, <1>9, <2>1 DEF Status
<1>12. CASE SeedDlqItem(e)
  <2>1. /\ AtStep(e, "dlq_recorded") /\ GoTo(e, "seeded") /\ job' = job
        /\ Stopped(job[j]) \/ job[j].status = "dlq_recorded"
        /\ <<"seeded", "dlq_recorded">> \in StepStatus
    BY <1>0, <1>12 DEF SeedDlqItem, OnPath, StepStatus, AtStep
  <2> QED
    BY <1>0, <1>1, <1>5, <2>1
<1>13. CASE FailJob(e)
  <2>1. /\ AtStep(e, "seeded") /\ TransitionOr409(e, "failed", Return(e, "failed"))
        /\ <<"dlq_recorded", "failed">> \in ALLOWED_TRANSITIONS
        /\ <<"failed", "failed">> \in AnswerStatus
    BY <1>13 DEF FailJob, ALLOWED_TRANSITIONS, AnswerStatus
  <2> QED
    BY <1>4, <1>9, <2>1 DEF Status
<1>14. CASE Succeed(e)
  <2>1. /\ AtStep(e, "ready")
        /\ \/ TransitionOr409(e, "succeeded", GoTo(e, "indexing"))
           \/ TransitionOr409(e, "succeeded", Return(e, "succeeded"))
        /\ <<"running", "succeeded">> \in ALLOWED_TRANSITIONS
        /\ <<"indexing", "succeeded">> \in StepStatus
        /\ <<"succeeded", "succeeded">> \in AnswerStatus
    BY <1>14 DEF Succeed, ALLOWED_TRANSITIONS, StepStatus, AnswerStatus, TransitionOr409
  <2> QED
    BY <1>4, <1>9, <2>1 DEF Status
<1>15. CASE Interrupt(e)
  <2>1. /\ AtStep(e, "ready")
        /\ TransitionOr409(e, "needs_manual_decision", Return(e, "needs_manual_decision"))
        /\ <<"running", "needs_manual_decision">> \in ALLOWED_TRANSITIONS
        /\ <<"needs_manual_decision", "needs_manual_decision">> \in AnswerStatus
    BY <1>15 DEF Interrupt, ALLOWED_TRANSITIONS, AnswerStatus
  <2> QED
    BY <1>4, <1>9, <2>1 DEF Status
<1>16. CASE IndexDocument(e) \/ WorkflowRaises(e)
  <2>1. PICK result :
            /\ Return(e, result) /\ job' = job
            /\ \/ result = "succeeded" /\ AtStep(e, "indexing")
               \/ result = "raised" /\ "raise" \in Faults /\ AtStep(e, "indexing")
               \/ result = "raised" /\ "raise" \in Faults /\ AtStep(e, "ready")
    BY <1>16 DEF IndexDocument, WorkflowRaises, storeVars
  <2>2. \/ Stopped(job[j])
        \/ AtStep(e, "indexing") /\ job[j].status = "succeeded"
        \/ AtStep(e, "ready") /\ job[j].status = "running"
    BY <1>0, <2>1 DEF OnPath, StepStatus, AtStep
  <2>3. Stopped(job[j]) \/ <<result, job[j].status>> \in AnswerStatus
    BY <2>1, <2>2 DEF AnswerStatus, AtStep
  <2>4. job[j].status # "absent"
    BY <1>5, <2>2
  <2> QED
    BY <1>0, <1>2, <2>1, <2>3, <2>4
<1> QED
  BY <1>6, <1>7, <1>8, <1>10, <1>11, <1>12, <1>13, <1>14, <1>15, <1>16 DEF MidRun

\* Nobody else runs the job of e, and its message is not pending.
LEMMA OthersElsewhere ==
    ASSUME ExclusiveInv, NEW e \in Executors, Busy(e)
    PROVE  /\ JobOf(e) \in Jobs
           /\ \A f \in Executors \ {e} : Busy(f) => JobOf(f) # JobOf(e) /\ JobOf(f) \in Jobs
           /\ \A m \in Msgs : Used(m) /\ MessageJob(m) = JobOf(e) => m = exec[e].msg
           /\ exec[e].msg \in Msgs /\ stage[exec[e].msg] = "inflight"
           /\ MessageJob(exec[e].msg) = JobOf(e)
           /\ \A f \in Executors \ {e} : Busy(f) => exec[f].msg # exec[e].msg
           /\ ~Fresh(JobOf(e))
<1>1. ExclusiveExecution
  BY OneExecutor
<1>2. HoldsMessage(e)
  BY DEF ExclusiveInv, RunInv
<1>3. Used(exec[e].msg)
  BY <1>2 DEF HoldsMessage, Used
<1>4. \A m \in Msgs : Used(m) /\ MessageJob(m) = JobOf(e) => m = exec[e].msg
  BY <1>2, <1>3 DEF HoldsMessage, ExclusiveInv, DeliveryInv, OneMessagePerJob
<1> QED
  BY <1>1, <1>2, <1>3, <1>4
     DEF HoldsMessage, ExclusiveExecution, ExclusiveInv, TypeInv, WellFormed, RunInv, Fresh

\* A job not submitted yet has neither message nor run.
LEMMA AbsentIsUntouched ==
    ASSUME ExclusiveInv, NEW j \in Jobs, job[j].status = "absent"
    PROVE  Fresh(j) /\ \A e \in Executors : Busy(e) => JobOf(e) # j
<1>1. Fresh(j)
  BY DEF ExclusiveInv, DeliveryInv, EventInv
<1> QED
  BY <1>1, OthersElsewhere

\* A run's step takes its own job along the path and no other.
LEMMA PathKeeps ==
    ASSUME ExclusiveInv, PathInv, NEW e \in Executors, Busy(e), UNCHANGED queueVars,
           NEW x, NEW row, RunsTo(e, x, row)
    PROVE  PathInv'
<1> USE DEF ExclusiveInv, queueVars
<1>1. exec'[e] = x /\ \A f \in Executors \ {e} : exec'[f] = exec[f]
  BY DEF RunsTo, TypeInv, TypeOK
<1>2. job'[JobOf(e)] = row /\ \A j \in Jobs \ {JobOf(e)} : job'[j] = job[j]
  BY OthersElsewhere DEF RunsTo, TypeInv, TypeOK
<1>3. JobOf(e)' = JobOf(e) /\ \A f \in Executors \ {e} : JobOf(f)' = JobOf(f)
  BY <1>1 DEF RunsTo, JobOf
<1>4. \A f \in Executors \ {e} : Busy(f) => job'[JobOf(f)] = job[JobOf(f)]
  BY <1>2, OthersElsewhere
<1>5. \A f \in Executors :
        Busy(f)' => Stopped(job[JobOf(f)])' \/ OnPath(exec[f], job[JobOf(f)].status)'
  BY <1>1, <1>2, <1>3, <1>4 DEF RunsTo, PathInv, Busy, Stopped, OnPath, AnswerStatus, StepStatus
<1>6. \A f \in Executors :
        AtStep(f, "retrying")' => Stopped(job[JobOf(f)])' \/ exec'[f].copy = job'[JobOf(f)']
  BY <1>1, <1>2, <1>3, <1>4 DEF RunsTo, PathInv, Busy, AtStep, Stopped
<1>7. \A m \in Msgs : stage[m] = "pending" =>
        MessageJob(m) \in Jobs \ {JobOf(e)} /\ MessageJob(m)' = MessageJob(m)
  BY OthersElsewhere DEF Used, MessageJob, TypeInv, WellFormed
<1>8. \A m \in Msgs : stage'[m] = "pending" =>
        Stopped(job[MessageJob(m)])' \/ job'[MessageJob(m)'].status \in {"queued", "retrying"}
  BY <1>2, <1>7 DEF PathInv, Stopped
<1>9. \A j \in Jobs : Fresh(j)' => Fresh(j) /\ j # JobOf(e)
  BY OthersElsewhere DEF Fresh, Used, MessageJob
<1>10. \A j \in Jobs : Fresh(j)' => Stopped(job[j])' \/ job'[j].status \in {"absent", "queued"}
  BY <1>2, <1>9 DEF PathInv, Stopped
<1> QED
  BY <1>5, <1>6, <1>8, <1>10 DEF PathInv, JobOf

\* A step that changes no row and begins no run keeps the path, if what it puts
\* into the queue is runnable.
LEMMA PathUndisturbed ==
    ASSUME TypeInv, PathInv, UNCHANGED job,
           \A f \in Executors : exec'[f] = exec[f] \/ exec'[f].pc = "idle",
           \A m \in Msgs : stage'[m] = "pending" =>
               \/ stage[m] = "pending" /\ carries'[m] = carries[m]
               \/ Stopped(job[MessageJob(m)'])
               \/ job[MessageJob(m)'].status \in {"queued", "retrying"},
           \A j \in Jobs : Fresh(j)' => Fresh(j)
    PROVE  PathInv'
BY DEF PathInv, Busy, AtStep, JobOf, MessageJob, Stopped, OnPath, AnswerStatus, StepStatus

LEMMA PathSubmission ==
    ASSUME ExclusiveInv, PathInv, NEW i \in Jobs, SubmissionStep(i)
    PROVE  PathInv'
<1> USE DEF ExclusiveInv, TypeInv, TypeOK, queueVars, storeVars
<1>1. UNCHANGED queueVars /\ UNCHANGED exec
  BY DEF SubmissionStep, CreateJob, AppendOutboxEvent, CancelJob, PublishByHand
<1>2. \A j \in Jobs : Fresh(j)' <=> Fresh(j)
  BY <1>1 DEF Fresh, Used, MessageJob
<1>3. CASE UNCHANGED job
  BY <1>1, <1>2, <1>3, PathUndisturbed
<1>4. CASE CreateJob(i) \/ CancelJob(i)
  <2>1. /\ \A j \in Jobs \ {i} : job'[j] = job[j]
        /\ \/ job[i].status = "absent" /\ job'[i].status = "queued"
           \/ Stopped(job'[i])
    BY <1>4 DEF CreateJob, CancelJob, Row, Stopped
  <2>2. \A e \in Executors : Busy(e) => JobOf(e) \in Jobs /\ (JobOf(e) = i => Stopped(job'[i]))
    BY <2>1, AbsentIsUntouched DEF WellFormed
  <2>3. \A m \in Msgs : stage[m] = "pending" =>
            MessageJob(m) \in Jobs /\ (MessageJob(m) = i => Stopped(job'[i]))
    BY <2>1, AbsentIsUntouched DEF WellFormed, Used, MessageJob, Fresh
  <2>4. \A e \in Executors :
            Busy(e)' => Stopped(job[JobOf(e)])' \/ OnPath(exec[e], job[JobOf(e)].status)'
    BY <1>1, <2>1, <2>2 DEF PathInv, Busy, JobOf, Stopped, OnPath, AnswerStatus, StepStatus
  <2>5. \A e \in Executors : AtStep(e, "retrying")' =>
            Stopped(job[JobOf(e)])' \/ exec'[e].copy = job'[JobOf(e)']
    BY <1>1, <2>1, <2>2 DEF PathInv, Busy, AtStep, JobOf, Stopped
  <2>6. \A m \in Msgs : stage'[m] = "pending" =>
            Stopped(job[MessageJob(m)])' \/ job'[MessageJob(m)'].status \in {"queued", "retrying"}
    BY <1>1, <2>1, <2>3 DEF PathInv, MessageJob, Stopped
  <2>7. \A j \in Jobs : Fresh(j)' => Stopped(job[j])' \/ job'[j].status \in {"absent", "queued"}
    BY <1>2, <2>1 DEF PathInv, Stopped
  <2> QED
    BY <2>4, <2>5, <2>6, <2>7 DEF PathInv, JobOf
<1> QED
  BY <1>3, <1>4 DEF SubmissionStep, AppendOutboxEvent, PublishByHand

LEMMA PathRelay ==
    ASSUME ExclusiveInv, PathInv, NEW r \in Relays, RelayStep(r), [Next]_vars
    PROVE  PathInv'
<1> USE DEF ExclusiveInv, queueVars, storeVars
<1>1. UNCHANGED job /\ UNCHANGED exec
  BY DEF RelayStep, StartRelay, RelaySkip, RelayEnqueue, RelayMarkDelivered,
         RelayMarkPublished, RelayDone
<1>2. \A j \in Jobs : Fresh(j)' => Fresh(j)
  BY StaysEnqueued DEF Enqueued, Fresh
<1>3. ASSUME NEW m \in Msgs, stage'[m] = "pending",
             ~(stage[m] = "pending" /\ carries'[m] = carries[m])
      PROVE  \/ Stopped(job[MessageJob(m)'])
             \/ job[MessageJob(m)'].status \in {"queued", "retrying"}
  <2>1. PICK j \in Jobs : RelayEnqueue(r, j)
    BY <1>3 DEF RelayStep, StartRelay, RelaySkip, RelayMarkDelivered,
                RelayMarkPublished, RelayDone
  <2>2. MessageJob(m)' = j
    BY <1>3, <2>1 DEF RelayEnqueue, Queue!Enqueue, Queue!Move, TypeInv, TypeOK,
                      Queue!QueueTypeOK, MessageJob
  <2>3. Fresh(j) /\ job[j].status # "absent"
    BY <2>1 DEF RelayEnqueue, DeliveryInv, RelayInv, EventInv
  <2> QED
    BY <2>2, <2>3 DEF PathInv
<1> QED
  BY <1>1, <1>2, <1>3, PathUndisturbed

\* A message dequeued is of a runnable job, and a run that answers "retrying"
\* gives back the message of a retrying job.
LEMMA PathMessage ==
    ASSUME ExclusiveInv, PathInv, NEW e \in Executors, [Next]_vars,
           DequeueAndRun(e) \/ AckMessage(e) \/ NackMessage(e) \/ LeaveMessage(e)
    PROVE  PathInv'
<1> USE DEF ExclusiveInv, TypeInv, TypeOK, Queue!QueueTypeOK, queueVars, storeVars
<1>1. UNCHANGED <<job, carries>>
  BY DEF DequeueAndRun, AckMessage, NackMessage, LeaveMessage
<1>2. \A j \in Jobs : Fresh(j)' => Fresh(j)
  BY StaysEnqueued DEF Enqueued, Fresh
<1>3. CASE DequeueAndRun(e)
  <2>1. PICK m \in Msgs, mode \in Modes :
            Queue!Dequeue(m) /\ BeginRun(e, carries[m][1], m, mode)
    BY <1>3 DEF DequeueAndRun, Modes
  <2> DEFINE x == [IdleExecutor EXCEPT !.pc = "start", !.job = MessageJob(m),
                                       !.msg = m, !.mode = mode]
  <2>2. x.pc = "start" /\ x.job = MessageJob(m)
    BY DEF IdleExecutor
  <2>3. exec'[e] = x /\ \A f \in Executors \ {e} : exec'[f] = exec[f]
    BY <2>1 DEF BeginRun, MessageJob
  <2> HIDE DEF x
  <2>4. stage[m] = "pending" /\ \A n \in Msgs : stage'[n] = "pending" => stage[n] = "pending"
    BY <2>1 DEF Queue!Dequeue, Queue!Move
  <2>5. OnPath(x, "queued") /\ OnPath(x, "retrying")
    BY <2>2 DEF OnPath, StepStatus
  <2>6. Stopped(job[x.job]) \/ OnPath(x, job[x.job].status)
    BY <2>2, <2>4, <2>5 DEF PathInv
  <2>7. \A f \in Executors :
            Busy(f)' => Stopped(job[JobOf(f)])' \/ OnPath(exec[f], job[JobOf(f)].status)'
    <3>1. Stopped(job[JobOf(e)])' \/ OnPath(exec[e], job[JobOf(e)].status)'
      BY <1>1, <2>3, <2>6 DEF JobOf, Stopped, OnPath
    <3>2. ASSUME NEW f \in Executors, f # e, Busy(f)'
          PROVE  Stopped(job[JobOf(f)])' \/ OnPath(exec[f], job[JobOf(f)].status)'
      <4>1. Stopped(job[JobOf(f)]) \/ OnPath(exec[f], job[JobOf(f)].status)
        BY <2>3, <3>2 DEF PathInv, Busy
      <4> QED
        BY <1>1, <2>3, <3>2, <4>1 DEF JobOf, Stopped, OnPath
    <3> QED
      BY <3>1, <3>2
  <2>8. \A f \in Executors : AtStep(f, "retrying")' =>
            Stopped(job[JobOf(f)])' \/ exec'[f].copy = job'[JobOf(f)']
    BY <1>1, <2>2, <2>3 DEF PathInv, AtStep, JobOf, Stopped
  <2> QED
    BY <1>1, <1>2, <2>4, <2>7, <2>8 DEF PathInv, MessageJob, JobOf, Stopped
<1>4. CASE AckMessage(e) \/ LeaveMessage(e)
  <2>1. \A n \in Msgs : stage'[n] = "pending" => stage[n] = "pending"
    BY <1>4 DEF AckMessage, LeaveMessage, Queue!Ack, Queue!Move
  <2>2. \A f \in Executors : exec'[f] = exec[f] \/ exec'[f].pc = "idle"
    BY <1>4 DEF AckMessage, LeaveMessage, GoIdle, IdleExecutor
  <2> QED
    BY <1>1, <1>2, <2>1, <2>2, PathUndisturbed
<1>5. CASE NackMessage(e)
  <2>1. /\ Busy(e) /\ exec[e].pc = "answer" /\ exec[e].result = "retrying"
        /\ \A f \in Executors : exec'[f] = exec[f] \/ exec'[f].pc = "idle"
    BY <1>5 DEF NackMessage, GoIdle, IdleExecutor, AtStep, Busy
  <2>2. Stopped(job[JobOf(e)]) \/ job[JobOf(e)].status = "retrying"
    BY <2>1 DEF PathInv, OnPath, StepStatus, AnswerStatus
  <2>3. MessageJob(exec[e].msg) = JobOf(e)
    BY <2>1, OthersElsewhere
  <2>4. \A n \in Msgs \ {exec[e].msg} : stage'[n] = stage[n]
    BY <1>5 DEF NackMessage, Queue!Nack, Queue!Move
  <2>5. \A n \in Msgs : stage'[n] = "pending" =>
            \/ stage[n] = "pending" /\ carries'[n] = carries[n]
            \/ Stopped(job[MessageJob(n)'])
            \/ job[MessageJob(n)'].status \in {"queued", "retrying"}
    BY <1>1, <2>2, <2>3, <2>4 DEF MessageJob
  <2> QED
    BY <1>1, <1>2, <2>1, <2>5, PathUndisturbed
<1> QED
  BY <1>3, <1>4, <1>5

LEMMA PathInit == Init => PathInv
BY DEF Init, PathInv, NoRow, IdleExecutor, Busy, AtStep, Queue!QueueInit

LEMMA PathNext ==
    ASSUME \A p, q \in Relays : p = q, Runners = {}, "crash" \notin Faults,
           ExclusiveInv, PathInv, [Next]_vars
    PROVE  PathInv'
<1>1. CASE UNCHANGED vars
  <2>1. UNCHANGED <<job, exec, stage, carries>>
    BY <1>1 DEF vars, storeVars, queueVars
  <2> QED
    BY <2>1, PathUndisturbed DEF Fresh, Used, MessageJob, ExclusiveInv
<1>2. ASSUME NEW j \in Jobs, SubmissionStep(j) PROVE PathInv'
  BY <1>2, PathSubmission
<1>3. ASSUME NEW r \in Relays, RelayStep(r) PROVE PathInv'
  BY <1>3, PathRelay
<1>4. ASSUME NEW e \in Executors, MidRun(e) PROVE PathInv'
  <2>1. UNCHANGED queueVars /\ Busy(e)
    BY <1>4, StaysWithItsRun DEF MidRun, Start, Retry, StoreRetriedJob, EnterDlqPending,
                EnterDlqRecorded, SeedDlqItem, FailJob, Succeed, IndexDocument,
                Interrupt, WorkflowRaises, ExclusiveInv
  <2>2. PICK x, row : RunsTo(e, x, row)
    BY <1>4, RunStaysOnPath DEF ExclusiveInv
  <2> QED
    BY <2>1, <2>2, PathKeeps
<1>5. ASSUME NEW e \in Executors, ExecutorStep(e) PROVE PathInv'
  BY <1>4, <1>5, PathMessage DEF ExecutorStep, RunStep, MidRun, RunNow
<1>6. ~Crash
  BY DEF Crash, CrashExecutor, CrashRelay, CrashSubmission
<1> QED
  BY <1>1, <1>2, <1>3, <1>5, <1>6 DEF Next

-----------------------------------------------------------------------------
(* No unsettled job is forgotten.  Jobs are looked for nowhere but in the   *)
(* outbox and the queue, so a message that is in flight or gone must have   *)
(* somebody who runs it, or a job that needs nobody any more.               *)

ServedInv ==
    /\ \A m \in Msgs : stage[m] \in {"inflight", "gone"} =>
        \/ Settled(job[MessageJob(m)])
        \/ \E e \in Executors : Busy(e) /\ exec[e].msg = m
    /\ \A j \in Jobs : outbox[j] = "none" => job[j].status = "absent" \/ j \in creating

\* The case of the invariant that a step without queue calls and new jobs keeps.
LEMMA ServedUndisturbed ==
    ASSUME TypeInv, ServedInv,
           \A m \in Msgs : stage'[m] \in {"inflight", "gone"} =>
               stage[m] \in {"inflight", "gone"} /\ carries'[m] = carries[m],
           \A f \in Executors : Busy(f) => Busy(f)' /\ exec'[f].msg = exec[f].msg,
           \A m \in Msgs : stage[m] \in {"inflight", "gone"} =>
               \/ job'[MessageJob(m)] = job[MessageJob(m)] \/ Settled(job'[MessageJob(m)])
               \/ \E e \in Executors : Busy(e) /\ exec[e].msg = m,
           \A j \in Jobs : outbox'[j] = "none" =>
               \/ outbox[j] = "none" /\ (job[j].status = "absent" => job'[j].status = "absent")
                  /\ (j \in creating => j \in creating')
               \/ j \in creating'
    PROVE  ServedInv'
<1>1. ASSUME NEW m \in Msgs, stage'[m] \in {"inflight", "gone"}
      PROVE  \/ Settled(job'[MessageJob(m)'])
             \/ \E e \in Executors : Busy(e)' /\ exec'[e].msg = m
  <2>1. MessageJob(m)' = MessageJob(m) /\ stage[m] \in {"inflight", "gone"}
    BY <1>1 DEF MessageJob
  <2>2. CASE \E e \in Executors : Busy(e) /\ exec[e].msg = m
    BY <2>2
  <2>3. CASE ~\E e \in Executors : Busy(e) /\ exec[e].msg = m
    BY <2>1, <2>3 DEF ServedInv
  <2> QED
    BY <2>2, <2>3
<1>2. \A j \in Jobs : outbox'[j] = "none" => job'[j].status = "absent" \/ j \in creating'
  BY DEF ServedInv
<1>3. \A m \in Msgs : Settled(job[MessageJob(m)])' <=> Settled(job'[MessageJob(m)'])
  BY DEF Settled
<1> QED
  BY <1>1, <1>2, <1>3 DEF ServedInv

LEMMA ServedSubmission ==
    ASSUME ExclusiveInv, ServedInv, NEW i \in Jobs, SubmissionStep(i)
    PROVE  ServedInv'
<1> USE DEF ExclusiveInv, TypeInv, TypeOK, queueVars, storeVars, outboxVars
<1>1. UNCHANGED queueVars /\ UNCHANGED exec
  BY DEF SubmissionStep, CreateJob, AppendOutboxEvent, CancelJob, PublishByHand
<1>2. \A f \in Executors : Busy(f) => Busy(f)' /\ exec'[f].msg = exec[f].msg
  BY <1>1 DEF Busy
<1>3. ASSUME NEW m \in Msgs, stage[m] \in {"inflight", "gone"}
      PROVE  job'[MessageJob(m)] = job[MessageJob(m)] \/ Settled(job'[MessageJob(m)])
  <2>1. MessageJob(m) \in Jobs /\ Used(m)
    BY <1>3 DEF WellFormed, Used, MessageJob
  <2>2. CASE CreateJob(i)
    <3>1. MessageJob(m) # i
      BY <2>1, <2>2, AbsentIsUntouched DEF CreateJob, Fresh
    <3> QED
      BY <2>1, <2>2, <3>1 DEF CreateJob
  <2>3. CASE CancelJob(i)
    BY <2>1, <2>3 DEF CancelJob, Settled, Row
  <2> QED
    BY <2>2, <2>3 DEF SubmissionStep, AppendOutboxEvent, PublishByHand
<1>4. ASSUME NEW j \in Jobs, outbox'[j] = "none"
      PROVE  \/ outbox[j] = "none" /\ (job[j].status = "absent" => job'[j].status = "absent")
                /\ (j \in creating => j \in creating')
             \/ j \in creating'
  <2>1. CASE CreateJob(i)
    BY <1>4, <2>1 DEF CreateJob
  <2>2. CASE AppendOutboxEvent(i)
    BY <1>4, <2>2 DEF AppendOutboxEvent
  <2>3. CASE CancelJob(i)
    BY <1>4, <2>3 DEF CancelJob, Row
  <2>4. CASE PublishByHand(i)
    BY <1>4, <2>4 DEF PublishByHand
  <2> QED
    BY <2>1, <2>2, <2>3, <2>4 DEF SubmissionStep
<1> QED
  BY <1>1, <1>2, <1>3, <1>4, ServedUndisturbed

LEMMA ServedRelay ==
    ASSUME ExclusiveInv, ServedInv, NEW r \in Relays, RelayStep(r)
    PROVE  ServedInv'
<1> USE DEF ExclusiveInv, TypeInv, TypeOK, queueVars, storeVars, outboxVars
<1>1. UNCHANGED <<job, exec, creating>>
  BY DEF RelayStep, StartRelay, RelaySkip, RelayEnqueue, RelayMarkDelivered,
         RelayMarkPublished, RelayDone
<1>2. \A f \in Executors : Busy(f) => Busy(f)' /\ exec'[f].msg = exec[f].msg
  BY <1>1 DEF Busy
<1>3. \A m \in Msgs : stage'[m] \in {"inflight", "gone"} =>
          stage[m] \in {"inflight", "gone"} /\ carries'[m] = carries[m]
  <2>1. CASE \E j \in Jobs : RelayEnqueue(r, j)
    BY <2>1 DEF RelayEnqueue, Queue!Enqueue, Queue!Move, Queue!QueueTypeOK
  <2>2. CASE UNCHANGED queueVars
    BY <2>2
  <2> QED
    BY <2>1, <2>2 DEF RelayStep, StartRelay, RelaySkip, RelayMarkDelivered,
                      RelayMarkPublished, RelayDone
<1>4. \A j \in Jobs : outbox'[j] = "none" => outbox[j] = "none"
  BY DEF RelayStep, StartRelay, RelaySkip, RelayEnqueue, RelayMarkDelivered,
         RelayMarkPublished, RelayDone
<1> QED
  BY <1>1, <1>2, <1>3, <1>4, ServedUndisturbed

\* A run leaves its message with itself.
LEMMA ServedRun ==
    ASSUME ExclusiveInv, ServedInv, PathInv, NEW e \in Executors, MidRun(e)
    PROVE  ServedInv'
<1> USE DEF ExclusiveInv, queueVars, storeVars, outboxVars
<1>1. UNCHANGED queueVars /\ UNCHANGED outboxVars /\ Busy(e)
  BY StaysWithItsRun DEF MidRun, Start, Retry, StoreRetriedJob, EnterDlqPending,
         EnterDlqRecorded, SeedDlqItem, FailJob, Succeed, IndexDocument,
         Interrupt, WorkflowRaises
<1>2. PICK x, row : RunsTo(e, x, row)
  BY RunStaysOnPath
<1>3. exec'[e] = x /\ \A f \in Executors \ {e} : exec'[f] = exec[f]
  BY <1>2 DEF RunsTo, TypeInv, TypeOK
<1>4. \A f \in Executors : Busy(f) => Busy(f)' /\ exec'[f].msg = exec[f].msg
  BY <1>1, <1>2, <1>3 DEF Busy, RunsTo
<1>5. \A j \in Jobs \ {JobOf(e)} : job'[j] = job[j]
  BY <1>2 DEF RunsTo, TypeInv, TypeOK
<1>6. \A m \in Msgs : stage[m] \in {"inflight", "gone"} =>
          job'[MessageJob(m)] = job[MessageJob(m)] \/ m = exec[e].msg
  BY <1>1, <1>5, OthersElsewhere DEF TypeInv, WellFormed, Used, MessageJob
<1>7. \A j \in Jobs : outbox[j] = "none" => job'[j] = job[j]
  BY <1>1, <1>5, OthersElsewhere DEF DeliveryInv, EventInv
<1> QED
  BY <1>1, <1>4, <1>6, <1>7, ServedUndisturbed

\* What run_job_once answers when nothing raises is true of the row.
LEMMA AnswerIsTrue ==
    ASSUME PathInv, NEW e \in Executors, AtStep(e, "answer"), "raise" \notin Faults
    PROVE  \/ Settled(job[JobOf(e)])
           \/ exec[e].result = "retrying"
BY DEF PathInv, Busy, AtStep, OnPath, StepStatus, AnswerStatus, Stopped, Settled

\* A message is taken by an executor, acked when its job is settled, nacked
\* when it retries; drain-once leaves it only if the job was cancelled.
LEMMA ServedMessage ==
    ASSUME "raise" \notin Faults, Runners = {}, ExclusiveInv, ServedInv, PathInv,
           NEW e \in Executors,
           DequeueAndRun(e) \/ AckMessage(e) \/ NackMessage(e) \/ LeaveMessage(e)
    PROVE  ServedInv'
<1> USE DEF ExclusiveInv, TypeInv, TypeOK, Queue!QueueTypeOK, queueVars, storeVars,
            outboxVars, JobOf, MessageJob
<1>1. UNCHANGED <<job, outbox, creating, carries>>
  BY DEF DequeueAndRun, AckMessage, NackMessage, LeaveMessage
<1>2. CASE DequeueAndRun(e)
  <2>1. PICK m \in Msgs, mode \in Modes :
            Queue!Dequeue(m) /\ BeginRun(e, carries[m][1], m, mode)
    BY <1>2 DEF DequeueAndRun, Modes
  <2> DEFINE x == [IdleExecutor EXCEPT !.pc = "start", !.job = carries[m][1],
                                       !.msg = m, !.mode = mode]
  <2>2. x.pc = "start" /\ x.msg = m
    BY DEF IdleExecutor
  <2>3. exec'[e] = x /\ \A f \in Executors \ {e} : exec'[f] = exec[f]
    BY <2>1 DEF BeginRun
  <2> HIDE DEF x
  <2>4. \A n \in Msgs \ {m} : stage'[n] = stage[n]
    BY <2>1 DEF Queue!Dequeue, Queue!Move
  <2>5. ~Busy(e)
    BY <1>2 DEF DequeueAndRun, AtStep, Busy
  <2>6. Busy(e)' /\ \A f \in Executors : Busy(f) => Busy(f)' /\ exec'[f].msg = exec[f].msg
    BY <2>2, <2>3, <2>5 DEF Busy
  <2>7. \A n \in Msgs : stage'[n] \in {"inflight", "gone"} =>
            \/ Settled(job[MessageJob(n)])
            \/ \E f \in Executors : Busy(f)' /\ exec'[f].msg = n
    BY <2>2, <2>3, <2>4, <2>6 DEF ServedInv
  <2> QED
    BY <1>1, <2>7 DEF ServedInv, Settled
<1>3. CASE AckMessage(e) \/ NackMessage(e) \/ LeaveMessage(e)
  <2>1. /\ Busy(e) /\ AtStep(e, "answer")
        /\ \A f \in Executors \ {e} : exec'[f] = exec[f]
    BY <1>3 DEF AckMessage, NackMessage, LeaveMessage, GoIdle, AtStep, Busy
  <2>2. MessageJob(exec[e].msg) = JobOf(e) /\ exec[e].msg \in Msgs
        /\ stage[exec[e].msg] = "inflight"
    BY <2>1, OthersElsewhere
  <2>3. Settled(job[JobOf(e)]) \/ stage'[exec[e].msg] = "pending"
    BY <1>3, <2>1, <2>2, AnswerIsTrue
       DEF AckMessage, NackMessage, LeaveMessage, Queue!Nack, Queue!Move
  <2>4. \A n \in Msgs \ {exec[e].msg} : stage'[n] = stage[n]
    BY <1>3 DEF AckMessage, NackMessage, LeaveMessage, Queue!Ack, Queue!Nack, Queue!Move
  <2>5. ASSUME NEW n \in Msgs, stage'[n] \in {"inflight", "gone"}
        PROVE  \/ Settled(job[MessageJob(n)])
               \/ \E f \in Executors : Busy(f)' /\ exec'[f].msg = n
    <3>1. CASE n = exec[e].msg
      BY <2>2, <2>3, <2>5, <3>1
    <3>2. CASE n # exec[e].msg
      BY <2>1, <2>4, <2>5, <3>2 DEF ServedInv, Busy
    <3> QED
      BY <3>1, <3>2
  <2> QED
    BY <1>1, <2>5 DEF ServedInv, Settled
<1> QED
  BY <1>2, <1>3

LEMMA ServedNext ==
    ASSUME Runners = {}, "raise" \notin Faults, "crash" \notin Faults,
           ExclusiveInv, PathInv, ServedInv, [Next]_vars
    PROVE  ServedInv'
<1>1. CASE UNCHANGED vars
  BY <1>1 DEF vars, storeVars, queueVars, outboxVars, ServedInv, Settled, Busy, MessageJob
<1>2. ASSUME NEW j \in Jobs, SubmissionStep(j) PROVE ServedInv'
  BY <1>2, ServedSubmission
<1>3. ASSUME NEW r \in Relays, RelayStep(r) PROVE ServedInv'
  BY <1>3, ServedRelay
<1>4. ASSUME NEW e \in Executors, ExecutorStep(e) PROVE ServedInv'
  BY <1>4, ServedRun, ServedMessage DEF ExecutorStep, RunStep, MidRun, RunNow
<1>5. ~Crash
  BY DEF Crash, CrashExecutor, CrashRelay, CrashSubmission
<1> QED
  BY <1>1, <1>2, <1>3, <1>4, <1>5 DEF Next

\* create_job, relay_outbox_events, WorkerRuntime and drain-once: with one relay
\* call at a time, no run-now request and no process death, and unless an event is
\* published by hand or a graph raises, a job that is not settled is in the hands
\* of its handler, the outbox, a pending message or a thread, whatever is cancelled.
THEOREM NoJobForgotten ==
    ASSUME \A p, q \in Relays : p = q, Runners = {}, Faults \subseteq {"cancel"}
    PROVE  Spec => []UnsettledHasCarrier
<1>0. "crash" \notin Faults /\ "raise" \notin Faults /\ "publish" \notin Faults
  OBVIOUS
<1> DEFINE Inv == ExclusiveInv /\ PathInv /\ PublishInv /\ ServedInv
<1>1. Init => Inv
  BY ExclusiveInit, PathInit
     DEF Init, PublishInv, PublishedWasEnqueued, IdleRelay, ServedInv, Queue!QueueInit, NoRow
<1>2. Inv /\ [Next]_vars => Inv'
  BY <1>0, ExclusiveNext, PathNext, PublishNext, ServedNext DEF ExclusiveInv
<1>3. Inv => UnsettledHasCarrier
  <2> SUFFICES ASSUME Inv, NEW j \in Jobs, job[j].status # "absent", ~Settled(job[j]),
                      j \notin creating, outbox[j] # "pending",
                      ~\E m \in Msgs : stage[m] = "pending" /\ MessageJob(m) = j
               PROVE  \E e \in Executors : Busy(e) /\ JobOf(e) = j
    BY DEF UnsettledHasCarrier
  <2>1. outbox[j] = "published"
    BY DEF ServedInv, ExclusiveInv, TypeInv, TypeOK
  <2>2. PICK m \in Msgs : Used(m) /\ MessageJob(m) = j
    BY <2>1 DEF PublishInv, PublishedWasEnqueued
  <2>3. stage[m] \in {"inflight", "gone"}
    BY <2>2 DEF Used, ExclusiveInv, TypeInv, TypeOK, Queue!QueueTypeOK, Queue!Stages
  <2>4. PICK e \in Executors : Busy(e) /\ exec[e].msg = m
    BY <2>2, <2>3 DEF ServedInv
  <2> QED
    BY <2>2, <2>4, OthersElsewhere
<1> QED
  BY <1>1, <1>2, <1>3, PTL DEF Spec

-----------------------------------------------------------------------------
(* JobEngine implements JobContract, when nobody cancels: every step of a   *)
(* run that changes the row is the step of the contract from the status the *)
(* path says, and a job gets its one dead-letter item at "dlq_recorded".    *)

NotCancelled == \A j \in Jobs : ~job[j].cancelled

ParkedInv ==
    /\ \A j \in Jobs : dlq[j] > 0 => job[j].status \in {"dlq_recorded", "failed"}
    /\ \A e \in Executors : AtStep(e, "dlq_recorded") => dlq[JobOf(e)] = 0

ContractInv == ExclusiveInv /\ BudgetInv /\ PathInv /\ NotCancelled /\ ParkedInv

ContractStep == [Contract!ContractNext]_(Contract!contractVars)

\* The contract's view of a step that changes one row.
LEMMA ContractView ==
    ASSUME TypeInv, NEW j \in Jobs, NEW row \in Row, job' = [job EXCEPT ![j] = row]
    PROVE  /\ [i \in Jobs |-> job'[i].status]
                = [[i \in Jobs |-> job[i].status] EXCEPT ![j] = row.status]
           /\ [i \in Jobs |-> job'[i].retries]
                = [[i \in Jobs |-> job[i].retries] EXCEPT ![j] = row.retries]
BY DEF TypeInv, TypeOK

\* A step outside the rows and the dead-letter table is none of the contract's.
LEMMA ContractStutters == UNCHANGED <<job, dlq>> => ContractStep
BY DEF ContractStep, Contract!contractVars

\* Without cancellations a run finds its row at the status its place says.
LEMMA RunFindsStatus ==
    ASSUME ContractInv, NEW e \in Executors, Busy(e)
    PROVE  OnPath(exec[e], job[JobOf(e)].status)
<1>1. JobOf(e) \in Jobs
  BY OthersElsewhere DEF ContractInv
<1> QED
  BY <1>1 DEF ContractInv, PathInv, NotCancelled, Stopped

\* What a step of a run means for the dead-letter table.
LEMMA ParkedKeeps ==
    ASSUME ContractInv, NEW e \in Executors, MidRun(e),
           \A i \in Jobs \ {JobOf(e)} : dlq'[i] = dlq[i],
           dlq'[JobOf(e)] > 0 => job'[JobOf(e)].status \in {"dlq_recorded", "failed"},
           AtStep(e, "dlq_recorded")' => dlq'[JobOf(e)] = 0
    PROVE  ParkedInv' /\ NotCancelled'
<1>1. TypeInv /\ AccountInv /\ PathInv
  BY DEF ContractInv, ExclusiveInv
<1>2. PICK x, row : RunsTo(e, x, row)
  BY <1>1, RunStaysOnPath
<1>3. Busy(e)
  BY <1>1, StaysWithItsRun
<1>4. exec'[e] = x /\ \A f \in Executors \ {e} : exec'[f] = exec[f]
  BY <1>1, <1>2 DEF RunsTo, TypeInv, TypeOK
<1>5. /\ JobOf(e) \in Jobs /\ job'[JobOf(e)] = row
      /\ \A i \in Jobs \ {JobOf(e)} : job'[i] = job[i]
  BY <1>1, <1>2, <1>3, OthersElsewhere DEF RunsTo, TypeInv, TypeOK, ContractInv
<1>6. NotCancelled'
  BY <1>2, <1>5 DEF ContractInv, NotCancelled, RunsTo
<1>7. JobOf(e)' = JobOf(e) /\ \A f \in Executors \ {e} : JobOf(f)' = JobOf(f)
  BY <1>2, <1>4 DEF RunsTo, JobOf
<1>8. \A f \in Executors : AtStep(f, "dlq_recorded")' => dlq'[JobOf(f)'] = 0
  <2> SUFFICES ASSUME NEW f \in Executors \ {e}, AtStep(f, "dlq_recorded")'
               PROVE  dlq'[JobOf(f)'] = 0
    BY <1>7
  <2>1. AtStep(f, "dlq_recorded") /\ Busy(f)
    BY <1>4 DEF AtStep, Busy
  <2>2. JobOf(f) \in Jobs \ {JobOf(e)}
    BY <1>3, <2>1, OthersElsewhere DEF ContractInv
  <2> QED
    BY <1>7, <2>1, <2>2 DEF ContractInv, ParkedInv
<1> QED
  BY <1>5, <1>6, <1>8 DEF ContractInv, ParkedInv, JobOf

\* run_job_once and transition_job_status, step by step.
LEMMA ContractRun ==
    ASSUME ContractInv, NEW e \in Executors, MidRun(e)
    PROVE  ContractStep /\ ParkedInv' /\ NotCancelled'
<1> DEFINE Goal == ContractStep /\ ParkedInv' /\ NotCancelled'
<1>j. PICK j \in Jobs : JobOf(e) = j
  BY StaysWithItsRun, OthersElsewhere DEF ContractInv, ExclusiveInv
<1> USE <1>j
<1>0. /\ TypeInv /\ PathInv /\ Busy(e) /\ job[j] \in Row
      /\ job \in [Jobs -> Row] /\ dlq \in [Jobs -> Nat]
      /\ exec \in [Executors -> ExecutorState]
      /\ OnPath(exec[e], job[j].status) /\ ~Stopped(job[j])
      /\ dlq[j] > 0 => job[j].status \in {"dlq_recorded", "failed"}
  BY StaysWithItsRun, RunFindsStatus, OthersElsewhere
     DEF ContractInv, ExclusiveInv, TypeInv, TypeOK, NotCancelled, Stopped, ParkedInv
<1>1. ASSUME NEW from \in Status, NEW to \in Status,
             <<from, to>> \in ALLOWED_TRANSITIONS, \A s : OnPath(exec[e], s) => s = from
      PROVE  /\ job[j].status = from /\ CanTransition(job[j], to)
             /\ Transitioned(job[j], to) \in Row /\ Transitioned(job[j], to).status = to
  BY <1>0, <1>1, TransitionOnPath
<1>2. \A s : /\ AtStep(e, "ready") => (OnPath(exec[e], s) => s = "running")
             /\ AtStep(e, "dlq_pending") => (OnPath(exec[e], s) => s = "dlq_pending")
             /\ AtStep(e, "seeded") => (OnPath(exec[e], s) => s = "dlq_recorded")
  BY DEF OnPath, AtStep, StepStatus
<1>3. ASSUME UNCHANGED <<job, dlq>>, ~AtStep(e, "dlq_recorded")' PROVE Goal
  BY <1>0, <1>3, ContractStutters, ParkedKeeps
<1>4. /\ \A result : Return(e, result) => ~AtStep(e, "dlq_recorded")'
      /\ \A pc : GoTo(e, pc) => exec'[e].pc = pc
  BY <1>0 DEF Return, GoTo, AtStep, ExecutorState
<1>5. CASE Start(e)
  <2> DEFINE row == Transitioned(job[j], "running")
  <2>1. job[j].status \in {"queued", "retrying"}
    BY <1>0, <1>5 DEF Start, AtStep, OnPath, StepStatus
  <2>2. row \in Row /\ row.status = "running" /\ row.retries = job[j].retries
    BY <1>0, TransitionedRow, TransitionedRetries DEF Status
  <2>3. /\ job' = [job EXCEPT ![j] = row] /\ dlq' = dlq
        /\ exec' = [exec EXCEPT ![e].pc = "ready", ![e].copy = row]
    BY <1>5, <2>1, <2>2 DEF Start
  <2> HIDE DEF row
  <2>4. Contract!Start(j)
    BY <1>0, <2>1, <2>2, <2>3, ContractView DEF Contract!Start, Contract!Change
  <2>5. dlq[j] = 0 /\ ~AtStep(e, "dlq_recorded")'
    BY <1>0, <2>1, <2>3 DEF AtStep, ExecutorState
  <2> QED
    BY <1>0, <2>3, <2>4, <2>5, ParkedKeeps DEF ContractStep, Contract!ContractNext
<1>6. CASE Retry(e)
  <2> DEFINE row == Transitioned(job[j], "retrying")
  <2>1. <<"running", "retrying">> \in ALLOWED_TRANSITIONS
    BY DEF ALLOWED_TRANSITIONS
  <2>2. /\ job[j].status = "running" /\ CanTransition(job[j], "retrying")
        /\ row \in Row /\ row.status = "retrying"
    BY <1>1, <1>2, <1>6, <2>1 DEF Retry, Status
  <2>3. row.retries = job[j].retries + 1
    BY <1>0, <2>2 DEF Transitioned, Row
  <2>4. job[j].retries < MaxRetries
    BY <1>6 DEF Retry, MayRetry, ContractInv, BudgetInv
  <2>5. /\ job' = [job EXCEPT ![j] = row] /\ dlq' = dlq
        /\ exec' = [exec EXCEPT ![e].pc = "retrying", ![e].copy = row]
    BY <1>6, <2>2 DEF Retry, TransitionOr409
  <2> HIDE DEF row
  <2>6. Contract!Retry(j)
    BY <1>0, <2>2, <2>3, <2>4, <2>5, ContractView DEF Contract!Retry, Contract!Change
  <2>7. dlq[j] = 0 /\ ~AtStep(e, "dlq_recorded")'
    BY <1>0, <2>2, <2>5 DEF AtStep, ExecutorState
  <2> QED
    BY <1>0, <2>5, <2>6, <2>7, ParkedKeeps DEF ContractStep, Contract!ContractNext
<1>7. CASE StoreRetriedJob(e)
  <2>1. exec[e].copy = job[j]
    BY <1>0, <1>7 DEF StoreRetriedJob, PathInv
  <2>2. UNCHANGED <<job, dlq>> /\ Return(e, "retrying")
    BY <1>0, <1>7, <2>1 DEF StoreRetriedJob
  <2> QED
    BY <1>3, <1>4, <2>2
<1>8. ASSUME NEW from \in Status, NEW to \in Status \ {"retrying"},
             <<from, to>> \in ALLOWED_TRANSITIONS,
             \A s : OnPath(exec[e], s) => s = from,
             job' = [job EXCEPT ![j] = Transitioned(job[j], to)], dlq' = dlq,
             \/ from = "running" /\ to \in {"succeeded", "needs_manual_decision"}
             \/ from = "running" /\ to = "dlq_pending"
             \/ from = "dlq_pending" /\ to = "dlq_recorded"
             \/ from = "dlq_recorded" /\ to = "failed" /\ dlq[j] > 0,
             AtStep(e, "dlq_recorded")' => to = "dlq_recorded"
      PROVE  Goal
  <2> DEFINE row == Transitioned(job[j], to)
  <2>1. job[j].status = from /\ row \in Row /\ row.status = to
    BY <1>1, <1>8
  <2>2. row.retries = job[j].retries
    BY <1>0, <1>8, TransitionedRetries
  <2>3. job' = [job EXCEPT ![j] = row] /\ dlq' = dlq
    BY <1>8
  <2> HIDE DEF row
  <2>4. Contract!Settle(j) \/ Contract!Park(j) \/ Contract!Fail(j)
    <3>1. /\ [i \in Jobs |-> job'[i].status] = [[i \in Jobs |-> job[i].status] EXCEPT ![j] = to]
          /\ [i \in Jobs |-> job'[i].retries] = [i \in Jobs |-> job[i].retries]
      BY <1>0, <2>1, <2>2, <2>3, ContractView
    <3> QED
      BY <1>0, <1>8, <2>1, <2>3, <3>1
         DEF Contract!Settle, Contract!Park, Contract!Fail, Contract!Change
  <2>5. ContractStep
    BY <1>0, <2>4 DEF ContractStep, Contract!ContractNext
  <2>6. /\ dlq[j] > 0 => to = "failed"
        /\ AtStep(e, "dlq_recorded")' => dlq[j] = 0
    BY <1>0, <1>8, <2>1
  <2>7. job'[j].status = to
    BY <1>0, <2>1, <2>3
  <2> QED
    BY <1>0, <2>3, <2>5, <2>6, <2>7, ParkedKeeps
<1>9. CASE EnterDlqPending(e)
  <2>1. AtStep(e, "ready") /\ <<"running", "dlq_pending">> \in ALLOWED_TRANSITIONS
    BY <1>9 DEF EnterDlqPending, ALLOWED_TRANSITIONS
  <2>2. CanTransition(job[j], "dlq_pending")
    BY <1>1, <1>2, <2>1 DEF Status
  <2>3. /\ job' = [job EXCEPT ![j] = Transitioned(job[j], "dlq_pending")] /\ dlq' = dlq
        /\ GoTo(e, "dlq_pending")
    BY <1>9, <2>2 DEF EnterDlqPending, TransitionOr409
  <2> QED
    BY <1>2, <1>4, <1>8, <2>1, <2>3 DEF Status, AtStep
<1>10. CASE EnterDlqRecorded(e)
  <2>1. AtStep(e, "dlq_pending") /\ <<"dlq_pending", "dlq_recorded">> \in ALLOWED_TRANSITIONS
    BY <1>10 DEF EnterDlqRecorded, ALLOWED_TRANSITIONS
  <2>2. CanTransition(job[j], "dlq_recorded")
    BY <1>1, <1>2, <2>1 DEF Status
  <2>3. job' = [job EXCEPT ![j] = Transitioned(job[j], "dlq_recorded")] /\ dlq' = dlq
    BY <1>10, <2>2 DEF EnterDlqRecorded, TransitionOr409
  <2> QED
    BY <1>2, <1>8, <2>1, <2>3 DEF Status
<1>11. CASE SeedDlqItem(e)
  <2>1. /\ AtStep(e, "dlq_recorded") /\ dlq' = [dlq EXCEPT ![j] = dlq[j] + 1]
        /\ job' = job /\ ~AtStep(e, "dlq_recorded")'
    BY <1>4, <1>11 DEF SeedDlqItem, AtStep
  <2>2. job[j].status = "dlq_recorded" /\ dlq[j] = 0
    BY <1>0, <2>1 DEF OnPath, StepStatus, AtStep, ContractInv, ParkedInv
  <2>3. {i \in Jobs : dlq'[i] > 0} = {i \in Jobs : dlq[i] > 0} \union {j}
    BY <1>0, <2>1, <2>2
  <2>4. Contract!Seed(j)
    BY <1>0, <2>1, <2>2, <2>3 DEF Contract!Seed
  <2>5. ContractStep
    BY <1>0, <2>4 DEF ContractStep, Contract!ContractNext
  <2>6. \A i \in Jobs \ {j} : dlq'[i] = dlq[i]
    BY <1>0, <2>1
  <2> QED
    BY <2>1, <2>2, <2>5, <2>6, ParkedKeeps
<1>12. CASE FailJob(e)
  <2>1. AtStep(e, "seeded") /\ <<"dlq_recorded", "failed">> \in ALLOWED_TRANSITIONS
    BY <1>12 DEF FailJob, ALLOWED_TRANSITIONS
  <2>2. CanTransition(job[j], "failed") /\ dlq[j] > 0
    BY <1>1, <1>2, <2>1 DEF Status, ContractInv, ExclusiveInv, AccountInv
  <2>3. /\ job' = [job EXCEPT ![j] = Transitioned(job[j], "failed")] /\ dlq' = dlq
        /\ Return(e, "failed")
    BY <1>12, <2>2 DEF FailJob, TransitionOr409
  <2> QED
    BY <1>2, <1>4, <1>8, <2>1, <2>2, <2>3 DEF Status
<1>13. CASE Succeed(e)
  <2>1. AtStep(e, "ready") /\ <<"running", "succeeded">> \in ALLOWED_TRANSITIONS
    BY <1>13 DEF Succeed, ALLOWED_TRANSITIONS
  <2>2. CanTransition(job[j], "succeeded")
    BY <1>1, <1>2, <2>1 DEF Status
  <2>3. /\ job' = [job EXCEPT ![j] = Transitioned(job[j], "succeeded")] /\ dlq' = dlq
        /\ GoTo(e, "indexing") \/ Return(e, "succeeded")
    BY <1>13, <2>2 DEF Succeed, TransitionOr409
  <2> QED
    BY <1>2, <1>4, <1>8, <2>1, <2>3 DEF Status, AtStep
<1>14. CASE Interrupt(e)
  <2>1. AtStep(e, "ready") /\ <<"running", "needs_manual_decision">> \in ALLOWED_TRANSITIONS
    BY <1>14 DEF Interrupt, ALLOWED_TRANSITIONS
  <2>2. CanTransition(job[j], "needs_manual_decision")
    BY <1>1, <1>2, <2>1 DEF Status
  <2>3. /\ job' = [job EXCEPT ![j] = Transitioned(job[j], "needs_manual_decision")]
        /\ dlq' = dlq /\ Return(e, "needs_manual_decision")
    BY <1>14, <2>2 DEF Interrupt, TransitionOr409
  <2> QED
    BY <1>2, <1>4, <1>8, <2>1, <2>3 DEF Status
<1>15. CASE IndexDocument(e) \/ WorkflowRaises(e)
  BY <1>3, <1>4, <1>15 DEF IndexDocument, WorkflowRaises, storeVars
<1> QED
  BY <1>5, <1>6, <1>7, <1>9, <1>10, <1>11, <1>12, <1>13, <1>14, <1>15 DEF MidRun

\* Submission is the contract's first step; the outbox, the relay and the queue
\* are none of its business.
LEMMA ContractNextStep ==
    ASSUME \A p, q \in Relays : p = q, Runners = {}, "crash" \notin Faults,
           "cancel" \notin Faults, ContractInv, [Next]_vars
    PROVE  ContractStep /\ ParkedInv' /\ NotCancelled'
<1> DEFINE Goal == ContractStep /\ ParkedInv' /\ NotCancelled'
<1>1. ASSUME UNCHANGED <<job, dlq>>,
             \A f \in Executors : exec'[f] = exec[f] \/ exec'[f].pc \in {"idle", "start"}
      PROVE  Goal
  BY <1>1, ContractStutters DEF ContractInv, ParkedInv, NotCancelled, AtStep, JobOf
<1>2. CASE UNCHANGED vars
  BY <1>1, <1>2 DEF vars, storeVars
<1>3. ASSUME NEW j \in Jobs, CreateJob(j) PROVE Goal
  <2> DEFINE row == [job[j] EXCEPT !.status = "queued"]
  <2>0. TypeInv /\ job \in [Jobs -> Row] /\ job[j] \in Row
    BY DEF ContractInv, ExclusiveInv, TypeInv, TypeOK
  <2>1. /\ row \in Row /\ row.status = "queued" /\ row.retries = job[j].retries
        /\ row.cancelled = job[j].cancelled
    BY <2>0 DEF Row, Status
  <2>2. /\ job[j].status = "absent" /\ job' = [job EXCEPT ![j] = row]
        /\ dlq' = dlq /\ exec' = exec
    BY <1>3 DEF CreateJob
  <2> HIDE DEF row
  <2>3. Contract!Submit(j)
    BY <2>0, <2>1, <2>2, ContractView DEF Contract!Submit, Contract!Change
  <2>4. ParkedInv' /\ NotCancelled'
    BY <2>0, <2>1, <2>2 DEF ContractInv, ParkedInv, NotCancelled, AtStep, JobOf
  <2> QED
    BY <2>3, <2>4 DEF ContractStep, Contract!ContractNext
<1>4. ASSUME NEW j \in Jobs, SubmissionStep(j) PROVE Goal
  <2>1. CASE AppendOutboxEvent(j) \/ PublishByHand(j)
    BY <1>1, <2>1 DEF AppendOutboxEvent, PublishByHand, storeVars
  <2> QED
    BY <1>3, <1>4, <2>1 DEF SubmissionStep, CancelJob
<1>5. ASSUME NEW r \in Relays, RelayStep(r) PROVE Goal
  BY <1>1, <1>5 DEF RelayStep, StartRelay, RelaySkip, RelayEnqueue, RelayMarkDelivered,
                    RelayMarkPublished, RelayDone, storeVars
<1>6. ASSUME NEW e \in Executors, ExecutorStep(e) PROVE Goal
  <2>0. exec \in [Executors -> ExecutorState]
    BY DEF ContractInv, ExclusiveInv, TypeInv, TypeOK
  <2>1. CASE DequeueAndRun(e)
    <3>1. PICK m, mode : BeginRun(e, carries[m][1], m, mode)
      BY <2>1 DEF DequeueAndRun
    <3> DEFINE x == [IdleExecutor EXCEPT !.pc = "start", !.job = carries[m][1],
                                         !.msg = m, !.mode = mode]
    <3>2. x.pc = "start"
      BY DEF IdleExecutor
    <3>3. exec' = [exec EXCEPT ![e] = x] /\ UNCHANGED <<job, dlq>>
      BY <2>1, <3>1 DEF BeginRun, DequeueAndRun, storeVars
    <3> HIDE DEF x
    <3> QED
      BY <1>1, <2>0, <3>2, <3>3
  <2>2. CASE AckMessage(e) \/ NackMessage(e) \/ LeaveMessage(e)
    <3>1. exec' = [exec EXCEPT ![e] = IdleExecutor] /\ UNCHANGED <<job, dlq>>
      BY <2>2 DEF AckMessage, NackMessage, LeaveMessage, GoIdle, storeVars
    <3> QED
      BY <1>1, <2>0, <3>1 DEF IdleExecutor
  <2> QED
    BY <1>6, <2>1, <2>2, ContractRun DEF ExecutorStep, RunStep, MidRun, RunNow
<1>7. ~Crash
  BY DEF Crash, CrashExecutor, CrashRelay, CrashSubmission
<1> QED
  BY <1>2, <1>4, <1>5, <1>6, <1>7 DEF Next

LEMMA ContractInit == Init => ContractInv /\ Contract!ContractInit
<1>1. Init => BudgetInv
  BY JobEngineAssumption
     DEF Init, BudgetInv, RetriesWithinBudget, NoRow, IdleExecutor, AtStep
<1>2. Init => NotCancelled /\ ParkedInv
  BY DEF Init, NotCancelled, ParkedInv, NoRow, IdleExecutor, AtStep
<1>3. Init => Contract!ContractInit
  BY DEF Init, NoRow, Contract!ContractInit
<1> QED
  BY <1>1, <1>2, <1>3, ExclusiveInit, PathInit DEF ContractInv

LEMMA ContractNextInv ==
    ASSUME \A p, q \in Relays : p = q, Runners = {}, "crash" \notin Faults,
           "cancel" \notin Faults, ContractInv, [Next]_vars
    PROVE  ContractInv'
BY ExclusiveNext, BudgetNext, PathNext, ContractNextStep DEF ContractInv

\* run_job_once and transition_job_status implement JobContract, step by step:
\* with one relay call at a time, no run-now request, no process death and no
\* cancellation, for every set of jobs, workers, drains and messages, whatever
\* raises and is published by hand.
THEOREM ContractImplemented ==
    ASSUME \A p, q \in Relays : p = q, Runners = {}, "crash" \notin Faults,
           "cancel" \notin Faults
    PROVE  Spec => ImplementsContract
<1>1. Init => ContractInv /\ Contract!ContractInit
  BY ContractInit
<1>2. ContractInv /\ [Next]_vars => ContractInv'
  BY ContractNextInv
<1>3. ContractInv /\ [Next]_vars => [Contract!ContractNext]_(Contract!contractVars)
  BY ContractNextStep DEF ContractStep
<1> QED
  BY <1>1, <1>2, <1>3, PTL DEF Spec, ImplementsContract, Contract!ContractSpec

-----------------------------------------------------------------------------
(* A job's life is finite and its outcome final, under the conditions of     *)
(* ContractImplemented.                                                      *)

\* How often a row may still change, at most: each retry left is two changes,
\* to retrying and back to running, and a failure is the three after running.
ChangesLeft(row) ==
    LET retries == 2 * (MaxRetries - row.retries)
    IN  CASE row.status = "absent" -> retries + 5
          [] row.status \in {"queued", "retrying"} -> retries + 4
          [] row.status = "running" -> retries + 3
          [] row.status = "dlq_pending" -> 2
          [] row.status = "dlq_recorded" -> 1
          [] Settled(row) -> 0

\* A row changes so often from its submission on, and no oftener.
ChangesBounded == \A j \in Jobs : ChangesLeft(job[j]) \in 0 .. 2 * MaxRetries + 5

\* transition_job_status and the writes around it bring a row closer to its end.
RowsGoForward ==
    \A j \in Jobs : job'[j] # job[j] => ChangesLeft(job'[j]) < ChangesLeft(job[j])

\* A job that has settled keeps its row, whoever still holds a copy of it.
OutcomeIsFinal == \A j \in Jobs : Settled(job[j]) => job'[j] = job[j]

LEMMA ChangesOf ==
    ASSUME NEW row
    PROVE  /\ row.status = "absent"
                  => ChangesLeft(row) = 2 * (MaxRetries - row.retries) + 5
           /\ row.status \in {"queued", "retrying"}
                  => ChangesLeft(row) = 2 * (MaxRetries - row.retries) + 4
           /\ row.status = "running"
                  => ChangesLeft(row) = 2 * (MaxRetries - row.retries) + 3
           /\ row.status = "dlq_pending" => ChangesLeft(row) = 2
           /\ row.status = "dlq_recorded" => ChangesLeft(row) = 1
           /\ Settled(row) => ChangesLeft(row) = 0
BY DEF ChangesLeft, Settled

LEMMA ChangesOfRow ==
    ASSUME NEW row \in Row, row.retries <= MaxRetries
    PROVE  ChangesLeft(row) \in 0 .. 2 * MaxRetries + 5
<1>1. MaxRetries \in Nat /\ row.retries \in Nat /\ row.status \in Status
  BY JobEngineAssumption DEF Row
<1>2. \/ ChangesLeft(row) \in 0 .. 2
      \/ \E n \in 3 .. 5 : ChangesLeft(row) = 2 * (MaxRetries - row.retries) + n
  BY <1>1, ChangesOf DEF Status, Settled
<1> QED
  BY <1>1, <1>2

LEMMA RowInBudget ==
    ASSUME ContractInv, NEW j \in Jobs
    PROVE  job[j] \in Row /\ job[j].retries <= MaxRetries
BY DEF ContractInv, ExclusiveInv, TypeInv, TypeOK, BudgetInv, RetriesWithinBudget

LEMMA ChangesBound == ContractInv => ChangesBounded
BY RowInBudget, ChangesOfRow DEF ChangesBounded

\* The contract's steps, as they show in one row.
LEMMA ContractMoves ==
    ASSUME ContractInv, ContractStep, NotCancelled', TypeInv', NEW j \in Jobs, job'[j] # job[j]
    PROVE  LET from == job[j].status
               to == job'[j].status
           IN  \/ /\ job'[j].retries = job[j].retries
                  /\ \/ from = "absent" /\ to = "queued"
                     \/ from \in {"queued", "retrying", "needs_manual_decision"}
                            /\ to = "running"
                     \/ from = "running"
                            /\ to \in {"succeeded", "needs_manual_decision", "dlq_pending"}
                     \/ from = "dlq_pending" /\ to = "dlq_recorded"
                     \/ from = "dlq_recorded" /\ to = "failed"
               \/ /\ job'[j].retries = job[j].retries + 1
                  /\ from = "running" /\ to = "retrying"
<1> DEFINE status == [i \in Jobs |-> job[i].status]
           retries == [i \in Jobs |-> job[i].retries]
           parked == {i \in Jobs : dlq[i] > 0}
<1>1. /\ job[j] \in Row /\ job'[j] \in Row
      /\ job[j].cancelled = job'[j].cancelled
  BY DEF ContractInv, ExclusiveInv, TypeInv, TypeOK, NotCancelled, Row
<1>2. job'[j].status # job[j].status \/ job'[j].retries # job[j].retries
  BY <1>1 DEF Row
<1>3. /\ status[j] = job[j].status /\ status'[j] = job'[j].status
      /\ retries[j] = job[j].retries /\ retries'[j] = job'[j].retries
  OBVIOUS
<1>4. ~UNCHANGED <<status, retries, parked>>
  BY <1>2, <1>3
<1>5. PICK i \in Jobs :
          \/ Contract!Submit(i) \/ Contract!Start(i) \/ Contract!Retry(i)
          \/ Contract!Settle(i) \/ Contract!Park(i) \/ Contract!Seed(i) \/ Contract!Fail(i)
  BY <1>4 DEF ContractStep, Contract!contractVars, Contract!ContractNext
<1> QED
  BY <1>2, <1>3, <1>5
     DEF Contract!Submit, Contract!Start, Contract!Retry, Contract!Settle, Contract!Park,
         Contract!Seed, Contract!Fail, Contract!Change

\* Only run-now runs a job that waits for a human: the message that brought it
\* there is acked with that answer, and no other is left.
LEMMA ManualIsLeftAlone ==
    ASSUME Runners = {}, "crash" \notin Faults, "cancel" \notin Faults,
           ContractInv, [Next]_vars,
           NEW j \in Jobs, job[j].status = "needs_manual_decision"
    PROVE  job'[j] = job[j]
<1>1. TypeInv /\ AccountInv /\ PathInv /\ job \in [Jobs -> Row]
  BY DEF ContractInv, ExclusiveInv, TypeInv, TypeOK
<1>2. ASSUME NEW e \in Executors, MidRun(e) PROVE job'[j] = job[j]
  <2>1. PICK x, row : RunsTo(e, x, row)
    BY <1>1, <1>2, RunStaysOnPath
  <2>2. exec[e].pc \notin {"idle", "answer"} /\ OnPath(exec[e], job[JobOf(e)].status)
    BY <1>1, <1>2, StaysWithItsRun, RunFindsStatus
       DEF MidRun, Start, Retry, StoreRetriedJob, EnterDlqPending, EnterDlqRecorded,
           SeedDlqItem, FailJob, Succeed, IndexDocument, Interrupt, WorkflowRaises, AtStep
  <2>3. JobOf(e) # j
    BY <2>2 DEF OnPath, StepStatus
  <2> QED
    BY <1>1, <2>1, <2>3 DEF RunsTo
<1>3. ASSUME NEW i \in Jobs, SubmissionStep(i) PROVE job'[j] = job[j]
  BY <1>1, <1>3 DEF SubmissionStep, CreateJob, AppendOutboxEvent, PublishByHand, CancelJob,
                    storeVars
<1>4. ASSUME NEW r \in Relays, RelayStep(r) PROVE job'[j] = job[j]
  BY <1>4 DEF RelayStep, StartRelay, RelaySkip, RelayEnqueue, RelayMarkDelivered,
              RelayMarkPublished, RelayDone, storeVars
<1>5. ASSUME NEW e \in Executors, ExecutorStep(e) PROVE job'[j] = job[j]
  BY <1>2, <1>5 DEF ExecutorStep, RunStep, MidRun, RunNow, DequeueAndRun, AckMessage,
                    NackMessage, LeaveMessage, storeVars
<1>6. ~Crash
  BY DEF Crash, CrashExecutor, CrashRelay, CrashSubmission
<1>7. UNCHANGED vars => job'[j] = job[j]
  BY DEF vars, storeVars
<1> QED
  BY <1>3, <1>4, <1>5, <1>6, <1>7 DEF Next

LEMMA RowsAdvance ==
    ASSUME \A p, q \in Relays : p = q, Runners = {}, "crash" \notin Faults,
           "cancel" \notin Faults, ContractInv, [Next]_vars
    PROVE  RowsGoForward
<1> SUFFICES ASSUME NEW j \in Jobs, job'[j] # job[j]
             PROVE  ChangesLeft(job'[j]) < ChangesLeft(job[j])
  BY DEF RowsGoForward
<1>1. ContractInv' /\ ContractStep /\ NotCancelled' /\ TypeInv'
  BY ContractNextInv, ContractNextStep DEF ContractInv, ExclusiveInv
<1>2. /\ MaxRetries \in Nat
      /\ job[j].retries \in Nat /\ job[j].retries <= MaxRetries
      /\ job'[j].retries \in Nat /\ job'[j].retries <= MaxRetries
  BY <1>1, JobEngineAssumption
     DEF ContractInv, ExclusiveInv, TypeInv, TypeOK, Row, BudgetInv, RetriesWithinBudget
<1>3. job[j].status # "needs_manual_decision"
  BY ManualIsLeftAlone
<1> DEFINE left == 2 * (MaxRetries - job[j].retries)
           left2 == 2 * (MaxRetries - job'[j].retries)
<1>4. \/ /\ left2 = left
         /\ \/ ChangesLeft(job[j]) = left + 5 /\ ChangesLeft(job'[j]) = left2 + 4
            \/ ChangesLeft(job[j]) = left + 4 /\ ChangesLeft(job'[j]) = left2 + 3
            \/ ChangesLeft(job[j]) = left + 3 /\ ChangesLeft(job'[j]) \in {0, 2}
            \/ ChangesLeft(job[j]) = 2 /\ ChangesLeft(job'[j]) = 1
            \/ ChangesLeft(job[j]) = 1 /\ ChangesLeft(job'[j]) = 0
      \/ /\ job'[j].retries = job[j].retries + 1
         /\ ChangesLeft(job[j]) = left + 3 /\ ChangesLeft(job'[j]) = left2 + 4
  BY <1>1, <1>3, ContractMoves, ChangesOf DEF Settled
<1>5. left \in Nat /\ left2 \in Nat /\ (job'[j].retries = job[j].retries + 1 => left = left2 + 2)
  BY <1>2
<1> HIDE DEF left, left2
<1> QED
  BY <1>4, <1>5

\* run_job_once, transition_job_status and the retries of the worker together:
\* a job's row changes at most 2 * worker_max_retries + 5 times, from its
\* submission to its outcome, and every change brings it closer; no order of the
\* workers' and the handlers' statements sends it back.
THEOREM RowsWindDown ==
    ASSUME \A p, q \in Relays : p = q, Runners = {}, "crash" \notin Faults,
           "cancel" \notin Faults
    PROVE  Spec => []ChangesBounded /\ [][RowsGoForward]_vars
<1>1. ContractInv /\ [Next]_vars => ContractInv' /\ RowsGoForward
  BY ContractNextInv, RowsAdvance
<1> QED
  BY <1>1, ContractInit, ChangesBound, PTL DEF Spec

\* transition_job_status lets needs_manual_decision run again and a 409 is all
\* that protects succeeded and failed; under the conditions of ContractImplemented
\* a job that has settled never changes again, by a worker's late write either.
THEOREM OutcomesAreFinal ==
    ASSUME \A p, q \in Relays : p = q, Runners = {}, "crash" \notin Faults,
           "cancel" \notin Faults
    PROVE  Spec => [][OutcomeIsFinal]_vars
<1>1. ContractInv /\ [Next]_vars => ContractInv' /\ ChangesBounded'
  <2>1. ASSUME ContractInv' PROVE ChangesBounded'
    BY <2>1, ChangesOfRow
       DEF ContractInv, ExclusiveInv, TypeInv, TypeOK, BudgetInv, RetriesWithinBudget,
           ChangesBounded
  <2> QED
    BY <2>1, ContractNextInv
<1>2. ASSUME ContractInv, [Next]_vars PROVE OutcomeIsFinal
  <2> SUFFICES ASSUME NEW j \in Jobs, Settled(job[j]), job'[j] # job[j]
               PROVE  FALSE
    BY DEF OutcomeIsFinal
  <2>1. ChangesLeft(job[j]) = 0
    BY ChangesOf
  <2>2. ChangesLeft(job'[j]) < ChangesLeft(job[j])
    BY <1>2, RowsAdvance DEF RowsGoForward
  <2>3. ChangesLeft(job'[j]) \in 0 .. 2 * MaxRetries + 5
    BY <1>1, <1>2 DEF ChangesBounded
  <2>4. MaxRetries \in Nat
    BY JobEngineAssumption
  <2> QED
    BY <2>1, <2>2, <2>3, <2>4
<1> QED
  BY <1>1, <1>2, ContractInit, PTL DEF Spec

-----------------------------------------------------------------------------
(* The parse manifest.  It is written by the same run as the row but apart  *)
(* from it, so the two agree before the run's first statement and at its    *)
(* answer, and need not in between.                                         *)

AtRest(j) ==
    \A e \in Executors : Busy(e) /\ JobOf(e) = j => exec[e].pc \in {"start", "answer"}

ManifestInv ==
    \A j \in Jobs :
        JobType[j] = "parse" /\ job[j].status # "absent" /\ AtRest(j)
            => manifest[j] = job[j].status

\* A step of e that leaves manifest and row of its job in agreement, if it ends
\* where the two must agree.
LEMMA ManifestKeeps ==
    ASSUME TypeInv, ManifestInv, NEW e \in Executors, NEW j \in Jobs, Busy(e), JobOf(e) = j,
           NEW x, exec' = [exec EXCEPT ![e] = x], x.pc = "idle" \/ x.job = j,
           \A i \in Jobs \ {j} : job'[i] = job[i] /\ manifest'[i] = manifest[i],
           JobType[j] = "parse" /\ x.pc \in {"idle", "start", "answer"}
               => manifest'[j] = job'[j].status
    PROVE  ManifestInv'
<1>1. exec'[e] = x /\ \A f \in Executors \ {e} : exec'[f] = exec[f]
  BY DEF TypeInv, TypeOK
<1> SUFFICES ASSUME NEW i \in Jobs, JobType[i] = "parse", job'[i].status # "absent",
                    AtRest(i)'
             PROVE  manifest'[i] = job'[i].status
  BY DEF ManifestInv
<1>2. CASE i = j
  BY <1>1, <1>2 DEF AtRest, Busy, JobOf
<1>3. CASE i # j
  <2>1. AtRest(i)
    BY <1>1, <1>3 DEF AtRest, Busy, JobOf
  <2> QED
    BY <1>3, <2>1 DEF ManifestInv
<1> QED
  BY <1>2, <1>3

\* run_job_once with a parse job: each way out of it sets the manifest to what
\* the row says.
LEMMA ManifestRun ==
    ASSUME ContractInv, ManifestInv, NEW e \in Executors, MidRun(e)
    PROVE  ManifestInv'
<1>j. PICK j \in Jobs : JobOf(e) = j
  BY StaysWithItsRun, OthersElsewhere DEF ContractInv, ExclusiveInv
<1> USE <1>j
<1>0. /\ TypeInv /\ AccountInv /\ PathInv /\ Busy(e) /\ job[j] \in Row
      /\ job \in [Jobs -> Row] /\ manifest \in [Jobs -> ManifestStatus]
      /\ exec \in [Executors -> ExecutorState]
      /\ OnPath(exec[e], job[j].status) /\ ~Stopped(job[j])
  BY StaysWithItsRun, RunFindsStatus
     DEF ContractInv, ExclusiveInv, TypeInv, TypeOK, NotCancelled, Stopped
<1>1. PICK x, row : row \in Row /\ RunsTo(e, x, row)
  BY <1>0, RunStaysOnPath
<1>2. /\ exec' = [exec EXCEPT ![e] = x] /\ exec'[e] = x /\ x.job = j
      /\ x.pc \notin {"idle", "start"} /\ job'[j] = row
      /\ \A i \in Jobs \ {j} : job'[i] = job[i]
  BY <1>0, <1>1 DEF RunsTo
<1>3. \A s \in ManifestStatus : SetManifest(j, s) =>
          /\ \A i \in Jobs \ {j} : manifest'[i] = manifest[i]
          /\ JobType[j] = "parse" => manifest'[j] = s
  BY <1>0 DEF SetManifest
<1>4. ASSUME \A i \in Jobs \ {j} : manifest'[i] = manifest[i],
             JobType[j] = "parse" /\ x.pc = "answer" => manifest'[j] = row.status
      PROVE  ManifestInv'
  BY <1>0, <1>2, <1>4, ManifestKeeps
<1>5. ~Stopped(row)
  BY <1>0, <1>1 DEF RunsTo, Stopped, ContractInv, NotCancelled
<1>6. x.pc = "answer" => <<x.result, row.status>> \in AnswerStatus
  BY <1>1, <1>5 DEF RunsTo, OnPath, StepStatus
<1>7. /\ \A result : Return(e, result) => x.pc = "answer" /\ x.result = result
      /\ \A pc : GoTo(e, pc) => x.pc = pc
  <2>1. exec[e] \in ExecutorState
    BY <1>0
  <2>2. ASSUME NEW result, Return(e, result) PROVE x.pc = "answer" /\ x.result = result
    <3>1. x = [exec[e] EXCEPT !.pc = "answer", !.result = result]
      BY <1>0, <1>2, <2>2 DEF Return
    <3> QED
      BY <2>1, <3>1 DEF ExecutorState
  <2>3. ASSUME NEW pc, GoTo(e, pc) PROVE x.pc = pc
    <3>1. x = [exec[e] EXCEPT !.pc = pc]
      BY <1>0, <1>2, <2>3 DEF GoTo
    <3> QED
      BY <2>1, <3>1 DEF ExecutorState
  <2> QED
    BY <2>2, <2>3
<1>8. CASE Start(e)
  <2>1. job[j].status \in {"queued", "retrying"}
    BY <1>0, <1>8 DEF Start, AtStep, OnPath, StepStatus
  <2>2. Transitioned(job[j], "running").status = "running"
    BY <1>0, TransitionedRow DEF Status
  <2>3. /\ exec' = [exec EXCEPT ![e].pc = "ready",
                                ![e].copy = Transitioned(job[j], "running")]
        /\ SetManifest(j, "running")
    BY <1>8, <2>1, <2>2 DEF Start
  <2>4. x.pc = "ready"
    BY <1>0, <1>2, <2>3 DEF ExecutorState
  <2> QED
    BY <1>3, <1>4, <2>3, <2>4 DEF ManifestStatus
<1>9. CASE StoreRetriedJob(e)
  <2>1. SetManifest(j, "retrying") /\ job' = [job EXCEPT ![j] = exec[e].copy]
        /\ exec[e].copy.status = "retrying"
    BY <1>0, <1>9 DEF StoreRetriedJob, AccountInv
  <2> QED
    BY <1>0, <1>2, <1>3, <1>4, <2>1 DEF ManifestStatus
<1>10. CASE FailJob(e)
  <2>1. AtStep(e, "seeded") /\ \A s : OnPath(exec[e], s) => s = "dlq_recorded"
    BY <1>10 DEF FailJob, OnPath, AtStep, StepStatus
  <2>2. CanTransition(job[j], "failed")
    BY <1>0, <2>1 DEF CanTransition, ALLOWED_TRANSITIONS
  <2>3. Return(e, "failed") /\ SetManifest(j, "failed")
    BY <1>10, <2>2 DEF FailJob, TransitionOr409
  <2>4. row.status = "failed"
    BY <1>6, <1>7, <2>3 DEF AnswerStatus
  <2> QED
    BY <1>3, <1>4, <2>3, <2>4 DEF ManifestStatus
<1>11. CASE IndexDocument(e)
  <2>1. AtStep(e, "indexing") /\ \A s : OnPath(exec[e], s) => s = "succeeded"
    BY <1>11 DEF IndexDocument, OnPath, AtStep, StepStatus
  <2>2. SetManifest(j, "succeeded") /\ job' = job
    BY <1>11 DEF IndexDocument
  <2> QED
    BY <1>0, <1>2, <1>3, <1>4, <2>1, <2>2 DEF ManifestStatus
<1>12. ASSUME UNCHANGED manifest, JobType[j] = "parse" => x.pc # "answer" PROVE ManifestInv'
  BY <1>4, <1>12
<1>13. \A s : AtStep(e, "ready") => (OnPath(exec[e], s) => s = "running")
  BY DEF OnPath, AtStep, StepStatus
<1>14. \A s : AtStep(e, "dlq_pending") => (OnPath(exec[e], s) => s = "dlq_pending")
  BY DEF OnPath, AtStep, StepStatus
<1>15. CASE Retry(e)
  <2>1. CanTransition(job[j], "retrying")
    BY <1>0, <1>13, <1>15 DEF Retry, CanTransition, ALLOWED_TRANSITIONS
  <2>2. UNCHANGED manifest
        /\ exec' = [exec EXCEPT ![e].pc = "retrying",
                                ![e].copy = Transitioned(job[j], "retrying")]
    BY <1>15, <2>1 DEF Retry, TransitionOr409
  <2>3. x.pc = "retrying"
    BY <1>0, <1>2, <2>2 DEF ExecutorState
  <2> QED
    BY <1>12, <2>2, <2>3
<1>16. CASE EnterDlqPending(e)
  <2>1. CanTransition(job[j], "dlq_pending")
    BY <1>0, <1>13, <1>16 DEF EnterDlqPending, CanTransition, ALLOWED_TRANSITIONS
  <2>2. UNCHANGED manifest /\ GoTo(e, "dlq_pending")
    BY <1>16, <2>1 DEF EnterDlqPending, TransitionOr409
  <2> QED
    BY <1>7, <1>12, <2>2
<1>17. CASE EnterDlqRecorded(e)
  <2>1. CanTransition(job[j], "dlq_recorded")
    BY <1>0, <1>14, <1>17 DEF EnterDlqRecorded, CanTransition, ALLOWED_TRANSITIONS
  <2>2. UNCHANGED manifest /\ GoTo(e, "dlq_recorded")
    BY <1>17, <2>1 DEF EnterDlqRecorded, TransitionOr409
  <2> QED
    BY <1>7, <1>12, <2>2
<1>18. CASE SeedDlqItem(e)
  BY <1>7, <1>12, <1>18 DEF SeedDlqItem
<1>19. CASE Succeed(e)
  <2>1. CanTransition(job[j], "succeeded")
    BY <1>0, <1>13, <1>19 DEF Succeed, CanTransition, ALLOWED_TRANSITIONS
  <2>2. UNCHANGED manifest /\ (JobType[j] = "parse" => GoTo(e, "indexing"))
    BY <1>19, <2>1 DEF Succeed, TransitionOr409
  <2> QED
    BY <1>7, <1>12, <2>2
<1>20. CASE Interrupt(e) \/ WorkflowRaises(e)
  BY <1>12, <1>20 DEF Interrupt, WorkflowRaises, storeVars
<1> QED
  BY <1>8, <1>9, <1>10, <1>11, <1>15, <1>16, <1>17, <1>18, <1>19, <1>20 DEF MidRun

\* Nobody else writes a manifest but the handler that submits the job.
LEMMA ManifestNext ==
    ASSUME Runners = {}, "crash" \notin Faults, "cancel" \notin Faults,
           ContractInv, ManifestInv, [Next]_vars
    PROVE  ManifestInv'
<1>0. /\ TypeInv /\ job \in [Jobs -> Row] /\ manifest \in [Jobs -> ManifestStatus]
      /\ exec \in [Executors -> ExecutorState]
  BY DEF ContractInv, ExclusiveInv, TypeInv, TypeOK
<1>1. ASSUME UNCHANGED <<job, manifest, exec>> PROVE ManifestInv'
  BY <1>1 DEF ManifestInv, AtRest, Busy, JobOf
<1>2. CASE UNCHANGED vars
  BY <1>1, <1>2 DEF vars, storeVars
<1>3. ASSUME NEW j \in Jobs, CreateJob(j) PROVE ManifestInv'
  <2>1. /\ job[j].status = "absent" /\ job'[j].status = "queued"
        /\ JobType[j] = "parse" => manifest'[j] = "queued"
        /\ \A i \in Jobs \ {j} : job'[i] = job[i] /\ manifest'[i] = manifest[i]
        /\ exec' = exec
    BY <1>0, <1>3 DEF CreateJob, SetManifest, Row
  <2> QED
    BY <2>1 DEF ManifestInv, AtRest, Busy, JobOf
<1>4. ASSUME NEW j \in Jobs, SubmissionStep(j) PROVE ManifestInv'
  BY <1>1, <1>3, <1>4 DEF SubmissionStep, AppendOutboxEvent, PublishByHand, CancelJob,
                          storeVars
<1>5. ASSUME NEW r \in Relays, RelayStep(r) PROVE ManifestInv'
  BY <1>1, <1>5 DEF RelayStep, StartRelay, RelaySkip, RelayEnqueue, RelayMarkDelivered,
                    RelayMarkPublished, RelayDone, storeVars
<1>6. ASSUME NEW e \in Executors, DequeueAndRun(e) PROVE ManifestInv'
  <2>1. UNCHANGED <<job, manifest>> /\ ~Busy(e)
        /\ \A f \in Executors \ {e} : exec'[f] = exec[f]
    BY <1>0, <1>6 DEF DequeueAndRun, BeginRun, storeVars, AtStep, Busy
  <2>2. \A i \in Jobs : AtRest(i)' => AtRest(i)
    BY <2>1 DEF AtRest, Busy, JobOf
  <2> QED
    BY <2>1, <2>2 DEF ManifestInv
<1>7. ASSUME NEW e \in Executors, AckMessage(e) \/ NackMessage(e) \/ LeaveMessage(e)
      PROVE  ManifestInv'
  <2>1. /\ UNCHANGED <<job, manifest>> /\ Busy(e) /\ exec[e].pc = "answer"
        /\ exec' = [exec EXCEPT ![e] = IdleExecutor]
    BY <1>7 DEF AckMessage, NackMessage, LeaveMessage, GoIdle, storeVars, AtStep, Busy
  <2>2. \A i \in Jobs : AtRest(i)' => AtRest(i)
    BY <1>0, <2>1 DEF AtRest, Busy, JobOf
  <2> QED
    BY <2>1, <2>2 DEF ManifestInv
<1>8. ASSUME NEW e \in Executors, ExecutorStep(e) PROVE ManifestInv'
  BY <1>6, <1>7, <1>8, ManifestRun DEF ExecutorStep, RunStep, MidRun, RunNow
<1>9. ~Crash
  BY DEF Crash, CrashExecutor, CrashRelay, CrashSubmission
<1> QED
  BY <1>2, <1>4, <1>5, <1>8, <1>9 DEF Next

\* run_job_once sets the parse manifest in statements of its own: under the
\* conditions of ContractImplemented it agrees with the job row whenever nobody
\* runs the job, also when the parser raises.
THEOREM ManifestFollowsRow ==
    ASSUME \A p, q \in Relays : p = q, Runners = {}, "crash" \notin Faults,
           "cancel" \notin Faults
    PROVE  Spec => []ManifestAgrees
<1>1. Init => ContractInv /\ ManifestInv
  BY ContractInit DEF Init, ManifestInv, NoRow
<1>2. ContractInv /\ ManifestInv /\ [Next]_vars => (ContractInv /\ ManifestInv)'
  BY ContractNextInv, ManifestNext
<1>3. ManifestInv => ManifestAgrees
  BY DEF ManifestInv, ManifestAgrees, AtRest
<1> QED
  BY <1>1, <1>2, <1>3, PTL DEF Spec
=============================================================================
