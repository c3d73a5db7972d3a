---------------------------- MODULE SnapshotStore ----------------------------
(***************************************************************************)
(* The persistent stores of store_backends.py: state lives in the memory   *)
(* of a process and is saved as one JSON snapshot after every operation    *)
(* that has an override; the Postgres store also writes some objects as    *)
(* rows and reads those back.  Threads interleave, processes restart, and  *)
(* with Postgres two processes (the API and the worker) share one          *)
(* snapshot.                                                               *)
(*                                                                         *)
(* An object is the set of the operations whose change it carries.  Read,  *)
(* check and write of one object are one step (what happens in between is  *)
(* in JobEngine and Governance).  A save copies the idempotency records,   *)
(* then encodes the live dictionaries (one call into the C encoder, so no  *)
(* other thread runs meanwhile), then writes under the lock.               *)
(***************************************************************************)
EXTENDS Naturals, Sequences, FiniteSets

CONSTANTS
    Threads,        \* the threads, one for each operation
    Processes,
    Backends,       \* subset of {"sqlite", "postgres"}
    MaxRestarts,    \* bound
    None

ASSUME SnapshotStoreAssumption ==
    /\ Backends \subseteq {"sqlite", "postgres"} /\ Backends # {}
    /\ MaxRestarts \in Nat
    /\ None \notin Threads

VARIABLES
    backend, home,  \* home[t]: the process of thread t
    memory,         \* memory[p][o]: object o in process p
    disk,           \* disk[o]: object o in the saved snapshot
    row,            \* row[o]: object o in its table
    op, at, step,   \* each thread: operation, what it does now, step of its program
    blob,           \* blob[t]: the part of a snapshot that t has read
    before,         \* history: who had been answered when t, still at work, began
    raced,          \* history: threads that changed something during another's save
    restarts

task == <<op, at, step, blob>>
history == <<before, raced>>
vars == <<backend, home, memory, disk, row, task, history, restarts>>

Objects == {"record", "job", "event", "token", "project", "release"}
Empty == [o \in Objects |-> {}]

\* Mutant: the dictionaries are copied and the records encoded.
CopiedFirst_Rest == Objects \ {"record"}

\* The snapshot copies idempotency records; of all else it holds references.
CopiedFirst == {"record"}

\* The tables that are read back; projects have a table nobody reads again
\* once a saved state was restored.
Rows == IF backend = "postgres" THEN {"job"} ELSE {}

-----------------------------------------------------------------------------
(* The operations, as the steps that touch the store                        *)

Change(o) == [do |-> "change", of |-> o]
Touch(o)  == [do |-> "touch", of |-> o]
Save      == [do |-> "save", of |-> None]

\* The operations with an override that saves, in the Sqlite class ...
SqliteRecords == {"reset", "run_idempotent", "execute_release_pipeline"}

\* Mutant: transition_job_status has no override.
SqliteJobs_Unsaved ==
    {"create_evaluation_job", "create_upload_job", "create_parse_job",
     "register_resume_token", "consume_resume_token", "create_resume_job"}

SqliteJobs ==
    {"create_evaluation_job", "create_upload_job", "create_parse_job",
     "transition_job_status", "register_resume_token", "consume_resume_token",
     "create_resume_job"}

SqliteOutbox ==
    {"append_outbox_event", "mark_outbox_event_published", "mark_outbox_delivered",
     "register_citation_source"}

SqliteReview ==
    {"seed_dlq_item", "requeue_dlq_item", "discard_dlq_item", "impose_legal_hold",
     "release_legal_hold", "execute_storage_cleanup", "cancel_job"}

SqliteRelease ==
    {"upsert_rollout_policy", "execute_rollback", "run_release_replay_e2e",
     "evaluate_release_readiness", "execute_release_pipeline", "run_data_feedback",
     "apply_strategy_tuning", "run_job_once"}

\* ... and in the Postgres class.
PostgresRecords == {"reset", "run_idempotent"}

PostgresJobs ==
    {"create_evaluation_job", "create_upload_job", "create_parse_job",
     "transition_job_status", "register_resume_token", "consume_resume_token",
     "create_resume_job"}

PostgresOutbox ==
    {"append_outbox_event", "mark_outbox_event_published", "mark_outbox_delivered",
     "register_citation_source"}

PostgresReview ==
    {"seed_dlq_item", "requeue_dlq_item", "discard_dlq_item", "impose_legal_hold",
     "release_legal_hold", "execute_storage_cleanup", "cancel_job"}

PostgresRelease ==
    {"upsert_rollout_policy", "execute_rollback", "run_release_replay_e2e",
     "evaluate_release_readiness", "run_data_feedback", "apply_strategy_tuning",
     "run_job_once"}

Overrides ==
    IF backend = "sqlite"
    THEN SqliteRecords \union SqliteJobs \union SqliteOutbox \union SqliteReview
         \union SqliteRelease
    ELSE PostgresRecords \union PostgresJobs \union PostgresOutbox
         \union PostgresReview \union PostgresRelease

SaveAfter(name) == IF name \in Overrides THEN <<Save>> ELSE <<>>
ChangeAndSave(o, name) == <<Change(o)>> \o SaveAfter(name)

\* create_evaluation_job inside run_idempotent; the nodes that run first may
\* register a resume token.
CreateProgram ==
    ChangeAndSave("token", "register_resume_token") \o <<Change("job")>>
    \o ChangeAndSave("event", "append_outbox_event") \o SaveAfter("create_evaluation_job")
    \o ChangeAndSave("record", "run_idempotent")

\* cancel_job changes the object that get_job_for_tenant gave it.
CancelProgram == <<Touch("job")>> \o SaveAfter("cancel_job")

\* execute_release_pipeline calls evaluate_release_readiness.
PipelineProgram ==
    ChangeAndSave("release", "evaluate_release_readiness")
    \o ChangeAndSave("release", "execute_release_pipeline")

\* One operation for each kind of object: with a row, in the snapshot only,
\* without an override.
Ops == {"create_evaluation_job", "transition_job_status", "register_resume_token",
        "cancel_job", "execute_release_pipeline", "update_project"}

ASSUME NoneAssumption == None \notin Ops

Program(o) == CASE o = "create_evaluation_job"    -> CreateProgram
                [] o = "transition_job_status"    -> ChangeAndSave("job", o)
                [] o = "register_resume_token"    -> ChangeAndSave("token", o)
                [] o = "cancel_job"               -> CancelProgram
                [] o = "execute_release_pipeline" -> PipelineProgram
                [] o = "update_project"           -> ChangeAndSave("project", o)

\* Bound: two processes with Postgres only.
Init ==
    /\ backend \in Backends
    /\ home \in [Threads -> Processes]
    /\ backend = "sqlite" => Cardinality({home[t] : t \in Threads}) = 1
    /\ memory = [p \in Processes |-> Empty]
    /\ disk = Empty /\ row = Empty
    /\ op = [t \in Threads |-> None]
    /\ at = [t \in Threads |-> "idle"]
    /\ step = [t \in Threads |-> 1]
    /\ blob = [t \in Threads |-> <<>>]
    /\ before = [t \in Threads |-> {}]
    /\ raced = {}
    /\ restarts = 0

Answered(t) == at[t] = "answered"
Saving(t) == at[t] = "saving"
Meets(t) == \E u \in Threads : u # t /\ home[u] = home[t] /\ Saving(u)
Race(t) == raced' = IF Meets(t) THEN raced \union {t} ELSE raced
Current(t) == Program(op[t])[step[t]]

Begin(t, o) ==
    /\ at[t] = "idle"
    /\ op' = [op EXCEPT ![t] = o]
    /\ at' = [at EXCEPT ![t] = "working"]
    /\ before' = [before EXCEPT ![t] = {u \in Threads : Answered(u)}]
    /\ UNCHANGED <<backend, home, memory, disk, row, step, blob, raced, restarts>>

\* The getters of the Postgres store replace what memory has by the row.
Found(t, o) ==
    IF o \in Rows /\ row[o] # {} THEN row[o] ELSE memory[home[t]][o]

\* _persist_*: memory, then the row.  A touch stays in memory.
ChangeObject(t) ==
    LET o == Current(t).of IN
    /\ at[t] = "working" /\ step[t] <= Len(Program(op[t])) /\ Current(t).do # "save"
    /\ memory' = [memory EXCEPT ![home[t]][o] = Found(t, o) \union {t}]
    /\ row' = IF o \in Rows /\ Current(t).do = "change"
              THEN [row EXCEPT ![o] = Found(t, o) \union {t}] ELSE row
    /\ step' = [step EXCEPT ![t] = @ + 1]
    /\ Race(t)
    /\ UNCHANGED <<backend, home, disk, op, at, blob, before, restarts>>

\* _state_snapshot.
StartSave(t) ==
    /\ at[t] = "working" /\ step[t] <= Len(Program(op[t])) /\ Current(t).do = "save"
    /\ at' = [at EXCEPT ![t] = "saving"]
    /\ blob' = [blob EXCEPT ![t] = [o \in CopiedFirst |-> memory[home[t]][o]]]
    /\ UNCHANGED <<backend, home, memory, disk, row, op, step, history, restarts>>

\* json.dumps.
Encode(t) ==
    /\ Saving(t) /\ DOMAIN blob[t] # Objects
    /\ blob' = [blob EXCEPT ![t] =
                    [o \in Objects |-> IF o \in DOMAIN @ THEN @[o] ELSE memory[home[t]][o]]]
    /\ UNCHANGED <<backend, home, memory, disk, row, op, at, step, history, restarts>>

\* The lock covers only this: the last to write wins.
WriteSnapshot(t) ==
    /\ Saving(t) /\ DOMAIN blob[t] = Objects
    /\ disk' = blob[t]
    /\ blob' = [blob EXCEPT ![t] = <<>>]
    /\ at' = [at EXCEPT ![t] = "working"]
    /\ step' = [step EXCEPT ![t] = @ + 1]
    /\ UNCHANGED <<backend, home, memory, row, op, history, restarts>>

\* Steps and history of an operation that is over are forgotten.
Answer(t) ==
    /\ at[t] = "working" /\ step[t] > Len(Program(op[t]))
    /\ at' = [at EXCEPT ![t] = "answered"]
    /\ step' = [step EXCEPT ![t] = 1]
    /\ before' = [before EXCEPT ![t] = {}]
    /\ UNCHANGED <<backend, home, memory, disk, row, op, blob, raced, restarts>>

\* _load_state: what the snapshot has replaces everything.
Loaded(p) == [memory EXCEPT ![p] = disk]

\* The process dies with what its threads were doing, and loads the snapshot.
Restart(p) ==
    LET lost == {t \in Threads : home[t] = p /\ at[t] \in {"working", "saving"}} IN
    /\ restarts < MaxRestarts
    /\ restarts' = restarts + 1
    /\ memory' = Loaded(p)
    /\ at' = [t \in Threads |-> IF t \in lost THEN "lost" ELSE at[t]]
    /\ step' = [t \in Threads |-> IF t \in lost THEN 1 ELSE step[t]]
    /\ blob' = [t \in Threads |-> IF t \in lost THEN <<>> ELSE blob[t]]
    /\ before' = [t \in Threads |-> IF t \in lost THEN {} ELSE before[t]]
    /\ UNCHANGED <<backend, home, disk, row, op, raced>>

Next ==
    \/ \E t \in Threads :
          \/ \E o \in Ops : Begin(t, o)
          \/ ChangeObject(t) \/ StartSave(t) \/ Encode(t) \/ WriteSnapshot(t)
          \/ Answer(t)
    \/ \E p \in Processes : Restart(p)

Spec == Init /\ [][Next]_vars

-----------------------------------------------------------------------------
(* Properties *)

Changes(t) == {Program(op[t])[i].of : i \in DOMAIN Program(op[t])} \ {None}
Unsaved == {"update_project"}
           \union IF backend = "postgres" THEN {"execute_release_pipeline"} ELSE {}

\* An operation finds what every operation answered before it began has done
\* to the object it reads.  What is not kept: a cancellation, when the next
\* getter reads the row again; without a row, what another process has in its
\* memory; after a restart, what has no override that saves, or was changed
\* while another thread of the process was saving, or was saved beside another
\* process.
Excused(u, t, o) ==
    IF o \in Rows THEN op[u] = "cancel_job"
    ELSE \/ home[u] # home[t]
         \/ /\ restarts > 0
            /\ \/ u \in raced
               \/ op[u] \in Unsaved
               \/ \E v \in Threads : home[v] # home[u] /\ op[v] # None

Reading(t) == at[t] = "working" /\ step[t] <= Len(Program(op[t])) /\ Current(t).do # "save"

AnsweredIsSeen ==
    \A t \in Threads : Reading(t) =>
        LET o == Current(t).of IN
        \A u \in before[t] : o \in Changes(u) => u \in Found(t, o) \/ Excused(u, t, o)

\* A saved idempotency record comes with what it is the answer of, however
\* saves and other operations overlapped and whenever a process died: a retry
\* after a restart is never answered with a job that does not exist.
RecordHasEffect == disk["record"] \subseteq (disk["job"] \intersect disk["event"])
=============================================================================
