----------------------------- MODULE JobContract -----------------------------
(***************************************************************************)
(* What the job engine promises of one job when nobody cancels it and no   *)
(* message is delivered twice: the legal path through jobs.status, at most *)
(* MaxRetries retries, exactly one dead-letter item before a failure.      *)
(* JobEngine implements it step by step (JobEngine!ImplementsContract).    *)
(***************************************************************************)
EXTENDS Naturals

CONSTANTS
    Jobs,
    MaxRetries      \* worker_max_retries

VARIABLES
    status,         \* status[j]: jobs.status, "absent" before submission
    retries,        \* retries[j]: jobs.retry_count
    parked          \* jobs with an item in the dead-letter table

contractVars == <<status, retries, parked>>

ContractInit ==
    /\ status = [j \in Jobs |-> "absent"]
    /\ retries = [j \in Jobs |-> 0]
    /\ parked = {}

Change(j, from, to) ==
    /\ status[j] \in from
    /\ status' = [status EXCEPT ![j] = to]

Submit(j) == Change(j, {"absent"}, "queued") /\ UNCHANGED <<retries, parked>>

Start(j) ==
    /\ Change(j, {"queued", "retrying", "needs_manual_decision"}, "running")
    /\ UNCHANGED <<retries, parked>>

Retry(j) ==
    /\ retries[j] < MaxRetries
    /\ Change(j, {"running"}, "retrying")
    /\ retries' = [retries EXCEPT ![j] = @ + 1]
    /\ UNCHANGED parked

Settle(j) ==
    /\ \E to \in {"succeeded", "needs_manual_decision"} : Change(j, {"running"}, to)
    /\ UNCHANGED <<retries, parked>>

Park(j) ==
    /\ \/ Change(j, {"running"}, "dlq_pending")
       \/ Change(j, {"dlq_pending"}, "dlq_recorded")
    /\ UNCHANGED <<retries, parked>>

Seed(j) ==
    /\ status[j] = "dlq_recorded"
    /\ j \notin parked
    /\ parked' = parked \union {j}
    /\ UNCHANGED <<status, retries>>

Fail(j) ==
    /\ j \in parked
    /\ Change(j, {"dlq_recorded"}, "failed")
    /\ UNCHANGED <<retries, parked>>

ContractNext ==
    \E j \in Jobs :
        Submit(j) \/ Start(j) \/ Retry(j) \/ Settle(j) \/ Park(j) \/ Seed(j) \/ Fail(j)

ContractSpec == ContractInit /\ [][ContractNext]_contractVars
=============================================================================
