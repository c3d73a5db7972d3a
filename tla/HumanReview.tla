----------------------------- MODULE HumanReview -----------------------------
(***************************************************************************)
(* An evaluation that a person must decide on: created by POST             *)
(* /evaluations (store_eval.py), run by a worker through the LangGraph     *)
(* runtime or its compat replacement (langgraph_runtime.py), answered with *)
(* a resume token by POST /evaluations/{id}/resume (store_workflow.py).    *)
(*                                                                         *)
(* Creating evaluates everything at once and stores the report; running    *)
(* the job evaluates again under LangGraph, and only replays the report's  *)
(* verdict without it.  Checkpoints of both go to one trail per thread.    *)
(* LangGraph itself is external: its graph fails, stops at the interrupt   *)
(* by raising or by returning, or goes on to the end.                      *)
(***************************************************************************)
EXTENDS Naturals, Sequences, FiniteSets, FiniteSetsExt

CONSTANTS
    Evaluations,    \* evaluations, each with the job that runs it
    Requests,       \* resume requests; one that succeeds makes a job
    Runs,           \* calls of run_job_once
    Keys,           \* Idempotency-Key values of the resume requests
    Runtimes,       \* kinds of runtime: see RuntimeKinds
    MaxSaves,       \* bound on the checkpoints LangGraph itself saves per thread
    None

\* WORKFLOW_RUNTIME, and whether the true stack is required (no fallback).
RuntimeKinds == {"compat", "langgraph", "truestack"}

ASSUME HumanReviewAssumption ==
    /\ Runtimes \subseteq RuntimeKinds /\ Runtimes # {}
    /\ MaxSaves \in Nat
    /\ Evaluations \intersect Requests = {} /\ Requests \intersect Runs = {}
    /\ None \notin Evaluations \union Requests \union Runs \union Keys

VARIABLES
    runtime,
    creating,   \* creating[e]: where the thread that creates e is
    tokens,     \* resume_tokens[e]: id 0 before the first
    report,     \* evaluation_reports[e]: absent, or what it asks for
    job,        \* job[j]: status of the job of e, or of the one q made
    records,    \* idempotency records of the resume endpoint
    request,    \* request[q]: local state of a resume request
    run,        \* run[r]: local state of a run
    trail,      \* workflow_checkpoints of e's thread
    before      \* history: the requests or runs over when this one began

review == <<creating, tokens, report>>
vars == <<runtime, review, job, records, request, run, trail, before>>

Jobs == Evaluations \union Requests

NoToken == [id |-> 0, used |-> FALSE]
NoReport == [stored |-> FALSE, review |-> FALSE, token |-> 0]
IdleRequest == [at |-> "idle", e |-> None, key |-> None, token |-> 0,
                copy |-> NoReport]
IdleRun == [at |-> "idle", job |-> None, pending |-> FALSE, token |-> 0,
            gated |-> FALSE, fell |-> FALSE,
            kind |-> "node", seq |-> 0, then |-> "over"]

Init ==
    /\ runtime \in Runtimes
    /\ creating = [e \in Evaluations |-> "absent"]
    /\ tokens = [e \in Evaluations |-> NoToken]
    /\ report = [e \in Evaluations |-> NoReport]
    /\ job = [j \in Jobs |-> "absent"]
    /\ records = [k \in {} |-> None]
    /\ request = [q \in Requests |-> IdleRequest]
    /\ run = [r \in Runs |-> IdleRun]
    /\ trail = [e \in Evaluations |-> <<>>]
    /\ before = [x \in Requests \union Runs |-> {}]

-----------------------------------------------------------------------------
(* create_evaluation_job: the nodes in sequence, the job row, the event     *)

\* node_quality_gate registers a fresh token for a verdict that needs review.
Register(e) ==
    tokens' = [tokens EXCEPT ![e] = [NoToken EXCEPT !.id = tokens[e].id + 1]]

Evaluate(e, needs) ==
    /\ creating[e] = "absent"
    /\ creating' = [creating EXCEPT ![e] = IF needs THEN "hitl" ELSE "pass"]
    /\ IF needs THEN Register(e) ELSE UNCHANGED tokens
    /\ UNCHANGED <<runtime, report, job, records, request, run, trail, before>>

PersistReport(e) ==
    /\ creating[e] \in {"hitl", "pass"}
    /\ creating' = [creating EXCEPT ![e] = "reported"]
    /\ report' = [report EXCEPT ![e] =
                    [stored |-> TRUE, review |-> creating[e] = "hitl",
                     token |-> IF creating[e] = "hitl" THEN tokens[e].id ELSE 0]]
    /\ UNCHANGED <<runtime, tokens, job, records, request, run, trail, before>>

\* The job row and its event; the client has the evaluation's id from here on.
PersistJob(e) ==
    /\ creating[e] = "reported"
    /\ creating' = [creating EXCEPT ![e] = "created"]
    /\ job' = [job EXCEPT ![e] = "queued"]
    /\ UNCHANGED <<runtime, tokens, report, records, request, run, trail, before>>

-----------------------------------------------------------------------------
(* POST /evaluations/{id}/resume                                            *)

Asks(q, at) == request[q].at = at
Answered(q) == Asks(q, "ok")
Finished(q) == request[q].at \in {"ok", "refused", "failed"}
Ask(q, at) == request' = [request EXCEPT ![q].at = at]
RecordKey(q) == <<request[q].e, request[q].key>>

\* A client sends the token a report or a checkpoint showed it, or a wrong one.
BeginResume(q, e, k, token) ==
    /\ Asks(q, "idle") /\ creating[e] = "created"
    /\ token \in 0 .. tokens[e].id
    /\ request' = [request EXCEPT ![q] =
                     [IdleRequest EXCEPT !.at = "lookup", !.e = e, !.key = k, !.token = token]]
    /\ before' = [before EXCEPT ![q] = {p \in Requests : Finished(p)}]
    /\ UNCHANGED <<runtime, review, job, records, run, trail>>

\* run_idempotent: the payload, and with it the token, is what is compared.
LookUp(q) ==
    LET known == RecordKey(q) \in DOMAIN records IN
    /\ Asks(q, "lookup")
    /\ Ask(q, CASE ~known -> "validate"
                [] known /\ request[records[RecordKey(q)]].token = request[q].token -> "ok"
                [] OTHER -> "refused")
    /\ UNCHANGED <<runtime, review, job, records, run, trail, before>>

\* A token may have been issued more than resume_token_ttl_hours ago.
Validate(q) ==
    LET token == tokens[request[q].e]
        good == token.id = request[q].token /\ token.id # 0 /\ ~token.used
    IN
    /\ Asks(q, "validate")
    /\ \/ good /\ Ask(q, "consume")
       \/ Ask(q, "refused")
    /\ UNCHANGED <<runtime, review, job, records, run, trail, before>>

\* Mutant: the token is validated and left as it is.
Consume_Leaves(q) ==
    /\ Asks(q, "consume")
    /\ Ask(q, "storeJob")
    /\ UNCHANGED <<runtime, review, job, records, run, trail, before>>

\* Marks the token that is registered now, whichever was validated.
Consume(q) ==
    /\ Asks(q, "consume")
    /\ tokens' = [tokens EXCEPT ![request[q].e].used = TRUE]
    /\ Ask(q, "storeJob")
    /\ UNCHANGED <<runtime, creating, report, job, records, run, trail, before>>

\* The report is read, then the job stored, which nothing can tell apart.
StoreResumeJob(q) ==
    /\ Asks(q, "storeJob")
    /\ job' = [job EXCEPT ![q] = "queued"]
    /\ request' = [request EXCEPT ![q].at = "storeReport", ![q].copy = report[request[q].e]]
    /\ UNCHANGED <<runtime, review, records, run, trail, before>>

\* Mutant: the interrupt is not taken off the report.
StoreAnswer_KeepsReview(q) ==
    /\ Asks(q, "storeReport")
    /\ report' = [report EXCEPT ![request[q].e] = request[q].copy]
    /\ request' = [request EXCEPT ![q].at = "record", ![q].copy = NoReport]
    /\ UNCHANGED <<runtime, creating, tokens, job, records, run, trail, before>>

\* The copy goes back without its interrupt; the audit entry and the event follow.
StoreAnswer(q) ==
    /\ Asks(q, "storeReport")
    /\ report' = [report EXCEPT ![request[q].e] =
                     [request[q].copy EXCEPT !.review = FALSE, !.token = 0]]
    /\ request' = [request EXCEPT ![q].at = "record", ![q].copy = NoReport]
    /\ UNCHANGED <<runtime, creating, tokens, job, records, run, trail, before>>

RecordAnswer(q) ==
    /\ Asks(q, "record")
    /\ records' = [k \in DOMAIN records \union {RecordKey(q)} |->
                     IF k = RecordKey(q) THEN q ELSE records[k]]
    /\ Ask(q, "ok")
    /\ UNCHANGED <<runtime, review, job, run, trail, before>>

\* A store call of create_resume_job raises: the token stays consumed.
ResumeRaises(q) ==
    /\ request[q].at \in {"storeJob", "storeReport", "record"}
    /\ Ask(q, "failed")
    /\ UNCHANGED <<runtime, review, job, records, run, trail, before>>

-----------------------------------------------------------------------------
(* Checkpoints.  A node's number is the length of the trail plus one, a     *)
(* saved LangGraph state's the highest number plus one: read first,         *)
(* appended later.  Checkpoints with nothing in between that other threads  *)
(* could see are one entry.                                                 *)

EvaluationOf(j) == IF j \in Evaluations THEN j ELSE request[j].e
Thread(r) == EvaluationOf(run[r].job)
At(r, at) == run[r].at = at
GoTo(r, at) == run' = [run EXCEPT ![r].at = at]

Append1(r, kind, then, state) ==
    run' = [run EXCEPT ![r] = [state EXCEPT !.at = "count", !.kind = kind, !.then = then]]

Seqs(e) == {trail[e][i].seq : i \in DOMAIN trail[e]}
Saved(e) == {i \in DOMAIN trail[e] : trail[e][i].kind = "state"}

\* Mutant: states are not counted when a node is numbered.
NextSeq_CountsNodes(e, kind) ==
    CASE kind = "node"   -> Cardinality(DOMAIN trail[e] \ Saved(e)) + 1
      [] kind = "state"  -> IF trail[e] = <<>> THEN 1 ELSE Max(Seqs(e)) + 1

NextSeq(e, kind) ==
    CASE kind = "node"   -> Len(trail[e]) + 1
      [] kind = "state"  -> IF trail[e] = <<>> THEN 1 ELSE Max(Seqs(e)) + 1

CountTrail(r) ==
    /\ At(r, "count")
    /\ run' = [run EXCEPT ![r].at = "append", ![r].seq = NextSeq(Thread(r), run[r].kind)]
    /\ UNCHANGED <<runtime, review, job, records, request, trail, before>>

AppendCheckpoint(r) ==
    /\ At(r, "append")
    /\ trail' = [trail EXCEPT ![Thread(r)] =
                    Append(@, [seq |-> run[r].seq, by |-> r, kind |-> run[r].kind])]
    /\ run' = [run EXCEPT ![r].at = run[r].then, ![r].kind = "node", ![r].seq = 0,
                          ![r].then = "over"]
    /\ UNCHANGED <<runtime, review, job, records, request, before>>

-----------------------------------------------------------------------------
(* run_job_once for evaluation and resume jobs                              *)

BeginRun(r, j) ==
    /\ At(r, "idle") /\ job[j] # "absent"
    /\ run' = [run EXCEPT ![r].at = "start", ![r].job = j]
    /\ before' = [before EXCEPT ![r] = {s \in Runs : At(s, "over")}]
    /\ UNCHANGED <<runtime, review, job, records, request, trail>>

StartRun(r) ==
    LET j == run[r].job IN
    /\ At(r, "start")
    /\ CASE job[j] \in {"queued", "needs_manual_decision"} ->
              /\ job' = [job EXCEPT ![j] = "running"]
              /\ Append1(r, "node", "work", run[r])
         [] job[j] = "running" -> GoTo(r, "work") /\ UNCHANGED job
         [] OTHER -> GoTo(r, "over") /\ UNCHANGED job
    /\ UNCHANGED <<runtime, review, records, request, trail, before>>

\* _run_evaluation_workflow reads the report once; _run_resume_workflow does not.
Work(r) ==
    LET asks == run[r].job \in Evaluations /\ report[Thread(r)].review IN
    /\ At(r, "work")
    /\ IF runtime = "compat"
       THEN Append1(r, "node", IF asks THEN "needs_manual_decision" ELSE "succeeded", run[r])
       ELSE GoTo(r, "graph")
    /\ UNCHANGED <<runtime, review, job, records, request, trail, before>>

\* StoreCheckpointSaver.put, called by LangGraph around nodes.
GraphSaves(r) ==
    /\ At(r, "graph")
    /\ Cardinality(Saved(Thread(r))) < MaxSaves
    /\ Append1(r, "state", "graph", run[r])
    /\ UNCHANGED <<runtime, review, job, records, request, trail, before>>

\* The gate of the graph evaluates once more, also when a person has answered:
\* LangGraph runs the node from its beginning before interrupt() returns.
GraphGate(r, needs) ==
    LET e == Thread(r) IN
    /\ At(r, "graph")
    /\ IF needs THEN Register(e) ELSE UNCHANGED tokens
    /\ Append1(r, "node",
               IF needs /\ run[r].job \in Evaluations THEN "interrupt" ELSE "persist",
               [run[r] EXCEPT !.pending = needs, !.gated = TRUE,
                              !.token = IF needs THEN tokens[e].id + 1 ELSE 0])
    /\ UNCHANGED <<runtime, creating, report, job, records, request, trail, before>>

\* invoke raises GraphInterrupt, or returns as it does in the locked version.
GraphStops(r) ==
    /\ At(r, "interrupt")
    /\ \E status \in {"needs_manual_decision", "succeeded"} : GoTo(r, status)
    /\ UNCHANGED <<runtime, review, job, records, request, trail, before>>

\* node_persist_result writes the whole report, the answer or not.
GraphPersists(r) ==
    /\ At(r, "persist")
    /\ report' = [report EXCEPT ![Thread(r)] =
                    [stored |-> TRUE, review |-> run[r].pending, token |-> run[r].token]]
    /\ run' = [run EXCEPT ![r].at = "succeeded", ![r].pending = FALSE, ![r].token = 0]
    /\ UNCHANGED <<runtime, creating, tokens, job, records, request, trail, before>>

\* A node raises: the compat path finishes the run, and asks nobody.
Fallback(r) ==
    IF runtime = "truestack" \/ run[r].fell
    THEN GoTo(r, "over")
    ELSE Append1(r, "node", "succeeded", [run[r] EXCEPT !.fell = TRUE])

GraphFails(r) ==
    /\ run[r].at \in {"graph", "persist", "interrupt"}
    /\ Fallback(r)
    /\ UNCHANGED <<runtime, review, job, records, request, trail, before>>

CanTransition(from, to) ==
    from = to \/ from = "running" \/ (from = "needs_manual_decision" /\ to = "succeeded")

EndRun(r) ==
    LET j == run[r].job
        to == run[r].at
    IN  /\ to \in {"needs_manual_decision", "succeeded"}
        /\ IF CanTransition(job[j], to)
           THEN job' = [job EXCEPT ![j] = to] /\ Append1(r, "node", "over", run[r])
           ELSE /\ UNCHANGED job
                /\ IF runtime = "compat" THEN GoTo(r, "over") ELSE Fallback(r)
        /\ UNCHANGED <<runtime, review, records, request, trail, before>>

CreateStep(e) ==
    \/ \E needs \in BOOLEAN : Evaluate(e, needs)
    \/ PersistReport(e) \/ PersistJob(e)

ResumeStep(q) ==
    \/ \E e \in Evaluations, k \in Keys :
          \E token \in 0 .. tokens[e].id : BeginResume(q, e, k, token)
    \/ LookUp(q) \/ Validate(q) \/ Consume(q)
    \/ StoreResumeJob(q) \/ StoreAnswer(q) \/ RecordAnswer(q) \/ ResumeRaises(q)

RunStep(r) ==
    \/ \E j \in Jobs : BeginRun(r, j)
    \/ StartRun(r) \/ Work(r) \/ CountTrail(r) \/ AppendCheckpoint(r)
    \/ GraphSaves(r) \/ \E needs \in BOOLEAN : GraphGate(r, needs)
    \/ GraphStops(r) \/ GraphPersists(r) \/ GraphFails(r) \/ EndRun(r)

Next ==
    \/ \E e \in Evaluations : CreateStep(e)
    \/ \E q \in Requests : ResumeStep(q)
    \/ \E r \in Runs : RunStep(r)

Spec == Init /\ [][Next]_vars

-----------------------------------------------------------------------------
(* Properties *)

SameToken(p, q) == request[p].e = request[q].e /\ request[p].token = request[q].token
Stored(q) == job[q] # "absent"

\* One token makes one resume job, as long as the requests that show it do not
\* overlap: consume_resume_token validates a token and marks it in two steps,
\* which the evaluation's own run may separate by registering another.
ResumedOnce ==
    \A p, q \in Requests :
        (p # q /\ Stored(p) /\ Stored(q) /\ SameToken(p, q)) =>
            p \notin before[q] /\ q \notin before[p]

Regated(e) == \E r \in Runs : run[r].gated /\ Thread(r) = e
Spent(q) == request[q].at \in {"storeJob", "storeReport", "record", "failed"}

\* A report that asks for a decision shows the token that is registered, and
\* the token is still unused, unless a resume that took it is under way or has
\* failed, or LangGraph has run the gate again since the report was stored.
WaitingCanBeAnswered ==
    \A e \in Evaluations : (report[e].review /\ ~Regated(e)) =>
        /\ tokens[e].id = report[e].token
        /\ tokens[e].used => \E q \in Requests : request[q].e = e /\ Spent(q)

\* Two entries of a trail have one number only if the runs that appended them
\* overlapped, although lengths and highest numbers are mixed when numbers are
\* given out (append_workflow_checkpoint, upsert_langgraph_checkpoint).
TrailNumbered ==
    \A e \in Evaluations : \A i, k \in DOMAIN trail[e] :
        (i < k /\ trail[e][i].seq = trail[e][k].seq) =>
            /\ trail[e][i].by # trail[e][k].by
            /\ trail[e][i].by \notin before[trail[e][k].by]
=============================================================================
