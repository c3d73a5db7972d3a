------------------------------ MODULE Release ------------------------------
(***************************************************************************)
(* Releasing a version (store_release.py and its endpoints in              *)
(* routes/internal.py): a replay of the whole flow, the gates, the         *)
(* readiness assessment and the pipeline; rollout policies and rollback;   *)
(* data feedback and strategy tuning.                                      *)
(*                                                                         *)
(* Requests overlap, and a worker picks up the jobs a replay creates.  A   *)
(* run of a job is two steps, its start and its end; JobEngine,            *)
(* ParsePipeline and HumanReview show what is between.  The gates, the     *)
(* replay and the pipeline know nothing of one another: the release team   *)
(* carries answers from one to the next.                                   *)
(***************************************************************************)
EXTENDS Gates, Integers, FiniteSets, Sequences

CONSTANTS
    Requests,       \* the requests, each served by a thread
    Tenants,
    Readings,       \* what the gates may be asked about, all four
    ToolRetries,    \* retry_max of the tool policy
    None

ASSUME ReleaseAssumption ==
    /\ Readings \subseteq Reading
    /\ ToolRetries \in Nat
    /\ None \notin Requests

VARIABLES
    required,       \* P6_READINESS_REQUIRED
    kind, at,       \* what request r does, and where it is
    job,            \* job[r]: the jobs of r
    runs,           \* runs by others: <<r, j>>
    report,         \* report[r]: needs_human_review and the token of r's report
    policy,         \* release_rollout_policies of the release
    dataset,        \* dataset_version, <<major, minor, patch>>
    strategy,       \* strategy_config, and strategy_version_counter
    answer,         \* answer[r]: what r answered
    known,          \* the answers the release team has: replay, rollout, rollback
    admitted,       \* history: what the pipeline admitted, with the readings
    overlapped      \* history: the kinds of which two requests have overlapped

flow == <<job, runs, report>>
versions == <<dataset, strategy>>
vars == <<required, kind, at, flow, policy, versions, answer, known, admitted, overlapped>>

Kinds == {"replay", "pipeline", "plan", "decide", "rollback", "feedback", "tune"}
JobsOf == {"parse", "evaluation", "resume", "verify"}
NoReport == [review |-> FALSE, token |-> "none"]
Parts == {"selector", "score_calibration", "tool_policy"}

Init ==
    /\ required \in BOOLEAN
    /\ kind = [r \in Requests |-> None]
    /\ at = [r \in Requests |-> "idle"]
    /\ job = [r \in Requests |-> [j \in JobsOf |-> "none"]]
    /\ runs = {}
    /\ report = [r \in Requests |-> NoReport]
    /\ policy = None
    /\ dataset = <<1, 0, 0>>
    /\ strategy = [parts |-> [p \in Parts |-> None], version |-> 0]
    /\ answer = [r \in Requests |-> None]
    /\ known = [replay |-> None, rollout |-> FALSE, rollback |-> None]
    /\ admitted = {}
    /\ overlapped = {}

Over == {"answered", "failed"}
Doing(r, k, stage) == kind[r] = k /\ at[r] = stage
GoTo(r, stage) == at' = [at EXCEPT ![r] = stage]
Say(r, a) == answer' = [answer EXCEPT ![r] = a]
Fail(r) == GoTo(r, "failed") /\ Say(r, None) /\ UNCHANGED <<flow, known>>
Busy(k) == \E r \in Requests : kind[r] = k /\ at[r] \notin Over

Begin(r, k) ==
    /\ at[r] = "idle"
    /\ kind' = [kind EXCEPT ![r] = k]
    /\ GoTo(r, "begun")
    /\ overlapped' = overlapped \union (IF Busy(k) THEN {k} \intersect {"feedback", "tune"} ELSE {})
    /\ UNCHANGED <<required, flow, policy, versions, answer, known, admitted>>

-----------------------------------------------------------------------------
(* run_job_once, by the request or by a worker                              *)

\* A run starts from where it was left and joins one that is under way.
MayRun(r, j) == job[r][j] \in {"queued", "retrying", "needs_manual_decision", "running"}
Started(r, j) == [job EXCEPT ![r][j] = "running"]

\* The transition to succeeded is refused from any other status.
Ended(r, j) == [job EXCEPT ![r][j] = "succeeded"]
MayEnd(r, j) == job[r][j] \in {"running", "succeeded"}

\* A job whose event is in the outbox reaches a worker, or is run by the
\* internal endpoints; verify is known to nobody else.
WorkerStarts(r, j) ==
    /\ j # "verify" /\ MayRun(r, j) /\ job[r][j] # "running" /\ <<r, j>> \notin runs
    /\ job' = Started(r, j)
    /\ runs' = runs \union {<<r, j>>}
    /\ UNCHANGED <<required, kind, at, report, policy, versions, answer, known, admitted,
                   overlapped>>

\* The internal endpoints may make a run fail.  A run that raises leaves the
\* job running.  An evaluation that runs its nodes again wants the review
\* again, under a new token.
WorkerEnds(r, j) ==
    /\ <<r, j>> \in runs
    /\ runs' = runs \ {<<r, j>>}
    /\ \/ /\ \E s \in {"running", "retrying", "failed"} \union
                      (IF j = "evaluation" THEN {"needs_manual_decision"} ELSE {"succeeded"}) :
             job' = [job EXCEPT ![r][j] = IF @ = "running" THEN s ELSE @]
          /\ report' = [report EXCEPT ![r] =
                          IF job'[r].evaluation = "needs_manual_decision" /\ j = "evaluation"
                          THEN [review |-> TRUE, token |-> "live"] ELSE @]
       \/ j = "evaluation" /\ MayEnd(r, j) /\ job' = Ended(r, j) /\ UNCHANGED report
    /\ UNCHANGED <<required, kind, at, policy, versions, answer, known, admitted, overlapped>>

\* A reviewer may answer the report before the replay does.
ReviewerAnswers(r) ==
    /\ report[r].token = "live" /\ job[r].resume = "none"
    /\ report' = [report EXCEPT ![r] = [review |-> FALSE, token |-> "used"]]
    /\ job' = [job EXCEPT ![r].resume = "queued"]
    /\ UNCHANGED <<required, kind, at, runs, policy, versions, answer, known, admitted,
                   overlapped>>

-----------------------------------------------------------------------------
(* run_release_replay_e2e, with force_hitl                                  *)

CreateUpload(r) ==
    /\ Doing(r, "replay", "begun")
    /\ job' = [job EXCEPT ![r].parse = "queued"]
    /\ GoTo(r, "parse")
    /\ UNCHANGED <<runs, report, answer, known>>

\* A job that is over is not run: 409.
StartRun(r, j, stage, next) ==
    /\ at[r] = stage
    /\ IF MayRun(r, j)
       THEN job' = Started(r, j) /\ GoTo(r, next) /\ UNCHANGED <<runs, report, answer, known>>
       ELSE Fail(r)

\* Mutant: the job is not looked at before the run answers.
EndRun_Regardless(r, j, stage, next) ==
    /\ at[r] = stage
    /\ job' = IF MayEnd(r, j) THEN Ended(r, j) ELSE job
    /\ Say(r, "succeeded") /\ GoTo(r, next)
    /\ UNCHANGED <<runs, report, known>>

\* A run raises when its job has failed meanwhile ...
EndRun(r, j, stage, next) ==
    /\ at[r] = stage
    /\ IF MayEnd(r, j)
       THEN /\ job' = Ended(r, j)
            /\ Say(r, "succeeded") /\ GoTo(r, next)
            /\ UNCHANGED <<runs, report, known>>
       ELSE Fail(r)

\* ... or in its work: a parse after its job has succeeded, a resume before.
RunRaises(r) ==
    \/ /\ Doing(r, "replay", "parsing") /\ MayEnd(r, "parse")
       /\ job' = Ended(r, "parse")
       /\ Say(r, None) /\ GoTo(r, "failed")
       /\ UNCHANGED <<runs, report, known>>
    \/ Doing(r, "replay", "resuming") /\ Fail(r)

CreateEvaluation(r) ==
    /\ Doing(r, "replay", "evaluate")
    /\ report' = [report EXCEPT ![r] = [review |-> TRUE, token |-> "live"]]
    /\ job' = [job EXCEPT ![r].evaluation = "queued"]
    /\ GoTo(r, "consume")
    /\ UNCHANGED <<runs, answer, known>>

Consume(r) ==
    /\ Doing(r, "replay", "consume")
    /\ IF report[r].token = "live"
       THEN report' = [report EXCEPT ![r].token = "used"] /\ GoTo(r, "resume")
       ELSE UNCHANGED report /\ GoTo(r, "report")
    /\ UNCHANGED <<job, runs, answer, known>>

CreateResume(r) ==
    /\ Doing(r, "replay", "resume")
    /\ report' = [report EXCEPT ![r].review = FALSE]
    /\ job' = [job EXCEPT ![r].resume = "queued"]
    /\ GoTo(r, "runResume")
    /\ UNCHANGED <<runs, answer, known>>

ReplayPassed(r) == answer[r] = "succeeded" /\ ~report[r].review

RecordReplay(r) ==
    /\ Doing(r, "replay", "report")
    /\ known' = [known EXCEPT !.replay = [by |-> r, passed |-> ReplayPassed(r)]]
    /\ Say(r, None) /\ GoTo(r, "answered")
    /\ UNCHANGED flow

ReplayStep(r) ==
    /\ \/ CreateUpload(r)
       \/ kind[r] = "replay" /\ StartRun(r, "parse", "parse", "parsing")
       \/ kind[r] = "replay" /\ EndRun(r, "parse", "parsing", "evaluate")
       \/ CreateEvaluation(r) \/ Consume(r) \/ CreateResume(r)
       \/ kind[r] = "replay" /\ StartRun(r, "resume", "runResume", "resuming")
       \/ kind[r] = "replay" /\ EndRun(r, "resume", "resuming", "report")
       \/ RunRaises(r) \/ RecordReplay(r)
    /\ UNCHANGED <<required, kind, policy, versions, admitted, overlapped>>

-----------------------------------------------------------------------------
(* Readiness and the pipeline                                               *)

GateNames == Evaluators \union {"rollout", "rollback", "ops"}

\* The release team asks the gates and passes on what it was answered; it has
\* looked at operations itself.
GateResults(m) ==
    [g \in GateNames |->
        CASE g \in Evaluators -> Passes(g, m[g])
          [] g = "rollout"    -> known.rollout
          [] g = "rollback"   -> known.rollback # None /\ known.rollback.restored
          [] g = "ops"        -> TRUE]

FailedChecks(results, replayPassed, version) ==
    {g \in GateNames : ~results[g]}
    \union (IF replayPassed THEN {} ELSE {"replay"})
    \union (IF version = None THEN {"dataset"} ELSE {})

ExecutePipeline(r) ==
    /\ Doing(r, "pipeline", "begun")
    /\ \E m \in Readings, version \in {dataset, None} :
          LET replayed == known.replay # None /\ known.replay.passed
              failed   == FailedChecks(GateResults(m), replayed, version)
              admits   == required => failed = {}
          IN admitted' = IF admits
                            THEN admitted \union
                                 {[met |-> \A g \in Evaluators : Documented(g, m[g]),
                                   replay |-> known.replay, rollback |-> known.rollback,
                                   dataset |-> version]}
                            ELSE admitted
    /\ GoTo(r, "answered")
    /\ UNCHANGED <<required, kind, flow, policy, versions, answer, known, overlapped>>

-----------------------------------------------------------------------------
(* Rollout and rollback                                                     *)

\* One policy for a release: whoever plans last replaces it.
PlanRollout(r) ==
    /\ Doing(r, "plan", "begun")
    /\ \E whitelist \in SUBSET Tenants \ {{}} :
          policy' = [tenants |-> whitelist]
    /\ GoTo(r, "answered")
    /\ UNCHANGED <<required, kind, flow, versions, answer, known, admitted, overlapped>>

DecideRollout(r) ==
    /\ Doing(r, "decide", "begun")
    /\ IF policy = None THEN GoTo(r, "failed") /\ UNCHANGED known
       ELSE \E t \in Tenants :
               /\ known' = [known EXCEPT !.rollout = t \in policy.tenants]
               /\ GoTo(r, "answered")
    /\ UNCHANGED <<required, kind, flow, policy, versions, answer, admitted, overlapped>>

\* Breaches below the threshold trigger nothing, and everything is in order.
NoBreach(r) ==
    /\ Doing(r, "rollback", "begun")
    /\ GoTo(r, "answered")
    /\ known' = [known EXCEPT !.rollback = [by |-> r, triggered |-> FALSE, restored |-> TRUE]]
    /\ UNCHANGED <<flow, answer>>

CreateVerification(r) ==
    /\ Doing(r, "rollback", "begun")
    /\ job' = [job EXCEPT ![r].verify = "queued"]
    /\ GoTo(r, "verify")
    /\ UNCHANGED <<runs, report, answer, known>>

RecordRollback(r) ==
    /\ Doing(r, "rollback", "verified")
    /\ known' = [known EXCEPT !.rollback =
                    [by |-> r, triggered |-> TRUE, restored |-> answer[r] = "succeeded"]]
    /\ Say(r, None) /\ GoTo(r, "answered")
    /\ UNCHANGED flow

\* cancel_job may reach the verification job before it runs.
CancelVerification(r) ==
    /\ job[r].verify \in {"queued", "running"}
    /\ job' = [job EXCEPT ![r].verify = "failed"]
    /\ UNCHANGED <<at, runs, report, answer, known>>

RollbackStep(r) ==
    /\ \/ NoBreach(r) \/ CreateVerification(r) \/ RecordRollback(r)
       \/ kind[r] = "rollback" /\ StartRun(r, "verify", "verify", "verifying")
       \/ kind[r] = "rollback" /\ EndRun(r, "verify", "verifying", "verified")
       \/ CancelVerification(r)
    /\ UNCHANGED <<required, kind, policy, versions, admitted, overlapped>>

-----------------------------------------------------------------------------
(* Data feedback and strategy tuning                                        *)

\* Mutant: a major bump only resets the other two.
Bump_ForgetsMajor(v, bump) ==
    CASE bump = "major" -> <<v[1], 0, 0>>
      [] bump = "minor" -> <<v[1], v[2] + 1, 0>>
      [] bump = "patch" -> <<v[1], v[2], v[3] + 1>>

Bump(v, bump) ==
    CASE bump = "major" -> <<v[1] + 1, 0, 0>>
      [] bump = "minor" -> <<v[1], v[2] + 1, 0>>
      [] bump = "patch" -> <<v[1], v[2], v[3] + 1>>

\* The samples themselves are left out: a sample has the key of its item or
\* audit entry, and is never looked at again.  Then the version is read ...
ReadDataset(r) ==
    /\ Doing(r, "feedback", "begun")
    /\ Say(r, [before |-> dataset]) /\ GoTo(r, "bump")
    /\ UNCHANGED versions

\* ... and written.
BumpDataset(r) ==
    /\ Doing(r, "feedback", "bump")
    /\ \E bump \in {"major", "minor", "patch"} : dataset' = Bump(answer[r].before, bump)
    /\ Say(r, [before |-> answer[r].before, after |-> dataset'])
    /\ GoTo(r, "answered")
    /\ UNCHANGED strategy

\* The tool's thread writes part by part.
Tune(r, stage, part, next) ==
    /\ Doing(r, "tune", stage)
    /\ strategy' = [strategy EXCEPT !.parts[part] = r]
    /\ GoTo(r, next)
    /\ UNCHANGED <<dataset, answer>>

CountStrategy(r) ==
    /\ Doing(r, "tune", "count")
    /\ strategy' = [strategy EXCEPT !.version = @ + 1]
    /\ GoTo(r, "tuned")
    /\ UNCHANGED <<dataset, answer>>

Attempts(r) == IF answer[r] = None THEN 0 ELSE answer[r].attempts

\* The answer reads the configuration again.  A call that took too long is
\* awaited, its result thrown away, and made again, whatever the tool's
\* timeout_retry_policy says.
ToolReturns(r) ==
    /\ Doing(r, "tune", "tuned")
    /\ \/ Say(r, strategy) /\ GoTo(r, "answered")
       \/ Attempts(r) < ToolRetries /\ Say(r, [attempts |-> Attempts(r) + 1]) /\ GoTo(r, "begun")
       \/ Attempts(r) = ToolRetries /\ GoTo(r, "failed") /\ UNCHANGED answer
    /\ UNCHANGED versions

OperationsStep(r) ==
    /\ \/ ReadDataset(r) \/ BumpDataset(r)
       \/ Tune(r, "begun", "selector", "calibrate")
       \/ Tune(r, "calibrate", "score_calibration", "allow")
       \/ Tune(r, "allow", "tool_policy", "count")
       \/ CountStrategy(r) \/ ToolReturns(r)
    /\ UNCHANGED <<required, kind, flow, policy, known, admitted, overlapped>>

Next ==
    \E r \in Requests :
        \/ \E k \in Kinds : Begin(r, k)
        \/ \E j \in JobsOf : WorkerStarts(r, j) \/ WorkerEnds(r, j)
        \/ ReviewerAnswers(r)
        \/ ReplayStep(r) \/ ExecutePipeline(r)
        \/ PlanRollout(r) \/ DecideRollout(r) \/ RollbackStep(r)
        \/ OperationsStep(r)

Spec == Init /\ [][Next]_vars

-----------------------------------------------------------------------------
(* Properties *)

\* With readiness required, what a release team that passes answers on
\* faithfully gets admitted had its document parsed and its review asked and
\* answered, whatever worker ran those jobs meanwhile; it met
\* every threshold of the gate checklist; and the rollback, if one was
\* triggered, was verified by a job that ran to success.
AdmittedIsEarned ==
    required => \A a \in admitted :
        /\ a.met /\ a.dataset # None
        /\ a.replay # None
        /\ job[a.replay.by].parse = "succeeded"
        /\ job[a.replay.by].resume # "none"
        /\ a.rollback # None
        /\ a.rollback.triggered => job[a.rollback.by].verify = "succeeded"

\* Two feedback runs never report one dataset version, nor two tunings one
\* strategy version, and a tuning that is answered answers with its own three
\* parts, however often the tool was retried before: as long as no two of the
\* kind overlapped (versions are read, bumped and written without a lock).
Answered(k) == {r \in Requests : kind[r] = k /\ at[r] = "answered"}

VersionsTellApart ==
    /\ "feedback" \notin overlapped =>
          \A r, s \in Answered("feedback") : r # s => answer[r].after # answer[s].after
    /\ "tune" \notin overlapped =>
          \A r, s \in Answered("tune") :
             /\ r # s => answer[r].version # answer[s].version
             /\ answer[r].parts = [p \in Parts |-> r]
=============================================================================
