--------------------------- MODULE ReleaseProofs ---------------------------
(***************************************************************************)
(* What a release is admitted on, and the versions that data feedback and  *)
(* strategy tuning hand out, for every number of requests, tenants,        *)
(* readings of the gates and retries of a tool.                            *)
(*                                                                         *)
(* The team's answers name the request they come from.  The jobs of that   *)
(* request only move on: an answer stays true because no step takes a      *)
(* success away, and it was true because a replay or a rollback is at a    *)
(* stage only when its jobs are as far.  Versions differ because they only *)
(* grow, and as long as one request of a kind is under way at a time what  *)
(* it read is what is stored.                                              *)
(***************************************************************************)
EXTENDS Release, TLAPS

-----------------------------------------------------------------------------
(* The gates                                                                *)

LEMMA NoneBelow ==
  ASSUME NEW m, NEW floor, Below(m, floor) = {}
  PROVE  \A x \in DOMAIN floor : ~(m[x] < floor[x])
BY DEF Below

LEMMA NoneAbove ==
  ASSUME NEW m, NEW ceiling, Above(m, ceiling) = {}
  PROVE  \A x \in DOMAIN ceiling : ~(m[x] > ceiling[x])
BY DEF Above

LEMMA QualityMeets ==
  ASSUME NEW m \in Quality, QualityFailed(m) = {} PROVE Documented("quality", m)
<1>1. \A x \in DOMAIN QualityFloor : ~(m[x] < QualityFloor[x])
  BY NoneBelow DEF QualityFailed
<1>2. \A x \in DOMAIN QualityCeiling : ~(m[x] > QualityCeiling[x])
  BY NoneAbove DEF QualityFailed
<1>3. /\ m.context_precision \in Nat /\ m.context_recall \in Nat /\ m.faithfulness \in Nat
      /\ m.response_relevancy \in Nat /\ m.hallucination_rate \in Nat /\ m.resolvable_rate \in Nat
  <2>1. \A v \in Rate : v \in Nat
    BY DEF Rate
  <2>2. /\ m.context_precision \in Rate /\ m.context_recall \in Rate /\ m.faithfulness \in Rate
        /\ m.response_relevancy \in Rate /\ m.hallucination_rate \in Rate
        /\ m.resolvable_rate \in Rate
    BY DEF Quality
  <2> QED
    BY <2>1, <2>2
<1>4. m.context_precision >= 800 /\ m.context_recall >= 800
  BY <1>1, <1>3 DEF QualityFloor
<1>5. m.faithfulness >= 900 /\ m.response_relevancy >= 850
  BY <1>1, <1>3 DEF QualityFloor
<1>6. m.resolvable_rate >= 980
  BY <1>1, <1>3 DEF QualityFloor
<1>7. m.hallucination_rate <= 50
  BY <1>2, <1>3 DEF QualityCeiling
<1> QED
  BY <1>4, <1>5, <1>6, <1>7 DEF Documented

LEMMA PerformanceMeets ==
  ASSUME NEW m \in Performance, PerformanceFailed(m) = {} PROVE Documented("performance", m)
<1>1. \A x \in DOMAIN PerformanceFloor : ~(m[x] < PerformanceFloor[x])
  BY NoneBelow DEF PerformanceFailed
<1>2. \A x \in DOMAIN PerformanceCeiling : ~(m[x] > PerformanceCeiling[x])
  BY NoneAbove DEF PerformanceFailed
<1>3. /\ m.api_p95_s \in Nat /\ m.retrieval_p95_s \in Nat /\ m.parse_50p_p95_s \in Nat
      /\ m.evaluation_p95_s \in Nat /\ m.queue_dlq_rate \in Nat /\ m.cache_hit_rate \in Nat
  <2>1. \A v \in Rate : v \in Nat
    BY DEF Rate
  <2>2. m.queue_dlq_rate \in Rate /\ m.cache_hit_rate \in Rate
    BY DEF Performance
  <2>3. /\ m.api_p95_s \in Nat /\ m.retrieval_p95_s \in Nat /\ m.parse_50p_p95_s \in Nat
        /\ m.evaluation_p95_s \in Nat
    BY DEF Performance
  <2> QED
    BY <2>1, <2>2, <2>3
<1>4. m.cache_hit_rate >= 700
  BY <1>1, <1>3 DEF PerformanceFloor
<1>5. m.api_p95_s <= 1500 /\ m.retrieval_p95_s <= 4000
  BY <1>2, <1>3 DEF PerformanceCeiling
<1>6. m.parse_50p_p95_s <= 180000 /\ m.evaluation_p95_s <= 120000 /\ m.queue_dlq_rate <= 10
  BY <1>2, <1>3 DEF PerformanceCeiling
<1> QED
  BY <1>4, <1>5, <1>6 DEF Documented

\* A coverage that is not below 1.0 is 1.0, and a count that is not above 0 is
\* 0: only because the schemas let nothing else through.
LEMMA SecurityMeets ==
  ASSUME NEW m \in Security, SecurityFailed(m) = {} PROVE Documented("security", m)
<1>1. \A x \in DOMAIN SecurityFloor : ~(m[x] < SecurityFloor[x])
  BY NoneBelow DEF SecurityFailed
<1>2. \A x \in DOMAIN SecurityCeiling : ~(m[x] > SecurityCeiling[x])
  BY NoneAbove DEF SecurityFailed
<1>3. /\ m.tenant_scope_violations \in Nat /\ m.auth_bypass_findings \in Nat
      /\ m.high_risk_approval_coverage \in 0 .. 1000
      /\ m.log_redaction_failures \in Nat /\ m.secret_scan_findings \in Nat
  BY DEF Security, Rate
<1>4. m.high_risk_approval_coverage = 1000
  BY <1>1, <1>3 DEF SecurityFloor
<1>5. m.tenant_scope_violations = 0 /\ m.auth_bypass_findings = 0
  BY <1>2, <1>3 DEF SecurityCeiling
<1>6. m.log_redaction_failures = 0 /\ m.secret_scan_findings = 0
  BY <1>2, <1>3 DEF SecurityCeiling
<1> QED
  BY <1>4, <1>5, <1>6 DEF Documented

LEMMA CostMeets ==
  ASSUME NEW m \in Cost, CostFailed(m) = {} PROVE Documented("cost", m)
<1>1. \A x \in DOMAIN CostFloor : ~(m[x] < CostFloor[x])
  BY NoneBelow DEF CostFailed
<1>2. ~(1000 * m.task_cost_p95 > CostRatio * m.baseline_task_cost_p95) /\ m.routing_degrade_passed
  BY DEF CostFailed
<1>3. m.degrade_availability >= 995 /\ m.budget_alert_coverage = 1000
  BY <1>1 DEF CostFloor, Cost, Rate
<1>4. 10 * m.task_cost_p95 <= 12 * m.baseline_task_cost_p95
  BY <1>2 DEF CostRatio, Cost
<1> QED
  BY <1>2, <1>3, <1>4 DEF Documented

\* A gate that passes met what the checklist asks for.
LEMMA PassesMeets ==
  ASSUME NEW m \in Reading, NEW g \in Evaluators, Passes(g, m[g])
  PROVE  Documented(g, m[g])
<1>1. m.quality \in Quality /\ m.performance \in Performance /\ m.security \in Security /\ m.cost \in Cost
  BY DEF Reading
<1>2. CASE g = "quality"
  BY <1>1, <1>2, QualityMeets DEF Passes, Failed
<1>3. CASE g = "performance"
  BY <1>1, <1>3, PerformanceMeets DEF Passes, Failed
<1>4. CASE g = "security"
  BY <1>1, <1>4, SecurityMeets DEF Passes, Failed
<1>5. CASE g = "cost"
  BY <1>1, <1>5, CostMeets DEF Passes, Failed
<1> QED
  BY <1>2, <1>3, <1>4, <1>5 DEF Evaluators

-----------------------------------------------------------------------------
(* What an admission rests on                                               *)

Statuses == {"none", "queued", "running", "retrying", "failed", "needs_manual_decision", "succeeded"}
Later == {"parse", "parsing", "evaluate", "consume", "resume", "runResume", "resuming", "report",
          "verify", "verifying", "verified", "bump", "calibrate", "allow", "count", "tuned"}
         \union Over

Shaped ==
    /\ kind \in [Requests -> Kinds \union {None}]
    /\ at \in [Requests -> Later \union {"idle", "begun"}]
    /\ job \in [Requests -> [JobsOf -> Statuses]]
    /\ report \in [Requests -> [review : BOOLEAN, token : {"none", "live", "used"}]]

\* A job is made after the request of its kind has begun.
NotYetMade(r) ==
    /\ at[r] \in {"idle", "begun"} \/ kind[r] # "replay" => job[r].parse = "none"
    /\ at[r] \in {"idle", "begun"} \/ kind[r] # "rollback" => job[r].verify = "none"

\* How far the jobs are when the replay or the rollback is at a stage.
AfterParse == {"evaluate", "consume", "resume", "runResume", "resuming", "report"}
Progress(r) ==
    /\ kind[r] = "replay" /\ at[r] \in AfterParse => job[r].parse = "succeeded"
    /\ kind[r] = "replay" /\ at[r] = "consume" =>
          report[r].token = "live" \/ job[r].resume # "none"
    /\ kind[r] = "replay" /\ at[r] \in {"runResume", "resuming", "report"} => job[r].resume # "none"
    /\ kind[r] = "rollback" /\ at[r] = "verified" => job[r].verify = "succeeded"

Replayed(r) == r \in Requests /\ job[r].parse = "succeeded" /\ job[r].resume # "none"
Verified(r) == r \in Requests /\ job[r].verify = "succeeded"

KnownFits ==
    /\ known.replay # None => Replayed(known.replay.by)
    /\ known.rollback # None /\ known.rollback.triggered => Verified(known.rollback.by)

AdmittedFits ==
    required => \A a \in admitted :
        /\ a.met /\ a.dataset # None
        /\ a.replay # None /\ Replayed(a.replay.by)
        /\ a.rollback # None /\ (a.rollback.triggered => Verified(a.rollback.by))

EarnInv ==
    /\ Shaped
    /\ \A r \in Requests : NotYetMade(r) /\ Progress(r)
    /\ DOMAIN known = {"replay", "rollout", "rollback"} /\ KnownFits
    /\ AdmittedFits

\* A step of the request r, or of its jobs, takes nothing back.
Only(r) == \A q \in Requests : q # r => /\ kind'[q] = kind[q] /\ at'[q] = at[q]
                                        /\ job'[q] = job[q] /\ report'[q] = report[q]
Kept(r) ==
    /\ job[r].parse = "succeeded" => job'[r].parse = "succeeded"
    /\ job[r].verify = "succeeded" => job'[r].verify = "succeeded"
    /\ job[r].resume # "none" => job'[r].resume # "none"

LEMMA KeptFits ==
  ASSUME NEW r \in Requests, Only(r), Kept(r)
  PROVE  /\ \A q : Replayed(q) => Replayed(q)'
         /\ \A q : Verified(q) => Verified(q)'
BY DEF Only, Kept, Replayed, Verified

LEMMA StepFits ==
  ASSUME EarnInv, NEW r \in Requests, Only(r), Kept(r), Shaped', NotYetMade(r)', Progress(r)',
         UNCHANGED known \/ (DOMAIN known' = {"replay", "rollout", "rollback"} /\ KnownFits'),
         UNCHANGED required, UNCHANGED admitted \/ AdmittedFits'
  PROVE  EarnInv'
<1>1. \A q \in Requests : NotYetMade(q)' /\ Progress(q)'
  BY DEF EarnInv, Only, NotYetMade, Progress
<1>2. (\A q : Replayed(q) => Replayed(q)') /\ \A q : Verified(q) => Verified(q)'
  BY KeptFits
<1>3. DOMAIN known' = {"replay", "rollout", "rollback"} /\ KnownFits'
  BY <1>2 DEF EarnInv, KnownFits
<1>4. AdmittedFits'
  BY <1>2 DEF EarnInv, AdmittedFits
<1> QED
  BY <1>1, <1>3, <1>4 DEF EarnInv

LEMMA EarnInit == Init => EarnInv
<1> SUFFICES ASSUME Init PROVE EarnInv
  OBVIOUS
<1>1. Shaped
  BY DEF Init, Shaped, NoReport, Statuses, Later
<1>2. \A r \in Requests : NotYetMade(r) /\ Progress(r)
  BY DEF Init, NotYetMade, Progress, AfterParse, JobsOf
<1>3. DOMAIN known = {"replay", "rollout", "rollback"} /\ KnownFits /\ AdmittedFits
  BY DEF Init, KnownFits, AdmittedFits
<1> QED
  BY <1>1, <1>2, <1>3 DEF EarnInv

-----------------------------------------------------------------------------
(* What the assignments do                                                  *)

\* s is the status of j after the step, and may be what it was.
Sets(r, j, s) == job' = [job EXCEPT ![r][j] = s]
Reports(r) ==
    /\ report' \in [Requests -> [review : BOOLEAN, token : {"none", "live", "used"}]]
    /\ \A q \in Requests : q # r => report'[q] = report[q]
MaySet(r, j, s) ==
    /\ j \in JobsOf /\ s \in Statuses
    /\ j = "parse" => kind[r] = "replay" /\ (s = "succeeded" \/ job[r].parse # "succeeded")
    /\ j = "verify" => kind[r] = "rollback" /\ (s = "succeeded" \/ job[r].verify # "succeeded")
    /\ j = "resume" => s # "none"

LEMMA SetJob ==
  ASSUME Shaped, NEW r \in Requests, NEW j \in JobsOf, NEW s \in Statuses,
         job' = [job EXCEPT ![r][j] = s]
  PROVE  /\ job' \in [Requests -> [JobsOf -> Statuses]]
         /\ job'[r][j] = s /\ \A i \in JobsOf : i # j => job'[r][i] = job[r][i]
         /\ \A q \in Requests : q # r => job'[q] = job[q]
<1>1. job[r] \in [JobsOf -> Statuses] /\ job \in [Requests -> [JobsOf -> Statuses]]
  BY DEF Shaped
<1>2. job' = [job EXCEPT ![r] = [job[r] EXCEPT ![j] = s]]
  BY <1>1
<1>3. [job[r] EXCEPT ![j] = s] \in [JobsOf -> Statuses]
  BY <1>1
<1>4. job'[r] = [job[r] EXCEPT ![j] = s] /\ \A q \in Requests : q # r => job'[q] = job[q]
  BY <1>1, <1>2
<1>5. job' \in [Requests -> [JobsOf -> Statuses]]
  BY <1>1, <1>2, <1>3
<1> QED
  BY <1>1, <1>4, <1>5

LEMMA SetAt ==
  ASSUME Shaped, NEW r \in Requests, NEW p \in Later, GoTo(r, p)
  PROVE  /\ at' \in [Requests -> Later \union {"idle", "begun"}] /\ at'[r] = p
         /\ \A q \in Requests : q # r => at'[q] = at[q]
BY DEF Shaped, GoTo

LEMMA SetReport ==
  ASSUME Shaped, NEW r \in Requests, NEW b \in BOOLEAN, NEW t \in {"none", "live", "used"},
         report' = [report EXCEPT ![r] = [review |-> b, token |-> t]]
  PROVE  Reports(r) /\ report'[r] = [review |-> b, token |-> t]
BY DEF Shaped, Reports

-----------------------------------------------------------------------------
(* A step of the replay or the rollback r, which sets at most one job        *)

LEMMA SameReport == ASSUME Shaped, UNCHANGED report PROVE \A r \in Requests : Reports(r)
BY DEF Shaped, Reports

LEMMA Moves ==
  ASSUME EarnInv, NEW r \in Requests, kind[r] \in {"replay", "rollback"}, UNCHANGED kind,
         NEW p \in Later, GoTo(r, p), NEW j, NEW s, Sets(r, j, s), MaySet(r, j, s), Reports(r)
  PROVE  /\ Shaped' /\ Only(r) /\ Kept(r) /\ NotYetMade(r)'
         /\ kind'[r] = kind[r] /\ at'[r] = p /\ job'[r][j] = s
         /\ \A i \in JobsOf : i # j => job'[r][i] = job[r][i]
<1>1. /\ at' \in [Requests -> Later \union {"idle", "begun"}] /\ at'[r] = p
      /\ \A q \in Requests : q # r => at'[q] = at[q]
  BY SetAt DEF EarnInv
<1>2. /\ job' \in [Requests -> [JobsOf -> Statuses]]
      /\ job'[r][j] = s /\ \A i \in JobsOf : i # j => job'[r][i] = job[r][i]
      /\ \A q \in Requests : q # r => job'[q] = job[q]
  BY SetJob DEF EarnInv, Sets, MaySet
<1>3. Shaped'
  BY <1>1, <1>2 DEF Shaped, EarnInv, Reports
<1>4. Only(r)
  BY <1>1, <1>2 DEF Only, Reports
<1>5. Kept(r)
  BY <1>2 DEF Kept, JobsOf, MaySet
<1>6. p \notin {"idle", "begun"}
  BY DEF Later, Over
<1>7. kind[r] # "replay" => job'[r].parse = "none"
  BY <1>2 DEF EarnInv, NotYetMade, JobsOf, MaySet
<1>8. kind[r] # "rollback" => job'[r].verify = "none"
  BY <1>2 DEF EarnInv, NotYetMade, JobsOf, MaySet
<1>9. NotYetMade(r)'
  BY <1>1, <1>6, <1>7, <1>8 DEF NotYetMade
<1> QED
  BY <1>1, <1>2, <1>3, <1>4, <1>5, <1>9

\* Failing keeps everything.
LEMMA FailKeeps ==
  ASSUME EarnInv, NEW r \in Requests, UNCHANGED <<kind, admitted, required>>, Fail(r)
  PROVE  EarnInv'
<1>1. GoTo(r, "failed") /\ "failed" \in Later /\ UNCHANGED <<job, report, known>>
  BY DEF Fail, flow, Later, Over
<1>2. /\ at' \in [Requests -> Later \union {"idle", "begun"}] /\ at'[r] = "failed"
      /\ \A q \in Requests : q # r => at'[q] = at[q]
  BY <1>1, SetAt DEF EarnInv
<1>3. Shaped' /\ Only(r) /\ Kept(r)
  BY <1>1, <1>2 DEF EarnInv, Shaped, Only, Kept
<1>4. NotYetMade(r)' /\ Progress(r)'
  BY <1>1, <1>2 DEF EarnInv, NotYetMade, Progress, AfterParse
<1> QED
  BY <1>1, <1>3, <1>4, StepFits

-----------------------------------------------------------------------------
(* The replay                                                                *)

LEMMA SameJob ==
  ASSUME Shaped, NEW r \in Requests, UNCHANGED job
  PROVE  Sets(r, "evaluation", job[r]["evaluation"]) /\ MaySet(r, "evaluation", job[r]["evaluation"])
BY DEF Shaped, Sets, MaySet, JobsOf

LEMMA CreateUploadKeeps ==
  ASSUME EarnInv, NEW r \in Requests, CreateUpload(r), UNCHANGED <<kind, admitted, required>>
  PROVE  EarnInv'
<1>1. kind[r] = "replay" /\ job[r].parse = "none" /\ UNCHANGED <<report, known>>
  BY DEF CreateUpload, Doing, EarnInv, NotYetMade
<1>2. Sets(r, "parse", "queued") /\ GoTo(r, "parse")
  BY DEF CreateUpload, Sets
<1>3. "parse" \in Later /\ MaySet(r, "parse", "queued") /\ Reports(r)
  BY <1>1, SameReport DEF Later, JobsOf, Statuses, MaySet, EarnInv
<1>4. /\ Shaped' /\ Only(r) /\ Kept(r) /\ NotYetMade(r)' /\ kind'[r] = "replay" /\ at'[r] = "parse"
  BY <1>1, <1>2, <1>3, Moves
<1>5. Progress(r)'
  BY <1>4 DEF Progress, AfterParse
<1> QED
  BY <1>1, <1>4, <1>5, StepFits

LEMMA StartParseKeeps ==
  ASSUME EarnInv, NEW r \in Requests, kind[r] = "replay", UNCHANGED <<kind, admitted, required>>,
         StartRun(r, "parse", "parse", "parsing")
  PROVE  EarnInv'
<1>1. CASE MayRun(r, "parse")
  <2>1. /\ Sets(r, "parse", "running") /\ GoTo(r, "parsing")
        /\ job[r].parse # "succeeded" /\ UNCHANGED <<report, known>>
    BY <1>1 DEF StartRun, Started, MayRun, Sets
  <2>2. "parsing" \in Later /\ MaySet(r, "parse", "running") /\ Reports(r)
    BY <2>1, SameReport DEF Later, JobsOf, Statuses, MaySet, EarnInv
  <2>3. /\ Shaped' /\ Only(r) /\ Kept(r) /\ NotYetMade(r)' /\ kind'[r] = "replay" /\ at'[r] = "parsing"
    BY <2>1, <2>2, Moves
  <2>4. Progress(r)'
    BY <2>3 DEF Progress, AfterParse
  <2> QED
    BY <2>1, <2>3, <2>4, StepFits
<1>2. CASE ~MayRun(r, "parse")
  BY <1>2, FailKeeps DEF StartRun
<1> QED
  BY <1>1, <1>2

LEMMA EndParseKeeps ==
  ASSUME EarnInv, NEW r \in Requests, kind[r] = "replay", UNCHANGED <<kind, admitted, required>>,
         \/ EndRun(r, "parse", "parsing", "evaluate")
         \/ RunRaises(r) /\ at[r] = "parsing"
  PROVE  EarnInv'
<1>1. \/ Fail(r)
      \/ /\ Sets(r, "parse", "succeeded")
         /\ GoTo(r, "evaluate") \/ GoTo(r, "failed")
         /\ UNCHANGED <<report, known>>
  BY DEF EndRun, RunRaises, Ended, Doing, Sets
<1>2. CASE Fail(r)
  BY <1>2, FailKeeps
<1>3. ASSUME Sets(r, "parse", "succeeded"), NEW p \in {"evaluate", "failed"}, GoTo(r, p),
             UNCHANGED <<report, known>>
      PROVE  EarnInv'
  <2>1. p \in Later /\ MaySet(r, "parse", "succeeded") /\ Reports(r)
    BY <1>3, SameReport DEF Later, Over, JobsOf, Statuses, MaySet, EarnInv
  <2>2. /\ Shaped' /\ Only(r) /\ Kept(r) /\ NotYetMade(r)' /\ kind'[r] = "replay" /\ at'[r] = p
        /\ job'[r]["parse"] = "succeeded"
    BY <1>3, <2>1, Moves
  <2>3. Progress(r)'
    BY <1>3, <2>2 DEF Progress, AfterParse
  <2> QED
    BY <1>3, <2>2, <2>3, StepFits
<1> QED
  BY <1>1, <1>2, <1>3

LEMMA CreateEvaluationKeeps ==
  ASSUME EarnInv, NEW r \in Requests, CreateEvaluation(r), UNCHANGED <<kind, admitted, required>>
  PROVE  EarnInv'
<1>1. kind[r] = "replay" /\ at[r] = "evaluate" /\ job[r].parse = "succeeded" /\ UNCHANGED known
  BY DEF CreateEvaluation, Doing, EarnInv, Progress, AfterParse
<1>2. Sets(r, "evaluation", "queued") /\ GoTo(r, "consume")
  BY DEF CreateEvaluation, Sets
<1>3. "consume" \in Later /\ MaySet(r, "evaluation", "queued") /\ "parse" \in JobsOf
  BY DEF Later, JobsOf, Statuses, MaySet
<1>4. Reports(r) /\ report'[r] = [review |-> TRUE, token |-> "live"]
  BY SetReport DEF CreateEvaluation, EarnInv
<1>5. /\ Shaped' /\ Only(r) /\ Kept(r) /\ NotYetMade(r)' /\ kind'[r] = "replay" /\ at'[r] = "consume"
      /\ job'[r]["parse"] = job[r]["parse"]
  BY <1>1, <1>2, <1>3, <1>4, Moves
<1>6. Progress(r)'
  BY <1>1, <1>4, <1>5 DEF Progress
<1> QED
  BY <1>1, <1>5, <1>6, StepFits

LEMMA ConsumeKeeps ==
  ASSUME EarnInv, NEW r \in Requests, Consume(r), UNCHANGED <<kind, admitted, required>>
  PROVE  EarnInv'
<1>1. /\ kind[r] = "replay" /\ at[r] = "consume" /\ job[r].parse = "succeeded"
      /\ report[r].token = "live" \/ job[r].resume # "none"
      /\ UNCHANGED <<known, job>> /\ report[r] \in [review : BOOLEAN, token : {"none", "live", "used"}]
  BY DEF Consume, Doing, EarnInv, Progress, AfterParse, Shaped
<1>2. Sets(r, "evaluation", job[r]["evaluation"]) /\ MaySet(r, "evaluation", job[r]["evaluation"])
  BY <1>1, SameJob DEF EarnInv
<1>3. CASE report[r].token = "live"
  <2>1. report' = [report EXCEPT ![r] = [review |-> report[r].review, token |-> "used"]] /\ GoTo(r, "resume")
    BY <1>1, <1>3 DEF Consume
  <2>2. report[r].review \in BOOLEAN
    BY <1>1
  <2>3. Reports(r)
    BY <2>1, <2>2, SetReport DEF EarnInv
  <2>4. "resume" \in Later
    BY DEF Later
  <2>5. /\ Shaped' /\ Only(r) /\ Kept(r) /\ NotYetMade(r)' /\ kind'[r] = "replay" /\ at'[r] = "resume"
    BY <1>1, <1>2, <2>1, <2>3, <2>4, Moves
  <2>6. Progress(r)'
    BY <1>1, <2>5 DEF Progress
  <2> QED
    BY <1>1, <2>5, <2>6, StepFits
<1>4. CASE report[r].token # "live"
  <2>1. UNCHANGED report /\ GoTo(r, "report")
    BY <1>4 DEF Consume
  <2>2. "report" \in Later /\ Reports(r)
    BY <2>1, SameReport DEF Later, EarnInv
  <2>3. /\ Shaped' /\ Only(r) /\ Kept(r) /\ NotYetMade(r)' /\ kind'[r] = "replay" /\ at'[r] = "report"
    BY <1>1, <1>2, <2>1, <2>2, Moves
  <2>4. Progress(r)'
    BY <1>1, <1>4, <2>3 DEF Progress
  <2> QED
    BY <1>1, <2>3, <2>4, StepFits
<1> QED
  BY <1>3, <1>4

LEMMA CreateResumeKeeps ==
  ASSUME EarnInv, NEW r \in Requests, CreateResume(r), UNCHANGED <<kind, admitted, required>>
  PROVE  EarnInv'
<1>1. /\ kind[r] = "replay" /\ job[r].parse = "succeeded" /\ UNCHANGED known
      /\ report[r] \in [review : BOOLEAN, token : {"none", "live", "used"}]
  BY DEF CreateResume, Doing, EarnInv, Progress, AfterParse, Shaped
<1>2. Sets(r, "resume", "queued") /\ GoTo(r, "runResume")
  BY DEF CreateResume, Sets
<1>3. "runResume" \in Later /\ MaySet(r, "resume", "queued") /\ "parse" \in JobsOf
  BY DEF Later, JobsOf, Statuses, MaySet
<1>4. report' = [report EXCEPT ![r] = [report[r] EXCEPT !.review = FALSE]]
  BY DEF CreateResume
<1>5. Reports(r)
  <2>1. [report[r] EXCEPT !.review = FALSE] \in [review : BOOLEAN, token : {"none", "live", "used"}]
    BY <1>1
  <2> QED
    BY <1>4, <2>1 DEF Reports, EarnInv, Shaped
<1>6. /\ Shaped' /\ Only(r) /\ Kept(r) /\ NotYetMade(r)' /\ kind'[r] = "replay" /\ at'[r] = "runResume"
      /\ job'[r]["parse"] = job[r]["parse"] /\ job'[r]["resume"] = "queued"
  BY <1>1, <1>2, <1>3, <1>5, Moves
<1>7. Progress(r)'
  BY <1>1, <1>6 DEF Progress
<1> QED
  BY <1>1, <1>6, <1>7, StepFits

LEMMA ResumeKeeps ==
  ASSUME EarnInv, NEW r \in Requests, kind[r] = "replay", UNCHANGED <<kind, admitted, required>>,
         \/ StartRun(r, "resume", "runResume", "resuming")
         \/ EndRun(r, "resume", "resuming", "report")
  PROVE  EarnInv'
<1>1. job[r].parse = "succeeded"
  BY DEF StartRun, EndRun, EarnInv, Progress, AfterParse
<1>2. \/ Fail(r)
      \/ /\ \/ Sets(r, "resume", "running") /\ GoTo(r, "resuming")
            \/ Sets(r, "resume", "succeeded") /\ GoTo(r, "report")
         /\ UNCHANGED <<report, known>>
  BY DEF StartRun, EndRun, Started, Ended, Sets
<1>3. CASE Fail(r)
  BY <1>3, FailKeeps
<1>4. ASSUME NEW s \in {"running", "succeeded"}, Sets(r, "resume", s),
             NEW p \in {"resuming", "report"}, GoTo(r, p), UNCHANGED <<report, known>>
      PROVE  EarnInv'
  <2>1. /\ p \in Later /\ MaySet(r, "resume", s) /\ Reports(r)
        /\ "parse" \in JobsOf /\ s # "none"
    BY <1>4, SameReport DEF Later, JobsOf, Statuses, MaySet, EarnInv
  <2>2. /\ Shaped' /\ Only(r) /\ Kept(r) /\ NotYetMade(r)' /\ kind'[r] = "replay" /\ at'[r] = p
        /\ job'[r]["parse"] = job[r]["parse"] /\ job'[r]["resume"] = s
    BY <1>4, <2>1, Moves
  <2>3. Progress(r)'
    BY <1>1, <1>4, <2>1, <2>2 DEF Progress
  <2> QED
    BY <1>4, <2>2, <2>3, StepFits
<1> QED
  BY <1>2, <1>3, <1>4

LEMMA RecordReplayKeeps ==
  ASSUME EarnInv, NEW r \in Requests, RecordReplay(r), UNCHANGED <<kind, admitted, required>>
  PROVE  EarnInv'
<1>1. kind[r] = "replay" /\ Replayed(r) /\ UNCHANGED <<job, report>> /\ GoTo(r, "answered")
  BY DEF RecordReplay, Doing, EarnInv, Progress, AfterParse, Replayed, flow
<1>2. /\ Sets(r, "evaluation", job[r]["evaluation"]) /\ MaySet(r, "evaluation", job[r]["evaluation"])
      /\ Reports(r) /\ "answered" \in Later
  BY <1>1, SameJob, SameReport DEF EarnInv, Later, Over
<1>3. /\ Shaped' /\ Only(r) /\ Kept(r) /\ NotYetMade(r)' /\ kind'[r] = "replay" /\ at'[r] = "answered"
  BY <1>1, <1>2, Moves
<1>4. Progress(r)'
  BY <1>3 DEF Progress, AfterParse
<1>5. known' = [known EXCEPT !.replay = [by |-> r, passed |-> ReplayPassed(r)]]
  BY DEF RecordReplay
<1>6. DOMAIN known' = {"replay", "rollout", "rollback"} /\ known'.replay.by = r /\ known'.rollback = known.rollback
  BY <1>5 DEF EarnInv
<1>7. KnownFits'
  BY <1>1, <1>3, <1>6, KeptFits DEF KnownFits, EarnInv
<1> QED
  BY <1>3, <1>4, <1>6, <1>7, StepFits

LEMMA ReplayKeeps ==
  ASSUME EarnInv, NEW r \in Requests, ReplayStep(r) PROVE EarnInv'
<1>1. UNCHANGED <<kind, admitted, required>>
  BY DEF ReplayStep
<1>2. CASE RunRaises(r)
  BY <1>1, <1>2, EndParseKeeps, FailKeeps DEF RunRaises, Doing
<1> QED
  BY <1>1, <1>2, CreateUploadKeeps, StartParseKeeps, EndParseKeeps, CreateEvaluationKeeps,
     ConsumeKeeps, CreateResumeKeeps, ResumeKeeps, RecordReplayKeeps DEF ReplayStep

-----------------------------------------------------------------------------
(* Rollback                                                                  *)

LEMMA NoBreachKeeps ==
  ASSUME EarnInv, NEW r \in Requests, NoBreach(r), UNCHANGED <<kind, admitted, required>>
  PROVE  EarnInv'
<1>1. kind[r] = "rollback" /\ UNCHANGED <<job, report>> /\ GoTo(r, "answered")
  BY DEF NoBreach, Doing, flow
<1>2. /\ Sets(r, "evaluation", job[r]["evaluation"]) /\ MaySet(r, "evaluation", job[r]["evaluation"])
      /\ Reports(r) /\ "answered" \in Later
  BY <1>1, SameJob, SameReport DEF EarnInv, Later, Over
<1>3. Shaped' /\ Only(r) /\ Kept(r) /\ NotYetMade(r)' /\ kind'[r] = "rollback" /\ at'[r] = "answered"
  BY <1>1, <1>2, Moves
<1>4. Progress(r)'
  BY <1>3 DEF Progress
<1>5. known' = [known EXCEPT !.rollback = [by |-> r, triggered |-> FALSE, restored |-> TRUE]]
  BY DEF NoBreach
<1>6. /\ DOMAIN known' = {"replay", "rollout", "rollback"}
      /\ ~known'.rollback.triggered /\ known'.replay = known.replay
  BY <1>5 DEF EarnInv
<1>7. KnownFits'
  BY <1>3, <1>6, KeptFits DEF KnownFits, EarnInv
<1> QED
  BY <1>3, <1>4, <1>6, <1>7, StepFits

LEMMA VerificationKeeps ==
  ASSUME EarnInv, NEW r \in Requests, kind[r] = "rollback", UNCHANGED <<kind, admitted, required>>,
         \/ CreateVerification(r)
         \/ StartRun(r, "verify", "verify", "verifying")
         \/ EndRun(r, "verify", "verifying", "verified")
  PROVE  EarnInv'
<1>1. \/ Fail(r)
      \/ /\ \/ Sets(r, "verify", "queued") /\ GoTo(r, "verify") /\ job[r].verify # "succeeded"
            \/ Sets(r, "verify", "running") /\ GoTo(r, "verifying") /\ job[r].verify # "succeeded"
            \/ Sets(r, "verify", "succeeded") /\ GoTo(r, "verified")
         /\ UNCHANGED <<report, known>>
  BY DEF CreateVerification, StartRun, EndRun, Started, Ended, MayRun, Sets, Doing, EarnInv, NotYetMade
<1>2. CASE Fail(r)
  BY <1>2, FailKeeps
<1>3. ASSUME NEW s \in {"queued", "running", "succeeded"}, Sets(r, "verify", s),
             s = "succeeded" \/ job[r].verify # "succeeded", UNCHANGED <<report, known>>,
             NEW p \in {"verify", "verifying", "verified"}, GoTo(r, p), p = "verified" => s = "succeeded"
      PROVE  EarnInv'
  <2>1. p \in Later /\ MaySet(r, "verify", s) /\ Reports(r)
    BY <1>3, SameReport DEF Later, JobsOf, Statuses, MaySet, EarnInv
  <2>2. /\ Shaped' /\ Only(r) /\ Kept(r) /\ NotYetMade(r)' /\ kind'[r] = "rollback" /\ at'[r] = p
        /\ job'[r]["verify"] = s
    BY <1>3, <2>1, Moves
  <2>3. Progress(r)'
    BY <1>3, <2>2 DEF Progress
  <2> QED
    BY <1>3, <2>2, <2>3, StepFits
<1> QED
  BY <1>1, <1>2, <1>3

LEMMA RecordRollbackKeeps ==
  ASSUME EarnInv, NEW r \in Requests, RecordRollback(r), UNCHANGED <<kind, admitted, required>>
  PROVE  EarnInv'
<1>1. kind[r] = "rollback" /\ Verified(r) /\ UNCHANGED <<job, report>> /\ GoTo(r, "answered")
  BY DEF RecordRollback, Doing, EarnInv, Progress, Verified, flow
<1>2. /\ Sets(r, "evaluation", job[r]["evaluation"]) /\ MaySet(r, "evaluation", job[r]["evaluation"])
      /\ Reports(r) /\ "answered" \in Later
  BY <1>1, SameJob, SameReport DEF EarnInv, Later, Over
<1>3. Shaped' /\ Only(r) /\ Kept(r) /\ NotYetMade(r)' /\ kind'[r] = "rollback" /\ at'[r] = "answered"
  BY <1>1, <1>2, Moves
<1>4. Progress(r)'
  BY <1>3 DEF Progress
<1>5. known' = [known EXCEPT !.rollback =
                    [by |-> r, triggered |-> TRUE, restored |-> answer[r] = "succeeded"]]
  BY DEF RecordRollback
<1>6. DOMAIN known' = {"replay", "rollout", "rollback"} /\ known'.rollback.by = r /\ known'.replay = known.replay
  BY <1>5 DEF EarnInv
<1>7. KnownFits'
  BY <1>1, <1>3, <1>6, KeptFits DEF KnownFits, EarnInv
<1> QED
  BY <1>3, <1>4, <1>6, <1>7, StepFits

-----------------------------------------------------------------------------
(* Workers, reviewers and whoever cancels                                    *)

MayGoOn(r, j, s) ==
    /\ j \in JobsOf /\ s \in Statuses
    /\ s = "none" => job[r][j] = "none"
    /\ job[r][j] = "none" => s = "none" \/ j \notin {"parse", "verify"}
    /\ job[r][j] = "succeeded" => s = "succeeded"

LEMMA WorkerMoves ==
  ASSUME EarnInv, NEW r \in Requests, UNCHANGED <<kind, at, known, admitted, required>>,
         NEW j, NEW s, Sets(r, j, s), MayGoOn(r, j, s), Reports(r),
         report[r].token = "live" => report'[r].token = "live" \/ (j = "resume" /\ s # "none")
  PROVE  EarnInv'
<1>1. /\ job' \in [Requests -> [JobsOf -> Statuses]]
      /\ job'[r][j] = s /\ \A i \in JobsOf : i # j => job'[r][i] = job[r][i]
      /\ \A q \in Requests : q # r => job'[q] = job[q]
  BY SetJob DEF EarnInv, Sets, MayGoOn
<1>2. Shaped' /\ Only(r)
  BY <1>1 DEF Shaped, EarnInv, Reports, Only
<1>3. /\ job[r].parse = "succeeded" => job'[r].parse = "succeeded"
      /\ job[r].parse = "none" => job'[r].parse = "none"
  BY <1>1 DEF MayGoOn, JobsOf
<1>4. /\ job[r].verify = "succeeded" => job'[r].verify = "succeeded"
      /\ job[r].verify = "none" => job'[r].verify = "none"
  BY <1>1 DEF MayGoOn, JobsOf
<1>5. /\ job[r].resume # "none" => job'[r].resume # "none"
      /\ report[r].token = "live" => report'[r].token = "live" \/ job'[r].resume # "none"
  BY <1>1 DEF MayGoOn, JobsOf
<1>6. Kept(r)
  BY <1>3, <1>4, <1>5 DEF Kept
<1>7. NotYetMade(r)'
  BY <1>3, <1>4 DEF EarnInv, NotYetMade
<1>8. Progress(r)'
  BY <1>3, <1>4, <1>5 DEF EarnInv, Progress
<1> QED
  BY <1>2, <1>6, <1>7, <1>8, StepFits

LEMMA WorkerStartsKeeps ==
  ASSUME EarnInv, NEW r \in Requests, NEW j \in JobsOf, WorkerStarts(r, j) PROVE EarnInv'
<1>1. Sets(r, j, "running") /\ UNCHANGED <<kind, at, known, admitted, required, report>>
  BY DEF WorkerStarts, Started, Sets
<1>2. MayGoOn(r, j, "running") /\ Reports(r)
  BY <1>1, SameReport DEF WorkerStarts, MayRun, MayGoOn, Statuses, EarnInv
<1> QED
  BY <1>1, <1>2, WorkerMoves

LEMMA WorkerEndsKeeps ==
  ASSUME EarnInv, NEW r \in Requests, NEW j \in JobsOf, WorkerEnds(r, j) PROVE EarnInv'
<1>0. /\ UNCHANGED <<kind, at, known, admitted, required>> /\ job[r][j] \in Statuses
      /\ report[r] \in [review : BOOLEAN, token : {"none", "live", "used"}]
  BY DEF WorkerEnds, EarnInv, Shaped
<1>1. ASSUME NEW v \in {"running", "retrying", "failed", "needs_manual_decision", "succeeded"},
             job' = [job EXCEPT ![r][j] = IF @ = "running" THEN v ELSE @],
             \/ UNCHANGED report
             \/ report' = [report EXCEPT ![r] = [review |-> TRUE, token |-> "live"]]
      PROVE  EarnInv'
  <2> PICK s : s = IF job[r][j] = "running" THEN v ELSE job[r][j]
    OBVIOUS
  <2>1. Sets(r, j, s)
    BY <1>1 DEF Sets
  <2>2. MayGoOn(r, j, s)
    BY <1>0 DEF MayGoOn, Statuses
  <2>3. Reports(r) /\ (report[r].token = "live" => report'[r].token = "live")
    <3>1. CASE UNCHANGED report
      BY <3>1, SameReport DEF EarnInv
    <3>2. CASE report' = [report EXCEPT ![r] = [review |-> TRUE, token |-> "live"]]
      <4>1. Reports(r) /\ report'[r] = [review |-> TRUE, token |-> "live"]
        BY <3>2, SetReport DEF EarnInv
      <4> QED
        BY <4>1
    <3> QED
      BY <1>1, <3>1, <3>2
  <2> QED
    BY <1>0, <2>1, <2>2, <2>3, WorkerMoves
<1>2. CASE j = "evaluation" /\ MayEnd(r, j) /\ job' = Ended(r, j) /\ UNCHANGED report
  <2>1. Sets(r, j, "succeeded") /\ MayGoOn(r, j, "succeeded") /\ Reports(r)
    BY <1>2, SameReport DEF Sets, Ended, MayEnd, MayGoOn, Statuses, EarnInv
  <2> QED
    BY <1>0, <1>2, <2>1, WorkerMoves
<1>3. CASE /\ \E v \in {"running", "retrying", "failed"} \union
                      (IF j = "evaluation" THEN {"needs_manual_decision"} ELSE {"succeeded"}) :
                job' = [job EXCEPT ![r][j] = IF @ = "running" THEN v ELSE @]
           /\ report' = [report EXCEPT ![r] =
                          IF job'[r].evaluation = "needs_manual_decision" /\ j = "evaluation"
                          THEN [review |-> TRUE, token |-> "live"] ELSE @]
  <2>1. PICK v \in {"running", "retrying", "failed", "needs_manual_decision", "succeeded"} :
               job' = [job EXCEPT ![r][j] = IF @ = "running" THEN v ELSE @]
    BY <1>3
  <2>2. \/ UNCHANGED report
        \/ report' = [report EXCEPT ![r] = [review |-> TRUE, token |-> "live"]]
    BY <1>3 DEF EarnInv, Shaped
  <2> QED
    BY <1>1, <2>1, <2>2
<1> QED
  BY <1>2, <1>3 DEF WorkerEnds

LEMMA ReviewerAnswersKeeps ==
  ASSUME EarnInv, NEW r \in Requests, ReviewerAnswers(r) PROVE EarnInv'
<1>1. Sets(r, "resume", "queued") /\ UNCHANGED <<kind, at, known, admitted, required>>
  BY DEF ReviewerAnswers, Sets
<1>2. MayGoOn(r, "resume", "queued")
  BY DEF ReviewerAnswers, MayGoOn, JobsOf, Statuses
<1>3. Reports(r)
  BY SetReport DEF ReviewerAnswers, EarnInv
<1> QED
  BY <1>1, <1>2, <1>3, WorkerMoves

LEMMA CancelVerificationKeeps ==
  ASSUME EarnInv, NEW r \in Requests, CancelVerification(r), UNCHANGED <<kind, admitted, required>>
  PROVE  EarnInv'
<1>1. Sets(r, "verify", "failed") /\ UNCHANGED <<kind, at, known, admitted, required, report>>
  BY DEF CancelVerification, Sets
<1>2. MayGoOn(r, "verify", "failed") /\ Reports(r)
  BY <1>1, SameReport DEF CancelVerification, MayGoOn, JobsOf, Statuses, EarnInv
<1> QED
  BY <1>1, <1>2, WorkerMoves

LEMMA RollbackKeeps ==
  ASSUME EarnInv, NEW r \in Requests, RollbackStep(r) PROVE EarnInv'
<1>1. UNCHANGED <<kind, admitted, required>>
  BY DEF RollbackStep
<1>2. CASE CreateVerification(r)
  BY <1>1, <1>2, VerificationKeeps DEF CreateVerification, Doing
<1> QED
  BY <1>1, <1>2, NoBreachKeeps, VerificationKeeps, RecordRollbackKeeps, CancelVerificationKeeps
     DEF RollbackStep

-----------------------------------------------------------------------------
(* The other requests touch no job                                           *)

LEMMA OthersMove ==
  ASSUME EarnInv, NEW r \in Requests, UNCHANGED <<job, report, required>>, Shaped',
         \A q \in Requests : q # r => kind'[q] = kind[q] /\ at'[q] = at[q],
         NotYetMade(r)', Progress(r)',
         UNCHANGED known \/ (DOMAIN known' = {"replay", "rollout", "rollback"} /\ KnownFits'),
         UNCHANGED admitted \/ AdmittedFits'
  PROVE  EarnInv'
<1>1. Only(r) /\ Kept(r)
  BY DEF Only, Kept
<1> QED
  BY <1>1, StepFits

\* A step of a request that is neither a replay nor a rollback, to any stage.
LEMMA OtherKindMoves ==
  ASSUME EarnInv, NEW r \in Requests, kind[r] \notin {"replay", "rollback"},
         UNCHANGED <<kind, job, report, required>>, NEW p \in Later \union {"begun"}, GoTo(r, p),
         UNCHANGED known \/ (DOMAIN known' = {"replay", "rollout", "rollback"} /\ KnownFits'),
         UNCHANGED admitted \/ AdmittedFits'
  PROVE  EarnInv'
<1>1. /\ at' \in [Requests -> Later \union {"idle", "begun"}]
      /\ \A q \in Requests : q # r => at'[q] = at[q]
  BY DEF EarnInv, Shaped, GoTo
<1>2. Shaped'
  BY <1>1 DEF EarnInv, Shaped
<1>3. NotYetMade(r)' /\ Progress(r)'
  BY DEF EarnInv, NotYetMade, Progress
<1> QED
  BY <1>1, <1>2, <1>3, OthersMove

LEMMA BeginKeeps ==
  ASSUME EarnInv, NEW r \in Requests, NEW k \in Kinds, Begin(r, k) PROVE EarnInv'
<1>1. /\ kind' = [kind EXCEPT ![r] = k] /\ at' = [at EXCEPT ![r] = "begun"] /\ at[r] = "idle"
      /\ UNCHANGED <<job, report, required, known, admitted>>
  BY DEF Begin, GoTo, flow
<1>2. /\ Shaped' /\ at'[r] = "begun"
      /\ \A q \in Requests : q # r => kind'[q] = kind[q] /\ at'[q] = at[q]
  BY <1>1 DEF EarnInv, Shaped
<1>3. NotYetMade(r)' /\ Progress(r)'
  BY <1>1, <1>2 DEF EarnInv, NotYetMade, Progress, AfterParse
<1> QED
  BY <1>1, <1>2, <1>3, OthersMove

LEMMA PlanRolloutKeeps ==
  ASSUME EarnInv, NEW r \in Requests, PlanRollout(r) PROVE EarnInv'
<1>1. /\ kind[r] = "plan" /\ GoTo(r, "answered") /\ "answered" \in Later
      /\ UNCHANGED <<kind, job, report, required, known, admitted>>
  BY DEF PlanRollout, Doing, flow, Later, Over
<1> QED
  BY <1>1, OtherKindMoves

LEMMA DecideRolloutKeeps ==
  ASSUME EarnInv, NEW r \in Requests, DecideRollout(r) PROVE EarnInv'
<1>1. kind[r] = "decide" /\ UNCHANGED <<kind, job, report, required, admitted>>
  BY DEF DecideRollout, Doing, flow
<1>2. PICK p \in {"failed", "answered"} : GoTo(r, p)
  BY DEF DecideRollout
<1>3. p \in Later
  BY DEF Later, Over
<1>4. DOMAIN known' = {"replay", "rollout", "rollback"} /\ UNCHANGED <<known.replay, known.rollback>>
  BY DEF DecideRollout, EarnInv
<1>5. KnownFits'
  BY <1>1, <1>4 DEF EarnInv, KnownFits, Replayed, Verified
<1> QED
  BY <1>1, <1>2, <1>3, <1>4, <1>5, OtherKindMoves

\* With readiness required the pipeline admits what failed no check.
LEMMA ExecutePipelineKeeps ==
  ASSUME EarnInv, NEW r \in Requests, ExecutePipeline(r) PROVE EarnInv'
<1>1. /\ kind[r] = "pipeline" /\ GoTo(r, "answered") /\ "answered" \in Later
      /\ UNCHANGED <<kind, job, report, required, known>>
  BY DEF ExecutePipeline, Doing, flow, Later, Over
<1>2. PICK m \in Readings, version \in {dataset, None} :
        LET replayed == known.replay # None /\ known.replay.passed
            failed   == FailedChecks(GateResults(m), replayed, version)
            admits   == required => failed = {}
        IN admitted' = IF admits
                          THEN admitted \union
                               {[met |-> \A g \in Evaluators : Documented(g, m[g]),
                                 replay |-> known.replay, rollback |-> known.rollback,
                                 dataset |-> version]}
                          ELSE admitted
  BY DEF ExecutePipeline
<1> PICK failed : failed = FailedChecks(GateResults(m), known.replay # None /\ known.replay.passed, version)
  OBVIOUS
<1> PICK met : met = \A g \in Evaluators : Documented(g, m[g])
  OBVIOUS
<1>3. admitted' = IF required => failed = {}
                     THEN admitted \union
                          {[met |-> met, replay |-> known.replay, rollback |-> known.rollback,
                            dataset |-> version]}
                     ELSE admitted
  BY <1>2
<1>4. ASSUME required, failed = {}
      PROVE  met /\ version # None /\ known.replay # None /\ known.rollback # None
  <2>1. /\ \A g \in GateNames : GateResults(m)[g]
        /\ known.replay # None /\ known.replay.passed /\ version # None
    BY <1>4 DEF FailedChecks
  <2>2. GateResults(m)["rollback"] /\ \A g \in Evaluators : GateResults(m)[g]
    BY <2>1 DEF GateNames
  <2>3. \A g \in Evaluators : Passes(g, m[g])
    BY <2>2 DEF GateResults, GateNames, Evaluators
  <2>4. known.rollback # None
    BY <2>2 DEF GateResults, GateNames, Evaluators
  <2>5. m \in Reading
    BY ReleaseAssumption
  <2> QED
    BY <2>1, <2>3, <2>4, <2>5, PassesMeets
<1>5. AdmittedFits'
  <2>1. (\A q : Replayed(q)' <=> Replayed(q)) /\ \A q : Verified(q)' <=> Verified(q)
    BY <1>1 DEF Replayed, Verified
  <2>2. ASSUME required, NEW a \in admitted'
        PROVE  /\ a.met /\ a.dataset # None
               /\ a.replay # None /\ Replayed(a.replay.by)
               /\ a.rollback # None /\ (a.rollback.triggered => Verified(a.rollback.by))
    <3>1. CASE a \in admitted
      BY <2>2, <3>1 DEF EarnInv, AdmittedFits
    <3>2. CASE a \notin admitted
      <4>1. failed = {} /\ a = [met |-> met, replay |-> known.replay, rollback |-> known.rollback,
                                dataset |-> version]
        BY <1>3, <2>2, <3>2
      <4> QED
        BY <1>4, <2>2, <4>1 DEF EarnInv, KnownFits
    <3> QED
      BY <3>1, <3>2
  <2> QED
    BY <1>1, <2>1, <2>2 DEF AdmittedFits
<1> QED
  BY <1>1, <1>5, OtherKindMoves

LEMMA OperationsKeep ==
  ASSUME EarnInv, NEW r \in Requests, OperationsStep(r) PROVE EarnInv'
<1>1. /\ kind[r] \in {"feedback", "tune"}
      /\ UNCHANGED <<kind, job, report, required, known, admitted>>
  BY DEF OperationsStep, ReadDataset, BumpDataset, Tune, CountStrategy, ToolReturns, Doing, flow
<1>2. PICK p \in {"bump", "answered", "calibrate", "allow", "count", "tuned", "failed", "begun"} : GoTo(r, p)
  BY DEF OperationsStep, ReadDataset, BumpDataset, Tune, CountStrategy, ToolReturns
<1>3. p \in Later \union {"begun"}
  BY DEF Later, Over
<1> QED
  BY <1>1, <1>2, <1>3, OtherKindMoves

LEMMA EarnStep == EarnInv /\ [Next]_vars => EarnInv'
<1> SUFFICES ASSUME EarnInv, [Next]_vars PROVE EarnInv'
  OBVIOUS
<1>1. ASSUME NEW r \in Requests, NEW k \in Kinds, Begin(r, k) PROVE EarnInv'
  BY <1>1, BeginKeeps
<1>2. ASSUME NEW r \in Requests, NEW j \in JobsOf, WorkerStarts(r, j) \/ WorkerEnds(r, j) PROVE EarnInv'
  BY <1>2, WorkerStartsKeeps, WorkerEndsKeeps
<1>3. ASSUME NEW r \in Requests,
             \/ ReviewerAnswers(r) \/ ReplayStep(r) \/ ExecutePipeline(r) \/ PlanRollout(r)
             \/ DecideRollout(r) \/ RollbackStep(r) \/ OperationsStep(r)
      PROVE  EarnInv'
  BY <1>3, ReviewerAnswersKeeps, ReplayKeeps, ExecutePipelineKeeps, PlanRolloutKeeps,
     DecideRolloutKeeps, RollbackKeeps, OperationsKeep
<1>4. CASE UNCHANGED vars
  BY <1>4 DEF vars, flow, EarnInv, Shaped, NotYetMade, Progress, KnownFits, AdmittedFits, Replayed, Verified
<1> QED
  BY <1>1, <1>2, <1>3, <1>4 DEF Next

\* Where readiness is required, whatever the pipeline admits met every threshold
\* of the checklist, was replayed by a request whose parse succeeded and whose
\* review was asked and answered, and a rollback that was triggered was verified,
\* however the requests, the workers, the reviewers and a cancellation overlap.
THEOREM AdmissionsAreEarned == Spec => []AdmittedIsEarned
<1>1. EarnInv => AdmittedIsEarned
  BY DEF EarnInv, AdmittedFits, AdmittedIsEarned, Replayed, Verified
<1> QED
  BY <1>1, EarnInit, EarnStep, PTL DEF Spec

-----------------------------------------------------------------------------
(* Versions                                                                  *)

Version == Nat \X Nat \X Nat

\* Lexicographic order.
Older(v, w) ==
    \/ v[1] < w[1]
    \/ v[1] = w[1] /\ v[2] < w[2]
    \/ v[1] = w[1] /\ v[2] = w[2] /\ v[3] < w[3]

LEMMA BumpGrows ==
  ASSUME NEW v \in Version, NEW bump \in {"major", "minor", "patch"}
  PROVE  Bump(v, bump) \in Version /\ Older(v, Bump(v, bump))
BY DEF Version, Older, Bump

LEMMA OlderStaysOlder ==
  ASSUME NEW u \in Version, NEW v \in Version, NEW w \in Version, ~Older(v, u), Older(v, w)
  PROVE  ~Older(w, u) /\ u # w
<1>1. /\ u[1] \in Nat /\ u[2] \in Nat /\ u[3] \in Nat /\ v[1] \in Nat /\ v[2] \in Nat /\ v[3] \in Nat
      /\ w[1] \in Nat /\ w[2] \in Nat /\ w[3] \in Nat
  BY DEF Version
<1> QED
  BY <1>1 DEF Older

Under(k, r) == kind[r] = k /\ at[r] \notin Over \union {"idle"}
Alone(k) == \A r, s \in Requests : Under(k, r) /\ Under(k, s) => r = s

\* With one feedback at a time, what it read is what is stored, and nothing
\* that was answered is newer.
FeedbackFits ==
    /\ Alone("feedback")
    /\ \A r \in Requests : kind[r] = "feedback" /\ at[r] = "bump" => answer[r].before = dataset
    /\ \A r \in Answered("feedback") : answer[r].after \in Version /\ ~Older(dataset, answer[r].after)
    /\ \A r, s \in Answered("feedback") : r # s => answer[r].after # answer[s].after

\* The parts a tuning has written when it is at a stage.
Written(stage) ==
    CASE stage = "calibrate" -> {"selector"}
      [] stage = "allow" -> {"selector", "score_calibration"}
      [] stage \in {"count", "tuned"} -> Parts
      [] OTHER -> {}

\* What a tuning answered, its own parts under a version nobody has had or will
\* have.
Counted(r) ==
    /\ answer[r].version \in Nat /\ answer[r].version <= strategy.version
    /\ answer[r].parts = [p \in Parts |-> r]
    /\ \A s \in Requests : kind[s] = "tune" /\ at[s] = "tuned" =>
          answer[r].version < strategy.version

TuningFits ==
    /\ Alone("tune")
    /\ \A r \in Requests : Under("tune", r) => \A p \in Written(at[r]) : strategy.parts[p] = r
    /\ \A r \in Answered("tune") : Counted(r)
    /\ \A r, s \in Answered("tune") : r # s => answer[r].version # answer[s].version

Strategy == [parts : [Parts -> Requests \union {None}], version : Nat]

VersionInv ==
    /\ DOMAIN answer = Requests
    /\ dataset \in Version /\ strategy \in Strategy
    /\ \A r \in Requests : kind[r] = "feedback" /\ at[r] = "bump" => answer[r].before \in Version
    /\ "feedback" \notin overlapped => FeedbackFits
    /\ "tune" \notin overlapped => TuningFits

\* The requests of a kind are where they were.
Rest(k) == \A q \in Requests : kind'[q] = k => kind[q] = k /\ at'[q] = at[q] /\ answer'[q] = answer[q]

LEMMA FeedbackRests ==
  ASSUME FeedbackFits, Rest("feedback"), UNCHANGED dataset PROVE FeedbackFits'
<1>1. \A q \in Requests : q \in Answered("feedback")' =>
        q \in Answered("feedback") /\ answer'[q] = answer[q]
  BY DEF Answered, Rest
<1>2. Alone("feedback")'
  BY DEF FeedbackFits, Alone, Under, Rest
<1>3. Answered("feedback")' \subseteq Requests
  BY DEF Answered
<1>4. \A q \in Requests : kind'[q] = "feedback" /\ at'[q] = "bump" => answer'[q].before = dataset'
  BY DEF FeedbackFits, Rest
<1>5. \A q \in Answered("feedback")' : answer'[q].after \in Version /\ ~Older(dataset', answer'[q].after)
  BY <1>1, <1>3 DEF FeedbackFits
<1>6. \A q, s \in Answered("feedback")' : q # s => answer'[q].after # answer'[s].after
  BY <1>1, <1>3 DEF FeedbackFits
<1> QED
  BY <1>2, <1>4, <1>5, <1>6 DEF FeedbackFits, Answered

LEMMA TuningRests ==
  ASSUME TuningFits, Rest("tune"), UNCHANGED strategy PROVE TuningFits'
<1>1. \A q \in Requests : q \in Answered("tune")' => q \in Answered("tune") /\ answer'[q] = answer[q]
  BY DEF Answered, Rest
<1>2. Alone("tune")'
  BY DEF TuningFits, Alone, Under, Rest
<1>3. Answered("tune")' \subseteq Requests
  BY DEF Answered
<1>4. \A q \in Requests : Under("tune", q)' => \A p \in Written(at'[q]) : strategy'.parts[p] = q
  BY DEF TuningFits, Rest, Under
<1>5. ASSUME NEW q \in Answered("tune")' PROVE Counted(q)'
  <2>1. q \in Requests /\ answer'[q] = answer[q] /\ Counted(q)
    BY <1>1, <1>3 DEF TuningFits
  <2>2. \A s \in Requests : kind'[s] = "tune" /\ at'[s] = "tuned" => kind[s] = "tune" /\ at[s] = "tuned"
    BY DEF Rest
  <2> QED
    BY <2>1, <2>2 DEF Counted
<1>6. \A q, s \in Answered("tune")' : q # s => answer'[q].version # answer'[s].version
  BY <1>1, <1>3 DEF TuningFits
<1> QED
  BY <1>2, <1>4, <1>5, <1>6 DEF TuningFits, Answered

LEMMA VersionInit == Init => VersionInv
<1> SUFFICES ASSUME Init PROVE VersionInv
  OBVIOUS
<1>1. \A r \in Requests : at[r] = "idle"
  BY DEF Init
<1>2. Answered("feedback") = {} /\ Answered("tune") = {}
  BY <1>1 DEF Answered
<1>3. Alone("feedback") /\ Alone("tune") /\ \A r \in Requests : ~Under("tune", r)
  BY <1>1 DEF Alone, Under
<1>4. FeedbackFits
  BY <1>1, <1>2, <1>3 DEF FeedbackFits
<1>5. TuningFits
  BY <1>1, <1>2, <1>3 DEF TuningFits
<1>6. dataset \in Version /\ DOMAIN answer = Requests
  BY DEF Init, Version
<1>7. strategy \in Strategy
  BY DEF Init, Strategy
<1> QED
  BY <1>1, <1>4, <1>5, <1>6, <1>7 DEF VersionInv

-----------------------------------------------------------------------------
(* Steps that leave the versions alone                                       *)

\* A step of r that moves on or answers, when r is no feedback and no tuning.
LEMMA OthersRest ==
  ASSUME VersionInv, NEW r, \A q \in Requests : q # r => kind'[q] = kind[q] /\ at'[q] = at[q]
                                                          /\ answer'[q] = answer[q],
         r \in Requests => kind'[r] \notin {"feedback", "tune"}, DOMAIN answer' = Requests,
         UNCHANGED <<dataset, strategy>>, overlapped \subseteq overlapped'
  PROVE  VersionInv'
<1>1. Rest("feedback") /\ Rest("tune")
  BY DEF Rest
<1>2. "feedback" \notin overlapped' => FeedbackFits'
  BY <1>1, FeedbackRests DEF VersionInv
<1>3. "tune" \notin overlapped' => TuningFits'
  BY <1>1, TuningRests DEF VersionInv
<1> QED
  BY <1>1, <1>2, <1>3 DEF VersionInv, Rest

LEMMA QuietRests ==
  ASSUME VersionInv, UNCHANGED <<kind, at, answer, dataset, strategy, overlapped>> PROVE VersionInv'
<1>1. Rest("feedback") /\ Rest("tune")
  BY DEF Rest
<1> QED
  BY <1>1, FeedbackRests, TuningRests DEF VersionInv

LEMMA BeginVersions ==
  ASSUME Shaped, VersionInv, NEW r \in Requests, NEW k \in Kinds, Begin(r, k) PROVE VersionInv'
<1>1. /\ at[r] = "idle" /\ kind'[r] = k /\ at'[r] = "begun"
      /\ \A q \in Requests : q # r => kind'[q] = kind[q] /\ at'[q] = at[q]
      /\ UNCHANGED <<dataset, strategy, answer>>
  BY DEF Begin, GoTo, Shaped, versions
<1>2. overlapped \subseteq overlapped'
  BY DEF Begin
<1>3. CASE k \notin {"feedback", "tune"}
  BY <1>1, <1>2, <1>3, OthersRest DEF VersionInv
<1>4. ASSUME k \in {"feedback", "tune"}, k \notin overlapped' PROVE \A q \in Requests : Under(k, q)' => q = r
  <2>1. ~Busy(k)
    BY <1>4 DEF Begin
  <2> QED
    BY <1>1, <2>1 DEF Busy, Under
<1>5. CASE k = "feedback"
  <2>1. Rest("tune")
    BY <1>1, <1>5 DEF Rest
  <2>2. ASSUME "feedback" \notin overlapped' PROVE FeedbackFits'
    <3>1. FeedbackFits
      BY <1>2, <2>2 DEF VersionInv
    <3>2. Alone("feedback")'
      BY <1>4, <1>5, <2>2 DEF Alone
    <3>3. \A q \in Requests : q \in Answered("feedback")' => q \in Answered("feedback")
      BY <1>1 DEF Answered, Over
    <3>4. Answered("feedback")' \subseteq Answered("feedback")
      BY <3>3 DEF Answered
    <3> QED
      BY <1>1, <3>1, <3>2, <3>4 DEF FeedbackFits
  <2> QED
    BY <1>1, <1>2, <2>1, <2>2, TuningRests DEF VersionInv
<1>6. CASE k = "tune"
  <2>1. Rest("feedback")
    BY <1>1, <1>6 DEF Rest
  <2>2. ASSUME "tune" \notin overlapped' PROVE TuningFits'
    <3>1. TuningFits
      BY <1>2, <2>2 DEF VersionInv
    <3>2. Alone("tune")' /\ \A q \in Requests : Under("tune", q)' => q = r
      BY <1>4, <1>6, <2>2 DEF Alone
    <3>3. \A q \in Requests : q \in Answered("tune")' => q \in Answered("tune")
      BY <1>1 DEF Answered
    <3>4. Answered("tune")' \subseteq Answered("tune")
      BY <3>3 DEF Answered
    <3>5. Written(at'[r]) = {}
      BY <1>1 DEF Written
    <3>6. \A q \in Requests : Under("tune", q)' => \A p \in Written(at'[q]) : strategy'.parts[p] = q
      BY <3>2, <3>5
    <3>7. \A q \in Answered("tune")' : Counted(q)'
      <4>1. \A s \in Requests : kind'[s] = "tune" /\ at'[s] = "tuned" => kind[s] = "tune" /\ at[s] = "tuned"
        BY <1>1
      <4>2. \A q : Counted(q) => Counted(q)'
        BY <1>1, <4>1 DEF Counted
      <4>3. \A q \in Answered("tune") : Counted(q)
        BY <3>1 DEF TuningFits
      <4> QED
        BY <3>4, <4>2, <4>3
    <3>8. \A q, s \in Answered("tune")' : q # s => answer'[q].version # answer'[s].version
      BY <1>1, <3>1, <3>4 DEF TuningFits
    <3> QED
      BY <3>2, <3>6, <3>7, <3>8 DEF TuningFits
  <2> QED
    BY <1>1, <1>2, <2>1, <2>2, FeedbackRests DEF VersionInv
<1> QED
  BY <1>3, <1>5, <1>6

-----------------------------------------------------------------------------
(* Data feedback                                                             *)

LEMMA ReadDatasetVersions ==
  ASSUME Shaped, VersionInv, NEW r \in Requests, ReadDataset(r), UNCHANGED <<kind, overlapped>>
  PROVE  VersionInv'
<1>1. /\ kind[r] = "feedback" /\ at[r] = "begun" /\ at'[r] = "bump"
      /\ answer'[r].before = dataset /\ DOMAIN answer' = Requests
      /\ \A q \in Requests : q # r => at'[q] = at[q] /\ answer'[q] = answer[q]
      /\ UNCHANGED <<dataset, strategy, kind>>
  BY DEF ReadDataset, Doing, Say, GoTo, Shaped, VersionInv, versions
<1>2. Rest("tune")
  BY <1>1 DEF Rest
<1>3. ASSUME "feedback" \notin overlapped PROVE FeedbackFits'
  <2>1. FeedbackFits
    BY <1>3 DEF VersionInv
  <2>2. Under("feedback", r) /\ \A q \in Requests : Under("feedback", q)' => Under("feedback", q)
    BY <1>1 DEF Under, Over
  <2>3. Alone("feedback")' /\ \A q \in Requests : Under("feedback", q)' => q = r
    BY <2>1, <2>2 DEF FeedbackFits, Alone
  <2>4. \A q \in Requests : kind'[q] = "feedback" /\ at'[q] = "bump" => answer'[q].before = dataset'
    BY <1>1, <2>3 DEF Under, Over
  <2>5. \A q \in Answered("feedback")' : q \in Answered("feedback") /\ answer'[q] = answer[q]
    BY <1>1 DEF Answered
  <2>6. /\ \A q \in Answered("feedback")' : answer'[q].after \in Version /\ ~Older(dataset', answer'[q].after)
        /\ \A q, t \in Answered("feedback")' : q # t => answer'[q].after # answer'[t].after
    BY <1>1, <2>1, <2>5 DEF FeedbackFits
  <2> QED
    BY <2>3, <2>4, <2>6 DEF FeedbackFits
<1>4. "tune" \notin overlapped => TuningFits'
  BY <1>1, <1>2, TuningRests DEF VersionInv
<1> QED
  BY <1>1, <1>3, <1>4 DEF VersionInv

LEMMA BumpDatasetVersions ==
  ASSUME Shaped, VersionInv, NEW r \in Requests, BumpDataset(r), UNCHANGED <<kind, overlapped>>
  PROVE  VersionInv'
<1>1. /\ kind[r] = "feedback" /\ at[r] = "bump" /\ at'[r] = "answered"
      /\ answer'[r].after = dataset' /\ DOMAIN answer' = Requests
      /\ \A q \in Requests : q # r => at'[q] = at[q] /\ answer'[q] = answer[q]
      /\ UNCHANGED <<strategy, kind>>
  BY DEF BumpDataset, Doing, Say, GoTo, Shaped, VersionInv
<1>2. PICK bump \in {"major", "minor", "patch"} : dataset' = Bump(answer[r].before, bump)
  BY DEF BumpDataset
<1>3. answer[r].before \in Version
  BY <1>1 DEF VersionInv
<1>4. dataset' \in Version /\ Older(answer[r].before, dataset')
  BY <1>2, <1>3, BumpGrows
<1>5. Rest("tune")
  BY <1>1 DEF Rest
<1>6. ASSUME "feedback" \notin overlapped PROVE FeedbackFits'
  <2>1. FeedbackFits /\ answer[r].before = dataset /\ dataset \in Version
    BY <1>1, <1>6 DEF VersionInv, FeedbackFits
  <2>2. Under("feedback", r) /\ ~Under("feedback", r)'
        /\ \A q \in Requests : Under("feedback", q)' => Under("feedback", q)
    BY <1>1 DEF Under, Over
  <2>3. \A q \in Requests : ~Under("feedback", q)'
    BY <2>1, <2>2 DEF FeedbackFits, Alone
  <2>4. Alone("feedback")' /\ \A q \in Requests : ~(kind'[q] = "feedback" /\ at'[q] = "bump")
    BY <2>3 DEF Alone, Under, Over
  <2>5. \A q \in Answered("feedback")' :
           q # r => q \in Answered("feedback") /\ answer'[q].after = answer[q].after
    BY <1>1 DEF Answered
  <2>6. ASSUME NEW q \in Answered("feedback")', q # r
        PROVE  /\ answer'[q].after \in Version /\ ~Older(dataset', answer'[q].after)
               /\ answer'[q].after # dataset'
    <3>1. answer'[q].after \in Version /\ ~Older(dataset, answer'[q].after)
      BY <2>1, <2>5, <2>6 DEF FeedbackFits
    <3> QED
      BY <1>4, <2>1, <3>1, OlderStaysOlder
  <2>7. ~Older(dataset', dataset')
    BY <1>4 DEF Older, Version
  <2>8. \A q \in Answered("feedback")' : answer'[q].after \in Version /\ ~Older(dataset', answer'[q].after)
    BY <1>1, <1>4, <2>6, <2>7
  <2>9. \A q, t \in Answered("feedback")' : q # t => answer'[q].after # answer'[t].after
    BY <1>1, <2>1, <2>5, <2>6 DEF FeedbackFits
  <2> QED
    BY <2>4, <2>8, <2>9 DEF FeedbackFits
<1>7. "tune" \notin overlapped => TuningFits'
  BY <1>1, <1>5, TuningRests DEF VersionInv
<1> QED
  BY <1>1, <1>4, <1>6, <1>7 DEF VersionInv

-----------------------------------------------------------------------------
(* Strategy tuning                                                           *)

\* A step of the only tuning, to a stage at which it still writes.
LEMMA TuningMoves ==
  ASSUME TuningFits, NEW r \in Requests, Under("tune", r), UNCHANGED kind,
         NEW p \in {"begun", "calibrate", "allow", "count", "tuned"}, at'[r] = p,
         \A q \in Requests : q # r => at'[q] = at[q] /\ answer'[q] = answer[q],
         \A x \in Written(p) : strategy'.parts[x] = r,
         strategy.version \in Nat, strategy'.version \in Nat, strategy.version <= strategy'.version,
         p = "tuned" => strategy.version < strategy'.version
  PROVE  TuningFits'
<1>1. \A q \in Requests : Under("tune", q)' => q = r
  BY DEF TuningFits, Alone, Under
<1>2. \A q \in Answered("tune")' : q \in Answered("tune") /\ q # r /\ answer'[q] = answer[q]
  BY DEF Answered
<1>3. \A q \in Requests : kind'[q] = "tune" /\ at'[q] = "tuned" => p = "tuned"
  BY <1>1 DEF Under, Over
<1>4. ASSUME NEW q \in Answered("tune")' PROVE Counted(q)'
  <2>1. Counted(q) /\ answer'[q] = answer[q]
    BY <1>2, <1>4 DEF TuningFits
  <2>2. answer[q].version \in Nat /\ answer[q].version <= strategy.version
        /\ answer[q].parts = [x \in Parts |-> q]
    BY <2>1 DEF Counted
  <2>3. answer[q].version <= strategy'.version
    BY <2>2
  <2>4. p = "tuned" => answer[q].version < strategy'.version
    BY <2>2
  <2> QED
    BY <1>3, <2>1, <2>2, <2>3, <2>4 DEF Counted
<1>5. \A q, t \in Answered("tune")' : q # t => answer'[q].version # answer'[t].version
  BY <1>2 DEF TuningFits
<1> QED
  BY <1>1, <1>4, <1>5 DEF TuningFits, Alone

LEMMA TuneVersions ==
  ASSUME Shaped, VersionInv, NEW r \in Requests, UNCHANGED <<kind, overlapped>>,
         \/ Tune(r, "begun", "selector", "calibrate")
         \/ Tune(r, "calibrate", "score_calibration", "allow")
         \/ Tune(r, "allow", "tool_policy", "count")
  PROVE  VersionInv'
<1>1. PICK part \in Parts, p \in {"calibrate", "allow", "count"} :
         /\ Tune(r, at[r], part, p)
         /\ at[r] \in {"begun", "calibrate", "allow"} /\ Written(p) = Written(at[r]) \union {part}
  <2>1. CASE Tune(r, "begun", "selector", "calibrate")
    BY <2>1 DEF Tune, Doing, Written, Parts
  <2>2. CASE Tune(r, "calibrate", "score_calibration", "allow")
    BY <2>2 DEF Tune, Doing, Written, Parts
  <2>3. CASE Tune(r, "allow", "tool_policy", "count")
    BY <2>3 DEF Tune, Doing, Written, Parts
  <2> QED
    BY <2>1, <2>2, <2>3
<1>2. /\ kind[r] = "tune" /\ at'[r] = p /\ strategy' = [strategy EXCEPT !.parts[part] = r]
      /\ \A q \in Requests : q # r => at'[q] = at[q]
      /\ UNCHANGED <<dataset, answer, kind>>
  BY <1>1 DEF Tune, Doing, GoTo, Shaped
<1>3. strategy.parts \in [Parts -> Requests \union {None}] /\ strategy.version \in Nat
  BY DEF VersionInv, Strategy
<1>4. /\ strategy' \in Strategy /\ strategy'.version = strategy.version
      /\ strategy'.parts = [strategy.parts EXCEPT ![part] = r]
  BY <1>2, <1>3 DEF VersionInv, Strategy
<1>5. Rest("feedback") /\ ("feedback" \notin overlapped => FeedbackFits')
  BY <1>2, FeedbackRests DEF Rest, VersionInv
<1>6. ASSUME "tune" \notin overlapped PROVE TuningFits'
  <2>1. TuningFits /\ Under("tune", r)
    BY <1>1, <1>2, <1>6 DEF VersionInv, Under, Over
  <2>2. \A x \in Written(at[r]) : strategy.parts[x] = r
    BY <2>1 DEF TuningFits
  <2>3. Written(p) \subseteq Parts
    BY DEF Written, Parts
  <2>4. \A x \in Written(p) : strategy'.parts[x] = r
    BY <1>1, <1>3, <1>4, <2>2, <2>3
  <2> QED
    BY <1>2, <1>3, <1>4, <2>1, <2>4, TuningMoves
<1> QED
  BY <1>2, <1>4, <1>5, <1>6 DEF VersionInv, Rest

LEMMA CountStrategyVersions ==
  ASSUME Shaped, VersionInv, NEW r \in Requests, UNCHANGED <<kind, overlapped>>, CountStrategy(r)
  PROVE  VersionInv'
<1>1. /\ kind[r] = "tune" /\ at[r] = "count" /\ at'[r] = "tuned"
      /\ strategy' = [strategy EXCEPT !.version = strategy.version + 1]
      /\ \A q \in Requests : q # r => at'[q] = at[q]
      /\ UNCHANGED <<dataset, answer, kind>>
  BY DEF CountStrategy, Doing, GoTo, Shaped
<1>2. strategy \in Strategy /\ strategy.version \in Nat
  BY DEF VersionInv, Strategy
<1>3. /\ strategy' \in Strategy /\ strategy'.version = strategy.version + 1
      /\ strategy'.parts = strategy.parts
  BY <1>1, <1>2 DEF Strategy
<1>4. Rest("feedback") /\ ("feedback" \notin overlapped => FeedbackFits')
  BY <1>1, FeedbackRests DEF Rest, VersionInv
<1>5. ASSUME "tune" \notin overlapped PROVE TuningFits'
  <2>1. TuningFits /\ Under("tune", r)
    BY <1>1, <1>5 DEF VersionInv, Under, Over
  <2>2. \A x \in Written("tuned") : strategy'.parts[x] = r
    BY <1>1, <1>3, <2>1 DEF TuningFits, Written
  <2>3. strategy'.version \in Nat /\ strategy.version < strategy'.version
    BY <1>2, <1>3
  <2> QED
    BY <1>1, <1>2, <2>1, <2>2, <2>3, TuningMoves
<1> QED
  BY <1>1, <1>3, <1>4, <1>5 DEF VersionInv, Rest

LEMMA ToolReturnsVersions ==
  ASSUME Shaped, VersionInv, NEW r \in Requests, UNCHANGED <<kind, overlapped>>, ToolReturns(r)
  PROVE  VersionInv'
<1>1. /\ kind[r] = "tune" /\ at[r] = "tuned" /\ DOMAIN answer' = Requests
      /\ \A q \in Requests : q # r => at'[q] = at[q] /\ answer'[q] = answer[q]
      /\ UNCHANGED <<dataset, strategy, kind>>
      /\ \/ at'[r] = "answered" /\ answer'[r] = strategy
         \/ at'[r] \in {"begun", "failed"}
  BY DEF ToolReturns, Doing, GoTo, Say, Shaped, VersionInv, versions
<1>2. strategy \in Strategy /\ strategy.version \in Nat
  BY DEF VersionInv, Strategy
<1>3. Rest("feedback") /\ ("feedback" \notin overlapped => FeedbackFits')
  BY <1>1, FeedbackRests DEF Rest, VersionInv
<1>4. ASSUME "tune" \notin overlapped PROVE TuningFits'
  <2>1. TuningFits /\ Under("tune", r)
    BY <1>1, <1>4 DEF VersionInv, Under, Over
  <2>2. strategy.parts = [x \in Parts |-> r]
    <3>1. \A x \in Parts : strategy.parts[x] = r
      BY <1>1, <2>1 DEF TuningFits, Written
    <3>2. strategy.parts \in [Parts -> Requests \union {None}]
      BY <1>2 DEF Strategy
    <3> QED
      BY <3>1, <3>2
  <2>3. \A q \in Requests : kind'[q] = "tune" /\ at'[q] \notin Over \union {"idle"} => q = r
    BY <1>1, <2>1 DEF TuningFits, Alone, Under
  <2>4. at'[r] # "tuned" /\ \A q \in Requests : ~(kind'[q] = "tune" /\ at'[q] = "tuned")
    BY <1>1, <2>3 DEF Over
  <2>5. Alone("tune")'
    BY <2>3 DEF Alone, Under
  <2>6. ASSUME NEW q \in Requests, Under("tune", q)' PROVE Written(at'[q]) = {}
    BY <1>1, <2>3, <2>6 DEF Under, Over, Written
  <2>7. \A q \in Answered("tune")' : q # r => q \in Answered("tune") /\ answer'[q] = answer[q]
    BY <1>1 DEF Answered
  <2>8. \A q \in Answered("tune")' : q # r => answer'[q].version < strategy.version
    BY <1>1, <2>1, <2>7 DEF TuningFits, Counted
  <2>9. \A q \in Answered("tune")' : q = r => answer'[q] = strategy
    BY <1>1 DEF Answered
  <2>10. \A q \in Answered("tune")' : Counted(q)'
    <3>1. ASSUME NEW q \in Answered("tune")', q # r PROVE Counted(q)'
      <4>1. Counted(q) /\ answer'[q] = answer[q] /\ strategy' = strategy
        BY <1>1, <2>1, <2>7, <3>1 DEF TuningFits
      <4> QED
        BY <2>4, <4>1 DEF Counted
    <3>2. ASSUME NEW q \in Answered("tune")', q = r PROVE Counted(q)'
      <4>1. answer'[q] = strategy /\ strategy' = strategy
        BY <1>1, <2>9, <3>2
      <4>2. answer'[q].version \in Nat /\ answer'[q].version <= strategy'.version
        BY <1>2, <4>1
      <4>3. answer'[q].parts = [x \in Parts |-> q]
        BY <2>2, <3>2, <4>1
      <4> QED
        BY <2>4, <4>2, <4>3 DEF Counted
    <3> QED
      BY <3>1, <3>2
  <2>11. \A q, t \in Answered("tune")' : q # t => answer'[q].version # answer'[t].version
    <3>1. \A q, t \in Answered("tune")' : q # t /\ q # r /\ t # r => answer'[q].version # answer'[t].version
      BY <2>1, <2>7 DEF TuningFits
    <3>2. \A q \in Answered("tune")' : q # r => answer'[q].version # strategy.version
      <4>1. ASSUME NEW q \in Answered("tune")', q # r PROVE answer'[q].version # strategy.version
        <5>1. answer'[q].version \in Nat /\ answer'[q].version < strategy.version
          BY <2>1, <2>7, <2>8, <4>1 DEF TuningFits, Counted
        <5> QED
          BY <1>2, <5>1
      <4> QED
        BY <4>1
    <3> QED
      BY <2>9, <3>1, <3>2
  <2> QED
    BY <2>5, <2>6, <2>10, <2>11 DEF TuningFits
<1> QED
  BY <1>1, <1>3, <1>4 DEF VersionInv, Rest

-----------------------------------------------------------------------------
(* The other steps                                                           *)

LEMMA OtherVersions ==
  ASSUME Shaped, VersionInv, NEW r \in Requests,
         \/ ReplayStep(r) \/ RollbackStep(r) \/ ExecutePipeline(r) \/ PlanRollout(r) \/ DecideRollout(r)
  PROVE  VersionInv'
<1>1. UNCHANGED <<kind, dataset, strategy, overlapped>>
  BY DEF ReplayStep, RollbackStep, ExecutePipeline, PlanRollout, DecideRollout, versions
<1>2. CASE CancelVerification(r)
  BY <1>1, <1>2, QuietRests DEF CancelVerification
<1>3. CASE ~CancelVerification(r)
  <2>1. kind[r] \notin {"feedback", "tune"}
    BY <1>3 DEF ReplayStep, RollbackStep, ExecutePipeline, PlanRollout, DecideRollout, CreateUpload,
       CreateEvaluation, Consume, CreateResume, RunRaises, RecordReplay, NoBreach, CreateVerification,
       RecordRollback, Doing
  <2>2. \E p : GoTo(r, p)
    BY <1>3 DEF ReplayStep, RollbackStep, ExecutePipeline, PlanRollout, DecideRollout, CreateUpload,
       CreateEvaluation, Consume, CreateResume, RunRaises, RecordReplay, NoBreach, CreateVerification,
       RecordRollback, StartRun, EndRun, Fail
  <2>3. UNCHANGED answer \/ \E a : Say(r, a)
    BY <1>3 DEF ReplayStep, RollbackStep, ExecutePipeline, PlanRollout, DecideRollout, CreateUpload,
       CreateEvaluation, Consume, CreateResume, RunRaises, RecordReplay, NoBreach, CreateVerification,
       RecordRollback, StartRun, EndRun, Fail
  <2>4. \A q \in Requests : q # r => at'[q] = at[q]
    BY <2>2 DEF GoTo, Shaped
  <2>5. DOMAIN answer' = Requests /\ \A q \in Requests : q # r => answer'[q] = answer[q]
    BY <2>3 DEF Say, VersionInv
  <2> QED
    BY <1>1, <2>1, <2>4, <2>5, OthersRest
<1> QED
  BY <1>2, <1>3

LEMMA VersionStep == Shaped /\ VersionInv /\ [Next]_vars => VersionInv'
<1> SUFFICES ASSUME Shaped, VersionInv, [Next]_vars PROVE VersionInv'
  OBVIOUS
<1>1. ASSUME NEW r \in Requests, NEW k \in Kinds, Begin(r, k) PROVE VersionInv'
  BY <1>1, BeginVersions
<1>2. ASSUME NEW r \in Requests, NEW j \in JobsOf,
             WorkerStarts(r, j) \/ WorkerEnds(r, j) \/ ReviewerAnswers(r)
      PROVE  VersionInv'
  BY <1>2, QuietRests DEF WorkerStarts, WorkerEnds, ReviewerAnswers, versions
<1>3. ASSUME NEW r \in Requests,
             \/ ReplayStep(r) \/ RollbackStep(r) \/ ExecutePipeline(r) \/ PlanRollout(r) \/ DecideRollout(r)
      PROVE  VersionInv'
  BY <1>3, OtherVersions
<1>4. ASSUME NEW r \in Requests, OperationsStep(r) PROVE VersionInv'
  BY <1>4, ReadDatasetVersions, BumpDatasetVersions, TuneVersions, CountStrategyVersions,
     ToolReturnsVersions DEF OperationsStep
<1>5. CASE UNCHANGED vars
  BY <1>5, QuietRests DEF vars, versions
<1> QED
  BY <1>1, <1>2, <1>3, <1>4, <1>5 DEF Next, JobsOf

\* As long as no two feedback runs overlapped, no two answered one dataset
\* version; as long as no two tunings did, each answered with its own parts and a
\* version of its own, however often its tool was retried.
THEOREM VersionsStayApart == Spec => []VersionsTellApart
<1>1. VersionInv => VersionsTellApart
  BY DEF VersionInv, FeedbackFits, TuningFits, Counted, VersionsTellApart
<1>2. EarnInv => Shaped
  BY DEF EarnInv
<1> QED
  BY <1>1, <1>2, EarnInit, EarnStep, VersionInit, VersionStep, PTL DEF Spec

=============================================================================
