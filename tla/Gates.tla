------------------------------- MODULE Gates -------------------------------
(***************************************************************************)
(* The four release gates (quality_gates.py, performance_gates.py,         *)
(* security_gates.py, cost_gates.py): metrics in, the checks that failed   *)
(* out.  Rates, ratios and seconds are counted in thousandths.             *)
(***************************************************************************)
EXTENDS Naturals

\* What the request schemas let through.
Rate == 0 .. 1000
Cost == [task_cost_p95 : Nat, baseline_task_cost_p95 : Nat \ {0}, routing_degrade_passed : BOOLEAN,
         degrade_availability : Rate, budget_alert_coverage : Rate]
Security == [tenant_scope_violations : Nat, auth_bypass_findings : Nat,
             high_risk_approval_coverage : Rate, log_redaction_failures : Nat,
             secret_scan_findings : Nat]
Performance == [api_p95_s : Nat, retrieval_p95_s : Nat, parse_50p_p95_s : Nat,
                evaluation_p95_s : Nat, queue_dlq_rate : Rate, cache_hit_rate : Rate]
Quality == [context_precision : Rate, context_recall : Rate, faithfulness : Rate,
            response_relevancy : Rate, hallucination_rate : Rate, resolvable_rate : Rate]

QualityFloor ==
    [context_precision |-> 800, context_recall |-> 800, faithfulness |-> 900,
     response_relevancy |-> 850, resolvable_rate |-> 980]
QualityCeiling == [hallucination_rate |-> 50]

PerformanceCeiling ==
    [api_p95_s |-> 1500, retrieval_p95_s |-> 4000, parse_50p_p95_s |-> 180000,
     evaluation_p95_s |-> 120000, queue_dlq_rate |-> 10]
PerformanceFloor == [cache_hit_rate |-> 700]

SecurityCeiling ==
    [tenant_scope_violations |-> 0, auth_bypass_findings |-> 0,
     log_redaction_failures |-> 0, secret_scan_findings |-> 0]
SecurityFloor == [high_risk_approval_coverage |-> 1000]

CostFloor == [degrade_availability |-> 995, budget_alert_coverage |-> 1000]
CostRatio == 1200

Below(m, floor) == {x \in DOMAIN floor : m[x] < floor[x]}
Above(m, ceiling) == {x \in DOMAIN ceiling : m[x] > ceiling[x]}

QualityFailed(m) == Below(m, QualityFloor) \union Above(m, QualityCeiling)

PerformanceFailed(m) == Above(m, PerformanceCeiling) \union Below(m, PerformanceFloor)

SecurityFailed(m) == Above(m, SecurityCeiling) \union Below(m, SecurityFloor)

\* The ratio of two costs, not the cost, is compared.
CostFailed(m) ==
    Below(m, CostFloor)
    \union (IF 1000 * m.task_cost_p95 > CostRatio * m.baseline_task_cost_p95
            THEN {"task_cost_p95"} ELSE {})
    \union (IF m.routing_degrade_passed THEN {} ELSE {"routing_degrade_passed"})

Evaluators == {"quality", "performance", "security", "cost"}

Reading == [quality : Quality, performance : Performance, security : Security, cost : Cost]

Failed(gate, m) == CASE gate = "quality"     -> QualityFailed(m)
                     [] gate = "performance" -> PerformanceFailed(m)
                     [] gate = "security"    -> SecurityFailed(m)
                     [] gate = "cost"        -> CostFailed(m)

Passes(gate, m) == Failed(gate, m) = {}

-----------------------------------------------------------------------------
(* What the gate checklist asks for, gate by gate                           *)
(* (docs/design/2026-02-22-gate-d-four-gates-checklist.md)                  *)

Documented(gate, m) ==
    CASE gate = "quality" ->
            /\ m.context_precision >= 800 /\ m.context_recall >= 800
            /\ m.faithfulness >= 900 /\ m.response_relevancy >= 850
            /\ m.hallucination_rate <= 50 /\ m.resolvable_rate >= 980
      [] gate = "performance" ->
            /\ m.api_p95_s <= 1500 /\ m.retrieval_p95_s <= 4000
            /\ m.parse_50p_p95_s <= 180000 /\ m.evaluation_p95_s <= 120000
            /\ m.queue_dlq_rate <= 10 /\ m.cache_hit_rate >= 700
      [] gate = "security" ->
            /\ m.tenant_scope_violations = 0 /\ m.auth_bypass_findings = 0
            /\ m.high_risk_approval_coverage = 1000
            /\ m.log_redaction_failures = 0 /\ m.secret_scan_findings = 0
      [] gate = "cost" ->
            /\ 10 * m.task_cost_p95 <= 12 * m.baseline_task_cost_p95
            /\ m.routing_degrade_passed /\ m.degrade_availability >= 995
            /\ m.budget_alert_coverage = 1000
=============================================================================
