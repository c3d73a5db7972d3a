----------------------------- MODULE MCRelease -----------------------------
(***************************************************************************)
(* An instance of Release for TLC.                                         *)
(***************************************************************************)
EXTENDS Release, TLC

\* Bound: each gate is asked about metrics exactly at its thresholds, and
\* about the same with one metric a little worse.
AtThreshold ==
    [quality     |-> QualityFloor @@ QualityCeiling,
     performance |-> PerformanceFloor @@ PerformanceCeiling,
     security    |-> SecurityFloor @@ SecurityCeiling,
     cost        |-> CostFloor @@ [task_cost_p95 |-> 6, baseline_task_cost_p95 |-> 5,
                                   routing_degrade_passed |-> TRUE]]

Floors == QualityFloor @@ PerformanceFloor @@ SecurityFloor @@ CostFloor

Worse(x, v) == IF x = "routing_degrade_passed" THEN FALSE
               ELSE IF x \in DOMAIN Floors \union {"baseline_task_cost_p95"} THEN v - 1
               ELSE v + 1

MCReadings ==
    {AtThreshold} \union
    UNION {{[AtThreshold EXCEPT ![g][x] = Worse(x, @)] : x \in DOMAIN AtThreshold[g]} :
              g \in Evaluators}

\* Bound: two requests at a time.
TwoAtATime == Cardinality({r \in Requests : at[r] \notin Over \union {"idle"}}) <= 2

\* Bound: one request of each step towards a release, or three operations.
Role == <<"replay", "plan", "decide", "rollback", "pipeline">>
Operations == {"feedback", "tune"}
OneOfEach == \/ \A r \in Requests : kind[r] \in {None, Role[r]}
             \/ \A r \in Requests : kind[r] \in {None} \union
                                         (IF r <= 3 THEN Operations ELSE {})

\* Bound: nothing is looked at once the pipeline has answered, and no replay
\* when readiness is not required.
PipelineLast == Answered("pipeline") = {}
LittleUnasked == ~required => kind[1] # "replay"
=============================================================================
