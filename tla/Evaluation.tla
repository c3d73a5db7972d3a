----------------------------- MODULE Evaluation -----------------------------
(***************************************************************************)
(* The nodes of an evaluation (evaluation_nodes.py), in the order in which *)
(* both runtimes run them: evidence is retrieved and packed, the rules are *)
(* looked at, each criterion is scored by a language model within the      *)
(* budget of the task (llm_provider.py), and the gate decides whether a    *)
(* person has to look at the report.                                       *)
(*                                                                         *)
(* An evaluation is run when it is requested, and again by each run of its *)
(* job.  HumanReview shows what becomes of the report.                     *)
(***************************************************************************)
EXTENDS TokenBudget

CONSTANTS
    N,                      \* the criteria of the rule pack are 1..N
    Weight, MaxScore,       \* of each criterion
    Required,               \* the criteria with require_citation
    Found,                  \* Found[r]: what the index may find in run r, for each criterion
    Standin,                \* the evidence of the mock and of the stub
    LlmScores,              \* scores a model may answer, in range or not
    MaxCall,                \* the tokens of one call at most
    TaskBudget,             \* TASK_TOKEN_BUDGET; none if not positive
    MaxRuns                 \* bound on the runs of the nodes

ASSUME EvaluationAssumption ==
    /\ N \in Nat \ {0}
    /\ Weight \in [1..N -> Nat] /\ MaxScore \in [1..N -> Nat]
    /\ \A r \in 1..MaxRuns : \A indexed \in Found[r] :
          indexed \in Seq(Seq(Items)) /\ Len(indexed) = N
    /\ Standin \in Seq(Items)
    /\ LlmScores \subseteq Int
    /\ MaxCall \in Nat \ {0}
    /\ TaskBudget \in Int
    /\ MaxRuns \in Nat \ {0}

VARIABLES
    stage,          \* the next node of the run
    hard,           \* hard_constraint_pass
    llm,            \* is_real_llm_available
    found,          \* history: what retrieval returned
    evidence,       \* criteria_evidence
    redline,        \* redline_conflict
    tracker,        \* the CostBudgetTracker of this run
    results,        \* the scores of the criteria scored
    report,
    runs,           \* history: the runs of the nodes so far
    spent, unread   \* history: tokens the calls took, calls whose answer was of no use

run == <<stage, found, evidence, redline, tracker, results>>
vars == <<hard, llm, run, report, runs, spent, unread>>

NewTracker == [total |-> 0, degraded |-> FALSE, blocked |-> FALSE]

Init ==
    /\ stage = "retrieve"
    /\ hard \in BOOLEAN /\ llm \in BOOLEAN
    /\ found = <<>> /\ evidence = <<>> /\ redline = FALSE
    /\ tracker = NewTracker
    /\ results = <<>>
    /\ report = None
    /\ runs = 1 /\ spent = 0 /\ unread = 0

-----------------------------------------------------------------------------
(* Evidence                                                                 *)

\* Where the index finds nothing, the mock or the stub finds something.
Retrieved(indexed) == [c \in 1..N |-> IF indexed[c] = <<>> THEN Standin ELSE indexed[c]]

RetrieveEvidence ==
    /\ stage = "retrieve"
    /\ \E indexed \in Found[runs] :
          /\ found' = Retrieved(indexed)
          /\ evidence' = ApplyReportBudget(Retrieved(indexed))
    /\ stage' = "rules"
    /\ UNCHANGED <<hard, llm, redline, tracker, results, report, runs, spent, unread>>

EvaluateRules ==
    /\ stage = "rules"
    /\ redline' \in BOOLEAN
    /\ stage' = "score"
    /\ UNCHANGED <<hard, llm, found, evidence, tracker, results, report, runs, spent, unread>>

-----------------------------------------------------------------------------
(* Scoring                                                                  *)

DegradeAt == (TaskBudget * 8) \div 10       \* TASK_COST_WARN_RATIO
BlockAbove == (TaskBudget * 12) \div 10     \* TASK_COST_HARD_RATIO

\* Mutant: a budget that is nearly spent only warns.
CheckBudget_Warns(t) ==
    CASE t.blocked                     -> "blocked"
      [] ~t.blocked /\ TaskBudget <= 0 -> "ok"
      [] ~t.blocked /\ TaskBudget > 0 /\ t.total > BlockAbove -> "blocked"
      [] OTHER                         -> "ok"

CheckBudget(t) ==
    CASE t.blocked                     -> "blocked"
      [] ~t.blocked /\ TaskBudget <= 0 -> "ok"
      [] ~t.blocked /\ TaskBudget > 0 /\ t.total > BlockAbove -> "blocked"
      [] ~t.blocked /\ TaskBudget > 0 /\ t.total <= BlockAbove
         /\ (t.degraded \/ t.total >= DegradeAt)              -> "degrade"
      [] OTHER                         -> "ok"

Checked(t) == [t EXCEPT !.blocked  = @ \/ CheckBudget(t) = "blocked",
                        !.degraded = @ \/ CheckBudget(t) = "degrade"]

Clamped(score, top) == IF score < 0 THEN 0 ELSE Least(score, top)

\* The mock follows the evidence, but a bid that passes the hard constraint
\* has nine tenths at least.
MockScore(c) ==
    LET ev   == evidence[c]
        base == IF ev = <<>> THEN 3
                ELSE SumTo([i \in DOMAIN ev |-> ev[i].score], Len(ev)) \div Len(ev)
    IN Clamped((MaxScore[c] * (IF hard /\ base < 9 THEN 9 ELSE base)) \div 10, MaxScore[c])

Scored(c, score) ==
    results' = Append(results, [score |-> score, cited |-> evidence[c] # <<>>])

Next1(c) == stage = "score" /\ c = Len(results) + 1 /\ c <= N

\* The fallback model answers for the primary one.
LlmAnswers(c) ==
    /\ Next1(c) /\ CheckBudget(tracker) = "ok" /\ llm
    /\ \E score \in LlmScores, tokens \in 0..MaxCall :
          /\ Scored(c, Clamped(score, MaxScore[c]))
          /\ tracker' = [Checked(tracker) EXCEPT !.total = @ + tokens]
          /\ spent' = spent + tokens
    /\ UNCHANGED <<stage, hard, llm, found, evidence, redline, report, runs, unread>>

\* No model answers, or what it answers cannot be read: its tokens are not
\* recorded.
LlmFails(c) ==
    /\ Next1(c) /\ CheckBudget(tracker) = "ok" /\ llm
    /\ Scored(c, MockScore(c))
    /\ tracker' = Checked(tracker)
    /\ \E tokens \in 0..MaxCall : spent' = spent + tokens
    /\ unread' = unread + 1
    /\ UNCHANGED <<stage, hard, llm, found, evidence, redline, report, runs>>

MockScores(c) ==
    /\ Next1(c)
    /\ CheckBudget(tracker) \in {"degrade"} \union (IF llm THEN {} ELSE {"ok"})
    /\ Scored(c, MockScore(c))
    /\ tracker' = Checked(tracker)
    /\ UNCHANGED <<stage, hard, llm, found, evidence, redline, report, runs, spent, unread>>

\* The criteria that are left are not scored.
BudgetStops(c) ==
    /\ Next1(c) /\ CheckBudget(tracker) = "blocked"
    /\ tracker' = Checked(tracker)
    /\ stage' = "gate"
    /\ UNCHANGED <<hard, llm, found, evidence, redline, results, report, runs, spent, unread>>

AllScored ==
    /\ stage = "score" /\ Len(results) = N
    /\ stage' = "gate"
    /\ UNCHANGED <<hard, llm, found, evidence, redline, tracker, results, report, runs,
                   spent, unread>>

-----------------------------------------------------------------------------
(* The gate and the report                                                  *)

Total == SumTo([c \in DOMAIN results |-> results[c].score * Weight[c]], Len(results))

\* Of the criteria that were scored.
MaxTotal ==
    LET sum == SumTo([c \in DOMAIN results |-> MaxScore[c] * Weight[c]], Len(results))
    IN IF sum = 0 THEN 1 ELSE sum

\* Mutant: points are taken for per cent.
Deviates_Points(total, top) == top - total > 20

\* A score is below its maximum, so the difference has a sign.
Deviates(total, top) == (top - total) * 100 > 20 * top

\* Every citation has a source by now, so the coverage is all or nothing.
Covered == \E c \in 1..N : evidence[c] # <<>>
Unsupported == {c \in Required : c <= Len(results) /\ ~results[c].cited}

\* Whether the review is forced and the confidence low is left open.
QualityGate ==
    /\ stage = "gate"
    /\ \E other \in BOOLEAN :
          report' = [total  |-> IF hard THEN Total ELSE 0,
                     scored |-> Len(results),
                     review |-> \/ other \/ ~Covered \/ redline
                                \/ Deviates(Total, MaxTotal)
                                \/ Unsupported # {}]
    /\ stage' = "persisted"
    /\ UNCHANGED <<hard, llm, found, evidence, redline, tracker, results, runs, spent, unread>>

\* The job of the evaluation runs the nodes again, with a new tracker.
RunAgain ==
    /\ stage = "persisted" /\ runs < MaxRuns
    /\ stage' = "retrieve"
    /\ runs' = runs + 1
    /\ llm' \in BOOLEAN
    /\ found' = <<>> /\ evidence' = <<>> /\ redline' = FALSE
    /\ tracker' = NewTracker
    /\ results' = <<>>
    /\ UNCHANGED <<hard, report, spent, unread>>

Next ==
    \/ RetrieveEvidence \/ EvaluateRules
    \/ \E c \in 1..N : LlmAnswers(c) \/ LlmFails(c) \/ MockScores(c) \/ BudgetStops(c)
    \/ AllScored \/ QualityGate \/ RunAgain

Spec == Init /\ [][Next]_vars

-----------------------------------------------------------------------------
(* Properties *)

\* Whatever was retrieved: the evidence of a criterion is within its budget
\* or at the minimum, the evidence of the report within the report's or every
\* criterion at the minimum; no criterion loses its best item, nor falls
\* below the minimum where enough was found; and no document is cited twice
\* by a criterion that is above the minimum.
EvidenceFits ==
    stage = "rules" =>
        /\ \A c \in 1..N :
              /\ Len(evidence[c]) <= MinEvidence \/ TokensOf(evidence[c]) <= SingleBudget
              /\ Len(evidence[c]) >= Least(Len(found[c]), MinEvidence)
              /\ found[c] # <<>> =>
                    \E i \in DOMAIN evidence[c] : \A j \in DOMAIN found[c] :
                       found[c][j].score <= evidence[c][i].score
              /\ Len(evidence[c]) > MinEvidence =>
                    \A i, j \in DOMAIN evidence[c] :
                       i # j /\ evidence[c][i].doc = evidence[c][j].doc
                          => evidence[c][i].doc = None
        /\ \/ TokensOfReport(evidence) <= ReportBudget
           \/ \A c \in 1..N : Len(evidence[c]) <= MinEvidence

\* What a task spends: the budget of a task is a budget of each run of it,
\* overrun by one call at most, and by each call whose answer was of no use.
PerRun == DegradeAt - 1 + MaxCall
SpendBounded == TaskBudget > 0 => spent <= runs * PerRun + unread * MaxCall

\* A report nobody has to look at is about every criterion, unless the budget
\* stopped the run; none of its rules is violated; and with the hard
\* constraint passed its total is four fifths of what can be had.
UnreviewedIsSound ==
    stage = "persisted" /\ ~report.review =>
        /\ ~redline
        /\ ~tracker.blocked => report.scored = N
        /\ ~tracker.blocked /\ hard =>
              report.total * 5 >= 4 * SumTo([c \in 1..N |-> MaxScore[c] * Weight[c]], N)
=============================================================================
