\* Two runs over three criteria, with a small task budget.
CONSTANTS
    None = None
    d1 = d1
    d2 = d2
    d3 = d3
    Documents = {d1, d2, d3}
    SingleBudget = 5
    ReportBudget = 13
    MinEvidence = 2
    MaxEvidence = 3
    N = 3
    Weight <- MCWeight
    MaxScore <- MCMaxScore
    Required = {2}
    Found <- MCFound
    Standin <- MCStandin
    LlmScores <- MCLlmScores
    MaxCall = 4
    TaskBudget = 5
    MaxRuns = 2
SPECIFICATION Spec
INVARIANTS EvidenceFits SpendBounded UnreviewedIsSound
CONSTRAINTS FewScored SecondSpends
CHECK_DEADLOCK FALSE
