\* One evaluation, two resume requests, two runs, every runtime.
CONSTANTS
    None = None
    Evaluations = {e1}
    Requests = {q1, q2}
    Runs = {r1, r2}
    Keys = {k1, k2}
    Runtimes = {"compat", "langgraph", "truestack"}
    MaxSaves = 1
SPECIFICATION Spec
INVARIANTS ResumedOnce WaitingCanBeAnswered 
CONSTRAINT TwoAtATime
SYMMETRY Symmetric
CHECK_DEADLOCK FALSE
