\* Three operations in one SQLite process or two Postgres processes, one restart.
CONSTANTS
    None = None
    Threads = {t1, t2, t3}
    Processes = {p1, p2}
    Backends = {"sqlite", "postgres"}
    MaxRestarts = 1
SPECIFICATION Spec
INVARIANTS AnsweredIsSeen RecordHasEffect
CONSTRAINTS TwoAtATime OneEvaluation
SYMMETRY Symmetric
CHECK_DEADLOCK FALSE
