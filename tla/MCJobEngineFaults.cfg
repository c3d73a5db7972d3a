\* Two relays, a drain and run-now work on one job at once, runs raise, processes die.
CONSTANTS
    parse1 = parse1
    resume1 = resume1
    Jobs = {parse1}
    JobType <- MCJobType
    Msgs = {m1, m2}
    Relays = {relay1, relay2}
    Consumers = {worker}
    Workers = {}
    Drains = {drain1}
    Runners = {runner1}
    MaxRetries = 1
    Faults = {"raise", "crash"}
    None = None
SPECIFICATION Spec
SYMMETRY MCSymmetry
INVARIANTS FailedIsAccounted PublishedWasEnqueued
CHECK_DEADLOCK FALSE
