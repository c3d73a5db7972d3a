\* Operators cancel jobs while they run, retry and fail.
CONSTANTS
    parse1 = parse1
    resume1 = resume1
    Jobs = {parse1, eval1}
    JobType <- MCJobType
    Msgs = {m1, m2}
    Relays = {relay1}
    Consumers = {worker, api}
    Workers = {worker1}
    Drains = {drain1}
    Runners = {}
    MaxRetries = 1
    Faults = {"cancel"}
    None = None
SPECIFICATION FairSpec
INVARIANTS OneMessagePerJob ExclusiveExecution RetriesWithinBudget UnsettledHasCarrier
PROPERTIES EverySubmittedSettles
CHECK_DEADLOCK FALSE
