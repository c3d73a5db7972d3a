\* One relay at a time and nobody cancels: every job follows the contract.
CONSTANTS
    parse1 = parse1
    resume1 = resume1
    Jobs = {parse1, eval1}
    JobType <- MCJobType
    Msgs = {m1, m2, m3}
    Relays = {relay1}
    Consumers = {worker, api}
    Workers = {worker1}
    Drains = {drain1}
    Runners = {}
    MaxRetries = 2
    Faults = {"raise", "publish"}
    None = None
SPECIFICATION Spec
SYMMETRY MCSymmetry
INVARIANTS TypeOK ManifestAgrees
PROPERTIES ImplementsContract
CHECK_DEADLOCK FALSE
