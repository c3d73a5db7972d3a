\* Three requests, one tool retry, store calls that raise.
CONSTANTS
    None = None
    Threads = {t1, t2, t3}
    Traffic <- MCTraffic
    Attempts = 2
    CircuitLimit = 1
    Raising = {"toolLog", "releaseLock", "createParse"}
    tenant1 = tenant1  tenant2 = tenant2
    item = item  report = report  code = code  file = file  v1 = v1  v2 = v2
    key1 = key1  key2 = key2  why1 = why1  why2 = why2
    Items = {item}
    ItemTenant <- MCItemTenant
    Objects = {report}
    Owner <- MCOwner
    Versions = {v1, v2}
    FirstVersion = v1
    Backends = {"local", "s3"}
    Worm = TRUE
    Retention = TRUE
SPECIFICATION Spec
INVARIANTS SettledOnce AnsweredOnce  LockFollowsHold OneRowPerCode
PROPERTIES HoldProtects
CONSTRAINTS LocalUnlessHolding TwoAtATime OneFails
SYMMETRY Symmetric
CHECK_DEADLOCK FALSE
