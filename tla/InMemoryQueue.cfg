\* The in-memory deque: two tenants, delayed and nacked messages.
CONSTANTS
    Messages = {m1, m2, m3}
    QueueKeys = {tenantA, tenantB}
    NoKey = noKey
    MaxClock = 2
    MaxDelay = 1
    MaxNacks = 1
SPECIFICATION MemoryFairSpec
PROPERTIES VisibleFifo MemoryImplementsContract WaitingIsServed
CHECK_DEADLOCK FALSE
