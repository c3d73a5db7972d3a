\* One queue; a pass over all tenants fits into an iteration.
CONSTANTS
    NumQueues = 1
    NumTenants = 3
    BurstLimit = 2
    MaxMessages = 7
    MaxReady = 2
SPECIFICATION LoopFairSpec
INVARIANT BoundedOvertaking
PROPERTIES EveryKeyIsServed
