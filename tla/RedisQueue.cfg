\* Two processes, two messages, one process death at any command.
CONSTANTS
    Msgs = {m1, m2}
    Clients = {api, worker}
    MaxAttempt = 1
    MaxCrashes = 1
    None = none
SPECIFICATION FairSpec
INVARIANT OneHolder
PROPERTIES ImplementsContract ServedUnlessLost
CHECK_DEADLOCK FALSE
