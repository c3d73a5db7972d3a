\* The five requests of an admission, or three of operations, two at a time.
CONSTANTS
    None = None
    Requests = {1, 2, 3, 4, 5}
    Tenants = {ta, tb}
    Readings <- MCReadings
    ToolRetries = 1
SPECIFICATION Spec
INVARIANTS  VersionsTellApart
CONSTRAINTS TwoAtATime OneOfEach LittleUnasked
ACTION_CONSTRAINT PipelineLast
CHECK_DEADLOCK FALSE
