\* Two jobs of one document; MinerU is configured, and the route may run out.
CONSTANTS
    Jobs = {parse1, parse2}
    MineruKey = TRUE
    Route <- MCRoute
    MaxPolls = 2
SPECIFICATION FairSpec
INVARIANTS StoredIsCited ReturnedHasChunks ManifestSettles DocumentSettles
PROPERTIES ChunksNeverLost EveryRunEnds
CHECK_DEADLOCK FALSE
