\* Two shards with a stopped worker each, a channel of one slot, writes may fail.
CONSTANTS
    NumRegions = 1
    NumShards = 2
    MaxSegments = 4
    MaxWorkers = 2
    UpdatesCap = 1
    WritesMayFail = TRUE
SPECIFICATION FairSpec
CHECK_DEADLOCK FALSE
INVARIANTS
    ShardStateIsBacked
    DrainedShards
PROPERTIES
    SealedIsPersisted
