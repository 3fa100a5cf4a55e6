\* Two workers in one region.
CONSTANTS
    NumRegions = 1
    NumShards = 2
    MaxSegments = 2
    MaxWorkers = 1
    UpdatesCap = 2
    WritesMayFail = FALSE
SPECIFICATION Spec
CHECK_DEADLOCK FALSE
INVARIANTS
    DrainedMatchesForest
