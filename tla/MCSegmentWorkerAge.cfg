\* The timer is the only reason to seal.
CONSTANTS
    Logs = {l1, l2}
    Workers = {w1}
    None = None
    MaxSegmentLeaves = 2
    QueueCap = 1
    UpdatesCap = 1
    MaxSegmentID = 3
    Faults = {}
SPECIFICATION FairSpec
CHECK_DEADLOCK FALSE
PROPERTIES
    SealedByAge
