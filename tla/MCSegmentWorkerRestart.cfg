\* A stopped worker and its successor, ALL and the persister may stop.
CONSTANTS
    Logs = {l1, l2}
    Workers = {w1, w2}
    None = None
    MaxSegmentLeaves = 1
    QueueCap = 1
    UpdatesCap = 1
    MaxSegmentID = 3
    Faults = {"ALL", "persister"}
SPECIFICATION Spec
CHECK_DEADLOCK FALSE
SYMMETRY Symmetry
INVARIANTS
    TypeOK
    AckedIsLocated
    OwnSegment
    NothingStranded
PROPERTIES
    ShardLogSpec
