\* Goroutines are scheduled, no one cancels or stops anything for good.
CONSTANTS
    Logs = {l1, l2}
    Workers = {w1, w2}
    None = None
    MaxSegmentLeaves = 2
    QueueCap = 1
    UpdatesCap = 1
    MaxSegmentID = 3
    Faults = {}
SPECIFICATION FairSpec
CHECK_DEADLOCK FALSE
INVARIANTS
    IndInv
PROPERTIES
    StopCompletes
    SubmitReturns
