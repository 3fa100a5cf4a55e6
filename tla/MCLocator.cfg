CONSTANTS
    Order = 3
    Keys = {1, 2, 3, 4}
    RequestsCap = 1
    UpdatesCap = 1
    PagesPerBucket = 2
    MaxRestarts = 1
    NoUpdate = NoUpdate
SPECIFICATION FairSpec
\* A stopped ALL, or one without submissions, does nothing.
CHECK_DEADLOCK FALSE
INVARIANTS
    QueriesAreExact
    DrainedIsReadable
PROPERTIES
    StopCompletes
