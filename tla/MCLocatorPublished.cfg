CONSTANTS
    Order = 3
    Keys = {1, 2, 3}
    RequestsCap = 1
    UpdatesCap = 1
    PagesPerBucket = 2
    MaxRestarts = 0
    NoUpdate = NoUpdate
SPECIFICATION Spec
CHECK_DEADLOCK FALSE
INVARIANTS
    PublishedIsReadable
