\* Order 3 splits internal pages, the root and others, within seven inserts.
CONSTANTS
    Order = 3
    Keys = {1, 2, 3, 4, 5, 6, 7}
    MaxInserts = 7
    MaxCopies = 2
SPECIFICATION Spec
\* The inserts are bounded.
CHECK_DEADLOCK FALSE
INVARIANTS
    StoredIsTree
    EveryRangeResolves
    RangesAreExact
    VerifierIsSound
