\* Callers that retry; a failed write is applied or lost, never late.
CONSTANTS
    Callers = {c1, c2}
    Readers = {}
    Snapshots = {s1, s2}
    None = None
    MaxSequence = 2
    MaxClock = 8
    MaxInflight = 0
SPECIFICATION FairSpec
INVARIANTS
    OneCommitmentPerSequence
PROPERTIES
    StartedIsPublished
