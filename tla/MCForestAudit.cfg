\* Odd and even numbers of regions, shards and leaves; buckets of two leaves.
CONSTANTS
    NumRegions = 3
    NumShards = 2
    SegmentSizes = {1, 3}
    MaxSegments = 5
    BucketLevel = 1
    JumpLevels = 63
    MaxAddresses = 2
    MaxAudited = 3
    MaxLeaves = 6
    AuditedShards <- TwoRegions
SPECIFICATION Spec
CHECK_DEADLOCK FALSE
INVARIANTS
    MatchesReference
    FrontierIsBinary
    ProofNodesStored
    ProofsVerify
    OnlyPlansAreVerified
    LocalizesExactly
    LocalizesShapes
    AlteredStoreNeverMisleads
