\* Two shards in one region, each with a stopped worker; a segment is sealed before the
\* first checkpoint and one after it, in the same shard or in the other.
CONSTANTS
    NumRegions = 1
    NumShards = 2
    MaxSegments = 2
    MaxWorkers = 2
    UpdatesCap = 1
    WritesMayFail = TRUE
    BucketLevel = 1
    JumpLevels = 63
    MaxCheckpoints = 2
    MaxRequested = 2
    NoSnapshot = NoSnapshot
    NoProof = NoProof
SPECIFICATION AuditSpec
\* The segments and checkpoints are bounded and the auditor may stop asking.
CHECK_DEADLOCK FALSE
INVARIANTS
    ProofsBelongToCheckpoint
    QuietAuditSucceeds
    LocalizationSurvivesProgress
PROPERTIES
    AnswersAreCurrent
