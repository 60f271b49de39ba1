SPECIFICATION Spec
CONSTANTS
    Doc <- MCDoc
    Op <- MCOp
    Batches <- MCHistoryBatches
    Key = {"k", "l"}
    None = None
    Rejected = Rejected
    Canonical <- MCCanonical
    ApplyOp <- MCApplyOp
    Proof = {owner}
    Tag = {root}
    ManualCommands = 1
    MaxBatches = 4
    MaxRevision = 4
    MaxInstalls = 0
    MaxFloors = 1
    MaxGenerations = 0
INVARIANTS
    TypeOK
    FloorCommitSound
    SuffixMatches
    HistoryIsAPath
    GestureIsOneRun
CHECK_DEADLOCK FALSE
