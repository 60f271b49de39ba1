SPECIFICATION Spec
CONSTANTS
    Doc <- MCDoc
    Op <- MCOp
    Batches <- MCBatches
    Key = {"k"}
    None = None
    Rejected = Rejected
    Canonical <- MCCanonical
    ApplyOp <- MCApplyOp
    ManualCommands = 2
    MaxBatches = 4
    MaxRevision = 4
INVARIANTS
    TypeOK
    CacheExact
PROPERTIES
    ImplementsAtomicAdmission
CHECK_DEADLOCK FALSE
