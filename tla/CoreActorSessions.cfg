SPECIFICATION Spec
CONSTANTS
    Doc <- MCDoc
    Op <- MCOp
    Batches <- MCOneBatch
    Key = {"k"}
    None = None
    Rejected = Rejected
    Canonical <- MCCanonical
    ApplyOp <- MCApplyOp
    Proof = {owner}
    Tag = {root}
    ManualCommands = 2
    MaxBatches = 2
    MaxRevision = 2
    MaxInstalls = 1
    MaxFloors = 2
    MaxGenerations = 1
INVARIANTS
    Restorable
    ManualStreamExact
    AckedWasRead
PROPERTIES
    SettledByItsOwner
    SealedIsFinal
    ChangeIdAdvances
CHECK_DEADLOCK FALSE
