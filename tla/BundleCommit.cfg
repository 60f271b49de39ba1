SPECIFICATION Spec
CONSTANTS
    Issuer = {"i"}
    Retained = 1
    MaxSequence = 2
    MaxBatches = 3
    MaxEdits = 1
    MaxAttempts = 4
    MaxEpochs = 2
INVARIANTS
    AckedIsDurable
    RefusedNeverPublished
    GraphIsPresent
    FloorNeverAheadOfDisk
PROPERTIES
    ImplementsAtomicPublication
CHECK_DEADLOCK FALSE
