SPECIFICATION Spec
CONSTANTS
    Doc <- MCOneDoc
    Op <- MCClearOp
    Batches <- MCClear
    Key = {}
    None = None
    Rejected = Rejected
    Canonical <- MCCanonical
    ApplyOp <- MCApplyOp
    Commands <- MCEdits
    Blank <- MCBlank
    MaxFormat = 2
    MaxBatches = 1
    MaxSaves = 1
    MaxActivations = 1
    MaxRefusals = 1
    MaxCrashes = 2
    MaxJournals = 3
    MaxFailures = 1

    
PROPERTIES
    PendingKept
CHECK_DEADLOCK FALSE
