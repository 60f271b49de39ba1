SPECIFICATION Spec
CONSTANTS
    Doc <- MCDoc
    Op <- MCOp
    Batches <- MCOneBatch
    Key = {}
    None = None
    Rejected = Rejected
    Canonical <- MCCanonical
    ApplyOp <- MCApplyOp
    Commands <- MCEdits
    Blank <- MCBlank
    MaxFormat = 1
    MaxBatches = 2
    MaxSaves = 0
    MaxActivations = 1
    MaxRefusals = 0
    MaxCrashes = 2
    MaxJournals = 3
    MaxFailures = 1
INVARIANT RecordedSurvivesCrash
CHECK_DEADLOCK FALSE
