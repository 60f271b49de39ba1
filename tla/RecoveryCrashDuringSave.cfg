SPECIFICATION Spec
CONSTANTS
    Doc <- MCDoc
    Op <- MCOp
    Batches <- MCOneBatch
    Key = {}
    None = None
    Rejected = Rejected
    Canonical <- MCCanonical
    ApplyOp <- MCApplyOp
    Commands <- MCEdits
    Blank <- MCBlank
    MaxFormat = 1
    MaxBatches = 2
    MaxSaves = 1
    MaxActivations = 1
    MaxRefusals = 0
    MaxCrashes = 1
    MaxJournals = 3
    MaxFailures = 0
INVARIANT RecordedSurvivesCrash
CHECK_DEADLOCK FALSE
