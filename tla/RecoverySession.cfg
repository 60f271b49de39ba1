SPECIFICATION Spec
CONSTANTS
    Doc <- MCDoc
    Op <- MCOp
    Batches <- MCLegacyBatches
    Key = {"k"}
    None = None
    Rejected = Rejected
    Canonical <- MCCanonical
    ApplyOp <- MCApplyOp
    Commands <- MCGesture
    Blank <- MCBlank
    MaxFormat = 1
    MaxBatches = 2
    MaxSaves = 0
    MaxActivations = 1
    MaxRefusals = 0
    MaxCrashes = 2
    MaxJournals = 2
    MaxFailures = 0
INVARIANTS
    TypeOK
    JournalReplaysRecorded
    RecordedSurvivesCrash
CHECK_DEADLOCK FALSE
