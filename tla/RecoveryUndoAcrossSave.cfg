SPECIFICATION Spec
CONSTANTS
    Doc <- MCDoc
    Op <- MCOp
    Batches <- MCBatches
    Key = {"k"}
    None = None
    Rejected = Rejected
    Canonical <- MCCanonical
    ApplyOp <- MCApplyOp
    Commands <- JournalCommand
    Blank <- MCBlank
    MaxFormat = 1
    MaxBatches = 3
    MaxSaves = 1
    MaxActivations = 1
    MaxRefusals = 0
    MaxCrashes = 0
    MaxJournals = 3
    MaxFailures = 0
INVARIANT JournalReplaysRecorded
CHECK_DEADLOCK FALSE
