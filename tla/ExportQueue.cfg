SPECIFICATION FairSpec
CONSTANTS
    Path = {"p", "q"}
    Caller = {"c"}
    None = None
    Capacity = 1
    Frames = 1
    MaxJobs = 2
    MaxChanges = 1
INVARIANTS
    TypeOK
PROPERTIES
    SettledIsFinal
    CompletedIsTrusted
    OutputsKept
    JobsSettle
CHECK_DEADLOCK FALSE
