SPECIFICATION FairSpec
CONSTANTS
    Client = {"frame", "agent"}
    Path = {"first", "second", "shared"}
    Writers <- MCWriters
    None = None
    Stop = Stop
    MaxJobs = 3
INVARIANTS
    OkMeansLanded
    EarlierJobsSettled
    NothingLostAtExit
PROPERTIES
    StaleNeverOverwrites
    JoinReturns
    ShutdownEnds
CHECK_DEADLOCK FALSE
