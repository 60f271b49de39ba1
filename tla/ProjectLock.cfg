SPECIFICATION Spec
CONSTANTS
    Process = {g, h, k}
    Gui = {g}
    Attempts = 2
    Absent = Absent
    Unreadable = Unreadable
    Foreign = Foreign
    MaxClaims = 3
    MaxUnlinks = 1
    MaxDeletions = 1
SYMMETRY MCSymmetry
INVARIANTS
    TypeOK
    OneWriter
    HeadlessNeverBesideJournal
PROPERTIES
    LiveDiscoveryKept
    ReclaimExact
CHECK_DEADLOCK FALSE
