CONSTANTS
    SOURCES = SOURCES
    CANONICAL = CANONICAL
    Kinds <- MCKinds
    SharedKeys = {"retry"}
    OwnedKeys = {"continuation"}
    Delays <- MCDelays
    MaxTime = 2
    None = None
SPECIFICATION Spec
INVARIANTS
    TypeOK
    SleepCoversPromises
PROPERTIES
    DeadlineKept
    WorkDelivered
    ShutdownReleases
    RefinesNoticeBoard
CHECK_DEADLOCK FALSE
