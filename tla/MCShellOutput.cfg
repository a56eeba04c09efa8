CONSTANTS
    None = None
    Finished = Finished
    InitialSize = 1
    ReadSize = 2
    MaxSize = 4
    MaxFailures = 1
    MaxRestarts = 1
SPECIFICATION Spec
INVARIANTS
    TypeOK
    ChunksAreContiguous
PROPERTIES
    OutputIsRecorded
CHECK_DEADLOCK FALSE
