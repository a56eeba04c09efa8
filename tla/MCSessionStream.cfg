CONSTANTS
    engine = engine
    request = request
    reader = reader
    Writers <- MCWriters
    Readers <- MCReaders
    Client = reader
    Engine = engine
    NoRow = NoRow
    NoView = NoView
    Budget = 1
    PageLimit = 1
    EmptyPage = 0
    MaxFacts = 2
    MaxRows = 3
    MaxDrops = 1
SPECIFICATION Spec
INVARIANTS
    TypeOK
    NoLostWakeUp
    NothingSkipped
    OneViewPerStream
PROPERTIES
    StreamConverges
CHECK_DEADLOCK FALSE
