CONSTANTS
    engine = engine
    request = request
    reader = reader
    Writers <- MCWriters
    Readers <- MCReaders
    Client = reader
    Engine = engine
    NoRow = NoRow
    NoView = NoView
    Budget = 1
    PageLimit = 1
    EmptyPage = NoRow
    MaxFacts = 2
    MaxRows = 3
    MaxDrops = 0
SPECIFICATION Spec
INVARIANT
    ReadersHaveTheirRows
CHECK_DEADLOCK FALSE
