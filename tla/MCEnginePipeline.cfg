CONSTANTS
    s1 = s1
    hStart = hStart
    hEnd = hEnd
    hResume = hResume
    begin = begin
    work1 = work1
    work2 = work2
    end = end
    resume = resume
    Sessions <- MCSessions
    Hooks <- WithResume
    Facts <- MCFacts
    Started <- MCStarted
    Finished <- MCFinished
    SessionOf <- MCSessionOf
    Script <- WithSilentRecord
    HookFacts <- WithResumeFacts
    MaxFacts = 2
    SOURCES = SOURCES
    RAW = RAW
    CANONICAL = CANONICAL
    NoStage = NoStage
    Unreadable <- NoFaults
    Poison <- NoFaults
    MaxFailures = 1
    MaxCrashes = 1
SPECIFICATION Spec
INVARIANTS
    TypeOK
    NoSilentBacklog
    RecordsFormPrefix
    ReactionsPrecedeFold
    FoldIsPrefix
    VerdictsKeepTheirFacts
    RowsFollowJournal
    InputReactionsRunOnce
CHECK_DEADLOCK FALSE
