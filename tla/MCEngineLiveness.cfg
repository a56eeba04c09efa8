CONSTANTS
    s1 = s1
    hStart = hStart
    hEnd = hEnd
    hResume = hResume
    begin = begin
    work1 = work1
    work2 = work2
    end = end
    resume = resume
    Sessions <- MCSessions
    Hooks <- StartAndEnd
    Facts <- MCFacts
    Started <- MCStarted
    Finished <- MCFinished
    SessionOf <- MCSessionOf
    Script <- OneRecord
    HookFacts <- StartAndEndFacts
    MaxFacts = 2
    SOURCES = SOURCES
    RAW = RAW
    CANONICAL = CANONICAL
    NoStage = NoStage
    Unreadable <- NoFaults
    Poison <- NoFaults
    MaxFailures = 1
    MaxCrashes = 1
SPECIFICATION Spec
PROPERTIES
    ImplementsFactJournal
CHECK_DEADLOCK FALSE
