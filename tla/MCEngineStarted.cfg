CONSTANTS
    s1 = s1
    hStart = hStart
    hEnd = hEnd
    hResume = hResume
    begin = begin
    work1 = work1
    work2 = work2
    end = end
    resume = resume
    Sessions <- MCSessions
    Hooks <- StartOnly
    Facts <- MCFacts
    Started <- MCStarted
    Finished <- MCFinished
    SessionOf <- MCSessionOf
    Script <- TwoRecords
    HookFacts <- StartOnlyFacts
    MaxFacts = 2
    SOURCES = SOURCES
    RAW = RAW
    CANONICAL = CANONICAL
    NoStage = NoStage
    Unreadable <- NoFaults
    Poison <- NoFaults
    MaxFailures = 0
    MaxCrashes = 1
SPECIFICATION Spec
PROPERTIES
    StartedSessionsAreStored
CHECK_DEADLOCK FALSE
