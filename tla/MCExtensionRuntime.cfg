CONSTANTS
    c1 = c1
    command = command
    observation = observation
    Calls <- MCCalls
    Commands <- MCCommands
    Observations <- MCObservations
    None = None
    ScheduleLimit = 1
    MaxOperations = 1
    MaxRestarts = 1
    MaxFailures = 1
SPECIFICATION Spec
INVARIANTS
    TypeOK
    BorrowedRuntimesStayOpen
    JobsRunAtMostOnce
PROPERTIES
    SwitchesEndAndWorkComesBack
    AcceptedJobsEnd
CHECK_DEADLOCK FALSE
