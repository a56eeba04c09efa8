CONSTANTS
    s1 = s1
    Sessions <- MCSessions
    Telegram = TRUE
    Always = FALSE
    Settle = 1
    Escalation = 2
    Retry = 1
    Lifetime = 3
    None = None
    Forever = Forever
    MaxChanges = 3
    MaxFailures = 1
SPECIFICATION Spec
INVARIANTS
    TypeOK
    IdleMeansDone
    OneAlertPerChannel
PROPERTIES
    StaleAlertsAreTakenBack
    CallsAreAnsweredOrDropped
CHECK_DEADLOCK FALSE
