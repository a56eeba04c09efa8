CONSTANTS
    s1 = s1
    Sessions <- MCSessions
    Telegram = TRUE
    Always = FALSE
    Settle = 1
    Escalation = 2
    Retry = 1
    Lifetime = 3
    None = None
    Forever = Forever
    MaxChanges = 4
    MaxFailures = 0
SPECIFICATION Spec
PROPERTY CallsAreAnswered
CHECK_DEADLOCK FALSE
