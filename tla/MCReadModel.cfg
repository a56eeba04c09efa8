CONSTANTS
    s1 = s1
    s2 = s2
    lead = lead
    helper = helper
    None = None
    Sessions <- MCSessions
    Actors <- MCActors
    Lead = lead
    Scripts <- MCScripts
    PageSize = 2
    MaxFailures = 2
SPECIFICATION Spec
INVARIANTS
    TypeOK
    RowsAreFolded
    KeptStateIsCommitted
    LifecycleFollowsFacts
    TabsShowTheLead
CHECK_DEADLOCK FALSE
