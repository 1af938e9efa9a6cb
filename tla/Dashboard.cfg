SPECIFICATION Spec
CONSTANTS
    Requests = {"r1", "r2"}
    Cases = {"c1"}
    CaseOf <- Sent
    Keys <- SomeKeys
    DayLength = 2
    Ttl = 2
    MaxTime = 4
CHECK_DEADLOCK FALSE
INVARIANTS
    TotalIsOfTheVerdict
    ShownIsRecent
PROPERTIES
    SettledFiguresStand
    ImplementsReads
