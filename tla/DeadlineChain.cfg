SPECIFICATION CallSpec
CONSTANTS
    Size <- SmallSize
    MaxValue = 4
    MaxMillis = 10
    MaxDuration = 200
    Protocols = {"connect", "grpc"}
    Budgets <- EveryUnit
    MaxFlight = 2
    Patience = 2
    MaxHops = 3
    Window = 9
INVARIANTS
    TypeOK
    NeverExtended
    NeverRejected
    DeadlineKept
    DeadlineIsTold
    CodeIsTrue
CHECK_DEADLOCK FALSE
