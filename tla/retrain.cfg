SPECIFICATION FairSpec
CONSTANTS
    Null = Null
    good = good
    revised = revised
    unzoned = unzoned
    Content <- MCContent
    None = None
    MonthEnd = 10
    DstWindows <- MCDst
    ZoneMin = 1
    ZoneMax = 2
    MinDuration = 1
    MaxDuration = 5
    MinRaw = 2
    MinValid = 2
    Precision = 100
    MaxReject = 50
    LastZone = 3
    MaxNull <- MCMaxNull
    Implausible = {}
    StartMonth = 1
    Window = 2
    NewMonths = {4, 5}
    Main0 <- MCMain0
    Requests <- MCRequests
    MaxShas = 4
    Budget = 3
INVARIANTS
    TypeOK
    NoGap
    DataIsFit
    TestedOnItsMonth
    LaterMonthsWait
PROPERTIES
    NothingVanishes
    NewMonthsArrive
CHECK_DEADLOCK FALSE
