SPECIFICATION Spec
CONSTANTS
    K = K
    A = A
    B = B
    lax = lax
    strict = strict
    t1 = t1
    t2 = t2
    t3 = t3
    None = None
    Models = {K, A, B}
    First = K
    TestMonth <- TestMonthOf
    Month = 2
    Trips = {t1, t2, t3}
    DayOf <- DayOfTrip
    Slices <- SliceSets
    Error <- Errors
    FallbackError <- Fallback
    Policies = {strict}
    MinImprovement <- MinImp
    MaxRegression <- MaxReg
    SliceMinN <- MinN
    MaxRuns = 3
CHECK_DEADLOCK FALSE
CONSTRAINT TreeOnly
PROPERTIES JudgedOnChampion
