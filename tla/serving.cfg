SPECIFICATION FairSpec
CONSTANTS
    chk = chk
    other = other
    r1 = r1
    r2 = r2
    None = None
    Absent = Absent
    Releases = {r1, r2}
    Images <- ImagesOf
    Clients = {chk, other}
    Envs = {1}
    PredictWorkers = 1
    MaxSeen = 1
    MaxCrashes = 1
    Checker = chk
    Expected = r1
    Rows = 1
CHECK_DEADLOCK FALSE
INVARIANTS
    TypeOK
    StatusIsLatest
    AnswerIsHonest
    CheckedIsServed
    ColdIsFirst
    ProbeRemoved
PROPERTIES
    EveryRequestAnswered
