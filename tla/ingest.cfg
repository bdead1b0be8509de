SPECIFICATION FairSpec
CONSTANTS
    None = None
    Damaged = Damaged
    Zones = Zones
    c1 = c1
    c2 = c2
    drifted = drifted
    lookup = lookup
    pickup = pickup
    fee = fee
    feeOld = feeOld
    extra = extra
    zone = zone
    Months = {1, 2}
    Contents = {c1, c2, drifted, lookup}
    Servable <- MCServable
    Names <- MCNames
    Size <- MCSize
    Columns = {pickup, fee}
    Optional = {fee}
    Variants <- MCVariants
    ZoneColumns = {zone}
    Requests <- MCRequests
    MaxLag = 1
    Retries = 1
    Today0 = 2
    MaxToday = 3
    MaxChanges = 2
    MaxFaults = 1
    Source0 <- MCSource0
INVARIANTS
    TypeOK
    AcceptedIsChecked
PROPERTIES
    SkipIsCurrent
    UnpublishedIsTrue
    AnsweredIsVerified
    Converges
