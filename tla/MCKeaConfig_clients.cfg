SPECIFICATION Spec
CONSTANTS
    q1 = q1
    s1 = s1
    m1 = m1
    v1 = v1
    NoReservation = NoReservation
    NotCached = NotCached
    NoConfig = NoConfig
    Spoiled = Spoiled
    Requests <- OneRequest
    Sessions <- OneSession
    Macs <- OneMac
    Settings <- OneSetting
    InitialConfigs <- FixedAddress
    Addressed = {TRUE, FALSE}
    MAX_ATTEMPTS = 2
    MayRestart = TRUE
INVARIANTS
    TypeOK
    UndisturbedSuccessHolds
    DriftNeedsStaleBase
 
