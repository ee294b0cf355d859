SPECIFICATION FairSpec
CONSTANTS
    q1 = q1
    d1 = d1
    d2 = d2
    mac1 = mac1
    mac2 = mac2
    ip1 = ip1
    ip2 = ip2
    NoIdentity = NoIdentity
    NoDeletion = NoDeletion
    MaxDeleteReleases = 3
    Requests <- OneRequest
    Devices <- TwoDevices
    Order <- ByName
    Group <- TwoDevices
    Spoken <- OtherSpellings
    Plain <- Normalized
    Tag = "family"
    Blank = ""
    Identities <- TwoLeases
    Piholes <- OnePihole
    Scenarios <- Troubles
INVARIANTS
    TypeOK
    ResponseIsTrue
    SummaryIsTrue
    FlagTellsTheTruth
    AnsweredMeansEveryStep
PROPERTIES
    TargetsAreMeant
    RequestsEnd
