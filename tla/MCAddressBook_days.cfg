SPECIFICATION FairSpec
CONSTANTS
    t1 = t1
    t2 = t2
    NoMac = NoMac
    NoLease = NoLease
    NoName = NoName
    Echo = Echo
    Typed = Typed
    Macs <- TwoMacs
    Tabs <- TwoTabs
    Pools <- TwoPools
    Pinned = {3}
    LastOctet = 4
    Gateway = 1
    Broken = {2}
    Scenarios <- Days
INVARIANTS
    TypesOK
    LabelsFollowReservations
    RealNamesAreReal
    OneDevicePerAddress
    OfferedMeansFree
PROPERTY
    PrecedingDevicesKeepTheirTurn
