CONSTANTS
    BlockSize = 8
    MaxHosts = 5
    Occupied <- MCOccupied
    Macs = {m1, m2}
    NoMac = "?"
    InterfaceLists <- MCLists
    LocalMac = m1
    MaxFailures = 1
SPECIFICATION Spec
INVARIANTS
    TypeOK
    DeviceNewsIsLostByFailureOnly
    GatewayIsFlagged
    SmallLanIsSwept
PROPERTIES
    TrustIsTheUsers
