CONSTANTS
    BlockSize = 8
    MaxHosts = 1
    Occupied <- MCOccupied
    Macs = {m1, m2}
    NoMac = "?"
    InterfaceLists <- SmallLists
    LocalMac = m1
    MaxFailures = 1
SPECIFICATION Spec
INVARIANT SweepStaysOnLan
