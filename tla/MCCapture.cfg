CONSTANTS
    eth = eth
    vpn = vpn
    dev = dev
    name = name
    addr = addr
    NoAnswer = NoAnswer
    Addresses = {eth, vpn, dev}
    Resolved = {vpn}
    LocalIp = eth
    Neighbours = {dev}
    Packets <- MCPackets
    Lag = 2
    Gap = 2
    MaxTime = 2
    MaxPackets = 3
    MaxFailures = 1
SPECIFICATION Spec
INVARIANTS
    TypeOK
    PacketsAreCounted
    KnownDevicesAreCounted
    DnsIsLogged
CHECK_DEADLOCK FALSE
