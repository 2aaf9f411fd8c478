CONSTANTS
    app = app
    unknown = unknown
    web = web
    dns = dns
    lan = lan
    port = port
    Processes = {app, unknown}
    Unknown = unknown
    Public = {web, dns}
    Private = {lan}
    AddressOf <- MCAddressOf
    Listeners = {port}
    Scans <- MCScans
    SpikeThreshold = 2
    FanoutThreshold = 2
    ChurnThreshold = 2
    MaxFailures = 1
    MaxRestarts = 1
SPECIFICATION FairSpec
INVARIANTS
    TypeOK
    NewsIsLostByFailureOnly
    AnnouncedOnce
    SpikeIsOfShownCounts
    ShownIsStored
PROPERTIES
    MonitoringRecovers
CHECK_DEADLOCK FALSE
