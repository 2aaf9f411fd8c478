CONSTANTS
    Devices <- MCDevices
    Private <- MCPrivate
    Clients = {c1}
    Enabled = TRUE
    MaxFailures = 1
SPECIFICATION FairSpec
INVARIANTS
    TypeOK
    AtMostOneCycleAfterStop
PROPERTIES
    RequestsKept
    StopEndsThread
    ManualProbeServed
    QuietFleetIsProbed
