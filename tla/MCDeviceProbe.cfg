CONSTANTS
    Devices = {d1, d2, d3}
    Hosts <- MCHosts
    Setting <- MCSetting
    DefaultPorts = {80}
    MaxPort = 65535
    LivenessPorts <- MCLivenessPorts
    Workers = 2
    MaxChanges = 1
    MaxFailures = 1
SPECIFICATION FairSpec
INVARIANTS
    TypeOK
    ResultDescribesDevice
    FailuresAreIsolated
PROPERTIES
    BatchReturns
