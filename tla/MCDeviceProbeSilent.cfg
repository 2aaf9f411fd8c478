CONSTANTS
    Devices = {d1}
    Hosts <- MCFirewalled
    Setting <- MCSetting
    DefaultPorts = {80}
    MaxPort = 65535
    LivenessPorts <- MCLivenessPorts
    Workers = 1
    MaxChanges = 0
    MaxFailures = 0
SPECIFICATION Spec
INVARIANT MonitoredServiceCounts
