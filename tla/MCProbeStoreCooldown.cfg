CONSTANTS
    Devices = {d1}
    Ports = {p1, p2}
    StateCooldown = 1
    ServiceCooldown = 2
    MaxNamed = 8
    Retention = 9
    MaxTime = 5
    MayAbort = FALSE
SPECIFICATION Spec
INVARIANT NewServicesAreListed
