CONSTANTS
    Devices = {d1}
    Ports = {p1, p2}
    StateCooldown = 1
    ServiceCooldown = 2
    MaxNamed = 8
    Retention = 3
    MaxTime = 6
    MayAbort = TRUE
SPECIFICATION Spec
INVARIANTS
    TypeOK
    SampleMatchesServices
    ChangesAreCovered
PROPERTIES
    AlertsAreSpaced
    ServicesCloseOnEvidence
SYMMETRY
    Alike
