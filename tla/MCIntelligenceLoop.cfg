CONSTANTS
    x = x
    a = a
    wire = wire
    EventIds = {e1}
    Subjects <- MCSubjects
    Kinds <- MCKinds
    Lower <- MCLower
    Window = 3
    MinScore = 35
    Retention = 1
    MaxTime = 8
    Records <- MCRecords
    Sniffed <- MCSniffed
    Idn = {x}
    Caches <- MCCaches
    BurstThreshold = 1
    IdnCap = 1
    WarmUp = 1
    Hour = 3
    Period = 1
    MaxFailures = 1
SPECIFICATION Spec
INVARIANTS
    TypeOK
    SeriousEventsBecomeIncidents
    HistoryIsPruned
    IdnIsAnnounced
PROPERTIES
    ImplementsIncidents
CHECK_DEADLOCK FALSE
