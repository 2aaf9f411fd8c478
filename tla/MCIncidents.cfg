CONSTANTS
    EventIds = {e1, e2, e3}
    Subjects <- MCSubjects
    Kinds <- MCKinds
    Lower <- MCLower
    Window = 1
    MinScore = 20
    Retention = 2
    MaxTime = 3
SPECIFICATION Spec
INVARIANTS
    TypeOK
    EventCountMatches
    OpenIncidentsAreSpaced
    ScoreSupportsSeverity
PROPERTIES
    ClosedIsFinal
SYMMETRY
    Alike
