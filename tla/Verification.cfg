SPECIFICATION Spec
CONSTANTS
    Vehicle = {v1}
    School = {s1}
    Driver = {d1}
    Inspector = {i1}
    AppId = {a1, a2}
    AttemptId = {k1, k2, k3}
    Conn = {c1, c2}
    NoOne = NoOne
    MaxTerm = 2
    MaxDay = 3
    MaxOlder = 2
    Capacity = 1
SYMMETRY Symmetry
CONSTRAINT RowsOrDays
INVARIANTS
    OneActiveApplication
    OpenAttemptIsAwaited
PROPERTIES
    
    ResultsAreFinal
    EndedStaysEnded
CHECK_DEADLOCK FALSE
