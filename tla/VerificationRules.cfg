SPECIFICATION Spec
CONSTANTS
    Vehicle = {v1}
    School = {s1}
    Driver = {d1}
    Inspector = {i1}
    AppId = {a1}
    AttemptId = {k1, k2}
    Conn = {c1, c2}
    NoOne = NoOne
    MaxTerm = 1
    MaxDay = 2
    MaxOlder = 1
    Capacity = 1
SYMMETRY Symmetry
INVARIANTS
    EligibilityRules
CHECK_DEADLOCK FALSE
