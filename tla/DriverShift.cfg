\* Two drivers share one bus, or one driver has two: two transactions at a time.
CONSTANTS
    Driver = {d1, d2}
    Vehicle = {v1, v2}
    ShiftId = {s1, s2}
    Conn = {c1, c2}
    NoOne = NoOne
SPECIFICATION Spec
CONSTRAINT OneBusOrOneDriver
INVARIANTS ShiftsExclusive
PROPERTIES StartIsBacked
SYMMETRY Symmetry
