SPECIFICATION Spec
CONSTANTS
    Student = {s1}
    Bus = {b1}
    Request = {r1, r2, r3, r4}
    NoBus = NoBus
    NoStudent = NoStudent
    None = None
    TeacherStatus = "OUT"
    MaxAttempts = 2
    Edited = {}
SYMMETRY Symmetry
INVARIANTS
    DoneRestsOnLiveRow
