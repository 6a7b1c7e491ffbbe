SPECIFICATION Spec
CONSTANTS
    Student = {s1}
    Bus = {b1}
    Request = {r1, r2}
    NoBus = NoBus
    NoStudent = NoStudent
    None = None
    TeacherStatus = "OUT"
    MaxAttempts = 2
    Edited = {s1}
SYMMETRY Symmetry
PROPERTIES
    LeaveRecordWins
