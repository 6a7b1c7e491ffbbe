SPECIFICATION FairSpec
CONSTANTS
    Student = {s1, s2}
    Bus = {b1}
    Request = {r1, r2}
    NoBus = NoBus
    NoStudent = NoStudent
    None = None
    TeacherStatus = "IN"
    MaxAttempts = 2
    Edited = {s1}
INVARIANTS
    ReplyIsTruthful
PROPERTIES
    AttributedToCurrentBus
    EveryRequestAnswered
