SPECIFICATION RosterSystemSpec
CONSTANTS
    MaxEdits = 1
    MaxRequests = 4
    School = {s1, s2, s3}
    Bus = {v1}
    Code = {k1}
    Guardian = {g1, g2}
    PupilId = {1, 2, 3}
    Conn = {c1, c2}
    FirstSchool = s1
    FirstCode = k1
    FirstGuardian = g1
    None = None
    RosterReq = {q1}
    TransferReq = {t1, t2}
    Batch = {b1}
CONSTANT FarSchool = s3
CONSTRAINT FarByTransfer
SYMMETRY Symmetry
INVARIANTS RevokedStaysRevoked CountersFollowRows
PROPERTIES ImplementsDecision TransferKeepsPlaces ApprovalInScope RollbackTakesOwn
CHECK_DEADLOCK FALSE
