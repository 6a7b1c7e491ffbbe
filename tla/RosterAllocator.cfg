SPECIFICATION RosterSystemSpec
CONSTANTS
    MaxEdits = 1
    MaxRequests = 3
    School = {s1, s2}
    Bus = {v1}
    Code = {k1}
    Guardian = {g1, g2}
    PupilId = {1, 2, 3}
    Conn = {c1, c2}
    FirstSchool = s1
    FirstCode = k1
    FirstGuardian = g1
    None = None
    RosterReq = {q1, q2}
    TransferReq = {t1}
    Batch = {b1}
CHECK_DEADLOCK FALSE
INVARIANT AllocatedIdIsUnique
