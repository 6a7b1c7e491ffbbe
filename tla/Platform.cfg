SPECIFICATION PlatformSpec
CONSTANTS
    RegSchool = {s1}
    Entry = {e1, e2}
    Reviewer = {r1, r2, r3}
    SchoolOf <- SchoolOfEntry
    Driving = {u1}
    Detail = {f1}
    ReportId = {i1, i2, i3}
    Tap = {p1, p2, p3}
    Window = 1
    MaxClock = 3
    TermId = {m1, m2, m3}
    Admin = {a1, a2, a3}
    FirstTerm = m1
    DeviationType = {OFF_ROUTE, LATE}
    Ping = {g1, g2}
    QuietTime = 1
    MaxTime = 3
    MessageId = {1, 2}
    Exceptional = {1, 2}
    Run = {n1, n2}
    Limit = 1
    MaxRollbacks = 1
    Tab = {b1, b2}
    Call = {x1, x2}
    MaxToken = 2
    MaxTroubles = 2
    Case = {k1}
    Filer = u1
    Office = u2
    Post = {q1, q2}
    MaxEvents = 6
    FleetBus = {v1, v2}
    Plate = {y1, y2}
    VehicleReq = {w1}
    Clerk = {c1, c2}
    LineAccount = {l1, l2}
    LinkId = {j1, j2}
    Code = {o1}
    CodeAttempts = 2
    CodeRequired = FALSE
    MaxChanges = 4
    DocId = {d1, d2}
    Uploader = {u1, u2}
    Handler = {h1, h2}
    LineUser = {z1, z2}
    Phone = {o2, o3}
    Link = {t1, t2}
CHECK_DEADLOCK FALSE
INVARIANTS NoUnreviewedRider PushedAgainOnlyIfLost RepeatsCollapse OneCurrentTerm RowIsReplayOfLog ResetOnlyAfterAccident ExchangedOnce RestoredOnRequest UsableLinkIsCurrent ApprovedEvidenceKept
PROPERTIES NoRepeatedDeviation OnlyTheHolderLetsGo EveryMessageSettles EveryCallSettles
