------------------------------ MODULE Checkin ------------------------------
(***************************************************************************)
(* Boarding and drop-off records of one school day and one session         *)
(* (backend/src/services/checkin.service.js).                              *)
(*                                                                         *)
(* Every element of Request is one HTTP request.  A request first reads    *)
(* from the connection pool, outside any transaction, then opens one       *)
(* transaction (READ COMMITTED for check-ins, the server default           *)
(* REPEATABLE READ for voids), and each SQL statement that can wait for a  *)
(* row lock or observe another request is a step of its own.  Writes of an *)
(* open transaction are kept in tx and reach ledger and done at COMMIT.    *)
(*                                                                         *)
(* The row locks of InnoDB that matter are                                 *)
(*   xlock[s]  the students row locked FOR UPDATE by a check-in            *)
(*   slock[s]  the same row share-locked by the foreign key of a void's    *)
(*             INSERT into checkin_logs                                    *)
(* and the checkin_logs row a void locks FOR UPDATE (RowFree).             *)
(***************************************************************************)
EXTENDS Naturals, FiniteSets

CONSTANTS
    Student,        \* pupils of the school
    Bus,            \* vehicles
    Request,        \* HTTP requests of the day; a finite set in every run
    NoBus,          \* students.vehicle_id IS NULL, or a pupil who is deleted
    NoStudent,      \* a request that has no pupil in hand
    None,           \* nobody holds the lock
    TeacherStatus,  \* TEACHER_STATUS[session]: "OUT" morning, "IN" evening
    MaxAttempts,    \* attempts of withDeadlockRetry (4 in the code)
    Edited          \* pupils whose record the school edits during the session

ASSUME NoBusAssumption == NoBus \notin Bus
ASSUME NoStudentAssumption == NoStudent \notin Student
ASSUME NoneAssumption == None \notin Request
ASSUME TeacherAssumption == TeacherStatus \in {"IN", "OUT"}
ASSUME AttemptsAssumption == MaxAttempts \in Nat \ {0}
ASSUME EditedAssumption == Edited \subseteq Student

VARIABLES
    bus,      \* students.vehicle_id of each pupil
    leave,    \* the pupil's student_leaves row of today (session 'both')
    ledger,   \* committed checkin_logs rows
    nextId,   \* AUTO_INCREMENT of checkin_logs, never rolled back
    done,     \* daily_status.<session>_done; "absent" when there is no row
    pc,       \* next statement of each request
    job,      \* what each request was asked to do and has read so far
    tx,       \* uncommitted writes of each request
    xlock,    \* owner of the exclusive lock on each students row
    slock     \* owners of shared locks on each students row

db == <<bus, leave, ledger, nextId, done>>
vars == <<bus, leave, ledger, nextId, done, pc, job, tx, xlock, slock>>

-----------------------------------------------------------------------------
(* Types *)

Place == Bus \cup {NoBus}
Statuses == {"IN", "OUT", "CANCELLED"}
BatchOps == {"checkinAll", "checkoutAll", "overrideAll"}
RetriedOps == {"tap", "checkinAll", "checkoutAll"}
Ops == BatchOps \cup {"none", "tap", "override", "teacher", "void", "undo"}
Pcs == {"new", "wait", "guard", "write", "commit", "vlock", "vinsert",
        "vmark", "replied", "refused"}

\* A checkin_logs row.  voids is the audited original_log_id of a CANCELLED
\* row (0 otherwise); req is the request that inserted the row.
Row == [id : Nat, student : Student, bus : Bus, status : Statuses,
        voids : Nat, req : Request]

Job == [op : Ops, status : Statuses, busOf : [Student -> Place],
        plan : SUBSET Student, todo : SUBSET Student,
        cur : Student \cup {NoStudent}, target : Nat,
        attempt : Nat, ok : SUBSET Student, failed : SUBSET Student]

Tx == [rows : SUBSET Row, marks : [Student -> {"keep", "true", "false"}]]

\* The type invariant.
TypeOK ==
    /\ bus \in [Student -> Place]
    /\ leave \in [Student -> {"none", "active", "cancelled"}]
    /\ ledger \subseteq Row
    /\ nextId \in Nat
    /\ done \in [Student -> {"absent", "true", "false"}]
    /\ pc \in [Request -> Pcs]
    /\ job \in [Request -> Job]
    /\ tx \in [Request -> Tx]
    /\ xlock \in [Student -> Request \cup {None}]
    /\ slock \in [Student -> SUBSET Request]

-----------------------------------------------------------------------------
(* Reading the ledger *)

\* c is the newest committed row of its pupil (ORDER BY id DESC LIMIT 1).
IsLatest(c) ==
    /\ c \in ledger
    /\ \A d \in ledger : d.student = c.student => d.id <= c.id

\* The pupil's newest status is one of S; FALSE when there is no row.
LatestIn(s, S) == \E c \in ledger : c.student = s /\ IsLatest(c) /\ c.status \in S

\* Variant for mutation runs: the guard forgets the CHECKED_OUT -> CHECKED_IN rule.
AcceptedNoOrder(prev, next) == prev # next

\* The guard of _buildCheckinTransaction: may `next` follow newest status `prev`?
Accepted(prev, next) ==
    /\ prev # next
    /\ ~(prev = "OUT" /\ next = "IN")

\* A driver's busload still to board: not done, not on leave.
NotYetDone(s) == done[s] # "true"
OnLeave(s) == leave[s] = "active"

\* Eligible for check-out-all: boarded this bus, never dropped, flag not reset.
EverIn(s, b) == \E c \in ledger : c.student = s /\ c.bus = b /\ c.status = "IN"
EverOut(s) == \E c \in ledger : c.student = s /\ c.status = "OUT"

-----------------------------------------------------------------------------
(* Requests *)

NoJob == [op |-> "none", status |-> "IN", busOf |-> [s \in Student |-> NoBus],
          plan |-> {}, todo |-> {}, cur |-> NoStudent, target |-> 0,
          attempt |-> 1, ok |-> {}, failed |-> {}]

EmptyTx == [rows |-> {}, marks |-> [s \in Student |-> "keep"]]

Init ==
    /\ bus \in [Student -> Place]
    /\ leave = [s \in Student |-> "none"]
    /\ ledger = {}
    /\ nextId = 1
    /\ done = [s \in Student |-> "absent"]
    /\ pc = [r \in Request |-> "new"]
    /\ job = [r \in Request |-> NoJob]
    /\ tx = [r \in Request |-> EmptyTx]
    /\ xlock = [s \in Student |-> None]
    /\ slock = [s \in Student |-> {}]

\* What is kept of a request once it has been answered.
Answered(j) == [NoJob EXCEPT !.op = j.op, !.plan = j.plan, !.ok = j.ok, !.failed = j.failed]

\* r goes on with the next pupil of its list; the SELECT has no ORDER BY, so
\* with any of them.  When none is left it goes to pc `otherwise`.
Proceed(r, j, otherwise) ==
    IF j.todo = {}
    THEN /\ pc' = [pc EXCEPT ![r] = otherwise]
         /\ job' = [job EXCEPT ![r] = IF otherwise = "replied" THEN Answered(j) ELSE j]
    ELSE /\ pc' = [pc EXCEPT ![r] = "wait"]
         /\ \E s \in j.todo : job' = [job EXCEPT ![r] = [j EXCEPT !.cur = s, !.todo = @ \ {s}]]

\* A request of kind op starts its transaction(s) over the pupils of plan,
\* expecting each of them on the vehicle busOf gives.
Start(r, op, status, plan, busOf) ==
    /\ pc[r] = "new"
    /\ Proceed(r, [NoJob EXCEPT !.op = op, !.status = status, !.plan = plan, !.todo = plan,
                      !.busOf = [s \in Student |-> IF s \in plan THEN busOf[s] ELSE NoBus]],
               "commit")
    /\ UNCHANGED <<db, tx, xlock, slock>>

\* processCheckin / processCheckout: one tap of the driver of bus b.
Tap(r, s, b, status) == Start(r, "tap", status, {s}, [t \in Student |-> b])

\* processCheckinAll: the eligible list is read from the pool, before BEGIN.
CheckinAll(r, b) ==
    Start(r, "checkinAll", "IN",
          {s \in Student : bus[s] = b /\ NotYetDone(s) /\ ~OnLeave(s)},
          [t \in Student |-> b])

\* processCheckoutAll: read from checkin_logs and the daily_status flag.
CheckoutAll(r, b) ==
    Start(r, "checkoutAll", "OUT",
          {s \in Student : EverIn(s, b) /\ ~EverOut(s) /\ done[s] # "false"},
          [t \in Student |-> b])

\* processSchoolOverride: vehicle, leave and flag are read before BEGIN.
Override(r, s, status) ==
    /\ bus[s] # NoBus /\ ~OnLeave(s) /\ NotYetDone(s)
    /\ Start(r, "override", status, {s}, bus)

\* processSchoolOverrideAll: everyone eligible except the pupils marked absent.
OverrideAll(r, absent, status) ==
    Start(r, "overrideAll", status,
          {s \in Student \ absent : bus[s] # NoBus /\ NotYetDone(s) /\ ~OnLeave(s)},
          bus)

\* processTeacherCheck: each pupil of the selection gets its own transaction.
TeacherCheck(r, selection) ==
    Start(r, "teacher", TeacherStatus,
          {s \in selection : bus[s] # NoBus /\ ~OnLeave(s)}, bus)

-----------------------------------------------------------------------------
(* The check-in transaction *)

\* Variant for mutation runs: the catch block releases the connection without a
\* ROLLBACK.
ReleaseLocksLeaky(r) ==
    IF pc[r] = "commit"
    THEN /\ xlock' = [s \in Student |-> IF xlock[s] = r THEN None ELSE xlock[s]]
         /\ slock' = [s \in Student |-> slock[s] \ {r}]
    ELSE UNCHANGED <<xlock, slock>>

\* Locks of r are released at COMMIT and at ROLLBACK.
ReleaseLocks(r) ==
    /\ xlock' = [s \in Student |-> IF xlock[s] = r THEN None ELSE xlock[s]]
    /\ slock' = [s \in Student |-> slock[s] \ {r}]

\* The request ends with an error: its transaction is rolled back.
Refuse(r) ==
    /\ pc' = [pc EXCEPT ![r] = "refused"]
    /\ tx' = [tx EXCEPT ![r] = EmptyTx]
    /\ job' = [job EXCEPT ![r] = [NoJob EXCEPT !.op = job[r].op]]
    /\ ReleaseLocks(r)
    /\ UNCHANGED db

\* A batch keeps its transaction (ROLLBACK TO SAVEPOINT keeps the row locks).
SkipInBatch(r) ==
    /\ job[r].op \in BatchOps
    /\ Proceed(r, [job[r] EXCEPT !.failed = @ \cup {job[r].cur}], "commit")
    /\ UNCHANGED <<db, tx, xlock, slock>>

\* The error of one pupil: 404 (not in this vehicle) ends a teacher's request,
\* 409 (already recorded) makes the teacher's loop go on with the next pupil.
RejectMissing(r) ==
    \/ SkipInBatch(r)
    \/ job[r].op \notin BatchOps /\ Refuse(r)

RejectRecorded(r) ==
    \/ SkipInBatch(r)
    \/ job[r].op \in {"tap", "override"} /\ Refuse(r)
    \/ /\ job[r].op = "teacher"
       /\ Proceed(r, [job[r] EXCEPT !.failed = @ \cup {job[r].cur}], "replied")
       /\ ReleaseLocks(r)
       /\ UNCHANGED <<db, tx>>

\* Variant for mutation runs: the SELECT loses its FOR UPDATE.
RowAvailableNoForUpdate(s) == TRUE

\* The exclusive lock on the students row can be granted.
RowAvailable(s) == xlock[s] = None /\ slock[s] = {}

\* Variant for mutation runs: the SELECT matches the id only.
OnExpectedBusIgnored(r, s) == TRUE

\* WHERE id = ? AND vehicle_id = ? AND is_deleted = FALSE
OnExpectedBus(r, s) == bus[s] # NoBus /\ bus[s] = job[r].busOf[s]

\* SELECT ... FROM students WHERE id, vehicle_id FOR UPDATE: waits for the row,
\* then sees its current vehicle; a row that does not match is not kept locked.
LockPupil(r) ==
    /\ pc[r] = "wait"
    /\ RowAvailable(job[r].cur)
    /\ IF OnExpectedBus(r, job[r].cur)
       THEN /\ xlock' = [xlock EXCEPT ![job[r].cur] = r]
            /\ pc' = [pc EXCEPT ![r] = "guard"]
            /\ UNCHANGED <<db, job, tx, slock>>
       ELSE RejectMissing(r)

\* The plain read of the newest row: READ COMMITTED, so committed rows only.
GuardRead(r) ==
    /\ pc[r] = "guard"
    /\ IF \E c \in ledger : /\ c.student = job[r].cur
                            /\ IsLatest(c)
                            /\ ~Accepted(c.status, job[r].status)
       THEN RejectRecorded(r)
       ELSE /\ pc' = [pc EXCEPT ![r] = "write"]
            /\ UNCHANGED <<db, job, tx, xlock, slock>>

\* INSERT checkin_logs, upsert daily_status, notifications and audit rows.
WriteCheck(r) ==
    LET s == job[r].cur
        row == [id |-> nextId, student |-> s, bus |-> job[r].busOf[s],
                status |-> job[r].status, voids |-> 0, req |-> r]
    IN /\ pc[r] = "write"
       /\ nextId' = nextId + 1
       /\ tx' = [tx EXCEPT ![r].rows = @ \cup {row}, ![r].marks[s] = "true"]
       /\ LET j == [job[r] EXCEPT !.ok = @ \cup {s}] IN
          IF j.op = "teacher"
          THEN /\ pc' = [pc EXCEPT ![r] = "commit"]
               /\ job' = [job EXCEPT ![r] = j]
          ELSE Proceed(r, j, "commit")
       /\ UNCHANGED <<bus, leave, ledger, done, xlock, slock>>

\* daily_status as it is after the transaction of r.
Marked(r) ==
    [s \in Student |-> IF tx[r].marks[s] = "keep" THEN done[s] ELSE tx[r].marks[s]]

\* COMMIT; a teacher's request goes on with its next pupil.
Commit(r) ==
    /\ pc[r] = "commit"
    /\ ledger' = ledger \cup tx[r].rows
    /\ done' = Marked(r)
    /\ tx' = [tx EXCEPT ![r] = EmptyTx]
    /\ ReleaseLocks(r)
    /\ Proceed(r, job[r], "replied")
    /\ UNCHANGED <<bus, leave, nextId>>

-----------------------------------------------------------------------------
(* Deadlocks *)

\* r waits for a row lock that q holds.
WaitsFor(r, q) ==
    /\ r # q
    /\ \/ pc[r] = "wait" /\ (xlock[job[r].cur] = q \/ q \in slock[job[r].cur])
       \/ pc[r] = "vinsert" /\ xlock[job[r].cur] = q

\* r is on a cycle of waiting requests.
Deadlocked(r) ==
    \E D \in SUBSET Request :
       /\ r \in D
       /\ \A d \in D : /\ \E e \in D : WaitsFor(d, e)
                       /\ \E e \in D : WaitsFor(e, d)

\* Variant for mutation runs: the result lists are declared outside the retried
\* callback, so what an aborted attempt recorded stays in the answer.
FreshAttemptKeepsLists(j) == [j EXCEPT !.attempt = @ + 1, !.todo = j.plan]

\* withDeadlockRetry runs the callback again: same eligible list, new lists.
FreshAttempt(j) ==
    [j EXCEPT !.attempt = @ + 1, !.todo = j.plan, !.ok = {}, !.failed = {}]

\* ER_LOCK_DEADLOCK rolls the whole transaction back; only the driver's paths
\* are wrapped in withDeadlockRetry.
DeadlockVictim(r) ==
    /\ pc[r] = "wait"
    /\ Deadlocked(r)
    /\ IF job[r].op \in RetriedOps /\ job[r].attempt < MaxAttempts
       THEN /\ Proceed(r, FreshAttempt(job[r]), "commit")
            /\ tx' = [tx EXCEPT ![r] = EmptyTx]
            /\ ReleaseLocks(r)
            /\ UNCHANGED db
       ELSE Refuse(r)

-----------------------------------------------------------------------------
(* Voids *)

StartVoid(r, op, c, scope) ==
    /\ pc[r] = "new"
    /\ job' = [job EXCEPT ![r] = [NoJob EXCEPT !.op = op, !.status = "CANCELLED",
                                   !.cur = c.student, !.target = c.id,
                                   !.busOf[c.student] = scope]]
    /\ pc' = [pc EXCEPT ![r] = "vlock"]
    /\ UNCHANGED <<db, tx, xlock, slock>>

\* voidCheckin, asked by a driver (scope = the driver's bus) or by the school
\* or an admin (scope = NoBus: every pupil of the model is of that school).
VoidRequest(r, c, scope) == StartVoid(r, "void", c, scope)

\* undoTeacherCheck: only the account's own, newest row with the teachers' status,
\* checked before BEGIN.  A school's account may have recorded it by an override;
\* a driver's account cannot ask.
UndoRequest(r, c) ==
    /\ IsLatest(c)
    /\ job[c.req].op \in {"teacher", "override", "overrideAll"}
    /\ c.status = TeacherStatus
    /\ StartVoid(r, "undo", c, NoBus)

\* Variant for mutation runs: the void no longer locks its row FOR UPDATE.
RowFreeUnlocked(id, r) == TRUE

\* The checkin_logs row `id` is not locked by another void.
RowFree(id, r) ==
    \A q \in Request \ {r} :
       ~(pc[q] \in {"vinsert", "vmark", "commit"} /\ job[q].target = id)

\* A CANCELLED row of the pupil is newer than c (SELECT ... AND id > ?).
VoidedSince(c) ==
    \E d \in ledger : d.student = c.student /\ d.status = "CANCELLED" /\ d.id > c.id

\* Lock the target row, check status and scope, look for a newer CANCELLED row.
VoidLock(r) ==
    /\ pc[r] = "vlock"
    /\ RowFree(job[r].target, r)
    /\ \E c \in ledger :
          /\ c.id = job[r].target
          /\ IF \/ c.status = "CANCELLED"
                \/ job[r].busOf[c.student] \notin {NoBus, c.bus}
                \/ VoidedSince(c)
             THEN Refuse(r)
             ELSE /\ pc' = [pc EXCEPT ![r] = "vinsert"]
                  /\ UNCHANGED <<db, job, tx, xlock, slock>>

\* Variant for mutation runs: the INSERT does not wait for the pupil's row.
ForeignKeyReadableAlways(s) == TRUE

\* The foreign key's shared lock on the students row can be granted.
ForeignKeyReadable(s) == xlock[s] = None

\* INSERT of the compensating CANCELLED row.
VoidInsert(r) ==
    /\ pc[r] = "vinsert"
    /\ ForeignKeyReadable(job[r].cur)
    /\ slock' = [slock EXCEPT ![job[r].cur] = @ \cup {r}]
    /\ \E c \in ledger :
          /\ c.id = job[r].target
          /\ tx' = [tx EXCEPT ![r].rows =
                       {[id |-> nextId, student |-> c.student, bus |-> c.bus,
                         status |-> "CANCELLED", voids |-> c.id, req |-> r]}]
    /\ nextId' = nextId + 1
    /\ pc' = [pc EXCEPT ![r] = "vmark"]
    /\ UNCHANGED <<bus, leave, ledger, done, job, xlock>>

\* The row just before the voided one still counts (restorePriorDone).
PriorStands(s, id) ==
    \E c \in ledger : /\ c.student = s /\ c.id < id /\ c.status # "CANCELLED"
                      /\ \A d \in ledger : d.student = s /\ d.id < id => d.id <= c.id

\* UPDATE daily_status: waits for another void that has written the same row.
VoidMark(r) ==
    LET s == job[r].cur IN
    /\ pc[r] = "vmark"
    /\ \A q \in Request \ {r} : tx[q].marks[s] = "keep"
    /\ tx' = [tx EXCEPT ![r].marks[s] =
                 IF job[r].op = "undo" /\ PriorStands(s, job[r].target)
                 THEN "true" ELSE "false"]
    /\ pc' = [pc EXCEPT ![r] = "commit"]
    /\ UNCHANGED <<db, job, xlock, slock>>

-----------------------------------------------------------------------------
(* The school's other writes that the check-in path reads *)

\* School routes move a pupil to another bus, take the pupil off, or delete it:
\* an UPDATE of the students row, which waits for the row.
MovePupil(s, b) ==
    /\ RowAvailable(s)
    /\ bus[s] # b
    /\ bus' = [bus EXCEPT ![s] = b]
    /\ UNCHANGED <<leave, ledger, nextId, done, pc, job, tx, xlock, slock>>

\* createLeave: the foreign key waits for a check-in of the pupil; a second
\* leave of the day, even after a cancelled one, is a duplicate key.
CreateLeave(s) ==
    /\ bus[s] # NoBus
    /\ leave[s] = "none"
    /\ xlock[s] = None
    /\ leave' = [leave EXCEPT ![s] = "active"]
    /\ UNCHANGED <<bus, ledger, nextId, done, pc, job, tx, xlock, slock>>

CancelLeave(s) ==
    /\ leave[s] = "active"
    /\ leave' = [leave EXCEPT ![s] = "cancelled"]
    /\ UNCHANGED <<bus, ledger, nextId, done, pc, job, tx, xlock, slock>>

-----------------------------------------------------------------------------
(* Specification *)

Arrive(r) ==
    \/ \E s \in Student, b \in Bus, status \in {"IN", "OUT"} : Tap(r, s, b, status)
    \/ \E b \in Bus : CheckinAll(r, b)
    \/ \E b \in Bus : CheckoutAll(r, b)
    \/ \E s \in Student, status \in {"IN", "OUT"} : Override(r, s, status)
    \/ \E absent \in SUBSET Student, status \in {"IN", "OUT"} : OverrideAll(r, absent, status)
    \/ \E selection \in SUBSET Student : TeacherCheck(r, selection)
    \/ \E c \in ledger, scope \in Place : VoidRequest(r, c, scope)
    \/ \E c \in ledger : UndoRequest(r, c)

Statement(r) ==
    \/ LockPupil(r)
    \/ GuardRead(r)
    \/ WriteCheck(r)
    \/ Commit(r)
    \/ DeadlockVictim(r)
    \/ VoidLock(r)
    \/ VoidInsert(r)
    \/ VoidMark(r)

SchoolEdit(s) ==
    /\ s \in Edited
    /\ \/ \E b \in Place : MovePupil(s, b)
       \/ CreateLeave(s)
       \/ CancelLeave(s)

\* Every request has been answered and nobody edits: the day is over.
DayOver ==
    /\ \A r \in Request : pc[r] \in {"replied", "refused"}
    /\ UNCHANGED vars

Next ==
    \/ \E r \in Request : Arrive(r) \/ Statement(r)
    \/ \E s \in Student : SchoolEdit(s)
    \/ DayOver

Spec == Init /\ [][Next]_vars

\* The event loop keeps executing the statements of every open request, and
\* InnoDB's deadlock detector does not sleep.
FairSpec == Spec /\ \A r \in Request : WF_vars(Statement(r))

-----------------------------------------------------------------------------
(* Properties *)

\* Guard (1b) and the FOR UPDATE of _buildCheckinTransaction, over every
\* interleaving of taps, batches, overrides and voids: of two neighbouring
\* committed rows of a pupil the second is one the guard accepts, so nobody is
\* boarded twice, dropped twice or boarded after a drop-off without a void.
LedgerAlternates ==
    \A c, d \in ledger :
       /\ c.student = d.student
       /\ c.id < d.id
       /\ \A e \in ledger : e.student = c.student => e.id <= c.id \/ d.id <= e.id
       => Accepted(c.status, d.status) \/ d.status = "CANCELLED"

\* Step 3 of _buildCheckinTransaction and step 6 of voidCheckin: the
\* daily_status flag follows the newest ledger row although voids of one pupil
\* may commit in either order; a flag that outlives a void comes from an undo.
DoneFollowsLedger ==
    \A s \in Student :
       /\ done[s] = "absent" <=> \A c \in ledger : c.student # s
       /\ LatestIn(s, {"IN", "OUT"}) => done[s] = "true"
       /\ done[s] = "true" /\ LatestIn(s, {"CANCELLED"}) =>
             \E c \in ledger : /\ c.student = s /\ c.status = "CANCELLED"
                               /\ job[c.req].op = "undo"

\* voidCheckin: the FOR UPDATE on the target row makes two voids of the same
\* row take turns, so a row is compensated at most once.
OneVoidPerRow ==
    \A c, d \in ledger : c.voids # 0 /\ c.voids = d.voids => c = d

\* processCheckinAll / CheckoutAll / OverrideAll and the retry: the answer lists
\* as succeeded exactly the pupils whose rows this request committed, whatever
\* attempts were aborted; a request that failed left nothing (a teacher's
\* request, one transaction per pupil, may have), and a batch forgets nobody.
ReplyIsTruthful ==
    \A r \in Request :
       LET recorded == {c.student : c \in {d \in ledger : d.req = r}} IN
       /\ pc[r] = "replied" /\ job[r].op \notin {"void", "undo"} =>
             /\ recorded = job[r].ok
             /\ job[r].plan = job[r].ok \cup job[r].failed
       /\ pc[r] = "refused" /\ job[r].op # "teacher" => recorded = {}

\* The locked SELECT of _buildCheckinTransaction: a check becomes visible only
\* while the pupil is assigned to the vehicle it is recorded for, although the
\* vehicle was read before BEGIN and the school moves pupils meanwhile.
AttributedToCurrentBus ==
    [][\A c \in ledger' \ ledger :
          c.status # "CANCELLED" => c.bus = bus[c.student] /\ bus' = bus]_vars

\* Every request that was accepted is answered: lock waits end because deadlock
\* cycles are broken and retries are bounded (withDeadlockRetry).
EveryRequestAnswered ==
    \A r \in Request : pc[r] # "new" ~> pc[r] \in {"replied", "refused"}

\* The newest committed status of a pupil.
Standing(s) ==
    IF \A c \in ledger : c.student # s
    THEN "none"
    ELSE (CHOOSE c \in ledger : c.student = s /\ IsLatest(c)).status

R == INSTANCE Ride WITH standing <- [s \in Student |-> Standing(s)]

\* Every interleaving of requests moves the pupils' newest statuses only along
\* the moves of Ride: the transition rules of guard (1b) survive concurrency.
ImplementsRide == R!Spec

\* Comment of processCheckoutAll (CS5-01): "a board that was voided must never
\* be droppable".  No bulk drop-off directly follows a void.
VoidedBoardNotDropped ==
    \A c, d \in ledger :
       /\ c.student = d.student /\ c.id < d.id
       /\ \A e \in ledger : e.student = c.student => e.id <= c.id \/ d.id <= e.id
       /\ job[d.req].op = "checkoutAll"
       => c.status # "CANCELLED"

\* Comment of processSchoolOverrideAll: "A pupil on recorded leave is therefore
\* never confirmed present [...] the leave record wins".
LeaveRecordWins ==
    [][\A c \in ledger' \ ledger :
          job[c.req].op = "overrideAll" => leave[c.student] # "active"]_vars

\* Rows that no CANCELLED row compensates.
Live == {c \in ledger : c.status # "CANCELLED" /\ \A d \in ledger : d.voids # c.id}

\* Comment of undoTeacherCheck: "the session stays done on the strength of" an
\* earlier row.  Once nothing is in flight, a pupil is done only if some check
\* of the pupil has not been voided.
DoneRestsOnLiveRow ==
    (\A r \in Request : pc[r] \in {"new", "replied", "refused"}) =>
       \A s \in Student : done[s] = "true" => \E c \in Live : c.student = s

=============================================================================
