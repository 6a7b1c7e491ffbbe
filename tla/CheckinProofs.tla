--------------------------- MODULE CheckinProofs ---------------------------
(***************************************************************************)
(* Proofs about Checkin for every set of pupils, buses and requests.       *)
(*                                                                         *)
(* The inductive invariant IInv says why the per-pupil mutex works:        *)
(*   LocksOK    exclusive and shared locks exclude each other;             *)
(*   RowsOK     row ids are unique, below the counter, over committed and  *)
(*              uncommitted rows;                                          *)
(*   PendingOK  whoever has an uncommitted row of a pupil holds that       *)
(*              pupil's lock, and an uncommitted check is newer than, and  *)
(*              accepted after, everything committed for the pupil;        *)
(*   JobOK      what a request knows at each statement.                    *)
(*                                                                         *)
(* The later theorems add to it, each under its own heading: VoidsOK (who  *)
(* holds the row a void compensates), BusOK (the expected vehicle is the   *)
(* pupil's while the row is locked), ReplyOK (the lists of a request       *)
(* against its committed and uncommitted rows) and MarksOK (what a         *)
(* transaction will make of the daily_status flags).                       *)
(***************************************************************************)
EXTENDS Checkin, TLAPS

Checks == {"IN", "OUT"}

\* Exclusive and shared locks on one students row exclude each other.
LocksOK ==
    \A s \in Student : xlock[s] # None => slock[s] = {}

\* Committed rows have positive ids below the counter, one row per id.
RowsOK ==
    /\ 0 < nextId
    /\ \A c \in ledger : 0 < c.id /\ c.id < nextId
    /\ \A c, d \in ledger : c.id = d.id => c = d

\* What holds of each uncommitted row w of request r.
PendingRowOK(r, w) ==
    /\ 0 < w.id /\ w.id < nextId
    /\ \A c \in ledger : c.id # w.id
    /\ \A q \in Request : \A v \in tx[q].rows : v.id = w.id => v = w /\ q = r
    /\ \A v \in tx[r].rows : v.student = w.student => v = w
    /\ w.status = "CANCELLED" => r \in slock[w.student]
    /\ w.status \in Checks =>
          /\ xlock[w.student] = r
          /\ \A c \in ledger : c.student = w.student =>
                /\ c.id < w.id
                /\ IsLatest(c) => Accepted(c.status, w.status)

PendingOK == \A r \in Request : \A w \in tx[r].rows : PendingRowOK(r, w)

\* What request r knows at its next statement.
JobRowOK(r) ==
    /\ pc[r] \in {"new", "vlock", "vinsert"} => tx[r].rows = {}
    /\ pc[r] \in {"wait", "guard", "write"} =>
          /\ job[r].cur \in Student
          /\ job[r].cur \notin job[r].todo
          /\ job[r].status \in Checks
          /\ \A w \in tx[r].rows : w.student # job[r].cur /\ w.student \notin job[r].todo
          /\ job[r].op = "teacher" => tx[r].rows = {}
    /\ pc[r] \in {"guard", "write"} =>
          /\ xlock[job[r].cur] = r
          /\ job[r].busOf[job[r].cur] \in Bus
    /\ pc[r] = "write" =>
          \A c \in ledger : c.student = job[r].cur /\ IsLatest(c) =>
             Accepted(c.status, job[r].status)
    /\ pc[r] \in {"vlock", "vinsert", "vmark"} => job[r].cur \in Student /\ job[r].todo = {}
    /\ pc[r] \in {"vlock", "vinsert"} =>
          \E c \in ledger : c.id = job[r].target /\ c.student = job[r].cur
    /\ pc[r] = "commit" /\ job[r].todo # {} => job[r].status \in Checks

JobOK == \A r \in Request : JobRowOK(r)

IInv == TypeOK /\ LocksOK /\ RowsOK /\ PendingOK /\ JobOK

-----------------------------------------------------------------------------
(* Types *)

\* The request record while r goes on with its next pupil, or is finished.
LEMMA AnsweredType == \A j \in Job : Answered(j) \in Job
  BY NoBusAssumption DEF Answered, NoJob, Job, Place, Ops, Statuses

LEMMA ListedType ==
  ASSUME NEW j \in Job, NEW s \in Student
  PROVE  /\ [j EXCEPT !.failed = @ \cup {s}] \in Job
         /\ [j EXCEPT !.ok = @ \cup {s}] \in Job
  BY DEF Job

LEMMA JobType == ASSUME TypeOK, NEW r \in Request PROVE job[r] \in Job /\ tx[r] \in Tx
  BY DEF TypeOK

LEMMA EmptyTxType == EmptyTx \in Tx /\ EmptyTx.rows = {}
  BY DEF EmptyTx, Tx

LEMMA ProceedFacts ==
  ASSUME TypeOK, NEW r \in Request, NEW j \in Job,
         NEW otherwise \in {"commit", "replied"}, Proceed(r, j, otherwise)
  PROVE  /\ job' \in [Request -> Job]
         /\ pc' \in [Request -> Pcs]
         /\ \A q \in Request \ {r} : job'[q] = job[q] /\ pc'[q] = pc[q]
         /\ \/ /\ pc'[r] = otherwise
               /\ j.todo = {}
               /\ job'[r] = IF otherwise = "replied" THEN Answered(j) ELSE j
            \/ /\ pc'[r] = "wait"
               /\ \E s \in j.todo : job'[r] = [j EXCEPT !.cur = s, !.todo = @ \ {s}]
  <1>1. CASE j.todo = {}
    <2>1. /\ pc' = [pc EXCEPT ![r] = otherwise]
          /\ job' = [job EXCEPT ![r] = IF otherwise = "replied" THEN Answered(j) ELSE j]
      BY <1>1 DEF Proceed
    <2>2. (IF otherwise = "replied" THEN Answered(j) ELSE j) \in Job
      BY AnsweredType
    <2>3. otherwise \in Pcs
      BY DEF Pcs
    <2> QED
      BY <1>1, <2>1, <2>2, <2>3 DEF TypeOK
  <1>2. CASE j.todo # {}
    <2>1. PICK s \in j.todo :
             job' = [job EXCEPT ![r] = [j EXCEPT !.cur = s, !.todo = @ \ {s}]]
      BY <1>2 DEF Proceed
    <2>2. pc' = [pc EXCEPT ![r] = "wait"]
      BY <1>2 DEF Proceed
    <2>3. [j EXCEPT !.cur = s, !.todo = @ \ {s}] \in Job
      BY DEF Job
    <2> QED
      BY <2>1, <2>2, <2>3 DEF TypeOK, Pcs
  <1> QED
    BY <1>1, <1>2

LEMMA ReleaseType ==
  ASSUME TypeOK, NEW r \in Request, ReleaseLocks(r)
  PROVE  /\ xlock' \in [Student -> Request \cup {None}]
         /\ slock' \in [Student -> SUBSET Request]
  BY DEF TypeOK, ReleaseLocks

LEMMA RefuseType ==
  ASSUME TypeOK, NEW r \in Request, Refuse(r)
  PROVE  TypeOK'
  <1>1. [NoJob EXCEPT !.op = job[r].op] \in Job
    BY NoBusAssumption DEF TypeOK, NoJob, Job, Place, Statuses
  <1>2. job' \in [Request -> Job] /\ tx' \in [Request -> Tx] /\ pc' \in [Request -> Pcs]
    BY <1>1, EmptyTxType DEF TypeOK, Refuse, Pcs
  <1>3. xlock' \in [Student -> Request \cup {None}] /\ slock' \in [Student -> SUBSET Request]
    BY ReleaseType DEF Refuse
  <1> QED
    BY <1>2, <1>3 DEF TypeOK, Refuse, db

LEMMA SkipType ==
  ASSUME TypeOK, NEW r \in Request, job[r].cur \in Student, SkipInBatch(r)
  PROVE  TypeOK'
  <1>1. [job[r] EXCEPT !.failed = @ \cup {job[r].cur}] \in Job
    BY ListedType, JobType
  <1>2. job' \in [Request -> Job] /\ pc' \in [Request -> Pcs]
    BY <1>1, ProceedFacts DEF SkipInBatch
  <1> QED
    BY <1>2 DEF TypeOK, SkipInBatch, db

LEMMA RecordedType ==
  ASSUME TypeOK, NEW r \in Request, job[r].cur \in Student, RejectRecorded(r)
  PROVE  TypeOK'
  <1>1. CASE SkipInBatch(r)
    BY <1>1, SkipType
  <1>2. CASE Refuse(r)
    BY <1>2, RefuseType
  <1>3. CASE /\ job[r].op = "teacher"
             /\ Proceed(r, [job[r] EXCEPT !.failed = @ \cup {job[r].cur}], "replied")
             /\ ReleaseLocks(r)
             /\ UNCHANGED <<db, tx>>
    <2>1. [job[r] EXCEPT !.failed = @ \cup {job[r].cur}] \in Job
      BY ListedType, JobType
    <2>2. job' \in [Request -> Job] /\ pc' \in [Request -> Pcs]
      BY <1>3, <2>1, ProceedFacts
    <2>3. xlock' \in [Student -> Request \cup {None}] /\ slock' \in [Student -> SUBSET Request]
      BY <1>3, ReleaseType
    <2> QED
      BY <1>3, <2>2, <2>3 DEF TypeOK, db
  <1> QED
    BY <1>1, <1>2, <1>3 DEF RejectRecorded

\* A pupil's request that is in the middle of a check has a pupil in hand.
CurOK ==
    \A r \in Request : /\ pc[r] \in {"wait", "guard", "write", "vlock", "vinsert", "vmark"} => job[r].cur \in Student
                       /\ pc[r] = "write" => job[r].busOf[job[r].cur] \in Bus

LEMMA StartType ==
  ASSUME TypeOK, NEW r \in Request, NEW op \in Ops, NEW status \in Statuses,
         NEW plan \in SUBSET Student, NEW busOf \in [Student -> Place],
         Start(r, op, status, plan, busOf)
  PROVE  TypeOK'
  <1> DEFINE j == [NoJob EXCEPT !.op = op, !.status = status, !.plan = plan, !.todo = plan,
                      !.busOf = [s \in Student |-> IF s \in plan THEN busOf[s] ELSE NoBus]]
  <1>1. j \in Job
    BY DEF NoJob, Job, Place
  <1>2. job' \in [Request -> Job] /\ pc' \in [Request -> Pcs]
    BY <1>1, ProceedFacts DEF Start
  <1> QED
    BY <1>2 DEF TypeOK, Start, db

LEMMA ArriveType ==
  ASSUME TypeOK, NEW r \in Request, Arrive(r)
  PROVE  TypeOK'
  <1> USE DEF Ops, BatchOps, Statuses
  <1>a. \A b \in Bus : [t \in Student |-> b] \in [Student -> Place]
    BY DEF Place
  <1>b. bus \in [Student -> Place]
    BY DEF TypeOK
  <1>1. CASE \E s \in Student, b \in Bus, status \in {"IN", "OUT"} : Tap(r, s, b, status)
    BY <1>1, <1>a, StartType DEF Tap
  <1>2. CASE \E b \in Bus : CheckinAll(r, b)
    BY <1>2, <1>a, StartType DEF CheckinAll
  <1>3. CASE \E b \in Bus : CheckoutAll(r, b)
    BY <1>3, <1>a, StartType DEF CheckoutAll
  <1>4. CASE \E s \in Student, status \in {"IN", "OUT"} : Override(r, s, status)
    BY <1>4, <1>b, StartType DEF Override
  <1>5. CASE \E absent \in SUBSET Student, status \in {"IN", "OUT"} : OverrideAll(r, absent, status)
    BY <1>5, <1>b, StartType DEF OverrideAll
  <1>6. CASE \E selection \in SUBSET Student : TeacherCheck(r, selection)
    <2>1. PICK selection \in SUBSET Student : TeacherCheck(r, selection)
      BY <1>6
    <2>2. {s \in selection : bus[s] # NoBus /\ ~OnLeave(s)} \in SUBSET Student
      OBVIOUS
    <2> QED
      BY <2>1, <2>2, <1>b, TeacherAssumption, StartType DEF TeacherCheck
  <1>7. ASSUME NEW op \in {"void", "undo"}, NEW c \in ledger, NEW scope \in Place,
               StartVoid(r, op, c, scope)
        PROVE  TypeOK'
    <2>1. c \in Row
      BY DEF TypeOK
    <2>2. [NoJob EXCEPT !.op = op, !.status = "CANCELLED", !.cur = c.student,
                        !.target = c.id, !.busOf[c.student] = scope] \in Job
      BY <2>1 DEF NoJob, Job, Place, Row
    <2>3. job' \in [Request -> Job] /\ pc' \in [Request -> Pcs]
      BY <1>7, <2>2 DEF StartVoid, TypeOK, Pcs
    <2> QED
      BY <1>7, <2>3 DEF TypeOK, StartVoid, db
  <1>8. CASE \E c \in ledger, scope \in Place : VoidRequest(r, c, scope)
    BY <1>7, <1>8 DEF VoidRequest
  <1>9. CASE \E c \in ledger : UndoRequest(r, c)
    BY <1>7, <1>9 DEF UndoRequest, Place
  <1> QED
    BY <1>1, <1>2, <1>3, <1>4, <1>5, <1>6, <1>8, <1>9 DEF Arrive

LEMMA WriteType ==
  ASSUME TypeOK, CurOK, NEW r \in Request, WriteCheck(r)
  PROVE  TypeOK'
  <1> DEFINE s == job[r].cur
             row == [id |-> nextId, student |-> s, bus |-> job[r].busOf[s],
                     status |-> job[r].status, voids |-> 0, req |-> r]
             j == [job[r] EXCEPT !.ok = @ \cup {s}]
  <1>1. s \in Student /\ job[r].busOf[s] \in Bus /\ pc[r] = "write"
    BY DEF CurOK, WriteCheck
  <1>2. job[r] \in Job /\ tx[r] \in Tx /\ j \in Job
    BY <1>1, JobType, ListedType
  <1>3. row \in Row
    BY <1>1, <1>2 DEF Row, Job, TypeOK
  <1>4. [tx[r] EXCEPT !.rows = @ \cup {row}, !.marks[s] = "true"] \in Tx
    BY <1>1, <1>2, <1>3 DEF Tx
  <1>5. tx' = [tx EXCEPT ![r] = [tx[r] EXCEPT !.rows = @ \cup {row}, !.marks[s] = "true"]]
    BY <1>2 DEF WriteCheck, TypeOK
  <1>6. tx' \in [Request -> Tx]
    BY <1>4, <1>5 DEF TypeOK
  <1>7. job' \in [Request -> Job] /\ pc' \in [Request -> Pcs]
    <2>1. CASE j.op = "teacher"
      <3>1. pc' = [pc EXCEPT ![r] = "commit"] /\ job' = [job EXCEPT ![r] = j]
        BY <2>1 DEF WriteCheck
      <3> QED
        BY <3>1, <1>2 DEF TypeOK, Pcs
    <2>2. CASE j.op # "teacher"
      <3>1. Proceed(r, j, "commit")
        BY <2>2 DEF WriteCheck
      <3> QED
        BY <3>1, <1>2, ProceedFacts
    <2> QED
      BY <2>1, <2>2
  <1>8. nextId' \in Nat
    BY DEF WriteCheck, TypeOK
  <1> QED
    BY <1>6, <1>7, <1>8 DEF TypeOK, WriteCheck

LEMMA CommitType ==
  ASSUME TypeOK, NEW r \in Request, Commit(r)
  PROVE  TypeOK'
  <1>1. job[r] \in Job /\ tx[r] \in Tx
    BY JobType
  <1>2. job' \in [Request -> Job] /\ pc' \in [Request -> Pcs]
    BY <1>1, ProceedFacts DEF Commit
  <1>3. xlock' \in [Student -> Request \cup {None}] /\ slock' \in [Student -> SUBSET Request]
    BY ReleaseType DEF Commit
  <1>4. ledger' \subseteq Row
    BY <1>1 DEF Commit, TypeOK, Tx
  <1>5. done' \in [Student -> {"absent", "true", "false"}]
    BY <1>1 DEF Commit, Marked, TypeOK, Tx
  <1>6. tx' \in [Request -> Tx]
    BY EmptyTxType DEF Commit, TypeOK
  <1> QED
    BY <1>2, <1>3, <1>4, <1>5, <1>6 DEF TypeOK, Commit

LEMMA VictimType ==
  ASSUME TypeOK, NEW r \in Request, DeadlockVictim(r)
  PROVE  TypeOK'
  <1>1. CASE Refuse(r)
    BY <1>1, RefuseType
  <1>2. CASE /\ Proceed(r, FreshAttempt(job[r]), "commit")
             /\ tx' = [tx EXCEPT ![r] = EmptyTx]
             /\ ReleaseLocks(r)
             /\ UNCHANGED db
    <2>1. FreshAttempt(job[r]) \in Job
      <3> DEFINE k == job[r]
      <3>1. k \in Job
        BY JobType
      <3>2. k.attempt + 1 \in Nat
        BY <3>1 DEF Job
      <3> HIDE DEF k
      <3>3. [k EXCEPT !.attempt = k.attempt + 1, !.todo = k.plan, !.ok = {}, !.failed = {}] \in Job
        BY <3>1, <3>2 DEF Job
      <3> QED
        BY <3>3 DEF FreshAttempt, k
    <2>2. job' \in [Request -> Job] /\ pc' \in [Request -> Pcs]
      BY <1>2, <2>1, ProceedFacts
    <2>3. xlock' \in [Student -> Request \cup {None}] /\ slock' \in [Student -> SUBSET Request]
      BY <1>2, ReleaseType
    <2> QED
      BY <1>2, <2>2, <2>3, EmptyTxType DEF TypeOK, db
  <1> QED
    BY <1>1, <1>2 DEF DeadlockVictim

LEMMA VoidType ==
  ASSUME TypeOK, CurOK, NEW r \in Request, VoidLock(r) \/ VoidInsert(r) \/ VoidMark(r)
  PROVE  TypeOK'
  <1>1. CASE VoidLock(r)
    <2>1. CASE Refuse(r)
      BY <2>1, RefuseType
    <2>2. CASE pc' = [pc EXCEPT ![r] = "vinsert"] /\ UNCHANGED <<db, job, tx, xlock, slock>>
      BY <2>2 DEF TypeOK, db, Pcs
    <2> QED
      BY <1>1, <2>1, <2>2 DEF VoidLock
  <1>2. CASE VoidInsert(r)
    <2>1. PICK c \in ledger : tx' = [tx EXCEPT ![r].rows =
                       {[id |-> nextId, student |-> c.student, bus |-> c.bus,
                         status |-> "CANCELLED", voids |-> c.id, req |-> r]}]
      BY <1>2 DEF VoidInsert
    <2> DEFINE row == [id |-> nextId, student |-> c.student, bus |-> c.bus,
                       status |-> "CANCELLED", voids |-> c.id, req |-> r]
    <2>2. row \in Row
      BY DEF TypeOK, Row, Statuses
    <2>3. tx[r] \in Tx
      BY JobType
    <2>4. [tx[r] EXCEPT !.rows = {row}] \in Tx
      BY <2>2, <2>3 DEF Tx
    <2>5. tx' \in [Request -> Tx]
      BY <2>1, <2>4 DEF TypeOK
    <2>6. slock' \in [Student -> SUBSET Request]
      BY <1>2 DEF TypeOK, VoidInsert
    <2>7. nextId' \in Nat /\ pc' \in [Request -> Pcs]
      BY <1>2 DEF TypeOK, VoidInsert, Pcs
    <2> QED
      BY <1>2, <2>5, <2>6, <2>7 DEF TypeOK, VoidInsert
  <1>3. CASE VoidMark(r)
    <2>1. tx[r] \in Tx /\ job[r].cur \in Student
      BY <1>3, JobType DEF CurOK, VoidMark
    <2> DEFINE mark == IF job[r].op = "undo" /\ PriorStands(job[r].cur, job[r].target)
                       THEN "true" ELSE "false"
    <2>2. [tx[r] EXCEPT !.marks[job[r].cur] = mark] \in Tx
      BY <2>1 DEF Tx
    <2>3. tx' = [tx EXCEPT ![r] = [tx[r] EXCEPT !.marks[job[r].cur] = mark]]
      BY <1>3, <2>1 DEF VoidMark, TypeOK
    <2>4. tx' \in [Request -> Tx]
      BY <2>2, <2>3 DEF TypeOK
    <2> QED
      BY <1>3, <2>4 DEF TypeOK, VoidMark, Pcs, db
  <1> QED
    BY <1>1, <1>2, <1>3

LEMMA StatementType ==
  ASSUME TypeOK, CurOK, NEW r \in Request, Statement(r)
  PROVE  TypeOK'
  <1>1. CASE LockPupil(r)
    <2>1. job[r].cur \in Student
      BY <1>1 DEF LockPupil, CurOK
    <2>2. CASE RejectMissing(r)
      BY <2>1, <2>2, SkipType, RefuseType DEF RejectMissing
    <2>3. CASE ~RejectMissing(r)
      BY <1>1, <2>1, <2>3 DEF LockPupil, TypeOK, db, Pcs
    <2> QED
      BY <2>2, <2>3
  <1>2. CASE GuardRead(r)
    <2>1. job[r].cur \in Student
      BY <1>2 DEF GuardRead, CurOK
    <2>2. CASE RejectRecorded(r)
      BY <2>1, <2>2, RecordedType
    <2>3. CASE ~RejectRecorded(r)
      BY <1>2, <2>3 DEF GuardRead, TypeOK, db, Pcs
    <2> QED
      BY <2>2, <2>3
  <1> QED
    BY <1>1, <1>2, WriteType, CommitType, VictimType, VoidType DEF Statement

LEMMA EditType ==
  ASSUME TypeOK, NEW s \in Student, SchoolEdit(s)
  PROVE  TypeOK'
  BY DEF TypeOK, SchoolEdit, MovePupil, CreateLeave, CancelLeave

LEMMA NextType == TypeOK /\ CurOK /\ [Next]_vars => TypeOK'
  <1> SUFFICES ASSUME TypeOK, CurOK, [Next]_vars PROVE TypeOK'
    OBVIOUS
  <1>1. CASE UNCHANGED vars
    BY <1>1 DEF vars, TypeOK
  <1> QED
    BY <1>1, ArriveType, StatementType, EditType DEF Next, DayOver

-----------------------------------------------------------------------------
(* Locks and rows *)

DbOK == LocksOK /\ RowsOK /\ PendingOK

\* A step that leaves committed rows, uncommitted rows and locks alone.
LEMMA QuietDb ==
  ASSUME TypeOK, DbOK, UNCHANGED <<ledger, nextId, xlock, slock>>,
         \A q \in Request : tx'[q].rows = tx[q].rows
  PROVE  DbOK'
  BY DEF DbOK, LocksOK, RowsOK, PendingOK, PendingRowOK, IsLatest

\* A rollback of r: its rows and its locks disappear.
LEMMA RollbackDb ==
  ASSUME TypeOK, DbOK, NEW r \in Request, ReleaseLocks(r), UNCHANGED <<ledger, nextId>>,
         tx'[r].rows = {}, \A q \in Request \ {r} : tx'[q].rows = tx[q].rows
  PROVE  DbOK'
  <1>1. LocksOK'
    BY DEF DbOK, LocksOK, ReleaseLocks, TypeOK
  <1>2. RowsOK'
    BY DEF DbOK, RowsOK
  <1>3. ASSUME NEW q \in Request, NEW w \in tx'[q].rows
        PROVE  PendingRowOK(q, w)'
    <2>1. q # r /\ w \in tx[q].rows
      BY <1>3
    <2>2. w \in Row
      BY <2>1 DEF TypeOK, Tx
    <2>3. PendingRowOK(q, w)
      BY <2>1 DEF DbOK, PendingOK
    <2>4. w.status = "CANCELLED" => q \in slock'[w.student]
      BY <2>1, <2>2, <2>3 DEF PendingRowOK, ReleaseLocks, Row
    <2>5. w.status \in Checks => xlock'[w.student] = q
      BY <2>1, <2>2, <2>3 DEF PendingRowOK, ReleaseLocks, Row
    <2>6. \A p \in Request : \A v \in tx'[p].rows : v.id = w.id => v = w /\ p = q
      BY <2>1, <2>3 DEF PendingRowOK
    <2> QED
      BY <2>1, <2>3, <2>4, <2>5, <2>6 DEF PendingRowOK, IsLatest
  <1> QED
    BY <1>1, <1>2, <1>3 DEF DbOK, PendingOK

\* Two requests with uncommitted rows of one pupil are both voids.
LEMMA SamePupil ==
  ASSUME TypeOK, DbOK, NEW q \in Request, NEW r \in Request, q # r,
         NEW w \in tx[q].rows, NEW v \in tx[r].rows, w.student = v.student
  PROVE  w.status = "CANCELLED" /\ v.status = "CANCELLED"
  <1>1. PendingRowOK(q, w) /\ PendingRowOK(r, v)
    BY DEF DbOK, PendingOK
  <1>2. w \in Row /\ v \in Row
    BY DEF TypeOK, Tx
  <1>3. w.student \in Student /\ w.status \in Statuses /\ v.status \in Statuses
    BY <1>2 DEF Row
  <1>4. w.status \in Checks => slock[w.student] = {} /\ xlock[w.student] = q
    BY <1>1, <1>3, NoneAssumption DEF PendingRowOK, DbOK, LocksOK
  <1>5. v.status \in Checks => slock[w.student] = {} /\ xlock[w.student] = r
    BY <1>1, <1>3, NoneAssumption DEF PendingRowOK, DbOK, LocksOK
  <1> QED
    BY <1>1, <1>3, <1>4, <1>5 DEF PendingRowOK, Statuses, Checks

\* A lock of q on a pupil keeps every other request's rows of the pupil away.
LEMMA LockedPupil ==
  ASSUME TypeOK, DbOK, NEW q \in Request, NEW r \in Request, q # r,
         NEW s \in Student, xlock[s] = q, NEW v \in tx[r].rows
  PROVE  v.student # s
  <1>1. PendingRowOK(r, v)
    BY DEF DbOK, PendingOK
  <1>2. v \in Row
    BY DEF TypeOK, Tx
  <1>3. slock[s] = {}
    BY NoneAssumption DEF DbOK, LocksOK
  <1> QED
    BY <1>1, <1>2, <1>3 DEF PendingRowOK, Row, Statuses, Checks

LEMMA CommitDb ==
  ASSUME TypeOK, DbOK, NEW r \in Request, Commit(r)
  PROVE  DbOK'
  <1>1. /\ ledger' = ledger \cup tx[r].rows
        /\ tx' = [tx EXCEPT ![r] = EmptyTx]
        /\ nextId' = nextId
        /\ ReleaseLocks(r)
    BY DEF Commit
  <1>2. LocksOK'
    BY <1>1 DEF DbOK, LocksOK, ReleaseLocks, TypeOK
  <1>3. RowsOK'
    BY <1>1 DEF DbOK, RowsOK, PendingOK, PendingRowOK
  <1>4. ASSUME NEW q \in Request, NEW w \in tx'[q].rows
        PROVE  PendingRowOK(q, w)'
    <2>1. q # r /\ w \in tx[q].rows
      BY <1>1, <1>4, EmptyTxType DEF TypeOK
    <2>2. w \in Row
      BY <2>1 DEF TypeOK, Tx
    <2>3. PendingRowOK(q, w)
      BY <2>1 DEF DbOK, PendingOK
    <2>4. w.status = "CANCELLED" => q \in slock'[w.student]
      BY <1>1, <2>1, <2>2, <2>3 DEF PendingRowOK, ReleaseLocks, Row
    <2>5. w.status \in Checks => xlock'[w.student] = q
      BY <1>1, <2>1, <2>2, <2>3 DEF PendingRowOK, ReleaseLocks, Row
    <2>6. \A p \in Request : \A v \in tx'[p].rows : v \in tx[p].rows
      BY <1>1, EmptyTxType DEF TypeOK
    <2>7. \A c \in ledger' : c.id # w.id
      BY <1>1, <2>1, <2>3 DEF PendingRowOK
    <2>8. ASSUME w.status \in Checks, NEW c \in ledger', c.student = w.student
          PROVE  /\ c \in ledger /\ c.id < w.id
                 /\ IsLatest(c)' => Accepted(c.status, w.status)
      <3>1. c \in ledger
        <4>1. ASSUME c \in tx[r].rows PROVE FALSE
          <5>1. w.status = "CANCELLED"
            BY <2>1, <2>8, <4>1, SamePupil
          <5> QED
            BY <5>1, <2>8 DEF Checks
        <4> QED
          BY <1>1, <4>1
      <3>2. IsLatest(c)' => IsLatest(c)
        BY <1>1, <3>1 DEF IsLatest
      <3> QED
        BY <2>3, <2>8, <3>1, <3>2 DEF PendingRowOK
    <2> QED
      BY <2>1, <2>3, <2>4, <2>5, <2>6, <2>7, <2>8, <1>1 DEF PendingRowOK
  <1> QED
    BY <1>2, <1>3, <1>4 DEF DbOK, PendingOK

\* A new uncommitted row w of r.
LEMMA InsertDb ==
  ASSUME TypeOK, DbOK, NEW r \in Request, NEW w \in Row,
         tx'[r].rows = tx[r].rows \cup {w},
         \A q \in Request \ {r} : tx'[q].rows = tx[q].rows,
         w.id = nextId, 0 < nextId, nextId' = nextId + 1, ledger' = ledger, xlock' = xlock,
         \A v \in tx[r].rows : v.student # w.student,
         \/ /\ w.status \in Checks
            /\ slock' = slock
            /\ xlock[w.student] = r
            /\ \A c \in ledger : c.student = w.student /\ IsLatest(c) => Accepted(c.status, w.status)
         \/ /\ w.status = "CANCELLED"
            /\ xlock[w.student] = None
            /\ slock' = [slock EXCEPT ![w.student] = @ \cup {r}]
  PROVE  DbOK'
  <1>1. LocksOK'
    BY DEF DbOK, LocksOK, TypeOK, Row
  <1>2. RowsOK'
    BY DEF DbOK, RowsOK, TypeOK, Row
  <1>3. \A q \in Request : \A v \in tx[q].rows : v \in Row /\ v.id < nextId
    BY DEF DbOK, PendingOK, PendingRowOK, TypeOK, Tx
  <1>4. \A c \in ledger : c \in Row /\ c.id < nextId
    BY DEF DbOK, RowsOK, TypeOK
  <1>5. nextId \in Nat
    BY DEF TypeOK
  <1>6. ASSUME NEW q \in Request, NEW v \in tx[q].rows
        PROVE  PendingRowOK(q, v)'
    <2>1. PendingRowOK(q, v) /\ v \in Row /\ v.id < nextId
      BY <1>3, <1>6 DEF DbOK, PendingOK
    <2>2. v.status = "CANCELLED" => q \in slock'[v.student]
      BY <2>1 DEF PendingRowOK, TypeOK, Row
    <2>3. 0 < v.id /\ v.id < nextId'
      BY <1>5, <2>1 DEF PendingRowOK, Row
    <2>4. \A p \in Request : \A u \in tx'[p].rows : u.id = v.id => u = v /\ p = q
      BY <1>5, <2>1 DEF PendingRowOK, Row
    <2>5. \A u \in tx'[q].rows : u.student = v.student => u = v
      BY <1>6, <2>1 DEF PendingRowOK
    <2> QED
      BY <2>1, <2>2, <2>3, <2>4, <2>5 DEF PendingRowOK, IsLatest
  <1>7. PendingRowOK(r, w)'
    <2>1. 0 < w.id /\ w.id < nextId'
      BY <1>5
    <2>2. \A c \in ledger' : c.id < w.id /\ c.id # w.id
      BY <1>4, <1>5 DEF Row
    <2>3. \A p \in Request : \A u \in tx'[p].rows : u.id = w.id => u = w /\ p = r
      BY <1>3, <1>5 DEF Row
    <2>4. \A u \in tx'[r].rows : u.student = w.student => u = w
      OBVIOUS
    <2>5. w.status = "CANCELLED" => r \in slock'[w.student]
      BY DEF TypeOK, Row, Checks
    <2>6. w.status \in Checks =>
             /\ xlock'[w.student] = r
             /\ \A c \in ledger' :
                   c.student = w.student => (IsLatest(c)' => Accepted(c.status, w.status))
      BY DEF Checks, IsLatest
    <2> QED
      BY <2>1, <2>2, <2>3, <2>4, <2>5, <2>6 DEF PendingRowOK
  <1> QED
    BY <1>1, <1>2, <1>6, <1>7 DEF DbOK, PendingOK

-----------------------------------------------------------------------------
(* Requests *)

\* A step of another request keeps what q knows.
LEMMA OtherJob ==
  ASSUME TypeOK, NEW q \in Request, JobRowOK(q),
         pc'[q] = pc[q], job'[q] = job[q], tx'[q].rows = tx[q].rows,
         \A s \in Student : xlock[s] = q => xlock'[s] = q,
         ledger \subseteq ledger',
         \A c \in ledger' \ ledger : xlock[c.student] # q
  PROVE  JobRowOK(q)'
  <1>1. pc[q] = "write" =>
          \A c \in ledger' : c.student = job[q].cur /\ IsLatest(c)' =>
             Accepted(c.status, job[q].status)
    BY DEF JobRowOK, IsLatest
  <1>2. pc[q] \in {"guard", "write"} => xlock'[job[q].cur] = q
    BY DEF JobRowOK
  <1> QED
    BY <1>1, <1>2 DEF JobRowOK

\* Going on with the next pupil of the list.
LEMMA ProceedJob ==
  ASSUME TypeOK, NEW r \in Request, NEW j \in Job,
         NEW otherwise \in {"commit", "replied"}, Proceed(r, j, otherwise),
         j.todo # {} => /\ j.status \in Checks
                        /\ j.op = "teacher" => tx'[r].rows = {},
         \A w \in tx'[r].rows : w.student \notin j.todo
  PROVE  JobRowOK(r)'
  <1>0. \/ /\ pc'[r] = otherwise
           /\ j.todo = {}
           /\ job'[r] = IF otherwise = "replied" THEN Answered(j) ELSE j
        \/ /\ pc'[r] = "wait"
           /\ \E s \in j.todo : job'[r] = [j EXCEPT !.cur = s, !.todo = @ \ {s}]
    BY DEF Proceed, TypeOK
  <1>1. CASE pc'[r] = otherwise /\ j.todo = {}
             /\ job'[r] = IF otherwise = "replied" THEN Answered(j) ELSE j
    BY <1>1 DEF JobRowOK
  <1>2. CASE pc'[r] = "wait" /\ \E s \in j.todo : job'[r] = [j EXCEPT !.cur = s, !.todo = @ \ {s}]
    <2>1. PICK s \in j.todo : job'[r] = [j EXCEPT !.cur = s, !.todo = @ \ {s}]
      BY <1>2
    <2>2. /\ job'[r].cur = s /\ job'[r].todo = j.todo \ {s}
          /\ job'[r].status = j.status /\ job'[r].op = j.op
      BY <2>1 DEF Job
    <2>3. s \in Student
      BY DEF Job
    <2> QED
      BY <1>2, <2>2, <2>3 DEF JobRowOK
  <1> QED
    BY <1>0, <1>1, <1>2

LEMMA IInvFacts == IInv => TypeOK /\ DbOK /\ JobOK /\ CurOK
  BY DEF IInv, DbOK, JobOK, CurOK, JobRowOK

\* A step of r alone that keeps the database part, given what r knows after it.
LEMMA StepOf ==
  ASSUME IInv, NEW r \in Request, TypeOK', DbOK', JobRowOK(r)',
         \A q \in Request \ {r} :
            /\ pc'[q] = pc[q] /\ job'[q] = job[q] /\ tx'[q].rows = tx[q].rows
            /\ \A s \in Student : xlock[s] = q => xlock'[s] = q
            /\ \A c \in ledger' \ ledger : xlock[c.student] # q,
         ledger \subseteq ledger'
  PROVE  IInv'
  <1>1. ASSUME NEW q \in Request, q # r PROVE JobRowOK(q)'
    BY <1>1, OtherJob, IInvFacts DEF JobOK
  <1> QED
    BY <1>1 DEF IInv, DbOK, JobOK

LEMMA RefuseInv ==
  ASSUME IInv, NEW r \in Request, Refuse(r)
  PROVE  IInv'
  <1>1. TypeOK /\ DbOK
    BY IInvFacts
  <1>2. TypeOK'
    BY <1>1, RefuseType
  <1>3. /\ tx'[r].rows = {} /\ pc'[r] = "refused"
        /\ \A q \in Request \ {r} : tx'[q] = tx[q] /\ pc'[q] = pc[q] /\ job'[q] = job[q]
        /\ ReleaseLocks(r) /\ ledger' = ledger /\ nextId' = nextId
    BY <1>1, EmptyTxType DEF Refuse, TypeOK, db
  <1>4. DbOK'
    BY <1>1, <1>3, RollbackDb
  <1>5. JobRowOK(r)'
    BY <1>3 DEF JobRowOK
  <1>6. \A q \in Request \ {r} : \A s \in Student : xlock[s] = q => xlock'[s] = q
    BY <1>3 DEF ReleaseLocks
  <1> QED
    BY <1>2, <1>3, <1>4, <1>5, <1>6, StepOf

LEMMA StartInv ==
  ASSUME IInv, NEW r \in Request, NEW op \in Ops, NEW status \in Checks,
         NEW plan \in SUBSET Student, NEW busOf \in [Student -> Place],
         Start(r, op, status, plan, busOf)
  PROVE  IInv'
  <1> DEFINE j == [NoJob EXCEPT !.op = op, !.status = status, !.plan = plan, !.todo = plan,
                      !.busOf = [s \in Student |-> IF s \in plan THEN busOf[s] ELSE NoBus]]
  <1>1. TypeOK /\ DbOK /\ JobOK
    BY IInvFacts
  <1>2. TypeOK'
    BY <1>1, StartType DEF Checks, Statuses
  <1>3. j \in Job /\ j.todo = plan /\ j.status = status
    BY DEF NoJob, Job, Place, Checks, Statuses
  <1>4. Proceed(r, j, "commit") /\ UNCHANGED <<ledger, nextId, tx, xlock, slock>> /\ pc[r] = "new"
    BY DEF Start, db
  <1>5. tx'[r].rows = {}
    BY <1>1, <1>4 DEF JobOK, JobRowOK
  <1> HIDE DEF j
  <1>6. JobRowOK(r)'
    BY <1>1, <1>3, <1>4, <1>5, ProceedJob
  <1>7. \A q \in Request \ {r} : pc'[q] = pc[q] /\ job'[q] = job[q]
    BY <1>1, <1>3, <1>4, ProceedFacts
  <1>8. DbOK'
    BY <1>1, <1>4, QuietDb
  <1> QED
    BY <1>2, <1>4, <1>6, <1>7, <1>8, StepOf

LEMMA StartVoidInv ==
  ASSUME IInv, NEW r \in Request, NEW op \in {"void", "undo"}, NEW c \in ledger,
         NEW scope \in Place, StartVoid(r, op, c, scope), TypeOK'
  PROVE  IInv'
  <1>1. TypeOK /\ DbOK /\ JobOK /\ c \in Row
    BY IInvFacts DEF TypeOK
  <1>2. /\ pc[r] = "new" /\ pc'[r] = "vlock" /\ tx' = tx
        /\ UNCHANGED <<ledger, nextId, xlock, slock>>
        /\ \A q \in Request \ {r} : pc'[q] = pc[q] /\ job'[q] = job[q]
    BY <1>1 DEF StartVoid, TypeOK, db
  <1>3. job'[r].cur = c.student /\ job'[r].todo = {} /\ job'[r].target = c.id
    <2>1. job'[r] = [NoJob EXCEPT !.op = op, !.status = "CANCELLED", !.cur = c.student,
                                  !.target = c.id, !.busOf[c.student] = scope]
      BY <1>1 DEF StartVoid, TypeOK
    <2> QED
      BY <2>1 DEF NoJob
  <1>4. JobRowOK(r)'
    BY <1>1, <1>2, <1>3 DEF JobOK, JobRowOK, Row
  <1>5. DbOK'
    BY <1>1, <1>2, QuietDb
  <1> QED
    BY <1>2, <1>4, <1>5, StepOf

LEMMA ArriveInv ==
  ASSUME IInv, NEW r \in Request, Arrive(r)
  PROVE  IInv'
  <1> USE DEF Ops, BatchOps, Checks
  <1>a. \A b \in Bus : [t \in Student |-> b] \in [Student -> Place]
    BY DEF Place
  <1>b. bus \in [Student -> Place]
    BY IInvFacts DEF TypeOK
  <1>c. TypeOK'
    BY ArriveType, IInvFacts
  <1>1. CASE \E s \in Student, b \in Bus, status \in {"IN", "OUT"} : Tap(r, s, b, status)
    BY <1>1, <1>a, StartInv DEF Tap
  <1>2. CASE \E b \in Bus : CheckinAll(r, b)
    BY <1>2, <1>a, StartInv DEF CheckinAll
  <1>3. CASE \E b \in Bus : CheckoutAll(r, b)
    BY <1>3, <1>a, StartInv DEF CheckoutAll
  <1>4. CASE \E s \in Student, status \in {"IN", "OUT"} : Override(r, s, status)
    BY <1>4, <1>b, StartInv DEF Override
  <1>5. CASE \E absent \in SUBSET Student, status \in {"IN", "OUT"} : OverrideAll(r, absent, status)
    BY <1>5, <1>b, StartInv DEF OverrideAll
  <1>6. CASE \E selection \in SUBSET Student : TeacherCheck(r, selection)
    <2>1. PICK selection \in SUBSET Student : TeacherCheck(r, selection)
      BY <1>6
    <2>2. {s \in selection : bus[s] # NoBus /\ ~OnLeave(s)} \in SUBSET Student
      OBVIOUS
    <2> QED
      BY <2>1, <2>2, <1>b, TeacherAssumption, StartInv DEF TeacherCheck
  <1>7. CASE \E c \in ledger, scope \in Place : VoidRequest(r, c, scope)
    BY <1>7, <1>c, StartVoidInv DEF VoidRequest
  <1>8. CASE \E c \in ledger : UndoRequest(r, c)
    BY <1>8, <1>c, StartVoidInv DEF UndoRequest, Place
  <1> QED
    BY <1>1, <1>2, <1>3, <1>4, <1>5, <1>6, <1>7, <1>8 DEF Arrive

LEMMA SkipInv ==
  ASSUME IInv, NEW r \in Request, pc[r] \in {"wait", "guard"}, SkipInBatch(r)
  PROVE  IInv'
  <1> DEFINE j == [job[r] EXCEPT !.failed = @ \cup {job[r].cur}]
  <1>1. TypeOK /\ DbOK /\ JobOK /\ job[r].cur \in Student /\ job[r] \in Job
    BY IInvFacts, JobType DEF JobOK, JobRowOK
  <1>2. TypeOK'
    BY <1>1, SkipType
  <1>3. j \in Job
    BY <1>1, ListedType
  <1>4. j.todo = job[r].todo /\ j.status = job[r].status /\ j.op = job[r].op
    BY <1>1 DEF Job
  <1>5. Proceed(r, j, "commit") /\ UNCHANGED <<ledger, nextId, tx, xlock, slock>>
    BY DEF SkipInBatch, db
  <1> HIDE DEF j
  <1>6. JobRowOK(r)
    BY <1>1 DEF JobOK
  <1>7. JobRowOK(r)'
    BY <1>1, <1>3, <1>4, <1>5, <1>6, ProceedJob DEF JobRowOK
  <1>8. \A q \in Request \ {r} : pc'[q] = pc[q] /\ job'[q] = job[q]
    BY <1>1, <1>3, <1>5, ProceedFacts
  <1>9. DbOK'
    BY <1>1, <1>5, QuietDb
  <1> QED
    BY <1>2, <1>5, <1>7, <1>8, <1>9, StepOf

LEMMA RecordedInv ==
  ASSUME IInv, NEW r \in Request, pc[r] = "guard", RejectRecorded(r)
  PROVE  IInv'
  <1>1. CASE SkipInBatch(r)
    BY <1>1, SkipInv
  <1>2. CASE Refuse(r)
    BY <1>2, RefuseInv
  <1>3. CASE /\ job[r].op = "teacher"
             /\ Proceed(r, [job[r] EXCEPT !.failed = @ \cup {job[r].cur}], "replied")
             /\ ReleaseLocks(r)
             /\ UNCHANGED <<db, tx>>
    <2> DEFINE j == [job[r] EXCEPT !.failed = @ \cup {job[r].cur}]
    <2>1. /\ TypeOK /\ DbOK /\ JobOK /\ job[r].cur \in Student /\ job[r] \in Job
          /\ JobRowOK(r)
      BY IInvFacts, JobType DEF JobOK, JobRowOK
    <2>2. TypeOK'
      BY <2>1, RecordedType
    <2>3. j \in Job
      BY <2>1, ListedType
    <2>4. j.todo = job[r].todo /\ j.status = job[r].status
      BY <2>1 DEF Job
    <2>5. Proceed(r, j, "replied") /\ ReleaseLocks(r) /\ UNCHANGED <<ledger, nextId, tx>>
      BY <1>3 DEF db
    <2>6. tx'[r].rows = {}
      BY <1>3, <2>1, <2>5 DEF JobRowOK
    <2> HIDE DEF j
    <2>7. JobRowOK(r)'
      BY <2>1, <2>3, <2>4, <2>5, <2>6, ProceedJob DEF JobRowOK
    <2>8. \A q \in Request \ {r} : pc'[q] = pc[q] /\ job'[q] = job[q]
      BY <2>1, <2>3, <2>5, ProceedFacts
    <2>9. DbOK'
      BY <2>1, <2>5, <2>6, RollbackDb
    <2>10. \A q \in Request \ {r} : \A s \in Student : xlock[s] = q => xlock'[s] = q
      BY <2>5 DEF ReleaseLocks
    <2> QED
      BY <2>2, <2>5, <2>7, <2>8, <2>9, <2>10, StepOf
  <1> QED
    BY <1>1, <1>2, <1>3 DEF RejectRecorded

LEMMA LockInv ==
  ASSUME IInv, NEW r \in Request, LockPupil(r)
  PROVE  IInv'
  <1>0. TypeOK /\ DbOK /\ JobRowOK(r) /\ pc[r] = "wait" /\ job[r].cur \in Student
    BY IInvFacts DEF JobOK, JobRowOK, LockPupil
  <1>1. CASE RejectMissing(r)
    BY <1>0, <1>1, SkipInv, RefuseInv DEF RejectMissing
  <1>2. CASE ~RejectMissing(r)
    <2>1. /\ xlock' = [xlock EXCEPT ![job[r].cur] = r]
          /\ pc' = [pc EXCEPT ![r] = "guard"]
          /\ UNCHANGED <<db, job, tx, slock>>
          /\ xlock[job[r].cur] = None /\ slock[job[r].cur] = {}
          /\ bus[job[r].cur] # NoBus /\ bus[job[r].cur] = job[r].busOf[job[r].cur]
      BY <1>2 DEF LockPupil, RowAvailable, OnExpectedBus
    <2>2. TypeOK'
      BY <1>0, <2>1 DEF TypeOK, db, Pcs
    <2>3. JobRowOK(r)'
      BY <1>0, <2>1 DEF JobRowOK, TypeOK, Place
    <2>4. DbOK'
      <3>1. LocksOK'
        BY <1>0, <2>1 DEF DbOK, LocksOK, TypeOK
      <3>2. RowsOK'
        BY <1>0, <2>1 DEF DbOK, RowsOK, db
      <3>3. ASSUME NEW q \in Request, NEW w \in tx[q].rows PROVE PendingRowOK(q, w)'
        <4>1. PendingRowOK(q, w) /\ w \in Row
          BY <1>0, <3>3 DEF DbOK, PendingOK, TypeOK, Tx
        <4>2. w.status \in Checks => xlock'[w.student] = q
          BY <2>1, <4>1, NoneAssumption, <1>0 DEF PendingRowOK, Row, TypeOK
        <4> QED
          BY <2>1, <4>1, <4>2 DEF PendingRowOK, IsLatest, db
      <3> QED
        BY <2>1, <3>1, <3>2, <3>3 DEF DbOK, PendingOK
    <2>5. \A q \in Request \ {r} : /\ pc'[q] = pc[q]
                                   /\ \A s \in Student : xlock[s] = q => xlock'[s] = q
      BY <1>0, <2>1, NoneAssumption DEF TypeOK
    <2> QED
      BY <2>1, <2>2, <2>3, <2>4, <2>5, StepOf DEF db
  <1> QED
    BY <1>1, <1>2

LEMMA GuardInv ==
  ASSUME IInv, NEW r \in Request, GuardRead(r)
  PROVE  IInv'
  <1>0. TypeOK /\ DbOK /\ JobRowOK(r) /\ pc[r] = "guard" /\ job[r].cur \in Student
    BY IInvFacts DEF JobOK, JobRowOK, GuardRead
  <1>1. CASE RejectRecorded(r)
    BY <1>0, <1>1, RecordedInv
  <1>2. CASE ~RejectRecorded(r)
    <2>1. /\ pc' = [pc EXCEPT ![r] = "write"]
          /\ UNCHANGED <<db, job, tx, xlock, slock>>
          /\ ~\E c \in ledger : /\ c.student = job[r].cur
                                /\ IsLatest(c)
                                /\ ~Accepted(c.status, job[r].status)
      BY <1>2 DEF GuardRead
    <2>2. TypeOK'
      BY <1>0, <2>1 DEF TypeOK, db, Pcs
    <2>3. JobRowOK(r)'
      BY <1>0, <2>1 DEF JobRowOK, TypeOK, IsLatest, db
    <2>4. DbOK'
      BY <1>0, <2>1, QuietDb DEF db
    <2>5. \A q \in Request \ {r} : pc'[q] = pc[q]
      BY <1>0, <2>1 DEF TypeOK
    <2> QED
      BY <2>1, <2>2, <2>3, <2>4, <2>5, StepOf DEF db
  <1> QED
    BY <1>1, <1>2

LEMMA WriteInv ==
  ASSUME IInv, NEW r \in Request, WriteCheck(r)
  PROVE  IInv'
  <1> DEFINE s == job[r].cur
             w == [id |-> nextId, student |-> s, bus |-> job[r].busOf[s],
                   status |-> job[r].status, voids |-> 0, req |-> r]
             j == [job[r] EXCEPT !.ok = @ \cup {s}]
  <1>0. /\ TypeOK /\ DbOK /\ CurOK /\ JobRowOK(r) /\ pc[r] = "write" /\ s \in Student
        /\ job[r] \in Job /\ job[r].busOf[s] \in Bus /\ job[r].status \in Checks
    BY IInvFacts, JobType DEF JobOK, JobRowOK, WriteCheck
  <1>1. TypeOK'
    BY <1>0, WriteType
  <1>2. w \in Row
    BY <1>0 DEF Row, TypeOK, Checks, Statuses
  <1>3. /\ tx'[r].rows = tx[r].rows \cup {w}
        /\ \A q \in Request \ {r} : tx'[q] = tx[q]
        /\ nextId' = nextId + 1 /\ UNCHANGED <<ledger, xlock, slock>>
    BY <1>0 DEF WriteCheck, TypeOK, Tx
  <1>4. \A v \in tx[r].rows : v.student # w.student
    BY <1>0 DEF JobRowOK
  <1>5. xlock[w.student] = r
    BY <1>0 DEF JobRowOK
  <1>6. \A c \in ledger : c.student = w.student /\ IsLatest(c) => Accepted(c.status, w.status)
    BY <1>0 DEF JobRowOK
  <1>7. w.id = nextId /\ w.status \in Checks /\ w.student = s /\ 0 < nextId
    BY <1>0 DEF DbOK, RowsOK
  <1>8. j \in Job /\ j.todo = job[r].todo /\ j.status = job[r].status /\ j.op = job[r].op
    BY <1>0, ListedType DEF Job
  <1>9. \A v \in tx'[r].rows : v.student \notin j.todo
    BY <1>0, <1>3, <1>7, <1>8 DEF JobRowOK
  <1> HIDE DEF w
  <1>10. DbOK'
    BY <1>0, <1>2, <1>3, <1>4, <1>5, <1>6, <1>7, InsertDb
  <1>11. /\ \/ j.op = "teacher" /\ pc' = [pc EXCEPT ![r] = "commit"] /\ job' = [job EXCEPT ![r] = j]
            \/ j.op # "teacher" /\ Proceed(r, j, "commit")
    BY DEF WriteCheck
  <1> HIDE DEF j, s
  <1>12. JobRowOK(r)' /\ \A q \in Request \ {r} : pc'[q] = pc[q] /\ job'[q] = job[q]
    <2>1. CASE j.op = "teacher"
      BY <1>0, <1>8, <1>11, <2>1 DEF JobRowOK, TypeOK
    <2>2. CASE j.op # "teacher"
      BY <1>0, <1>8, <1>9, <1>11, <2>2, ProceedJob, ProceedFacts
    <2> QED
      BY <2>1, <2>2
  <1> QED
    BY <1>1, <1>3, <1>10, <1>12, StepOf

LEMMA CommitInv ==
  ASSUME IInv, NEW r \in Request, Commit(r)
  PROVE  IInv'
  <1>0. TypeOK /\ DbOK /\ JobRowOK(r) /\ pc[r] = "commit" /\ job[r] \in Job
    BY IInvFacts, JobType DEF JobOK, Commit
  <1>1. TypeOK'
    BY <1>0, CommitType
  <1>2. DbOK'
    BY <1>0, CommitDb
  <1>3. /\ tx'[r].rows = {} /\ \A q \in Request \ {r} : tx'[q] = tx[q]
        /\ ledger' = ledger \cup tx[r].rows
        /\ Proceed(r, job[r], "replied") /\ ReleaseLocks(r)
    BY <1>0, EmptyTxType DEF Commit, TypeOK
  <1>4. JobRowOK(r)'
    BY <1>0, <1>3, ProceedJob DEF JobRowOK
  <1>5. \A q \in Request \ {r} : /\ pc'[q] = pc[q] /\ job'[q] = job[q]
                                 /\ \A s \in Student : xlock[s] = q => xlock'[s] = q
    BY <1>0, <1>3, ProceedFacts DEF ReleaseLocks
  <1>6. ASSUME NEW q \in Request \ {r}, NEW c \in ledger' \ ledger
        PROVE  xlock[c.student] # q
    <2>1. c \in tx[r].rows /\ c \in Row
      BY <1>0, <1>3, <1>6 DEF TypeOK, Tx
    <2>2. c.student \in Student
      BY <2>1 DEF Row
    <2> QED
      BY <1>0, <2>1, <2>2, LockedPupil
  <1> QED
    BY <1>1, <1>2, <1>3, <1>4, <1>5, <1>6, StepOf

LEMMA VictimInv ==
  ASSUME IInv, NEW r \in Request, DeadlockVictim(r)
  PROVE  IInv'
  <1>1. CASE Refuse(r)
    BY <1>1, RefuseInv
  <1>2. CASE /\ Proceed(r, FreshAttempt(job[r]), "commit")
             /\ tx' = [tx EXCEPT ![r] = EmptyTx]
             /\ ReleaseLocks(r)
             /\ UNCHANGED db
    <2> DEFINE j == FreshAttempt(job[r])
    <2>0. TypeOK /\ DbOK /\ JobRowOK(r) /\ pc[r] = "wait" /\ job[r] \in Job
      BY IInvFacts, JobType DEF JobOK, DeadlockVictim
    <2>1. TypeOK'
      BY <2>0, VictimType
    <2>2. j \in Job /\ j.status = job[r].status
      <3> DEFINE k == job[r]
      <3>1. k \in Job /\ k.attempt + 1 \in Nat
        BY <2>0 DEF Job
      <3> HIDE DEF k
      <3>2. LET f == [k EXCEPT !.attempt = k.attempt + 1, !.todo = k.plan, !.ok = {}, !.failed = {}]
            IN f \in Job /\ f.status = k.status
        BY <3>1 DEF Job
      <3> QED
        BY <3>2 DEF FreshAttempt, k
    <2>3. /\ tx'[r].rows = {} /\ \A q \in Request \ {r} : tx'[q] = tx[q]
          /\ UNCHANGED <<ledger, nextId>>
      BY <1>2, <2>0, EmptyTxType DEF TypeOK, db
    <2>4. DbOK'
      BY <1>2, <2>0, <2>3, RollbackDb
    <2> HIDE DEF j
    <2>5. JobRowOK(r)'
      <3>1. j.status \in Checks
        BY <2>0, <2>2 DEF JobRowOK
      <3>2. Proceed(r, j, "commit")
        BY <1>2 DEF j
      <3> QED
        BY <2>0, <2>2, <2>3, <3>1, <3>2, ProceedJob
    <2>6. \A q \in Request \ {r} : /\ pc'[q] = pc[q] /\ job'[q] = job[q]
                                   /\ \A s \in Student : xlock[s] = q => xlock'[s] = q
      <3>1. Proceed(r, j, "commit")
        BY <1>2 DEF j
      <3> QED
        BY <1>2, <2>0, <2>2, <3>1, ProceedFacts DEF ReleaseLocks
    <2> QED
      BY <2>1, <2>3, <2>4, <2>5, <2>6, StepOf
  <1> QED
    BY <1>1, <1>2 DEF DeadlockVictim

LEMMA VoidLockInv ==
  ASSUME IInv, NEW r \in Request, VoidLock(r)
  PROVE  IInv'
  <1>1. CASE Refuse(r)
    BY <1>1, RefuseInv
  <1>2. CASE pc' = [pc EXCEPT ![r] = "vinsert"] /\ UNCHANGED <<db, job, tx, xlock, slock>>
    <2>0. TypeOK /\ DbOK /\ CurOK /\ JobRowOK(r) /\ pc[r] = "vlock"
      BY IInvFacts DEF JobOK, VoidLock
    <2>1. TypeOK'
      BY <2>0, VoidType
    <2>2. JobRowOK(r)'
      BY <1>2, <2>0 DEF JobRowOK, TypeOK, db
    <2>3. DbOK'
      BY <1>2, <2>0, QuietDb DEF db
    <2>4. \A q \in Request \ {r} : pc'[q] = pc[q]
      BY <1>2, <2>0 DEF TypeOK
    <2> QED
      BY <1>2, <2>1, <2>2, <2>3, <2>4, StepOf DEF db
  <1> QED
    BY <1>1, <1>2 DEF VoidLock

LEMMA VoidInsertInv ==
  ASSUME IInv, NEW r \in Request, VoidInsert(r)
  PROVE  IInv'
  <1>0. TypeOK /\ DbOK /\ CurOK /\ JobRowOK(r) /\ pc[r] = "vinsert" /\ job[r].cur \in Student
    BY IInvFacts DEF JobOK, JobRowOK, VoidInsert
  <1>1. TypeOK'
    BY <1>0, VoidType
  <1>2. PICK c \in ledger :
          /\ c.id = job[r].target
          /\ tx' = [tx EXCEPT ![r].rows =
                       {[id |-> nextId, student |-> c.student, bus |-> c.bus,
                         status |-> "CANCELLED", voids |-> c.id, req |-> r]}]
    BY DEF VoidInsert
  <1> DEFINE w == [id |-> nextId, student |-> c.student, bus |-> c.bus,
                   status |-> "CANCELLED", voids |-> c.id, req |-> r]
  <1>3. c.student = job[r].cur
    BY <1>0, <1>2 DEF JobRowOK, DbOK, RowsOK
  <1>4. w \in Row
    BY <1>0 DEF TypeOK, Row, Statuses
  <1>5. tx[r].rows = {}
    BY <1>0 DEF JobRowOK
  <1>6. /\ tx'[r].rows = tx[r].rows \cup {w}
        /\ \A q \in Request \ {r} : tx'[q] = tx[q]
    BY <1>0, <1>2, <1>5 DEF TypeOK, Tx
  <1>7. /\ nextId' = nextId + 1 /\ ledger' = ledger /\ xlock' = xlock /\ job' = job
        /\ xlock[w.student] = None
        /\ slock' = [slock EXCEPT ![w.student] = @ \cup {r}]
        /\ pc' = [pc EXCEPT ![r] = "vmark"]
    BY <1>3 DEF VoidInsert, ForeignKeyReadable
  <1>8. w.id = nextId /\ w.status = "CANCELLED" /\ 0 < nextId
    BY <1>0 DEF DbOK, RowsOK
  <1> HIDE DEF w
  <1>9. DbOK'
    BY <1>0, <1>4, <1>5, <1>6, <1>7, <1>8, InsertDb
  <1>10. JobRowOK(r)' /\ \A q \in Request \ {r} : pc'[q] = pc[q]
    BY <1>0, <1>7 DEF JobRowOK, TypeOK
  <1> QED
    BY <1>1, <1>6, <1>7, <1>9, <1>10, StepOf

LEMMA VoidMarkInv ==
  ASSUME IInv, NEW r \in Request, VoidMark(r)
  PROVE  IInv'
  <1>0. TypeOK /\ DbOK /\ CurOK /\ JobRowOK(r) /\ pc[r] = "vmark" /\ tx[r] \in Tx
    BY IInvFacts, JobType DEF JobOK, VoidMark
  <1>1. TypeOK'
    BY <1>0, VoidType
  <1>2. \A q \in Request : tx'[q].rows = tx[q].rows
    BY <1>0 DEF VoidMark, TypeOK, Tx
  <1>3. UNCHANGED <<ledger, nextId, job, xlock, slock>> /\ pc' = [pc EXCEPT ![r] = "commit"]
    BY DEF VoidMark, db
  <1>4. JobRowOK(r)' /\ \A q \in Request \ {r} : pc'[q] = pc[q]
    BY <1>0, <1>3 DEF JobRowOK, TypeOK
  <1>5. DbOK'
    BY <1>0, <1>2, <1>3, QuietDb
  <1> QED
    BY <1>1, <1>2, <1>3, <1>4, <1>5, StepOf

LEMMA EditInv ==
  ASSUME IInv, NEW s \in Student, SchoolEdit(s)
  PROVE  IInv'
  <1>0. TypeOK /\ DbOK /\ JobOK
    BY IInvFacts
  <1>1. TypeOK'
    BY <1>0, EditType
  <1>2. UNCHANGED <<ledger, nextId, pc, job, tx, xlock, slock>>
    BY DEF SchoolEdit, MovePupil, CreateLeave, CancelLeave
  <1>3. DbOK'
    BY <1>0, <1>2, QuietDb
  <1>4. JobOK'
    BY <1>0, <1>2 DEF JobOK, JobRowOK, IsLatest
  <1> QED
    BY <1>1, <1>3, <1>4 DEF IInv, DbOK

LEMMA InitInv == Init => IInv
  <1> SUFFICES ASSUME Init PROVE IInv
    OBVIOUS
  <1>1. NoJob \in Job /\ NoJob.op = "none"
    BY AttemptsAssumption DEF NoJob, Job, Place, Ops, Statuses
  <1>2. TypeOK
    BY <1>1, EmptyTxType DEF Init, TypeOK, Pcs
  <1>3. \A r \in Request : tx[r].rows = {} /\ pc[r] = "new"
    BY EmptyTxType DEF Init
  <1> QED
    BY <1>2, <1>3 DEF Init, IInv, LocksOK, RowsOK, PendingOK, JobOK, JobRowOK

LEMMA NextInv == IInv /\ [Next]_vars => IInv'
  <1> SUFFICES ASSUME IInv, [Next]_vars PROVE IInv'
    OBVIOUS
  <1>1. CASE UNCHANGED vars
    <2>1. UNCHANGED <<ledger, nextId, pc, job, tx, xlock, slock>> /\ TypeOK /\ DbOK /\ JobOK
      BY <1>1, IInvFacts DEF vars
    <2>2. TypeOK'
      BY <1>1, <2>1 DEF vars, TypeOK
    <2>3. DbOK' /\ JobOK'
      BY <2>1, QuietDb DEF JobOK, JobRowOK, IsLatest
    <2> QED
      BY <2>2, <2>3 DEF IInv, DbOK
  <1>2. ASSUME NEW r \in Request, Statement(r) PROVE IInv'
    BY <1>2, LockInv, GuardInv, WriteInv, CommitInv, VictimInv, VoidLockInv,
       VoidInsertInv, VoidMarkInv DEF Statement
  <1> QED
    BY <1>1, <1>2, ArriveInv, EditInv DEF Next, DayOver

\* Type correctness of every reachable state, from the inductive invariant.
THEOREM TypeCorrect == Spec => []TypeOK
  <1>1. IInv => TypeOK
    BY DEF IInv
  <1> QED
    BY <1>1, InitInv, NextInv, PTL DEF Spec

-----------------------------------------------------------------------------
(* The ledger alternates *)

\* Only COMMIT changes the committed rows.
LEMMA LedgerStep ==
  ASSUME [Next]_vars
  PROVE  ledger' = ledger \/ \E r \in Request : Commit(r)
  BY DEF Next, Arrive, Statement, SchoolEdit, DayOver, vars, db, Tap, CheckinAll, CheckoutAll,
         Override, OverrideAll, TeacherCheck, VoidRequest, UndoRequest, StartVoid, Start,
         LockPupil, GuardRead, WriteCheck, DeadlockVictim, VoidLock, VoidInsert, VoidMark,
         RejectMissing, RejectRecorded, SkipInBatch, Refuse, MovePupil, CreateLeave, CancelLeave

LEMMA CommitAlternates ==
  ASSUME IInv, LedgerAlternates, NEW r \in Request, Commit(r)
  PROVE  LedgerAlternates'
  <1>1. TypeOK /\ DbOK /\ ledger' = ledger \cup tx[r].rows
    BY IInvFacts DEF Commit
  <1>2. \A c \in ledger' : c \in Row
    BY <1>1 DEF TypeOK, Tx
  <1> SUFFICES ASSUME NEW c \in ledger', NEW d \in ledger',
                      c.student = d.student, c.id < d.id,
                      \A e \in ledger' : e.student = c.student => e.id <= c.id \/ d.id <= e.id,
                      d.status # "CANCELLED"
               PROVE  Accepted(c.status, d.status)
    BY DEF LedgerAlternates
  <1>3. c.status \in Statuses /\ d.status \in Checks /\ c.id \in Nat /\ d.id \in Nat
    BY <1>2 DEF Row, Statuses, Checks
  <1>4. CASE c.status = "CANCELLED"
    BY <1>3, <1>4 DEF Accepted, Checks
  <1>5. CASE c \in ledger /\ d \in ledger
    BY <1>1, <1>5 DEF LedgerAlternates
  <1>6. CASE c \in ledger /\ d \in tx[r].rows
    <2>1. \A e \in ledger : e.student = d.student => e.id < d.id /\ (IsLatest(e) => Accepted(e.status, d.status))
      BY <1>1, <1>3, <1>6 DEF DbOK, PendingOK, PendingRowOK
    <2>2. \A e \in ledger : e.student = c.student => e.id <= c.id
      BY <1>1, <1>2, <1>3, <2>1 DEF Row
    <2> QED
      BY <1>6, <2>1, <2>2 DEF IsLatest
  <1>7. CASE c \in tx[r].rows /\ c.status \in Checks
    <2>1. PendingRowOK(r, c)
      BY <1>1, <1>7 DEF DbOK, PendingOK
    <2>2. CASE d \in ledger
      BY <1>3, <1>7, <2>1, <2>2 DEF PendingRowOK
    <2>3. CASE d \in tx[r].rows
      BY <1>3, <2>1, <2>3 DEF PendingRowOK
    <2> QED
      BY <1>1, <2>2, <2>3
  <1> QED
    BY <1>1, <1>3, <1>4, <1>5, <1>6, <1>7 DEF Statuses, Checks

\* LedgerAlternates for any number of pupils, buses and requests: whatever the
\* interleaving of taps, batches, overrides, teacher checks and voids, no pupil
\* is boarded twice, dropped twice, or boarded after a drop-off, without a void.
THEOREM LedgerAlternatesAlways == Spec => []LedgerAlternates
  <1>1. Init => LedgerAlternates
    BY DEF Init, LedgerAlternates
  <1>2. IInv /\ LedgerAlternates /\ [Next]_vars => LedgerAlternates'
    <2> SUFFICES ASSUME IInv, LedgerAlternates, [Next]_vars PROVE LedgerAlternates'
      OBVIOUS
    <2>1. CASE ledger' = ledger
      BY <2>1 DEF LedgerAlternates
    <2> QED
      BY <2>1, LedgerStep, CommitAlternates
  <1> QED
    BY <1>1, <1>2, InitInv, NextInv, PTL DEF Spec

-----------------------------------------------------------------------------
(* One void per row *)

\* r is a void that has locked its target row.
HoldsTarget(r) == pc[r] \in {"vinsert", "vmark", "commit"} /\ job[r].target # 0

\* A compensating row points at an older committed row of the same pupil.
Compensates(w) ==
    /\ w.status = "CANCELLED"
    /\ \E t \in ledger : t.id = w.voids /\ t.student = w.student /\ t.id < w.id

VoidJobOK(r) ==
    /\ pc[r] \in {"new", "wait", "guard", "write"} => job[r].target = 0
    /\ pc[r] = "commit" /\ job[r].todo # {} => job[r].target = 0
    /\ HoldsTarget(r) => \A c \in ledger : c.voids # job[r].target
    /\ \A q \in Request \ {r} :
          HoldsTarget(r) /\ HoldsTarget(q) => job[q].target # job[r].target

VoidRowsOK(r) ==
    \A w \in tx[r].rows :
       /\ w.status = "CANCELLED" => w.voids # 0
       /\ w.voids # 0 => /\ Compensates(w)
                         /\ w.voids = job[r].target
                         /\ pc[r] \in {"vmark", "commit"}

VoidsOK ==
    /\ \A c \in ledger : c.voids # 0 => Compensates(c)
    /\ \A r \in Request : VoidJobOK(r) /\ VoidRowsOK(r)

\* A step of r that neither commits nor takes a target row nor inserts.
LEMMA VoidFrame ==
  ASSUME IInv, VoidsOK, NEW r \in Request, ledger' = ledger,
         \A q \in Request \ {r} : pc'[q] = pc[q] /\ job'[q] = job[q] /\ tx'[q].rows = tx[q].rows,
         pc'[r] \in {"new", "wait", "guard", "write"} => job'[r].target = 0,
         pc'[r] = "commit" /\ job'[r].todo # {} => job'[r].target = 0,
         HoldsTarget(r)' => HoldsTarget(r) /\ job'[r].target = job[r].target,
         \/ tx'[r].rows = {}
         \/ /\ \A w \in tx'[r].rows : w \in tx[r].rows \/ (w.status # "CANCELLED" /\ w.voids = 0)
            /\ job'[r].target = job[r].target
            /\ pc[r] \in {"vmark", "commit"} => pc'[r] \in {"vmark", "commit"}
  PROVE  VoidsOK'
  <1>1. \A c \in ledger' : c.voids # 0 => Compensates(c)'
    BY DEF VoidsOK, Compensates
  <1>2. \A q \in Request : VoidRowsOK(q)'
    BY DEF VoidsOK, VoidRowsOK, Compensates
  <1>3. \A q \in Request : VoidJobOK(q)'
    BY DEF VoidsOK, VoidJobOK, HoldsTarget
  <1> QED
    BY <1>1, <1>2, <1>3 DEF VoidsOK

\* Going on with a check keeps target 0.
LEMMA ProceedTarget ==
  ASSUME TypeOK, NEW r \in Request, NEW j \in Job, NEW otherwise \in {"commit", "replied"},
         Proceed(r, j, otherwise)
  PROVE  /\ j.target = 0 => job'[r].target = 0
         /\ pc'[r] \in {otherwise, "wait"}
         /\ j.todo = {} => pc'[r] = otherwise
         /\ pc'[r] # "commit" => pc'[r] \in {"replied", "wait"}
  <1>1. CASE j.todo = {}
    BY <1>1 DEF Proceed, TypeOK, Answered, NoJob
  <1>2. CASE j.todo # {}
    <2>1. PICK s \in j.todo : job'[r] = [j EXCEPT !.cur = s, !.todo = @ \ {s}]
      BY <1>2 DEF Proceed, TypeOK
    <2>2. job'[r].target = j.target
      BY <2>1 DEF Job
    <2> QED
      BY <1>2, <2>2 DEF Proceed, TypeOK
  <1> QED
    BY <1>1, <1>2

LEMMA CheckFrame ==
  ASSUME IInv, VoidsOK, NEW r \in Request, ledger' = ledger,
         pc[r] \in {"new", "wait", "guard", "write", "vlock"},
         \A q \in Request \ {r} : pc'[q] = pc[q] /\ job'[q] = job[q] /\ tx'[q].rows = tx[q].rows,
         job'[r].target = 0 \/ pc'[r] = "vlock",
         \/ tx'[r].rows = {}
         \/ /\ pc[r] # "vlock" /\ pc'[r] # "vlock"
            /\ \A w \in tx'[r].rows : w \in tx[r].rows \/ (w.status # "CANCELLED" /\ w.voids = 0)
  PROVE  VoidsOK'
  BY VoidFrame DEF VoidsOK, VoidJobOK, HoldsTarget

LEMMA RefuseVoids ==
  ASSUME IInv, VoidsOK, NEW r \in Request, Refuse(r),
         pc[r] \in {"new", "wait", "guard", "write", "vlock"}
  PROVE  VoidsOK'
  <1>1. TypeOK
    BY IInvFacts
  <1>2. /\ tx'[r].rows = {} /\ ledger' = ledger
        /\ \A q \in Request \ {r} : tx'[q] = tx[q] /\ pc'[q] = pc[q] /\ job'[q] = job[q]
    BY <1>1, EmptyTxType DEF Refuse, TypeOK, db
  <1>3. job'[r].target = 0
    BY <1>1 DEF Refuse, TypeOK, NoJob
  <1> QED
    BY <1>2, <1>3, CheckFrame

\* A check that goes on with its next pupil, keeping or dropping its rows.
LEMMA ProceedVoids ==
  ASSUME IInv, VoidsOK, NEW r \in Request, pc[r] \in {"new", "wait", "guard", "write"},
         NEW j \in Job, NEW otherwise \in {"commit", "replied"}, Proceed(r, j, otherwise),
         j.target = 0, ledger' = ledger,
         \A q \in Request \ {r} : tx'[q].rows = tx[q].rows,
         \/ tx'[r].rows = {}
         \/ \A w \in tx'[r].rows : w \in tx[r].rows \/ (w.status # "CANCELLED" /\ w.voids = 0)
  PROVE  VoidsOK'
  <1>1. TypeOK
    BY IInvFacts
  <1>2. \A q \in Request \ {r} : job'[q] = job[q] /\ pc'[q] = pc[q]
    BY <1>1 DEF Proceed, TypeOK
  <1>3. job'[r].target = 0 /\ pc'[r] # "vlock"
    BY <1>1, ProceedTarget
  <1> QED
    BY <1>2, <1>3, CheckFrame

LEMMA SkipVoids ==
  ASSUME IInv, VoidsOK, NEW r \in Request, pc[r] \in {"wait", "guard"}, SkipInBatch(r)
  PROVE  VoidsOK'
  <1> DEFINE j == [job[r] EXCEPT !.failed = @ \cup {job[r].cur}]
  <1>1. job[r] \in Job /\ job[r].cur \in Student
    BY IInvFacts, JobType DEF JobOK, JobRowOK
  <1>2. j \in Job /\ j.target = job[r].target
    BY <1>1, ListedType DEF Job
  <1>3. job[r].target = 0
    BY DEF VoidsOK, VoidJobOK
  <1>4. Proceed(r, j, "commit") /\ UNCHANGED <<ledger, tx>>
    BY DEF SkipInBatch, db
  <1> HIDE DEF j
  <1> QED
    BY <1>2, <1>3, <1>4, ProceedVoids

LEMMA ArriveVoids ==
  ASSUME IInv, VoidsOK, NEW r \in Request, Arrive(r), IInv'
  PROVE  VoidsOK'
  <1>0. TypeOK /\ JobRowOK(r) /\ TypeOK'
    BY IInvFacts DEF JobOK, IInv
  <1>1. ASSUME NEW op, NEW status, NEW plan, NEW busOf, Start(r, op, status, plan, busOf)
        PROVE  VoidsOK'
    <2>1. pc[r] = "new" /\ UNCHANGED <<ledger, tx>> /\ tx[r].rows = {}
      BY <1>0, <1>1 DEF Start, db, JobRowOK
    <2>2. \A q \in Request \ {r} : pc'[q] = pc[q] /\ job'[q] = job[q]
      BY <1>0, <1>1 DEF Start, Proceed, TypeOK
    <2>3. job'[r].target = 0
      <3> DEFINE j == [NoJob EXCEPT !.op = op, !.status = status, !.plan = plan, !.todo = plan,
                      !.busOf = [s \in Student |-> IF s \in plan THEN busOf[s] ELSE NoBus]]
      <3>1. /\ DOMAIN j = DOMAIN NoJob /\ j.target = 0
            /\ \A s : [j EXCEPT !.cur = s, !.todo = @ \ {s}].target = 0
        BY DEF NoJob
      <3>2. Proceed(r, j, "commit")
        BY <1>1 DEF Start
      <3> HIDE DEF j
      <3>3. CASE j.todo = {}
        BY <1>0, <3>1, <3>2, <3>3 DEF Proceed, TypeOK
      <3>4. CASE j.todo # {}
        <4>1. PICK s \in j.todo : job'[r] = [j EXCEPT !.cur = s, !.todo = @ \ {s}]
          BY <1>0, <3>2, <3>4 DEF Proceed, TypeOK
        <4> QED
          BY <3>1, <4>1
      <3> QED
        BY <3>3, <3>4
    <2> QED
      BY <2>1, <2>2, <2>3, CheckFrame
  <1>2. ASSUME NEW op, NEW c \in ledger, NEW scope, StartVoid(r, op, c, scope)
        PROVE  VoidsOK'
    <2>1. pc[r] = "new" /\ pc'[r] = "vlock" /\ UNCHANGED <<ledger, tx>> /\ tx[r].rows = {}
      BY <1>0, <1>2 DEF StartVoid, TypeOK, db, JobRowOK
    <2>2. \A q \in Request \ {r} : pc'[q] = pc[q] /\ job'[q] = job[q]
      BY <1>0, <1>2 DEF StartVoid, TypeOK
    <2> QED
      BY <2>1, <2>2, CheckFrame
  <1> QED
    BY <1>1, <1>2 DEF Arrive, Tap, CheckinAll, CheckoutAll, Override, OverrideAll, TeacherCheck,
       VoidRequest, UndoRequest

LEMMA LockVoids ==
  ASSUME IInv, VoidsOK, NEW r \in Request, LockPupil(r)
  PROVE  VoidsOK'
  <1>0. TypeOK /\ pc[r] = "wait" /\ job[r].target = 0
    BY IInvFacts DEF LockPupil, VoidsOK, VoidJobOK
  <1>1. CASE RejectMissing(r)
    BY <1>0, <1>1, SkipVoids, RefuseVoids DEF RejectMissing
  <1>2. CASE ~RejectMissing(r)
    <2>1. pc' = [pc EXCEPT ![r] = "guard"] /\ UNCHANGED <<ledger, job, tx>>
      BY <1>2 DEF LockPupil, db
    <2> QED
      BY <1>0, <2>1, CheckFrame DEF TypeOK
  <1> QED
    BY <1>1, <1>2

LEMMA GuardVoids ==
  ASSUME IInv, VoidsOK, NEW r \in Request, GuardRead(r)
  PROVE  VoidsOK'
  <1>0. TypeOK /\ pc[r] = "guard" /\ job[r].target = 0 /\ job[r] \in Job /\ job[r].cur \in Student
    BY IInvFacts, JobType DEF GuardRead, VoidsOK, VoidJobOK, JobOK, JobRowOK
  <1>1. CASE SkipInBatch(r)
    BY <1>0, <1>1, SkipVoids
  <1>2. CASE Refuse(r)
    BY <1>0, <1>2, RefuseVoids
  <1>3. CASE /\ Proceed(r, [job[r] EXCEPT !.failed = @ \cup {job[r].cur}], "replied")
             /\ UNCHANGED <<db, tx>>
    <2> DEFINE j == [job[r] EXCEPT !.failed = @ \cup {job[r].cur}]
    <2>1. j \in Job /\ j.target = 0
      BY <1>0, ListedType DEF Job
    <2>2. Proceed(r, j, "replied") /\ UNCHANGED <<ledger, tx>>
      BY <1>3 DEF db
    <2> HIDE DEF j
    <2> QED
      BY <1>0, <2>1, <2>2, ProceedVoids
  <1>4. CASE pc' = [pc EXCEPT ![r] = "write"] /\ UNCHANGED <<db, job, tx>>
    BY <1>0, <1>4, CheckFrame DEF TypeOK, db
  <1> QED
    BY <1>1, <1>2, <1>3, <1>4 DEF GuardRead, RejectRecorded

LEMMA WriteVoids ==
  ASSUME IInv, VoidsOK, NEW r \in Request, WriteCheck(r)
  PROVE  VoidsOK'
  <1> DEFINE s == job[r].cur
             w == [id |-> nextId, student |-> s, bus |-> job[r].busOf[s],
                   status |-> job[r].status, voids |-> 0, req |-> r]
             j == [job[r] EXCEPT !.ok = @ \cup {s}]
  <1>0. /\ TypeOK /\ pc[r] = "write" /\ job[r].target = 0 /\ job[r] \in Job /\ s \in Student
        /\ job[r].status \in Checks
    BY IInvFacts, JobType DEF WriteCheck, VoidsOK, VoidJobOK, JobOK, JobRowOK
  <1>1. w.status # "CANCELLED" /\ w.voids = 0
    BY <1>0 DEF Checks
  <1>2. /\ tx'[r].rows = tx[r].rows \cup {w}
        /\ \A q \in Request \ {r} : tx'[q] = tx[q]
        /\ ledger' = ledger
    BY <1>0 DEF WriteCheck, TypeOK, Tx
  <1>3. j \in Job /\ j.target = 0
    BY <1>0, ListedType DEF Job
  <1>4. \/ pc' = [pc EXCEPT ![r] = "commit"] /\ job' = [job EXCEPT ![r] = j]
        \/ Proceed(r, j, "commit")
    BY DEF WriteCheck
  <1> HIDE DEF w, j, s
  <1>5. CASE pc' = [pc EXCEPT ![r] = "commit"] /\ job' = [job EXCEPT ![r] = j]
    BY <1>0, <1>1, <1>2, <1>3, <1>5, CheckFrame DEF TypeOK
  <1>6. CASE Proceed(r, j, "commit")
    BY <1>0, <1>1, <1>2, <1>3, <1>6, ProceedVoids
  <1> QED
    BY <1>4, <1>5, <1>6

LEMMA VictimVoids ==
  ASSUME IInv, VoidsOK, NEW r \in Request, DeadlockVictim(r)
  PROVE  VoidsOK'
  <1>0. TypeOK /\ pc[r] = "wait" /\ job[r].target = 0 /\ job[r] \in Job
    BY IInvFacts, JobType DEF DeadlockVictim, VoidsOK, VoidJobOK
  <1>1. CASE Refuse(r)
    BY <1>0, <1>1, RefuseVoids
  <1>2. CASE /\ Proceed(r, FreshAttempt(job[r]), "commit")
             /\ tx' = [tx EXCEPT ![r] = EmptyTx]
             /\ UNCHANGED db
    <2> DEFINE j == FreshAttempt(job[r])
    <2>1. j \in Job /\ j.target = 0
      <3> DEFINE k == job[r]
      <3>1. k \in Job /\ k.attempt + 1 \in Nat /\ k.target = 0
        BY <1>0 DEF Job
      <3> HIDE DEF k
      <3>2. LET f == [k EXCEPT !.attempt = k.attempt + 1, !.todo = k.plan, !.ok = {}, !.failed = {}]
            IN f \in Job /\ f.target = 0
        BY <3>1 DEF Job
      <3> QED
        BY <3>2 DEF FreshAttempt, k
    <2>2. Proceed(r, j, "commit") /\ ledger' = ledger /\ tx'[r].rows = {}
          /\ \A q \in Request \ {r} : tx'[q] = tx[q]
      BY <1>0, <1>2, EmptyTxType DEF TypeOK, db
    <2> HIDE DEF j
    <2> QED
      BY <1>0, <2>1, <2>2, ProceedVoids
  <1> QED
    BY <1>1, <1>2 DEF DeadlockVictim

LEMMA VoidLockVoids ==
  ASSUME IInv, VoidsOK, NEW r \in Request, VoidLock(r)
  PROVE  VoidsOK'
  <1>0. TypeOK /\ DbOK /\ JobRowOK(r) /\ pc[r] = "vlock"
    BY IInvFacts DEF VoidLock, JobOK
  <1>1. CASE Refuse(r)
    BY <1>0, <1>1, RefuseVoids
  <1>2. CASE ~Refuse(r)
    <2>1. PICK c \in ledger : c.id = job[r].target /\ c.status # "CANCELLED" /\ ~VoidedSince(c)
      BY <1>2 DEF VoidLock
    <2>2. /\ pc' = [pc EXCEPT ![r] = "vinsert"] /\ UNCHANGED <<ledger, job, tx>>
          /\ RowFree(job[r].target, r)
      BY <1>2 DEF VoidLock, db
    <2>3. ASSUME NEW d \in ledger, d.voids = job[r].target
          PROVE  FALSE
      <3>1. d.voids # 0 /\ c \in Row /\ d \in Row
        BY <1>0, <2>1, <2>3 DEF DbOK, RowsOK, TypeOK
      <3>2. d.status = "CANCELLED" /\ d.student = c.student /\ d.id > c.id
        BY <1>0, <2>1, <2>3, <3>1 DEF VoidsOK, Compensates, DbOK, RowsOK, Row
      <3> QED
        BY <2>1, <3>2 DEF VoidedSince
    <2>4. \A q \in Request \ {r} : HoldsTarget(q) => job[q].target # job[r].target
      BY <2>2 DEF RowFree, HoldsTarget
    <2>5. tx[r].rows = {}
      BY <1>0 DEF JobRowOK
    <2>6. \A q \in Request \ {r} : pc'[q] = pc[q]
      BY <1>0, <2>2 DEF TypeOK
    <2>7. pc'[r] = "vinsert"
      BY <1>0, <2>2 DEF TypeOK
    <2>8. \A q \in Request : VoidRowsOK(q)'
      BY <2>2, <2>5, <2>6 DEF VoidsOK, VoidRowsOK, Compensates
    <2>9. \A q \in Request : VoidJobOK(q)'
      BY <2>2, <2>3, <2>4, <2>6, <2>7 DEF VoidsOK, VoidJobOK, HoldsTarget
    <2> QED
      BY <2>2, <2>8, <2>9 DEF VoidsOK, Compensates
  <1> QED
    BY <1>1, <1>2

LEMMA VoidInsertVoids ==
  ASSUME IInv, VoidsOK, NEW r \in Request, VoidInsert(r)
  PROVE  VoidsOK'
  <1>0. TypeOK /\ DbOK /\ pc[r] = "vinsert"
    BY IInvFacts DEF VoidInsert
  <1>1. PICK c \in ledger :
          /\ c.id = job[r].target
          /\ tx' = [tx EXCEPT ![r].rows =
                       {[id |-> nextId, student |-> c.student, bus |-> c.bus,
                         status |-> "CANCELLED", voids |-> c.id, req |-> r]}]
    BY DEF VoidInsert
  <1> DEFINE w == [id |-> nextId, student |-> c.student, bus |-> c.bus,
                   status |-> "CANCELLED", voids |-> c.id, req |-> r]
  <1>2. tx'[r].rows = {w} /\ \A q \in Request \ {r} : tx'[q] = tx[q]
    BY <1>0, <1>1 DEF TypeOK, Tx
  <1>3. UNCHANGED <<ledger, job>> /\ pc' = [pc EXCEPT ![r] = "vmark"]
    BY DEF VoidInsert
  <1>4. /\ w.status = "CANCELLED" /\ w.voids = job[r].target /\ w.voids # 0
        /\ c.id = w.voids /\ c.student = w.student /\ c.id < w.id
    BY <1>0, <1>1 DEF DbOK, RowsOK
  <1> HIDE DEF w
  <1>5. pc'[r] = "vmark" /\ \A q \in Request \ {r} : pc'[q] = pc[q]
    BY <1>0, <1>3 DEF TypeOK
  <1>6. ASSUME NEW q \in Request PROVE VoidRowsOK(q)'
    <2>1. CASE q = r
      BY <1>1, <1>2, <1>3, <1>4, <1>5, <2>1 DEF VoidRowsOK, Compensates
    <2>2. CASE q # r
      BY <1>2, <1>3, <1>5, <2>2 DEF VoidsOK, VoidRowsOK, Compensates
    <2> QED
      BY <2>1, <2>2
  <1>7. \A q \in Request : VoidJobOK(q)'
    BY <1>0, <1>3, <1>5 DEF VoidsOK, VoidJobOK, HoldsTarget
  <1> QED
    BY <1>3, <1>6, <1>7 DEF VoidsOK, Compensates

LEMMA VoidMarkVoids ==
  ASSUME IInv, VoidsOK, NEW r \in Request, VoidMark(r)
  PROVE  VoidsOK'
  <1>0. TypeOK /\ pc[r] = "vmark" /\ tx[r] \in Tx /\ job[r].todo = {}
    BY IInvFacts, JobType DEF VoidMark, JobOK, JobRowOK
  <1>1. \A q \in Request : tx'[q].rows = tx[q].rows
    BY <1>0 DEF VoidMark, TypeOK, Tx
  <1>2. UNCHANGED <<ledger, job>> /\ pc' = [pc EXCEPT ![r] = "commit"]
    BY DEF VoidMark, db
  <1>3. pc'[r] = "commit" /\ \A q \in Request \ {r} : pc'[q] = pc[q]
    BY <1>0, <1>2 DEF TypeOK
  <1> QED
    BY <1>0, <1>1, <1>2, <1>3, VoidFrame DEF HoldsTarget

LEMMA CommitVoids ==
  ASSUME IInv, VoidsOK, NEW r \in Request, Commit(r)
  PROVE  VoidsOK'
  <1>0. TypeOK /\ pc[r] = "commit" /\ job[r] \in Job
    BY IInvFacts, JobType DEF Commit
  <1>1. /\ ledger' = ledger \cup tx[r].rows
        /\ tx'[r].rows = {} /\ \A q \in Request \ {r} : tx'[q] = tx[q]
        /\ Proceed(r, job[r], "replied")
    BY <1>0, EmptyTxType DEF Commit, TypeOK
  <1>2. \A q \in Request \ {r} : pc'[q] = pc[q] /\ job'[q] = job[q]
    BY <1>0, <1>1 DEF Proceed, TypeOK
  <1>3. /\ pc'[r] \in {"replied", "wait"}
        /\ pc'[r] = "wait" => job'[r].target = 0
    <2>1. CASE job[r].todo = {}
      BY <1>0, <1>1, <2>1 DEF Proceed, TypeOK
    <2>2. CASE job[r].todo # {}
      <3>1. job[r].target = 0
        BY <1>0, <2>2 DEF VoidsOK, VoidJobOK
      <3> QED
        BY <1>0, <1>1, <3>1, ProceedTarget
    <2> QED
      BY <2>1, <2>2
  <1>4. \A c \in ledger' : c.voids # 0 => Compensates(c)'
    BY <1>1 DEF VoidsOK, VoidRowsOK, Compensates
  <1>5. ASSUME NEW q \in Request PROVE VoidRowsOK(q)'
    BY <1>1, <1>2 DEF VoidsOK, VoidRowsOK, Compensates
  <1>6. ASSUME NEW q \in Request PROVE VoidJobOK(q)'
    <2>1. CASE q = r
      BY <1>3, <2>1 DEF VoidJobOK, HoldsTarget
    <2>2. CASE q # r
      <3>1. HoldsTarget(q)' => HoldsTarget(q) /\ job'[q].target = job[q].target
        BY <1>2, <2>2 DEF HoldsTarget
      <3>2. ASSUME HoldsTarget(q), NEW c \in ledger' PROVE c.voids # job[q].target
        BY <1>0, <1>1, <2>2, <3>2 DEF VoidsOK, VoidJobOK, VoidRowsOK, HoldsTarget
      <3>3. ~HoldsTarget(r)'
        BY <1>3 DEF HoldsTarget
      <3> QED
        BY <1>2, <2>2, <3>1, <3>2, <3>3 DEF VoidsOK, VoidJobOK, HoldsTarget
    <2> QED
      BY <2>1, <2>2
  <1> QED
    BY <1>4, <1>5, <1>6 DEF VoidsOK

LEMMA NextVoids == IInv /\ VoidsOK /\ [Next]_vars => VoidsOK'
  <1> SUFFICES ASSUME IInv, VoidsOK, [Next]_vars PROVE VoidsOK'
    OBVIOUS
  <1>0. IInv'
    BY NextInv
  <1>1. CASE UNCHANGED <<ledger, pc, job, tx>>
    BY <1>1 DEF VoidsOK, VoidJobOK, VoidRowsOK, HoldsTarget, Compensates
  <1>2. ASSUME NEW r \in Request, Statement(r) PROVE VoidsOK'
    BY <1>2, LockVoids, GuardVoids, WriteVoids, CommitVoids, VictimVoids, VoidLockVoids,
       VoidInsertVoids, VoidMarkVoids DEF Statement
  <1>3. ASSUME NEW s \in Student, SchoolEdit(s) PROVE VoidsOK'
    BY <1>1, <1>3 DEF SchoolEdit, MovePupil, CreateLeave, CancelLeave
  <1> QED
    BY <1>0, <1>1, <1>2, <1>3, ArriveVoids DEF Next, DayOver, vars

LEMMA InitVoids == Init => VoidsOK
  <1> SUFFICES ASSUME Init PROVE VoidsOK
    OBVIOUS
  <1>1. \A r \in Request : tx[r].rows = {} /\ pc[r] = "new" /\ job[r].target = 0
    BY EmptyTxType DEF Init, NoJob
  <1> QED
    BY <1>1 DEF Init, VoidsOK, VoidJobOK, VoidRowsOK, HoldsTarget

\* OneVoidPerRow for any number of concurrent voids: the row lock makes two
\* voids of one row take turns, and the second sees the first one's CANCELLED row.
THEOREM OneVoidPerRowAlways == Spec => []OneVoidPerRow
  <1>1. Init => OneVoidPerRow
    BY DEF Init, OneVoidPerRow
  <1>2. IInv /\ VoidsOK /\ OneVoidPerRow /\ [Next]_vars => OneVoidPerRow'
    <2> SUFFICES ASSUME IInv, VoidsOK, OneVoidPerRow, [Next]_vars PROVE OneVoidPerRow'
      OBVIOUS
    <2>1. CASE ledger' = ledger
      BY <2>1 DEF OneVoidPerRow
    <2>2. ASSUME NEW r \in Request, Commit(r) PROVE OneVoidPerRow'
      <3>1. ledger' = ledger \cup tx[r].rows /\ pc[r] = "commit" /\ DbOK
        BY <2>2, IInvFacts DEF Commit
      <3>2. \A d \in tx[r].rows : d.voids # 0 => d.voids = job[r].target /\ HoldsTarget(r)
        BY <3>1 DEF VoidsOK, VoidRowsOK, HoldsTarget
      <3>3. \A d \in tx[r].rows, c \in ledger : d.voids # 0 => c.voids # d.voids
        BY <3>2 DEF VoidsOK, VoidJobOK
      <3>4. ASSUME NEW c \in tx[r].rows, NEW d \in tx[r].rows, c.voids # 0, c.voids = d.voids
            PROVE  c = d
        <4>1. c.student = d.student
          BY <3>1, <3>4 DEF VoidsOK, VoidRowsOK, Compensates, DbOK, RowsOK
        <4> QED
          BY <3>1, <4>1 DEF DbOK, PendingOK, PendingRowOK
      <3> QED
        BY <3>1, <3>3, <3>4 DEF OneVoidPerRow
    <2> QED
      BY <2>1, <2>2, LedgerStep
  <1> QED
    BY <1>1, <1>2, InitInv, NextInv, InitVoids, NextVoids, PTL DEF Spec

-----------------------------------------------------------------------------
(* Checkin implements Ride *)

\* c is the newest row of its pupil in the set of rows L.
Top(L, c) == c \in L /\ \A d \in L : d.student = c.student => d.id <= c.id

\* A pupil that has a committed row has a newest one.
HasLatest == \A c \in ledger : \E d \in ledger : d.student = c.student /\ Top(ledger, d)

LEMMA StandingIs ==
  ASSUME TypeOK, RowsOK, NEW c \in ledger, Top(ledger, c)
  PROVE  Standing(c.student) = c.status
  <1> DEFINE d == CHOOSE e \in ledger : e.student = c.student /\ Top(ledger, e)
  <1>1. d \in ledger /\ d.student = c.student /\ Top(ledger, d)
    OBVIOUS
  <1>2. d.id \in Nat /\ c.id \in Nat
    BY <1>1 DEF TypeOK, Row
  <1>3. d.id <= c.id /\ c.id <= d.id
    BY <1>1 DEF Top
  <1>4. d = c
    BY <1>1, <1>2, <1>3 DEF RowsOK
  <1> QED
    BY <1>4 DEF Standing, IsLatest, Top

\* COMMIT moves the standing of each pupil along Ride's moves, or not at all.
LEMMA CommitStanding ==
  ASSUME IInv, IInv', VoidsOK, HasLatest, NEW r \in Request, Commit(r), NEW s \in Student
  PROVE  /\ Standing(s)' = Standing(s) \/ <<Standing(s), Standing(s)'>> \in R!Moves
         /\ Standing(s)' \in R!Standings
         /\ (\E c \in ledger' : c.student = s) => \E d \in ledger' : d.student = s /\ Top(ledger', d)
  <1>1. /\ TypeOK /\ RowsOK /\ DbOK /\ TypeOK' /\ RowsOK'
        /\ ledger' = ledger \cup tx[r].rows
    BY IInvFacts DEF IInv, Commit
  <1>2. \A c \in ledger' : c \in Row /\ c.id \in Nat /\ c.status \in Statuses
    BY <1>1 DEF TypeOK, Row
  <1>3. ASSUME NEW c \in ledger', Top(ledger', c), c.student = s
        PROVE  Standing(s)' = c.status
    <2> DEFINE d == CHOOSE e \in ledger' : e.student = s /\ Top(ledger', e)
    <2>1. d \in ledger' /\ d.student = s /\ Top(ledger', d)
      BY <1>3
    <2>2. d.id <= c.id /\ c.id <= d.id
      BY <1>3, <2>1 DEF Top
    <2>3. d = c
      BY <1>1, <1>2, <2>1, <2>2 DEF RowsOK
    <2>4. Standing(s)' = (CHOOSE e \in ledger' : e.student = s /\ Top(ledger', e)).status
      BY <1>3 DEF Standing, IsLatest, Top
    <2> QED
      BY <2>3, <2>4
  <1>4. CASE \A w \in tx[r].rows : w.student # s
    <2>1. CASE \A c \in ledger : c.student # s
      BY <1>1, <1>4, <2>1 DEF Standing, IsLatest, Top, R!Standings
    <2>2. CASE \E c \in ledger : c.student = s
      <3>1. PICK d \in ledger : d.student = s /\ Top(ledger, d)
        BY <2>2 DEF HasLatest
      <3>2. d \in ledger' /\ Top(ledger', d)
        BY <1>1, <1>4, <3>1 DEF Top
      <3>3. Standing(s) = d.status /\ Standing(s)' = d.status
        BY <1>1, <1>3, <3>1, <3>2, StandingIs
      <3> QED
        BY <1>2, <3>1, <3>2, <3>3 DEF R!Standings, Statuses
    <2> QED
      BY <2>1, <2>2
  <1>5. ASSUME NEW w \in tx[r].rows, w.student = s
        PROVE  /\ Standing(s)' = Standing(s) \/ <<Standing(s), Standing(s)'>> \in R!Moves
               /\ Standing(s)' \in R!Standings
               /\ \E d \in ledger' : d.student = s /\ Top(ledger', d)
    <2>1. PendingRowOK(r, w) /\ w \in ledger'
      BY <1>1, <1>5 DEF DbOK, PendingOK
    <2>2. \A v \in tx[r].rows : v.student = s => v = w
      BY <1>5, <2>1 DEF PendingRowOK
    <2>3. CASE w.status \in Checks
      <3>1. Top(ledger', w)
        BY <1>1, <1>2, <1>5, <2>1, <2>2, <2>3 DEF PendingRowOK, Top
      <3>2. Standing(s)' = w.status
        BY <1>3, <1>5, <2>1, <3>1
      <3>3. CASE \A c \in ledger : c.student # s
        <4>1. Standing(s) = "none"
          BY <3>3 DEF Standing, IsLatest, Top
        <4> QED
          BY <1>5, <2>1, <2>3, <3>1, <3>2, <4>1 DEF R!Standings, R!Moves, Checks
      <3>4. CASE \E c \in ledger : c.student = s
        <4>1. PICK d \in ledger : d.student = s /\ Top(ledger, d)
          BY <3>4 DEF HasLatest
        <4>2. Standing(s) = d.status /\ Accepted(d.status, w.status) /\ d.status \in Statuses
          BY <1>1, <1>2, <1>5, <2>1, <2>3, <4>1, StandingIs DEF PendingRowOK, IsLatest, Top
        <4>3. <<d.status, w.status>> \in R!Moves /\ w.status \in R!Standings
          BY <2>3, <4>2 DEF R!Standings, R!Moves, Checks, Statuses, Accepted
        <4> QED
          BY <1>5, <2>1, <3>1, <3>2, <4>2, <4>3
      <3> QED
        BY <3>3, <3>4
    <2>4. CASE w.status = "CANCELLED"
      <3>1. \E c \in ledger : c.student = s
        BY <1>5, <2>4 DEF VoidsOK, VoidRowsOK, Compensates
      <3>2. PICK d \in ledger : d.student = s /\ Top(ledger, d)
        BY <3>1 DEF HasLatest
      <3>3. Standing(s) = d.status /\ d.status \in Statuses /\ d \in ledger'
        BY <1>1, <1>2, <3>2, StandingIs
      <3>4. CASE w.id <= d.id
        <4>1. Top(ledger', d)
          BY <1>1, <1>2, <2>2, <3>2, <3>4 DEF Top
        <4>2. Standing(s)' = d.status
          BY <1>3, <3>2, <3>3, <4>1
        <4> QED
          BY <3>2, <3>3, <4>1, <4>2 DEF R!Standings, Statuses
      <3>5. CASE ~(w.id <= d.id)
        <4>1. d.id <= w.id
          BY <1>2, <2>1, <3>3, <3>5
        <4>2. \A c \in ledger : c.student = s => c.id <= w.id
          BY <1>1, <1>2, <2>1, <3>2, <3>3, <4>1 DEF Top
        <4>3. Top(ledger', w)
          BY <1>1, <1>2, <1>5, <2>1, <2>2, <4>2 DEF Top
        <4>4. Standing(s)' = "CANCELLED"
          BY <1>3, <1>5, <2>1, <2>4, <4>3
        <4>5. d.status = "CANCELLED" \/ <<d.status, "CANCELLED">> \in R!Moves
          BY <3>3 DEF R!Moves, Statuses
        <4> QED
          BY <1>5, <2>1, <3>3, <4>3, <4>4, <4>5 DEF R!Standings
      <3> QED
        BY <3>4, <3>5
    <2> QED
      BY <1>1, <1>5, <1>2, <2>1, <2>3, <2>4 DEF Statuses, Checks
  <1> QED
    BY <1>4, <1>5, <1>1

\* Every step of Checkin is a step of Ride or leaves every standing unchanged.
LEMMA StepRefines ==
  IInv /\ IInv' /\ VoidsOK /\ HasLatest /\ [Next]_vars =>
     /\ HasLatest'
     /\ [R!Next]_([s \in Student |-> Standing(s)])
  <1> SUFFICES ASSUME IInv, IInv', VoidsOK, HasLatest, [Next]_vars
               PROVE  /\ HasLatest'
                      /\ [R!Next]_([s \in Student |-> Standing(s)])
    OBVIOUS
  <1>1. CASE ledger' = ledger
    <2>1. \A s \in Student : Standing(s)' = Standing(s)
      BY <1>1 DEF Standing, IsLatest, Top
    <2>2. [s \in Student |-> Standing(s)]' = [s \in Student |-> Standing(s)]
      BY <2>1
    <2>3. HasLatest'
      BY <1>1 DEF HasLatest, Top
    <2> QED
      BY <2>2, <2>3
  <1>2. ASSUME NEW r \in Request, Commit(r)
        PROVE  HasLatest' /\ [R!Next]_([s \in Student |-> Standing(s)])
    <2>1. \A s \in Student :
             /\ Standing(s)' = Standing(s) \/ <<Standing(s), Standing(s)'>> \in R!Moves
             /\ Standing(s)' \in R!Standings
             /\ (\E c \in ledger' : c.student = s) => \E d \in ledger' : d.student = s /\ Top(ledger', d)
      BY <1>2, CommitStanding
    <2>2. \A c \in ledger' : c.student \in Student
      BY DEF IInv, TypeOK, Row
    <2>3. HasLatest'
      BY <2>1, <2>2 DEF HasLatest
    <2>4. R!Next
      BY <2>1 DEF R!Next
    <2> QED
      BY <2>3, <2>4
  <1> QED
    BY <1>1, <1>2, LedgerStep

LEMMA InitRefines == Init => HasLatest /\ R!Init
  BY DEF Init, HasLatest, R!Init, Standing

\* Checkin implements Ride: for every set of pupils, buses and requests, each
\* pupil's newest committed status moves only as the abstract ride does.
THEOREM CheckinImplementsRide == Spec => ImplementsRide
  <1>1. [](IInv /\ VoidsOK /\ HasLatest) /\ [][Next]_vars =>
           [][R!Next]_([s \in Student |-> Standing(s)])
    <2>1. IInv /\ VoidsOK /\ HasLatest /\ (IInv /\ VoidsOK /\ HasLatest)' /\ [Next]_vars =>
             [R!Next]_([s \in Student |-> Standing(s)])
      BY StepRefines
    <2> QED
      BY <2>1, PTL
  <1>2. IInv /\ VoidsOK /\ HasLatest /\ [Next]_vars => (IInv /\ VoidsOK /\ HasLatest)'
    BY NextInv, NextVoids, StepRefines
  <1> QED
    BY <1>1, <1>2, InitInv, InitVoids, InitRefines, PTL DEF Spec, ImplementsRide, R!Spec

-----------------------------------------------------------------------------
(* What one step of a request does to the request itself *)

Active(r) == pc[r] \in {"wait", "guard", "write"}

\* r goes on with the list of j: with one more pupil, or at pc `otherwise`.
Resumes(r, j, otherwise) ==
    /\ /\ job'[r].op = j.op /\ job'[r].plan = j.plan
       /\ job'[r].ok = j.ok /\ job'[r].failed = j.failed
    /\ \/ pc'[r] = otherwise /\ j.todo = {} /\ job'[r].todo = {}
       \/ /\ pc'[r] = "wait" /\ job'[r].cur \in j.todo
          /\ job'[r].todo = j.todo \ {job'[r].cur}

LEMMA ProceedResumes ==
  ASSUME TypeOK, NEW r \in Request, NEW j \in Job, NEW otherwise \in {"commit", "replied"},
         Proceed(r, j, otherwise)
  PROVE  /\ Resumes(r, j, otherwise)
         /\ \A q \in Request \ {r} : job'[q] = job[q] /\ pc'[q] = pc[q]
  <1>1. \A q \in Request \ {r} : job'[q] = job[q] /\ pc'[q] = pc[q]
    BY DEF Proceed, TypeOK
  <1>0. \/ /\ pc'[r] = otherwise /\ j.todo = {}
           /\ job'[r] = IF otherwise = "replied" THEN Answered(j) ELSE j
        \/ pc'[r] = "wait" /\ \E s \in j.todo : job'[r] = [j EXCEPT !.cur = s, !.todo = @ \ {s}]
    BY DEF Proceed, TypeOK
  <1>2. CASE /\ pc'[r] = otherwise /\ j.todo = {}
             /\ job'[r] = IF otherwise = "replied" THEN Answered(j) ELSE j
    <2>1. /\ Answered(j).op = j.op /\ Answered(j).plan = j.plan /\ Answered(j).ok = j.ok
          /\ Answered(j).failed = j.failed /\ Answered(j).todo = {}
      BY DEF Answered, NoJob
    <2> QED
      BY <1>1, <1>2, <2>1 DEF Resumes
  <1>3. CASE pc'[r] = "wait" /\ \E s \in j.todo : job'[r] = [j EXCEPT !.cur = s, !.todo = @ \ {s}]
    <2>1. PICK s \in j.todo : job'[r] = [j EXCEPT !.cur = s, !.todo = @ \ {s}]
      BY <1>3
    <2>2. /\ job'[r].op = j.op /\ job'[r].plan = j.plan /\ job'[r].ok = j.ok
          /\ job'[r].failed = j.failed /\ job'[r].cur = s /\ job'[r].todo = j.todo \ {s}
      BY <2>1 DEF Job
    <2> QED
      BY <1>1, <1>3, <2>2 DEF Resumes
  <1> QED
    BY <1>0, <1>2, <1>3

\* A new request of the check-in path with the pupils of its plan before it.
Begins(r) ==
    /\ pc[r] = "new" /\ tx' = tx
    /\ \E j \in Job : /\ j.op \notin {"none", "void", "undo"} /\ j.plan = j.todo
                      /\ j.ok = {} /\ j.failed = {}
                      /\ Resumes(r, j, "commit")

BeginsVoid(r) ==
    /\ pc[r] = "new" /\ pc'[r] = "vlock" /\ tx' = tx
    /\ job'[r].op \in {"void", "undo"}

\* r ends with an error.
Aborts(r) ==
    /\ pc[r] \in {"wait", "guard", "vlock"} /\ pc'[r] = "refused"
    /\ tx'[r] = EmptyTx /\ job'[r].op = job[r].op

\* A pupil is listed as failed and r goes on.
PassesOver(r) ==
    /\ pc[r] \in {"wait", "guard"} /\ tx' = tx
    /\ \E j \in Job, otherwise \in {"commit", "replied"} :
          /\ j.op = job[r].op /\ j.plan = job[r].plan /\ j.todo = job[r].todo
          /\ j.ok = job[r].ok /\ j.failed = job[r].failed \cup {job[r].cur}
          /\ \/ otherwise = "commit" /\ job[r].op \in BatchOps
             \/ otherwise = "replied" /\ job[r].op = "teacher"
          /\ Resumes(r, j, otherwise)

\* r reaches its next statement with nothing written.
Advances(r) ==
    /\ tx' = tx /\ job' = job
    /\ \/ pc[r] = "wait" /\ pc'[r] = "guard" /\ OnExpectedBus(r, job[r].cur)
       \/ pc[r] = "guard" /\ pc'[r] = "write"
       \/ pc[r] = "vlock" /\ pc'[r] = "vinsert"

\* The row r inserts for the pupil in hand.
CheckRow(r) ==
    [id |-> nextId, student |-> job[r].cur, bus |-> job[r].busOf[job[r].cur],
     status |-> job[r].status, voids |-> 0, req |-> r]

\* r inserts it and lists the pupil as succeeded.
Inserts(r) ==
    /\ pc[r] = "write"
    /\ tx'[r].rows = tx[r].rows \cup {CheckRow(r)}
    /\ tx'[r].marks = [tx[r].marks EXCEPT ![job[r].cur] = "true"]
    /\ \E j \in Job :
          /\ j.op = job[r].op /\ j.plan = job[r].plan /\ j.todo = job[r].todo
          /\ j.ok = job[r].ok \cup {job[r].cur} /\ j.failed = job[r].failed
          /\ \/ Resumes(r, j, "commit")
             \/ pc'[r] = "commit" /\ job'[r] = j /\ j.op = "teacher"

\* r starts over after a deadlock.
Retries(r) ==
    /\ pc[r] = "wait" /\ job[r].op \in RetriedOps /\ tx'[r] = EmptyTx
    /\ \E j \in Job : /\ j.op = job[r].op /\ j.plan = job[r].plan /\ j.todo = j.plan
                      /\ j.ok = {} /\ j.failed = {}
                      /\ Resumes(r, j, "commit")

\* COMMIT as r sees it.
Commits(r) ==
    /\ pc[r] = "commit" /\ tx'[r] = EmptyTx
    /\ ledger' = ledger \cup tx[r].rows /\ done' = Marked(r)
    /\ Resumes(r, job[r], "replied")

\* The INSERT and the UPDATE of a void, as r sees them.
InsertsVoid(r) ==
    /\ pc[r] = "vinsert" /\ pc'[r] = "vmark" /\ job' = job
    /\ tx'[r].marks = tx[r].marks
    /\ \E w \in Row : /\ tx'[r].rows = {w} /\ w.req = r /\ w.id = nextId
                      /\ w.student = job[r].cur /\ w.status = "CANCELLED"

MarksVoid(r) ==
    /\ pc[r] = "vmark" /\ pc'[r] = "commit" /\ job' = job
    /\ tx'[r].rows = tx[r].rows
    /\ \E m \in {"true", "false"} :
          /\ tx'[r].marks = [tx[r].marks EXCEPT ![job[r].cur] = m]
          /\ m = "true" => job[r].op = "undo"

\* Every step of r but COMMIT.
Works(r) ==
    \/ Begins(r) \/ BeginsVoid(r) \/ Aborts(r) \/ PassesOver(r) \/ Advances(r)
    \/ Inserts(r) \/ Retries(r) \/ InsertsVoid(r) \/ MarksVoid(r)

\* What a step of r leaves alone.
Frame(r) ==
    /\ bus' = bus
    /\ \A q \in Request \ {r} : pc'[q] = pc[q] /\ job'[q] = job[q] /\ tx'[q] = tx[q]
Quiet == ledger' = ledger /\ done' = done

LEMMA ArriveWorks ==
  ASSUME IInv, NEW r \in Request, Arrive(r)
  PROVE  Works(r) /\ Frame(r) /\ Quiet
  <1>0. TypeOK
    BY IInvFacts
  <1>1. ASSUME NEW op \in Ops \ {"none", "void", "undo"}, NEW status \in Checks,
               NEW plan \in SUBSET Student, NEW busOf \in [Student -> Place],
               Start(r, op, status, plan, busOf)
        PROVE  Works(r) /\ Frame(r) /\ Quiet
    <2> DEFINE j == [NoJob EXCEPT !.op = op, !.status = status, !.plan = plan, !.todo = plan,
                      !.busOf = [s \in Student |-> IF s \in plan THEN busOf[s] ELSE NoBus]]
    <2>1. /\ j \in Job /\ j.op = op /\ j.plan = plan /\ j.todo = plan
          /\ j.ok = {} /\ j.failed = {}
      BY AttemptsAssumption DEF NoJob, Job, Place, Checks, Statuses
    <2>2. Proceed(r, j, "commit") /\ UNCHANGED <<bus, ledger, done, tx>> /\ pc[r] = "new"
      BY <1>1 DEF Start, db
    <2> HIDE DEF j
    <2>3. /\ Resumes(r, j, "commit")
          /\ \A q \in Request \ {r} : job'[q] = job[q] /\ pc'[q] = pc[q]
      BY <1>0, <2>1, <2>2, ProceedResumes
    <2>4. Begins(r)
      BY <2>1, <2>2, <2>3 DEF Begins
    <2> QED
      BY <2>2, <2>3, <2>4 DEF Works, Frame, Quiet
  <1>2. ASSUME NEW op \in {"void", "undo"}, NEW c \in ledger, NEW scope \in Place,
               StartVoid(r, op, c, scope)
        PROVE  Works(r) /\ Frame(r) /\ Quiet
    <2>1. job'[r] = [NoJob EXCEPT !.op = op, !.status = "CANCELLED", !.cur = c.student,
                                  !.target = c.id, !.busOf[c.student] = scope]
      BY <1>0, <1>2 DEF StartVoid, TypeOK
    <2>2. job'[r].op = op
      BY <2>1 DEF NoJob
    <2>3. /\ pc[r] = "new" /\ pc'[r] = "vlock" /\ UNCHANGED <<bus, ledger, done, tx>>
          /\ \A q \in Request \ {r} : job'[q] = job[q] /\ pc'[q] = pc[q]
      BY <1>0, <1>2 DEF StartVoid, TypeOK, db
    <2> QED
      BY <2>2, <2>3 DEF Works, BeginsVoid, Frame, Quiet
  <1>a. \A b \in Bus : [t \in Student |-> b] \in [Student -> Place]
    BY DEF Place
  <1>b. bus \in [Student -> Place]
    BY <1>0 DEF TypeOK
  <1> USE DEF Ops, BatchOps, Checks
  <1>3. CASE \E s \in Student, b \in Bus, status \in {"IN", "OUT"} : Tap(r, s, b, status)
    BY <1>3, <1>a, <1>1 DEF Tap
  <1>4. CASE \E b \in Bus : CheckinAll(r, b)
    BY <1>4, <1>a, <1>1 DEF CheckinAll
  <1>5. CASE \E b \in Bus : CheckoutAll(r, b)
    BY <1>5, <1>a, <1>1 DEF CheckoutAll
  <1>6. CASE \E s \in Student, status \in {"IN", "OUT"} : Override(r, s, status)
    BY <1>6, <1>b, <1>1 DEF Override
  <1>7. CASE \E absent \in SUBSET Student, status \in {"IN", "OUT"} : OverrideAll(r, absent, status)
    BY <1>7, <1>b, <1>1 DEF OverrideAll
  <1>8. CASE \E selection \in SUBSET Student : TeacherCheck(r, selection)
    <2>1. PICK selection \in SUBSET Student : TeacherCheck(r, selection)
      BY <1>8
    <2>2. {s \in selection : bus[s] # NoBus /\ ~OnLeave(s)} \in SUBSET Student
      OBVIOUS
    <2> QED
      BY <2>1, <2>2, <1>b, TeacherAssumption, <1>1 DEF TeacherCheck
  <1>9. CASE \E c \in ledger, scope \in Place : VoidRequest(r, c, scope)
    BY <1>9, <1>2 DEF VoidRequest
  <1>10. CASE \E c \in ledger : UndoRequest(r, c)
    BY <1>10, <1>2 DEF UndoRequest, Place
  <1> QED
    BY <1>3, <1>4, <1>5, <1>6, <1>7, <1>8, <1>9, <1>10 DEF Arrive

LEMMA RefuseAborts ==
  ASSUME TypeOK, NEW r \in Request, Refuse(r), pc[r] \in {"wait", "guard", "vlock"}
  PROVE  Works(r) /\ Frame(r) /\ Quiet
  <1>1. /\ pc'[r] = "refused" /\ tx'[r] = EmptyTx /\ UNCHANGED <<bus, ledger, done>>
        /\ \A q \in Request \ {r} : job'[q] = job[q] /\ pc'[q] = pc[q] /\ tx'[q] = tx[q]
    BY DEF Refuse, TypeOK, db
  <1>2. job'[r].op = job[r].op
    BY DEF Refuse, TypeOK, NoJob
  <1> QED
    BY <1>1, <1>2 DEF Works, Aborts, Frame, Quiet

LEMMA FailedPassesOver ==
  ASSUME TypeOK, NEW r \in Request, pc[r] \in {"wait", "guard"}, job[r].cur \in Student,
         NEW otherwise \in {"commit", "replied"},
         Proceed(r, [job[r] EXCEPT !.failed = @ \cup {job[r].cur}], otherwise),
         \/ otherwise = "commit" /\ job[r].op \in BatchOps
         \/ otherwise = "replied" /\ job[r].op = "teacher",
         UNCHANGED <<db, tx>>
  PROVE  Works(r) /\ Frame(r) /\ Quiet
  <1> DEFINE j == [job[r] EXCEPT !.failed = @ \cup {job[r].cur}]
  <1>1. job[r] \in Job
    BY DEF TypeOK
  <1>2. /\ j \in Job /\ j.op = job[r].op /\ j.plan = job[r].plan /\ j.todo = job[r].todo
        /\ j.ok = job[r].ok /\ j.failed = job[r].failed \cup {job[r].cur}
    BY <1>1, ListedType DEF Job
  <1>3. Proceed(r, j, otherwise)
    OBVIOUS
  <1> HIDE DEF j
  <1>4. /\ Resumes(r, j, otherwise)
        /\ \A q \in Request \ {r} : job'[q] = job[q] /\ pc'[q] = pc[q]
    BY <1>2, <1>3, ProceedResumes
  <1>5. PassesOver(r)
    BY <1>2, <1>4 DEF PassesOver
  <1> QED
    BY <1>4, <1>5 DEF Works, Frame, Quiet, db

LEMMA LockWorks ==
  ASSUME IInv, NEW r \in Request, LockPupil(r)
  PROVE  Works(r) /\ Frame(r) /\ Quiet
  <1>0. TypeOK /\ pc[r] = "wait" /\ job[r].cur \in Student
    BY IInvFacts DEF LockPupil, JobOK, JobRowOK
  <1>1. CASE SkipInBatch(r)
    BY <1>0, <1>1, FailedPassesOver DEF SkipInBatch
  <1>2. CASE Refuse(r)
    BY <1>0, <1>2, RefuseAborts
  <1>3. CASE OnExpectedBus(r, job[r].cur)
    <2>1. pc' = [pc EXCEPT ![r] = "guard"] /\ UNCHANGED <<db, job, tx>>
      BY <1>3 DEF LockPupil
    <2>2. pc'[r] = "guard" /\ \A q \in Request \ {r} : pc'[q] = pc[q]
      BY <1>0, <2>1 DEF TypeOK
    <2> QED
      BY <1>0, <1>3, <2>1, <2>2 DEF Works, Advances, Frame, Quiet, db
  <1> QED
    BY <1>1, <1>2, <1>3 DEF LockPupil, RejectMissing

LEMMA GuardWorks ==
  ASSUME IInv, NEW r \in Request, GuardRead(r)
  PROVE  Works(r) /\ Frame(r) /\ Quiet
  <1>0. TypeOK /\ pc[r] = "guard" /\ job[r].cur \in Student
    BY IInvFacts DEF GuardRead, JobOK, JobRowOK
  <1>1. CASE SkipInBatch(r)
    BY <1>0, <1>1, FailedPassesOver DEF SkipInBatch
  <1>2. CASE Refuse(r)
    BY <1>0, <1>2, RefuseAborts
  <1>3. CASE /\ job[r].op = "teacher"
             /\ Proceed(r, [job[r] EXCEPT !.failed = @ \cup {job[r].cur}], "replied")
             /\ UNCHANGED <<db, tx>>
    BY <1>0, <1>3, FailedPassesOver
  <1>4. CASE pc' = [pc EXCEPT ![r] = "write"] /\ UNCHANGED <<db, job, tx>>
    <2>1. pc'[r] = "write" /\ \A q \in Request \ {r} : pc'[q] = pc[q]
      BY <1>0, <1>4 DEF TypeOK
    <2> QED
      BY <1>0, <1>4, <2>1 DEF Works, Advances, Frame, Quiet, db
  <1> QED
    BY <1>1, <1>2, <1>3, <1>4 DEF GuardRead, RejectRecorded

LEMMA WriteWorks ==
  ASSUME IInv, NEW r \in Request, WriteCheck(r)
  PROVE  Works(r) /\ Frame(r) /\ Quiet
  <1> DEFINE j == [job[r] EXCEPT !.ok = @ \cup {job[r].cur}]
  <1>0. /\ TypeOK /\ pc[r] = "write" /\ job[r] \in Job /\ job[r].cur \in Student
        /\ tx[r] \in Tx
    BY IInvFacts, JobType DEF WriteCheck, JobOK, JobRowOK
  <1>1. /\ j \in Job /\ j.op = job[r].op /\ j.plan = job[r].plan /\ j.todo = job[r].todo
        /\ j.ok = job[r].ok \cup {job[r].cur} /\ j.failed = job[r].failed
    BY <1>0, ListedType DEF Job
  <1>2. /\ tx' = [tx EXCEPT ![r].rows = @ \cup {CheckRow(r)}, ![r].marks[job[r].cur] = "true"]
        /\ UNCHANGED <<bus, ledger, done>>
        /\ \/ j.op = "teacher" /\ pc' = [pc EXCEPT ![r] = "commit"] /\ job' = [job EXCEPT ![r] = j]
           \/ Proceed(r, j, "commit")
    BY DEF WriteCheck, CheckRow
  <1>3. /\ tx'[r].rows = tx[r].rows \cup {CheckRow(r)}
        /\ tx'[r].marks = [tx[r].marks EXCEPT ![job[r].cur] = "true"]
        /\ \A q \in Request \ {r} : tx'[q] = tx[q]
    BY <1>0, <1>2 DEF TypeOK, Tx
  <1> HIDE DEF j
  <1>4. /\ \/ Resumes(r, j, "commit")
           \/ pc'[r] = "commit" /\ job'[r] = j /\ j.op = "teacher"
        /\ \A q \in Request \ {r} : job'[q] = job[q] /\ pc'[q] = pc[q]
    BY <1>0, <1>1, <1>2, ProceedResumes DEF TypeOK
  <1>5. Inserts(r)
    BY <1>0, <1>1, <1>3, <1>4 DEF Inserts
  <1> QED
    BY <1>2, <1>3, <1>4, <1>5 DEF Works, Frame, Quiet

LEMMA VictimWorks ==
  ASSUME IInv, NEW r \in Request, DeadlockVictim(r)
  PROVE  Works(r) /\ Frame(r) /\ Quiet
  <1>0. TypeOK /\ pc[r] = "wait" /\ job[r] \in Job
    BY IInvFacts, JobType DEF DeadlockVictim
  <1>1. CASE Refuse(r)
    BY <1>0, <1>1, RefuseAborts
  <1>2. CASE /\ job[r].op \in RetriedOps
             /\ Proceed(r, FreshAttempt(job[r]), "commit")
             /\ tx' = [tx EXCEPT ![r] = EmptyTx]
             /\ UNCHANGED db
    <2> DEFINE j == FreshAttempt(job[r])
    <2>1. /\ j \in Job /\ j.op = job[r].op /\ j.plan = job[r].plan /\ j.todo = j.plan
          /\ j.ok = {} /\ j.failed = {}
      <3> DEFINE k == job[r]
      <3>1. k \in Job /\ k.attempt + 1 \in Nat
        BY <1>0 DEF Job
      <3> HIDE DEF k
      <3>2. LET f == [k EXCEPT !.attempt = k.attempt + 1, !.todo = k.plan, !.ok = {}, !.failed = {}]
            IN  /\ f \in Job /\ f.op = k.op /\ f.plan = k.plan /\ f.todo = f.plan
                /\ f.ok = {} /\ f.failed = {}
        BY <3>1 DEF Job
      <3> QED
        BY <3>2 DEF FreshAttempt, k
    <2>2. /\ Proceed(r, j, "commit") /\ tx'[r] = EmptyTx /\ UNCHANGED <<bus, ledger, done>>
          /\ \A q \in Request \ {r} : tx'[q] = tx[q]
      BY <1>0, <1>2 DEF TypeOK, db
    <2> HIDE DEF j
    <2>3. /\ Resumes(r, j, "commit")
          /\ \A q \in Request \ {r} : job'[q] = job[q] /\ pc'[q] = pc[q]
      BY <1>0, <2>1, <2>2, ProceedResumes
    <2>4. Retries(r)
      BY <1>0, <1>2, <2>1, <2>2, <2>3 DEF Retries
    <2> QED
      BY <2>2, <2>3, <2>4 DEF Works, Frame, Quiet
  <1> QED
    BY <1>1, <1>2 DEF DeadlockVictim

LEMMA VoidWorks ==
  ASSUME IInv, NEW r \in Request, VoidLock(r) \/ VoidInsert(r) \/ VoidMark(r)
  PROVE  Works(r) /\ Frame(r) /\ Quiet
  <1>0. TypeOK /\ tx[r] \in Tx /\ DbOK
    BY IInvFacts, JobType
  <1>1. CASE pc[r] = "vlock" /\ Refuse(r)
    BY <1>0, <1>1, RefuseAborts
  <1>2. CASE pc[r] = "vlock" /\ pc' = [pc EXCEPT ![r] = "vinsert"] /\ UNCHANGED <<db, job, tx>>
    <2>1. pc'[r] = "vinsert" /\ \A q \in Request \ {r} : pc'[q] = pc[q]
      BY <1>0, <1>2 DEF TypeOK
    <2> QED
      BY <1>2, <2>1 DEF Works, Advances, Frame, Quiet, db
  <1>3. CASE VoidInsert(r)
    <2>1. PICK c \in ledger :
          /\ c.id = job[r].target
          /\ tx' = [tx EXCEPT ![r].rows =
                       {[id |-> nextId, student |-> c.student, bus |-> c.bus,
                         status |-> "CANCELLED", voids |-> c.id, req |-> r]}]
      BY <1>3 DEF VoidInsert
    <2> DEFINE w == [id |-> nextId, student |-> c.student, bus |-> c.bus,
                   status |-> "CANCELLED", voids |-> c.id, req |-> r]
    <2>2. /\ tx'[r].rows = {w} /\ tx'[r].marks = tx[r].marks
          /\ \A q \in Request \ {r} : tx'[q] = tx[q]
      BY <1>0, <2>1 DEF TypeOK, Tx
    <2>3. /\ pc[r] = "vinsert" /\ job' = job /\ UNCHANGED <<bus, ledger, done>>
          /\ pc' = [pc EXCEPT ![r] = "vmark"]
      BY <1>3 DEF VoidInsert
    <2>4. pc'[r] = "vmark" /\ \A q \in Request \ {r} : pc'[q] = pc[q]
      BY <1>0, <2>3 DEF TypeOK
    <2>5. c.student = job[r].cur
      BY <1>0, <2>1, <2>3, IInvFacts DEF JobOK, JobRowOK, DbOK, RowsOK
    <2>6. w \in Row /\ w.req = r /\ w.id = nextId /\ w.student = job[r].cur /\ w.status = "CANCELLED"
      BY <1>0, <2>5 DEF TypeOK, Row, Statuses
    <2> HIDE DEF w
    <2>7. InsertsVoid(r)
      BY <2>2, <2>3, <2>4, <2>6 DEF InsertsVoid
    <2> QED
      BY <2>2, <2>3, <2>4, <2>7 DEF Works, Frame, Quiet
  <1>4. CASE VoidMark(r)
    <2> DEFINE m == IF job[r].op = "undo" /\ PriorStands(job[r].cur, job[r].target)
                    THEN "true" ELSE "false"
    <2>1. /\ pc[r] = "vmark" /\ pc' = [pc EXCEPT ![r] = "commit"] /\ UNCHANGED <<db, job>>
          /\ tx' = [tx EXCEPT ![r].marks[job[r].cur] = m]
      BY <1>4 DEF VoidMark
    <2>2. m \in {"true", "false"} /\ (m = "true" => job[r].op = "undo")
      OBVIOUS
    <2> HIDE DEF m
    <2>3. /\ pc'[r] = "commit" /\ \A q \in Request \ {r} : pc'[q] = pc[q]
          /\ tx'[r].rows = tx[r].rows /\ tx'[r].marks = [tx[r].marks EXCEPT ![job[r].cur] = m]
          /\ \A q \in Request \ {r} : tx'[q] = tx[q]
      BY <1>0, <2>1 DEF TypeOK, Tx
    <2>4. MarksVoid(r)
      BY <2>1, <2>2, <2>3 DEF MarksVoid
    <2> QED
      BY <2>1, <2>3, <2>4 DEF Works, Frame, Quiet, db
  <1> QED
    BY <1>1, <1>2, <1>3, <1>4 DEF VoidLock

LEMMA CommitWorks ==
  ASSUME IInv, NEW r \in Request, Commit(r)
  PROVE  Commits(r) /\ Frame(r)
  <1>0. TypeOK /\ job[r] \in Job
    BY IInvFacts, JobType
  <1>1. /\ pc[r] = "commit" /\ Proceed(r, job[r], "replied") /\ tx' = [tx EXCEPT ![r] = EmptyTx]
        /\ ledger' = ledger \cup tx[r].rows /\ done' = Marked(r) /\ bus' = bus
    BY DEF Commit
  <1>2. /\ Resumes(r, job[r], "replied")
        /\ \A q \in Request \ {r} : job'[q] = job[q] /\ pc'[q] = pc[q]
    BY <1>0, <1>1, ProceedResumes
  <1>3. tx'[r] = EmptyTx /\ \A q \in Request \ {r} : tx'[q] = tx[q]
    BY <1>0, <1>1 DEF TypeOK
  <1> QED
    BY <1>1, <1>2, <1>3 DEF Commits, Frame

\* A step of the specification: one request works, one commits, or none of them
\* is touched and the school may have moved a pupil whose row nobody holds.
LEMMA StepWorks ==
  ASSUME IInv, [Next]_vars
  PROVE  \/ \E r \in Request : Works(r) /\ Frame(r) /\ Quiet
         \/ \E r \in Request : Commits(r) /\ Frame(r)
         \/ /\ Quiet /\ UNCHANGED <<pc, job, tx>>
            /\ \A s \in Student : bus'[s] = bus[s] \/ xlock[s] = None
  <1>0. TypeOK
    BY IInvFacts
  <1>1. ASSUME NEW r \in Request, Statement(r)
        PROVE  (Works(r) /\ Frame(r) /\ Quiet) \/ (Commits(r) /\ Frame(r))
    BY <1>1, LockWorks, GuardWorks, WriteWorks, VictimWorks, VoidWorks, CommitWorks DEF Statement
  <1>2. ASSUME NEW s \in Student, SchoolEdit(s)
        PROVE  /\ Quiet /\ UNCHANGED <<pc, job, tx>>
               /\ \A t \in Student : bus'[t] = bus[t] \/ xlock[t] = None
    <2>1. CASE CreateLeave(s) \/ CancelLeave(s)
      BY <2>1 DEF CreateLeave, CancelLeave, Quiet
    <2>2. ASSUME NEW b \in Place, MovePupil(s, b)
          PROVE  /\ Quiet /\ UNCHANGED <<pc, job, tx>>
                 /\ \A t \in Student : bus'[t] = bus[t] \/ xlock[t] = None
      BY <1>0, <2>2 DEF MovePupil, RowAvailable, Quiet, TypeOK
    <2> QED
      BY <1>2, <2>1, <2>2 DEF SchoolEdit
  <1>3. CASE UNCHANGED vars
    BY <1>3 DEF vars, Quiet
  <1> QED
    BY <1>1, <1>2, <1>3, ArriveWorks DEF Next, DayOver
-----------------------------------------------------------------------------
(* A check is recorded for the pupil's current vehicle *)

\* The vehicle r expects is the pupil's from the locked SELECT to the COMMIT.
BusRowOK(r) ==
    /\ pc[r] \in {"guard", "write"} => job[r].busOf[job[r].cur] = bus[job[r].cur]
    /\ \A w \in tx[r].rows : w.status \in Checks => w.bus = bus[w.student]

BusOK == \A r \in Request : BusRowOK(r)

LEMMA BusOther ==
  ASSUME IInv, BusOK, NEW r \in Request, Frame(r), BusRowOK(r)'
  PROVE  BusOK'
  BY DEF BusOK, BusRowOK, Frame

LEMMA WorksBus ==
  ASSUME IInv, BusOK, NEW r \in Request, Works(r), Frame(r)
  PROVE  BusRowOK(r)'
  <1>0. /\ BusRowOK(r) /\ bus' = bus /\ EmptyTx.rows = {} /\ Checks = {"IN", "OUT"}
    BY EmptyTxType DEF BusOK, Frame, Checks
  <1>1. CASE Begins(r) \/ BeginsVoid(r) \/ PassesOver(r)
    BY <1>0, <1>1 DEF Begins, BeginsVoid, PassesOver, Resumes, BusRowOK
  <1>2. CASE Aborts(r) \/ Retries(r)
    BY <1>0, <1>2 DEF Aborts, Retries, Resumes, BusRowOK
  <1>3. CASE Advances(r)
    BY <1>0, <1>3 DEF Advances, BusRowOK, OnExpectedBus
  <1>4. CASE Inserts(r)
    <2>1. CheckRow(r).status \in Checks => CheckRow(r).bus = bus[CheckRow(r).student]
      BY <1>0, <1>4 DEF Inserts, BusRowOK, CheckRow
    <2>2. pc'[r] \in {"commit", "wait"} /\ tx'[r].rows = tx[r].rows \cup {CheckRow(r)}
      BY <1>4 DEF Inserts, Resumes
    <2> QED
      BY <1>0, <2>1, <2>2 DEF BusRowOK
  <1>5. CASE InsertsVoid(r) \/ MarksVoid(r)
    BY <1>0, <1>5 DEF InsertsVoid, MarksVoid, BusRowOK
  <1> QED
    BY <1>1, <1>2, <1>3, <1>4, <1>5 DEF Works

\* The school moves a pupil only while nobody holds the row.
LEMMA MoveBus ==
  ASSUME IInv, BusOK, UNCHANGED <<pc, job, tx>>,
         \A s \in Student : bus'[s] = bus[s] \/ xlock[s] = None
  PROVE  BusOK'
  <1> SUFFICES ASSUME NEW r \in Request PROVE BusRowOK(r)'
    BY DEF BusOK
  <1>0. TypeOK /\ DbOK /\ JobRowOK(r) /\ BusRowOK(r)
    BY IInvFacts DEF JobOK, BusOK
  <1>1. pc[r] \in {"guard", "write"} => /\ job[r].cur \in Student
                                        /\ bus'[job[r].cur] = bus[job[r].cur]
    BY <1>0, NoneAssumption DEF JobRowOK
  <1>2. ASSUME NEW w \in tx[r].rows, w.status \in Checks
        PROVE  bus'[w.student] = bus[w.student]
    <2>1. w \in Row /\ PendingRowOK(r, w)
      BY <1>0 DEF TypeOK, Tx, DbOK, PendingOK
    <2>2. w.student \in Student /\ xlock[w.student] = r
      BY <1>2, <2>1 DEF Row, PendingRowOK
    <2> QED
      BY <2>2, NoneAssumption
  <1> QED
    BY <1>0, <1>1, <1>2 DEF BusRowOK

LEMMA NextBus == IInv /\ BusOK /\ [Next]_vars => BusOK'
  <1> SUFFICES ASSUME IInv, BusOK, [Next]_vars PROVE BusOK'
    OBVIOUS
  <1>1. ASSUME NEW r \in Request, Works(r), Frame(r) PROVE BusOK'
    BY <1>1, WorksBus, BusOther
  <1>2. ASSUME NEW r \in Request, Commits(r), Frame(r) PROVE BusOK'
    <2>1. BusRowOK(r)'
      BY <1>2, EmptyTxType DEF Commits, Resumes, BusRowOK
    <2> QED
      BY <1>2, <2>1, BusOther
  <1> QED
    BY <1>1, <1>2, MoveBus, StepWorks

LEMMA InitBus == Init => BusOK
  <1> SUFFICES ASSUME Init PROVE BusOK
    OBVIOUS
  <1>1. \A r \in Request : tx[r].rows = {} /\ pc[r] = "new"
    BY EmptyTxType DEF Init
  <1> QED
    BY <1>1 DEF BusOK, BusRowOK

\* AttributedToCurrentBus for any number of pupils, vehicles and requests: a
\* check reaches checkin_logs only while the pupil is assigned to the vehicle it
\* names, although the vehicle was read before BEGIN and the school moves pupils.
THEOREM AlwaysAttributedToCurrentBus == Spec => AttributedToCurrentBus
  <1>1. IInv /\ BusOK /\ [Next]_vars =>
           [\A c \in ledger' \ ledger :
               c.status # "CANCELLED" => c.bus = bus[c.student] /\ bus' = bus]_vars
    <2> SUFFICES ASSUME IInv, BusOK, [Next]_vars, NEW c \in ledger' \ ledger,
                        c.status # "CANCELLED"
                 PROVE  c.bus = bus[c.student] /\ bus' = bus
      OBVIOUS
    <2>1. PICK r \in Request : Commits(r) /\ Frame(r)
      BY StepWorks DEF Quiet
    <2>2. c \in tx[r].rows /\ bus' = bus
      BY <2>1 DEF Commits, Frame
    <2>3. c.status \in Statuses
      BY <2>2, IInvFacts DEF TypeOK, Tx, Row
    <2> QED
      BY <2>2, <2>3 DEF BusOK, BusRowOK, Checks, Statuses
  <1>2. [](IInv /\ BusOK) /\ [][Next]_vars => AttributedToCurrentBus
    BY <1>1, PTL DEF AttributedToCurrentBus
  <1> QED
    BY <1>2, InitInv, NextInv, InitBus, NextBus, PTL DEF Spec
-----------------------------------------------------------------------------
(* The answer tells what was committed *)

\* The pupils of whom r has committed, and has written, a row.
Recorded(r) == {c.student : c \in {d \in ledger : d.req = r}}
Written(r) == {w.student : w \in tx[r].rows}

\* The pupil r has in hand.
InHand(r) == IF Active(r) THEN {job[r].cur} ELSE {}

\* The lists of r split its plan, and `ok` names the pupils with a row of r.
ListsOK(r) ==
    /\ Recorded(r) \cup Written(r) = job[r].ok
    /\ pc[r] # "new" =>
          job[r].plan = job[r].ok \cup job[r].failed \cup job[r].todo \cup InHand(r)

ReplyRowOK(r) ==
    /\ \A w \in tx[r].rows : w.req = r
    /\ pc[r] = "new" => job[r].op = "none" /\ job[r].ok = {} /\ Recorded(r) = {}
    /\ pc[r] \in {"vlock", "vinsert", "vmark"} => job[r].op \in {"void", "undo"}
    /\ Active(r) => job[r].op \notin {"none", "void", "undo"}
    /\ pc[r] = "commit" /\ job[r].todo # {} => job[r].op = "teacher"
    /\ pc[r] \in {"replied", "refused"} => tx[r].rows = {}
    /\ pc[r] = "replied" => job[r].todo = {}
    /\ job[r].op # "teacher" /\ pc[r] # "replied" => Recorded(r) = {}
    /\ job[r].op \notin {"void", "undo"} /\ pc[r] # "refused" => ListsOK(r)

ReplyOK == \A r \in Request : ReplyRowOK(r)

\* The same lists, after a step that leaves the committed rows of r alone.
LEMMA ResumesReply ==
  ASSUME NEW r \in Request, NEW j \in Job, NEW otherwise \in {"commit", "replied"},
         Resumes(r, j, otherwise),
         \A w \in tx'[r].rows : w.req = r,
         j.op \notin {"none", "void", "undo"},
         otherwise = "replied" => tx'[r].rows = {},
         j.op # "teacher" /\ otherwise = "commit" => Recorded(r)' = {},
         j.op # "teacher" /\ otherwise = "replied" => j.todo = {},
         Recorded(r)' \cup Written(r)' = j.ok,
         j.plan = j.ok \cup j.failed \cup j.todo
  PROVE  ReplyRowOK(r)'
  <1>1. CASE pc'[r] = otherwise /\ j.todo = {} /\ job'[r].todo = {}
    <2>1. InHand(r)' = {} /\ ~Active(r)'
      BY <1>1 DEF InHand, Active
    <2> QED
      BY <1>1, <2>1 DEF ReplyRowOK, ListsOK, Resumes
  <1>2. CASE pc'[r] = "wait" /\ job'[r].cur \in j.todo /\ job'[r].todo = j.todo \ {job'[r].cur}
    <2>1. InHand(r)' = {job'[r].cur}
      BY <1>2 DEF InHand, Active
    <2> QED
      BY <1>2, <2>1 DEF ReplyRowOK, ListsOK, Resumes
  <1> QED
    BY <1>1, <1>2 DEF Resumes
LEMMA WorksReply ==
  ASSUME IInv, NEW r \in Request, ReplyRowOK(r), Works(r), Quiet
  PROVE  ReplyRowOK(r)'
  <1>0. /\ Recorded(r)' = Recorded(r) /\ EmptyTx.rows = {}
        /\ JobRowOK(r) /\ tx[r] \in Tx
        /\ BatchOps = {"checkinAll", "checkoutAll", "overrideAll"}
        /\ RetriedOps = {"tap", "checkinAll", "checkoutAll"}
    BY EmptyTxType, IInvFacts, JobType DEF Quiet, Recorded, JobOK, BatchOps, RetriedOps
  <1>1. CASE Begins(r)
    <2>1. PICK j \in Job : /\ j.op \notin {"none", "void", "undo"} /\ j.plan = j.todo
                           /\ j.ok = {} /\ j.failed = {} /\ Resumes(r, j, "commit")
      BY <1>1 DEF Begins
    <2>2. Recorded(r)' = {} /\ tx'[r].rows = {} /\ Written(r)' = {}
      BY <1>0, <1>1 DEF Begins, ReplyRowOK, JobRowOK, Written
    <2> QED
      BY <2>1, <2>2, ResumesReply
  <1>2. CASE BeginsVoid(r)
    <2>1. Recorded(r)' = {} /\ tx'[r].rows = {}
      BY <1>0, <1>2 DEF BeginsVoid, ReplyRowOK, JobRowOK
    <2> QED
      BY <1>2, <2>1 DEF BeginsVoid, ReplyRowOK, Active
  <1>3. CASE Aborts(r)
    <2>1. job[r].op # "teacher" => Recorded(r)' = {}
      BY <1>0, <1>3 DEF Aborts, ReplyRowOK
    <2> QED
      BY <1>0, <1>3, <2>1 DEF Aborts, ReplyRowOK, Active
  <1>4. CASE PassesOver(r)
    <2>1. PICK j \in Job, otherwise \in {"commit", "replied"} :
          /\ j.op = job[r].op /\ j.plan = job[r].plan /\ j.todo = job[r].todo
          /\ j.ok = job[r].ok /\ j.failed = job[r].failed \cup {job[r].cur}
          /\ \/ otherwise = "commit" /\ job[r].op \in BatchOps
             \/ otherwise = "replied" /\ job[r].op = "teacher"
          /\ Resumes(r, j, otherwise)
      BY <1>4 DEF PassesOver
    <2>2. pc[r] \in {"wait", "guard"} /\ tx' = tx /\ Written(r)' = Written(r)
      BY <1>4 DEF PassesOver, Written
    <2>3. /\ job[r].op \notin {"none", "void", "undo"} /\ ListsOK(r) /\ InHand(r) = {job[r].cur}
          /\ \A w \in tx[r].rows : w.req = r
          /\ job[r].op # "teacher" => Recorded(r) = {}
          /\ job[r].op = "teacher" => tx[r].rows = {}
      BY <1>0, <2>2 DEF ReplyRowOK, JobRowOK, Active, InHand
    <2>4. /\ Recorded(r)' \cup Written(r)' = j.ok
          /\ j.plan = j.ok \cup j.failed \cup j.todo
      BY <1>0, <2>1, <2>2, <2>3 DEF ListsOK
    <2> QED
      BY <1>0, <2>1, <2>2, <2>3, <2>4, ResumesReply
  <1>5. CASE Advances(r)
    <2>1. Written(r)' = Written(r)
      BY <1>5 DEF Advances, Written
    <2>2. InHand(r)' = InHand(r)
      BY <1>5 DEF Advances, InHand, Active
    <2> QED
      BY <1>0, <1>5, <2>1, <2>2 DEF Advances, ReplyRowOK, ListsOK, Active
  <1>6. CASE Inserts(r)
    <2>1. PICK j \in Job :
          /\ j.op = job[r].op /\ j.plan = job[r].plan /\ j.todo = job[r].todo
          /\ j.ok = job[r].ok \cup {job[r].cur} /\ j.failed = job[r].failed
          /\ \/ Resumes(r, j, "commit")
             \/ pc'[r] = "commit" /\ job'[r] = j /\ j.op = "teacher"
      BY <1>6 DEF Inserts
    <2>2. pc[r] = "write" /\ tx'[r].rows = tx[r].rows \cup {CheckRow(r)}
      BY <1>6 DEF Inserts
    <2>3. CheckRow(r).req = r /\ CheckRow(r).student = job[r].cur
      BY DEF CheckRow
    <2>4. Written(r)' = Written(r) \cup {job[r].cur} /\ \A w \in tx'[r].rows : w.req = r
      BY <2>2, <2>3 DEF Written, ReplyRowOK
    <2>5. /\ job[r].op \notin {"none", "void", "undo"} /\ ListsOK(r) /\ InHand(r) = {job[r].cur}
          /\ job[r].op # "teacher" => Recorded(r) = {}
      BY <1>0, <2>2 DEF ReplyRowOK, Active, InHand
    <2>6. /\ Recorded(r)' \cup Written(r)' = j.ok
          /\ j.plan = j.ok \cup j.failed \cup j.todo
      BY <1>0, <2>1, <2>2, <2>4, <2>5 DEF ListsOK
    <2>7. CASE Resumes(r, j, "commit")
      BY <1>0, <2>1, <2>4, <2>5, <2>6, <2>7, ResumesReply
    <2>8. CASE pc'[r] = "commit" /\ job'[r] = j /\ j.op = "teacher"
      <3>1. InHand(r)' = {} /\ ~Active(r)'
        BY <2>8 DEF InHand, Active
      <3> QED
        BY <2>4, <2>6, <2>8, <3>1 DEF ReplyRowOK, ListsOK
    <2> QED
      BY <2>1, <2>7, <2>8
  <1>7. CASE Retries(r)
    <2>1. PICK j \in Job : /\ j.op = job[r].op /\ j.plan = job[r].plan /\ j.todo = j.plan
                           /\ j.ok = {} /\ j.failed = {} /\ Resumes(r, j, "commit")
      BY <1>7 DEF Retries
    <2>2. /\ pc[r] = "wait" /\ tx'[r].rows = {} /\ Written(r)' = {}
          /\ j.op \notin {"none", "void", "undo", "teacher"}
      BY <1>0, <1>7, <2>1 DEF Retries, Written
    <2>3. Recorded(r)' = {}
      BY <1>0, <2>1, <2>2 DEF ReplyRowOK
    <2> QED
      BY <2>1, <2>2, <2>3, ResumesReply
  <1>8. CASE InsertsVoid(r)
    BY <1>0, <1>8 DEF InsertsVoid, ReplyRowOK, Active
  <1>9. CASE MarksVoid(r)
    <2>1. job[r].todo = {}
      BY <1>0, <1>9 DEF MarksVoid, JobRowOK
    <2> QED
      BY <1>0, <1>9, <2>1 DEF MarksVoid, ReplyRowOK, Active
  <1> QED
    BY <1>1, <1>2, <1>3, <1>4, <1>5, <1>6, <1>7, <1>8, <1>9 DEF Works

LEMMA CommitsReply ==
  ASSUME IInv, NEW r \in Request, ReplyRowOK(r), Commits(r)
  PROVE  ReplyRowOK(r)'
  <1>0. /\ pc[r] = "commit" /\ tx'[r].rows = {} /\ ledger' = ledger \cup tx[r].rows
        /\ Resumes(r, job[r], "replied") /\ job[r] \in Job
    BY EmptyTxType, IInvFacts, JobType DEF Commits
  <1>1. Recorded(r)' = Recorded(r) \cup Written(r) /\ Written(r)' = {}
    BY <1>0 DEF Recorded, Written, ReplyRowOK
  <1>2. CASE job[r].op \in {"none", "void", "undo"}
    BY <1>0, <1>2, <1>1 DEF ReplyRowOK, Resumes, Active, ListsOK, InHand
  <1>3. CASE job[r].op \notin {"none", "void", "undo"}
    <2>1. ListsOK(r) /\ InHand(r) = {} /\ (job[r].op # "teacher" => job[r].todo = {})
      BY <1>0, <1>3 DEF ReplyRowOK, Active, InHand
    <2>2. /\ Recorded(r)' \cup Written(r)' = job[r].ok
          /\ job[r].plan = job[r].ok \cup job[r].failed \cup job[r].todo
      BY <1>0, <1>1, <2>1 DEF ListsOK
    <2> QED
      BY <1>0, <1>3, <2>1, <2>2, ResumesReply
  <1> QED
    BY <1>2, <1>3

\* The rows r commits are its own, so nobody else's answer changes.
LEMMA OthersReply ==
  ASSUME ReplyOK, NEW r \in Request, Frame(r), NEW q \in Request \ {r},
         \/ Quiet
         \/ Commits(r)
  PROVE  ReplyRowOK(q)'
  <1>1. ReplyRowOK(q) /\ ReplyRowOK(r)
    BY DEF ReplyOK
  <1>2. Recorded(q)' = Recorded(q)
    BY <1>1 DEF Recorded, Quiet, Commits, ReplyRowOK
  <1>3. pc'[q] = pc[q] /\ job'[q] = job[q] /\ tx'[q] = tx[q]
    BY DEF Frame
  <1>4. Written(q)' = Written(q) /\ InHand(q)' = InHand(q) /\ Active(q)' = Active(q)
    BY <1>3 DEF Written, InHand, Active
  <1> QED
    BY <1>1, <1>2, <1>3, <1>4 DEF ReplyRowOK, ListsOK

LEMMA NextReply == IInv /\ ReplyOK /\ [Next]_vars => ReplyOK'
  <1> SUFFICES ASSUME IInv, ReplyOK, [Next]_vars PROVE ReplyOK'
    OBVIOUS
  <1>1. ASSUME NEW r \in Request, Works(r), Frame(r), Quiet PROVE ReplyOK'
    <2>1. ReplyRowOK(r)'
      BY <1>1, WorksReply DEF ReplyOK
    <2>2. \A q \in Request \ {r} : ReplyRowOK(q)'
      BY <1>1, OthersReply
    <2> QED
      BY <2>1, <2>2 DEF ReplyOK
  <1>2. ASSUME NEW r \in Request, Commits(r), Frame(r) PROVE ReplyOK'
    <2>1. ReplyRowOK(r)'
      BY <1>2, CommitsReply DEF ReplyOK
    <2>2. \A q \in Request \ {r} : ReplyRowOK(q)'
      BY <1>2, OthersReply
    <2> QED
      BY <2>1, <2>2 DEF ReplyOK
  <1>3. CASE Quiet /\ UNCHANGED <<pc, job, tx>>
    BY <1>3 DEF Quiet, ReplyOK, ReplyRowOK, ListsOK, Recorded, Written, InHand, Active
  <1> QED
    BY <1>1, <1>2, <1>3, StepWorks

LEMMA InitReply == Init => ReplyOK
  <1> SUFFICES ASSUME Init, NEW r \in Request PROVE ReplyRowOK(r)
    BY DEF ReplyOK
  <1>1. /\ tx[r].rows = {} /\ pc[r] = "new" /\ ledger = {}
        /\ job[r].op = "none" /\ job[r].ok = {} /\ job[r].todo = {}
    BY EmptyTxType DEF Init, NoJob
  <1>2. Recorded(r) = {} /\ Written(r) = {}
    BY <1>1 DEF Recorded, Written
  <1> QED
    BY <1>1, <1>2 DEF ReplyRowOK, ListsOK, Active

\* ReplyIsTruthful for every list of pupils and any number of retries: the
\* answer lists as succeeded exactly the pupils whose rows the request committed,
\* a refused request left nothing, and no pupil of a batch is forgotten.
THEOREM ReplyIsAlwaysTruthful == Spec => []ReplyIsTruthful
  <1>1. ReplyOK => ReplyIsTruthful
    <2> SUFFICES ASSUME ReplyOK, NEW r \in Request
                 PROVE  /\ pc[r] = "replied" /\ job[r].op \notin {"void", "undo"} =>
                              /\ Recorded(r) = job[r].ok
                              /\ job[r].plan = job[r].ok \cup job[r].failed
                        /\ pc[r] = "refused" /\ job[r].op # "teacher" => Recorded(r) = {}
      BY DEF ReplyIsTruthful, Recorded
    <2>1. ReplyRowOK(r)
      BY DEF ReplyOK
    <2>2. pc[r] = "replied" => Written(r) = {} /\ InHand(r) = {}
      BY <2>1 DEF ReplyRowOK, Written, InHand, Active
    <2> QED
      BY <2>1, <2>2 DEF ReplyRowOK, ListsOK
  <1> QED
    BY <1>1, InitInv, NextInv, InitReply, NextReply, PTL DEF Spec
-----------------------------------------------------------------------------
(* The daily_status flag follows the ledger *)

\* What r has written, or will write by its COMMIT, about the flag of w's pupil:
\* a check sets it, a void clears it unless it is an undo, and no check of the
\* pupil commits between the INSERT and the COMMIT of a void.
MarkOK(r, w) ==
    /\ w.status \in Checks => tx[r].marks[w.student] = "true"
    /\ w.status = "CANCELLED" =>
          /\ tx[r].marks[w.student] = "true" => job[r].op = "undo"
          /\ pc[r] = "commit" => tx[r].marks[w.student] # "keep"
          /\ \A c \in ledger : c.student = w.student /\ c.status \in Checks => c.id < w.id

MarksRowOK(r) ==
    /\ \A s \in Student : tx[r].marks[s] # "keep" => \E w \in tx[r].rows : w.student = s
    /\ \A w \in tx[r].rows : MarkOK(r, w)
    /\ Active(r) => \A w \in tx[r].rows : w.status \in Checks
    /\ pc[r] = "vmark" =>
          /\ tx[r].rows # {}
          /\ \A w \in tx[r].rows : w.student = job[r].cur /\ w.status = "CANCELLED"

MarksOK == \A r \in Request : MarksRowOK(r)

LEMMA EmptyMarks ==
  ASSUME NEW r \in Request, tx'[r] = EmptyTx, pc'[r] # "vmark"
  PROVE  MarksRowOK(r)'
  BY DEF MarksRowOK, EmptyTx

\* A step that leaves the writes of r alone and does not reach a void's UPDATE.
LEMMA SameMarks ==
  ASSUME NEW r \in Request, MarksRowOK(r), tx'[r] = tx[r], ledger' = ledger,
         tx[r].rows # {} => job'[r].op = job[r].op,
         tx[r].rows = {} \/ Active(r) \/ pc'[r] = pc[r],
         pc'[r] # "vmark"
  PROVE  MarksRowOK(r)'
  <1>1. CASE tx[r].rows = {}
    BY <1>1 DEF MarksRowOK
  <1>2. CASE tx[r].rows # {} /\ Active(r)
    <2>1. \A w \in tx[r].rows : w.status \in Checks /\ w.status # "CANCELLED"
      BY <1>2 DEF MarksRowOK, Checks
    <2> QED
      BY <1>2, <2>1 DEF MarksRowOK, MarkOK
  <1>3. CASE tx[r].rows # {} /\ ~Active(r) /\ pc'[r] = pc[r]
    BY <1>3 DEF MarksRowOK, MarkOK, Active
  <1> QED
    BY <1>1, <1>2, <1>3

LEMMA WorksMarks ==
  ASSUME IInv, NEW r \in Request, ReplyRowOK(r), MarksRowOK(r), Works(r), Quiet
  PROVE  MarksRowOK(r)'
  <1>0. /\ TypeOK /\ DbOK /\ JobRowOK(r) /\ tx[r] \in Tx /\ ledger' = ledger
    BY IInvFacts, JobType DEF Quiet, JobOK
  <1>1. CASE Begins(r) \/ BeginsVoid(r)
    <2>1. tx[r].rows = {} /\ tx' = tx /\ pc'[r] # "vmark"
      BY <1>0, <1>1 DEF Begins, BeginsVoid, Resumes, JobRowOK
    <2> QED
      BY <1>0, <2>1, SameMarks
  <1>2. CASE Aborts(r) \/ Retries(r)
    BY <1>2, EmptyMarks DEF Aborts, Retries, Resumes
  <1>3. CASE PassesOver(r)
    <2>1. Active(r) /\ tx' = tx /\ pc'[r] # "vmark" /\ job'[r].op = job[r].op
      BY <1>3 DEF PassesOver, Resumes, Active
    <2> QED
      BY <1>0, <2>1, SameMarks
  <1>4. CASE Advances(r)
    <2>1. /\ tx[r].rows = {} \/ Active(r)
          /\ tx' = tx /\ pc'[r] # "vmark" /\ job'[r].op = job[r].op
      BY <1>0, <1>4 DEF Advances, Active, JobRowOK
    <2> QED
      BY <1>0, <2>1, SameMarks
  <1>5. CASE Inserts(r)
    <2> DEFINE s == job[r].cur
               w == CheckRow(r)
    <2>1. /\ tx'[r].rows = tx[r].rows \cup {w} /\ pc[r] = "write"
          /\ tx'[r].marks = [tx[r].marks EXCEPT ![s] = "true"]
          /\ pc'[r] \in {"commit", "wait"}
      BY <1>5 DEF Inserts, Resumes
    <2>2. w.student = s /\ w.status \in Checks /\ s \in Student
      BY <1>0, <2>1 DEF CheckRow, JobRowOK
    <2>3. \A v \in tx[r].rows : v.student # s /\ v.status \in Checks /\ v \in Row
      BY <1>0, <2>1 DEF JobRowOK, MarksRowOK, Active, Tx
    <2>4. \A t \in Student : tx'[r].marks[t] = IF t = s THEN "true" ELSE tx[r].marks[t]
      BY <1>0, <2>1 DEF Tx
    <2> HIDE DEF w
    <2>5. \A v \in tx'[r].rows : v.status \in Checks /\ tx'[r].marks[v.student] = "true"
      BY <2>1, <2>2, <2>3, <2>4 DEF MarksRowOK, MarkOK, Row
    <2>6. \A v \in tx'[r].rows : MarkOK(r, v)'
      BY <2>5 DEF MarkOK, Checks
    <2>7. \A t \in Student : tx'[r].marks[t] # "keep" => \E v \in tx'[r].rows : v.student = t
      BY <2>1, <2>2, <2>4 DEF MarksRowOK
    <2> QED
      BY <2>1, <2>5, <2>6, <2>7 DEF MarksRowOK
  <1>6. CASE InsertsVoid(r)
    <2>1. PICK w \in Row : /\ tx'[r].rows = {w} /\ w.req = r /\ w.id = nextId
                           /\ w.student = job[r].cur /\ w.status = "CANCELLED"
      BY <1>6 DEF InsertsVoid
    <2>2. /\ pc[r] = "vinsert" /\ pc'[r] = "vmark" /\ job' = job /\ tx'[r].marks = tx[r].marks
          /\ tx[r].rows = {}
      BY <1>0, <1>6 DEF InsertsVoid, JobRowOK
    <2>3. \A t \in Student : tx'[r].marks[t] = "keep"
      BY <2>2 DEF MarksRowOK
    <2>4. \A c \in ledger : c.id < w.id
      BY <1>0, <2>1 DEF DbOK, RowsOK
    <2>5. w.student \in Student
      BY <2>1 DEF Row
    <2>6. MarkOK(r, w)'
      BY <1>0, <2>1, <2>2, <2>3, <2>4, <2>5 DEF MarkOK, Checks
    <2> QED
      BY <2>1, <2>2, <2>3, <2>6 DEF MarksRowOK, Active
  <1>7. CASE MarksVoid(r)
    <2>1. PICK m \in {"true", "false"} :
             /\ tx'[r].marks = [tx[r].marks EXCEPT ![job[r].cur] = m]
             /\ m = "true" => job[r].op = "undo"
      BY <1>7 DEF MarksVoid
    <2>2. pc[r] = "vmark" /\ pc'[r] = "commit" /\ job' = job /\ tx'[r].rows = tx[r].rows
      BY <1>7 DEF MarksVoid
    <2>3. /\ tx[r].rows # {} /\ job[r].cur \in Student
          /\ \A w \in tx[r].rows : w.student = job[r].cur /\ w.status = "CANCELLED"
      BY <1>0, <2>2 DEF MarksRowOK, JobRowOK
    <2>4. \A t \in Student : tx'[r].marks[t] = IF t = job[r].cur THEN m ELSE tx[r].marks[t]
      BY <1>0, <2>1 DEF Tx
    <2>5. \A w \in tx'[r].rows : MarkOK(r, w)'
      BY <1>0, <2>1, <2>2, <2>3, <2>4 DEF MarksRowOK, MarkOK, Checks
    <2>6. \A t \in Student : tx'[r].marks[t] # "keep" => \E w \in tx'[r].rows : w.student = t
      BY <2>2, <2>3, <2>4 DEF MarksRowOK
    <2> QED
      BY <2>2, <2>5, <2>6 DEF MarksRowOK, Active
  <1> QED
    BY <1>1, <1>2, <1>3, <1>4, <1>5, <1>6, <1>7 DEF Works

\* While r has a void of a pupil in hand nobody commits a check of the pupil.
LEMMA OthersMarks ==
  ASSUME IInv, MarksOK, NEW r \in Request, Frame(r), NEW q \in Request \ {r},
         Quiet \/ Commits(r)
  PROVE  MarksRowOK(q)'
  <1>0. MarksRowOK(q) /\ pc'[q] = pc[q] /\ job'[q] = job[q] /\ tx'[q] = tx[q] /\ TypeOK /\ DbOK
    BY IInvFacts DEF MarksOK, Frame
  <1>1. ASSUME NEW w \in tx[q].rows, w.status = "CANCELLED", NEW c \in ledger',
               c.student = w.student, c.status \in Checks
        PROVE  c.id < w.id
    <2>1. CASE c \in ledger
      BY <1>0, <1>1, <2>1 DEF MarksRowOK, MarkOK
    <2>2. CASE c \in tx[r].rows
      <3>1. c.status = "CANCELLED"
        BY <1>0, <1>1, <2>2, SamePupil
      <3> QED
        BY <1>1, <3>1 DEF Checks
    <2> QED
      BY <2>1, <2>2 DEF Quiet, Commits
  <1>2. \A w \in tx[q].rows : MarkOK(q, w)'
    BY <1>0, <1>1 DEF MarksRowOK, MarkOK
  <1> QED
    BY <1>0, <1>2 DEF MarksRowOK, Active

LEMMA NextMarks == IInv /\ ReplyOK /\ MarksOK /\ [Next]_vars => MarksOK'
  <1> SUFFICES ASSUME IInv, ReplyOK, MarksOK, [Next]_vars PROVE MarksOK'
    OBVIOUS
  <1>1. ASSUME NEW r \in Request, Works(r), Frame(r), Quiet PROVE MarksOK'
    <2>1. MarksRowOK(r)'
      BY <1>1, WorksMarks DEF ReplyOK, MarksOK
    <2>2. \A q \in Request \ {r} : MarksRowOK(q)'
      BY <1>1, OthersMarks
    <2> QED
      BY <2>1, <2>2 DEF MarksOK
  <1>2. ASSUME NEW r \in Request, Commits(r), Frame(r) PROVE MarksOK'
    <2>1. MarksRowOK(r)'
      BY <1>2, EmptyMarks DEF Commits, Resumes
    <2>2. \A q \in Request \ {r} : MarksRowOK(q)'
      BY <1>2, OthersMarks
    <2> QED
      BY <2>1, <2>2 DEF MarksOK
  <1>3. CASE Quiet /\ UNCHANGED <<pc, job, tx>>
    BY <1>3 DEF Quiet, MarksOK, MarksRowOK, MarkOK, Active
  <1> QED
    BY <1>1, <1>2, <1>3, StepWorks

LEMMA InitMarks == Init => MarksOK
  BY DEF Init, MarksOK, MarksRowOK, EmptyTx, Active
\* The kind of a request that has a committed row never changes.
LEMMA KindKept ==
  ASSUME IInv, ReplyOK, [Next]_vars, NEW c \in ledger
  PROVE  job'[c.req].op = job[c.req].op
  <1>0. c \in Row /\ c.req \in Request
    BY IInvFacts DEF TypeOK, Row
  <1>1. ASSUME NEW r \in Request, Frame(r), r # c.req PROVE job'[c.req].op = job[c.req].op
    BY <1>0, <1>1 DEF Frame
  <1>2. ASSUME NEW r \in Request, Works(r), r = c.req PROVE job'[c.req].op = job[c.req].op
    <2>1. c.student \in Recorded(r)
      BY <1>2 DEF Recorded
    <2>2. pc[r] # "new"
      BY <2>1 DEF ReplyOK, ReplyRowOK
    <2> QED
      BY <1>2, <2>2 DEF Works, Begins, BeginsVoid, Aborts, PassesOver, Advances, Inserts,
         Retries, InsertsVoid, MarksVoid, Resumes
  <1>3. ASSUME NEW r \in Request, Commits(r), r = c.req PROVE job'[c.req].op = job[c.req].op
    BY <1>3 DEF Commits, Resumes
  <1> QED
    BY <1>1, <1>2, <1>3, StepWorks

\* DoneFollowsLedger for one pupil.
DoneOf(s) ==
    /\ done[s] = "absent" <=> \A c \in ledger : c.student # s
    /\ LatestIn(s, {"IN", "OUT"}) => done[s] = "true"
    /\ done[s] = "true" /\ LatestIn(s, {"CANCELLED"}) =>
          \E c \in ledger : /\ c.student = s /\ c.status = "CANCELLED"
                            /\ job[c.req].op = "undo"

\* A step that commits nothing of s.
LEMMA DoneSame ==
  ASSUME NEW s \in Student, DoneOf(s), done'[s] = done[s],
         ledger \subseteq ledger', \A c \in ledger' \ ledger : c.student # s,
         \A c \in ledger : job'[c.req].op = job[c.req].op
  PROVE  DoneOf(s)'
  <1>1. ASSUME NEW S, LatestIn(s, S)' PROVE LatestIn(s, S)
    BY <1>1 DEF LatestIn, IsLatest
  <1>2. (\E c \in ledger : c.student = s /\ c.status = "CANCELLED" /\ job[c.req].op = "undo")
        => (\E c \in ledger' : c.student = s /\ c.status = "CANCELLED" /\ job'[c.req].op = "undo")
    OBVIOUS
  <1>3. (\A c \in ledger : c.student # s) <=> (\A c \in ledger' : c.student # s)
    OBVIOUS
  <1> QED
    BY <1>1, <1>2, <1>3 DEF DoneOf

\* A COMMIT with a row w of s.
LEMMA DoneCommitted ==
  ASSUME IInv, IInv', NEW r \in Request, ReplyRowOK(r), MarksRowOK(r), Commits(r),
         NEW w \in tx[r].rows
  PROVE  DoneOf(w.student)'
  <1> DEFINE s == w.student
  <1>0. /\ TypeOK /\ DbOK /\ w \in Row /\ s \in Student /\ tx[r] \in Tx /\ pc[r] = "commit"
        /\ ledger' = ledger \cup tx[r].rows /\ job'[r].op = job[r].op
        /\ w \in ledger' /\ TypeOK' /\ DbOK'
    BY IInvFacts, JobType DEF TypeOK, Tx, Row, Commits, Resumes, IInv, DbOK
  <1>1. \A c \in ledger' : c \in Row /\ c.id \in Nat
    BY <1>0 DEF TypeOK, Row
  <1>2. PendingRowOK(r, w) /\ MarkOK(r, w) /\ w.req = r
    BY <1>0 DEF DbOK, PendingOK, MarksRowOK, ReplyRowOK
  <1>3. done'[s] = IF tx[r].marks[s] = "keep" THEN done[s] ELSE tx[r].marks[s]
    BY <1>0 DEF Commits, Marked
  <1>4. tx[r].marks[s] \in {"keep", "true", "false"}
    BY <1>0 DEF Tx
  <1>5. w.status \in Checks \/ w.status = "CANCELLED"
    BY <1>0 DEF Row, Statuses, Checks
  <1>6. done'[s] \in {"true", "false"}
    BY <1>0, <1>2, <1>3, <1>4, <1>5 DEF MarkOK
  <1>7. ASSUME w.status \in Checks
        PROVE  done'[s] = "true" /\ ~LatestIn(s, {"CANCELLED"})'
    <2>1. ASSUME NEW c \in ledger', c.student = s, IsLatest(c)', c.status = "CANCELLED"
          PROVE  FALSE
      <3>1. w.id <= c.id
        BY <1>0, <2>1 DEF IsLatest
      <3>2. c # w
        BY <1>7, <2>1 DEF Checks
      <3>3. c \in ledger
        BY <1>0, <1>2, <2>1, <3>2 DEF PendingRowOK
      <3>4. c.id < w.id
        BY <1>2, <1>7, <2>1, <3>3 DEF PendingRowOK
      <3> QED
        BY <1>0, <1>1, <2>1, <3>1, <3>4
    <2> QED
      BY <1>2, <1>3, <1>7, <2>1 DEF MarkOK, LatestIn
  <1>8. ASSUME w.status = "CANCELLED"
        PROVE  /\ ~LatestIn(s, {"IN", "OUT"})'
               /\ done'[s] = "true" => job'[w.req].op = "undo"
    <2>1. ASSUME NEW c \in ledger', c.student = s, IsLatest(c)', c.status \in Checks
          PROVE  FALSE
      <3>1. w.id <= c.id
        BY <1>0, <2>1 DEF IsLatest
      <3>2. c # w
        BY <1>8, <2>1 DEF Checks
      <3>3. c \in ledger
        BY <1>0, <1>2, <2>1, <3>2 DEF PendingRowOK
      <3>4. c.id < w.id
        BY <1>2, <1>8, <2>1, <3>3 DEF MarkOK
      <3> QED
        BY <1>0, <1>1, <2>1, <3>1, <3>4
    <2>2. ~LatestIn(s, {"IN", "OUT"})'
      BY <2>1 DEF LatestIn, Checks
    <2> QED
      BY <1>0, <1>2, <1>3, <1>8, <2>2 DEF MarkOK
  <1> QED
    BY <1>0, <1>5, <1>6, <1>7, <1>8 DEF DoneOf

LEMMA NextDone ==
  IInv /\ ReplyOK /\ MarksOK /\ DoneFollowsLedger /\ [Next]_vars => DoneFollowsLedger'
  <1> SUFFICES ASSUME IInv, ReplyOK, MarksOK, DoneFollowsLedger, [Next]_vars,
                      NEW s \in Student
               PROVE  DoneOf(s)'
    BY DEF DoneFollowsLedger, DoneOf
  <1>0. DoneOf(s) /\ IInv'
    BY NextInv DEF DoneFollowsLedger, DoneOf
  <1>1. CASE Quiet
    BY <1>0, <1>1, KindKept, DoneSame DEF Quiet
  <1>2. ASSUME NEW r \in Request, Commits(r) PROVE DoneOf(s)'
    <2>1. CASE \E w \in tx[r].rows : w.student = s
      BY <1>0, <1>2, <2>1, DoneCommitted DEF ReplyOK, MarksOK
    <2>2. CASE \A w \in tx[r].rows : w.student # s
      <3>1. tx[r].marks[s] = "keep"
        BY <2>2 DEF MarksOK, MarksRowOK
      <3>2. done'[s] = done[s] /\ ledger' = ledger \cup tx[r].rows
        BY <1>2, <3>1 DEF Commits, Marked
      <3> QED
        BY <1>0, <2>2, <3>2, KindKept, DoneSame
    <2> QED
      BY <2>1, <2>2
  <1> QED
    BY <1>1, <1>2, StepWorks

\* DoneFollowsLedger for any number of checks, voids and undos in flight: the
\* daily_status flag exists exactly for the pupils with a row, is set while the
\* newest row is a check, and outlives a void only if the void was an undo.
THEOREM DoneAlwaysFollowsLedger == Spec => []DoneFollowsLedger
  <1>1. Init => DoneFollowsLedger
    BY DEF Init, DoneFollowsLedger, LatestIn
  <1> QED
    BY <1>1, InitInv, NextInv, InitReply, NextReply, InitMarks, NextMarks, NextDone, PTL DEF Spec

=============================================================================
