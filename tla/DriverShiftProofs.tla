-------------------------- MODULE DriverShiftProofs --------------------------
(***************************************************************************)
(* Proofs about DriverShift for every set of drivers, buses, shifts and    *)
(* connections.                                                            *)
(*                                                                         *)
(* The unique keys of vehicle_operating_shifts are never needed because    *)
(* row locks exclude each other (HeldExclusive) and a request that goes    *)
(* for the INSERT has locked its driver, its bus and its assignment since  *)
(* it read them (ConnOK); a request that changes one of those rows has     *)
(* locked it as well.                                                      *)
(***************************************************************************)
EXTENDS DriverShift, TLAPS

\* A row has one owner.
HeldExclusive == \A b, c \in Conn : b # c => held[b] \cap held[c] = {}

\* Operation that is at each statement.
AtOK(c) ==
    /\ pc[c] = "driver" => job[c].op \in {"start", "authorize", "qualify"}
    /\ pc[c] \in {"join", "open", "insert"} => job[c].op = "start"
    /\ pc[c] = "vehicle" => job[c].op \in {"authorize", "reassign"}
    /\ pc[c] = "grant" => job[c].op = "authorize"
    /\ pc[c] = "pool" => job[c].op \in {"qualify", "reassign"}
    /\ pc[c] = "refresh" => job[c].op = "qualify"

\* References that are present at each statement.
RefersOK(c) ==
    /\ pc[c] \notin {"idle", "ending", "close"} => job[c].driver \in Driver
    /\ pc[c] \in {"join", "open", "insert", "vehicle", "grant", "target", "move"}
          => job[c].vehicle \in Vehicle
    /\ pc[c] = "driver" /\ job[c].op # "qualify" => job[c].vehicle \in Vehicle
    /\ pc[c] = "pool" /\ job[c].op = "reassign" => job[c].vehicle \in Vehicle
    /\ pc[c] \in {"ending", "close"} => job[c].shift \in ShiftId
    /\ pc[c] = "target" => job[c].target \in Driver

\* Locks that are held at each statement.
LocksOK(c) ==
    /\ pc[c] \in {"join", "open", "insert", "refresh"} => job[c].driver \in held[c]
    /\ pc[c] = "pool" /\ job[c].op = "qualify" => job[c].driver \in held[c]
    /\ pc[c] \in {"open", "insert"} => JoinRows(c) \subseteq held[c]
    /\ pc[c] = "grant" => job[c].vehicle \in held[c]

\* What a start has found out and stays true.
StartOK(c) ==
    /\ pc[c] \in {"open", "insert"} => MayDrive(job[c].driver, job[c].vehicle)
    /\ pc[c] = "insert" => Conflicting(c) = {}

ConnOK(c) == AtOK(c) /\ RefersOK(c) /\ LocksOK(c) /\ StartOK(c)

IInv ==
    /\ TypeOK
    /\ HeldExclusive
    /\ \A c \in Conn : ConnOK(c)
    /\ ShiftsExclusive

-----------------------------------------------------------------------------
(* Transactions *)

\* What COMMIT or ROLLBACK does to the connections.
LEMMA FinishFacts ==
  ASSUME TypeOK, HeldExclusive, NEW c \in Conn, Finish(c)
  PROVE  /\ held' \in [Conn -> SUBSET Row]
         /\ pc' \in [Conn -> Statement]
         /\ job' \in [Conn -> Job]
         /\ HeldExclusive'
         /\ ConnOK(c)'
         /\ \A b \in Conn \ {c} : held'[b] = held[b] /\ pc'[b] = pc[b] /\ job'[b] = job[b]
  <1>1. NoJob \in Job
    BY DEF NoJob, Job
  <1>2. /\ held' \in [Conn -> SUBSET Row]
        /\ pc' \in [Conn -> Statement]
        /\ job' \in [Conn -> Job]
        /\ held'[c] = {} /\ pc'[c] = "idle"
        /\ \A b \in Conn \ {c} : held'[b] = held[b] /\ pc'[b] = pc[b] /\ job'[b] = job[b]
    BY <1>1 DEF Finish, TypeOK, Statement
  <1>3. HeldExclusive'
    BY <1>2 DEF HeldExclusive
  <1>4. ConnOK(c)'
    BY <1>2 DEF ConnOK, AtOK, RefersOK, LocksOK, StartOK
  <1> QED
    BY <1>2, <1>3, <1>4

\* What a row lock does to the connections.
LEMMA LockFacts ==
  ASSUME TypeOK, HeldExclusive, NEW c \in Conn, NEW row \in Row, Lock(c, row)
  PROVE  /\ held' \in [Conn -> SUBSET Row]
         /\ held'[c] = held[c] \cup {row}
         /\ \A b \in Conn \ {c} : held'[b] = held[b]
         /\ HeldExclusive'
  <1>1. /\ held' \in [Conn -> SUBSET Row]
        /\ held'[c] = held[c] \cup {row}
        /\ \A b \in Conn \ {c} : held'[b] = held[b]
    BY DEF Lock, TypeOK
  <1>2. \A b \in Conn \ {c} : row \notin held[b]
    BY DEF Lock, Free
  <1>3. HeldExclusive'
    BY <1>1, <1>2 DEF HeldExclusive
  <1> QED
    BY <1>1, <1>3

\* A shift that is open after the step was open before, or shares neither driver
\* nor bus with a row that connection b has locked.
OpensBeside(b) ==
    \A s \in ShiftId : shift'[s].status = "OPEN" =>
       \/ shift[s].status = "OPEN" /\ shift'[s].driver = shift[s].driver
             /\ shift'[s].vehicle = shift[s].vehicle
       \/ shift'[s].driver \notin held[b] /\ shift'[s].vehicle \notin held[b]

\* A step takes nothing away from the rows that connection b has locked.
Spares(b) ==
    \A row \in held[b] : /\ row \in inForce => row \in inForce'
                         /\ row \in eligible => row \in eligible'
                         /\ row \in licensed => row \in licensed'

\* What a connection knows survives the steps of the others.
LEMMA Undisturbed ==
  ASSUME TypeOK, NEW b \in Conn, ConnOK(b),
         pc'[b] = pc[b], job'[b] = job[b], held'[b] = held[b],
         Spares(b), OpensBeside(b)
  PROVE  ConnOK(b)'
  <1>1. AtOK(b)' /\ RefersOK(b)' /\ LocksOK(b)'
    BY DEF ConnOK, AtOK, RefersOK, LocksOK, JoinRows
  <1>2. ASSUME pc[b] \in {"open", "insert"}
        PROVE  MayDrive(job[b].driver, job[b].vehicle)'
    <2>1. /\ job[b].driver \in held[b]
          /\ job[b].vehicle \in held[b]
          /\ <<job[b].driver, job[b].vehicle>> \in held[b]
      BY <1>2 DEF ConnOK, LocksOK, JoinRows
    <2>2. MayDrive(job[b].driver, job[b].vehicle)
      BY <1>2 DEF ConnOK, StartOK
    <2> QED
      BY <2>1, <2>2 DEF MayDrive, Spares
  <1>3. ASSUME pc[b] = "insert"
        PROVE  Conflicting(b)' = {}
    <2>1. Conflicting(b) = {} /\ job[b].driver \in held[b] /\ job[b].vehicle \in held[b]
      BY <1>3 DEF ConnOK, StartOK, LocksOK, JoinRows
    <2> QED
      BY <2>1 DEF Conflicting, OpensBeside
  <1> QED
    BY <1>1, <1>2, <1>3 DEF ConnOK, StartOK

\* A step that leaves the tables alone.
LEMMA UndisturbedByLocking ==
  ASSUME IInv, NEW c \in Conn, UNCHANGED rows,
         \A b \in Conn \ {c} : held'[b] = held[b] /\ pc'[b] = pc[b] /\ job'[b] = job[b]
  PROVE  \A b \in Conn \ {c} : ConnOK(b)'
  <1> TAKE b \in Conn \ {c}
  <1>1. Spares(b) /\ OpensBeside(b)
    BY DEF Spares, OpensBeside, rows
  <1> QED
    BY <1>1, Undisturbed DEF IInv

\* A step of connection c alone that leaves the tables alone: its part remains.
LEMMA TablesKept ==
  ASSUME IInv, NEW c \in Conn, UNCHANGED <<rows, collided>>,
         \A b \in Conn \ {c} : held'[b] = held[b] /\ pc'[b] = pc[b] /\ job'[b] = job[b],
         held' \in [Conn -> SUBSET Row], pc' \in [Conn -> Statement], job' \in [Conn -> Job],
         HeldExclusive', ConnOK(c)'
  PROVE  IInv'
  <1>1. \A b \in Conn : ConnOK(b)'
    BY UndisturbedByLocking
  <1>2. TypeOK'
    BY DEF IInv, TypeOK, rows
  <1>3. ShiftsExclusive'
    BY DEF IInv, ShiftsExclusive, rows
  <1> QED
    BY <1>1, <1>2, <1>3 DEF IInv

\* A request that ends without writing.
LEMMA FinishKept ==
  ASSUME IInv, NEW c \in Conn, Finish(c), UNCHANGED <<rows, collided>>
  PROVE  IInv'
  BY FinishFacts, TablesKept DEF IInv

\* A request that begins.
LEMMA BeginKept ==
  ASSUME IInv, NEW c \in Conn, NEW next \in Statement, NEW request \in Job,
         Begin(c, next, request),
         (pc'[c] = next /\ job'[c] = request) => ConnOK(c)'
  PROVE  IInv'
  <1>1. /\ pc' \in [Conn -> Statement] /\ job' \in [Conn -> Job] /\ held' = held
        /\ pc'[c] = next /\ job'[c] = request
        /\ \A b \in Conn \ {c} : pc'[b] = pc[b] /\ job'[b] = job[b]
    BY DEF Begin, Continue, IInv, TypeOK
  <1>2. held' \in [Conn -> SUBSET Row] /\ HeldExclusive'
    BY <1>1 DEF IInv, TypeOK, HeldExclusive
  <1>3. UNCHANGED <<rows, collided>>
    BY DEF Begin
  <1> QED
    BY <1>1, <1>2, <1>3, TablesKept

\* A request that goes on to its next statement, perhaps with one more lock.
LEMMA ContinueKept ==
  ASSUME IInv, NEW c \in Conn, NEW next \in Statement, Continue(c, next),
         UNCHANGED <<rows, collided>>,
         job' \in [Conn -> Job], \A b \in Conn \ {c} : job'[b] = job[b],
         \/ held' = held
         \/ \E row \in Row : Lock(c, row),
         (pc'[c] = next) => ConnOK(c)'
  PROVE  IInv'
  <1>1. /\ pc' \in [Conn -> Statement] /\ pc'[c] = next
        /\ \A b \in Conn \ {c} : pc'[b] = pc[b]
    BY DEF Continue, IInv, TypeOK
  <1>2. /\ held' \in [Conn -> SUBSET Row] /\ HeldExclusive'
        /\ \A b \in Conn \ {c} : held'[b] = held[b]
    <2>1. CASE held' = held
      BY <2>1 DEF IInv, TypeOK, HeldExclusive
    <2>2. CASE \E row \in Row : Lock(c, row)
      BY <2>2, LockFacts DEF IInv
    <2> QED
      BY <2>1, <2>2
  <1> QED
    BY <1>1, <1>2, TablesKept

-----------------------------------------------------------------------------
(* Requests *)

LEMMA JobType == ASSUME IInv, NEW c \in Conn PROVE job[c] \in Job /\ ConnOK(c)
  BY DEF IInv, TypeOK

LEMMA RequestKept == ASSUME IInv, NEW c \in Conn, Request(c) PROVE IInv'
  <1> DEFINE Asked(next, request) ==
        /\ next \in Statement
        /\ request \in Job
        /\ Begin(c, next, request)
        /\ (pc'[c] = next /\ job'[c] = request) => ConnOK(c)'
  <1>1. ASSUME NEW next, NEW request, Asked(next, request)
        PROVE  IInv'
    BY <1>1, BeginKept
  <1> USE DEF NoJob, Job, Statement, ConnOK, AtOK, RefersOK, LocksOK, StartOK
  <1>2. ASSUME NEW d \in Driver, NEW v \in Vehicle, startShift(c, d, v)
        PROVE  IInv'
    <2>1. Asked("driver", [NoJob EXCEPT !.op = "start", !.driver = d, !.vehicle = v])
      BY <1>2 DEF startShift
    <2> QED
      BY ONLY <2>1, <1>1
  <1>3. ASSUME NEW s \in ShiftId, endShift(c, s)
        PROVE  IInv'
    <2>1. Asked("ending", [NoJob EXCEPT !.op = "end", !.shift = s])
      BY <1>3 DEF endShift
    <2> QED
      BY ONLY <2>1, <1>1
  <1>4. ASSUME NEW d \in Driver, NEW v \in Vehicle, authorizeDriverForVehicle(c, d, v)
        PROVE  IInv'
    <2>1. Asked("driver", [NoJob EXCEPT !.op = "authorize", !.driver = d, !.vehicle = v])
      BY <1>4 DEF authorizeDriverForVehicle
    <2> QED
      BY ONLY <2>1, <1>1
  <1>5. ASSUME NEW d \in Driver, verifyDriverQualification(c, d)
        PROVE  IInv'
    <2>1. Asked("driver", [NoJob EXCEPT !.op = "qualify", !.driver = d])
      BY <1>5 DEF verifyDriverQualification
    <2> QED
      BY ONLY <2>1, <1>1
  <1>6. ASSUME NEW d \in Driver, NEW v \in Vehicle, reassignDriverVehicle(c, d, v)
        PROVE  IInv'
    <2>1. Asked("vehicle", [NoJob EXCEPT !.op = "reassign", !.driver = d, !.vehicle = v])
      BY <1>6 DEF reassignDriverVehicle
    <2> QED
      BY ONLY <2>1, <1>1
  <1>7. ASSUME NEW d \in Driver, deactivateDriver(c, d)
        PROVE  IInv'
    <2>1. Asked("endAll", [NoJob EXCEPT !.op = "deactivate", !.driver = d])
      BY <1>7 DEF deactivateDriver
    <2> QED
      BY ONLY <2>1, <1>1
  <1> QED
    BY ONLY <1>2, <1>3, <1>4, <1>5, <1>6, <1>7, Request(c) DEF Request

-----------------------------------------------------------------------------
(* Statements that only lock and read *)

LEMMA LockDriverKept == ASSUME IInv, NEW c \in Conn, LockDriver(c) PROVE IInv'
  <1> DEFINE next == CASE job[c].op = "start" -> "join"
                       [] job[c].op = "authorize" -> "vehicle"
                       [] job[c].op = "qualify" -> "pool"
  <1>1. /\ job[c].op \in {"start", "authorize", "qualify"}
        /\ job[c].driver \in Driver
        /\ job[c].op # "qualify" => job[c].vehicle \in Vehicle
    BY JobType DEF LockDriver, ConnOK, AtOK, RefersOK
  <1>2. next \in Statement /\ Continue(c, next)
    BY <1>1 DEF LockDriver, Statement
  <1>3. job[c].driver \in Row /\ Lock(c, job[c].driver)
    BY <1>1 DEF LockDriver, Row
  <1>4. UNCHANGED <<rows, collided, job>>
    BY DEF LockDriver
  <1>5. job[c].driver \in held'[c]
    BY <1>3, LockFacts DEF IInv
  <1>6. ASSUME pc'[c] = next
        PROVE  ConnOK(c)'
    BY <1>1, <1>4, <1>5, <1>6 DEF ConnOK, AtOK, RefersOK, LocksOK, StartOK
  <1> QED
    BY <1>2, <1>3, <1>4, <1>6, ContinueKept DEF IInv, TypeOK

LEMMA LockVehicleKept == ASSUME IInv, NEW c \in Conn, LockVehicle(c) PROVE IInv'
  <1> DEFINE next == IF job[c].op = "authorize" THEN "grant" ELSE "pool"
  <1>1. /\ job[c].op \in {"authorize", "reassign"}
        /\ job[c].driver \in Driver /\ job[c].vehicle \in Vehicle
    BY JobType DEF LockVehicle, ConnOK, AtOK, RefersOK
  <1>2. next \in Statement /\ Continue(c, next)
    BY DEF LockVehicle, Statement
  <1>3. job[c].vehicle \in Row /\ Lock(c, job[c].vehicle)
    BY <1>1 DEF LockVehicle, Row
  <1>4. UNCHANGED <<rows, collided, job>>
    BY DEF LockVehicle
  <1>5. job[c].vehicle \in held'[c]
    BY <1>3, LockFacts DEF IInv
  <1>6. ASSUME pc'[c] = next
        PROVE  ConnOK(c)'
    BY <1>1, <1>4, <1>5, <1>6 DEF ConnOK, AtOK, RefersOK, LocksOK, StartOK
  <1> QED
    BY <1>2, <1>3, <1>4, <1>6, ContinueKept DEF IInv, TypeOK

\* A lock taken while the request stays at its statement.
LEMMA OneMoreLock ==
  ASSUME IInv, NEW c \in Conn, NEW row \in Row, Lock(c, row),
         pc[c] \in {"join", "refresh"}, UNCHANGED <<rows, pc, job, collided>>
  PROVE  IInv'
  <1>1. held[c] \subseteq held'[c]
    BY LockFacts DEF IInv
  <1>2. ConnOK(c)'
    BY <1>1, JobType DEF ConnOK, AtOK, RefersOK, LocksOK, StartOK
  <1> QED
    BY <1>2, LockFacts, TablesKept DEF IInv, TypeOK

LEMMA LockJoinKept == ASSUME IInv, NEW c \in Conn, LockJoin(c) PROVE IInv'
  <1>1. JoinRows(c) \subseteq Row
    BY JobType DEF LockJoin, ConnOK, RefersOK, JoinRows, Row
  <1> QED
    BY <1>1, OneMoreLock DEF LockJoin

LEMMA RefreshBusKept == ASSUME IInv, NEW c \in Conn, RefreshBus(c) PROVE IInv'
  <1>1. job[c].todo \subseteq Row
    BY JobType DEF Job, Row
  <1> QED
    BY <1>1, OneMoreLock DEF RefreshBus

LEMMA CheckDriverKept == ASSUME IInv, NEW c \in Conn, CheckDriver(c) PROVE IInv'
  <1>1. CASE Continue(c, "open") /\ UNCHANGED <<held, job>>
                /\ MayDrive(job[c].driver, job[c].vehicle)
    <2>1. UNCHANGED <<rows, collided>> /\ pc[c] = "join" /\ JoinRows(c) \subseteq held[c]
      BY DEF CheckDriver
    <2>2. ASSUME pc'[c] = "open"
          PROVE  ConnOK(c)'
      BY <1>1, <2>1, <2>2, JobType
         DEF ConnOK, AtOK, RefersOK, LocksOK, StartOK, JoinRows, MayDrive, rows
    <2> QED
      BY <1>1, <2>1, <2>2, ContinueKept DEF IInv, TypeOK, Statement
  <1>2. CASE Finish(c)
    BY <1>2, FinishKept DEF CheckDriver
  <1> QED
    BY <1>1, <1>2 DEF CheckDriver

LEMMA ReadOpenShiftsKept == ASSUME IInv, NEW c \in Conn, ReadOpenShifts(c) PROVE IInv'
  <1>1. CASE Continue(c, "insert") /\ UNCHANGED <<held, job>> /\ Conflicting(c) = {}
    <2>1. UNCHANGED <<rows, collided>> /\ pc[c] = "open"
      BY DEF ReadOpenShifts
    <2>2. ASSUME pc'[c] = "insert"
          PROVE  ConnOK(c)'
      BY <1>1, <2>1, <2>2, JobType
         DEF ConnOK, AtOK, RefersOK, LocksOK, StartOK, JoinRows, MayDrive, Conflicting, rows
    <2> QED
      BY <1>1, <2>1, <2>2, ContinueKept DEF IInv, TypeOK, Statement
  <1>2. CASE Finish(c)
    BY <1>2, FinishKept DEF ReadOpenShifts
  <1> QED
    BY <1>1, <1>2 DEF ReadOpenShifts

LEMMA LockShiftKept == ASSUME IInv, NEW c \in Conn, LockShift(c) PROVE IInv'
  <1>1. CASE Lock(c, job[c].shift) /\ Continue(c, "close") /\ UNCHANGED job
    <2>1. UNCHANGED <<rows, collided>> /\ pc[c] = "ending"
      BY DEF LockShift
    <2>2. job[c].shift \in ShiftId
      BY <2>1, JobType DEF ConnOK, RefersOK
    <2>3. ASSUME pc'[c] = "close"
          PROVE  ConnOK(c)'
      BY <1>1, <2>2, <2>3 DEF ConnOK, AtOK, RefersOK, LocksOK, StartOK
    <2> QED
      BY <1>1, <2>1, <2>2, <2>3, ContinueKept DEF IInv, TypeOK, Statement, Row
  <1>2. CASE Finish(c)
    BY <1>2, FinishKept DEF LockShift
  <1> QED
    BY <1>1, <1>2 DEF LockShift

LEMMA ReadBusesKept == ASSUME IInv, NEW c \in Conn, ReadBuses(c) PROVE IInv'
  <1>1. /\ pc[c] = "pool" /\ job[c].op = "qualify" /\ Continue(c, "refresh")
        /\ job' = [job EXCEPT ![c].todo = BusesOf(job[c].driver)]
        /\ UNCHANGED <<rows, held, collided>>
    BY DEF ReadBuses
  <1>2. job' \in [Conn -> Job] /\ \A b \in Conn \ {c} : job'[b] = job[b]
    BY <1>1 DEF IInv, TypeOK, Job, BusesOf
  <1>3. job'[c].op = job[c].op /\ job'[c].driver = job[c].driver
    BY <1>1, JobType DEF IInv, TypeOK, Job
  <1>4. ASSUME pc'[c] = "refresh"
        PROVE  ConnOK(c)'
    BY <1>1, <1>3, <1>4, JobType DEF ConnOK, AtOK, RefersOK, LocksOK, StartOK
  <1> QED
    BY <1>1, <1>2, <1>4, ContinueKept DEF Statement

LEMMA ReadAssignmentsKept ==
  ASSUME IInv, NEW c \in Conn, NEW endTargetExisting \in BOOLEAN,
         ReadAssignments(c, endTargetExisting)
  PROVE  IInv'
  <1>1. UNCHANGED <<rows, collided>> /\ pc[c] = "pool" /\ job[c].op = "reassign"
    BY DEF ReadAssignments
  <1>2. job[c].driver \in Driver /\ job[c].vehicle \in Vehicle /\ job[c] \in Job
    BY <1>1, JobType DEF ConnOK, RefersOK
  <1>3. CASE Finish(c)
    BY <1>1, <1>3, FinishKept
  <1>4. CASE /\ job' = [job EXCEPT ![c].old = BusesOf(job[c].driver) # {}]
             /\ Continue(c, "move") /\ UNCHANGED held
    <2>1. /\ job' \in [Conn -> Job] /\ \A b \in Conn \ {c} : job'[b] = job[b]
          /\ job'[c].driver = job[c].driver /\ job'[c].vehicle = job[c].vehicle
      BY <1>2, <1>4 DEF IInv, TypeOK, Job
    <2>2. ASSUME pc'[c] = "move"
          PROVE  ConnOK(c)'
      BY <1>2, <2>1, <2>2 DEF ConnOK, AtOK, RefersOK, LocksOK, StartOK
    <2> QED
      BY <1>1, <1>4, <2>1, <2>2, ContinueKept DEF Statement
  <1>5. ASSUME NEW t \in DriversOf(job[c].vehicle),
               job' = [job EXCEPT ![c].target = t, ![c].old = BusesOf(job[c].driver) # {}],
               Continue(c, "target"), UNCHANGED held
        PROVE  IInv'
    <2>1. t \in Driver
      BY <1>5 DEF DriversOf
    <2>2. /\ job' \in [Conn -> Job] /\ \A b \in Conn \ {c} : job'[b] = job[b]
          /\ job'[c].driver = job[c].driver /\ job'[c].vehicle = job[c].vehicle
          /\ job'[c].target = t
      BY <1>2, <1>5, <2>1 DEF IInv, TypeOK, Job
    <2>3. ASSUME pc'[c] = "target"
          PROVE  ConnOK(c)'
      BY <1>2, <2>1, <2>2, <2>3 DEF ConnOK, AtOK, RefersOK, LocksOK, StartOK
    <2> QED
      BY <1>1, <1>5, <2>2, <2>3, ContinueKept DEF Statement
  <1> QED
    BY <1>3, <1>4, <1>5 DEF ReadAssignments

LEMMA EndTargetKept == ASSUME IInv, NEW c \in Conn, EndTarget(c) PROVE IInv'
  <1>1. job[c].target \in Driver /\ job[c].vehicle \in Vehicle /\ job[c].driver \in Driver
    BY JobType DEF EndTarget, ConnOK, RefersOK
  <1>2. ASSUME pc'[c] = "move"
        PROVE  ConnOK(c)'
    BY <1>1, <1>2 DEF EndTarget, ConnOK, AtOK, RefersOK, LocksOK, StartOK
  <1> QED
    BY <1>1, <1>2, ContinueKept DEF EndTarget, IInv, TypeOK, Statement, Row

-----------------------------------------------------------------------------
(* Statements that write: the last of a transaction, or one outside of any *)

\* A step that opens no shift and takes nothing from a locked row.
LEMMA WriteKept ==
  ASSUME IInv, TypeOK', HeldExclusive', UNCHANGED <<shift, collided>>,
         \A b \in Conn :
            \/ ConnOK(b)'
            \/ /\ held'[b] = held[b] /\ pc'[b] = pc[b] /\ job'[b] = job[b]
               /\ Spares(b)
  PROVE  IInv'
  <1>1. ASSUME NEW b \in Conn,
               held'[b] = held[b], pc'[b] = pc[b], job'[b] = job[b], Spares(b)
        PROVE  ConnOK(b)'
    <2>1. OpensBeside(b)
      BY DEF OpensBeside
    <2> QED
      BY <1>1, <2>1, Undisturbed DEF IInv
  <1>2. ShiftsExclusive'
    BY DEF IInv, ShiftsExclusive
  <1> QED
    BY <1>1, <1>2 DEF IInv

\* The same for the last statement of connection c.
LEMMA CommitKept ==
  ASSUME IInv, NEW c \in Conn, Finish(c), UNCHANGED <<shift, collided>>,
         assigned' \subseteq Driver \X Vehicle, inForce' \subseteq assigned', account' \subseteq Driver,
         licensed' \subseteq Driver, eligible' \subseteq Vehicle,
         \A b \in Conn \ {c} : Spares(b)
  PROVE  IInv'
  <1>1. TypeOK' /\ HeldExclusive'
    BY FinishFacts DEF IInv, TypeOK
  <1> QED
    BY <1>1, FinishFacts, WriteKept DEF IInv

\* Another connection does not hold what c holds.
LEMMA OneOwner ==
  ASSUME IInv, NEW c \in Conn, NEW row \in held[c], NEW b \in Conn \ {c}
  PROVE  row \notin held[b]
  BY DEF IInv, HeldExclusive

LEMMA InsertShiftKept ==
  ASSUME IInv, NEW c \in Conn, NEW s \in ShiftId, InsertShift(c, s)
  PROVE  IInv'
  <1> DEFINE d == job[c].driver
             v == job[c].vehicle
  <1>1. /\ pc[c] = "insert" /\ Finish(c)
        /\ UNCHANGED <<assigned, inForce, account, licensed, eligible>>
    BY DEF InsertShift
  <1>2. /\ d \in Driver /\ v \in Vehicle
        /\ d \in held[c] /\ v \in held[c]
        /\ Conflicting(c) = {}
    BY <1>1, JobType DEF ConnOK, RefersOK, LocksOK, StartOK, JoinRows
  <1>3. /\ shift' = [shift EXCEPT ![s] = [status |-> "OPEN", driver |-> d, vehicle |-> v]]
        /\ collided' = collided
    BY <1>2 DEF InsertShift
  <1>4. TypeOK' /\ HeldExclusive'
    BY <1>1, <1>2, <1>3, FinishFacts DEF IInv, TypeOK, Shift
  <1>5. shift'[s].driver = d /\ shift'[s].vehicle = v
        /\ \A z \in ShiftId \ {s} : shift'[z] = shift[z]
    BY <1>3 DEF IInv, TypeOK
  <1>6. ShiftsExclusive'
    BY <1>2, <1>3, <1>5 DEF IInv, ShiftsExclusive, Conflicting
  <1>7. ASSUME NEW b \in Conn \ {c}
        PROVE  ConnOK(b)'
    <2>1. d \notin held[b] /\ v \notin held[b]
      BY <1>2, OneOwner
    <2>2. Spares(b) /\ OpensBeside(b)
      BY <1>1, <1>5, <2>1 DEF Spares, OpensBeside
    <2> QED
      BY <1>1, <2>2, FinishFacts, Undisturbed DEF IInv
  <1> QED
    BY <1>1, <1>4, <1>6, <1>7, FinishFacts DEF IInv

LEMMA CloseShiftKept == ASSUME IInv, NEW c \in Conn, CloseShift(c) PROVE IInv'
  <1>1. /\ Finish(c) /\ UNCHANGED <<assigned, inForce, account, licensed, eligible, collided>>
        /\ shift' = [shift EXCEPT ![job[c].shift].status = "CLOSED"]
    BY DEF CloseShift
  <1>2. /\ shift' \in [ShiftId -> Shift]
        /\ \A s \in ShiftId : shift'[s].status = "OPEN" => shift'[s] = shift[s]
    BY <1>1, JobType DEF CloseShift, ConnOK, RefersOK, IInv, TypeOK, Shift
  <1>3. TypeOK' /\ HeldExclusive'
    BY <1>1, <1>2, FinishFacts DEF IInv, TypeOK
  <1>4. ShiftsExclusive'
    BY <1>1, <1>2 DEF IInv, ShiftsExclusive
  <1>5. ASSUME NEW b \in Conn \ {c}
        PROVE  ConnOK(b)'
    <2>1. Spares(b) /\ OpensBeside(b)
      BY <1>1, <1>2 DEF Spares, OpensBeside
    <2> QED
      BY <1>1, <2>1, FinishFacts, Undisturbed DEF IInv
  <1> QED
    BY <1>1, <1>3, <1>4, <1>5, FinishFacts DEF IInv

LEMMA GrantAssignmentKept == ASSUME IInv, NEW c \in Conn, GrantAssignment(c) PROVE IInv'
  <1> DEFINE d == job[c].driver
             v == job[c].vehicle
  <1>1. d \in Driver /\ v \in Vehicle /\ v \in held[c]
    BY JobType DEF GrantAssignment, ConnOK, RefersOK, LocksOK
  <1>2. /\ Finish(c) /\ UNCHANGED <<account, licensed, shift, collided>>
        /\ assigned' = assigned \cup {<<d, v>>}
        /\ inForce' \in {inForce \cup {<<d, v>>}, inForce \ {<<d, v>>}}
        /\ eligible' \subseteq Vehicle /\ eligible' \ {v} = eligible \ {v}
    BY DEF GrantAssignment, Refreshed
  <1>3. ASSUME NEW b \in Conn \ {c}
        PROVE  Spares(b)
    <2>1. <<d, v>> \notin held[b]
      BY <1>3 DEF GrantAssignment, Free
    <2>2. v \notin held[b]
      BY <1>1, OneOwner
    <2> QED
      BY <1>2, <2>1, <2>2 DEF Spares
  <1>4. assigned' \subseteq Driver \X Vehicle /\ inForce' \subseteq assigned'
    BY <1>1, <1>2 DEF IInv, TypeOK
  <1> QED
    BY <1>2, <1>3, <1>4, CommitKept DEF IInv, TypeOK

LEMMA QualifyCommitKept == ASSUME IInv, NEW c \in Conn, QualifyCommit(c) PROVE IInv'
  <1> DEFINE d == job[c].driver
  <1>1. d \in Driver /\ d \in held[c] /\ job[c].todo \subseteq held[c]
    BY JobType DEF QualifyCommit, ConnOK, RefersOK, LocksOK
  <1>2. /\ Finish(c) /\ UNCHANGED <<assigned, inForce, account, shift, collided>>
        /\ licensed' \in {licensed \cup {d}, licensed \ {d}}
        /\ eligible' \subseteq Vehicle /\ eligible' \ job[c].todo = eligible \ job[c].todo
    BY DEF QualifyCommit, Refreshed
  <1>3. ASSUME NEW b \in Conn \ {c}
        PROVE  Spares(b)
    BY <1>1, <1>2, OneOwner DEF Spares
  <1> QED
    BY <1>1, <1>2, <1>3, CommitKept DEF IInv, TypeOK

LEMMA MoveDriverKept == ASSUME IInv, NEW c \in Conn, MoveDriver(c) PROVE IInv'
  <1> DEFINE new == <<job[c].driver, job[c].vehicle>>
  <1>1. new \in Driver \X Vehicle
    BY JobType DEF MoveDriver, ConnOK, RefersOK
  <1>2. /\ Finish(c) /\ UNCHANGED <<account, licensed, eligible, shift, collided>>
        /\ assigned' = (assigned \ EndedByMove(c)) \cup {new}
        /\ inForce' = (inForce \ EndedByMove(c)) \cup {new}
    BY DEF MoveDriver
  <1>3. ASSUME NEW b \in Conn \ {c}
        PROVE  Spares(b)
    BY <1>2, <1>3 DEF MoveDriver, Free, Spares
  <1> QED
    BY <1>1, <1>2, <1>3, CommitKept DEF IInv, TypeOK

LEMMA EndAllAssignmentsKept ==
  ASSUME IInv, NEW c \in Conn, EndAllAssignments(c)
  PROVE  IInv'
  <1> DEFINE mine == {job[c].driver} \X BusesOf(job[c].driver)
  <1>1. /\ Finish(c) /\ UNCHANGED <<licensed, eligible, shift, collided>>
        /\ assigned' = assigned \ mine /\ inForce' = inForce \ mine
        /\ account' = account \ {job[c].driver}
    BY DEF EndAllAssignments
  <1>2. ASSUME NEW b \in Conn \ {c}
        PROVE  Spares(b)
    BY <1>1, <1>2 DEF EndAllAssignments, Free, Spares
  <1> QED
    BY <1>1, <1>2, CommitKept DEF IInv, TypeOK

LEMMA InspectionCommitKept == ASSUME IInv, NEW v \in Vehicle, InspectionCommit(v) PROVE IInv'
  <1>1. /\ UNCHANGED <<assigned, inForce, account, licensed, shift, held, pc, job, collided>>
        /\ eligible' \subseteq Vehicle /\ eligible' \ {v} = eligible \ {v}
        /\ \A b \in Conn : v \notin held[b]
    BY DEF InspectionCommit, Refreshed
  <1>2. \A b \in Conn : Spares(b)
    BY <1>1 DEF Spares
  <1>3. TypeOK' /\ HeldExclusive'
    BY <1>1 DEF IInv, TypeOK, HeldExclusive
  <1> QED
    BY <1>1, <1>2, <1>3, WriteKept

LEMMA endAssignmentKept ==
  ASSUME IInv, NEW d \in Driver, NEW v \in Vehicle, endAssignment(d, v)
  PROVE  IInv'
  <1>1. /\ UNCHANGED <<account, licensed, eligible, shift, held, pc, job, collided>>
        /\ assigned' = assigned \ {<<d, v>>}
        /\ inForce' = inForce \ {<<d, v>>}
        /\ \A b \in Conn : <<d, v>> \notin held[b]
    BY DEF endAssignment
  <1>2. \A b \in Conn : Spares(b)
    BY <1>1 DEF Spares
  <1>3. TypeOK' /\ HeldExclusive'
    BY <1>1 DEF IInv, TypeOK, HeldExclusive
  <1> QED
    BY <1>1, <1>2, <1>3, WriteKept

LEMMA restoreDriverKept == ASSUME IInv, NEW d \in Driver, restoreDriver(d) PROVE IInv'
  <1>1. /\ UNCHANGED <<assigned, inForce, licensed, eligible, shift, held, pc, job, collided>>
        /\ account' = account \cup {d}
    BY DEF restoreDriver
  <1>2. \A b \in Conn : Spares(b)
    BY <1>1 DEF Spares
  <1>3. TypeOK' /\ HeldExclusive'
    BY <1>1 DEF IInv, TypeOK, HeldExclusive
  <1> QED
    BY <1>1, <1>2, <1>3, WriteKept

-----------------------------------------------------------------------------
(* The inductive invariant and what follows from it *)

LEMMA InitHolds == Init => IInv
  <1> SUFFICES ASSUME Init PROVE IInv
    OBVIOUS
  <1>1. NoJob \in Job
    BY DEF NoJob, Job
  <1>2. [status |-> "NONE", driver |-> NoOne, vehicle |-> NoOne] \in Shift
    BY DEF Shift
  <1>3. TypeOK
    BY <1>1, <1>2 DEF Init, TypeOK, Statement
  <1>4. HeldExclusive
    BY DEF Init, HeldExclusive
  <1>5. \A c \in Conn : ConnOK(c)
    BY DEF Init, ConnOK, AtOK, RefersOK, LocksOK, StartOK
  <1>6. ShiftsExclusive
    <2>1. ~collided /\ \A s \in ShiftId : shift[s].status = "NONE"
      BY DEF Init
    <2> QED
      BY <2>1 DEF ShiftsExclusive
  <1> QED
    BY <1>3, <1>4, <1>5, <1>6 DEF IInv

LEMMA NextKept == IInv /\ [Next]_vars => IInv'
  <1> SUFFICES ASSUME IInv, [Next]_vars PROVE IInv'
    OBVIOUS
  <1>1. ASSUME NEW c \in Conn, ShiftStep(c)
        PROVE  IInv'
    BY <1>1, LockJoinKept, CheckDriverKept, ReadOpenShiftsKept, InsertShiftKept,
       LockShiftKept, CloseShiftKept DEF ShiftStep
  <1>2. ASSUME NEW c \in Conn, PoolStep(c)
        PROVE  IInv'
    BY <1>2, LockDriverKept, LockVehicleKept, GrantAssignmentKept, ReadBusesKept,
       RefreshBusKept, QualifyCommitKept, ReadAssignmentsKept, EndTargetKept,
       MoveDriverKept, EndAllAssignmentsKept DEF PoolStep
  <1>3. ASSUME NEW c \in Conn, Fail(c)
        PROVE  IInv'
    BY <1>3, FinishKept DEF Fail
  <1>4. CASE UNCHANGED vars
    BY <1>4 DEF vars, IInv, TypeOK, HeldExclusive, ShiftsExclusive, ConnOK, AtOK,
                RefersOK, LocksOK, StartOK, JoinRows, MayDrive, Conflicting
  <1> QED
    BY <1>1, <1>2, <1>3, <1>4, RequestKept, InspectionCommitKept, endAssignmentKept,
       restoreDriverKept DEF Next

\* The invariant of startShift's locks: a request that goes for the INSERT has held
\* its driver, bus and assignment since it read them.
THEOREM IInvAlways == Spec => []IInv
  BY InitHolds, NextKept, PTL DEF Spec

\* Every variable keeps its type, for every number of drivers, buses and connections.
THEOREM ShiftTypeCorrect == Spec => []TypeOK
  <1>1. IInv => TypeOK
    BY DEF IInv
  <1> QED
    BY <1>1, IInvAlways, PTL

\* No two open shifts share a driver or a bus, and no INSERT of startShift meets a
\* duplicate key, for every number of drivers, buses and concurrent transactions.
THEOREM ShiftsExclusiveAlways == Spec => []ShiftsExclusive
  <1>1. IInv => ShiftsExclusive
    BY DEF IInv
  <1> QED
    BY <1>1, IInvAlways, PTL

\* Only InsertShift opens a shift.
LEMMA OnlyInsertOpens ==
  ASSUME IInv, [Next]_vars, NEW s \in ShiftId,
         shift[s].status # "OPEN", shift'[s].status = "OPEN"
  PROVE  \E c \in Conn : InsertShift(c, s)
  <1>1. shift' # shift
    OBVIOUS
  <1>2. ASSUME NEW c \in Conn, CloseShift(c)
        PROVE  FALSE
    BY <1>2 DEF CloseShift, IInv, TypeOK, Shift
  <1>3. PICK c \in Conn : ShiftStep(c)
    BY <1>1 DEF Next, vars, rows, Request, PoolStep, Fail, Begin, startShift, endShift,
                authorizeDriverForVehicle, verifyDriverQualification,
                reassignDriverVehicle, deactivateDriver, LockDriver, LockVehicle,
                GrantAssignment, ReadBuses, RefreshBus, QualifyCommit, ReadAssignments,
                EndTarget, MoveDriver, EndAllAssignments, InspectionCommit,
                restoreDriver, endAssignment
  <1>4. PICK z \in ShiftId : InsertShift(c, z)
    BY <1>1, <1>2, <1>3 DEF ShiftStep, LockJoin, CheckDriver, ReadOpenShifts, LockShift, rows
  <1>5. z = s
    BY <1>4 DEF InsertShift, IInv, TypeOK
  <1> QED
    BY <1>4, <1>5

\* A shift opens only for a driver who at COMMIT is still authorized and licensed, on
\* a bus that is still cleared, whatever else runs.
THEOREM StartIsBackedAlways == Spec => StartIsBacked
  <1>1. ASSUME IInv, [Next]_vars, NEW s \in ShiftId,
               shift[s].status # "OPEN", shift'[s].status = "OPEN"
        PROVE  LET d == shift'[s].driver
                   v == shift'[s].vehicle
               IN <<d, v>> \in inForce' /\ v \in eligible' /\ d \in licensed'
    <2>1. PICK c \in Conn : InsertShift(c, s)
      BY <1>1, OnlyInsertOpens
    <2>2. MayDrive(job[c].driver, job[c].vehicle) /\ Conflicting(c) = {}
      BY <1>1, <2>1, JobType DEF InsertShift, ConnOK, StartOK
    <2>3. shift'[s].driver = job[c].driver /\ shift'[s].vehicle = job[c].vehicle
      BY <1>1, <2>1, <2>2 DEF InsertShift, IInv, TypeOK
    <2> QED
      BY <2>1, <2>2, <2>3 DEF InsertShift, MayDrive
  <1>2. IInv /\ [Next]_vars =>
           [\A s \in ShiftId : shift[s].status # "OPEN" /\ shift'[s].status = "OPEN"
                             => LET d == shift'[s].driver
                                    v == shift'[s].vehicle
                                IN <<d, v>> \in inForce' /\ v \in eligible'
                                      /\ d \in licensed']_vars
    BY <1>1
  <1> QED
    BY <1>2, IInvAlways, PTL DEF Spec, StartIsBacked

=============================================================================
