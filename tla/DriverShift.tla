----------------------------- MODULE DriverShift -----------------------------
(***************************************************************************)
(* Who drives which bus: the driver pool and the operating shifts          *)
(* (backend/src/services/driverShift.service.js) together with the         *)
(* administration of drivers (driverLifecycle.service.js), on one day.     *)
(*                                                                         *)
(* A request is a transaction of several statements.  What it locks it     *)
(* holds until COMMIT, and what it writes is seen by others from COMMIT    *)
(* on, so its last write and its COMMIT are one step.  Plain SELECTs read  *)
(* committed rows and lock nothing.  At any statement a request may fail:  *)
(* deadlock victim, lock wait timeout, lost connection; it has then        *)
(* written nothing.                                                        *)
(***************************************************************************)
EXTENDS Naturals

CONSTANTS
    Driver, Vehicle,
    ShiftId,     \* rows of vehicle_operating_shifts that can be inserted
    Conn,        \* pool connections
    NoOne        \* absent reference

ASSUME NoOneAssumption == NoOne \notin Driver \cup Vehicle \cup ShiftId

VARIABLES
    assigned,    \* active AUTHORIZED rows of driver_vehicle_assignments, as pairs
    inForce,     \* those whose valid_from .. valid_until covers today
    account,     \* drivers whose user account is active
    licensed,    \* drivers with a VERIFIED qualification that is valid today
    eligible,    \* vehicles whose verification_status is ELIGIBLE or EXPIRING
    shift,       \* vehicle_operating_shifts
    held,        \* rows each connection has locked
    pc, job,     \* next statement of each connection, and its local variables
    collided     \* a start was answered OPEN_SHIFT_CONFLICT

rows == <<assigned, inForce, account, licensed, eligible, shift>>
vars == <<assigned, inForce, account, licensed, eligible, shift, held, pc, job, collided>>

-----------------------------------------------------------------------------
(* Types *)

Row == Driver \cup Vehicle \cup (Driver \X Vehicle) \cup ShiftId

Shift == [status : {"NONE", "OPEN", "CLOSED"},
          driver : Driver \cup {NoOne}, vehicle : Vehicle \cup {NoOne}]

Job == [op : {"none", "start", "end", "authorize", "qualify", "reassign", "deactivate"},
        driver : Driver \cup {NoOne}, vehicle : Vehicle \cup {NoOne},
        shift : ShiftId \cup {NoOne},
        target : Driver \cup {NoOne},   \* reassign: driver whose assignment ends
        old : BOOLEAN,                  \* reassign: the driver had an assignment
        todo : SUBSET Vehicle]          \* qualify: vehicles to recompute

Statement == {"idle", "driver", "join", "open", "insert", "ending", "close", "vehicle",
              "grant", "pool", "target", "move", "refresh", "endAll"}

\* The type invariant.
TypeOK ==
    /\ assigned \subseteq Driver \X Vehicle /\ inForce \subseteq assigned
    /\ account \subseteq Driver /\ licensed \subseteq Driver
    /\ eligible \subseteq Vehicle
    /\ shift \in [ShiftId -> Shift]
    /\ held \in [Conn -> SUBSET Row]
    /\ pc \in [Conn -> Statement]
    /\ job \in [Conn -> Job]
    /\ collided \in BOOLEAN

NoJob == [op |-> "none", driver |-> NoOne, vehicle |-> NoOne, shift |-> NoOne,
          target |-> NoOne, old |-> FALSE, todo |-> {}]

Init ==
    /\ assigned = {} /\ inForce = {} /\ account = Driver /\ licensed = {} /\ eligible = {}
    /\ shift = [s \in ShiftId |-> [status |-> "NONE", driver |-> NoOne, vehicle |-> NoOne]]
    /\ held = [c \in Conn |-> {}]
    /\ pc = [c \in Conn |-> "idle"]
    /\ job = [c \in Conn |-> NoJob]
    /\ collided = FALSE

-----------------------------------------------------------------------------
(* Transactions *)

\* No connection other than c has locked the row.
Free(c, row) == \A b \in Conn \ {c} : row \notin held[b]

Lock(c, row) ==
    /\ Free(c, row)
    /\ held' = [held EXCEPT ![c] = @ \cup {row}]

\* The request goes on to another statement.
Continue(c, next) == pc' = [pc EXCEPT ![c] = next]

Begin(c, next, request) ==
    /\ pc[c] = "idle"
    /\ Continue(c, next)
    /\ job' = [job EXCEPT ![c] = request]
    /\ UNCHANGED <<rows, held, collided>>

\* COMMIT or ROLLBACK: the locks are released and the connection is free.
Finish(c) ==
    /\ held' = [held EXCEPT ![c] = {}]
    /\ pc' = [pc EXCEPT ![c] = "idle"]
    /\ job' = [job EXCEPT ![c] = NoJob]

\* A statement fails, and with it the transaction.
Fail(c) ==
    /\ pc[c] # "idle"
    /\ Finish(c)
    /\ UNCHANGED <<rows, collided>>

LockDriver(c) ==
    /\ pc[c] = "driver"
    /\ Lock(c, job[c].driver)
    /\ Continue(c, CASE job[c].op = "start" -> "join"
                     [] job[c].op = "authorize" -> "vehicle"
                     [] job[c].op = "qualify" -> "pool")
    /\ UNCHANGED <<rows, job, collided>>

LockVehicle(c) ==
    /\ pc[c] = "vehicle"
    /\ Lock(c, job[c].vehicle)
    /\ Continue(c, IF job[c].op = "authorize" THEN "grant" ELSE "pool")
    /\ UNCHANGED <<rows, job, collided>>

\* Assignments of a driver, and drivers assigned to a vehicle.
BusesOf(d) == {v \in Vehicle : <<d, v>> \in assigned}
DriversOf(v) == {d \in Driver : <<d, v>> \in assigned}

-----------------------------------------------------------------------------
(* Shifts *)

\* Variant for mutation runs: a start that does not lock the driver.
StartUnlocked(c, d, v) ==
    /\ d \in account
    /\ Begin(c, "join", [NoJob EXCEPT !.op = "start", !.driver = d, !.vehicle = v])

startShift(c, d, v) ==
    /\ d \in account
    /\ Begin(c, "driver", [NoJob EXCEPT !.op = "start", !.driver = d, !.vehicle = v])

\* Variants for mutation runs: FOR UPDATE does not reach both tables of the join.
JoinRowsNoVehicle(c) == {<<job[c].driver, job[c].vehicle>>}
JoinRowsNoAssignment(c) == {job[c].vehicle}

\* Rows that SELECT ... dva JOIN vehicles ... FOR UPDATE locks, in an order the
\* optimizer picks.
JoinRows(c) == {job[c].vehicle, <<job[c].driver, job[c].vehicle>>}

LockJoin(c) ==
    /\ pc[c] = "join"
    /\ \E row \in JoinRows(c) \ held[c] : Lock(c, row)
    /\ UNCHANGED <<rows, pc, job, collided>>

\* The driver is authorized for the vehicle and licensed, and the vehicle cleared.
MayDrive(d, v) == <<d, v>> \in inForce /\ v \in eligible /\ d \in licensed

\* The qualification is read after the join; only the driver's lock guards it.
CheckDriver(c) ==
    /\ pc[c] = "join" /\ JoinRows(c) \subseteq held[c]
    /\ \/ /\ MayDrive(job[c].driver, job[c].vehicle)
          /\ Continue(c, "open")
          /\ UNCHANGED <<held, job>>
       \/ /\ ~MayDrive(job[c].driver, job[c].vehicle)
          /\ Finish(c)
    /\ UNCHANGED <<rows, collided>>

\* Open shifts of the request's driver or vehicle.
Conflicting(c) ==
    {s \in ShiftId : /\ shift[s].status = "OPEN"
                     /\ \/ shift[s].driver = job[c].driver
                        \/ shift[s].vehicle = job[c].vehicle}

\* SELECT ... status = 'OPEN' ... FOR UPDATE waits for a shift that is being ended.
ReadOpenShifts(c) ==
    /\ pc[c] = "open"
    /\ \A s \in Conflicting(c) : Free(c, s)
    /\ \/ /\ Conflicting(c) = {}
          /\ Continue(c, "insert")
          /\ UNCHANGED <<held, job>>
       \/ /\ Conflicting(c) # {}
          /\ Finish(c)
    /\ UNCHANGED <<rows, collided>>

\* INSERT and COMMIT, or ER_DUP_ENTRY of a unique key on the open shifts.
InsertShift(c, s) ==
    /\ pc[c] = "insert" /\ shift[s].status = "NONE"
    /\ IF Conflicting(c) = {}
       THEN /\ shift' = [shift EXCEPT ![s] = [status |-> "OPEN", driver |-> job[c].driver,
                                              vehicle |-> job[c].vehicle]]
            /\ collided' = collided
       ELSE /\ shift' = shift
            /\ collided' = TRUE
    /\ Finish(c)
    /\ UNCHANGED <<assigned, inForce, account, licensed, eligible>>

endShift(c, s) ==
    /\ shift[s].driver \in account
    /\ Begin(c, "ending", [NoJob EXCEPT !.op = "end", !.shift = s])

\* A shift that is not open any more is answered as already closed.
LockShift(c) ==
    /\ pc[c] = "ending"
    /\ \/ /\ shift[job[c].shift].status = "OPEN"
          /\ Lock(c, job[c].shift)
          /\ Continue(c, "close")
          /\ UNCHANGED job
       \/ /\ shift[job[c].shift].status # "OPEN"
          /\ Free(c, job[c].shift)
          /\ Finish(c)
    /\ UNCHANGED <<rows, collided>>

CloseShift(c) ==
    /\ pc[c] = "close"
    /\ shift' = [shift EXCEPT ![job[c].shift].status = "CLOSED"]
    /\ Finish(c)
    /\ UNCHANGED <<assigned, inForce, account, licensed, eligible, collided>>

-----------------------------------------------------------------------------
(* The driver pool *)

\* Statuses after refreshVehicleEligibility of these vehicles (Verification).
Refreshed(buses) == {set \in SUBSET Vehicle : set \ buses = eligible \ buses}

authorizeDriverForVehicle(c, d, v) ==
    Begin(c, "driver", [NoJob EXCEPT !.op = "authorize", !.driver = d, !.vehicle = v])

\* The latest row of the pair is locked and made active, or a new one inserted; the
\* validity given need not cover today.
GrantAssignment(c) ==
    LET d == job[c].driver
        v == job[c].vehicle
    IN /\ pc[c] = "grant" /\ Free(c, <<d, v>>)
       /\ assigned' = assigned \cup {<<d, v>>}
       /\ inForce' \in {inForce \cup {<<d, v>>}, inForce \ {<<d, v>>}}
       /\ eligible' \in Refreshed({v})
       /\ Finish(c)
       /\ UNCHANGED <<account, licensed, shift, collided>>

verifyDriverQualification(c, d) ==
    Begin(c, "driver", [NoJob EXCEPT !.op = "qualify", !.driver = d])

\* SELECT DISTINCT vehicle_id of the driver's assignments, a plain read.
ReadBuses(c) ==
    /\ pc[c] = "pool" /\ job[c].op = "qualify"
    /\ job' = [job EXCEPT ![c].todo = BusesOf(job[c].driver)]
    /\ Continue(c, "refresh")
    /\ UNCHANGED <<rows, held, collided>>

\* One UPDATE of a vehicles row after the other.
RefreshBus(c) ==
    /\ pc[c] = "refresh"
    /\ \E v \in job[c].todo \ held[c] : Lock(c, v)
    /\ UNCHANGED <<rows, pc, job, collided>>

\* COMMIT; the licence may be one that has already expired.
QualifyCommit(c) ==
    /\ pc[c] = "refresh" /\ job[c].todo \subseteq held[c]
    /\ licensed' \in {licensed \cup {job[c].driver}, licensed \ {job[c].driver}}
    /\ eligible' \in Refreshed(job[c].todo)
    /\ Finish(c)
    /\ UNCHANGED <<assigned, inForce, account, shift, collided>>

\* finalizeInspection and abortInspectionAttempt (Verification) write one status.
InspectionCommit(v) ==
    /\ \A c \in Conn : v \notin held[c]
    /\ eligible' \in Refreshed({v})
    /\ UNCHANGED <<assigned, inForce, account, licensed, shift, held, pc, job, collided>>

-----------------------------------------------------------------------------
(* Administration of drivers *)

reassignDriverVehicle(c, d, v) ==
    /\ d \in account
    /\ Begin(c, "vehicle", [NoJob EXCEPT !.op = "reassign", !.driver = d, !.vehicle = v])

\* Three plain SELECTs of one snapshot: the same assignment, the target, the old.
ReadAssignments(c, endTargetExisting) ==
    LET d == job[c].driver
        v == job[c].vehicle
    IN /\ pc[c] = "pool" /\ job[c].op = "reassign"
       /\ \/ /\ d \in DriversOf(v) \/ (DriversOf(v) # {} /\ ~endTargetExisting)
             /\ Finish(c)
          \/ /\ DriversOf(v) = {}
             /\ job' = [job EXCEPT ![c].old = BusesOf(d) # {}]
             /\ Continue(c, "move")
             /\ UNCHANGED held
          \/ /\ d \notin DriversOf(v) /\ endTargetExisting
             /\ \E t \in DriversOf(v) :
                   job' = [job EXCEPT ![c].target = t, ![c].old = BusesOf(d) # {}]
             /\ Continue(c, "target")
             /\ UNCHANGED held
       /\ UNCHANGED <<rows, collided>>

\* UPDATE of the target's row.
EndTarget(c) ==
    /\ pc[c] = "target"
    /\ Lock(c, <<job[c].target, job[c].vehicle>>)
    /\ Continue(c, "move")
    /\ UNCHANGED <<rows, job, collided>>

\* Assignments a reassignment ends: the target's, and the driver's own that are
\* active when the UPDATE runs, if there was one in the snapshot.
EndedByMove(c) ==
    {<<job[c].target, job[c].vehicle>>}
       \cup (IF job[c].old THEN {job[c].driver} \X BusesOf(job[c].driver) ELSE {})

\* UPDATE of the old assignments, INSERT of the new one, COMMIT.
MoveDriver(c) ==
    LET new == <<job[c].driver, job[c].vehicle>>
    IN /\ pc[c] = "move"
       /\ \A row \in EndedByMove(c) \cup {new} : Free(c, row)
       /\ assigned' = (assigned \ EndedByMove(c)) \cup {new}
       /\ inForce' = (inForce \ EndedByMove(c)) \cup {new}
       /\ Finish(c)
       /\ UNCHANGED <<account, licensed, eligible, shift, collided>>

deactivateDriver(c, d) ==
    /\ d \in account
    /\ Begin(c, "endAll", [NoJob EXCEPT !.op = "deactivate", !.driver = d])

\* The assignments end with the account; an open shift stays open.
EndAllAssignments(c) ==
    LET mine == {job[c].driver} \X BusesOf(job[c].driver)
    IN /\ pc[c] = "endAll"
       /\ \A row \in mine : Free(c, row)
       /\ assigned' = assigned \ mine
       /\ inForce' = inForce \ mine
       /\ account' = account \ {job[c].driver}
       /\ Finish(c)
       /\ UNCHANGED <<licensed, eligible, shift, collided>>

\* A single UPDATE, for an account that duplicates no other.
restoreDriver(d) ==
    /\ d \notin account
    /\ account' = account \cup {d}
    /\ UNCHANGED <<assigned, inForce, licensed, eligible, shift, held, pc, job, collided>>

\* A single UPDATE outside a transaction; it waits for the row.
endAssignment(d, v) ==
    /\ <<d, v>> \in assigned
    /\ \A c \in Conn : <<d, v>> \notin held[c]
    /\ assigned' = assigned \ {<<d, v>>}
    /\ inForce' = inForce \ {<<d, v>>}
    /\ UNCHANGED <<account, licensed, eligible, shift, held, pc, job, collided>>

-----------------------------------------------------------------------------

Request(c) ==
    \/ \E s \in ShiftId : endShift(c, s)
    \/ \E d \in Driver :
          \/ verifyDriverQualification(c, d)
          \/ deactivateDriver(c, d)
          \/ \E v \in Vehicle :
                \/ startShift(c, d, v)
                \/ authorizeDriverForVehicle(c, d, v)
                \/ reassignDriverVehicle(c, d, v)

ShiftStep(c) ==
    \/ LockJoin(c) \/ CheckDriver(c) \/ ReadOpenShifts(c)
    \/ \E s \in ShiftId : InsertShift(c, s)
    \/ LockShift(c) \/ CloseShift(c)

PoolStep(c) ==
    \/ LockDriver(c) \/ LockVehicle(c)
    \/ GrantAssignment(c)
    \/ ReadBuses(c) \/ RefreshBus(c) \/ QualifyCommit(c)
    \/ \E endTargetExisting \in BOOLEAN : ReadAssignments(c, endTargetExisting)
    \/ EndTarget(c) \/ MoveDriver(c) \/ EndAllAssignments(c)

Next ==
    \/ \E c \in Conn : Request(c) \/ ShiftStep(c) \/ PoolStep(c) \/ Fail(c)
    \/ \E v \in Vehicle : InspectionCommit(v)
    \/ \E d \in Driver : restoreDriver(d) \/ \E v \in Vehicle : endAssignment(d, v)

Spec == Init /\ [][Next]_vars

-----------------------------------------------------------------------------
(* Properties *)

\* Section 18 of the design ("starting a shift uses transaction/locking"): no two
\* open shifts share a driver or a bus, and the locks of startShift see to it, the
\* unique keys never have to: no start is answered OPEN_SHIFT_CONFLICT.
ShiftsExclusive ==
    /\ \A s, z \in ShiftId :
          /\ shift[s].status = "OPEN" /\ shift[z].status = "OPEN"
          /\ shift[s].driver = shift[z].driver \/ shift[s].vehicle = shift[z].vehicle
          => s = z
    /\ ~collided

\* A shift that opens is backed by what holds at its COMMIT, not by what startShift
\* read: the driver is still authorized for that bus today and licensed, the bus cleared.
StartIsBacked ==
    [][\A s \in ShiftId : shift[s].status # "OPEN" /\ shift'[s].status = "OPEN"
                             => LET d == shift'[s].driver
                                    v == shift'[s].vehicle
                                IN <<d, v>> \in inForce' /\ v \in eligible'
                                      /\ d \in licensed']_vars

=============================================================================
