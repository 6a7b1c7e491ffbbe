---------------------------- MODULE Verification ----------------------------
(***************************************************************************)
(* The inspection of school buses and the status a bus is given by it      *)
(* (backend/src/services/vehicleVerification.service.js, with the two      *)
(* driver-pool operations of driverShift.service.js and the three on the   *)
(* older inspection records of transport.service.js that recompute the     *)
(* status, and endAssignment of driverLifecycle.service.js that does not). *)
(*                                                                         *)
(* Every operation on an application or an attempt first locks the row     *)
(* FOR UPDATE and holds it until COMMIT, so those that touch nothing else  *)
(* are one step.  The seven that also write vehicles.verification_status   *)
(* are two: the first takes the locks and the REPEATABLE READ snapshot the *)
(* new status is computed from, the second waits for the vehicles row,     *)
(* writes and commits.                                                     *)
(*                                                                         *)
(* finalizeInspection also copies its result into vehicle_inspections; the *)
(* copy is left out: a bus with a finalized attempt is judged by attempts  *)
(* alone and its older records can no longer be written.                   *)
(*                                                                         *)
(* ELIGIBLE stands for ELIGIBLE and EXPIRING, which start the same shifts; *)
(* dates are day numbers; the four document expiries are their earliest;   *)
(* every school with pupils on a bus takes one unit of its capacity.       *)
(***************************************************************************)
EXTENDS Naturals, FiniteSets

CONSTANTS
    Vehicle, School, Driver, Inspector,
    AppId,       \* rows of vehicle_inspection_applications that can be inserted
    AttemptId,   \* rows of inspection_attempts that can be inserted
    Conn,        \* pool connections that run the two-step transactions
    NoOne,       \* absent reference
    MaxTerm,     \* school terms that are run through
    MaxDay,      \* days that are run through
    MaxOlder,    \* rows of vehicle_inspections that can be inserted
    Capacity     \* certified_capacity, in schools

ASSUME NoOneAssumption ==
    NoOne \notin Vehicle \cup School \cup Driver \cup Inspector \cup AppId \cup AttemptId
ASSUME SchoolAssumption == IsFiniteSet(School)
ASSUME BoundAssumption == MaxTerm \in Nat \ {0} /\ MaxDay \in Nat \ {0} /\ Capacity \in Nat
ASSUME OlderAssumption == MaxOlder \in Nat

VARIABLES
    app,       \* vehicle_inspection_applications
    attempt,   \* inspection_attempts
    finals,    \* attempts finalized so far, the order of finalized_at
    status,    \* vehicles.verification_status
    docs,      \* earliest expiry of the four documents of each vehicle
    riders,    \* schools with live pupils on each vehicle
    licence,   \* expiry of each driver's current VERIFIED qualification, 0: none
    pool,      \* valid_until of each active AUTHORIZED assignment, 0: none
    older,     \* vehicle_inspections
    overtaken, \* history: PASSED rows of older replaced while a transaction is open
    tx,        \* open two-step transactions
    term, today,
    reply      \* of the last request: "ok", or "error" for an HTTP 500

rows == <<app, attempt, finals>>
records == <<older, overtaken>>
fleet == <<status, docs, riders, licence, pool, older, overtaken>>
calendar == <<term, today>>
vars == <<app, attempt, finals, status, docs, riders, licence, pool,
          older, overtaken, tx, term, today, reply>>

-----------------------------------------------------------------------------
(* Types *)

\* The ENUM of vehicle_inspection_applications.status; the server runs in
\* STRICT_TRANS_TABLES, so a statement that stores any other value fails.
StatusColumn == {"DRAFT", "READY_TO_PRINT", "SUBMITTED", "INSPECTION_PENDING",
                 "NEEDS_FIX", "PASSED", "FAILED", "EXPIRED", "SUPERSEDED", "CANCELLED"}

FinalResults == {"PASSED", "FAILED", "NEEDS_FIX", "PENDING"}
Verdicts == {"UNVERIFIED", "ELIGIBLE", "INELIGIBLE", "SUSPENDED"}

App == [status : StatusColumn \cup {"NONE"}, vehicle : Vehicle \cup {NoOne},
        school : School \cup {NoOne}, term : Nat, peak : Nat, key : BOOLEAN]
Attempt == [result : FinalResults \cup {"NONE", "IN_PROGRESS", "DELETED"},
            app : AppId \cup {NoOne}, by : Inspector \cup {NoOne},
            date : Nat, expiry : Nat, order : Nat]
OlderId == 1 .. MaxOlder   \* AUTO_INCREMENT
\* FAILED stands for every result that does not certify.
Older == [result : {"NONE", "PASSED", "FAILED", "DELETED"}, vehicle : Vehicle \cup {NoOne},
          date : Nat, expiry : Nat]
Transaction == [op : {"none", "finalize", "abort", "qualify", "authorize", "record", "correct"},
                attempt : AttemptId \cup {NoOne}, driver : Driver \cup {NoOne},
                vehicle : Vehicle \cup {NoOne}, result : FinalResults,
                date : Nat, until : Nat, write : [Vehicle -> Verdicts \cup {"KEEP"}],
                since : Nat,       \* finals when it took its snapshot
                older : OlderId \cup {0}, row : Older]

\* The type invariant.
TypeOK ==
    /\ app \in [AppId -> App]
    /\ attempt \in [AttemptId -> Attempt]
    /\ finals \in Nat
    /\ status \in [Vehicle -> Verdicts]
    /\ docs \in [Vehicle -> Nat]
    /\ riders \in [Vehicle -> SUBSET School]
    /\ licence \in [Driver -> Nat]
    /\ pool \in [Driver -> [Vehicle -> Nat]]
    /\ older \in [OlderId -> Older]
    /\ overtaken \in [Conn -> SUBSET Older]
    /\ tx \in [Conn -> Transaction]
    /\ term \in Nat /\ today \in Nat
    /\ reply \in {"ok", "error"}

NoApp == [status |-> "NONE", vehicle |-> NoOne, school |-> NoOne,
          term |-> 0, peak |-> 0, key |-> FALSE]
NoAttempt == [result |-> "NONE", app |-> NoOne, by |-> NoOne,
              date |-> 0, expiry |-> 0, order |-> 0]
NoOlder == [result |-> "NONE", vehicle |-> NoOne, date |-> 0, expiry |-> 0]
NoTransaction == [op |-> "none", attempt |-> NoOne, driver |-> NoOne, vehicle |-> NoOne,
                  result |-> "PENDING", date |-> 0, until |-> 0,
                  write |-> [v \in Vehicle |-> "KEEP"], since |-> 0,
                  older |-> 0, row |-> NoOlder]

\* SUSPENDED is set by hand in the database; no code path sets it.
Init ==
    /\ app = [a \in AppId |-> NoApp]
    /\ attempt = [k \in AttemptId |-> NoAttempt]
    /\ finals = 0
    /\ status \in [Vehicle -> {"UNVERIFIED", "SUSPENDED"}]
    /\ docs \in [Vehicle -> 0 .. MaxDay]
    /\ riders \in [Vehicle -> SUBSET School]
    /\ licence = [d \in Driver |-> 0]
    /\ pool = [d \in Driver |-> [v \in Vehicle |-> 0]]
    /\ older = [k \in OlderId |-> NoOlder]
    /\ overtaken = [t \in Conn |-> {}]
    /\ tx = [t \in Conn |-> NoTransaction]
    /\ term = 1 /\ today = 1
    /\ reply = "ok"

-----------------------------------------------------------------------------
(* Row locks held by the open transactions *)

\* assertLegacyWritable locks every application of its bus, and its attempts.
AppFree(a) ==
    \A t \in Conn :
       /\ tx[t].op \in {"finalize", "abort"} => attempt[tx[t].attempt].app # a
       /\ tx[t].op \in {"record", "correct"} => tx[t].vehicle # app[a].vehicle
VehicleFree(v) ==
    \A t \in Conn : tx[t].op \in {"authorize", "record"} => tx[t].vehicle # v
OlderFree(k) == \A t \in Conn : tx[t].older # k
DriverFree(d) ==
    \A t \in Conn : tx[t].op \in {"qualify", "authorize"} => tx[t].driver # d

-----------------------------------------------------------------------------
(* Eligibility *)

\* A driver of the vehicle is authorized and holds a valid licence today.
ValidDriver(v, assigned, licensed) ==
    \E d \in Driver : assigned[d][v] >= today /\ licensed[d] >= today

\* Variant for mutation runs: the expiry of the certificate is not looked at.
computeEligibilityUndated(v, result, expiry, peak, hasDriver) ==
    IF result = "PASSED" /\ docs[v] >= today /\ 0 < Capacity /\ peak <= Capacity /\ hasDriver
    THEN "ELIGIBLE"
    ELSE "INELIGIBLE"

\* The verdict of an inspection with this result and expiry.
computeEligibility(v, result, expiry, peak, hasDriver) ==
    IF /\ result = "PASSED" /\ expiry >= today
       /\ docs[v] >= today
       /\ 0 < Capacity /\ peak <= Capacity
       /\ hasDriver
    THEN "ELIGIBLE"
    ELSE "INELIGIBLE"

\* Attempts of the vehicle that have a result.
Finalized(v) == {k \in AttemptId : attempt[k].result \in FinalResults
                                    /\ app[attempt[k].app].vehicle = v}

\* ORDER BY inspection_date DESC, finalized_at DESC LIMIT 1.
NewerThan(j, k) ==
    \/ attempt[j].date > attempt[k].date
    \/ attempt[j].date = attempt[k].date /\ attempt[j].order > attempt[k].order
Latest(v) == CHOOSE k \in Finalized(v) : \A j \in Finalized(v) : ~NewerThan(j, k)

\* ORDER BY inspection_date DESC, id DESC LIMIT 1, of the older records.
OlderRows(v, inspected) ==
    {k \in OlderId : inspected[k].vehicle = v /\ inspected[k].result \in {"PASSED", "FAILED"}}
NewestOlder(v, inspected) ==
    {k \in OlderRows(v, inspected) : \A j \in OlderRows(v, inspected) :
        \/ inspected[j].date < inspected[k].date
        \/ inspected[j].date = inspected[k].date /\ j <= k}

\* The inspection a bus is judged by, if any: its latest finalized attempt or,
\* when no attempt has been finalized, its newest older record.
JudgedBy(v, inspected) ==
    IF Finalized(v) = {} THEN {inspected[k] : k \in NewestOlder(v, inspected)}
                         ELSE {attempt[Latest(v)]}

\* What refreshVehicleEligibility computes from its snapshot.
RefreshedStatus(v, assigned, licensed, inspected) ==
    IF status[v] = "SUSPENDED" THEN "SUSPENDED"
    ELSE IF \E i \in JudgedBy(v, inspected) :
               computeEligibility(v, i.result, i.expiry, Cardinality(riders[v]),
                                  ValidDriver(v, assigned, licensed)) = "ELIGIBLE"
         THEN "ELIGIBLE"
         ELSE "INELIGIBLE"

-----------------------------------------------------------------------------
(* Applications *)

\* Statuses that give active_request_key back.
Terminal == {"PASSED", "FAILED", "CANCELLED", "REJECTED"}

ReleasesKey(s) == s \in Terminal

\* Variant for mutation runs: the SELECT of active_request_key is dropped.
KeyTakenNever(v) == FALSE

\* An application of this vehicle and term holds active_request_key.
KeyTaken(v) == \E a \in AppId : app[a].vehicle = v /\ app[a].term = term /\ app[a].key

\* INSERT of an application; it fails when the column cannot hold the status.
Insert(a, v, s, initial) ==
    /\ app[a].status = "NONE"
    /\ VehicleFree(v) /\ riders[v] # {} /\ ~KeyTaken(v)
    /\ IF initial \in StatusColumn
       THEN /\ app' = [app EXCEPT ![a] =
                         [status |-> initial, vehicle |-> v, school |-> s, term |-> term,
                          peak |-> Cardinality(riders[v]), key |-> TRUE]]
            /\ reply' = "ok"
       ELSE app' = app /\ reply' = "error"
    /\ UNCHANGED <<attempt, finals, fleet, tx, calendar>>

createApplication(a, v, s) == s \in riders[v] /\ Insert(a, v, s, "DRAFT")

\* The first school by name is the issuing one: any, here.
createDriverApplication(a, v, d) ==
    /\ pool[d][v] # 0
    /\ \E s \in riders[v] : Insert(a, v, s, "PENDING_SCHOOL_REVIEW")

\* UPDATE of status and active_request_key, after the DELETE of some attempts.
Transition(a, next, deleted) ==
    /\ IF next \in StatusColumn
       THEN /\ app' = [app EXCEPT ![a].status = next, ![a].key = @ /\ ~ReleasesKey(next)]
            /\ attempt' = [k \in AttemptId |->
                             IF k \in deleted THEN [attempt[k] EXCEPT !.result = "DELETED"]
                                              ELSE attempt[k]]
            /\ reply' = "ok"
       ELSE app' = app /\ attempt' = attempt /\ reply' = "error"
    /\ UNCHANGED <<finals, fleet, tx, calendar>>

OpenAttempts(a) == {k \in AttemptId : attempt[k].app = a /\ attempt[k].result = "IN_PROGRESS"}

markReadyToPrint(a, s) ==
    /\ AppFree(a) /\ app[a].school = s /\ app[a].status = "DRAFT"
    /\ Transition(a, "READY_TO_PRINT", {})

reviewApplication(a, s, approved) ==
    /\ AppFree(a) /\ app[a].school = s
    /\ app[a].status \in {"PENDING_SCHOOL_REVIEW", "DRAFT"}
    /\ Transition(a, IF approved THEN "READY_TO_PRINT" ELSE "REJECTED", {})

\* Variant for mutation runs: a cancelled application keeps its open attempt.
AbortedByNone(a) == {}

\* The attempts a cancellation deletes.
AbortedBy(a) == OpenAttempts(a)

\* By the issuing school or, overriding the scope check, by an administrator.
cancelApplication(a, s, isAdmin) ==
    /\ AppFree(a) /\ (isAdmin \/ app[a].school = s)
    /\ app[a].status \in {"DRAFT", "READY_TO_PRINT", "SUBMITTED", "INSPECTION_PENDING",
                          "NEEDS_FIX", "PENDING_SCHOOL_REVIEW"}
    /\ Transition(a, "CANCELLED", AbortedBy(a))

\* Variant for mutation runs: the SELECT of an open attempt is dropped.
MayStartAlways(a) == TRUE

MayStart(a) == OpenAttempts(a) = {}

\* Its date is only the default of the one finalizeInspection records.
startInspection(a, k, i) ==
    /\ AppFree(a) /\ attempt[k].result = "NONE"
    /\ app[a].status \in {"READY_TO_PRINT", "SUBMITTED", "NEEDS_FIX", "INSPECTION_PENDING"}
    /\ MayStart(a)
    /\ attempt' = [attempt EXCEPT ![k] =
                     [NoAttempt EXCEPT !.result = "IN_PROGRESS", !.app = a, !.by = i]]
    /\ app' = [app EXCEPT ![a].status = "INSPECTION_PENDING"]
    /\ reply' = "ok"
    /\ UNCHANGED <<finals, fleet, tx, calendar>>

-----------------------------------------------------------------------------
(* Transactions that write the status of vehicles *)

\* Variant for mutation runs: finalize and abort skip the result guard.
StillOpenUnchecked(k) == attempt[k].result \notin {"NONE", "DELETED"}

StillOpen(k) == attempt[k].result = "IN_PROGRESS"

Begin(t, transaction) ==
    /\ tx[t].op = "none"
    /\ tx' = [tx EXCEPT ![t] = transaction]
    /\ reply' = "ok"
    /\ UNCHANGED <<rows, fleet, calendar>>

\* A transaction that has just taken its snapshot.
Snapshot == [NoTransaction EXCEPT !.since = finals]

Writing(v, verdict) == [u \in Vehicle |-> IF u = v THEN verdict ELSE "KEEP"]

\* finalizeInspection up to the lock of the vehicles row.  The verdict rests on
\* this result, the riders frozen in the application and today's drivers; only
\* a PASSED result uses its expiry.
FinalizeBegin(t, k, i, result, date, expiry) ==
    /\ StillOpen(k) /\ AppFree(attempt[k].app) /\ attempt[k].by = i
    /\ date <= today
    /\ result = "PASSED" => expiry > date
    /\ result # "PASSED" => expiry = 0
    /\ LET a == attempt[k].app
           v == app[a].vehicle
       IN Begin(t, [Snapshot EXCEPT
                      !.op = "finalize", !.attempt = k, !.vehicle = v, !.result = result,
                      !.date = date, !.until = expiry,
                      !.write = Writing(v, computeEligibility(v, result, expiry, app[a].peak,
                                                              ValidDriver(v, pool, licence)))])

\* abortInspectionAttempt up to the UPDATE of the vehicles row.
AbortBegin(t, k, i, isAdmin) ==
    /\ StillOpen(k) /\ AppFree(attempt[k].app) /\ (isAdmin \/ attempt[k].by = i)
    /\ LET v == app[attempt[k].app].vehicle
       IN Begin(t, [Snapshot EXCEPT
                      !.op = "abort", !.attempt = k, !.vehicle = v,
                      !.write = Writing(v, RefreshedStatus(v, pool, licence, older))])

\* verifyDriverQualification up to the first UPDATE of a vehicles row.
QualifyBegin(t, d, expiry) ==
    /\ DriverFree(d)
    /\ LET licensed == [licence EXCEPT ![d] = expiry]
       IN Begin(t, [Snapshot EXCEPT
                      !.op = "qualify", !.driver = d, !.until = expiry,
                      !.write = [v \in Vehicle |->
                                   IF pool[d][v] # 0
                                   THEN RefreshedStatus(v, pool, licensed, older)
                                   ELSE "KEEP"]])

\* authorizeDriverForVehicle up to its COMMIT; it locks the vehicles row first.
AuthorizeBegin(t, d, v, until) ==
    /\ DriverFree(d) /\ VehicleFree(v)
    /\ LET assigned == [pool EXCEPT ![d][v] = until]
       IN Begin(t, [Snapshot EXCEPT
                      !.op = "authorize", !.driver = d, !.vehicle = v, !.until = until,
                      !.write = Writing(v, RefreshedStatus(v, assigned, licence, older))])

\* assertLegacyWritable: no attempt of the bus has been finalized.
LegacyWritable(v) ==
    /\ Finalized(v) = {}
    /\ \A a \in AppId : app[a].vehicle = v => AppFree(a)

\* From the INSERT, UPDATE or DELETE of an older record to the new verdict.
Rewrite(t, op, k, row) ==
    /\ LegacyWritable(row.vehicle)
    /\ Begin(t, [Snapshot EXCEPT
                   !.op = op, !.vehicle = row.vehicle, !.older = k, !.row = row,
                   !.write = Writing(row.vehicle, RefreshedStatus(row.vehicle, pool, licence,
                                                                  [older EXCEPT ![k] = row]))])

\* validateInspectionDates, as in FinalizeBegin; other results have no expiry here.
DatedResult(result, date, expiry) ==
    date <= today /\ IF result = "PASSED" THEN expiry > date ELSE expiry = 0

\* createInspection, which locks the vehicles row first.
createInspection(t, k, v, result, date, expiry) ==
    /\ VehicleFree(v)
    /\ older[k].result = "NONE" /\ OlderFree(k)
    /\ \A j \in OlderId : j < k => older[j].result # "NONE" \/ ~OlderFree(j)
    /\ DatedResult(result, date, expiry)
    /\ Rewrite(t, "record", k,
               [result |-> result, vehicle |-> v, date |-> date, expiry |-> expiry])

updateInspection(t, k, result, expiry) ==
    /\ older[k].result \in {"PASSED", "FAILED"} /\ OlderFree(k)
    /\ DatedResult(result, older[k].date, expiry)
    /\ Rewrite(t, "correct", k, [older[k] EXCEPT !.result = result, !.expiry = expiry])

deleteInspection(t, k) ==
    /\ older[k].result \in {"PASSED", "FAILED"} /\ OlderFree(k)
    /\ Rewrite(t, "correct", k, [older[k] EXCEPT !.result = "DELETED", !.expiry = 0])

\* The certificates that the transaction of t withdraws.
Replaced(t) == {row \in {older[k] : k \in OlderId \cap {tx[t].older}} : row.result = "PASSED"}

\* UPDATE vehicles ... COMMIT.
Commit(t) ==
    /\ status' = [v \in Vehicle |-> IF tx[t].write[v] = "KEEP" THEN status[v] ELSE tx[t].write[v]]
    /\ tx' = [tx EXCEPT ![t] = NoTransaction]
    /\ older' = [k \in OlderId |-> IF k = tx[t].older THEN tx[t].row ELSE older[k]]
    /\ overtaken' = [u \in Conn |-> IF u = t \/ tx[u].op = "none" THEN {}
                                    ELSE overtaken[u] \cup Replaced(t)]
    /\ reply' = "ok"
    /\ UNCHANGED <<docs, riders, calendar>>

Unblocked(t) ==
    \A v \in Vehicle : tx[t].write[v] # "KEEP" =>
       \A u \in Conn \ {t} : tx[u].op \in {"authorize", "record"} => tx[u].vehicle # v

\* The status an application gets from a result.
Outcome(r) == IF r = "PENDING" THEN "INSPECTION_PENDING" ELSE r

FinalizeCommit(t) ==
    LET k == tx[t].attempt
        a == attempt[k].app
        r == tx[t].result
    IN /\ tx[t].op = "finalize" /\ Unblocked(t)
       /\ attempt' = [attempt EXCEPT ![k].result = r, ![k].date = tx[t].date,
                                     ![k].expiry = tx[t].until, ![k].order = finals + 1]
       /\ finals' = finals + 1
       /\ app' = [app EXCEPT ![a].status = Outcome(r),
                             ![a].key = @ /\ ~ReleasesKey(r)]
       /\ Commit(t)
       /\ UNCHANGED <<licence, pool>>

AbortCommit(t) ==
    LET k == tx[t].attempt
        a == attempt[k].app
    IN /\ tx[t].op = "abort" /\ Unblocked(t)
       /\ attempt' = [attempt EXCEPT ![k].result = "DELETED"]
       /\ app' = [app EXCEPT ![a].status = IF @ = "INSPECTION_PENDING" THEN "READY_TO_PRINT" ELSE @]
       /\ Commit(t)
       /\ UNCHANGED <<finals, licence, pool>>

QualifyCommit(t) ==
    /\ tx[t].op = "qualify" /\ Unblocked(t)
    /\ licence' = [licence EXCEPT ![tx[t].driver] = tx[t].until]
    /\ Commit(t)
    /\ UNCHANGED <<rows, pool>>

AuthorizeCommit(t) ==
    /\ tx[t].op = "authorize" /\ Unblocked(t)
    /\ pool' = [pool EXCEPT ![tx[t].driver][tx[t].vehicle] = tx[t].until]
    /\ Commit(t)
    /\ UNCHANGED <<rows, licence>>

OlderCommit(t) ==
    /\ tx[t].op \in {"record", "correct"} /\ Unblocked(t)
    /\ Commit(t)
    /\ UNCHANGED <<rows, licence, pool>>

-----------------------------------------------------------------------------
(* What changes without a new verdict *)

\* endAssignment: an unlocked UPDATE; refreshVehicleEligibility is not called.
endAssignment(d, v) ==
    /\ pool[d][v] # 0
    /\ \A t \in Conn : tx[t].op = "authorize" => <<tx[t].driver, tx[t].vehicle>> # <<d, v>>
    /\ pool' = [pool EXCEPT ![d][v] = 0]
    /\ reply' = "ok"
    /\ UNCHANGED <<rows, status, docs, riders, licence, records, tx, calendar>>

\* Pupils of a school get on or off the bus (school routes); no new verdict.
\* Only getting on takes the foreign key's lock on the vehicles row.
RosterEdit(v, s) ==
    /\ s \notin riders[v] => VehicleFree(v)
    /\ riders' = [riders EXCEPT ![v] = IF s \in @ THEN @ \ {s} ELSE @ \cup {s}]
    /\ reply' = "ok"
    /\ UNCHANGED <<rows, status, docs, licence, pool, records, tx, calendar>>

\* No transaction is open across midnight or a change of term.
Idle == \A t \in Conn : tx[t].op = "none"

DayPasses ==
    /\ Idle /\ today < MaxDay
    /\ today' = today + 1
    /\ reply' = "ok"
    /\ UNCHANGED <<rows, fleet, tx, term>>

TermChanges ==
    /\ Idle /\ term < MaxTerm
    /\ term' = term + 1
    /\ reply' = "ok"
    /\ UNCHANGED <<rows, fleet, tx, today>>

Days == 1 .. MaxDay

ApplicationStep ==
    \E a \in AppId, s \in School :
       \/ \E v \in Vehicle : createApplication(a, v, s)
       \/ markReadyToPrint(a, s)
       \/ \E approved \in BOOLEAN : reviewApplication(a, s, approved)
       \/ \E isAdmin \in BOOLEAN : cancelApplication(a, s, isAdmin)

InspectionStep ==
    \E k \in AttemptId, i \in Inspector :
       \/ \E a \in AppId : startInspection(a, k, i)
       \/ \E t \in Conn, isAdmin \in BOOLEAN : AbortBegin(t, k, i, isAdmin)
       \/ \E t \in Conn, result \in FinalResults, date \in Days, expiry \in 0 .. MaxDay + 1 :
             FinalizeBegin(t, k, i, result, date, expiry)

DriverStep ==
    \E d \in Driver, v \in Vehicle :
       \/ \E a \in AppId : createDriverApplication(a, v, d)
       \/ endAssignment(d, v)
       \/ \E t \in Conn, day \in Days : AuthorizeBegin(t, d, v, day) \/ QualifyBegin(t, d, day)

OlderStep ==
    \E t \in Conn, k \in OlderId :
       \/ deleteInspection(t, k)
       \/ \E result \in {"PASSED", "FAILED"}, expiry \in 0 .. MaxDay + 1 :
             \/ updateInspection(t, k, result, expiry)
             \/ \E v \in Vehicle, date \in Days : createInspection(t, k, v, result, date, expiry)

CommitStep ==
    \E t \in Conn : \/ FinalizeCommit(t) \/ AbortCommit(t) \/ QualifyCommit(t)
                     \/ AuthorizeCommit(t) \/ OlderCommit(t)

Next ==
    \/ ApplicationStep
    \/ InspectionStep
    \/ DriverStep
    \/ OlderStep
    \/ CommitStep
    \/ \E v \in Vehicle, s \in School : RosterEdit(v, s)
    \/ DayPasses
    \/ TermChanges

Spec == Init /\ [][Next]_vars

-----------------------------------------------------------------------------
(* Properties *)

\* One request per bus and term: whatever order schools, drivers, inspectors and
\* administrators act in, no two applications of a bus and term hold
\* active_request_key, and an application holds it exactly until it ends.
OneActiveApplication ==
    /\ \A a, b \in AppId :
          app[a].key /\ app[b].key /\ app[a].vehicle = app[b].vehicle
             /\ app[a].term = app[b].term => a = b
    /\ \A a \in AppId : app[a].key <=> app[a].status \notin Terminal \cup {"NONE"}

\* An open attempt is the only one of its application, and the application is
\* waiting for it: no path that ends, cancels or rejects one leaves it behind.
OpenAttemptIsAwaited ==
    \A j, k \in AttemptId :
       attempt[k].result = "IN_PROGRESS" =>
          /\ app[attempt[k].app].status = "INSPECTION_PENDING"
          /\ j \in OpenAttempts(attempt[k].app) => j = k

\* Results are append-only: once an attempt has a result no abort, cancellation
\* or second finalization, running or yet to run, changes or deletes it.
ResultsAreFinal ==
    [][\A k \in AttemptId : attempt[k].result \in FinalResults => attempt'[k] = attempt[k]]_vars

\* A certificate of the vehicle that is valid today.
Valid(row, v) == row.vehicle = v /\ row.result = "PASSED" /\ row.expiry >= today

\* The transaction of t commits a verdict on an older record: no attempt of the
\* bus had been finalized when it took its snapshot, and a valid record stands, or
\* stood until another transaction replaced it while this one was open.
ClearedOnOlder(t, v) ==
    /\ tx[t].write[v] = "ELIGIBLE" /\ tx'[t].op = "none"
    /\ \A k \in Finalized(v) : attempt[k].order > tx[t].since
    /\ \E row \in {older'[k] : k \in OlderId} \cup overtaken[t] : Valid(row, v)

\* computeEligibility behind every path that writes the verdict: a bus becomes
\* ELIGIBLE only with its documents in date and on the strength of an inspection
\* that is PASSED and valid that very day, although a verdict may rest on a stale
\* snapshot, a back-dated inspection or a certificate that has expired: a finalized
\* attempt or, while none was finalized, a record of vehicle_inspections.
ClearedOnValidCertificate ==
    [][\A v \in Vehicle :
          status'[v] = "ELIGIBLE" /\ status[v] # "ELIGIBLE" =>
             /\ docs[v] >= today
             /\ \/ \E k \in AttemptId : /\ attempt'[k].result = "PASSED"
                                        /\ attempt'[k].expiry >= today
                                        /\ app[attempt'[k].app].vehicle = v
                \/ \E t \in Conn : ClearedOnOlder(t, v)]_vars

\* An ended application is ended for good: no inspection, late finalization,
\* abort or cancellation brings it back.
EndedStaysEnded ==
    [][\A a \in AppId : app[a].status \in Terminal => app'[a] = app[a]]_vars

\* The eligibility rules of the design document (section 11): a bus that is
\* ELIGIBLE has its latest inspection PASSED and in date, its documents in date,
\* room for its pupils and at least one valid driver.
EligibilityRules ==
    Idle => \A v \in Vehicle : status[v] = "ELIGIBLE" =>
       /\ \E i \in JudgedBy(v, older) : i.result = "PASSED" /\ i.expiry >= today
       /\ docs[v] >= today
       /\ Cardinality(riders[v]) <= Capacity
       /\ ValidDriver(v, pool, licence)

\* Comment of cancelApplication: it "must rescue [...] a driver-initiated app
\* awaiting review (PENDING_SCHOOL_REVIEW)", so a driver's or a reviewer's
\* accepted request does not end in a server error.
RequestIsStored == reply = "ok"

=============================================================================
