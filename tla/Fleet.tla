-------------------------------- MODULE Fleet --------------------------------
(***************************************************************************)
(* Buses that are added, corrected, merged and deleted                     *)
(* (vehicleAdmin.service.js), and the requests of a school to bring a      *)
(* deleted one back (vehicleRequest.service.js).                           *)
(***************************************************************************)
EXTENDS Naturals

CONSTANTS
    FleetBus,      \* ids of vehicles
    Plate,         \* canonical plates
    VehicleReq,    \* ids of vehicle_requests
    Clerk          \* requests being handled, each with its connection

VARIABLES
    vehicle,       \* vehicles
    vreq,          \* vehicle_requests
    clerk,         \* each handler: its next statement and local variables
    restores       \* how often each request has brought its bus back

fleetVars == <<vehicle, vreq, clerk, restores>>

NoVehicle == [state |-> "none", plate |-> "none"]
NoVehicleRequest == [status |-> "none", type |-> "none", bus |-> "none", plate |-> "none"]
AtDesk == [at |-> "idle"]

FleetInit ==
    /\ vehicle = [b \in FleetBus |-> NoVehicle]
    /\ vreq = [q \in VehicleReq |-> NoVehicleRequest]
    /\ clerk = [c \in Clerk |-> AtDesk]
    /\ restores = [q \in VehicleReq |-> 0]

OnRoad(p) == {b \in FleetBus : vehicle[b].state = "active" /\ vehicle[b].plate = p}

\* Rows locked FOR UPDATE: the request by an approval, and then its bus.
RequestFree(q) ==
    \A c \in Clerk : clerk[c].at \in {"approve", "restore"} => clerk[c].request # q
BusFree(b) ==
    \A c \in Clerk : clerk[c].at = "restore" => vreq[clerk[c].request].bus # b

Go(c, job) == clerk' = [clerk EXCEPT ![c] = job]
Decide(q, status) == vreq' = [vreq EXCEPT ![q].status = status]

-----------------------------------------------------------------------------
(* Buses: uq_vehicles_active_canonical allows one active bus per plate *)

AddVehicle(b, p) ==
    /\ vehicle[b].state = "none" /\ OnRoad(p) = {}
    /\ vehicle' = [vehicle EXCEPT ![b] = [state |-> "active", plate |-> p]]
    /\ UNCHANGED <<vreq, clerk, restores>>

softDeleteVehicle(b) ==
    /\ vehicle[b].state = "active" /\ BusFree(b)
    /\ vehicle' = [vehicle EXCEPT ![b].state = "deleted"]
    /\ UNCHANGED <<vreq, clerk, restores>>

correctVehicle(b, p) ==
    /\ vehicle[b].state = "active" /\ BusFree(b) /\ OnRoad(p) = {}
    /\ vehicle' = [vehicle EXCEPT ![b].plate = p]
    /\ UNCHANGED <<vreq, clerk, restores>>

\* What belongs to the loser, its requests included, is repointed to the winner.
mergeVehicles(loser, winner) ==
    LET moved == {q \in VehicleReq : vreq[q].bus = loser}
    IN  /\ loser # winner /\ vehicle[loser].state # "none"
        /\ vehicle[winner].state = "active" /\ BusFree(loser) /\ BusFree(winner)
        /\ \A q \in moved : RequestFree(q)
        /\ vreq' = [q \in VehicleReq |->
              IF q \in moved THEN [vreq[q] EXCEPT !.bus = winner] ELSE vreq[q]]
        /\ vehicle' = [vehicle EXCEPT ![loser].state = "deleted"]
        /\ UNCHANGED <<clerk, restores>>

-----------------------------------------------------------------------------
(* createVehicleRequest: plain reads, then the INSERT *)

CheckVehicleRequest(c, b, type) ==
    /\ clerk[c] = AtDesk
    /\ vehicle[b].state # "none"
    /\ type = "restore" => vehicle[b].state = "deleted"
    /\ \A q \in VehicleReq :
          vreq[q].status = "pending" /\ vreq[q].type = type => vreq[q].plate # vehicle[b].plate
    /\ Go(c, [at |-> "ask", type |-> type, bus |-> b, plate |-> vehicle[b].plate])
    /\ UNCHANGED <<vehicle, vreq, restores>>

InsertVehicleRequest(c) ==
    /\ clerk[c].at = "ask"
    /\ \E q \in VehicleReq :
          /\ vreq[q].status = "none"
          /\ vreq' = [vreq EXCEPT ![q] =
                [status |-> "pending", type |-> clerk[c].type, bus |-> clerk[c].bus,
                 plate |-> clerk[c].plate]]
    /\ Go(c, AtDesk)
    /\ UNCHANGED <<vehicle, restores>>

-----------------------------------------------------------------------------
(* cancelVehicleRequest, rejectVehicleRequest *)

CheckDenial(c, q, decision) ==
    /\ clerk[c] = AtDesk /\ vreq[q].status = "pending"
    /\ Go(c, [at |-> "deny", request |-> q, decision |-> decision])
    /\ UNCHANGED <<vehicle, vreq, restores>>

\* Variant for mutation runs: the UPDATE relies on the check made before it.
StillPendingThen(q) == TRUE

\* UPDATE ... AND status = 'PENDING'.
StillPending(q) == vreq[q].status = "pending"

WriteDenial(c) ==
    LET q == clerk[c].request
    IN  /\ clerk[c].at = "deny" /\ RequestFree(q)
        /\ IF StillPending(q) THEN Decide(q, clerk[c].decision) ELSE UNCHANGED vreq
        /\ Go(c, AtDesk)
        /\ UNCHANGED <<vehicle, restores>>

-----------------------------------------------------------------------------
(* approveVehicleRequest *)

LockVehicleRequest(c, q) ==
    /\ clerk[c] = AtDesk /\ RequestFree(q)
    /\ vreq[q].status = "pending"
    /\ Go(c, [at |-> "approve", request |-> q])
    /\ UNCHANGED <<vehicle, vreq, restores>>

\* Requests of the other types are approved for information only.
ApproveForInformation(c) ==
    /\ clerk[c].at = "approve" /\ vreq[clerk[c].request].type # "restore"
    /\ Decide(clerk[c].request, "applied")
    /\ Go(c, AtDesk)
    /\ UNCHANGED <<vehicle, restores>>

\* SELECT ... FROM vehicles FOR UPDATE, and a plain read for an active sibling.
ReadDeleted(c) ==
    LET q == clerk[c].request
        b == vreq[q].bus
    IN  /\ clerk[c].at = "approve" /\ vreq[q].type = "restore" /\ BusFree(b)
        /\ \/ /\ vehicle[b].state = "active"
              /\ Decide(q, "already") /\ Go(c, AtDesk)
           \/ /\ vehicle[b].state = "deleted" /\ OnRoad(vehicle[b].plate) # {}
              /\ Decide(q, "failed") /\ Go(c, AtDesk)
           \/ /\ vehicle[b].state = "deleted" /\ OnRoad(vehicle[b].plate) = {}
              /\ UNCHANGED vreq /\ Go(c, [at |-> "restore", request |-> q])
        /\ UNCHANGED <<vehicle, restores>>

RestoreVehicle(c) ==
    LET q == clerk[c].request
        b == vreq[q].bus
    IN  /\ clerk[c].at = "restore" /\ OnRoad(vehicle[b].plate) = {}
        /\ vehicle' = [vehicle EXCEPT ![b].state = "active"]
        /\ Decide(q, "applied")
        /\ restores' = [restores EXCEPT ![q] = @ + 1]
        /\ Go(c, AtDesk)

\* ER_DUP_ENTRY: a bus with this plate was added since; ROLLBACK ...
RestoreCollides(c) ==
    /\ clerk[c].at = "restore" /\ OnRoad(vehicle[vreq[clerk[c].request].bus].plate) # {}
    /\ Go(c, [at |-> "mark", request |-> clerk[c].request])
    /\ UNCHANGED <<vehicle, vreq, restores>>

\* ... and then FAILED, whatever the request has become since.
MarkFailed(c) ==
    /\ clerk[c].at = "mark" /\ RequestFree(clerk[c].request)
    /\ Decide(clerk[c].request, "failed")
    /\ Go(c, AtDesk)
    /\ UNCHANGED <<vehicle, restores>>

\* An error, or the process is gone: what was not committed is rolled back.
ClerkFails(c) ==
    /\ clerk[c] # AtDesk
    /\ Go(c, AtDesk)
    /\ UNCHANGED <<vehicle, vreq, restores>>

FleetNext ==
    \/ \E b \in FleetBus, p \in Plate : AddVehicle(b, p) \/ correctVehicle(b, p)
    \/ \E b \in FleetBus : softDeleteVehicle(b)
    \/ \E b, w \in FleetBus : mergeVehicles(b, w)
    \/ \E c \in Clerk :
          \/ \E b \in FleetBus, t \in {"restore", "other"} : CheckVehicleRequest(c, b, t)
          \/ \E q \in VehicleReq, d \in {"cancelled", "rejected"} : CheckDenial(c, q, d)
          \/ \E q \in VehicleReq : LockVehicleRequest(c, q)
          \/ InsertVehicleRequest(c) \/ WriteDenial(c) \/ ApproveForInformation(c)
          \/ ReadDeleted(c) \/ RestoreVehicle(c) \/ RestoreCollides(c) \/ MarkFailed(c)
          \/ ClerkFails(c)

-----------------------------------------------------------------------------

\* Each restoration has a request of its own, and one nobody denied: however late the
\* second of two approvals arrives, and whatever became of the bus meanwhile, a request
\* brings its bus back at most once, and then it is neither pending, nor cancelled, nor
\* rejected.  (It may say FAILED: MarkFailed asks for nothing.)
RestoredOnRequest ==
    \A q \in VehicleReq :
       /\ restores[q] <= 1
       /\ restores[q] = 1 => vreq[q].status \in {"applied", "failed"}

=============================================================================
