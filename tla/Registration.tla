----------------------------- MODULE Registration -----------------------------
(***************************************************************************)
(* A driver lists the pupils of the bus, each school reviews and approves  *)
(* its slice of the list (vehicleRegistration.service.js).  The rows are   *)
(* those of one application, which ensureApplicationForVehicle locks.      *)
(*                                                                         *)
(* A transaction reads from the snapshot of its first plain SELECT and     *)
(* writes to the rows as they are when their locks are granted.            *)
(***************************************************************************)
EXTENDS Naturals, FiniteSets

CONSTANTS
    RegSchool,      \* schools of the riders
    Entry,          \* ids of registration_roster_students
    Reviewer        \* connections of the pool

VARIABLES
    slice,          \* inspection_application_schools of each school
    entry,          \* registration_roster_students
    reviewed,       \* history: entries a school has ever resolved
    regWork         \* the open transactions, with what they have read and locked

registrationVars == <<slice, entry, reviewed, regWork>>

NoRegWork == [at |-> "idle"]

RegistrationInit ==
    /\ slice = [s \in RegSchool |-> [status |-> "NONE", riders |-> 0]]
    /\ entry = [e \in Entry |-> "none"]
    /\ reviewed = {}
    /\ regWork = [c \in Reviewer |-> NoRegWork]

CONSTANT SchoolOf    \* the school each entry is typed for
ASSUME SchoolOfAssumption == SchoolOf \in [Entry -> RegSchool]

OnRoster == {e \in Entry : entry[e] \in {"UNMATCHED", "MATCHED", "NOT_FOUND"}}
RidersOf(s) == {e \in OnRoster : SchoolOf[e] = s}

-----------------------------------------------------------------------------
(* Locks *)

ApplicationFree(c) == \A d \in Reviewer \ {c} : regWork[d].at \notin {"insert", "delete"}
SliceFree(c, s) == \A d \in Reviewer \ {c} : ~(regWork[d].at = "approve" /\ regWork[d].school = s)
EntryFree(c, e) == \A d \in Reviewer \ {c} : ~(regWork[d].at = "delete" /\ regWork[d].entry = e)

RegStep(c, work) == regWork' = [regWork EXCEPT ![c] = work]

-----------------------------------------------------------------------------
(* The driver: addRosterStudent, deleteRosterStudent *)

\* The look at schools is the first plain read: it fixes the snapshot.
AddReads(c, e) ==
    /\ regWork[c].at = "idle" /\ entry[e] = "none"
    /\ RegStep(c, [at |-> "add", entry |-> e, seen |-> RidersOf(SchoolOf[e])])
    /\ UNCHANGED <<slice, entry, reviewed>>

\* ensureApplicationForVehicle takes the application; the row is inserted.
AddLocks(c) ==
    /\ regWork[c].at = "add" /\ ApplicationFree(c)
    /\ RegStep(c, [regWork[c] EXCEPT !.at = "insert"])
    /\ UNCHANGED <<slice, entry, reviewed>>

\* Variant for mutation runs: a school that has approved is left alone.
ReopenedNever(status) == status

\* An added pupil reopens the review of a school that has approved.
Reopened(status) == IF status = "APPROVED" THEN "PENDING_SCHOOL_REVIEW" ELSE status

\* upsertSchoolCounts, with the count of the snapshot, never resets a status.
AddCommits(c) ==
    LET e == regWork[c].entry
        s == SchoolOf[e]
    IN  /\ regWork[c].at = "insert" /\ SliceFree(c, s)
        /\ entry[e] = "none"
        /\ entry' = [entry EXCEPT ![e] = "UNMATCHED"]
        /\ slice' = [slice EXCEPT ![s] =
              [status |-> IF @.status = "NONE" THEN "PENDING_SCHOOL_REVIEW"
                                               ELSE Reopened(@.status),
               riders |-> Cardinality(regWork[c].seen \cup {e})]]
        /\ RegStep(c, NoRegWork)
        /\ UNCHANGED reviewed

\* Row and application locked; the plain read of the approval fixes the snapshot.
DeleteLocks(c, e) ==
    /\ regWork[c].at = "idle" /\ e \in OnRoster
    /\ EntryFree(c, e) /\ ApplicationFree(c)
    /\ slice[SchoolOf[e]].status # "APPROVED"
    /\ RegStep(c, [at |-> "delete", entry |-> e, seen |-> RidersOf(SchoolOf[e])])
    /\ UNCHANGED <<slice, entry, reviewed>>

DeleteCommits(c) ==
    LET e == regWork[c].entry IN
    /\ regWork[c].at = "delete" /\ SliceFree(c, SchoolOf[e])
    /\ entry' = [entry EXCEPT ![e] = "deleted"]
    /\ slice' = [slice EXCEPT ![SchoolOf[e]].riders = Cardinality(regWork[c].seen \ {e})]
    /\ RegStep(c, NoRegWork)
    /\ UNCHANGED reviewed

-----------------------------------------------------------------------------
(* The school: matchRosterStudent, patchRosterStudent, approve, reject *)

\* Also patchRosterStudent, which may take a resolution back, approved or not.
ResolveEntry(c, e, match) ==
    /\ regWork[c].at = "idle" /\ e \in OnRoster /\ EntryFree(c, e)
    /\ entry' = [entry EXCEPT ![e] = match]
    /\ reviewed' = IF match = "UNMATCHED" THEN reviewed ELSE reviewed \cup {e}
    /\ UNCHANGED <<slice, regWork>>

\* The slice is locked, then its unresolved entries are counted.
ApproveLocks(c, s) ==
    /\ regWork[c].at = "idle" /\ slice[s].status # "NONE" /\ SliceFree(c, s)
    /\ \A e \in RidersOf(s) : entry[e] # "UNMATCHED"
    /\ RegStep(c, [at |-> "approve", school |-> s])
    /\ UNCHANGED <<slice, entry, reviewed>>

ApproveCommits(c) ==
    /\ regWork[c].at = "approve"
    /\ slice' = [slice EXCEPT ![regWork[c].school].status = "APPROVED"]
    /\ RegStep(c, NoRegWork)
    /\ UNCHANGED <<entry, reviewed>>

RejectSlice(c, s) ==
    /\ regWork[c].at = "idle" /\ slice[s].status # "NONE" /\ SliceFree(c, s)
    /\ slice' = [slice EXCEPT ![s].status = "NEEDS_REVISION"]
    /\ UNCHANGED <<entry, reviewed, regWork>>

\* An error, a deadlock or a lost connection: ROLLBACK.
RegistrationFails(c) ==
    /\ regWork[c].at # "idle"
    /\ RegStep(c, NoRegWork)
    /\ UNCHANGED <<slice, entry, reviewed>>

RegistrationNext ==
    \E c \in Reviewer :
       \/ \E e \in Entry : AddReads(c, e) \/ DeleteLocks(c, e)
       \/ \E e \in Entry, m \in {"UNMATCHED", "MATCHED", "NOT_FOUND"} : ResolveEntry(c, e, m)
       \/ AddLocks(c)
       \/ AddCommits(c)
       \/ DeleteCommits(c)
       \/ \E s \in RegSchool : ApproveLocks(c, s) \/ RejectSlice(c, s)
       \/ ApproveCommits(c)
       \/ RegistrationFails(c)

-----------------------------------------------------------------------------

\* vehicleRegistration.service.js:149-151: a bus is never cleared "with an unreviewed
\* rider".  Whichever of an approval and an addition gets the slice first, a school
\* that has approved has looked at every pupil on its list.
NoUnreviewedRider ==
    \A s \in RegSchool : slice[s].status = "APPROVED" => RidersOf(s) \subseteq reviewed

=============================================================================
