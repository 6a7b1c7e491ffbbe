------------------------------ MODULE Emergency ------------------------------
(***************************************************************************)
(* Emergency reports of drivers (emergency.service.js) and what an         *)
(* administrator does with them (emergencyAdmin.service.js), at the clock  *)
(* of the database.                                                        *)
(***************************************************************************)
EXTENDS Naturals

CONSTANTS
    Driving,       \* users that report
    Detail,        \* what is reported, with the bus
    ReportId,      \* ids of emergency_logs
    Tap,           \* taps on the button, each a request with its connection
    Window,        \* the dedupe window, in ticks
    MaxClock       \* bound on the clock

ASSUME EmergencyAssumption == Window \in Nat /\ MaxClock \in Nat

VARIABLES
    report,        \* emergency_logs
    tap,           \* each tap: where it is, and the report it was answered with
    clock          \* NOW()

emergencyVars == <<report, tap, clock>>

NoReport == [state |-> "none", by |-> "nobody", detail |-> "none", at |-> 0, closed |-> FALSE]
NoTap == [at |-> "waiting", by |-> "nobody", detail |-> "none"]

EmergencyInit ==
    /\ report = [r \in ReportId |-> NoReport]
    /\ tap = [t \in Tap |-> NoTap]
    /\ clock = 0

ClockTicks ==
    /\ clock < MaxClock
    /\ clock' = clock + 1
    /\ UNCHANGED <<report, tap>>

-----------------------------------------------------------------------------
(* createEmergencyReport, insertOrReuse *)

\* Variant for mutation runs: the reporter's users row is not locked.
ReporterFreeUnlocked(t, u) == TRUE

\* SELECT id FROM users FOR UPDATE.
ReporterFree(t, u) == \A s \in Tap \ {t} : ~(tap[s].at = "inserting" /\ tap[s].by = u)

\* Under READ COMMITTED the dedupe read sees every report committed by now.
Repeats(u, d) ==
    {r \in ReportId : /\ report[r].state = "stored"
                      /\ report[r].by = u /\ report[r].detail = d
                      /\ report[r].at + Window >= clock}

ReadReports(t, u, d) ==
    /\ tap[t] = NoTap /\ ReporterFree(t, u)
    /\ tap' = [tap EXCEPT ![t] =
          [at |-> IF Repeats(u, d) = {} THEN "inserting" ELSE "answered",
           by |-> u, detail |-> d]]
    /\ UNCHANGED <<report, clock>>

InsertReport(t) ==
    /\ tap[t].at = "inserting"
    /\ \E r \in ReportId :
          /\ report[r].state = "none"
          /\ report' = [report EXCEPT ![r] =
                [state |-> "stored", by |-> tap[t].by, detail |-> tap[t].detail,
                 at |-> clock, closed |-> FALSE]]
    /\ tap' = [tap EXCEPT ![t].at = "answered"]
    /\ UNCHANGED clock

\* The INSERT failed: ROLLBACK, and the tap is answered with an error.
ReportFails(t) ==
    /\ tap[t].at = "inserting"
    /\ tap' = [tap EXCEPT ![t].at = "failed"]
    /\ UNCHANGED <<report, clock>>

-----------------------------------------------------------------------------
(* resolveEmergency, softDeleteEmergency: nothing brings a deleted one back *)

ResolveReport(r) ==
    /\ report[r].state = "stored"
    /\ report' = [report EXCEPT ![r].closed = TRUE]
    /\ UNCHANGED <<tap, clock>>

DeleteReport(r) ==
    /\ report[r].state = "stored"
    /\ report' = [report EXCEPT ![r].state = "deleted"]
    /\ UNCHANGED <<tap, clock>>

EmergencyNext ==
    \/ ClockTicks
    \/ \E t \in Tap, u \in Driving, d \in Detail : ReadReports(t, u, d)
    \/ \E t \in Tap : InsertReport(t) \/ ReportFails(t)
    \/ \E r \in ReportId : ResolveReport(r) \/ DeleteReport(r)

-----------------------------------------------------------------------------

\* emergency.service.js:22: "A repeat within this many seconds is treated as the SAME
\* emergency", whichever of several taps commits first: two reports of one user about
\* one thing that both still stand are more than the window apart.
RepeatsCollapse ==
    \A r, q \in ReportId :
       /\ r # q /\ report[r].state = "stored" /\ report[q].state = "stored"
       /\ report[r].by = report[q].by /\ report[r].detail = report[q].detail
       => report[r].at + Window < report[q].at \/ report[q].at + Window < report[r].at

=============================================================================
