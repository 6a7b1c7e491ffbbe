--------------------------- MODULE MCVerification ---------------------------
(* Verification for TLC: ids are interchangeable, so they are symmetric. *)
EXTENDS Verification, TLC

Symmetry == Permutations(AppId) \cup Permutations(AttemptId) \cup Permutations(Conn)

-----------------------------------------------------------------------------
(* The directions in which the state space is explored in depth: many rows *)
(* on one day of two terms, or several days of one application.            *)

AppsUsed == Cardinality({a \in AppId : app[a].status # "NONE"})
AttemptsUsed == Cardinality({k \in AttemptId : attempt[k].result # "NONE"})

\* No row dates from after day d, and a certificate is valid until the day after.
DatedUpTo(d) ==
    /\ today <= d
    /\ \A k \in AttemptId : attempt[k].date <= d /\ attempt[k].expiry <= d + 1
    /\ \A k \in OlderId : older[k].date <= d /\ older[k].expiry <= d + 1
    /\ \A t \in Conn : /\ tx[t].date <= d
                       /\ tx[t].op \in {"finalize", "record", "correct"} => tx[t].until <= d + 1
                       /\ tx[t].row.date <= d /\ tx[t].row.expiry <= d + 1

\* The documents, licences and assignments expire on one of these days.
PapersUntil(days) ==
    /\ \A v \in Vehicle : docs[v] \in days
    /\ \A e \in Driver : licence[e] \in days /\ \A v \in Vehicle : pool[e][v] \in days
    /\ \A t \in Conn : tx[t].op \in {"qualify", "authorize"} => tx[t].until \in days

OneApplication == term = 1 /\ AppsUsed <= 1
OneTransaction == Cardinality({t \in Conn : tx[t].op # "none"}) <= 1

OlderUsed == Cardinality({k \in OlderId : older[k].result # "NONE"})

\* A suspended bus: whatever its rows, its status follows other rules.
Suspended == \E v \in Vehicle : status[v] = "SUSPENDED"

\* The more days, the fewer rows and overlaps; older records with one application.
RowsOrDays ==
    /\ Suspended => AttemptsUsed + OlderUsed <= 1
    /\ OlderUsed > 0 => OneApplication /\ AttemptsUsed + OlderUsed <= 2
    /\ \/ /\ DatedUpTo(1) /\ PapersUntil(0 .. 1)
          /\ (OneTransaction /\ OneApplication) \/ (AttemptsUsed <= 2 /\ OlderUsed <= 1)
       \/ /\ OneTransaction /\ OneApplication
          /\ \/ DatedUpTo(2) /\ PapersUntil({0, 2}) /\ AttemptsUsed + OlderUsed <= 2
             \/ DatedUpTo(2) /\ PapersUntil(0 .. 2) /\ AttemptsUsed + OlderUsed <= 1
             \/ PapersUntil({0, MaxDay}) /\ AttemptsUsed + OlderUsed <= 1

=============================================================================
