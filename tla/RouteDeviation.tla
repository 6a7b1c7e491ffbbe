--------------------------- MODULE RouteDeviation ---------------------------
(***************************************************************************)
(* Deviations that the pings of a bus report (routeDeviation.service.js,   *)
(* emitIfNew), under the default isolation of InnoDB: a locking read that  *)
(* finds nothing locks the gap it searched, in which others may search     *)
(* but not insert.  Nothing calls resolveOpenForVehicle: a row stays       *)
(* unresolved.                                                             *)
(***************************************************************************)
EXTENDS Naturals, Sequences

CONSTANTS
    DeviationType,   \* kinds of deviation of one bus
    Ping,            \* GPS pings, each a request with its connection
    QuietTime,       \* the 30 minutes, in ticks
    MaxTime          \* bound on the time

ASSUME DeviationAssumption == QuietTime \in Nat /\ MaxTime \in Nat

VARIABLES
    deviations,      \* occurred_at of the route_deviations rows of each type
    ping,            \* each ping: where it is, what it reports, `now` at its arrival
    time             \* the clock of the server and of the database

deviationVars == <<deviations, ping, time>>

NoPing == [at |-> "none"]

DeviationInit ==
    /\ deviations = [k \in DeviationType |-> <<>>]
    /\ ping = [p \in Ping |-> NoPing]
    /\ time = 0

TimeTicks ==
    /\ time < MaxTime
    /\ time' = time + 1
    /\ UNCHANGED <<deviations, ping>>

\* OFF_ROUTE, LATE and STALLED are tried one after the other: `left` is what is to come.
Arrive(p) ==
    /\ ping[p] = NoPing
    /\ \E K \in SUBSET DeviationType \ {{}} :
          ping' = [ping EXCEPT ![p] = [at |-> "check", now |-> time, left |-> K]]
    /\ UNCHANGED <<deviations, time>>

Waits(p, from, to) == ping' = [ping EXCEPT ![p] = [at |-> to, now |-> @.now, left |-> from]]

Rest(p, k) == ping[p].left \ {k}
Onward(p, k) == Waits(p, Rest(p, k), IF Rest(p, k) = {} THEN "done" ELSE "check")

Recent(k) == {i \in DOMAIN deviations[k] : deviations[k][i] + QuietTime >= time}

\* Variant for mutation runs: the read does not lock, so nobody waits for its gap.
GapFreeUnlocked(p) == TRUE

\* The INSERT waits for every other ping that has searched where it inserts.
GapFree(p) ==
    \A q \in Ping \ {p} : ping[q].at = "insert" => ping[p].now < ping[q].from

\* SELECT ... FOR UPDATE, of rows the time of the read calls recent.
SearchRecent(p, k) ==
    /\ ping[p].at = "check" /\ k \in ping[p].left
    /\ IF Recent(k) # {}
       THEN Onward(p, k)
       ELSE ping' = [ping EXCEPT ![p] =
               [at |-> "insert", now |-> @.now, left |-> @.left, type |-> k,
                from |-> IF time < QuietTime THEN 0 ELSE time - QuietTime]]
    /\ UNCHANGED <<deviations, time>>

\* occurred_at is the time of the ping, not of the read.
InsertDeviation(p) ==
    /\ ping[p].at = "insert" /\ GapFree(p)
    /\ deviations' = [deviations EXCEPT ![ping[p].type] = Append(@, ping[p].now)]
    /\ Onward(p, ping[p].type)
    /\ UNCHANGED time

\* Two that wait for one another's gap: one is rolled back and tries nothing more.
PingFails(p) ==
    /\ ping[p].at \in {"check", "insert"}
    /\ ping' = [ping EXCEPT ![p] = [at |-> "done"]]
    /\ UNCHANGED <<deviations, time>>

DeviationNext ==
    \/ TimeTicks
    \/ \E p \in Ping :
          \/ Arrive(p)
          \/ \E k \in DeviationType : SearchRecent(p, k)
          \/ InsertDeviation(p)
          \/ PingFails(p)

-----------------------------------------------------------------------------

\* routeDeviation.service.js:277-282: "concurrent pings cannot both pass the dedup check
\* and insert duplicate rows".  However long a ping waits between its check and its
\* INSERT, a row is inserted only if none of its type is of the last 30 minutes.
NoRepeatedDeviation ==
    [][\A k \in DeviationType :
          deviations'[k] # deviations[k] => Recent(k) = {}]_deviationVars

=============================================================================
