-------------------------------- MODULE Ride --------------------------------
(***************************************************************************)
(* What the check-in service promises about each pupil's session, without  *)
(* rows, locks, transactions or retries: a pupil's standing only moves     *)
(* along  none/CANCELLED -> IN -> OUT, a check may be cancelled, and a     *)
(* drop-off may be recorded without a boarding (a teacher at the school    *)
(* gate attests the arrival only).  A batch moves several pupils at once.  *)
(***************************************************************************)
CONSTANT Student

VARIABLE standing

Standings == {"none", "IN", "OUT", "CANCELLED"}

Init == standing = [s \in Student |-> "none"]

\* The moves one committed row can make.
Moves == {<<"none", "IN">>, <<"none", "OUT">>,
          <<"CANCELLED", "IN">>, <<"CANCELLED", "OUT">>,
          <<"IN", "OUT">>, <<"IN", "CANCELLED">>, <<"OUT", "CANCELLED">>}

Next ==
    /\ standing' \in [Student -> Standings]
    /\ \A s \in Student :
          standing'[s] # standing[s] => <<standing[s], standing'[s]>> \in Moves

Spec == Init /\ [][Next]_standing

=============================================================================
