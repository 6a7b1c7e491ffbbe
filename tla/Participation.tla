---------------------------- MODULE Participation ----------------------------
(***************************************************************************)
(* Cases that people raise and what was done about them                    *)
(* (participation.service.js): an append-only log of events and a case row *)
(* that holds the status the log has led to.                               *)
(***************************************************************************)
EXTENDS Naturals, Sequences

CONSTANTS
    Case,          \* ids of participation_cases
    Filer,         \* the driver who raises them
    Office,        \* a province user, who may append every event but WITHDRAWN
    Post,          \* POST requests, each with its connection
    MaxEvents      \* bound: events of one case

ASSUME ParticipationAssumption == MaxEvents \in Nat /\ Filer # Office

VARIABLES
    case,          \* participation_cases
    events,        \* participation_case_events of each case, by id
    post           \* each request: what it has locked and read

participationVars == <<case, events, post>>

\* A comment records participation without advancing the case: NULL.
Stays == "null"

EVENT_RESULT_STATUS ==
    [SUBMITTED |-> "SUBMITTED", ACKNOWLEDGED |-> "ACKNOWLEDGED", COMMENTED |-> Stays,
     CONSULTED |-> "IN_CONSULTATION", DECIDED |-> "DECIDED", ASSIGNED |-> "ASSIGNED",
     COMPLETED |-> "COMPLETED", FEEDBACK_SENT |-> "CLOSED", WITHDRAWN |-> "WITHDRAWN"]

EventType == DOMAIN EVENT_RESULT_STATUS

ALLOWED_EVENTS ==
    [SUBMITTED       |-> {"ACKNOWLEDGED", "COMMENTED", "CONSULTED", "DECIDED", "WITHDRAWN"},
     ACKNOWLEDGED    |-> {"COMMENTED", "CONSULTED", "DECIDED", "ASSIGNED", "WITHDRAWN"},
     IN_CONSULTATION |-> {"COMMENTED", "CONSULTED", "DECIDED", "WITHDRAWN"},
     DECIDED         |-> {"COMMENTED", "CONSULTED", "ASSIGNED", "COMPLETED", "WITHDRAWN"},
     ASSIGNED        |-> {"COMMENTED", "CONSULTED", "COMPLETED", "WITHDRAWN"},
     COMPLETED       |-> {"COMMENTED", "FEEDBACK_SENT"},
     CLOSED          |-> {},
     WITHDRAWN       |-> {}]

After(status, e) ==
    IF EVENT_RESULT_STATUS[e] = Stays THEN status ELSE EVENT_RESULT_STATUS[e]

ParticipationInit ==
    /\ case = [k \in Case |-> "none"]
    /\ events = [k \in Case |-> <<>>]
    /\ post = [r \in Post |-> [at |-> "idle"]]

\* One transaction: the row and its first event.
createCase(k) ==
    /\ case[k] = "none"
    /\ case' = [case EXCEPT ![k] = "SUBMITTED"]
    /\ events' = [events EXCEPT ![k] = <<"SUBMITTED">>]
    /\ UNCHANGED post

-----------------------------------------------------------------------------
(* appendEvent *)

\* EVENT_ROLE_POLICY, for these two users; a case is withdrawn by who raised it.
canActorAppendEvent(u, e) == IF u = Filer THEN e \in {"COMMENTED", "WITHDRAWN"} ELSE e # "WITHDRAWN"

\* Variant for mutation runs: the case is read without FOR UPDATE.
CaseFreeUnlocked(r, k) == TRUE

CaseFree(r, k) == \A q \in Post \ {r} : ~(post[q].at = "append" /\ post[q].case = k)

\* The case as its lock finds it decides whether the event may follow.
LockCase(r, k) ==
    /\ post[r].at = "idle" /\ case[k] # "none" /\ CaseFree(r, k)
    /\ Len(events[k]) < MaxEvents
    /\ \E e \in ALLOWED_EVENTS[case[k]], u \in {Filer, Office} :
          /\ canActorAppendEvent(u, e)
          /\ post' = [post EXCEPT ![r] = [at |-> "append", case |-> k, event |-> e, status |-> case[k]]]
    /\ UNCHANGED <<case, events>>

\* The event, then the row, unless the event leaves the row as it is: COMMIT.
AppendEvent(r) ==
    LET k == post[r].case IN
    /\ post[r].at = "append"
    /\ events' = [events EXCEPT ![k] = Append(@, post[r].event)]
    /\ case' = [case EXCEPT ![k] = After(@, post[r].event)]
    /\ post' = [post EXCEPT ![r] = [at |-> "idle"]]

\* Any error, the audit's included, rolls both back.
AppendFails(r) ==
    /\ post[r].at = "append"
    /\ post' = [post EXCEPT ![r] = [at |-> "idle"]]
    /\ UNCHANGED <<case, events>>

ParticipationNext ==
    \/ \E k \in Case : createCase(k)
    \/ \E r \in Post :
          \/ \E k \in Case : LockCase(r, k)
          \/ AppendEvent(r)
          \/ AppendFails(r)

-----------------------------------------------------------------------------

\* The status after the first n events of a log.
Replay(log) ==
    LET status[n \in 1 .. Len(log)] ==
          IF n = 1 THEN log[1] ELSE After(status[n - 1], log[n])
    IN  status

\* participation.service.js:17-19 and :81-85: "The case row is a projection of the
\* events", and "What is NOT allowed is skipping the loop".  Whoever appends at the same
\* time, each event of a log was allowed by the status that the events before it led to,
\* and the row has the status that they all lead to.
RowIsReplayOfLog ==
    \A k \in Case : events[k] # <<>> =>
       /\ case[k] = Replay(events[k])[Len(events[k])]
       /\ \A n \in 2 .. Len(events[k]) :
             events[k][n] \in ALLOWED_EVENTS[Replay(events[k])[n - 1]]

=============================================================================
