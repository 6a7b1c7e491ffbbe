------------------------------- MODULE Dispatch -------------------------------
(***************************************************************************)
(* The outbox of LINE messages (line.service.js, processUnsentNotifications)*)
(* A run takes the oldest unsent rows that no other run has locked, pushes  *)
(* them one by one and commits what came of each, all at once.             *)
(***************************************************************************)
EXTENDS Naturals, FiniteSets

CONSTANTS
    MessageId,     \* ids of notifications, in the order of created_at
    Exceptional,   \* those of the types that the scheduled runs take (PUSH_TYPES)
    Run,           \* runs of the dispatcher that may overlap
    Limit,         \* LIMIT of the SELECT
    MaxRollbacks   \* bound: runs that end in a rollback

ASSUME DispatchAssumption ==
    /\ MessageId \subseteq Nat /\ Exceptional \subseteq MessageId
    /\ Limit \in Nat \ {0} /\ MaxRollbacks \in Nat

VARIABLES
    message,       \* notifications: "none", "unsent", "sent" and retry_count
    tooOld,        \* rows that have left the window of created_at
    dispatch,      \* each run: the rows it has locked, those reported sent and failed,
                   \* and, of these, those that LINE accepted although the answer was lost
    pushed,        \* external: pushes of each message that LINE accepted
    lost,          \* history: accepted pushes whose run was rolled back
    unheard,       \* history: accepted pushes that a run has committed as failed
    rollbacks      \* runs rolled back so far

dispatchVars == <<message, tooOld, dispatch, pushed, lost, unheard, rollbacks>>

MaxRetries == 3
NoRun == [rows |-> {}, ok |-> {}, failed |-> {}, accepted |-> {}]

DispatchInit ==
    /\ message = [m \in MessageId |-> [state |-> "none", retry |-> 0]]
    /\ tooOld = {}
    /\ dispatch = [r \in Run |-> NoRun]
    /\ pushed = [m \in MessageId |-> 0]
    /\ lost = [m \in MessageId |-> 0] /\ unheard = [m \in MessageId |-> 0]
    /\ rollbacks = 0

\* External: checkin.service.js inserts a row; rows are inserted in their order.
Queue(m) ==
    /\ message[m].state = "none"
    /\ \A n \in MessageId : n < m => message[n].state # "none"
    /\ message' = [message EXCEPT ![m].state = "unsent"]
    /\ UNCHANGED <<tooOld, dispatch, pushed, lost, unheard, rollbacks>>

\* The oldest row of the window leaves it.
LeavesWindow(m) ==
    /\ message[m].state # "none" /\ m \notin tooOld
    /\ \A n \in MessageId : n < m => n \in tooOld
    /\ tooOld' = tooOld \cup {m}
    /\ UNCHANGED <<message, dispatch, pushed, lost, unheard, rollbacks>>

\* The rows of the wanted types, in the window: 120 minutes for the scheduled runs and
\* 180 for one by hand, of which tooOld is one; no caller passes null for none.
Due(wanted) ==
    {m \in wanted : message[m].state = "unsent" /\ message[m].retry < MaxRetries} \ tooOld

\* Variant for mutation runs: the SELECT does not lock.
LockedByOthersNone(r) == {}

\* FOR UPDATE SKIP LOCKED.
LockedByOthers(r) == UNION {dispatch[q].rows : q \in Run \ {r}}

\* ORDER BY created_at LIMIT.
Oldest(S) == {m \in S : Cardinality({n \in S : n < m}) < Limit}

StartRun(r, wanted) ==
    LET batch == Oldest(Due(wanted) \ LockedByOthers(r)) IN
    /\ dispatch[r] = NoRun /\ batch # {}
    /\ dispatch' = [dispatch EXCEPT ![r].rows = batch]
    /\ UNCHANGED <<message, tooOld, pushed, lost, unheard, rollbacks>>

ToPush(r) == dispatch[r].rows \ (dispatch[r].ok \cup dispatch[r].failed)

\* sendTextMessage never throws: a push whose answer is lost or late is one that failed,
\* whether or not LINE has accepted it.
Push(r) ==
    \E m \in ToPush(r) :
       /\ \A n \in ToPush(r) : m <= n
       /\ \/ /\ dispatch' = [dispatch EXCEPT ![r].ok = @ \cup {m}]
             /\ pushed' = [pushed EXCEPT ![m] = @ + 1]
          \/ /\ dispatch' = [dispatch EXCEPT ![r].failed = @ \cup {m}]
             /\ UNCHANGED pushed
          \/ /\ dispatch' = [dispatch EXCEPT ![r].failed = @ \cup {m}, ![r].accepted = @ \cup {m}]
             /\ pushed' = [pushed EXCEPT ![m] = @ + 1]
       /\ UNCHANGED <<message, tooOld, lost, unheard, rollbacks>>

\* Variant for mutation runs: a failed push is not counted.
RetriedUncounted(row) == row

Retried(row) == [row EXCEPT !.retry = @ + 1]

CommitRun(r) ==
    /\ dispatch[r] # NoRun /\ ToPush(r) = {}
    /\ message' = [m \in MessageId |->
          IF m \in dispatch[r].ok THEN [message[m] EXCEPT !.state = "sent"]
          ELSE IF m \in dispatch[r].failed THEN Retried(message[m])
          ELSE message[m]]
    /\ unheard' = [m \in MessageId |->
          IF m \in dispatch[r].accepted THEN unheard[m] + 1 ELSE unheard[m]]
    /\ dispatch' = [dispatch EXCEPT ![r] = NoRun]
    /\ UNCHANGED <<tooOld, pushed, lost, rollbacks>>

\* A database error or a crash: all that the run has pushed is unsent again, and no
\* retry is counted.
LoseRun(r) ==
    /\ dispatch[r] # NoRun /\ rollbacks < MaxRollbacks
    /\ rollbacks' = rollbacks + 1
    /\ lost' = [m \in MessageId |->
          IF m \in dispatch[r].ok \cup dispatch[r].accepted THEN lost[m] + 1 ELSE lost[m]]
    /\ dispatch' = [dispatch EXCEPT ![r] = NoRun]
    /\ UNCHANGED <<message, tooOld, pushed, unheard>>

\* The next statement of a scheduled run: one of them at a time is enabled.
RunStep(r) == StartRun(r, Exceptional) \/ Push(r) \/ CommitRun(r)

DispatchNext ==
    \/ \E m \in MessageId : Queue(m) \/ LeavesWindow(m)
    \/ \E r \in Run : RunStep(r) \/ StartRun(r, MessageId) \/ LoseRun(r)

-----------------------------------------------------------------------------

\* line.service.js:1305-1306: overlapping runs "cannot pick up the same rows".  A
\* message reaches the parent again only after a run that had pushed it was rolled back,
\* or LINE's answer to a push of it was lost; and that it reaches him more than three
\* times takes runs that were rolled back, for the unheard pushes are counted as retries.
PushedAgainOnlyIfLost ==
    \A m \in MessageId :
       /\ pushed[m] <= lost[m] + unheard[m] + 1
       /\ pushed[m] <= lost[m] + MaxRetries

Settled(m) ==
    message[m].state = "sent" \/ message[m].retry = MaxRetries \/ m \in tooOld

\* No message that the scheduled runs take waits for ever behind others that LINE keeps
\* refusing: each is sent, given up after three tries (dispatch-notifications.js:9) or
\* leaves the window.
EveryMessageSettles ==
    \A m \in Exceptional : message[m].state = "unsent" ~> Settled(m)

=============================================================================
