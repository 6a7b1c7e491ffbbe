------------------------ MODULE VerificationProofs ------------------------
(***************************************************************************)
(* Proofs about Verification for every fleet, every number of requests and *)
(* every number of concurrent transactions.                                *)
(*                                                                         *)
(* The inductive invariant IInv says why row locks are enough although the *)
(* second half of a transaction trusts what its first half has read:       *)
(*   KeysOK     a key marks a live request, one per bus and term;          *)
(*   AwaitedOK  an open attempt is the only one of its application, which  *)
(*              is waiting for it;                                         *)
(*   TxOK       the attempt a transaction works on is still open, and no   *)
(*              other transaction works on the same application.           *)
(***************************************************************************)
EXTENDS Verification, FiniteSetTheorems, TLAPS

\* A live request of a bus and term holds its key; only one does.
KeysOK ==
    /\ \A a, b \in AppId :
          app[a].key /\ app[b].key /\ app[a].vehicle = app[b].vehicle
             /\ app[a].term = app[b].term => a = b
    /\ \A a \in AppId : app[a].key <=> app[a].status \notin Terminal \cup {"NONE"}

\* What holds of attempt k while it is open.
AwaitedOK ==
    \A k \in AttemptId : attempt[k].result = "IN_PROGRESS" =>
       /\ attempt[k].app \in AppId
       /\ app[attempt[k].app].status = "INSPECTION_PENDING"
       /\ \A j \in AttemptId :
             attempt[j].result = "IN_PROGRESS" /\ attempt[j].app = attempt[k].app => j = k

\* The transaction of t works on an attempt.
Inspecting(t) == tx[t].op \in {"finalize", "abort"}

\* What holds of the attempt an open transaction works on.
TxOK ==
    \A t \in Conn : Inspecting(t) =>
       /\ tx[t].attempt \in AttemptId
       /\ attempt[tx[t].attempt].result = "IN_PROGRESS"
       /\ \A u \in Conn : Inspecting(u)
             /\ attempt[tx[u].attempt].app = attempt[tx[t].attempt].app => u = t

IInv == TypeOK /\ KeysOK /\ AwaitedOK /\ TxOK

-----------------------------------------------------------------------------
(* Values the actions compute *)

LEMMA RefreshedType ==
    ASSUME NEW v, NEW assigned, NEW licensed, NEW inspected
    PROVE RefreshedStatus(v, assigned, licensed, inspected) \in Verdicts
  BY DEF RefreshedStatus, Verdicts

LEMMA PeakType == ASSUME TypeOK, NEW v \in Vehicle PROVE Cardinality(riders[v]) \in Nat
  BY SchoolAssumption, FS_Subset, FS_CardinalityType DEF TypeOK

LEMMA WritingType ==
    ASSUME NEW v, NEW verdict \in Verdicts
    PROVE Writing(v, verdict) \in [Vehicle -> Verdicts \cup {"KEEP"}]
  BY DEF Writing

LEMMA NothingType ==
    /\ NoTransaction \in Transaction /\ NoApp \in App /\ NoAttempt \in Attempt
    /\ NoOlder \in Older
  BY DEF NoTransaction, Transaction, NoApp, App, NoAttempt, Attempt, NoOlder, Older, FinalResults

LEMMA SnapshotType ==
    ASSUME TypeOK
    PROVE /\ Snapshot \in Transaction /\ Snapshot.since = finals
          /\ Snapshot.older = 0 /\ Snapshot.op = "none"
  BY NothingType DEF Snapshot, NoTransaction, Transaction, TypeOK

LEMMA DaysType == Days \subseteq Nat /\ 0 .. MaxDay + 1 \subseteq Nat
  BY BoundAssumption DEF Days

\* The step of a whole-row operation leaves everything but the rows alone.
LEMMA RowsOnly ==
    ASSUME TypeOK, app' \in [AppId -> App], attempt' \in [AttemptId -> Attempt],
           reply' \in {"ok", "error"}, UNCHANGED <<finals, fleet, tx, calendar>>
    PROVE TypeOK'
  BY DEF TypeOK, fleet, calendar

-----------------------------------------------------------------------------
(* Applications *)

LEMMA InsertInv ==
    ASSUME IInv, NEW a \in AppId, NEW v \in Vehicle, NEW s \in School, NEW initial,
           Insert(a, v, s, initial), initial \notin Terminal \cup {"NONE"}
    PROVE IInv'
PROOF
  <1>1. CASE initial \notin StatusColumn
    <2>1. UNCHANGED <<app, attempt, tx>> /\ reply' = "error"
      BY <1>1 DEF Insert
    <2>2. TypeOK'
      BY <1>1, RowsOnly, <2>1 DEF IInv, TypeOK, Insert
    <2> QED BY <2>1, <2>2 DEF IInv, KeysOK, AwaitedOK, TxOK, Inspecting
  <1>2. CASE initial \in StatusColumn
    <2> DEFINE new == [status |-> initial, vehicle |-> v, school |-> s, term |-> term,
                       peak |-> Cardinality(riders[v]), key |-> TRUE]
    <2>1. /\ app' = [app EXCEPT ![a] = new] /\ attempt' = attempt /\ tx' = tx
          /\ app[a].status = "NONE" /\ ~KeyTaken(v) /\ reply' = "ok"
      BY <1>2 DEF Insert
    <2>2. new \in App
      BY <1>2, PeakType DEF IInv, TypeOK, App
    <2>3. TypeOK'
      BY <2>1, <2>2, RowsOnly DEF IInv, TypeOK, Insert
    <2>4. /\ app'[a] = new /\ new.key /\ new.vehicle = v /\ new.term = term
          /\ new.status = initial /\ \A b \in AppId : b # a => app'[b] = app[b]
      BY <2>1 DEF IInv, TypeOK
    <2> HIDE DEF new
    <2>5. KeysOK'
      BY <2>1, <2>4 DEF IInv, KeysOK, KeyTaken
    <2>6. AwaitedOK'
      BY <2>1, <2>4 DEF IInv, AwaitedOK
    <2>7. TxOK'
      BY <2>1 DEF IInv, TxOK, Inspecting
    <2> QED BY <2>3, <2>5, <2>6, <2>7 DEF IInv
  <1> QED BY <1>1, <1>2

\* An UPDATE of a locked application whose open attempts are all deleted, or
\* that has none because it is not waiting for an inspection.
LEMMA TransitionInv ==
    ASSUME IInv, NEW a \in AppId, NEW next, NEW deleted,
           AppFree(a), Transition(a, next, deleted), next # "NONE",
           app[a].status \notin Terminal \cup {"NONE"},
           deleted \subseteq OpenAttempts(a),
           deleted = OpenAttempts(a) \/ app[a].status # "INSPECTION_PENDING"
    PROVE IInv'
PROOF
  <1>1. CASE next \notin StatusColumn
    <2>1. UNCHANGED <<app, attempt, tx>> /\ reply' = "error"
      BY <1>1 DEF Transition
    <2>2. TypeOK'
      BY <1>1, RowsOnly, <2>1 DEF IInv, TypeOK, Transition
    <2> QED BY <2>1, <2>2 DEF IInv, KeysOK, AwaitedOK, TxOK, Inspecting
  <1>2. CASE next \in StatusColumn
    <2>1. /\ app' = [app EXCEPT ![a].status = next, ![a].key = @ /\ ~ReleasesKey(next)]
          /\ attempt' = [k \in AttemptId |->
                            IF k \in deleted THEN [attempt[k] EXCEPT !.result = "DELETED"]
                                             ELSE attempt[k]]
          /\ tx' = tx /\ reply' = "ok" /\ UNCHANGED <<finals, fleet, tx, calendar>>
      BY <1>2 DEF Transition
    <2>2. /\ app[a] \in App /\ \A k \in AttemptId : attempt[k] \in Attempt
          /\ app \in [AppId -> App]
      BY DEF IInv, TypeOK
    <2>3. app' \in [AppId -> App]
      BY <1>2, <2>1, <2>2 DEF App
    <2>4. attempt' \in [AttemptId -> Attempt]
      BY <2>1, <2>2 DEF Attempt
    <2>5. TypeOK'
      BY <2>1, <2>3, <2>4, RowsOnly DEF IInv
    <2>6. /\ app'[a].status = next
          /\ app'[a].key = (app[a].key /\ next \notin Terminal)
          /\ app'[a].vehicle = app[a].vehicle /\ app'[a].term = app[a].term
          /\ \A b \in AppId : b # a => app'[b] = app[b]
      BY <2>1, <2>2 DEF App, ReleasesKey
    <2>7. KeysOK'
      <3>1. \A b \in AppId : app'[b].vehicle = app[b].vehicle /\ app'[b].term = app[b].term
                               /\ (app'[b].key => app[b].key)
        BY <2>6
      <3>2. \A b \in AppId : app'[b].key <=> app'[b].status \notin Terminal \cup {"NONE"}
        BY <2>6 DEF IInv, KeysOK
      <3> QED BY <3>1, <3>2 DEF IInv, KeysOK
    <2>8. \A k \in AttemptId :
             /\ attempt'[k].app = attempt[k].app
             /\ attempt'[k].result = "IN_PROGRESS" =>
                   attempt[k].result = "IN_PROGRESS" /\ k \notin deleted
             /\ attempt[k].app # a => attempt'[k] = attempt[k]
      BY <2>1, <2>2 DEF Attempt, OpenAttempts
    <2>9. AwaitedOK'
      <3> SUFFICES ASSUME NEW k \in AttemptId, attempt'[k].result = "IN_PROGRESS"
                   PROVE /\ attempt'[k].app \in AppId
                         /\ app'[attempt'[k].app].status = "INSPECTION_PENDING"
                         /\ \A j \in AttemptId : attempt'[j].result = "IN_PROGRESS"
                               /\ attempt'[j].app = attempt'[k].app => j = k
        BY DEF AwaitedOK
      <3>1. attempt[k].app # a
        BY <2>8 DEF IInv, AwaitedOK, OpenAttempts
      <3> QED BY <3>1, <2>8, <2>6 DEF IInv, AwaitedOK
    <2>10. TxOK'
      <3>1. \A t \in Conn : Inspecting(t) =>
               tx[t].attempt \in AttemptId /\ attempt[tx[t].attempt].app # a
        BY DEF IInv, TxOK, AppFree, Inspecting
      <3>2. \A t \in Conn : Inspecting(t) => attempt'[tx[t].attempt] = attempt[tx[t].attempt]
        BY <2>8, <3>1
      <3>3. tx' = tx
        BY <2>1
      <3> QED BY <3>1, <3>2, <3>3 DEF IInv, TxOK, Inspecting
    <2> QED BY <2>5, <2>7, <2>9, <2>10 DEF IInv
  <1> QED BY <1>1, <1>2

LEMMA ReviewInv ==
    ASSUME IInv, NEW a \in AppId, NEW s \in School, NEW approved \in BOOLEAN,
           markReadyToPrint(a, s) \/ reviewApplication(a, s, approved)
    PROVE IInv'
PROOF
  <1> DEFINE next == IF approved THEN "READY_TO_PRINT" ELSE "REJECTED"
  <1>1. CASE markReadyToPrint(a, s)
    BY <1>1, TransitionInv DEF markReadyToPrint, Terminal
  <1>2. CASE reviewApplication(a, s, approved)
    <2>1. AppFree(a) /\ Transition(a, next, {}) /\ next # "NONE"
      BY <1>2 DEF reviewApplication
    <2>2. app[a].status \notin Terminal \cup {"NONE", "INSPECTION_PENDING"}
      BY <1>2 DEF reviewApplication, Terminal
    <2> HIDE DEF next
    <2> QED BY <2>1, <2>2, TransitionInv
  <1> QED BY <1>1, <1>2

LEMMA CancelInv ==
    ASSUME IInv, NEW a \in AppId, NEW s \in School, NEW isAdmin \in BOOLEAN,
           cancelApplication(a, s, isAdmin)
    PROVE IInv'
PROOF
  <1>1. AppFree(a) /\ Transition(a, "CANCELLED", OpenAttempts(a))
    BY DEF cancelApplication, AbortedBy
  <1>2. app[a].status \notin Terminal \cup {"NONE"}
    BY DEF cancelApplication, Terminal
  <1> QED BY <1>1, <1>2, TransitionInv

LEMMA StartInv ==
    ASSUME IInv, NEW a \in AppId, NEW k \in AttemptId, NEW i \in Inspector,
           startInspection(a, k, i)
    PROVE IInv'
PROOF
  <1> DEFINE new == [NoAttempt EXCEPT !.result = "IN_PROGRESS", !.app = a, !.by = i]
  <1>1. /\ attempt' = [attempt EXCEPT ![k] = new]
        /\ app' = [app EXCEPT ![a].status = "INSPECTION_PENDING"]
        /\ reply' = "ok" /\ UNCHANGED <<finals, fleet, tx, calendar>> /\ tx' = tx
        /\ attempt[k].result = "NONE" /\ OpenAttempts(a) = {}
        /\ app[a].status \notin Terminal \cup {"NONE"}
    BY DEF startInspection, MayStart, Terminal
  <1>2. app \in [AppId -> App] /\ attempt \in [AttemptId -> Attempt]
    BY DEF IInv, TypeOK
  <1>3. new \in Attempt /\ new.result = "IN_PROGRESS" /\ new.app = a
    BY DEF NoAttempt, Attempt, FinalResults
  <1>4. app' \in [AppId -> App] /\ attempt' \in [AttemptId -> Attempt]
    BY <1>1, <1>2, <1>3 DEF App, StatusColumn
  <1>5. TypeOK'
    BY <1>1, <1>4, RowsOnly DEF IInv
  <1>6. /\ app'[a] = [app[a] EXCEPT !.status = "INSPECTION_PENDING"]
        /\ \A b \in AppId : b # a => app'[b] = app[b]
        /\ attempt'[k] = new /\ \A j \in AttemptId : j # k => attempt'[j] = attempt[j]
    BY <1>1, <1>2
  <1>7. /\ app'[a].status = "INSPECTION_PENDING" /\ app'[a].key = app[a].key
        /\ app'[a].vehicle = app[a].vehicle /\ app'[a].term = app[a].term
    BY <1>6, <1>2 DEF App
  <1> HIDE DEF new
  <1>8. KeysOK'
    BY <1>1, <1>6, <1>7 DEF IInv, KeysOK, Terminal
  <1>9. AwaitedOK'
    BY <1>1, <1>3, <1>6, <1>7 DEF IInv, AwaitedOK, OpenAttempts
  <1>10. TxOK'
    BY <1>1, <1>6 DEF IInv, TxOK, Inspecting
  <1> QED BY <1>5, <1>8, <1>9, <1>10 DEF IInv

-----------------------------------------------------------------------------
(* Transactions *)

LEMMA BeginInv ==
    ASSUME IInv, NEW t \in Conn, NEW transaction \in Transaction, Begin(t, transaction),
           transaction.op \in {"finalize", "abort"} =>
              /\ transaction.attempt \in AttemptId
              /\ attempt[transaction.attempt].result = "IN_PROGRESS"
              /\ AppFree(attempt[transaction.attempt].app)
    PROVE IInv'
PROOF
  <1>1. /\ tx' = [tx EXCEPT ![t] = transaction] /\ reply' = "ok"
        /\ UNCHANGED <<app, attempt, finals, status, docs, riders, licence, pool,
                     older, overtaken, term, today>>
    BY DEF Begin, rows, fleet, calendar
  <1>2. TypeOK'
    BY <1>1 DEF IInv, TypeOK
  <1>3. tx'[t] = transaction /\ \A u \in Conn : u # t => tx'[u] = tx[u]
    BY <1>1 DEF IInv, TypeOK
  <1>4. TxOK'
    BY <1>1, <1>3 DEF IInv, TxOK, Inspecting, AppFree
  <1> QED BY <1>1, <1>2, <1>4 DEF IInv, KeysOK, AwaitedOK

LEMMA FinalizeBeginInv ==
    ASSUME IInv, NEW t \in Conn, NEW k \in AttemptId, NEW i \in Inspector,
           NEW result \in FinalResults, NEW date \in Nat, NEW expiry \in Nat,
           FinalizeBegin(t, k, i, result, date, expiry)
    PROVE IInv'
PROOF
  <1> DEFINE v == app[attempt[k].app].vehicle
             verdict == computeEligibility(v, result, expiry, app[attempt[k].app].peak,
                                           ValidDriver(v, pool, licence))
             w == Writing(v, verdict)
             transaction == [Snapshot EXCEPT
                      !.op = "finalize", !.attempt = k, !.vehicle = v, !.result = result,
                      !.date = date, !.until = expiry, !.write = w]
  <1>1. /\ attempt[k].result = "IN_PROGRESS" /\ AppFree(attempt[k].app)
        /\ Begin(t, transaction)
    BY DEF FinalizeBegin, StillOpen
  <1>2. v \in Vehicle \cup {NoOne}
    BY <1>1 DEF IInv, AwaitedOK, TypeOK, App
  <1>3. verdict \in Verdicts
    BY DEF computeEligibility, Verdicts
  <1>4. w \in [Vehicle -> Verdicts \cup {"KEEP"}]
    BY <1>3, WritingType
  <1> HIDE DEF v, w, verdict
  <1>5. transaction \in Transaction /\ transaction.attempt = k
    BY <1>2, <1>4, SnapshotType DEF IInv, Transaction
  <1> HIDE DEF transaction
  <1> QED BY <1>1, <1>5, BeginInv

LEMMA AbortBeginInv ==
    ASSUME IInv, NEW t \in Conn, NEW k \in AttemptId, NEW i \in Inspector,
           NEW isAdmin \in BOOLEAN, AbortBegin(t, k, i, isAdmin)
    PROVE IInv'
PROOF
  <1> DEFINE v == app[attempt[k].app].vehicle
             verdict == RefreshedStatus(v, pool, licence, older)
             w == Writing(v, verdict)
             transaction == [Snapshot EXCEPT
                      !.op = "abort", !.attempt = k, !.vehicle = v, !.write = w]
  <1>1. /\ attempt[k].result = "IN_PROGRESS" /\ AppFree(attempt[k].app)
        /\ Begin(t, transaction)
    BY DEF AbortBegin, StillOpen
  <1>2. v \in Vehicle \cup {NoOne}
    BY <1>1 DEF IInv, AwaitedOK, TypeOK, App
  <1>3. verdict \in Verdicts
    BY RefreshedType
  <1>4. w \in [Vehicle -> Verdicts \cup {"KEEP"}]
    BY <1>3, WritingType
  <1> HIDE DEF v, w, verdict
  <1>5. transaction \in Transaction /\ transaction.attempt = k
    BY <1>2, <1>4, SnapshotType DEF IInv, Transaction
  <1> HIDE DEF transaction
  <1> QED BY <1>1, <1>5, BeginInv

LEMMA DriverBeginInv ==
    ASSUME IInv, NEW t \in Conn, NEW d \in Driver, NEW v \in Vehicle, NEW day \in Nat,
           AuthorizeBegin(t, d, v, day) \/ QualifyBegin(t, d, day)
    PROVE IInv'
PROOF
  <1>1. CASE QualifyBegin(t, d, day)
    <2> DEFINE licensed == [licence EXCEPT ![d] = day]
               w == [u \in Vehicle |-> IF pool[d][u] # 0 THEN RefreshedStatus(u, pool, licensed, older)
                                                         ELSE "KEEP"]
               transaction == [Snapshot EXCEPT
                      !.op = "qualify", !.driver = d, !.until = day, !.write = w]
    <2>1. Begin(t, transaction)
      BY <1>1 DEF QualifyBegin
    <2>2. w \in [Vehicle -> Verdicts \cup {"KEEP"}]
      BY RefreshedType
    <2> HIDE DEF w
    <2>3. transaction \in Transaction /\ transaction.op = "qualify"
      BY <2>2, SnapshotType DEF IInv, Transaction
    <2> HIDE DEF transaction
    <2> QED BY <2>1, <2>3, BeginInv
  <1>2. CASE AuthorizeBegin(t, d, v, day)
    <2> DEFINE assigned == [pool EXCEPT ![d][v] = day]
               w == Writing(v, RefreshedStatus(v, assigned, licence, older))
               transaction == [Snapshot EXCEPT !.op = "authorize", !.driver = d,
                      !.vehicle = v, !.until = day, !.write = w]
    <2>1. Begin(t, transaction)
      BY <1>2 DEF AuthorizeBegin
    <2>2. w \in [Vehicle -> Verdicts \cup {"KEEP"}]
      BY RefreshedType, WritingType
    <2> HIDE DEF w
    <2>3. transaction \in Transaction /\ transaction.op = "authorize"
      BY <2>2, SnapshotType DEF IInv, Transaction
    <2> HIDE DEF transaction
    <2> QED BY <2>1, <2>3, BeginInv
  <1> QED BY <1>1, <1>2

\* createInspection, updateInspection, deleteInspection up to their new verdict.
LEMMA RewriteInv ==
    ASSUME IInv, NEW t \in Conn, NEW op \in {"record", "correct"}, NEW k \in OlderId,
           NEW row \in Older, Rewrite(t, op, k, row)
    PROVE IInv'
PROOF
  <1> DEFINE w == Writing(row.vehicle, RefreshedStatus(row.vehicle, pool, licence,
                                                       [older EXCEPT ![k] = row]))
             transaction == [Snapshot EXCEPT !.op = op, !.vehicle = row.vehicle,
                                             !.older = k, !.row = row, !.write = w]
  <1>1. Begin(t, transaction)
    BY DEF Rewrite
  <1>2. w \in [Vehicle -> Verdicts \cup {"KEEP"}]
    BY RefreshedType, WritingType
  <1> HIDE DEF w
  <1>3. row.vehicle \in Vehicle \cup {NoOne}
    BY DEF Older
  <1>4. transaction \in Transaction /\ transaction.op \in {"record", "correct"}
    BY <1>2, <1>3, SnapshotType DEF IInv, Transaction
  <1> HIDE DEF transaction
  <1> QED BY <1>1, <1>4, BeginInv

LEMMA OlderBeginInv == ASSUME IInv, OlderStep PROVE IInv'
PROOF
  <1> PICK t \in Conn, k \in OlderId :
         \/ deleteInspection(t, k)
         \/ \E result \in {"PASSED", "FAILED"}, expiry \in 0 .. MaxDay + 1 :
               \/ updateInspection(t, k, result, expiry)
               \/ \E v \in Vehicle, date \in Days : createInspection(t, k, v, result, date, expiry)
    BY DEF OlderStep
  <1>1. older[k] \in Older
    BY DEF IInv, TypeOK
  <1>2. CASE deleteInspection(t, k)
    <2>1. [older[k] EXCEPT !.result = "DELETED", !.expiry = 0] \in Older
      BY <1>1 DEF Older
    <2> QED BY <1>2, <2>1, RewriteInv DEF deleteInspection
  <1>3. ASSUME NEW result \in {"PASSED", "FAILED"}, NEW expiry \in 0 .. MaxDay + 1,
               updateInspection(t, k, result, expiry)
        PROVE IInv'
    <2>1. [older[k] EXCEPT !.result = result, !.expiry = expiry] \in Older
      BY <1>1, DaysType DEF Older
    <2> QED BY <1>3, <2>1, RewriteInv DEF updateInspection
  <1>4. ASSUME NEW result \in {"PASSED", "FAILED"}, NEW expiry \in 0 .. MaxDay + 1,
               NEW v \in Vehicle, NEW date \in Days, createInspection(t, k, v, result, date, expiry)
        PROVE IInv'
    <2>1. [result |-> result, vehicle |-> v, date |-> date, expiry |-> expiry] \in Older
      BY DaysType DEF Older
    <2> QED BY <1>4, <2>1, RewriteInv DEF createInspection
  <1> QED BY <1>2, <1>3, <1>4

LEMMA OlderStepOpens == OlderStep => UNCHANGED <<rows, fleet, calendar>>
PROOF
  <1>1. ASSUME NEW t, NEW op, NEW k, NEW row, Rewrite(t, op, k, row)
        PROVE UNCHANGED <<rows, fleet, calendar>>
    BY <1>1 DEF Rewrite, Begin
  <1>2. ASSUME NEW t, NEW k, NEW result, NEW expiry, updateInspection(t, k, result, expiry)
        PROVE UNCHANGED <<rows, fleet, calendar>>
    BY <1>1, <1>2 DEF updateInspection
  <1>3. ASSUME NEW t, NEW k, NEW v, NEW result, NEW date, NEW expiry,
               createInspection(t, k, v, result, date, expiry)
        PROVE UNCHANGED <<rows, fleet, calendar>>
    BY <1>1, <1>3 DEF createInspection
  <1>4. ASSUME NEW t, NEW k, deleteInspection(t, k)
        PROVE UNCHANGED <<rows, fleet, calendar>>
    BY <1>1, <1>4 DEF deleteInspection
  <1> QED BY <1>2, <1>3, <1>4 DEF OlderStep

\* What every COMMIT does to the status of the vehicles and the transactions.
LEMMA CommitFacts ==
    ASSUME TypeOK, NEW t \in Conn, Commit(t)
    PROVE /\ status' \in [Vehicle -> Verdicts] /\ tx' \in [Conn -> Transaction]
          /\ older' \in [OlderId -> Older] /\ overtaken' \in [Conn -> SUBSET Older]
          /\ reply' = "ok" /\ UNCHANGED <<docs, riders, term, today>>
          /\ tx'[t].op = "none" /\ \A u \in Conn : u # t => tx'[u] = tx[u]
PROOF
  <1>1. tx[t].write \in [Vehicle -> Verdicts \cup {"KEEP"}]
    BY DEF TypeOK, Transaction
  <1>2. status' \in [Vehicle -> Verdicts]
    BY <1>1 DEF Commit, TypeOK
  <1>3. /\ tx' \in [Conn -> Transaction] /\ tx'[t] = NoTransaction
        /\ \A u \in Conn : u # t => tx'[u] = tx[u]
    BY NothingType DEF Commit, TypeOK
  <1>4. older' \in [OlderId -> Older]
    BY DEF Commit, TypeOK, Transaction
  <1>5. overtaken' \in [Conn -> SUBSET Older]
    <2>1. Replaced(t) \subseteq Older
      BY DEF Replaced, TypeOK
    <2> QED BY <2>1 DEF Commit, TypeOK
  <1> QED BY <1>2, <1>3, <1>4, <1>5 DEF Commit, calendar, NoTransaction

\* COMMIT of a transaction that writes no application or attempt.
LEMMA DriverCommitInv ==
    ASSUME IInv, NEW t \in Conn, QualifyCommit(t) \/ AuthorizeCommit(t) \/ OlderCommit(t)
    PROVE IInv'
PROOF
  <1>1. Commit(t) /\ UNCHANGED rows
    BY DEF QualifyCommit, AuthorizeCommit, OlderCommit
  <1>2. tx[t] \in Transaction
    BY DEF IInv, TypeOK
  <1>3. licence' \in [Driver -> Nat] /\ pool' \in [Driver -> [Vehicle -> Nat]]
    <2>1. CASE QualifyCommit(t)
      BY <2>1, <1>2 DEF QualifyCommit, IInv, TypeOK, Transaction
    <2>2. CASE AuthorizeCommit(t)
      BY <2>2, <1>2 DEF AuthorizeCommit, IInv, TypeOK, Transaction
    <2>3. CASE OlderCommit(t)
      BY <2>3 DEF OlderCommit, IInv, TypeOK
    <2> QED BY <2>1, <2>2, <2>3
  <1>4. TypeOK'
    BY <1>1, <1>3, CommitFacts DEF IInv, TypeOK, rows
  <1>5. KeysOK' /\ AwaitedOK'
    BY <1>1 DEF IInv, KeysOK, AwaitedOK, rows
  <1>6. TxOK'
    BY <1>1, CommitFacts DEF IInv, TxOK, Inspecting, rows
  <1> QED BY <1>4, <1>5, <1>6 DEF IInv

\* COMMIT of a transaction that closes the attempt it works on.
LEMMA CloseInv ==
    ASSUME IInv, NEW t \in Conn, Commit(t), Inspecting(t), UNCHANGED <<licence, pool>>,
           finals' \in Nat, app' \in [AppId -> App], attempt' \in [AttemptId -> Attempt],
           \A k \in AttemptId : k # tx[t].attempt => attempt'[k] = attempt[k],
           attempt'[tx[t].attempt].result # "IN_PROGRESS",
           \A a \in AppId : a # attempt[tx[t].attempt].app => app'[a] = app[a],
           LET a == attempt[tx[t].attempt].app
           IN /\ app'[a].vehicle = app[a].vehicle /\ app'[a].term = app[a].term
              /\ app'[a].status # "NONE"
              /\ app'[a].key = (app[a].key /\ app'[a].status \notin Terminal)
    PROVE IInv'
PROOF
  <1> DEFINE k == tx[t].attempt
             a == attempt[k].app
  <1>1. /\ k \in AttemptId /\ attempt[k].result = "IN_PROGRESS" /\ a \in AppId
        /\ app[a].status = "INSPECTION_PENDING"
        /\ \A j \in AttemptId : attempt[j].result = "IN_PROGRESS" /\ attempt[j].app = a => j = k
        /\ \A u \in Conn : Inspecting(u) /\ attempt[tx[u].attempt].app = a => u = t
    BY DEF IInv, TxOK, AwaitedOK
  <1>2. /\ attempt'[k].result # "IN_PROGRESS"
        /\ \A j \in AttemptId : j # k => attempt'[j] = attempt[j]
        /\ \A b \in AppId : b # a => app'[b] = app[b]
        /\ app'[a].vehicle = app[a].vehicle /\ app'[a].term = app[a].term
        /\ app'[a].status # "NONE"
        /\ app'[a].key = (app[a].key /\ app'[a].status \notin Terminal)
    OBVIOUS
  <1>3. TypeOK'
    BY CommitFacts DEF IInv, TypeOK
  <1>4. /\ tx'[t].op = "none" /\ \A u \in Conn : u # t => tx'[u] = tx[u]
    BY CommitFacts DEF IInv
  <1> HIDE DEF k, a
  <1>5. KeysOK'
    <2>1. app[a].key
      BY <1>1 DEF IInv, KeysOK, Terminal
    <2>2. \A b \in AppId : app'[b].vehicle = app[b].vehicle /\ app'[b].term = app[b].term
                            /\ (app'[b].key => app[b].key)
      BY <1>2
    <2>3. \A b \in AppId : app'[b].key <=> app'[b].status \notin Terminal \cup {"NONE"}
      BY <1>2, <2>1 DEF IInv, KeysOK
    <2> QED BY <2>2, <2>3 DEF IInv, KeysOK
  <1>6. AwaitedOK'
    BY <1>1, <1>2 DEF IInv, AwaitedOK
  <1>7. TxOK'
    <2>1. \A u \in Conn : Inspecting(u)' => u # t /\ Inspecting(u) /\ tx'[u] = tx[u]
      BY <1>4 DEF Inspecting
    <2>2. \A u \in Conn : u # t /\ Inspecting(u) =>
             /\ tx[u].attempt \in AttemptId
             /\ attempt'[tx[u].attempt] = attempt[tx[u].attempt]
      BY <1>1, <1>2 DEF IInv, TxOK
    <2> QED BY <2>1, <2>2 DEF IInv, TxOK
  <1> QED BY <1>3, <1>5, <1>6, <1>7 DEF IInv

LEMMA FinalizeCommitInv == ASSUME IInv, NEW t \in Conn, FinalizeCommit(t) PROVE IInv'
PROOF
  <1> DEFINE k == tx[t].attempt
             a == attempt[k].app
             r == tx[t].result
  <1>1. /\ Commit(t) /\ Inspecting(t) /\ UNCHANGED <<licence, pool>> /\ finals' = finals + 1
        /\ attempt' = [attempt EXCEPT ![k].result = r, ![k].date = tx[t].date,
                                      ![k].expiry = tx[t].until, ![k].order = finals + 1]
        /\ app' = [app EXCEPT ![a].status = Outcome(r), ![a].key = @ /\ ~ReleasesKey(r)]
    BY DEF FinalizeCommit, Inspecting
  <1>2. /\ app \in [AppId -> App] /\ attempt \in [AttemptId -> Attempt]
        /\ tx[t] \in Transaction /\ finals \in Nat
    BY DEF IInv, TypeOK
  <1>3. k \in AttemptId /\ a \in AppId
    BY <1>1 DEF IInv, TxOK, AwaitedOK
  <1>4. /\ r \in FinalResults /\ tx[t].date \in Nat /\ tx[t].until \in Nat
    BY <1>2 DEF Transaction
  <1>5. /\ Outcome(r) \in StatusColumn /\ Outcome(r) # "NONE"
        /\ ReleasesKey(r) <=> Outcome(r) \in Terminal
    BY <1>4 DEF Outcome, FinalResults, StatusColumn, Terminal, ReleasesKey
  <1> HIDE DEF k, a, r
  <1>6. app' \in [AppId -> App]
    BY <1>1, <1>2, <1>5 DEF App
  <1>7. attempt' \in [AttemptId -> Attempt] /\ finals' \in Nat
    <2> DEFINE new == [attempt[k] EXCEPT !.result = r, !.date = tx[t].date,
                                         !.expiry = tx[t].until, !.order = finals + 1]
    <2>1. attempt[k] \in Attempt /\ finals + 1 \in Nat
      BY <1>2, <1>3
    <2>2. new \in Attempt
      BY <1>4, <2>1 DEF Attempt
    <2>3. attempt' = [attempt EXCEPT ![k] = new]
      BY <1>1, <1>2, <1>3
    <2> HIDE DEF new
    <2>4. attempt' \in [AttemptId -> Attempt]
      BY <1>2, <2>2, <2>3
    <2> QED BY <1>1, <2>1, <2>4
  <1>8. /\ attempt'[k].result # "IN_PROGRESS"
        /\ \A j \in AttemptId : j # k => attempt'[j] = attempt[j]
    BY <1>1, <1>2, <1>3, <1>4 DEF Attempt, FinalResults
  <1>9. /\ \A b \in AppId : b # a => app'[b] = app[b]
        /\ app'[a].vehicle = app[a].vehicle /\ app'[a].term = app[a].term
        /\ app'[a].status = Outcome(r)
        /\ app'[a].key = (app[a].key /\ ~ReleasesKey(r))
    BY <1>1, <1>2, <1>3 DEF App
  <1>10. app'[a].status # "NONE" /\ app'[a].key = (app[a].key /\ app'[a].status \notin Terminal)
    BY <1>5, <1>9
  <1>11. /\ k = tx[t].attempt /\ a = attempt[tx[t].attempt].app
    BY DEF k, a
  <1>12. Commit(t) /\ Inspecting(t) /\ UNCHANGED <<licence, pool>>
    BY <1>1
  <1>13. /\ \A j \in AttemptId : j # tx[t].attempt => attempt'[j] = attempt[j]
         /\ attempt'[tx[t].attempt].result # "IN_PROGRESS"
         /\ \A b \in AppId : b # attempt[tx[t].attempt].app => app'[b] = app[b]
    BY <1>8, <1>9, <1>11
  <1>14. LET b == attempt[tx[t].attempt].app
         IN /\ app'[b].vehicle = app[b].vehicle /\ app'[b].term = app[b].term
            /\ app'[b].status # "NONE"
            /\ app'[b].key = (app[b].key /\ app'[b].status \notin Terminal)
    BY <1>9, <1>10, <1>11
  <1> QED BY <1>6, <1>7, <1>12, <1>13, <1>14, CloseInv

LEMMA AbortCommitInv == ASSUME IInv, NEW t \in Conn, AbortCommit(t) PROVE IInv'
PROOF
  <1> DEFINE k == tx[t].attempt
             a == attempt[k].app
  <1>1. /\ Commit(t) /\ Inspecting(t) /\ UNCHANGED <<finals, licence, pool>>
        /\ attempt' = [attempt EXCEPT ![k].result = "DELETED"]
        /\ app' = [app EXCEPT ![a].status =
                      IF @ = "INSPECTION_PENDING" THEN "READY_TO_PRINT" ELSE @]
    BY DEF AbortCommit, Inspecting
  <1>2. /\ app \in [AppId -> App] /\ attempt \in [AttemptId -> Attempt] /\ finals \in Nat
    BY DEF IInv, TypeOK
  <1>3. k \in AttemptId /\ a \in AppId /\ app[a].status = "INSPECTION_PENDING" /\ app[a].key
    BY <1>1 DEF IInv, TxOK, AwaitedOK, KeysOK, Terminal
  <1> HIDE DEF k, a
  <1>4. app' \in [AppId -> App] /\ attempt' \in [AttemptId -> Attempt]
    <2>1. app' \in [AppId -> App]
      BY <1>1, <1>2 DEF App, StatusColumn
    <2>2. attempt' \in [AttemptId -> Attempt]
      BY <1>1, <1>2 DEF Attempt
    <2> QED BY <2>1, <2>2
  <1>5. /\ attempt'[k].result # "IN_PROGRESS"
        /\ \A j \in AttemptId : j # k => attempt'[j] = attempt[j]
    BY <1>1, <1>2, <1>3 DEF Attempt
  <1>6. /\ \A b \in AppId : b # a => app'[b] = app[b]
        /\ app'[a].vehicle = app[a].vehicle /\ app'[a].term = app[a].term
        /\ app'[a].status = "READY_TO_PRINT" /\ app'[a].key = app[a].key
    BY <1>1, <1>2, <1>3 DEF App
  <1>7. app'[a].status # "NONE" /\ app'[a].key = (app[a].key /\ app'[a].status \notin Terminal)
    BY <1>6, <1>3 DEF Terminal
  <1> QED BY <1>1, <1>2, <1>4, <1>5, <1>6, <1>7, CloseInv DEF k, a

-----------------------------------------------------------------------------
(* The invariant *)

LEMMA InitInv == Init => IInv
PROOF
  <1> SUFFICES ASSUME Init PROVE IInv
    OBVIOUS
  <1>1. TypeOK
    <2>1. docs \in [Vehicle -> Nat]
      BY BoundAssumption DEF Init
    <2>2. status \in [Vehicle -> Verdicts]
      BY DEF Init, Verdicts
    <2> QED BY <2>1, <2>2, NothingType DEF Init, TypeOK
  <1>2. KeysOK /\ AwaitedOK
    BY DEF Init, NoApp, NoAttempt, KeysOK, AwaitedOK
  <1>3. TxOK
    BY DEF Init, TxOK, Inspecting, NoTransaction
  <1> QED BY <1>1, <1>2, <1>3 DEF IInv

\* Steps that write neither applications, attempts nor transactions.
LEMMA OutsideInv ==
    ASSUME IInv, UNCHANGED <<app, attempt, finals, tx>>, TypeOK'
    PROVE IInv'
  BY DEF IInv, KeysOK, AwaitedOK, TxOK, Inspecting

LEMMA NextInv == IInv /\ [Next]_vars => IInv'
PROOF
  <1> SUFFICES ASSUME IInv, [Next]_vars PROVE IInv'
    OBVIOUS
  <1>1. CASE ApplicationStep
    <2> PICK a \in AppId, s \in School :
           \/ \E v \in Vehicle : createApplication(a, v, s)
           \/ markReadyToPrint(a, s)
           \/ \E approved \in BOOLEAN : reviewApplication(a, s, approved)
           \/ \E isAdmin \in BOOLEAN : cancelApplication(a, s, isAdmin)
      BY <1>1 DEF ApplicationStep
    <2>1. ASSUME NEW v \in Vehicle, createApplication(a, v, s) PROVE IInv'
      BY <2>1, InsertInv DEF createApplication, Terminal
    <2> QED BY <2>1, ReviewInv, CancelInv
  <1>2. CASE InspectionStep
    <2> PICK k \in AttemptId, i \in Inspector :
           \/ \E a \in AppId : startInspection(a, k, i)
           \/ \E t \in Conn, isAdmin \in BOOLEAN : AbortBegin(t, k, i, isAdmin)
           \/ \E t \in Conn, result \in FinalResults, date \in Days,
                 expiry \in 0 .. MaxDay + 1 : FinalizeBegin(t, k, i, result, date, expiry)
      BY <1>2 DEF InspectionStep
    <2>1. ASSUME NEW t \in Conn, NEW result \in FinalResults, NEW date \in Days,
                 NEW expiry \in 0 .. MaxDay + 1, FinalizeBegin(t, k, i, result, date, expiry)
          PROVE IInv'
      <3>1. date \in Nat /\ expiry \in Nat
        BY DaysType
      <3> QED BY <2>1, <3>1, FinalizeBeginInv
    <2> QED BY <2>1, StartInv, AbortBeginInv
  <1>3. CASE DriverStep
    <2> PICK d \in Driver, v \in Vehicle :
           \/ \E a \in AppId : createDriverApplication(a, v, d)
           \/ endAssignment(d, v)
           \/ \E t \in Conn, day \in Days : AuthorizeBegin(t, d, v, day) \/ QualifyBegin(t, d, day)
      BY <1>3 DEF DriverStep
    <2>1. ASSUME NEW a \in AppId, createDriverApplication(a, v, d) PROVE IInv'
      <3>1. riders[v] \subseteq School
        BY DEF IInv, TypeOK
      <3> QED BY <2>1, <3>1, InsertInv DEF createDriverApplication, Terminal
    <2>2. CASE endAssignment(d, v)
      <3>1. TypeOK'
        BY <2>2 DEF endAssignment, IInv, TypeOK, rows, records, calendar
      <3> QED BY <2>2, <3>1, OutsideInv DEF endAssignment, rows
    <2> QED BY <2>1, <2>2, DriverBeginInv, DaysType
  <1>4. CASE CommitStep
    BY <1>4, FinalizeCommitInv, AbortCommitInv, DriverCommitInv DEF CommitStep
  <1>5. ASSUME NEW v \in Vehicle, NEW s \in School, RosterEdit(v, s) PROVE IInv'
    <2>1. riders' \in [Vehicle -> SUBSET School]
      BY <1>5 DEF RosterEdit, IInv, TypeOK
    <2>2. TypeOK'
      BY <1>5, <2>1 DEF RosterEdit, IInv, TypeOK, rows, records, calendar
    <2> QED BY <1>5, <2>2, OutsideInv DEF RosterEdit, rows
  <1>6. CASE DayPasses \/ TermChanges
    <2>1. TypeOK'
      BY <1>6 DEF DayPasses, TermChanges, IInv, TypeOK, rows, fleet
    <2> QED BY <1>6, <2>1, OutsideInv DEF DayPasses, TermChanges, rows
  <1>7. CASE UNCHANGED vars
    <2>1. TypeOK'
      BY <1>7 DEF vars, IInv, TypeOK
    <2> QED BY <1>7, <2>1, OutsideInv DEF vars
  <1> QED BY <1>1, <1>2, <1>3, <1>4, <1>5, <1>6, <1>7, OlderBeginInv DEF Next

LEMMA Invariance == Spec => []IInv
PROOF
  <1>1. Init => IInv
    BY InitInv
  <1>2. IInv /\ [Next]_vars => IInv'
    BY NextInv
  <1> QED BY <1>1, <1>2, PTL DEF Spec

-----------------------------------------------------------------------------
(* Theorems *)

\* Type correctness of Verification, for every fleet and every set of requests.
THEOREM VerificationTypeCorrect == Spec => []TypeOK
PROOF
  <1>1. IInv => TypeOK
    BY DEF IInv
  <1> QED BY <1>1, Invariance, PTL

\* active_request_key: no two live requests of a bus and a term, and a key for
\* every live one (createApplication, createDriverApplication, the transitions).
THEOREM OneActiveApplicationAlways == Spec => []OneActiveApplication
PROOF
  <1>1. IInv => OneActiveApplication
    BY DEF IInv, KeysOK, OneActiveApplication
  <1> QED BY <1>1, Invariance, PTL

\* startInspection, finalizeInspection, abortInspectionAttempt and the deletion
\* in transitionSchoolApplication: an open attempt is awaited, and alone.
THEOREM OpenAttemptIsAwaitedAlways == Spec => []OpenAttemptIsAwaited
PROOF
  <1>1. IInv => OpenAttemptIsAwaited
    BY DEF IInv, AwaitedOK, OpenAttemptIsAwaited, OpenAttempts
  <1> QED BY <1>1, Invariance, PTL

\* The attempts and applications a step may touch: attempts that are open or
\* not yet inserted, applications that have not ended.
LEMMA StepTouches ==
    ASSUME IInv, Next
    PROVE /\ \A k \in AttemptId : attempt[k].result \in FinalResults => attempt'[k] = attempt[k]
          /\ \A a \in AppId : app[a].status \in Terminal => app'[a] = app[a]
PROOF
  <1> DEFINE Kept ==
         /\ \A k \in AttemptId : attempt[k].result \in FinalResults => attempt'[k] = attempt[k]
         /\ \A a \in AppId : app[a].status \in Terminal => app'[a] = app[a]
  <1> SUFFICES Kept
    OBVIOUS
  <1> USE DEF Terminal, FinalResults
  <1>1. app \in [AppId -> App] /\ attempt \in [AttemptId -> Attempt]
    BY DEF IInv, TypeOK
  <1>0. ASSUME UNCHANGED rows PROVE Kept
    BY <1>0 DEF rows
  <1>2. ASSUME NEW a \in AppId, NEW v \in Vehicle, NEW s, NEW initial, Insert(a, v, s, initial)
        PROVE Kept
    BY <1>1, <1>2 DEF Insert
  <1>3. ASSUME NEW a \in AppId, app[a].status \notin Terminal, NEW next,
               NEW deleted \in SUBSET OpenAttempts(a), Transition(a, next, deleted)
        PROVE Kept
    <2>1. \A k \in deleted : attempt[k].result = "IN_PROGRESS"
      BY DEF OpenAttempts
    <2> QED BY <1>1, <1>3, <2>1 DEF Transition
  <1>4. CASE ApplicationStep
    <2> PICK a \in AppId, s \in School :
           \/ \E v \in Vehicle : createApplication(a, v, s)
           \/ markReadyToPrint(a, s)
           \/ \E approved \in BOOLEAN : reviewApplication(a, s, approved)
           \/ \E isAdmin \in BOOLEAN : cancelApplication(a, s, isAdmin)
      BY <1>4 DEF ApplicationStep
    <2>1. ASSUME NEW v \in Vehicle, createApplication(a, v, s) PROVE Kept
      BY <2>1, <1>2 DEF createApplication
    <2>2. CASE markReadyToPrint(a, s)
      BY <2>2, <1>3 DEF markReadyToPrint
    <2>3. ASSUME NEW approved \in BOOLEAN, reviewApplication(a, s, approved) PROVE Kept
      <3> DEFINE next == IF approved THEN "READY_TO_PRINT" ELSE "REJECTED"
      <3>1. app[a].status \notin Terminal /\ Transition(a, next, {})
        BY <2>3 DEF reviewApplication
      <3> HIDE DEF next
      <3> QED BY <3>1, <1>3
    <2>4. ASSUME NEW isAdmin \in BOOLEAN, cancelApplication(a, s, isAdmin) PROVE Kept
      BY <2>4, <1>3 DEF cancelApplication, AbortedBy
    <2> QED BY <2>1, <2>2, <2>3, <2>4
  <1>5. CASE InspectionStep
    <2>1. ASSUME NEW a \in AppId, NEW k \in AttemptId, NEW i \in Inspector,
                 startInspection(a, k, i)
          PROVE Kept
      BY <2>1, <1>1 DEF startInspection
    <2>2. ASSUME NEW t \in Conn, NEW k \in AttemptId, NEW i \in Inspector,
                 NEW isAdmin \in BOOLEAN, AbortBegin(t, k, i, isAdmin)
          PROVE UNCHANGED rows
      BY <2>2 DEF AbortBegin, Begin
    <2>3. ASSUME NEW t \in Conn, NEW k \in AttemptId, NEW i \in Inspector,
                 NEW result \in FinalResults, NEW date \in Days,
                 NEW expiry \in 0 .. MaxDay + 1, FinalizeBegin(t, k, i, result, date, expiry)
          PROVE UNCHANGED rows
      BY <2>3 DEF FinalizeBegin, Begin
    <2> HIDE DEF Kept
    <2>4. \A k \in AttemptId, i \in Inspector :
             /\ \A a \in AppId : startInspection(a, k, i) => Kept
             /\ \A t \in Conn, isAdmin \in BOOLEAN : AbortBegin(t, k, i, isAdmin) => Kept
             /\ \A t \in Conn, result \in FinalResults, date \in Days, expiry \in 0 .. MaxDay + 1 :
                   FinalizeBegin(t, k, i, result, date, expiry) => Kept
      BY <1>0, <2>1, <2>2, <2>3
    <2> QED BY <1>5, <2>4, Zenon DEF InspectionStep
  <1>6. CASE DriverStep
    <2>1. ASSUME NEW a \in AppId, NEW v \in Vehicle, NEW d \in Driver,
                 createDriverApplication(a, v, d)
          PROVE Kept
      BY <2>1, <1>2 DEF createDriverApplication
    <2>2. ASSUME NEW d \in Driver, NEW v \in Vehicle, endAssignment(d, v)
          PROVE UNCHANGED rows
      BY <2>2 DEF endAssignment
    <2>3. ASSUME NEW d \in Driver, NEW v \in Vehicle, NEW t \in Conn, NEW day \in Days,
                 AuthorizeBegin(t, d, v, day) \/ QualifyBegin(t, d, day)
          PROVE UNCHANGED rows
      BY <2>3 DEF AuthorizeBegin, QualifyBegin, Begin
    <2> HIDE DEF Kept
    <2>4. \A d \in Driver, v \in Vehicle :
             /\ \A a \in AppId : createDriverApplication(a, v, d) => Kept
             /\ endAssignment(d, v) => Kept
             /\ \A t \in Conn, day \in Days :
                   AuthorizeBegin(t, d, v, day) \/ QualifyBegin(t, d, day) => Kept
      BY <1>0, <2>1, <2>2, <2>3
    <2> QED BY <1>6, <2>4, Zenon DEF DriverStep
  <1>7. CASE CommitStep
    <2> PICK t \in Conn : \/ FinalizeCommit(t) \/ AbortCommit(t) \/ QualifyCommit(t)
                          \/ AuthorizeCommit(t) \/ OlderCommit(t)
      BY <1>7 DEF CommitStep
    <2> DEFINE k == tx[t].attempt
    <2>1. CASE QualifyCommit(t) \/ AuthorizeCommit(t) \/ OlderCommit(t)
      BY <2>1 DEF QualifyCommit, AuthorizeCommit, OlderCommit, rows
    <2>2. CASE FinalizeCommit(t) \/ AbortCommit(t)
      <3>1. /\ k \in AttemptId /\ attempt[k].result = "IN_PROGRESS"
            /\ app[attempt[k].app].status = "INSPECTION_PENDING"
        BY <2>2 DEF FinalizeCommit, AbortCommit, IInv, TxOK, AwaitedOK, Inspecting
      <3>2. \A j \in AttemptId : j # k => attempt'[j] = attempt[j]
        BY <2>2, <1>1 DEF FinalizeCommit, AbortCommit
      <3>3. \A a \in AppId : a # attempt[k].app => app'[a] = app[a]
        BY <2>2, <1>1 DEF FinalizeCommit, AbortCommit
      <3> HIDE DEF k
      <3> QED BY <3>1, <3>2, <3>3
    <2> QED BY <2>1, <2>2
  <1>8. ASSUME NEW v \in Vehicle, NEW s \in School, RosterEdit(v, s) PROVE UNCHANGED rows
    BY <1>8 DEF RosterEdit
  <1>9. CASE DayPasses \/ TermChanges
    BY <1>9 DEF DayPasses, TermChanges, rows
  <1>10. CASE OlderStep
    BY <1>0, <1>10, OlderStepOpens
  <1> HIDE DEF Kept
  <1>11. (\E v \in Vehicle, s \in School : RosterEdit(v, s)) => Kept
    BY <1>0, <1>8
  <1> QED BY <1>11, <1>10, <1>4, <1>5, <1>6, <1>7, <1>9 DEF Next

\* finalizeInspection, abortInspectionAttempt, cancelApplication: a result that
\* was recorded is neither changed nor deleted.
THEOREM ResultsAreFinalAlways == Spec => ResultsAreFinal
PROOF
  <1> DEFINE A == \A k \in AttemptId :
                    attempt[k].result \in FinalResults => attempt'[k] = attempt[k]
  <1>1. IInv /\ [Next]_vars => [A]_vars
    BY StepTouches
  <1>2. Spec => [][A]_vars
    BY <1>1, Invariance, PTL DEF Spec
  <1> QED BY <1>2 DEF ResultsAreFinal

\* An application that was passed, failed, rejected or cancelled stays so.
THEOREM EndedStaysEndedAlways == Spec => EndedStaysEnded
PROOF
  <1> DEFINE A == \A a \in AppId : app[a].status \in Terminal => app'[a] = app[a]
  <1>1. IInv /\ [Next]_vars => [A]_vars
    BY StepTouches
  <1>2. Spec => [][A]_vars
    BY <1>1, Invariance, PTL DEF Spec
  <1> QED BY <1>2 DEF EndedStaysEnded

=============================================================================
