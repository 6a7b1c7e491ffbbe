--------------------------- MODULE VerdictProofs ---------------------------
(***************************************************************************)
(* A bus becomes ELIGIBLE only on a certificate that is valid that day.    *)
(*                                                                         *)
(* The verdict a COMMIT writes was computed when its transaction began, so *)
(* the invariant VInv keeps what it rested on: a passed attempt never      *)
(* changes (ResultsAreFinal), documents and the day stand still while a    *)
(* transaction is open, and the attempt a finalization is about to pass is *)
(* still open (TxOK).  A verdict on an older record, which has no lock to  *)
(* protect it when the bus has no application, rests on the record or on   *)
(* what overtaken keeps of it.                                             *)
(***************************************************************************)
EXTENDS VerificationProofs, WellFoundedInduction

\* Attempt k certifies the vehicle today.
Certifies(k, v) ==
    /\ attempt[k].result = "PASSED" /\ attempt[k].expiry >= today
    /\ app[attempt[k].app].vehicle = v

\* The attempt the transaction of t finalizes will certify the vehicle.
WillCertify(t, v) ==
    /\ tx[t].op = "finalize" /\ tx[t].result = "PASSED" /\ tx[t].until >= today
    /\ app[attempt[tx[t].attempt].app].vehicle = v

\* The transaction of t judges the vehicle by an older record: no attempt had been
\* finalized at its snapshot, and a valid record stands, is about to be written
\* by the transaction itself, or was replaced since.
BasedOnOlder(t, v) ==
    /\ \A k \in Finalized(v) : attempt[k].order > tx[t].since
    /\ \E row \in {older[k] : k \in OlderId \ {tx[t].older}} \cup {tx[t].row} \cup overtaken[t] :
          Valid(row, v)

\* A finalized attempt is dated and numbered, and its application exists.
DatedOK ==
    \A k \in AttemptId : attempt[k].result \in FinalResults =>
       /\ attempt[k].app \in AppId /\ app[attempt[k].app].status # "NONE"
       /\ attempt[k].date <= today /\ attempt[k].order <= finals

\* What holds of the verdict transaction t is about to write.
VerdictOK(t) ==
    /\ tx[t].op = "finalize" => tx[t].date <= today
    /\ tx[t].since <= finals
    /\ tx[t].older \in OlderId \/ tx[t].row = NoOlder
    /\ \A v \in Vehicle : tx[t].write[v] = "ELIGIBLE" =>
          /\ tx[t].op # "none"
          /\ docs[v] >= today
          /\ \/ WillCertify(t, v)
             \/ \E k \in AttemptId : Certifies(k, v)
             \/ BasedOnOlder(t, v)

VInv == DatedOK /\ \A t \in Conn : VerdictOK(t)

-----------------------------------------------------------------------------
(* The latest attempt exists *)

\* A set of naturals that is not empty has a least element.
LEMMA LeastNatural ==
    ASSUME NEW S \in SUBSET Nat, S # {}
    PROVE \E m \in S : \A n \in S : m <= n
PROOF
  <1>1. PICK m \in S : \A n \in S : <<n, m>> \notin OpToRel(<, Nat)
    BY NatLessThanWellFounded, WFMin
  <1>2. \A n \in S : ~(n < m)
    BY <1>1 DEF OpToRel
  <1> QED BY <1>2

\* If numbers below b are attached to the members of a set, one is greatest.
LEMMA Greatest ==
    ASSUME NEW S, S # {}, NEW f, \A x \in S : f[x] \in Nat, NEW b \in Nat,
           \A x \in S : f[x] <= b
    PROVE \E x \in S : \A y \in S : f[y] <= f[x]
PROOF
  <1> DEFINE D == {b - f[x] : x \in S}
  <1>1. D \in SUBSET Nat /\ D # {}
    OBVIOUS
  <1>2. PICK m \in D : \A n \in D : m <= n
    BY <1>1, LeastNatural
  <1>3. PICK x \in S : m = b - f[x]
    OBVIOUS
  <1>4. \A y \in S : b - f[x] <= b - f[y]
    BY <1>2, <1>3
  <1> QED BY <1>4

\* ORDER BY inspection_date DESC, finalized_at DESC LIMIT 1 finds an attempt.
LEMMA LatestIsFinalized ==
    ASSUME IInv, DatedOK, NEW v \in Vehicle, Finalized(v) # {}
    PROVE Latest(v) \in Finalized(v)
PROOF
  <1> DEFINE S == Finalized(v)
             dateOf == [k \in AttemptId |-> attempt[k].date]
             orderOf == [k \in AttemptId |-> attempt[k].order]
  <1>1. /\ \A k \in AttemptId : attempt[k] \in Attempt
        /\ today \in Nat /\ finals \in Nat
    BY DEF IInv, TypeOK
  <1>2. \A k \in S : /\ k \in AttemptId
                     /\ dateOf[k] \in Nat /\ dateOf[k] <= today
                     /\ orderOf[k] \in Nat /\ orderOf[k] <= finals
    BY <1>1 DEF Finalized, DatedOK, Attempt
  <1> HIDE DEF dateOf, orderOf
  <1>3. PICK k \in S : \A j \in S : dateOf[j] <= dateOf[k]
    BY <1>1, <1>2, Greatest DEF S
  <1> DEFINE L == {j \in S : dateOf[j] = dateOf[k]}
  <1>4. L # {} /\ \A j \in L : orderOf[j] \in Nat /\ orderOf[j] <= finals
    BY <1>2
  <1> HIDE DEF L
  <1>5. PICK m \in L : \A j \in L : orderOf[j] <= orderOf[m]
    BY <1>1, <1>4, Greatest
  <1>6. m \in S /\ dateOf[m] = dateOf[k]
    BY DEF L
  <1>7. ASSUME NEW j \in S PROVE ~NewerThan(j, m)
    <2>1. dateOf[j] <= dateOf[m]
      BY <1>3, <1>6
    <2>2. dateOf[j] = dateOf[m] => orderOf[j] <= orderOf[m]
      BY <1>5, <1>6 DEF L
    <2>3. /\ dateOf[j] = attempt[j].date /\ dateOf[m] = attempt[m].date
          /\ orderOf[j] = attempt[j].order /\ orderOf[m] = attempt[m].order
      BY <1>2, <1>6 DEF dateOf, orderOf
    <2> QED BY <2>1, <2>2, <2>3, <1>2, <1>6 DEF NewerThan
  <1>8. \E l \in Finalized(v) : \A j \in Finalized(v) : ~NewerThan(j, l)
    BY <1>6, <1>7 DEF S
  <1> QED BY <1>8 DEF Latest

\* refreshVehicleEligibility says ELIGIBLE only of a vehicle with a valid certificate.
LEMMA RefreshedIsCertified ==
    ASSUME IInv, DatedOK, NEW v \in Vehicle, NEW assigned, NEW licensed, NEW inspected,
           RefreshedStatus(v, assigned, licensed, inspected) = "ELIGIBLE"
    PROVE /\ docs[v] >= today
          /\ \/ \E k \in AttemptId : Certifies(k, v)
             \/ Finalized(v) = {} /\ \E k \in OlderId : Valid(inspected[k], v)
PROOF
  <1>1. PICK i \in JudgedBy(v, inspected) :
           computeEligibility(v, i.result, i.expiry, Cardinality(riders[v]),
                              ValidDriver(v, assigned, licensed)) = "ELIGIBLE"
    BY DEF RefreshedStatus
  <1>2. i.result = "PASSED" /\ i.expiry >= today /\ docs[v] >= today
    BY <1>1 DEF computeEligibility
  <1>3. CASE Finalized(v) = {}
    <2>1. PICK k \in NewestOlder(v, inspected) : i = inspected[k]
      BY <1>3 DEF JudgedBy
    <2>2. k \in OlderId /\ inspected[k].vehicle = v
      BY <2>1 DEF NewestOlder, OlderRows
    <2> QED BY <1>2, <1>3, <2>1, <2>2 DEF Valid
  <1>4. CASE Finalized(v) # {}
    <2>1. i = attempt[Latest(v)]
      BY <1>4 DEF JudgedBy
    <2>2. Latest(v) \in AttemptId /\ app[attempt[Latest(v)].app].vehicle = v
      BY <1>4, LatestIsFinalized DEF Finalized
    <2> QED BY <1>2, <2>1, <2>2 DEF Certifies
  <1> QED BY <1>3, <1>4

-----------------------------------------------------------------------------
(* VInv is inductive *)

\* An attempt stays with its application and an application with its vehicle.
RowsStay ==
    /\ \A k \in AttemptId : attempt[k].result # "NONE" => attempt'[k].app = attempt[k].app
    /\ \A k \in AttemptId : attempt[k].result \in FinalResults => attempt'[k] = attempt[k]
    /\ \A a \in AppId : app[a].status # "NONE" =>
          app'[a].vehicle = app[a].vehicle /\ app'[a].status # "NONE"

\* A result that a step records is dated and numbered.
ResultsDated ==
    /\ finals' \in Nat /\ finals' >= finals
    /\ \A k \in AttemptId : attempt'[k].result \in FinalResults =>
          \/ attempt[k].result \in FinalResults
          \/ /\ attempt'[k].app \in AppId /\ app'[attempt'[k].app].status # "NONE"
             /\ attempt'[k].date <= today
             /\ attempt'[k].order \in Nat
             /\ attempt'[k].order > finals /\ attempt'[k].order <= finals'

\* A transaction that stays open sees every certificate in older that is replaced.
CertificatesKept ==
    \A t \in Conn : tx[t].op # "none" /\ tx'[t] = tx[t] =>
       /\ overtaken[t] \subseteq overtaken'[t]
       /\ \A k \in OlderId : older[k].result = "PASSED" =>
             older'[k] = older[k] \/ older[k] \in overtaken'[t]

\* Steps that open no transaction, on one and the same day.
LEMMA SameDayVInv ==
    ASSUME IInv, VInv, RowsStay, ResultsDated, CertificatesKept, UNCHANGED <<docs, today>>,
           \A t \in Conn : tx'[t] = tx[t] \/ tx'[t] = NoTransaction
    PROVE VInv'
PROOF
  <1>1. /\ finals \in Nat /\ today \in Nat
        /\ \A k \in AttemptId : attempt[k] \in Attempt
    BY DEF IInv, TypeOK
  <1>2. DatedOK'
    <2> SUFFICES ASSUME NEW k \in AttemptId, attempt'[k].result \in FinalResults
                 PROVE /\ attempt'[k].app \in AppId /\ app'[attempt'[k].app].status # "NONE"
                       /\ attempt'[k].date <= today /\ attempt'[k].order <= finals'
      BY DEF DatedOK
    <2>1. CASE attempt[k].result \notin FinalResults
      BY <2>1 DEF ResultsDated
    <2>2. CASE attempt[k].result \in FinalResults
      <3>1. /\ attempt'[k] = attempt[k] /\ attempt[k].app \in AppId
            /\ app[attempt[k].app].status # "NONE"
            /\ attempt[k].date <= today /\ attempt[k].order <= finals
        BY <2>2 DEF RowsStay, VInv, DatedOK
      <3>2. attempt[k].order \in Nat
        BY <1>1 DEF Attempt
      <3> QED BY <3>1, <3>2, <1>1 DEF RowsStay, ResultsDated
    <2> QED BY <2>1, <2>2
  <1>3. ASSUME NEW k \in AttemptId, NEW v \in Vehicle, Certifies(k, v) PROVE Certifies(k, v)'
    <2>1. /\ attempt'[k] = attempt[k] /\ attempt[k].app \in AppId
          /\ app'[attempt[k].app].vehicle = app[attempt[k].app].vehicle
      BY <1>3 DEF Certifies, RowsStay, VInv, DatedOK, FinalResults
    <2> QED BY <2>1, <1>3 DEF Certifies
  <1>4. ASSUME NEW t \in Conn, NEW v \in Vehicle, tx'[t] = tx[t], WillCertify(t, v)
        PROVE WillCertify(t, v)'
    <2> DEFINE k == tx[t].attempt
    <2>1. /\ k \in AttemptId /\ attempt[k].result = "IN_PROGRESS"
          /\ attempt[k].app \in AppId /\ app[attempt[k].app].status = "INSPECTION_PENDING"
      BY <1>4 DEF WillCertify, IInv, TxOK, AwaitedOK, Inspecting
    <2>2. /\ attempt'[k].app = attempt[k].app
          /\ app'[attempt[k].app].vehicle = app[attempt[k].app].vehicle
      BY <2>1 DEF RowsStay
    <2> QED BY <2>2, <1>4 DEF WillCertify
  <1>6. ASSUME NEW t \in Conn, NEW v \in Vehicle, tx[t].op # "none", tx'[t] = tx[t],
               tx[t].since <= finals, BasedOnOlder(t, v)
        PROVE BasedOnOlder(t, v)'
    <2>1. ASSUME NEW k \in AttemptId, attempt'[k].result \in FinalResults,
                 app'[attempt'[k].app].vehicle = v
          PROVE attempt'[k].order > tx[t].since
      <3>1. attempt'[k].result \in FinalResults /\ app'[attempt'[k].app].vehicle = v
        BY <2>1
      <3>2. tx[t].since \in Nat /\ finals \in Nat
        BY <1>1 DEF IInv, TypeOK, Transaction
      <3>3. CASE attempt[k].result \in FinalResults
        <4>1. /\ attempt'[k] = attempt[k] /\ attempt[k].app \in AppId
              /\ app'[attempt[k].app].vehicle = app[attempt[k].app].vehicle
          BY <3>1, <3>3 DEF RowsStay, VInv, DatedOK
        <4> QED BY <3>1, <3>3, <4>1, <1>6 DEF BasedOnOlder, Finalized
      <3>4. CASE attempt[k].result \notin FinalResults
        <4>1. attempt'[k].order \in Nat /\ attempt'[k].order > finals
          BY <3>1, <3>4 DEF ResultsDated
        <4> QED BY <3>2, <4>1, <1>6
      <3> QED BY <3>3, <3>4
    <2>2. PICK row \in {older[k] : k \in OlderId \ {tx[t].older}} \cup {tx[t].row} \cup overtaken[t] :
             Valid(row, v)
      BY <1>6 DEF BasedOnOlder
    <2>3. row.result = "PASSED" /\ Valid(row, v)'
      BY <2>2 DEF Valid
    <2>4. row \in {older'[k] : k \in OlderId \ {tx[t].older}} \cup {tx[t].row} \cup overtaken'[t]
      BY <1>6, <2>2, <2>3 DEF CertificatesKept
    <2> QED BY <2>1, <2>3, <2>4, <1>6 DEF BasedOnOlder, Finalized
  <1>5. ASSUME NEW t \in Conn PROVE VerdictOK(t)'
    <2>1. CASE tx'[t] = NoTransaction
      BY <2>1, <1>1 DEF VerdictOK, NoTransaction, ResultsDated
    <2>2. CASE tx'[t] = tx[t]
      <3>1. VerdictOK(t)
        BY DEF VInv
      <3>2. /\ tx'[t].op = "finalize" => tx'[t].date <= today'
            /\ tx'[t].since <= finals'
            /\ tx'[t].older \in OlderId \/ tx'[t].row = NoOlder
        <4>1. tx[t].since \in Nat
          BY DEF IInv, TypeOK, Transaction
        <4> QED BY <2>2, <3>1, <4>1, <1>1 DEF VerdictOK, ResultsDated
      <3>3. ASSUME NEW v \in Vehicle, tx'[t].write[v] = "ELIGIBLE"
            PROVE /\ tx'[t].op # "none" /\ docs'[v] >= today'
                  /\ \/ WillCertify(t, v)'
                     \/ \E k \in AttemptId : Certifies(k, v)'
                     \/ BasedOnOlder(t, v)'
        <4>1. /\ tx[t].op # "none" /\ docs[v] >= today /\ tx[t].since <= finals
              /\ \/ WillCertify(t, v)
                 \/ \E k \in AttemptId : Certifies(k, v)
                 \/ BasedOnOlder(t, v)
          BY <2>2, <3>1, <3>3 DEF VerdictOK
        <4>2. \/ WillCertify(t, v)'
              \/ \E k \in AttemptId : Certifies(k, v)'
              \/ BasedOnOlder(t, v)'
          BY <4>1, <1>3, <1>4, <1>6, <2>2
        <4> QED BY <4>1, <4>2, <2>2
      <3> QED BY <3>2, <3>3 DEF VerdictOK
    <2> QED BY <2>1, <2>2
  <1> QED BY <1>2, <1>5 DEF VInv

\* The first half of a transaction computes a verdict that is OK.
LEMMA BeginVInv ==
    ASSUME IInv, VInv, NEW t \in Conn, NEW transaction, Begin(t, transaction),
           transaction.op # "none", transaction.since = finals,
           transaction.older \in OlderId \/ transaction.row = NoOlder,
           transaction.op = "finalize" => transaction.date <= today,
           \A v \in Vehicle : transaction.write[v] = "ELIGIBLE" =>
              /\ docs[v] >= today
              /\ \/ /\ transaction.op = "finalize" /\ transaction.result = "PASSED"
                    /\ transaction.until >= today
                    /\ app[attempt[transaction.attempt].app].vehicle = v
                 \/ \E k \in AttemptId : Certifies(k, v)
                 \/ /\ Finalized(v) = {}
                    /\ \E row \in {older[k] : k \in OlderId \ {transaction.older}}
                                   \cup {transaction.row} : Valid(row, v)
    PROVE VInv'
PROOF
  <1>1. /\ tx' = [tx EXCEPT ![t] = transaction] /\ tx[t].op = "none"
        /\ UNCHANGED <<app, attempt, finals, docs, today, older, overtaken>>
        /\ finals \in Nat
    BY DEF Begin, rows, fleet, calendar, IInv, TypeOK
  <1>2. tx'[t] = transaction /\ \A u \in Conn : u # t => tx'[u] = tx[u]
    BY <1>1 DEF IInv, TypeOK
  <1>3. DatedOK'
    BY <1>1 DEF VInv, DatedOK
  <1>4. \A k \in AttemptId, v \in Vehicle : Certifies(k, v)' <=> Certifies(k, v)
    BY <1>1 DEF Certifies
  <1>7. \A v \in Vehicle : Finalized(v)' = Finalized(v)
    BY <1>1 DEF Finalized
  <1>5. ASSUME NEW u \in Conn, u # t PROVE VerdictOK(u)'
    <2>1. \A v \in Vehicle : WillCertify(u, v)' <=> WillCertify(u, v)
      BY <1>1, <1>2, <1>5 DEF WillCertify
    <2>2. \A v \in Vehicle : BasedOnOlder(u, v)' <=> BasedOnOlder(u, v)
      BY <1>1, <1>2, <1>5, <1>7 DEF BasedOnOlder, Valid
    <2> QED BY <2>1, <2>2, <1>1, <1>2, <1>4, <1>5 DEF VInv, VerdictOK
  <1>6. VerdictOK(t)'
    <2>1. ASSUME NEW v \in Vehicle, tx'[t].write[v] = "ELIGIBLE"
          PROVE /\ docs'[v] >= today'
                /\ \/ WillCertify(t, v)'
                   \/ \E k \in AttemptId : Certifies(k, v)'
                   \/ BasedOnOlder(t, v)'
      <3>1. /\ docs[v] >= today
            /\ \/ /\ transaction.op = "finalize" /\ transaction.result = "PASSED"
                  /\ transaction.until >= today
                  /\ app[attempt[transaction.attempt].app].vehicle = v
               \/ \E k \in AttemptId : Certifies(k, v)
               \/ /\ Finalized(v) = {}
                  /\ \E row \in {older[k] : k \in OlderId \ {transaction.older}}
                                 \cup {transaction.row} : Valid(row, v)
        BY <2>1, <1>2
      <3>2. (\E row \in {older[k] : k \in OlderId \ {transaction.older}} \cup {transaction.row} :
                Valid(row, v)) /\ Finalized(v) = {} => BasedOnOlder(t, v)'
        BY <1>1, <1>2, <1>7 DEF BasedOnOlder, Valid
      <3>3. \/ WillCertify(t, v)'
            \/ \E k \in AttemptId : Certifies(k, v)'
            \/ BasedOnOlder(t, v)'
        BY <3>1, <3>2, <1>1, <1>2, <1>4 DEF WillCertify
      <3> QED BY <3>1, <3>3, <1>1
    <2> QED BY <2>1, <1>1, <1>2 DEF VerdictOK
  <1> QED BY <1>3, <1>5, <1>6 DEF VInv

LEMMA FinalizeBeginVInv ==
    ASSUME IInv, VInv, NEW t \in Conn, NEW k \in AttemptId, NEW i \in Inspector,
           NEW result \in FinalResults, NEW date \in Nat, NEW expiry \in Nat,
           FinalizeBegin(t, k, i, result, date, expiry)
    PROVE VInv'
PROOF
  <1> DEFINE v == app[attempt[k].app].vehicle
             verdict == computeEligibility(v, result, expiry, app[attempt[k].app].peak,
                                           ValidDriver(v, pool, licence))
             w == Writing(v, verdict)
             transaction == [Snapshot EXCEPT
                      !.op = "finalize", !.attempt = k, !.vehicle = v, !.result = result,
                      !.date = date, !.until = expiry, !.write = w]
  <1>1. Begin(t, transaction) /\ date <= today
    BY DEF FinalizeBegin
  <1>2. verdict = "ELIGIBLE" => result = "PASSED" /\ expiry >= today /\ docs[v] >= today
    BY DEF computeEligibility
  <1>3. \A u \in Vehicle : w[u] = "ELIGIBLE" => u = v /\ verdict = "ELIGIBLE"
    BY DEF Writing
  <1>4. v = app[attempt[k].app].vehicle
    OBVIOUS
  <1> HIDE DEF v, verdict, w
  <1>5. /\ transaction.op = "finalize" /\ transaction.attempt = k
        /\ transaction.result = result /\ transaction.date = date
        /\ transaction.until = expiry /\ transaction.write = w
        /\ transaction.since = finals /\ transaction.row = NoOlder
    BY DEF Snapshot, NoTransaction
  <1> HIDE DEF transaction
  <1>6. \A u \in Vehicle : transaction.write[u] = "ELIGIBLE" =>
           /\ docs[u] >= today
           /\ transaction.op = "finalize" /\ transaction.result = "PASSED"
           /\ transaction.until >= today
           /\ app[attempt[transaction.attempt].app].vehicle = u
    BY <1>2, <1>3, <1>4, <1>5
  <1> QED BY <1>1, <1>5, <1>6, BeginVInv

\* The operations whose verdict is the one of refreshVehicleEligibility.
LEMMA RefreshBeginVInv ==
    ASSUME IInv, VInv, NEW t \in Conn, NEW transaction, Begin(t, transaction),
           transaction.op \notin {"none", "finalize"}, transaction.since = finals,
           transaction.older \in OlderId \/ transaction.row = NoOlder,
           NEW assigned, NEW licensed, NEW inspected,
           \A k \in OlderId : inspected[k] = IF k = transaction.older THEN transaction.row
                                                                    ELSE older[k],
           \A v \in Vehicle : transaction.write[v] \in
              {"KEEP", RefreshedStatus(v, assigned, licensed, inspected)}
    PROVE VInv'
PROOF
  <1>1. ASSUME NEW v \in Vehicle, transaction.write[v] = "ELIGIBLE"
        PROVE /\ docs[v] >= today
              /\ \/ \E k \in AttemptId : Certifies(k, v)
                 \/ /\ Finalized(v) = {}
                    /\ \E row \in {older[k] : k \in OlderId \ {transaction.older}}
                                   \cup {transaction.row} : Valid(row, v)
    <2>1. RefreshedStatus(v, assigned, licensed, inspected) = "ELIGIBLE"
      BY <1>1
    <2> QED BY <2>1, RefreshedIsCertified DEF VInv
  <1> QED BY <1>1, BeginVInv

\* 0 is no row of vehicle_inspections.
LEMMA NotOlder == 0 \notin OlderId
  BY OlderAssumption DEF OlderId

LEMMA AbortBeginVInv ==
    ASSUME IInv, VInv, NEW t \in Conn, NEW k \in AttemptId, NEW i \in Inspector,
           NEW isAdmin \in BOOLEAN, AbortBegin(t, k, i, isAdmin)
    PROVE VInv'
PROOF
  <1> DEFINE bus == app[attempt[k].app].vehicle
             w == Writing(bus, RefreshedStatus(bus, pool, licence, older))
             transaction == [Snapshot EXCEPT
                    !.op = "abort", !.attempt = k, !.vehicle = bus, !.write = w]
  <1>1. Begin(t, transaction)
    BY DEF AbortBegin
  <1>2. \A u \in Vehicle : w[u] \in {"KEEP", RefreshedStatus(u, pool, licence, older)}
    BY DEF Writing
  <1> HIDE DEF bus, w
  <1>3. /\ transaction.op = "abort" /\ transaction.write = w
       /\ transaction.since = finals /\ transaction.row = NoOlder /\ transaction.older = 0
    BY DEF Snapshot, NoTransaction
  <1> HIDE DEF transaction
  <1> QED BY <1>1, <1>2, <1>3, RefreshBeginVInv, NotOlder

LEMMA DriverBeginVInv ==
    ASSUME IInv, VInv, NEW t \in Conn, NEW d \in Driver, NEW v \in Vehicle, NEW day \in Nat,
           AuthorizeBegin(t, d, v, day) \/ QualifyBegin(t, d, day)
    PROVE VInv'
PROOF
  <1>1. CASE AuthorizeBegin(t, d, v, day)
    <2> DEFINE assigned == [pool EXCEPT ![d][v] = day]
               w == Writing(v, RefreshedStatus(v, assigned, licence, older))
               transaction == [Snapshot EXCEPT
                      !.op = "authorize", !.driver = d, !.vehicle = v, !.until = day, !.write = w]
    <2>1. Begin(t, transaction)
      BY <1>1 DEF AuthorizeBegin
    <2> HIDE DEF assigned
    <2>2. \A u \in Vehicle : w[u] \in {"KEEP", RefreshedStatus(u, assigned, licence, older)}
      BY DEF Writing
    <2> HIDE DEF w
    <2>3. /\ transaction.op = "authorize" /\ transaction.write = w
         /\ transaction.since = finals /\ transaction.row = NoOlder /\ transaction.older = 0
      BY DEF Snapshot, NoTransaction
    <2> HIDE DEF transaction
    <2> QED BY <2>1, <2>2, <2>3, RefreshBeginVInv, NotOlder
  <1>2. CASE QualifyBegin(t, d, day)
    <2> DEFINE licensed == [licence EXCEPT ![d] = day]
               w == [u \in Vehicle |-> IF pool[d][u] # 0 THEN RefreshedStatus(u, pool, licensed, older)
                                                         ELSE "KEEP"]
               transaction == [Snapshot EXCEPT
                      !.op = "qualify", !.driver = d, !.until = day, !.write = w]
    <2>1. Begin(t, transaction)
      BY <1>2 DEF QualifyBegin
    <2> HIDE DEF licensed
    <2>2. \A u \in Vehicle : w[u] \in {"KEEP", RefreshedStatus(u, pool, licensed, older)}
      OBVIOUS
    <2> HIDE DEF w
    <2>3. /\ transaction.op = "qualify" /\ transaction.write = w
         /\ transaction.since = finals /\ transaction.row = NoOlder /\ transaction.older = 0
      BY DEF Snapshot, NoTransaction
    <2> HIDE DEF transaction
    <2> QED BY <2>1, <2>2, <2>3, RefreshBeginVInv, NotOlder
  <1> QED BY <1>1, <1>2

LEMMA RewriteVInv ==
    ASSUME IInv, VInv, NEW t \in Conn, NEW op \in {"record", "correct"}, NEW k \in OlderId,
           NEW row, Rewrite(t, op, k, row)
    PROVE VInv'
PROOF
  <1> DEFINE inspected == [older EXCEPT ![k] = row]
             w == Writing(row.vehicle, RefreshedStatus(row.vehicle, pool, licence, inspected))
             transaction == [Snapshot EXCEPT !.op = op, !.vehicle = row.vehicle,
                                             !.older = k, !.row = row, !.write = w]
  <1>1. Begin(t, transaction)
    BY DEF Rewrite
  <1>2. \A j \in OlderId : inspected[j] = IF j = k THEN row ELSE older[j]
    BY DEF IInv, TypeOK
  <1> HIDE DEF inspected
  <1>3. \A u \in Vehicle : w[u] \in {"KEEP", RefreshedStatus(u, pool, licence, inspected)}
    BY DEF Writing
  <1> HIDE DEF w
  <1>4. /\ transaction.op = op /\ transaction.write = w /\ transaction.since = finals
        /\ transaction.row = row /\ transaction.older = k
    BY DEF Snapshot, NoTransaction
  <1> HIDE DEF transaction
  <1> QED BY <1>1, <1>2, <1>3, <1>4, RefreshBeginVInv

LEMMA OlderVInv == ASSUME IInv, VInv, OlderStep PROVE VInv'
PROOF
  <1>1. ASSUME NEW t \in Conn, NEW k \in OlderId, deleteInspection(t, k) PROVE VInv'
    BY <1>1, RewriteVInv DEF deleteInspection
  <1>2. ASSUME NEW t \in Conn, NEW k \in OlderId, NEW result, NEW expiry,
               updateInspection(t, k, result, expiry)
        PROVE VInv'
    BY <1>2, RewriteVInv DEF updateInspection
  <1>3. ASSUME NEW t \in Conn, NEW k \in OlderId, NEW v, NEW result, NEW date, NEW expiry,
               createInspection(t, k, v, result, date, expiry)
        PROVE VInv'
    BY <1>3, RewriteVInv DEF createInspection
  <1> QED BY <1>1, <1>2, <1>3 DEF OlderStep

\* Steps that record no result.
LEMMA NoNewResult ==
    ASSUME IInv, finals' = finals,
           \A k \in AttemptId : attempt'[k].result \in FinalResults => attempt[k].result \in FinalResults
    PROVE ResultsDated
  BY DEF IInv, TypeOK, ResultsDated

\* Steps that leave the older records alone.
LEMMA NoRecordReplaced == ASSUME UNCHANGED <<older, overtaken>> PROVE CertificatesKept
  BY DEF CertificatesKept

\* Steps that write no row of an inspection and open or close no transaction.
LEMMA UnmovedVInv ==
    ASSUME IInv, VInv, UNCHANGED <<app, attempt, finals, docs, today, tx, older, overtaken>>
    PROVE VInv'
PROOF
  <1>1. RowsStay /\ ResultsDated /\ CertificatesKept
    BY NoNewResult, NoRecordReplaced DEF RowsStay
  <1> QED BY <1>1, SameDayVInv

LEMMA InsertVInv ==
    ASSUME IInv, VInv, NEW a \in AppId, NEW v, NEW s, NEW initial, Insert(a, v, s, initial)
    PROVE VInv'
PROOF
  <1>1. /\ UNCHANGED <<attempt, finals, docs, today, older, overtaken>> /\ tx' = tx
        /\ \A b \in AppId : b # a => app'[b] = app[b]
        /\ app[a].status = "NONE" /\ app \in [AppId -> App]
    BY DEF Insert, fleet, calendar, IInv, TypeOK
  <1>2. RowsStay
    BY <1>1 DEF RowsStay
  <1> QED BY <1>1, <1>2, NoNewResult, NoRecordReplaced, SameDayVInv

LEMMA TransitionVInv ==
    ASSUME IInv, VInv, NEW a \in AppId, NEW next, NEW deleted \in SUBSET OpenAttempts(a),
           Transition(a, next, deleted), next # "NONE"
    PROVE VInv'
PROOF
  <1>1. app \in [AppId -> App] /\ attempt \in [AttemptId -> Attempt]
    BY DEF IInv, TypeOK
  <1>2. UNCHANGED <<finals, docs, today, older, overtaken>> /\ tx' = tx
    BY DEF Transition, fleet, calendar
  <1>3. CASE next \notin StatusColumn
    <2>1. app' = app /\ attempt' = attempt
      BY <1>3 DEF Transition
    <2> QED BY <2>1, <1>2, NoNewResult, NoRecordReplaced, SameDayVInv DEF RowsStay
  <1>4. CASE next \in StatusColumn
    <2>1. /\ app' = [app EXCEPT ![a].status = next, ![a].key = @ /\ ~ReleasesKey(next)]
          /\ attempt' = [k \in AttemptId |->
                            IF k \in deleted THEN [attempt[k] EXCEPT !.result = "DELETED"]
                                             ELSE attempt[k]]
      BY <1>4 DEF Transition
    <2>2. /\ app'[a].status = next /\ app'[a].vehicle = app[a].vehicle
          /\ \A b \in AppId : b # a => app'[b] = app[b]
      BY <2>1, <1>1 DEF App
    <2>3. \A k \in AttemptId : /\ attempt'[k].app = attempt[k].app
                               /\ k \in deleted => /\ attempt'[k].result = "DELETED"
                                                   /\ attempt[k].result = "IN_PROGRESS"
                               /\ k \notin deleted => attempt'[k] = attempt[k]
      BY <2>1, <1>1 DEF Attempt, OpenAttempts
    <2>4. RowsStay
      BY <2>2, <2>3 DEF RowsStay, FinalResults
    <2>5. ResultsDated
      BY <1>2, <2>3, NoNewResult DEF FinalResults
    <2> QED BY <1>2, <2>4, <2>5, NoRecordReplaced, SameDayVInv
  <1> QED BY <1>3, <1>4

LEMMA ApplicationVInv == ASSUME IInv, VInv, ApplicationStep PROVE VInv'
PROOF
  <1> PICK a \in AppId, s \in School :
         \/ \E v \in Vehicle : createApplication(a, v, s)
         \/ markReadyToPrint(a, s)
         \/ \E approved \in BOOLEAN : reviewApplication(a, s, approved)
         \/ \E isAdmin \in BOOLEAN : cancelApplication(a, s, isAdmin)
    BY DEF ApplicationStep
  <1>1. ASSUME NEW v \in Vehicle, createApplication(a, v, s) PROVE VInv'
    BY <1>1, InsertVInv DEF createApplication
  <1>2. CASE markReadyToPrint(a, s)
    BY <1>2, TransitionVInv DEF markReadyToPrint
  <1>3. ASSUME NEW approved \in BOOLEAN, reviewApplication(a, s, approved) PROVE VInv'
    <2> DEFINE next == IF approved THEN "READY_TO_PRINT" ELSE "REJECTED"
    <2>1. next # "NONE" /\ Transition(a, next, {})
      BY <1>3 DEF reviewApplication
    <2> HIDE DEF next
    <2> QED BY <2>1, TransitionVInv
  <1>4. ASSUME NEW isAdmin \in BOOLEAN, cancelApplication(a, s, isAdmin) PROVE VInv'
    BY <1>4, TransitionVInv DEF cancelApplication, AbortedBy
  <1> QED BY <1>1, <1>2, <1>3, <1>4

LEMMA StartVInv ==
    ASSUME IInv, VInv, NEW a \in AppId, NEW k \in AttemptId, NEW i \in Inspector,
           startInspection(a, k, i)
    PROVE VInv'
PROOF
  <1>1. app \in [AppId -> App] /\ attempt \in [AttemptId -> Attempt]
    BY DEF IInv, TypeOK
  <1>2. /\ UNCHANGED <<finals, docs, today, older, overtaken>> /\ tx' = tx
        /\ attempt[k].result = "NONE"
        /\ attempt'[k].result = "IN_PROGRESS"
        /\ \A j \in AttemptId : j # k => attempt'[j] = attempt[j]
        /\ app'[a].status = "INSPECTION_PENDING" /\ app'[a].vehicle = app[a].vehicle
        /\ \A b \in AppId : b # a => app'[b] = app[b]
    BY <1>1 DEF startInspection, fleet, calendar, NoAttempt, App
  <1>3. RowsStay
    BY <1>2 DEF RowsStay, FinalResults
  <1>4. ResultsDated
    BY <1>2, NoNewResult DEF FinalResults
  <1> QED BY <1>2, <1>3, <1>4, NoRecordReplaced, SameDayVInv

\* What a COMMIT does to the rows and to the transactions.
LEMMA CommitRows ==
    ASSUME IInv, VInv, NEW t \in Conn,
           \/ FinalizeCommit(t) \/ AbortCommit(t) \/ QualifyCommit(t)
           \/ AuthorizeCommit(t) \/ OlderCommit(t)
    PROVE /\ RowsStay /\ ResultsDated /\ Commit(t)
          /\ \A v \in Vehicle : WillCertify(t, v) =>
                /\ FinalizeCommit(t) => \E k \in AttemptId :
                      /\ attempt'[k].result = "PASSED" /\ attempt'[k].expiry >= today
                      /\ app[attempt'[k].app].vehicle = v
PROOF
  <1>1. /\ app \in [AppId -> App] /\ attempt \in [AttemptId -> Attempt]
        /\ finals \in Nat /\ tx[t] \in Transaction
    BY DEF IInv, TypeOK
  <1>2. CASE QualifyCommit(t) \/ AuthorizeCommit(t) \/ OlderCommit(t)
    <2>1. UNCHANGED <<app, attempt, finals>> /\ Commit(t) /\ ~FinalizeCommit(t)
      BY <1>2 DEF QualifyCommit, AuthorizeCommit, OlderCommit, FinalizeCommit, rows
    <2> QED BY <2>1, NoNewResult DEF RowsStay
  <1>3. CASE FinalizeCommit(t) \/ AbortCommit(t)
    <2> DEFINE k == tx[t].attempt
               a == attempt[k].app
    <2>1. /\ k \in AttemptId /\ attempt[k].result = "IN_PROGRESS" /\ a \in AppId
          /\ app[a].status = "INSPECTION_PENDING" /\ Commit(t)
      BY <1>3 DEF FinalizeCommit, AbortCommit, IInv, TxOK, AwaitedOK, Inspecting
    <2>2. /\ \A j \in AttemptId : j # k => attempt'[j] = attempt[j]
          /\ \A b \in AppId : b # a => app'[b] = app[b]
          /\ attempt'[k].app = a /\ app'[a].vehicle = app[a].vehicle
      <3>1. CASE FinalizeCommit(t)
        <4> DEFINE r == tx[t].result
        <4>1. /\ attempt' = [attempt EXCEPT ![k].result = r, ![k].date = tx[t].date,
                                            ![k].expiry = tx[t].until, ![k].order = finals + 1]
              /\ app' = [app EXCEPT ![a].status = Outcome(r), ![a].key = @ /\ ~ReleasesKey(r)]
          BY <3>1 DEF FinalizeCommit
        <4>2. a = attempt[k].app
          OBVIOUS
        <4> HIDE DEF k, a, r
        <4> QED BY <1>1, <2>1, <4>1, <4>2 DEF Attempt, App
      <3>2. CASE AbortCommit(t)
        BY <1>1, <3>2, <2>1 DEF AbortCommit, Attempt, App
      <3> QED BY <1>3, <3>1, <3>2
    <2>3. CASE FinalizeCommit(t)
      <3>1. /\ attempt'[k].result = tx[t].result /\ attempt'[k].date = tx[t].date
            /\ attempt'[k].expiry = tx[t].until /\ attempt'[k].order = finals + 1
            /\ finals' = finals + 1
        BY <1>1, <2>1, <2>3 DEF FinalizeCommit, Attempt
      <3>2. tx[t].op = "finalize" /\ tx[t].date <= today /\ tx[t].result \in FinalResults
        BY <1>1, <2>3 DEF FinalizeCommit, VInv, VerdictOK, Transaction
      <3>3. app'[a].status # "NONE"
        <4>1. app'[a].status = Outcome(tx[t].result)
          BY <1>1, <2>1, <2>3 DEF FinalizeCommit, App
        <4> QED BY <3>2, <4>1 DEF Outcome, FinalResults
      <3> HIDE DEF k, a
      <3>4. RowsStay
        BY <2>1, <2>2, <3>3 DEF RowsStay, FinalResults, a
      <3>5. ResultsDated
        BY <1>1, <2>1, <2>2, <3>1, <3>2, <3>3 DEF ResultsDated
      <3>6. ASSUME NEW v \in Vehicle, WillCertify(t, v)
            PROVE /\ attempt'[k].result = "PASSED" /\ attempt'[k].expiry >= today
                  /\ app[attempt'[k].app].vehicle = v
        BY <3>1, <3>6, <2>2 DEF WillCertify, k, a
      <3> QED BY <2>1, <3>4, <3>5, <3>6
    <2>4. CASE AbortCommit(t)
      <3>1. /\ attempt'[k].result = "DELETED" /\ finals' = finals
            /\ app'[a].status = "READY_TO_PRINT" /\ ~FinalizeCommit(t)
        BY <1>1, <2>1, <2>4 DEF AbortCommit, FinalizeCommit, Attempt, App
      <3> HIDE DEF k, a
      <3>2. RowsStay
        BY <2>1, <2>2, <3>1 DEF RowsStay, FinalResults, a
      <3>3. ResultsDated
        BY <2>2, <3>1, NoNewResult DEF FinalResults
      <3> QED BY <2>1, <3>1, <3>2, <3>3
    <2> QED BY <1>3, <2>3, <2>4
  <1> QED BY <1>2, <1>3

LEMMA CommitVInv == ASSUME IInv, VInv, CommitStep PROVE VInv'
PROOF
  <1> PICK t \in Conn :
         \/ FinalizeCommit(t) \/ AbortCommit(t) \/ QualifyCommit(t)
         \/ AuthorizeCommit(t) \/ OlderCommit(t)
    BY DEF CommitStep
  <1>1. RowsStay /\ ResultsDated /\ Commit(t)
    BY CommitRows
  <1>3. CertificatesKept
    <2> SUFFICES ASSUME NEW u \in Conn, tx[u].op # "none", tx'[u] = tx[u]
                 PROVE /\ overtaken[u] \subseteq overtaken'[u]
                       /\ \A k \in OlderId : older[k].result = "PASSED" =>
                             older'[k] = older[k] \/ older[k] \in overtaken'[u]
      BY DEF CertificatesKept
    <2>1. u # t
      BY <1>1 DEF Commit, NoTransaction, IInv, TypeOK
    <2>2. overtaken'[u] = overtaken[u] \cup Replaced(t)
      BY <1>1, <2>1 DEF Commit
    <2>3. \A k \in OlderId : older'[k] = IF k = tx[t].older THEN tx[t].row ELSE older[k]
      BY <1>1 DEF Commit
    <2> QED BY <2>2, <2>3 DEF Replaced
  <1>2. /\ UNCHANGED <<docs, today>>
        /\ \A u \in Conn : tx'[u] = tx[u] \/ tx'[u] = NoTransaction
    BY <1>1 DEF Commit, calendar, IInv, TypeOK
  <1> QED BY <1>1, <1>2, <1>3, SameDayVInv

LEMMA InspectionVInv == ASSUME IInv, VInv, InspectionStep PROVE VInv'
PROOF
  <1> PICK k \in AttemptId, i \in Inspector :
         \/ \E a \in AppId : startInspection(a, k, i)
         \/ \E t \in Conn, isAdmin \in BOOLEAN : AbortBegin(t, k, i, isAdmin)
         \/ \E t \in Conn, result \in FinalResults, date \in Days,
               expiry \in 0 .. MaxDay + 1 : FinalizeBegin(t, k, i, result, date, expiry)
    BY DEF InspectionStep
  <1>1. ASSUME NEW t \in Conn, NEW result \in FinalResults, NEW date \in Days,
               NEW expiry \in 0 .. MaxDay + 1, FinalizeBegin(t, k, i, result, date, expiry)
        PROVE VInv'
    <2>1. date \in Nat /\ expiry \in Nat
      BY DaysType
    <2> QED BY <1>1, <2>1, FinalizeBeginVInv
  <1>2. ASSUME NEW t \in Conn, NEW isAdmin \in BOOLEAN, AbortBegin(t, k, i, isAdmin)
        PROVE VInv'
    BY <1>2, AbortBeginVInv
  <1> QED BY <1>1, <1>2, StartVInv

LEMMA DriverVInv == ASSUME IInv, VInv, DriverStep PROVE VInv'
PROOF
  <1> PICK d \in Driver, v \in Vehicle :
         \/ \E a \in AppId : createDriverApplication(a, v, d)
         \/ endAssignment(d, v)
         \/ \E t \in Conn, day \in Days : AuthorizeBegin(t, d, v, day) \/ QualifyBegin(t, d, day)
    BY DEF DriverStep
  <1>1. ASSUME NEW a \in AppId, createDriverApplication(a, v, d) PROVE VInv'
    BY <1>1, InsertVInv DEF createDriverApplication
  <1>2. CASE endAssignment(d, v)
    BY <1>2, UnmovedVInv DEF endAssignment, rows, records, calendar
  <1> QED BY <1>1, <1>2, DriverBeginVInv, DaysType

LEMMA NextVInv == IInv /\ VInv /\ [Next]_vars => VInv'
PROOF
  <1> SUFFICES ASSUME IInv, VInv, [Next]_vars PROVE VInv'
    OBVIOUS
  <1>1. ASSUME NEW v \in Vehicle, NEW s \in School, RosterEdit(v, s) PROVE VInv'
    BY <1>1, UnmovedVInv DEF RosterEdit, rows, records, calendar
  <1>2. CASE TermChanges
    BY <1>2, UnmovedVInv DEF TermChanges, rows, fleet
  <1>3. CASE DayPasses
    <2>1. /\ UNCHANGED <<app, attempt, finals, tx>> /\ today' = today + 1 /\ today \in Nat
          /\ \A t \in Conn : tx[t].op = "none"
      BY <1>3 DEF DayPasses, Idle, rows, IInv, TypeOK
    <2>2. DatedOK'
      <3>1. \A k \in AttemptId : attempt[k].date \in Nat
        BY DEF IInv, TypeOK, Attempt
      <3> QED BY <2>1, <3>1 DEF VInv, DatedOK
    <2>3. \A t \in Conn : VerdictOK(t)'
      BY <2>1 DEF VInv, VerdictOK
    <2> QED BY <2>2, <2>3 DEF VInv
  <1>4. CASE UNCHANGED vars
    BY <1>4, UnmovedVInv DEF vars
  <1> QED BY <1>1, <1>2, <1>3, <1>4, ApplicationVInv, InspectionVInv, DriverVInv, OlderVInv, CommitVInv
          DEF Next

LEMMA InitVInv == Init => VInv
  BY DEF Init, VInv, DatedOK, VerdictOK, NoAttempt, NoTransaction, FinalResults

-----------------------------------------------------------------------------
(* Theorem *)

\* The verdict a COMMIT writes rests on a certificate that is valid that day.
LEMMA VerdictsCleared ==
    ASSUME IInv, VInv, [Next]_vars, NEW v \in Vehicle,
           status'[v] = "ELIGIBLE", status[v] # "ELIGIBLE"
    PROVE /\ docs[v] >= today
          /\ \/ \E k \in AttemptId : /\ attempt'[k].result = "PASSED"
                                     /\ attempt'[k].expiry >= today
                                     /\ app[attempt'[k].app].vehicle = v
             \/ \E t \in Conn : ClearedOnOlder(t, v)
PROOF
  <1>1. CommitStep
    <2>1. ApplicationStep => status' = status
      BY DEF ApplicationStep, createApplication, markReadyToPrint, reviewApplication,
             cancelApplication, Insert, Transition, fleet
    <2>2. InspectionStep => status' = status
      <3>1. ASSUME NEW t, NEW transaction, Begin(t, transaction) PROVE status' = status
        BY <3>1 DEF Begin, fleet
      <3>2. ASSUME NEW a \in AppId, NEW k \in AttemptId, NEW i \in Inspector, startInspection(a, k, i)
            PROVE status' = status
        BY <3>2 DEF startInspection, fleet
      <3>3. ASSUME NEW t, NEW k, NEW i, NEW isAdmin, AbortBegin(t, k, i, isAdmin)
            PROVE status' = status
        BY <3>1, <3>3 DEF AbortBegin
      <3>4. ASSUME NEW t, NEW k, NEW i, NEW result, NEW date, NEW expiry,
                   FinalizeBegin(t, k, i, result, date, expiry)
            PROVE status' = status
        BY <3>1, <3>4 DEF FinalizeBegin
      <3> SUFFICES ASSUME InspectionStep PROVE status' = status
        OBVIOUS
      <3>5. PICK k \in AttemptId, i \in Inspector :
               \/ \E a \in AppId : startInspection(a, k, i)
               \/ \E t \in Conn, isAdmin \in BOOLEAN : AbortBegin(t, k, i, isAdmin)
               \/ \E t \in Conn, result \in FinalResults, date \in Days,
                     expiry \in 0 .. MaxDay + 1 : FinalizeBegin(t, k, i, result, date, expiry)
        BY DEF InspectionStep
      <3> QED BY <3>2, <3>3, <3>4, <3>5
    <2>3. DriverStep => status' = status
      BY DEF DriverStep, createDriverApplication, Insert, endAssignment, AuthorizeBegin,
             QualifyBegin, Begin, fleet
    <2>4. \A u \in Vehicle, s \in School : RosterEdit(u, s) => status' = status
      BY DEF RosterEdit
    <2>5. DayPasses \/ TermChanges \/ UNCHANGED vars => status' = status
      BY DEF DayPasses, TermChanges, vars, fleet
    <2>6. OlderStep => status' = status
      BY OlderStepOpens DEF fleet
    <2> QED BY <2>1, <2>2, <2>3, <2>4, <2>5, <2>6 DEF Next
  <1>2. PICK t \in Conn :
           \/ FinalizeCommit(t) \/ AbortCommit(t) \/ QualifyCommit(t)
           \/ AuthorizeCommit(t) \/ OlderCommit(t)
    BY <1>1 DEF CommitStep
  <1>3. tx[t].write[v] = "ELIGIBLE"
    <2>1. Commit(t)
      BY <1>2, CommitRows
    <2> QED BY <2>1 DEF Commit
  <1>4. /\ docs[v] >= today
        /\ \/ WillCertify(t, v)
           \/ \E k \in AttemptId : Certifies(k, v)
           \/ BasedOnOlder(t, v)
    BY <1>3 DEF VInv, VerdictOK
  <1>5. CASE WillCertify(t, v)
    <2>1. FinalizeCommit(t)
      BY <1>2, <1>5 DEF WillCertify, AbortCommit, QualifyCommit, AuthorizeCommit, OlderCommit
    <2> QED BY <1>4, <1>5, <2>1, CommitRows
  <1>6. ASSUME NEW k \in AttemptId, Certifies(k, v) PROVE attempt'[k] = attempt[k]
    <2>1. RowsStay
      BY <1>2, CommitRows
    <2> QED BY <1>6, <2>1 DEF Certifies, RowsStay, FinalResults
  <1>7. CASE BasedOnOlder(t, v)
    <2>1. Commit(t)
      BY <1>2, CommitRows
    <2>2. tx'[t].op = "none"
      BY <2>1 DEF Commit, NoTransaction, IInv, TypeOK
    <2>3. \A k \in OlderId : older'[k] = IF k = tx[t].older THEN tx[t].row ELSE older[k]
      BY <2>1 DEF Commit
    <2>4. PICK row \in {older[k] : k \in OlderId \ {tx[t].older}} \cup {tx[t].row} \cup overtaken[t] :
             Valid(row, v)
      BY <1>7 DEF BasedOnOlder
    <2>5. row = tx[t].row => tx[t].older \in OlderId
      BY <2>4 DEF VInv, VerdictOK, Valid, NoOlder
    <2>6. row \in {older'[k] : k \in OlderId} \cup overtaken[t]
      BY <2>3, <2>4, <2>5
    <2> QED BY <1>3, <1>4, <1>7, <2>2, <2>4, <2>6 DEF ClearedOnOlder, BasedOnOlder
  <1> QED BY <1>4, <1>5, <1>6, <1>7 DEF Certifies

\* finalizeInspection and refreshVehicleEligibility behind the seven operations
\* that write vehicles.verification_status: however requests interleave, a bus
\* turns ELIGIBLE only with its documents in date and on an inspection that was
\* PASSED and has not expired on that day, an older record counting only while no
\* attempt was finalized.
THEOREM ClearedOnValidCertificateAlways == Spec => ClearedOnValidCertificate
PROOF
  <1> DEFINE A == \A v \in Vehicle :
                    status'[v] = "ELIGIBLE" /\ status[v] # "ELIGIBLE" =>
                       /\ docs[v] >= today
                       /\ \/ \E k \in AttemptId : /\ attempt'[k].result = "PASSED"
                                                  /\ attempt'[k].expiry >= today
                                                  /\ app[attempt'[k].app].vehicle = v
                          \/ \E t \in Conn : ClearedOnOlder(t, v)
  <1>1. IInv /\ VInv /\ [Next]_vars => [A]_vars
    BY VerdictsCleared
  <1>2. Spec => [][A]_vars
    BY <1>1, Invariance, InitVInv, NextVInv, PTL DEF Spec
  <1> QED BY <1>2 DEF ClearedOnValidCertificate

=============================================================================
