---------------------------- MODULE PlatformProofs ----------------------------
(***************************************************************************)
(* Proofs about the components that Platform runs side by side: for each,  *)
(* an invariant that its own steps keep, then, at the end, the theorems    *)
(* about the platform.  The one of sessions is in SessionProofs.           *)
(***************************************************************************)
EXTENDS Platform, SessionProofs

-----------------------------------------------------------------------------
(* Documents *)

HandlerWork ==
    [at : {"idle"}]
    \cup [at : {"review"}, doc : DocId, decision : {"APPROVED", "REJECTED"}]
    \cup [at : {"delete"}, doc : DocId]

DocumentsTypeOK ==
    /\ doc \in [DocId -> [state : {"none", "stored", "deleted"},
                          review : {"PENDING", "APPROVED", "REJECTED"},
                          by : Uploader \cup {"none"}]]
    /\ handler \in [Handler -> HandlerWork]

\* The row that a handler has locked is locked by it alone, is still stored, and is
\* not approved while it is about to be deleted.
DocumentsInv ==
    /\ DocumentsTypeOK
    /\ ApprovedEvidenceKept
    /\ \A h, g \in Handler :
          handler[h].at # "idle" /\ handler[g].at # "idle" /\ handler[h].doc = handler[g].doc
             => h = g
    /\ \A h \in Handler :
          handler[h].at # "idle" => doc[handler[h].doc].state = "stored"
    /\ \A h \in Handler :
          handler[h].at = "delete" => doc[handler[h].doc].review # "APPROVED"

LEMMA DocumentsInductive == DocumentsInv /\ [DocumentsNext]_documentVars => DocumentsInv'
  <1> SUFFICES ASSUME DocumentsInv, [DocumentsNext]_documentVars
               PROVE  DocumentsInv'
    OBVIOUS
  <1> USE DEF DocumentsInv, DocumentsTypeOK, ApprovedEvidenceKept, HandlerWork, NoHandler
  <1>1. ASSUME NEW d \in DocId, NEW u \in Uploader, AddDocument(d, u)
        PROVE  DocumentsInv'
    BY <1>1 DEF AddDocument
  <1>2. ASSUME NEW h \in Handler, NEW d \in DocId, NEW v \in {"APPROVED", "REJECTED"},
               LockToReview(h, d, v)
        PROVE  DocumentsInv'
    BY <1>2 DEF LockToReview, DocumentFree
  <1>3. ASSUME NEW h \in Handler, NEW d \in DocId, NEW u \in Uploader, LockToDelete(h, d, u)
        PROVE  DocumentsInv'
    BY <1>3 DEF LockToDelete, DocumentFree
  <1>4. ASSUME NEW h \in Handler, WriteReview(h)
        PROVE  DocumentsInv'
    BY <1>4 DEF WriteReview
  <1>5. ASSUME NEW h \in Handler, WriteDeletion(h)
        PROVE  DocumentsInv'
    BY <1>5 DEF WriteDeletion
  <1>6. ASSUME NEW h \in Handler, HandlerFails(h)
        PROVE  DocumentsInv'
    BY <1>6 DEF HandlerFails
  <1>7. CASE UNCHANGED documentVars
    BY <1>7 DEF documentVars
  <1> QED
    BY <1>1, <1>2, <1>3, <1>4, <1>5, <1>6, <1>7 DEF DocumentsNext

-----------------------------------------------------------------------------
(* Emergency *)

EmergencyTypeOK ==
    /\ report \in [ReportId -> [state : {"none", "stored", "deleted"},
                                by : Driving \cup {"nobody"}, detail : Detail \cup {"none"},
                                at : Nat, closed : BOOLEAN]]
    /\ tap \in [Tap -> [at : {"waiting", "inserting", "answered", "failed"},
                        by : Driving \cup {"nobody"}, detail : Detail \cup {"none"}]]
    /\ clock \in Nat

\* One tap of a reporter at a time is between its dedupe read and its INSERT, and what
\* the read found missing is missing until then.
EmergencyInv ==
    /\ EmergencyTypeOK
    /\ RepeatsCollapse
    /\ \A r \in ReportId : report[r].at <= clock
    /\ \A s, t \in Tap :
          tap[s].at = "inserting" /\ tap[t].at = "inserting" /\ tap[s].by = tap[t].by => s = t
    /\ \A t \in Tap : tap[t].at = "inserting" => Repeats(tap[t].by, tap[t].detail) = {}

LEMMA EmergencyInductive == EmergencyInv /\ [EmergencyNext]_emergencyVars => EmergencyInv'
  <1> SUFFICES ASSUME EmergencyInv, [EmergencyNext]_emergencyVars
               PROVE  EmergencyInv'
    OBVIOUS
  <1> USE EmergencyAssumption
          DEF EmergencyInv, EmergencyTypeOK, RepeatsCollapse, Repeats
  <1>1. CASE ClockTicks
    BY <1>1 DEF ClockTicks
  <1>2. ASSUME NEW t \in Tap, NEW u \in Driving, NEW d \in Detail, ReadReports(t, u, d)
        PROVE  EmergencyInv'
    BY <1>2 DEF ReadReports, ReporterFree
  <1>3. ASSUME NEW t \in Tap, InsertReport(t)
        PROVE  EmergencyInv'
    BY <1>3 DEF InsertReport
  <1>4. ASSUME NEW t \in Tap, ReportFails(t)
        PROVE  EmergencyInv'
    BY <1>4 DEF ReportFails
  <1>5. ASSUME NEW r \in ReportId, ResolveReport(r)
        PROVE  EmergencyInv'
    BY <1>5 DEF ResolveReport
  <1>6. ASSUME NEW r \in ReportId, DeleteReport(r)
        PROVE  EmergencyInv'
    BY <1>6 DEF DeleteReport
  <1>7. CASE UNCHANGED emergencyVars
    BY <1>7 DEF emergencyVars
  <1> QED
    BY <1>1, <1>2, <1>3, <1>4, <1>5, <1>6, <1>7 DEF EmergencyNext

-----------------------------------------------------------------------------
(* Terms *)

\* One term is current, and the targets of the requests under way exist.
TermsInv ==
    /\ \E t \in terms : current = {t}
    /\ terms \subseteq TermId
    /\ \A a \in Admin : switch[a].at = "locked" => switch[a].target \in terms
    /\ DOMAIN switch = Admin

LEMMA TermsInductive == TermsInv /\ [TermsNext]_termsVars => TermsInv'
  <1> SUFFICES ASSUME TermsInv, [TermsNext]_termsVars
               PROVE  TermsInv'
    OBVIOUS
  <1> USE DEF TermsInv
  <1>1. ASSUME NEW t \in TermId, createTerm(t)
        PROVE  TermsInv'
    BY <1>1 DEF createTerm
  <1>2. ASSUME NEW a \in Admin, NEW t \in TermId, LockTarget(a, t)
        PROVE  TermsInv'
    BY <1>2 DEF LockTarget
  <1>3. ASSUME NEW a \in Admin, ClearAndSet(a)
        PROVE  TermsInv'
    BY <1>3 DEF ClearAndSet, Scanned, NoSwitch
  <1>4. ASSUME NEW a \in Admin, SwitchFails(a)
        PROVE  TermsInv'
    BY <1>4 DEF SwitchFails, NoSwitch
  <1>5. CASE UNCHANGED termsVars
    BY <1>5 DEF termsVars
  <1> QED
    BY <1>1, <1>2, <1>3, <1>4, <1>5 DEF TermsNext

LEMMA TermsInvImplies == TermsInv => OneCurrentTerm
  BY FS_Singleton DEF TermsInv, OneCurrentTerm

-----------------------------------------------------------------------------
(* Linking *)

LinkWork ==
    [at : {"idle"}]
    \cup [at : {"check", "insert"}, user : LineUser, phone : Phone]
    \cup [at : {"unlink"}, user : LineUser]

\* No account is bound to two phones.
LinkingInv ==
    /\ binding \in [Phone -> LineUser \cup {NoOneBound}]
    /\ link \in [Link -> LinkWork]
    /\ \A p, q \in Phone : binding[p] = binding[q] /\ binding[p] # NoOneBound => p = q

LEMMA LinkingInductive == LinkingInv /\ [LinkingNext]_linkingVars => LinkingInv'
  <1> SUFFICES ASSUME LinkingInv, [LinkingNext]_linkingVars
               PROVE  LinkingInv'
    OBVIOUS
  <1> USE DEF LinkingInv, LinkWork, Handles, Unasked, NoOneBound, BoundPhone
  <1>1. ASSUME NEW h \in Link, NEW u \in LineUser, NEW p \in Phone,
               tryLink(h, u, p) \/ confirmLink(h, u, p)
        PROVE  LinkingInv'
    BY <1>1 DEF tryLink, confirmLink
  <1>2. ASSUME NEW h \in Link, CheckBinding(h)
        PROVE  LinkingInv'
    BY <1>2 DEF CheckBinding
  <1>3. ASSUME NEW h \in Link, WriteBinding(h)
        PROVE  LinkingInv'
    BY <1>3 DEF WriteBinding, Upserted
  <1>4. ASSUME NEW h \in Link, NEW u \in LineUser, unlinkAccount(h, u)
        PROVE  LinkingInv'
    BY <1>4 DEF unlinkAccount
  <1>5. ASSUME NEW h \in Link, unbindLineUser(h)
        PROVE  LinkingInv'
    BY <1>5 DEF unbindLineUser
  <1>6. ASSUME NEW u \in LineUser, removeLineUser(u)
        PROVE  LinkingInv'
    BY <1>6 DEF removeLineUser
  <1>7. ASSUME NEW h \in Link, LinkingFails(h)
        PROVE  LinkingInv'
    BY <1>7 DEF LinkingFails
  <1>8. CASE UNCHANGED linkingVars
    BY <1>8 DEF linkingVars
  <1> QED
    BY <1>1, <1>2, <1>3, <1>4, <1>5, <1>6, <1>7, <1>8 DEF LinkingNext

\* A binding is made of a free account and a free phone, and undone for the account
\* that holds it.
LetsGo ==
    \A p \in Phone :
       \/ binding'[p] = binding[p]
       \/ /\ binding[p] = NoOneBound
          /\ \A q \in Phone : binding'[q] = binding'[p] => q = p
       \/ /\ binding'[p] = NoOneBound
          /\ \E h \in Link : link[h].at = "unlink" /\ link[h].user = binding[p]

LEMMA LinkingLetsGo == LinkingInv /\ LinkingNext => LetsGo
  <1> SUFFICES ASSUME LinkingInv, LinkingNext
               PROVE  LetsGo
    OBVIOUS
  <1> USE DEF LetsGo
  <1>1. ASSUME NEW h \in Link, WriteBinding(h)
        PROVE  LetsGo
    BY <1>1 DEF WriteBinding, Upserted, LinkingInv, LinkWork, BoundPhone, NoOneBound
  <1>2. ASSUME NEW h \in Link, unbindLineUser(h)
        PROVE  LetsGo
    BY <1>2 DEF unbindLineUser, LinkingInv
  <1>3. CASE binding' = binding
    BY <1>3
  <1> QED
    BY <1>1, <1>2, <1>3 DEF LinkingNext, tryLink, confirmLink, CheckBinding, unlinkAccount,
       removeLineUser, LinkingFails

-----------------------------------------------------------------------------
(* Route deviations *)

PingStep ==
    [at : {"none", "done"}]
    \cup [at : {"check", "done"}, now : Nat, left : SUBSET DeviationType]
    \cup [at : {"insert"}, now : Nat, left : SUBSET DeviationType, type : DeviationType,
          from : Nat]

\* While a ping is about to insert, nobody inserts a row that its search would have
\* found: the gap it holds reaches up from `from`, and others insert below it.
DeviationInv ==
    /\ deviations \in [DeviationType -> Seq(Nat)]
    /\ ping \in [Ping -> PingStep]
    /\ time \in Nat
    /\ \A p \in Ping : ping[p].at = "insert" =>
          /\ ping[p].from = 0 \/ ping[p].from + QuietTime <= time
          /\ Recent(ping[p].type) = {}

LEMMA DeviationInductive == DeviationInv /\ [DeviationNext]_deviationVars => DeviationInv'
  <1> SUFFICES ASSUME DeviationInv, [DeviationNext]_deviationVars
               PROVE  DeviationInv'
    OBVIOUS
  <1> USE DeviationAssumption DEF DeviationInv, PingStep
  <1>1. CASE TimeTicks
    BY <1>1 DEF TimeTicks, Recent
  <1>2. ASSUME NEW p \in Ping, Arrive(p)
        PROVE  DeviationInv'
    BY <1>2 DEF Arrive, NoPing, Recent
  <1>3. ASSUME NEW p \in Ping, NEW k \in DeviationType, SearchRecent(p, k)
        PROVE  DeviationInv'
    <2>1. CASE Recent(k) # {}
      <3> DEFINE rest == Rest(p, k)
                 step == [at |-> IF rest = {} THEN "done" ELSE "check", now |-> ping[p].now,
                          left |-> rest]
      <3>a. ping[p].now \in Nat /\ rest \in SUBSET DeviationType
        BY <1>3 DEF SearchRecent, Rest
      <3>b. step \in PingStep /\ step.at # "insert"
        BY <3>a
      <3>c. ping' = [ping EXCEPT ![p] = step]
        BY <1>3, <2>1 DEF SearchRecent, Onward, Waits
      <3> HIDE DEF step, rest
      <3>1. ping' \in [Ping -> PingStep] /\ ping'[p].at # "insert"
        BY <3>b, <3>c
      <3>2. \A q \in Ping \ {p} : ping'[q] = ping[q]
        BY <1>3, <2>1 DEF SearchRecent, Onward, Waits
      <3> QED
        BY <1>3, <3>1, <3>2 DEF SearchRecent, Recent
    <2>2. CASE Recent(k) = {}
      <3> DEFINE step == [at |-> "insert", now |-> ping[p].now, left |-> ping[p].left, type |-> k,
                          from |-> IF time < QuietTime THEN 0 ELSE time - QuietTime]
      <3>1. ping' = [ping EXCEPT ![p] = step]
        BY <1>3, <2>2 DEF SearchRecent
      <3>2. step.from \in Nat /\ (step.from = 0 \/ step.from + QuietTime <= time)
        OBVIOUS
      <3>3. step \in PingStep
        BY <1>3, <3>2 DEF SearchRecent
      <3>4. deviations' = deviations /\ time' = time
        BY <1>3 DEF SearchRecent
      <3>5. step.type = k
        OBVIOUS
      <3> HIDE DEF step
      <3>6. ping' \in [Ping -> PingStep]
        BY <3>1, <3>3
      <3>7. ASSUME NEW q \in Ping, ping'[q].at = "insert"
            PROVE  /\ ping'[q].from = 0 \/ ping'[q].from + QuietTime <= time
                   /\ Recent(ping'[q].type) = {}
        <4>1. CASE q = p
          BY <4>1, <2>2, <3>1, <3>2, <3>5
        <4>2. CASE q # p
          BY <4>2, <3>1, <3>7
        <4> QED
          BY <4>1, <4>2
      <3> QED
        BY <3>4, <3>6, <3>7 DEF Recent
    <2> QED
      BY <2>1, <2>2
  <1>4. ASSUME NEW p \in Ping, InsertDeviation(p)
        PROVE  DeviationInv'
    <2> DEFINE d == ping[p].type
    <2>1. d \in DeviationType /\ ping[p].now \in Nat
      BY <1>4 DEF InsertDeviation
    <2>2. /\ deviations' = [deviations EXCEPT ![d] = Append(@, ping[p].now)]
          /\ time' = time
      BY <1>4 DEF InsertDeviation
    <2>3. deviations' \in [DeviationType -> Seq(Nat)]
      BY <2>1, <2>2
    <2>4. ping' \in [Ping -> PingStep] /\ ping'[p].at # "insert"
      BY <1>4 DEF InsertDeviation, Onward, Waits, Rest
    <2>5. \A q \in Ping \ {p} : ping'[q] = ping[q]
      BY <1>4 DEF InsertDeviation, Onward, Waits
    <2>6. ASSUME NEW q \in Ping, ping'[q].at = "insert"
          PROVE  Recent(ping[q].type)' = {}
      <3>1. q # p /\ ping[q].at = "insert" /\ ping[q].type \in DeviationType
        BY <2>4, <2>5, <2>6
      <3>2. CASE ping[q].type # d
        <4>1. deviations'[ping[q].type] = deviations[ping[q].type] /\ time' = time
          BY <2>1, <2>2, <3>1, <3>2
        <4>2. ping'[q].type = ping[q].type
          BY <2>5, <3>1
        <4> QED
          BY <3>1, <4>1, <4>2 DEF Recent
      <3>3. CASE ping[q].type = d
        <4>1. ping[p].now < ping[q].from /\ ping[q].from \in Nat
          BY <1>4, <3>1 DEF InsertDeviation, GapFree
        <4>2. ping[p].now + QuietTime < time
          BY <2>1, <3>1, <4>1
        <4>3. /\ deviations'[d] = Append(deviations[d], ping[p].now)
              /\ deviations[d] \in Seq(Nat)
          BY <2>1, <2>2
        <4>4. \A i \in DOMAIN deviations[d] : ~(deviations[d][i] + QuietTime >= time)
          BY <3>1, <3>3 DEF Recent
        <4>5. \A i \in DOMAIN deviations'[d] : ~(deviations'[d][i] + QuietTime >= time)
          BY <4>2, <4>3, <4>4, <2>1
        <4> QED
          BY <2>2, <2>5, <3>1, <3>3, <4>5 DEF Recent
      <3> QED
        BY <3>2, <3>3
    <2>7. ASSUME NEW q \in Ping, ping'[q].at = "insert"
          PROVE  /\ ping'[q].from = 0 \/ ping'[q].from + QuietTime <= time'
                 /\ Recent(ping[q].type)' = {}
      BY <2>2, <2>4, <2>5, <2>6, <2>7
    <2> QED
      BY <2>2, <2>3, <2>4, <2>7 DEF Recent
  <1>5. ASSUME NEW p \in Ping, PingFails(p)
        PROVE  DeviationInv'
    BY <1>5 DEF PingFails, Recent
  <1>6. CASE UNCHANGED deviationVars
    BY <1>6 DEF deviationVars, Recent
  <1> QED
    BY <1>1, <1>2, <1>3, <1>4, <1>5, <1>6 DEF DeviationNext

LEMMA InsertIsNew ==
  DeviationInv /\ DeviationNext =>
     \A k \in DeviationType : deviations'[k] # deviations[k] => Recent(k) = {}
  <1> SUFFICES ASSUME DeviationInv, DeviationNext, NEW k \in DeviationType,
                      deviations'[k] # deviations[k]
               PROVE  Recent(k) = {}
    OBVIOUS
  <1>1. PICK p \in Ping : InsertDeviation(p)
    BY DEF DeviationNext, TimeTicks, Arrive, SearchRecent, PingFails
  <1>2. k = ping[p].type
    BY <1>1 DEF InsertDeviation, DeviationInv
  <1> QED
    BY <1>1, <1>2 DEF InsertDeviation, DeviationInv

-----------------------------------------------------------------------------
(* Fleet *)

RequestStatus == {"none", "pending", "applied", "already", "failed", "cancelled", "rejected"}

ClerkJob ==
    [at : {"idle"}]
    \cup [at : {"ask"}, type : {"restore", "other"}, bus : FleetBus, plate : Plate \cup {"none"}]
    \cup [at : {"deny"}, request : VehicleReq, decision : {"cancelled", "rejected"}]
    \cup [at : {"approve", "restore", "mark"}, request : VehicleReq]

FleetTypeOK ==
    /\ vehicle \in [FleetBus -> [state : {"none", "active", "deleted"},
                                 plate : Plate \cup {"none"}]]
    /\ vreq \in [VehicleReq -> [status : RequestStatus, type : {"none", "restore", "other"},
                                bus : FleetBus \cup {"none"}, plate : Plate \cup {"none"}]]
    /\ clerk \in [Clerk -> ClerkJob]
    /\ restores \in [VehicleReq -> Nat]

Holds(c, q) == clerk[c].at \in {"approve", "restore"} /\ clerk[c].request = q

\* A request that an approval holds is pending and held by it alone; only a pending one
\* can bring its bus back, and one that did is never pending again.
FleetInv ==
    /\ FleetTypeOK
    /\ RestoredOnRequest
    /\ \A c \in Clerk, q \in VehicleReq : Holds(c, q) => vreq[q].status = "pending"
    /\ \A c, d \in Clerk, q \in VehicleReq : Holds(c, q) /\ Holds(d, q) => c = d

LEMMA DecideFacts ==
  ASSUME FleetTypeOK, NEW q \in VehicleReq, NEW status \in RequestStatus, Decide(q, status)
  PROVE  /\ vreq' \in [VehicleReq -> [status : RequestStatus, type : {"none", "restore", "other"},
                                      bus : FleetBus \cup {"none"}, plate : Plate \cup {"none"}]]
         /\ vreq'[q].status = status
         /\ \A p \in VehicleReq \ {q} : vreq'[p] = vreq[p]
  BY DEF FleetTypeOK, Decide

LEMMA GoFacts ==
  ASSUME FleetTypeOK, NEW c \in Clerk, NEW job \in ClerkJob, Go(c, job)
  PROVE  /\ clerk' \in [Clerk -> ClerkJob]
         /\ clerk'[c] = job
         /\ \A d \in Clerk \ {c} : clerk'[d] = clerk[d]
  BY DEF FleetTypeOK, Go

LEMMA JobFacts ==
  ASSUME FleetTypeOK, NEW c \in Clerk
  PROVE  /\ AtDesk \in ClerkJob /\ AtDesk.at = "idle"
         /\ clerk[c].at \in {"approve", "restore", "mark"} => clerk[c].request \in VehicleReq
         /\ clerk[c].at = "deny" =>
               clerk[c].request \in VehicleReq /\ clerk[c].decision \in {"cancelled", "rejected"}
  BY DEF FleetTypeOK, ClerkJob, AtDesk

\* A handler ends by deciding a request that no other holds: one that is pending, or
\* else as failed.
LEMMA ClosingStep ==
  ASSUME FleetInv, NEW c \in Clerk, NEW q \in VehicleReq,
         NEW status \in {"applied", "already", "failed", "cancelled", "rejected"},
         Decide(q, status), Go(c, AtDesk),
         \A d \in Clerk \ {c} : ~Holds(d, q),
         vreq[q].status = "pending" \/ status = "failed",
         vehicle' \in [FleetBus -> [state : {"none", "active", "deleted"},
                                    plate : Plate \cup {"none"}]],
         \/ restores' = restores
         \/ /\ restores' = [restores EXCEPT ![q] = @ + 1]
            /\ vreq[q].status = "pending" /\ status = "applied"
  PROVE  FleetInv'
  <1>1. FleetTypeOK /\ RestoredOnRequest
    BY DEF FleetInv
  <1>2. /\ vreq' \in [VehicleReq -> [status : RequestStatus, type : {"none", "restore", "other"},
                                    bus : FleetBus \cup {"none"}, plate : Plate \cup {"none"}]]
        /\ vreq'[q].status = status
        /\ \A p \in VehicleReq \ {q} : vreq'[p] = vreq[p]
    <2>1. status \in RequestStatus
      BY DEF RequestStatus
    <2> QED
      BY <1>1, <2>1, DecideFacts
  <1>3. /\ clerk' \in [Clerk -> ClerkJob]
        /\ clerk'[c].at = "idle"
        /\ \A d \in Clerk \ {c} : clerk'[d] = clerk[d]
    BY <1>1, JobFacts, GoFacts
  <1>4. /\ restores \in [VehicleReq -> Nat] /\ restores' \in [VehicleReq -> Nat]
        /\ \A p \in VehicleReq \ {q} : restores'[p] = restores[p]
        /\ restores'[q] = restores[q] \/ restores'[q] = restores[q] + 1
    BY <1>1 DEF FleetTypeOK
  <1>5. restores[q] <= 1 /\ (vreq[q].status = "pending" => restores[q] = 0)
    BY <1>1, <1>4 DEF RestoredOnRequest
  <1>6. FleetTypeOK'
    BY <1>2, <1>3, <1>4 DEF FleetTypeOK
  <1>7. RestoredOnRequest'
    <2>1. restores'[q] <= 1 /\ (restores'[q] = 1 => status \in {"applied", "failed"})
      BY <1>4, <1>5, <1>1 DEF RestoredOnRequest
    <2> QED
      BY <2>1, <1>1, <1>2, <1>4 DEF RestoredOnRequest
  <1>8. \A d \in Clerk, p \in VehicleReq : Holds(d, p)' => Holds(d, p) /\ p # q
    BY <1>3 DEF Holds
  <1> QED
    BY <1>2, <1>6, <1>7, <1>8 DEF FleetInv

LEMMA FleetInductive == FleetInv /\ [FleetNext]_fleetVars => FleetInv'
  <1> SUFFICES ASSUME FleetInv, [FleetNext]_fleetVars
               PROVE  FleetInv'
    OBVIOUS
  <1>a. FleetTypeOK
    BY DEF FleetInv
  <1>b. \A c \in Clerk : clerk[c].at \in {"approve", "restore"} =>
           /\ Holds(c, clerk[c].request)
           /\ vreq[clerk[c].request].status = "pending"
           /\ \A d \in Clerk \ {c} : ~Holds(d, clerk[c].request)
    BY <1>a, JobFacts DEF FleetInv, Holds
  <1>1. ASSUME NEW b \in FleetBus, NEW p \in Plate, AddVehicle(b, p)
        PROVE  FleetInv'
    BY <1>1 DEF AddVehicle, FleetInv, FleetTypeOK, RestoredOnRequest, Holds
  <1>2. ASSUME NEW b \in FleetBus, NEW p \in Plate, correctVehicle(b, p)
        PROVE  FleetInv'
    BY <1>2 DEF correctVehicle, FleetInv, FleetTypeOK, RestoredOnRequest, Holds
  <1>3. ASSUME NEW b \in FleetBus, softDeleteVehicle(b)
        PROVE  FleetInv'
    BY <1>3 DEF softDeleteVehicle, FleetInv, FleetTypeOK, RestoredOnRequest, Holds
  <1>4. ASSUME NEW b \in FleetBus, NEW w \in FleetBus, mergeVehicles(b, w)
        PROVE  FleetInv'
    BY <1>4 DEF mergeVehicles, FleetInv, FleetTypeOK, RestoredOnRequest, Holds
  <1>5. ASSUME NEW c \in Clerk, NEW b \in FleetBus, NEW t \in {"restore", "other"},
               CheckVehicleRequest(c, b, t)
        PROVE  FleetInv'
    BY <1>5 DEF CheckVehicleRequest, Go, ClerkJob, FleetInv, FleetTypeOK, RestoredOnRequest, Holds
  <1>6. ASSUME NEW c \in Clerk, NEW q \in VehicleReq, NEW d \in {"cancelled", "rejected"},
               CheckDenial(c, q, d)
        PROVE  FleetInv'
    BY <1>6 DEF CheckDenial, Go, ClerkJob, FleetInv, FleetTypeOK, RestoredOnRequest, Holds
  <1>7. ASSUME NEW c \in Clerk, NEW q \in VehicleReq, LockVehicleRequest(c, q)
        PROVE  FleetInv'
    BY <1>7 DEF LockVehicleRequest, RequestFree, Go, ClerkJob, FleetInv, FleetTypeOK,
                RestoredOnRequest, Holds
  <1>8. ASSUME NEW c \in Clerk, InsertVehicleRequest(c)
        PROVE  FleetInv'
    BY <1>8 DEF InsertVehicleRequest, Go, AtDesk, ClerkJob, RequestStatus, FleetInv, FleetTypeOK,
                RestoredOnRequest, Holds
  <1>9. ASSUME NEW c \in Clerk, WriteDenial(c)
        PROVE  FleetInv'
    <2>1. clerk[c].request \in VehicleReq /\ clerk[c].decision \in {"cancelled", "rejected"}
      BY <1>9, <1>a, JobFacts DEF WriteDenial
    <2>2. CASE StillPending(clerk[c].request)
      <3>1. \A d \in Clerk \ {c} : ~Holds(d, clerk[c].request)
        BY <1>9 DEF WriteDenial, RequestFree, Holds
      <3>2. Decide(clerk[c].request, clerk[c].decision) /\ Go(c, AtDesk) /\ UNCHANGED <<vehicle, restores>>
        BY <1>9, <2>2 DEF WriteDenial
      <3> QED
        BY <1>a, <2>1, <2>2, <3>1, <3>2, ClosingStep DEF StillPending, FleetTypeOK
    <2>3. CASE ~StillPending(clerk[c].request)
      BY <1>9, <2>3 DEF WriteDenial, Go, AtDesk, ClerkJob, FleetInv, FleetTypeOK, RestoredOnRequest, Holds
    <2> QED
      BY <2>2, <2>3
  <1>10. ASSUME NEW c \in Clerk, ApproveForInformation(c)
         PROVE  FleetInv'
    <2>1. Decide(clerk[c].request, "applied") /\ Go(c, AtDesk) /\ UNCHANGED <<vehicle, restores>>
          /\ clerk[c].at = "approve"
      BY <1>10 DEF ApproveForInformation
    <2> QED
      BY <1>a, <1>b, <2>1, JobFacts, ClosingStep DEF FleetTypeOK
  <1>11. ASSUME NEW c \in Clerk, ReadDeleted(c)
         PROVE  FleetInv'
    <2>1. clerk[c].at = "approve" /\ UNCHANGED <<vehicle, restores>>
      BY <1>11 DEF ReadDeleted
    <2>2. ASSUME NEW status \in {"already", "failed"}, Decide(clerk[c].request, status), Go(c, AtDesk)
          PROVE  FleetInv'
      BY <1>a, <1>b, <2>1, <2>2, JobFacts, ClosingStep DEF FleetTypeOK
    <2>3. ASSUME UNCHANGED vreq, Go(c, [at |-> "restore", request |-> clerk[c].request])
          PROVE  FleetInv'
      <3>1. clerk[c].request \in VehicleReq
        BY <1>a, <2>1, JobFacts
      <3> QED
        BY <2>1, <2>3, <3>1 DEF Go, ClerkJob, FleetInv, FleetTypeOK, RestoredOnRequest, Holds
    <2> QED
      BY <1>11, <2>2, <2>3 DEF ReadDeleted
  <1>12. ASSUME NEW c \in Clerk, RestoreVehicle(c)
         PROVE  FleetInv'
    <2> DEFINE q == clerk[c].request
    <2>1. /\ clerk[c].at = "restore" /\ Decide(q, "applied") /\ Go(c, AtDesk)
          /\ restores' = [restores EXCEPT ![q] = @ + 1]
          /\ vehicle' = [vehicle EXCEPT ![vreq[q].bus].state = "active"]
      BY <1>12 DEF RestoreVehicle
    <2>2. vehicle' \in [FleetBus -> [state : {"none", "active", "deleted"},
                                     plate : Plate \cup {"none"}]]
      BY <1>a, <2>1 DEF FleetTypeOK
    <2> QED
      BY <1>b, <1>a, <2>1, <2>2, JobFacts, ClosingStep
  <1>13. ASSUME NEW c \in Clerk, RestoreCollides(c)
         PROVE  FleetInv'
    BY <1>13, <1>a, JobFacts DEF RestoreCollides, Go, ClerkJob, FleetInv, FleetTypeOK,
                RestoredOnRequest, Holds
  <1>14. ASSUME NEW c \in Clerk, MarkFailed(c)
         PROVE  FleetInv'
    <2>1. /\ clerk[c].at = "mark" /\ Decide(clerk[c].request, "failed") /\ Go(c, AtDesk)
          /\ UNCHANGED <<vehicle, restores>>
          /\ \A d \in Clerk \ {c} : ~Holds(d, clerk[c].request)
      BY <1>14 DEF MarkFailed, RequestFree, Holds
    <2> QED
      BY <1>a, <2>1, JobFacts, ClosingStep DEF FleetTypeOK
  <1>15. ASSUME NEW c \in Clerk, ClerkFails(c)
         PROVE  FleetInv'
    BY <1>15 DEF ClerkFails, Go, AtDesk, ClerkJob, FleetInv, FleetTypeOK, RestoredOnRequest, Holds
  <1>16. CASE UNCHANGED fleetVars
    BY <1>16 DEF fleetVars, FleetInv, FleetTypeOK, RestoredOnRequest, Holds
  <1> QED
    BY <1>1, <1>2, <1>3, <1>4, <1>5, <1>6, <1>7, <1>8, <1>9, <1>10, <1>11, <1>12, <1>13,
       <1>14, <1>15, <1>16 DEF FleetNext

-----------------------------------------------------------------------------
(* Recovery *)

LinkRow ==
    [at : {"none", "asked", "failed", "PENDING", "SENT", "FAILED", "deleted"},
     to : LineAccount \cup {NoLine}, used : BOOLEAN, wrong : Nat, since : Nat,
     outlived : Nat]

\* A link that was issued and that nothing has retired.
Alive(q) == resetLink[q].at \in {"PENDING", "SENT"} /\ ~resetLink[q].used

\* A link still alive, and one that is being asked for, is of the account as it is; at
\* most one is alive, and at most one is being asked for.
RecoveryInv ==
    /\ bound \in LineAccount \cup {NoLine}
    /\ resetLink \in [LinkId -> LinkRow]
    /\ changes \in Nat
    /\ \A q \in LinkId : Alive(q) \/ resetLink[q].at = "asked" =>
          resetLink[q].to = bound /\ resetLink[q].since + resetLink[q].outlived = changes
    /\ \A p, q \in LinkId : Alive(p) /\ Alive(q) => p = q
    /\ \A p, q \in LinkId : resetLink[p].at = "asked" /\ resetLink[q].at = "asked" => p = q
    /\ \A q \in LinkId : resetLink[q].at \in {"none", "asked"} =>
          ~resetLink[q].used /\ resetLink[q].outlived = 0

\* Retiring leaves no link alive and the links that are being asked for as they are.
LEMMA RetiredFacts ==
  ASSUME RecoveryInv, NEW q \in LinkId
  PROVE  /\ Retired(resetLink) \in [LinkId -> LinkRow]
         /\ Retired(resetLink)[q].at = resetLink[q].at
         /\ resetLink[q].at \notin {"PENDING", "SENT"} => Retired(resetLink)[q] = resetLink[q]
         /\ resetLink[q].at \in {"PENDING", "SENT"} => Retired(resetLink)[q].used
  BY DEF RecoveryInv, Retired, LinkRow

LEMMA RecoveryInductive == RecoveryInv /\ [RecoveryNext]_recoveryVars => RecoveryInv'
  <1> SUFFICES ASSUME RecoveryInv, [RecoveryNext]_recoveryVars
               PROVE  RecoveryInv'
    OBVIOUS
  <1>a. /\ Retired(resetLink) \in [LinkId -> LinkRow]
        /\ \A q \in LinkId :
              /\ Retired(resetLink)[q].at = resetLink[q].at
              /\ resetLink[q].at \notin {"PENDING", "SENT"} => Retired(resetLink)[q] = resetLink[q]
              /\ resetLink[q].at \in {"PENDING", "SENT"} => Retired(resetLink)[q].used
    BY RetiredFacts DEF RecoveryInv, Retired
  <1> USE RecoveryAssumption DEF RecoveryInv, LinkRow, Alive, AccountFree, Changed, NoLine
  <1>1. ASSUME NEW a \in LineAccount, handleLinkLine(a)
        PROVE  RecoveryInv'
    BY <1>1, <1>a DEF handleLinkLine
  <1>2. CASE handleRegenerateCodes
    BY <1>2, <1>a DEF handleRegenerateCodes
  <1>3. CASE handleUnlinkLine
    BY <1>3 DEF handleUnlinkLine
  <1>4. ASSUME NEW q \in LinkId, AskForLink(q)
        PROVE  RecoveryInv'
    <2>1. /\ \A p \in LinkId : resetLink[p].at # "asked"
          /\ resetLink[q].at = "none" /\ bound' = bound /\ changes' = changes
      BY <1>4 DEF AskForLink
    <2> DEFINE row == [resetLink[q] EXCEPT !.at = "asked", !.to = bound, !.since = changes]
    <2>a. row \in LinkRow /\ row.at = "asked" /\ row.to = bound /\ row.since = changes
          /\ row.used = resetLink[q].used /\ row.outlived = 0
      <3>1. resetLink[q] \in LinkRow /\ ~resetLink[q].used /\ resetLink[q].outlived = 0
        BY <2>1
      <3> QED
        BY <3>1
    <2>b. resetLink' = [resetLink EXCEPT ![q] = row]
      BY <1>4 DEF AskForLink
    <2> HIDE DEF row
    <2>2. /\ resetLink' \in [LinkId -> LinkRow]
          /\ resetLink'[q].at = "asked" /\ ~resetLink'[q].used
          /\ resetLink'[q].to = bound /\ resetLink'[q].since = changes
          /\ resetLink'[q].outlived = 0
          /\ \A p \in LinkId \ {q} : resetLink'[p] = resetLink[p]
      BY <2>1, <2>a, <2>b
    <2>3. \A p \in LinkId : Alive(p)' => Alive(p) /\ p # q
      BY <2>2
    <2> HIDE DEF LinkRow, Alive
    <2> QED
      BY <2>1, <2>2, <2>3
  <1>5. ASSUME NEW q \in LinkId, IssueLink(q)
        PROVE  RecoveryInv'
    <2> DEFINE r == Retired(resetLink)
    <2>1. /\ resetLink[q].at = "asked" /\ ~resetLink[q].used /\ r[q] = resetLink[q]
          /\ resetLink' = [r EXCEPT ![q].at = "PENDING"]
          /\ bound' = bound /\ changes' = changes
      BY <1>5, <1>a DEF IssueLink
    <2>2. r \in [LinkId -> LinkRow]
      BY <1>a
    <2> HIDE DEF r
    <2>3. resetLink' \in [LinkId -> LinkRow]
      BY <2>1, <2>2
    <2>4. /\ resetLink'[q].at = "PENDING" /\ resetLink'[q].to = bound
          /\ resetLink'[q].since + resetLink'[q].outlived = changes /\ ~resetLink'[q].used
      BY <2>1, <2>2
    <2>5. ASSUME NEW p \in LinkId \ {q}
          PROVE  ~Alive(p)' /\ resetLink'[p].at # "asked" /\ (resetLink'[p].at = "none" =>
                     ~resetLink'[p].used /\ resetLink'[p].outlived = 0)
      <3>1. resetLink'[p] = r[p]
        BY <2>1, <2>2
      <3> QED
        BY <3>1, <2>1, <1>a DEF r
    <2> QED
      BY <2>1, <2>3, <2>4, <2>5
  <1>6. ASSUME NEW q \in LinkId, LinkFails(q)
        PROVE  RecoveryInv'
    BY <1>6 DEF LinkFails
  <1>7. ASSUME NEW q \in LinkId, MarkDelivery(q)
        PROVE  RecoveryInv'
    BY <1>7 DEF MarkDelivery
  <1>8. ASSUME NEW q \in LinkId, WrongCode(q)
        PROVE  RecoveryInv'
    <2>1. /\ resetLink[q].at = "SENT" /\ bound' = bound /\ changes' = changes
      BY <1>8 DEF WrongCode, Usable
    <2> DEFINE spent == resetLink[q].wrong + 1 >= CodeAttempts
               row == [resetLink[q] EXCEPT !.wrong = resetLink[q].wrong + 1, !.used = spent]
    <2>a. row \in LinkRow /\ row.at = resetLink[q].at /\ row.to = resetLink[q].to
          /\ row.since = resetLink[q].since /\ row.outlived = resetLink[q].outlived
      <3>1. spent \in BOOLEAN /\ resetLink[q].wrong + 1 \in Nat /\ resetLink[q] \in LinkRow
        OBVIOUS
      <3> HIDE DEF spent
      <3> QED
        BY <3>1
    <2>b. resetLink' = [resetLink EXCEPT ![q] = row]
      BY <1>8 DEF WrongCode
    <2>c. ~resetLink[q].used
      BY <1>8 DEF WrongCode, Usable
    <2> HIDE DEF row
    <2>2. /\ resetLink' \in [LinkId -> LinkRow]
          /\ resetLink'[q].at = "SENT" /\ ~resetLink[q].used
          /\ resetLink'[q].to = resetLink[q].to /\ resetLink'[q].since = resetLink[q].since
          /\ resetLink'[q].outlived = resetLink[q].outlived
          /\ \A p \in LinkId \ {q} : resetLink'[p] = resetLink[p]
      BY <2>1, <2>a, <2>b, <2>c
    <2>3. \A p \in LinkId : /\ Alive(p)' => Alive(p)
                            /\ resetLink'[p].at = resetLink[p].at
                            /\ resetLink'[p].to = resetLink[p].to
                            /\ resetLink'[p].since = resetLink[p].since
                            /\ resetLink'[p].outlived = resetLink[p].outlived
                            /\ p # q => resetLink'[p].used = resetLink[p].used
      BY <2>1, <2>2
    <2> HIDE DEF LinkRow, Alive
    <2> QED
      BY <2>1, <2>2, <2>3
  <1>9. ASSUME NEW q \in LinkId, NEW spent \in {{}} \cup {{k} : k \in Code}, CompleteReset(q, spent)
        PROVE  RecoveryInv'
    <2>1. /\ resetLink' = Retired(resetLink) /\ bound' = bound /\ changes' = changes + 1
          /\ \A p \in LinkId : resetLink[p].at # "asked"
      BY <1>9 DEF CompleteReset
    <2>2. \A p \in LinkId : /\ ~Alive(p)' /\ resetLink'[p].at # "asked"
                            /\ resetLink'[p].at = "none" =>
                                  ~resetLink'[p].used /\ resetLink'[p].outlived = 0
      BY <2>1, <1>a
    <2> QED
      BY <2>1, <2>2, <1>a
  <1>10. CASE changePassword
    <2>1. /\ \A q \in LinkId : resetLink[q].at # "asked"
          /\ changes' = changes + 1 /\ bound' = bound
      BY <1>10 DEF changePassword
    <2>2. ASSUME NEW q \in LinkId
          PROVE  /\ resetLink'[q] \in LinkRow
                 /\ resetLink'[q].at = resetLink[q].at /\ resetLink'[q].used = resetLink[q].used
                 /\ resetLink'[q].to = resetLink[q].to
                 /\ resetLink'[q].since = resetLink[q].since
                 /\ resetLink'[q].outlived = IF Alive(q) THEN resetLink[q].outlived + 1
                                                         ELSE resetLink[q].outlived
      BY <1>10 DEF changePassword
    <2>3. resetLink' \in [LinkId -> LinkRow]
      <3>1. resetLink' = [q \in LinkId |-> resetLink'[q]]
        BY <1>10 DEF changePassword
      <3> QED
        BY <2>2, <3>1
    <2>4. \A q \in LinkId : /\ Alive(q)' <=> Alive(q)
                            /\ resetLink[q].since \in Nat /\ resetLink[q].outlived \in Nat
      BY <2>2
    <2>5. \A q \in LinkId : Alive(q)' \/ resetLink'[q].at = "asked" =>
             resetLink'[q].to = bound' /\ resetLink'[q].since + resetLink'[q].outlived = changes'
      BY <2>1, <2>2, <2>4
    <2>6. \A q \in LinkId : resetLink'[q].at \in {"none", "asked"} =>
             ~resetLink'[q].used /\ resetLink'[q].outlived = 0
      BY <2>2
    <2> HIDE DEF Alive, LinkRow
    <2> QED
      BY <2>1, <2>2, <2>3, <2>4, <2>5, <2>6
  <1>11. CASE UNCHANGED recoveryVars
    BY <1>11 DEF recoveryVars
  <1> QED
    BY <1>1, <1>2, <1>3, <1>4, <1>5, <1>6, <1>7, <1>8, <1>9, <1>10, <1>11 DEF RecoveryNext

LEMMA RecoveryInvImplies == RecoveryInv => UsableLinkIsCurrent
  BY DEF RecoveryInv, UsableLinkIsCurrent, Usable, Alive

-----------------------------------------------------------------------------
(* Registration *)

EntryState == {"none", "UNMATCHED", "MATCHED", "NOT_FOUND", "deleted"}
SliceStatus == {"NONE", "PENDING_SCHOOL_REVIEW", "APPROVED", "NEEDS_REVISION"}

RegWork ==
    [at : {"idle"}]
    \cup [at : {"add", "insert", "delete"}, entry : Entry, seen : SUBSET Entry]
    \cup [at : {"approve"}, school : RegSchool]

\* What a school has resolved counts as looked at, also while it is being approved: an
\* addition waits for the slice and then finds the approval.
RegistrationInv ==
    /\ DOMAIN slice = RegSchool
    /\ \A s \in RegSchool :
          /\ slice[s] = [status |-> slice[s].status, riders |-> slice[s].riders]
          /\ slice[s].status \in SliceStatus
    /\ entry \in [Entry -> EntryState]
    /\ reviewed \subseteq Entry
    /\ regWork \in [Reviewer -> RegWork]
    /\ \A e \in Entry : entry[e] \in {"MATCHED", "NOT_FOUND"} => e \in reviewed
    /\ \A c \in Reviewer : regWork[c].at = "approve" => RidersOf(regWork[c].school) \subseteq reviewed
    /\ NoUnreviewedRider

LEMMA RegistrationInductive ==
  RegistrationInv /\ [RegistrationNext]_registrationVars => RegistrationInv'
  <1> SUFFICES ASSUME RegistrationInv, [RegistrationNext]_registrationVars
               PROVE  RegistrationInv'
    OBVIOUS
  <1> USE SchoolOfAssumption
          DEF RegistrationInv, EntryState, SliceStatus, RegWork, NoUnreviewedRider, RidersOf,
              OnRoster, RegStep, NoRegWork
  <1>1. ASSUME NEW c \in Reviewer, NEW e \in Entry, AddReads(c, e)
        PROVE  RegistrationInv'
    BY <1>1 DEF AddReads
  <1>2. ASSUME NEW c \in Reviewer, NEW e \in Entry, DeleteLocks(c, e)
        PROVE  RegistrationInv'
    BY <1>2 DEF DeleteLocks
  <1>3. ASSUME NEW c \in Reviewer, NEW e \in Entry, NEW m \in {"UNMATCHED", "MATCHED", "NOT_FOUND"},
               ResolveEntry(c, e, m)
        PROVE  RegistrationInv'
    BY <1>3 DEF ResolveEntry
  <1>4. ASSUME NEW c \in Reviewer, AddLocks(c)
        PROVE  RegistrationInv'
    BY <1>4 DEF AddLocks
  <1>5. ASSUME NEW c \in Reviewer, AddCommits(c)
        PROVE  RegistrationInv'
    BY <1>5 DEF AddCommits, Reopened, SliceFree
  <1>6. ASSUME NEW c \in Reviewer, DeleteCommits(c)
        PROVE  RegistrationInv'
    BY <1>6 DEF DeleteCommits
  <1>7. ASSUME NEW c \in Reviewer, NEW s \in RegSchool, ApproveLocks(c, s)
        PROVE  RegistrationInv'
    BY <1>7 DEF ApproveLocks
  <1>8. ASSUME NEW c \in Reviewer, NEW s \in RegSchool, RejectSlice(c, s)
        PROVE  RegistrationInv'
    BY <1>8 DEF RejectSlice
  <1>9. ASSUME NEW c \in Reviewer, ApproveCommits(c)
        PROVE  RegistrationInv'
    BY <1>9 DEF ApproveCommits
  <1>10. ASSUME NEW c \in Reviewer, RegistrationFails(c)
         PROVE  RegistrationInv'
    BY <1>10 DEF RegistrationFails
  <1>11. CASE UNCHANGED registrationVars
    BY <1>11 DEF registrationVars
  <1> QED
    BY <1>1, <1>2, <1>3, <1>4, <1>5, <1>6, <1>7, <1>8, <1>9, <1>10, <1>11 DEF RegistrationNext

-----------------------------------------------------------------------------
(* Dispatch *)

DispatchRow ==
    [rows : SUBSET MessageId, ok : SUBSET MessageId, failed : SUBSET MessageId,
     accepted : SUBSET MessageId]

\* A run's row that LINE has accepted, whatever the run was told.
Accepted(r) == dispatch[r].ok \cup dispatch[r].accepted

DispatchTypeOK ==
    /\ message \in [MessageId -> [state : {"none", "unsent", "sent"}, retry : Nat]]
    /\ dispatch \in [Run -> DispatchRow]
    /\ pushed \in [MessageId -> Nat]
    /\ lost \in [MessageId -> Nat]
    /\ unheard \in [MessageId -> Nat]

\* The rows of a run are in one of its sets, and no two runs have the same row.
RunsApart ==
    /\ \A r \in Run : /\ dispatch[r].ok \subseteq dispatch[r].rows
                      /\ dispatch[r].failed \subseteq dispatch[r].rows \ dispatch[r].ok
                      /\ dispatch[r].accepted \subseteq dispatch[r].failed
    /\ \A q, r \in Run : q # r => dispatch[q].rows \cap dispatch[r].rows = {}

\* Every unheard push was counted as a retry, and a row is sent, or pushed, only while
\* there is one left.
RetriesCounted ==
    /\ \A m \in MessageId : unheard[m] <= message[m].retry /\ message[m].retry <= MaxRetries
    /\ \A m \in MessageId : message[m].state = "sent" => unheard[m] + 1 <= MaxRetries
    /\ \A r \in Run : \A m \in dispatch[r].rows :
          message[m].state = "unsent" /\ message[m].retry + 1 <= MaxRetries

\* A message was accepted once more than the pushes that were lost or unheard only while
\* the push is still to be committed, or after it was committed as sent.
PushesCounted ==
    \A m \in MessageId :
       /\ pushed[m] <= lost[m] + unheard[m] + 1
       /\ message[m].state # "sent" /\ (\A r \in Run : m \notin Accepted(r))
             => pushed[m] <= lost[m] + unheard[m]

DispatchInv == DispatchTypeOK /\ RunsApart /\ RetriesCounted /\ PushesCounted

LEMMA DispatchInvImplies == DispatchInv => PushedAgainOnlyIfLost
  <1> SUFFICES ASSUME DispatchInv, NEW m \in MessageId
               PROVE  /\ pushed[m] <= lost[m] + unheard[m] + 1
                      /\ pushed[m] <= lost[m] + MaxRetries
    BY DEF PushedAgainOnlyIfLost
  <1> USE DEF DispatchInv, DispatchTypeOK, RetriesCounted, PushesCounted, MaxRetries
  <1>1. /\ pushed[m] \in Nat /\ lost[m] \in Nat /\ unheard[m] \in Nat
        /\ message[m].retry \in Nat
    OBVIOUS
  <1>2. CASE message[m].state = "sent"
    BY <1>1, <1>2
  <1>3. CASE \E r \in Run : m \in Accepted(r)
    <2>1. PICK r \in Run : m \in dispatch[r].rows
      BY <1>3 DEF Accepted, RunsApart
    <2>2. message[m].retry + 1 <= MaxRetries
      BY <2>1
    <2> QED
      BY <1>1, <2>2
  <1>4. CASE message[m].state # "sent" /\ \A r \in Run : m \notin Accepted(r)
    BY <1>1, <1>4
  <1> QED
    BY <1>2, <1>3, <1>4

\* A run that ends lets its rows go.
LEMMA RunEnds ==
  ASSUME DispatchInv, NEW r \in Run, dispatch' = [dispatch EXCEPT ![r] = NoRun]
  PROVE  /\ dispatch' \in [Run -> DispatchRow]
         /\ dispatch'[r].rows = {} /\ Accepted(r)' = {}
         /\ \A q \in Run \ {r} : dispatch'[q] = dispatch[q] /\ Accepted(q)' = Accepted(q)
         /\ RunsApart'
  <1>1. NoRun \in DispatchRow /\ NoRun.rows = {} /\ NoRun.ok = {} /\ NoRun.failed = {}
        /\ NoRun.accepted = {}
    BY DEF NoRun, DispatchRow
  <1>2. /\ dispatch' \in [Run -> DispatchRow] /\ dispatch'[r] = NoRun
        /\ \A q \in Run \ {r} : dispatch'[q] = dispatch[q]
    BY <1>1 DEF DispatchInv, DispatchTypeOK
  <1> QED
    BY <1>1, <1>2 DEF Accepted, RunsApart, DispatchInv

LEMMA StartRunStep ==
  ASSUME DispatchInv, NEW r \in Run, NEW wanted \in SUBSET MessageId, StartRun(r, wanted)
  PROVE  DispatchInv'
  <1> DEFINE batch == Oldest(Due(wanted) \ LockedByOthers(r))
  <1>1. /\ batch \subseteq Due(wanted) \ LockedByOthers(r)
        /\ dispatch[r] = NoRun
        /\ dispatch' = [dispatch EXCEPT ![r].rows = batch]
        /\ UNCHANGED <<message, pushed, lost, unheard>>
    BY DEF StartRun, Oldest
  <1>2. /\ \A m \in batch : /\ m \in MessageId /\ message[m].state = "unsent"
                            /\ message[m].retry < MaxRetries
        /\ \A q \in Run \ {r} : batch \cap dispatch[q].rows = {}
    BY <1>1 DEF Due, LockedByOthers
  <1> HIDE DEF batch
  <1>3. /\ dispatch' \in [Run -> DispatchRow]
        /\ dispatch'[r].rows = batch /\ dispatch'[r].ok = {} /\ dispatch'[r].failed = {}
        /\ dispatch'[r].accepted = {}
        /\ \A q \in Run \ {r} : dispatch'[q] = dispatch[q]
    BY <1>1, <1>2 DEF NoRun, DispatchInv, DispatchTypeOK, DispatchRow
  <1>4. \A q \in Run : Accepted(q)' = Accepted(q)
    BY <1>1, <1>3 DEF NoRun, Accepted
  <1>5. DispatchTypeOK' /\ PushesCounted'
    BY <1>1, <1>3, <1>4 DEF DispatchInv, DispatchTypeOK, PushesCounted
  <1>6. RunsApart'
    BY <1>2, <1>3 DEF DispatchInv, RunsApart
  <1>7. RetriesCounted'
    <2>1. \A m \in batch : message[m].retry + 1 <= MaxRetries
      BY <1>2 DEF DispatchInv, DispatchTypeOK, MaxRetries
    <2> QED
      BY <1>1, <1>2, <1>3, <2>1 DEF DispatchInv, RetriesCounted
  <1> QED
    BY <1>5, <1>6, <1>7 DEF DispatchInv

LEMMA PushStep ==
  ASSUME DispatchInv, NEW r \in Run, Push(r)
  PROVE  DispatchInv'
  <1>1. PICK m \in ToPush(r) :
           /\ UNCHANGED <<message, lost, unheard>>
           /\ \/ /\ dispatch' = [dispatch EXCEPT ![r].ok = @ \cup {m}]
                 /\ pushed' = [pushed EXCEPT ![m] = @ + 1]
              \/ /\ dispatch' = [dispatch EXCEPT ![r].failed = @ \cup {m}]
                 /\ UNCHANGED pushed
              \/ /\ dispatch' = [dispatch EXCEPT ![r].failed = @ \cup {m},
                                                 ![r].accepted = @ \cup {m}]
                 /\ pushed' = [pushed EXCEPT ![m] = @ + 1]
    BY DEF Push
  <1>2. /\ m \in dispatch[r].rows /\ m \notin dispatch[r].ok /\ m \notin dispatch[r].failed
        /\ m \in MessageId
    BY DEF ToPush, DispatchInv, DispatchTypeOK, DispatchRow
  <1>3. (\A q \in Run : m \notin Accepted(q)) /\ message[m].state = "unsent"
    BY <1>2 DEF DispatchInv, RunsApart, RetriesCounted, Accepted
  <1>4. PICK d \in DispatchRow : d = dispatch[r]
    BY DEF DispatchInv, DispatchTypeOK
  <1>5. PICK now \in DispatchRow :
           /\ dispatch' = [dispatch EXCEPT ![r] = now]
           /\ now.rows = d.rows
           /\ \/ /\ now.ok = d.ok \cup {m} /\ now.failed = d.failed /\ now.accepted = d.accepted
                 /\ pushed' = [pushed EXCEPT ![m] = @ + 1]
              \/ /\ now.ok = d.ok /\ now.failed = d.failed \cup {m} /\ now.accepted = d.accepted
                 /\ UNCHANGED pushed
              \/ /\ now.ok = d.ok /\ now.failed = d.failed \cup {m}
                 /\ now.accepted = d.accepted \cup {m}
                 /\ pushed' = [pushed EXCEPT ![m] = @ + 1]
    <2>1. CASE /\ dispatch' = [dispatch EXCEPT ![r].ok = @ \cup {m}]
               /\ pushed' = [pushed EXCEPT ![m] = @ + 1]
      <3> DEFINE now == [d EXCEPT !.ok = d.ok \cup {m}]
      <3>1. /\ now \in DispatchRow /\ now.rows = d.rows /\ now.ok = d.ok \cup {m}
            /\ now.failed = d.failed /\ now.accepted = d.accepted
        BY <1>2 DEF DispatchRow
      <3>2. dispatch' = [dispatch EXCEPT ![r] = now]
        BY <1>4, <2>1
      <3> HIDE DEF now
      <3> QED
        BY <2>1, <3>1, <3>2
    <2>2. CASE /\ dispatch' = [dispatch EXCEPT ![r].failed = @ \cup {m}]
               /\ UNCHANGED pushed
      <3> DEFINE now == [d EXCEPT !.failed = d.failed \cup {m}]
      <3>1. /\ now \in DispatchRow /\ now.rows = d.rows /\ now.ok = d.ok
            /\ now.failed = d.failed \cup {m} /\ now.accepted = d.accepted
        BY <1>2 DEF DispatchRow
      <3>2. dispatch' = [dispatch EXCEPT ![r] = now]
        BY <1>4, <2>2
      <3> HIDE DEF now
      <3> QED
        BY <2>2, <3>1, <3>2
    <2>3. CASE /\ dispatch' = [dispatch EXCEPT ![r].failed = @ \cup {m},
                                               ![r].accepted = @ \cup {m}]
               /\ pushed' = [pushed EXCEPT ![m] = @ + 1]
      <3> DEFINE now == [rows |-> d.rows, ok |-> d.ok, failed |-> d.failed \cup {m},
                         accepted |-> d.accepted \cup {m}]
      <3>1. /\ now \in DispatchRow /\ now.rows = d.rows /\ now.ok = d.ok
            /\ now.failed = d.failed \cup {m} /\ now.accepted = d.accepted \cup {m}
        BY <1>2 DEF DispatchRow
      <3>2. [[d EXCEPT !.failed = d.failed \cup {m}] EXCEPT !.accepted = d.accepted \cup {m}] = now
        <4>1. PICK e \in DispatchRow : e = [d EXCEPT !.failed = d.failed \cup {m}]
          BY <1>2 DEF DispatchRow
        <4>2. e.rows = d.rows /\ e.ok = d.ok /\ e.failed = d.failed \cup {m}
              /\ e.accepted = d.accepted
          BY <4>1 DEF DispatchRow
        <4>3. [e EXCEPT !.accepted = d.accepted \cup {m}] = now
          BY <4>2 DEF DispatchRow
        <4> QED
          BY <4>1, <4>3
      <3>3. dispatch' = [dispatch EXCEPT ![r] =
               [[dispatch[r] EXCEPT !.failed = dispatch[r].failed \cup {m}]
                   EXCEPT !.accepted = dispatch[r].accepted \cup {m}]]
        BY <2>3 DEF DispatchInv, DispatchTypeOK
      <3>4. dispatch' = [dispatch EXCEPT ![r] = now]
        BY <1>4, <3>2, <3>3
      <3> HIDE DEF now
      <3> QED
        BY <2>3, <3>1, <3>4
    <2> QED
      BY <1>1, <2>1, <2>2, <2>3
  <1>6. dispatch'[r] = now /\ \A q \in Run \ {r} : dispatch'[q] = dispatch[q]
    BY <1>5 DEF DispatchInv, DispatchTypeOK
  <1>7. /\ pushed' \in [MessageId -> Nat]
        /\ \A n \in MessageId \ {m} : pushed'[n] = pushed[n]
        /\ pushed'[m] = IF m \in now.ok \cup now.accepted THEN pushed[m] + 1 ELSE pushed[m]
    <2>1. m \notin d.ok /\ m \notin d.accepted
      BY <1>2, <1>4 DEF DispatchInv, RunsApart
    <2>2. CASE m \in now.ok \cup now.accepted
      <3>1. pushed' = [pushed EXCEPT ![m] = @ + 1]
        BY <1>5, <2>1, <2>2
      <3> QED
        BY <1>2, <2>2, <3>1 DEF DispatchInv, DispatchTypeOK
    <2>3. CASE m \notin now.ok \cup now.accepted
      BY <1>5, <2>3 DEF DispatchInv, DispatchTypeOK
    <2> QED
      BY <2>2, <2>3
  <1>8. /\ \A q \in Run \ {r} : Accepted(q)' = Accepted(q)
        /\ Accepted(r)' = now.ok \cup now.accepted
        /\ now.ok \cup now.accepted \subseteq Accepted(r) \cup {m}
        /\ Accepted(r) \subseteq now.ok \cup now.accepted
    BY <1>4, <1>5, <1>6 DEF Accepted
  <1>9. DispatchTypeOK'
    BY <1>1, <1>5, <1>7 DEF DispatchInv, DispatchTypeOK
  <1>10. RunsApart'
    <2>1. \A q \in Run : dispatch'[q].rows = dispatch[q].rows
      BY <1>4, <1>5, <1>6
    <2>2. /\ now.ok \subseteq now.rows /\ now.failed \subseteq now.rows \ now.ok
          /\ now.accepted \subseteq now.failed
      BY <1>2, <1>4, <1>5 DEF DispatchInv, RunsApart
    <2> QED
      BY <1>6, <2>1, <2>2 DEF DispatchInv, RunsApart
  <1>11. RetriesCounted'
    BY <1>1, <1>4, <1>5, <1>6 DEF DispatchInv, RetriesCounted
  <1>12. PushesCounted'
    <2> SUFFICES ASSUME NEW n \in MessageId
                 PROVE  /\ pushed'[n] <= lost[n] + unheard[n] + 1
                        /\ message[n].state # "sent" /\ (\A q \in Run : n \notin Accepted(q)')
                              => pushed'[n] <= lost[n] + unheard[n]
      BY <1>1 DEF PushesCounted
    <2>1. CASE n # m
      BY <1>7, <1>8, <2>1 DEF DispatchInv, PushesCounted
    <2>2. CASE n = m
      <3>1. pushed[m] <= lost[m] + unheard[m]
        BY <1>2, <1>3 DEF DispatchInv, PushesCounted
      <3>2. pushed[m] \in Nat /\ lost[m] \in Nat /\ unheard[m] \in Nat
        BY <1>2 DEF DispatchInv, DispatchTypeOK
      <3>3. pushed'[m] = pushed[m] + 1 \/ (pushed'[m] = pushed[m])
        BY <1>7
      <3>4. (\A q \in Run : m \notin Accepted(q)') => pushed'[m] = pushed[m]
        BY <1>7, <1>8
      <3> QED
        BY <2>2, <3>1, <3>2, <3>3, <3>4
    <2> QED
      BY <2>1, <2>2
  <1> QED
    BY <1>9, <1>10, <1>11, <1>12 DEF DispatchInv

LEMMA CommitRunStep ==
  ASSUME DispatchInv, NEW r \in Run, CommitRun(r)
  PROVE  DispatchInv'
  <1>1. /\ dispatch' = [dispatch EXCEPT ![r] = NoRun]
        /\ unheard' = [m \in MessageId |->
              IF m \in dispatch[r].accepted THEN unheard[m] + 1 ELSE unheard[m]]
        /\ UNCHANGED <<pushed, lost>>
    BY DEF CommitRun
  <1>2. /\ dispatch' \in [Run -> DispatchRow]
        /\ dispatch'[r].rows = {} /\ Accepted(r)' = {}
        /\ \A q \in Run \ {r} : dispatch'[q] = dispatch[q] /\ Accepted(q)' = Accepted(q)
        /\ RunsApart'
    BY <1>1, RunEnds
  <1>3. ASSUME NEW m \in MessageId
        PROVE  /\ message'[m] \in [state : {"none", "unsent", "sent"}, retry : Nat]
               /\ message'[m].state = IF m \in dispatch[r].ok THEN "sent" ELSE message[m].state
               /\ message'[m].retry = IF m \in dispatch[r].failed THEN message[m].retry + 1
                                                               ELSE message[m].retry
    <2>1. message[m] \in [state : {"none", "unsent", "sent"}, retry : Nat]
      BY DEF DispatchInv, DispatchTypeOK
    <2>2. message'[m] = IF m \in dispatch[r].ok THEN [message[m] EXCEPT !.state = "sent"]
                        ELSE IF m \in dispatch[r].failed THEN [message[m] EXCEPT !.retry = @ + 1]
                        ELSE message[m]
      BY DEF CommitRun, Retried
    <2>3. m \in dispatch[r].failed => m \notin dispatch[r].ok
      BY DEF DispatchInv, RunsApart
    <2> QED
      BY <2>1, <2>2, <2>3
  <1>4. DispatchTypeOK'
    <2>1. message' \in [MessageId -> [state : {"none", "unsent", "sent"}, retry : Nat]]
      <3>1. message' = [m \in MessageId |-> message'[m]]
        BY DEF CommitRun
      <3> QED
        BY <1>3, <3>1
    <2> QED
      BY <1>1, <1>2, <2>1 DEF DispatchInv, DispatchTypeOK
  <1>5. \A m \in MessageId : m \in dispatch[r].ok \cup dispatch[r].failed =>
           /\ message[m].state = "unsent" /\ message[m].retry + 1 <= MaxRetries
           /\ \A q \in Run \ {r} : m \notin dispatch[q].rows
    BY DEF DispatchInv, RunsApart, RetriesCounted
  <1>6. RetriesCounted'
    <2>1. ASSUME NEW m \in MessageId
          PROVE  /\ unheard'[m] <= message'[m].retry /\ message'[m].retry <= MaxRetries
                 /\ message'[m].state = "sent" => unheard'[m] + 1 <= MaxRetries
      <3>1. /\ unheard[m] \in Nat /\ message[m].retry \in Nat
            /\ unheard[m] <= message[m].retry /\ message[m].retry <= MaxRetries
            /\ message[m].state = "sent" => unheard[m] + 1 <= MaxRetries
        BY DEF DispatchInv, DispatchTypeOK, RetriesCounted
      <3>2. /\ unheard'[m] = IF m \in dispatch[r].accepted THEN unheard[m] + 1 ELSE unheard[m]
            /\ m \in dispatch[r].accepted => m \in dispatch[r].failed
            /\ m \in dispatch[r].failed => m \notin dispatch[r].ok
        BY <1>1 DEF DispatchInv, RunsApart
      <3> QED
        BY <1>3, <1>5, <3>1, <3>2 DEF MaxRetries
    <2>2. \A q \in Run : \A m \in dispatch'[q].rows :
             message'[m].state = "unsent" /\ message'[m].retry + 1 <= MaxRetries
      <3> SUFFICES ASSUME NEW q \in Run, NEW m \in dispatch'[q].rows
                   PROVE  message'[m].state = "unsent" /\ message'[m].retry + 1 <= MaxRetries
        OBVIOUS
      <3>1. q # r /\ m \in dispatch[q].rows
        BY <1>2
      <3>2. m \in MessageId
        BY <3>1 DEF DispatchInv, DispatchTypeOK, DispatchRow
      <3>3. m \notin dispatch[r].ok /\ m \notin dispatch[r].failed
        BY <1>5, <3>1, <3>2
      <3> QED
        BY <1>3, <3>1, <3>2, <3>3 DEF DispatchInv, RetriesCounted
    <2> QED
      BY <2>1, <2>2 DEF RetriesCounted
  <1>7. PushesCounted'
    <2> SUFFICES ASSUME NEW m \in MessageId
                 PROVE  /\ pushed[m] <= lost[m] + unheard'[m] + 1
                        /\ message'[m].state # "sent" /\ (\A q \in Run : m \notin Accepted(q)')
                              => pushed[m] <= lost[m] + unheard'[m]
      BY <1>1 DEF PushesCounted
    <2>1. /\ pushed[m] \in Nat /\ lost[m] \in Nat /\ unheard[m] \in Nat
          /\ pushed[m] <= lost[m] + unheard[m] + 1
          /\ message[m].state # "sent" /\ (\A q \in Run : m \notin Accepted(q))
                => pushed[m] <= lost[m] + unheard[m]
      BY DEF DispatchInv, DispatchTypeOK, PushesCounted
    <2>2. unheard'[m] = IF m \in dispatch[r].accepted THEN unheard[m] + 1 ELSE unheard[m]
      BY <1>1
    <2>3. message'[m].state # "sent" => m \notin dispatch[r].ok /\ message[m].state # "sent"
      BY <1>3
    <2>4. (\A q \in Run : m \notin Accepted(q)') /\ m \notin dispatch[r].ok
             /\ m \notin dispatch[r].accepted => \A q \in Run : m \notin Accepted(q)
      BY <1>2 DEF Accepted
    <2> QED
      BY <2>1, <2>2, <2>3, <2>4
  <1> QED
    BY <1>2, <1>4, <1>6, <1>7 DEF DispatchInv

LEMMA LoseRunStep ==
  ASSUME DispatchInv, NEW r \in Run, LoseRun(r)
  PROVE  DispatchInv'
  <1>1. /\ dispatch' = [dispatch EXCEPT ![r] = NoRun]
        /\ lost' = [m \in MessageId |-> IF m \in Accepted(r) THEN lost[m] + 1 ELSE lost[m]]
        /\ UNCHANGED <<message, pushed, unheard>>
    BY DEF LoseRun, Accepted
  <1>2. /\ dispatch' \in [Run -> DispatchRow]
        /\ dispatch'[r].rows = {} /\ Accepted(r)' = {}
        /\ \A q \in Run \ {r} : dispatch'[q] = dispatch[q] /\ Accepted(q)' = Accepted(q)
        /\ RunsApart'
    BY <1>1, RunEnds
  <1>3. DispatchTypeOK'
    BY <1>1, <1>2 DEF DispatchInv, DispatchTypeOK
  <1>4. RetriesCounted'
    BY <1>1, <1>2 DEF DispatchInv, RetriesCounted
  <1>5. PushesCounted'
    <2> SUFFICES ASSUME NEW m \in MessageId
                 PROVE  /\ pushed[m] <= lost'[m] + unheard[m] + 1
                        /\ message[m].state # "sent" /\ (\A q \in Run : m \notin Accepted(q)')
                              => pushed[m] <= lost'[m] + unheard[m]
      BY <1>1 DEF PushesCounted
    <2>1. /\ pushed[m] \in Nat /\ lost[m] \in Nat /\ unheard[m] \in Nat
          /\ pushed[m] <= lost[m] + unheard[m] + 1
          /\ message[m].state # "sent" /\ (\A q \in Run : m \notin Accepted(q))
                => pushed[m] <= lost[m] + unheard[m]
      BY DEF DispatchInv, DispatchTypeOK, PushesCounted
    <2>2. lost'[m] = IF m \in Accepted(r) THEN lost[m] + 1 ELSE lost[m]
      BY <1>1
    <2>3. (\A q \in Run : m \notin Accepted(q)') /\ m \notin Accepted(r)
             => \A q \in Run : m \notin Accepted(q)
      BY <1>2
    <2> QED
      BY <2>1, <2>2, <2>3
  <1> QED
    BY <1>2, <1>3, <1>4, <1>5 DEF DispatchInv

LEMMA DispatchInductive == DispatchInv /\ [DispatchNext]_dispatchVars => DispatchInv'
  <1> SUFFICES ASSUME DispatchInv, [DispatchNext]_dispatchVars
               PROVE  DispatchInv'
    OBVIOUS
  <1>1. ASSUME NEW m \in MessageId, Queue(m)
        PROVE  DispatchInv'
    BY <1>1 DEF Queue, DispatchInv, DispatchTypeOK, RunsApart, RetriesCounted, PushesCounted,
                Accepted
  <1>2. ASSUME UNCHANGED <<message, dispatch, pushed, lost, unheard>>
        PROVE  DispatchInv'
    BY <1>2 DEF DispatchInv, DispatchTypeOK, RunsApart, RetriesCounted, PushesCounted, Accepted
  <1>3. MessageId \in SUBSET MessageId /\ Exceptional \in SUBSET MessageId
    BY DispatchAssumption
  <1> QED
    BY <1>1, <1>2, <1>3, StartRunStep, PushStep, CommitRunStep, LoseRunStep
       DEF DispatchNext, RunStep, LeavesWindow, dispatchVars

-----------------------------------------------------------------------------
(* Participation *)

\* Natural numbers are well ordered: the argument that replaces an induction.
LEMMA LeastNumber ==
  ASSUME NEW T \in SUBSET Nat, T # {}
  PROVE  \E n \in T : \A m \in T : n <= m
  <1> DEFINE I == {1 .. n : n \in T}
             R == StrictSubsetOrdering(Nat)
  <1>1. I \subseteq FiniteSubsetsOf(Nat)
    <2>1. ASSUME NEW n \in T
          PROVE  1 .. n \in SUBSET Nat /\ IsFiniteSet(1 .. n)
      <3>1. n \in Int /\ 1 \in Int
        OBVIOUS
      <3>2. IsFiniteSet(1 .. n)
        BY <3>1, FS_Interval
      <3> QED
        BY <3>2
    <2> QED
      BY <2>1 DEF FiniteSubsetsOf
  <1>2. IsWellFoundedOn(R, FiniteSubsetsOf(Nat))
    BY FS_StrictSubsetOrderingWellFounded
  <1>3. I # {}
    OBVIOUS
  <1> HIDE DEF R
  <1>4. PICK i \in I : \A j \in I : ~(<<j, i>> \in R)
    BY <1>1, <1>2, <1>3, WFMin
  <1>5. PICK n \in T : i = 1 .. n
    OBVIOUS
  <1>6. ASSUME NEW m \in T, m < n
        PROVE  FALSE
    <2>1. <<1 .. m, 1 .. n>> \in R
      <3>1. 1 .. m \subseteq 1 .. n /\ n \in 1 .. n /\ n \notin 1 .. m
        BY <1>6
      <3> QED
        BY <3>1 DEF R, StrictSubsetOrdering
    <2> QED
      BY <2>1, <1>4, <1>5
  <1> QED
    BY <1>6

\* s is what Replay computes of a log: the status after each of its events.
IsReplay(s, log) ==
    s = [n \in 1 .. Len(log) |-> IF n = 1 THEN log[1] ELSE After(s[n - 1], log[n])]

\* There is one replay of a log, ...
LEMMA ReplayUnique ==
  ASSUME NEW S, NEW log \in Seq(S), NEW f, NEW g, IsReplay(f, log), IsReplay(g, log)
  PROVE  f = g
  <1> DEFINE T == {n \in 1 .. Len(log) : f[n] # g[n]}
  <1>1. /\ f = [n \in 1 .. Len(log) |-> IF n = 1 THEN log[1] ELSE After(f[n - 1], log[n])]
        /\ g = [n \in 1 .. Len(log) |-> IF n = 1 THEN log[1] ELSE After(g[n - 1], log[n])]
    BY DEF IsReplay
  <1>2. T = {}
    <2> SUFFICES ASSUME T # {} PROVE FALSE
      OBVIOUS
    <2>1. T \in SUBSET Nat
      OBVIOUS
    <2>2. PICK n \in T : \A m \in T : n <= m
      BY <2>1, LeastNumber
    <2>3. n \in 1 .. Len(log) /\ f[n] # g[n]
      OBVIOUS
    <2>4. CASE n = 1
      BY <1>1, <2>3, <2>4
    <2>5. CASE n # 1
      <3>1. n - 1 \in 1 .. Len(log) /\ ~(n <= n - 1)
        BY <2>3, <2>5
      <3>2. f[n - 1] = g[n - 1]
        BY <3>1, <2>2
      <3>3. f[n] = After(f[n - 1], log[n]) /\ g[n] = After(g[n - 1], log[n])
        BY <1>1, <2>3, <2>5
      <3> QED
        BY <2>3, <3>2, <3>3
    <2> QED
      BY <2>4, <2>5
  <1>3. \A n \in 1 .. Len(log) : f[n] = g[n]
    BY <1>2
  <1>4. /\ DOMAIN f = 1 .. Len(log) /\ DOMAIN g = 1 .. Len(log)
        /\ f = [n \in DOMAIN f |-> f[n]] /\ g = [n \in DOMAIN g |-> g[n]]
    BY <1>1
  <1> QED
    BY <1>3, <1>4

\* ... and where there is one, Replay is it.
LEMMA ReplayIsReplay ==
  ASSUME NEW log, NEW s, IsReplay(s, log)
  PROVE  IsReplay(Replay(log), log)
  BY Zenon DEF Replay, IsReplay

\* One more event: the replay goes on from the status it had reached.
LEMMA ReplayAppend ==
  ASSUME NEW S, NEW log \in Seq(S), NEW e \in S, IsReplay(Replay(log), log)
  PROVE  LET more == Append(log, e) IN
         /\ IsReplay(Replay(more), more)
         /\ \A n \in 1 .. Len(log) : Replay(more)[n] = Replay(log)[n]
         /\ Replay(more)[Len(log) + 1] = IF log = <<>> THEN e ELSE After(Replay(log)[Len(log)], e)
  <1> DEFINE more == Append(log, e)
             f == Replay(log)
             g == [n \in 1 .. Len(more) |->
                     IF n <= Len(log) THEN f[n]
                     ELSE IF n = 1 THEN e ELSE After(f[n - 1], e)]
  <1>1. more \in Seq(S) /\ Len(more) = Len(log) + 1 /\ more[Len(log) + 1] = e
        /\ \A n \in 1 .. Len(log) : more[n] = log[n]
    OBVIOUS
  <1>2. Len(log) \in Nat
    OBVIOUS
  <1>3. f = [n \in 1 .. Len(log) |-> IF n = 1 THEN log[1] ELSE After(f[n - 1], log[n])]
    BY DEF IsReplay
  <1> HIDE DEF f, more
  <1>4. \A n \in 1 .. Len(more) : g[n] = IF n = 1 THEN more[1] ELSE After(g[n - 1], more[n])
    <2> SUFFICES ASSUME NEW n \in 1 .. Len(more)
                 PROVE  g[n] = IF n = 1 THEN more[1] ELSE After(g[n - 1], more[n])
      OBVIOUS
    <2>1. CASE n <= Len(log)
      <3>1. g[n] = f[n] /\ more[n] = log[n] /\ n \in 1 .. Len(log)
        BY <1>1, <1>2, <2>1
      <3>2. f[n] = IF n = 1 THEN log[1] ELSE After(f[n - 1], log[n])
        BY <1>3, <3>1
      <3>3. n # 1 => g[n - 1] = f[n - 1]
        BY <1>1, <1>2, <2>1
      <3> QED
        BY <3>1, <3>2, <3>3
    <2>2. CASE n = Len(log) + 1
      <3>1. more[n] = e
        BY <1>1, <2>2
      <3>2. g[n] = IF n = 1 THEN e ELSE After(f[n - 1], e)
        BY <1>2, <2>2
      <3>3. n # 1 => g[n - 1] = f[n - 1]
        BY <1>1, <1>2, <2>2
      <3> QED
        BY <3>1, <3>2, <3>3
    <2> QED
      BY <1>1, <1>2, <2>1, <2>2
  <1>5. IsReplay(g, more)
    BY <1>4 DEF IsReplay
  <1>6. IsReplay(Replay(more), more)
    BY <1>5, ReplayIsReplay
  <1>7. Replay(more) = g
    BY <1>1, <1>5, <1>6, ReplayUnique
  <1>8. \A n \in 1 .. Len(log) : g[n] = f[n]
    BY <1>1, <1>2
  <1>9. g[Len(log) + 1] = IF log = <<>> THEN e ELSE After(f[Len(log)], e)
    <2>1. g[Len(log) + 1] = IF Len(log) + 1 = 1 THEN e ELSE After(f[Len(log) + 1 - 1], e)
      BY <1>1, <1>2
    <2>2. Len(log) + 1 = 1 <=> log = <<>>
      BY <1>2
    <2>3. Len(log) + 1 - 1 = Len(log)
      BY <1>2
    <2> QED
      BY <2>1, <2>2, <2>3
  <1> QED
    BY <1>6, <1>7, <1>8, <1>9 DEF f, more

CaseStatus == {"SUBMITTED", "ACKNOWLEDGED", "IN_CONSULTATION", "DECIDED", "ASSIGNED",
               "COMPLETED", "CLOSED", "WITHDRAWN"}
CaseEvent == {"SUBMITTED", "ACKNOWLEDGED", "COMMENTED", "CONSULTED", "DECIDED", "ASSIGNED",
              "COMPLETED", "FEEDBACK_SENT", "WITHDRAWN"}

LEMMA AllowedAndAfter ==
  ASSUME NEW status \in CaseStatus, NEW e \in ALLOWED_EVENTS[status]
  PROVE  e \in CaseEvent /\ After(status, e) \in CaseStatus
  <1>1. e \in CaseEvent
    BY DEF CaseStatus, CaseEvent, ALLOWED_EVENTS
  <1>2. ASSUME NEW v \in CaseEvent PROVE After(status, v) \in CaseStatus
    BY DEF CaseStatus, CaseEvent, After, EVENT_RESULT_STATUS, Stays
  <1> QED
    BY <1>1, <1>2

\* The log of a case is replayed to the status of its row, step by allowed step.
LogInv(k) ==
    /\ events[k] \in Seq(CaseEvent)
    /\ IsReplay(Replay(events[k]), events[k])
    /\ (case[k] = "none") = (events[k] = <<>>)
    /\ events[k] # <<>> => case[k] \in CaseStatus
    /\ events[k] # <<>> => case[k] = Replay(events[k])[Len(events[k])]
    /\ \A n \in 2 .. Len(events[k]) : events[k][n] \in ALLOWED_EVENTS[Replay(events[k])[n - 1]]

PostWork ==
    [at : {"idle"}]
    \cup [at : {"append"}, case : Case, event : CaseEvent, status : CaseStatus]

\* A request that has locked a case holds it alone, and its event may follow.
ParticipationInv ==
    /\ case \in [Case -> CaseStatus \cup {"none"}]
    /\ DOMAIN events = Case
    /\ post \in [Post -> PostWork]
    /\ \A k \in Case : LogInv(k)
    /\ \A r \in Post : post[r].at = "append" =>
          /\ case[post[r].case] # "none"
          /\ post[r].event \in ALLOWED_EVENTS[case[post[r].case]]
    /\ \A q, r \in Post :
          post[q].at = "append" /\ post[r].at = "append" /\ post[q].case = post[r].case => q = r

LEMMA EmptyReplay == IsReplay(Replay(<<>>), <<>>)
  <1> DEFINE s == [n \in 1 .. Len(<<>>) |-> 0]
  <1>1. IsReplay(s, <<>>)
    BY DEF IsReplay
  <1> QED
    BY <1>1, ReplayIsReplay

LEMMA ParticipationInductive ==
  ParticipationInv /\ [ParticipationNext]_participationVars => ParticipationInv'
  <1> SUFFICES ASSUME ParticipationInv, [ParticipationNext]_participationVars
               PROVE  ParticipationInv'
    OBVIOUS
  <1> USE DEF ParticipationInv
  <1>1. ASSUME NEW k \in Case, createCase(k)
        PROVE  ParticipationInv'
    <2>1. /\ case[k] = "none" /\ post' = post
          /\ case' = [case EXCEPT ![k] = "SUBMITTED"]
          /\ events' = [events EXCEPT ![k] = <<"SUBMITTED">>]
      BY <1>1 DEF createCase
    <2>2. events[k] = <<>> /\ IsReplay(Replay(events[k]), events[k])
      BY <2>1 DEF LogInv
    <2>3. <<"SUBMITTED">> = Append(<<>>, "SUBMITTED")
      OBVIOUS
    <2>4. /\ IsReplay(Replay(<<"SUBMITTED">>), <<"SUBMITTED">>)
          /\ Replay(<<"SUBMITTED">>)[1] = "SUBMITTED"
      <3>1. "SUBMITTED" \in CaseEvent /\ <<>> \in Seq(CaseEvent) /\ Len(<<>>) + 1 = 1
        BY DEF CaseEvent
      <3>2. LET more == Append(<<>>, "SUBMITTED") IN
            IsReplay(Replay(more), more) /\ Replay(more)[Len(<<>>) + 1] = "SUBMITTED"
        BY <3>1, EmptyReplay, ReplayAppend
      <3> QED
        BY <2>3, <3>1, <3>2
    <2>5. LogInv(k)'
      <3>1. events'[k] = <<"SUBMITTED">> /\ case'[k] = "SUBMITTED"
        BY <2>1
      <3>2. Len(<<"SUBMITTED">>) = 1 /\ <<"SUBMITTED">> \in Seq(CaseEvent) /\ <<"SUBMITTED">> # <<>>
        BY DEF CaseEvent
      <3>3. "SUBMITTED" \in CaseStatus /\ "SUBMITTED" # "none"
        BY DEF CaseStatus
      <3>4. \A n \in 2 .. 1 : FALSE
        OBVIOUS
      <3> QED
        BY <2>4, <3>1, <3>2, <3>3, <3>4 DEF LogInv
    <2>6. \A j \in Case \ {k} : LogInv(j)'
      BY <2>1 DEF LogInv
    <2>7. case' \in [Case -> CaseStatus \cup {"none"}] /\ DOMAIN events' = Case
      BY <2>1 DEF CaseStatus
    <2> QED
      BY <2>1, <2>5, <2>6, <2>7 DEF PostWork
  <1>2. ASSUME NEW r \in Post, NEW k \in Case, LockCase(r, k)
        PROVE  ParticipationInv'
    <2>1. /\ case[k] # "none" /\ CaseFree(r, k) /\ UNCHANGED <<case, events>>
      BY <1>2 DEF LockCase
    <2>2. PICK e \in ALLOWED_EVENTS[case[k]] :
             post' = [post EXCEPT ![r] = [at |-> "append", case |-> k, event |-> e, status |-> case[k]]]
      BY <1>2 DEF LockCase
    <2>3. case[k] \in CaseStatus /\ e \in CaseEvent
      BY <2>1, AllowedAndAfter
    <2>4. post' \in [Post -> PostWork]
      BY <2>2, <2>3 DEF PostWork
    <2>5. \A j \in Case : LogInv(j)'
      BY <2>1 DEF LogInv
    <2> QED
      BY <2>1, <2>2, <2>3, <2>4, <2>5 DEF CaseFree
  <1>3. ASSUME NEW r \in Post, AppendEvent(r)
        PROVE  ParticipationInv'
    <2>1. post[r].at = "append"
      BY <1>3 DEF AppendEvent
    <2>2. PICK k \in Case, e \in CaseEvent : k = post[r].case /\ e = post[r].event
      BY <2>1 DEF PostWork
    <2>3. PICK log : log = events[k]
      OBVIOUS
    <2> DEFINE more == Append(log, e)
    <2>4. /\ events' = [events EXCEPT ![k] = more]
          /\ case' = [case EXCEPT ![k] = After(case[k], e)]
          /\ post' = [post EXCEPT ![r] = [at |-> "idle"]]
      BY <1>3, <2>2, <2>3 DEF AppendEvent
    <2>5. case[k] # "none" /\ e \in ALLOWED_EVENTS[case[k]] /\ case[k] \in CaseStatus
      BY <2>1, <2>2
    <2>6. /\ log \in Seq(CaseEvent) /\ IsReplay(Replay(log), log) /\ log # <<>>
          /\ case[k] = Replay(log)[Len(log)]
          /\ \A n \in 2 .. Len(log) : log[n] \in ALLOWED_EVENTS[Replay(log)[n - 1]]
      BY <2>3, <2>5 DEF LogInv
    <2>7. After(case[k], e) \in CaseStatus
      BY <2>5, AllowedAndAfter
    <2>8. /\ IsReplay(Replay(more), more)
          /\ \A n \in 1 .. Len(log) : Replay(more)[n] = Replay(log)[n]
          /\ Replay(more)[Len(log) + 1] = After(Replay(log)[Len(log)], e)
      BY <2>6, ReplayAppend
    <2>9. /\ more \in Seq(CaseEvent) /\ more # <<>> /\ Len(more) = Len(log) + 1
          /\ \A n \in 1 .. Len(log) : more[n] = log[n]
          /\ more[Len(log) + 1] = e /\ Len(log) \in Nat \ {0}
      BY <2>6
    <2> HIDE DEF more
    <2>10. ASSUME NEW n \in 2 .. Len(more)
           PROVE  more[n] \in ALLOWED_EVENTS[Replay(more)[n - 1]]
      <3>1. CASE n = Len(log) + 1
        <4>1. n - 1 = Len(log) /\ Len(log) \in 1 .. Len(log)
          BY <2>9, <3>1
        <4> QED
          BY <2>5, <2>6, <2>8, <2>9, <3>1, <4>1
      <3>2. CASE n # Len(log) + 1
        <4>1. n \in 2 .. Len(log) /\ n \in 1 .. Len(log) /\ n - 1 \in 1 .. Len(log)
          BY <2>9, <3>2
        <4> QED
          BY <2>6, <2>8, <2>9, <4>1
      <3> QED
        BY <3>1, <3>2
    <2>11. LogInv(k)'
      <3>1. events'[k] = more /\ case'[k] = After(case[k], e)
        BY <2>4
      <3>2. case'[k] = Replay(more)[Len(more)]
        BY <2>6, <2>8, <2>9, <3>1
      <3>3. "none" \notin CaseStatus
        BY DEF CaseStatus
      <3> QED
        BY <2>7, <2>8, <2>9, <2>10, <3>1, <3>2, <3>3 DEF LogInv
    <2>12. \A j \in Case \ {k} : LogInv(j)'
      BY <2>4 DEF LogInv
    <2>13. case' \in [Case -> CaseStatus \cup {"none"}] /\ DOMAIN events' = Case
      BY <2>4, <2>7
    <2>14. post' \in [Post -> PostWork]
      BY <2>4 DEF PostWork
    <2>15. ASSUME NEW q \in Post, post'[q].at = "append"
           PROVE  q # r /\ post'[q] = post[q] /\ post[q].case # k
      BY <2>1, <2>2, <2>4, <2>15
    <2>16. \A q \in Post : post'[q].at = "append" =>
              /\ case'[post'[q].case] # "none"
              /\ post'[q].event \in ALLOWED_EVENTS[case'[post'[q].case]]
      <3> SUFFICES ASSUME NEW q \in Post, post'[q].at = "append"
                   PROVE  /\ case'[post'[q].case] # "none"
                          /\ post'[q].event \in ALLOWED_EVENTS[case'[post'[q].case]]
        OBVIOUS
      <3>1. post[q].case \in Case
        BY <2>15 DEF PostWork
      <3>2. case'[post'[q].case] = case[post[q].case]
        BY <2>4, <2>15, <3>1
      <3> QED
        BY <2>15, <3>2
    <2>17. \A p, q \in Post :
              post'[p].at = "append" /\ post'[q].at = "append" /\ post'[p].case = post'[q].case
                 => p = q
      BY <2>15
    <2>18. \A j \in Case : LogInv(j)'
      BY <2>11, <2>12
    <2> QED
      BY <2>13, <2>14, <2>16, <2>17, <2>18
  <1>4. ASSUME NEW r \in Post, AppendFails(r)
        PROVE  ParticipationInv'
    BY <1>4 DEF AppendFails, PostWork, LogInv
  <1>5. CASE UNCHANGED participationVars
    BY <1>5 DEF participationVars, LogInv
  <1> QED
    BY <1>1, <1>2, <1>3, <1>4, <1>5 DEF ParticipationNext

LEMMA ParticipationInvImplies == ParticipationInv => RowIsReplayOfLog
  BY DEF ParticipationInv, LogInv, RowIsReplayOfLog
-----------------------------------------------------------------------------
(* The components side by side: a step of the platform is a step of one component, and *)
(* stutters in every other, so what each component keeps, the platform keeps. *)

LEMMA DocumentsStep == [PlatformNext]_platformVars => [DocumentsNext]_documentVars
  BY DEF PlatformNext, platformVars, Others

LEMMA EmergencyStep == [PlatformNext]_platformVars => [EmergencyNext]_emergencyVars
  BY DEF PlatformNext, platformVars, Others

LEMMA TermsStep == [PlatformNext]_platformVars => [TermsNext]_termsVars
  BY DEF PlatformNext, platformVars, Others

LEMMA LinkingStep == [PlatformNext]_platformVars => [LinkingNext]_linkingVars
  BY DEF PlatformNext, platformVars, Others

LEMMA DeviationStep == [PlatformNext]_platformVars => [DeviationNext]_deviationVars
  BY DEF PlatformNext, platformVars, Others

LEMMA FleetStep == [PlatformNext]_platformVars => [FleetNext]_fleetVars
  BY DEF PlatformNext, platformVars, Others

LEMMA RecoveryStep == [PlatformNext]_platformVars => [RecoveryNext]_recoveryVars
  BY DEF PlatformNext, platformVars, Others

LEMMA DispatchStep == [PlatformNext]_platformVars => [DispatchNext]_dispatchVars
  BY DEF PlatformNext, platformVars, Others

LEMMA SessionStep == [PlatformNext]_platformVars => [SessionNext]_sessionVars
  BY DEF PlatformNext, platformVars, Others

LEMMA RegistrationStep == [PlatformNext]_platformVars => [RegistrationNext]_registrationVars
  BY DEF PlatformNext, platformVars, Others

LEMMA ParticipationStep == [PlatformNext]_platformVars => [ParticipationNext]_participationVars
  BY DEF PlatformNext, platformVars, Others

-----------------------------------------------------------------------------
(* Theorems *)

\* driverDocuments.service.js: however reviews and deletions of a document interleave, one
\* that a reviewer has approved is not deleted.
THEOREM ApprovedEvidenceIsKept == PlatformSpec => []ApprovedEvidenceKept
  <1>1. PlatformInit => DocumentsInv
    BY DEF PlatformInit, DocumentsInit, DocumentsInv, DocumentsTypeOK, ApprovedEvidenceKept,
           HandlerWork, NoHandler, NoDocument
  <1>2. DocumentsInv => ApprovedEvidenceKept
    BY DEF DocumentsInv
  <1> QED
    BY <1>1, <1>2, DocumentsStep, DocumentsInductive, PTL DEF PlatformSpec

\* auth.routes.js, refresh-token: however many tabs present a refresh token at once, and
\* whatever the SELECT of each has read, it is exchanged for a new one at most once.
THEOREM AlwaysExchangedOnce == PlatformSpec => []ExchangedOnce
  <1>1. PlatformInit => SessionInv
    BY SessionInitially DEF PlatformInit
  <1>2. SessionInv => ExchangedOnce
    BY DEF SessionInv
  <1> QED
    BY <1>1, <1>2, SessionStep, SessionInductive, PTL DEF PlatformSpec

\* axios.js, ChangePassword.jsx and auth.routes.js together: the tabs of one browser, however
\* they refresh, log in and out and change the password, never present a revoked token past
\* the grace, unless its page was closed, its exchange, logout or change of password outlasted
\* the grace, or the change of password that revoked it was not answered with success.
THEOREM ResetOnlyAfterAnAccident == PlatformSpec => []ResetOnlyAfterAccident
  <1>1. PlatformInit => SessionInv
    BY SessionInitially DEF PlatformInit
  <1>2. SessionInv => ResetOnlyAfterAccident
    BY DEF SessionInv
  <1> QED
    BY <1>1, <1>2, SessionStep, SessionInductive, PTL DEF PlatformSpec

\* emergency.service.js, insertOrReuse: however many taps of a reporter arrive at once, and
\* however long each takes, two standing reports of one thing are more than the window apart.
THEOREM RepeatsAlwaysCollapse == PlatformSpec => []RepeatsCollapse
  <1>1. PlatformInit => EmergencyInv
    BY EmergencyAssumption
       DEF PlatformInit, EmergencyInit, EmergencyInv, EmergencyTypeOK, RepeatsCollapse,
           Repeats, NoReport, NoTap
  <1>2. EmergencyInv => RepeatsCollapse
    BY DEF EmergencyInv
  <1> QED
    BY <1>1, <1>2, EmergencyStep, EmergencyInductive, PTL DEF PlatformSpec

\* term.service.js, setCurrentTerm: whichever administrators switch the term at the same
\* time, there is one current term after every commit.
THEOREM AlwaysOneCurrentTerm == PlatformSpec => []OneCurrentTerm
  <1>1. PlatformInit => TermsInv
    BY FirstTermAssumption DEF PlatformInit, TermsInit, TermsInv, NoSwitch
  <1> QED
    BY <1>1, TermsStep, TermsInductive, TermsInvImplies, PTL DEF PlatformSpec

\* line.service.js: no interleaving of bindings and unlinkings takes a phone from the LINE
\* account it is bound to, unless that account asked for it, or binds an account to two.
THEOREM OnlyTheHolderEverLetsGo == PlatformSpec => OnlyTheHolderLetsGo
  <1>1. PlatformInit => LinkingInv
    BY DEF PlatformInit, LinkingInit, LinkingInv, LinkWork, Unasked
  <1>2. LinkingInv /\ [PlatformNext]_platformVars => [LetsGo]_linkingVars
    BY LinkingStep, LinkingLetsGo
  <1>3. OnlyTheHolderLetsGo <=> [][LetsGo]_linkingVars
    BY PTL DEF OnlyTheHolderLetsGo, LetsGo
  <1> QED
    BY <1>1, <1>2, <1>3, LinkingStep, LinkingInductive, PTL DEF PlatformSpec

\* routeDeviation.service.js, emitIfNew: however the checks of several pings overlap, no
\* deviation is inserted within the quiet time after one of the same type.
THEOREM NoDeviationRepeats == PlatformSpec => NoRepeatedDeviation
  <1> DEFINE New == \A k \in DeviationType : deviations'[k] # deviations[k] => Recent(k) = {}
  <1>1. PlatformInit => DeviationInv
    BY DEF PlatformInit, DeviationInit, DeviationInv, PingStep, NoPing
  <1>2. DeviationInv /\ [PlatformNext]_platformVars => [New]_deviationVars
    BY DeviationStep, InsertIsNew
  <1>3. NoRepeatedDeviation <=> [][New]_deviationVars
    BY PTL DEF NoRepeatedDeviation
  <1> QED
    BY <1>1, <1>2, <1>3, DeviationStep, DeviationInductive, PTL DEF PlatformSpec

\* vehicleRequest.service.js: however approvals, denials and other changes of the bus
\* interleave, a request brings its bus back at most once, and never after it was denied.
THEOREM AlwaysRestoredOnRequest == PlatformSpec => []RestoredOnRequest
  <1>1. PlatformInit => FleetInv
    BY DEF PlatformInit, FleetInit, FleetInv, FleetTypeOK, RequestStatus, ClerkJob, RestoredOnRequest, Holds,
           NoVehicle, NoVehicleRequest, AtDesk
  <1>2. FleetInv => RestoredOnRequest
    BY DEF FleetInv
  <1> QED
    BY <1>1, <1>2, FleetStep, FleetInductive, PTL DEF PlatformSpec

\* adminPasswordRecovery.routes.js: whatever else changes the account meanwhile, at most one
\* link can set a password, it went to the LINE account that is bound now, and of what was
\* changed since it was asked for it has outlived only changes of the password outside of
\* the recovery.
THEOREM UsableLinkIsAlwaysCurrent == PlatformSpec => []UsableLinkIsCurrent
  <1>1. PlatformInit => RecoveryInv
    BY DEF PlatformInit, RecoveryInit, RecoveryInv, LinkRow, NoLink, Alive
  <1> QED
    BY <1>1, RecoveryStep, RecoveryInductive, RecoveryInvImplies, PTL DEF PlatformSpec

\* vehicleRegistration.service.js: however additions, reviews and approvals interleave, no
\* school's slice is approved with a rider on it that nobody has reviewed.
THEOREM NeverAnUnreviewedRider == PlatformSpec => []NoUnreviewedRider
  <1>1. PlatformInit => RegistrationInv
    BY DEF PlatformInit, RegistrationInit, RegistrationInv, NoUnreviewedRider, RegWork,
           NoRegWork, SliceStatus, EntryState
  <1>2. RegistrationInv => NoUnreviewedRider
    BY DEF RegistrationInv
  <1> QED
    BY <1>1, <1>2, RegistrationStep, RegistrationInductive, PTL DEF PlatformSpec

\* line.service.js, processUnsentNotifications: however many runs overlap, a message is
\* pushed again only after a run that had pushed it was rolled back or LINE's answer was
\* lost, and but for rollbacks never more than three times.
THEOREM AlwaysPushedAgainOnlyIfLost == PlatformSpec => []PushedAgainOnlyIfLost
  <1>1. PlatformInit => DispatchInv
    BY DEF PlatformInit, DispatchInit, DispatchInv, DispatchTypeOK, RunsApart, RetriesCounted, PushesCounted,
           DispatchRow, NoRun, Accepted, MaxRetries
  <1> QED
    BY <1>1, DispatchStep, DispatchInvImplies, DispatchInductive, PTL DEF PlatformSpec

\* participation.service.js: whoever appends at the same time, each event of a case was
\* allowed where it stands in the log, and the row is the projection of the whole log.
THEOREM RowIsAlwaysReplayOfLog == PlatformSpec => []RowIsReplayOfLog
  <1>1. PlatformInit => ParticipationInv
    <2> SUFFICES ASSUME ParticipationInit PROVE ParticipationInv
      BY DEF PlatformInit
    <2>1. \A k \in Case : case[k] = "none" /\ events[k] = <<>>
      BY DEF ParticipationInit
    <2>2. <<>> \in Seq(CaseEvent) /\ \A n \in 2 .. Len(<<>>) : FALSE
      OBVIOUS
    <2>3. \A k \in Case : LogInv(k)
      BY <2>1, <2>2, EmptyReplay DEF LogInv
    <2> QED
      BY <2>3 DEF ParticipationInit, ParticipationInv, PostWork
  <1> QED
    BY <1>1, ParticipationStep, ParticipationInductive, ParticipationInvImplies, PTL
       DEF PlatformSpec

=============================================================================
