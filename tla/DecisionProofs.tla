--------------------------- MODULE DecisionProofs ---------------------------
(***************************************************************************)
(* Proof that the workflows that create pupils keep the promise of module  *)
(* Decision: every request is decided once, and creates at most the one    *)
(* pupil that its decision says.                                           *)
(***************************************************************************)
EXTENDS RosterProofs

(* The stage of a request, read off its row *)

StageOfRoster(row) ==
    CASE row.status = "none" -> "none"
      [] row.status = "pending" -> "pending"
      [] row.status = "approved" /\ row.type = "new" -> "applied"
      [] OTHER -> "closed"

StageOfTransfer(row) ==
    CASE row.status = "NONE" -> "none"
      [] row.status = "PENDING" -> "pending"
      [] row.status = "APPLIED" -> "applied"
      [] OTHER -> "closed"

StageOfLine(row) ==
    CASE row.class = "none" -> "none"
      [] row.class # "none" /\ ~row.applied -> "pending"
      [] row.applied /\ row.class = "insert" /\ row.pupil # 0 -> "applied"
      [] OTHER -> "closed"

LEMMA StageFacts ==
  /\ \A q \in RosterReq : RequestStage[q] = StageOfRoster(roster[q])
  /\ \A t \in TransferReq : RequestStage[t] = StageOfTransfer(transfer[t])
  /\ \A b \in Batch : \A k \in Code :
        /\ <<b, k>> \in Requests
        /\ RequestStage[<<b, k>>] = StageOfLine(line[b][k])
  <1>1. \A q \in RosterReq : RequestStage[q] = StageOfRoster(roster[q])
    BY DEF RequestStage, Requests, RosterStage, StageOfRoster
  <1>2. \A t \in TransferReq : RequestStage[t] = StageOfTransfer(transfer[t])
    BY RequestAssumption DEF RequestStage, Requests, TransferStage, StageOfTransfer
  <1>3. \A b \in Batch : \A k \in Code :
           /\ <<b, k>> \in Requests
           /\ RequestStage[<<b, k>>] = StageOfLine(line[b][k])
    <2> SUFFICES ASSUME NEW b \in Batch, NEW k \in Code
                 PROVE  /\ <<b, k>> \in Requests
                        /\ RequestStage[<<b, k>>] = StageOfLine(line[b][k])
      OBVIOUS
    <2>1. <<b, k>> \in Batch \X Code /\ <<b, k>>[1] = b /\ <<b, k>>[2] = k
      OBVIOUS
    <2>2. <<b, k>> \in Requests /\ <<b, k>> \notin RosterReq /\ <<b, k>> \notin TransferReq
      BY <2>1, RequestAssumption DEF Requests
    <2>3. LineStage[<<b, k>>] = StageOfLine(line[b][k])
      BY <2>1 DEF LineStage, StageOfLine
    <2> QED
      BY <2>2, <2>3 DEF RequestStage
  <1> QED
    BY <1>1, <1>2, <1>3

LEMMA StageFactsNext ==
  /\ \A q \in RosterReq : RequestStage'[q] = StageOfRoster(roster'[q])
  /\ \A t \in TransferReq : RequestStage'[t] = StageOfTransfer(transfer'[t])
  /\ \A b \in Batch : \A k \in Code : RequestStage'[<<b, k>>] = StageOfLine(line'[b][k])
  <1> DEFINE F == /\ \A q \in RosterReq : RequestStage[q] = StageOfRoster(roster[q])
                  /\ \A t \in TransferReq : RequestStage[t] = StageOfTransfer(transfer[t])
                  /\ \A b \in Batch : \A k \in Code :
                        /\ <<b, k>> \in Requests
                        /\ RequestStage[<<b, k>>] = StageOfLine(line[b][k])
  <1>1. F
    BY StageFacts
  <1> HIDE DEF F
  <1>2. F'
    BY <1>1, PTL
  <1> QED
    BY <1>2 DEF F

\* A request is one of the three kinds.
LEMMA RequestKinds ==
  ASSUME NEW r \in Requests
  PROVE  r \in RosterReq \/ r \in TransferReq \/ \E b \in Batch : \E k \in Code : r = <<b, k>>
  BY DEF Requests

-----------------------------------------------------------------------------
(* What a step does to the requests and to who made the pupils *)

Stays(r) == RequestStage'[r] = RequestStage[r]
OthersStay(r) == \A o \in Requests \ {r} : Stays(o)

\* A request is submitted, or closed without a pupil, or stays.
Moves(r) == \/ RequestStage[r] = "none" /\ RequestStage'[r] = "pending"
            \/ RequestStage[r] = "pending" /\ RequestStage'[r] = "closed"
            \/ Stays(r)

NothingMade == \A p \in PupilId : /\ pupil'[p].made = pupil[p].made
                                  /\ pupil'[p].state = "none" => pupil[p].state = "none"

\* n is made by request r.
MadeOne(n, r) ==
    /\ pupil[n].state = "none" /\ pupil'[n].state # "none" /\ pupil'[n].made = r
    /\ \A p \in PupilId \ {n} : /\ pupil'[p].made = pupil[p].made
                                /\ pupil'[p].state = "none" => pupil[p].state = "none"

Applies(n, r) ==
    /\ MadeOne(n, r) /\ OthersStay(r)
    /\ RequestStage[r] = "pending" /\ RequestStage'[r] = "applied"

Decides ==
    \/ NothingMade /\ \A r \in Requests : Moves(r)
    \/ \E r \in Requests : \E n \in PupilId : Applies(n, r)

\* The step of a request as module Decision has it.
LEMMA DecisionSteps ==
  ASSUME NEW r \in Requests
  PROVE  /\ Stays(r) /\ MadeBy(r)' = MadeBy(r) => D!Rest(r)
         /\ RequestStage[r] = "none" /\ RequestStage'[r] = "pending"
               /\ Cardinality(MadeBy(r)') = 0 => D!Submit(r)
         /\ RequestStage[r] = "pending" /\ RequestStage'[r] = "closed"
               /\ Cardinality(MadeBy(r)') = 0 => D!Close(r)
         /\ RequestStage[r] = "pending" /\ RequestStage'[r] = "applied"
               /\ Cardinality(MadeBy(r)') = 1 => D!Apply(r)
  BY DEF D!Rest, D!Submit, D!Close, D!Apply, Stays

LEMMA QuietIsNext ==
  ASSUME DecisionInv, NothingMade, \A r \in Requests : Moves(r)
  PROVE  DecisionInv' /\ D!Next
  <1>1. \A r : MadeBy(r)' = MadeBy(r)
    BY DEF NothingMade, MadeBy
  <1>2. DecisionInv'
    BY <1>1 DEF DecisionInv, NothingMade, Moves, Stays
  <1>3. ASSUME NEW r \in Requests
        PROVE  D!Submit(r) \/ D!Apply(r) \/ D!Close(r) \/ D!Rest(r)
    <2>1. Stays(r) => D!Rest(r)
      BY <1>1, DecisionSteps
    <2>2. RequestStage[r] \in {"none", "pending"} => Cardinality(MadeBy(r)') = 0
      BY <1>1, FS_EmptySet DEF DecisionInv
    <2> QED
      BY <2>1, <2>2, DecisionSteps DEF Moves
  <1> QED
    BY <1>2, <1>3 DEF D!Next

LEMMA ApplyingIsNext ==
  ASSUME DecisionInv, NEW r \in Requests, NEW n \in PupilId, Applies(n, r)
  PROVE  DecisionInv' /\ D!Next
  <1>1. pupil[n].made = None /\ None \notin Requests
    BY RequestAssumption DEF DecisionInv, Applies, MadeOne
  <1>2. MadeBy(r) = {} /\ MadeBy(r)' = {n}
    BY DEF DecisionInv, Applies, MadeOne, MadeBy
  <1>3. \A o \in Requests \ {r} : MadeBy(o)' = MadeBy(o)
    BY <1>1 DEF Applies, MadeOne, MadeBy
  <1>4. DecisionInv'
    <2>1. \A p \in PupilId : pupil'[p].state = "none" => pupil'[p].made = None
      BY DEF DecisionInv, Applies, MadeOne
    <2>2. \A o \in Requests : IF RequestStage'[o] = "applied"
                              THEN \E p \in PupilId : MadeBy(o)' = {p} ELSE MadeBy(o)' = {}
      BY <1>2, <1>3 DEF DecisionInv, Applies, OthersStay, Stays
    <2> QED
      BY <2>1, <2>2 DEF DecisionInv
  <1>5. ASSUME NEW o \in Requests
        PROVE  D!Submit(o) \/ D!Apply(o) \/ D!Close(o) \/ D!Rest(o)
    <2>1. o # r => D!Rest(o)
      BY <1>3, DecisionSteps DEF Applies, OthersStay
    <2>2. Cardinality(MadeBy(r)') = 1
      BY <1>2, FS_Singleton
    <2>3. D!Apply(r)
      BY <2>2, DecisionSteps DEF Applies
    <2> QED
      BY <2>1, <2>3
  <1> QED
    BY <1>4, <1>5 DEF D!Next

LEMMA DecidesIsNext ==
  ASSUME DecisionInv, Decides
  PROVE  DecisionInv' /\ D!Next
  BY QuietIsNext, ApplyingIsNext DEF Decides

-----------------------------------------------------------------------------
(* One row at a time *)

LEMMA TablesStay ==
  ASSUME UNCHANGED <<roster, transfer, line>>
  PROVE  \A r \in Requests : Stays(r)
  BY StageFacts, StageFactsNext, RequestKinds DEF Stays

LEMMA RosterRowMoves ==
  ASSUME RosterInv, NEW q \in RosterReq, NEW row \in RosterRow,
         roster' = [roster EXCEPT ![q] = row], UNCHANGED <<transfer, line>>
  PROVE  q \in Requests /\ OthersStay(q) /\ RequestStage'[q] = StageOfRoster(row)
  <1>1. roster'[q] = row /\ \A o \in RosterReq \ {q} : roster'[o] = roster[o]
    BY DEF RosterInv, RosterTypeOK
  <1>2. q \in Requests /\ RequestStage'[q] = StageOfRoster(row)
    BY <1>1, StageFactsNext DEF Requests
  <1>3. ASSUME NEW o \in Requests \ {q}
        PROVE  Stays(o)
    BY <1>1, StageFacts, StageFactsNext, RequestKinds DEF Stays
  <1> QED
    BY <1>2, <1>3 DEF OthersStay

LEMMA TransferRowMoves ==
  ASSUME RosterInv, NEW t \in TransferReq, NEW row \in TransferRow,
         transfer' = [transfer EXCEPT ![t] = row], UNCHANGED <<roster, line>>
  PROVE  t \in Requests /\ OthersStay(t) /\ RequestStage'[t] = StageOfTransfer(row)
  <1>1. transfer'[t] = row /\ \A o \in TransferReq \ {t} : transfer'[o] = transfer[o]
    BY DEF RosterInv, RosterTypeOK
  <1>2. t \in Requests /\ RequestStage'[t] = StageOfTransfer(row)
    BY <1>1, StageFactsNext DEF Requests
  <1>3. ASSUME NEW o \in Requests \ {t}
        PROVE  Stays(o)
    BY <1>1, StageFacts, StageFactsNext, RequestKinds DEF Stays
  <1> QED
    BY <1>2, <1>3 DEF OthersStay

LEMMA LineMoves ==
  ASSUME RosterInv, NEW b \in Batch, NEW k \in Code, NEW row \in Line,
         line' = [line EXCEPT ![b][k] = row], UNCHANGED <<roster, transfer>>
  PROVE  OthersStay(<<b, k>>) /\ RequestStage'[<<b, k>>] = StageOfLine(row)
  <1>1. line \in [Batch -> [Code -> Line]]
    BY DEF RosterInv, RosterTypeOK
  <1>2. /\ line'[b][k] = row
        /\ \A e \in Batch : \A j \in Code : e # b \/ j # k => line'[e][j] = line[e][j]
    BY <1>1
  <1>3. RequestStage'[<<b, k>>] = StageOfLine(row)
    BY <1>2, StageFactsNext
  <1>4. ASSUME NEW o \in Requests \ {<<b, k>>}
        PROVE  Stays(o)
    <2>1. CASE o \in RosterReq \/ o \in TransferReq
      BY <2>1, StageFacts, StageFactsNext DEF Stays
    <2>2. CASE \E e \in Batch : \E j \in Code : o = <<e, j>>
      <3>1. PICK e \in Batch, j \in Code : o = <<e, j>>
        BY <2>2
      <3>2. line'[e][j] = line[e][j]
        BY <1>2, <3>1
      <3> QED
        BY <3>1, <3>2, StageFacts, StageFactsNext DEF Stays
    <2> QED
      BY <2>1, <2>2, RequestKinds
  <1> QED
    BY <1>3, <1>4 DEF OthersStay

\* A row of a pupil changes, but not who made it.
LEMMA SameMaker ==
  ASSUME RosterInv, NEW p \in PupilId, NEW row \in PupilRecord,
         pupil' = [pupil EXCEPT ![p] = row], row.made = pupil[p].made,
         row.state = "none" => pupil[p].state = "none"
  PROVE  NothingMade
  BY PupilRows DEF NothingMade

LEMMA NewMaker ==
  ASSUME RosterInv, NEW n \in PupilId, NEW row \in PupilRecord,
         pupil' = [pupil EXCEPT ![n] = row], pupil[n].state = "none", row.state # "none"
  PROVE  MadeOne(n, row.made)
  BY PupilRows DEF MadeOne

LEMMA NobodyNew ==
  ASSUME UNCHANGED pupil
  PROVE  NothingMade
  BY DEF NothingMade

LEMMA QuietDecides ==
  ASSUME NothingMade, UNCHANGED <<roster, transfer, line>>
  PROVE  Decides
  BY TablesStay DEF Decides, Moves

-----------------------------------------------------------------------------
(* The steps of the handlers *)

LEMMA SchoolEditDecides ==
  ASSUME RosterInv, DecisionInv, NEW c \in Conn, SchoolEdit(c),
         UNCHANGED <<roster, transfer, importVars>>
  PROVE  Decides
  <1>1. ReadPupil(c) \/ ReadForImport(c) \/ ReassignGuardian(c) => NothingMade
    BY NobodyNew DEF ReadPupil, ReadForImport, ReassignGuardian, pupilVars
  <1>2. ASSUME MoveToBus(c)
        PROVE  NothingMade
    <2>1. PICK p \in PupilId, b \in Bus \cup {None} : p = work[c].pupil /\ b = work[c].bus
      BY <1>2, JobFields DEF RosterInv, MoveToBus
    <2>2. PICK row \in PupilRecord : row = [pupil[p] EXCEPT !.bus = b]
      BY PupilRows, BusEdit
    <2>3. row.state = pupil[p].state /\ row.made = pupil[p].made
      BY <2>2, PupilRows, BusEdit
    <2>4. pupil' = [pupil EXCEPT ![p] = row]
      BY <1>2, <2>1, <2>2 DEF MoveToBus
    <2> QED
      BY <2>3, <2>4, SameMaker
  <1>3. ASSUME Withdraw(c)
        PROVE  NothingMade
    <2>1. PICK p \in PupilId : p = work[c].pupil
      BY <1>3, JobFields DEF RosterInv, Withdraw
    <2>2. pupil' = [pupil EXCEPT ![p].state = "deleted", ![p].bus = None]
      BY <1>3, <2>1 DEF Withdraw
    <2> QED
      BY <2>2, StateBusEdit, SameMaker
  <1>4. ASSUME NEW p \in PupilId, restoreStudent(c, p)
        PROVE  NothingMade
    <2>1. PICK r \in PupilRecord : r = pupil[p]
      BY PupilRows
    <2>2. PICK row \in PupilRecord : row = [r EXCEPT !.state = "active"]
      BY StateEdit
    <2>3. row.state = "active" /\ row.made = r.made
      BY <2>2, StateEdit
    <2>4. pupil' = [pupil EXCEPT ![p] = row]
      BY <1>4, <2>1, <2>2 DEF restoreStudent
    <2> QED
      BY <2>1, <2>3, <2>4, SameMaker
  <1>5. ASSUME ImportReactivates(c)
        PROVE  NothingMade
    <2>1. PICK p \in PupilId : p = work[c].pupil
      BY <1>5, JobFields DEF RosterInv, ImportReactivates
    <2>2. PICK b \in Bus \cup {None} :
             pupil' = [pupil EXCEPT ![p].state = "active", ![p].bus = b, ![p].cid = "other"]
      BY <1>5, <2>1 DEF ImportReactivates
    <2> QED
      BY <2>2, StateBusCidEdit, SameMaker
  <1>6. ASSUME ImportInserts(c)
        PROVE  NothingMade
    <2>1. PICK s \in School, k \in Code, n \in PupilId :
             s = work[c].school /\ k = work[c].code /\ n = nextId
      BY <1>6, JobFields DEF RosterInv, ImportInserts
    <2>2. CASE Insertable(n, s, k)
      <3>1. PICK b \in Bus \cup {None} :
               pupil' = [pupil EXCEPT ![n] = [state |-> "active", school |-> s, code |-> k,
                                              bus |-> b, cid |-> "other", made |-> None]]
        BY <1>6, <2>1, <2>2 DEF ImportInserts
      <3>2. [state |-> "active", school |-> s, code |-> k, bus |-> b, cid |-> "other",
             made |-> None] \in PupilRecord
        BY DEF PupilRecord, Maker
      <3>3. pupil[n].made = None
        BY <2>2 DEF DecisionInv, Insertable
      <3> QED
        BY <3>1, <3>2, <3>3, SameMaker
    <2>3. CASE ~Insertable(n, s, k)
      BY <1>6, <2>1, <2>3, NobodyNew DEF ImportInserts
    <2> QED
      BY <2>2, <2>3
  <1>7. NothingMade
    BY <1>1, <1>2, <1>3, <1>4, <1>5, <1>6 DEF SchoolEdit
  <1> QED
    BY <1>7, QuietDecides DEF importVars

\* A row that is inserted, or decided without a pupil.
LEMMA RosterRowDecides ==
  ASSUME RosterInv, NothingMade, NEW q \in RosterReq, NEW row \in RosterRow,
         roster' = [roster EXCEPT ![q] = row], UNCHANGED <<transfer, line>>,
         \/ roster[q].status = "none" /\ row.status = "pending"
         \/ roster[q].status = "pending" /\ row.status = "rejected"
         \/ roster[q].status = "pending" /\ row.status = "approved" /\ row.type # "new"
  PROVE  Decides
  <1>1. OthersStay(q) /\ RequestStage'[q] = StageOfRoster(row)
    BY RosterRowMoves
  <1>2. RequestStage[q] = StageOfRoster(roster[q])
    BY StageFacts
  <1>3. Moves(q)
    BY <1>1, <1>2 DEF Moves, StageOfRoster
  <1> QED
    BY <1>1, <1>3 DEF Decides, OthersStay, Moves

LEMMA RosterStepDecides ==
  ASSUME RosterInv, DecisionInv, NEW c \in Conn, RosterStep(c), UNCHANGED <<transfer, importVars>>
  PROVE  Decides
  <1>1. CASE CheckRosterRequest(c) \/ ReviewFails(c) \/ \E q \in RosterReq : LockRosterRequest(c, q)
    BY <1>1, NobodyNew, QuietDecides
       DEF CheckRosterRequest, ReviewFails, LockRosterRequest, pupilVars, importVars
  <1>2. CASE InsertRosterRequest(c)
    <2> DEFINE row == [status |-> "pending", type |-> work[c].type, pupil |-> work[c].pupil,
                       school |-> work[c].school, bus |-> work[c].bus, named |-> 0]
    <2>1. row \in RosterRow /\ row.status = "pending"
      BY <1>2, JobFields DEF RosterInv, InsertRosterRequest, RosterRow
    <2>2. PICK q \in RosterReq :
             roster[q].status = "none" /\ roster' = [roster EXCEPT ![q] = row]
      BY <1>2 DEF InsertRosterRequest
    <2>3. NothingMade
      BY <1>2, NobodyNew DEF InsertRosterRequest, pupilVars
    <2> HIDE DEF row
    <2> QED
      BY <2>1, <2>2, <2>3, RosterRowDecides DEF importVars
  <1>3. CASE RejectRoster(c)
    <2>1. PICK q \in RosterReq : q = work[c].request
      BY <1>3, JobFields DEF RosterInv, RejectRoster, Reviewing
    <2>2. /\ RosterDecision(q, "rejected", roster[q].pupil) /\ UNCHANGED pupil
          /\ roster[q].status = "pending"
      BY <1>3, <2>1 DEF RejectRoster, Reviewing, pupilVars
    <2>3. PICK row \in RosterRow :
             roster' = [roster EXCEPT ![q] = row] /\ row.status = "rejected"
      BY <2>2, RosterRows, DecidedRow
    <2> QED
      BY <2>2, <2>3, NobodyNew, RosterRowDecides DEF importVars
  <1>4. CASE ApproveOnBus(c)
    <2>1. PICK q \in RosterReq : q = work[c].request
      BY <1>4, JobFields DEF RosterInv, ApproveOnBus, Reviewing
    <2>2. roster[q].status = "pending" /\ roster[q].type # "new"
      BY <1>4, <2>1 DEF ApproveOnBus, Reviewing
    <2>3. PICK p \in PupilId, b \in Bus \cup {None} :
             p = roster[q].pupil /\ b = IF roster[q].type = "add" THEN roster[q].bus ELSE None
      BY <2>2, RosterRows
    <2>4. pupil' = [pupil EXCEPT ![p].bus = b] /\ RosterDecision(q, "approved", p)
      BY <1>4, <2>1, <2>3 DEF ApproveOnBus
    <2>5. PICK person \in PupilRecord : person = [pupil[p] EXCEPT !.bus = b]
      BY PupilRows, BusEdit
    <2>6. person.state = pupil[p].state /\ person.made = pupil[p].made
      BY <2>5, PupilRows, BusEdit
    <2>7. pupil' = [pupil EXCEPT ![p] = person]
      BY <2>4, <2>5
    <2>8. NothingMade
      BY <2>6, <2>7, SameMaker
    <2>9. PICK row \in RosterRow :
             roster' = [roster EXCEPT ![q] = row] /\ row.status = "approved" /\ row.type # "new"
      BY <2>2, <2>4, DecidedRow
    <2> QED
      BY <2>2, <2>8, <2>9, RosterRowDecides DEF importVars
  <1>5. CASE ApproveNewPupil(c)
    <2>1. PICK q \in RosterReq : q = work[c].request
      BY <1>5, JobFields DEF RosterInv, ApproveNewPupil, Reviewing
    <2>2. PICK n \in PupilId : n = NewPupilId(q)
      BY <1>5, <2>1 DEF ApproveNewPupil
    <2>3. /\ roster[q].status = "pending" /\ roster[q].type = "new"
          /\ pupil[n].state = "none" /\ RosterDecision(q, "approved", n)
      BY <1>5, <2>1, <2>2 DEF ApproveNewPupil, Reviewing, Insertable
    <2> DEFINE person == [state |-> "active", school |-> roster[q].school, code |-> None,
                          bus |-> roster[q].bus, cid |-> "other", made |-> q]
    <2>4. pupil' = [pupil EXCEPT ![n] = person]
      BY <1>5, <2>1, <2>2 DEF ApproveNewPupil
    <2>5. person \in PupilRecord /\ person.state = "active" /\ person.made = q
      BY RosterRows DEF PupilRecord, Maker
    <2> HIDE DEF person
    <2>6. MadeOne(n, q)
      BY <2>3, <2>4, <2>5, NewMaker
    <2>7. PICK row \in RosterRow :
             roster' = [roster EXCEPT ![q] = row] /\ row.status = "approved" /\ row.type = "new"
      BY <2>3, DecidedRow
    <2>8. q \in Requests /\ OthersStay(q) /\ RequestStage'[q] = StageOfRoster(row)
      BY <2>7, RosterRowMoves DEF importVars
    <2>9. RequestStage[q] = "pending" /\ RequestStage'[q] = "applied"
      BY <2>3, <2>7, <2>8, StageFacts DEF StageOfRoster
    <2> QED
      BY <2>6, <2>8, <2>9 DEF Decides, Applies
  <1> QED
    BY <1>1, <1>2, <1>3, <1>4, <1>5 DEF RosterStep

LEMMA AskForNewPupilDecides ==
  ASSUME RosterInv, NEW q \in RosterReq, AskForNewPupil(q), UNCHANGED <<transfer, importVars>>
  PROVE  Decides
  <1>1. PICK s \in School, b \in Bus, n \in PupilId \cup {0} :
           roster' = [roster EXCEPT ![q] = [status |-> "pending", type |-> "new", pupil |-> 0,
                                            school |-> s, bus |-> b, named |-> n]]
    BY DEF AskForNewPupil
  <1>2. [status |-> "pending", type |-> "new", pupil |-> 0, school |-> s, bus |-> b,
         named |-> n] \in RosterRow
    BY DEF RosterRow
  <1>3. roster[q].status = "none" /\ UNCHANGED pupil
    BY DEF AskForNewPupil, pupilVars
  <1> QED
    BY <1>1, <1>2, <1>3, NobodyNew, RosterRowDecides DEF importVars

\* A row that is inserted, or closed without a new pupil.
LEMMA TransferRowDecides ==
  ASSUME RosterInv, NothingMade, NEW t \in TransferReq, NEW row \in TransferRow,
         transfer' = [transfer EXCEPT ![t] = row], UNCHANGED <<roster, line>>,
         \/ transfer[t].status = "NONE" /\ row.status = "PENDING"
         \/ /\ transfer[t].status = "PENDING"
            /\ row.status \in {"STALE_NEEDS_REVIEW", "FAILED", "CANCELLED", "REJECTED"}
  PROVE  Decides
  <1>1. OthersStay(t) /\ RequestStage'[t] = StageOfTransfer(row)
    BY TransferRowMoves
  <1>2. RequestStage[t] = StageOfTransfer(transfer[t])
    BY StageFacts
  <1>3. Moves(t)
    BY <1>1, <1>2 DEF Moves, StageOfTransfer
  <1> QED
    BY <1>1, <1>3 DEF Decides, OthersStay, Moves

LEMMA TransferClosedDecides ==
  ASSUME RosterInv, NothingMade, NEW t \in TransferReq,
         NEW status \in {"STALE_NEEDS_REVIEW", "FAILED", "CANCELLED", "REJECTED"},
         transfer[t].status = "PENDING",
         transfer' = [transfer EXCEPT ![t].status = status], UNCHANGED <<roster, line>>
  PROVE  Decides
  <1> DEFINE row == [transfer[t] EXCEPT !.status = status]
  <1>1. transfer[t] \in TransferRow
    BY DEF RosterInv, RosterTypeOK, TransferRow
  <1>2. row \in TransferRow /\ row.status = status
    BY <1>1 DEF TransferRow
  <1>3. transfer' = [transfer EXCEPT ![t] = row]
    OBVIOUS
  <1> HIDE DEF row
  <1> QED
    BY <1>2, <1>3, TransferRowDecides

LEMMA ApplyTransferDecides ==
  ASSUME RosterInv, NEW c \in Conn, ApplyTransfer(c), UNCHANGED <<roster, importVars>>
  PROVE  Decides
  <1>1. PICK t \in TransferReq : t = work[c].request
    BY LockedTransfer DEF ApplyTransfer
  <1>2. PICK p \in PupilId : p = transfer[t].pupil
    BY <1>1, LockedTransfer DEF ApplyTransfer
  <1>3. transfer[t].status = "PENDING"
    BY <1>1, LockedTransfer DEF ApplyTransfer
  <1>4. PICK n \in PupilId : n = nextId
    BY <1>1, <1>2, TransferredPupils
  <1> DEFINE new == [state |-> "active", school |-> transfer[t].to, code |-> transfer[t].code,
                     bus |-> None, cid |-> "other", made |-> t]
  <1>5. PICK person \in PupilRecord :
           /\ pupil' = [pupil EXCEPT ![p] = person, ![n] = new]
           /\ person.state = "deleted" /\ person.made = pupil[p].made
    BY <1>1, <1>2, <1>4, TransferredPupils
  <1>6. n # p /\ pupil[n].state = "none"
    BY <1>1, <1>2, <1>4, TransferredPupils
  <1>7. new.state = "active" /\ new.made = t
    OBVIOUS
  <1> HIDE DEF new
  <1>8. /\ pupil'[n] = new /\ pupil'[p] = person
        /\ \A e \in PupilId \ {p, n} : pupil'[e] = pupil[e]
    BY <1>5, <1>6, PupilRows
  <1>9. MadeOne(n, t)
    BY <1>5, <1>6, <1>7, <1>8 DEF MadeOne
  <1>10. transfer' = [transfer EXCEPT ![t].status = "APPLIED", ![t].applied = n]
    BY <1>1, <1>4 DEF ApplyTransfer
  <1>11. PICK r \in TransferRow : r = transfer[t]
    BY DEF RosterInv, RosterTypeOK, TransferRow
  <1>12. PICK q \in TransferRow : q = [r EXCEPT !.status = "APPLIED"]
    BY DEF TransferRow
  <1>13. q.status = "APPLIED"
    BY <1>12 DEF TransferRow
  <1>14. PICK row \in TransferRow : row = [q EXCEPT !.applied = n]
    BY DEF TransferRow
  <1>15. row.status = "APPLIED"
    BY <1>13, <1>14 DEF TransferRow
  <1>16. row = [[r EXCEPT !.status = "APPLIED"] EXCEPT !.applied = n]
    BY <1>12, <1>14, Zenon
  <1>17. transfer' = [transfer EXCEPT
                         ![t] = [[transfer[t] EXCEPT !.status = "APPLIED"] EXCEPT !.applied = n]]
    BY <1>10 DEF RosterInv, RosterTypeOK
  <1>18. transfer' = [transfer EXCEPT ![t] = row]
    BY <1>11, <1>16, <1>17, Zenon
  <1>19. t \in Requests /\ OthersStay(t) /\ RequestStage'[t] = StageOfTransfer(row)
    BY <1>18, TransferRowMoves DEF importVars
  <1>20. RequestStage[t] = "pending" /\ RequestStage'[t] = "applied"
    BY <1>3, <1>15, <1>19, StageFacts DEF StageOfTransfer
  <1> QED
    BY <1>9, <1>19, <1>20 DEF Decides, Applies

LEMMA TransferStepDecides ==
  ASSUME RosterInv, NEW c \in Conn, TransferStep(c), UNCHANGED <<roster, importVars>>
  PROVE  Decides
  <1>1. CASE \/ CheckTransfer(c) \/ LockTransferPupil(c) \/ TransferFails(c)
             \/ \E t \in TransferReq : CheckWithdrawal(c, t) \/ LockTransfer(c, t)
    BY <1>1, NobodyNew, QuietDecides
       DEF CheckTransfer, LockTransferPupil, TransferFails, CheckWithdrawal, LockTransfer,
           pupilVars, importVars
  <1>2. CASE InsertTransfer(c)
    <2> DEFINE row == [status |-> "PENDING", pupil |-> work[c].pupil, code |-> work[c].code,
                       from |-> work[c].from, to |-> work[c].to, applied |-> 0]
    <2>1. row \in TransferRow /\ row.status = "PENDING"
      BY <1>2, JobFields DEF RosterInv, InsertTransfer, TransferRow
    <2>2. PICK t \in TransferReq :
             transfer[t].status = "NONE" /\ transfer' = [transfer EXCEPT ![t] = row]
      BY <1>2 DEF InsertTransfer
    <2>3. NothingMade
      BY <1>2, NobodyNew DEF InsertTransfer, pupilVars
    <2> HIDE DEF row
    <2> QED
      BY <2>1, <2>2, <2>3, TransferRowDecides DEF importVars
  <1>3. CASE CloseTransfer(c) \/ MarkTransferFailed(c)
    <2>1. PICK t \in TransferReq : t = work[c].request
      BY <1>3, JobFields DEF RosterInv, CloseTransfer, MarkTransferFailed
    <2>2. PICK status \in {"STALE_NEEDS_REVIEW", "FAILED", "CANCELLED", "REJECTED"} :
             transfer' = IF transfer[t].status = "PENDING"
                         THEN [transfer EXCEPT ![t].status = status] ELSE transfer
      BY <1>3, <2>1, JobFields DEF RosterInv, CloseTransfer, MarkTransferFailed
    <2>3. NothingMade
      BY <1>3, NobodyNew DEF CloseTransfer, MarkTransferFailed, pupilVars
    <2>4. CASE transfer[t].status = "PENDING"
      BY <2>2, <2>3, <2>4, TransferClosedDecides DEF importVars
    <2>5. CASE transfer[t].status # "PENDING"
      BY <2>2, <2>3, <2>5, QuietDecides DEF importVars
    <2> QED
      BY <2>4, <2>5
  <1>4. CASE StaleTransfer(c) \/ RefuseTransfer(c)
    <2>1. PICK t \in TransferReq : t = work[c].request
      BY <1>4, LockedTransfer DEF StaleTransfer, RefuseTransfer
    <2>2. transfer[t].status = "PENDING"
      BY <1>4, <2>1, LockedTransfer DEF StaleTransfer, RefuseTransfer
    <2>3. PICK status \in {"STALE_NEEDS_REVIEW", "FAILED", "CANCELLED", "REJECTED"} :
             transfer' = [transfer EXCEPT ![t].status = status]
      BY <1>4, <2>1 DEF StaleTransfer, RefuseTransfer, ClosesTransfer
    <2>4. NothingMade
      BY <1>4, NobodyNew DEF StaleTransfer, RefuseTransfer, ClosesTransfer, pupilVars
    <2> QED
      BY <2>2, <2>3, <2>4, TransferClosedDecides DEF importVars
  <1> QED
    BY <1>1, <1>2, <1>3, <1>4, ApplyTransferDecides DEF TransferStep

\* A row of an import keeps its class: it stays, is tried again, or is closed
\* without a new pupil.
LEMMA LineDecides ==
  ASSUME RosterInv, NothingMade, NEW b \in Batch, NEW k \in Code, NEW row \in Line,
         line' = [line EXCEPT ![b][k] = row], UNCHANGED <<roster, transfer>>,
         row.class = line[b][k].class,
         \/ row.applied = line[b][k].applied /\ row.pupil = line[b][k].pupil
         \/ ~row.applied /\ ~line[b][k].applied
         \/ /\ row.applied /\ ~line[b][k].applied /\ row.class # "none"
            /\ row.class = "insert" => row.pupil = 0
  PROVE  Decides
  <1> DEFINE r == <<b, k>>
  <1>1. OthersStay(r) /\ RequestStage'[r] = StageOfLine(row)
    BY LineMoves
  <1>2. r \in Requests /\ RequestStage[r] = StageOfLine(line[b][k])
    BY StageFacts
  <1>3. line[b][k] \in Line
    BY LineRows
  <1>4. Moves(r)
    BY <1>1, <1>2, <1>3 DEF Moves, Stays, StageOfLine, Line
  <1> HIDE DEF r
  <1> QED
    BY <1>1, <1>4 DEF Decides, OthersStay, Moves

\* The row of an import that a pass has decided.
LEMMA OutcomeRow ==
  ASSUME RosterInv, NEW c \in Conn, work[c].at = "row",
         NEW status \in SUCCESS \cup UNRESOLVED, NEW done \in BOOLEAN,
         NEW p \in PupilId \cup {0}, Outcome(c, status, done, p)
  PROVE  \E b \in Batch, k \in Code : \E row \in Line :
            /\ b = work[c].batch /\ k = work[c].code
            /\ line' = [line EXCEPT ![b][k] = row] /\ ~line[b][k].applied
            /\ row.class = line[b][k].class /\ row.applied = done /\ row.pupil = p
  <1>1. PICK b \in Batch, k \in Code : b = work[c].batch /\ k = work[c].code
    BY LockedLine
  <1>2. ~line[b][k].applied
    BY <1>1, LockedLine
  <1>3. PICK r \in Line : r = line[b][k]
    BY LineRows
  <1> DEFINE row == [r EXCEPT !.status = status, !.applied = done, !.pupil = p]
  <1>4. row \in Line /\ row.class = r.class /\ row.applied = done /\ row.pupil = p
    BY DEF Line
  <1>5. line' = [line EXCEPT ![b][k] = row]
    BY <1>1, <1>3 DEF Outcome
  <1> HIDE DEF row
  <1> QED
    BY <1>1, <1>2, <1>3, <1>4, <1>5

\* A pass leaves a row for another time, or decides it without a new pupil.
LEMMA OutcomeDecides ==
  ASSUME RosterInv, NothingMade, NEW c \in Conn, NEW class \in {"insert", "guardian", "reactivate"},
         AtRow(c, class), NEW status \in SUCCESS \cup UNRESOLVED, NEW done \in BOOLEAN,
         NEW p \in PupilId \cup {0}, Outcome(c, status, done, p),
         done /\ class = "insert" => p = 0, UNCHANGED <<roster, transfer>>
  PROVE  Decides
  <1>1. work[c].at = "row" /\ line[work[c].batch][work[c].code].class = class
    BY DEF AtRow
  <1>2. PICK b \in Batch, k \in Code : \E row \in Line :
           /\ b = work[c].batch /\ k = work[c].code
           /\ line' = [line EXCEPT ![b][k] = row] /\ ~line[b][k].applied
           /\ row.class = line[b][k].class /\ row.applied = done /\ row.pupil = p
    BY <1>1, OutcomeRow
  <1>3. PICK row \in Line :
           /\ line' = [line EXCEPT ![b][k] = row] /\ ~line[b][k].applied
           /\ row.class = class /\ row.class = line[b][k].class
           /\ row.applied = done /\ row.pupil = p
    BY <1>1, <1>2
  <1> QED
    BY <1>3, LineDecides

LEMMA UnappliedDecides ==
  ASSUME RosterInv, NEW c \in Conn, AlreadyApplied(c) \/ VehicleBlocked(c) \/ Stale(c),
         UNCHANGED <<roster, transfer>>
  PROVE  Decides
  <1>1. {"ALREADY_APPLIED", "VEHICLE_BLOCKED", "STALE_NEEDS_REPREVIEW"}
           \subseteq SUCCESS \cup UNRESOLVED
    BY DEF SUCCESS, UNRESOLVED
  <1>2. NothingMade
    BY NobodyNew DEF AlreadyApplied, VehicleBlocked, Stale, pupilVars
  <1>3. PICK class \in {"insert", "guardian", "reactivate"} : AtRow(c, class)
    BY DEF AlreadyApplied, VehicleBlocked, Stale
  <1>4. PICK status \in {"ALREADY_APPLIED", "VEHICLE_BLOCKED", "STALE_NEEDS_REPREVIEW"},
             done \in BOOLEAN : Outcome(c, status, done, 0)
    BY DEF AlreadyApplied, VehicleBlocked, Stale
  <1> QED
    BY <1>1, <1>2, <1>3, <1>4, OutcomeDecides

LEMMA applyInsertRowDecides ==
  ASSUME RosterInv, NEW c \in Conn, applyInsertRow(c), UNCHANGED <<roster, transfer>>
  PROVE  Decides
  <1>1. work[c].at = "row" /\ line[work[c].batch][work[c].code].class = "insert"
    BY DEF applyInsertRow, AtRow
  <1>2. PICK n \in PupilId : n = nextId
    BY DEF applyInsertRow
  <1>3. PICK done \in BOOLEAN, status \in SUCCESS \cup UNRESOLVED, e \in PupilId \cup {0} :
           Outcome(c, status, done, e) /\ done /\ e = n
    BY <1>2 DEF applyInsertRow, SUCCESS
  <1>4. PICK b \in Batch, k \in Code : \E row \in Line :
           /\ b = work[c].batch /\ k = work[c].code
           /\ line' = [line EXCEPT ![b][k] = row] /\ ~line[b][k].applied
           /\ row.class = line[b][k].class /\ row.applied = done /\ row.pupil = e
    <2>1. RosterInv /\ c \in Conn /\ work[c].at = "row" /\ Outcome(c, status, done, e)
      BY <1>1, <1>3
    <2> QED
      BY <2>1, OutcomeRow
  <1>5. PICK row \in Line :
           /\ line' = [line EXCEPT ![b][k] = row] /\ ~line[b][k].applied
           /\ line[b][k].class = "insert" /\ row.class = "insert"
           /\ row.applied /\ row.pupil = n
    BY <1>1, <1>3, <1>4
  <1> DEFINE r == <<b, k>>
             person == [state |-> "active", school |-> batch[b].school, code |-> k,
                        bus |-> line[b][k].bus, cid |-> "import", made |-> r]
  <1>6. pupil' = [pupil EXCEPT ![n] = person] /\ pupil[n].state = "none"
    BY <1>2, <1>4 DEF applyInsertRow, Insertable
  <1>7. batch[b].school \in School \cup {None}
    BY DEF RosterInv, RosterTypeOK
  <1>8. person \in PupilRecord /\ person.state = "active" /\ person.made = r
    BY <1>7, LineRows DEF PupilRecord, Maker
  <1>9. r \in Requests /\ RequestStage[r] = StageOfLine(line[b][k])
    BY StageFacts
  <1>10. OthersStay(r) /\ RequestStage'[r] = StageOfLine(row)
    BY <1>5, LineMoves
  <1> HIDE DEF person, r
  <1>11. MadeOne(n, r)
    BY <1>6, <1>8, NewMaker
  <1>12. n # 0
    BY PupilIdAssumption
  <1>13. RequestStage[r] = "pending" /\ RequestStage'[r] = "applied"
    BY <1>5, <1>9, <1>10, <1>12 DEF StageOfLine
  <1> QED
    BY <1>9, <1>10, <1>11, <1>13 DEF Decides, Applies

LEMMA applyGuardianRowDecides ==
  ASSUME RosterInv, NEW c \in Conn, applyGuardianRow(c), UNCHANGED <<roster, transfer>>
  PROVE  Decides
  <1>1. AtRow(c, "guardian") /\ NothingMade
    BY NobodyNew DEF applyGuardianRow, GuardianRowFree
  <1>2. PICK p \in Records(c) : Outcome(c, "GUARDIAN_UPDATED", TRUE, p)
    BY DEF applyGuardianRow
  <1>3. p \in PupilId /\ "GUARDIAN_UPDATED" \in SUCCESS \cup UNRESOLVED
    BY <1>1, RowPupils DEF SUCCESS
  <1> QED
    BY <1>1, <1>2, <1>3, OutcomeDecides

LEMMA applyReactivateRowDecides ==
  ASSUME RosterInv, NEW c \in Conn, applyReactivateRow(c), UNCHANGED <<roster, transfer>>
  PROVE  Decides
  <1>1. AtRow(c, "reactivate") /\ work[c].at = "row"
    BY DEF applyReactivateRow, AtRow
  <1>2. PICK b \in Bus \cup {None} : b = line[work[c].batch][work[c].code].bus
    BY <1>1, LockedLine, LineRows
  <1>3. PICK p \in Records(c) :
           /\ pupil' = [pupil EXCEPT ![p].state = "active", ![p].bus = b]
           /\ Outcome(c, "REACTIVATED", TRUE, p)
    BY <1>2 DEF applyReactivateRow
  <1>4. p \in PupilId /\ "REACTIVATED" \in SUCCESS \cup UNRESOLVED
    BY <1>1, RowPupils DEF SUCCESS
  <1>5. NothingMade
    BY <1>3, <1>4, StateBusEdit, SameMaker
  <1> QED
    BY <1>1, <1>3, <1>4, <1>5, OutcomeDecides

LEMMA markRowApplyFailedDecides ==
  ASSUME RosterInv, NEW c \in Conn, markRowApplyFailed(c), UNCHANGED <<roster, transfer>>
  PROVE  Decides
  <1>1. work[c].at = "rowFailed" /\ NothingMade
    BY NobodyNew DEF markRowApplyFailed, pupilVars
  <1>2. PICK b \in Batch, k \in Code : b = work[c].batch /\ k = work[c].code
    BY <1>1, LockedLine
  <1>3. PICK r \in Line : r = line[b][k]
    BY LineRows
  <1> DEFINE row == [r EXCEPT !.status = "APPLY_FAILED"]
  <1>4. /\ row \in Line /\ row.class = r.class /\ row.applied = r.applied
        /\ row.pupil = r.pupil
    BY DEF Line, UNRESOLVED
  <1>5. line' = [line EXCEPT ![b][k] = row]
    BY <1>2, <1>3 DEF markRowApplyFailed
  <1> HIDE DEF row
  <1> QED
    BY <1>1, <1>3, <1>4, <1>5, LineDecides

\* A roll back marks the row, and may withdraw the pupil that it has inserted.
LEMMA UndoneDecides ==
  ASSUME RosterInv, NothingMade, NEW c \in Conn, NEW k \in Code,
         NEW how \in {"yes", "refused", "failed"},
         work[c].at = "undo", Undone(c, k, how), UNCHANGED <<roster, transfer>>
  PROVE  Decides
  <1>1. PICK b \in Batch : b = work[c].batch
    BY LockedLine
  <1>2. PICK r \in Line : r = line[b][k]
    BY LineRows
  <1> DEFINE row == [r EXCEPT !.undone = how]
  <1>3. /\ row \in Line /\ row.class = r.class /\ row.applied = r.applied
        /\ row.pupil = r.pupil
    BY DEF Line
  <1>4. line' = [line EXCEPT ![b][k] = row]
    BY <1>1, <1>2 DEF Undone
  <1> HIDE DEF row
  <1> QED
    BY <1>2, <1>3, <1>4, LineDecides

LEMMA rollbackRowDecides ==
  ASSUME RosterInv, NEW c \in Conn, NEW k \in Code, rollbackRow(c, k),
         UNCHANGED <<roster, transfer>>
  PROVE  Decides
  <1>1. work[c].at = "undo" /\ InsertedHere(work[c].rows[k])
    BY DEF rollbackRow
  <1>2. PICK row \in Line : row = work[c].rows[k]
    BY <1>1, LockedLine
  <1>3. PICK p \in PupilId : p = row.pupil
    BY <1>1, <1>2 DEF InsertedHere, Line
  <1>4. \/ UNCHANGED pupil
        \/ pupil' = [pupil EXCEPT ![p].state = "deleted", ![p].bus = None]
    BY <1>2, <1>3 DEF rollbackRow
  <1>5. NothingMade
    <2>1. CASE pupil' = [pupil EXCEPT ![p].state = "deleted", ![p].bus = None]
      <3>1. PICK person \in PupilRecord :
               /\ pupil' = [pupil EXCEPT ![p] = person]
               /\ person.state = "deleted" /\ person.made = pupil[p].made
        BY <2>1, StateBusEdit
      <3> QED
        BY <3>1, SameMaker
    <2> QED
      BY <1>4, <2>1, NobodyNew
  <1>6. \E how \in {"yes", "refused", "failed"} : Undone(c, k, how)
    BY DEF rollbackRow
  <1> QED
    BY <1>1, <1>5, <1>6, UndoneDecides

LEMMA SkipUndoDecides ==
  ASSUME RosterInv, NEW c \in Conn, NEW k \in Code, SkipUndo(c, k) \/ UndoFails(c, k),
         UNCHANGED <<roster, transfer>>
  PROVE  Decides
  <1>1. NothingMade /\ work[c].at = "undo"
    BY NobodyNew DEF SkipUndo, UndoFails, pupilVars
  <1>2. UNCHANGED line \/ \E how \in {"yes", "refused", "failed"} : Undone(c, k, how)
    BY DEF SkipUndo, UndoFails
  <1> QED
    BY <1>1, <1>2, UndoneDecides, QuietDecides

LEMMA ImportStepDecides ==
  ASSUME RosterInv, NEW c \in Conn, ImportStep(c), UNCHANGED <<roster, transfer>>
  PROVE  Decides
  <1>1. CASE \/ \E b \in Batch : StartApply(c, b) \/ StartRollback(c, b)
             \/ LockImportRow(c) \/ ImportRowFails(c) \/ FinishApply(c) \/ FinishRollback(c)
    BY <1>1, NobodyNew, QuietDecides
       DEF StartApply, StartRollback, LockImportRow, ImportRowFails, FinishApply,
           FinishRollback, pupilVars, importVars
  <1> QED
    BY <1>1, UnappliedDecides, applyInsertRowDecides, applyGuardianRowDecides,
       applyReactivateRowDecides, markRowApplyFailedDecides, rollbackRowDecides, SkipUndoDecides
       DEF ImportStep

\* A file is previewed: each of its rows is submitted.
LEMMA runPreviewDecides ==
  ASSUME RosterInv, NEW b \in Batch, runPreview(b), UNCHANGED <<roster, transfer>>
  PROVE  Decides
  <1>1. PICK s \in School, K \in SUBSET Code, g \in Guardian, v \in Bus \cup {None} :
           line' = [line EXCEPT ![b] = PreviewRows(s, K, g, v)]
    BY ZenonT(60) DEF runPreview
  <1> DEFINE rows == PreviewRows(s, K, g, v)
  <1>2. ASSUME NEW k \in Code
        PROVE  ~rows[k].applied
    <2>1. ~NoLine.applied
      BY DEF NoLine
    <2>2. ~PreviewRow(s, k, g, v).applied
      BY DEF PreviewRow, NoLine
    <2> QED
      BY <2>1, <2>2 DEF PreviewRows
  <1>3. line' = [line EXCEPT ![b] = rows]
    BY <1>1
  <1> HIDE DEF rows
  <1>4. line'[b] = rows /\ \A e \in Batch \ {b} : line'[e] = line[e]
    BY <1>3 DEF RosterInv, RosterTypeOK
  <1>5. NothingMade
    BY NobodyNew DEF runPreview, pupilVars
  <1>6. \A k \in Code : line[b][k].class = "none"
    BY DEF runPreview, RosterInv, RowsInv
  <1>7. ASSUME NEW r \in Requests
        PROVE  Moves(r)
    <2>1. CASE r \in RosterReq \/ r \in TransferReq
      BY <2>1, StageFacts, StageFactsNext DEF Moves, Stays
    <2>2. CASE \E e \in Batch : \E k \in Code : r = <<e, k>>
      <3>1. PICK e \in Batch, k \in Code : r = <<e, k>>
        BY <2>2
      <3>2. RequestStage[r] = StageOfLine(line[e][k]) /\ RequestStage'[r] = StageOfLine(line'[e][k])
        BY <3>1, StageFacts, StageFactsNext
      <3>3. CASE e = b
        <4>1. RequestStage[r] = "none"
          BY <1>6, <3>2, <3>3 DEF StageOfLine
        <4>2. RequestStage'[r] \in {"none", "pending"}
          BY <1>2, <1>4, <3>2, <3>3 DEF StageOfLine
        <4> QED
          BY <4>1, <4>2 DEF Moves, Stays
      <3>4. CASE e # b
        BY <1>4, <3>2, <3>4 DEF Moves, Stays
      <3> QED
        BY <3>3, <3>4
    <2> QED
      BY <2>1, <2>2, RequestKinds
  <1> QED
    BY <1>5, <1>7 DEF Decides

-----------------------------------------------------------------------------
(* The refinement *)

LEMMA DecisionStep ==
  ASSUME RosterInv, DecisionInv, RosterSystemNext
  PROVE  Decides
  <1>1. ASSUME NEW c \in Conn, Crash(c)
        PROVE  Decides
    BY <1>1, NobodyNew, QuietDecides DEF Crash, Lose, pupilVars
  <1> QED
    BY <1>1, SchoolEditDecides, RosterStepDecides, TransferStepDecides, ImportStepDecides,
       AskForNewPupilDecides, runPreviewDecides
       DEF RosterSystemNext

LEMMA DecisionInductive ==
  ASSUME RosterInv, DecisionInv, [RosterSystemNext]_rosterVars
  PROVE  DecisionInv' /\ [D!Next]_(D!decisionVars)
  <1>1. CASE RosterSystemNext
    BY <1>1, DecisionStep, DecidesIsNext
  <1>2. CASE UNCHANGED rosterVars
    <2>1. UNCHANGED <<roster, transfer, line>> /\ NothingMade
      BY <1>2, NobodyNew DEF rosterVars
    <2> QED
      BY <2>1, QuietDecides, DecidesIsNext
  <1> QED
    BY <1>1, <1>2

LEMMA DecisionInitially ==
  ASSUME RosterSystemInit
  PROVE  DecisionInv /\ D!Init
  <1>1. RosterInv
    BY RosterInitially
  <1>2. \A r \in Requests : RequestStage[r] = "none"
    <2>1. \A q \in RosterReq : RequestStage[q] = "none"
      BY StageFacts DEF RosterSystemInit, RosterInit, NoRosterRequest, StageOfRoster
    <2>2. \A t \in TransferReq : RequestStage[t] = "none"
      BY StageFacts DEF RosterSystemInit, TransferInit, NoTransfer, StageOfTransfer
    <2>3. \A b \in Batch : \A k \in Code : RequestStage[<<b, k>>] = "none"
      BY StageFacts DEF RosterSystemInit, ImportInit, NoLine, StageOfLine
    <2> QED
      BY <2>1, <2>2, <2>3, RequestKinds
  <1>3. \A p \in PupilId : pupil[p].made = None
    BY DEF RosterSystemInit, PupilsInit, Nobody
  <1>4. \A r \in Requests : MadeBy(r) = {} /\ Cardinality(MadeBy(r)) = 0
    BY <1>3, RequestAssumption, FS_EmptySet DEF MadeBy
  <1>5. DecisionInv
    BY <1>2, <1>3, <1>4 DEF DecisionInv
  <1>6. RequestStage = [r \in Requests |-> "none"]
    BY <1>2 DEF RequestStage
  <1>7. [r \in Requests |-> Cardinality(MadeBy(r))] = [r \in Requests |-> 0]
    BY <1>4
  <1> QED
    BY <1>5, <1>6, <1>7 DEF D!Init

\* rosterRequest.service.js:248 ("two concurrent approvals can't both read it as
\* 'pending' and both apply"), studentTransfer.service.js:108 and
\* studentImportPreview.service.js:438: each request is decided under the lock of its
\* row.  Whatever the numbers of schools, administrators, files and lost processes, a
\* request of any of the three workflows is decided once and creates the one pupil its
\* decision says, or none.
THEOREM RosterImplementsDecision == RosterSystemSpec => ImplementsDecision
  <1>1. RosterSystemInit => D!Init /\ DecisionInv
    BY DecisionInitially
  <1>2. RosterInv /\ DecisionInv /\ [RosterSystemNext]_rosterVars
           => DecisionInv' /\ [D!Next]_(D!decisionVars)
    BY DecisionInductive
  <1> QED
    BY <1>1, <1>2, RosterAlways, PTL DEF RosterSystemSpec, ImplementsDecision, D!Spec

=============================================================================
