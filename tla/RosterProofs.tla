---------------------------- MODULE RosterProofs ----------------------------
(***************************************************************************)
(* Proofs about the pupils of the schools and the workflows that change    *)
(* them: the drivers' requests, transfers, imports and the schools' edits. *)
(***************************************************************************)
EXTENDS Roster, FiniteSetTheorems, TLAPS

\* What a connection may be doing.
Job ==
    [at : {"idle"}]
    \cup [at : {"move"}, pupil : PupilId, bus : Bus \cup {None}]
    \cup [at : {"withdraw", "reassign"}, pupil : PupilId]
    \cup [at : {"insert"}, school : School, code : Code, guardian : Guardian,
          pupil : PupilId \cup {0}]
    \cup [at : {"ask"}, type : {"add", "remove"}, pupil : PupilId,
          school : School \cup {None}, bus : Bus]
    \cup [at : {"review"}, request : RosterReq, decision : {"approved", "rejected"}]
    \cup [at : {"request"}, pupil : PupilId, code : Code \cup {None},
          from : School \cup {None}, to : School]
    \cup [at : {"close"}, request : TransferReq, to : {"CANCELLED", "REJECTED"}]
    \cup [at : {"lock", "fail"}, request : TransferReq]
    \cup [at : {"apply"}, request : TransferReq,
          links : [Guardian -> {"none", "approved", "revoked"}]]
    \cup [at : {"batch"}, batch : Batch, todo : SUBSET Code]
    \cup [at : {"row", "rowFailed"}, batch : Batch, todo : SUBSET Code, code : Code]
    \cup [at : {"undo"}, batch : Batch, todo : SUBSET Code, rows : [Code -> Line]]

WorkTypeOK ==
    /\ work \in [Conn -> Job]
    /\ DOMAIN held = Conn

\* A row is locked by one connection at a time, ...
LocksExclusive == \A c, d \in Conn : c # d => held[c] \cap held[d] = {}

\* ... and by the one that has read what it will write.
LocksHeld(c) ==
    /\ work[c].at = "lock" => transferRow(work[c].request) \in held[c]
    /\ work[c].at = "apply" => /\ transferRow(work[c].request) \in held[c]
                               /\ PupilRow(transfer[work[c].request].pupil) \in held[c]
    /\ work[c].at = "row" => lineRow(work[c].batch, work[c].code) \in held[c]

\* The pupil that a row of an import inserted is the one that its rows name.
Inserted(row, b, k) ==
    row.status = "APPLIED" /\ row.pupil # 0 =>
       pupil[row.pupil].state # "none" /\ pupil[row.pupil].made = <<b, k>>

\* What a connection has read of the rows it has locked is still so.
WorkInv(c) ==
    /\ work[c].at \in {"lock", "apply"} => transfer[work[c].request].status = "PENDING"
    /\ work[c].at = "apply" =>
          LET r == transfer[work[c].request] IN
          /\ Active(r.pupil) /\ pupil[r.pupil].code = r.code
          /\ \A g \in barred[r.pupil] : work[c].links[g] # "approved"
    /\ work[c].at \in {"batch", "row", "rowFailed", "undo"} => batch[work[c].batch].status # "NONE"
    /\ work[c].at = "row" => ~line[work[c].batch][work[c].code].applied
    /\ work[c].at = "undo" => \A k \in Code : Inserted(work[c].rows[k], work[c].batch, k)

\* A request names a pupil, a batch that was not previewed has no rows.
RowsInv ==
    /\ \A q \in RosterReq : roster[q].status # "none" /\ roster[q].type # "new"
                               => roster[q].pupil \in PupilId
    /\ \A t \in TransferReq : transfer[t].status # "NONE" => transfer[t].pupil \in PupilId
    /\ \A b \in Batch : \A k \in Code :
          /\ batch[b].status = "NONE" => line[b][k].class = "none"
          /\ Inserted(line[b][k], b, k)

\* A request has created the one pupil of its decision, or none.
DecisionInv ==
    /\ \A p \in PupilId : pupil[p].state = "none" => pupil[p].made = None
    /\ \A r \in Requests :
          IF RequestStage[r] = "applied" THEN \E p \in PupilId : MadeBy(r) = {p}
                                         ELSE MadeBy(r) = {}

RosterInv ==
    /\ RosterTypeOK /\ WorkTypeOK
    /\ LocksExclusive
    /\ \A c \in Conn : LocksHeld(c) /\ WorkInv(c)
    /\ RowsInv
    /\ RevokedStaysRevoked
-----------------------------------------------------------------------------
(* Jobs and locks *)

LEMMA JobOf ==
  ASSUME NEW w \in Job
  PROVE  /\ w.at = "move" => w \in [at : {"move"}, pupil : PupilId, bus : Bus \cup {None}]
         /\ w.at \in {"withdraw", "reassign"} =>
               w \in [at : {"withdraw", "reassign"}, pupil : PupilId]
         /\ w.at = "insert" => w \in [at : {"insert"}, school : School, code : Code,
                                      guardian : Guardian, pupil : PupilId \cup {0}]
         /\ w.at = "ask" => w \in [at : {"ask"}, type : {"add", "remove"}, pupil : PupilId,
                                   school : School \cup {None}, bus : Bus]
         /\ w.at = "review" => w \in [at : {"review"}, request : RosterReq,
                                      decision : {"approved", "rejected"}]
         /\ w.at = "request" => w \in [at : {"request"}, pupil : PupilId,
                                       code : Code \cup {None}, from : School \cup {None},
                                       to : School]
         /\ w.at = "close" => w \in [at : {"close"}, request : TransferReq,
                                     to : {"CANCELLED", "REJECTED"}]
         /\ w.at \in {"lock", "fail"} => w \in [at : {"lock", "fail"}, request : TransferReq]
         /\ w.at = "apply" => w \in [at : {"apply"}, request : TransferReq,
                                     links : [Guardian -> {"none", "approved", "revoked"}]]
         /\ w.at = "batch" => w \in [at : {"batch"}, batch : Batch, todo : SUBSET Code]
         /\ w.at \in {"row", "rowFailed"} =>
               w \in [at : {"row", "rowFailed"}, batch : Batch, todo : SUBSET Code, code : Code]
         /\ w.at = "undo" => w \in [at : {"undo"}, batch : Batch, todo : SUBSET Code,
                                    rows : [Code -> Line]]
  BY DEF Job

\* The fields of what a connection that is at a step has to go on with.
LEMMA JobFields ==
  ASSUME WorkTypeOK, NEW c \in Conn
  PROVE  /\ work[c].at \in {"move", "withdraw", "reassign"} => work[c].pupil \in PupilId
         /\ work[c].at = "move" => work[c].bus \in Bus \cup {None}
         /\ work[c].at = "insert" =>
               /\ work[c].school \in School /\ work[c].code \in Code
               /\ work[c].guardian \in Guardian /\ work[c].pupil \in PupilId \cup {0}
         /\ work[c].at = "ask" =>
               /\ work[c].type \in {"add", "remove"} /\ work[c].pupil \in PupilId
               /\ work[c].school \in School \cup {None} /\ work[c].bus \in Bus
         /\ work[c].at = "review" => work[c].request \in RosterReq
         /\ work[c].at = "request" =>
               /\ work[c].pupil \in PupilId /\ work[c].code \in Code \cup {None}
               /\ work[c].from \in School \cup {None} /\ work[c].to \in School
         /\ work[c].at \in {"close", "lock", "fail", "apply"} => work[c].request \in TransferReq
         /\ work[c].at = "close" => work[c].to \in {"CANCELLED", "REJECTED"}
         /\ work[c].at = "apply" => work[c].links \in [Guardian -> {"none", "approved", "revoked"}]
         /\ work[c].at \in {"batch", "row", "rowFailed", "undo"} =>
               work[c].batch \in Batch /\ work[c].todo \in SUBSET Code
         /\ work[c].at \in {"row", "rowFailed"} => work[c].code \in Code
         /\ work[c].at = "undo" => work[c].rows \in [Code -> Line]
  <1>1. work[c] \in Job
    BY DEF WorkTypeOK
  <1> QED
    BY <1>1, JobOf

\* c turns to a step; the others stay where they are.
LEMMA GoesFacts ==
  ASSUME WorkTypeOK, NEW c \in Conn, NEW step \in Job, NEW locks, Goes(c, step, locks)
  PROVE  /\ WorkTypeOK'
         /\ work'[c] = step /\ held'[c] = locks
         /\ \A d \in Conn \ {c} : work'[d] = work[d] /\ held'[d] = held[d]
  BY DEF WorkTypeOK, Goes

LEMMA IdleIsAJob == Idle \in Job /\ Idle.at = "idle"
  BY DEF Idle, Job

-----------------------------------------------------------------------------
(* What a step of c does to each table, as far as the others rely on it *)

PupilEffect(c) ==
    /\ pupil' \in [PupilId -> PupilRecord]
    /\ link' \in [PupilId -> [Guardian -> {"none", "approved", "revoked"}]]
    /\ barred' \in [PupilId -> SUBSET Guardian]
    /\ nextId' \in Nat
    /\ RevokedStaysRevoked'
    /\ \A p \in PupilId : pupil[p].state # "none" =>
          /\ pupil'[p].state # "none"
          /\ pupil'[p].code = pupil[p].code /\ pupil'[p].made = pupil[p].made
          /\ \A d \in Conn \ {c} : PupilRow(p) \in held[d] =>
                pupil'[p].state = pupil[p].state /\ barred'[p] \subseteq barred[p]

RosterEffect ==
    /\ roster' \in [RosterReq ->
          [status : {"none", "pending", "approved", "rejected"},
           type : {"add", "remove", "new"}, pupil : PupilId \cup {0},
           school : School \cup {None}, bus : Bus \cup {None}, named : PupilId \cup {0}]]
    /\ \A q \in RosterReq : roster'[q].status # "none" /\ roster'[q].type # "new"
                               => roster'[q].pupil \in PupilId

TransferEffect(c) ==
    /\ transfer' \in [TransferReq ->
          [status : {"NONE", "PENDING", "APPLIED", "STALE_NEEDS_REVIEW", "FAILED",
                     "CANCELLED", "REJECTED"},
           pupil : PupilId \cup {0}, code : Code \cup {None}, from : School \cup {None},
           to : School \cup {None}, applied : PupilId \cup {0}]]
    /\ \A t \in TransferReq : transfer'[t].status # "NONE" => transfer'[t].pupil \in PupilId
    /\ \A t \in TransferReq : transfer[t].status # "NONE" =>
          /\ transfer'[t].pupil = transfer[t].pupil /\ transfer'[t].code = transfer[t].code
          /\ \A d \in Conn \ {c} : transferRow(t) \in held[d] =>
                transfer'[t].status = transfer[t].status

ImportEffect(c) ==
    /\ batch' \in [Batch ->
          [school : School \cup {None}, success : Nat, error : Nat,
           status : {"NONE", "PREVIEWED", "APPLIED", "APPLIED_PARTIAL"},
           undone : {"no", "yes", "partial"}]]
    /\ line' \in [Batch -> [Code -> Line]]
    /\ cut' \subseteq Batch
    /\ \A b \in Batch : \A k \in Code :
          /\ batch'[b].status = "NONE" => line'[b][k].class = "none"
          /\ Inserted(line[b][k], b, k)'
    /\ \A b \in Batch : batch[b].status # "NONE" =>
          /\ batch'[b].status # "NONE"
          /\ \A k \in Code : \A d \in Conn \ {c} : lineRow(b, k) \in held[d] =>
                line'[b][k].applied = line[b][k].applied

\* A table that the step leaves alone.
LEMMA NoPupilEffect ==
  ASSUME RosterInv, NEW c, UNCHANGED pupilVars
  PROVE  PupilEffect(c)
  BY DEF RosterInv, RosterTypeOK, RevokedStaysRevoked, PupilEffect, pupilVars

LEMMA NoRosterEffect ==
  ASSUME RosterInv, UNCHANGED roster
  PROVE  RosterEffect
  BY DEF RosterInv, RosterTypeOK, RowsInv, RosterEffect

LEMMA NoTransferEffect ==
  ASSUME RosterInv, NEW c, UNCHANGED transfer
  PROVE  TransferEffect(c)
  BY DEF RosterInv, RosterTypeOK, RowsInv, TransferEffect

\* ... as each of them must stand when the pupils move.
LEMMA StillInserted ==
  ASSUME RosterInv, NEW c, PupilEffect(c), NEW row \in Line, NEW b, NEW k, Inserted(row, b, k)
  PROVE  row.status = "APPLIED" /\ row.pupil # 0 =>
            pupil'[row.pupil].state # "none" /\ pupil'[row.pupil].made = <<b, k>>
  BY DEF Inserted, PupilEffect, Line

LEMMA NoImportEffect ==
  ASSUME RosterInv, NEW c, PupilEffect(c), UNCHANGED importVars
  PROVE  ImportEffect(c)
  <1>1. \A b \in Batch : \A k \in Code : line[b][k] \in Line
    BY DEF RosterInv, RosterTypeOK
  <1>2. \A b \in Batch : \A k \in Code : Inserted(line[b][k], b, k)'
    <2> SUFFICES ASSUME NEW b \in Batch, NEW k \in Code
                 PROVE  Inserted(line[b][k], b, k)'
      OBVIOUS
    <2>1. Inserted(line[b][k], b, k) /\ line[b][k] \in Line
      BY <1>1 DEF RosterInv, RowsInv
    <2>2. line'[b][k] = line[b][k]
      BY DEF importVars
    <2> QED
      BY <2>1, <2>2, StillInserted DEF Inserted
  <1> QED
    BY <1>2 DEF RosterInv, RosterTypeOK, RowsInv, ImportEffect, importVars
\* A connection that does not move keeps its locks and what it has read under them.
LEMMA Undisturbed ==
  ASSUME RosterInv, NEW c \in Conn, NEW d \in Conn \ {c},
         work'[d] = work[d], held'[d] = held[d],
         PupilEffect(c), TransferEffect(c), ImportEffect(c)
  PROVE  LocksHeld(d)' /\ WorkInv(d)'
  <1> DEFINE t == work[d].request
             b == work[d].batch
  <1>1. WorkTypeOK /\ LocksHeld(d) /\ WorkInv(d) /\ RowsInv
    BY DEF RosterInv
  <1>2. ASSUME work[d].at \in {"lock", "apply"}
        PROVE  /\ t \in TransferReq /\ transfer[t].status = "PENDING"
               /\ transfer'[t].status = "PENDING" /\ transfer'[t].pupil = transfer[t].pupil
               /\ transfer'[t].code = transfer[t].code /\ transfer[t].pupil \in PupilId
    <2>1. t \in TransferReq /\ transfer[t].status = "PENDING" /\ transferRow(t) \in held[d]
      BY <1>1, <1>2, JobFields DEF LocksHeld, WorkInv
    <2> QED
      BY <1>1, <2>1 DEF TransferEffect, RowsInv
  <1>3. LocksHeld(d)'
    <2>1. work[d].at = "lock" => transferRow(t) \in held'[d]
      BY <1>1 DEF LocksHeld
    <2>2. work[d].at = "apply" =>
             transferRow(t) \in held'[d] /\ PupilRow(transfer'[t].pupil) \in held'[d]
      BY <1>1, <1>2 DEF LocksHeld
    <2>3. work[d].at = "row" => lineRow(b, work[d].code) \in held'[d]
      BY <1>1 DEF LocksHeld
    <2> QED
      BY <2>1, <2>2, <2>3 DEF LocksHeld
  <1>4. work[d].at = "apply" =>
           LET r == transfer'[t] IN
           /\ pupil'[r.pupil].state = "active" /\ pupil'[r.pupil].code = r.code
           /\ \A g \in barred'[r.pupil] : work[d].links[g] # "approved"
    <2> SUFFICES ASSUME work[d].at = "apply"
                 PROVE  /\ pupil'[transfer[t].pupil].state = "active"
                        /\ pupil'[transfer[t].pupil].code = transfer[t].code
                        /\ \A g \in barred'[transfer[t].pupil] : work[d].links[g] # "approved"
      BY <1>2
    <2>1. PICK p \in PupilId : p = transfer[t].pupil
      BY <1>2
    <2>2. /\ pupil[p].state = "active" /\ pupil[p].code = transfer[t].code
          /\ \A g \in barred[p] : work[d].links[g] # "approved"
          /\ PupilRow(p) \in held[d]
      BY <1>1, <2>1 DEF WorkInv, LocksHeld, Active
    <2>3. pupil'[p].state = pupil[p].state /\ barred'[p] \subseteq barred[p]
          /\ pupil'[p].code = pupil[p].code
      BY <2>2 DEF PupilEffect
    <2> QED
      BY <2>1, <2>2, <2>3
  <1>5. work[d].at \in {"batch", "row", "rowFailed", "undo"} =>
           b \in Batch /\ batch[b].status # "NONE" /\ batch'[b].status # "NONE"
    BY <1>1, JobFields DEF WorkInv, ImportEffect
  <1>6. work[d].at = "row" => ~line'[b][work[d].code].applied
    <2> SUFFICES ASSUME work[d].at = "row" PROVE ~line'[b][work[d].code].applied
      OBVIOUS
    <2>1. PICK k \in Code : k = work[d].code
      BY <1>1, JobFields
    <2>2. ~line[b][k].applied /\ lineRow(b, k) \in held[d]
      BY <1>1, <2>1 DEF WorkInv, LocksHeld
    <2>3. line'[b][k].applied = line[b][k].applied
      BY <1>5, <2>2 DEF ImportEffect
    <2> QED
      BY <2>1, <2>2, <2>3
  <1>7. work[d].at = "undo" => \A k \in Code : Inserted(work[d].rows[k], b, k)'
    <2> SUFFICES ASSUME work[d].at = "undo", NEW k \in Code
                 PROVE  Inserted(work[d].rows[k], b, k)'
      OBVIOUS
    <2>1. work[d].rows[k] \in Line /\ Inserted(work[d].rows[k], b, k)
      BY <1>1, JobFields DEF WorkInv
    <2>2. (work[d].rows[k])' = work[d].rows[k] /\ b' = b
      OBVIOUS
    <2> QED
      BY <2>1, <2>2, StillInserted DEF Inserted
  <1>8. WorkInv(d)'
    BY <1>2, <1>4, <1>5, <1>6, <1>7 DEF WorkInv, Active
  <1> QED
    BY <1>3, <1>8

\* Locks that c takes are free, so the rows stay locked by one connection each.
LEMMA StillExclusive ==
  ASSUME RosterInv, NEW c \in Conn, NEW locks, held'[c] = locks,
         \A d \in Conn \ {c} : held'[d] = held[d] /\ locks \cap held[d] = {}
  PROVE  LocksExclusive'
  BY DEF RosterInv, LocksExclusive

\* What a step has to show to keep the invariant.
LEMMA StepKeeps ==
  ASSUME RosterInv, NEW c \in Conn,
         PupilEffect(c), RosterEffect, TransferEffect(c), ImportEffect(c),
         begun' \in [{"edit", "request"} -> Nat], WorkTypeOK', LocksExclusive',
         \A d \in Conn \ {c} : work'[d] = work[d] /\ held'[d] = held[d],
         LocksHeld(c)', WorkInv(c)'
  PROVE  RosterInv'
  <1>1. \A d \in Conn : LocksHeld(d)' /\ WorkInv(d)'
    BY Undisturbed
  <1>2. RosterTypeOK'
    BY DEF RosterTypeOK, PupilEffect, RosterEffect, TransferEffect, ImportEffect, WorkTypeOK
  <1>3. RowsInv'
    BY DEF RowsInv, RosterEffect, TransferEffect, ImportEffect
  <1> QED
    BY <1>1, <1>2, <1>3 DEF RosterInv, PupilEffect

\* A request that is over has nothing locked and nothing to rely on.
LEMMA EndsKeeps ==
  ASSUME RosterInv, NEW c \in Conn, Ends(c),
         PupilEffect(c), RosterEffect, TransferEffect(c), ImportEffect(c)
  PROVE  RosterInv'
  <1>1. Goes(c, Idle, {}) /\ begun' = begun
    BY DEF Ends, Continues
  <1>2. /\ WorkTypeOK' /\ work'[c] = Idle /\ held'[c] = {}
        /\ \A d \in Conn \ {c} : work'[d] = work[d] /\ held'[d] = held[d]
    BY <1>1, GoesFacts, IdleIsAJob DEF RosterInv
  <1>3. LocksExclusive'
    BY <1>2, StillExclusive
  <1>4. LocksHeld(c)' /\ WorkInv(c)'
    BY <1>2, IdleIsAJob DEF LocksHeld, WorkInv
  <1> QED
    BY <1>1, <1>2, <1>3, <1>4, StepKeeps DEF RosterInv, RosterTypeOK

\* A step that only reads, and goes on with what it has read.
LEMMA ReadKeeps ==
  ASSUME RosterInv, NEW c \in Conn, NEW step \in Job, NEW locks, Goes(c, step, locks),
         begun' \in [{"edit", "request"} -> Nat],
         \A d \in Conn \ {c} : locks \cap held[d] = {},
         UNCHANGED <<pupilVars, roster, transfer, batch, line>>, cut' \subseteq Batch,
         LocksHeld(c)', WorkInv(c)'
  PROVE  RosterInv'
  <1>1. /\ WorkTypeOK' /\ held'[c] = locks
        /\ \A d \in Conn \ {c} : work'[d] = work[d] /\ held'[d] = held[d]
    BY GoesFacts DEF RosterInv
  <1>2. LocksExclusive'
    BY <1>1, StillExclusive
  <1>3. PupilEffect(c) /\ RosterEffect /\ TransferEffect(c)
    BY NoPupilEffect, NoRosterEffect, NoTransferEffect
  <1>4. ImportEffect(c)
    <2>1. \A b \in Batch : \A k \in Code : Inserted(line[b][k], b, k)'
      <3> SUFFICES ASSUME NEW b \in Batch, NEW k \in Code
                   PROVE  Inserted(line[b][k], b, k)'
        OBVIOUS
      <3>1. Inserted(line[b][k], b, k)
        BY DEF RosterInv, RowsInv
      <3> QED
        BY <3>1 DEF Inserted, pupilVars
    <2> QED
      BY <2>1 DEF RosterInv, RosterTypeOK, RowsInv, ImportEffect
  <1> QED
    BY <1>1, <1>2, <1>3, <1>4, StepKeeps

\* The bounds on arriving requests.
LEMMA ArrivesFacts ==
  ASSUME RosterInv, NEW kind \in {"edit", "request"}, Arrives(kind)
  PROVE  begun' \in [{"edit", "request"} -> Nat]
  BY DEF RosterInv, RosterTypeOK, Arrives
-----------------------------------------------------------------------------
(* Changes of a pupil *)

\* The row of one pupil changes: a new one, or one that nobody else has locked.
LEMMA OnePupil ==
  ASSUME RosterInv, NEW c \in Conn, NEW p \in PupilId, NEW row \in PupilRecord,
         pupil' = [pupil EXCEPT ![p] = row],
         pupil[p].state # "none" =>
            /\ row.state # "none" /\ row.code = pupil[p].code /\ row.made = pupil[p].made
            /\ Free(c, PupilRow(p)),
         link' \in [PupilId -> [Guardian -> {"none", "approved", "revoked"}]],
         barred' \in [PupilId -> SUBSET Guardian], nextId' \in Nat,
         RevokedStaysRevoked', \A q \in PupilId \ {p} : barred'[q] \subseteq barred[q]
  PROVE  PupilEffect(c)
  <1>1. pupil' \in [PupilId -> PupilRecord]
    BY DEF RosterInv, RosterTypeOK
  <1>2. pupil'[p] = row /\ \A q \in PupilId \ {p} : pupil'[q] = pupil[q]
    BY DEF RosterInv, RosterTypeOK
  <1> QED
    BY <1>1, <1>2 DEF PupilEffect, Free

\* ... and its links stay as they are.
LEMMA OnePupilAlone ==
  ASSUME RosterInv, NEW c \in Conn, NEW p \in PupilId, NEW row \in PupilRecord,
         pupil' = [pupil EXCEPT ![p] = row],
         pupil[p].state # "none" =>
            /\ row.state # "none" /\ row.code = pupil[p].code /\ row.made = pupil[p].made
            /\ Free(c, PupilRow(p)),
         UNCHANGED <<link, barred, nextId>>
  PROVE  PupilEffect(c)
  <1>1. /\ link' \in [PupilId -> [Guardian -> {"none", "approved", "revoked"}]]
        /\ barred' \in [PupilId -> SUBSET Guardian] /\ nextId' \in Nat /\ barred' = barred
    BY DEF RosterInv, RosterTypeOK
  <1>2. RevokedStaysRevoked'
    BY DEF RosterInv, RevokedStaysRevoked
  <1> QED
    BY <1>1, <1>2, OnePupil

\* Only links change, of pupils that nobody else has locked where a bar is added.
LEMMA OnlyLinks ==
  ASSUME RosterInv, NEW c \in Conn, UNCHANGED <<pupil, nextId>>,
         link' \in [PupilId -> [Guardian -> {"none", "approved", "revoked"}]],
         barred' \in [PupilId -> SUBSET Guardian], RevokedStaysRevoked',
         \A q \in PupilId : barred'[q] \subseteq barred[q] \/ Free(c, PupilRow(q))
  PROVE  PupilEffect(c)
  <1>1. \A q \in PupilId : \A d \in Conn \ {c} :
           PupilRow(q) \in held[d] => barred'[q] \subseteq barred[q]
    BY DEF Free
  <1>2. pupil' \in [PupilId -> PupilRecord] /\ nextId' \in Nat /\ pupil' = pupil
    BY DEF RosterInv, RosterTypeOK
  <1> QED
    BY <1>1, <1>2 DEF PupilEffect

LEMMA ApproveFacts ==
  ASSUME RosterInv, NEW p \in PupilId, NEW g, Approve(p, g)
  PROVE  /\ link' \in [PupilId -> [Guardian -> {"none", "approved", "revoked"}]]
         /\ barred' \in [PupilId -> SUBSET Guardian]
         /\ RevokedStaysRevoked'
         /\ \A q \in PupilId : barred'[q] \subseteq barred[q]
  <1>1. /\ link' = [link EXCEPT ![p] = [link[p] EXCEPT ![g] = "approved"]]
        /\ barred' = [barred EXCEPT ![p] = barred[p] \ {g}]
    BY DEF Approve
  <1>2. [link[p] EXCEPT ![g] = "approved"] \in [Guardian -> {"none", "approved", "revoked"}]
    BY DEF RosterInv, RosterTypeOK
  <1>3. link' \in [PupilId -> [Guardian -> {"none", "approved", "revoked"}]]
    BY <1>1, <1>2 DEF RosterInv, RosterTypeOK
  <1>4. barred' \in [PupilId -> SUBSET Guardian] /\ \A q \in PupilId : barred'[q] \subseteq barred[q]
    BY <1>1 DEF RosterInv, RosterTypeOK
  <1>5. ASSUME NEW q \in PupilId, NEW h \in barred'[q]
        PROVE  link'[q][h] # "approved"
    <2>1. link[q][h] # "approved" /\ h \in Guardian
      BY <1>4, <1>5 DEF RosterInv, RevokedStaysRevoked, RosterTypeOK
    <2>2. CASE q = p
      <3>1. h # g /\ link'[p] = [link[p] EXCEPT ![g] = "approved"]
        BY <1>1, <1>5, <2>2 DEF RosterInv, RosterTypeOK
      <3>2. link'[p][h] = link[p][h]
        BY <2>1, <3>1 DEF RosterInv, RosterTypeOK
      <3> QED
        BY <2>1, <2>2, <3>2
    <2>3. CASE q # p
      BY <1>1, <2>1, <2>3 DEF RosterInv, RosterTypeOK
    <2> QED
      BY <2>2, <2>3
  <1> QED
    BY <1>3, <1>4, <1>5 DEF RevokedStaysRevoked

\* The columns that the statements set, and those they leave.
LEMMA BusEdit ==
  ASSUME NEW r \in PupilRecord, NEW b \in Bus \cup {None}
  PROVE  LET row == [r EXCEPT !.bus = b] IN
         /\ row \in PupilRecord /\ row.state = r.state
         /\ row.code = r.code /\ row.made = r.made /\ row.bus = b
  BY DEF PupilRecord

LEMMA StateEdit ==
  ASSUME NEW r \in PupilRecord, NEW state \in {"none", "active", "deleted"}
  PROVE  LET row == [r EXCEPT !.state = state] IN
         /\ row \in PupilRecord /\ row.state = state
         /\ row.code = r.code /\ row.made = r.made /\ row.bus = r.bus
  BY DEF PupilRecord

LEMMA StateBusEdit ==
  ASSUME RosterInv, NEW p \in PupilId, NEW state \in {"none", "active", "deleted"},
         NEW b \in Bus \cup {None},
         pupil' = [pupil EXCEPT ![p].state = state, ![p].bus = b]
  PROVE  \E row \in PupilRecord :
            /\ pupil' = [pupil EXCEPT ![p] = row]
            /\ row.state = state /\ row.code = pupil[p].code /\ row.made = pupil[p].made
  <1>1. PICK r \in PupilRecord : r = pupil[p]
    BY DEF RosterInv, RosterTypeOK
  <1>2. PICK q \in PupilRecord : q = [r EXCEPT !.state = state]
    BY StateEdit
  <1>3. q.state = state /\ q.code = r.code /\ q.made = r.made
    BY <1>2, StateEdit
  <1>4. PICK row \in PupilRecord : row = [q EXCEPT !.bus = b]
    BY BusEdit
  <1>5. row.state = state /\ row.code = r.code /\ row.made = r.made
    BY <1>3, <1>4, BusEdit
  <1>6. row = [[r EXCEPT !.state = state] EXCEPT !.bus = b]
    BY <1>2, <1>4, Zenon
  <1>7. pupil' = [pupil EXCEPT ![p] = [[pupil[p] EXCEPT !.state = state] EXCEPT !.bus = b]]
    BY DEF RosterInv, RosterTypeOK
  <1>8. pupil' = [pupil EXCEPT ![p] = row]
    BY <1>1, <1>6, <1>7, Zenon
  <1> QED
    BY <1>1, <1>5, <1>8

LEMMA StateBusCidEdit ==
  ASSUME RosterInv, NEW p \in PupilId, NEW state \in {"none", "active", "deleted"},
         NEW b \in Bus \cup {None}, NEW cid \in {"import", "other"},
         pupil' = [pupil EXCEPT ![p].state = state, ![p].bus = b, ![p].cid = cid]
  PROVE  \E row \in PupilRecord :
            /\ pupil' = [pupil EXCEPT ![p] = row]
            /\ row.state = state /\ row.code = pupil[p].code /\ row.made = pupil[p].made
  <1>1. PICK r \in PupilRecord : r = pupil[p]
    BY DEF RosterInv, RosterTypeOK
  <1>2. PICK q \in PupilRecord : q = [r EXCEPT !.state = state]
    BY StateEdit
  <1>3. q.state = state /\ q.code = r.code /\ q.made = r.made
    BY <1>2, StateEdit
  <1>4. PICK w \in PupilRecord : w = [q EXCEPT !.bus = b]
    BY BusEdit
  <1>5. w.state = state /\ w.code = r.code /\ w.made = r.made
    BY <1>3, <1>4, BusEdit
  <1> DEFINE row == [w EXCEPT !.cid = cid]
  <1>6. /\ row \in PupilRecord
        /\ row.state = w.state /\ row.code = w.code /\ row.made = w.made
    BY DEF PupilRecord
  <1>7. row = [[[r EXCEPT !.state = state] EXCEPT !.bus = b] EXCEPT !.cid = cid]
    BY <1>2, <1>4, Zenon
  <1>8. pupil' = [pupil EXCEPT ![p] =
                    [[[pupil[p] EXCEPT !.state = state] EXCEPT !.bus = b] EXCEPT !.cid = cid]]
    BY DEF RosterInv, RosterTypeOK
  <1> HIDE DEF row
  <1>9. pupil' = [pupil EXCEPT ![p] = row]
    BY <1>1, <1>7, <1>8, Zenon
  <1> QED
    BY <1>1, <1>5, <1>6, <1>9

-----------------------------------------------------------------------------
(* The schools' own edits *)

LEMMA PupilRows ==
  ASSUME RosterInv
  PROVE  /\ pupil \in [PupilId -> PupilRecord]
         /\ \A p \in PupilId : pupil[p] \in PupilRecord
         /\ None \in Bus \cup {None}
  BY DEF RosterInv, RosterTypeOK
\* A request that has begun with plain reads.
LEMMA LookKeeps ==
  ASSUME RosterInv, NEW c \in Conn, NEW kind \in {"edit", "request"}, NEW step \in Job,
         Begins(c, kind, step, {}),
         step.at \in {"move", "withdraw", "reassign", "insert", "ask", "request", "close"},
         UNCHANGED <<pupilVars, roster, transfer, importVars>>
  PROVE  RosterInv'
  <1>1. Goes(c, step, {}) /\ begun' \in [{"edit", "request"} -> Nat]
    BY ArrivesFacts DEF Begins
  <1>2. work'[c] = step
    BY <1>1, GoesFacts DEF RosterInv
  <1>3. LocksHeld(c)' /\ WorkInv(c)'
    BY <1>2 DEF LocksHeld, WorkInv
  <1>4. cut' \subseteq Batch
    BY DEF RosterInv, RosterTypeOK, importVars
  <1> QED
    BY <1>1, <1>3, <1>4, ReadKeeps DEF importVars

LEMMA ReadPupilKeeps ==
  ASSUME RosterInv, NEW c \in Conn, ReadPupil(c), UNCHANGED <<roster, transfer, importVars>>
  PROVE  RosterInv'
  <1>1. PICK step \in Job :
           Begins(c, "edit", step, {}) /\ step.at \in {"move", "withdraw", "reassign"}
    <2>1. \A p \in PupilId : \A b \in Bus \cup {None} : [at |-> "move", pupil |-> p, bus |-> b] \in Job
      BY DEF Job
    <2>2. \A p \in PupilId : /\ [at |-> "withdraw", pupil |-> p] \in Job
                             /\ [at |-> "reassign", pupil |-> p] \in Job
      BY DEF Job
    <2> QED
      BY <2>1, <2>2 DEF ReadPupil
  <1> QED
    BY <1>1, LookKeeps DEF ReadPupil

LEMMA ReadForImportKeeps ==
  ASSUME RosterInv, NEW c \in Conn, ReadForImport(c), UNCHANGED <<roster, transfer, importVars>>
  PROVE  RosterInv'
  <1>1. PICK s \in School, k \in Code, g \in Guardian :
           Begins(c, "edit", [at |-> "insert", school |-> s, code |-> k, guardian |-> g,
                  pupil |-> IF RecordOf(s, k) = {} THEN 0 ELSE CHOOSE p \in RecordOf(s, k) : TRUE], {})
    BY DEF ReadForImport
  <1>2. PICK n \in PupilId \cup {0} :
           n = IF RecordOf(s, k) = {} THEN 0 ELSE CHOOSE p \in RecordOf(s, k) : TRUE
    <2>1. RecordOf(s, k) \subseteq PupilId
      BY DEF RecordOf
    <2> QED
      BY <2>1
  <1>3. [at |-> "insert", school |-> s, code |-> k, guardian |-> g, pupil |-> n] \in Job
    BY DEF Job
  <1> QED
    BY <1>1, <1>2, <1>3, LookKeeps DEF ReadForImport

LEMMA MoveToBusKeeps ==
  ASSUME RosterInv, NEW c \in Conn, MoveToBus(c), UNCHANGED <<roster, transfer, importVars>>
  PROVE  RosterInv'
  <1>1. PICK p \in PupilId, b \in Bus \cup {None} : p = work[c].pupil /\ b = work[c].bus
    BY JobFields DEF RosterInv, MoveToBus
  <1>2. PICK row \in PupilRecord : row = [pupil[p] EXCEPT !.bus = b]
    BY PupilRows, BusEdit
  <1>3. row.state = pupil[p].state /\ row.code = pupil[p].code /\ row.made = pupil[p].made
    BY <1>2, PupilRows, BusEdit
  <1>4. /\ pupil' = [pupil EXCEPT ![p] = row] /\ Free(c, PupilRow(p)) /\ Ends(c)
        /\ UNCHANGED <<link, barred, nextId>>
    BY <1>1, <1>2 DEF MoveToBus
  <1>5. PupilEffect(c)
    BY <1>3, <1>4, OnePupilAlone
  <1> QED
    BY <1>4, <1>5, EndsKeeps, NoRosterEffect, NoTransferEffect, NoImportEffect

LEMMA WithdrawKeeps ==
  ASSUME RosterInv, NEW c \in Conn, Withdraw(c), UNCHANGED <<roster, transfer, importVars>>
  PROVE  RosterInv'
  <1>1. PICK p \in PupilId : p = work[c].pupil
    BY JobFields DEF RosterInv, Withdraw
  <1>2. /\ pupil' = [pupil EXCEPT ![p].state = "deleted", ![p].bus = None]
        /\ Free(c, PupilRow(p)) /\ Ends(c)
        /\ UNCHANGED <<link, barred, nextId>>
    BY <1>1 DEF Withdraw
  <1>3. PICK row \in PupilRecord :
           /\ pupil' = [pupil EXCEPT ![p] = row]
           /\ row.state = "deleted" /\ row.code = pupil[p].code /\ row.made = pupil[p].made
    BY <1>2, StateBusEdit
  <1>4. PupilEffect(c)
    BY <1>2, <1>3, OnePupilAlone
  <1> QED
    BY <1>2, <1>4, EndsKeeps, NoRosterEffect, NoTransferEffect, NoImportEffect

LEMMA ReassignKeeps ==
  ASSUME RosterInv, NEW c \in Conn, ReassignGuardian(c), UNCHANGED <<roster, transfer, importVars>>
  PROVE  RosterInv'
  <1>1. PICK p \in PupilId : p = work[c].pupil
    BY JobFields DEF RosterInv, ReassignGuardian
  <1>2. PICK g \in Guardian :
           /\ \A q \in PupilId : link[q][g] = "none" /\ g \notin barred[q]
           /\ link' = [link EXCEPT ![p] = [NoLinks EXCEPT ![g] = "approved"]]
    BY <1>1 DEF ReassignGuardian
  <1>3. UNCHANGED <<pupil, barred, nextId>> /\ Ends(c)
    BY DEF ReassignGuardian
  <1> DEFINE row == [NoLinks EXCEPT ![g] = "approved"]
  <1>4. row \in [Guardian -> {"none", "approved", "revoked"}] /\ \A h \in Guardian \ {g} : row[h] = "none"
    BY DEF NoLinks
  <1> HIDE DEF row
  <1>5. link' = [link EXCEPT ![p] = row]
    BY <1>2 DEF row
  <1>6. /\ link' \in [PupilId -> [Guardian -> {"none", "approved", "revoked"}]]
        /\ link'[p] = row /\ \A q \in PupilId \ {p} : link'[q] = link[q]
    BY <1>4, <1>5 DEF RosterInv, RosterTypeOK
  <1>7. barred' \in [PupilId -> SUBSET Guardian] /\ barred' = barred
    BY <1>3 DEF RosterInv, RosterTypeOK
  <1>8. RevokedStaysRevoked'
    BY <1>2, <1>4, <1>6, <1>7 DEF RosterInv, RevokedStaysRevoked
  <1>9. PupilEffect(c)
    BY <1>3, <1>6, <1>7, <1>8, OnlyLinks
  <1> QED
    BY <1>3, <1>9, EndsKeeps, NoRosterEffect, NoTransferEffect, NoImportEffect
\* A step of a handler that holds nothing while it waits, for the next request.
LEMMA RestoreKeeps ==
  ASSUME RosterInv, NEW c \in Conn, NEW p \in PupilId, restoreStudent(c, p),
         UNCHANGED <<roster, transfer, importVars>>
  PROVE  RosterInv'
  <1>1. PICK r \in PupilRecord : r = pupil[p]
    BY PupilRows
  <1>2. PICK row \in PupilRecord : row = [r EXCEPT !.state = "active"]
    BY StateEdit
  <1>3. row.state = "active" /\ row.code = r.code /\ row.made = r.made
    BY <1>2, StateEdit
  <1>4. /\ pupil' = [pupil EXCEPT ![p] = row] /\ Free(c, PupilRow(p)) /\ Arrives("edit")
        /\ work[c] = Idle /\ UNCHANGED <<link, barred, nextId, held, work>>
    BY <1>1, <1>2 DEF restoreStudent
  <1>5. PupilEffect(c)
    BY <1>1, <1>3, <1>4, OnePupilAlone
  <1>6. WorkTypeOK' /\ LocksExclusive'
    BY <1>4 DEF RosterInv, WorkTypeOK, LocksExclusive
  <1>7. LocksHeld(c)' /\ WorkInv(c)'
    BY <1>4, IdleIsAJob DEF LocksHeld, WorkInv
  <1> QED
    BY <1>4, <1>5, <1>6, <1>7, StepKeeps, ArrivesFacts, NoRosterEffect, NoTransferEffect,
       NoImportEffect

LEMMA ImportReactivatesKeeps ==
  ASSUME RosterInv, NEW c \in Conn, ImportReactivates(c), UNCHANGED <<roster, transfer, importVars>>
  PROVE  RosterInv'
  <1>1. PICK p \in PupilId, g \in Guardian : p = work[c].pupil /\ g = work[c].guardian
    BY JobFields DEF RosterInv, ImportReactivates
  <1>2. PICK b \in Bus \cup {None} :
           pupil' = [pupil EXCEPT ![p].state = "active", ![p].bus = b, ![p].cid = "other"]
    BY <1>1 DEF ImportReactivates
  <1>3. /\ Free(c, PupilRow(p)) /\ Ends(c) /\ Approve(p, g) /\ UNCHANGED nextId
    BY <1>1 DEF ImportReactivates
  <1>4. PICK row \in PupilRecord :
           /\ pupil' = [pupil EXCEPT ![p] = row]
           /\ row.state = "active" /\ row.code = pupil[p].code /\ row.made = pupil[p].made
    BY <1>2, StateBusCidEdit
  <1>5. nextId' \in Nat
    BY <1>3 DEF RosterInv, RosterTypeOK
  <1>6. PupilEffect(c)
    BY <1>3, <1>4, <1>5, ApproveFacts, OnePupil
  <1> QED
    BY <1>3, <1>6, EndsKeeps, NoRosterEffect, NoTransferEffect, NoImportEffect

\* An id of the sequence, and the one after it.
LEMMA Allocated ==
  ASSUME RosterInv
  PROVE  nextId \in Nat /\ AfterAllocation \in Nat
  BY DEF RosterInv, RosterTypeOK, AfterAllocation

LEMMA ImportInsertsKeeps ==
  ASSUME RosterInv, NEW c \in Conn, ImportInserts(c), UNCHANGED <<roster, transfer, importVars>>
  PROVE  RosterInv'
  <1>1. PICK s \in School, k \in Code, g \in Guardian, n \in PupilId :
           s = work[c].school /\ k = work[c].code /\ g = work[c].guardian /\ n = nextId
    BY JobFields DEF RosterInv, ImportInserts
  <1>2. nextId' \in Nat /\ Ends(c)
    BY Allocated DEF ImportInserts
  <1>3. CASE Insertable(n, s, k)
    <2>1. PICK b \in Bus \cup {None} :
             pupil' = [pupil EXCEPT ![n] = [state |-> "active", school |-> s, code |-> k,
                                            bus |-> b, cid |-> "other", made |-> None]]
      BY <1>1, <1>3 DEF ImportInserts
    <2>2. Approve(n, g) /\ pupil[n].state = "none"
      BY <1>1, <1>3 DEF ImportInserts, Insertable
    <2>3. [state |-> "active", school |-> s, code |-> k, bus |-> b, cid |-> "other",
           made |-> None] \in PupilRecord
      BY DEF PupilRecord, Maker
    <2> QED
      BY <1>2, <2>1, <2>2, <2>3, ApproveFacts, OnePupil, EndsKeeps, NoRosterEffect,
         NoTransferEffect, NoImportEffect
  <1>4. CASE ~Insertable(n, s, k)
    <2>1. UNCHANGED <<pupil, link, barred>>
      BY <1>1, <1>4 DEF ImportInserts
    <2>2. PupilEffect(c)
      BY <1>2, <2>1 DEF RosterInv, RosterTypeOK, RevokedStaysRevoked, PupilEffect
    <2> QED
      BY <1>2, <2>2, EndsKeeps, NoRosterEffect, NoTransferEffect, NoImportEffect
  <1> QED
    BY <1>3, <1>4

LEMMA SchoolEditKeeps ==
  ASSUME RosterInv, NEW c \in Conn, SchoolEdit(c), UNCHANGED <<roster, transfer, importVars>>
  PROVE  RosterInv'
  BY ReadPupilKeeps, MoveToBusKeeps, WithdrawKeeps, ReassignKeeps, RestoreKeeps,
     ReadForImportKeeps, ImportReactivatesKeeps, ImportInsertsKeeps
     DEF SchoolEdit

-----------------------------------------------------------------------------
(* The drivers' requests *)

RosterRow ==
    [status : {"none", "pending", "approved", "rejected"},
     type : {"add", "remove", "new"}, pupil : PupilId \cup {0},
     school : School \cup {None}, bus : Bus \cup {None}, named : PupilId \cup {0}]

LEMMA OneRosterRequest ==
  ASSUME RosterInv, NEW q \in RosterReq, NEW row \in RosterRow,
         roster' = [roster EXCEPT ![q] = row], row.type # "new" => row.pupil \in PupilId
  PROVE  RosterEffect
  BY DEF RosterInv, RosterTypeOK, RowsInv, RosterEffect, RosterRow

LEMMA CheckRosterRequestKeeps ==
  ASSUME RosterInv, NEW c \in Conn, CheckRosterRequest(c), UNCHANGED <<transfer, importVars>>
  PROVE  RosterInv'
  <1>1. PICK p \in PupilId, b \in Bus, t \in {"add", "remove"} :
           Begins(c, "request", [at |-> "ask", type |-> t, pupil |-> p,
                                 school |-> pupil[p].school, bus |-> b], {})
    BY DEF CheckRosterRequest
  <1>2. pupil[p].school \in School \cup {None}
    BY PupilRows DEF PupilRecord
  <1>3. [at |-> "ask", type |-> t, pupil |-> p, school |-> pupil[p].school, bus |-> b] \in Job
    BY <1>2 DEF Job
  <1> QED
    BY <1>1, <1>3, LookKeeps DEF CheckRosterRequest

LEMMA InsertRosterRequestKeeps ==
  ASSUME RosterInv, NEW c \in Conn, InsertRosterRequest(c), UNCHANGED <<transfer, importVars>>
  PROVE  RosterInv'
  <1> DEFINE row == [status |-> "pending", type |-> work[c].type, pupil |-> work[c].pupil,
                     school |-> work[c].school, bus |-> work[c].bus, named |-> 0]
  <1>1. row \in RosterRow
    BY JobFields DEF RosterInv, InsertRosterRequest, RosterRow
  <1>2. PICK q \in RosterReq : roster' = [roster EXCEPT ![q] = row]
    BY DEF InsertRosterRequest
  <1>3. Ends(c) /\ UNCHANGED pupilVars
    BY DEF InsertRosterRequest
  <1>4. row.pupil \in PupilId
    BY JobFields DEF RosterInv, InsertRosterRequest
  <1> HIDE DEF row
  <1> QED
    BY <1>1, <1>2, <1>3, <1>4, OneRosterRequest, EndsKeeps, NoPupilEffect, NoTransferEffect,
       NoImportEffect

\* A request that no connection keeps anything for.
LEMMA ArrivalKeeps ==
  ASSUME RosterInv, NEW c, Arrives("request"), UNCHANGED <<held, work>>,
         PupilEffect(c), RosterEffect, TransferEffect(c), ImportEffect(c),
         \A d \in Conn : LocksHeld(d)' /\ WorkInv(d)'
  PROVE  RosterInv'
  <1>1. WorkTypeOK' /\ LocksExclusive'
    BY DEF RosterInv, WorkTypeOK, LocksExclusive
  <1>2. RosterTypeOK'
    BY <1>1, ArrivesFacts
       DEF RosterTypeOK, PupilEffect, RosterEffect, TransferEffect, ImportEffect, WorkTypeOK
  <1>3. RowsInv'
    BY DEF RowsInv, RosterEffect, TransferEffect, ImportEffect
  <1> QED
    BY <1>1, <1>2, <1>3 DEF RosterInv, PupilEffect

LEMMA AskForNewPupilKeeps ==
  ASSUME RosterInv, NEW q \in RosterReq, AskForNewPupil(q), UNCHANGED <<transfer, importVars>>
  PROVE  RosterInv'
  <1>1. PICK s \in School, b \in Bus, n \in PupilId \cup {0} :
           roster' = [roster EXCEPT ![q] = [status |-> "pending", type |-> "new", pupil |-> 0,
                                            school |-> s, bus |-> b, named |-> n]]
    BY DEF AskForNewPupil
  <1>2. [status |-> "pending", type |-> "new", pupil |-> 0, school |-> s, bus |-> b,
         named |-> n] \in RosterRow
    BY DEF RosterRow
  <1>3. RosterEffect
    BY <1>1, <1>2, OneRosterRequest
  <1>4. UNCHANGED <<pupilVars, held, work>> /\ Arrives("request")
    BY DEF AskForNewPupil
  <1>5. ASSUME NEW d \in Conn
        PROVE  LocksHeld(d)' /\ WorkInv(d)'
    <2>1. LocksHeld(d) /\ WorkInv(d)
      BY DEF RosterInv
    <2> QED
      BY <2>1, <1>4 DEF LocksHeld, WorkInv, Inserted, Active, pupilVars, importVars
  <1> QED
    BY <1>3, <1>4, <1>5, ArrivalKeeps, NoPupilEffect, NoTransferEffect, NoImportEffect

LEMMA LockRosterRequestKeeps ==
  ASSUME RosterInv, NEW c \in Conn, NEW q \in RosterReq, LockRosterRequest(c, q),
         UNCHANGED <<transfer, importVars>>
  PROVE  RosterInv'
  <1>1. PICK e \in {"approved", "rejected"} :
           Begins(c, "request", [at |-> "review", request |-> q, decision |-> e], {rosterRow(q)})
    BY DEF LockRosterRequest
  <1> DEFINE step == [at |-> "review", request |-> q, decision |-> e]
  <1>2. step \in Job /\ step.at = "review"
    BY DEF Job
  <1>3. Goes(c, step, {rosterRow(q)}) /\ begun' \in [{"edit", "request"} -> Nat]
    BY <1>1, ArrivesFacts DEF Begins
  <1>4. LocksHeld(c)' /\ WorkInv(c)'
    BY <1>2, <1>3, GoesFacts DEF RosterInv, LocksHeld, WorkInv
  <1>5. \A d \in Conn \ {c} : {rosterRow(q)} \cap held[d] = {}
    BY DEF LockRosterRequest, Free
  <1>6. cut' \subseteq Batch
    BY DEF RosterInv, RosterTypeOK, importVars
  <1>7. UNCHANGED <<pupilVars, roster, transfer, batch, line>>
    BY DEF LockRosterRequest, importVars
  <1> HIDE DEF step
  <1> QED
    BY <1>2, <1>3, <1>4, <1>5, <1>6, <1>7, ReadKeeps

\* The decision of a request changes its row only.
LEMMA DecidedRow ==
  ASSUME RosterInv, NEW q \in RosterReq, NEW e \in {"approved", "rejected"},
         NEW p \in PupilId \cup {0}, RosterDecision(q, e, p)
  PROVE  \E row \in RosterRow :
            /\ roster' = [roster EXCEPT ![q] = row]
            /\ row.status = e /\ row.type = roster[q].type /\ row.pupil = p
  <1>1. PICK r \in RosterRow : r = roster[q]
    BY DEF RosterInv, RosterTypeOK, RosterRow
  <1>2. PICK w \in RosterRow : w = [r EXCEPT !.status = e]
    BY DEF RosterRow
  <1>3. w.status = e /\ w.type = r.type
    BY <1>2 DEF RosterRow
  <1> DEFINE row == [w EXCEPT !.pupil = p]
  <1>4. row \in RosterRow /\ row.status = w.status /\ row.type = w.type /\ row.pupil = p
    BY DEF RosterRow
  <1>5. row = [[r EXCEPT !.status = e] EXCEPT !.pupil = p]
    BY <1>2, Zenon
  <1>6. roster' = [roster EXCEPT ![q] = [[roster[q] EXCEPT !.status = e] EXCEPT !.pupil = p]]
    BY DEF RosterInv, RosterTypeOK, RosterDecision
  <1> HIDE DEF row
  <1>7. roster' = [roster EXCEPT ![q] = row]
    BY <1>1, <1>5, <1>6, Zenon
  <1> QED
    BY <1>1, <1>3, <1>4, <1>7

LEMMA RosterRows ==
  ASSUME RosterInv, NEW q \in RosterReq
  PROVE  /\ roster[q].pupil \in PupilId \cup {0} /\ roster[q].bus \in Bus \cup {None}
         /\ roster[q].school \in School \cup {None} /\ roster[q].named \in PupilId \cup {0}
         /\ roster[q].status = "pending" /\ roster[q].type # "new" => roster[q].pupil \in PupilId
  BY DEF RosterInv, RosterTypeOK, RowsInv

LEMMA RejectRosterKeeps ==
  ASSUME RosterInv, NEW c \in Conn, RejectRoster(c), UNCHANGED <<transfer, importVars>>
  PROVE  RosterInv'
  <1>1. PICK q \in RosterReq : q = work[c].request
    BY JobFields DEF RosterInv, RejectRoster, Reviewing
  <1>2. /\ RosterDecision(q, "rejected", roster[q].pupil) /\ Ends(c) /\ UNCHANGED pupilVars
        /\ roster[q].status = "pending"
    BY <1>1 DEF RejectRoster, Reviewing
  <1>3. RosterEffect
    BY <1>2, RosterRows, DecidedRow, OneRosterRequest
  <1> QED
    BY <1>2, <1>3, EndsKeeps, NoPupilEffect, NoTransferEffect, NoImportEffect

LEMMA ApproveOnBusKeeps ==
  ASSUME RosterInv, NEW c \in Conn, ApproveOnBus(c), UNCHANGED <<transfer, importVars>>
  PROVE  RosterInv'
  <1>1. PICK q \in RosterReq : q = work[c].request
    BY JobFields DEF RosterInv, ApproveOnBus, Reviewing
  <1>2. roster[q].status = "pending" /\ roster[q].type # "new"
    BY <1>1 DEF ApproveOnBus, Reviewing
  <1>3. PICK p \in PupilId, b \in Bus \cup {None} :
           p = roster[q].pupil /\ b = IF roster[q].type = "add" THEN roster[q].bus ELSE None
    BY <1>2, RosterRows
  <1>4. /\ pupil' = [pupil EXCEPT ![p].bus = b] /\ Free(c, PupilRow(p)) /\ Ends(c)
        /\ UNCHANGED <<link, barred, nextId>> /\ RosterDecision(q, "approved", p)
    BY <1>1, <1>3 DEF ApproveOnBus
  <1>5. PICK row \in PupilRecord : row = [pupil[p] EXCEPT !.bus = b]
    BY PupilRows, BusEdit
  <1>6. row.state = pupil[p].state /\ row.code = pupil[p].code /\ row.made = pupil[p].made
    BY <1>5, PupilRows, BusEdit
  <1>7. pupil' = [pupil EXCEPT ![p] = row]
    BY <1>4, <1>5
  <1>8. PupilEffect(c)
    BY <1>4, <1>6, <1>7, OnePupilAlone
  <1>9. RosterEffect
    BY <1>4, DecidedRow, OneRosterRequest
  <1> QED
    BY <1>4, <1>8, <1>9, EndsKeeps, NoTransferEffect, NoImportEffect

LEMMA ApproveNewPupilKeeps ==
  ASSUME RosterInv, NEW c \in Conn, ApproveNewPupil(c), UNCHANGED <<transfer, importVars>>
  PROVE  RosterInv'
  <1>1. PICK q \in RosterReq : q = work[c].request
    BY JobFields DEF RosterInv, ApproveNewPupil, Reviewing
  <1>2. PICK p \in PupilId : p = NewPupilId(q)
    BY <1>1 DEF ApproveNewPupil
  <1>3. /\ roster[q].status = "pending" /\ roster[q].type = "new"
        /\ Free(c, PupilRow(p)) /\ pupil[p].state = "none"
        /\ RosterDecision(q, "approved", p) /\ Ends(c) /\ nextId' \in Nat
        /\ (\E g \in Guardian : Approve(p, g)) \/ UNCHANGED <<link, barred>>
    BY <1>1, <1>2, Allocated DEF ApproveNewPupil, Reviewing, Insertable
  <1> DEFINE row == [state |-> "active", school |-> roster[q].school, code |-> None,
                     bus |-> roster[q].bus, cid |-> "other", made |-> q]
  <1>4. pupil' = [pupil EXCEPT ![p] = row]
    BY <1>1, <1>2 DEF ApproveNewPupil
  <1>5. row \in PupilRecord
    BY RosterRows DEF PupilRecord, Maker
  <1>6. /\ link' \in [PupilId -> [Guardian -> {"none", "approved", "revoked"}]]
        /\ barred' \in [PupilId -> SUBSET Guardian]
        /\ RevokedStaysRevoked'
        /\ \A r \in PupilId : barred'[r] \subseteq barred[r]
    <2>1. CASE \E g \in Guardian : Approve(p, g)
      BY <2>1, ApproveFacts
    <2>2. CASE UNCHANGED <<link, barred>>
      BY <2>2 DEF RosterInv, RosterTypeOK, RevokedStaysRevoked
    <2> QED
      BY <1>3, <2>1, <2>2
  <1> HIDE DEF row
  <1>7. PupilEffect(c)
    BY <1>3, <1>4, <1>5, <1>6, OnePupil
  <1>8. RosterEffect
    BY <1>3, DecidedRow, OneRosterRequest
  <1> QED
    BY <1>3, <1>7, <1>8, EndsKeeps, NoTransferEffect, NoImportEffect

LEMMA RosterStepKeeps ==
  ASSUME RosterInv, NEW c \in Conn, RosterStep(c), UNCHANGED <<transfer, importVars>>
  PROVE  RosterInv'
  <1>1. ReviewFails(c) => RosterInv'
    BY EndsKeeps, NoPupilEffect, NoRosterEffect, NoTransferEffect, NoImportEffect DEF ReviewFails
  <1> QED
    BY <1>1, CheckRosterRequestKeeps, InsertRosterRequestKeeps, LockRosterRequestKeeps,
       RejectRosterKeeps, ApproveOnBusKeeps, ApproveNewPupilKeeps
       DEF RosterStep

-----------------------------------------------------------------------------
(* Transfers *)

LEMMA TransferRows ==
  ASSUME RosterInv, NEW t \in TransferReq
  PROVE  /\ transfer[t].pupil \in PupilId \cup {0} /\ transfer[t].code \in Code \cup {None}
         /\ transfer[t].from \in School \cup {None} /\ transfer[t].to \in School \cup {None}
         /\ transfer[t].status # "NONE" => transfer[t].pupil \in PupilId
  BY DEF RosterInv, RosterTypeOK, RowsInv

TransferStatus == {"PENDING", "APPLIED", "STALE_NEEDS_REVIEW", "FAILED", "CANCELLED", "REJECTED"}

TransferRow ==
    [status : {"NONE", "PENDING", "APPLIED", "STALE_NEEDS_REVIEW", "FAILED", "CANCELLED",
               "REJECTED"},
     pupil : PupilId \cup {0}, code : Code \cup {None}, from : School \cup {None},
     to : School \cup {None}, applied : PupilId \cup {0}]

\* The row of a request changes, but not the pupil and the code it is about.
LEMMA OneTransferRow ==
  ASSUME RosterInv, NEW c \in Conn, NEW t \in TransferReq, NEW row \in TransferRow,
         transfer[t].status # "NONE", Free(c, transferRow(t)),
         row.pupil = transfer[t].pupil, row.code = transfer[t].code,
         transfer' = [transfer EXCEPT ![t] = row]
  PROVE  TransferEffect(c)
  <1>1. transfer \in [TransferReq -> TransferRow] /\ transfer[t].pupil \in PupilId
    BY TransferRows DEF RosterInv, RosterTypeOK, TransferRow
  <1>2. /\ transfer' \in [TransferReq -> TransferRow]
        /\ transfer'[t] = row /\ \A u \in TransferReq \ {t} : transfer'[u] = transfer[u]
    BY <1>1
  <1>3. \A u \in TransferReq : transfer[u].status # "NONE" =>
           /\ transfer'[u].pupil = transfer[u].pupil /\ transfer'[u].code = transfer[u].code
           /\ \A d \in Conn \ {c} : transferRow(u) \in held[d] =>
                 transfer'[u].status = transfer[u].status
    BY <1>2 DEF Free
  <1>4. \A u \in TransferReq : transfer'[u].status # "NONE" => transfer'[u].pupil \in PupilId
    BY <1>1, <1>2, TransferRows
  <1> QED
    BY <1>2, <1>3, <1>4 DEF TransferEffect, TransferRow

\* A request whose row nobody else has locked changes its status.
LEMMA OneTransfer ==
  ASSUME RosterInv, NEW c \in Conn, NEW t \in TransferReq, NEW status \in TransferStatus,
         transfer[t].status # "NONE", Free(c, transferRow(t)),
         transfer' = [transfer EXCEPT ![t].status = status]
  PROVE  TransferEffect(c)
  <1> DEFINE row == [transfer[t] EXCEPT !.status = status]
  <1>1. transfer[t] \in TransferRow
    BY DEF RosterInv, RosterTypeOK, TransferRow
  <1>2. row \in TransferRow /\ row.pupil = transfer[t].pupil /\ row.code = transfer[t].code
    BY <1>1 DEF TransferRow, TransferStatus
  <1>3. transfer' = [transfer EXCEPT ![t] = row]
    OBVIOUS
  <1> HIDE DEF row
  <1> QED
    BY <1>2, <1>3, OneTransferRow

\* A lock that c holds is free to c.
LEMMA OwnLock ==
  ASSUME RosterInv, NEW c \in Conn, NEW row \in held[c]
  PROVE  Free(c, row)
  BY DEF RosterInv, LocksExclusive, Free

LEMMA CheckTransferKeeps ==
  ASSUME RosterInv, NEW c \in Conn, CheckTransfer(c), UNCHANGED <<roster, importVars>>
  PROVE  RosterInv'
  <1>1. PICK p \in PupilId, s \in School :
           Begins(c, "request", [at |-> "request", pupil |-> p, code |-> pupil[p].code,
                                 from |-> pupil[p].school, to |-> s], {})
    BY DEF CheckTransfer
  <1>2. pupil[p].school \in School \cup {None} /\ pupil[p].code \in Code \cup {None}
    BY PupilRows DEF PupilRecord
  <1>3. [at |-> "request", pupil |-> p, code |-> pupil[p].code, from |-> pupil[p].school,
         to |-> s] \in Job
    BY <1>2 DEF Job
  <1> QED
    BY <1>1, <1>3, LookKeeps DEF CheckTransfer

LEMMA InsertTransferKeeps ==
  ASSUME RosterInv, NEW c \in Conn, InsertTransfer(c), UNCHANGED <<roster, importVars>>
  PROVE  RosterInv'
  <1> DEFINE row == [status |-> "PENDING", pupil |-> work[c].pupil, code |-> work[c].code,
                     from |-> work[c].from, to |-> work[c].to, applied |-> 0]
  <1>1. PICK t \in TransferReq :
           transfer[t].status = "NONE" /\ transfer' = [transfer EXCEPT ![t] = row]
    BY DEF InsertTransfer
  <1>2. Ends(c) /\ UNCHANGED pupilVars
    BY DEF InsertTransfer
  <1>3. TransferEffect(c)
    BY <1>1, JobFields DEF RosterInv, RosterTypeOK, RowsInv, InsertTransfer, TransferEffect
  <1> QED
    BY <1>2, <1>3, EndsKeeps, NoPupilEffect, NoRosterEffect, NoImportEffect

LEMMA CheckWithdrawalKeeps ==
  ASSUME RosterInv, NEW c \in Conn, NEW t \in TransferReq, CheckWithdrawal(c, t),
         UNCHANGED <<roster, importVars>>
  PROVE  RosterInv'
  <1>1. PICK to \in {"CANCELLED", "REJECTED"} :
           Begins(c, "request", [at |-> "close", request |-> t, to |-> to], {})
    BY DEF CheckWithdrawal
  <1>2. [at |-> "close", request |-> t, to |-> to] \in Job
    BY DEF Job
  <1> QED
    BY <1>1, <1>2, LookKeeps DEF CheckWithdrawal

\* A statement guarded by the status, outside any transaction.
LEMMA GuardedUpdateKeeps ==
  ASSUME RosterInv, NEW c \in Conn, NEW t \in TransferReq, NEW status \in TransferStatus,
         Free(c, transferRow(t)),
         transfer' = IF transfer[t].status = "PENDING"
                     THEN [transfer EXCEPT ![t].status = status] ELSE transfer,
         Ends(c), UNCHANGED <<pupilVars, roster, importVars>>
  PROVE  RosterInv'
  <1>1. TransferEffect(c)
    <2>1. CASE transfer[t].status = "PENDING"
      BY <2>1, OneTransfer
    <2>2. CASE transfer[t].status # "PENDING"
      BY <2>2, NoTransferEffect
    <2> QED
      BY <2>1, <2>2
  <1> QED
    BY <1>1, EndsKeeps, NoPupilEffect, NoRosterEffect, NoImportEffect

LEMMA CloseTransferKeeps ==
  ASSUME RosterInv, NEW c \in Conn, CloseTransfer(c), UNCHANGED <<roster, importVars>>
  PROVE  RosterInv'
  <1>1. work[c].request \in TransferReq /\ work[c].to \in TransferStatus
    BY JobFields DEF RosterInv, CloseTransfer, TransferStatus
  <1> QED
    BY <1>1, GuardedUpdateKeeps DEF CloseTransfer

LEMMA MarkTransferFailedKeeps ==
  ASSUME RosterInv, NEW c \in Conn, MarkTransferFailed(c), UNCHANGED <<roster, importVars>>
  PROVE  RosterInv'
  <1>1. work[c].request \in TransferReq /\ "FAILED" \in TransferStatus
    BY JobFields DEF RosterInv, MarkTransferFailed, TransferStatus
  <1> QED
    BY <1>1, GuardedUpdateKeeps DEF MarkTransferFailed

LEMMA LockTransferKeeps ==
  ASSUME RosterInv, NEW c \in Conn, NEW t \in TransferReq, LockTransfer(c, t),
         UNCHANGED <<roster, importVars>>
  PROVE  RosterInv'
  <1> DEFINE step == [at |-> "lock", request |-> t]
  <1>1. step \in Job /\ step.at = "lock" /\ step.request = t
    BY DEF Job
  <1>2. Goes(c, step, {transferRow(t)}) /\ begun' \in [{"edit", "request"} -> Nat]
    BY ArrivesFacts DEF LockTransfer, Begins
  <1>3. transfer[t].status = "PENDING" /\ Free(c, transferRow(t))
        /\ UNCHANGED <<pupilVars, transfer>>
    BY DEF LockTransfer, TransferFree
  <1> HIDE DEF step
  <1>4. work'[c] = step /\ held'[c] = {transferRow(t)}
    BY <1>1, <1>2, GoesFacts DEF RosterInv
  <1>5. LocksHeld(c)' /\ WorkInv(c)'
    BY <1>1, <1>3, <1>4 DEF LocksHeld, WorkInv
  <1>6. \A d \in Conn \ {c} : {transferRow(t)} \cap held[d] = {}
    BY <1>3 DEF Free
  <1>7. cut' \subseteq Batch /\ UNCHANGED <<pupilVars, roster, transfer, batch, line>>
    BY <1>3 DEF RosterInv, RosterTypeOK, importVars
  <1> QED
    BY <1>1, <1>2, <1>5, <1>6, <1>7, ReadKeeps

\* The request of a connection that is at one of the steps of approveAndApply.
LEMMA LockedTransfer ==
  ASSUME RosterInv, NEW c \in Conn, work[c].at \in {"lock", "apply"}
  PROVE  /\ work[c].request \in TransferReq
         /\ transfer[work[c].request].status = "PENDING"
         /\ transfer[work[c].request].pupil \in PupilId
         /\ transferRow(work[c].request) \in held[c]
         /\ Free(c, transferRow(work[c].request))
  <1>1. WorkTypeOK /\ LocksHeld(c) /\ WorkInv(c)
    BY DEF RosterInv
  <1>2. /\ work[c].request \in TransferReq
        /\ transfer[work[c].request].status = "PENDING"
        /\ transferRow(work[c].request) \in held[c]
    BY <1>1, JobFields DEF LocksHeld, WorkInv
  <1>3. transfer[work[c].request].pupil \in PupilId
    BY <1>2, TransferRows
  <1> QED
    BY <1>2, <1>3, OwnLock

LEMMA ClosesTransferKeeps ==
  ASSUME RosterInv, NEW c \in Conn, NEW status \in TransferStatus, work[c].at = "lock",
         ClosesTransfer(c, status), UNCHANGED <<roster, importVars>>
  PROVE  RosterInv'
  <1>1. PICK t \in TransferReq : t = work[c].request
    BY LockedTransfer
  <1>2. transfer[t].status # "NONE" /\ Free(c, transferRow(t))
    BY <1>1, LockedTransfer
  <1>3. transfer' = [transfer EXCEPT ![t].status = status] /\ Ends(c) /\ UNCHANGED pupilVars
    BY <1>1 DEF ClosesTransfer
  <1>4. TransferEffect(c)
    BY <1>2, <1>3, OneTransfer
  <1> QED
    BY <1>3, <1>4, EndsKeeps, NoPupilEffect, NoRosterEffect, NoImportEffect

LEMMA LockTransferPupilKeeps ==
  ASSUME RosterInv, NEW c \in Conn, LockTransferPupil(c), UNCHANGED <<roster, importVars>>
  PROVE  RosterInv'
  <1>1. PICK t \in TransferReq : t = work[c].request
    BY LockedTransfer DEF LockTransferPupil
  <1>2. PICK p \in PupilId : p = transfer[t].pupil
    BY <1>1, LockedTransfer DEF LockTransferPupil
  <1>3. transfer[t].status = "PENDING" /\ transferRow(t) \in held[c]
    BY <1>1, LockedTransfer DEF LockTransferPupil
  <1> DEFINE links == [g \in Guardian |-> link[p][g]]
             step == [at |-> "apply", request |-> t, links |-> links]
             locks == held[c] \cup {PupilRow(p)}
  <1>4. /\ Free(c, PupilRow(p)) /\ Active(p) /\ pupil[p].code = transfer[t].code
        /\ Goes(c, step, locks) /\ begun' = begun /\ UNCHANGED <<pupilVars, transfer>>
    BY <1>1, <1>2 DEF LockTransferPupil, StillTransferable, Unchanged, Enrolled, Continues,
                      Carried
  <1>5. links \in [Guardian -> {"none", "approved", "revoked"}]
    BY DEF RosterInv, RosterTypeOK
  <1>6. \A g \in barred[p] : links[g] # "approved"
    BY DEF RosterInv, RosterTypeOK, RevokedStaysRevoked
  <1> HIDE DEF links
  <1>7. step \in Job /\ step.at = "apply" /\ step.request = t /\ step.links = links
    BY <1>5 DEF Job
  <1> HIDE DEF step
  <1>8. work'[c] = step /\ held'[c] = locks
    BY <1>4, <1>7, GoesFacts DEF RosterInv
  <1>9. LocksHeld(c)'
    BY <1>2, <1>3, <1>4, <1>7, <1>8 DEF LocksHeld
  <1>10. WorkInv(c)'
    BY <1>2, <1>3, <1>4, <1>6, <1>7, <1>8 DEF WorkInv, Active, pupilVars
  <1>11. \A d \in Conn \ {c} : locks \cap held[d] = {}
    BY <1>4 DEF RosterInv, LocksExclusive, Free
  <1>12. /\ cut' \subseteq Batch /\ UNCHANGED <<pupilVars, roster, transfer, batch, line>>
         /\ begun' \in [{"edit", "request"} -> Nat]
    BY <1>4 DEF RosterInv, RosterTypeOK, importVars
  <1> HIDE DEF locks
  <1> QED
    BY <1>4, <1>7, <1>9, <1>10, <1>11, <1>12, ReadKeeps

LEMMA TransferFailsKeeps ==
  ASSUME RosterInv, NEW c \in Conn, TransferFails(c), UNCHANGED <<roster, importVars>>
  PROVE  RosterInv'
  <1> DEFINE step == [at |-> "fail", request |-> work[c].request]
  <1>1. step \in Job /\ step.at = "fail"
    BY LockedTransfer DEF TransferFails, Job
  <1>2. Goes(c, step, {}) /\ begun' = begun /\ UNCHANGED <<pupilVars, transfer>>
    BY DEF TransferFails, Continues
  <1> HIDE DEF step
  <1>3. work'[c] = step
    BY <1>1, <1>2, GoesFacts DEF RosterInv
  <1>4. LocksHeld(c)' /\ WorkInv(c)'
    BY <1>1, <1>3 DEF LocksHeld, WorkInv
  <1>5. /\ cut' \subseteq Batch /\ UNCHANGED <<pupilVars, roster, transfer, batch, line>>
        /\ begun' \in [{"edit", "request"} -> Nat]
    BY <1>2 DEF RosterInv, RosterTypeOK, importVars
  <1> QED
    BY <1>1, <1>2, <1>4, <1>5, ReadKeeps

\* The pupil of a request moves: its record is closed, and the next id is its new one.
LEMMA TransferredPupils ==
  ASSUME RosterInv, NEW c \in Conn, NEW t \in TransferReq, NEW p \in PupilId,
         t = work[c].request, p = transfer[t].pupil, ApplyTransfer(c)
  PROVE  /\ nextId \in PupilId /\ nextId # p
         /\ pupil[nextId].state = "none" /\ pupil[p].state = "active"
         /\ pupil[p].code = transfer[t].code
         /\ \E row \in PupilRecord :
               /\ pupil' = [pupil EXCEPT
                     ![p] = row,
                     ![nextId] = [state |-> "active", school |-> transfer[t].to,
                                  code |-> transfer[t].code, bus |-> None, cid |-> "other",
                                  made |-> t]]
               /\ row.state = "deleted" /\ row.code = pupil[p].code
               /\ row.made = pupil[p].made
  <1> DEFINE new == [state |-> "active", school |-> transfer[t].to, code |-> transfer[t].code,
                     bus |-> None, cid |-> "other", made |-> t]
  <1>1. /\ nextId \in PupilId /\ pupil[nextId].state = "none"
        /\ pupil' = [pupil EXCEPT ![p].state = "deleted", ![p].bus = None, ![nextId] = new]
    BY DEF ApplyTransfer, Insertable
  <1>2. pupil[p].state = "active" /\ pupil[p].code = transfer[t].code
    BY DEF RosterInv, WorkInv, ApplyTransfer, Active
  <1>3. PICK r \in PupilRecord : r = pupil[p]
    BY PupilRows
  <1>4. PICK q \in PupilRecord : q = [r EXCEPT !.state = "deleted"]
    BY StateEdit
  <1>5. q.state = "deleted" /\ q.code = r.code /\ q.made = r.made
    BY <1>4, StateEdit
  <1>6. PICK row \in PupilRecord : row = [q EXCEPT !.bus = None]
    BY BusEdit
  <1>7. row.state = "deleted" /\ row.code = r.code /\ row.made = r.made
    BY <1>5, <1>6, BusEdit
  <1>8. row = [[r EXCEPT !.state = "deleted"] EXCEPT !.bus = None]
    BY <1>4, <1>6, Zenon
  <1> HIDE DEF new
  <1>9. pupil' = [pupil EXCEPT ![p] = [[pupil[p] EXCEPT !.state = "deleted"] EXCEPT !.bus = None],
                               ![nextId] = new]
    BY <1>1, PupilRows
  <1>10. pupil' = [pupil EXCEPT ![p] = row, ![nextId] = new]
    BY <1>3, <1>8, <1>9, Zenon
  <1> QED
    BY <1>1, <1>2, <1>3, <1>7, <1>10 DEF new

LEMMA ApplyTransferKeeps ==
  ASSUME RosterInv, NEW c \in Conn, ApplyTransfer(c), UNCHANGED <<roster, importVars>>
  PROVE  RosterInv'
  <1>1. PICK t \in TransferReq : t = work[c].request
    BY LockedTransfer DEF ApplyTransfer
  <1>2. PICK p \in PupilId : p = transfer[t].pupil
    BY <1>1, LockedTransfer DEF ApplyTransfer
  <1>3. transfer[t].status = "PENDING" /\ Free(c, transferRow(t)) /\ Free(c, PupilRow(p))
    <2>1. PupilRow(p) \in held[c]
      BY <1>1, <1>2 DEF RosterInv, LocksHeld, ApplyTransfer
    <2> QED
      BY <1>1, <2>1, LockedTransfer, OwnLock DEF ApplyTransfer
  <1>4. PICK n \in PupilId : n = nextId
    BY <1>1, <1>2, TransferredPupils
  <1> DEFINE new == [state |-> "active", school |-> transfer[t].to, code |-> transfer[t].code,
                     bus |-> None, cid |-> "other", made |-> t]
  <1>5. PICK row \in PupilRecord :
           /\ pupil' = [pupil EXCEPT ![p] = row, ![n] = new]
           /\ row.state = "deleted" /\ row.code = pupil[p].code /\ row.made = pupil[p].made
    BY <1>1, <1>2, <1>4, TransferredPupils
  <1>6. n # p /\ pupil[n].state = "none"
    BY <1>1, <1>2, <1>4, TransferredPupils
  <1>7. new \in PupilRecord
    BY TransferRows DEF PupilRecord, Maker
  <1> HIDE DEF new
  <1>8. /\ pupil' \in [PupilId -> PupilRecord] /\ pupil'[p] = row
        /\ \A q \in PupilId \ {p, n} : pupil'[q] = pupil[q]
    BY <1>5, <1>6, <1>7, PupilRows
  <1>9. /\ link' = [link EXCEPT ![n] = work[c].links]
        /\ barred' = [barred EXCEPT ![n] = barred[p]]
    BY <1>1, <1>2, <1>4 DEF ApplyTransfer
  <1>10. work[c].links \in [Guardian -> {"none", "approved", "revoked"}]
    BY JobFields DEF RosterInv, ApplyTransfer
  <1>11. /\ link' \in [PupilId -> [Guardian -> {"none", "approved", "revoked"}]]
         /\ link'[n] = work[c].links /\ \A q \in PupilId \ {n} : link'[q] = link[q]
    BY <1>9, <1>10 DEF RosterInv, RosterTypeOK
  <1>12. /\ barred' \in [PupilId -> SUBSET Guardian]
         /\ barred'[n] = barred[p] /\ \A q \in PupilId \ {n} : barred'[q] = barred[q]
    BY <1>9 DEF RosterInv, RosterTypeOK
  <1>13. \A g \in barred[p] : work[c].links[g] # "approved"
    BY <1>1, <1>2 DEF RosterInv, WorkInv, ApplyTransfer
  <1>14. RevokedStaysRevoked'
    BY <1>11, <1>12, <1>13 DEF RosterInv, RevokedStaysRevoked
  <1>15. nextId' \in Nat
    BY Allocated DEF ApplyTransfer
  <1>16. \A q \in PupilId : pupil[q].state # "none" =>
          /\ pupil'[q].state # "none"
          /\ pupil'[q].code = pupil[q].code /\ pupil'[q].made = pupil[q].made
          /\ \A d \in Conn \ {c} : PupilRow(q) \in held[d] =>
                pupil'[q].state = pupil[q].state /\ barred'[q] \subseteq barred[q]
    BY <1>3, <1>5, <1>6, <1>8, <1>12 DEF Free
  <1>17. PupilEffect(c)
    BY <1>8, <1>11, <1>12, <1>14, <1>15, <1>16 DEF PupilEffect
  <1>18. TransferEffect(c)
    <2>1. transfer' = [transfer EXCEPT ![t].status = "APPLIED", ![t].applied = n]
      BY <1>1, <1>4 DEF ApplyTransfer
    <2>2. PICK r \in TransferRow : r = transfer[t]
      BY DEF RosterInv, RosterTypeOK, TransferRow
    <2>3. PICK q \in TransferRow : q = [r EXCEPT !.status = "APPLIED"]
      BY DEF TransferRow
    <2>4. q.pupil = r.pupil /\ q.code = r.code
      BY <2>3 DEF TransferRow
    <2>5. PICK w \in TransferRow : w = [q EXCEPT !.applied = n]
      BY DEF TransferRow
    <2>6. w.pupil = q.pupil /\ w.code = q.code
      BY <2>5 DEF TransferRow
    <2>7. w = [[r EXCEPT !.status = "APPLIED"] EXCEPT !.applied = n]
      BY <2>3, <2>5, Zenon
    <2>8. transfer' = [transfer EXCEPT
                          ![t] = [[transfer[t] EXCEPT !.status = "APPLIED"] EXCEPT !.applied = n]]
      BY <2>1 DEF RosterInv, RosterTypeOK
    <2>9. transfer' = [transfer EXCEPT ![t] = w]
      BY <2>2, <2>7, <2>8, Zenon
    <2>10. transfer[t].status # "NONE" /\ w.pupil = transfer[t].pupil /\ w.code = transfer[t].code
      BY <1>3, <2>2, <2>4, <2>6
    <2> QED
      BY <1>3, <2>9, <2>10, OneTransferRow
  <1>19. Ends(c)
    BY DEF ApplyTransfer
  <1> QED
    BY <1>17, <1>18, <1>19, EndsKeeps, NoRosterEffect, NoImportEffect

LEMMA TransferStepKeeps ==
  ASSUME RosterInv, NEW c \in Conn, TransferStep(c), UNCHANGED <<roster, importVars>>
  PROVE  RosterInv'
  <1>1. StaleTransfer(c) => RosterInv'
    BY ClosesTransferKeeps DEF StaleTransfer, TransferStatus
  <1>2. RefuseTransfer(c) => RosterInv'
    BY ClosesTransferKeeps DEF RefuseTransfer, TransferStatus
  <1> QED
    BY <1>1, <1>2, CheckTransferKeeps, InsertTransferKeeps, CheckWithdrawalKeeps,
       LockTransferKeeps, CloseTransferKeeps, LockTransferPupilKeeps, ApplyTransferKeeps,
       TransferFailsKeeps, MarkTransferFailedKeeps
       DEF TransferStep

-----------------------------------------------------------------------------
(* Imports *)

\* The row of a batch that a connection is about to apply, or has failed to.
LEMMA LockedLine ==
  ASSUME RosterInv, NEW c \in Conn, work[c].at \in {"batch", "row", "rowFailed", "undo"}
  PROVE  /\ work[c].batch \in Batch /\ work[c].todo \subseteq Code
         /\ batch[work[c].batch].status # "NONE"
         /\ work[c].at \in {"row", "rowFailed"} => work[c].code \in Code
         /\ work[c].at = "row" =>
               /\ Free(c, lineRow(work[c].batch, work[c].code))
               /\ ~line[work[c].batch][work[c].code].applied
         /\ work[c].at = "undo" =>
               /\ work[c].rows \in [Code -> Line]
               /\ \A k \in Code : Inserted(work[c].rows[k], work[c].batch, k)
  <1>1. WorkTypeOK /\ LocksHeld(c) /\ WorkInv(c)
    BY DEF RosterInv
  <1>2. work[c].at = "row" => lineRow(work[c].batch, work[c].code) \in held[c]
    BY <1>1 DEF LocksHeld
  <1> QED
    BY <1>1, <1>2, JobFields, OwnLock DEF WorkInv

\* The row of one code of one batch changes, under its lock or but for applied_at.
LEMMA OneLine ==
  ASSUME RosterInv, NEW c \in Conn, NEW b \in Batch, NEW k \in Code, NEW row \in Line,
         line' = [line EXCEPT ![b][k] = row], UNCHANGED <<batch, cut>>, PupilEffect(c),
         row.class = line[b][k].class,
         row.applied = line[b][k].applied \/ Free(c, lineRow(b, k)),
         Inserted(row, b, k)'
  PROVE  ImportEffect(c)
  <1>1. line \in [Batch -> [Code -> Line]]
    BY DEF RosterInv, RosterTypeOK
  <1>2. /\ line' \in [Batch -> [Code -> Line]] /\ line'[b][k] = row
        /\ \A e \in Batch : \A j \in Code : e # b \/ j # k => line'[e][j] = line[e][j]
    <2>1. line' = [line EXCEPT ![b] = [line[b] EXCEPT ![k] = row]]
      OBVIOUS
    <2>2. line[b] \in [Code -> Line]
      BY <1>1
    <2>3. [line[b] EXCEPT ![k] = row] \in [Code -> Line]
      BY <2>2
    <2> QED
      BY <1>1, <2>1, <2>2, <2>3
  <1>3. \A e \in Batch : \A j \in Code : Inserted(line[e][j], e, j)'
    <2> SUFFICES ASSUME NEW e \in Batch, NEW j \in Code
                 PROVE  Inserted(line[e][j], e, j)'
      OBVIOUS
    <2>1. CASE e = b /\ j = k
      BY <1>2, <2>1 DEF Inserted
    <2>2. CASE e # b \/ j # k
      <3>1. line[e][j] \in Line /\ Inserted(line[e][j], e, j) /\ line'[e][j] = line[e][j]
        BY <1>1, <1>2, <2>2 DEF RosterInv, RowsInv
      <3>2. line[e][j].status = "APPLIED" /\ line[e][j].pupil # 0 =>
               pupil'[line[e][j].pupil].state # "none" /\ pupil'[line[e][j].pupil].made = <<e, j>>
        BY <3>1, StillInserted
      <3> QED
        BY <3>1, <3>2 DEF Inserted
    <2> QED
      BY <2>1, <2>2
  <1>4. batch' = batch /\ cut' = cut
    OBVIOUS
  <1>5. \A e \in Batch : \A j \in Code : line'[e][j].class = line[e][j].class
    BY <1>2
  <1>6. \A e \in Batch : \A j \in Code : \A d \in Conn \ {c} : lineRow(e, j) \in held[d] =>
           line'[e][j].applied = line[e][j].applied
    BY <1>2 DEF Free
  <1>7. \A e \in Batch : \A j \in Code : batch'[e].status = "NONE" => line'[e][j].class = "none"
    BY <1>4, <1>5 DEF RosterInv, RowsInv
  <1>8. /\ batch' \in [Batch ->
              [school : School \cup {None}, success : Nat, error : Nat,
               status : {"NONE", "PREVIEWED", "APPLIED", "APPLIED_PARTIAL"},
               undone : {"no", "yes", "partial"}]]
        /\ cut' \subseteq Batch
    BY <1>4 DEF RosterInv, RosterTypeOK
  <1> QED
    BY <1>2, <1>3, <1>4, <1>6, <1>7, <1>8 DEF ImportEffect

\* On with the rest of a pass: nothing is locked, the batch has been previewed.
LEMMA PassKeeps ==
  ASSUME RosterInv, NEW c \in Conn, NEW step \in Job, Continues(c, step, {}),
         step.at \in {"batch", "rowFailed"}, batch[step.batch].status # "NONE",
         step.batch \in Batch,
         PupilEffect(c), ImportEffect(c), UNCHANGED <<roster, transfer>>
  PROVE  RosterInv'
  <1>1. Goes(c, step, {}) /\ begun' = begun
    BY DEF Continues
  <1>2. /\ WorkTypeOK' /\ work'[c] = step /\ held'[c] = {}
        /\ \A d \in Conn \ {c} : work'[d] = work[d] /\ held'[d] = held[d]
    BY <1>1, GoesFacts DEF RosterInv
  <1>3. LocksExclusive'
    BY <1>2, StillExclusive
  <1>4. LocksHeld(c)' /\ WorkInv(c)'
    BY <1>2 DEF LocksHeld, WorkInv, ImportEffect
  <1> QED
    BY <1>1, <1>2, <1>3, <1>4, StepKeeps, NoRosterEffect, NoTransferEffect
       DEF RosterInv, RosterTypeOK

LEMMA BatchJob ==
  ASSUME NEW b \in Batch, NEW todo \in SUBSET Code
  PROVE  LET step == [at |-> "batch", batch |-> b, todo |-> todo] IN
         step \in Job /\ step.at = "batch" /\ step.batch = b
  BY DEF Job

LEMMA NextRowKeeps ==
  ASSUME RosterInv, NEW c \in Conn, work[c].at \in {"row", "rowFailed"}, NextRow(c),
         PupilEffect(c), ImportEffect(c), UNCHANGED <<roster, transfer>>
  PROVE  RosterInv'
  <1>1. PICK b \in Batch, todo \in SUBSET Code :
           b = work[c].batch /\ todo = work[c].todo \ {work[c].code}
    BY LockedLine
  <1>2. batch[b].status # "NONE"
    BY <1>1, LockedLine
  <1> DEFINE step == [at |-> "batch", batch |-> b, todo |-> todo]
  <1>3. step \in Job /\ step.at = "batch" /\ step.batch = b
    BY BatchJob
  <1>4. Continues(c, step, {})
    BY <1>1 DEF NextRow
  <1> HIDE DEF step
  <1> QED
    BY <1>2, <1>3, <1>4, PassKeeps

\* The outcome of a row, with the pupil it names if the row inserted it.
LEMMA OutcomeKeeps ==
  ASSUME RosterInv, NEW c \in Conn, work[c].at = "row",
         NEW status \in SUCCESS \cup UNRESOLVED, NEW done \in BOOLEAN,
         NEW p \in PupilId \cup {0}, Outcome(c, status, done, p), PupilEffect(c),
         status = "APPLIED" => /\ pupil'[p].state # "none"
                               /\ pupil'[p].made = <<work[c].batch, work[c].code>>,
         UNCHANGED <<roster, transfer>>
  PROVE  RosterInv'
  <1>1. PICK b \in Batch, k \in Code : b = work[c].batch /\ k = work[c].code
    BY LockedLine
  <1>2. Free(c, lineRow(b, k))
    BY <1>1, LockedLine
  <1>3. PICK r \in Line : r = line[b][k]
    BY DEF RosterInv, RosterTypeOK
  <1> DEFINE row == [r EXCEPT !.status = status, !.applied = done, !.pupil = p]
  <1>4. row \in Line /\ row.class = r.class /\ row.status = status /\ row.pupil = p
    BY DEF Line
  <1>5. line' = [line EXCEPT ![b][k] = row] /\ UNCHANGED <<batch, cut>>
    BY <1>1, <1>3 DEF Outcome
  <1> HIDE DEF row
  <1>6. Inserted(row, b, k)'
    BY <1>1, <1>4 DEF Inserted
  <1>7. ImportEffect(c)
    BY <1>2, <1>3, <1>4, <1>5, <1>6, OneLine
  <1> QED
    BY <1>7, NextRowKeeps DEF Outcome

LEMMA LineRows ==
  ASSUME RosterInv, NEW b \in Batch, NEW k \in Code
  PROVE  line[b][k] \in Line /\ line[b][k].bus \in Bus \cup {None}
  BY DEF RosterInv, RosterTypeOK, Line

\* The rows of a batch are what its preview found: none of them has been applied.
LEMMA PreviewedRow ==
  ASSUME NEW row, NEW g \in Guardian, NEW v \in Bus \cup {None},
         NEW class \in {"insert", "guardian", "reactivate", "skip"},
         NEW s, NEW k, class = classifyImportRow(s, k, g), row = PreviewRow(s, k, g, v)
  PROVE  row \in Line /\ row.status \in {"READY", "SKIP", "WARNING"}
  <1>1. PICK status \in {"READY", "SKIP", "WARNING"} : status = PreviewStatus(class)
    BY DEF PreviewStatus
  <1>2. row = [class |-> class, status |-> status, applied |-> FALSE, guardian |-> g,
               bus |-> v, pupil |-> 0, undone |-> "no"]
    BY <1>1 DEF NoLine, PreviewRow
  <1>3. [class |-> class, status |-> status, applied |-> FALSE, guardian |-> g,
         bus |-> v, pupil |-> 0, undone |-> "no"] \in Line
    BY DEF Line
  <1>4. row \in Line
    BY <1>2, <1>3, Zenon
  <1>5. row.status = status
    BY <1>2
  <1> QED
    BY <1>4, <1>5

BatchRow ==
    [school : School \cup {None}, success : Nat, error : Nat,
     status : {"NONE", "PREVIEWED", "APPLIED", "APPLIED_PARTIAL"},
     undone : {"no", "yes", "partial"}]

LEMMA PreviewedBatch ==
  ASSUME RosterInv, NEW b \in Batch, NEW s \in School,
         batch' = [batch EXCEPT ![b].school = s, ![b].status = "PREVIEWED"]
  PROVE  /\ batch' \in [Batch ->
              [school : School \cup {None}, success : Nat, error : Nat,
               status : {"NONE", "PREVIEWED", "APPLIED", "APPLIED_PARTIAL"},
               undone : {"no", "yes", "partial"}]]
         /\ batch'[b].status = "PREVIEWED"
         /\ \A e \in Batch \ {b} : batch'[e] = batch[e]
  <1>1. PICK r \in BatchRow : r = batch[b]
    BY DEF RosterInv, RosterTypeOK, BatchRow
  <1>2. PICK q \in BatchRow : q = [r EXCEPT !.school = s]
    BY DEF BatchRow
  <1> DEFINE row == [q EXCEPT !.status = "PREVIEWED"]
  <1>3. row \in BatchRow /\ row.status = "PREVIEWED"
    BY DEF BatchRow
  <1>4. row = [[r EXCEPT !.school = s] EXCEPT !.status = "PREVIEWED"]
    BY <1>2, Zenon
  <1>5. batch' = [batch EXCEPT ![b] = [[batch[b] EXCEPT !.school = s] EXCEPT !.status = "PREVIEWED"]]
    BY DEF RosterInv, RosterTypeOK
  <1> HIDE DEF row
  <1>6. batch' = [batch EXCEPT ![b] = row]
    BY <1>1, <1>4, <1>5, Zenon
  <1>7. batch \in [Batch -> BatchRow]
    BY DEF RosterInv, RosterTypeOK, BatchRow
  <1>8. /\ batch' \in [Batch -> BatchRow] /\ batch'[b].status = "PREVIEWED"
        /\ \A e \in Batch \ {b} : batch'[e] = batch[e]
    BY <1>3, <1>6, <1>7
  <1> QED
    BY <1>8 DEF BatchRow

LEMMA runPreviewKeeps ==
  ASSUME RosterInv, NEW b \in Batch, runPreview(b), UNCHANGED <<roster, transfer>>
  PROVE  RosterInv'
  <1>1. PICK s \in School, K \in SUBSET Code, g \in Guardian, v \in Bus \cup {None} :
           /\ K # {}
           /\ line' = [line EXCEPT ![b] = PreviewRows(s, K, g, v)]
           /\ batch' = [batch EXCEPT ![b].school = s, ![b].status = "PREVIEWED"]
    BY ZenonT(60) DEF runPreview
  <1> DEFINE rows == PreviewRows(s, K, g, v)
  <1>2. ASSUME NEW k \in Code
        PROVE  rows[k] \in Line /\ rows[k].status # "APPLIED"
    <2>1. NoLine \in Line /\ NoLine.status # "APPLIED"
      BY DEF NoLine, Line
    <2>2. PICK class \in {"insert", "guardian", "reactivate", "skip"} :
             class = classifyImportRow(s, k, g)
      BY DEF classifyImportRow
    <2>3. /\ PreviewRow(s, k, g, v) \in Line
          /\ PreviewRow(s, k, g, v).status \in {"READY", "SKIP", "WARNING"}
      BY <2>2, PreviewedRow
    <2> QED
      BY <2>1, <2>3 DEF PreviewRows
  <1>3. line' = [line EXCEPT ![b] = rows] /\ rows \in [Code -> Line]
    BY <1>1, <1>2 DEF PreviewRows
  <1> HIDE DEF rows
  <1>4. /\ line' \in [Batch -> [Code -> Line]] /\ line'[b] = rows
        /\ \A e \in Batch \ {b} : line'[e] = line[e]
    BY <1>3 DEF RosterInv, RosterTypeOK
  <1>5. /\ batch' \in [Batch ->
              [school : School \cup {None}, success : Nat, error : Nat,
               status : {"NONE", "PREVIEWED", "APPLIED", "APPLIED_PARTIAL"},
               undone : {"no", "yes", "partial"}]]
        /\ batch'[b].status = "PREVIEWED"
        /\ \A e \in Batch \ {b} : batch'[e] = batch[e]
    BY <1>1, PreviewedBatch
  <1>6. /\ batch[b].status = "NONE" /\ UNCHANGED <<pupilVars, held, work, cut>>
        /\ Arrives("request")
    BY DEF runPreview
  <1>7. \A e \in Batch : \A k \in Code : Inserted(line[e][k], e, k)'
    <2> SUFFICES ASSUME NEW e \in Batch, NEW k \in Code
                 PROVE  Inserted(line[e][k], e, k)'
      OBVIOUS
    <2>1. CASE e = b
      BY <1>2, <1>4, <2>1 DEF Inserted
    <2>2. CASE e # b
      <3>1. Inserted(line[e][k], e, k) /\ line'[e][k] = line[e][k] /\ pupil' = pupil
        BY <1>4, <1>6, <2>2 DEF RosterInv, RowsInv, pupilVars
      <3> QED
        BY <3>1 DEF Inserted
    <2> QED
      BY <2>1, <2>2
  <1>8. \A e \in Batch : \A k \in Code : batch'[e].status = "NONE" => line'[e][k].class = "none"
    BY <1>4, <1>5 DEF RosterInv, RowsInv
  <1>9. \A e \in Batch : batch[e].status # "NONE" => batch'[e] = batch[e] /\ line'[e] = line[e]
    BY <1>4, <1>5, <1>6
  <1>10. ImportEffect(None)
    BY <1>4, <1>5, <1>6, <1>7, <1>8, <1>9 DEF ImportEffect, RosterInv, RosterTypeOK
  <1>11. ASSUME NEW d \in Conn
         PROVE  LocksHeld(d)' /\ WorkInv(d)'
    <2>1. LocksHeld(d) /\ WorkInv(d)
      BY DEF RosterInv
    <2>2. work[d].at \in {"batch", "row", "rowFailed", "undo"} =>
             /\ batch'[work[d].batch] = batch[work[d].batch]
             /\ line'[work[d].batch] = line[work[d].batch]
      BY <1>9, LockedLine
    <2> QED
      BY <1>6, <2>1, <2>2 DEF LocksHeld, WorkInv, Inserted, Active, pupilVars
  <1> QED
    BY <1>6, <1>10, <1>11, ArrivalKeeps, NoPupilEffect, NoRosterEffect, NoTransferEffect

LEMMA StartApplyKeeps ==
  ASSUME RosterInv, NEW c \in Conn, NEW b \in Batch, StartApply(c, b),
         UNCHANGED <<roster, transfer>>
  PROVE  RosterInv'
  <1>1. PICK K \in SUBSET Code :
           Begins(c, "request", [at |-> "batch", batch |-> b, todo |-> K], {})
    BY DEF StartApply
  <1> DEFINE step == [at |-> "batch", batch |-> b, todo |-> K]
  <1>2. step \in Job /\ step.at = "batch" /\ step.batch = b
    BY BatchJob
  <1>3. /\ Goes(c, step, {}) /\ begun' \in [{"edit", "request"} -> Nat]
        /\ batch[b].status # "NONE" /\ UNCHANGED <<pupilVars, importVars>>
    BY <1>1, ArrivesFacts DEF Begins, StartApply
  <1> HIDE DEF step
  <1>4. work'[c] = step
    BY <1>2, <1>3, GoesFacts DEF RosterInv
  <1>5. LocksHeld(c)' /\ WorkInv(c)'
    BY <1>2, <1>3, <1>4 DEF LocksHeld, WorkInv, importVars
  <1>6. cut' \subseteq Batch /\ UNCHANGED <<pupilVars, roster, transfer, batch, line>>
    BY <1>3 DEF RosterInv, RosterTypeOK, importVars
  <1> QED
    BY <1>2, <1>3, <1>5, <1>6, ReadKeeps

LEMMA StartRollbackKeeps ==
  ASSUME RosterInv, NEW c \in Conn, NEW b \in Batch, StartRollback(c, b),
         UNCHANGED <<roster, transfer>>
  PROVE  RosterInv'
  <1>1. PICK K \in SUBSET Code :
           Begins(c, "request", [at |-> "undo", batch |-> b, todo |-> K, rows |-> line[b]], {})
    BY DEF StartRollback
  <1> DEFINE step == [at |-> "undo", batch |-> b, todo |-> K, rows |-> line[b]]
  <1>2. step \in Job /\ step.at = "undo" /\ step.batch = b /\ step.rows = line[b]
    BY DEF Job, RosterInv, RosterTypeOK
  <1>3. /\ Goes(c, step, {}) /\ begun' \in [{"edit", "request"} -> Nat]
        /\ batch[b].status # "NONE" /\ UNCHANGED <<pupilVars, importVars>>
    BY <1>1, ArrivesFacts DEF Begins, StartRollback
  <1> HIDE DEF step
  <1>4. work'[c] = step
    BY <1>2, <1>3, GoesFacts DEF RosterInv
  <1>5. \A k \in Code : Inserted(line[b][k], b, k)
    BY DEF RosterInv, RowsInv
  <1>6. LocksHeld(c)' /\ WorkInv(c)'
    BY <1>2, <1>3, <1>4, <1>5 DEF LocksHeld, WorkInv, Inserted, importVars, pupilVars
  <1>7. cut' \subseteq Batch /\ UNCHANGED <<pupilVars, roster, transfer, batch, line>>
    BY <1>3 DEF RosterInv, RosterTypeOK, importVars
  <1> QED
    BY <1>2, <1>3, <1>6, <1>7, ReadKeeps

LEMMA LockImportRowKeeps ==
  ASSUME RosterInv, NEW c \in Conn, LockImportRow(c), UNCHANGED <<roster, transfer>>
  PROVE  RosterInv'
  <1>1. PICK b \in Batch, todo \in SUBSET Code : b = work[c].batch /\ todo = work[c].todo
    BY LockedLine DEF LockImportRow
  <1>2. batch[b].status # "NONE"
    BY <1>1, LockedLine DEF LockImportRow
  <1>3. PICK k \in Code :
           /\ Free(c, lineRow(b, k))
           /\ IF Pending(b, k)
              THEN Continues(c, [at |-> "row", batch |-> b, todo |-> todo, code |-> k],
                             {lineRow(b, k)})
              ELSE Continues(c, [at |-> "batch", batch |-> b, todo |-> todo \ {k}], {})
    BY <1>1 DEF LockImportRow
  <1>4. UNCHANGED <<pupilVars, batch, line, cut>> /\ cut \subseteq Batch
    BY DEF LockImportRow, importVars, RosterInv, RosterTypeOK
  <1>5. CASE Pending(b, k)
    <2> DEFINE step == [at |-> "row", batch |-> b, todo |-> todo, code |-> k]
    <2>1. step \in Job /\ step.at = "row" /\ step.batch = b /\ step.code = k
      BY DEF Job
    <2>2. Goes(c, step, {lineRow(b, k)}) /\ begun' = begun
      BY <1>3, <1>5 DEF Continues
    <2> HIDE DEF step
    <2>3. work'[c] = step /\ held'[c] = {lineRow(b, k)}
      BY <2>1, <2>2, GoesFacts DEF RosterInv
    <2>4. LocksHeld(c)' /\ WorkInv(c)'
      BY <1>2, <1>4, <1>5, <2>1, <2>3 DEF LocksHeld, WorkInv, Pending
    <2>5. \A d \in Conn \ {c} : {lineRow(b, k)} \cap held[d] = {}
      BY <1>3 DEF Free
    <2>6. begun' \in [{"edit", "request"} -> Nat]
      BY <2>2 DEF RosterInv, RosterTypeOK
    <2> QED
      BY <1>4, <2>1, <2>2, <2>4, <2>5, <2>6, ReadKeeps
  <1>6. CASE ~Pending(b, k)
    <2>1. PICK rest \in SUBSET Code : rest = todo \ {k}
      OBVIOUS
    <2> DEFINE step == [at |-> "batch", batch |-> b, todo |-> rest]
    <2>2. step \in Job /\ step.at = "batch" /\ step.batch = b
      BY BatchJob
    <2>3. Continues(c, step, {})
      BY <1>3, <1>6, <2>1
    <2>4. PupilEffect(c) /\ ImportEffect(c)
      BY <1>4, NoPupilEffect, NoImportEffect DEF importVars
    <2> HIDE DEF step
    <2> QED
      BY <1>2, <2>2, <2>3, <2>4, PassKeeps
  <1> QED
    BY <1>5, <1>6

\* A row that is done, or cannot be, without any change of the pupils.
LEMMA IdleOutcomeKeeps ==
  ASSUME RosterInv, NEW c \in Conn, work[c].at = "row",
         NEW status \in (SUCCESS \cup UNRESOLVED) \ {"APPLIED"}, NEW done \in BOOLEAN,
         Outcome(c, status, done, 0), UNCHANGED <<pupilVars, roster, transfer>>
  PROVE  RosterInv'
  BY OutcomeKeeps, NoPupilEffect

LEMMA UnappliedKeeps ==
  ASSUME RosterInv, NEW c \in Conn, AlreadyApplied(c) \/ VehicleBlocked(c) \/ Stale(c),
         UNCHANGED <<roster, transfer>>
  PROVE  RosterInv'
  <1>1. {"ALREADY_APPLIED", "VEHICLE_BLOCKED", "STALE_NEEDS_REPREVIEW"}
           \subseteq (SUCCESS \cup UNRESOLVED) \ {"APPLIED"}
    BY DEF SUCCESS, UNRESOLVED
  <1>2. work[c].at = "row" /\ UNCHANGED pupilVars
    BY DEF AlreadyApplied, VehicleBlocked, Stale, AtRow
  <1>3. \E status \in {"ALREADY_APPLIED", "VEHICLE_BLOCKED", "STALE_NEEDS_REPREVIEW"},
           done \in BOOLEAN : Outcome(c, status, done, 0)
    BY DEF AlreadyApplied, VehicleBlocked, Stale
  <1> QED
    BY <1>1, <1>2, <1>3, IdleOutcomeKeeps

\* The pupils that a row is about, none of which anybody else has locked.
LEMMA RowPupils ==
  ASSUME RosterInv, NEW c \in Conn, NEW class, AtRow(c, class)
  PROVE  /\ work[c].at = "row"
         /\ \A p \in Records(c) : /\ p \in PupilId /\ pupil[p].state # "none"
                                  /\ Free(c, PupilRow(p))
  BY DEF AtRow, Records, RecordOf

LEMMA applyInsertRowKeeps ==
  ASSUME RosterInv, NEW c \in Conn, applyInsertRow(c), UNCHANGED <<roster, transfer>>
  PROVE  RosterInv'
  <1>1. work[c].at = "row"
    BY DEF applyInsertRow, AtRow
  <1>2. PICK b \in Batch, k \in Code, n \in PupilId :
           b = work[c].batch /\ k = work[c].code /\ n = nextId
    BY <1>1, LockedLine DEF applyInsertRow
  <1> DEFINE row == [state |-> "active", school |-> batch[b].school, code |-> k,
                     bus |-> line[b][k].bus, cid |-> "import", made |-> <<b, k>>]
  <1>3. /\ pupil' = [pupil EXCEPT ![n] = row] /\ pupil[n].state = "none"
        /\ Approve(n, line[b][k].guardian) /\ nextId' \in Nat
        /\ Outcome(c, "APPLIED", TRUE, n)
    BY <1>2, Allocated DEF applyInsertRow, Insertable
  <1>4. batch[b].school \in School \cup {None}
    BY DEF RosterInv, RosterTypeOK
  <1>5. row \in PupilRecord /\ row.state = "active" /\ row.made = <<b, k>>
    BY <1>4, LineRows DEF PupilRecord, Maker
  <1> HIDE DEF row
  <1>6. PupilEffect(c)
    BY <1>3, <1>5, ApproveFacts, OnePupil
  <1>7. pupil'[n] = row
    BY <1>3, PupilRows
  <1>8. "APPLIED" \in SUCCESS \cup UNRESOLVED
    BY DEF SUCCESS
  <1> QED
    BY <1>1, <1>2, <1>3, <1>5, <1>6, <1>7, <1>8, OutcomeKeeps

\* A guardian takes the place of another, whose approval is withdrawn.
LEMMA ReplacedGuardian ==
  ASSUME RosterInv, NEW c \in Conn, NEW p \in PupilId, Free(c, PupilRow(p)),
         NEW g, NEW h \in Guardian, h # g, UNCHANGED <<pupil, nextId>>,
         link' = [link EXCEPT ![p][g] = "approved", ![p][h] = "revoked"],
         barred' = [barred EXCEPT ![p] = (barred[p] \ {g}) \cup {h}]
  PROVE  PupilEffect(c)
  <1>1. PICK r \in [Guardian -> {"none", "approved", "revoked"}] : r = link[p]
    BY DEF RosterInv, RosterTypeOK
  <1>2. PICK q \in [Guardian -> {"none", "approved", "revoked"}] : q = [r EXCEPT ![g] = "approved"]
    OBVIOUS
  <1>3. PICK w \in [Guardian -> {"none", "approved", "revoked"}] : w = [q EXCEPT ![h] = "revoked"]
    OBVIOUS
  <1>4. w = [[r EXCEPT ![g] = "approved"] EXCEPT ![h] = "revoked"]
    BY <1>2, <1>3, Zenon
  <1>5. link' = [link EXCEPT ![p] = [[link[p] EXCEPT ![g] = "approved"] EXCEPT ![h] = "revoked"]]
    BY DEF RosterInv, RosterTypeOK
  <1>6. link' = [link EXCEPT ![p] = w]
    BY <1>1, <1>4, <1>5, Zenon
  <1>7. /\ link' \in [PupilId -> [Guardian -> {"none", "approved", "revoked"}]]
        /\ link'[p] = w /\ \A e \in PupilId \ {p} : link'[e] = link[e]
    BY <1>6 DEF RosterInv, RosterTypeOK
  <1>8. /\ barred' \in [PupilId -> SUBSET Guardian]
        /\ barred'[p] = (barred[p] \ {g}) \cup {h}
        /\ \A e \in PupilId \ {p} : barred'[e] = barred[e]
    BY DEF RosterInv, RosterTypeOK
  <1>9. \A i \in Guardian : i # g /\ i # h => w[i] = link[p][i]
    BY <1>1, <1>2, <1>3
  <1>10. w[h] = "revoked" /\ barred[p] \subseteq Guardian
    BY <1>3 DEF RosterInv, RosterTypeOK
  <1>11. \A i \in barred'[p] : link'[p][i] # "approved"
    BY <1>7, <1>8, <1>9, <1>10 DEF RosterInv, RevokedStaysRevoked
  <1>12. RevokedStaysRevoked'
    BY <1>7, <1>8, <1>11 DEF RosterInv, RevokedStaysRevoked
  <1>13. \A e \in PupilId : barred'[e] \subseteq barred[e] \/ Free(c, PupilRow(e))
    BY <1>8
  <1> QED
    BY <1>7, <1>8, <1>12, <1>13, OnlyLinks

LEMMA applyGuardianRowKeeps ==
  ASSUME RosterInv, NEW c \in Conn, applyGuardianRow(c), UNCHANGED <<roster, transfer>>
  PROVE  RosterInv'
  <1>1. work[c].at = "row" /\ AtRow(c, "guardian") /\ UNCHANGED <<pupil, nextId>>
    BY DEF applyGuardianRow, GuardianRowFree, AtRow
  <1>2. PICK g : g = line[work[c].batch][work[c].code].guardian
    OBVIOUS
  <1>3. PICK p \in Records(c) :
           /\ \/ Approve(p, g)
              \/ UNCHANGED <<link, barred>>
              \/ \E h \in Guardian : /\ h # g
                    /\ link' = [link EXCEPT ![p][g] = "approved", ![p][h] = "revoked"]
                    /\ barred' = [barred EXCEPT ![p] = (barred[p] \ {g}) \cup {h}]
           /\ Outcome(c, "GUARDIAN_UPDATED", TRUE, p)
    BY <1>2 DEF applyGuardianRow
  <1>4. p \in PupilId /\ Free(c, PupilRow(p))
    BY <1>1, RowPupils
  <1>5. PupilEffect(c)
    <2>1. CASE Approve(p, g)
      BY <1>1, <1>4, <2>1, ApproveFacts, OnlyLinks
    <2>2. CASE UNCHANGED <<link, barred>>
      BY <1>1, <2>2, NoPupilEffect DEF pupilVars
    <2>3. CASE \E h \in Guardian : /\ h # g
                  /\ link' = [link EXCEPT ![p][g] = "approved", ![p][h] = "revoked"]
                  /\ barred' = [barred EXCEPT ![p] = (barred[p] \ {g}) \cup {h}]
      <3>1. PICK h \in Guardian : /\ h # g
                  /\ link' = [link EXCEPT ![p][g] = "approved", ![p][h] = "revoked"]
                  /\ barred' = [barred EXCEPT ![p] = (barred[p] \ {g}) \cup {h}]
        BY <2>3
      <3>2. p \in PupilId /\ Free(c, PupilRow(p)) /\ UNCHANGED <<pupil, nextId>>
        BY <1>1, <1>4
      <3> QED
        BY <3>1, <3>2, ReplacedGuardian, Zenon
    <2> QED
      BY <1>3, <2>1, <2>2, <2>3
  <1>6. "GUARDIAN_UPDATED" \in SUCCESS \cup UNRESOLVED
    BY DEF SUCCESS
  <1> QED
    BY <1>1, <1>3, <1>4, <1>5, <1>6, OutcomeKeeps

LEMMA applyReactivateRowKeeps ==
  ASSUME RosterInv, NEW c \in Conn, applyReactivateRow(c), UNCHANGED <<roster, transfer>>
  PROVE  RosterInv'
  <1>1. work[c].at = "row" /\ AtRow(c, "reactivate") /\ nextId' = nextId
    BY DEF applyReactivateRow, AtRow
  <1>2. PICK b \in Bus \cup {None} : b = line[work[c].batch][work[c].code].bus
    BY <1>1, LockedLine, LineRows
  <1>3. PICK p \in Records(c) :
           /\ pupil' = [pupil EXCEPT ![p].state = "active", ![p].bus = b]
           /\ Approve(p, line[work[c].batch][work[c].code].guardian)
           /\ Outcome(c, "REACTIVATED", TRUE, p)
    BY <1>2 DEF applyReactivateRow
  <1>4. p \in PupilId /\ Free(c, PupilRow(p))
    BY <1>1, RowPupils
  <1>5. PICK row \in PupilRecord :
           /\ pupil' = [pupil EXCEPT ![p] = row]
           /\ row.state = "active" /\ row.code = pupil[p].code /\ row.made = pupil[p].made
    BY <1>3, <1>4, StateBusEdit
  <1>6. nextId' \in Nat
    BY <1>1, Allocated
  <1>7. PupilEffect(c)
    BY <1>3, <1>4, <1>5, <1>6, ApproveFacts, OnePupil
  <1>8. "REACTIVATED" \in SUCCESS \cup UNRESOLVED
    BY DEF SUCCESS
  <1> QED
    BY <1>1, <1>3, <1>4, <1>7, <1>8, OutcomeKeeps

LEMMA ImportRowFailsKeeps ==
  ASSUME RosterInv, NEW c \in Conn, ImportRowFails(c), UNCHANGED <<roster, transfer>>
  PROVE  RosterInv'
  <1>1. work[c].at = "row" /\ UNCHANGED <<pupilVars, importVars>>
    BY DEF ImportRowFails
  <1>2. PICK w \in [at : {"row", "rowFailed"}, batch : Batch, todo : SUBSET Code, code : Code] :
           w = work[c]
    BY <1>1, JobOf DEF RosterInv, WorkTypeOK
  <1> DEFINE step == [w EXCEPT !.at = "rowFailed"]
  <1>3. step \in Job /\ step.at = "rowFailed" /\ step.batch = w.batch
    BY DEF Job
  <1>4. w.batch \in Batch /\ batch[w.batch].status # "NONE"
    BY <1>1, <1>2, LockedLine
  <1>5. Continues(c, step, {})
    BY <1>2 DEF ImportRowFails
  <1> HIDE DEF step
  <1> QED
    BY <1>1, <1>3, <1>4, <1>5, PassKeeps, NoPupilEffect, NoImportEffect

LEMMA markRowApplyFailedKeeps ==
  ASSUME RosterInv, NEW c \in Conn, markRowApplyFailed(c), UNCHANGED <<roster, transfer>>
  PROVE  RosterInv'
  <1>1. work[c].at = "rowFailed" /\ UNCHANGED <<pupilVars, batch, cut>> /\ NextRow(c)
    BY DEF markRowApplyFailed
  <1>2. PICK b \in Batch, k \in Code : b = work[c].batch /\ k = work[c].code
    BY <1>1, LockedLine
  <1>3. PICK r \in Line : r = line[b][k]
    BY LineRows
  <1> DEFINE row == [r EXCEPT !.status = "APPLY_FAILED"]
  <1>4. row \in Line /\ row.class = r.class /\ row.applied = r.applied
        /\ row.status = "APPLY_FAILED"
    BY DEF Line, UNRESOLVED
  <1>5. line' = [line EXCEPT ![b][k] = row]
    BY <1>2, <1>3 DEF markRowApplyFailed
  <1> HIDE DEF row
  <1>6. Inserted(row, b, k)'
    BY <1>4 DEF Inserted
  <1>7. ImportEffect(c)
    BY <1>1, <1>3, <1>4, <1>5, <1>6, OneLine, NoPupilEffect
  <1> QED
    BY <1>1, <1>7, NextRowKeeps, NoPupilEffect

LEMMA InStatusIsANat ==
  ASSUME NEW b, NEW S
  PROVE  InStatus(b, S) \in Nat
  <1>1. IsFiniteSet({k \in Code : line[b][k].status \in S})
    BY CodeAssumption, FS_Subset
  <1> QED
    BY <1>1, FS_CardinalityType DEF InStatus

\* The batch itself changes, once it has been previewed.
LEMMA OneBatch ==
  ASSUME RosterInv, NEW c \in Conn, NEW b \in Batch, NEW row \in BatchRow,
         batch' = [batch EXCEPT ![b] = row], row.status # "NONE",
         UNCHANGED <<pupilVars, line>>, cut' \subseteq cut
  PROVE  ImportEffect(c)
  <1>1. batch \in [Batch -> BatchRow] /\ cut \subseteq Batch
    BY DEF RosterInv, RosterTypeOK, BatchRow
  <1>2. /\ batch' \in [Batch -> BatchRow] /\ batch'[b] = row
        /\ \A e \in Batch \ {b} : batch'[e] = batch[e]
    BY <1>1
  <1>3. line' = line /\ pupil' = pupil /\ line \in [Batch -> [Code -> Line]]
    BY DEF pupilVars, RosterInv, RosterTypeOK
  <1>4. \A e \in Batch : \A k \in Code :
           /\ batch'[e].status = "NONE" => line'[e][k].class = "none"
           /\ Inserted(line[e][k], e, k)'
    <2> SUFFICES ASSUME NEW e \in Batch, NEW k \in Code
                 PROVE  /\ batch'[e].status = "NONE" => line'[e][k].class = "none"
                        /\ Inserted(line[e][k], e, k)'
      OBVIOUS
    <2>1. Inserted(line[e][k], e, k) /\ (batch[e].status = "NONE" => line[e][k].class = "none")
      BY DEF RosterInv, RowsInv
    <2>2. batch'[e].status = "NONE" => line'[e][k].class = "none"
      BY <1>2, <1>3, <2>1
    <2>3. Inserted(line[e][k], e, k)'
      BY <1>3, <2>1 DEF Inserted
    <2> QED
      BY <2>2, <2>3
  <1> QED
    BY <1>1, <1>2, <1>3, <1>4 DEF ImportEffect, BatchRow

\* The end of a pass counts the rows.
LEMMA FinishedBatch ==
  ASSUME RosterInv, NEW c \in Conn, FinishApply(c), NEW b \in Batch, b = work[c].batch
  PROVE  \E row \in BatchRow :
            /\ batch' = [batch EXCEPT ![b] = row]
            /\ row.status = IF InStatus(b, UNRESOLVED) > 0 THEN "APPLIED_PARTIAL" ELSE "APPLIED"
            /\ row.success = InStatus(b, SUCCESS) /\ row.error = InStatus(b, UNRESOLVED)
  <1>1. PICK status \in {"APPLIED", "APPLIED_PARTIAL"}, good \in Nat, bad \in Nat :
           /\ status = IF InStatus(b, UNRESOLVED) > 0 THEN "APPLIED_PARTIAL" ELSE "APPLIED"
           /\ good = InStatus(b, SUCCESS) /\ bad = InStatus(b, UNRESOLVED)
    BY InStatusIsANat
  <1>2. batch' = [batch EXCEPT ![b].status = status, ![b].success = good, ![b].error = bad]
    BY <1>1 DEF FinishApply, Unresolved
  <1>3. PICK r \in BatchRow : r = batch[b]
    BY DEF RosterInv, RosterTypeOK, BatchRow
  <1>4. PICK q \in BatchRow : q = [r EXCEPT !.status = status]
    BY DEF BatchRow
  <1>5. q.status = status
    BY <1>4 DEF BatchRow
  <1>6. PICK v \in BatchRow : v = [q EXCEPT !.success = good]
    BY DEF BatchRow
  <1>7. v.status = status /\ v.success = good
    BY <1>5, <1>6 DEF BatchRow
  <1> DEFINE row == [v EXCEPT !.error = bad]
  <1>8. row \in BatchRow /\ row.status = status /\ row.success = good /\ row.error = bad
    BY <1>7 DEF BatchRow
  <1>9. row = [[[r EXCEPT !.status = status] EXCEPT !.success = good] EXCEPT !.error = bad]
    BY <1>4, <1>6, Zenon
  <1>10. batch' = [batch EXCEPT ![b] = [[[batch[b] EXCEPT !.status = status]
                                            EXCEPT !.success = good] EXCEPT !.error = bad]]
    BY <1>2 DEF RosterInv, RosterTypeOK
  <1> HIDE DEF row
  <1>11. batch' = [batch EXCEPT ![b] = row]
    BY <1>3, <1>9, <1>10, Zenon
  <1> QED
    BY <1>1, <1>8, <1>11

LEMMA FinishApplyKeeps ==
  ASSUME RosterInv, NEW c \in Conn, FinishApply(c), UNCHANGED <<roster, transfer>>
  PROVE  RosterInv'
  <1>1. PICK b \in Batch : b = work[c].batch
    BY LockedLine DEF FinishApply
  <1>2. PICK row \in BatchRow : batch' = [batch EXCEPT ![b] = row] /\ row.status # "NONE"
    BY <1>1, FinishedBatch
  <1>3. Ends(c) /\ UNCHANGED <<pupilVars, line>> /\ cut' \subseteq cut
    BY DEF FinishApply
  <1>4. ImportEffect(c)
    BY <1>2, <1>3, OneBatch
  <1> QED
    BY <1>3, <1>4, EndsKeeps, NoPupilEffect, NoRosterEffect, NoTransferEffect

LEMMA FinishRollbackKeeps ==
  ASSUME RosterInv, NEW c \in Conn, FinishRollback(c), UNCHANGED <<roster, transfer>>
  PROVE  RosterInv'
  <1>1. PICK b \in Batch : b = work[c].batch /\ batch[b].status # "NONE"
    BY LockedLine DEF FinishRollback
  <1>2. PICK undone \in {"yes", "partial"} : batch' = [batch EXCEPT ![b].undone = undone]
    BY <1>1 DEF FinishRollback
  <1>3. Ends(c) /\ UNCHANGED <<pupilVars, line, cut>>
    BY DEF FinishRollback
  <1>4. PICK r \in BatchRow : r = batch[b]
    BY DEF RosterInv, RosterTypeOK, BatchRow
  <1> DEFINE row == [r EXCEPT !.undone = undone]
  <1>5. row \in BatchRow /\ row.status = r.status
    BY DEF BatchRow
  <1>6. batch' = [batch EXCEPT ![b] = row]
    BY <1>2, <1>4
  <1> HIDE DEF row
  <1>7. ImportEffect(c)
    BY <1>1, <1>3, <1>4, <1>5, <1>6, OneBatch
  <1> QED
    BY <1>3, <1>7, EndsKeeps, NoPupilEffect, NoRosterEffect, NoTransferEffect

\* The rows that a roll back has read still name the pupils that they inserted.
LEMMA NextUndoKeeps ==
  ASSUME RosterInv, NEW c \in Conn, NEW k, work[c].at = "undo", NextUndo(c, k),
         PupilEffect(c), ImportEffect(c), UNCHANGED <<roster, transfer>>
  PROVE  RosterInv'
  <1>1. PICK w \in [at : {"undo"}, batch : Batch, todo : SUBSET Code, rows : [Code -> Line]] :
           w = work[c]
    BY JobOf DEF RosterInv, WorkTypeOK
  <1> DEFINE step == [w EXCEPT !.todo = w.todo \ {k}]
  <1>2. step \in Job /\ step.at = "undo" /\ step.batch = w.batch /\ step.rows = w.rows
    BY DEF Job
  <1>3. /\ w.batch \in Batch /\ batch[w.batch].status # "NONE"
        /\ \A j \in Code : w.rows[j] \in Line /\ Inserted(w.rows[j], w.batch, j)
    BY <1>1, LockedLine
  <1>4. Goes(c, step, {}) /\ begun' = begun
    BY <1>1 DEF NextUndo, Continues
  <1> HIDE DEF step
  <1>5. /\ WorkTypeOK' /\ work'[c] = step /\ held'[c] = {}
        /\ \A d \in Conn \ {c} : work'[d] = work[d] /\ held'[d] = held[d]
    BY <1>2, <1>4, GoesFacts DEF RosterInv
  <1>6. LocksExclusive'
    BY <1>5, StillExclusive
  <1>7. \A j \in Code : w.rows[j].status = "APPLIED" /\ w.rows[j].pupil # 0 =>
           pupil'[w.rows[j].pupil].state # "none" /\ pupil'[w.rows[j].pupil].made = <<w.batch, j>>
    BY <1>3, StillInserted
  <1>8. batch'[w.batch].status # "NONE"
    BY <1>3 DEF ImportEffect
  <1>9. LocksHeld(c)' /\ WorkInv(c)'
    BY <1>2, <1>5, <1>7, <1>8 DEF LocksHeld, WorkInv, Inserted
  <1> QED
    BY <1>4, <1>5, <1>6, <1>9, StepKeeps, NoRosterEffect, NoTransferEffect
       DEF RosterInv, RosterTypeOK

\* What a roll back writes of the row itself.
LEMMA UndoneEffect ==
  ASSUME RosterInv, NEW c \in Conn, NEW k \in Code, NEW how \in {"yes", "refused", "failed"},
         work[c].at = "undo", Undone(c, k, how), PupilEffect(c), UNCHANGED <<batch, cut>>
  PROVE  ImportEffect(c)
  <1>1. PICK b \in Batch : b = work[c].batch
    BY LockedLine
  <1>2. PICK r \in Line : r = line[b][k]
    BY LineRows
  <1> DEFINE row == [r EXCEPT !.undone = how]
  <1>3. /\ row \in Line /\ row.class = r.class /\ row.applied = r.applied
        /\ row.status = r.status /\ row.pupil = r.pupil
    BY DEF Line
  <1>4. line' = [line EXCEPT ![b][k] = row]
    BY <1>1, <1>2 DEF Undone
  <1> HIDE DEF row
  <1>5. Inserted(r, b, k)
    BY <1>2 DEF RosterInv, RowsInv
  <1>6. r.status = "APPLIED" /\ r.pupil # 0 =>
           pupil'[r.pupil].state # "none" /\ pupil'[r.pupil].made = <<b, k>>
    BY <1>5, StillInserted
  <1>7. Inserted(row, b, k)'
    BY <1>3, <1>6 DEF Inserted
  <1> QED
    BY <1>2, <1>3, <1>4, <1>7, OneLine

LEMMA rollbackRowKeeps ==
  ASSUME RosterInv, NEW c \in Conn, NEW k \in Code, rollbackRow(c, k),
         UNCHANGED <<roster, transfer>>
  PROVE  RosterInv'
  <1>1. /\ work[c].at = "undo" /\ InsertedHere(work[c].rows[k])
        /\ NextUndo(c, k) /\ UNCHANGED <<link, barred, nextId, batch, cut>>
    BY DEF rollbackRow
  <1>2. PICK row \in Line : row = work[c].rows[k]
    BY <1>1, LockedLine
  <1>3. PICK p \in PupilId : p = row.pupil
    BY <1>1, <1>2 DEF InsertedHere, Line
  <1>4. PupilEffect(c)
    <2>1. \/ UNCHANGED pupil
          \/ pupil' = [pupil EXCEPT ![p].state = "deleted", ![p].bus = None]
      BY <1>2, <1>3 DEF rollbackRow
    <2>2. Free(c, PupilRow(p))
      BY <1>2, <1>3 DEF rollbackRow
    <2>3. CASE UNCHANGED pupil
      BY <1>1, <2>3, NoPupilEffect DEF pupilVars
    <2>4. CASE pupil' = [pupil EXCEPT ![p].state = "deleted", ![p].bus = None]
      <3>1. PICK r \in PupilRecord :
               /\ pupil' = [pupil EXCEPT ![p] = r]
               /\ r.state = "deleted" /\ r.code = pupil[p].code /\ r.made = pupil[p].made
        BY <2>4, StateBusEdit
      <3> QED
        BY <1>1, <2>2, <3>1, OnePupilAlone
    <2> QED
      BY <2>1, <2>3, <2>4
  <1>5. \E how \in {"yes", "refused", "failed"} : Undone(c, k, how)
    BY DEF rollbackRow
  <1>6. ImportEffect(c)
    BY <1>1, <1>4, <1>5, UndoneEffect
  <1> QED
    BY <1>1, <1>4, <1>6, NextUndoKeeps

LEMMA SkipUndoKeeps ==
  ASSUME RosterInv, NEW c \in Conn, NEW k \in Code, SkipUndo(c, k) \/ UndoFails(c, k),
         UNCHANGED <<roster, transfer>>
  PROVE  RosterInv'
  <1>1. /\ work[c].at = "undo" /\ NextUndo(c, k) /\ UNCHANGED <<pupilVars, batch, cut>>
        /\ UNCHANGED line \/ \E how \in {"yes", "refused", "failed"} : Undone(c, k, how)
    BY DEF SkipUndo, UndoFails
  <1>2. PupilEffect(c)
    BY <1>1, NoPupilEffect
  <1>3. ImportEffect(c)
    BY <1>1, <1>2, UndoneEffect, NoImportEffect DEF importVars
  <1> QED
    BY <1>1, <1>2, <1>3, NextUndoKeeps

LEMMA ImportStepKeeps ==
  ASSUME RosterInv, NEW c \in Conn, ImportStep(c), UNCHANGED <<roster, transfer>>
  PROVE  RosterInv'
  BY StartApplyKeeps, StartRollbackKeeps, LockImportRowKeeps, UnappliedKeeps,
     applyInsertRowKeeps, applyGuardianRowKeeps, applyReactivateRowKeeps, ImportRowFailsKeeps,
     markRowApplyFailedKeeps, FinishApplyKeeps, rollbackRowKeeps, SkipUndoKeeps,
     FinishRollbackKeeps
     DEF ImportStep

-----------------------------------------------------------------------------
(* The inductive invariant *)

LEMMA CrashKeeps ==
  ASSUME RosterInv, NEW c \in Conn, Crash(c)
  PROVE  RosterInv'
  <1>1. Goes(c, Idle, {}) /\ begun' = begun /\ UNCHANGED pupilVars
    BY DEF Crash, Lose, Ends, Continues
  <1>2. work'[c] = Idle
    BY <1>1, GoesFacts, IdleIsAJob DEF RosterInv
  <1>3. LocksHeld(c)' /\ WorkInv(c)'
    BY <1>2, IdleIsAJob DEF LocksHeld, WorkInv
  <1>4. cut' \subseteq Batch /\ UNCHANGED <<roster, transfer, batch, line>>
        /\ begun' \in [{"edit", "request"} -> Nat]
    BY <1>1 DEF Crash, RosterInv, RosterTypeOK
  <1> QED
    BY <1>1, <1>3, <1>4, IdleIsAJob, ReadKeeps

LEMMA RosterInductive ==
  ASSUME RosterInv, [RosterSystemNext]_rosterVars
  PROVE  RosterInv'
  <1>1. CASE UNCHANGED rosterVars
    BY <1>1 DEF rosterVars, RosterInv, RosterTypeOK, WorkTypeOK, LocksExclusive, LocksHeld,
                WorkInv, RowsInv, Inserted, RevokedStaysRevoked, Active
  <1>2. CASE RosterSystemNext
    BY <1>2, SchoolEditKeeps, RosterStepKeeps, TransferStepKeeps, ImportStepKeeps, CrashKeeps,
       AskForNewPupilKeeps, runPreviewKeeps
       DEF RosterSystemNext
  <1> QED
    BY <1>1, <1>2

LEMMA RosterInitially ==
  ASSUME RosterSystemInit
  PROVE  RosterInv
  <1> USE DEF RosterSystemInit, PupilsInit, RosterInit, TransferInit, ImportInit
  <1>1. pupil \in [PupilId -> PupilRecord]
    BY FirstAssumption DEF Nobody, PupilRecord, Maker
  <1>2. /\ link \in [PupilId -> [Guardian -> {"none", "approved", "revoked"}]]
        /\ barred \in [PupilId -> SUBSET Guardian] /\ nextId \in Nat
    BY FirstAssumption DEF NoLinks
  <1>3. roster \in [RosterReq -> RosterRow] /\ \A q \in RosterReq : roster[q].status = "none"
    BY DEF NoRosterRequest, RosterRow
  <1>4. transfer \in [TransferReq -> TransferRow] /\ \A t \in TransferReq : transfer[t].status = "NONE"
    BY DEF NoTransfer, TransferRow
  <1>5. batch \in [Batch -> BatchRow] /\ cut \subseteq Batch
    BY DEF NoBatch, BatchRow
  <1>6. /\ line \in [Batch -> [Code -> Line]]
        /\ \A b \in Batch : \A k \in Code : line[b][k].class = "none" /\ line[b][k].status = "NONE"
    BY DEF NoLine, Line
  <1>7. begun \in [{"edit", "request"} -> Nat]
    OBVIOUS
  <1>8. /\ work \in [Conn -> Job] /\ DOMAIN held = Conn /\ DOMAIN work = Conn
        /\ \A c \in Conn : work[c].at = "idle" /\ held[c] = {}
    BY IdleIsAJob
  <1>9. RosterTypeOK
    BY <1>1, <1>2, <1>3, <1>4, <1>5, <1>6, <1>7, <1>8
       DEF RosterTypeOK, RosterRow, TransferRow, BatchRow
  <1>10. LocksExclusive /\ \A c \in Conn : LocksHeld(c) /\ WorkInv(c)
    BY <1>8 DEF LocksExclusive, LocksHeld, WorkInv
  <1>11. RowsInv
    BY <1>3, <1>4, <1>6 DEF RowsInv, Inserted
  <1>12. RevokedStaysRevoked
    BY DEF RevokedStaysRevoked
  <1> QED
    BY <1>8, <1>9, <1>10, <1>11, <1>12 DEF RosterInv, WorkTypeOK

\* The inductive invariant holds in every state that the handlers reach.
LEMMA RosterAlways == RosterSystemSpec => []RosterInv
  <1>1. RosterSystemInit => RosterInv
    BY RosterInitially
  <1>2. RosterInv /\ [RosterSystemNext]_rosterVars => RosterInv'
    BY RosterInductive
  <1> QED
    BY <1>1, <1>2, PTL DEF RosterSystemSpec

\* The rows of the students, their guardians' links, the requests of the three workflows
\* and what the handlers hold stay in their types through every interleaving of the
\* schools' edits, the reviews, the transfers, the imports and the lost processes.
THEOREM AlwaysWellTyped == RosterSystemSpec => []RosterTypeOK
  BY RosterAlways, PTL DEF RosterInv

\* studentTransfer.service.js:147-149, for every number of schools, guardians and
\* connections: a guardian whose approval was withdrawn is not approved on the record or on
\* the one a transfer makes of it, whatever happens between the read of its links and the
\* COMMIT that copies them.
THEOREM RevokedAlwaysStaysRevoked == RosterSystemSpec => []RevokedStaysRevoked
  BY RosterAlways, PTL DEF RosterInv

-----------------------------------------------------------------------------
(* Which steps may do it *)

\* A step of d leaves what the others are doing as it is.
LEMMA OnlyItsOwnWork ==
  ASSUME NEW d \in Conn, WorkTypeOK,
         SchoolEdit(d) \/ RosterStep(d) \/ TransferStep(d) \/ ImportStep(d) \/ Crash(d)
  PROVE  \A c \in Conn \ {d} : work'[c] = work[c]
  <1>1. (\E step, locks : Goes(d, step, locks)) => \A c \in Conn \ {d} : work'[c] = work[c]
    BY DEF Goes, WorkTypeOK
  <1>2. UNCHANGED work => \A c \in Conn \ {d} : work'[c] = work[c]
    OBVIOUS
  <1>3. (\E step, locks : Goes(d, step, locks)) \/ UNCHANGED work
    <2>1. SchoolEdit(d) => (\E step, locks : Goes(d, step, locks)) \/ UNCHANGED work
      BY DEF SchoolEdit, ReadPupil, MoveToBus, Withdraw, ReassignGuardian, restoreStudent,
             ReadForImport, ImportReactivates, ImportInserts, Begins, Ends, Continues
    <2>2. RosterStep(d) => \E step, locks : Goes(d, step, locks)
      BY DEF RosterStep, CheckRosterRequest, InsertRosterRequest, LockRosterRequest,
             RejectRoster, ApproveOnBus, ApproveNewPupil, ReviewFails, Begins, Ends, Continues
    <2>3. TransferStep(d) => \E step, locks : Goes(d, step, locks)
      BY DEF TransferStep, CheckTransfer, InsertTransfer, CheckWithdrawal, LockTransfer,
             CloseTransfer, StaleTransfer, RefuseTransfer, ClosesTransfer, LockTransferPupil,
             ApplyTransfer, TransferFails, MarkTransferFailed, Begins, Ends, Continues
    <2>4. ImportStep(d) => \E step, locks : Goes(d, step, locks)
      BY DEF ImportStep, StartApply, StartRollback, LockImportRow, AlreadyApplied,
             VehicleBlocked, Stale, applyInsertRow, applyGuardianRow, applyReactivateRow,
             Outcome, ImportRowFails, markRowApplyFailed, FinishApply, rollbackRow, SkipUndo,
             UndoFails, FinishRollback, NextRow, NextUndo, Begins, Ends, Continues
    <2>5. Crash(d) => \E step, locks : Goes(d, step, locks)
      BY DEF Crash, Lose, Ends, Continues
    <2> QED
      BY <2>1, <2>2, <2>3, <2>4, <2>5
  <1> QED
    BY <1>1, <1>2, <1>3

\* What a connection does next depends on where it is.
LEMMA StepsOfReview ==
  ASSUME RosterInv, NEW c \in Conn, work[c].at = "review", RosterSystemNext, work'[c] # work[c]
  PROVE  RejectRoster(c) \/ ApproveOnBus(c) \/ ApproveNewPupil(c) \/ ReviewFails(c) \/ Crash(c)
  <1>1. WorkTypeOK /\ Idle.at = "idle"
    BY IdleIsAJob DEF RosterInv
  <1>2. SchoolEdit(c) \/ RosterStep(c) \/ TransferStep(c) \/ ImportStep(c) \/ Crash(c)
    BY <1>1, OnlyItsOwnWork DEF RosterSystemNext, AskForNewPupil, runPreview
  <1>3. ~SchoolEdit(c)
    BY <1>1 DEF SchoolEdit, ReadPupil, MoveToBus, Withdraw, ReassignGuardian, restoreStudent,
           ReadForImport, ImportReactivates, ImportInserts, Begins
  <1>4. ~TransferStep(c)
    BY <1>1 DEF TransferStep, CheckTransfer, InsertTransfer, CheckWithdrawal, LockTransfer,
           CloseTransfer, StaleTransfer, RefuseTransfer, LockTransferPupil, ApplyTransfer,
           TransferFails, MarkTransferFailed, Begins
  <1>5. ~ImportStep(c)
    BY <1>1 DEF ImportStep, StartApply, StartRollback, LockImportRow, AlreadyApplied,
           VehicleBlocked, Stale, AtRow, applyInsertRow, applyGuardianRow, GuardianRowFree,
           applyReactivateRow, ImportRowFails, markRowApplyFailed, FinishApply, rollbackRow,
           SkipUndo, UndoFails, FinishRollback, Begins
  <1> QED
    BY <1>1, <1>2, <1>3, <1>4, <1>5
       DEF RosterStep, CheckRosterRequest, InsertRosterRequest, LockRosterRequest, Begins

LEMMA StepsOfUndo ==
  ASSUME RosterInv, NEW c \in Conn, work[c].at = "undo", RosterSystemNext, work'[c] # work[c]
  PROVE  \/ \E k \in Code : rollbackRow(c, k) \/ SkipUndo(c, k) \/ UndoFails(c, k)
         \/ FinishRollback(c)
         \/ Crash(c)
  <1>1. WorkTypeOK /\ Idle.at = "idle"
    BY IdleIsAJob DEF RosterInv
  <1>2. SchoolEdit(c) \/ RosterStep(c) \/ TransferStep(c) \/ ImportStep(c) \/ Crash(c)
    BY <1>1, OnlyItsOwnWork DEF RosterSystemNext, AskForNewPupil, runPreview
  <1>3. ~SchoolEdit(c)
    BY <1>1 DEF SchoolEdit, ReadPupil, MoveToBus, Withdraw, ReassignGuardian, restoreStudent,
           ReadForImport, ImportReactivates, ImportInserts, Begins
  <1>4. ~TransferStep(c)
    BY <1>1 DEF TransferStep, CheckTransfer, InsertTransfer, CheckWithdrawal, LockTransfer,
           CloseTransfer, StaleTransfer, RefuseTransfer, LockTransferPupil, ApplyTransfer,
           TransferFails, MarkTransferFailed, Begins
  <1>5. ~RosterStep(c)
    BY <1>1 DEF RosterStep, CheckRosterRequest, InsertRosterRequest, LockRosterRequest,
           RejectRoster, ApproveOnBus, ApproveNewPupil, Reviewing, ReviewFails, Begins
  <1> QED
    BY <1>1, <1>2, <1>3, <1>4, <1>5
       DEF ImportStep, StartApply, StartRollback, LockImportRow, AlreadyApplied,
           VehicleBlocked, Stale, AtRow, applyInsertRow, applyGuardianRow, GuardianRowFree,
           applyReactivateRow, ImportRowFails, markRowApplyFailed, FinishApply, Begins

-----------------------------------------------------------------------------
(* Roll backs and approvals *)

\* "soft-delete ONLY students inserted by this batch": a roll back of any batch, from a
\* list of rows read before any other pass, edit or transfer of those pupils, deletes only
\* pupils that a row of that batch inserted.
THEOREM RollbackAlwaysTakesOwn == RosterSystemSpec => RollbackTakesOwn
  <1>1. ASSUME RosterInv, RosterSystemNext, NEW c \in Conn, NEW p \in PupilId,
               work[c].at = "undo", work'[c] # work[c], Active(p), pupil'[p].state = "deleted"
        PROVE  \E k \in Code : pupil[p].made = <<work[c].batch, k>>
    <2>1. pupil[p].state = "active"
      BY <1>1 DEF Active
    <2>2. PICK k \in Code : rollbackRow(c, k)
      <3>1. ~FinishRollback(c) /\ ~Crash(c)
        BY <1>1, <2>1 DEF FinishRollback, Crash, Lose, pupilVars
      <3>2. \A k \in Code : ~SkipUndo(c, k) /\ ~UndoFails(c, k)
        BY <1>1, <2>1 DEF SkipUndo, UndoFails, pupilVars
      <3> QED
        BY <1>1, <3>1, <3>2, StepsOfUndo
    <2>3. PICK row \in Line : row = work[c].rows[k] /\ Inserted(row, work[c].batch, k)
      BY <1>1, LockedLine
    <2>4. InsertedHere(row) /\ (pupil' = pupil
             \/ pupil' = [pupil EXCEPT ![row.pupil].state = "deleted", ![row.pupil].bus = None])
      BY <2>2, <2>3 DEF rollbackRow
    <2>5. p = row.pupil
      BY <1>1, <2>1, <2>4, PupilRows
    <2>6. row.status = "APPLIED" /\ row.pupil # 0
      BY <2>4 DEF InsertedHere
    <2> QED
      BY <2>3, <2>5, <2>6 DEF Inserted
  <1>2. RosterInv /\ [RosterSystemNext]_rosterVars =>
           [\A c \in Conn, p \in PupilId :
              /\ work[c].at = "undo" /\ work'[c] # work[c]
              /\ Active(p) /\ pupil'[p].state = "deleted"
              => \E k \in Code : pupil[p].made = <<work[c].batch, k>>]_rosterVars
    BY <1>1
  <1> QED
    BY <1>2, RosterAlways, PTL DEF RosterSystemSpec, RollbackTakesOwn

\* An approval moves only a pupil that is, at its COMMIT, on the roster of the school that
\* approves, however long ago and from whatever state the request was made.
THEOREM ApprovalAlwaysInScope == RosterSystemSpec => ApprovalInScope
  <1>1. ASSUME RosterInv, RosterSystemNext, NEW c \in Conn, NEW p \in PupilId,
               work[c].at = "review", work'[c] # work[c],
               pupil[p].state # "none", pupil'[p].bus # pupil[p].bus
        PROVE  Enrolled(p, roster[work[c].request].school)
    <2>1. PICK q \in RosterReq : q = work[c].request
      BY <1>1, JobFields DEF RosterInv
    <2>2. ~RejectRoster(c) /\ ~ReviewFails(c) /\ ~Crash(c)
      BY <1>1 DEF RejectRoster, ReviewFails, Crash, Lose, pupilVars
    <2>3. ~ApproveNewPupil(c)
      BY <1>1, PupilRows DEF ApproveNewPupil, Insertable
    <2>4. ApproveOnBus(c)
      BY <1>1, <2>2, <2>3, StepsOfReview
    <2>5. p = roster[q].pupil
      BY <1>1, <2>1, <2>4, PupilRows DEF ApproveOnBus
    <2> QED
      BY <2>1, <2>4, <2>5 DEF ApproveOnBus, StillEnrolled
  <1>2. RosterInv /\ [RosterSystemNext]_rosterVars =>
           [\A c \in Conn, p \in PupilId :
              /\ work[c].at = "review" /\ work'[c] # work[c]
              /\ pupil[p].state # "none" /\ pupil'[p].bus # pupil[p].bus
              => Enrolled(p, roster[work[c].request].school)]_rosterVars
    BY <1>1
  <1> QED
    BY <1>2, RosterAlways, PTL DEF RosterSystemSpec, ApprovalInScope

-----------------------------------------------------------------------------
(* A transfer moves a child *)

\* Only the COMMIT of its approval applies a request.
LEMMA StepThatApplies ==
  ASSUME RosterInv, RosterSystemNext, NEW t \in TransferReq,
         transfer[t].status = "PENDING", transfer'[t].status = "APPLIED"
  PROVE  \E c \in Conn : ApplyTransfer(c) /\ work[c].request = t
  <1>1. transfer \in [TransferReq -> TransferRow]
    BY DEF RosterInv, RosterTypeOK, TransferRow
  <1>2. ASSUME NEW c \in Conn, NEW status, status # "APPLIED", ClosesTransfer(c, status)
        PROVE  FALSE
    BY <1>1, <1>2 DEF ClosesTransfer
  <1>3. ASSUME NEW c \in Conn, CloseTransfer(c) \/ MarkTransferFailed(c)
        PROVE  FALSE
    <2>1. PICK status \in {"CANCELLED", "REJECTED", "FAILED"}, u \in TransferReq :
             transfer' = transfer \/ transfer' = [transfer EXCEPT ![u].status = status]
      BY <1>3, JobFields DEF RosterInv, CloseTransfer, MarkTransferFailed
    <2>2. status # "APPLIED"
      OBVIOUS
    <2>3. transfer' = [transfer EXCEPT ![u].status = status] => transfer'[t].status # "APPLIED"
      BY <1>1, <2>2
    <2> QED
      BY <2>1, <2>3
  <1>4. ~\E c \in Conn : InsertTransfer(c)
    BY <1>1 DEF InsertTransfer
  <1>5. PICK c \in Conn : TransferStep(c)
    BY DEF RosterSystemNext, Crash, importVars
  <1>6. ApplyTransfer(c)
    BY <1>2, <1>3, <1>4, <1>5
       DEF TransferStep, CheckTransfer, CheckWithdrawal, LockTransfer, StaleTransfer,
           RefuseTransfer, LockTransferPupil, TransferFails
  <1>7. transfer' = [transfer EXCEPT ![work[c].request].status = "APPLIED",
                                     ![work[c].request].applied = nextId]
    BY <1>6 DEF ApplyTransfer
  <1>8. work[c].request \in TransferReq
    BY <1>6, LockedTransfer DEF ApplyTransfer
  <1>9. work[c].request = t
    BY <1>1, <1>7, <1>8
  <1> QED
    BY <1>6, <1>9

\* A set that exchanges a member for another one keeps its size.
LEMMA Exchanged ==
  ASSUME NEW S, IsFiniteSet(S), NEW p \in S, NEW n, n \notin S
  PROVE  Cardinality((S \ {p}) \cup {n}) = Cardinality(S)
  <1>1. IsFiniteSet(S \ {p}) /\ Cardinality(S \ {p}) = Cardinality(S) - 1
    BY FS_RemoveElement
  <1>2. Cardinality((S \ {p}) \cup {n}) = Cardinality(S \ {p}) + 1
    BY <1>1, FS_AddElement
  <1>3. Cardinality(S) \in Nat
    BY FS_CardinalityType
  <1> QED
    BY <1>1, <1>2, <1>3

LEMMA AppliedKeepsPlaces ==
  ASSUME RosterInv, NEW c \in Conn, ApplyTransfer(c)
  PROVE  LET t == work[c].request IN
         /\ transfer'[t].code = transfer[t].code
         /\ Cardinality({p \in PupilId : pupil'[p].state = "active"
                                            /\ pupil'[p].code = transfer[t].code})
               = Cardinality({p \in PupilId : pupil[p].state = "active"
                                                 /\ pupil[p].code = transfer[t].code})
  <1>1. PICK t \in TransferReq : t = work[c].request
    BY LockedTransfer DEF ApplyTransfer
  <1>2. PICK p \in PupilId : p = transfer[t].pupil
    BY <1>1, LockedTransfer DEF ApplyTransfer
  <1>3. PICK n \in PupilId, k \in Code \cup {None} : n = nextId /\ k = transfer[t].code
    BY <1>1, <1>2, TransferredPupils, TransferRows
  <1> DEFINE new == [state |-> "active", school |-> transfer[t].to, code |-> k,
                     bus |-> None, cid |-> "other", made |-> t]
             S == {q \in PupilId : pupil[q].state = "active" /\ pupil[q].code = k}
             T == {q \in PupilId : pupil'[q].state = "active" /\ pupil'[q].code = k}
  <1>4. /\ n # p /\ pupil[n].state = "none" /\ pupil[p].state = "active" /\ pupil[p].code = k
        /\ \E row \in PupilRecord :
              pupil' = [pupil EXCEPT ![p] = row, ![n] = new] /\ row.state = "deleted"
    BY <1>1, <1>2, <1>3, TransferredPupils
  <1>5. PICK row \in PupilRecord :
           pupil' = [pupil EXCEPT ![p] = row, ![n] = new] /\ row.state = "deleted"
    BY <1>4
  <1>6. new.state = "active" /\ new.code = k
    OBVIOUS
  <1> HIDE DEF new
  <1>7. /\ pupil'[p] = row /\ pupil'[n] = new
        /\ \A q \in PupilId \ {p, n} : pupil'[q] = pupil[q]
    BY <1>4, <1>5, PupilRows
  <1>8. T = (S \ {p}) \cup {n} /\ p \in S /\ n \notin S
    BY <1>4, <1>5, <1>6, <1>7
  <1>9. IsFiniteSet(S)
    BY PupilIdAssumption, FS_Subset
  <1> HIDE DEF S, T
  <1>10. Cardinality(T) = Cardinality(S)
    BY <1>8, <1>9, Exchanged
  <1>11. transfer'[t].code = transfer[t].code
    BY <1>1 DEF RosterInv, RosterTypeOK, ApplyTransfer
  <1> QED
    BY <1>1, <1>3, <1>10, <1>11 DEF S, T

\* A transfer neither doubles a child nor loses one: the pupil of the request leaves one
\* roster and is put on another in the same COMMIT, although its row was read in an earlier
\* step, other requests may name the same pupil, and its id comes from a shared sequence.
THEOREM TransferAlwaysKeepsPlaces == RosterSystemSpec => TransferKeepsPlaces
  <1>1. ASSUME RosterInv, RosterSystemNext, NEW t \in TransferReq,
               transfer[t].status = "PENDING", transfer'[t].status = "APPLIED"
        PROVE  Places(transfer[t].code)' = Places(transfer[t].code)
    <2>1. PICK c \in Conn : ApplyTransfer(c) /\ work[c].request = t
      BY <1>1, StepThatApplies
    <2>2. /\ transfer'[t].code = transfer[t].code
          /\ Cardinality({p \in PupilId : pupil'[p].state = "active"
                                             /\ pupil'[p].code = transfer[t].code})
                = Cardinality({p \in PupilId : pupil[p].state = "active"
                                                  /\ pupil[p].code = transfer[t].code})
      BY <1>1, <2>1, AppliedKeepsPlaces
    <2> QED
      BY <2>2 DEF Places, Active
  <1>2. RosterInv /\ [RosterSystemNext]_rosterVars =>
           [\A t \in TransferReq :
              transfer[t].status = "PENDING" /\ transfer'[t].status = "APPLIED"
                 => Places(transfer[t].code)' = Places(transfer[t].code)]_rosterVars
    BY <1>1
  <1> QED
    BY <1>2, RosterAlways, PTL DEF RosterSystemSpec, TransferKeepsPlaces

-----------------------------------------------------------------------------
(* The counters of a batch *)

CountersHold(b) ==
    /\ batch[b].status \in {"APPLIED", "APPLIED_PARTIAL"}
    /\ b \notin cut /\ \A c \in Conn : ~Applying(c, b)
    => /\ batch[b].success = InStatus(b, SUCCESS)
       /\ batch[b].error = InStatus(b, UNRESOLVED)
       /\ batch[b].status = "APPLIED" <=> InStatus(b, UNRESOLVED) = 0

\* A batch whose counters and whose rows' statuses stay, and whose passes go on.
LEMMA CountersStay ==
  ASSUME NEW b \in Batch, CountersHold(b),
         /\ batch'[b].success = batch[b].success /\ batch'[b].error = batch[b].error
         /\ batch'[b].status = batch[b].status,
         \A k \in Code : line'[b][k].status = line[b][k].status,
         b \in cut => b \in cut',
         \A c \in Conn : Applying(c, b) => Applying(c, b)' \/ b \in cut'
  PROVE  CountersHold(b)'
  <1>1. \A S : {k \in Code : line'[b][k].status \in S} = {k \in Code : line[b][k].status \in S}
    OBVIOUS
  <1>2. \A S : InStatus(b, S)' = InStatus(b, S)
    BY <1>1 DEF InStatus
  <1>3. ASSUME b \notin cut', \A c \in Conn : ~Applying(c, b)'
        PROVE  b \notin cut /\ \A c \in Conn : ~Applying(c, b)
    BY <1>3
  <1> QED
    BY <1>2, <1>3 DEF CountersHold

\* The steps of the other handlers are not part of any pass.
LEMMA OutsideOfPasses ==
  ASSUME RosterInv, NEW c \in Conn,
         SchoolEdit(c) \/ RosterStep(c) \/ TransferStep(c)
            \/ \E b \in Batch : StartApply(c, b) \/ StartRollback(c, b)
  PROVE  work[c].at \notin {"batch", "row", "rowFailed"}
  <1>1. work[c] = Idle => work[c].at = "idle"
    BY IdleIsAJob
  <1>2. SchoolEdit(c) => work[c].at \notin {"batch", "row", "rowFailed"}
    BY <1>1 DEF SchoolEdit, ReadPupil, MoveToBus, Withdraw, ReassignGuardian, restoreStudent,
           ReadForImport, ImportReactivates, ImportInserts, Begins
  <1>3. RosterStep(c) => work[c].at \notin {"batch", "row", "rowFailed"}
    BY <1>1 DEF RosterStep, CheckRosterRequest, InsertRosterRequest, LockRosterRequest,
           RejectRoster, ApproveOnBus, ApproveNewPupil, Reviewing, ReviewFails, Begins
  <1>4. TransferStep(c) => work[c].at \notin {"batch", "row", "rowFailed"}
    BY <1>1 DEF TransferStep, CheckTransfer, InsertTransfer, CheckWithdrawal, LockTransfer,
           CloseTransfer, StaleTransfer, RefuseTransfer, LockTransferPupil, ApplyTransfer,
           TransferFails, MarkTransferFailed, Begins
  <1>5. ASSUME NEW b \in Batch, StartApply(c, b) \/ StartRollback(c, b)
        PROVE  work[c].at \notin {"batch", "row", "rowFailed"}
    BY <1>1, <1>5 DEF StartApply, StartRollback, Begins
  <1> QED
    BY <1>2, <1>3, <1>4, <1>5

\* No table of the imports changes, and c stays in the pass that it is in.
LEMMA CountersUntouched ==
  ASSUME CountersFollowRows, UNCHANGED importVars,
         \A c \in Conn : \A b \in Batch : Applying(c, b) => Applying(c, b)'
  PROVE  CountersFollowRows'
  <1>1. ASSUME NEW b \in Batch
        PROVE  CountersHold(b)'
    <2>1. CountersHold(b)
      BY DEF CountersFollowRows, CountersHold
    <2> QED
      BY <2>1, CountersStay DEF importVars
  <1> QED
    BY <1>1 DEF CountersFollowRows, CountersHold

LEMMA OthersGoOn ==
  ASSUME NEW c \in Conn, NEW d \in Conn \ {c}, NEW b, work'[d] = work[d], Applying(d, b)
  PROVE  Applying(d, b)'
  BY DEF Applying

\* A step of a pass over a batch that changes one of its rows.
LEMMA RowOfPassCounted ==
  ASSUME RosterInv, CountersFollowRows, NEW c \in Conn, NEW b \in Batch, NEW k \in Code,
         NEW row, line' = [line EXCEPT ![b][k] = row], UNCHANGED <<batch, cut>>,
         \A d \in Conn \ {c} : work'[d] = work[d],
         Applying(c, b), Applying(c, b)'
  PROVE  CountersFollowRows'
  <1>1. ASSUME NEW e \in Batch
        PROVE  CountersHold(e)'
    <2>1. CASE e = b
      BY <2>1 DEF CountersHold
    <2>2. CASE e # b
      <3>1. line'[e] = line[e]
        BY <2>2 DEF RosterInv, RosterTypeOK
      <3>2. ~Applying(c, e)
        BY <2>2 DEF Applying
      <3>3. \A d \in Conn : Applying(d, e) => Applying(d, e)'
        BY <3>2, OthersGoOn
      <3>4. CountersHold(e)
        BY DEF CountersFollowRows, CountersHold
      <3> QED
        BY <3>1, <3>3, <3>4, CountersStay
    <2> QED
      BY <2>1, <2>2
  <1> QED
    BY <1>1 DEF CountersFollowRows, CountersHold

LEMMA NextRowApplies ==
  ASSUME RosterInv, NEW c \in Conn, work[c].at \in {"row", "rowFailed"}, NextRow(c),
         NEW b \in Batch, b = work[c].batch
  PROVE  Applying(c, b) /\ Applying(c, b)'
  <1>1. Applying(c, b)
    BY DEF Applying
  <1>2. PICK step : step = [at |-> "batch", batch |-> b, todo |-> work[c].todo \ {work[c].code}]
    OBVIOUS
  <1>3. work'[c] = step
    BY <1>2 DEF NextRow, Continues, Goes, RosterInv, WorkTypeOK
  <1>4. work'[c].at = "batch" /\ work'[c].batch = b
    BY <1>2, <1>3
  <1> QED
    BY <1>1, <1>4 DEF Applying

LEMMA OutcomeCounted ==
  ASSUME RosterInv, CountersFollowRows, NEW c \in Conn, work[c].at = "row",
         NEW status, NEW done, NEW p, Outcome(c, status, done, p),
         \A d \in Conn \ {c} : work'[d] = work[d]
  PROVE  CountersFollowRows'
  <1>1. PICK b \in Batch, k \in Code : b = work[c].batch /\ k = work[c].code
    BY LockedLine
  <1>2. PICK row : row = [line[b][k] EXCEPT !.status = status, !.applied = done, !.pupil = p]
    OBVIOUS
  <1>3. line' = [line EXCEPT ![b][k] = row] /\ UNCHANGED <<batch, cut>> /\ NextRow(c)
    BY <1>1, <1>2 DEF Outcome
  <1>4. Applying(c, b) /\ Applying(c, b)'
    BY <1>1, <1>3, NextRowApplies
  <1> QED
    BY <1>3, <1>4, RowOfPassCounted

LEMMA ImportStepCounted ==
  ASSUME RosterInv, CountersFollowRows, NEW c \in Conn, ImportStep(c),
         \A d \in Conn \ {c} : work'[d] = work[d]
  PROVE  CountersFollowRows'
  <1>1. ASSUME NEW b \in Batch, StartApply(c, b) \/ StartRollback(c, b)
        PROVE  CountersFollowRows'
    <2>1. UNCHANGED importVars /\ \A e \in Batch : ~Applying(c, e)
      BY <1>1, OutsideOfPasses DEF StartApply, StartRollback, Applying
    <2> QED
      BY <2>1, OthersGoOn, CountersUntouched
  <1>2. CASE LockImportRow(c) \/ ImportRowFails(c)
    <2>1. UNCHANGED importVars /\ work[c].at \in {"batch", "row"} /\ work[c].batch \in Batch
      BY <1>2, LockedLine DEF LockImportRow, ImportRowFails
    <2>2. PICK step : Goes(c, step, held'[c]) /\ step.at \in {"batch", "row", "rowFailed"}
                         /\ step.batch = work[c].batch
      <3>1. CASE LockImportRow(c)
        BY <3>1 DEF LockImportRow, Continues, Goes, RosterInv, WorkTypeOK
      <3>2. CASE ImportRowFails(c)
        <4>1. PICK w \in [at : {"row", "rowFailed"}, batch : Batch, todo : SUBSET Code, code : Code] :
                 w = work[c]
          BY <3>2, JobOf DEF RosterInv, WorkTypeOK, ImportRowFails
        <4> DEFINE step == [w EXCEPT !.at = "rowFailed"]
        <4>2. step.at = "rowFailed" /\ step.batch = w.batch
          OBVIOUS
        <4>3. Goes(c, step, {}) /\ held'[c] = {}
          BY <3>2, <4>1 DEF ImportRowFails, Continues, Goes, RosterInv, WorkTypeOK
        <4> HIDE DEF step
        <4> QED
          BY <4>1, <4>2, <4>3
      <3> QED
        BY <1>2, <3>1, <3>2
    <2>3. work'[c] = step
      BY <2>2 DEF Goes, RosterInv, WorkTypeOK
    <2>4. \A e \in Batch : Applying(c, e) => Applying(c, e)'
      BY <2>2, <2>3 DEF Applying
    <2> QED
      BY <2>1, <2>4, OthersGoOn, CountersUntouched
  <1>3. CASE AlreadyApplied(c) \/ VehicleBlocked(c) \/ Stale(c) \/ applyInsertRow(c)
                \/ applyGuardianRow(c) \/ applyReactivateRow(c)
    <2>1. work[c].at = "row" /\ \E status, done, p : Outcome(c, status, done, p)
      BY <1>3 DEF AlreadyApplied, VehicleBlocked, Stale, applyInsertRow, applyGuardianRow,
             GuardianRowFree, applyReactivateRow, AtRow
    <2> QED
      BY <2>1, OutcomeCounted
  <1>4. CASE markRowApplyFailed(c)
    <2>1. work[c].at = "rowFailed" /\ NextRow(c) /\ UNCHANGED <<batch, cut>>
      BY <1>4 DEF markRowApplyFailed
    <2>2. PICK b \in Batch, k \in Code : b = work[c].batch /\ k = work[c].code
      BY <2>1, LockedLine
    <2>3. PICK row : row = [line[b][k] EXCEPT !.status = "APPLY_FAILED"]
      OBVIOUS
    <2>4. line' = [line EXCEPT ![b][k] = row]
      BY <1>4, <2>2, <2>3 DEF markRowApplyFailed
    <2>5. Applying(c, b) /\ Applying(c, b)'
      BY <2>1, <2>2, NextRowApplies
    <2> QED
      BY <2>1, <2>4, <2>5, RowOfPassCounted
  <1>5. CASE FinishApply(c)
    <2>1. PICK b \in Batch : b = work[c].batch
      BY <1>5, LockedLine DEF FinishApply
    <2>2. PICK row \in BatchRow :
             /\ batch' = [batch EXCEPT ![b] = row]
             /\ row.status = IF InStatus(b, UNRESOLVED) > 0 THEN "APPLIED_PARTIAL" ELSE "APPLIED"
             /\ row.success = InStatus(b, SUCCESS) /\ row.error = InStatus(b, UNRESOLVED)
      BY <1>5, <2>1, FinishedBatch
    <2>3. line' = line /\ cut' = cut \ {b}
      BY <1>5, <2>1 DEF FinishApply
    <2>4. \A S : InStatus(b, S)' = InStatus(b, S)
      BY <2>3 DEF InStatus
    <2>5. CountersHold(b)'
      <3>1. batch'[b] = row
        BY <2>2 DEF RosterInv, RosterTypeOK
      <3>2. row.status = "APPLIED" <=> InStatus(b, UNRESOLVED) = 0
        BY <2>2, InStatusIsANat
      <3> QED
        BY <2>2, <2>4, <3>1, <3>2 DEF CountersHold
    <2>6. ASSUME NEW e \in Batch \ {b}
          PROVE  CountersHold(e)'
      <3>1. batch'[e] = batch[e] /\ line'[e] = line[e] /\ (e \in cut => e \in cut')
        BY <2>2, <2>3 DEF RosterInv, RosterTypeOK
      <3>2. ~Applying(c, e)
        BY <2>1 DEF Applying
      <3>3. \A d \in Conn : Applying(d, e) => Applying(d, e)'
        BY <3>2, OthersGoOn
      <3>4. CountersHold(e)
        BY DEF CountersFollowRows, CountersHold
      <3> QED
        BY <3>1, <3>3, <3>4, CountersStay
    <2> QED
      BY <2>5, <2>6 DEF CountersFollowRows, CountersHold
  <1>6. ASSUME NEW k \in Code, rollbackRow(c, k) \/ SkipUndo(c, k) \/ UndoFails(c, k)
        PROVE  CountersFollowRows'
    <2>1. /\ work[c].at = "undo" /\ UNCHANGED <<batch, cut>>
          /\ UNCHANGED line \/ \E how : Undone(c, k, how)
      BY <1>6 DEF rollbackRow, SkipUndo, UndoFails
    <2>2. \A e \in Batch : \A j \in Code : line'[e][j].status = line[e][j].status
      <3>1. ASSUME NEW how, Undone(c, k, how)
            PROVE  \A e \in Batch : \A j \in Code : line'[e][j].status = line[e][j].status
        <4>1. PICK b \in Batch : b = work[c].batch
          BY <2>1, LockedLine
        <4>2. PICK r \in Line : r = line[b][k]
          BY LineRows
        <4>3. PICK row : row = [r EXCEPT !.undone = how]
          OBVIOUS
        <4>4. row.status = r.status
          BY <4>3 DEF Line
        <4>5. line' = [line EXCEPT ![b][k] = row]
          BY <3>1, <4>1, <4>2, <4>3 DEF Undone
        <4> QED
          BY <4>2, <4>4, <4>5 DEF RosterInv, RosterTypeOK
      <3> QED
        BY <2>1, <3>1
    <2>3. ASSUME NEW e \in Batch
          PROVE  CountersHold(e)'
      <3>1. \A d \in Conn : Applying(d, e) => Applying(d, e)'
        BY <2>1, OthersGoOn DEF Applying
      <3>2. CountersHold(e)
        BY DEF CountersFollowRows, CountersHold
      <3> QED
        BY <2>1, <2>2, <3>1, <3>2, CountersStay
    <2> QED
      BY <2>3 DEF CountersFollowRows, CountersHold
  <1>7. CASE FinishRollback(c)
    <2>1. work[c].at = "undo" /\ UNCHANGED <<line, cut>>
      BY <1>7 DEF FinishRollback
    <2>2. PICK b \in Batch, undone \in {"partial", "yes"} : batch' = [batch EXCEPT ![b].undone = undone]
      BY <1>7, LockedLine DEF FinishRollback
    <2>3. \A e \in Batch : /\ batch'[e].success = batch[e].success
                           /\ batch'[e].error = batch[e].error
                           /\ batch'[e].status = batch[e].status
      BY <2>2 DEF RosterInv, RosterTypeOK
    <2>4. ASSUME NEW e \in Batch
          PROVE  CountersHold(e)'
      <3>1. \A d \in Conn : Applying(d, e) => Applying(d, e)'
        BY <2>1, OthersGoOn DEF Applying
      <3>2. CountersHold(e)
        BY DEF CountersFollowRows, CountersHold
      <3> QED
        BY <2>1, <2>3, <3>1, <3>2, CountersStay
    <2> QED
      BY <2>4 DEF CountersFollowRows, CountersHold
  <1> QED
    BY <1>1, <1>2, <1>3, <1>4, <1>5, <1>6, <1>7 DEF ImportStep

LEMMA runPreviewCounted ==
  ASSUME RosterInv, CountersFollowRows, NEW b \in Batch, runPreview(b)
  PROVE  CountersFollowRows'
  <1>1. PICK s \in School, K \in SUBSET Code, g \in Guardian, v \in Bus \cup {None} :
           /\ K # {}
           /\ line' = [line EXCEPT ![b] = PreviewRows(s, K, g, v)]
           /\ batch' = [batch EXCEPT ![b].school = s, ![b].status = "PREVIEWED"]
    BY ZenonT(60) DEF runPreview
  <1>2. UNCHANGED <<work, cut>>
    BY DEF runPreview
  <1>3. ASSUME NEW e \in Batch
        PROVE  CountersHold(e)'
    <2>1. CASE e = b
      <3>1. batch'[b].status = "PREVIEWED"
        BY <1>1, PreviewedBatch
      <3> QED
        BY <2>1, <3>1 DEF CountersHold
    <2>2. CASE e # b
      <3>1. batch'[e] = batch[e]
        BY <1>1, <2>2, PreviewedBatch
      <3>2. line'[e] = line[e]
        BY <1>1, <2>2 DEF RosterInv, RosterTypeOK
      <3>3. \A d \in Conn : Applying(d, e) => Applying(d, e)'
        BY <1>2 DEF Applying
      <3>4. CountersHold(e)
        BY DEF CountersFollowRows, CountersHold
      <3> QED
        BY <1>2, <3>1, <3>2, <3>3, <3>4, CountersStay
    <2> QED
      BY <2>1, <2>2
  <1> QED
    BY <1>3 DEF CountersFollowRows, CountersHold

LEMMA CrashCounted ==
  ASSUME RosterInv, CountersFollowRows, NEW c \in Conn, Crash(c),
         \A d \in Conn \ {c} : work'[d] = work[d]
  PROVE  CountersFollowRows'
  <1>1. UNCHANGED <<batch, line>> /\ cut' = cut \cup {b \in Batch : Applying(c, b)}
    BY DEF Crash
  <1>2. ASSUME NEW e \in Batch
        PROVE  CountersHold(e)'
    <2>1. \A d \in Conn : Applying(d, e) => Applying(d, e)' \/ e \in cut'
      BY <1>1, OthersGoOn
    <2>2. CountersHold(e)
      BY DEF CountersFollowRows, CountersHold
    <2> QED
      BY <1>1, <2>1, <2>2, CountersStay
  <1> QED
    BY <1>2 DEF CountersFollowRows, CountersHold

LEMMA CountersInductive ==
  ASSUME RosterInv, CountersFollowRows, [RosterSystemNext]_rosterVars
  PROVE  CountersFollowRows'
  <1>1. WorkTypeOK
    BY DEF RosterInv
  <1>2. ASSUME UNCHANGED work, UNCHANGED importVars
        PROVE  CountersFollowRows'
    BY <1>2, CountersUntouched DEF Applying
  <1>3. ASSUME NEW c \in Conn, SchoolEdit(c) \/ RosterStep(c) \/ TransferStep(c),
               UNCHANGED importVars
        PROVE  CountersFollowRows'
    <2>1. \A e \in Batch : ~Applying(c, e)
      BY <1>3, OutsideOfPasses DEF Applying
    <2>2. \A d \in Conn \ {c} : work'[d] = work[d]
      BY <1>1, <1>3, OnlyItsOwnWork
    <2> QED
      BY <1>3, <2>1, <2>2, OthersGoOn, CountersUntouched
  <1>4. ASSUME NEW c \in Conn, ImportStep(c) \/ Crash(c)
        PROVE  CountersFollowRows'
    BY <1>1, <1>4, OnlyItsOwnWork, ImportStepCounted, CrashCounted
  <1>5. CASE UNCHANGED rosterVars
    BY <1>2, <1>5 DEF rosterVars, importVars
  <1>6. ASSUME NEW q \in RosterReq, AskForNewPupil(q), UNCHANGED importVars
        PROVE  CountersFollowRows'
    BY <1>2, <1>6 DEF AskForNewPupil
  <1> QED
    BY <1>3, <1>4, <1>5, <1>6, runPreviewCounted DEF RosterSystemNext

\* The history screen never forgets a row: once no pass over a batch runs, its counters are
\* those of its rows, for any number of rows, of passes over one batch at once, and of rows
\* that failed or were tried again; only a pass that was lost leaves them to the next one.
THEOREM CountersAlwaysFollowRows == RosterSystemSpec => []CountersFollowRows
  <1>1. RosterSystemInit => CountersFollowRows
    BY DEF RosterSystemInit, ImportInit, NoBatch, CountersFollowRows
  <1>2. RosterInv /\ CountersFollowRows /\ [RosterSystemNext]_rosterVars => CountersFollowRows'
    BY CountersInductive
  <1> QED
    BY <1>1, <1>2, RosterAlways, PTL DEF RosterSystemSpec

=============================================================================
