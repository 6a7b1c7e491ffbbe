------------------------------- MODULE Roster -------------------------------
(***************************************************************************)
(* The pupils of the schools, with every workflow that changes them:       *)
(* the drivers' roster requests, transfers, imports and the schools' own   *)
(* edits, all on the same students rows.                                   *)
(***************************************************************************)
EXTENDS RosterRequest, StudentTransfer, StudentImport

rosterVars == <<pupil, link, barred, nextId, held, work, begun, roster, transfer, batch, line, cut>>

RosterSystemInit == PupilsInit /\ RosterInit /\ TransferInit /\ ImportInit

\* A process is lost: a pass over a batch ends before it has counted the rows.
Crash(c) ==
    /\ Lose(c)
    /\ cut' = cut \cup {b \in Batch : Applying(c, b)}
    /\ UNCHANGED <<roster, transfer, batch, line>>

RosterSystemNext ==
    \/ \E c \in Conn :
          \/ SchoolEdit(c) /\ UNCHANGED <<roster, transfer, importVars>>
          \/ RosterStep(c) /\ UNCHANGED <<transfer, importVars>>
          \/ TransferStep(c) /\ UNCHANGED <<roster, importVars>>
          \/ ImportStep(c) /\ UNCHANGED <<roster, transfer>>
          \/ Crash(c)
    \/ \E q \in RosterReq : AskForNewPupil(q) /\ UNCHANGED <<transfer, importVars>>
    \/ \E b \in Batch : runPreview(b) /\ UNCHANGED <<roster, transfer>>

RosterSystemSpec == RosterSystemInit /\ [][RosterSystemNext]_rosterVars

-----------------------------------------------------------------------------
(* Types *)

Maker == RosterReq \cup TransferReq \cup (Batch \X Code) \cup {None}

PupilRecord == [state : {"none", "active", "deleted"}, school : School \cup {None},
                code : Code \cup {None}, bus : Bus \cup {None}, cid : {"import", "other"},
                made : Maker]

Line == [class : {"none", "insert", "guardian", "reactivate", "skip"},
         status : SUCCESS \cup UNRESOLVED \cup {"NONE", "READY", "WARNING", "SKIP"},
         applied : BOOLEAN, guardian : Guardian \cup {None}, bus : Bus \cup {None},
         pupil : PupilId \cup {0}, undone : {"no", "yes", "refused", "failed"}]

\* The types of the rows and of what the handlers hold.
RosterTypeOK ==
    /\ pupil \in [PupilId -> PupilRecord]
    /\ link \in [PupilId -> [Guardian -> {"none", "approved", "revoked"}]]
    /\ barred \in [PupilId -> SUBSET Guardian]
    /\ nextId \in Nat
    /\ roster \in [RosterReq ->
          [status : {"none", "pending", "approved", "rejected"},
           type : {"add", "remove", "new"}, pupil : PupilId \cup {0},
           school : School \cup {None}, bus : Bus \cup {None}, named : PupilId \cup {0}]]
    /\ transfer \in [TransferReq ->
          [status : {"NONE", "PENDING", "APPLIED", "STALE_NEEDS_REVIEW", "FAILED",
                     "CANCELLED", "REJECTED"},
           pupil : PupilId \cup {0}, code : Code \cup {None}, from : School \cup {None},
           to : School \cup {None}, applied : PupilId \cup {0}]]
    /\ batch \in [Batch ->
          [school : School \cup {None}, success : Nat, error : Nat,
           status : {"NONE", "PREVIEWED", "APPLIED", "APPLIED_PARTIAL"},
           undone : {"no", "yes", "partial"}]]
    /\ line \in [Batch -> [Code -> Line]]
    /\ cut \subseteq Batch
    /\ begun \in [{"edit", "request"} -> Nat]
    /\ DOMAIN held = Conn /\ DOMAIN work = Conn

-----------------------------------------------------------------------------
(* Properties *)

RosterStage ==
    [q \in RosterReq |->
        CASE roster[q].status = "none" -> "none"
          [] roster[q].status = "pending" -> "pending"
          [] roster[q].status = "approved" /\ roster[q].type = "new" -> "applied"
          [] OTHER -> "closed"]

TransferStage ==
    [t \in TransferReq |->
        CASE transfer[t].status = "NONE" -> "none"
          [] transfer[t].status = "PENDING" -> "pending"
          [] transfer[t].status = "APPLIED" -> "applied"
          [] OTHER -> "closed"]

LineStage ==
    [r \in Batch \X Code |->
        LET row == line[r[1]][r[2]] IN
        CASE row.class = "none" -> "none"
          [] row.class # "none" /\ ~row.applied -> "pending"
          [] row.applied /\ row.class = "insert" /\ row.pupil # 0 -> "applied"
          [] OTHER -> "closed"]

Requests == RosterReq \cup TransferReq \cup (Batch \X Code)

\* The rows of three tables: none is a row of another.
ASSUME RequestAssumption ==
    /\ RosterReq \cap TransferReq = {}
    /\ (RosterReq \cup TransferReq) \cap (Batch \X Code) = {}
    /\ None \notin Requests

RequestStage ==
    [r \in Requests |-> IF r \in RosterReq THEN RosterStage[r]
                        ELSE IF r \in TransferReq THEN TransferStage[r]
                        ELSE LineStage[r]]

MadeBy(r) == {p \in PupilId : pupil[p].made = r}

D == INSTANCE Decision WITH
        Request <- Requests,
        stage <- RequestStage,
        created <- [r \in Requests |-> Cardinality(MadeBy(r))]

\* Two administrators, two passes over one file, or a lost process: a request of any
\* of the three workflows is decided once and creates at most the one pupil its
\* decision says, and a rolled back attempt leaves none behind.
ImplementsDecision == D!Spec

\* studentTransfer.service.js:147-149: "a revoked guardian stays revoked on the new
\* record".  A guardian whose approval was withdrawn has none until it is given
\* again, on the record itself and on the one a transfer makes of it.
RevokedStaysRevoked == \A p \in PupilId : \A g \in barred[p] : link[p][g] # "approved"

Places(k) == Cardinality({p \in PupilId : Active(p) /\ pupil[p].code = k})

\* A transfer moves a child: it neither puts the child on a second roster nor takes it
\* off the only one, whatever else was requested for the pupil at the same time.
TransferKeepsPlaces ==
    [][\A t \in TransferReq :
          transfer[t].status = "PENDING" /\ transfer'[t].status = "APPLIED"
             => Places(transfer[t].code)' = Places(transfer[t].code)]_rosterVars

\* An approval changes the bus only of a pupil that is, at its COMMIT, on the roster
\* of the school that approves, although the request was made from an earlier state.
ApprovalInScope ==
    [][\A c \in Conn, p \in PupilId :
          /\ work[c].at = "review" /\ work'[c] # work[c]
          /\ pupil[p].state # "none" /\ pupil'[p].bus # pupil[p].bus
          => Enrolled(p, roster[work[c].request].school)]_rosterVars

\* "soft-delete ONLY students inserted by this batch" (studentImportPreview:848), from
\* a list of rows read before, and after any other edit or batch of those pupils.
RollbackTakesOwn ==
    [][\A c \in Conn, p \in PupilId :
          /\ work[c].at = "undo" /\ work'[c] # work[c]
          /\ Active(p) /\ pupil'[p].state = "deleted"
          => \E k \in Code : pupil[p].made = <<work[c].batch, k>>]_rosterVars

\* The history screen never forgets a row: between passes the counters of a batch are
\* those of its rows, whichever of two passes over it ended last and whatever failed.
CountersFollowRows ==
    \A b \in Batch :
       /\ batch[b].status \in {"APPLIED", "APPLIED_PARTIAL"}
       /\ b \notin cut /\ \A c \in Conn : ~Applying(c, b)
       => /\ batch[b].success = InStatus(b, SUCCESS)
          /\ batch[b].error = InStatus(b, UNRESOLVED)
          /\ batch[b].status = "APPLIED" <=> InStatus(b, UNRESOLVED) = 0

\* idAllocator.service.js:14: allocateId returns "a unique id".
AllocatedIdIsUnique == nextId \in PupilId => pupil[nextId].state = "none"

=============================================================================
