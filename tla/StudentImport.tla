---------------------------- MODULE StudentImport ----------------------------
(***************************************************************************)
(* A school uploads a list of pupils: preview, apply row by row, continue, *)
(* roll back (studentImportPreview.service.js).  A batch has one row per   *)
(* student_code; a code repeated in the file is an ERROR row, left out.    *)
(***************************************************************************)
EXTENDS Pupils

CONSTANT Batch        \* ids of import_batches

VARIABLES
    batch,            \* import_batches
    line,             \* import_batch_rows of each batch, by student_code
    cut               \* history: batches whose last pass ended before its counters

importVars == <<batch, line, cut>>
lineRow(b, k) == <<"line", b, k>>

NoBatch == [school |-> None, status |-> "NONE", success |-> 0, error |-> 0, undone |-> "no"]
NoLine == [class |-> "none", status |-> "NONE", applied |-> FALSE, guardian |-> None,
           bus |-> None, pupil |-> 0, undone |-> "no"]

ImportInit ==
    /\ batch = [b \in Batch |-> NoBatch]
    /\ line = [b \in Batch |-> [k \in Code |-> NoLine]]
    /\ cut = {}

SUCCESS == {"APPLIED", "GUARDIAN_UPDATED", "REACTIVATED", "ALREADY_APPLIED"}
UNRESOLVED == {"ERROR", "APPLY_FAILED", "VEHICLE_BLOCKED", "STALE_NEEDS_REPREVIEW"}

InStatus(b, S) == Cardinality({k \in Code : line[b][k].status \in S})

-----------------------------------------------------------------------------
(* runPreview *)

\* classifyImportRow, for a well-formed row of school s that names guardian g.
classifyImportRow(s, k, g) ==
    CASE RecordOf(s, k) = {} -> "insert"
      [] \E p \in RecordOf(s, k) : pupil[p].state = "deleted" -> "reactivate"
      [] \E p \in RecordOf(s, k) : Active(p) /\ link[p][g] # "approved" -> "guardian"
      [] OTHER -> "skip"

PreviewStatus(class) ==
    CASE class = "insert" -> "READY" [] class = "skip" -> "SKIP" [] OTHER -> "WARNING"

\* The row of code k, and the rows of a file that lists the codes K.
PreviewRow(s, k, g, v) ==
    [NoLine EXCEPT !.class = classifyImportRow(s, k, g),
                   !.status = PreviewStatus(classifyImportRow(s, k, g)),
                   !.guardian = g, !.bus = v]

PreviewRows(s, K, g, v) == [k \in Code |-> IF k \in K THEN PreviewRow(s, k, g, v) ELSE NoLine]

\* What the rows say is what the tables held at the preview; nothing is locked.
runPreview(b) ==
    /\ Arrives("request") /\ batch[b].status = "NONE"
    /\ \E s \in School, K \in SUBSET Code, g \in Guardian, v \in Bus \cup {None} :
          /\ K # {}
          /\ line' = [line EXCEPT ![b] = PreviewRows(s, K, g, v)]
          /\ batch' = [batch EXCEPT ![b].school = s, ![b].status = "PREVIEWED"]
    /\ UNCHANGED <<pupilVars, held, work, cut>>

-----------------------------------------------------------------------------
(* applyBatch *)

\* The unapplied rows of the modes that were confirmed, read before any of them is
\* locked; insert_ready takes all of its class, the others the rows that were ticked.
StartApply(c, b) ==
    /\ batch[b].status # "NONE"
    /\ \E K \in SUBSET {k \in Code : ~line[b][k].applied
                                       /\ line[b][k].class \in {"insert", "guardian", "reactivate"}} :
          Begins(c, "request", [at |-> "batch", batch |-> b, todo |-> K], {})
    /\ UNCHANGED <<pupilVars, importVars>>

\* Variant for mutation runs: a row that another pass has applied is applied again.
PendingUnchecked(b, k) == TRUE

\* lockPendingImportRow: applied_at, read under the row's lock.
Pending(b, k) == ~line[b][k].applied

\* On to the next row of the list.
NextRow(c) ==
    Continues(c, [at |-> "batch", batch |-> work[c].batch, todo |-> work[c].todo \ {work[c].code}], {})

LockImportRow(c) ==
    LET b == work[c].batch IN
    /\ work[c].at = "batch"
    /\ \E k \in work[c].todo :
          /\ Free(c, lineRow(b, k))
          /\ IF Pending(b, k)
             THEN Continues(c, [at |-> "row", batch |-> b, todo |-> work[c].todo, code |-> k],
                       {lineRow(b, k)})
             ELSE Continues(c, [at |-> "batch", batch |-> b, todo |-> work[c].todo \ {k}], {})
    /\ UNCHANGED <<pupilVars, importVars>>

AtRow(c, class) ==
    /\ work[c].at = "row"
    /\ line[work[c].batch][work[c].code].class = class
    /\ \A p \in RecordOf(batch[work[c].batch].school, work[c].code) : Free(c, PupilRow(p))

Records(c) == RecordOf(batch[work[c].batch].school, work[c].code)

\* The row's outcome; applied_at is set unless it has to be tried again.
Outcome(c, status, done, p) ==
    /\ line' = [line EXCEPT ![work[c].batch][work[c].code] =
                  [@ EXCEPT !.status = status, !.applied = done, !.pupil = p]]
    /\ NextRow(c)
    /\ UNCHANGED <<batch, cut>>

\* A row whose pupil is already there.
AlreadyApplied(c) ==
    /\ \/ AtRow(c, "insert") /\ Records(c) # {}
       \/ AtRow(c, "reactivate") /\ \E p \in Records(c) : Active(p)
    /\ Outcome(c, "ALREADY_APPLIED", TRUE, 0)
    /\ UNCHANGED pupilVars

\* The row's bus has been deleted since; vehicles are not part of this model.
VehicleBlocked(c) ==
    /\ work[c].at = "row" /\ line[work[c].batch][work[c].code].bus # None
    /\ \/ AtRow(c, "insert") /\ Records(c) = {}
       \/ AtRow(c, "reactivate") /\ \E p \in Records(c) : ~Active(p)
    /\ Outcome(c, "VEHICLE_BLOCKED", FALSE, 0)
    /\ UNCHANGED pupilVars

Stale(c) ==
    /\ \/ AtRow(c, "guardian") /\ \A p \in Records(c) : ~Active(p)
       \/ AtRow(c, "reactivate") /\ Records(c) = {}
    /\ Outcome(c, "STALE_NEEDS_REPREVIEW", FALSE, 0)
    /\ UNCHANGED pupilVars

applyInsertRow(c) ==
    LET b == work[c].batch
        k == work[c].code
    IN  /\ AtRow(c, "insert") /\ Records(c) = {}
        /\ nextId \in PupilId /\ Insertable(nextId, batch[b].school, k)
        /\ pupil' = [pupil EXCEPT ![nextId] =
              [state |-> "active", school |-> batch[b].school, code |-> k,
               bus |-> line[b][k].bus, cid |-> "import", made |-> <<b, k>>]]
        /\ Approve(nextId, line[b][k].guardian)
        /\ nextId' = AfterAllocation
        /\ Outcome(c, "APPLIED", TRUE, nextId)

GuardianRowFree(c) == AtRow(c, "guardian")

\* A line whose phone is the guardian's, or that has none, writes at most a name.
\* A new phone approves its guardian, and one that was approved loses the approval.
applyGuardianRow(c) ==
    LET g == line[work[c].batch][work[c].code].guardian IN
    /\ GuardianRowFree(c)
    /\ \E p \in Records(c) :
          LET approved == {h \in Guardian : link[p][h] = "approved"} IN
          /\ Active(p)
          /\ \/ approved # {} /\ UNCHANGED <<link, barred>>
             \/ approved = {} /\ Approve(p, g)
             \/ \E h \in approved \ {g} :
                   /\ link' = [link EXCEPT ![p][g] = "approved", ![p][h] = "revoked"]
                   /\ barred' = [barred EXCEPT ![p] = (@ \ {g}) \cup {h}]
          /\ Outcome(c, "GUARDIAN_UPDATED", TRUE, p)
    /\ UNCHANGED <<pupil, nextId>>

applyReactivateRow(c) ==
    /\ AtRow(c, "reactivate")
    /\ \E p \in Records(c) :
          /\ ~Active(p)
          /\ pupil' = [pupil EXCEPT ![p].state = "active",
                                    ![p].bus = line[work[c].batch][work[c].code].bus]
          /\ Approve(p, line[work[c].batch][work[c].code].guardian)
          /\ Outcome(c, "REACTIVATED", TRUE, p)
    /\ UNCHANGED nextId

\* An error: ROLLBACK, ...
ImportRowFails(c) ==
    /\ work[c].at = "row"
    /\ Continues(c, [work[c] EXCEPT !.at = "rowFailed"], {})
    /\ UNCHANGED <<pupilVars, importVars>>

\* ... then markRowApplyFailed, outside any transaction, whatever the row says by now.
markRowApplyFailed(c) ==
    LET b == work[c].batch IN
    /\ work[c].at = "rowFailed" /\ Free(c, lineRow(b, work[c].code))
    /\ line' = [line EXCEPT ![b][work[c].code].status = "APPLY_FAILED"]
    /\ NextRow(c)
    /\ UNCHANGED <<pupilVars, batch, cut>>

\* Variant for mutation runs: unresolved rows are those that died, as the code had it.
UnresolvedInApply(b) == InStatus(b, {"APPLY_FAILED"})

Unresolved(b) == InStatus(b, UNRESOLVED)

\* The counters are derived from the rows, whose locks the subqueries wait for.
FinishApply(c) ==
    LET b == work[c].batch IN
    /\ work[c].at = "batch" /\ work[c].todo = {}
    /\ \A k \in Code : Free(c, lineRow(b, k))
    /\ batch' = [batch EXCEPT ![b].status = IF Unresolved(b) > 0 THEN "APPLIED_PARTIAL" ELSE "APPLIED",
                              ![b].success = InStatus(b, SUCCESS),
                              ![b].error = Unresolved(b)]
    /\ cut' = cut \ {b}
    /\ Ends(c)
    /\ UNCHANGED <<pupilVars, line>>

-----------------------------------------------------------------------------
(* rollbackBatch *)

\* The rows are read once, before the first of them is rolled back.
StartRollback(c, b) ==
    /\ batch[b].status # "NONE"
    /\ \E K \in SUBSET {k \in Code : line[b][k].class # "none"} :
          /\ K # {}
          /\ Begins(c, "request", [at |-> "undo", batch |-> b, todo |-> K, rows |-> line[b]], {})
    /\ UNCHANGED <<pupilVars, importVars>>

NextUndo(c, k) == Continues(c, [work[c] EXCEPT !.todo = @ \ {k}], {})
Undone(c, k, how) == line' = [line EXCEPT ![work[c].batch][k].undone = how]

\* Variant for mutation runs: a row that only reactivated a pupil counts as its own.
InsertedHereOrTouched(row) == row.pupil # 0

\* Only rows that inserted a pupil, never a guardian's or a reactivation.
InsertedHere(row) == row.status = "APPLIED" /\ row.pupil # 0

\* Guards under the pupil's lock: same school and code, identity made by an import.
SafeToUndo(b, k, p) ==
    pupil[p].school = batch[b].school /\ pupil[p].code = k /\ pupil[p].cid = "import"

rollbackRow(c, k) ==
    LET b == work[c].batch
        row == work[c].rows[k]
        p == row.pupil
    IN  /\ work[c].at = "undo" /\ k \in work[c].todo
        /\ row.undone # "yes" /\ InsertedHere(row)
        /\ Free(c, PupilRow(p)) /\ Free(c, lineRow(b, k))
        /\ IF Active(p) /\ SafeToUndo(b, k, p)
           THEN pupil' = [pupil EXCEPT ![p].state = "deleted", ![p].bus = None]
           ELSE UNCHANGED pupil
        /\ Undone(c, k, IF Active(p) => SafeToUndo(b, k, p) THEN "yes" ELSE "refused")
        /\ NextUndo(c, k)
        /\ UNCHANGED <<link, barred, nextId, batch, cut>>

\* NOT_ELIGIBLE_FOR_ROLLBACK, unless it was rolled back before.
SkipUndo(c, k) ==
    LET row == work[c].rows[k] IN
    /\ work[c].at = "undo" /\ k \in work[c].todo
    /\ row.undone = "yes" \/ ~InsertedHere(row)
    /\ IF row.undone = "yes"
       THEN UNCHANGED line
       ELSE Free(c, lineRow(work[c].batch, k)) /\ Undone(c, k, "refused")
    /\ NextUndo(c, k)
    /\ UNCHANGED <<pupilVars, batch, cut>>

\* ROLLBACK_FAILED, outside the transaction that failed.
UndoFails(c, k) ==
    /\ work[c].at = "undo" /\ k \in work[c].todo /\ work[c].rows[k].undone # "yes"
    /\ Free(c, lineRow(work[c].batch, k))
    /\ Undone(c, k, "failed")
    /\ NextUndo(c, k)
    /\ UNCHANGED <<pupilVars, batch, cut>>

FinishRollback(c) ==
    LET b == work[c].batch IN
    /\ work[c].at = "undo" /\ work[c].todo = {}
    /\ batch' = [batch EXCEPT ![b].undone =
                   IF \E k \in Code : line[b][k].status = "APPLIED" /\ line[b][k].undone = "no"
                   THEN "partial" ELSE "yes"]
    /\ Ends(c)
    /\ UNCHANGED <<pupilVars, line, cut>>

\* c is in a pass over the batch.
Applying(c, b) == work[c].at \in {"batch", "row", "rowFailed"} /\ work[c].batch = b

ImportStep(c) ==
    \/ \E b \in Batch : StartApply(c, b) \/ StartRollback(c, b)
    \/ LockImportRow(c)
    \/ AlreadyApplied(c)
    \/ VehicleBlocked(c)
    \/ Stale(c)
    \/ applyInsertRow(c)
    \/ applyGuardianRow(c)
    \/ applyReactivateRow(c)
    \/ ImportRowFails(c)
    \/ markRowApplyFailed(c)
    \/ FinishApply(c)
    \/ \E k \in Code : rollbackRow(c, k) \/ SkipUndo(c, k) \/ UndoFails(c, k)
    \/ FinishRollback(c)

=============================================================================
