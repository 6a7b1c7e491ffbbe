--------------------------- MODULE StudentTransfer ---------------------------
(***************************************************************************)
(* A school asks to transfer a pupil to another school, an administrator   *)
(* approves and applies it at once, or rejects (studentTransfer.service.js)*)
(***************************************************************************)
EXTENDS Pupils

CONSTANT TransferReq    \* ids of student_transfer_requests

VARIABLE transfer       \* student_transfer_requests

transferRow(t) == <<"transfer", t>>

NoTransfer == [status |-> "NONE", pupil |-> 0, code |-> None, from |-> None, to |-> None,
               applied |-> 0]

TransferInit == transfer = [t \in TransferReq |-> NoTransfer]

-----------------------------------------------------------------------------
(* createRequest, cancelRequest, reject *)

\* Plain reads: the pupil, and no request of the pupil is pending.
CheckTransfer(c) ==
    /\ \E p \in PupilId, s \in School :
          /\ Active(p) /\ s # pupil[p].school
          /\ \A t \in TransferReq : transfer[t].status = "PENDING" => transfer[t].pupil # p
          /\ Begins(c, "request", [at |-> "request", pupil |-> p, code |-> pupil[p].code,
                        from |-> pupil[p].school, to |-> s], {})
    /\ UNCHANGED <<pupilVars, transfer>>

InsertTransfer(c) ==
    /\ work[c].at = "request"
    /\ \E t \in TransferReq :
          /\ transfer[t].status = "NONE"
          /\ transfer' = [transfer EXCEPT ![t] =
                [status |-> "PENDING", pupil |-> work[c].pupil, code |-> work[c].code,
                 from |-> work[c].from, to |-> work[c].to, applied |-> 0]]
    /\ Ends(c)
    /\ UNCHANGED pupilVars

\* Both read the status first, outside any transaction.
CheckWithdrawal(c, t) ==
    /\ transfer[t].status = "PENDING"
    /\ \E to \in {"CANCELLED", "REJECTED"} :
          Begins(c, "request", [at |-> "close", request |-> t, to |-> to], {})
    /\ UNCHANGED <<pupilVars, transfer>>

\* The UPDATE is guarded by the status; the answer is the same if it matched nothing.
CloseTransfer(c) ==
    LET t == work[c].request IN
    /\ work[c].at = "close" /\ Free(c, transferRow(t))
    /\ transfer' = IF transfer[t].status = "PENDING"
                   THEN [transfer EXCEPT ![t].status = work[c].to]
                   ELSE transfer
    /\ Ends(c)
    /\ UNCHANGED pupilVars

-----------------------------------------------------------------------------
(* approveAndApply *)

\* Variant for mutation runs: the request is read without FOR UPDATE.
TransferFreeUnlocked(c, t) == TRUE

\* SELECT ... FOR UPDATE waits for the request's row.
TransferFree(c, t) == Free(c, transferRow(t))

LockTransfer(c, t) ==
    /\ transfer[t].status = "PENDING" /\ TransferFree(c, t)
    /\ Begins(c, "request", [at |-> "lock", request |-> t], {transferRow(t)})
    /\ UNCHANGED <<pupilVars, transfer>>

Unchanged(t) ==
    LET r == transfer[t] IN Enrolled(r.pupil, r.from) /\ pupil[r.pupil].code = r.code

\* Variant for mutation runs: the pupil is validated as the request found it.
StillTransferableThen(t) == TRUE

\* The pupil is validated again under its lock.
StillTransferable(t) == Unchanged(t)

\* A NULL code equals nothing.
CodeTaken(t) ==
    /\ transfer[t].code # None
    /\ \E p \in RecordOf(transfer[t].to, transfer[t].code) : Active(p)

ClosesTransfer(c, status) ==
    /\ transfer' = [transfer EXCEPT ![work[c].request].status = status]
    /\ Ends(c)
    /\ UNCHANGED pupilVars

StaleTransfer(c) ==
    /\ work[c].at = "lock" /\ Free(c, PupilRow(transfer[work[c].request].pupil))
    /\ ~StillTransferable(work[c].request)
    /\ ClosesTransfer(c, "STALE_NEEDS_REVIEW")

\* The destination has a pupil of that code.  (A destination that is no school at all
\* closes the request in the same way; nothing in the code deletes a school.)
RefuseTransfer(c) ==
    /\ work[c].at = "lock" /\ Free(c, PupilRow(transfer[work[c].request].pupil))
    /\ StillTransferable(work[c].request) /\ CodeTaken(work[c].request)
    /\ ClosesTransfer(c, "FAILED")

\* Variant for mutation runs: every link is written back as approved.
CarriedApproved(g, a) == IF a = "none" THEN "none" ELSE "approved"

\* A guardian's link moves to the new record with its approval as it is.
Carried(g, a) == a

\* The source is closed, the guardians are copied: all of it still uncommitted.
LockTransferPupil(c) ==
    LET t == work[c].request
        p == transfer[t].pupil
    IN  /\ work[c].at = "lock" /\ Free(c, PupilRow(p))
        /\ StillTransferable(t) /\ ~CodeTaken(t)
        /\ Continues(c, [at |-> "apply", request |-> t,
                    links |-> [g \in Guardian |-> Carried(g, link[p][g])]],
                held[c] \cup {PupilRow(p)})
        /\ UNCHANGED <<pupilVars, transfer>>

\* The new record, and COMMIT.  A deleted record of the code at the destination is
\* a duplicate key: see TransferFails.
ApplyTransfer(c) ==
    LET t == work[c].request
        p == transfer[t].pupil
    IN  /\ work[c].at = "apply" /\ nextId \in PupilId
        /\ Insertable(nextId, transfer[t].to, transfer[t].code)
        /\ pupil' = [pupil EXCEPT
              ![p].state = "deleted", ![p].bus = None,
              ![nextId] = [state |-> "active", school |-> transfer[t].to,
                           code |-> transfer[t].code, bus |-> None, cid |-> "other",
                           made |-> t]]
        /\ link' = [link EXCEPT ![nextId] = work[c].links]
        /\ barred' = [barred EXCEPT ![nextId] = barred[p]]
        /\ nextId' = AfterAllocation
        /\ transfer' = [transfer EXCEPT ![t].status = "APPLIED", ![t].applied = nextId]
        /\ Ends(c)

\* An error: ROLLBACK, ...
TransferFails(c) ==
    /\ work[c].at \in {"lock", "apply"}
    /\ Continues(c, [at |-> "fail", request |-> work[c].request], {})
    /\ UNCHANGED <<pupilVars, transfer>>

\* ... then FAILED in a statement of its own, guarded by the status.
MarkTransferFailed(c) ==
    LET t == work[c].request IN
    /\ work[c].at = "fail" /\ Free(c, transferRow(t))
    /\ transfer' = IF transfer[t].status = "PENDING"
                   THEN [transfer EXCEPT ![t].status = "FAILED"]
                   ELSE transfer
    /\ Ends(c)
    /\ UNCHANGED pupilVars

TransferStep(c) ==
    \/ CheckTransfer(c)
    \/ InsertTransfer(c)
    \/ \E t \in TransferReq : CheckWithdrawal(c, t) \/ LockTransfer(c, t)
    \/ CloseTransfer(c)
    \/ StaleTransfer(c)
    \/ RefuseTransfer(c)
    \/ LockTransferPupil(c)
    \/ ApplyTransfer(c)
    \/ TransferFails(c)
    \/ MarkTransferFailed(c)

=============================================================================
