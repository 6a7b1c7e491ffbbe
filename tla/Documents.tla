------------------------------ MODULE Documents ------------------------------
(***************************************************************************)
(* Documents of drivers and buses: upload, review, deletion by the         *)
(* uploader (driverDocuments.service.js).                                  *)
(***************************************************************************)
CONSTANTS
    DocId,         \* ids of the documents tables
    Uploader,      \* users that upload
    Handler        \* requests being handled, each with its connection

VARIABLES
    doc,           \* driver_documents, vehicle_documents
    handler        \* what each request has locked and is about to write

documentVars == <<doc, handler>>

NoDocument == [state |-> "none", review |-> "PENDING", by |-> "none"]
NoHandler == [at |-> "idle"]

DocumentsInit ==
    /\ doc = [d \in DocId |-> NoDocument]
    /\ handler = [h \in Handler |-> NoHandler]

AddDocument(d, u) ==
    /\ doc[d].state = "none"
    /\ doc' = [doc EXCEPT ![d] = [state |-> "stored", review |-> "PENDING", by |-> u]]
    /\ UNCHANGED handler

\* Variant for mutation runs: the row is read without FOR UPDATE.
DocumentFreeUnlocked(d) == TRUE

\* SELECT ... FOR UPDATE.
DocumentFree(d) == \A h \in Handler : handler[h].at # "idle" => handler[h].doc # d

\* reviewDocument: a later review may turn an earlier one.
LockToReview(h, d, decision) ==
    /\ handler[h] = NoHandler /\ DocumentFree(d)
    /\ doc[d].state = "stored"
    /\ handler' = [handler EXCEPT ![h] = [at |-> "review", doc |-> d, decision |-> decision]]
    /\ UNCHANGED doc

WriteReview(h) ==
    /\ handler[h].at = "review"
    /\ doc' = [doc EXCEPT ![handler[h].doc].review = handler[h].decision]
    /\ handler' = [handler EXCEPT ![h] = NoHandler]

\* softDeleteDocument: by the uploader, and only while it is not approved.  No route asks
\* for the deletion as an administrator.
LockToDelete(h, d, u) ==
    /\ handler[h] = NoHandler /\ DocumentFree(d)
    /\ doc[d].state = "stored" /\ doc[d].by = u /\ doc[d].review # "APPROVED"
    /\ handler' = [handler EXCEPT ![h] = [at |-> "delete", doc |-> d]]
    /\ UNCHANGED doc

WriteDeletion(h) ==
    /\ handler[h].at = "delete"
    /\ doc' = [doc EXCEPT ![handler[h].doc].state = "deleted"]
    /\ handler' = [handler EXCEPT ![h] = NoHandler]

HandlerFails(h) ==
    /\ handler[h] # NoHandler
    /\ handler' = [handler EXCEPT ![h] = NoHandler]
    /\ UNCHANGED doc

DocumentsNext ==
    \/ \E d \in DocId, u \in Uploader : AddDocument(d, u)
    \/ \E h \in Handler :
          \/ \E d \in DocId, v \in {"APPROVED", "REJECTED"} : LockToReview(h, d, v)
          \/ \E d \in DocId, u \in Uploader : LockToDelete(h, d, u)
          \/ WriteReview(h) \/ WriteDeletion(h) \/ HandlerFails(h)

-----------------------------------------------------------------------------

\* driverDocuments.service.js:289: "Evidence a reviewer already APPROVED is locked from
\* owner deletion", also when the review and the deletion meet.
ApprovedEvidenceKept ==
    \A d \in DocId : doc[d].state = "deleted" => doc[d].review # "APPROVED"

=============================================================================
