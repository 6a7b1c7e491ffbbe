------------------------------- MODULE Pupils -------------------------------
(***************************************************************************)
(* The students rows that several services share, the allocator of their   *)
(* ids (idAllocator.service.js), their guardian links, and what a school   *)
(* does to them directly (school.routes.js, school.service.js).            *)
(*                                                                         *)
(* A connection serves one request at a time.  What a handler reads from   *)
(* the pool, and each statement that waits for a row lock, is a step; a    *)
(* transaction whose remaining statements lock all they touch is one step, *)
(* its COMMIT.  held[c] is what the open transaction of c has locked.      *)
(***************************************************************************)
EXTENDS Naturals, FiniteSets

CONSTANTS
    School,
    Bus,
    Code,          \* student_code: the child, whichever school's roster it is on
    Guardian,      \* parents rows
    PupilId,       \* ids of students rows, 1 .. n
    Conn,          \* connections of the pool
    FirstSchool,   \* the school of pupil 1, whom an import of an earlier day inserted
    FirstCode,     \* the pupil's student_code
    FirstGuardian, \* the pupil's approved guardian
    None,          \* NULL
    MaxEdits,      \* bound: direct edits by the schools
    MaxRequests    \* bound: requests of the three workflows

ASSUME PupilIdAssumption == PupilId \subseteq Nat \ {0} /\ 1 \in PupilId /\ IsFiniteSet(PupilId)
ASSUME CodeAssumption == IsFiniteSet(Code)
ASSUME FirstAssumption == FirstSchool \in School /\ FirstCode \in Code
                             /\ FirstGuardian \in Guardian

VARIABLES
    pupil,     \* students
    link,      \* parent_student.approved of each pupil and guardian
    barred,    \* history: guardians whose approval was withdrawn on a record
    nextId,    \* id_sequences.next_value for 'students'
    held,      \* row locks of each connection
    work,      \* what each connection is doing, with its local variables
    begun      \* requests so far, of each kind

pupilVars == <<pupil, link, barred, nextId>>

-----------------------------------------------------------------------------
(* Rows *)

Idle == [at |-> "idle"]
Nobody == [state |-> "none", school |-> None, code |-> None, bus |-> None,
           cid |-> "other", made |-> None]
NoLinks == [g \in Guardian |-> "none"]

PupilsInit ==
    /\ \E b \in Bus :
          pupil = [p \in PupilId |->
                     IF p = 1 THEN [state |-> "active", school |-> FirstSchool,
                                    code |-> FirstCode, bus |-> b, cid |-> "import",
                                    made |-> None]
                              ELSE Nobody]
    /\ link = [p \in PupilId |->
                  IF p = 1 THEN [NoLinks EXCEPT ![FirstGuardian] = "approved"] ELSE NoLinks]
    /\ barred = [p \in PupilId |-> {}]
    /\ nextId = 2
    /\ held = [c \in Conn |-> {}]
    /\ work = [c \in Conn |-> Idle]
    /\ begun = [edit |-> 0, request |-> 0]

Active(p) == pupil[p].state = "active"
Enrolled(p, s) == Active(p) /\ pupil[p].school = s

\* UNIQUE (school_id, student_code), over deleted rows too; NULL codes are exempt.
RecordOf(s, k) == {p \in PupilId : pupil[p].state # "none" /\ pupil[p].school = s
                                      /\ pupil[p].code = k}
\* An INSERT of this row meets no duplicate key.
Insertable(p, s, k) == pupil[p].state = "none" /\ (k = None \/ RecordOf(s, k) = {})

\* allocateId: the id is nextId, the sequence advances in the caller's transaction.
AfterAllocation == nextId + 1

-----------------------------------------------------------------------------
(* Requests and locks *)

PupilRow(p) == <<"pupil", p>>
Free(c, row) == \A d \in Conn \ {c} : row \notin held[d]

\* c turns to a step of a request; the locks it holds are `locks`.
Goes(c, step, locks) ==
    /\ work' = [work EXCEPT ![c] = step]
    /\ held' = [held EXCEPT ![c] = locks]

\* A request arrives, as long as the bound on its kind allows.
Arrives(kind) ==
    /\ begun[kind] < IF kind = "edit" THEN MaxEdits ELSE MaxRequests
    /\ begun' = [begun EXCEPT ![kind] = @ + 1]

\* A free connection takes it up.
Begins(c, kind, step, locks) == work[c] = Idle /\ Arrives(kind) /\ Goes(c, step, locks)
Continues(c, step, locks) == Goes(c, step, locks) /\ UNCHANGED begun
Ends(c) == Continues(c, Idle, {})

\* The process or its connection is lost: nothing after this runs.
Lose(c) ==
    /\ work[c] # Idle
    /\ Ends(c)
    /\ UNCHANGED pupilVars

-----------------------------------------------------------------------------
(* The school's own edits *)

\* The plain read that opens PUT, DELETE and move of a pupil.
ReadPupil(c) ==
    /\ \E p \in PupilId : Active(p) /\
          \/ \E b \in Bus \cup {None} : Begins(c, "edit", [at |-> "move", pupil |-> p, bus |-> b], {})
          \/ Begins(c, "edit", [at |-> "withdraw", pupil |-> p], {})
          \/ Begins(c, "edit", [at |-> "reassign", pupil |-> p], {})
    /\ UNCHANGED pupilVars

\* UPDATE students SET vehicle_id, whatever the row has become since it was read.
MoveToBus(c) ==
    /\ work[c].at = "move" /\ Free(c, PupilRow(work[c].pupil))
    /\ pupil' = [pupil EXCEPT ![work[c].pupil].bus = work[c].bus]
    /\ Ends(c)
    /\ UNCHANGED <<link, barred, nextId>>

Withdraw(c) ==
    /\ work[c].at = "withdraw" /\ Free(c, PupilRow(work[c].pupil))
    /\ pupil' = [pupil EXCEPT ![work[c].pupil].state = "deleted", ![work[c].pupil].bus = None]
    /\ Ends(c)
    /\ UNCHANGED <<link, barred, nextId>>

\* Every link of the pupil is removed and a parents row inserted for the new
\* guardian, never one found by phone.  The foreign key waits for the pupil's row.
ReassignGuardian(c) ==
    /\ work[c].at = "reassign" /\ Free(c, PupilRow(work[c].pupil))
    /\ \E g \in Guardian :
          /\ \A p \in PupilId : link[p][g] = "none" /\ g \notin barred[p]
          /\ link' = [link EXCEPT ![work[c].pupil] = [NoLinks EXCEPT ![g] = "approved"]]
    /\ Ends(c)
    /\ UNCHANGED <<pupil, barred, nextId>>

restoreStudent(c, p) ==
    /\ work[c] = Idle /\ pupil[p].state = "deleted" /\ Free(c, PupilRow(p))
    /\ Arrives("edit")
    /\ pupil' = [pupil EXCEPT ![p].state = "active"]
    /\ UNCHANGED <<link, barred, nextId, held, work>>

\* One row of the older import: the plain read of an existing record (0: none).
\* The code has one transaction for the whole file; here each row that names a guardian
\* is a file of its own.
ReadForImport(c) ==
    /\ \E s \in School, k \in Code, g \in Guardian :
          LET existing == RecordOf(s, k) IN
          /\ \A p \in existing : ~Active(p)
          /\ Begins(c, "edit", [at |-> "insert", school |-> s, code |-> k, guardian |-> g,
                        pupil |-> IF existing = {} THEN 0 ELSE CHOOSE p \in existing : TRUE], {})
    /\ UNCHANGED pupilVars

\* A guardian is approved on a record: a bar on it is lifted.
Approve(p, g) ==
    /\ link' = [link EXCEPT ![p][g] = "approved"]
    /\ barred' = [barred EXCEPT ![p] = @ \ {g}]

\* A withdrawn pupil comes back with a new identity marker, ...
ImportReactivates(c) ==
    LET w == work[c] IN
    /\ w.at = "insert" /\ w.pupil # 0 /\ Free(c, PupilRow(w.pupil))
    /\ \E b \in Bus \cup {None} :
          pupil' = [pupil EXCEPT ![w.pupil].state = "active", ![w.pupil].bus = b,
                                 ![w.pupil].cid = "other"]
    /\ Approve(w.pupil, w.guardian)
    /\ Ends(c)
    /\ UNCHANGED nextId

\* ... or a new one is inserted; a duplicate key skips the row and keeps the rest
\* of the transaction, the advance of the sequence with it.
ImportInserts(c) ==
    LET w == work[c] IN
    /\ w.at = "insert" /\ w.pupil = 0 /\ nextId \in PupilId
    /\ nextId' = AfterAllocation
    /\ IF Insertable(nextId, w.school, w.code)
       THEN /\ \E b \in Bus \cup {None} :
                  pupil' = [pupil EXCEPT ![nextId] =
                             [state |-> "active", school |-> w.school, code |-> w.code,
                              bus |-> b, cid |-> "other", made |-> None]]
            /\ Approve(nextId, w.guardian)
       ELSE UNCHANGED <<pupil, link, barred>>
    /\ Ends(c)

SchoolEdit(c) ==
    \/ ReadPupil(c)
    \/ MoveToBus(c)
    \/ Withdraw(c)
    \/ ReassignGuardian(c)
    \/ \E p \in PupilId : restoreStudent(c, p)
    \/ ReadForImport(c)
    \/ ImportReactivates(c)
    \/ ImportInserts(c)

=============================================================================
