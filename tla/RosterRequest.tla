---------------------------- MODULE RosterRequest ----------------------------
(***************************************************************************)
(* A driver asks to add a pupil to the bus or take one off it, the school  *)
(* approves or rejects (rosterRequest.service.js).                         *)
(***************************************************************************)
EXTENDS Pupils

CONSTANT RosterReq    \* ids of roster_change_requests

VARIABLE roster       \* roster_change_requests

rosterRow(q) == <<"roster", q>>

NoRosterRequest == [status |-> "none", type |-> "add", pupil |-> 0, school |-> None,
                    bus |-> None, named |-> 0]

RosterInit == roster = [q \in RosterReq |-> NoRosterRequest]

-----------------------------------------------------------------------------
(* createRequest *)

Serves(b, s) == \E p \in PupilId : Enrolled(p, s) /\ pupil[p].bus = b

\* The checks of createRequest are plain reads of the pool; between them and the
\* INSERT anything may happen, another request for the same pupil included.
CheckRosterRequest(c) ==
    /\ \E p \in PupilId, b \in Bus, t \in {"add", "remove"} :
          /\ Active(p)
          /\ t = "add" => Serves(b, pupil[p].school) /\ pupil[p].bus # b
          /\ t = "remove" => pupil[p].bus = b
          /\ \A q \in RosterReq :
                roster[q].status = "pending" /\ roster[q].pupil = p
                   => roster[q].bus # b \/ roster[q].type # t
          /\ Begins(c, "request", [at |-> "ask", type |-> t, pupil |-> p, school |-> pupil[p].school,
                        bus |-> b], {})
    /\ UNCHANGED <<pupilVars, roster>>

InsertRosterRequest(c) ==
    /\ work[c].at = "ask"
    /\ \E q \in RosterReq :
          /\ roster[q].status = "none"
          /\ roster' = [roster EXCEPT ![q] =
                [status |-> "pending", type |-> work[c].type, pupil |-> work[c].pupil,
                 school |-> work[c].school, bus |-> work[c].bus, named |-> 0]]
    /\ Ends(c)
    /\ UNCHANGED pupilVars

\* For a pupil who is not in the system yet; the driver may name the id.
AskForNewPupil(q) ==
    /\ Arrives("request") /\ roster[q].status = "none"
    /\ \E s \in School, b \in Bus, n \in PupilId \cup {0} :
          roster' = [roster EXCEPT ![q] =
             [status |-> "pending", type |-> "new", pupil |-> 0, school |-> s, bus |-> b,
              named |-> n]]
    /\ UNCHANGED <<pupilVars, held, work>>

-----------------------------------------------------------------------------
(* reviewRequest *)

\* SELECT ... status = 'pending' FOR UPDATE.
LockRosterRequest(c, q) ==
    /\ roster[q].status = "pending" /\ Free(c, rosterRow(q))
    /\ \E d \in {"approved", "rejected"} :
          Begins(c, "request", [at |-> "review", request |-> q, decision |-> d], {rosterRow(q)})
    /\ UNCHANGED <<pupilVars, roster>>

\* The UPDATE of the status must still find it pending.
Reviewing(c, decision) ==
    /\ work[c].at = "review" /\ work[c].decision = decision
    /\ roster[work[c].request].status = "pending"

RosterDecision(q, decision, p) ==
    roster' = [roster EXCEPT ![q].status = decision, ![q].pupil = p]

RejectRoster(c) ==
    /\ Reviewing(c, "rejected")
    /\ RosterDecision(work[c].request, "rejected", roster[work[c].request].pupil)
    /\ Ends(c)
    /\ UNCHANGED pupilVars

\* Variant for mutation runs: the approval trusts what the request was created from.
StillEnrolledThen(p, s) == pupil[p].state # "none"

\* The approval looks again: not deleted since, not moved to another school.
StillEnrolled(p, s) == Enrolled(p, s)

ApproveOnBus(c) ==
    LET q == work[c].request
        r == roster[q]
    IN  /\ Reviewing(c, "approved") /\ r.type # "new"
        /\ Free(c, PupilRow(r.pupil))
        /\ StillEnrolled(r.pupil, r.school)
        /\ pupil' = [pupil EXCEPT ![r.pupil].bus = IF r.type = "add" THEN r.bus ELSE None]
        /\ RosterDecision(q, "approved", r.pupil)
        /\ Ends(c)
        /\ UNCHANGED <<link, barred, nextId>>

\* The id the driver named, or the next one of the sequence.
NewPupilId(q) == IF roster[q].named # 0 THEN roster[q].named ELSE nextId

ApproveNewPupil(c) ==
    LET q == work[c].request
        r == roster[q]
        p == NewPupilId(q)
    IN  /\ Reviewing(c, "approved") /\ r.type = "new"
        /\ p \in PupilId /\ Free(c, PupilRow(p)) /\ Insertable(p, r.school, None)
        /\ pupil' = [pupil EXCEPT ![p] = [state |-> "active", school |-> r.school,
                        code |-> None, bus |-> r.bus, cid |-> "other", made |-> q]]
        /\ nextId' = IF r.named # 0 THEN nextId ELSE AfterAllocation
        /\ \/ \E g \in Guardian : Approve(p, g)
           \/ UNCHANGED <<link, barred>>
        /\ RosterDecision(q, "approved", p)
        /\ Ends(c)

\* A 409, a duplicate id or any other error rolls everything back: still pending.
ReviewFails(c) ==
    /\ work[c].at = "review"
    /\ Ends(c)
    /\ UNCHANGED <<pupilVars, roster>>

RosterStep(c) ==
    \/ CheckRosterRequest(c)
    \/ InsertRosterRequest(c)
    \/ \E q \in RosterReq : LockRosterRequest(c, q)
    \/ RejectRoster(c)
    \/ ApproveOnBus(c)
    \/ ApproveNewPupil(c)
    \/ ReviewFails(c)

=============================================================================
