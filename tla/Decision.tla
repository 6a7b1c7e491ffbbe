------------------------------ MODULE Decision ------------------------------
(***************************************************************************)
(* What the workflows that create pupils promise about each request: it is *)
(* decided once, a pupil is created by the decision that applies it and by *)
(* nothing else, and a decided request stays as it is.                     *)
(***************************************************************************)
EXTENDS Naturals

CONSTANT Request

VARIABLES
    stage,     \* "none", "pending", "applied" (a pupil was created) or "closed"
    created    \* pupils that each request has created

decisionVars == <<stage, created>>

Init ==
    /\ stage = [r \in Request |-> "none"]
    /\ created = [r \in Request |-> 0]

Submit(r) == stage[r] = "none" /\ stage'[r] = "pending" /\ created'[r] = 0
Apply(r) == stage[r] = "pending" /\ stage'[r] = "applied" /\ created'[r] = 1
Close(r) == stage[r] = "pending" /\ stage'[r] = "closed" /\ created'[r] = 0
Rest(r) == stage'[r] = stage[r] /\ created'[r] = created[r]

\* Several requests may be submitted together, as the rows of one file are.
Next == \A r \in Request : Submit(r) \/ Apply(r) \/ Close(r) \/ Rest(r)

Spec == Init /\ [][Next]_decisionVars

=============================================================================
