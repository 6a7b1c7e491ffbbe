---------------------------- MODULE MCCheckin ----------------------------
(***************************************************************************)
(* Checkin on small sets.  Pupils, buses and requests are interchangeable, *)
(* so the safety runs use them as symmetry sets.                           *)
(***************************************************************************)
EXTENDS Checkin, TLC

Symmetry == Permutations(Student) \cup Permutations(Bus) \cup Permutations(Request)

=============================================================================
