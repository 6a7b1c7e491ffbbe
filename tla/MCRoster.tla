------------------------------ MODULE MCRoster ------------------------------
EXTENDS Roster, TLC

CONSTANT FarSchool    \* one of School

\* Connections and the ids of requests are interchangeable.
Symmetry == Permutations(Conn) \cup Permutations(TransferReq) \cup Permutations(Batch)

\* Only transfers reach the third school, so that two transfers of one pupil may have
\* different destinations.
FarByTransfer ==
    /\ \A q \in RosterReq : roster[q].school # FarSchool
    /\ \A b \in Batch : batch[b].school # FarSchool
    /\ \A c \in Conn : work[c].at = "insert" => work[c].school # FarSchool

=============================================================================
