----------------------------- MODULE MCPlatform -----------------------------
EXTENDS Platform

\* The riders of one school: the slices of two schools share nothing.
SchoolOfEntry == [e \in Entry |-> CHOOSE s \in RegSchool : TRUE]

=============================================================================
