--------------------------- MODULE MCDriverShift ---------------------------
EXTENDS DriverShift, FiniteSets, TLC

\* Shifts, connections, drivers and buses are interchangeable; no liveness here.
Symmetry == Permutations(ShiftId) \cup Permutations(Conn) \cup Permutations(Driver)
               \cup Permutations(Vehicle)

BusUsed(v) ==
    \/ v \in eligible
    \/ \E d \in Driver : <<d, v>> \in assigned
    \/ \E s \in ShiftId : shift[s].vehicle = v
    \/ \E c \in Conn : job[c].vehicle = v

DriverUsed(d) ==
    \/ d \notin account \/ d \in licensed
    \/ \E v \in Vehicle : <<d, v>> \in assigned
    \/ \E s \in ShiftId : shift[s].driver = d
    \/ \E c \in Conn : job[c].driver = d

\* The constraint of the run: two drivers share a bus, or one driver has two buses.
OneBusOrOneDriver ==
    \/ Cardinality({v \in Vehicle : BusUsed(v)}) <= 1
    \/ Cardinality({d \in Driver : DriverUsed(d)}) <= 1

=============================================================================
