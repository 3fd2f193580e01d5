--------------------------- MODULE MCSequenceGap ---------------------------
(***************************************************************************)
(* getSequenceGap against its reference: two unbounded counters, of which  *)
(* the function only sees the low order bits.                              *)
(***************************************************************************)
EXTENDS SequenceGap

CONSTANT MaxCount   \* bound on the two counters

VARIABLES newest, other

CountersAtZero == newest = 0 /\ other = 0

CountNewest == newest < MaxCount /\ newest' = newest + 1 /\ UNCHANGED other
CountOther == other < MaxCount /\ other' = other + 1 /\ UNCHANGED newest

Count == CountNewest \/ CountOther

Counting == CountersAtZero /\ [][Count]_<<newest, other>>

\* Closer than half the ID space, the gap between two IDs is the distance
\* between the counters they come from, wherever the wrap falls.
GapIsDistance == Abs(newest - other) < Half => Gap(newest, other) = newest - other

\* Both ends of a pair agree who is newer, at exactly half the space as well.
GapIsAntisymmetric == Gap(newest, other) = -Gap(other, newest)
=============================================================================
