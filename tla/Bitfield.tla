------------------------------ MODULE Bitfield ------------------------------
(***************************************************************************)
(* The window of received / acknowledged sequence IDs (utils/bitfield.py). *)
(*                                                                         *)
(* A bitfield is a record [bits, count, capacity].  bits is the set of the *)
(* 1-based positions holding a one.  Only the dynamic capacity variant is  *)
(* modelled: no caller constructs the other one.                           *)
(*                                                                         *)
(* Two facts of the code are kept as they are.  The test in __lshift__ is  *)
(* "if not self.hasCapacityFor(value)", and hasCapacityFor returns a       *)
(* tuple, which is always true: trim() is never called.  And __lshift__    *)
(* sets the capacity to the new count, so after the first shift the free   *)
(* capacity is zero.                                                       *)
(***************************************************************************)
EXTENDS Integers

CONSTANT InitCapacity   \* 4 segments of 32 bits: 128 in the code

ASSUME InitCapacityAssumption == InitCapacity \in Nat

EmptyBitfield == [bits |-> {}, count |-> 0, capacity |-> InitCapacity]

\* hasCapacityFor returns (overflow < 0, overflow).
Overflow(bf, amount) == bf.count + amount - bf.capacity
HasCapacityFor(bf, amount) == Overflow(bf, amount) < 0

\* __lshift__.  A one above count is dropped here: the Python integer keeps it,
\* but it stays above count for good, where isSet answers True without looking
\* and checkAndTrimLast never looks (first16 is only asked of a bitfield whose
\* ones lie within count).
ShiftLeft(bf, amount) ==
    [bits     |-> {p + amount : p \in {q \in bf.bits : q <= bf.count}},
     count    |-> bf.count + amount,
     capacity |-> bf.count + amount]

IsSet(bf, bit) == bit > bf.count \/ bit \in bf.bits

SetBit(bf, bit) == [bf EXCEPT !.bits = @ \union {bit}]

Combine(bf, ones) == [bf EXCEPT !.bits = @ \union ones]

\* first8 / first16: the low order bits that travel in an ack.
First(bf, n) == {p \in bf.bits : p <= n}

\* n calls of checkAndTrimLast in a row: the positions they report, and the
\* bitfield they leave.  Call number count + 1 evaluates 1 << -1, which raises
\* ValueError after the positions count .. 1 were reported.
Swept(bf, n) == {p \in 1 .. bf.count : p > bf.count - n}
SweepRaises(bf, n) == n > bf.count
Trimmed(bf, n) == [bf EXCEPT !.count = IF SweepRaises(bf, n) THEN 0 ELSE @ - n]
=============================================================================
