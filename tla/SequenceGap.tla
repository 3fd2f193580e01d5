---------------------------- MODULE SequenceGap ----------------------------
(***************************************************************************)
(* Signed distance between two 16 bit sequence IDs, with wrap around:      *)
(* getSequenceGap of utils/helper.py.  Every decision of the reliable and  *)
(* the notify channel (is this message newer, how far do I shift, is this  *)
(* a duplicate) is taken on this number.                                   *)
(***************************************************************************)
EXTENDS Integers

CONSTANT IdSpace   \* number of sequence IDs on the wire: 65536 in the code

ASSUME IdSpaceAssumption == IdSpace \in Nat /\ IdSpace >= 2 /\ IdSpace % 2 = 0

Half == IdSpace \div 2

Abs(n) == IF n < 0 THEN -n ELSE n

\* What is left of an unbounded Python integer after "& 0xffff".
Mask(s) == s % IdSpace

\* IDs of the lower half (its end included) are moved one period up, so that
\* they compare as newer than the IDs just below the wrap.
Lift(s) == IF s <= Half THEN IdSpace + s ELSE s

\* Mistakes in the comparison: no correction at the wrap, or one that only looks
\* at one of the two sides.
GapWithoutWrap(s1, s2) == s1 - s2
GapOneSided(s1, s2) == IF s1 - s2 <= Half THEN s1 - s2 ELSE Lift(s1) - Lift(s2)

MaskedGap(s1, s2) == IF Abs(s1 - s2) <= Half THEN s1 - s2 ELSE Lift(s1) - Lift(s2)

Gap(s1, s2) == MaskedGap(Mask(s1), Mask(s2))
=============================================================================
