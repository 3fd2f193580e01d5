----------------------------- MODULE BitStream -----------------------------
(***************************************************************************)
(* Copying bits: utils/converter.py.  An array is the sequence of its bits, *)
(* the least significant bit of each byte first, so that the shifts and    *)
(* masks of the code are copies of bits.  Positions count from zero.       *)
(***************************************************************************)
EXTENDS Integers, SequencesExt

BITS_PER_BYTE == 8

BytesNeeded(bits) == (bits + BITS_PER_BYTE - 1) \div BITS_PER_BYTE

\* What is left of a number after 0 .. count of its digits, the least significant first.
Rests(number, base, count) ==
    LET rest[i \in 0 .. count] == IF i = 0 THEN number ELSE rest[i - 1] \div base
    IN  rest

Bits(number, count) == [i \in 1 .. count |-> Rests(number, 2, count)[i - 1] % 2]

\* The number with these digits, the least significant first.
Value(digits, base) ==
    LET above[i \in 0 .. Len(digits)] ==
            IF i = 0 THEN 0 ELSE digits[Len(digits) + 1 - i] + base * above[i - 1]
    IN  above[Len(digits)]

Number(bits) == Value(bits, 2)

BitsOf(bytes) ==
    LET bits == [j \in DOMAIN bytes |-> Bits(bytes[j], BITS_PER_BYTE)]
    IN  [i \in 1 .. BITS_PER_BYTE * Len(bytes) |->
            bits[((i - 1) \div BITS_PER_BYTE) + 1][((i - 1) % BITS_PER_BYTE) + 1]]

BytesOf(bits) ==
    [i \in 1 .. Len(bits) \div BITS_PER_BYTE |->
        Number(SubSeq(bits, BITS_PER_BYTE * (i - 1) + 1, BITS_PER_BYTE * i))]

Padded(array, bytes) ==
    array \o [i \in 1 .. BITS_PER_BYTE * bytes - Len(array) |-> 0]

EnsureSpace(array, bits) == Padded(array, BytesNeeded(bits))

\* A mistake in the mask of the first byte: the bits below the copied ones are lost.
OverlayClearing(bits, array, pos) ==
    [i \in DOMAIN array |->
        IF i - pos \in DOMAIN bits THEN bits[i - pos]
        ELSE IF i <= pos /\ BytesNeeded(i) = BytesNeeded(pos + 1) THEN 0 ELSE array[i]]

\* array with the given bits copied to position pos.
Overlay(bits, array, pos) ==
    [i \in DOMAIN array |-> IF i - pos \in DOMAIN bits THEN bits[i - pos] ELSE array[i]]

SetBits(bits, array, pos) == Overlay(bits, EnsureSpace(array, pos + Len(bits)), pos)

\* setBits8 for one bit: an unaligned one makes room for a byte beyond its own.
SetBit(bit, array, pos) == Overlay(<<bit>>, EnsureSpace(array, pos + BITS_PER_BYTE), pos)

\* The eight bits before pos; a negative index counts from the end of the array.
ByteBefore(array, pos) ==
    [i \in 1 .. BITS_PER_BYTE |->
        LET at == pos - BITS_PER_BYTE + i IN array[IF at > 0 THEN at ELSE at + Len(array)]]

\* count bits from pos on, filled up with zeros to whole bytes.  The last byte of an
\* unaligned array is read on its own, even if there is none.
BytesFromBits(array, count, pos) ==
    IF count = 0 /\ pos % BITS_PER_BYTE # 0 THEN ByteBefore(array, pos)
    ELSE [i \in 1 .. BITS_PER_BYTE * BytesNeeded(count) |->
             IF pos + i \in DOMAIN array THEN array[pos + i] ELSE 0]

\* byteFromBits raises IndexError unless the array has every byte it touches.
HasByte(array, pos) == 8 * (pos \div 8) + (IF pos % 8 = 0 THEN 8 ELSE 16) <= Len(array)

\* A mistake: one group whatever the number.
ToVarULongFirstGroup(n) == <<n % 128>>

\* Groups of seven bits, a one above each group but the last.
ToVarULong(n) ==
    LET rest == Rests(n, 128, n + 1)
        groups == CHOOSE i \in 1 .. n + 1 : rest[i] = 0 /\ \A j \in 1 .. i - 1 : rest[j] # 0
    IN  [i \in 1 .. groups |-> (rest[i - 1] % 128) + (IF i < groups THEN 128 ELSE 0)]

\* The groups from start on, up to the one without a one above it.
FromVarULong(array, start) ==
    LET Group(i) == SubSeq(array, start + 8 * i - 7, start + 8 * i - 1)
        More(i) == array[start + 8 * i] = 1
        last == {n \in 1 .. Len(array) \div 8 :
                    /\ HasByte(array, start + 8 * (n - 1)) /\ ~More(n)
                    /\ \A i \in 1 .. n - 1 : More(i)}
    IN  IF last = {} THEN [found |-> FALSE, value |-> 0, bits |-> 0]
        ELSE LET n == CHOOSE i \in last : TRUE
             IN  [found |-> TRUE, bits |-> 8 * n,
                  value |-> Value([i \in 1 .. n |-> Number(Group(i))], 128)]
=============================================================================
