--------------------------- MODULE MessageProofs ---------------------------
(***************************************************************************)
(* What is put into a message is what is got from it, for all items, IDs   *)
(* and limits.  The lemmas follow Message's operators: what a put leaves    *)
(* and changes, that the get of the same kind reads it back, and that the   *)
(* bits keep the items when they are appended to others or sent.  The       *)
(* inductive invariant Inv says where the items stand and which of them the *)
(* message holds; the theorems at the end are the properties it implies.    *)
(***************************************************************************)
EXTENDS Message, SequenceLemmas

\* The bytes of a bytearray.
Bytes == 0 .. 255

\* Functions on the first numbers are sequences.
LEMMA FunctionIsSeq ==
  ASSUME NEW S, NEW n \in Nat, NEW f \in [1 .. n -> S]
  PROVE  f \in Seq(S) /\ Len(f) = n
  OBVIOUS

\* An element of a sequence.
LEMMA SeqElement ==
  ASSUME NEW S, NEW s \in Seq(S), NEW i \in 1 .. Len(s)
  PROVE  s[i] \in S
  BY ElementOfSeq
-----------------------------------------------------------------------------
(* Loops. *)

\* What holds before the first round, and after a round if before it, holds after all.
LEMMA UpTo ==
  ASSUME NEW n \in Nat, NEW T, 0 \in T, \A i \in 1 .. n : i - 1 \in T => i \in T
  PROVE  \A i \in 0 .. n : i \in T
<1> SUFFICES ASSUME {i \in 0 .. n : i \notin T} # {} PROVE FALSE
  OBVIOUS
<1> DEFINE bad == {i \in 0 .. n : i \notin T}
<1>1. bad \in SUBSET Nat
  OBVIOUS
<1>2. PICK k \in bad : \A i \in bad : k <= i
  BY <1>1, LeastElement
<1>3. k \in 1 .. n /\ k \notin T
  BY <1>2
<1>4. k - 1 \in T
  BY <1>2, <1>3
<1> QED BY <1>3, <1>4

\* Intervals of the same numbers are as long.
LEMMA SameLength ==
  ASSUME NEW m \in Nat, NEW n \in Nat, 1 .. m = 1 .. n
  PROVE  m = n
<1>1. m \in 1 .. m \/ m = 0
  OBVIOUS
<1>2. n \in 1 .. n \/ n = 0
  OBVIOUS
<1> QED BY <1>1, <1>2

\* step[i][x] is what round i of a loop makes of x.
IsStep(S, n, step) == \A x \in S, i \in 1 .. n : step[i][x] \in S

\* f[i] is the result after i rounds.
IsLoop(f, S, n, first, step) ==
    f \in [0 .. n -> S] /\ f[0] = first /\ \A i \in 1 .. n : f[i] = step[i][f[i - 1]]

\* A loop of n rounds has its results.
LEMMA Iterates ==
  ASSUME NEW n \in Nat, NEW S, NEW first \in S, NEW step, IsStep(S, n, step)
  PROVE  \E f : IsLoop(f, S, n, first, step)
<1>0. \A x \in S, i \in 1 .. n : step[i][x] \in S
  BY DEF IsStep
<1> DEFINE Results(k, f) == f[0] = first /\ \A i \in 1 .. k : f[i] = step[i][f[i - 1]]
           T == {k \in 0 .. n : \E f \in [0 .. k -> S] : Results(k, f)}
<1>1. 0 \in T
  <2> DEFINE f == [i \in 0 .. 0 |-> first]
  <2>1. f \in [0 .. 0 -> S] /\ f[0] = first
    OBVIOUS
  <2>2. \A i \in 1 .. 0 : FALSE
    OBVIOUS
  <2> HIDE DEF f
  <2>3. Results(0, f)
    BY <2>1, <2>2
  <2> QED BY <2>1, <2>3
<1>2. ASSUME NEW k \in 1 .. n, k - 1 \in T PROVE k \in T
  <2>1. PICK f \in [0 .. k - 1 -> S] : Results(k - 1, f)
    BY <1>2
  <2> DEFINE g == [i \in 0 .. k |-> IF i = k THEN step[k][f[k - 1]] ELSE f[i]]
  <2>2. f[k - 1] \in S
    OBVIOUS
  <2>3. step[k][f[k - 1]] \in S
    BY <1>0, <2>2
  <2>4. g \in [0 .. k -> S]
    BY <2>3
  <2>5. g[0] = first
    BY <2>1
  <2>6. ASSUME NEW i \in 1 .. k PROVE g[i] = step[i][g[i - 1]]
    <3>1. CASE i = k
      BY <3>1
    <3>2. CASE i # k
      <4>1. i \in 1 .. k - 1 /\ i - 1 \in 0 .. k - 1 /\ i - 1 # k /\ i - 1 \in 0 .. k
        BY <3>2
      <4>2. g[i] = f[i] /\ g[i - 1] = f[i - 1]
        BY <3>2, <4>1
      <4> QED BY <2>1, <4>1, <4>2
    <3> QED BY <3>1, <3>2
  <2> HIDE DEF g
  <2>7. Results(k, g)
    BY <2>5, <2>6
  <2> QED BY <2>4, <2>7
<1> HIDE DEF T
<1>3. \A k \in 0 .. n : k \in T
  BY <1>1, <1>2, UpTo
<1>4. n \in T
  BY <1>3
<1>5. PICK f \in [0 .. n -> S] : Results(n, f)
  BY <1>4 DEF T
<1>6. IsLoop(f, S, n, first, step)
  BY <1>5 DEF IsLoop
<1> QED BY <1>6
-----------------------------------------------------------------------------
(* Numbers and their digits. *)

\* rest[i] is what is left of the number after i digits.
IsRests(rest, number, base, count) ==
    /\ rest \in [0 .. count -> Nat] /\ rest[0] = number
    /\ \A i \in 1 .. count : rest[i] = rest[i - 1] \div base

\* The digits are taken off one by one.
LEMMA RestsAre ==
  ASSUME NEW number \in Nat, NEW base \in {2, 128}, NEW count \in Nat
  PROVE  IsRests(Rests(number, base, count), number, base, count)
<1> DEFINE After(x) == x \div base
           step == [i \in 1 .. count |-> [x \in Nat |-> After(x)]]
           IsRest(f) == f = [i \in 0 .. count |-> IF i = 0 THEN number ELSE After(f[i - 1])]
           rest == CHOOSE f : IsRest(f)
<1>1. \A x \in Nat : After(x) \in Nat
  <2>1. CASE base = 2
    BY <2>1
  <2>2. CASE base = 128
    BY <2>2
  <2> QED BY <2>1, <2>2
<1>2. Rests(number, base, count) = rest
  BY DEF Rests
<1> HIDE DEF After
<1>3. \A x \in Nat, i \in 1 .. count : step[i][x] = After(x)
  OBVIOUS
<1>a. IsStep(Nat, count, step)
  BY <1>1 DEF IsStep
<1> HIDE DEF step
<1>b. PICK f : IsLoop(f, Nat, count, number, step)
  BY <1>a, Iterates
<1>4. f \in [0 .. count -> Nat] /\ f[0] = number /\ \A i \in 1 .. count : f[i] = step[i][f[i - 1]]
  BY <1>b DEF IsLoop
<1>5. ASSUME NEW i \in 1 .. count PROVE f[i] = After(f[i - 1])
  <2>1. PICK x \in Nat : x = f[i - 1]
    BY <1>4
  <2>2. step[i][x] = After(x)
    BY <1>3
  <2> QED BY <1>4, <2>1, <2>2
<1>6. IsRest(f)
  BY <1>4, <1>5
<1>7. IsRest(rest)
  <2> HIDE DEF IsRest
  <2> QED BY <1>6
<1> HIDE DEF rest
<1>8. rest[0] = number /\ \A i \in 1 .. count : rest[i] = After(rest[i - 1])
  BY <1>7
<1> DEFINE T == {i \in 0 .. count : rest[i] \in Nat}
<1>9. 0 \in T
  BY <1>8
<1>10. ASSUME NEW i \in 1 .. count, i - 1 \in T PROVE i \in T
  <2>1. rest[i] = After(rest[i - 1])
    BY <1>8
  <2>2. PICK x \in Nat : x = rest[i - 1]
    BY <1>10
  <2>3. After(x) \in Nat
    BY <1>1
  <2> QED BY <2>1, <2>2, <2>3
<1> HIDE DEF T
<1>11. \A i \in 0 .. count : i \in T
  BY <1>9, <1>10, UpTo
<1>12. rest \in [0 .. count -> Nat]
  BY <1>7, <1>11 DEF T
<1> QED BY <1>2, <1>8, <1>12 DEF After, IsRests

\* above[i] is the value of the last i digits.
IsAbove(above, digits, base, n) ==
    /\ above \in [0 .. n -> Nat] /\ above[0] = 0
    /\ \A i \in 1 .. n : above[i] = digits[n + 1 - i] + base * above[i - 1]

\* n digits.
IsDigits(digits, n) ==
    DOMAIN digits = 1 .. n /\ Len(digits) = n /\ \A i \in 1 .. n : digits[i] \in Nat

\* Digits are added one by one.
LEMMA ValueIs ==
  ASSUME NEW n \in Nat, NEW base \in {2, 128}, NEW digits, IsDigits(digits, n)
  PROVE  \E above : IsAbove(above, digits, base, n) /\ Value(digits, base) = above[n]
<1>0. Len(digits) = n /\ \A i \in 1 .. n : digits[i] \in Nat
  BY DEF IsDigits
<1> DEFINE After(i, x) == digits[n + 1 - i] + base * x
           step == [i \in 1 .. n |-> [x \in Nat |-> After(i, x)]]
           IsSum(f) == f = [i \in 0 .. n |-> IF i = 0 THEN 0 ELSE After(i, f[i - 1])]
           above == CHOOSE f : IsSum(f)
<1>1. \A i \in 1 .. n, x \in Nat : After(i, x) \in Nat
  <2>1. \A i \in 1 .. n : digits[n + 1 - i] \in Nat
    BY <1>0
  <2>2. CASE base = 2
    BY <2>1, <2>2
  <2>3. CASE base = 128
    BY <2>1, <2>3
  <2> QED BY <2>2, <2>3
<1>2. Value(digits, base) = above[n]
  BY <1>0 DEF Value
<1> HIDE DEF After
<1>3. \A x \in Nat, i \in 1 .. n : step[i][x] = After(i, x)
  OBVIOUS
<1>a. IsStep(Nat, n, step)
  BY <1>1 DEF IsStep
<1> HIDE DEF step
<1>b. PICK f : IsLoop(f, Nat, n, 0, step)
  BY <1>a, Iterates
<1>4. f \in [0 .. n -> Nat] /\ f[0] = 0 /\ \A i \in 1 .. n : f[i] = step[i][f[i - 1]]
  BY <1>b DEF IsLoop
<1>5. ASSUME NEW i \in 1 .. n PROVE f[i] = After(i, f[i - 1])
  <2>1. PICK x \in Nat : x = f[i - 1]
    BY <1>4
  <2>2. step[i][x] = After(i, x)
    BY <1>3
  <2> QED BY <1>4, <2>1, <2>2
<1>6. IsSum(f)
  BY <1>4, <1>5
<1>7. IsSum(above)
  <2> HIDE DEF IsSum
  <2> QED BY <1>6
<1> HIDE DEF above
<1>8. above[0] = 0 /\ \A i \in 1 .. n : above[i] = After(i, above[i - 1])
  BY <1>7
<1> DEFINE T == {i \in 0 .. n : above[i] \in Nat}
<1>9. 0 \in T
  BY <1>8
<1>10. ASSUME NEW i \in 1 .. n, i - 1 \in T PROVE i \in T
  <2>1. above[i] = After(i, above[i - 1])
    BY <1>8
  <2>2. PICK x \in Nat : x = above[i - 1]
    BY <1>10
  <2>3. After(i, x) \in Nat
    BY <1>1
  <2> QED BY <2>1, <2>2, <2>3
<1> HIDE DEF T
<1>11. \A i \in 0 .. n : i \in T
  BY <1>9, <1>10, UpTo
<1>12. above \in [0 .. n -> Nat]
  BY <1>7, <1>11 DEF T
<1>13. IsAbove(above, digits, base, n)
  BY <1>8, <1>12 DEF After, IsAbove
<1> QED BY <1>2, <1>13

\* A number is the value of its digits when there is no more of it than those.
LEMMA DigitsRoundTrip ==
  ASSUME NEW number \in Nat, NEW base \in {2, 128}, NEW n \in Nat, NEW count \in Nat, n <= count,
         Rests(number, base, count)[n] = 0,
         NEW digits, DOMAIN digits = 1 .. n, Len(digits) = n,
         \A i \in 1 .. n : digits[i] = Rests(number, base, count)[i - 1] % base
  PROVE  Value(digits, base) = number
<1> DEFINE rest == Rests(number, base, count)
<1>1. IsRests(rest, number, base, count)
  BY RestsAre
<1> HIDE DEF rest
<1>2. /\ rest \in [0 .. count -> Nat] /\ rest[0] = number
      /\ \A i \in 1 .. count : rest[i] = rest[i - 1] \div base
  BY <1>1 DEF IsRests
<1>3. \A x \in Nat : x % base \in Nat /\ (x % base) + base * (x \div base) = x
  <2>1. CASE base = 2
    <3>1. \A x \in Nat : x % 2 \in Nat /\ (x % 2) + 2 * (x \div 2) = x
      OBVIOUS
    <3> QED BY <2>1, <3>1
  <2>2. CASE base = 128
    <3>1. \A x \in Nat : x % 128 \in Nat /\ (x % 128) + 128 * (x \div 128) = x
      OBVIOUS
    <3> QED BY <2>2, <3>1
  <2> QED BY <2>1, <2>2
<1>4. \A i \in 1 .. n : i - 1 \in 0 .. count /\ digits[i] = rest[i - 1] % base /\ digits[i] \in Nat
  <2>1. TAKE i \in 1 .. n
  <2>2. PICK x \in Nat : x = rest[i - 1]
    BY <1>2
  <2>3. digits[i] = x % base
    BY <2>2 DEF rest
  <2> QED BY <1>3, <2>2, <2>3
<1>5. PICK above : IsAbove(above, digits, base, n) /\ Value(digits, base) = above[n]
  <2>1. IsDigits(digits, n)
    BY <1>4 DEF IsDigits
  <2> QED BY <2>1, ValueIs
<1>a. above[0] = 0 /\ \A i \in 1 .. n : above[i] = digits[n + 1 - i] + base * above[i - 1]
  BY <1>5 DEF IsAbove
<1> DEFINE T == {i \in 0 .. n : above[i] = rest[n - i]}
<1>6. 0 \in T
  <2>1. rest[n] = 0 /\ n - 0 = n
    BY DEF rest
  <2> QED BY <1>a, <2>1
<1>7. ASSUME NEW i \in 1 .. n, i - 1 \in T PROVE i \in T
  <2>1. n + 1 - i \in 1 .. n /\ n + 1 - i \in 1 .. count /\ n - (i - 1) = n + 1 - i /\ (n + 1 - i) - 1 = n - i
        /\ n - i \in 0 .. count
    OBVIOUS
  <2>2. above[i - 1] = rest[n + 1 - i] /\ rest[n + 1 - i] = rest[n - i] \div base
    BY <1>2, <1>7, <2>1
  <2>3. digits[n + 1 - i] = rest[n - i] % base
    BY <1>4, <2>1
  <2>4. rest[n - i] \in Nat
    BY <1>2, <2>1
  <2>5. above[i] = (rest[n - i] % base) + base * (rest[n - i] \div base)
    BY <1>a, <2>2, <2>3
  <2>6. (rest[n - i] % base) + base * (rest[n - i] \div base) = rest[n - i]
    BY <1>3, <2>4
  <2> QED BY <2>5, <2>6
<1> HIDE DEF T
<1>8. \A i \in 0 .. n : i \in T
  BY <1>6, <1>7, UpTo
<1>9. n \in 0 .. n /\ n - n = 0
  OBVIOUS
<1> QED BY <1>2, <1>5, <1>8, <1>9 DEF T

\* Halving halves the bound.
LEMMA Halving ==
  ASSUME NEW number \in Nat, NEW count \in Nat
  PROVE  \A i \in 1 .. count, k \in Nat :
            Rests(number, 2, count)[i - 1] < 2 * k => Rests(number, 2, count)[i] < k
<1> DEFINE rest == Rests(number, 2, count)
<1>1. IsRests(rest, number, 2, count)
  BY RestsAre
<1> HIDE DEF rest
<1>2. ASSUME NEW i \in 1 .. count, NEW k \in Nat, rest[i - 1] < 2 * k PROVE rest[i] < k
  <2>1. rest[i - 1] \in Nat /\ rest[i] = rest[i - 1] \div 2
    BY <1>1 DEF IsRests
  <2> QED BY <1>2, <2>1
<1> QED BY <1>2 DEF rest

\* The numbers that 4, 7, 8 and 16 bits hold.
Limit(count) == IF count = 4 THEN 16 ELSE IF count = 7 THEN 128 ELSE IF count = 8 THEN 256 ELSE 65536

\* Nothing is left of such a number after its bits.
LEMMA AllBits ==
  ASSUME NEW count \in {4, 7, 8, 16}, NEW number \in Nat, number < Limit(count)
  PROVE  Rests(number, 2, count)[count] = 0
<1> DEFINE rest == Rests(number, 2, count)
<1>1. IsRests(rest, number, 2, count)
  BY RestsAre
<1>2. \A i \in 1 .. count, k \in Nat : rest[i - 1] < 2 * k => rest[i] < k
  BY Halving
<1> HIDE DEF rest
<1>3. rest[0] = number /\ rest[count] \in Nat
  BY <1>1 DEF IsRests
<1>4. CASE count = 4
  <2>0. rest[0] < 16
    BY <1>3, <1>4 DEF Limit
  <2>1. rest[1] < 8
    BY <1>2, <1>4, <2>0
  <2>2. rest[2] < 4
    BY <1>2, <1>4, <2>1
  <2>3. rest[3] < 2
    BY <1>2, <1>4, <2>2
  <2>4. rest[4] < 1
    BY <1>2, <1>4, <2>3
  <2> QED BY <1>3, <1>4, <2>4 DEF rest
<1>5. CASE count = 7
  <2>0. rest[0] < 128
    BY <1>3, <1>5 DEF Limit
  <2>1. rest[1] < 64
    BY <1>2, <1>5, <2>0
  <2>2. rest[2] < 32
    BY <1>2, <1>5, <2>1
  <2>3. rest[3] < 16
    BY <1>2, <1>5, <2>2
  <2>4. rest[4] < 8
    BY <1>2, <1>5, <2>3
  <2>5. rest[5] < 4
    BY <1>2, <1>5, <2>4
  <2>6. rest[6] < 2
    BY <1>2, <1>5, <2>5
  <2>7. rest[7] < 1
    BY <1>2, <1>5, <2>6
  <2> QED BY <1>3, <1>5, <2>7 DEF rest
<1>6. CASE count = 8
  <2>0. rest[0] < 256
    BY <1>3, <1>6 DEF Limit
  <2>1. rest[1] < 128
    BY <1>2, <1>6, <2>0
  <2>2. rest[2] < 64
    BY <1>2, <1>6, <2>1
  <2>3. rest[3] < 32
    BY <1>2, <1>6, <2>2
  <2>4. rest[4] < 16
    BY <1>2, <1>6, <2>3
  <2>5. rest[5] < 8
    BY <1>2, <1>6, <2>4
  <2>6. rest[6] < 4
    BY <1>2, <1>6, <2>5
  <2>7. rest[7] < 2
    BY <1>2, <1>6, <2>6
  <2>8. rest[8] < 1
    BY <1>2, <1>6, <2>7
  <2> QED BY <1>3, <1>6, <2>8 DEF rest
<1>7. CASE count = 16
  <2>0. rest[0] < 65536
    BY <1>3, <1>7 DEF Limit
  <2>1. rest[1] < 32768
    BY <1>2, <1>7, <2>0
  <2>2. rest[2] < 16384
    BY <1>2, <1>7, <2>1
  <2>3. rest[3] < 8192
    BY <1>2, <1>7, <2>2
  <2>4. rest[4] < 4096
    BY <1>2, <1>7, <2>3
  <2>5. rest[5] < 2048
    BY <1>2, <1>7, <2>4
  <2>6. rest[6] < 1024
    BY <1>2, <1>7, <2>5
  <2>7. rest[7] < 512
    BY <1>2, <1>7, <2>6
  <2>8. rest[8] < 256
    BY <1>2, <1>7, <2>7
  <2>9. rest[9] < 128
    BY <1>2, <1>7, <2>8
  <2>10. rest[10] < 64
    BY <1>2, <1>7, <2>9
  <2>11. rest[11] < 32
    BY <1>2, <1>7, <2>10
  <2>12. rest[12] < 16
    BY <1>2, <1>7, <2>11
  <2>13. rest[13] < 8
    BY <1>2, <1>7, <2>12
  <2>14. rest[14] < 4
    BY <1>2, <1>7, <2>13
  <2>15. rest[15] < 2
    BY <1>2, <1>7, <2>14
  <2>16. rest[16] < 1
    BY <1>2, <1>7, <2>15
  <2> QED BY <1>3, <1>7, <2>16 DEF rest
<1> QED BY <1>4, <1>5, <1>6, <1>7

\* Bits are bits.
LEMMA BitsAre ==
  ASSUME NEW number \in Nat, NEW count \in Nat
  PROVE  /\ Bits(number, count) \in Seq({0, 1}) /\ Len(Bits(number, count)) = count
         /\ DOMAIN Bits(number, count) = 1 .. count
<1> DEFINE rest == Rests(number, 2, count)
           bits == Bits(number, count)
<1>1. IsRests(rest, number, 2, count)
  BY RestsAre
<1>2. bits = [i \in 1 .. count |-> rest[i - 1] % 2]
  BY DEF Bits
<1> HIDE DEF rest, bits
<1>3. ASSUME NEW i \in 1 .. count PROVE rest[i - 1] % 2 \in {0, 1}
  <2>1. PICK x \in Nat : x = rest[i - 1]
    BY <1>1 DEF IsRests
  <2> QED BY <2>1
<1>4. bits \in [1 .. count -> {0, 1}]
  BY <1>2, <1>3
<1>5. bits \in Seq({0, 1})
  BY <1>4 DEF Seq
<1>6. Len(bits) = count /\ DOMAIN bits = 1 .. count
  BY <1>4, <1>5, LenProperties
<1> QED BY <1>5, <1>6 DEF bits

\* The bits of a number that fits are its bits.
LEMMA NumberIs ==
  ASSUME NEW count \in {4, 7, 8, 16}, NEW number \in Nat, number < Limit(count),
         NEW bits \in Seq({0, 1}), Len(bits) = count,
         \A i \in 1 .. count : bits[i] = Bits(number, count)[i]
  PROVE  Number(bits) = number
<1>1. Rests(number, 2, count)[count] = 0
  BY AllBits
<1>2. \A i \in 1 .. count : bits[i] = Rests(number, 2, count)[i - 1] % 2
  BY DEF Bits
<1>3. DOMAIN bits = 1 .. count
  BY LenProperties
<1>4. Value(bits, 2) = number
  BY <1>1, <1>2, <1>3, DigitsRoundTrip
<1> QED BY <1>4 DEF Number

\* Seven bits of a byte are those of what is below 128, and the eighth is the rest.
LEMMA GroupBits ==
  ASSUME NEW low \in 0 .. 127, NEW more \in {0, 1}
  PROVE  /\ \A b \in 1 .. 7 : Bits(low + 128 * more, 8)[b] = Bits(low, 7)[b]
         /\ Bits(low + 128 * more, 8)[8] = more
<1> DEFINE byte == low + 128 * more
           r == Rests(byte, 2, 8)
           s == Rests(low, 2, 7)
<1>1. byte \in Nat /\ low \in Nat /\ low < 128
  OBVIOUS
<1>2. IsRests(r, byte, 2, 8) /\ IsRests(s, low, 2, 7)
  BY <1>1, RestsAre
<1>3. s[7] = 0
  BY <1>1, AllBits DEF Limit
<1>4. /\ \A b \in 1 .. 7 : Bits(byte, 8)[b] = r[b - 1] % 2 /\ Bits(low, 7)[b] = s[b - 1] % 2
      /\ Bits(byte, 8)[8] = r[7] % 2
  BY DEF Bits
<1> HIDE DEF r, s
<1>5. /\ r[0] = low + 128 * more /\ s[0] = low
      /\ \A i \in 0 .. 7 : s[i] \in Nat /\ (i > 0 => s[i] = s[i - 1] \div 2 /\ r[i] = r[i - 1] \div 2)
  BY <1>2 DEF IsRests
<1>6. r[1] = s[1] + 64 * more /\ r[0] % 2 = s[0] % 2
  <2>1. r[0] = s[0] + 128 * more /\ s[0] \in Nat
    BY <1>5
  <2>2. s[1] = s[0] \div 2 /\ r[1] = r[0] \div 2
    BY <1>5
  <2> QED BY <2>1, <2>2
<1>7. r[2] = s[2] + 32 * more /\ r[1] % 2 = s[1] % 2
  <2>1. r[1] = s[1] + 64 * more /\ s[1] \in Nat
    BY <1>5, <1>6
  <2>2. s[2] = s[1] \div 2 /\ r[2] = r[1] \div 2
    BY <1>5
  <2> QED BY <2>1, <2>2
<1>8. r[3] = s[3] + 16 * more /\ r[2] % 2 = s[2] % 2
  <2>1. r[2] = s[2] + 32 * more /\ s[2] \in Nat
    BY <1>5, <1>7
  <2>2. s[3] = s[2] \div 2 /\ r[3] = r[2] \div 2
    BY <1>5
  <2> QED BY <2>1, <2>2
<1>9. r[4] = s[4] + 8 * more /\ r[3] % 2 = s[3] % 2
  <2>1. r[3] = s[3] + 16 * more /\ s[3] \in Nat
    BY <1>5, <1>8
  <2>2. s[4] = s[3] \div 2 /\ r[4] = r[3] \div 2
    BY <1>5
  <2> QED BY <2>1, <2>2
<1>10. r[5] = s[5] + 4 * more /\ r[4] % 2 = s[4] % 2
  <2>1. r[4] = s[4] + 8 * more /\ s[4] \in Nat
    BY <1>5, <1>9
  <2>2. s[5] = s[4] \div 2 /\ r[5] = r[4] \div 2
    BY <1>5
  <2> QED BY <2>1, <2>2
<1>11. r[6] = s[6] + 2 * more /\ r[5] % 2 = s[5] % 2
  <2>1. r[5] = s[5] + 4 * more /\ s[5] \in Nat
    BY <1>5, <1>10
  <2>2. s[6] = s[5] \div 2 /\ r[6] = r[5] \div 2
    BY <1>5
  <2> QED BY <2>1, <2>2
<1>12. r[7] = s[7] + 1 * more /\ r[6] % 2 = s[6] % 2
  <2>1. r[6] = s[6] + 2 * more /\ s[6] \in Nat
    BY <1>5, <1>11
  <2>2. s[7] = s[6] \div 2 /\ r[7] = r[6] \div 2
    BY <1>5
  <2> QED BY <2>1, <2>2
<1>13. \A b \in 1 .. 7 : r[b - 1] % 2 = s[b - 1] % 2
  <2>1. \A b \in 1 .. 7 : b \in {1, 2, 3, 4, 5, 6, 7}
    OBVIOUS
  <2> QED BY <1>6, <1>7, <1>8, <1>9, <1>10, <1>11, <1>12, <2>1
<1>14. r[7] % 2 = more
  BY <1>3, <1>12
<1> QED BY <1>4, <1>13, <1>14
-----------------------------------------------------------------------------
(* Variable length integers. *)

\* rest[i] is what is left of n after i groups, of which it has g.
IsGroups(rest, n, g) ==
    /\ IsRests(rest, n, 128, n + 1)
    /\ g \in 1 .. n + 1 /\ rest[g] = 0 /\ \A i \in 1 .. g - 1 : rest[i] # 0

\* The groups of a number: there is a last one, and each is a byte.
LEMMA VarULongIs ==
  ASSUME NEW n \in Nat
  PROVE  \E rest, g : /\ IsGroups(rest, n, g) /\ rest = Rests(n, 128, n + 1)
                      /\ ToVarULong(n) = [i \in 1 .. g |-> (rest[i - 1] % 128) + (IF i < g THEN 128 ELSE 0)]
<1> DEFINE rest == Rests(n, 128, n + 1)
           IsLast(g) == rest[g] = 0 /\ \A j \in 1 .. g - 1 : rest[j] # 0
           g == CHOOSE i \in 1 .. n + 1 : IsLast(i)
<1>1. IsRests(rest, n, 128, n + 1)
  BY RestsAre
<1>2. ToVarULong(n) = [i \in 1 .. g |-> (rest[i - 1] % 128) + (IF i < g THEN 128 ELSE 0)]
  BY DEF ToVarULong
<1> HIDE DEF rest
<1> DEFINE T == {i \in 0 .. n + 1 : rest[i] = 0 \/ rest[i] <= n - i}
<1>3. 0 \in T
  BY <1>1 DEF IsRests
<1>4. ASSUME NEW i \in 1 .. n + 1, i - 1 \in T PROVE i \in T
  <2>1. rest[i - 1] \in Nat /\ rest[i] = rest[i - 1] \div 128
    BY <1>1 DEF IsRests
  <2>2. rest[i - 1] = 0 \/ rest[i - 1] <= n - (i - 1)
    BY <1>4
  <2>3. rest[i] = 0 \/ rest[i] < rest[i - 1]
    BY <2>1
  <2>4. rest[i] \in Nat
    BY <2>1
  <2> QED BY <2>1, <2>2, <2>3, <2>4
<1> HIDE DEF T
<1>5. \A i \in 0 .. n + 1 : i \in T
  BY <1>3, <1>4, UpTo
<1>6. rest[n + 1] = 0
  <2>1. rest[n + 1] \in Nat
    BY <1>1 DEF IsRests
  <2>2. n + 1 \in T
    BY <1>5
  <2> QED BY <2>1, <2>2 DEF T
<1> DEFINE ends == {i \in 1 .. n + 1 : rest[i] = 0}
<1>7. n + 1 \in ends /\ ends \in SUBSET Nat
  BY <1>6
<1> HIDE DEF ends
<1>8. PICK m \in ends : \A k \in ends : m <= k
  BY <1>7, LeastElement
<1>9. m \in 1 .. n + 1 /\ IsLast(m)
  BY <1>8 DEF ends
<1>10. g \in 1 .. n + 1 /\ IsLast(g)
  <2> HIDE DEF IsLast
  <2> QED BY <1>9
<1> HIDE DEF g
<1>11. IsGroups(rest, n, g)
  BY <1>1, <1>10 DEF IsGroups
<1> QED BY <1>2, <1>11 DEF rest

\* A variable length integer is bytes.
LEMMA VarULongBytes ==
  ASSUME NEW n \in Nat
  PROVE  ToVarULong(n) \in Seq(Bytes) /\ Len(ToVarULong(n)) \in Nat \ {0}
<1>1. PICK rest, g : /\ IsGroups(rest, n, g)
                     /\ ToVarULong(n) = [i \in 1 .. g |-> (rest[i - 1] % 128) + (IF i < g THEN 128 ELSE 0)]
  BY VarULongIs, SMTT(30)
<1>2. g \in Nat \ {0} /\ \A i \in 1 .. g : rest[i - 1] \in Nat
  <2>1. g \in 1 .. n + 1 /\ rest \in [0 .. n + 1 -> Nat]
    BY <1>1 DEF IsGroups, IsRests
  <2> QED BY <2>1
<1>3. ASSUME NEW i \in 1 .. g PROVE (rest[i - 1] % 128) + (IF i < g THEN 128 ELSE 0) \in Bytes
  <2>1. PICK x \in Nat : x = rest[i - 1]
    BY <1>2
  <2>2. x % 128 \in 0 .. 127
    OBVIOUS
  <2> QED BY <2>1, <2>2 DEF Bytes
<1>4. ToVarULong(n) \in [1 .. g -> Bytes]
  BY <1>1, <1>3
<1>5. ToVarULong(n) \in Seq(Bytes)
  BY <1>2, <1>4 DEF Seq
<1>6. Len(ToVarULong(n)) = g
  BY <1>2, <1>4, <1>5, LenProperties
<1> QED BY <1>2, <1>5, <1>6

\* The array of bits has the bytes at a position.
HoldsBytes(data, pos, bytes) ==
    /\ pos + 8 * Len(bytes) <= Len(data)
    /\ \A j \in 1 .. Len(bytes), b \in 1 .. 8 : data[pos + 8 * (j - 1) + b] = Bits(bytes[j], 8)[b]

\* An array of bits, of whole bytes.
IsData(data) == data \in Seq({0, 1}) /\ Len(data) % 8 = 0

\* A byte within the data is a byte that byteFromBits finds.
LEMMA ByteThere ==
  ASSUME NEW data, IsData(data), NEW pos \in Nat, pos + 8 <= Len(data)
  PROVE  HasByte(data, pos)
<1>1. Len(data) \in Nat /\ Len(data) % 8 = 0
  BY LenProperties DEF IsData
<1>2. pos = 8 * (pos \div 8) + (pos % 8) /\ pos % 8 \in 0 .. 7 /\ pos \div 8 \in Nat
  OBVIOUS
<1>3. Len(data) = 8 * (Len(data) \div 8) /\ Len(data) \div 8 \in Nat
  BY <1>1
<1>4. pos % 8 # 0 => 8 * (pos \div 8) + 16 <= Len(data)
  BY <1>2, <1>3
<1>5. pos % 8 = 0 => 8 * (pos \div 8) + 8 <= Len(data)
  BY <1>2
<1> QED BY <1>4, <1>5 DEF HasByte

\* What toVarULong wrote is what fromVarULong reads.
LEMMA VarULongRead ==
  ASSUME NEW n \in Nat, NEW data, IsData(data), NEW pos \in Nat, HoldsBytes(data, pos, ToVarULong(n))
  PROVE  FromVarULong(data, pos) = [found |-> TRUE, value |-> n, bits |-> 8 * Len(ToVarULong(n))]
<1> DEFINE bytes == ToVarULong(n)
           Group(i) == SubSeq(data, pos + 8 * i - 7, pos + 8 * i - 1)
           More(i) == data[pos + 8 * i] = 1
           last == {k \in 1 .. Len(data) \div 8 :
                      /\ HasByte(data, pos + 8 * (k - 1)) /\ ~More(k)
                      /\ \A i \in 1 .. k - 1 : More(i)}
<1>1. PICK rest, g : /\ IsGroups(rest, n, g) /\ rest = Rests(n, 128, n + 1)
                     /\ bytes = [i \in 1 .. g |-> (rest[i - 1] % 128) + (IF i < g THEN 128 ELSE 0)]
  BY VarULongIs
<1>2. /\ g \in Nat \ {0} /\ g \in 1 .. n + 1 /\ rest[g] = 0
      /\ \A i \in 1 .. g : rest[i - 1] \in Nat
  BY <1>1, SMTT(30) DEF IsGroups, IsRests
<1>3. Len(bytes) = g
  <2>1. bytes \in Seq(Bytes) /\ Len(bytes) \in Nat /\ DOMAIN bytes = 1 .. Len(bytes)
    BY VarULongBytes, LenProperties
  <2>2. DOMAIN bytes = 1 .. g
    BY <1>1
  <2> QED BY <1>2, <2>1, <2>2, SameLength
<1>4. data \in Seq({0, 1}) /\ Len(data) \in Nat /\ pos + 8 * g <= Len(data)
  BY <1>3, LenProperties DEF IsData, HoldsBytes
<1>5. ASSUME NEW j \in 1 .. g
      PROVE  /\ \A b \in 1 .. 7 : data[pos + 8 * (j - 1) + b] = Bits(rest[j - 1] % 128, 7)[b]
             /\ More(j) <=> j < g
  <2>1. PICK low \in 0 .. 127 : low = rest[j - 1] % 128
    <3>1. PICK x \in Nat : x = rest[j - 1]
      BY <1>2
    <3> QED BY <3>1
  <2>2. PICK more \in {0, 1} : more = IF j < g THEN 1 ELSE 0
    OBVIOUS
  <2>3. bytes[j] = low + 128 * more
    BY <1>1, <2>1, <2>2
  <2>4. \A b \in 1 .. 8 : data[pos + 8 * (j - 1) + b] = Bits(bytes[j], 8)[b]
    BY <1>3 DEF HoldsBytes
  <2> HIDE DEF bytes
  <2>5. /\ \A b \in 1 .. 7 : Bits(bytes[j], 8)[b] = Bits(low, 7)[b]
        /\ Bits(bytes[j], 8)[8] = more
    <3>1. /\ \A b \in 1 .. 7 : Bits(low + 128 * more, 8)[b] = Bits(low, 7)[b]
          /\ Bits(low + 128 * more, 8)[8] = more
      BY GroupBits, ZenonT(60)
    <3> QED BY <2>3, <3>1
  <2>6. pos + 8 * (j - 1) + 8 = pos + 8 * j
    OBVIOUS
  <2>7. data[pos + 8 * j] = more
    BY <2>4, <2>5, <2>6
  <2> QED BY <2>1, <2>2, <2>4, <2>5, <2>7
<1> HIDE DEF bytes, More
<1>6. g \in last
  <2>1. g \in 1 .. Len(data) \div 8
    BY <1>2, <1>4
  <2>2. HasByte(data, pos + 8 * (g - 1))
    BY <1>2, <1>4, ByteThere
  <2>3. ~More(g) /\ \A i \in 1 .. g - 1 : More(i)
    BY <1>2, <1>5
  <2> QED BY <2>1, <2>2, <2>3
<1>7. ASSUME NEW k \in last PROVE k = g
  <2>1. k \in Nat /\ k > 0 /\ ~More(k) /\ \A i \in 1 .. k - 1 : More(i)
    BY <1>7
  <2>2. CASE k < g
    <3>1. More(k)
      BY <1>2, <1>5, <2>1, <2>2
    <3> QED BY <2>1, <3>1
  <2>3. CASE k > g
    <3>1. More(g) /\ ~More(g)
      BY <1>2, <1>5, <2>1, <2>3
    <3> QED BY <3>1
  <2> QED BY <1>2, <2>1, <2>2, <2>3
<1>8. FromVarULong(data, pos) =
        [found |-> TRUE, bits |-> 8 * g, value |-> Value([i \in 1 .. g |-> Number(Group(i))], 128)]
  <2>1. (CHOOSE i \in last : TRUE) = g /\ last # {}
    <3> HIDE DEF last
    <3> QED BY <1>6, <1>7
  <2> HIDE DEF Group
  <2> QED BY <2>1 DEF FromVarULong, More, Group
<1>9. ASSUME NEW j \in 1 .. g PROVE Number(Group(j)) = rest[j - 1] % 128
  <2>1. /\ Group(j) \in Seq({0, 1}) /\ Len(Group(j)) = 7
        /\ \A b \in 1 .. 7 : Group(j)[b] = data[pos + 8 * (j - 1) + b]
    <3> DEFINE from == pos + 8 * j - 7
               to == pos + 8 * j - 1
    <3>1. from \in Nat \ {0} /\ to \in Nat /\ to - from + 1 = 7 /\ from <= to /\ to <= Len(data)
      BY <1>2, <1>4
    <3>2. \A i \in from .. to : data[i] \in {0, 1}
      BY <1>4, <3>1, ElementOfSeq
    <3>3. \A b \in 1 .. 7 : from + b - 1 = pos + 8 * (j - 1) + b
      OBVIOUS
    <3> HIDE DEF from, to
    <3>4. /\ SubSeq(data, from, to) \in Seq({0, 1})
          /\ Len(SubSeq(data, from, to)) = 7
          /\ \A b \in 1 .. 7 : SubSeq(data, from, to)[b] = data[from + b - 1]
      BY <3>1, <3>2, SubSeqProperties
    <3> QED BY <3>3, <3>4 DEF from, to
  <2>2. PICK low \in Nat : low = rest[j - 1] % 128 /\ low < 128
    <3>1. PICK x \in Nat : x = rest[j - 1]
      BY <1>2
    <3> QED BY <3>1
  <2>3. \A b \in 1 .. 7 : Group(j)[b] = Bits(low, 7)[b]
    BY <1>5, <2>1, <2>2
  <2> HIDE DEF Group
  <2>4. low < Limit(7) /\ 7 \in {4, 7, 8, 16}
    BY <2>2 DEF Limit
  <2>5. Number(Group(j)) = low
    BY <2>1, <2>3, <2>4, NumberIs
  <2> QED BY <2>2, <2>5
<1> DEFINE groups == [i \in 1 .. g |-> Number(Group(i))]
<1>10. Value(groups, 128) = n
  <2> HIDE DEF Group
  <2>1. DOMAIN groups = 1 .. g /\ \A i \in 1 .. g : groups[i] = rest[i - 1] % 128
    BY <1>9
  <2>2. Len(groups) = g
    BY <1>2
  <2> HIDE DEF groups
  <2>3. \A i \in 1 .. g : groups[i] = Rests(n, 128, n + 1)[i - 1] % 128
    BY <1>1, <2>1
  <2>4. g \in Nat /\ n + 1 \in Nat /\ g <= n + 1 /\ 128 \in {2, 128} /\ Rests(n, 128, n + 1)[g] = 0
    BY <1>1, <1>2
  <2> QED BY <2>1, <2>2, <2>3, <2>4, DigitsRoundTrip
<1> QED BY <1>3, <1>8, <1>10 DEF bytes

-----------------------------------------------------------------------------
(* Copying bits. *)

\* Padding appends zeros up to a number of bytes.
LEMMA PaddedIs ==
  ASSUME NEW data, IsData(data), NEW bytes \in Nat
  PROVE  /\ IsData(Padded(data, bytes)) /\ Len(data) \in Nat
         /\ Len(Padded(data, bytes)) = IF 8 * bytes > Len(data) THEN 8 * bytes ELSE Len(data)
         /\ \A k \in 1 .. Len(data) : Padded(data, bytes)[k] = data[k]
<1> DEFINE more == 8 * bytes - Len(data)
           zeros == [i \in 1 .. more |-> 0]
<1>1. data \in Seq({0, 1}) /\ Len(data) \in Nat /\ Len(data) % 8 = 0
  BY LenProperties DEF IsData
<1>2. PICK n \in Nat : 1 .. more = 1 .. n /\ n = IF 8 * bytes > Len(data) THEN more ELSE 0
  <2>1. CASE 8 * bytes > Len(data)
    BY <1>1, <2>1
  <2>2. CASE ~(8 * bytes > Len(data))
    <3>1. 1 .. more = 1 .. 0
      BY <1>1, <2>2
    <3> QED BY <2>2, <3>1
  <2> QED BY <2>1, <2>2
<1>3. zeros \in [1 .. n -> {0, 1}]
  BY <1>2
<1>4. zeros \in Seq({0, 1})
  BY <1>3 DEF Seq
<1>5. Len(zeros) = n
  BY <1>3, <1>4, LenProperties, SameLength
<1>6. Padded(data, bytes) = data \o zeros
  BY DEF Padded, BITS_PER_BYTE
<1>7. Len(data) + n = IF 8 * bytes > Len(data) THEN 8 * bytes ELSE Len(data)
  BY <1>1, <1>2
<1> HIDE DEF zeros, more
<1>8. /\ data \o zeros \in Seq({0, 1}) /\ Len(data \o zeros) = Len(data) + n
      /\ \A k \in 1 .. Len(data) : (data \o zeros)[k] = data[k]
  BY <1>1, <1>4, <1>5, SeqConcat, ZenonT(60)
<1>9. (Len(data) + n) % 8 = 0
  BY <1>1, <1>7
<1> QED BY <1>1, <1>6, <1>7, <1>8, <1>9 DEF IsData

\* Copied bits stand at their position, and the others stay.
LEMMA OverlayIs ==
  ASSUME NEW data, IsData(data), NEW bits \in Seq({0, 1}), NEW pos \in Nat
  PROVE  /\ IsData(Overlay(bits, data, pos)) /\ Len(Overlay(bits, data, pos)) = Len(data)
         /\ Len(data) \in Nat /\ Len(bits) \in Nat
         /\ \A k \in 1 .. Len(data) :
               Overlay(bits, data, pos)[k] = IF pos < k /\ k <= pos + Len(bits) THEN bits[k - pos] ELSE data[k]
<1> DEFINE o == Overlay(bits, data, pos)
<1>1. data \in Seq({0, 1}) /\ Len(data) \in Nat /\ Len(data) % 8 = 0 /\ DOMAIN data = 1 .. Len(data)
  BY LenProperties DEF IsData
<1>2. Len(bits) \in Nat /\ DOMAIN bits = 1 .. Len(bits)
  BY LenProperties
<1>3. o = [k \in 1 .. Len(data) |-> IF k - pos \in 1 .. Len(bits) THEN bits[k - pos] ELSE data[k]]
  BY <1>1, <1>2 DEF Overlay
<1>4. ASSUME NEW k \in 1 .. Len(data) PROVE (IF k - pos \in 1 .. Len(bits) THEN bits[k - pos] ELSE data[k]) \in {0, 1}
  <2>1. data[k] \in {0, 1}
    BY <1>1, ElementOfSeq
  <2>2. k - pos \in 1 .. Len(bits) => bits[k - pos] \in {0, 1}
    BY <1>2, ElementOfSeq
  <2> QED BY <2>1, <2>2
<1>5. o \in [1 .. Len(data) -> {0, 1}]
  BY <1>3, <1>4
<1>6. o \in Seq({0, 1})
  BY <1>1, <1>5 DEF Seq
<1>7. Len(o) = Len(data)
  BY <1>1, <1>5, <1>6, LenProperties, SameLength
<1>8. \A k \in 1 .. Len(data) : k - pos \in 1 .. Len(bits) <=> pos < k /\ k <= pos + Len(bits)
  BY <1>1, <1>2
<1>9. \A k \in 1 .. Len(data) : o[k] = IF pos < k /\ k <= pos + Len(bits) THEN bits[k - pos] ELSE data[k]
  BY <1>3, <1>8
<1> QED BY <1>1, <1>2, <1>6, <1>7, <1>9 DEF IsData

\* The bits of bytes, byte after byte.
LEMMA BitsOfBytes ==
  ASSUME NEW bytes \in Seq(Bytes)
  PROVE  /\ BitsOf(bytes) \in Seq({0, 1}) /\ Len(BitsOf(bytes)) = 8 * Len(bytes) /\ Len(bytes) \in Nat
         /\ \A j \in 1 .. Len(bytes), b \in 1 .. 8 : BitsOf(bytes)[8 * (j - 1) + b] = Bits(bytes[j], 8)[b]
<1> DEFINE bits == [j \in DOMAIN bytes |-> Bits(bytes[j], 8)]
           all == BitsOf(bytes)
<1>1. Len(bytes) \in Nat /\ DOMAIN bytes = 1 .. Len(bytes) /\ \A j \in 1 .. Len(bytes) : bytes[j] \in Nat
  <2>1. \A j \in 1 .. Len(bytes) : bytes[j] \in Bytes
    BY SeqElement
  <2>2. \A j \in 1 .. Len(bytes) : bytes[j] \in Nat
    <3>1. \A b \in Bytes : b \in Nat
      BY DEF Bytes
    <3> QED BY <2>1, <3>1
  <2> QED BY <2>2, LenProperties
<1>2. \A j \in 1 .. Len(bytes) : /\ bits[j] = Bits(bytes[j], 8)
                                 /\ \A b \in 1 .. 8 : Bits(bytes[j], 8)[b] \in {0, 1}
  <2> TAKE j \in 1 .. Len(bytes)
  <2>1. Bits(bytes[j], 8) \in Seq({0, 1}) /\ Len(Bits(bytes[j], 8)) = 8
    BY <1>1, BitsAre
  <2>2. bits[j] = Bits(bytes[j], 8)
    BY <1>1
  <2> HIDE DEF bits
  <2>3. \A b \in 1 .. 8 : Bits(bytes[j], 8)[b] \in {0, 1}
    BY <2>1, ElementOfSeq
  <2> QED BY <2>2, <2>3
<1>3. all = [i \in 1 .. 8 * Len(bytes) |-> bits[((i - 1) \div 8) + 1][((i - 1) % 8) + 1]]
  BY DEF BitsOf, BITS_PER_BYTE
<1> HIDE DEF bits
<1>4. ASSUME NEW i \in 1 .. 8 * Len(bytes)
      PROVE  ((i - 1) \div 8) + 1 \in 1 .. Len(bytes) /\ ((i - 1) % 8) + 1 \in 1 .. 8
  BY <1>1
<1>5. all \in [1 .. 8 * Len(bytes) -> {0, 1}]
  <2>1. ASSUME NEW i \in 1 .. 8 * Len(bytes) PROVE bits[((i - 1) \div 8) + 1][((i - 1) % 8) + 1] \in {0, 1}
    <3>1. PICK j \in 1 .. Len(bytes) : j = ((i - 1) \div 8) + 1
      BY <1>4
    <3>2. PICK b \in 1 .. 8 : b = ((i - 1) % 8) + 1
      BY <1>4
    <3>3. bits[j][b] \in {0, 1}
      BY <1>2
    <3> QED BY <3>1, <3>2, <3>3
  <2> QED BY <1>3, <2>1
<1>6. all \in Seq({0, 1})
  BY <1>1, <1>5 DEF Seq
<1>7. Len(all) = 8 * Len(bytes)
  BY <1>1, <1>5, <1>6, LenProperties, SameLength
<1>8. ASSUME NEW j \in 1 .. Len(bytes), NEW b \in 1 .. 8
      PROVE  all[8 * (j - 1) + b] = Bits(bytes[j], 8)[b]
  <2>1. PICK i \in 1 .. 8 * Len(bytes) : i = 8 * (j - 1) + b
    BY <1>1
  <2>2. ((i - 1) \div 8) + 1 = j /\ ((i - 1) % 8) + 1 = b
    BY <2>1
  <2>3. all[i] = bits[j][b]
    BY <1>3, <2>2
  <2> QED BY <1>2, <2>1, <2>3
<1> QED BY <1>1, <1>6, <1>7, <1>8 DEF all

\* The bits up to a position are the same, and none are lost.
SameBelow(data, after, pos) ==
    Len(data) <= Len(after) /\ \A k \in 1 .. Len(data) : k <= pos => after[k] = data[k]

\* Nor are those behind another position changed.
SameAround(data, after, from, to) ==
    /\ Len(data) <= Len(after)
    /\ \A k \in 1 .. Len(data) : k <= from \/ to < k => after[k] = data[k]

\* Bytes copied into data that has room for them.
LEMMA BytesCopied ==
  ASSUME NEW data, IsData(data), NEW bytes \in Seq(Bytes), NEW pos \in Nat, NEW room \in Nat,
         pos + 8 * Len(bytes) <= 8 * room,
         NEW after, after = Overlay(BitsOf(bytes), Padded(data, room), pos)
  PROVE  /\ IsData(after) /\ Len(after) = (IF 8 * room > Len(data) THEN 8 * room ELSE Len(data))
         /\ SameAround(data, after, pos, pos + 8 * Len(bytes))
         /\ HoldsBytes(after, pos, bytes)
<1> DEFINE bits == BitsOf(bytes)
           padded == Padded(data, room)
<1>1. /\ bits \in Seq({0, 1}) /\ Len(bits) = 8 * Len(bytes) /\ Len(bytes) \in Nat
      /\ \A j \in 1 .. Len(bytes), b \in 1 .. 8 : bits[8 * (j - 1) + b] = Bits(bytes[j], 8)[b]
  BY BitsOfBytes
<1>2. /\ IsData(padded) /\ Len(data) \in Nat
      /\ Len(padded) = (IF 8 * room > Len(data) THEN 8 * room ELSE Len(data))
      /\ \A k \in 1 .. Len(data) : padded[k] = data[k]
  BY PaddedIs
<1> HIDE DEF bits, padded
<1>3. /\ IsData(after) /\ Len(after) = Len(padded)
      /\ \A k \in 1 .. Len(padded) :
            after[k] = IF pos < k /\ k <= pos + Len(bits) THEN bits[k - pos] ELSE padded[k]
  BY <1>1, <1>2, OverlayIs DEF bits, padded
<1>4. Len(after) \in Nat /\ Len(data) <= Len(after) /\ pos + 8 * Len(bytes) <= Len(after)
  BY <1>1, <1>2, <1>3
<1>5. SameAround(data, after, pos, pos + 8 * Len(bytes))
  <2>1. ASSUME NEW k \in 1 .. Len(data), k <= pos \/ pos + 8 * Len(bytes) < k PROVE after[k] = data[k]
    <3>1. k \in 1 .. Len(padded) /\ ~(pos < k /\ k <= pos + Len(bits))
      BY <1>1, <1>2, <2>1
    <3> QED BY <1>2, <1>3, <3>1
  <2> QED BY <1>4, <2>1 DEF SameAround
<1>6. ASSUME NEW j \in 1 .. Len(bytes), NEW b \in 1 .. 8
      PROVE  after[pos + 8 * (j - 1) + b] = Bits(bytes[j], 8)[b]
  <2>1. PICK i \in 1 .. 8 * Len(bytes) : i = 8 * (j - 1) + b
    BY <1>1
  <2>2. pos + i \in 1 .. Len(padded) /\ pos < pos + i /\ pos + i <= pos + Len(bits) /\ (pos + i) - pos = i
    BY <1>1, <1>2, <2>1, SMTT(30)
  <2>3. after[pos + i] = bits[i]
    BY <1>3, <2>2
  <2>4. pos + 8 * (j - 1) + b = pos + i
    BY <2>1
  <2> QED BY <1>1, <2>1, <2>3, <2>4
<1> QED BY <1>2, <1>3, <1>4, <1>5, <1>6 DEF HoldsBytes

-----------------------------------------------------------------------------
(* Puts leave messages. *)

\* Messages whose payload is whole bytes, with both positions within it.
Messages ==
    {m \in [header : Nat, msgID : Nat, seqID : Nat, data : Seq({0, 1}),
            readBit : Nat, writeBit : Nat, raised : BOOLEAN] :
        IsData(m.data) /\ m.readBit <= Len(m.data) /\ m.writeBit <= Len(m.data)}

\* A put leaves all but the data, its end and whether it raised.
SameFields(m, r) ==
    r.header = m.header /\ r.msgID = m.msgID /\ r.seqID = m.seqID /\ r.readBit = m.readBit

\* What is known of a message.
LEMMA MessageIs ==
  ASSUME NEW m \in Messages
  PROVE  /\ m.header \in Nat /\ m.msgID \in Nat /\ m.seqID \in Nat
         /\ m.data \in Seq({0, 1}) /\ IsData(m.data) /\ Len(m.data) \in Nat /\ Len(m.data) % 8 = 0
         /\ m.readBit \in Nat /\ m.writeBit \in Nat /\ m.raised \in BOOLEAN
         /\ m.readBit <= Len(m.data) /\ m.writeBit <= Len(m.data)
  BY LenProperties DEF Messages, IsData

\* A message with more data.
With(m, data, end) == [m EXCEPT !.data = data, !.writeBit = end]

\* A message with other data and another write position is a message.
LEMMA WithData ==
  ASSUME NEW m \in Messages, NEW data, IsData(data), Len(m.data) <= Len(data),
         NEW end \in Nat, end <= Len(data)
  PROVE  /\ With(m, data, end) \in Messages /\ With(m, data, end).data = data
         /\ With(m, data, end).writeBit = end /\ With(m, data, end).raised = m.raised
         /\ SameFields(m, With(m, data, end))
<1> DEFINE r == With(m, data, end)
<1>0. r = [m EXCEPT !.data = data, !.writeBit = end]
  BY DEF With
<1> HIDE DEF r
<1>1. /\ m.readBit \in Nat /\ m.readBit <= Len(m.data) /\ Len(m.data) \in Nat
      /\ data \in Seq({0, 1}) /\ Len(data) \in Nat
  BY MessageIs, LenProperties DEF IsData
<1>2. m \in [header : Nat, msgID : Nat, seqID : Nat, data : Seq({0, 1}),
             readBit : Nat, writeBit : Nat, raised : BOOLEAN]
  BY DEF Messages
<1>3. /\ r \in [header : Nat, msgID : Nat, seqID : Nat, data : Seq({0, 1}),
                readBit : Nat, writeBit : Nat, raised : BOOLEAN]
      /\ r.data = data /\ r.writeBit = end /\ r.raised = m.raised /\ r.readBit = m.readBit
      /\ r.header = m.header /\ r.msgID = m.msgID /\ r.seqID = m.seqID
  BY <1>0, <1>1, <1>2
<1>4. IsData(r.data) /\ r.readBit <= Len(r.data) /\ r.writeBit <= Len(r.data)
  BY <1>1, <1>3
<1>5. r \in Messages
  BY <1>3, <1>4 DEF Messages
<1> QED BY <1>3, <1>5 DEF SameFields, r

\* An exception marks the message.
LEMMA RaiseIs ==
  ASSUME NEW m \in Messages
  PROVE  /\ Raise(m) \in Messages /\ Raise(m).raised /\ SameFields(m, Raise(m))
         /\ Raise(m).data = m.data /\ Raise(m).writeBit = m.writeBit
  BY DEF Raise, Messages, SameFields

\* Where a put starts, and where the bytes end that it makes room for.
Start(m, pos) == IF pos < 0 THEN m.writeBit ELSE pos

\* Bytes are copied to their place and to no other; appended ones end at the new end, others
\* do not move the end unless they pass the end of the data.
PutsBytes(m, r, bytes, pos) ==
    LET at == Start(m, pos)
    IN  /\ r \in Messages /\ SameFields(m, r) /\ r.raised = m.raised
        /\ SameAround(m.data, r.data, at, at + 8 * Len(bytes))
        /\ HoldsBytes(r.data, at, bytes)
        /\ pos < 0 => r.writeBit = m.writeBit + 8 * Len(bytes)
        /\ pos >= 0 => /\ at + 8 * Len(bytes) <= Len(m.data) =>
                             Len(r.data) = Len(m.data) /\ r.writeBit = m.writeBit
                       /\ m.writeBit <= r.writeBit
                       /\ r.writeBit = m.writeBit \/ r.writeBit = BytesNeeded(at) + Len(bytes)

\* Rounding up to bytes.
LEMMA Rounded ==
  ASSUME NEW n \in Nat
  PROVE  /\ BytesNeeded(n) \in Nat /\ n <= 8 * BytesNeeded(n) /\ 8 * BytesNeeded(n) <= n + 7
         /\ \A k \in Nat : 8 * k >= n => k >= BytesNeeded(n)
<1>1. BytesNeeded(n) = (n + 7) \div 8
  BY DEF BytesNeeded, BITS_PER_BYTE
<1>2. PICK q \in Nat : q = (n + 7) \div 8
  OBVIOUS
<1>3. n <= 8 * q /\ 8 * q <= n + 7
  BY <1>2
<1>4. \A k \in Nat : 8 * k >= n => k >= q
  BY <1>3
<1> QED BY <1>1, <1>2, <1>3, <1>4

\* A multiple of eight.
LEMMA WholeBytes ==
  ASSUME NEW n \in Nat, n % 8 = 0
  PROVE  \E q \in Nat : n = 8 * q
<1>1. n = 8 * (n \div 8) + (n % 8) /\ n \div 8 \in Nat
  OBVIOUS
<1>2. n = 8 * (n \div 8)
  BY <1>1
<1> QED BY <1>1, <1>2

\* What putBytes does.
LEMMA PutBytesIs ==
  ASSUME NEW m \in Messages, NEW bytes \in Seq(Bytes), NEW pos \in Int
  PROVE  PutsBytes(m, PutBytes(m, bytes, pos), bytes, pos)
<1> DEFINE at == Start(m, pos)
           n == Len(bytes)
           room == BytesNeeded(at) + n
           r == PutBytes(m, bytes, pos)
           data == Overlay(BitsOf(bytes), Padded(m.data, room), at)
<1>1. n \in Nat
  BY LenProperties
<1>2. /\ IsData(m.data) /\ Len(m.data) \in Nat /\ Len(m.data) % 8 = 0
      /\ m.writeBit \in Nat /\ m.writeBit <= Len(m.data) /\ m.raised \in BOOLEAN
  BY MessageIs
<1>3. at \in Nat /\ (pos < 0 => at = m.writeBit) /\ (pos >= 0 => at = pos)
  BY <1>2 DEF Start
<1> HIDE DEF at, n
<1>4. /\ BytesNeeded(at) \in Nat /\ at <= 8 * BytesNeeded(at)
      /\ \A k \in Nat : 8 * k >= at => k >= BytesNeeded(at)
  BY <1>3, Rounded
<1>5. room \in Nat /\ at + 8 * n <= 8 * room
  BY <1>1, <1>3, <1>4
<1>6. /\ IsData(data) /\ Len(data) = (IF 8 * room > Len(m.data) THEN 8 * room ELSE Len(m.data))
      /\ SameAround(m.data, data, at, at + 8 * n)
      /\ HoldsBytes(data, at, bytes)
  BY <1>2, <1>3, <1>5, BytesCopied DEF n
<1> DEFINE end == IF pos < 0 THEN m.writeBit + 8 * n
                  ELSE IF Len(m.data) < 8 * room THEN Larger(m.writeBit, room) ELSE m.writeBit
<1>7. r = With(m, data, end)
  <2>1. CASE pos < 0
    BY <1>3, <2>1 DEF PutBytes, AppendBits, BITS_PER_BYTE, n, With
  <2>2. CASE ~(pos < 0)
    <3>1. r = [m EXCEPT !.data = Overlay(BitsOf(bytes), Padded(m.data, BytesNeeded(pos) + Len(bytes)), pos),
                        !.writeBit = IF Len(m.data) < 8 * (BytesNeeded(pos) + Len(bytes))
                                     THEN Larger(m.writeBit, BytesNeeded(pos) + Len(bytes)) ELSE m.writeBit]
      BY <2>2 DEF PutBytes, ReplaceBits, BITS_PER_BYTE
    <3>2. at = pos /\ n = Len(bytes)
      BY <1>3, <2>2 DEF n
    <3> QED BY <2>2, <3>1, <3>2 DEF With
  <2> QED BY <2>1, <2>2
<1> HIDE DEF r, data, room
<1>8. /\ end \in Nat /\ end <= Len(data)
      /\ pos >= 0 => m.writeBit <= end /\ (end = m.writeBit \/ end = room)
  BY <1>1, <1>2, <1>3, <1>5, <1>6, SMTT(30) DEF Larger
<1>9. at + 8 * n <= Len(m.data) => 8 * room <= Len(m.data)
  <2>1. PICK q \in Nat : Len(m.data) = 8 * q
    BY <1>2, WholeBytes
  <2>2. ASSUME at + 8 * n <= 8 * q PROVE room <= q
    <3>1. q - n \in Nat /\ 8 * (q - n) >= at
      BY <1>1, <1>3, <2>2
    <3>2. q - n >= BytesNeeded(at)
      BY <1>4, <3>1
    <3> QED BY <1>1, <1>4, <3>2 DEF room
  <2> QED BY <1>5, <2>1, <2>2
<1>10. pos >= 0 /\ at + 8 * n <= Len(m.data) => Len(data) = Len(m.data) /\ end = m.writeBit
  BY <1>2, <1>5, <1>6, <1>9
<1>11. Len(m.data) <= Len(data) /\ Len(data) \in Nat
  BY <1>2, <1>5, <1>6
<1> HIDE DEF end
<1>12. /\ r \in Messages /\ r.data = data /\ r.writeBit = end /\ r.raised = m.raised
       /\ SameFields(m, r)
  <2>1. IsData(data) /\ Len(m.data) <= Len(data) /\ end \in Nat /\ end <= Len(data)
    BY <1>6, <1>8, <1>11
  <2> QED BY <1>7, <2>1, WithData
<1>13. (pos < 0 => end = m.writeBit + 8 * n) /\ room = BytesNeeded(at) + n
  BY DEF end, room
<1> QED BY <1>6, <1>8, <1>10, <1>12, <1>13 DEF PutsBytes, at, r, n

\* A fixed width type: its size, the room an array of it asks for, and its distance.
IsWidth(w) ==
    /\ w.size \in {1, 2, 4, 8} /\ w.step \in {0, 8 * w.size} /\ w.limit \in Nat
    /\ w.room \in Nat /\ w.each \in BOOLEAN /\ (w.each \/ w.room = 8 * w.size)

\* One element of an array: it is put, or an exception leaves the message.
LEMMA PutElementIs ==
  ASSUME NEW m \in Messages, NEW width, IsWidth(width), NEW pos \in Int,
         NEW bytes \in Seq(Bytes), Len(bytes) = width.size, NEW r, r = PutElement(m, width, bytes, pos)
  PROVE  /\ r \in Messages
         /\ \/ r = m /\ m.raised
            \/ r = Raise(m)
            \/ /\ r = PutBytes(m, bytes, pos) /\ ~m.raised /\ ~r.raised
               /\ width.each => Room(m, 8 * width.size)
<1>1. PutBytes(m, bytes, pos) \in Messages /\ PutBytes(m, bytes, pos).raised = m.raised
  BY PutBytesIs DEF PutsBytes
<1>2. Raise(m) \in Messages /\ m.raised \in BOOLEAN
  BY RaiseIs, MessageIs
<1>a. bytes[1] \in Nat /\ width.limit \in Nat
  <2>1. 1 \in 1 .. Len(bytes)
    BY DEF IsWidth
  <2>2. bytes[1] \in Bytes
    BY <2>1, SeqElement
  <2>3. \A b \in Bytes : b \in Nat
    BY DEF Bytes
  <2> QED BY <2>2, <2>3 DEF IsWidth
<1>b. bytes[1] > width.limit <=> ~(bytes[1] <= width.limit)
  BY <1>a
<1>3. m.raised => PutElement(m, width, bytes, pos) = m
  BY DEF PutElement
<1>4. ~m.raised /\ bytes[1] > width.limit => PutElement(m, width, bytes, pos) = Raise(m)
  BY <1>b DEF PutElement
<1>5. ~m.raised /\ bytes[1] <= width.limit /\ width.each
        => PutElement(m, width, bytes, pos) = PutFixed(m, width, bytes, pos)
  BY <1>b DEF PutElement
<1>6. ~m.raised /\ ~(bytes[1] > width.limit) /\ ~(bytes[1] <= width.limit /\ width.each)
        => PutElement(m, width, bytes, pos) = PutBytes(m, bytes, pos)
  BY DEF PutElement
<1>7. CASE m.raised
  BY <1>2, <1>3, <1>7
<1>8. CASE ~m.raised /\ bytes[1] > width.limit
  BY <1>2, <1>4, <1>8
<1>9. CASE ~m.raised /\ ~(bytes[1] > width.limit) /\ bytes[1] <= width.limit /\ width.each
  BY <1>1, <1>2, <1>5, <1>9 DEF PutFixed, BITS_PER_BYTE
<1>10. CASE ~m.raised /\ ~(bytes[1] > width.limit) /\ ~(bytes[1] <= width.limit /\ width.each)
  <2>1. ~width.each
    BY <1>b, <1>10 DEF IsWidth
  <2> QED BY <1>1, <1>2, <1>6, <1>10, <2>1
<1> QED BY <1>b, <1>2, <1>7, <1>8, <1>9, <1>10

\* The groups of a length are bytes; so many bits are in front of an array.
PrefixBits(n) == 8 * Len(ToVarULong(n))

\* The messages after the elements of an array, one after the other.
IsArrayLoop(f, m, width, elements, pos) ==
    LET n == Len(elements)
        length == ToVarULong(n)
        counted == PutBytes(m, length, pos)
        At(i) == IF pos < 0 THEN pos ELSE pos + PrefixBits(n) + width.step * (i - 1)
    IN  /\ f \in [0 .. n -> Messages] /\ f[0] = counted
        /\ \A i \in 1 .. n : f[i] = PutElement(f[i - 1], width, elements[i], At(i))
        /\ PutArray(m, width, elements, pos) =
              IF Room(counted, width.room * n) THEN f[n] ELSE Raise(counted)

\* Elements as wide as their type.
IsElements(elements, width) ==
    /\ elements \in Seq(Seq(Bytes))
    /\ \A i \in 1 .. Len(elements) : Len(elements[i]) = width.size

\* PutArray is its loop: the message after each element.
LEMMA ArrayLoop ==
  ASSUME NEW m \in Messages, NEW width, IsWidth(width), NEW elements, IsElements(elements, width),
         NEW pos \in Int
  PROVE  \E f : IsArrayLoop(f, m, width, elements, pos)
<1> DEFINE n == Len(elements)
           length == ToVarULong(n)
           counted == PutBytes(m, length, pos)
           At(i) == IF pos < 0 THEN pos ELSE pos + PrefixBits(n) + width.step * (i - 1)
           Put1(x, i) == PutElement(x, width, elements[i], At(i))
           step == [i \in 1 .. n |-> [x \in Messages |-> Put1(x, i)]]
           IsAfter(f) == f = [i \in 0 .. n |-> IF i = 0 THEN counted ELSE Put1(f[i - 1], i)]
           after == CHOOSE f : IsAfter(f)
<1>1. n \in Nat /\ length \in Seq(Bytes) /\ PrefixBits(n) \in Nat
  <2>1. n \in Nat
    BY LenProperties DEF IsElements
  <2>2. length \in Seq(Bytes) /\ Len(length) \in Nat
    BY <2>1, VarULongBytes DEF Bytes
  <2> QED BY <2>1, <2>2 DEF PrefixBits
<1>2. counted \in Messages
  BY <1>1, PutBytesIs DEF PutsBytes
<1>3. \A i \in 1 .. n : At(i) \in Int
  <2>1. width.step \in Nat
    BY DEF IsWidth
  <2>2. \A i \in 1 .. n : width.step * (i - 1) \in Int
    BY <1>1, <2>1
  <2> QED BY <1>1, <2>2
<1>4. PutArray(m, width, elements, pos) = IF Room(counted, width.room * n) THEN after[n] ELSE Raise(counted)
  BY DEF PutArray, PrefixBits, BITS_PER_BYTE
<1> HIDE DEF counted, At, n
<1>5. ASSUME NEW x \in Messages, NEW i \in 1 .. n PROVE Put1(x, i) \in Messages
  <2>1. elements[i] \in Seq(Bytes) /\ Len(elements[i]) = width.size
    BY SeqElement DEF IsElements, n
  <2>2. At(i) \in Int
    BY <1>3
  <2> QED BY <2>1, <2>2, PutElementIs
<1> HIDE DEF Put1
<1>6. \A x \in Messages, i \in 1 .. n : step[i][x] = Put1(x, i)
  OBVIOUS
<1>7. IsStep(Messages, n, step)
  BY <1>5, <1>6 DEF IsStep
<1> HIDE DEF step
<1>8. PICK f : IsLoop(f, Messages, n, counted, step)
  BY <1>1, <1>2, <1>7, Iterates
<1>9. f \in [0 .. n -> Messages] /\ f[0] = counted /\ \A i \in 1 .. n : f[i] = step[i][f[i - 1]]
  BY <1>8 DEF IsLoop
<1>10. \A i \in 1 .. n : f[i] = Put1(f[i - 1], i) /\ f[i - 1] \in Messages
  BY <1>1, <1>6, <1>9
<1>11. IsAfter(f)
  <2> DEFINE g == [i \in 0 .. n |-> IF i = 0 THEN counted ELSE Put1(f[i - 1], i)]
  <2>1. f[0] = g[0] /\ \A i \in 1 .. n : f[i] = g[i]
    BY <1>1, <1>9, <1>10
  <2>2. \A i \in 0 .. n : i = 0 \/ i \in 1 .. n
    BY <1>1
  <2>3. f = [i \in 0 .. n |-> f[i]] /\ g = [i \in 0 .. n |-> g[i]]
    BY <1>9
  <2> HIDE DEF g
  <2>4. f = g
    BY <2>1, <2>2, <2>3
  <2> QED BY <2>4 DEF g
<1>12. IsAfter(after)
  <2> HIDE DEF IsAfter
  <2> QED BY <1>11
<1> HIDE DEF after
<1>13. after[0] = counted /\ \A i \in 1 .. n : after[i] = Put1(after[i - 1], i)
  BY <1>1, <1>12
<1> DEFINE T == {i \in 0 .. n : after[i] \in Messages}
<1>14. 0 \in T
  BY <1>1, <1>2, <1>13
<1>15. ASSUME NEW i \in 1 .. n, i - 1 \in T PROVE i \in T
  BY <1>1, <1>5, <1>13, <1>15
<1> HIDE DEF T
<1>16. \A i \in 0 .. n : i \in T
  BY <1>1, <1>14, <1>15, UpTo
<1>17. after \in [0 .. n -> Messages]
  BY <1>12, <1>16 DEF T
<1>18. IsArrayLoop(after, m, width, elements, pos)
  BY <1>4, <1>13, <1>17 DEF IsArrayLoop, Put1, At, counted, n
<1> QED BY <1>18

-----------------------------------------------------------------------------
(* Where puts write. *)

\* Data is appended: what is below the end of the message stays.
Appends(m, r) ==
    /\ r \in Messages /\ SameFields(m, r) /\ m.writeBit <= r.writeBit
    /\ SameBelow(m.data, r.data, m.writeBit)

\* Data is replaced between two positions: nothing else changes.
Replaces(m, r, from, to) ==
    /\ r \in Messages /\ SameFields(m, r) /\ m.writeBit = r.writeBit
    /\ Len(r.data) = Len(m.data) /\ SameAround(m.data, r.data, from, to)

Effect(m, r, pos, size) == IF pos < 0 THEN Appends(m, r) ELSE Replaces(m, r, pos, pos + size)

\* What is replaced was in the message.
Fits(m, pos, size) == pos >= 0 => pos + size <= Len(m.data)

\* Effects add up.
LEMMA EffectAfter ==
  ASSUME NEW m \in Messages, NEW x, NEW r, NEW pos \in Int, NEW size \in Nat, NEW q \in Int, NEW s \in Nat,
         Effect(m, x, pos, size), Effect(x, r, q, s), pos < 0 <=> q < 0,
         pos >= 0 => pos <= q /\ q + s <= pos + size
  PROVE  Effect(m, r, pos, size)
<1>1. CASE pos < 0
  <2>1. Appends(m, x) /\ Appends(x, r)
    BY <1>1 DEF Effect
  <2>2. x \in Messages /\ r \in Messages
    BY <2>1 DEF Appends
  <2>3. /\ Len(m.data) \in Nat /\ Len(x.data) \in Nat /\ Len(r.data) \in Nat
        /\ m.writeBit \in Nat /\ x.writeBit \in Nat /\ r.writeBit \in Nat
    BY <2>2, MessageIs
  <2>4. /\ m.writeBit <= x.writeBit /\ x.writeBit <= r.writeBit
        /\ Len(m.data) <= Len(x.data) /\ Len(x.data) <= Len(r.data)
        /\ \A k \in 1 .. Len(m.data) : k <= m.writeBit => x.data[k] = m.data[k]
        /\ \A k \in 1 .. Len(x.data) : k <= x.writeBit => r.data[k] = x.data[k]
    BY <2>1 DEF Appends, SameBelow
  <2>5. SameBelow(m.data, r.data, m.writeBit)
    <3>1. ASSUME NEW k \in 1 .. Len(m.data), k <= m.writeBit PROVE r.data[k] = m.data[k]
      <4>1. k \in 1 .. Len(x.data) /\ k <= x.writeBit
        BY <2>3, <2>4, <3>1
      <4> QED BY <2>4, <3>1, <4>1
    <3> QED BY <2>3, <2>4, <3>1 DEF SameBelow
  <2>6. SameFields(m, r)
    BY <2>1 DEF Appends, SameFields
  <2>7. m.writeBit <= r.writeBit
    BY <2>3, <2>4
  <2> QED BY <1>1, <2>2, <2>5, <2>6, <2>7 DEF Appends, Effect
<1>2. CASE pos >= 0
  <2>1. Replaces(m, x, pos, pos + size) /\ Replaces(x, r, q, q + s)
    BY <1>2 DEF Effect
  <2>2. /\ r \in Messages /\ Len(m.data) \in Nat /\ Len(x.data) = Len(m.data) /\ Len(r.data) = Len(m.data)
        /\ m.writeBit = r.writeBit
        /\ \A k \in 1 .. Len(m.data) : k <= pos \/ pos + size < k => x.data[k] = m.data[k]
        /\ \A k \in 1 .. Len(m.data) : k <= q \/ q + s < k => r.data[k] = x.data[k]
    BY <2>1, MessageIs DEF Replaces, SameAround
  <2>3. ASSUME NEW k \in 1 .. Len(m.data), k <= pos \/ pos + size < k PROVE r.data[k] = m.data[k]
    <3>1. k <= q \/ q + s < k
      BY <1>2, <2>3
    <3> QED BY <2>2, <2>3, <3>1
  <2>4. SameAround(m.data, r.data, pos, pos + size)
    BY <2>2, <2>3 DEF SameAround
  <2>5. SameFields(m, r)
    BY <2>1 DEF Replaces, SameFields
  <2>6. ~(pos < 0)
    BY <1>2
  <2> QED BY <2>2, <2>4, <2>5, <2>6 DEF Replaces, Effect
<1> QED BY <1>1, <1>2

\* An exception, or nothing at all, is no effect either.
LEMMA NoEffect ==
  ASSUME NEW m \in Messages, NEW r, r = m \/ r = Raise(m), NEW pos \in Int, NEW size \in Nat
  PROVE  Effect(m, r, pos, size)
<1>1. r \in Messages /\ SameFields(m, r) /\ r.data = m.data /\ r.writeBit = m.writeBit
  <2>1. CASE r = m
    BY <2>1 DEF SameFields
  <2>2. CASE r = Raise(m)
    BY <2>2, RaiseIs
  <2> QED BY <2>1, <2>2
<1>2. Len(m.data) \in Nat /\ m.writeBit \in Nat
  BY MessageIs
<1>3. SameBelow(m.data, r.data, m.writeBit) /\ SameAround(m.data, r.data, pos, pos + size)
  BY <1>1, <1>2 DEF SameBelow, SameAround
<1> QED BY <1>1, <1>2, <1>3 DEF Effect, Appends, Replaces

\* The effect of putBytes.
LEMMA PutBytesEffect ==
  ASSUME NEW m \in Messages, NEW bytes \in Seq(Bytes), NEW pos \in Int,
         NEW size \in Nat, size = 8 * Len(bytes), Fits(m, pos, size), NEW r, r = PutBytes(m, bytes, pos)
  PROVE  /\ Effect(m, r, pos, size) /\ r.raised = m.raised
         /\ pos < 0 => r.writeBit = m.writeBit + size
         /\ HoldsBytes(r.data, Start(m, pos), bytes)
         /\ SameBelow(m.data, r.data, Start(m, pos))
<1>1. PutsBytes(m, r, bytes, pos)
  BY PutBytesIs
<1>2. /\ r \in Messages /\ SameFields(m, r) /\ r.raised = m.raised
      /\ SameAround(m.data, r.data, Start(m, pos), Start(m, pos) + size)
      /\ HoldsBytes(r.data, Start(m, pos), bytes)
      /\ pos < 0 => r.writeBit = m.writeBit + size
      /\ pos >= 0 => /\ Start(m, pos) + size <= Len(m.data) =>
                           Len(r.data) = Len(m.data) /\ r.writeBit = m.writeBit
  BY <1>1 DEF PutsBytes
<1>3. SameBelow(m.data, r.data, Start(m, pos))
  BY <1>2 DEF SameAround, SameBelow
<1>4. m.writeBit \in Nat
  BY MessageIs
<1>5. CASE pos < 0
  <2>1. Start(m, pos) = m.writeBit
    BY <1>5 DEF Start
  <2>2. Appends(m, r)
    BY <1>2, <1>3, <1>4, <1>5, <2>1 DEF Appends
  <2> QED BY <1>2, <1>3, <1>5, <2>2 DEF Effect
<1>6. CASE pos >= 0
  <2>1. Start(m, pos) = pos /\ ~(pos < 0)
    BY <1>6 DEF Start
  <2>2. Len(r.data) = Len(m.data) /\ r.writeBit = m.writeBit
    BY <1>2, <1>6, <2>1 DEF Fits
  <2>3. Replaces(m, r, pos, pos + size)
    BY <1>2, <2>1, <2>2 DEF Replaces
  <2> QED BY <1>2, <1>3, <2>1, <2>3 DEF Effect
<1> QED BY <1>5, <1>6

\* Bytes below what is written are still there.
LEMMA HoldsBytesBelow ==
  ASSUME NEW data, IsData(data), NEW after, IsData(after), NEW p \in Nat, NEW q \in Nat, NEW bytes \in Seq(Bytes),
         HoldsBytes(data, p, bytes), SameBelow(data, after, q), p + 8 * Len(bytes) <= q
  PROVE  HoldsBytes(after, p, bytes)
<1>1. Len(data) \in Nat /\ Len(after) \in Nat /\ Len(bytes) \in Nat
  BY LenProperties DEF IsData
<1>2. /\ p + 8 * Len(bytes) <= Len(data) /\ Len(data) <= Len(after)
      /\ \A j \in 1 .. Len(bytes), b \in 1 .. 8 : data[p + 8 * (j - 1) + b] = Bits(bytes[j], 8)[b]
      /\ \A k \in 1 .. Len(data) : k <= q => after[k] = data[k]
  BY DEF HoldsBytes, SameBelow
<1>3. ASSUME NEW j \in 1 .. Len(bytes), NEW b \in 1 .. 8
      PROVE  after[p + 8 * (j - 1) + b] = Bits(bytes[j], 8)[b]
  <2>1. p + 8 * Len(bytes) <= Len(data)
    BY <1>2
  <2>2. p + 8 * (j - 1) + b \in 1 .. Len(data) /\ p + 8 * (j - 1) + b <= q
    BY <1>1, <2>1
  <2> QED BY <1>2, <2>2
<1> QED BY <1>1, <1>2, <1>3 DEF HoldsBytes

\* Where element i of an array stands, from the start of the array.
Spot(width, n, i) == PrefixBits(n) + 8 * width.size * (i - 1)

\* The elements of an array stand one behind the other, behind its length; where the loop
\* puts them is within the array, and is there if the step of the loop is their size.
LEMMA Spots ==
  ASSUME NEW width, IsWidth(width), NEW n \in Nat
  PROVE  /\ PrefixBits(n) \in Nat /\ Spot(width, n, 1) = PrefixBits(n)
         /\ \A i \in 1 .. n + 1 : Spot(width, n, i) \in Nat /\ PrefixBits(n) <= Spot(width, n, i)
         /\ \A i \in 1 .. n : /\ Spot(width, n, i + 1) = Spot(width, n, i) + 8 * width.size
                              /\ Spot(width, n, i) + 8 * width.size <= Spot(width, n, n + 1)
         /\ \A i \in 1 .. n + 1 : \A j \in 1 .. i - 1 : Spot(width, n, j) + 8 * width.size <= Spot(width, n, i)
         /\ \A i \in 1 .. n :
               LET at == PrefixBits(n) + width.step * (i - 1)
               IN  /\ at \in Nat /\ PrefixBits(n) <= at /\ at + 8 * width.size <= Spot(width, n, n + 1)
                   /\ width.step = 8 * width.size => at = Spot(width, n, i)
         /\ width.each \/ Spot(width, n, n + 1) = PrefixBits(n) + width.room * n
<1>1. PrefixBits(n) \in Nat
  BY VarULongBytes DEF PrefixBits
<1>2. width.size \in {1, 2, 4, 8} /\ width.step \in {0, 8 * width.size} /\ (width.each \/ width.room = 8 * width.size)
  BY DEF IsWidth
<1>3. CASE width.size = 1
  BY <1>1, <1>2, <1>3 DEF Spot
<1>4. CASE width.size = 2
  BY <1>1, <1>2, <1>4 DEF Spot
<1>5. CASE width.size = 4
  BY <1>1, <1>2, <1>5 DEF Spot
<1>6. CASE width.size = 8
  BY <1>1, <1>2, <1>6 DEF Spot
<1> QED BY <1>2, <1>3, <1>4, <1>5, <1>6

\* The data has the length and the elements of an array at a position.
HoldsArray(data, pos, width, elements) ==
    LET n == Len(elements)
    IN  /\ HoldsBytes(data, pos, ToVarULong(n))
        /\ \A i \in 1 .. n : HoldsBytes(data, pos + Spot(width, n, i), elements[i])

\* After the first i elements of an array put at a position.
ArrayRound(m, x, i, width, elements, pos) ==
    LET n == Len(elements)
        at == Start(m, pos)
    IN  /\ x \in Messages /\ Effect(m, x, pos, Spot(width, n, n + 1))
        /\ ~x.raised =>
              /\ pos < 0 => x.writeBit = m.writeBit + Spot(width, n, i + 1)
              /\ pos < 0 /\ i > 0 /\ width.each => x.writeBit <= MaxBits
              /\ pos < 0 \/ width.step = 8 * width.size =>
                    /\ HoldsBytes(x.data, at, ToVarULong(n))
                    /\ \A j \in 1 .. i : HoldsBytes(x.data, at + Spot(width, n, j), elements[j])

\* What putting an array does: its effect, where it ends, and that it is there unless a call raised.
ArrayPut(m, r, width, elements, pos) ==
    LET size == Spot(width, Len(elements), Len(elements) + 1)
    IN  /\ r \in Messages /\ Effect(m, r, pos, size)
        /\ ~r.raised =>
              /\ pos < 0 => r.writeBit = m.writeBit + size /\ r.writeBit <= MaxBits
              /\ pos < 0 \/ width.step = 8 * width.size => HoldsArray(r.data, Start(m, pos), width, elements)

\* What PutArray does where the array fits: __putArray of message.py, element by element.
LEMMA PutArrayIs ==
  ASSUME NEW m \in Messages, ~m.raised, NEW width, IsWidth(width),
         NEW elements, IsElements(elements, width), NEW pos \in Int,
         NEW n, n = Len(elements), Fits(m, pos, Spot(width, n, n + 1)),
         NEW r, r = PutArray(m, width, elements, pos)
  PROVE  ArrayPut(m, r, width, elements, pos)
<1> DEFINE size == Spot(width, n, n + 1)
           length == ToVarULong(n)
           counted == PutBytes(m, length, pos)
           at == Start(m, pos)
           wide == 8 * width.size
           At(i) == IF pos < 0 THEN pos ELSE pos + (PrefixBits(n) + width.step * (i - 1))
           Round(i, x) == ArrayRound(m, x, i, width, elements, pos)
<1>1. /\ n \in Nat /\ elements \in Seq(Seq(Bytes))
      /\ \A i \in 1 .. n : elements[i] \in Seq(Bytes) /\ Len(elements[i]) = width.size
  <2>1. n \in Nat /\ elements \in Seq(Seq(Bytes)) /\ \A i \in 1 .. n : Len(elements[i]) = width.size
    BY LenProperties DEF IsElements
  <2>2. \A i \in 1 .. n : elements[i] \in Seq(Bytes)
    BY <2>1, SeqElement
  <2> QED BY <2>1, <2>2
<1>2. length \in Seq(Bytes) /\ Len(length) \in Nat /\ 8 * Len(length) = PrefixBits(n)
  BY <1>1, VarULongBytes DEF PrefixBits
<1>3. /\ PrefixBits(n) \in Nat /\ Spot(width, n, 1) = PrefixBits(n)
      /\ \A i \in 1 .. n + 1 : Spot(width, n, i) \in Nat /\ PrefixBits(n) <= Spot(width, n, i)
      /\ \A i \in 1 .. n : /\ Spot(width, n, i + 1) = Spot(width, n, i) + wide
                           /\ Spot(width, n, i) + wide <= size
      /\ \A i \in 1 .. n + 1 : \A j \in 1 .. i - 1 : Spot(width, n, j) + wide <= Spot(width, n, i)
      /\ width.each \/ size = PrefixBits(n) + width.room * n
  BY <1>1, Spots
<1>4. \A i \in 1 .. n :
         LET q == PrefixBits(n) + width.step * (i - 1)
         IN  /\ q \in Nat /\ PrefixBits(n) <= q /\ q + wide <= size
             /\ width.step = wide => q = Spot(width, n, i)
  BY <1>1, Spots
<1>5. size \in Nat /\ PrefixBits(n) <= size /\ wide \in Nat
  <2>1. wide \in Nat
    BY DEF IsWidth
  <2>2. n + 1 \in 1 .. n + 1
    BY <1>1
  <2> QED BY <1>3, <2>1, <2>2
<1>6. m.writeBit \in Nat /\ Len(m.data) \in Nat /\ at \in Nat /\ IsData(m.data)
  <2>1. m.writeBit \in Nat /\ Len(m.data) \in Nat /\ IsData(m.data)
    BY MessageIs
  <2> QED BY <2>1 DEF Start
<1>7. PICK f : IsArrayLoop(f, m, width, elements, pos)
  BY ArrayLoop
<1>8. /\ f \in [0 .. n -> Messages] /\ f[0] = counted
      /\ \A i \in 1 .. n : f[i] = PutElement(f[i - 1], width, elements[i], At(i))
      /\ r = IF Room(counted, width.room * n) THEN f[n] ELSE Raise(counted)
  <2>1. \A i \in Int : pos + (PrefixBits(n) + width.step * (i - 1)) = pos + PrefixBits(n) + width.step * (i - 1)
    BY <1>3, SMTT(30) DEF IsWidth
  <2> QED BY <1>1, <1>7, <2>1 DEF IsArrayLoop
<1> HIDE DEF size, at, wide
<1>9. /\ counted \in Messages /\ Effect(m, counted, pos, PrefixBits(n)) /\ counted.raised = m.raised
      /\ pos < 0 => counted.writeBit = m.writeBit + PrefixBits(n)
      /\ HoldsBytes(counted.data, at, length)
      /\ SameBelow(m.data, counted.data, at)
  <2>1. Fits(m, pos, PrefixBits(n))
    BY <1>3, <1>5, <1>6 DEF Fits, size
  <2>2. counted \in Messages
    BY <1>2, PutBytesIs DEF PutsBytes
  <2> QED BY <1>2, <1>3, <2>1, <2>2, PutBytesEffect DEF at
<1> HIDE DEF counted, length, At
<1>10. Round(0, f[0])
  <2>1. Effect(m, counted, pos, size)
    <3>1. Effect(m, m, pos, size)
      BY <1>5, NoEffect
    <3> QED BY <1>3, <1>5, <1>9, <3>1, EffectAfter
  <2>2. \A j \in 1 .. 0 : FALSE
    OBVIOUS
  <2> QED BY <1>3, <1>8, <1>9, <2>1, <2>2 DEF ArrayRound, size, at, length
<1>11. ASSUME NEW i \in 1 .. n, Round(i - 1, f[i - 1]) PROVE Round(i, f[i])
  <2> DEFINE x == f[i - 1]
             y == f[i]
             q == At(i)
  <2>1. x \in Messages /\ y = PutElement(x, width, elements[i], q)
    <3>1. i - 1 \in 0 .. n
      BY <1>1
    <3>2. f[i - 1] \in Messages
      BY <1>8, <3>1
    <3> QED BY <1>8, <3>2
  <2>2. /\ q \in Int /\ (q < 0 <=> pos < 0)
        /\ pos >= 0 => pos + PrefixBits(n) <= q /\ q + wide <= pos + size
        /\ pos >= 0 /\ width.step = wide => q = at + Spot(width, n, i)
    <3>1. PICK s \in Nat : /\ s = PrefixBits(n) + width.step * (i - 1) /\ PrefixBits(n) <= s /\ s + wide <= size
                           /\ width.step = wide => s = Spot(width, n, i)
      BY <1>4
    <3>2. q = IF pos < 0 THEN pos ELSE pos + s
      BY <3>1 DEF At
    <3> HIDE DEF q
    <3>3. PrefixBits(n) \in Nat /\ wide \in Nat /\ size \in Nat
      BY <1>1, <1>3, <1>5
    <3> HIDE DEF size, wide
    <3>4. CASE pos < 0
      BY <3>2, <3>4
    <3>5. CASE pos >= 0
      <4>1. q = pos + s /\ at = pos
        BY <3>2, <3>5 DEF at, Start
      <4>2. PrefixBits(n) <= s /\ s + wide <= size
        BY <3>1
      <4>3. q + wide <= pos + size /\ pos + PrefixBits(n) <= q
        BY <3>3, <4>1, <4>2
      <4>4. q \in Int /\ ~(q < 0)
        BY <3>5, <4>1
      <4>5. width.step = wide => q = at + Spot(width, n, i)
        BY <3>1, <4>1
      <4> QED BY <3>5, <4>3, <4>4, <4>5
    <3> QED BY <3>4, <3>5
  <2> HIDE DEF x, y, q
  <2>3. /\ y \in Messages
        /\ \/ y = x /\ x.raised
           \/ y = Raise(x)
           \/ /\ y = PutBytes(x, elements[i], q) /\ ~x.raised /\ ~y.raised
              /\ width.each => Room(x, 8 * width.size)
    BY <1>1, <2>1, <2>2, PutElementIs
  <2>4. /\ Effect(m, x, pos, size)
        /\ ~x.raised =>
              /\ pos < 0 => x.writeBit = m.writeBit + Spot(width, n, i)
              /\ pos < 0 \/ width.step = wide =>
                    /\ HoldsBytes(x.data, at, length)
                    /\ \A j \in 1 .. i - 1 : HoldsBytes(x.data, at + Spot(width, n, j), elements[j])
    BY <1>11 DEF ArrayRound, size, at, wide, length, x
  <2>5. CASE y = x /\ x.raised
    <3>1. y.raised
      BY <2>5
    <3> QED BY <2>3, <2>4, <2>5, <3>1 DEF ArrayRound, size, y
  <2>6. CASE y = Raise(x)
    <3>1. y.raised
      BY <2>1, <2>6, RaiseIs
    <3>2. Effect(x, y, pos, size)
      BY <1>5, <2>1, <2>6, NoEffect
    <3>3. Effect(m, y, pos, size)
      BY <1>5, <2>4, <3>2, EffectAfter
    <3> QED BY <2>3, <3>1, <3>3 DEF ArrayRound, size, y
  <2>7. CASE y = PutBytes(x, elements[i], q) /\ ~x.raised /\ ~y.raised /\ (width.each => Room(x, 8 * width.size))
    <3>1. elements[i] \in Seq(Bytes) /\ wide = 8 * Len(elements[i])
      BY <1>1 DEF wide
    <3>2. Len(x.data) \in Nat /\ x.writeBit \in Nat /\ IsData(x.data) /\ IsData(y.data)
      BY <2>1, <2>3, MessageIs
    <3>3. pos >= 0 => Len(x.data) = Len(m.data)
      BY <2>4 DEF Effect, Replaces
    <3>4. Fits(x, q, wide)
      BY <1>5, <1>6, <2>2, <3>2, <3>3 DEF Fits, size
    <3>5. /\ Effect(x, y, q, wide)
          /\ q < 0 => y.writeBit = x.writeBit + wide
          /\ HoldsBytes(y.data, Start(x, q), elements[i])
          /\ SameBelow(x.data, y.data, Start(x, q))
      BY <1>5, <2>1, <2>2, <2>7, <3>1, <3>4, PutBytesEffect
    <3>6. Effect(m, y, pos, size)
      <4>1. pos >= 0 => pos <= q /\ q + wide <= pos + size
        BY <1>3, <1>5, <2>2
      <4> QED BY <1>5, <2>2, <2>4, <3>5, <4>1, EffectAfter
    <3>7. pos < 0 => y.writeBit = m.writeBit + Spot(width, n, i + 1)
      <4>1. Spot(width, n, i + 1) = Spot(width, n, i) + wide /\ Spot(width, n, i) \in Nat
        BY <1>1, <1>3
      <4>2. pos < 0 => y.writeBit = (m.writeBit + Spot(width, n, i)) + wide
        BY <2>2, <2>4, <2>7, <3>5
      <4> QED BY <1>5, <1>6, <4>1, <4>2
    <3>8. pos < 0 /\ width.each => y.writeBit <= MaxBits
      <4>1. pos < 0 /\ width.each => MaxBits - x.writeBit >= wide
        BY <2>7 DEF Room, wide
      <4> QED BY <1>5, <2>2, <3>2, <3>5, <4>1, MessageAssumption
    <3>9. ASSUME pos < 0 \/ width.step = wide
          PROVE  /\ HoldsBytes(y.data, at, length)
                 /\ \A j \in 1 .. i : HoldsBytes(y.data, at + Spot(width, n, j), elements[j])
      <4>1. Start(x, q) = at + Spot(width, n, i)
        BY <1>6, <2>2, <2>4, <2>7, <3>9 DEF Start, at
      <4>2. /\ HoldsBytes(x.data, at, length)
            /\ \A j \in 1 .. i - 1 : HoldsBytes(x.data, at + Spot(width, n, j), elements[j])
        BY <2>4, <2>7, <3>9
      <4>3. Spot(width, n, i) \in Nat /\ PrefixBits(n) <= Spot(width, n, i)
        BY <1>1, <1>3
      <4>4. HoldsBytes(y.data, at, length)
        <5>1. at + 8 * Len(length) <= at + Spot(width, n, i) /\ at + Spot(width, n, i) \in Nat
          BY <1>2, <1>6, <4>3
        <5> QED BY <1>2, <1>6, <3>2, <3>5, <4>1, <4>2, <5>1, HoldsBytesBelow
      <4>5. ASSUME NEW j \in 1 .. i - 1 PROVE HoldsBytes(y.data, at + Spot(width, n, j), elements[j])
        <5>1. elements[j] \in Seq(Bytes) /\ wide = 8 * Len(elements[j]) /\ Spot(width, n, j) \in Nat
              /\ Spot(width, n, j) + wide <= Spot(width, n, i)
          <6>1. j \in 1 .. n /\ j \in 1 .. n + 1 /\ i \in 1 .. n + 1
            BY <1>1
          <6>2. elements[j] \in Seq(Bytes) /\ wide = 8 * Len(elements[j])
            BY <1>1, <6>1 DEF wide
          <6> QED BY <1>3, <6>1, <6>2
        <5>2. (at + Spot(width, n, j)) + wide <= at + Spot(width, n, i)
              /\ at + Spot(width, n, i) \in Nat /\ at + Spot(width, n, j) \in Nat
          <6>1. PICK spot \in Nat : spot = Spot(width, n, j) /\ spot + wide <= Spot(width, n, i)
            BY <5>1
          <6>2. PICK next \in Nat : next = Spot(width, n, i)
            BY <4>3
          <6>3. at \in Nat /\ wide \in Nat /\ spot + wide <= next
            BY <1>5, <1>6, <6>1, <6>2
          <6>4. (at + spot) + wide <= at + next /\ at + next \in Nat /\ at + spot \in Nat
            BY <6>3
          <6> QED BY <6>1, <6>2, <6>4
        <5>3. HoldsBytes(x.data, at + Spot(width, n, j), elements[j])
          BY <4>2
        <5> QED BY <3>2, <3>5, <4>1, <5>1, <5>2, <5>3, HoldsBytesBelow
      <4>6. HoldsBytes(y.data, at + Spot(width, n, i), elements[i])
        BY <3>5, <4>1
      <4> QED BY <4>4, <4>5, <4>6
    <3> QED BY <2>3, <3>6, <3>7, <3>8, <3>9 DEF ArrayRound, size, at, wide, length, y
  <2> QED BY <2>3, <2>5, <2>6, <2>7
<1> DEFINE T == {i \in 0 .. n : Round(i, f[i])}
<1>12. 0 \in T
  BY <1>1, <1>10
<1>13. \A i \in 1 .. n : i - 1 \in T => i \in T
  BY <1>11
<1> HIDE DEF T
<1>14. \A i \in 0 .. n : i \in T
  BY <1>1, <1>12, <1>13, UpTo
<1>15. Round(n, f[n])
  BY <1>1, <1>14 DEF T
<1>16. CASE ~Room(counted, width.room * n)
  <2>1. r = Raise(counted)
    BY <1>8, <1>16
  <2>2. r \in Messages /\ r.raised
    BY <1>9, <2>1, RaiseIs
  <2>3. Effect(m, counted, pos, size)
    BY <1>8, <1>10 DEF ArrayRound, size
  <2>4. Effect(counted, r, pos, size)
    BY <1>5, <1>9, <2>1, NoEffect
  <2>5. Effect(m, r, pos, size)
    BY <1>5, <2>3, <2>4, EffectAfter
  <2> QED BY <2>2, <2>5 DEF ArrayPut, size
<1>17. CASE Room(counted, width.room * n)
  <2>1. r = f[n]
    BY <1>8, <1>17
  <2>2. /\ r \in Messages /\ Effect(m, r, pos, size)
        /\ ~r.raised =>
              /\ pos < 0 => r.writeBit = m.writeBit + size
              /\ pos < 0 /\ n > 0 /\ width.each => r.writeBit <= MaxBits
              /\ pos < 0 \/ width.step = wide =>
                    /\ HoldsBytes(r.data, at, length)
                    /\ \A j \in 1 .. n : HoldsBytes(r.data, at + Spot(width, n, j), elements[j])
    BY <1>15, <2>1 DEF ArrayRound, size, at, wide, length
  <2>3. ASSUME ~r.raised, pos < 0 PROVE r.writeBit <= MaxBits
    <3>1. CASE n > 0 /\ width.each
      BY <2>2, <2>3, <3>1
    <3>2. CASE ~width.each
      <4>1. size = PrefixBits(n) + width.room * n /\ width.room * n \in Nat
        BY <1>1, <1>3, <3>2 DEF IsWidth
      <4>2. PICK room \in Nat : room = width.room * n
        BY <4>1
      <4>3. MaxBits - counted.writeBit >= room
        BY <1>17, <4>2 DEF Room
      <4>4. counted.writeBit = m.writeBit + PrefixBits(n) /\ r.writeBit = m.writeBit + (PrefixBits(n) + room)
        BY <1>9, <2>2, <2>3, <4>1, <4>2
      <4> QED BY <1>3, <1>6, <4>3, <4>4, MessageAssumption
    <3>3. CASE n = 0
      <4>1. size = PrefixBits(n)
        BY <1>3, <3>3 DEF size
      <4>2. width.room * n = 0
        BY <3>3 DEF IsWidth
      <4>3. MaxBits - counted.writeBit >= 0
        BY <1>17, <4>2 DEF Room
      <4> QED BY <1>3, <1>6, <1>9, <2>2, <2>3, <4>1, <4>3, MessageAssumption
    <3> QED BY <1>1, <3>1, <3>2, <3>3
  <2> QED BY <2>2, <2>3 DEF ArrayPut, HoldsArray, size, at, wide, length
<1> QED BY <1>16, <1>17

\* An array leaves a message whatever the position.
LEMMA PutArrayType ==
  ASSUME NEW m \in Messages, NEW width, IsWidth(width), NEW elements, IsElements(elements, width),
         NEW pos \in Int
  PROVE  PutArray(m, width, elements, pos) \in Messages
<1> DEFINE n == Len(elements)
           counted == PutBytes(m, ToVarULong(n), pos)
<1>1. PICK f : IsArrayLoop(f, m, width, elements, pos)
  BY ArrayLoop
<1>2. /\ f \in [0 .. n -> Messages] /\ f[0] = counted
      /\ PutArray(m, width, elements, pos) = IF Room(counted, width.room * n) THEN f[n] ELSE Raise(counted)
  BY <1>1 DEF IsArrayLoop
<1> HIDE DEF counted
<1>3. n \in Nat
  BY LenProperties DEF IsElements
<1> HIDE DEF n
<1>4. f[0] \in Messages /\ f[n] \in Messages
  <2>1. 0 \in 0 .. n /\ n \in 0 .. n
    BY <1>3
  <2> QED BY <1>2, <2>1
<1>5. Raise(counted) \in Messages
  BY <1>2, <1>4, RaiseIs
<1> QED BY <1>2, <1>4, <1>5

\* The characters of a string, and its size with its length in front.
StringSize(s) == 8 * (Len(ToVarULong(Len(s))) + Len(s))

\* A string is put as an array of its bytes.
LEMMA CharactersAre ==
  ASSUME NEW s \in Seq(Bytes)
  PROVE  /\ IsWidth(Character) /\ Character.size = 1 /\ Character.step = 8
         /\ IsElements(Characters(s), Character)
         /\ Len(s) \in Nat /\ Len(Characters(s)) = Len(s)
         /\ \A i \in 1 .. Len(s) : Characters(s)[i] = <<s[i]>>
         /\ StringSize(s) \in Nat
         /\ StringSize(s) = Spot(Character, Len(s), Len(s) + 1)
         /\ StringSize(s) = PrefixBits(Len(s)) + 8 * Len(s)
<1>1. IsWidth(Character) /\ Character.size = 1 /\ Character.step = 8
  <2>2. Character = [size |-> 1, room |-> 8, each |-> FALSE, step |-> 8, limit |-> 127]
    BY DEF Character, Width
  <2> HIDE DEF Character
  <2>3. Character.size = 1 /\ Character.room = 8 /\ Character.step = 8 /\ Character.limit = 127
    BY <2>2
  <2>4. Character.each \in BOOLEAN /\ (Character.each \/ Character.room = 8 * Character.size)
    BY <2>2
  <2>5. Character.step \in {0, 8 * Character.size} /\ Character.size \in {1, 2, 4, 8}
    BY <2>3
  <2>6. Character.limit \in Nat /\ Character.room \in Nat
    BY <2>3
  <2> QED BY <2>3, <2>4, <2>5, <2>6 DEF IsWidth
<1>2. Len(s) \in Nat /\ DOMAIN s = 1 .. Len(s)
  BY LenProperties
<1> DEFINE c == Characters(s)
<1>3. c = [i \in 1 .. Len(s) |-> <<s[i]>>]
  BY <1>2 DEF Characters
<1>4. \A i \in 1 .. Len(s) : <<s[i]>> \in Seq(Bytes) /\ Len(<<s[i]>>) = 1
  <2> TAKE i \in 1 .. Len(s)
  <2>1. s[i] \in Bytes
    BY SeqElement
  <2> QED BY <2>1
<1>5. c \in [1 .. Len(s) -> Seq(Bytes)]
  BY <1>3, <1>4
<1>6. c \in Seq(Seq(Bytes))
  BY <1>2, <1>5 DEF Seq
<1>7. Len(c) = Len(s)
  BY <1>2, <1>5, <1>6, LenProperties, SameLength
<1>8. \A i \in 1 .. Len(s) : c[i] = <<s[i]>>
  BY <1>3
<1> HIDE DEF c
<1>9. IsElements(c, Character)
  BY <1>1, <1>4, <1>6, <1>7, <1>8 DEF IsElements
<1>10. Len(ToVarULong(Len(s))) \in Nat
  BY <1>2, VarULongBytes
<1>11. /\ StringSize(s) \in Nat /\ StringSize(s) = PrefixBits(Len(s)) + 8 * Len(s)
       /\ StringSize(s) = Spot(Character, Len(s), Len(s) + 1)
  BY <1>1, <1>2, <1>10 DEF StringSize, PrefixBits, Spot
<1> QED BY <1>1, <1>2, <1>7, <1>8, <1>9, <1>11 DEF c

\* The data has a string, its length in front.
HoldsString(data, pos, s) ==
    HoldsBytes(data, pos, ToVarULong(Len(s))) /\ HoldsBytes(data, pos + PrefixBits(Len(s)), s)

\* Where the array of its bytes is held, the string is.
LEMMA HoldsCharacters ==
  ASSUME NEW data, NEW pos \in Nat, NEW s \in Seq(Bytes), HoldsArray(data, pos, Character, Characters(s)),
         IsData(data)
  PROVE  HoldsString(data, pos, s)
<1> DEFINE n == Len(s)
           c == Characters(s)
           p == pos + PrefixBits(n)
<1>1. /\ Len(c) = n /\ n \in Nat /\ Character.size = 1 /\ \A i \in 1 .. n : c[i] = <<s[i]>>
  BY CharactersAre
<1> HIDE DEF c
<1>2. HoldsBytes(data, pos, ToVarULong(n)) /\ \A i \in 1 .. n : HoldsBytes(data, pos + Spot(Character, n, i), c[i])
  <2>1. HoldsArray(data, pos, Character, c)
    BY DEF c
  <2>2. /\ HoldsBytes(data, pos, ToVarULong(Len(c)))
        /\ \A i \in 1 .. Len(c) : HoldsBytes(data, pos + Spot(Character, Len(c), i), c[i])
    BY <2>1 DEF HoldsArray
  <2> QED BY <1>1, <2>2
<1>3. PrefixBits(n) \in Nat /\ PrefixBits(n) = 8 * Len(ToVarULong(n)) /\ p \in Nat
  <2>1. n \in Nat
    BY <1>1
  <2> HIDE DEF n
  <2>2. Len(ToVarULong(n)) \in Nat
    BY <2>1, VarULongBytes
  <2> QED BY <2>2 DEF PrefixBits
<1> HIDE DEF n
<1>4. ASSUME NEW i \in 1 .. n
      PROVE  p + 8 * i <= Len(data) /\ \A b \in 1 .. 8 : data[p + 8 * (i - 1) + b] = Bits(s[i], 8)[b]
  <2>1. HoldsBytes(data, p + 8 * (i - 1), <<s[i]>>)
    <3>1. Spot(Character, n, i) = PrefixBits(n) + 8 * 1 * (i - 1)
      BY <1>1 DEF Spot
    <3>2. pos + Spot(Character, n, i) = p + 8 * (i - 1)
      BY <1>1, <1>3, <3>1
    <3>3. c[i] = <<s[i]>>
      BY <1>1
    <3>4. HoldsBytes(data, pos + Spot(Character, n, i), c[i])
      BY <1>2
    <3> HIDE DEF p
    <3> QED BY <3>2, <3>3, <3>4
  <2>2. Len(<<s[i]>>) = 1 /\ <<s[i]>>[1] = s[i]
    OBVIOUS
  <2>3. /\ p + 8 * (i - 1) + 8 * 1 <= Len(data)
        /\ \A j \in 1 .. 1, b \in 1 .. 8 : data[p + 8 * (i - 1) + 8 * (j - 1) + b] = Bits(<<s[i]>>[j], 8)[b]
    BY <2>1, <2>2 DEF HoldsBytes
  <2>4. \A b \in 1 .. 8 : data[p + 8 * (i - 1) + 8 * (1 - 1) + b] = Bits(s[i], 8)[b]
    <3>1. \A b \in 1 .. 8 : data[p + 8 * (i - 1) + 8 * (1 - 1) + b] = Bits(<<s[i]>>[1], 8)[b]
      <4>1. 1 \in 1 .. 1
        OBVIOUS
      <4> QED BY <2>3, <4>1
    <3> QED BY <2>2, <3>1
  <2>5. \A b \in 1 .. 8 : p + 8 * (i - 1) + 8 * (1 - 1) + b = p + 8 * (i - 1) + b
    BY <1>1, <1>3
  <2>6. p + 8 * i = p + 8 * (i - 1) + 8 * 1
    BY <1>1, <1>3
  <2> QED BY <2>3, <2>4, <2>5, <2>6
<1>5. p + 8 * n <= Len(data)
  <2>1. CASE n = 0
    <3>1. pos + PrefixBits(n) <= Len(data)
      BY <1>2, <1>3 DEF HoldsBytes
    <3> QED BY <1>3, <2>1, <3>1
  <2>2. CASE n # 0
    <3>1. n \in 1 .. n
      BY <1>1, <2>2
    <3> QED BY <1>4, <3>1
  <2> QED BY <2>1, <2>2
<1>6. HoldsBytes(data, p, s)
  BY <1>4, <1>5 DEF HoldsBytes, n
<1> QED BY <1>2, <1>6 DEF HoldsString, n

\* What an effect leaves alone: the bits before it starts.
LEMMA EffectBelow ==
  ASSUME NEW m \in Messages, NEW r, NEW pos \in Int, NEW size \in Nat, Effect(m, r, pos, size)
  PROVE  /\ r \in Messages /\ SameBelow(m.data, r.data, Start(m, pos))
         /\ pos >= 0 => Len(r.data) = Len(m.data) /\ r.writeBit = m.writeBit
         /\ m.writeBit <= r.writeBit
<1>1. m.writeBit \in Nat /\ Len(m.data) \in Nat
  BY MessageIs
<1>2. CASE pos < 0
  BY <1>2 DEF Effect, Appends, Start
<1>3. CASE ~(pos < 0)
  <2>1. Replaces(m, r, pos, pos + size)
    BY <1>3 DEF Effect
  <2>2. SameBelow(m.data, r.data, pos)
    BY <2>1 DEF Replaces, SameAround, SameBelow
  <2> QED BY <1>1, <1>3, <2>1, <2>2 DEF Replaces, Start
<1> QED BY <1>2, <1>3

\* A string.
LEMMA PutStringIs ==
  ASSUME NEW m \in Messages, ~m.raised, NEW s \in Seq(Bytes), NEW pos \in Int,
         Fits(m, pos, StringSize(s)), NEW r, r = PutString(m, s, pos)
  PROVE  /\ r \in Messages /\ Effect(m, r, pos, StringSize(s))
         /\ ~r.raised =>
               /\ pos < 0 => r.writeBit = m.writeBit + StringSize(s) /\ r.writeBit <= MaxBits
               /\ HoldsString(r.data, Start(m, pos), s)
<1> DEFINE c == Characters(s)
<1>1. /\ IsWidth(Character) /\ Character.size = 1 /\ Character.step = 8
      /\ IsElements(c, Character) /\ Len(c) = Len(s) /\ Len(s) \in Nat
      /\ StringSize(s) = Spot(Character, Len(s), Len(s) + 1)
  BY CharactersAre
<1>2. r = PutArray(m, Character, c, pos)
  BY DEF PutString
<1>3. Character.step = 8 * Character.size
  BY <1>1
<1>4. Fits(m, pos, Spot(Character, Len(s), Len(s) + 1)) /\ Len(s) = Len(c)
  BY <1>1
<1> HIDE DEF c
<1>5. /\ r \in Messages /\ Effect(m, r, pos, Spot(Character, Len(s), Len(s) + 1))
      /\ ~r.raised =>
            /\ pos < 0 => r.writeBit = m.writeBit + Spot(Character, Len(s), Len(s) + 1) /\ r.writeBit <= MaxBits
            /\ HoldsArray(r.data, Start(m, pos), Character, c)
  <2>1. ArrayPut(m, r, Character, c, pos)
    BY <1>1, <1>2, <1>4, PutArrayIs
  <2> QED BY <1>1, <1>3, <2>1 DEF ArrayPut
<1>6. Start(m, pos) \in Nat /\ IsData(r.data)
  <2>1. m.writeBit \in Nat /\ IsData(r.data)
    BY <1>5, MessageIs
  <2> QED BY <2>1 DEF Start
<1> QED BY <1>1, <1>5, <1>6, HoldsCharacters DEF c

-----------------------------------------------------------------------------
(* Types. *)

\* What Width makes is a width.
LEMMA WidthIs ==
  ASSUME NEW w, NEW size \in {1, 2, 4, 8}, NEW step \in {0, 8 * size}, w.size = size, w.step = step,
         w.limit = 255, w.room \in Nat, w.each \in BOOLEAN, w.each \/ w.room = 8 * size
  PROVE  IsWidth(w)
  BY DEF IsWidth

\* Each fixed width type is one, and an array of it is put element behind element but for UInt8.
LEMMA Widths ==
  ASSUME NEW type \in DOMAIN WidthOf
  PROVE  /\ IsWidth(WidthOf[type])
         /\ type # "UInt8" => WidthOf[type].step = 8 * WidthOf[type].size
<1> DEFINE Good(w) == IsWidth(w) /\ (type # "UInt8" => w.step = 8 * w.size)
<1>1. type \in DOMAIN Byte => Good(Byte[type])
  <2> SUFFICES ASSUME type \in {"Int8", "UInt8"} PROVE Good(Byte[type])
    BY DEF Byte
  <2>1. PICK step \in {0, 8 * 1} : step = IF type = "UInt8" THEN 0 ELSE 8
    OBVIOUS
  <2>2. Byte[type] = Width(1, 8, FALSE, step, 255)
    BY <2>1 DEF Byte
  <2>3. Byte[type] = [size |-> 1, room |-> 8, each |-> FALSE, step |-> step, limit |-> 255]
    BY <2>2 DEF Width
  <2> HIDE DEF Byte
  <2>4. PICK w : w = Byte[type] /\ w = [size |-> 1, room |-> 8, each |-> FALSE, step |-> step, limit |-> 255]
    BY <2>3
  <2>5. w.size = 1 /\ w.step = step /\ w.limit = 255 /\ w.room \in Nat /\ w.each \in BOOLEAN /\ (w.each \/ w.room = 8 * 1)
    BY <2>4
  <2>6. IsWidth(w)
    BY <2>5, WidthIs
  <2> QED BY <2>1, <2>4, <2>5, <2>6
<1>2. type \in DOMAIN Short => Good(Short[type])
  <2> SUFFICES ASSUME type \in {"Int16", "UInt16"} PROVE Good(Short[type])
    BY DEF Short
  <2>1. Short[type] = Width(2, 16, TRUE, 16, 255)
    BY DEF Short
  <2>3. Short[type] = [size |-> 2, room |-> 16, each |-> TRUE, step |-> 16, limit |-> 255]
    BY <2>1 DEF Width
  <2> HIDE DEF Short
  <2>4. PICK w : w = Short[type] /\ w = [size |-> 2, room |-> 16, each |-> TRUE, step |-> 16, limit |-> 255]
    BY <2>3
  <2>5. w.size = 2 /\ w.step = 16 /\ w.limit = 255 /\ w.room \in Nat /\ w.each \in BOOLEAN /\ (w.each \/ w.room = 8 * 2)
    BY <2>4
  <2>6. IsWidth(w)
    BY <2>5, WidthIs
  <2> QED BY <2>4, <2>5, <2>6
<1>3. type \in DOMAIN Int32s => Good(Int32s[type])
  <2> SUFFICES ASSUME type \in {"Int32", "UInt32"} PROVE Good(Int32s[type])
    BY DEF Int32s
  <2>0. PICK room \in Nat : room = IF type = "Int32" THEN 16 ELSE 32
    OBVIOUS
  <2>1. Int32s[type] = Width(4, room, TRUE, 32, 255)
    BY <2>0 DEF Int32s
  <2>3. Int32s[type] = [size |-> 4, room |-> room, each |-> TRUE, step |-> 32, limit |-> 255]
    BY <2>1 DEF Width
  <2> HIDE DEF Int32s
  <2>4. PICK w : w = Int32s[type] /\ w = [size |-> 4, room |-> room, each |-> TRUE, step |-> 32, limit |-> 255]
    BY <2>3
  <2>5. w.size = 4 /\ w.step = 32 /\ w.limit = 255 /\ w.room \in Nat /\ w.each \in BOOLEAN /\ (w.each \/ w.room = 8 * 4)
    BY <2>4
  <2>6. IsWidth(w)
    BY <2>5, WidthIs
  <2> QED BY <2>4, <2>5, <2>6
<1>4. type \in DOMAIN Long => Good(Long[type])
  <2> SUFFICES ASSUME type \in {"Int64", "UInt64"} PROVE Good(Long[type])
    BY DEF Long
  <2>1. Long[type] = Width(8, 64, TRUE, 64, 255)
    BY DEF Long
  <2>3. Long[type] = [size |-> 8, room |-> 64, each |-> TRUE, step |-> 64, limit |-> 255]
    BY <2>1 DEF Width
  <2> HIDE DEF Long
  <2>4. PICK w : w = Long[type] /\ w = [size |-> 8, room |-> 64, each |-> TRUE, step |-> 64, limit |-> 255]
    BY <2>3
  <2>5. w.size = 8 /\ w.step = 64 /\ w.limit = 255 /\ w.room \in Nat /\ w.each \in BOOLEAN /\ (w.each \/ w.room = 8 * 8)
    BY <2>4
  <2>6. IsWidth(w)
    BY <2>5, WidthIs
  <2> QED BY <2>4, <2>5, <2>6
<1>5. type \in DOMAIN Float => Good(Float[type])
  <2> SUFFICES ASSUME type \in {"Float"} PROVE Good(Float[type])
    BY DEF Float
  <2>1. Float[type] = Width(4, 32, TRUE, 32, 255)
    BY DEF Float
  <2>3. Float[type] = [size |-> 4, room |-> 32, each |-> TRUE, step |-> 32, limit |-> 255]
    BY <2>1 DEF Width
  <2> HIDE DEF Float
  <2>4. PICK w : w = Float[type] /\ w = [size |-> 4, room |-> 32, each |-> TRUE, step |-> 32, limit |-> 255]
    BY <2>3
  <2>5. w.size = 4 /\ w.step = 32 /\ w.limit = 255 /\ w.room \in Nat /\ w.each \in BOOLEAN /\ (w.each \/ w.room = 8 * 4)
    BY <2>4
  <2>6. IsWidth(w)
    BY <2>5, WidthIs
  <2> QED BY <2>4, <2>5, <2>6
<1>6. type \in DOMAIN Double => Good(Double[type])
  <2> SUFFICES ASSUME type \in {"Double"} PROVE Good(Double[type])
    BY DEF Double
  <2>1. Double[type] = Width(8, 64, TRUE, 64, 255)
    BY DEF Double
  <2>3. Double[type] = [size |-> 8, room |-> 64, each |-> TRUE, step |-> 64, limit |-> 255]
    BY <2>1 DEF Width
  <2> HIDE DEF Double
  <2>4. PICK w : w = Double[type] /\ w = [size |-> 8, room |-> 64, each |-> TRUE, step |-> 64, limit |-> 255]
    BY <2>3
  <2>5. w.size = 8 /\ w.step = 64 /\ w.limit = 255 /\ w.room \in Nat /\ w.each \in BOOLEAN /\ (w.each \/ w.room = 8 * 8)
    BY <2>4
  <2>6. IsWidth(w)
    BY <2>5, WidthIs
  <2> QED BY <2>4, <2>5, <2>6
<1>7. type \in UNION {DOMAIN Byte, DOMAIN Short, DOMAIN Int32s, DOMAIN Long, DOMAIN Float, DOMAIN Double}
  BY DEF WidthOf
<1>8. WidthOf[type] = CASE type \in DOMAIN Byte -> Byte[type]
          [] type \in DOMAIN Short -> Short[type]
          [] type \in DOMAIN Int32s -> Int32s[type]
          [] type \in DOMAIN Long -> Long[type]
          [] type \in DOMAIN Float -> Float[type]
          [] OTHER -> Double[type]
  BY <1>7 DEF WidthOf
<1>9. CASE type \in DOMAIN Byte
  <2>1. type \notin DOMAIN Short /\ type \notin DOMAIN Int32s /\ type \notin DOMAIN Long /\ type \notin DOMAIN Float /\ type \notin DOMAIN Double
    BY <1>9 DEF Byte, Short, Int32s, Long, Float, Double
  <2>2. WidthOf[type] = Byte[type]
    BY <1>8, <1>9, <2>1, Zenon
  <2> QED BY <1>1, <1>9, <2>2
<1>10. CASE type \in DOMAIN Short
  <2>1. type \notin DOMAIN Byte /\ type \notin DOMAIN Int32s /\ type \notin DOMAIN Long /\ type \notin DOMAIN Float /\ type \notin DOMAIN Double
    BY <1>10 DEF Byte, Short, Int32s, Long, Float, Double
  <2>2. WidthOf[type] = Short[type]
    BY <1>8, <1>10, <2>1, Zenon
  <2> QED BY <1>2, <1>10, <2>2
<1>11. CASE type \in DOMAIN Int32s
  <2>1. type \notin DOMAIN Byte /\ type \notin DOMAIN Short /\ type \notin DOMAIN Long /\ type \notin DOMAIN Float /\ type \notin DOMAIN Double
    BY <1>11 DEF Byte, Short, Int32s, Long, Float, Double
  <2>2. WidthOf[type] = Int32s[type]
    BY <1>8, <1>11, <2>1, Zenon
  <2> QED BY <1>3, <1>11, <2>2
<1>12. CASE type \in DOMAIN Long
  <2>1. type \notin DOMAIN Byte /\ type \notin DOMAIN Short /\ type \notin DOMAIN Int32s /\ type \notin DOMAIN Float /\ type \notin DOMAIN Double
    BY <1>12 DEF Byte, Short, Int32s, Long, Float, Double
  <2>2. WidthOf[type] = Long[type]
    BY <1>8, <1>12, <2>1, Zenon
  <2> QED BY <1>4, <1>12, <2>2
<1>13. CASE type \in DOMAIN Float
  <2>1. type \notin DOMAIN Byte /\ type \notin DOMAIN Short /\ type \notin DOMAIN Int32s /\ type \notin DOMAIN Long /\ type \notin DOMAIN Double
    BY <1>13 DEF Byte, Short, Int32s, Long, Float, Double
  <2>2. WidthOf[type] = Float[type]
    BY <1>8, <1>13, <2>1, Zenon
  <2> QED BY <1>5, <1>13, <2>2
<1>14. CASE type \in DOMAIN Double
  <2>1. type \notin DOMAIN Byte /\ type \notin DOMAIN Short /\ type \notin DOMAIN Int32s /\ type \notin DOMAIN Long /\ type \notin DOMAIN Float
    BY <1>14 DEF Byte, Short, Int32s, Long, Float, Double
  <2>2. WidthOf[type] = Double[type]
    BY <1>8, <1>14, <2>1, Zenon
  <2> QED BY <1>6, <1>14, <2>2
<1> QED BY <1>7, <1>9, <1>10, <1>11, <1>12, <1>13, <1>14

-----------------------------------------------------------------------------
(* Arrays of strings. *)

\* Strings stand one behind the other, each with its length in front.
LEMMA OffsetIs ==
  ASSUME NEW strings \in Seq(Seq(Bytes)), NEW n, n = Len(strings)
  PROVE  /\ n \in Nat /\ StringOffset(strings, 1) = 0
         /\ \A i \in 1 .. n + 1 : StringOffset(strings, i) \in Nat
         /\ \A i \in 1 .. n : /\ strings[i] \in Seq(Bytes) /\ StringSize(strings[i]) \in Nat
                              /\ StringOffset(strings, i + 1) = StringOffset(strings, i) + StringSize(strings[i])
<1> DEFINE After(i, x) == x + StringSize(strings[i])
           step == [i \in 1 .. n |-> [x \in Nat |-> After(i, x)]]
           IsSum(f) == f = [i \in 0 .. n |-> IF i = 0 THEN 0 ELSE After(i, f[i - 1])]
           offset == CHOOSE f : IsSum(f)
<1>1. n \in Nat /\ \A i \in 1 .. n : strings[i] \in Seq(Bytes) /\ StringSize(strings[i]) \in Nat
  <2>1. n \in Nat
    BY LenProperties
  <2>2. \A i \in 1 .. n : strings[i] \in Seq(Bytes)
    BY SeqElement
  <2>3. \A i \in 1 .. n : StringSize(strings[i]) \in Nat
    BY <2>2, CharactersAre
  <2> QED BY <2>1, <2>2, <2>3
<1>2. \A i : StringOffset(strings, i) = offset[i - 1]
  BY DEF StringOffset, StringSize, BITS_PER_BYTE
<1>3. \A i \in 1 .. n, x \in Nat : After(i, x) \in Nat
  BY <1>1
<1> HIDE DEF After
<1>4. \A x \in Nat, i \in 1 .. n : step[i][x] = After(i, x)
  OBVIOUS
<1>5. IsStep(Nat, n, step)
  BY <1>3 DEF IsStep
<1> HIDE DEF step
<1>6. PICK f : IsLoop(f, Nat, n, 0, step)
  BY <1>1, <1>5, Iterates
<1>7. f \in [0 .. n -> Nat] /\ f[0] = 0 /\ \A i \in 1 .. n : f[i] = step[i][f[i - 1]]
  BY <1>6 DEF IsLoop
<1>8. ASSUME NEW i \in 1 .. n PROVE f[i] = After(i, f[i - 1])
  <2>0. i - 1 \in 0 .. n
    BY <1>1
  <2>1. PICK x \in Nat : x = f[i - 1]
    BY <1>7, <2>0
  <2>2. step[i][x] = After(i, x)
    BY <1>4
  <2> QED BY <1>7, <2>1, <2>2
<1>9. IsSum(f)
  BY <1>7, <1>8
<1>10. IsSum(offset)
  <2> HIDE DEF IsSum
  <2> QED BY <1>9
<1> HIDE DEF offset
<1>11. offset[0] = 0 /\ \A i \in 1 .. n : offset[i] = After(i, offset[i - 1])
  <2>1. 0 \in 0 .. n /\ \A i \in 1 .. n : i \in 0 .. n /\ i # 0
    BY <1>1
  <2> QED BY <1>10, <2>1
<1> DEFINE T == {i \in 0 .. n : offset[i] \in Nat}
<1>12. 0 \in T
  BY <1>1, <1>11
<1>13. ASSUME NEW i \in 1 .. n, i - 1 \in T PROVE i \in T
  <2>1. offset[i] = After(i, offset[i - 1])
    BY <1>11
  <2>2. PICK x \in Nat : x = offset[i - 1]
    BY <1>13
  <2>3. After(i, x) \in Nat
    BY <1>3
  <2> QED BY <2>1, <2>2, <2>3
<1> HIDE DEF T
<1>14. \A i \in 0 .. n : i \in T
  BY <1>1, <1>12, <1>13, UpTo
<1>15. StringOffset(strings, 1) = 0
  BY <1>2, <1>11
<1>16. ASSUME NEW i \in 1 .. n + 1 PROVE StringOffset(strings, i) \in Nat
  <2>1. i - 1 \in T
    BY <1>1, <1>14
  <2> QED BY <1>2, <2>1 DEF T
<1>17. ASSUME NEW i \in 1 .. n PROVE StringOffset(strings, i + 1) = StringOffset(strings, i) + StringSize(strings[i])
  <2>1. StringOffset(strings, i + 1) = offset[(i + 1) - 1] /\ StringOffset(strings, i) = offset[i - 1]
    BY <1>2
  <2>2. (i + 1) - 1 = i
    OBVIOUS
  <2>3. offset[i] = offset[i - 1] + StringSize(strings[i])
    BY <1>11 DEF After
  <2> QED BY <2>1, <2>2, <2>3
<1> QED BY <1>1, <1>15, <1>16, <1>17

\* Where string i of an array stands, from the start of the array.
StringSpot(strings, i) == PrefixBits(Len(strings)) + StringOffset(strings, i)

\* The strings before one end where it starts, or below.
LEMMA StringSpots ==
  ASSUME NEW strings \in Seq(Seq(Bytes)), NEW n, n = Len(strings)
  PROVE  /\ n \in Nat /\ PrefixBits(n) \in Nat /\ StringSpot(strings, 1) = PrefixBits(n)
         /\ \A i \in 1 .. n + 1 : StringSpot(strings, i) \in Nat /\ PrefixBits(n) <= StringSpot(strings, i)
         /\ \A i \in 1 .. n : /\ strings[i] \in Seq(Bytes) /\ StringSize(strings[i]) \in Nat
                              /\ StringSpot(strings, i + 1) = StringSpot(strings, i) + StringSize(strings[i])
         /\ \A i \in 1 .. n + 1 : \A j \in 1 .. i - 1 :
               StringSpot(strings, j) + StringSize(strings[j]) <= StringSpot(strings, i)
<1>1. /\ n \in Nat /\ StringOffset(strings, 1) = 0
      /\ \A i \in 1 .. n + 1 : StringOffset(strings, i) \in Nat
      /\ \A i \in 1 .. n : /\ strings[i] \in Seq(Bytes) /\ StringSize(strings[i]) \in Nat
                           /\ StringOffset(strings, i + 1) = StringOffset(strings, i) + StringSize(strings[i])
  BY OffsetIs
<1>2. PrefixBits(n) \in Nat
  BY <1>1, VarULongBytes DEF PrefixBits
<1> DEFINE Spot1(i) == StringSpot(strings, i)
<1>3. \A i \in 1 .. n + 1 : Spot1(i) = PrefixBits(n) + StringOffset(strings, i)
  BY DEF StringSpot
<1>4. Spot1(1) = PrefixBits(n)
  BY <1>1, <1>2, <1>3
<1>5. \A i \in 1 .. n + 1 : Spot1(i) \in Nat /\ PrefixBits(n) <= Spot1(i)
  BY <1>1, <1>2, <1>3
<1>6. ASSUME NEW i \in 1 .. n PROVE Spot1(i + 1) = Spot1(i) + StringSize(strings[i])
  <2>1. i \in 1 .. n + 1 /\ i + 1 \in 1 .. n + 1
    BY <1>1
  <2>2. PICK a \in Nat : a = StringOffset(strings, i)
    BY <1>1, <2>1
  <2>3. PICK s \in Nat : s = StringSize(strings[i])
    BY <1>1
  <2>4. StringOffset(strings, i + 1) = a + s
    BY <1>1, <2>2, <2>3
  <2>5. Spot1(i + 1) = PrefixBits(n) + (a + s) /\ Spot1(i) = PrefixBits(n) + a
    BY <1>3, <2>1, <2>2, <2>4
  <2> QED BY <1>2, <2>3, <2>5
<1> DEFINE T == {i \in 0 .. n : \A j \in 1 .. i : Spot1(j) + StringSize(strings[j]) <= Spot1(i + 1)}
<1>7. 0 \in T
  BY <1>1
<1>8. ASSUME NEW i \in 1 .. n, i - 1 \in T PROVE i \in T
  <2>1. \A j \in 1 .. i - 1 : Spot1(j) + StringSize(strings[j]) <= Spot1(i)
    <3>1. (i - 1) + 1 = i
      OBVIOUS
    <3> QED BY <1>8, <3>1
  <2>2. PICK s \in Nat : s = StringSize(strings[i])
    BY <1>1
  <2>a. i \in 1 .. n + 1
    BY <1>1
  <2>3. PICK a \in Nat : a = Spot1(i)
    <3> HIDE DEF Spot1
    <3> QED BY <1>5, <2>a
  <2>4. Spot1(i + 1) = a + s
    BY <1>6, <2>2, <2>3
  <2>5. ASSUME NEW j \in 1 .. i PROVE Spot1(j) + StringSize(strings[j]) <= Spot1(i + 1)
    <3>1. CASE j = i
      BY <2>2, <2>3, <2>4, <3>1
    <3>2. CASE j # i
      <4>1. j \in 1 .. i - 1 /\ j \in 1 .. n /\ j \in 1 .. n + 1
        BY <1>1, <3>2
      <4>2. PICK t \in Nat : t = StringSize(strings[j])
        BY <1>1, <4>1
      <4>3. PICK b \in Nat : b = Spot1(j)
        BY <1>5, <4>1
      <4>4. b + t <= a
        BY <2>1, <2>3, <4>1, <4>2, <4>3
      <4> QED BY <2>4, <4>2, <4>3, <4>4
    <3> QED BY <3>1, <3>2
  <2> QED BY <2>5
<1> HIDE DEF T
<1>9. \A i \in 0 .. n : i \in T
  BY <1>1, <1>7, <1>8, UpTo
<1>10. ASSUME NEW i \in 1 .. n + 1, NEW j \in 1 .. i - 1
       PROVE  Spot1(j) + StringSize(strings[j]) <= Spot1(i)
  <2>1. i - 1 \in T /\ (i - 1) + 1 = i
    BY <1>1, <1>9
  <2> QED BY <2>1 DEF T
<1> HIDE DEF Spot1
<1> QED BY <1>1, <1>2, <1>4, <1>5, <1>6, <1>10 DEF Spot1

\* The data has the number of strings and the strings of an array.
HoldsStrings(data, pos, strings) ==
    /\ HoldsBytes(data, pos, ToVarULong(Len(strings)))
    /\ \A i \in 1 .. Len(strings) : HoldsString(data, pos + StringSpot(strings, i), strings[i])

\* A string below what is written is still there.
LEMMA HoldsStringBelow ==
  ASSUME NEW data, IsData(data), NEW after, IsData(after), NEW p \in Nat, NEW q \in Nat, NEW s \in Seq(Bytes),
         HoldsString(data, p, s), SameBelow(data, after, q), p + StringSize(s) <= q
  PROVE  HoldsString(after, p, s)
<1> DEFINE n == Len(s)
<1>1. n \in Nat /\ StringSize(s) = PrefixBits(n) + 8 * n
  BY CharactersAre
<1> HIDE DEF n
<1>2. ToVarULong(n) \in Seq(Bytes) /\ PrefixBits(n) \in Nat /\ PrefixBits(n) = 8 * Len(ToVarULong(n))
  BY <1>1, VarULongBytes DEF PrefixBits
<1>3. HoldsBytes(data, p, ToVarULong(n)) /\ HoldsBytes(data, p + PrefixBits(n), s)
  BY DEF HoldsString, n
<1>4. p + 8 * Len(ToVarULong(n)) <= q /\ (p + PrefixBits(n)) + 8 * Len(s) <= q /\ p + PrefixBits(n) \in Nat
  BY <1>1, <1>2 DEF n
<1>5. HoldsBytes(after, p, ToVarULong(n))
  BY <1>2, <1>3, <1>4, HoldsBytesBelow
<1>6. HoldsBytes(after, p + PrefixBits(n), s)
  <2>1. PICK r \in Nat : r = p + PrefixBits(n)
    BY <1>4
  <2>2. HoldsBytes(data, r, s) /\ r + 8 * Len(s) <= q
    BY <1>3, <1>4, <2>1
  <2>3. HoldsBytes(after, r, s)
    BY <2>2, HoldsBytesBelow
  <2> QED BY <2>1, <2>3
<1> QED BY <1>5, <1>6 DEF HoldsString, n

\* The messages after the strings of an array, one after the other.
IsStringLoop(f, m, strings, pos) ==
    LET n == Len(strings)
        At(i) == IF pos < 0 THEN pos ELSE pos + StringSpot(strings, i)
    IN  /\ f \in [0 .. n -> Messages] /\ f[0] = PutBytes(m, ToVarULong(n), pos)
        /\ \A i \in 1 .. n : f[i] = IF f[i - 1].raised THEN f[i - 1] ELSE PutString(f[i - 1], strings[i], At(i))
        /\ PutStringArray(m, strings, pos) = f[n]

\* PutStringArray is its loop: the message after each string.
LEMMA StringLoop ==
  ASSUME NEW m \in Messages, NEW strings \in Seq(Seq(Bytes)), NEW pos \in Int
  PROVE  \E f : IsStringLoop(f, m, strings, pos)
<1> DEFINE n == Len(strings)
           counted == PutBytes(m, ToVarULong(n), pos)
           At(i) == IF pos < 0 THEN pos ELSE pos + PrefixBits(n) + StringOffset(strings, i)
           Put1(x, i) == IF x.raised THEN x ELSE PutString(x, strings[i], At(i))
           step == [i \in 1 .. n |-> [x \in Messages |-> Put1(x, i)]]
           IsAfter(f) == f = [i \in 0 .. n |-> IF i = 0 THEN counted ELSE Put1(f[i - 1], i)]
           after == CHOOSE f : IsAfter(f)
<1>1. /\ n \in Nat /\ PrefixBits(n) \in Nat
      /\ \A i \in 1 .. n + 1 : StringOffset(strings, i) \in Nat
      /\ \A i \in 1 .. n : strings[i] \in Seq(Bytes)
  <2>1. PrefixBits(n) \in Nat
    BY StringSpots
  <2> QED BY <2>1, OffsetIs
<1>2. counted \in Messages
  <2>1. ToVarULong(n) \in Seq(Bytes)
    BY <1>1, VarULongBytes
  <2> QED BY <2>1, PutBytesIs DEF PutsBytes
<1>3. ASSUME NEW i \in 1 .. n
      PROVE  /\ At(i) \in Int /\ (pos >= 0 => pos + StringSpot(strings, i) = At(i))
             /\ At(i) = IF pos < 0 THEN pos ELSE pos + StringSpot(strings, i)
  <2>1. i \in 1 .. n + 1
    BY <1>1
  <2>2. PICK o \in Nat : o = StringOffset(strings, i)
    BY <1>1, <2>1
  <2>3. StringSpot(strings, i) = PrefixBits(n) + o
    BY <2>2 DEF StringSpot
  <2>4. At(i) = IF pos < 0 THEN pos ELSE pos + PrefixBits(n) + o
    BY <2>2
  <2> HIDE DEF At
  <2> QED BY <1>1, <2>3, <2>4
<1>4. PutStringArray(m, strings, pos) = after[n]
  BY DEF PutStringArray, PrefixBits, BITS_PER_BYTE
<1> HIDE DEF counted, At, n
<1>5. ASSUME NEW x \in Messages, NEW i \in 1 .. n PROVE Put1(x, i) \in Messages
  <2>1. strings[i] \in Seq(Bytes) /\ At(i) \in Int
    BY <1>1, <1>3
  <2>2. IsWidth(Character) /\ IsElements(Characters(strings[i]), Character)
    BY <2>1, CharactersAre
  <2>3. PutString(x, strings[i], At(i)) \in Messages
    BY <2>1, <2>2, PutArrayType DEF PutString
  <2> QED BY <2>3
<1> HIDE DEF Put1
<1>6. \A x \in Messages, i \in 1 .. n : step[i][x] = Put1(x, i)
  OBVIOUS
<1>7. IsStep(Messages, n, step)
  BY <1>5, <1>6 DEF IsStep
<1> HIDE DEF step
<1>8. PICK f : IsLoop(f, Messages, n, counted, step)
  BY <1>1, <1>2, <1>7, Iterates
<1>9. f \in [0 .. n -> Messages] /\ f[0] = counted /\ \A i \in 1 .. n : f[i] = step[i][f[i - 1]]
  BY <1>8 DEF IsLoop
<1>10. \A i \in 1 .. n : f[i] = Put1(f[i - 1], i) /\ f[i - 1] \in Messages
  <2>1. \A i \in 1 .. n : i - 1 \in 0 .. n
    BY <1>1
  <2> QED BY <1>6, <1>9, <2>1
<1>11. IsAfter(f)
  <2> DEFINE g == [i \in 0 .. n |-> IF i = 0 THEN counted ELSE Put1(f[i - 1], i)]
  <2>1. f[0] = g[0] /\ \A i \in 1 .. n : f[i] = g[i]
    BY <1>1, <1>9, <1>10
  <2>2. \A i \in 0 .. n : i = 0 \/ i \in 1 .. n
    BY <1>1
  <2>3. f = [i \in 0 .. n |-> f[i]] /\ g = [i \in 0 .. n |-> g[i]]
    BY <1>9
  <2> HIDE DEF g
  <2>4. f = g
    BY <2>1, <2>2, <2>3
  <2> QED BY <2>4 DEF g
<1>12. IsAfter(after)
  <2> HIDE DEF IsAfter
  <2> QED BY <1>11
<1> HIDE DEF after
<1>13. after[0] = counted /\ \A i \in 1 .. n : after[i] = Put1(after[i - 1], i)
  BY <1>1, <1>12
<1> DEFINE T == {i \in 0 .. n : after[i] \in Messages}
<1>14. 0 \in T
  BY <1>1, <1>2, <1>13
<1>15. ASSUME NEW i \in 1 .. n, i - 1 \in T PROVE i \in T
  BY <1>1, <1>5, <1>13, <1>15
<1> HIDE DEF T
<1>16. \A i \in 0 .. n : i \in T
  BY <1>1, <1>14, <1>15, UpTo
<1>17. after \in [0 .. n -> Messages]
  BY <1>12, <1>16 DEF T
<1>18. \A i \in 1 .. n :
          after[i] = IF after[i - 1].raised THEN after[i - 1]
                     ELSE PutString(after[i - 1], strings[i], IF pos < 0 THEN pos ELSE pos + StringSpot(strings, i))
  BY <1>3, <1>13 DEF Put1
<1>19. IsStringLoop(after, m, strings, pos)
  BY <1>4, <1>13, <1>17, <1>18 DEF IsStringLoop, counted, n
<1> QED BY <1>19

\* After the first i strings of an array put at a position.
StringRound(m, x, i, strings, pos) ==
    LET n == Len(strings)
        at == Start(m, pos)
    IN  /\ x \in Messages /\ Effect(m, x, pos, StringSpot(strings, n + 1))
        /\ ~x.raised =>
              /\ pos < 0 => x.writeBit = m.writeBit + StringSpot(strings, i + 1)
              /\ HoldsBytes(x.data, at, ToVarULong(n))
              /\ \A j \in 1 .. i : HoldsString(x.data, at + StringSpot(strings, j), strings[j])

\* What a put of an array of strings does where it fits.
StringsPut(m, r, strings, pos) ==
    /\ r \in Messages /\ Effect(m, r, pos, StringSpot(strings, Len(strings) + 1))
    /\ ~r.raised =>
          /\ pos < 0 => r.writeBit = m.writeBit + StringSpot(strings, Len(strings) + 1)
          /\ HoldsStrings(r.data, Start(m, pos), strings)

\* An array of strings: its effect, where it ends, and that it is there unless a call raised.
LEMMA PutStringArrayIs ==
  ASSUME NEW m \in Messages, ~m.raised, NEW strings \in Seq(Seq(Bytes)), NEW pos \in Int,
         NEW n, n = Len(strings), Fits(m, pos, StringSpot(strings, n + 1)),
         NEW r, r = PutStringArray(m, strings, pos)
  PROVE  StringsPut(m, r, strings, pos)
<1> DEFINE size == StringSpot(strings, n + 1)
           length == ToVarULong(n)
           counted == PutBytes(m, length, pos)
           at == Start(m, pos)
           At(i) == IF pos < 0 THEN pos ELSE pos + StringSpot(strings, i)
           Round(i, x) == StringRound(m, x, i, strings, pos)
<1>1. /\ n \in Nat /\ PrefixBits(n) \in Nat /\ StringSpot(strings, 1) = PrefixBits(n)
      /\ \A i \in 1 .. n + 1 : StringSpot(strings, i) \in Nat /\ PrefixBits(n) <= StringSpot(strings, i)
      /\ \A i \in 1 .. n : /\ strings[i] \in Seq(Bytes) /\ StringSize(strings[i]) \in Nat
                           /\ StringSpot(strings, i + 1) = StringSpot(strings, i) + StringSize(strings[i])
      /\ \A i \in 1 .. n + 1 : \A j \in 1 .. i - 1 :
            StringSpot(strings, j) + StringSize(strings[j]) <= StringSpot(strings, i)
  BY StringSpots
<1>2. length \in Seq(Bytes) /\ Len(length) \in Nat /\ 8 * Len(length) = PrefixBits(n)
  BY <1>1, VarULongBytes DEF PrefixBits
<1>3. size \in Nat /\ PrefixBits(n) <= size
  <2>1. n + 1 \in 1 .. n + 1
    BY <1>1
  <2> QED BY <1>1, <2>1
<1>4. m.writeBit \in Nat /\ Len(m.data) \in Nat /\ at \in Nat /\ IsData(m.data)
  <2>1. m.writeBit \in Nat /\ Len(m.data) \in Nat /\ IsData(m.data)
    BY MessageIs
  <2> QED BY <2>1 DEF Start
<1>5. PICK f : IsStringLoop(f, m, strings, pos)
  BY StringLoop
<1>6. /\ f \in [0 .. n -> Messages] /\ f[0] = counted
      /\ \A i \in 1 .. n : f[i] = IF f[i - 1].raised THEN f[i - 1] ELSE PutString(f[i - 1], strings[i], At(i))
      /\ r = f[n]
  BY <1>5 DEF IsStringLoop
<1> HIDE DEF size, at
<1>7. /\ counted \in Messages /\ Effect(m, counted, pos, PrefixBits(n)) /\ counted.raised = m.raised
      /\ pos < 0 => counted.writeBit = m.writeBit + PrefixBits(n)
      /\ HoldsBytes(counted.data, at, length)
  <2>1. Fits(m, pos, PrefixBits(n))
    BY <1>1, <1>3, <1>4 DEF Fits, size
  <2>2. counted \in Messages
    BY <1>2, PutBytesIs DEF PutsBytes
  <2> QED BY <1>1, <1>2, <2>1, <2>2, PutBytesEffect DEF at
<1> HIDE DEF counted, length, At
<1>8. Round(0, f[0])
  <2>1. Effect(m, counted, pos, size)
    <3>1. Effect(m, m, pos, size)
      BY <1>3, NoEffect
    <3> QED BY <1>1, <1>3, <1>7, <3>1, EffectAfter
  <2>2. \A j \in 1 .. 0 : FALSE
    OBVIOUS
  <2> QED BY <1>1, <1>6, <1>7, <2>1, <2>2 DEF StringRound, size, at, length
<1>9. ASSUME NEW i \in 1 .. n, Round(i - 1, f[i - 1]) PROVE Round(i, f[i])
  <2> DEFINE x == f[i - 1]
             y == f[i]
             q == At(i)
             s == strings[i]
             long == StringSize(s)
  <2>1. x \in Messages /\ y = IF x.raised THEN x ELSE PutString(x, s, q)
    <3>1. i - 1 \in 0 .. n
      BY <1>1
    <3>2. f[i - 1] \in Messages
      BY <1>6, <3>1
    <3> QED BY <1>6, <3>2
  <2>2. /\ s \in Seq(Bytes) /\ long \in Nat
        /\ \E spot \in Nat : /\ spot = StringSpot(strings, i) /\ PrefixBits(n) <= spot
                             /\ StringSpot(strings, i + 1) = spot + long
                             /\ spot + long <= size
    <3>1. i \in 1 .. n + 1 /\ n + 1 \in 1 .. n + 1 /\ i \in 1 .. (n + 1) - 1
      BY <1>1
    <3> HIDE DEF s, long
    <3>2. s = strings[i] /\ long = StringSize(strings[i])
      BY DEF s, long
    <3> QED BY <1>1, <3>1, <3>2 DEF size
  <2> HIDE DEF s, long
  <2>3. PICK spot \in Nat : /\ spot = StringSpot(strings, i) /\ PrefixBits(n) <= spot
                            /\ StringSpot(strings, i + 1) = spot + long
                            /\ spot + long <= size
    BY <2>2
  <2>4. /\ q \in Int /\ (q < 0 <=> pos < 0)
        /\ pos >= 0 => pos <= q /\ q + long <= pos + size /\ q = at + spot
    <3>1. q = IF pos < 0 THEN pos ELSE pos + spot
      BY <2>3 DEF At
    <3>2. pos >= 0 => at = pos
      BY DEF at, Start
    <3>3. CASE pos < 0
      BY <3>1, <3>3
    <3>4. CASE pos >= 0
      <4>1. q = pos + spot
        BY <3>1, <3>4
      <4>2. pos + spot \in Int /\ ~(pos + spot < 0) /\ pos <= pos + spot /\ (pos + spot) + long <= pos + size
        <5>1. spot + long <= size /\ long \in Nat /\ size \in Nat
          BY <1>3, <2>2, <2>3
        <5> QED BY <3>4, <5>1
      <4> HIDE DEF q
      <4> QED BY <3>2, <3>4, <4>1, <4>2
    <3> QED BY <3>3, <3>4
  <2> HIDE DEF x, y, q
  <2>5. /\ Effect(m, x, pos, size)
        /\ ~x.raised =>
              /\ pos < 0 => x.writeBit = m.writeBit + spot
              /\ HoldsBytes(x.data, at, length)
              /\ \A j \in 1 .. i - 1 : HoldsString(x.data, at + StringSpot(strings, j), strings[j])
    <3>1. (i - 1) + 1 = i
      OBVIOUS
    <3> QED BY <1>9, <2>3, <3>1 DEF StringRound, size, at, length, x
  <2>6. CASE x.raised
    <3>1. y = x
      BY <2>1, <2>6
    <3> QED BY <2>1, <2>5, <2>6, <3>1 DEF StringRound, size, y
  <2>7. CASE ~x.raised
    <3>1. y = PutString(x, s, q)
      BY <2>1, <2>7
    <3>2. pos >= 0 => Len(x.data) = Len(m.data)
      BY <2>5 DEF Effect, Replaces
    <3>3. Fits(x, q, long)
      <4>1. pos >= 0 => pos + size <= Len(m.data)
        BY DEF Fits, size
      <4>2. ASSUME pos >= 0 PROVE q + long <= Len(m.data)
        <5>1. q + long <= pos + size /\ q \in Int
          BY <2>4, <4>2
        <5>2. pos + size <= Len(m.data)
          BY <4>1, <4>2
        <5>3. size \in Nat /\ long \in Nat /\ Len(m.data) \in Nat
          BY <1>3, <2>2, MessageIs
        <5> QED BY <5>1, <5>2, <5>3
      <4> QED BY <2>4, <3>2, <4>2 DEF Fits
    <3>4. /\ y \in Messages /\ Effect(x, y, q, long)
          /\ ~y.raised =>
                /\ q < 0 => y.writeBit = x.writeBit + long
                /\ HoldsString(y.data, Start(x, q), s)
      BY <2>1, <2>2, <2>4, <2>7, <3>1, <3>3, PutStringIs DEF long
    <3>5. Effect(m, y, pos, size)
      BY <1>3, <2>2, <2>4, <2>5, <3>4, EffectAfter
    <3>6. SameBelow(x.data, y.data, Start(x, q))
      BY <2>1, <2>2, <2>4, <3>4, EffectBelow
    <3>7. Start(x, q) = at + spot
      <4>1. CASE pos < 0
        BY <2>4, <2>5, <2>7, <4>1 DEF Start, at
      <4>2. CASE ~(pos < 0)
        BY <2>4, <4>2 DEF Start
      <4> QED BY <4>1, <4>2
    <3>8. IsData(x.data) /\ IsData(y.data) /\ x.writeBit \in Nat
      BY <2>1, <3>4, MessageIs
    <3>9. ASSUME ~y.raised
          PROVE  /\ pos < 0 => y.writeBit = m.writeBit + StringSpot(strings, i + 1)
                 /\ HoldsBytes(y.data, at, length)
                 /\ \A j \in 1 .. i : HoldsString(y.data, at + StringSpot(strings, j), strings[j])
      <4>1. pos < 0 => y.writeBit = m.writeBit + StringSpot(strings, i + 1)
        <5>1. pos < 0 => y.writeBit = (m.writeBit + spot) + long
          BY <2>4, <2>5, <2>7, <3>4, <3>9
        <5>2. StringSpot(strings, i + 1) = spot + long
          BY <2>3
        <5> QED BY <1>4, <2>2, <2>3, <5>1, <5>2, SMTT(30)
      <4>2. HoldsBytes(y.data, at, length)
        <5>1. at + 8 * Len(length) <= at + spot /\ at + spot \in Nat
          BY <1>2, <1>4, <2>3, SMTT(30)
        <5> QED BY <1>2, <1>4, <2>5, <2>7, <3>6, <3>7, <3>8, <5>1, HoldsBytesBelow
      <4>3. ASSUME NEW j \in 1 .. i - 1 PROVE HoldsString(y.data, at + StringSpot(strings, j), strings[j])
        <5>1. j \in 1 .. n /\ j \in 1 .. n + 1 /\ i \in 1 .. n + 1
          BY <1>1
        <5>2. strings[j] \in Seq(Bytes) /\ StringSize(strings[j]) \in Nat /\ StringSpot(strings, j) \in Nat
              /\ StringSpot(strings, j) + StringSize(strings[j]) <= spot
          BY <1>1, <2>3, <5>1
        <5>3. PICK p \in Nat : p = at + StringSpot(strings, j)
          BY <1>4, <5>2
        <5>4. p + StringSize(strings[j]) <= at + spot /\ at + spot \in Nat
          <6>1. PICK a \in Nat : a = StringSpot(strings, j)
            BY <5>2
          <6>2. PICK b \in Nat : b = StringSize(strings[j])
            BY <5>2
          <6>3. a + b <= spot /\ p = at + a
            BY <5>2, <5>3, <6>1, <6>2
          <6>4. at \in Nat /\ spot \in Nat
            BY <1>4, <2>3
          <6>5. p + b <= at + spot /\ at + spot \in Nat
            BY <6>3, <6>4
          <6> QED BY <6>2, <6>5
        <5>5. HoldsString(x.data, p, strings[j])
          BY <2>5, <2>7, <5>3
        <5>6. HoldsString(y.data, p, strings[j])
          BY <3>6, <3>7, <3>8, <5>2, <5>4, <5>5, HoldsStringBelow
        <5> QED BY <5>3, <5>6
      <4>4. HoldsString(y.data, at + StringSpot(strings, i), strings[i])
        BY <2>3, <3>4, <3>7, <3>9 DEF s
      <4> QED BY <4>1, <4>2, <4>3, <4>4
    <3> QED BY <3>4, <3>5, <3>9 DEF StringRound, size, at, length, y
  <2> QED BY <2>6, <2>7
<1> DEFINE T == {i \in 0 .. n : Round(i, f[i])}
<1>10. 0 \in T
  BY <1>1, <1>8
<1>11. \A i \in 1 .. n : i - 1 \in T => i \in T
  BY <1>9
<1> HIDE DEF T
<1>12. \A i \in 0 .. n : i \in T
  BY <1>1, <1>10, <1>11, UpTo
<1>13. Round(n, f[n])
  BY <1>1, <1>12 DEF T
<1>14. /\ r \in Messages /\ Effect(m, r, pos, StringSpot(strings, n + 1))
       /\ ~r.raised =>
             /\ pos < 0 => r.writeBit = m.writeBit + StringSpot(strings, n + 1)
             /\ HoldsStrings(r.data, Start(m, pos), strings)
  BY <1>6, <1>13 DEF StringRound, HoldsStrings
<1> QED BY <1>14 DEF StringsPut

-----------------------------------------------------------------------------
(* Bools. *)

\* Bits copied into data that has room for them.
LEMMA BitsCopied ==
  ASSUME NEW data, IsData(data), NEW bits \in Seq({0, 1}), NEW pos \in Nat, NEW room \in Nat,
         pos + Len(bits) <= 8 * room, NEW after, after = Overlay(bits, Padded(data, room), pos)
  PROVE  /\ IsData(after) /\ Len(after) = (IF 8 * room > Len(data) THEN 8 * room ELSE Len(data))
         /\ Len(data) \in Nat /\ Len(after) \in Nat /\ Len(bits) \in Nat
         /\ SameAround(data, after, pos, pos + Len(bits)) /\ pos + Len(bits) <= Len(after)
         /\ \A k \in 1 .. Len(bits) : after[pos + k] = bits[k]
<1> DEFINE padded == Padded(data, room)
<1>1. Len(bits) \in Nat
  BY LenProperties
<1>2. /\ IsData(padded) /\ Len(data) \in Nat
      /\ Len(padded) = (IF 8 * room > Len(data) THEN 8 * room ELSE Len(data))
      /\ \A k \in 1 .. Len(data) : padded[k] = data[k]
  BY PaddedIs
<1> HIDE DEF padded
<1>3. /\ IsData(after) /\ Len(after) = Len(padded)
      /\ \A k \in 1 .. Len(padded) :
            after[k] = IF pos < k /\ k <= pos + Len(bits) THEN bits[k - pos] ELSE padded[k]
  BY <1>2, OverlayIs DEF padded
<1>4. Len(after) \in Nat /\ Len(data) <= Len(after) /\ pos + Len(bits) <= Len(after)
  BY <1>1, <1>2, <1>3
<1>5. SameAround(data, after, pos, pos + Len(bits))
  <2>1. ASSUME NEW k \in 1 .. Len(data), k <= pos \/ pos + Len(bits) < k PROVE after[k] = data[k]
    <3>1. k \in 1 .. Len(padded) /\ ~(pos < k /\ k <= pos + Len(bits))
      BY <1>1, <1>2, <2>1
    <3> QED BY <1>2, <1>3, <3>1
  <2> QED BY <1>4, <2>1 DEF SameAround
<1>6. ASSUME NEW k \in 1 .. Len(bits) PROVE after[pos + k] = bits[k]
  <2>1. pos + k \in 1 .. Len(padded) /\ pos < pos + k /\ pos + k <= pos + Len(bits) /\ (pos + k) - pos = k
    BY <1>1, <1>3, <1>4
  <2> QED BY <1>3, <2>1
<1> QED BY <1>1, <1>2, <1>3, <1>4, <1>5, <1>6

\* Data with a whole byte from a position on has room for the bytes up to its end.
LEMMA RoomThere ==
  ASSUME NEW data, IsData(data), NEW n \in Nat, n <= Len(data)
  PROVE  8 * BytesNeeded(n) <= Len(data)
<1>1. Len(data) \in Nat /\ Len(data) % 8 = 0
  BY LenProperties DEF IsData
<1>2. PICK q \in Nat : Len(data) = 8 * q
  BY <1>1, WholeBytes
<1>3. 8 * q >= n
  BY <1>1, <1>2
<1>4. BytesNeeded(n) \in Nat /\ q >= BytesNeeded(n)
  BY <1>3, Rounded
<1> QED BY <1>2, <1>4

\* The data has a bool at a position.
HoldsBit(data, pos, bit) == pos + 1 <= Len(data) /\ data[pos + 1] = bit

\* One bool: a whole byte is made room for.
LEMMA PutBoolIs ==
  ASSUME NEW m \in Messages, ~m.raised, NEW bit \in {0, 1}, NEW pos \in Int, Fits(m, pos, 8),
         NEW r, r = PutBool(m, bit, pos)
  PROVE  /\ r \in Messages /\ Effect(m, r, pos, 1)
         /\ r.raised => r = Raise(m)
         /\ ~r.raised =>
               /\ pos < 0 => r.writeBit = m.writeBit + 1 /\ r.writeBit <= MaxBits
               /\ Start(m, pos) + 8 <= Len(r.data)
               /\ HoldsBit(r.data, Start(m, pos), bit)
<1> DEFINE at == Start(m, pos)
           room == BytesNeeded(at + 8)
           data == Overlay(<<bit>>, Padded(m.data, room), at)
<1>1. /\ IsData(m.data) /\ Len(m.data) \in Nat /\ m.writeBit \in Nat /\ m.writeBit <= Len(m.data)
  BY MessageIs
<1>2. at \in Nat /\ (pos < 0 => at = m.writeBit) /\ (pos >= 0 => at = pos)
  BY <1>1 DEF Start
<1>3. CASE ~Room(m, 1)
  <2>1. r = Raise(m)
    BY <1>3 DEF PutBool
  <2>2. r.raised /\ r \in Messages
    BY <2>1, RaiseIs
  <2>3. Effect(m, r, pos, 1)
    BY <2>1, NoEffect
  <2> QED BY <2>1, <2>2, <2>3
<1>4. CASE Room(m, 1)
  <2> DEFINE end == IF pos < 0 THEN m.writeBit + 1 ELSE m.writeBit
  <2>0. SetBit(bit, m.data, at) = data
    BY DEF SetBit, EnsureSpace, BITS_PER_BYTE
  <2>1. r = With(m, data, end)
    <3>1. CASE pos < 0
      <4>1. r = [m EXCEPT !.data = SetBit(bit, m.data, m.writeBit), !.writeBit = m.writeBit + 1]
        BY <1>4, <3>1 DEF PutBool
      <4> QED BY <1>2, <2>0, <3>1, <4>1 DEF With
    <3>2. CASE ~(pos < 0)
      <4>1. r = [m EXCEPT !.data = SetBit(bit, m.data, pos)]
        BY <1>4, <3>2, Zenon DEF PutBool
      <4>2. r = [m EXCEPT !.data = data]
        <5>1. at = pos
          BY <1>2, <3>2
        <5> HIDE DEF data, at
        <5> QED BY <2>0, <4>1, <5>1
      <4>3. [m EXCEPT !.data = data] = With(m, data, m.writeBit)
        <5> HIDE DEF data
        <5> QED BY DEF With, Messages
      <4> QED BY <3>2, <4>2, <4>3
    <3> QED BY <3>1, <3>2
  <2>2. <<bit>> \in Seq({0, 1}) /\ Len(<<bit>>) = 1 /\ <<bit>>[1] = bit
    OBVIOUS
  <2> HIDE DEF at
  <2>3. room \in Nat /\ at + 8 <= 8 * room
    <3>1. at + 8 \in Nat
      BY <1>2
    <3> QED BY <3>1, Rounded
  <2>4. pos >= 0 => 8 * room <= Len(m.data)
    BY <1>1, <1>2, RoomThere DEF Fits
  <2> HIDE DEF room
  <2>5. /\ IsData(data) /\ Len(data) = (IF 8 * room > Len(m.data) THEN 8 * room ELSE Len(m.data))
        /\ Len(data) \in Nat
        /\ SameAround(m.data, data, at, at + 1) /\ data[at + 1] = bit
    <3>1. PICK s \in Seq({0, 1}) : s = <<bit>> /\ Len(s) = 1 /\ s[1] = bit
      BY <2>2
    <3>2. at + Len(s) <= 8 * room /\ 1 \in 1 .. Len(s)
      BY <1>2, <2>3, <3>1
    <3>3. data = Overlay(s, Padded(m.data, room), at)
      BY <3>1
    <3> HIDE DEF data
    <3>4. /\ IsData(data) /\ Len(data) = (IF 8 * room > Len(m.data) THEN 8 * room ELSE Len(m.data))
          /\ Len(data) \in Nat
          /\ SameAround(m.data, data, at, at + Len(s))
          /\ \A k \in 1 .. Len(s) : data[at + k] = s[k]
      BY <1>1, <1>2, <2>3, <3>2, <3>3, BitsCopied
    <3> QED BY <3>1, <3>2, <3>4
  <2> HIDE DEF data
  <2>6. at + 8 <= Len(data) /\ Len(m.data) <= Len(data) /\ (pos >= 0 => Len(data) = Len(m.data))
    BY <1>1, <1>2, <2>3, <2>4, <2>5
  <2>7. end \in Nat /\ end <= Len(data) /\ m.writeBit <= end
    BY <1>1, <1>2, <2>6
  <2> HIDE DEF end
  <2>8. r \in Messages /\ r.data = data /\ r.writeBit = end /\ r.raised = m.raised /\ SameFields(m, r)
    BY <2>1, <2>5, <2>6, <2>7, WithData
  <2>9. Effect(m, r, pos, 1)
    <3>1. CASE pos < 0
      <4>1. SameBelow(m.data, data, m.writeBit)
        BY <1>2, <2>5, <3>1 DEF SameAround, SameBelow
      <4> QED BY <2>7, <2>8, <3>1, <4>1 DEF Effect, Appends
    <3>2. CASE ~(pos < 0)
      BY <1>2, <2>5, <2>6, <2>8, <3>2 DEF Effect, Replaces, end
    <3> QED BY <3>1, <3>2
  <2>10. pos < 0 => r.writeBit = m.writeBit + 1 /\ r.writeBit <= MaxBits
    BY <1>1, <1>4, <2>8, MessageAssumption DEF Room, end
  <2> QED BY <1>2, <2>5, <2>6, <2>8, <2>9, <2>10 DEF HoldsBit, at
<1> QED BY <1>3, <1>4

\* Elements of an array of bools.
IsBools(elements) ==
    elements \in Seq(Seq(Bytes)) /\ \A i \in 1 .. Len(elements) : elements[i] \in {<<0>>, <<1>>}

\* The data has the length and the bits of an array of bools.
HoldsBools(data, pos, elements) ==
    LET n == Len(elements)
        first == pos + PrefixBits(n)
    IN  /\ HoldsBytes(data, pos, ToVarULong(n)) /\ first + n <= Len(data)
        /\ \A i \in 1 .. n : data[first + i] = elements[i][1]

\* An array of bools: it raises never, and the end moves to the end of its length at most.
LEMMA PutBoolArrayIs ==
  ASSUME NEW m \in Messages, NEW elements, IsBools(elements), NEW pos \in Int,
         NEW n, n = Len(elements), Fits(m, pos, PrefixBits(n) + n),
         NEW r, r = PutBoolArray(m, elements, pos)
  PROVE  /\ r \in Messages /\ Effect(m, r, pos, PrefixBits(n) + n) /\ r.raised = m.raised
         /\ r.writeBit = m.writeBit \/ r.writeBit = BytesNeeded(Start(m, pos)) + Len(ToVarULong(n))
         /\ HoldsBools(r.data, Start(m, pos), elements)
<1> DEFINE at == Start(m, pos)
           length == ToVarULong(n)
           c == PutBytes(m, length, at)
           bits == [i \in DOMAIN elements |-> elements[i][1]]
           first == at + 8 * Len(length)
           room == BytesNeeded(first + Len(bits))
           data == Overlay(bits, Padded(c.data, room), first)
<1>1. /\ n \in Nat /\ DOMAIN elements = 1 .. n /\ \A i \in 1 .. n : elements[i] \in {<<0>>, <<1>>}
  BY LenProperties DEF IsBools
<1>2. length \in Seq(Bytes) /\ Len(length) \in Nat /\ 8 * Len(length) = PrefixBits(n) /\ PrefixBits(n) \in Nat
  BY <1>1, VarULongBytes DEF PrefixBits
<1>3. /\ IsData(m.data) /\ Len(m.data) \in Nat /\ m.writeBit \in Nat /\ m.writeBit <= Len(m.data)
      /\ at \in Nat /\ (pos < 0 => at = m.writeBit) /\ (pos >= 0 => at = pos)
  <2>1. /\ IsData(m.data) /\ Len(m.data) \in Nat /\ m.writeBit \in Nat /\ m.writeBit <= Len(m.data)
    BY MessageIs
  <2> QED BY <2>1 DEF Start
<1>4. /\ bits \in Seq({0, 1}) /\ Len(bits) = n /\ \A i \in 1 .. n : bits[i] = elements[i][1]
  <2>1. bits = [i \in 1 .. n |-> elements[i][1]]
    BY <1>1
  <2> HIDE DEF bits
  <2>2. \A i \in 1 .. n : elements[i][1] \in {0, 1}
    <3> TAKE i \in 1 .. n
    <3>1. CASE elements[i] = <<0>>
      BY <3>1
    <3>2. CASE elements[i] = <<1>>
      BY <3>2
    <3> QED BY <1>1, <3>1, <3>2
  <2>3. bits \in [1 .. n -> {0, 1}]
    BY <2>1, <2>2
  <2>4. bits \in Seq({0, 1})
    BY <1>1, <2>3 DEF Seq
  <2>5. Len(bits) = n
    BY <1>1, <2>3, <2>4, LenProperties, SameLength
  <2> QED BY <2>1, <2>4, <2>5
<1>5. r = [c EXCEPT !.data = data]
  <2>1. PutBoolArray(m, elements, pos) =
          [PutBytes(m, ToVarULong(Len(elements)), at) EXCEPT
              !.data = SetBits(bits, @, at + 8 * Len(ToVarULong(Len(elements))))]
    BY DEF PutBoolArray, Start, BITS_PER_BYTE
  <2>2. PutBoolArray(m, elements, pos) = [c EXCEPT !.data = SetBits(bits, c.data, first)]
    BY <2>1
  <2>3. SetBits(bits, c.data, first) = data
    BY DEF SetBits, EnsureSpace
  <2> HIDE DEF data, c, bits, first
  <2> QED BY <2>2, <2>3
<1> HIDE DEF at, bits, length
<1>6. PutsBytes(m, c, length, at)
  BY <1>2, <1>3, PutBytesIs
<1>7. /\ c \in Messages /\ SameFields(m, c) /\ c.raised = m.raised
      /\ SameAround(m.data, c.data, at, at + PrefixBits(n))
      /\ HoldsBytes(c.data, at, length)
      /\ at + PrefixBits(n) <= Len(m.data) => Len(c.data) = Len(m.data) /\ c.writeBit = m.writeBit
      /\ m.writeBit <= c.writeBit
      /\ c.writeBit = m.writeBit \/ c.writeBit = BytesNeeded(at) + Len(length)
  <2>1. Start(m, at) = at /\ at >= 0
    BY <1>3 DEF Start
  <2> QED BY <1>2, <1>6, <2>1 DEF PutsBytes
<1> HIDE DEF c
<1>8. /\ IsData(c.data) /\ Len(c.data) \in Nat /\ c.writeBit \in Nat /\ c.writeBit <= Len(c.data)
      /\ Len(m.data) <= Len(c.data)
  BY <1>7, MessageIs DEF SameAround
<1>9. first \in Nat /\ first = at + PrefixBits(n)
  BY <1>2, <1>3
<1> HIDE DEF first
<1>10. room \in Nat /\ first + Len(bits) <= 8 * room
  <2>1. first + Len(bits) \in Nat
    BY <1>1, <1>4, <1>9
  <2> QED BY <2>1, Rounded
<1>11. pos >= 0 => Len(c.data) = Len(m.data) /\ c.writeBit = m.writeBit /\ 8 * room <= Len(c.data)
  <2>1. pos >= 0 => at + (PrefixBits(n) + n) <= Len(m.data)
    BY <1>3 DEF Fits
  <2>2. pos >= 0 => at + PrefixBits(n) <= Len(m.data) /\ first + Len(bits) <= Len(m.data)
    BY <1>1, <1>2, <1>3, <1>4, <1>9, <2>1, SMTT(30)
  <2>3. first + Len(bits) \in Nat
    BY <1>1, <1>4, <1>9
  <2> QED BY <1>7, <1>8, <2>2, <2>3, RoomThere
<1> HIDE DEF room
<1>12. /\ IsData(data) /\ Len(data) = (IF 8 * room > Len(c.data) THEN 8 * room ELSE Len(c.data))
       /\ Len(data) \in Nat
       /\ SameAround(c.data, data, first, first + n) /\ first + n <= Len(data)
       /\ \A i \in 1 .. n : data[first + i] = bits[i]
  <2>1. data = Overlay(bits, Padded(c.data, room), first)
    OBVIOUS
  <2> HIDE DEF data
  <2>2. PICK old : old = c.data /\ IsData(old)
    BY <1>8
  <2>3. PICK new \in Seq({0, 1}) : new = bits
    BY <1>4
  <2>4. PICK to \in Nat, some \in Nat : to = first /\ some = room /\ to + Len(new) <= 8 * some
    BY <1>9, <1>10, <2>3
  <2>5. PICK after : after = data /\ after = Overlay(new, Padded(old, some), to)
    BY <2>1, <2>2, <2>3, <2>4
  <2>6. /\ IsData(after) /\ Len(after) = (IF 8 * some > Len(old) THEN 8 * some ELSE Len(old))
        /\ Len(after) \in Nat
        /\ SameAround(old, after, to, to + Len(new)) /\ to + Len(new) <= Len(after)
        /\ \A i \in 1 .. Len(new) : after[to + i] = new[i]
    BY <2>2, <2>4, <2>5, BitsCopied
  <2>7. Len(new) = n
    BY <1>4, <2>3
  <2> QED BY <2>2, <2>3, <2>4, <2>5, <2>6, <2>7
<1> HIDE DEF data
<1>13. Len(c.data) <= Len(data) /\ (pos >= 0 => Len(data) = Len(m.data))
  BY <1>8, <1>10, <1>11, <1>12
<1>14. r = With(c, data, c.writeBit)
  BY <1>5, <1>7 DEF With, Messages
<1>15. /\ r \in Messages /\ r.data = data /\ r.writeBit = c.writeBit /\ r.raised = m.raised /\ SameFields(c, r)
  <2>1. c.writeBit <= Len(data)
    BY <1>8, <1>12, <1>13
  <2> QED BY <1>7, <1>8, <1>12, <1>13, <1>14, <2>1, WithData
<1>16. SameFields(m, r)
  BY <1>7, <1>15 DEF SameFields
<1>17. SameAround(m.data, data, at, at + (PrefixBits(n) + n))
  <2>1. /\ \A k \in 1 .. Len(m.data) : k <= at \/ at + PrefixBits(n) < k => c.data[k] = m.data[k]
        /\ \A k \in 1 .. Len(c.data) : k <= first \/ first + n < k => data[k] = c.data[k]
    BY <1>7, <1>12 DEF SameAround
  <2>2. ASSUME NEW k \in 1 .. Len(m.data), k <= at \/ at + (PrefixBits(n) + n) < k PROVE data[k] = m.data[k]
    <3>0. PICK p \in Nat : p = PrefixBits(n)
      BY <1>2
    <3>a. k \in Nat /\ k <= Len(m.data) /\ (k <= at \/ at + (p + n) < k) /\ first = at + p
      BY <1>3, <1>9, <2>2, <3>0
    <3>b. (k <= at \/ at + p < k) /\ (k <= first \/ first + n < k)
      BY <1>1, <1>3, <3>0, <3>a
    <3>1. k \in 1 .. Len(c.data) /\ (k <= at \/ at + PrefixBits(n) < k) /\ (k <= first \/ first + n < k)
      BY <1>3, <1>8, <3>0, <3>a, <3>b, SMTT(30)
    <3> QED BY <2>1, <2>2, <3>1
  <2>3. Len(m.data) <= Len(data)
    BY <1>3, <1>8, <1>12, <1>13
  <2> QED BY <2>2, <2>3 DEF SameAround
<1>18. Effect(m, r, pos, PrefixBits(n) + n)
  <2>1. CASE pos < 0
    <3>1. SameBelow(m.data, data, m.writeBit)
      BY <1>3, <1>17, <2>1 DEF SameAround, SameBelow
    <3> QED BY <1>7, <1>15, <1>16, <2>1, <3>1 DEF Effect, Appends
  <2>2. CASE ~(pos < 0)
    <3>1. at = pos /\ pos >= 0
      BY <1>3, <2>2
    <3> QED BY <1>11, <1>13, <1>15, <1>16, <1>17, <2>2, <3>1 DEF Effect, Replaces
  <2> QED BY <2>1, <2>2
<1>19. HoldsBytes(data, at, length)
  <2>1. SameBelow(c.data, data, first)
    BY <1>12 DEF SameAround, SameBelow
  <2>2. at + 8 * Len(length) <= first
    BY <1>2, <1>3, <1>9
  <2> QED BY <1>2, <1>3, <1>7, <1>8, <1>9, <1>12, <2>1, <2>2, HoldsBytesBelow
<1>20. HoldsBools(data, at, elements)
  BY <1>4, <1>9, <1>12, <1>19 DEF HoldsBools, length
<1> QED BY <1>7, <1>15, <1>18, <1>20 DEF at, length

-----------------------------------------------------------------------------
(* Items. *)

\* The bits an item takes in a message, and those it must have behind its position.
Size(item) ==
    LET v == item.elements
        n == Len(v)
    IN  IF item.type = "Bool" THEN IF item.array THEN PrefixBits(n) + n ELSE 1
        ELSE IF item.type = "String" THEN IF item.array THEN StringSpot(v, n + 1) ELSE StringSize(v[1])
        ELSE IF item.array THEN Spot(WidthOf[item.type], n, n + 1) ELSE 8 * WidthOf[item.type].size

Extent(item) == IF item.type = "Bool" /\ ~item.array THEN 8 ELSE Size(item)

\* The data has an item at a position.
HoldsItem(data, pos, item) ==
    LET v == item.elements
    IN  IF item.type = "Bool" THEN IF item.array THEN HoldsBools(data, pos, v) ELSE HoldsBit(data, pos, v[1][1])
        ELSE IF item.type = "String" THEN IF item.array THEN HoldsStrings(data, pos, v)
                                          ELSE HoldsString(data, pos, v[1])
        ELSE IF item.array THEN HoldsArray(data, pos, WidthOf[item.type], v) ELSE HoldsBytes(data, pos, v[1])

\* A type of fixed width is not one of the others.
LEMMA FixedTypes ==
  ASSUME NEW type \in DOMAIN WidthOf
  PROVE  type # "Bool" /\ type # "String"
<1>1. type \in UNION {DOMAIN Byte, DOMAIN Short, DOMAIN Int32s, DOMAIN Long, DOMAIN Float, DOMAIN Double}
  BY DEF WidthOf
<1> QED BY <1>1 DEF Byte, Short, Int32s, Long, Float, Double

\* A length takes whole bytes.
LEMMA PrefixIs ==
  ASSUME NEW n \in Nat
  PROVE  PrefixBits(n) \in Nat \ {0} /\ PrefixBits(n) = 8 * Len(ToVarULong(n)) /\ Len(ToVarULong(n)) \in Nat
<1>1. Len(ToVarULong(n)) \in Nat \ {0}
  BY VarULongBytes
<1> QED BY <1>1 DEF PrefixBits

\* What an item has of its type.
LEMMA ItemIs ==
  ASSUME NEW item, IsItem(item)
  PROVE  /\ item.array \in BOOLEAN /\ item.elements \in Seq(Seq(Bytes)) /\ Len(item.elements) \in Nat
         /\ item.type \in DOMAIN WidthOf \/ item.type = "Bool" \/ item.type = "String"
         /\ ~item.array => Len(item.elements) = 1 /\ item.elements[1] \in Seq(Bytes)
         /\ item.type = "Bool" /\ ~item.array => item.elements[1] \in {<<0>>, <<1>>} /\ item.elements[1][1] \in {0, 1}
         /\ item.type = "Bool" /\ item.array => IsBools(item.elements)
         /\ item.type \in DOMAIN WidthOf => /\ IsWidth(WidthOf[item.type])
                                            /\ item.type # "Bool" /\ item.type # "String"
                                            /\ item.array => IsElements(item.elements, WidthOf[item.type])
                                            /\ ~item.array => Len(item.elements[1]) = WidthOf[item.type].size
<1> DEFINE v == item.elements
           n == Len(v)
<1>1. /\ item.type \in DOMAIN WidthOf \/ item.type = "Bool" \/ item.type = "String"
      /\ item.array \in BOOLEAN /\ v \in Seq(Seq(Bytes))
      /\ ~item.array => n = 1
      /\ \A i \in DOMAIN v : /\ item.type \in DOMAIN WidthOf => Len(v[i]) = WidthOf[item.type].size
                             /\ item.type = "Bool" => v[i] \in {<<0>>, <<1>>}
  BY DEF IsItem, Bytes
<1> HIDE DEF v
<1>2. n \in Nat /\ DOMAIN v = 1 .. n
  BY <1>1, LenProperties
<1>3. ~item.array => n = 1 /\ 1 \in 1 .. n /\ v[1] \in Seq(Bytes)
  <2> SUFFICES ASSUME ~item.array PROVE n = 1 /\ 1 \in 1 .. n /\ v[1] \in Seq(Bytes)
    OBVIOUS
  <2>1. n = 1
    BY <1>1
  <2>2. 1 \in 1 .. n
    BY <2>1
  <2> QED BY <1>1, <2>1, <2>2, SeqElement
<1>4. item.type = "Bool" /\ ~item.array => v[1] \in {<<0>>, <<1>>} /\ v[1][1] \in {0, 1}
  <2> SUFFICES ASSUME item.type = "Bool", ~item.array PROVE v[1] \in {<<0>>, <<1>>} /\ v[1][1] \in {0, 1}
    OBVIOUS
  <2>1. v[1] \in {<<0>>, <<1>>}
    BY <1>1, <1>2, <1>3
  <2>2. CASE v[1] = <<0>>
    BY <2>2
  <2>3. CASE v[1] = <<1>>
    BY <2>3
  <2> QED BY <2>1, <2>2, <2>3
<1>5. item.type = "Bool" => IsBools(v)
  BY <1>1, <1>2 DEF IsBools
<1>6. item.type \in DOMAIN WidthOf => /\ IsWidth(WidthOf[item.type])
                                      /\ item.type # "Bool" /\ item.type # "String"
  BY Widths, FixedTypes
<1>7. item.type \in DOMAIN WidthOf => IsElements(v, WidthOf[item.type])
  BY <1>1, <1>2 DEF IsElements
<1>8. item.type \in DOMAIN WidthOf /\ ~item.array => Len(v[1]) = WidthOf[item.type].size
  BY <1>1, <1>2, <1>3
<1> QED BY <1>1, <1>2, <1>3, <1>4, <1>5, <1>6, <1>7, <1>8 DEF v

\* Sizes are numbers.
LEMMA SizeIs ==
  ASSUME NEW item, IsItem(item)
  PROVE  /\ Size(item) \in Nat \ {0} /\ Extent(item) \in Nat /\ Size(item) <= Extent(item)
         /\ Size(item) # Extent(item) => item.type = "Bool" /\ ~item.array
<1> DEFINE v == item.elements
           n == Len(v)
           w == WidthOf[item.type]
<1>1. /\ item.array \in BOOLEAN /\ v \in Seq(Seq(Bytes)) /\ n \in Nat
      /\ item.type \in DOMAIN WidthOf \/ item.type = "Bool" \/ item.type = "String"
      /\ ~item.array => v[1] \in Seq(Bytes)
      /\ item.type \in DOMAIN WidthOf => IsWidth(w) /\ item.type # "Bool" /\ item.type # "String"
  BY ItemIs
<1> HIDE DEF v, n, w
<1>0. PrefixBits(n) \in Nat \ {0}
  BY <1>1, PrefixIs
<1>2. Size(item) \in Nat \ {0}
  <2>1. CASE item.type = "Bool"
    <3>1. Size(item) = IF item.array THEN PrefixBits(n) + n ELSE 1
      BY <2>1 DEF Size, v, n
    <3> QED BY <1>0, <1>1, <3>1
  <2>2. CASE item.type = "String"
    <3>1. Size(item) = IF item.array THEN StringSpot(v, n + 1) ELSE StringSize(v[1])
      BY <2>2 DEF Size, v, n
    <3>2. StringSpot(v, n + 1) \in Nat /\ PrefixBits(n) <= StringSpot(v, n + 1)
      <4>1. n + 1 \in 1 .. n + 1 /\ n = Len(v)
        BY <1>1 DEF n
      <4> QED BY <1>1, <4>1, StringSpots
    <3>3. ~item.array => StringSize(v[1]) \in Nat \ {0}
      <4> SUFFICES ASSUME ~item.array PROVE StringSize(v[1]) \in Nat \ {0}
        OBVIOUS
      <4>1. Len(v[1]) \in Nat /\ StringSize(v[1]) = PrefixBits(Len(v[1])) + 8 * Len(v[1])
        BY <1>1, CharactersAre
      <4>2. PrefixBits(Len(v[1])) \in Nat \ {0}
        BY <4>1, PrefixIs
      <4> QED BY <4>1, <4>2
    <3> QED BY <1>0, <3>1, <3>2, <3>3
  <2>3. CASE item.type # "Bool" /\ item.type # "String"
    <3>1. Size(item) = IF item.array THEN Spot(w, n, n + 1) ELSE 8 * w.size
      BY <2>3 DEF Size, v, n, w
    <3>2. IsWidth(w)
      BY <1>1, <2>3
    <3>3. Spot(w, n, n + 1) \in Nat /\ PrefixBits(n) <= Spot(w, n, n + 1)
      <4>1. n + 1 \in 1 .. n + 1
        BY <1>1
      <4> QED BY <1>1, <3>2, <4>1, Spots
    <3>4. 8 * w.size \in Nat \ {0}
      BY <3>2 DEF IsWidth
    <3> QED BY <1>0, <3>1, <3>3, <3>4
  <2> QED BY <2>1, <2>2, <2>3
<1>3. item.type = "Bool" /\ ~item.array => Size(item) = 1
  BY DEF Size
<1> HIDE DEF Size
<1> QED BY <1>2, <1>3 DEF Extent

\* Every put starts without an exception.
Cleared(m) == [m EXCEPT !.raised = FALSE]

\* Nothing but that is different.
LEMMA ClearedIs ==
  ASSUME NEW m \in Messages
  PROVE  /\ Cleared(m) \in Messages /\ ~Cleared(m).raised /\ SameFields(m, Cleared(m))
         /\ Cleared(m).data = m.data /\ Cleared(m).writeBit = m.writeBit
         /\ \A pos : Start(Cleared(m), pos) = Start(m, pos)
         /\ \A pos, size : Fits(Cleared(m), pos, size) = Fits(m, pos, size)
         /\ \A bits : Room(Cleared(m), bits) = Room(m, bits)
         /\ \A r, pos, size : Effect(Cleared(m), r, pos, size) => Effect(m, r, pos, size)
<1>1. /\ Cleared(m) \in Messages /\ ~Cleared(m).raised /\ SameFields(m, Cleared(m))
      /\ Cleared(m).data = m.data /\ Cleared(m).writeBit = m.writeBit
  BY DEF Cleared, Messages, SameFields
<1>2. /\ \A pos : Start(Cleared(m), pos) = Start(m, pos)
      /\ \A pos, size : Fits(Cleared(m), pos, size) = Fits(m, pos, size)
      /\ \A bits : Room(Cleared(m), bits) = Room(m, bits)
  BY <1>1 DEF Start, Fits, Room
<1>3. ASSUME NEW r, NEW pos, NEW size, Effect(Cleared(m), r, pos, size) PROVE Effect(m, r, pos, size)
  BY <1>1, <1>3 DEF Effect, Appends, Replaces, SameFields
<1> QED BY <1>1, <1>2, <1>3

\* What put does with each kind of item.
LEMMA PutKinds ==
  ASSUME NEW m, NEW item, IsItem(item), NEW pos, NEW r, r = Put(m, item, pos),
         NEW v, v = item.elements, NEW x, x = Cleared(m)
  PROVE  /\ item.type = "Bool" /\ ~item.array => r = PutBool(x, v[1][1], pos)
         /\ item.type = "Bool" /\ item.array => r = PutBoolArray(x, v, pos)
         /\ item.type = "String" /\ ~item.array => r = PutString(x, v[1], pos)
         /\ item.type = "String" /\ item.array => r = PutStringArray(x, v, pos)
         /\ item.type \in DOMAIN WidthOf /\ item.array => r = PutArray(x, WidthOf[item.type], v, pos)
         /\ item.type \in DOMAIN WidthOf /\ ~item.array => r = PutFixed(x, WidthOf[item.type], v[1], pos)
<1>1. r = CASE item.type = "Bool" /\ ~item.array -> PutBool(x, v[1][1], pos)
            [] item.type = "Bool" /\ item.array -> PutBoolArray(x, v, pos)
            [] item.type = "String" /\ ~item.array -> PutString(x, v[1], pos)
            [] item.type = "String" /\ item.array -> PutStringArray(x, v, pos)
            [] OTHER -> IF item.array THEN PutArray(x, WidthOf[item.type], v, pos)
                        ELSE PutFixed(x, WidthOf[item.type], v[1], pos)
  BY Zenon DEF Put, Cleared
<1>2. item.type = "Bool" => item.type # "String"
  OBVIOUS
<1>3. item.type \in DOMAIN WidthOf => item.type # "Bool" /\ item.type # "String"
  BY FixedTypes
<1>4. CASE item.type = "Bool" /\ ~item.array
  BY <1>1, <1>2, <1>3, <1>4, Zenon
<1>5. CASE item.type = "Bool" /\ item.array
  BY <1>1, <1>2, <1>3, <1>5, Zenon
<1>6. CASE item.type = "String" /\ ~item.array
  BY <1>1, <1>2, <1>3, <1>6, Zenon
<1>7. CASE item.type = "String" /\ item.array
  BY <1>1, <1>2, <1>3, <1>7, Zenon
<1>8. CASE item.type \in DOMAIN WidthOf /\ item.array
  BY <1>1, <1>2, <1>3, <1>8, Zenon
<1>9. CASE item.type \in DOMAIN WidthOf /\ ~item.array
  BY <1>1, <1>2, <1>3, <1>9, Zenon
<1> QED BY <1>4, <1>5, <1>6, <1>7, <1>8, <1>9

\* What a put of an item does: it writes where it should, and unless it raises the item is there.
PutsItem(m, r, item, pos) ==
    /\ r \in Messages /\ Effect(m, r, pos, Size(item))
    /\ ~r.raised =>
          /\ pos < 0 /\ ~(item.type = "Bool" /\ item.array) => r.writeBit = m.writeBit + Size(item)
          /\ (item.type = "UInt8" /\ item.array => pos < 0) =>
                /\ Start(m, pos) + Extent(item) <= Len(r.data)
                /\ HoldsItem(r.data, Start(m, pos), item)

\* What is appended ends within the limit.
PutsWithin(m, r, item, pos) ==
    ~r.raised /\ pos < 0 /\ ~(item.array /\ item.type \in {"Bool", "String"}) => r.writeBit <= MaxBits

\* A single item of fixed width that does not fit changes nothing.
PutsOrNot(m, r, item) ==
    r.raised /\ ~item.array /\ item.type # "String" => r.data = m.data /\ r.writeBit = m.writeBit

\* The end of an array: its last element, or its length.
LEMMA HoldsArrayEnd ==
  ASSUME NEW data, NEW pos \in Nat, NEW width, IsWidth(width), NEW elements, IsElements(elements, width),
         HoldsArray(data, pos, width, elements)
  PROVE  pos + Spot(width, Len(elements), Len(elements) + 1) <= Len(data)
<1> DEFINE n == Len(elements)
<1>1. n \in Nat /\ \A i \in 1 .. n : Len(elements[i]) = width.size
  BY LenProperties DEF IsElements
<1>2. /\ HoldsBytes(data, pos, ToVarULong(n))
      /\ \A i \in 1 .. n : HoldsBytes(data, pos + Spot(width, n, i), elements[i])
  BY DEF HoldsArray
<1> HIDE DEF n
<1>3. /\ PrefixBits(n) \in Nat /\ Spot(width, n, 1) = PrefixBits(n)
      /\ \A i \in 1 .. n + 1 : Spot(width, n, i) \in Nat
      /\ \A i \in 1 .. n : Spot(width, n, i + 1) = Spot(width, n, i) + 8 * width.size
  BY <1>1, Spots
<1>4. CASE n = 0
  <2>1. PrefixBits(n) = 8 * Len(ToVarULong(n))
    BY DEF PrefixBits
  <2>2. pos + 8 * Len(ToVarULong(n)) <= Len(data)
    BY <1>2 DEF HoldsBytes
  <2> QED BY <1>3, <1>4, <2>1, <2>2 DEF n
<1>5. CASE n # 0
  <2>1. n \in 1 .. n /\ n \in 1 .. n + 1
    BY <1>1, <1>5
  <2>2. (pos + Spot(width, n, n)) + 8 * Len(elements[n]) <= Len(data)
    BY <1>2, <2>1 DEF HoldsBytes
  <2>3. PICK s \in Nat : s = Spot(width, n, n)
    BY <1>3, <2>1
  <2>4. PICK w \in Nat : w = 8 * width.size
    BY DEF IsWidth
  <2>5. Spot(width, n, n + 1) = s + w
    BY <1>3, <2>1, <2>3, <2>4
  <2>6. (pos + s) + w <= Len(data)
    BY <1>1, <2>1, <2>2, <2>3, <2>4
  <2>7. (pos + s) + w = pos + (s + w)
    OBVIOUS
  <2> QED BY <2>5, <2>6, <2>7 DEF n
<1> QED BY <1>4, <1>5

\* The end of a string, and of an array of strings.
LEMMA HoldsStringEnd ==
  ASSUME NEW data, NEW pos \in Nat, NEW s \in Seq(Bytes), HoldsString(data, pos, s)
  PROVE  pos + StringSize(s) <= Len(data)
<1> DEFINE n == Len(s)
<1>1. n \in Nat /\ StringSize(s) = PrefixBits(n) + 8 * n
  BY CharactersAre
<1>2. (pos + PrefixBits(n)) + 8 * n <= Len(data)
  BY DEF HoldsString, HoldsBytes
<1> HIDE DEF n
<1>3. PrefixBits(n) \in Nat
  BY <1>1, PrefixIs
<1>4. (pos + PrefixBits(n)) + 8 * n = pos + (PrefixBits(n) + 8 * n)
  BY <1>1, <1>3
<1> QED BY <1>1, <1>2, <1>4

\* An array of strings that is held ends within the data.
LEMMA HoldsStringsEnd ==
  ASSUME NEW data, NEW pos \in Nat, NEW strings \in Seq(Seq(Bytes)), HoldsStrings(data, pos, strings)
  PROVE  pos + StringSpot(strings, Len(strings) + 1) <= Len(data)
<1> DEFINE n == Len(strings)
<1>1. /\ HoldsBytes(data, pos, ToVarULong(n))
      /\ \A i \in 1 .. n : HoldsString(data, pos + StringSpot(strings, i), strings[i])
  BY DEF HoldsStrings
<1>2. /\ n \in Nat /\ PrefixBits(n) \in Nat /\ StringSpot(strings, 1) = PrefixBits(n)
      /\ \A i \in 1 .. n + 1 : StringSpot(strings, i) \in Nat
      /\ \A i \in 1 .. n : /\ strings[i] \in Seq(Bytes) /\ StringSize(strings[i]) \in Nat
                           /\ StringSpot(strings, i + 1) = StringSpot(strings, i) + StringSize(strings[i])
  BY StringSpots
<1> HIDE DEF n
<1>3. CASE n = 0
  <2>1. pos + 8 * Len(ToVarULong(n)) <= Len(data)
    BY <1>1 DEF HoldsBytes
  <2>2. PrefixBits(n) = 8 * Len(ToVarULong(n))
    BY DEF PrefixBits
  <2> QED BY <1>2, <1>3, <2>1, <2>2 DEF n
<1>4. CASE n # 0
  <2>1. n \in 1 .. n /\ n \in 1 .. n + 1
    BY <1>2, <1>4
  <2>2. PICK s \in Nat : s = StringSpot(strings, n)
    BY <1>2, <2>1
  <2>3. PICK w \in Nat : w = StringSize(strings[n])
    BY <1>2, <2>1
  <2>4. PICK p \in Nat : p = pos + s
    OBVIOUS
  <2>5. HoldsString(data, p, strings[n])
    BY <1>1, <2>1, <2>2, <2>4
  <2>6. p + StringSize(strings[n]) <= Len(data)
    BY <1>2, <2>1, <2>5, HoldsStringEnd
  <2>7. StringSpot(strings, n + 1) = s + w
    BY <1>2, <2>1, <2>2, <2>3
  <2>8. p + w = pos + (s + w)
    BY <2>4
  <2> QED BY <2>3, <2>6, <2>7, <2>8 DEF n
<1> QED BY <1>3, <1>4

\* What PutFixed does with a single value of a fixed width: the room is checked first, and
\* the put raises or writes all of it.
LEMMA PutFixedIs ==
  ASSUME NEW m \in Messages, ~m.raised, NEW item, IsItem(item), item.type \in DOMAIN WidthOf, ~item.array,
         NEW pos \in Int, Fits(m, pos, Extent(item)),
         NEW r, r = PutFixed(m, WidthOf[item.type], item.elements[1], pos)
  PROVE  PutsItem(m, r, item, pos) /\ PutsWithin(m, r, item, pos) /\ PutsOrNot(m, r, item)
<1> DEFINE w == WidthOf[item.type]
           bytes == item.elements[1]
           size == 8 * w.size
<1>1. bytes \in Seq(Bytes) /\ Len(bytes) = w.size /\ IsWidth(w) /\ item.type # "Bool" /\ item.type # "String"
  BY ItemIs
<1>2. Size(item) = size /\ Extent(item) = size /\ \A data, p : HoldsItem(data, p, item) <=> HoldsBytes(data, p, bytes)
  BY <1>1 DEF Size, Extent, HoldsItem
<1>3. r = IF Room(m, size) THEN PutBytes(m, bytes, pos) ELSE Raise(m)
  BY DEF PutFixed, BITS_PER_BYTE
<1> HIDE DEF w, bytes
<1>4. size \in Nat /\ size = 8 * Len(bytes)
  BY <1>1 DEF IsWidth
<1> HIDE DEF size
<1>5. CASE ~Room(m, size)
  <2>1. r = Raise(m)
    BY <1>3, <1>5
  <2>2. r \in Messages /\ r.raised /\ r.data = m.data /\ r.writeBit = m.writeBit
    BY <2>1, RaiseIs
  <2>3. Effect(m, r, pos, size)
    BY <1>4, <2>1, NoEffect
  <2> QED BY <1>2, <2>2, <2>3 DEF PutsItem, PutsWithin, PutsOrNot
<1>6. CASE Room(m, size)
  <2>1. r = PutBytes(m, bytes, pos)
    BY <1>3, <1>6
  <2>2. Fits(m, pos, size)
    BY <1>2
  <2>3. /\ Effect(m, r, pos, size) /\ r.raised = m.raised
        /\ pos < 0 => r.writeBit = m.writeBit + size
        /\ HoldsBytes(r.data, Start(m, pos), bytes)
    <3>1. bytes \in Seq(Bytes) /\ size \in Nat /\ size = 8 * Len(bytes)
      BY <1>1, <1>4
    <3> QED BY <2>1, <2>2, <3>1, PutBytesEffect
  <2>4. r \in Messages
    BY <1>4, <2>3, EffectBelow
  <2>5. m.writeBit \in Nat /\ (pos < 0 => r.writeBit <= MaxBits)
    <3>1. m.writeBit \in Nat
      BY MessageIs
    <3>2. MaxBits - m.writeBit >= size
      BY <1>6 DEF Room
    <3> QED BY <1>4, <2>3, <3>1, <3>2, MessageAssumption
  <2>6. Start(m, pos) + size <= Len(r.data)
    BY <1>4, <2>3 DEF HoldsBytes
  <2> QED BY <1>2, <2>3, <2>4, <2>5, <2>6 DEF PutsItem, PutsWithin, PutsOrNot
<1> QED BY <1>5, <1>6

\* What a put does, whatever the item.
LEMMA PutIs ==
  ASSUME NEW m \in Messages, NEW item, IsItem(item), NEW pos \in Int, Fits(m, pos, Extent(item)),
         NEW r, r = Put(m, item, pos)
  PROVE  /\ PutsItem(m, r, item, pos) /\ PutsWithin(m, r, item, pos) /\ PutsOrNot(m, r, item)
         /\ item.type = "Bool" /\ item.array =>
               r.writeBit = m.writeBit \/ r.writeBit = BytesNeeded(Start(m, pos)) + Len(ToVarULong(Len(item.elements)))
<1> DEFINE v == item.elements
           n == Len(v)
           w == WidthOf[item.type]
           x == Cleared(m)
           at == Start(m, pos)
<1>1. /\ item.array \in BOOLEAN /\ v \in Seq(Seq(Bytes)) /\ n \in Nat
      /\ item.type \in DOMAIN WidthOf \/ item.type = "Bool" \/ item.type = "String"
      /\ ~item.array => v[1] \in Seq(Bytes)
      /\ item.type = "Bool" /\ ~item.array => v[1][1] \in {0, 1}
      /\ item.type = "Bool" /\ item.array => IsBools(v)
      /\ item.type \in DOMAIN WidthOf => /\ IsWidth(w) /\ item.type # "Bool" /\ item.type # "String"
                                         /\ item.array => IsElements(v, w)
  BY ItemIs
<1>2. /\ x \in Messages /\ ~x.raised /\ x.data = m.data /\ x.writeBit = m.writeBit
      /\ Start(x, pos) = at /\ Fits(x, pos, Extent(item))
      /\ \A y, size : Effect(x, y, pos, size) => Effect(m, y, pos, size)
  BY ClearedIs
<1>3. /\ item.type = "Bool" /\ ~item.array => r = PutBool(x, v[1][1], pos)
      /\ item.type = "Bool" /\ item.array => r = PutBoolArray(x, v, pos)
      /\ item.type = "String" /\ ~item.array => r = PutString(x, v[1], pos)
      /\ item.type = "String" /\ item.array => r = PutStringArray(x, v, pos)
      /\ item.type \in DOMAIN WidthOf /\ item.array => r = PutArray(x, w, v, pos)
      /\ item.type \in DOMAIN WidthOf /\ ~item.array => r = PutFixed(x, w, v[1], pos)
  BY PutKinds
<1>4. at \in Nat
  <2>1. m.writeBit \in Nat
    BY MessageIs
  <2> QED BY <2>1 DEF Start
<1>5. Size(item) \in Nat /\ Extent(item) \in Nat
  BY SizeIs
<1> HIDE DEF x, at
<1>6. ASSUME PutsItem(x, r, item, pos), PutsWithin(x, r, item, pos), PutsOrNot(x, r, item)
      PROVE  PutsItem(m, r, item, pos) /\ PutsWithin(m, r, item, pos) /\ PutsOrNot(m, r, item)
  BY <1>2, <1>6 DEF PutsItem, PutsWithin, PutsOrNot, at
<1> HIDE DEF v, n, w
<1>7. CASE item.type = "Bool" /\ ~item.array
  <2>1. Size(item) = 1 /\ Extent(item) = 8 /\ \A data, p : HoldsItem(data, p, item) <=> HoldsBit(data, p, v[1][1])
    BY <1>7 DEF Size, Extent, HoldsItem, v
  <2>2. Fits(x, pos, 8) /\ r = PutBool(x, v[1][1], pos) /\ v[1][1] \in {0, 1}
    BY <1>1, <1>2, <1>3, <1>7, <2>1
  <2>3. /\ r \in Messages /\ Effect(x, r, pos, 1)
        /\ r.raised => r = Raise(x)
        /\ ~r.raised =>
              /\ pos < 0 => r.writeBit = x.writeBit + 1 /\ r.writeBit <= MaxBits
              /\ Start(x, pos) + 8 <= Len(r.data)
              /\ HoldsBit(r.data, Start(x, pos), v[1][1])
    BY <1>2, <2>2, PutBoolIs
  <2>4. r.raised => r.data = x.data /\ r.writeBit = x.writeBit
    BY <1>2, <2>3, RaiseIs
  <2> QED BY <1>6, <1>7, <2>1, <2>3, <2>4 DEF PutsItem, PutsWithin, PutsOrNot
<1>8. CASE item.type = "Bool" /\ item.array
  <2>1. /\ Size(item) = PrefixBits(n) + n /\ Extent(item) = PrefixBits(n) + n
        /\ \A data, p : HoldsItem(data, p, item) <=> HoldsBools(data, p, v)
    BY <1>8 DEF Size, Extent, HoldsItem, v, n
  <2>2. Fits(x, pos, PrefixBits(n) + n) /\ r = PutBoolArray(x, v, pos) /\ IsBools(v) /\ n = Len(v)
    BY <1>1, <1>2, <1>3, <1>8, <2>1 DEF n
  <2>3. /\ r \in Messages /\ Effect(x, r, pos, PrefixBits(n) + n) /\ r.raised = x.raised
        /\ r.writeBit = x.writeBit \/ r.writeBit = BytesNeeded(Start(x, pos)) + Len(ToVarULong(n))
        /\ HoldsBools(r.data, Start(x, pos), v)
    BY <1>2, <2>2, PutBoolArrayIs
  <2>4. Start(x, pos) + Extent(item) <= Len(r.data)
    <3>1. (at + PrefixBits(n)) + n <= Len(r.data)
      BY <1>2, <2>2, <2>3 DEF HoldsBools
    <3>2. PrefixBits(n) \in Nat
      BY <1>1, PrefixIs
    <3>3. (at + PrefixBits(n)) + n = at + (PrefixBits(n) + n)
      BY <1>1, <1>4, <3>2
    <3> QED BY <1>2, <2>1, <3>1, <3>3
  <2> QED BY <1>2, <1>6, <1>8, <2>1, <2>2, <2>3, <2>4 DEF PutsItem, PutsWithin, PutsOrNot, v, at
<1>9. CASE item.type = "String" /\ ~item.array
  <2>0. item.type # "Bool"
    BY <1>9
  <2>1. /\ Size(item) = StringSize(v[1]) /\ Extent(item) = StringSize(v[1])
        /\ \A data, p : HoldsItem(data, p, item) <=> HoldsString(data, p, v[1])
    BY <1>9, <2>0 DEF Size, Extent, HoldsItem, v
  <2>2. Fits(x, pos, StringSize(v[1])) /\ r = PutString(x, v[1], pos) /\ v[1] \in Seq(Bytes)
    BY <1>1, <1>2, <1>3, <1>9, <2>1
  <2>3. /\ r \in Messages /\ Effect(x, r, pos, StringSize(v[1]))
        /\ ~r.raised =>
              /\ pos < 0 => r.writeBit = x.writeBit + StringSize(v[1]) /\ r.writeBit <= MaxBits
              /\ HoldsString(r.data, Start(x, pos), v[1])
    BY <1>2, <2>2, PutStringIs
  <2>4. ~r.raised => Start(x, pos) + Extent(item) <= Len(r.data)
    BY <1>2, <1>4, <2>1, <2>2, <2>3, HoldsStringEnd
  <2> QED BY <1>6, <1>9, <2>0, <2>1, <2>3, <2>4 DEF PutsItem, PutsWithin, PutsOrNot
<1>10. CASE item.type = "String" /\ item.array
  <2>0. item.type # "Bool"
    BY <1>10
  <2>1. /\ Size(item) = StringSpot(v, n + 1) /\ Extent(item) = StringSpot(v, n + 1)
        /\ \A data, p : HoldsItem(data, p, item) <=> HoldsStrings(data, p, v)
    BY <1>10, <2>0 DEF Size, Extent, HoldsItem, v, n
  <2>2. Fits(x, pos, StringSpot(v, n + 1)) /\ r = PutStringArray(x, v, pos) /\ n = Len(v)
    BY <1>1, <1>2, <1>3, <1>10, <2>1 DEF n
  <2>3. /\ r \in Messages /\ Effect(x, r, pos, StringSpot(v, n + 1))
        /\ ~r.raised =>
              /\ pos < 0 => r.writeBit = x.writeBit + StringSpot(v, n + 1)
              /\ HoldsStrings(r.data, Start(x, pos), v)
    <3>1. PICK strings \in Seq(Seq(Bytes)) : strings = v
      BY <1>1
    <3>2. PICK y \in Messages : y = x /\ ~y.raised
      BY <1>1, <1>2
    <3>3. Fits(y, pos, StringSpot(strings, Len(strings) + 1)) /\ r = PutStringArray(y, strings, pos)
      BY <2>2, <3>1, <3>2
    <3> HIDE DEF v, n, x
    <3>4. StringsPut(y, r, strings, pos)
      BY <3>2, <3>3, PutStringArrayIs
    <3>5. StringsPut(x, r, v, pos) /\ n = Len(v)
      BY <2>2, <3>1, <3>2, <3>4
    <3> QED BY <3>5 DEF StringsPut
  <2>4. ~r.raised => Start(x, pos) + Extent(item) <= Len(r.data)
    BY <1>1, <1>2, <1>4, <2>1, <2>2, <2>3, HoldsStringsEnd
  <2> QED BY <1>6, <1>10, <2>0, <2>1, <2>3, <2>4 DEF PutsItem, PutsWithin, PutsOrNot
<1>11. CASE item.type \in DOMAIN WidthOf /\ item.array
  <2>0. item.type # "Bool" /\ item.type # "String" /\ IsWidth(w) /\ IsElements(v, w)
    BY <1>1, <1>11
  <2>1. /\ Size(item) = Spot(w, n, n + 1) /\ Extent(item) = Spot(w, n, n + 1)
        /\ \A data, p : HoldsItem(data, p, item) <=> HoldsArray(data, p, w, v)
    BY <1>11, <2>0 DEF Size, Extent, HoldsItem, v, n, w
  <2>2. Fits(x, pos, Spot(w, n, n + 1)) /\ r = PutArray(x, w, v, pos) /\ n = Len(v)
    BY <1>1, <1>2, <1>3, <1>11, <2>1 DEF n
  <2>3. /\ r \in Messages /\ Effect(x, r, pos, Spot(w, n, n + 1))
        /\ ~r.raised =>
              /\ pos < 0 => r.writeBit = x.writeBit + Spot(w, n, n + 1) /\ r.writeBit <= MaxBits
              /\ pos < 0 \/ w.step = 8 * w.size => HoldsArray(r.data, Start(x, pos), w, v)
    <3>1. x \in Messages /\ ~x.raised /\ IsWidth(w) /\ IsElements(v, w)
      BY <1>2, <2>0
    <3>3. ArrayPut(x, r, w, v, pos)
      BY <2>2, <3>1, PutArrayIs
    <3> QED BY <2>2, <3>3 DEF ArrayPut
  <2>4. (item.type = "UInt8" /\ item.array => pos < 0) => pos < 0 \/ w.step = 8 * w.size
    BY <1>11, Widths DEF w
  <2>5. ~r.raised /\ HoldsArray(r.data, Start(x, pos), w, v) => Start(x, pos) + Extent(item) <= Len(r.data)
    BY <1>2, <1>4, <2>0, <2>1, <2>2, HoldsArrayEnd
  <2> QED BY <1>6, <1>11, <2>0, <2>1, <2>3, <2>4, <2>5 DEF PutsItem, PutsWithin, PutsOrNot
<1>12. CASE item.type \in DOMAIN WidthOf /\ ~item.array
  <2>1. r = PutFixed(x, w, v[1], pos) /\ item.type # "Bool"
    BY <1>1, <1>3, <1>12
  <2>2. PutsItem(x, r, item, pos) /\ PutsWithin(x, r, item, pos) /\ PutsOrNot(x, r, item)
    BY <1>2, <1>12, <2>1, PutFixedIs DEF v, w
  <2> QED BY <1>6, <2>1, <2>2
<1> QED BY <1>1, <1>7, <1>8, <1>9, <1>10, <1>11, <1>12

-----------------------------------------------------------------------------
(* Items that stay, or move with their bits. *)

\* The bits behind a position are also behind another.
Carried(data, p, after, q, size) ==
    /\ q + size <= Len(after)
    /\ \A k \in 1 .. size : after[q + k] = data[p + k]

\* Bytes within bits that are carried over are held there.
LEMMA CarriedBytes ==
  ASSUME NEW data, NEW after, NEW p \in Nat, NEW q \in Nat, NEW size \in Nat, Carried(data, p, after, q, size),
         NEW o \in Nat, NEW bytes \in Seq(Bytes), o + 8 * Len(bytes) <= size, Len(after) \in Nat,
         HoldsBytes(data, p + o, bytes)
  PROVE  HoldsBytes(after, q + o, bytes)
<1>1. Len(bytes) \in Nat
  BY LenProperties
<1>2. /\ \A j \in 1 .. Len(bytes), b \in 1 .. 8 : data[p + o + 8 * (j - 1) + b] = Bits(bytes[j], 8)[b]
      /\ q + size <= Len(after) /\ \A k \in 1 .. size : after[q + k] = data[p + k]
  BY DEF HoldsBytes, Carried
<1>3. ASSUME NEW j \in 1 .. Len(bytes), NEW b \in 1 .. 8
      PROVE  after[q + o + 8 * (j - 1) + b] = Bits(bytes[j], 8)[b]
  <2>1. PICK k \in 1 .. size : k = o + 8 * (j - 1) + b
    BY <1>1
  <2>2. q + o + 8 * (j - 1) + b = q + k /\ p + o + 8 * (j - 1) + b = p + k
    BY <2>1
  <2> QED BY <1>2, <2>2
<1>4. q + o + 8 * Len(bytes) <= Len(after)
  BY <1>1, <1>2
<1> QED BY <1>3, <1>4 DEF HoldsBytes

\* So is a string.
LEMMA CarriedString ==
  ASSUME NEW data, NEW after, NEW p \in Nat, NEW q \in Nat, NEW size \in Nat, Carried(data, p, after, q, size),
         NEW o \in Nat, NEW s \in Seq(Bytes), o + StringSize(s) <= size, Len(after) \in Nat,
         HoldsString(data, p + o, s)
  PROVE  HoldsString(after, q + o, s)
<1> DEFINE n == Len(s)
<1>1. n \in Nat /\ StringSize(s) = PrefixBits(n) + 8 * n
  BY CharactersAre
<1>2. HoldsBytes(data, p + o, ToVarULong(n)) /\ HoldsBytes(data, p + o + PrefixBits(n), s)
  BY DEF HoldsString
<1> HIDE DEF n
<1>3. ToVarULong(n) \in Seq(Bytes)
  BY <1>1, VarULongBytes
<1>4. PICK l \in Nat : l = PrefixBits(n) /\ l = 8 * Len(ToVarULong(n))
  BY <1>1, PrefixIs
<1>5. o + l + 8 * n <= size /\ o + l \in Nat /\ p + o + l = p + (o + l) /\ q + o + l = q + (o + l)
  BY <1>1, <1>4
<1>6. HoldsBytes(after, q + o, ToVarULong(n))
  <2>1. o + 8 * Len(ToVarULong(n)) <= size
    BY <1>1, <1>4, <1>5
  <2> QED BY <1>2, <1>3, <2>1, CarriedBytes
<1>7. HoldsBytes(after, q + o + PrefixBits(n), s)
  <2>1. PICK u \in Nat : u = o + l
    OBVIOUS
  <2>2. HoldsBytes(data, p + u, s) /\ u + 8 * Len(s) <= size
    BY <1>2, <1>4, <1>5, <2>1 DEF n
  <2>3. HoldsBytes(after, q + u, s)
    BY <2>2, CarriedBytes
  <2> QED BY <1>4, <1>5, <2>1, <2>3
<1> QED BY <1>6, <1>7 DEF HoldsString, n

\* An item whose bits are there is there.
LEMMA CarriedItem ==
  ASSUME NEW item, IsItem(item), NEW data, NEW after, NEW p \in Nat, NEW q \in Nat, Len(after) \in Nat,
         HoldsItem(data, p, item), Carried(data, p, after, q, Size(item))
  PROVE  HoldsItem(after, q, item)
<1> DEFINE v == item.elements
           n == Len(v)
           w == WidthOf[item.type]
           size == Size(item)
<1>1. /\ item.array \in BOOLEAN /\ v \in Seq(Seq(Bytes)) /\ n \in Nat
      /\ item.type \in DOMAIN WidthOf \/ item.type = "Bool" \/ item.type = "String"
      /\ ~item.array => v[1] \in Seq(Bytes)
      /\ item.type = "Bool" /\ item.array => IsBools(v)
      /\ item.type \in DOMAIN WidthOf => /\ IsWidth(w) /\ item.type # "Bool" /\ item.type # "String"
                                         /\ item.array => IsElements(v, w)
                                         /\ ~item.array => Len(v[1]) = w.size
  BY ItemIs
<1>2. size \in Nat
  BY SizeIs
<1>3. q + size <= Len(after) /\ \A k \in 1 .. size : after[q + k] = data[p + k]
  BY DEF Carried
<1> HIDE DEF v, n, w, size
<1>4. ToVarULong(n) \in Seq(Bytes) /\ PrefixBits(n) \in Nat /\ PrefixBits(n) = 8 * Len(ToVarULong(n))
  BY <1>1, VarULongBytes, PrefixIs
<1>c. Carried(data, p, after, q, size)
  BY DEF size
<1>5. ASSUME PrefixBits(n) <= size, HoldsBytes(data, p, ToVarULong(n)) PROVE HoldsBytes(after, q, ToVarULong(n))
  <2>1. 0 + 8 * Len(ToVarULong(n)) <= size /\ p + 0 = p /\ q + 0 = q
    BY <1>4, <1>5
  <2>2. HoldsBytes(data, p + 0, ToVarULong(n))
    BY <1>5, <2>1
  <2>3. HoldsBytes(after, q + 0, ToVarULong(n))
    BY <1>2, <1>4, <1>c, <2>1, <2>2, CarriedBytes
  <2> QED BY <2>1, <2>3
<1>6. CASE item.type = "Bool" /\ ~item.array
  <2>1. size = 1 /\ HoldsBit(data, p, v[1][1])
    BY <1>6 DEF Size, HoldsItem, v, size
  <2>2. HoldsBit(after, q, v[1][1])
    BY <1>3, <2>1 DEF HoldsBit
  <2> QED BY <1>6, <2>2 DEF HoldsItem, v
<1>7. CASE item.type = "Bool" /\ item.array
  <2>1. size = PrefixBits(n) + n /\ HoldsBools(data, p, v)
    BY <1>7 DEF Size, HoldsItem, v, n, size
  <2>2. /\ HoldsBytes(data, p, ToVarULong(n))
        /\ \A i \in 1 .. n : data[(p + PrefixBits(n)) + i] = v[i][1]
    BY <2>1 DEF HoldsBools, n
  <2>3. HoldsBytes(after, q, ToVarULong(n))
    <3>1. PrefixBits(n) <= size
      BY <1>1, <1>4, <2>1
    <3> QED BY <1>5, <2>2, <3>1
  <2>4. ASSUME NEW i \in 1 .. n PROVE after[(q + PrefixBits(n)) + i] = v[i][1]
    <3>0. PICK l \in Nat : l = PrefixBits(n) /\ size = l + n
      BY <1>4, <2>1
    <3>1. PICK k \in 1 .. size : k = PrefixBits(n) + i
      BY <1>1, <3>0, SMTT(30)
    <3>2. (q + PrefixBits(n)) + i = q + k /\ (p + PrefixBits(n)) + i = p + k
      BY <1>4, <3>1
    <3> QED BY <1>3, <2>2, <3>2
  <2>5. (q + PrefixBits(n)) + n <= Len(after)
    BY <1>1, <1>3, <1>4, <2>1
  <2>6. HoldsBools(after, q, v)
    BY <2>3, <2>4, <2>5 DEF HoldsBools, n
  <2> QED BY <1>7, <2>6 DEF HoldsItem, v
<1>8. CASE item.type = "String" /\ ~item.array
  <2>0. item.type # "Bool"
    BY <1>8
  <2>1. size = StringSize(v[1]) /\ HoldsString(data, p, v[1]) /\ v[1] \in Seq(Bytes)
    BY <1>1, <1>8, <2>0 DEF Size, HoldsItem, v, size
  <2>2. p + 0 = p /\ q + 0 = q /\ 0 + StringSize(v[1]) <= size
    BY <1>2, <2>1
  <2>3. HoldsString(data, p + 0, v[1])
    BY <2>1, <2>2
  <2>4. PICK s \in Seq(Bytes), o \in Nat : s = v[1] /\ o = 0
    BY <2>1
  <2>5. HoldsString(data, p + o, s) /\ o + StringSize(s) <= size
    BY <2>2, <2>3, <2>4
  <2>6. HoldsString(after, q + o, s)
    BY <1>2, <1>c, <2>5, CarriedString
  <2> QED BY <1>8, <2>0, <2>2, <2>4, <2>6 DEF HoldsItem, v
<1>9. CASE item.type = "String" /\ item.array
  <2>0. item.type # "Bool"
    BY <1>9
  <2>1. size = StringSpot(v, n + 1) /\ HoldsStrings(data, p, v)
    BY <1>9, <2>0 DEF Size, HoldsItem, v, n, size
  <2>2. /\ HoldsBytes(data, p, ToVarULong(n))
        /\ \A i \in 1 .. n : HoldsString(data, p + StringSpot(v, i), v[i])
    BY <2>1 DEF HoldsStrings, n
  <2>3. /\ n = Len(v)
        /\ \A i \in 1 .. n + 1 : StringSpot(v, i) \in Nat /\ PrefixBits(n) <= StringSpot(v, i)
        /\ \A i \in 1 .. n : v[i] \in Seq(Bytes)
        /\ \A i \in 1 .. n + 1 : \A j \in 1 .. i - 1 :
            StringSpot(v, j) + StringSize(v[j]) <= StringSpot(v, i)
    BY <1>1, StringSpots DEF n
  <2>4. n + 1 \in 1 .. n + 1 /\ (n + 1) - 1 = n
    BY <1>1
  <2>5. HoldsBytes(after, q, ToVarULong(n))
    BY <1>5, <2>1, <2>2, <2>3, <2>4
  <2>6. ASSUME NEW i \in 1 .. n PROVE HoldsString(after, q + StringSpot(v, i), v[i])
    <3>1. i \in 1 .. n + 1 /\ i \in 1 .. (n + 1) - 1
      BY <1>1
    <3>2. PICK o \in Nat : o = StringSpot(v, i) /\ o + StringSize(v[i]) <= size
      BY <2>1, <2>3, <2>4, <3>1
    <3>3. HoldsString(data, p + o, v[i]) /\ v[i] \in Seq(Bytes)
      BY <2>2, <2>3, <3>2
    <3>4. HoldsString(after, q + o, v[i])
      BY <1>2, <1>c, <3>2, <3>3, CarriedString
    <3> QED BY <3>2, <3>4
  <2>7. HoldsStrings(after, q, v)
    BY <2>5, <2>6 DEF HoldsStrings, n
  <2> QED BY <1>9, <2>0, <2>7 DEF HoldsItem, v
<1>10. CASE item.type \in DOMAIN WidthOf /\ item.array
  <2>0. item.type # "Bool" /\ item.type # "String" /\ IsWidth(w) /\ IsElements(v, w)
    BY <1>1, <1>10
  <2>1. size = Spot(w, n, n + 1) /\ HoldsArray(data, p, w, v)
    BY <1>10, <2>0 DEF Size, HoldsItem, v, n, w, size
  <2>2. /\ HoldsBytes(data, p, ToVarULong(n))
        /\ \A i \in 1 .. n : HoldsBytes(data, p + Spot(w, n, i), v[i])
    BY <2>1 DEF HoldsArray, n
  <2>3. /\ \A i \in 1 .. n + 1 : Spot(w, n, i) \in Nat /\ PrefixBits(n) <= Spot(w, n, i)
        /\ \A i \in 1 .. n : Spot(w, n, i) + 8 * w.size <= Spot(w, n, n + 1)
    BY <1>1, <2>0, Spots
  <2>4. \A i \in 1 .. n : v[i] \in Seq(Bytes) /\ Len(v[i]) = w.size
    BY <2>0, SeqElement DEF IsElements, n
  <2>5. HoldsBytes(after, q, ToVarULong(n))
    <3>1. n + 1 \in 1 .. n + 1
      BY <1>1
    <3> QED BY <1>5, <2>1, <2>2, <2>3, <3>1
  <2>6. ASSUME NEW i \in 1 .. n PROVE HoldsBytes(after, q + Spot(w, n, i), v[i])
    <3>1. i \in 1 .. n + 1
      BY <1>1
    <3>2. PICK o \in Nat : o = Spot(w, n, i) /\ o + 8 * w.size <= size
      BY <2>1, <2>3, <3>1
    <3>3. HoldsBytes(data, p + o, v[i]) /\ v[i] \in Seq(Bytes) /\ o + 8 * Len(v[i]) <= size
      BY <2>2, <2>4, <3>2
    <3>4. HoldsBytes(after, q + o, v[i])
      BY <1>2, <1>c, <3>2, <3>3, CarriedBytes
    <3> QED BY <3>2, <3>4
  <2>7. HoldsArray(after, q, w, v)
    BY <2>5, <2>6 DEF HoldsArray, n
  <2> QED BY <1>10, <2>0, <2>7 DEF HoldsItem, v, w
<1>11. CASE item.type \in DOMAIN WidthOf /\ ~item.array
  <2>0. item.type # "Bool" /\ item.type # "String"
    BY <1>1, <1>11
  <2>1. size = 8 * w.size /\ HoldsBytes(data, p, v[1]) /\ v[1] \in Seq(Bytes) /\ Len(v[1]) = w.size
    BY <1>1, <1>11, <2>0 DEF Size, HoldsItem, v, w, size
  <2>2. p + 0 = p /\ q + 0 = q /\ 0 + 8 * Len(v[1]) <= size
    BY <1>2, <2>1
  <2>3. HoldsBytes(data, p + 0, v[1])
    BY <2>1, <2>2
  <2>4. PICK s \in Seq(Bytes), o \in Nat : s = v[1] /\ o = 0
    BY <2>1
  <2>5. HoldsBytes(data, p + o, s) /\ o + 8 * Len(s) <= size
    BY <2>2, <2>3, <2>4
  <2>6. HoldsBytes(after, q + o, s)
    BY <1>2, <1>c, <2>5, CarriedBytes
  <2> QED BY <1>11, <2>0, <2>2, <2>4, <2>6 DEF HoldsItem, v
<1> QED BY <1>1, <1>6, <1>7, <1>8, <1>9, <1>10, <1>11

\* An item is within the data.
LEMMA HoldsItemEnd ==
  ASSUME NEW item, IsItem(item), NEW data, NEW pos \in Nat, HoldsItem(data, pos, item)
  PROVE  pos + Size(item) <= Len(data)
<1> DEFINE v == item.elements
           n == Len(v)
           w == WidthOf[item.type]
<1>1. /\ item.array \in BOOLEAN /\ v \in Seq(Seq(Bytes)) /\ n \in Nat
      /\ item.type \in DOMAIN WidthOf \/ item.type = "Bool" \/ item.type = "String"
      /\ ~item.array => v[1] \in Seq(Bytes)
      /\ item.type \in DOMAIN WidthOf => /\ IsWidth(w) /\ item.type # "Bool" /\ item.type # "String"
                                         /\ item.array => IsElements(v, w)
                                         /\ ~item.array => Len(v[1]) = w.size
  BY ItemIs
<1> HIDE DEF v, n, w
<1>2. CASE item.type = "Bool" /\ ~item.array
  BY <1>2 DEF Size, HoldsItem, HoldsBit
<1>3. CASE item.type = "Bool" /\ item.array
  <2>1. Size(item) = PrefixBits(n) + n /\ HoldsBools(data, pos, v)
    BY <1>3 DEF Size, HoldsItem, v, n
  <2>2. (pos + PrefixBits(n)) + n <= Len(data)
    BY <2>1 DEF HoldsBools, n
  <2>3. PrefixBits(n) \in Nat
    BY <1>1, PrefixIs
  <2>4. (pos + PrefixBits(n)) + n = pos + (PrefixBits(n) + n)
    BY <1>1, <2>3
  <2> QED BY <2>1, <2>2, <2>4
<1>4. CASE item.type = "String" /\ ~item.array
  <2>0. item.type # "Bool"
    BY <1>4
  <2>1. Size(item) = StringSize(v[1]) /\ HoldsString(data, pos, v[1]) /\ v[1] \in Seq(Bytes)
    BY <1>1, <1>4, <2>0 DEF Size, HoldsItem, v
  <2> QED BY <2>1, HoldsStringEnd
<1>5. CASE item.type = "String" /\ item.array
  <2>0. item.type # "Bool"
    BY <1>5
  <2>1. Size(item) = StringSpot(v, n + 1) /\ HoldsStrings(data, pos, v) /\ n = Len(v)
    BY <1>5, <2>0 DEF Size, HoldsItem, v, n
  <2> QED BY <1>1, <2>1, HoldsStringsEnd
<1>6. CASE item.type \in DOMAIN WidthOf /\ item.array
  <2>0. item.type # "Bool" /\ item.type # "String" /\ IsWidth(w) /\ IsElements(v, w)
    BY <1>1, <1>6
  <2>1. Size(item) = Spot(w, n, n + 1) /\ HoldsArray(data, pos, w, v) /\ n = Len(v)
    BY <1>6, <2>0 DEF Size, HoldsItem, v, n, w
  <2> QED BY <2>0, <2>1, HoldsArrayEnd
<1>7. CASE item.type \in DOMAIN WidthOf /\ ~item.array
  <2>0. item.type # "Bool" /\ item.type # "String"
    BY <1>1, <1>7
  <2>1. Size(item) = 8 * w.size /\ HoldsBytes(data, pos, v[1]) /\ Len(v[1]) = w.size
    BY <1>1, <1>7, <2>0 DEF Size, HoldsItem, v, w
  <2> QED BY <2>1 DEF HoldsBytes
<1> QED BY <1>1, <1>2, <1>3, <1>4, <1>5, <1>6, <1>7

-----------------------------------------------------------------------------
(* Reading bits. *)

\* A part of a sequence of bits.
LEMMA PartIs ==
  ASSUME NEW data \in Seq({0, 1}), NEW from \in Nat \ {0}, NEW n \in Nat \ {0}, from + n - 1 <= Len(data),
         NEW to, to = from + n - 1
  PROVE  /\ SubSeq(data, from, to) \in Seq({0, 1}) /\ Len(SubSeq(data, from, to)) = n
         /\ \A b \in 1 .. n : SubSeq(data, from, to)[b] = data[from + b - 1]
<1>1. Len(data) \in Nat /\ to \in Nat /\ from <= to /\ to <= Len(data) /\ to - from + 1 = n
  BY LenProperties
<1>2. \A i \in from .. to : data[i] \in {0, 1}
  BY <1>1, ElementOfSeq
<1> QED BY <1>1, <1>2, SubSeqProperties

\* Bits are a number.
LEMMA NumberType ==
  ASSUME NEW bits \in Seq({0, 1})
  PROVE  Number(bits) \in Nat
<1>1. Len(bits) \in Nat /\ DOMAIN bits = 1 .. Len(bits) /\ \A i \in 1 .. Len(bits) : bits[i] \in Nat
  BY LenProperties, ElementOfSeq
<1> DEFINE n == Len(bits)
<1>2. IsDigits(bits, n) /\ n \in Nat
  BY <1>1 DEF IsDigits
<1> HIDE DEF n
<1>3. PICK above : IsAbove(above, bits, 2, n) /\ Value(bits, 2) = above[n]
  BY <1>2, ValueIs
<1> QED BY <1>2, <1>3 DEF IsAbove, Number

\* What fromVarULong finds is a number, and ends within the data.
LEMMA FromVarULongIs ==
  ASSUME NEW data, IsData(data), NEW pos \in Nat, NEW r, r = FromVarULong(data, pos)
  PROVE  /\ r.found \in BOOLEAN /\ r.value \in Nat /\ r.bits \in Nat /\ r.bits % 8 = 0
         /\ r.found => pos + r.bits <= Len(data)
<1> DEFINE Group(i) == SubSeq(data, pos + 8 * i - 7, pos + 8 * i - 1)
           More(i) == data[pos + 8 * i] = 1
           last == {k \in 1 .. Len(data) \div 8 :
                      /\ HasByte(data, pos + 8 * (k - 1)) /\ ~More(k)
                      /\ \A i \in 1 .. k - 1 : More(i)}
           n == CHOOSE i \in last : TRUE
<1>1. data \in Seq({0, 1}) /\ Len(data) \in Nat /\ Len(data) % 8 = 0
  BY LenProperties DEF IsData
<1>2. r = IF last = {} THEN [found |-> FALSE, value |-> 0, bits |-> 0]
          ELSE [found |-> TRUE, bits |-> 8 * n, value |-> Value([i \in 1 .. n |-> Number(Group(i))], 128)]
  BY DEF FromVarULong
<1> HIDE DEF Group, More
<1>3. CASE last # {}
  <2>1. n \in last
    BY <1>3
  <2>2. n \in 1 .. Len(data) \div 8 /\ HasByte(data, pos + 8 * (n - 1))
    BY <2>1
  <2> HIDE DEF last, n
  <2>3. n \in Nat \ {0}
    BY <1>1, <2>2
  <2>4. pos + 8 * n <= Len(data)
    <3>1. PICK p \in Nat : p = pos + 8 * (n - 1)
      BY <2>3
    <3>2. HasByte(data, p)
      BY <2>2, <3>1
    <3>3. p + 8 <= Len(data)
      BY <1>1, <3>2 DEF HasByte
    <3> QED BY <2>3, <3>1, <3>3
  <2>5. ASSUME NEW i \in 1 .. n PROVE Number(Group(i)) \in Nat
    <3>1. PICK from \in Nat \ {0}, to \in Nat : from = pos + 8 * i - 7 /\ to = pos + 8 * i - 1
      BY <2>3
    <3>2. 7 \in Nat \ {0} /\ from + 7 - 1 <= Len(data) /\ to = from + 7 - 1
      BY <1>1, <2>3, <2>4, <3>1
    <3>3. SubSeq(data, from, to) \in Seq({0, 1})
      BY <1>1, <3>2, PartIs
    <3> QED BY <3>1, <3>3, NumberType DEF Group
  <2> DEFINE groups == [i \in 1 .. n |-> Number(Group(i))]
  <2>6. IsDigits(groups, n)
    <3>1. DOMAIN groups = 1 .. n /\ \A i \in 1 .. n : groups[i] \in Nat
      BY <2>5
    <3>2. Len(groups) = n
      BY <2>3
    <3> QED BY <3>1, <3>2 DEF IsDigits
  <2> HIDE DEF groups
  <2>7. PICK above : IsAbove(above, groups, 128, n) /\ Value(groups, 128) = above[n]
    BY <2>3, <2>6, ValueIs
  <2>8. Value(groups, 128) \in Nat
    BY <2>3, <2>7 DEF IsAbove
  <2>9. r = [found |-> TRUE, bits |-> 8 * n, value |-> Value(groups, 128)]
    BY <1>2, <1>3 DEF groups
  <2> QED BY <2>3, <2>4, <2>8, <2>9
<1>4. CASE last = {}
  <2> HIDE DEF last, n
  <2>1. r = [found |-> FALSE, value |-> 0, bits |-> 0]
    BY <1>2, <1>4
  <2> QED BY <2>1
<1> QED BY <1>3, <1>4

\* There is something to cut out, or nothing of an aligned array.
Cuts(count, pos) == count # 0 \/ pos % 8 = 0

\* Bits cut out are bits of whole bytes.
LEMMA BytesFromBitsIs ==
  ASSUME NEW data \in Seq({0, 1}), NEW count \in Nat, NEW pos \in Nat, Cuts(count, pos),
         NEW r, r = BytesFromBits(data, count, pos)
  PROVE  /\ IsData(r) /\ Len(r) = 8 * BytesNeeded(count) /\ BytesNeeded(count) \in Nat
         /\ \A k \in 1 .. Len(r) : pos + k <= Len(data) => r[k] = data[pos + k]
<1>1. Len(data) \in Nat /\ DOMAIN data = 1 .. Len(data)
  BY LenProperties
<1>2. PICK n \in Nat : n = BytesNeeded(count)
  BY Rounded
<1>3. r = [i \in 1 .. 8 * n |-> IF pos + i \in DOMAIN data THEN data[pos + i] ELSE 0]
  BY <1>2 DEF BytesFromBits, BITS_PER_BYTE, Cuts
<1>4. \A i \in 1 .. 8 * n : (IF pos + i \in DOMAIN data THEN data[pos + i] ELSE 0) \in {0, 1}
  BY <1>1, ElementOfSeq
<1>5. r \in Seq({0, 1}) /\ Len(r) = 8 * n
  <2> DEFINE B(i) == IF pos + i \in DOMAIN data THEN data[pos + i] ELSE 0
  <2>1. \A i \in 1 .. 8 * n : B(i) \in {0, 1}
    BY <1>4
  <2>2. r = [i \in 1 .. 8 * n |-> B(i)] /\ 8 * n \in Nat
    BY <1>2, <1>3
  <2> HIDE DEF B
  <2> QED BY <2>1, <2>2
<1>6. ASSUME NEW k \in 1 .. Len(r), pos + k <= Len(data) PROVE r[k] = data[pos + k]
  <2>1. pos + k \in DOMAIN data /\ k \in 1 .. 8 * n
    BY <1>1, <1>5, <1>6
  <2> QED BY <1>3, <2>1
<1>7. (8 * n) % 8 = 0
  BY <1>2
<1> QED BY <1>2, <1>5, <1>6, <1>7 DEF IsData

\* No bits cut out of an unaligned array are the byte before them.
LEMMA ByteBeforeIs ==
  ASSUME NEW data, IsData(data), NEW pos \in Nat, pos % 8 # 0, pos <= Len(data),
         NEW r, r = BytesFromBits(data, 0, pos)
  PROVE  /\ r \in Seq({0, 1}) /\ Len(r) = 8
         /\ \A from \in Nat : pos = from + 8 => r = BytesFromBits(data, 8, from)
<1>1. data \in Seq({0, 1}) /\ Len(data) \in Nat /\ DOMAIN data = 1 .. Len(data) /\ Len(data) % 8 = 0
  BY LenProperties DEF IsData
<1>2. 8 <= Len(data) /\ 1 <= pos
  BY <1>1
<1> DEFINE at(i) == pos - 8 + i
           B(i) == data[IF at(i) > 0 THEN at(i) ELSE at(i) + Len(data)]
<1>3. r = [i \in 1 .. 8 |-> B(i)]
  BY DEF BytesFromBits, ByteBefore, BITS_PER_BYTE
<1>4. ASSUME NEW i \in 1 .. 8 PROVE B(i) \in {0, 1}
  <2>1. CASE at(i) > 0
    <3>1. at(i) \in 1 .. Len(data)
      BY <1>1, <2>1
    <3>2. data[at(i)] \in {0, 1}
      BY <1>1, <3>1, SeqElement
    <3> QED BY <2>1, <3>2
  <2>2. CASE ~(at(i) > 0)
    <3>1. at(i) + Len(data) \in 1 .. Len(data)
      BY <1>1, <1>2, <2>2
    <3>2. data[at(i) + Len(data)] \in {0, 1}
      BY <1>1, <3>1, SeqElement
    <3> QED BY <2>2, <3>2
  <2> QED BY <2>1, <2>2
<1>5. r \in Seq({0, 1}) /\ Len(r) = 8
  <2>1. \A i \in 1 .. 8 : B(i) \in {0, 1}
    BY <1>4
  <2> HIDE DEF B
  <2>2. PICK n \in Nat : n = 8
    OBVIOUS
  <2>3. r \in [1 .. n -> {0, 1}]
    BY <1>3, <2>1, <2>2
  <2>4. r \in Seq({0, 1}) /\ Len(r) = n
    BY <2>3, FunctionIsSeq
  <2> QED BY <2>2, <2>4
<1>6. ASSUME NEW from \in Nat, pos = from + 8 PROVE r = BytesFromBits(data, 8, from)
  <2>1. 8 * BytesNeeded(8) = 8
    BY DEF BytesNeeded, BITS_PER_BYTE
  <2>2. BytesFromBits(data, 8, from) = [i \in 1 .. 8 |-> IF from + i \in DOMAIN data THEN data[from + i] ELSE 0]
    BY <2>1 DEF BytesFromBits, BITS_PER_BYTE
  <2>3. ASSUME NEW i \in 1 .. 8
        PROVE  B(i) = IF from + i \in DOMAIN data THEN data[from + i] ELSE 0
    <3>1. at(i) = from + i /\ at(i) > 0 /\ from + i \in 1 .. Len(data)
      BY <1>1, <1>6
    <3>2. B(i) = data[from + i]
      BY <3>1
    <3> QED BY <1>1, <3>1, <3>2
  <2> HIDE DEF B
  <2> QED BY <1>3, <2>2, <2>3
<1> QED BY <1>5, <1>6

\* Whole bytes of bits are so many numbers, each that of its eight bits.
LEMMA BytesOfIs ==
  ASSUME NEW bits \in Seq({0, 1}), NEW n \in Nat, Len(bits) = 8 * n
  PROVE  /\ BytesOf(bits) \in Seq(Nat) /\ Len(BytesOf(bits)) = n /\ DOMAIN BytesOf(bits) = 1 .. n
         /\ \A i \in 1 .. n : \E part \in Seq({0, 1}) :
               /\ Len(part) = 8 /\ BytesOf(bits)[i] = Number(part)
               /\ \A b \in 1 .. 8 : part[b] = bits[8 * (i - 1) + b]
<1>1. Len(bits) \div 8 = n
  OBVIOUS
<1> DEFINE Part(i) == SubSeq(bits, 8 * (i - 1) + 1, 8 * i)
<1>2. BytesOf(bits) = [i \in 1 .. n |-> Number(Part(i))]
  BY <1>1 DEF BytesOf, BITS_PER_BYTE
<1>3. ASSUME NEW i \in 1 .. n
      PROVE  /\ Part(i) \in Seq({0, 1}) /\ Len(Part(i)) = 8
             /\ \A b \in 1 .. 8 : Part(i)[b] = bits[8 * (i - 1) + b]
  <2>1. PICK from \in Nat \ {0}, to \in Nat : from = 8 * (i - 1) + 1 /\ to = 8 * i
    OBVIOUS
  <2>2. 8 \in Nat \ {0} /\ from + 8 - 1 <= Len(bits) /\ to = from + 8 - 1
    BY <2>1
  <2>3. /\ SubSeq(bits, from, to) \in Seq({0, 1}) /\ Len(SubSeq(bits, from, to)) = 8
        /\ \A b \in 1 .. 8 : SubSeq(bits, from, to)[b] = bits[from + b - 1]
    BY <2>2, PartIs
  <2>4. \A b \in 1 .. 8 : from + b - 1 = 8 * (i - 1) + b
    BY <2>1
  <2> QED BY <2>1, <2>3, <2>4
<1> HIDE DEF Part
<1>4. \A i \in 1 .. n : Number(Part(i)) \in Nat
  BY <1>3, NumberType
<1>5. BytesOf(bits) \in Seq(Nat) /\ Len(BytesOf(bits)) = n /\ DOMAIN BytesOf(bits) = 1 .. n
  BY <1>2, <1>4
<1>6. ASSUME NEW i \in 1 .. n
      PROVE  \E part \in Seq({0, 1}) : /\ Len(part) = 8 /\ BytesOf(bits)[i] = Number(part)
                                       /\ \A b \in 1 .. 8 : part[b] = bits[8 * (i - 1) + b]
  <2>1. BytesOf(bits)[i] = Number(Part(i))
    BY <1>2
  <2> QED BY <1>3, <2>1
<1> QED BY <1>5, <1>6

\* The bytes the data has are read.
LEMMA BytesRead ==
  ASSUME NEW data \in Seq({0, 1}), NEW pos \in Nat, NEW bytes \in Seq(Bytes), HoldsBytes(data, pos, bytes),
         NEW n, n = Len(bytes), Cuts(n, pos)
  PROVE  BytesOf(BytesFromBits(data, 8 * n, pos)) = bytes
<1>1. n \in Nat /\ DOMAIN bytes = 1 .. n /\ Len(data) \in Nat
  BY LenProperties
<1>2. pos + 8 * n <= Len(data) /\ \A i \in 1 .. n, b \in 1 .. 8 : data[pos + 8 * (i - 1) + b] = Bits(bytes[i], 8)[b]
  BY DEF HoldsBytes
<1>3. PICK bits : bits = BytesFromBits(data, 8 * n, pos)
  OBVIOUS
<1>4. BytesNeeded(8 * n) = n
  BY <1>1 DEF BytesNeeded, BITS_PER_BYTE
<1>5. /\ bits \in Seq({0, 1}) /\ Len(bits) = 8 * n
      /\ \A k \in 1 .. 8 * n : bits[k] = data[pos + k]
  <2>1. PICK count \in Nat : count = 8 * n /\ Cuts(count, pos)
    BY <1>1 DEF Cuts
  <2>2. /\ IsData(bits) /\ Len(bits) = 8 * BytesNeeded(count)
        /\ \A k \in 1 .. Len(bits) : pos + k <= Len(data) => bits[k] = data[pos + k]
    BY <1>3, <2>1, BytesFromBitsIs
  <2>3. bits \in Seq({0, 1}) /\ Len(bits) = count
    BY <1>4, <2>1, <2>2 DEF IsData
  <2>4. \A k \in 1 .. count : pos + k <= Len(data)
    BY <1>1, <1>2, <2>1
  <2> QED BY <2>1, <2>2, <2>3, <2>4
<1>6. PICK r : r = BytesOf(bits)
  OBVIOUS
<1>7. /\ r \in Seq(Nat) /\ Len(r) = n /\ DOMAIN r = 1 .. n
      /\ \A i \in 1 .. n : \E part \in Seq({0, 1}) :
            /\ Len(part) = 8 /\ r[i] = Number(part)
            /\ \A b \in 1 .. 8 : part[b] = bits[8 * (i - 1) + b]
  BY <1>1, <1>5, <1>6, BytesOfIs, ZenonT(60)
<1>8. ASSUME NEW i \in 1 .. n PROVE r[i] = bytes[i]
  <2>1. PICK part \in Seq({0, 1}) : /\ Len(part) = 8 /\ r[i] = Number(part)
                                    /\ \A b \in 1 .. 8 : part[b] = bits[8 * (i - 1) + b]
    BY <1>7
  <2>2. ASSUME NEW b \in 1 .. 8 PROVE part[b] = Bits(bytes[i], 8)[b]
    <3>1. PICK k \in 1 .. 8 * n : k = 8 * (i - 1) + b
      BY <1>1
    <3>2. bits[k] = data[pos + k] /\ pos + k = pos + 8 * (i - 1) + b
      BY <1>5, <3>1
    <3>3. part[b] = bits[k] /\ data[pos + 8 * (i - 1) + b] = Bits(bytes[i], 8)[b]
      BY <1>2, <2>1, <3>1
    <3> QED BY <3>2, <3>3
  <2>3. PICK number \in Nat : number = bytes[i] /\ number < 256
    <3>1. bytes[i] \in Bytes
      BY <1>1, SeqElement
    <3> QED BY <3>1 DEF Bytes
  <2>4. number < Limit(8) /\ 8 \in {4, 7, 8, 16}
    BY <2>3 DEF Limit
  <2>5. \A b \in 1 .. 8 : part[b] = Bits(number, 8)[b]
    BY <2>2, <2>3
  <2>6. Number(part) = number
    BY <2>1, <2>4, <2>5, NumberIs
  <2> QED BY <2>1, <2>3, <2>6
<1>9. r \in [1 .. n -> Nat] /\ bytes \in [1 .. n -> Bytes]
  BY <1>1, <1>7, LenProperties
<1>10. r = bytes
  BY <1>8, <1>9
<1> QED BY <1>3, <1>6, <1>10
-----------------------------------------------------------------------------
(* Gets. *)

\* A get moves the read position, at most to the end, and returns elements of some kind.
Gets(m, got) ==
    /\ got \in [message : Messages, elements : Seq(Seq(Nat))]
    /\ got.message.header = m.header /\ got.message.msgID = m.msgID /\ got.message.seqID = m.seqID
    /\ got.message.data = m.data /\ got.message.writeBit = m.writeBit

\* It returns these elements, and goes on behind so many bits.
GetsAll(m, got, elements, size) ==
    ~got.message.raised /\ got.elements = elements /\ got.message.readBit = m.readBit + size

\* A get that has all it needs.
LEMMA GotIs ==
  ASSUME NEW m \in Messages, NEW readBit \in Nat, readBit <= Len(m.data), NEW elements \in Seq(Seq(Nat))
  PROVE  /\ Gets(m, Got(m, readBit, elements))
         /\ Got(m, readBit, elements).elements = elements
         /\ Got(m, readBit, elements).message.readBit = readBit
         /\ Got(m, readBit, elements).message.raised = m.raised
<1> DEFINE x == [m EXCEPT !.readBit = readBit]
<1>1. x \in Messages /\ x.header = m.header /\ x.msgID = m.msgID /\ x.seqID = m.seqID /\ x.data = m.data
      /\ x.writeBit = m.writeBit /\ x.readBit = readBit /\ x.raised = m.raised
  BY DEF Messages
<1>2. Got(m, readBit, elements) = [message |-> x, elements |-> elements]
  BY DEF Got
<1> HIDE DEF x
<1> QED BY <1>1, <1>2 DEF Gets

\* A get that raises.
LEMMA FailedIs ==
  ASSUME NEW m \in Messages
  PROVE  Gets(m, Failed(m)) /\ Failed(m).message.raised
<1>1. /\ Raise(m) \in Messages /\ Raise(m).raised /\ SameFields(m, Raise(m))
      /\ Raise(m).data = m.data /\ Raise(m).writeBit = m.writeBit
  BY RaiseIs
<1>2. Failed(m) = [message |-> Raise(m), elements |-> <<>>] /\ <<>> \in Seq(Seq(Nat))
  BY DEF Failed
<1> QED BY <1>1, <1>2 DEF Gets, SameFields

\* Bytes are numbers.
LEMMA BytesAreNumbers ==
  ASSUME NEW bytes \in Seq(Bytes)
  PROVE  bytes \in Seq(Nat)
<1>1. Bytes \subseteq Nat
  BY DEF Bytes
<1>2. bytes \in [1 .. Len(bytes) -> Bytes] /\ Len(bytes) \in Nat
  BY LenProperties
<1>3. \A i \in 1 .. Len(bytes) : bytes[i] \in Nat
  BY <1>1, <1>2
<1>4. bytes \in [1 .. Len(bytes) -> Nat]
  BY <1>2, <1>3
<1> QED BY <1>2, <1>4, SeqDef

\* What a read of so many bytes at a position returns: without any, the byte before it.
Readable(data, length, pos, bytes) ==
    IF length = 0 /\ pos % 8 # 0
    THEN /\ 8 <= pos /\ pos <= Len(data)
         /\ Len(bytes) = 1 /\ HoldsBytes(data, pos - 8, bytes)
    ELSE Len(bytes) = length /\ HoldsBytes(data, pos, bytes)

\* The data has the bytes or the byte before them, and they are read.
LEMMA ReadableRead ==
  ASSUME NEW data, IsData(data), NEW length \in Nat, NEW pos \in Nat, NEW bytes \in Seq(Bytes),
         Readable(data, length, pos, bytes)
  PROVE  BytesOf(BytesFromBits(data, 8 * length, pos)) = bytes /\ pos + 8 * length <= Len(data)
<1>1. data \in Seq({0, 1}) /\ Len(data) \in Nat
  BY LenProperties DEF IsData
<1>2. CASE length = 0 /\ pos % 8 # 0
  <2>1. PICK from \in Nat : pos = from + 8
    BY <1>2 DEF Readable
  <2>2. Len(bytes) = 1 /\ HoldsBytes(data, from, bytes) /\ pos <= Len(data)
    BY <1>2, <2>1 DEF Readable
  <2>3. BytesFromBits(data, 0, pos) = BytesFromBits(data, 8, from)
    BY <1>2, <2>1, <2>2, ByteBeforeIs
  <2>4. PICK n : n = Len(bytes) /\ n = 1 /\ Cuts(n, from)
    BY <2>2 DEF Cuts
  <2>5. BytesOf(BytesFromBits(data, 8 * n, from)) = bytes
    BY <1>1, <2>2, <2>4, BytesRead
  <2>6. 8 * n = 8 /\ 8 * length = 0
    BY <1>2, <2>4
  <2> QED BY <2>2, <2>3, <2>5, <2>6
<1>3. CASE ~(length = 0 /\ pos % 8 # 0)
  <2>1. length = Len(bytes) /\ HoldsBytes(data, pos, bytes) /\ Cuts(length, pos)
    BY <1>3 DEF Readable, Cuts
  <2>2. pos + 8 * length <= Len(data)
    BY <2>1 DEF HoldsBytes
  <2> QED BY <1>1, <2>1, <2>2, BytesRead
<1> QED BY <1>2, <1>3

\* Bytes got at a position.
LEMMA GetBytesIs ==
  ASSUME NEW m \in Messages, NEW length \in Nat, NEW pos \in Nat, NEW got, got = GetBytes(m, length, pos)
  PROVE  /\ Gets(m, got)
         /\ \A bytes \in Seq(Bytes) : ~m.raised /\ Readable(m.data, length, pos, bytes) =>
               ~got.message.raised /\ got.elements = <<bytes>> /\ got.message.readBit = pos + 8 * length
<1>1. m.data \in Seq({0, 1}) /\ IsData(m.data) /\ Len(m.data) \in Nat /\ m.raised \in BOOLEAN
  BY MessageIs
<1> DEFINE bits == BytesFromBits(m.data, 8 * length, pos)
<1>2. got = IF Len(m.data) - pos < 8 * length THEN Failed(m) ELSE Got(m, pos + 8 * length, <<BytesOf(bits)>>)
  BY DEF GetBytes, BITS_PER_BYTE
<1> HIDE DEF bits
<1>3. CASE Len(m.data) - pos < 8 * length
  <2>1. got = Failed(m)
    BY <1>2, <1>3
  <2>2. ASSUME NEW bytes \in Seq(Bytes), Readable(m.data, length, pos, bytes) PROVE FALSE
    <3>1. pos + 8 * length <= Len(m.data)
      BY <1>1, <2>2, ReadableRead
    <3> QED BY <1>1, <1>3, <3>1
  <2> QED BY <2>1, <2>2, FailedIs
<1>4. CASE ~(Len(m.data) - pos < 8 * length)
  <2>1. PICK end \in Nat : end = pos + 8 * length /\ end <= Len(m.data)
    BY <1>1, <1>4
  <2>2. BytesOf(bits) \in Seq(Nat)
    <3>1. PICK count \in Nat : count = 8 * length
      OBVIOUS
    <3>2. PICK x \in Seq({0, 1}), n \in Nat : x = bits /\ Len(x) = 8 * n
      <4>1. CASE Cuts(count, pos)
        <5>1. IsData(bits) /\ Len(bits) = 8 * BytesNeeded(count)
          BY <1>1, <3>1, <4>1, BytesFromBitsIs DEF bits
        <5>2. BytesNeeded(count) = length
          BY <3>1 DEF BytesNeeded, BITS_PER_BYTE
        <5> QED BY <5>1, <5>2 DEF IsData
      <4>2. CASE ~Cuts(count, pos)
        <5>0. count = 0 /\ pos % 8 # 0
          BY <4>2 DEF Cuts
        <5>1. bits = BytesFromBits(m.data, 0, pos) /\ pos <= Len(m.data)
          BY <1>1, <2>1, <3>1, <5>0 DEF bits
        <5>2. bits \in Seq({0, 1}) /\ Len(bits) = 8 * 1
          BY <1>1, <5>0, <5>1, ByteBeforeIs
        <5> QED BY <5>2
      <4> QED BY <4>1, <4>2
    <3>3. BytesOf(x) \in Seq(Nat)
      BY <3>2, BytesOfIs
    <3> QED BY <3>2, <3>3
  <2>3. PICK elements \in Seq(Seq(Nat)) : elements = <<BytesOf(bits)>>
    <3>1. PICK b \in Seq(Nat) : b = BytesOf(bits)
      BY <2>2
    <3>2. <<b>> \in Seq(Seq(Nat))
      OBVIOUS
    <3> QED BY <3>1, <3>2
  <2>4. got = Got(m, end, elements)
    BY <1>2, <1>4, <2>1, <2>3
  <2>5. Gets(m, got) /\ got.elements = elements /\ got.message.readBit = end /\ got.message.raised = m.raised
    BY <2>1, <2>4, GotIs
  <2>6. ASSUME NEW bytes \in Seq(Bytes), Readable(m.data, length, pos, bytes)
        PROVE  elements = <<bytes>>
    BY <1>1, <2>3, <2>6, ReadableRead DEF bits
  <2> QED BY <2>1, <2>5, <2>6
<1> QED BY <1>3, <1>4

\* An array of a fixed width type.
LEMMA GetArrayIs ==
  ASSUME NEW m \in Messages, NEW width, IsWidth(width), NEW got, got = GetArray(m, width)
  PROVE  /\ Gets(m, got)
         /\ \A v : ~m.raised /\ IsElements(v, width) /\ HoldsArray(m.data, m.readBit, width, v) =>
                      GetsAll(m, got, v, Spot(width, Len(v), Len(v) + 1))
<1>1. /\ m.data \in Seq({0, 1}) /\ IsData(m.data) /\ Len(m.data) \in Nat /\ m.raised \in BOOLEAN
      /\ m.readBit \in Nat
  BY MessageIs
<1>2. width.size \in Nat /\ width.size \in {1, 2, 4, 8}
  BY DEF IsWidth
<1> DEFINE length == FromVarULong(m.data, m.readBit)
           start == m.readBit + length.bits
           Part(i) == BytesOf(BytesFromBits(m.data, 8 * width.size, start + 8 * width.size * (i - 1)))
<1>3. /\ length.found \in BOOLEAN /\ length.value \in Nat /\ length.bits \in Nat
      /\ length.found => start <= Len(m.data)
  BY <1>1, FromVarULongIs
<1>4. got = IF ~length.found \/ Len(m.data) - start < length.value * (8 * width.size) THEN Failed(m)
            ELSE Got(m, start + length.value * (8 * width.size), [i \in 1 .. length.value |-> Part(i)])
  BY DEF GetArray, BITS_PER_BYTE
<1>5. ASSUME NEW i \in 1 .. length.value PROVE Part(i) \in Seq(Nat)
  <2>0. i \in Nat \ {0} /\ start \in Nat
    BY <1>1, <1>3
  <2> HIDE DEF start, length
  <2>1. PICK count \in Nat, pos \in Nat, n \in Nat :
            /\ count = 8 * width.size /\ pos = start + 8 * width.size * (i - 1) /\ n = width.size
            /\ Cuts(count, pos)
    BY <1>2, <2>0 DEF Cuts
  <2>2. PICK bits : bits = BytesFromBits(m.data, count, pos)
    OBVIOUS
  <2>3. IsData(bits) /\ Len(bits) = 8 * BytesNeeded(count)
    BY <1>1, <2>1, <2>2, BytesFromBitsIs
  <2>4. BytesNeeded(count) = n
    BY <2>1 DEF BytesNeeded, BITS_PER_BYTE
  <2>5. BytesOf(bits) \in Seq(Nat)
    BY <2>3, <2>4, BytesOfIs DEF IsData
  <2> QED BY <2>1, <2>2, <2>5
<1>6. Gets(m, got)
  <2>1. CASE ~length.found \/ Len(m.data) - start < length.value * (8 * width.size)
    BY <1>4, <2>1, FailedIs
  <2>2. CASE ~(~length.found \/ Len(m.data) - start < length.value * (8 * width.size))
    <3>0. start \in Nat
      BY <1>1, <1>3
    <3> HIDE DEF start, Part, length
    <3>a. PICK n \in Nat, s \in {1, 2, 4, 8}, at \in Nat : n = length.value /\ s = width.size /\ at = start
      BY <1>2, <1>3, <3>0
    <3>1. [i \in 1 .. length.value |-> Part(i)] \in Seq(Seq(Nat))
      <4>1. \A i \in 1 .. n : Part(i) \in Seq(Nat)
        BY <1>5, <3>a
      <4>2. [i \in 1 .. n |-> Part(i)] \in Seq(Seq(Nat))
        BY <4>1
      <4> QED BY <3>a, <4>2
    <3>2. PICK end \in Nat : end = start + length.value * (8 * width.size) /\ end <= Len(m.data)
      <4>1. n * (8 * s) \in Nat
        OBVIOUS
      <4>2. ~(Len(m.data) - at < n * (8 * s))
        BY <2>2, <3>a
      <4> QED BY <1>1, <3>a, <4>1, <4>2
    <3>3. got = Got(m, end, [i \in 1 .. length.value |-> Part(i)])
      BY <1>4, <2>2, <3>2
    <3> QED BY <3>1, <3>2, <3>3, GotIs
  <2> QED BY <2>1, <2>2
<1>7. ASSUME NEW v, ~m.raised, IsElements(v, width), HoldsArray(m.data, m.readBit, width, v)
      PROVE  GetsAll(m, got, v, Spot(width, Len(v), Len(v) + 1))
  <2> DEFINE n == Len(v)
  <2>1. /\ v \in Seq(Seq(Bytes)) /\ n \in Nat /\ DOMAIN v = 1 .. n
        /\ \A i \in 1 .. n : v[i] \in Seq(Bytes) /\ Len(v[i]) = width.size
    BY <1>7, LenProperties, SeqElement DEF IsElements
  <2>2. /\ HoldsBytes(m.data, m.readBit, ToVarULong(n))
        /\ \A i \in 1 .. n : HoldsBytes(m.data, m.readBit + Spot(width, n, i), v[i])
        /\ m.readBit + Spot(width, n, n + 1) <= Len(m.data)
    <3>1. m.readBit + Spot(width, Len(v), Len(v) + 1) <= Len(m.data)
      BY <1>1, <1>7, HoldsArrayEnd
    <3> QED BY <1>7, <3>1 DEF HoldsArray
  <2> HIDE DEF n
  <2>3. length = [found |-> TRUE, value |-> n, bits |-> PrefixBits(n)]
    BY <1>1, <2>1, <2>2, VarULongRead DEF PrefixBits
  <2>4. length.found /\ length.value = n /\ length.bits = PrefixBits(n)
    BY <2>3
  <2>5. PrefixBits(n) \in Nat
    BY <2>1, PrefixIs
  <2> HIDE DEF length
  <2>6. start = m.readBit + PrefixBits(n) /\ start \in Nat
    BY <1>1, <2>4, <2>5
  <2>7. \A i \in 1 .. n + 1 : m.readBit + Spot(width, n, i) = start + 8 * width.size * (i - 1)
    <3>1. PICK w \in Nat, p \in Nat : w = width.size /\ p = PrefixBits(n)
      BY <1>2, <2>5
    <3>2. \A i \in 1 .. n + 1 : m.readBit + (p + 8 * w * (i - 1)) = m.readBit + p + 8 * w * (i - 1)
      BY <1>1, <2>1, <3>1
    <3> QED BY <2>6, <3>1, <3>2 DEF Spot
  <2> HIDE DEF start
  <2>8. ASSUME NEW i \in 1 .. n PROVE Part(i) = v[i]
    <3>1. i \in Nat \ {0} /\ i \in 1 .. n + 1
      BY <2>1
    <3>2. PICK pos \in Nat : pos = start + 8 * width.size * (i - 1)
      BY <1>2, <2>6, <3>1
    <3>3. HoldsBytes(m.data, pos, v[i]) /\ v[i] \in Seq(Bytes) /\ width.size = Len(v[i])
      BY <2>1, <2>2, <2>7, <3>1, <3>2
    <3>5. Cuts(width.size, pos)
      BY <1>2 DEF Cuts
    <3>4. BytesOf(BytesFromBits(m.data, 8 * width.size, pos)) = v[i]
      BY <1>1, <3>3, <3>5, BytesRead, SMTT(30)
    <3> QED BY <3>2, <3>4
  <2> HIDE DEF Part
  <2>9. [i \in 1 .. length.value |-> Part(i)] = v
    <3>1. v = [i \in 1 .. n |-> v[i]]
      BY <2>1, LenProperties
    <3> QED BY <2>4, <2>8, <3>1
  <2>10. PICK end \in Nat : end = start + n * (8 * width.size)
    BY <1>2, <2>1, <2>6
  <2>11. end = m.readBit + Spot(width, n, n + 1)
    <3>1. n + 1 \in 1 .. n + 1 /\ (n + 1) - 1 = n /\ n * (8 * width.size) = 8 * width.size * n
      BY <1>2, <2>1
    <3>2. m.readBit + Spot(width, n, n + 1) = start + 8 * width.size * ((n + 1) - 1)
      BY <2>7, <3>1
    <3>3. 8 * width.size * ((n + 1) - 1) = 8 * width.size * n
      BY <3>1
    <3>4. m.readBit + Spot(width, n, n + 1) = start + n * (8 * width.size)
      BY <3>1, <3>2, <3>3
    <3> QED BY <2>10, <3>4
  <2>12. got = Got(m, end, v)
    <3>1. ~(Len(m.data) - start < n * (8 * width.size))
      <4>1. PICK size \in Nat : size = n * (8 * width.size)
        BY <1>2, <2>1
      <4>2. end <= Len(m.data) /\ end = start + size
        BY <2>2, <2>10, <2>11, <4>1
      <4>3. ~(Len(m.data) - start < size)
        BY <1>1, <2>6, <4>2
      <4> QED BY <4>1, <4>3
    <3> QED BY <1>4, <2>4, <2>9, <2>10, <3>1
  <2>13. v \in Seq(Seq(Nat)) /\ end <= Len(m.data)
    <3>1. \A i \in 1 .. n : v[i] \in Seq(Nat)
      BY <2>1, BytesAreNumbers
    <3> QED BY <1>5, <2>1, <2>2, <2>4, <2>8, <2>9, <2>11, <3>1
  <2>14. Got(m, end, v).elements = v /\ Got(m, end, v).message.readBit = end /\ Got(m, end, v).message.raised = m.raised
    BY <2>13, GotIs
  <2> QED BY <1>7, <2>11, <2>12, <2>14 DEF GetsAll, n
<1> QED BY <1>6, <1>7
\* One bool.
LEMMA GetBoolIs ==
  ASSUME NEW m \in Messages, NEW got, got = GetBool(m)
  PROVE  /\ Gets(m, got)
         /\ \A bit : ~m.raised /\ HoldsBit(m.data, m.readBit, bit) /\ ~got.message.raised =>
                GetsAll(m, got, <<<<bit>>>>, 1)
         /\ ~m.raised /\ got.message.raised => ~HasByte(m.data, m.readBit)
<1>1. /\ m.data \in Seq({0, 1}) /\ IsData(m.data) /\ Len(m.data) \in Nat /\ Len(m.data) % 8 = 0
      /\ m.readBit \in Nat /\ m.raised \in BOOLEAN
  BY MessageIs
<1>2. CASE ~HasByte(m.data, m.readBit)
  <2>1. got = Failed(m)
    BY <1>2 DEF GetBool
  <2> QED BY <1>2, <2>1, FailedIs
<1>3. CASE HasByte(m.data, m.readBit)
  <2>1. PICK end \in Nat : end = m.readBit + 1 /\ end <= Len(m.data)
    BY <1>1, <1>3 DEF HasByte
  <2>2. end \in 1 .. Len(m.data)
    BY <1>1, <2>1
  <2>3. PICK bit \in {0, 1} : bit = m.data[end]
    BY <1>1, <2>2, SeqElement
  <2>4. PICK elements \in Seq(Seq(Nat)) : elements = <<<<bit>>>>
    <3>1. <<bit>> \in Seq(Nat)
      BY <2>3
    <3>2. PICK b \in Seq(Nat) : b = <<bit>>
      BY <3>1
    <3>3. <<b>> \in Seq(Seq(Nat))
      OBVIOUS
    <3> QED BY <3>2, <3>3
  <2>5. got = Got(m, end, elements)
    BY <1>3, <2>1, <2>3, <2>4 DEF GetBool
  <2>6. Gets(m, got) /\ got.elements = elements /\ got.message.readBit = end /\ got.message.raised = m.raised
    BY <2>1, <2>5, GotIs
  <2>7. ASSUME NEW b, HoldsBit(m.data, m.readBit, b) PROVE b = bit
    BY <2>1, <2>3, <2>7 DEF HoldsBit
  <2> QED BY <2>1, <2>4, <2>6, <2>7 DEF GetsAll
<1> QED BY <1>2, <1>3

\* An array of bools, from the start of a message.
LEMMA GetBoolArrayIs ==
  ASSUME NEW m \in Messages, m.readBit = 0, NEW got, got = GetBoolArray(m)
  PROVE  /\ Gets(m, got)
         /\ \A v : ~m.raised /\ IsBools(v) /\ HoldsBools(m.data, 0, v) =>
                      GetsAll(m, got, v, PrefixBits(Len(v)) + Len(v))
<1>1. /\ m.data \in Seq({0, 1}) /\ IsData(m.data) /\ Len(m.data) \in Nat /\ m.raised \in BOOLEAN
      /\ m.readBit \in Nat
  BY MessageIs
<1> DEFINE length == FromVarULong(m.data, 0)
<1>2. /\ length.found \in BOOLEAN /\ length.value \in Nat /\ length.bits \in Nat
      /\ length.bits % 8 = 0 /\ (length.found => 0 + length.bits <= Len(m.data))
  BY <1>1, FromVarULongIs
<1> HIDE DEF length
<1>3. PICK start \in Nat, n \in Nat : start = length.bits /\ n = length.value /\ start % 8 = 0
  BY <1>2
<1>4. got = IF ~length.found \/ Len(m.data) < n \/ ~(start + n <= Len(m.data)) THEN Failed(m)
            ELSE Got(m, start + n, [i \in 1 .. n |-> <<m.data[start + i]>>])
  <2>1. 0 + length.bits = start /\ Len(m.data) - 0 = Len(m.data)
    BY <1>1, <1>3
  <2> QED BY <1>3, <2>1 DEF GetBoolArray, length
<1>5. CASE ~(~length.found \/ Len(m.data) < n \/ ~(start + n <= Len(m.data)))
  <2> DEFINE bools == [i \in 1 .. n |-> <<m.data[start + i]>>]
  <2>1. ASSUME NEW i \in 1 .. n PROVE <<m.data[start + i]>> \in Seq(Nat)
    <3>1. start + i \in 1 .. Len(m.data)
      BY <1>1, <1>5
    <3>2. PICK bit \in {0, 1} : bit = m.data[start + i]
      BY <1>1, <3>1, SeqElement
    <3>3. <<bit>> \in Seq(Nat)
      OBVIOUS
    <3> QED BY <3>2, <3>3
  <2>2. bools \in Seq(Seq(Nat))
    <3> DEFINE Bool1(i) == <<m.data[start + i]>>
    <3>1. \A i \in 1 .. n : Bool1(i) \in Seq(Nat)
      BY <2>1
    <3>2. bools = [i \in 1 .. n |-> Bool1(i)]
      OBVIOUS
    <3> HIDE DEF Bool1, bools
    <3> QED BY <3>1, <3>2
  <2>3. got = Got(m, start + n, bools)
    BY <1>4, <1>5
  <2>4. start + n \in Nat /\ start + n <= Len(m.data)
    BY <1>5
  <2> HIDE DEF bools
  <2>5. Gets(m, got) /\ got.elements = bools /\ got.message.readBit = start + n /\ got.message.raised = m.raised
    <3>1. PICK end \in Nat : end = start + n /\ end <= Len(m.data)
      BY <2>4
    <3> QED BY <2>2, <2>3, <3>1, GotIs
  <2>6. ASSUME NEW v, ~m.raised, IsBools(v), HoldsBools(m.data, 0, v)
        PROVE  GetsAll(m, got, v, PrefixBits(Len(v)) + Len(v))
    <3>1. /\ v \in Seq(Seq(Bytes)) /\ Len(v) \in Nat /\ DOMAIN v = 1 .. Len(v)
          /\ \A i \in 1 .. Len(v) : v[i] \in {<<0>>, <<1>>}
      BY <2>6, LenProperties DEF IsBools
    <3>2. /\ HoldsBytes(m.data, 0, ToVarULong(Len(v)))
          /\ \A i \in 1 .. Len(v) : m.data[(0 + PrefixBits(Len(v))) + i] = v[i][1]
      BY <2>6 DEF HoldsBools
    <3>3. length = [found |-> TRUE, value |-> Len(v), bits |-> PrefixBits(Len(v))]
      BY <1>1, <3>1, <3>2, VarULongRead DEF PrefixBits, length
    <3>4. n = Len(v) /\ start = PrefixBits(Len(v)) /\ 0 + start = start
      BY <1>3, <3>3
    <3>5. ASSUME NEW i \in 1 .. n PROVE bools[i] = v[i]
      <4>1. m.data[start + i] = v[i][1] /\ v[i] \in {<<0>>, <<1>>}
        BY <3>1, <3>2, <3>4
      <4>2. v[i] = <<v[i][1]>>
        BY <4>1
      <4>3. bools[i] = <<m.data[start + i]>>
        BY DEF bools
      <4> QED BY <4>1, <4>2, <4>3
    <3>6. bools = v
      <4>1. DOMAIN bools = 1 .. n
        BY DEF bools
      <4>2. bools = [i \in 1 .. n |-> bools[i]]
        BY DEF bools
      <4>3. v = [i \in 1 .. n |-> v[i]]
        BY <3>1, <3>4, LenProperties
      <4> QED BY <3>5, <4>2, <4>3
    <3> QED BY <1>1, <2>5, <2>6, <3>4, <3>6 DEF GetsAll
  <2> QED BY <2>5, <2>6
<1>6. CASE ~length.found \/ Len(m.data) < n \/ ~(start + n <= Len(m.data))
  <2>1. got = Failed(m)
    BY <1>4, <1>6
  <2>2. ASSUME NEW v, IsBools(v), HoldsBools(m.data, 0, v) PROVE FALSE
    <3>1. v \in Seq(Seq(Bytes)) /\ Len(v) \in Nat
      BY <2>2, LenProperties DEF IsBools
    <3>2. HoldsBytes(m.data, 0, ToVarULong(Len(v))) /\ (0 + PrefixBits(Len(v))) + Len(v) <= Len(m.data)
      BY <2>2 DEF HoldsBools
    <3>3. length = [found |-> TRUE, value |-> Len(v), bits |-> PrefixBits(Len(v))]
      BY <1>1, <3>1, <3>2, VarULongRead DEF PrefixBits, length
    <3>4. length.found /\ n = Len(v) /\ start = PrefixBits(Len(v))
      BY <1>3, <3>3
    <3>5. start + n <= Len(m.data)
      BY <3>2, <3>4
    <3> QED BY <1>1, <1>6, <3>4, <3>5
  <2> QED BY <2>1, <2>2, FailedIs
<1> QED BY <1>5, <1>6

\* The length of an empty string is one byte.
LEMMA ZeroIs ==
  ASSUME NEW n \in Nat, n = 0
  PROVE  ToVarULong(n) = <<0>> /\ PrefixBits(n) = 8
<1>1. \E rest, g : /\ IsGroups(rest, n, g) /\ rest = Rests(n, 128, n + 1)
                   /\ ToVarULong(n) = [i \in 1 .. g |-> (rest[i - 1] % 128) + (IF i < g THEN 128 ELSE 0)]
  BY VarULongIs, Zenon
<1>2. PICK rest, g : /\ IsGroups(rest, n, g)
                     /\ ToVarULong(n) = [i \in 1 .. g |-> (rest[i - 1] % 128) + (IF i < g THEN 128 ELSE 0)]
  BY <1>1
<1>3. g = 1 /\ rest[0] = 0
  BY <1>2 DEF IsGroups, IsRests
<1>4. ToVarULong(n) = [i \in 1 .. 1 |-> 0]
  <2>1. \A i \in 1 .. 1 : (rest[i - 1] % 128) + (IF i < 1 THEN 128 ELSE 0) = 0
    BY <1>3
  <2> QED BY <1>2, <1>3, <2>1
<1>5. PICK length : ToVarULong(n) = length
  OBVIOUS
<1>6. length = <<0>> /\ Len(length) = 1
  BY <1>4, <1>5
<1>7. PrefixBits(n) = 8 * Len(length)
  BY <1>5 DEF PrefixBits
<1> QED BY <1>5, <1>6, <1>7

\* It is the byte before the string.
LEMMA EmptyStringIs ==
  ASSUME NEW data, NEW pos \in Nat, NEW s \in Seq(Bytes), Len(s) = 0, HoldsString(data, pos, s)
  PROVE  PrefixBits(0) = 8 /\ HoldsBytes(data, pos, <<0>>)
<1>1. HoldsBytes(data, pos, ToVarULong(0))
  BY DEF HoldsString
<1>2. PICK n \in Nat : n = 0
  OBVIOUS
<1>3. ToVarULong(n) = <<0>> /\ PrefixBits(n) = 8
  BY <1>2, ZeroIs
<1> QED BY <1>1, <1>2, <1>3

\* A string that is held is read where it is, or the byte of its length.
LEMMA StringReadable ==
  ASSUME NEW data, IsData(data), NEW pos \in Nat, NEW s \in Seq(Bytes), HoldsString(data, pos, s),
         NEW at, at = pos + PrefixBits(Len(s))
  PROVE  Returned(s, pos) \in Seq(Bytes) /\ Readable(data, Len(s), at, Returned(s, pos))
<1>1. Len(s) \in Nat /\ PrefixBits(Len(s)) = 8 * Len(ToVarULong(Len(s))) /\ Len(ToVarULong(Len(s))) \in Nat
  BY LenProperties, PrefixIs
<1>2. at \in Nat /\ at % 8 = pos % 8
  <2>1. PICK k \in Nat : at = pos + 8 * k
    BY <1>1
  <2> QED BY <2>1
<1>3. CASE Len(s) = 0 /\ at % 8 # 0
  <2>1. s = <<>> /\ Returned(s, pos) = <<0>>
    BY <1>2, <1>3, EmptySeq DEF Returned, BITS_PER_BYTE
  <2>2. PrefixBits(0) = 8 /\ HoldsBytes(data, pos, <<0>>)
    BY <1>3, EmptyStringIs
  <2>3. at = pos + 8 /\ at - 8 = pos
    BY <1>3, <2>2
  <2>4. Len(<<0>>) = 1 /\ <<0>> \in Seq(Bytes)
    BY DEF Bytes
  <2>5. at <= Len(data)
    <3>1. pos + 8 * Len(<<0>>) <= Len(data)
      BY <2>2 DEF HoldsBytes
    <3> QED BY <2>3, <2>4, <3>1
  <2>6. 8 <= at /\ HoldsBytes(data, at - 8, <<0>>)
    BY <2>2, <2>3
  <2>7. Readable(data, Len(s), at, <<0>>)
    BY <1>3, <2>4, <2>5, <2>6 DEF Readable
  <2> QED BY <2>1, <2>4, <2>7
<1>4. CASE ~(Len(s) = 0 /\ at % 8 # 0)
  <2>1. Returned(s, pos) = s
    <3>1. s = <<>> => Len(s) = 0
      OBVIOUS
    <3> QED BY <1>2, <1>4, <3>1 DEF Returned, BITS_PER_BYTE
  <2>2. HoldsBytes(data, at, s)
    BY DEF HoldsString
  <2> QED BY <1>4, <2>1, <2>2 DEF Readable
<1> QED BY <1>3, <1>4

\* A string.
LEMMA GetStringIs ==
  ASSUME NEW m \in Messages, NEW got, got = GetString(m)
  PROVE  /\ Gets(m, got)
         /\ \A s \in Seq(Bytes) : ~m.raised /\ HoldsString(m.data, m.readBit, s) =>
                GetsAll(m, got, <<Returned(s, m.readBit)>>, StringSize(s))
<1>1. /\ m.data \in Seq({0, 1}) /\ IsData(m.data) /\ Len(m.data) \in Nat /\ m.raised \in BOOLEAN
      /\ m.readBit \in Nat
  BY MessageIs
<1>2. PICK length : length = FromVarULong(m.data, m.readBit)
  OBVIOUS
<1>3. length.found \in BOOLEAN /\ length.value \in Nat /\ length.bits \in Nat
  BY <1>1, <1>2, FromVarULongIs
<1>4. PICK n \in Nat, pos \in Nat : n = length.value /\ pos = m.readBit + length.bits
  BY <1>1, <1>3
<1>5. got = IF ~length.found THEN Failed(m) ELSE GetBytes(m, n, pos)
  BY <1>2, <1>4 DEF GetString
<1>6. Gets(m, got)
  BY <1>5, FailedIs, GetBytesIs
<1>7. ASSUME NEW s \in Seq(Bytes), ~m.raised, HoldsString(m.data, m.readBit, s)
      PROVE  GetsAll(m, got, <<Returned(s, m.readBit)>>, StringSize(s))
  <2>1. Len(s) \in Nat /\ StringSize(s) = PrefixBits(Len(s)) + 8 * Len(s)
    BY CharactersAre
  <2>2. HoldsBytes(m.data, m.readBit, ToVarULong(Len(s))) /\ HoldsBytes(m.data, m.readBit + PrefixBits(Len(s)), s)
    BY <1>7 DEF HoldsString
  <2>3. length = [found |-> TRUE, value |-> Len(s), bits |-> PrefixBits(Len(s))]
    BY <1>1, <1>2, <2>1, <2>2, VarULongRead DEF PrefixBits
  <2>4. length.found /\ n = Len(s) /\ pos = m.readBit + PrefixBits(Len(s)) /\ PrefixBits(Len(s)) \in Nat
    BY <1>4, <2>1, <2>3, PrefixIs
  <2>5. PICK bytes : bytes = Returned(s, m.readBit)
    OBVIOUS
  <2>6. ~got.message.raised /\ got.elements = <<bytes>> /\ got.message.readBit = pos + 8 * n
    <3>1. bytes \in Seq(Bytes) /\ Readable(m.data, n, pos, bytes)
      BY <1>1, <1>7, <2>4, <2>5, StringReadable
    <3>2. got = GetBytes(m, n, pos)
      BY <1>5, <2>4
    <3> QED BY <1>7, <3>1, <3>2, GetBytesIs
  <2>7. pos + 8 * n = m.readBit + StringSize(s)
    BY <1>1, <2>1, <2>4
  <2> QED BY <2>5, <2>6, <2>7 DEF GetsAll
<1> QED BY <1>6, <1>7

\* Results of gets.
Results(m) == {got \in [message : Messages, elements : Seq(Seq(Nat))] : Gets(m, got)}

\* One more string of an array.
LEMMA GetNextStringIs ==
  ASSUME NEW m \in Messages, NEW got \in Results(m), NEW r, r = GetNextString(got)
  PROVE  /\ r \in Results(m)
         /\ \A s \in Seq(Bytes) : ~got.message.raised /\ HoldsString(m.data, got.message.readBit, s) =>
               /\ ~r.message.raised /\ r.message.readBit = got.message.readBit + StringSize(s)
               /\ Len(r.elements) = Len(got.elements) + 1
               /\ r.elements[Len(r.elements)] = Returned(s, got.message.readBit)
               /\ \A i \in 1 .. Len(got.elements) : r.elements[i] = got.elements[i]
<1>1. PICK x \in Messages, e \in Seq(Seq(Nat)) : got = [message |-> x, elements |-> e] /\ Gets(m, got)
  BY DEF Results
<1>2. /\ x.header = m.header /\ x.msgID = m.msgID /\ x.seqID = m.seqID /\ x.data = m.data
      /\ x.writeBit = m.writeBit /\ x.raised \in BOOLEAN /\ x.readBit \in Nat /\ Len(e) \in Nat
  BY <1>1, MessageIs, LenProperties DEF Gets
<1>3. CASE x.raised
  BY <1>1, <1>3 DEF GetNextString
<1>4. CASE ~x.raised
  <2>1. PICK next : next = GetString(x)
    OBVIOUS
  <2>2. /\ Gets(x, next)
        /\ \A s \in Seq(Bytes) : ~x.raised /\ HoldsString(x.data, x.readBit, s) =>
              GetsAll(x, next, <<Returned(s, x.readBit)>>, StringSize(s))
    BY <2>1, GetStringIs
  <2>3. PICK y \in Messages, more \in Seq(Seq(Nat)) : next = [message |-> y, elements |-> more]
    BY <2>2 DEF Gets
  <2>4. r = [message |-> y, elements |-> e \o more]
    <3>1. got.message = x /\ got.elements = e
      BY <1>1
    <3>2. r = [next EXCEPT !.elements = e \o @]
      BY <1>4, <2>1, <3>1 DEF GetNextString
    <3> QED BY <2>3, <3>2
  <2>5. /\ e \o more \in Seq(Seq(Nat))
        /\ Len(e \o more) = Len(e) + Len(more)
        /\ \A i \in 1 .. Len(e) : (e \o more)[i] = e[i]
        /\ \A i \in 1 .. Len(more) : (e \o more)[Len(e) + i] = more[i]
    BY SeqConcat
  <2>6. r \in Results(m)
    <3>1. PICK q \in Seq(Seq(Nat)) : q = e \o more
      BY <2>5
    <3>2. /\ y.header = x.header /\ y.msgID = x.msgID /\ y.seqID = x.seqID /\ y.data = x.data
          /\ y.writeBit = x.writeBit
      BY <2>2, <2>3 DEF Gets
    <3>3. r = [message |-> y, elements |-> q]
      BY <2>4, <3>1
    <3> QED BY <1>2, <3>2, <3>3 DEF Gets, Results
  <2>7. ASSUME NEW s \in Seq(Bytes), HoldsString(m.data, got.message.readBit, s)
        PROVE  /\ ~r.message.raised /\ r.message.readBit = got.message.readBit + StringSize(s)
               /\ Len(r.elements) = Len(got.elements) + 1
               /\ r.elements[Len(r.elements)] = Returned(s, got.message.readBit)
               /\ \A i \in 1 .. Len(got.elements) : r.elements[i] = got.elements[i]
    <3>1. HoldsString(x.data, x.readBit, s)
      BY <1>1, <1>2, <2>7
    <3>0. PICK t : t = Returned(s, x.readBit)
      OBVIOUS
    <3>2. GetsAll(x, next, <<t>>, StringSize(s))
      BY <1>4, <2>2, <3>0, <3>1
    <3>3. ~y.raised /\ more = <<t>> /\ y.readBit = x.readBit + StringSize(s)
      BY <2>3, <3>2 DEF GetsAll
    <3>4. Len(more) = 1 /\ more[1] = t /\ 1 \in 1 .. Len(more)
      BY <3>3
    <3>5. Len(e \o more) = Len(e) + 1 /\ (e \o more)[Len(e) + 1] = t
      BY <2>5, <3>4
    <3> QED BY <1>1, <2>4, <2>5, <3>0, <3>3, <3>5
  <2> QED BY <1>1, <2>6, <2>7
<1> QED BY <1>2, <1>3, <1>4

\* The results after each string of an array, one after the other.
IsGetLoop(f, m, n, start) ==
    /\ f \in [0 .. n -> Results(m)] /\ f[0] = Got(m, start, <<>>)
    /\ \A i \in 1 .. n : f[i] = GetNextString(f[i - 1])

\* GetStringArray is its loop: what is got after each string.
LEMMA GetLoop ==
  ASSUME NEW m \in Messages, NEW length, length = FromVarULong(m.data, m.readBit), length.found
  PROVE  \E f : IsGetLoop(f, m, length.value, m.readBit + length.bits) /\ GetStringArray(m) = f[length.value]
<1>1. IsData(m.data) /\ m.readBit \in Nat
  BY MessageIs
<1>2. PICK n \in Nat, start \in Nat : n = length.value /\ start = m.readBit + length.bits /\ start <= Len(m.data)
  <2>1. /\ length.value \in Nat /\ length.bits \in Nat
        /\ length.found => m.readBit + length.bits <= Len(m.data)
    BY <1>1, FromVarULongIs
  <2> QED BY <1>1, <2>1
<1> DEFINE first == Got(m, start, <<>>)
           step == [i \in 1 .. n |-> [x \in Results(m) |-> GetNextString(x)]]
           IsAfter(f) == f = [i \in 0 .. n |-> IF i = 0 THEN first ELSE GetNextString(f[i - 1])]
           after == CHOOSE f : IsAfter(f)
<1>3. GetStringArray(m) = after[n]
  BY <1>2 DEF GetStringArray
<1>4. first \in Results(m)
  <2>1. <<>> \in Seq(Seq(Nat))
    OBVIOUS
  <2>2. Gets(m, first)
    BY <1>2, <2>1, GotIs
  <2> QED BY <2>2 DEF Gets, Results
<1> HIDE DEF first
<1>5. \A x \in Results(m), i \in 1 .. n : step[i][x] = GetNextString(x)
  OBVIOUS
<1>6. IsStep(Results(m), n, step)
  BY <1>5, GetNextStringIs DEF IsStep
<1> HIDE DEF step
<1>7. PICK f : IsLoop(f, Results(m), n, first, step)
  BY <1>4, <1>6, Iterates
<1>8. f \in [0 .. n -> Results(m)] /\ f[0] = first /\ \A i \in 1 .. n : f[i] = step[i][f[i - 1]]
  BY <1>7 DEF IsLoop
<1>9. \A i \in 1 .. n : f[i] = GetNextString(f[i - 1])
  <2>1. \A i \in 1 .. n : i - 1 \in 0 .. n
    OBVIOUS
  <2> QED BY <1>5, <1>8, <2>1
<1>10. IsAfter(f)
  <2> DEFINE g == [i \in 0 .. n |-> IF i = 0 THEN first ELSE GetNextString(f[i - 1])]
  <2>1. f[0] = g[0] /\ \A i \in 1 .. n : f[i] = g[i]
    BY <1>8, <1>9
  <2>2. \A i \in 0 .. n : i = 0 \/ i \in 1 .. n
    OBVIOUS
  <2>3. f = [i \in 0 .. n |-> f[i]] /\ g = [i \in 0 .. n |-> g[i]]
    BY <1>8
  <2> HIDE DEF g
  <2>4. f = g
    BY <2>1, <2>2, <2>3
  <2> QED BY <2>4 DEF g
<1>11. IsAfter(after)
  <2> HIDE DEF IsAfter
  <2> QED BY <1>10
<1> HIDE DEF after
<1>12. after[0] = first /\ \A i \in 1 .. n : after[i] = GetNextString(after[i - 1])
  BY <1>11
<1> DEFINE T == {i \in 0 .. n : after[i] \in Results(m)}
<1>13. 0 \in T
  BY <1>4, <1>12
<1>14. ASSUME NEW i \in 1 .. n, i - 1 \in T PROVE i \in T
  <2>1. PICK x \in Results(m) : x = after[i - 1]
    BY <1>14
  <2>2. GetNextString(x) \in Results(m)
    BY GetNextStringIs
  <2> QED BY <1>12, <2>1, <2>2
<1> HIDE DEF T
<1>15. \A i \in 0 .. n : i \in T
  BY <1>13, <1>14, UpTo
<1>16. after \in [0 .. n -> Results(m)]
  BY <1>11, <1>15 DEF T
<1>17. IsGetLoop(after, m, n, start)
  BY <1>12, <1>16 DEF IsGetLoop, first
<1> QED BY <1>2, <1>3, <1>17

\* After the first i strings of an array have been got: all begin at the same bit of a byte.
GetRound(m, got, i, v) ==
    /\ ~got.message.raised /\ got.message.readBit = m.readBit + StringSpot(v, i + 1)
    /\ got.message.readBit % 8 = m.readBit % 8
    /\ Len(got.elements) = i /\ \A j \in 1 .. i : got.elements[j] = Returned(v[j], m.readBit)

ReturnedStrings(v, start) == [i \in DOMAIN v |-> Returned(v[i], start)]

\* An array of strings.
LEMMA GetStringArrayIs ==
  ASSUME NEW m \in Messages, NEW got, got = GetStringArray(m)
  PROVE  /\ Gets(m, got)
         /\ \A v \in Seq(Seq(Bytes)) : ~m.raised /\ HoldsStrings(m.data, m.readBit, v) =>
                GetsAll(m, got, ReturnedStrings(v, m.readBit), StringSpot(v, Len(v) + 1))
<1>1. /\ m.data \in Seq({0, 1}) /\ IsData(m.data) /\ Len(m.data) \in Nat /\ m.raised \in BOOLEAN
      /\ m.readBit \in Nat
  BY MessageIs
<1>2. PICK length : length = FromVarULong(m.data, m.readBit)
  OBVIOUS
<1>3. length.found \in BOOLEAN /\ length.value \in Nat /\ length.bits \in Nat
  BY <1>1, <1>2, FromVarULongIs
<1>4. Gets(m, got)
  <2>1. CASE ~length.found
    <3>1. got = Failed(m)
      BY <1>2, <2>1 DEF GetStringArray
    <3> QED BY <3>1, FailedIs
  <2>2. CASE length.found
    <3>1. PICK f : IsGetLoop(f, m, length.value, m.readBit + length.bits) /\ GetStringArray(m) = f[length.value]
      BY <1>2, <2>2, GetLoop
    <3>2. length.value \in 0 .. length.value
      BY <1>3
    <3>3. f[length.value] \in Results(m)
      BY <3>1, <3>2 DEF IsGetLoop
    <3> QED BY <3>1, <3>3 DEF Results
  <2> QED BY <1>3, <2>1, <2>2
<1>5. ASSUME NEW v \in Seq(Seq(Bytes)), ~m.raised, HoldsStrings(m.data, m.readBit, v)
      PROVE  GetsAll(m, got, ReturnedStrings(v, m.readBit), StringSpot(v, Len(v) + 1))
  <2> DEFINE n == Len(v)
  <2>1. /\ n \in Nat /\ PrefixBits(n) \in Nat /\ StringSpot(v, 1) = PrefixBits(n)
        /\ \A i \in 1 .. n + 1 : StringSpot(v, i) \in Nat
        /\ \A i \in 1 .. n : /\ v[i] \in Seq(Bytes) /\ StringSize(v[i]) \in Nat
                             /\ StringSpot(v, i + 1) = StringSpot(v, i) + StringSize(v[i])
    BY StringSpots
  <2>2. /\ HoldsBytes(m.data, m.readBit, ToVarULong(n))
        /\ \A i \in 1 .. n : HoldsString(m.data, m.readBit + StringSpot(v, i), v[i])
    BY <1>5 DEF HoldsStrings
  <2>0. DOMAIN v = 1 .. n
    BY LenProperties
  <2> HIDE DEF n
  <2>3. length = [found |-> TRUE, value |-> n, bits |-> PrefixBits(n)]
    BY <1>1, <1>2, <2>1, <2>2, VarULongRead DEF PrefixBits
  <2>4. length.found /\ length.value = n /\ length.bits = PrefixBits(n)
    BY <2>3
  <2>5. PICK f : IsGetLoop(f, m, n, m.readBit + PrefixBits(n)) /\ got = f[n]
    BY <1>2, <2>4, GetLoop
  <2>6. /\ f \in [0 .. n -> Results(m)] /\ f[0] = Got(m, m.readBit + PrefixBits(n), <<>>)
        /\ \A i \in 1 .. n : f[i] = GetNextString(f[i - 1])
    BY <2>5 DEF IsGetLoop
  <2> DEFINE T == {i \in 0 .. n : GetRound(m, f[i], i, v)}
  <2>7. 0 \in T
    <3>1. PICK start \in Nat : start = m.readBit + PrefixBits(n)
      BY <1>1, <2>1
    <3>2. f[0].message.raised = m.raised /\ f[0].message.readBit = start /\ f[0].elements = <<>>
      <4>0. PICK e \in Seq(Seq(Nat)) : e = <<>>
        BY EmptySeq
      <4>1. f[0] = Got(m, start, e)
        BY <2>6, <3>1, <4>0
      <4>2. start <= Len(m.data)
        BY <2>2, <3>1 DEF HoldsBytes, PrefixBits
      <4>3. /\ Got(m, start, e).elements = e
            /\ Got(m, start, e).message.readBit = start
            /\ Got(m, start, e).message.raised = m.raised
        BY <4>2, GotIs
      <4> QED BY <4>0, <4>1, <4>3
    <3>3. StringSpot(v, 0 + 1) = PrefixBits(n) /\ Len(<<>>) = 0
      BY <2>1
    <3>4. start % 8 = m.readBit % 8
      <4>1. PICK k \in Nat : start = m.readBit + 8 * k
        BY <2>1, <3>1, PrefixIs
      <4> QED BY <1>1, <4>1
    <3>5. GetRound(m, f[0], 0, v)
      BY <1>5, <3>1, <3>2, <3>3, <3>4 DEF GetRound
    <3> QED BY <2>1, <3>5
  <2>8. ASSUME NEW i \in 1 .. n, i - 1 \in T PROVE i \in T
    <3>1. PICK x \in Results(m) : x = f[i - 1]
      BY <2>1, <2>6
    <3>2. PICK r : r = f[i] /\ r = GetNextString(x)
      BY <2>6, <3>1
    <3>3. GetRound(m, x, i - 1, v)
      BY <2>8, <3>1
    <3>4. PICK k \in Nat : k = i - 1 /\ k + 1 = i /\ i \in 1 .. n
      BY <2>1
    <3>5. /\ ~x.message.raised /\ x.message.readBit = m.readBit + StringSpot(v, i)
          /\ x.message.readBit % 8 = m.readBit % 8
          /\ Len(x.elements) = k /\ \A j \in 1 .. k : x.elements[j] = Returned(v[j], m.readBit)
      BY <3>3, <3>4 DEF GetRound
    <3>6. PICK s \in Seq(Bytes) : s = v[i]
      BY <2>1
    <3>7. HoldsString(m.data, x.message.readBit, s)
      BY <2>2, <3>5, <3>6
    <3>8. /\ ~r.message.raised /\ r.message.readBit = x.message.readBit + StringSize(s)
          /\ Len(r.elements) = Len(x.elements) + 1
          /\ r.elements[Len(r.elements)] = Returned(s, x.message.readBit)
          /\ \A j \in 1 .. Len(x.elements) : r.elements[j] = x.elements[j]
      <4>1. \A t \in Seq(Bytes) : ~x.message.raised /\ HoldsString(m.data, x.message.readBit, t) =>
               /\ ~r.message.raised /\ r.message.readBit = x.message.readBit + StringSize(t)
               /\ Len(r.elements) = Len(x.elements) + 1
               /\ r.elements[Len(r.elements)] = Returned(t, x.message.readBit)
               /\ \A j \in 1 .. Len(x.elements) : r.elements[j] = x.elements[j]
        BY <3>2, GetNextStringIs
      <4> QED BY <3>5, <3>7, <4>1
    <3>9. r.message.readBit = m.readBit + StringSpot(v, i + 1)
      <4>1. StringSpot(v, i + 1) = StringSpot(v, i) + StringSize(s) /\ StringSize(s) \in Nat
        BY <2>1, <3>6
      <4>2. StringSpot(v, i) \in Nat
        <5>1. i \in 1 .. n + 1
          BY <2>1
        <5> QED BY <2>1, <5>1
      <4> QED BY <1>1, <3>5, <3>8, <4>1, <4>2
    <3>14. r.message.readBit % 8 = m.readBit % 8
      <4>1. PICK k8 \in Nat, at \in Nat : StringSize(s) = 8 * k8 /\ at = x.message.readBit
        <5>1. StringSize(s) = PrefixBits(Len(s)) + 8 * Len(s) /\ Len(s) \in Nat
          BY CharactersAre
        <5>2. PrefixBits(Len(s)) = 8 * Len(ToVarULong(Len(s))) /\ Len(ToVarULong(Len(s))) \in Nat
          BY <5>1, PrefixIs
        <5>3. StringSize(s) = 8 * (Len(ToVarULong(Len(s))) + Len(s)) /\ Len(ToVarULong(Len(s))) + Len(s) \in Nat
          BY <5>1, <5>2
        <5>4. x.message.readBit \in Nat
          <6>1. PICK y \in Messages : y = x.message
            BY DEF Results
          <6> QED BY <6>1, MessageIs
        <5> QED BY <5>3, <5>4
      <4>2. r.message.readBit = at + 8 * k8
        BY <3>8, <4>1
      <4>3. (at + 8 * k8) % 8 = at % 8
        BY <4>1
      <4> QED BY <3>5, <4>1, <4>2, <4>3
    <3>15. Returned(s, x.message.readBit) = Returned(v[i], m.readBit)
      BY <3>5, <3>6 DEF Returned, BITS_PER_BYTE
    <3>10. Len(r.elements) = i /\ \A j \in 1 .. i : r.elements[j] = Returned(v[j], m.readBit)
      <4>1. Len(r.elements) = i
        BY <3>4, <3>5, <3>8
      <4>2. ASSUME NEW j \in 1 .. i PROVE r.elements[j] = Returned(v[j], m.readBit)
        <5>1. CASE j = i
          BY <3>8, <3>15, <4>1, <5>1
        <5>2. CASE j \in 1 .. k
          BY <3>5, <3>8, <5>2
        <5>3. j = i \/ j \in 1 .. k
          BY <3>4
        <5> QED BY <5>1, <5>2, <5>3
      <4> QED BY <4>1, <4>2
    <3>11. GetRound(m, r, i, v)
      BY <3>8, <3>9, <3>10, <3>14 DEF GetRound
    <3>12. i \in 0 .. n
      BY <2>1
    <3>13. GetRound(m, f[i], i, v)
      BY <3>2, <3>11
    <3> QED BY <3>12, <3>13
  <2> HIDE DEF T
  <2>9. \A i \in 0 .. n : i \in T
    BY <2>1, <2>7, <2>8, UpTo
  <2>10. GetRound(m, got, n, v)
    <3>1. n \in T
      BY <2>1, <2>9
    <3> QED BY <2>5, <3>1 DEF T
  <2>11. got.elements = ReturnedStrings(v, m.readBit)
    <3>1. /\ got.elements \in Seq(Seq(Nat)) /\ Len(got.elements) = n
          /\ \A j \in 1 .. n : got.elements[j] = Returned(v[j], m.readBit)
      BY <1>4, <2>10 DEF GetRound, Gets
    <3>2. PICK e \in Seq(Seq(Nat)) : e = got.elements
      BY <3>1
    <3>3. e = [j \in 1 .. n |-> e[j]]
      BY <3>1, <3>2, LenProperties
    <3>4. ReturnedStrings(v, m.readBit) = [j \in 1 .. n |-> Returned(v[j], m.readBit)]
      BY <2>0 DEF ReturnedStrings
    <3> QED BY <3>1, <3>2, <3>3, <3>4
  <2> QED BY <2>10, <2>11 DEF GetRound, GetsAll, n
<1> QED BY <1>4, <1>5

\* What a get does, whatever the item: it gets the item that is there, with the byte of its
\* length for an empty string that does not begin a byte, but for a bool without a byte.
LEMMA GetIs ==
  ASSUME NEW m \in Messages, NEW item, IsItem(item), item.type = "Bool" /\ item.array => m.readBit = 0,
         NEW got, got = Get(m, item)
  PROVE  /\ Gets(m, got)
         /\ ~m.raised /\ HoldsItem(m.data, m.readBit, item) =>
               \/ GetsAll(m, got, ReturnedElements(item, m.readBit), Size(item))
               \/ got.message.raised /\ item.type = "Bool" /\ ~item.array /\ ~HasByte(m.data, m.readBit)
<1> DEFINE v == item.elements
           n == Len(v)
           w == WidthOf[item.type]
<1>1. /\ item.array \in BOOLEAN /\ v \in Seq(Seq(Bytes)) /\ n \in Nat
      /\ item.type \in DOMAIN WidthOf \/ item.type = "Bool" \/ item.type = "String"
      /\ ~item.array => Len(v) = 1 /\ v[1] \in Seq(Bytes)
      /\ item.type = "Bool" /\ ~item.array => v[1] \in {<<0>>, <<1>>}
      /\ item.type = "Bool" /\ item.array => IsBools(v)
      /\ item.type \in DOMAIN WidthOf => /\ IsWidth(w) /\ item.type # "Bool" /\ item.type # "String"
                                         /\ item.array => IsElements(v, w)
                                         /\ ~item.array => Len(v[1]) = w.size
  BY ItemIs
<1>2. m.readBit \in Nat /\ m.raised \in BOOLEAN
  BY MessageIs
<1>3. ~item.array => v = <<v[1]>>
  BY <1>1
<1>10. item.type # "String" => ReturnedElements(item, m.readBit) = v
  BY DEF ReturnedElements
<1>11. item.type = "String" => ReturnedElements(item, m.readBit) = ReturnedStrings(v, m.readBit)
  BY DEF ReturnedElements, ReturnedStrings
<1> HIDE DEF v, n, w
<1>4. CASE item.type = "Bool" /\ ~item.array
  <2>1. got = GetBool(m)
    BY <1>4 DEF Get
  <2>2. /\ HoldsItem(m.data, m.readBit, item) <=> HoldsBit(m.data, m.readBit, v[1][1])
        /\ Size(item) = 1
    BY <1>4 DEF HoldsItem, Size, v
  <2>3. v = <<<<v[1][1]>>>>
    BY <1>1, <1>3, <1>4
  <2>4. /\ Gets(m, got)
        /\ ~m.raised /\ HoldsBit(m.data, m.readBit, v[1][1]) /\ ~got.message.raised =>
              GetsAll(m, got, <<<<v[1][1]>>>>, 1)
        /\ ~m.raised /\ got.message.raised => ~HasByte(m.data, m.readBit)
    BY <2>1, GetBoolIs
  <2> QED BY <1>4, <1>10, <2>2, <2>3, <2>4 DEF v
<1>5. CASE item.type = "Bool" /\ item.array
  <2>1. got = GetBoolArray(m) /\ m.readBit = 0
    BY <1>5 DEF Get
  <2>2. /\ HoldsItem(m.data, m.readBit, item) => HoldsBools(m.data, 0, v)
        /\ Size(item) = PrefixBits(Len(v)) + Len(v)
    BY <1>5, <2>1 DEF HoldsItem, Size, v
  <2>3. Gets(m, got) /\ (~m.raised /\ HoldsBools(m.data, 0, v) => GetsAll(m, got, v, PrefixBits(Len(v)) + Len(v)))
    BY <1>1, <1>5, <2>1, GetBoolArrayIs
  <2> QED BY <1>5, <1>10, <2>2, <2>3 DEF v
<1>6. CASE item.type = "String" /\ ~item.array
  <2>0. item.type # "Bool"
    BY <1>6
  <2>1. got = GetString(m)
    BY <1>6, <2>0 DEF Get
  <2>2. /\ HoldsItem(m.data, m.readBit, item) => HoldsString(m.data, m.readBit, v[1])
        /\ Size(item) = StringSize(v[1])
    BY <1>6, <2>0 DEF HoldsItem, Size, v
  <2>3. Gets(m, got) /\ (~m.raised /\ HoldsString(m.data, m.readBit, v[1]) =>
                             GetsAll(m, got, <<Returned(v[1], m.readBit)>>, StringSize(v[1])))
    BY <1>1, <1>6, <2>1, GetStringIs
  <2>4. ReturnedStrings(v, m.readBit) = <<Returned(v[1], m.readBit)>>
    <3>1. DOMAIN v = {1}
      BY <1>3, <1>6
    <3> QED BY <3>1 DEF ReturnedStrings
  <2> QED BY <1>6, <1>11, <2>2, <2>3, <2>4 DEF v
<1>7. CASE item.type = "String" /\ item.array
  <2>0. item.type # "Bool"
    BY <1>7
  <2>1. got = GetStringArray(m)
    BY <1>7, <2>0 DEF Get
  <2>2. /\ HoldsItem(m.data, m.readBit, item) => HoldsStrings(m.data, m.readBit, v)
        /\ Size(item) = StringSpot(v, Len(v) + 1)
    BY <1>7, <2>0 DEF HoldsItem, Size, v
  <2>3. Gets(m, got) /\ (~m.raised /\ HoldsStrings(m.data, m.readBit, v) =>
                             GetsAll(m, got, ReturnedStrings(v, m.readBit), StringSpot(v, Len(v) + 1)))
    BY <1>1, <2>1, GetStringArrayIs
  <2> QED BY <1>7, <1>11, <2>2, <2>3 DEF v
<1>8. CASE item.type \in DOMAIN WidthOf /\ item.array
  <2>0. item.type # "Bool" /\ item.type # "String" /\ IsWidth(w) /\ IsElements(v, w)
    BY <1>1, <1>8
  <2>1. got = GetArray(m, w)
    BY <1>8, <2>0 DEF Get, w
  <2>2. /\ HoldsItem(m.data, m.readBit, item) => HoldsArray(m.data, m.readBit, w, v)
        /\ Size(item) = Spot(w, Len(v), Len(v) + 1)
    BY <1>8, <2>0 DEF HoldsItem, Size, v, w
  <2>3. Gets(m, got) /\ (~m.raised /\ HoldsArray(m.data, m.readBit, w, v) =>
                             GetsAll(m, got, v, Spot(w, Len(v), Len(v) + 1)))
    BY <2>0, <2>1, GetArrayIs
  <2> QED BY <1>10, <2>0, <2>2, <2>3 DEF v
<1>9. CASE item.type \in DOMAIN WidthOf /\ ~item.array
  <2>0. item.type # "Bool" /\ item.type # "String" /\ IsWidth(w) /\ Len(v[1]) = w.size /\ v[1] \in Seq(Bytes)
    BY <1>1, <1>9
  <2>1. PICK length \in Nat : length = w.size /\ got = GetBytes(m, length, m.readBit)
    BY <1>9, <2>0 DEF Get, GetFixed, w, IsWidth
  <2>2. /\ HoldsItem(m.data, m.readBit, item) => HoldsBytes(m.data, m.readBit, v[1])
        /\ Size(item) = 8 * length
    BY <1>9, <2>0, <2>1 DEF HoldsItem, Size, v, w
  <2>3. /\ Gets(m, got)
        /\ ~m.raised /\ HoldsBytes(m.data, m.readBit, v[1]) =>
              ~got.message.raised /\ got.elements = <<v[1]>> /\ got.message.readBit = m.readBit + 8 * length
    <3>1. length # 0 /\ Len(v[1]) = length
      BY <2>0, <2>1 DEF IsWidth
    <3>2. HoldsBytes(m.data, m.readBit, v[1]) => Readable(m.data, length, m.readBit, v[1])
      BY <3>1 DEF Readable
    <3> QED BY <1>2, <2>0, <2>1, <3>2, GetBytesIs
  <2> QED BY <1>3, <1>9, <1>10, <2>0, <2>2, <2>3 DEF v, GetsAll
<1> QED BY <1>1, <1>4, <1>5, <1>6, <1>7, <1>8, <1>9

-----------------------------------------------------------------------------
(* The wire. *)

\* The parts stand one behind the other.
Parts(x, a, b, c, d) ==
    /\ x \in Seq({0, 1}) /\ Len(x) = Len(a) + Len(b) + Len(c) + Len(d)
    /\ \A k \in 1 .. Len(a) : x[k] = a[k]
    /\ \A k \in 1 .. Len(b) : x[Len(a) + k] = b[k]
    /\ \A k \in 1 .. Len(c) : x[Len(a) + Len(b) + k] = c[k]
    /\ \A k \in 1 .. Len(d) : x[Len(a) + Len(b) + Len(c) + k] = d[k]

\* Four parts, one behind the other.
LEMMA FourParts ==
  ASSUME NEW a \in Seq({0, 1}), NEW b \in Seq({0, 1}), NEW c \in Seq({0, 1}), NEW d \in Seq({0, 1}),
         NEW x, x = ((a \o b) \o c) \o d
  PROVE  Parts(x, a, b, c, d)
<1>1. PICK p \in Seq({0, 1}) : p = a \o b
  BY SeqConcat
<1>2. /\ Len(p) = Len(a) + Len(b) /\ Len(a) \in Nat /\ Len(b) \in Nat
      /\ \A k \in 1 .. Len(a) : p[k] = a[k]
      /\ \A k \in 1 .. Len(b) : p[Len(a) + k] = b[k]
  BY <1>1, SeqConcat
<1>3. PICK q \in Seq({0, 1}) : q = p \o c
  BY SeqConcat
<1>4. /\ Len(q) = Len(p) + Len(c) /\ Len(c) \in Nat
      /\ \A k \in 1 .. Len(p) : q[k] = p[k]
      /\ \A k \in 1 .. Len(c) : q[Len(p) + k] = c[k]
  BY <1>3, SeqConcat
<1>5. x = q \o d
  BY <1>1, <1>3
<1>6. /\ x \in Seq({0, 1}) /\ Len(x) = Len(q) + Len(d) /\ Len(d) \in Nat
      /\ \A k \in 1 .. Len(q) : x[k] = q[k]
      /\ \A k \in 1 .. Len(d) : x[Len(q) + k] = d[k]
  BY <1>5, SeqConcat
<1>7. \A k \in 1 .. Len(a) : x[k] = a[k]
  <2>1. \A k \in 1 .. Len(a) : k \in 1 .. Len(p) /\ k \in 1 .. Len(q)
    BY <1>2, <1>4
  <2> QED BY <1>2, <1>4, <1>6, <2>1
<1>8. \A k \in 1 .. Len(b) : x[Len(a) + k] = b[k]
  <2>1. \A k \in 1 .. Len(b) : Len(a) + k \in 1 .. Len(p) /\ Len(a) + k \in 1 .. Len(q)
    BY <1>2, <1>4
  <2> QED BY <1>2, <1>4, <1>6, <2>1
<1>9. \A k \in 1 .. Len(c) : x[Len(a) + Len(b) + k] = c[k]
  <2>1. \A k \in 1 .. Len(c) : Len(p) + k \in 1 .. Len(q)
    BY <1>2, <1>4
  <2> QED BY <1>2, <1>4, <1>6, <2>1
<1>10. Len(q) = Len(a) + Len(b) + Len(c)
  BY <1>2, <1>4
<1>11. /\ x \in Seq({0, 1})
       /\ Len(a) \in Nat /\ Len(b) \in Nat /\ Len(c) \in Nat /\ Len(d) \in Nat
       /\ Len(x) = Len(a) + Len(b) + Len(c) + Len(d)
       /\ \A k \in 1 .. Len(a) : x[k] = a[k]
       /\ \A k \in 1 .. Len(b) : x[Len(a) + k] = b[k]
       /\ \A k \in 1 .. Len(c) : x[Len(a) + Len(b) + k] = c[k]
       /\ \A k \in 1 .. Len(d) : x[Len(a) + Len(b) + Len(c) + k] = d[k]
  BY <1>2, <1>4, <1>6, <1>7, <1>8, <1>9, <1>10
<1> QED BY <1>11 DEF Parts

\* The first bits.
LEMMA FirstBits ==
  ASSUME NEW data \in Seq({0, 1}), NEW n \in Nat, n <= Len(data)
  PROVE  /\ SubSeq(data, 1, n) \in Seq({0, 1}) /\ Len(SubSeq(data, 1, n)) = n
         /\ \A k \in 1 .. n : SubSeq(data, 1, n)[k] = data[k]
<1>1. n \in 0 .. Len(data)
  BY LenProperties
<1> QED BY <1>1, SeqPrefix

\* Bits written into nothing fill whole bytes.
LEMMA Streamed ==
  ASSUME NEW bits \in Seq({0, 1}), NEW stream, stream = SetBits(bits, <<>>, 0)
  PROVE  /\ IsData(stream) /\ Len(bits) <= Len(stream) /\ Len(bits) \in Nat /\ Len(stream) \in Nat
         /\ \A k \in 1 .. Len(bits) : stream[k] = bits[k]
<1>1. PICK data \in Seq({0, 1}) : data = <<>> /\ IsData(data)
  <2>1. PICK e \in Seq({0, 1}) : e = <<>> /\ Len(e) = 0
    BY EmptySeq
  <2>2. IsData(e)
    BY <2>1 DEF IsData
  <2> QED BY <2>1, <2>2
<1>2. PICK pos \in Nat : pos = 0
  OBVIOUS
<1>3. PICK n \in Nat : n = Len(bits) /\ pos + n = n
  BY <1>2, LenProperties
<1>4. PICK room \in Nat : room = BytesNeeded(n) /\ n <= 8 * room
  BY Rounded
<1>5. stream = Overlay(bits, Padded(data, room), pos)
  BY <1>1, <1>2, <1>3, <1>4 DEF SetBits, EnsureSpace
<1>6. pos + Len(bits) <= 8 * room
  BY <1>3, <1>4
<1>7. /\ IsData(stream) /\ pos + Len(bits) <= Len(stream) /\ Len(stream) \in Nat
      /\ \A k \in 1 .. Len(bits) : stream[pos + k] = bits[k]
  BY <1>1, <1>5, <1>6, BitsCopied
<1>8. \A k \in 1 .. Len(bits) : pos + k = k
  BY <1>2
<1> QED BY <1>3, <1>7, <1>8

\* A message as it may be sent: its header says which IDs it has, and the sequence ID has 16 bits.
Sendable(m) ==
    /\ m \in Messages /\ m.header \in {Unreliable, Connect, Disconnect, Reliable} /\ m.seqID < 65536
    /\ ~HasMessageID(m.header) => m.msgID = 0
    /\ ~HasSequenceID(m.header) => m.seqID = 0

\* The bytes of the message ID, the bits of the sequence ID, and those in front of the payload.
IDBytes(m) == IF HasMessageID(m.header) THEN ToVarULong(m.msgID) ELSE <<>>
SequenceBits(m) == IF HasSequenceID(m.header) THEN 16 ELSE 0
Payload(m) == 4 + SequenceBits(m) + 8 * Len(IDBytes(m))

\* What is on the wire: header, sequence ID, message ID and the bits that were written.
OnWire(m, stream) ==
    /\ IsData(stream) /\ Payload(m) + m.writeBit <= Len(stream)
    /\ \A k \in 1 .. 4 : stream[k] = Bits(m.header, 4)[k]
    /\ \A k \in 1 .. SequenceBits(m) : stream[4 + k] = Bits(m.seqID, 16)[k]
    /\ HoldsBytes(stream, 4 + SequenceBits(m), IDBytes(m))
    /\ \A k \in 1 .. m.writeBit : stream[Payload(m) + k] = m.data[k]

\* The sizes of the parts.
LEMMA PayloadIs ==
  ASSUME NEW m, Sendable(m)
  PROVE  /\ m \in Messages /\ IDBytes(m) \in Seq(Bytes) /\ Len(IDBytes(m)) \in Nat
         /\ SequenceBits(m) \in {0, 16} /\ (HasSequenceID(m.header) <=> SequenceBits(m) = 16)
         /\ HeaderBits(m.header) = 4 + SequenceBits(m)
         /\ Payload(m) \in Nat /\ Payload(m) = 4 + SequenceBits(m) + 8 * Len(IDBytes(m))
<1>1. m \in Messages
  BY DEF Sendable
<1>2. m.msgID \in Nat
  BY <1>1, MessageIs
<1>3. IDBytes(m) \in Seq(Bytes)
  <2>1. CASE HasMessageID(m.header)
    BY <1>2, <2>1, VarULongBytes DEF IDBytes
  <2>2. CASE ~HasMessageID(m.header)
    BY <2>2, EmptySeq DEF IDBytes
  <2> QED BY <2>1, <2>2
<1>4. PICK n \in Nat : n = Len(IDBytes(m))
  BY <1>3, LenProperties
<1>5. PICK s \in {0, 16} : s = SequenceBits(m) /\ (HasSequenceID(m.header) <=> s = 16)
  BY DEF SequenceBits
<1>6. HeaderBits(m.header) = 4 + s
  BY <1>5 DEF HeaderBits, HEADER_BITS
<1>7. Payload(m) = 4 + s + 8 * n
  BY <1>4, <1>5 DEF Payload
<1>8. 4 + s + 8 * n \in Nat
  OBVIOUS
<1> QED BY <1>1, <1>3, <1>4, <1>5, <1>6, <1>7, <1>8

\* createBytestream writes it.
LEMMA CreateIs ==
  ASSUME NEW m, Sendable(m)
  PROVE  OnWire(m, CreateBytestream(m))
<1>0. m \in Messages
  BY PayloadIs
<1>1. PICK data \in Seq({0, 1}), w \in Nat : data = m.data /\ w = m.writeBit /\ w <= Len(data)
  BY <1>0, MessageIs
<1>2. PICK id \in Seq(Bytes), i \in Nat, s \in {0, 16} :
          /\ id = IDBytes(m) /\ i = Len(id) /\ s = SequenceBits(m) /\ (HasSequenceID(m.header) <=> s = 16)
          /\ Payload(m) = 4 + s + 8 * i
  BY PayloadIs
<1>3. PICK a \in Seq({0, 1}) : a = Bits(m.header, 4) /\ Len(a) = 4
  <2>1. m.header \in Nat /\ 4 \in Nat
    BY <1>0, MessageIs
  <2> QED BY <2>1, BitsAre
<1>4. PICK b \in Seq({0, 1}) : /\ b = (IF HasSequenceID(m.header) THEN Bits(m.seqID, 16) ELSE <<>>) /\ Len(b) = s
                               /\ \A k \in 1 .. s : b[k] = Bits(m.seqID, 16)[k]
  <2>1. CASE s = 16
    <3>1. m.seqID \in Nat /\ 16 \in Nat
      BY <1>0, MessageIs
    <3>2. Bits(m.seqID, 16) \in Seq({0, 1}) /\ Len(Bits(m.seqID, 16)) = 16
      BY <3>1, BitsAre
    <3> QED BY <1>2, <2>1, <3>2
  <2>2. CASE s = 0
    <3>1. PICK e \in Seq({0, 1}) : e = <<>> /\ Len(e) = 0
      BY EmptySeq
    <3>2. ~HasSequenceID(m.header) /\ \A k \in 1 .. s : FALSE
      BY <1>2, <2>2
    <3> QED BY <2>2, <3>1, <3>2
  <2> QED BY <2>1, <2>2
<1>5. PICK c \in Seq({0, 1}) : /\ c = BitsOf(id) /\ Len(c) = 8 * i
                               /\ \A j \in 1 .. i, l \in 1 .. 8 : c[8 * (j - 1) + l] = Bits(id[j], 8)[l]
  BY <1>2, BitsOfBytes
<1>6. PICK d \in Seq({0, 1}) : /\ d = SubSeq(data, 1, w) /\ Len(d) = w /\ \A k \in 1 .. w : d[k] = data[k]
  <2>1. w <= Len(data)
    BY <1>1
  <2>2. /\ SubSeq(data, 1, w) \in Seq({0, 1}) /\ Len(SubSeq(data, 1, w)) = w
        /\ \A k \in 1 .. w : SubSeq(data, 1, w)[k] = data[k]
    BY <2>1, FirstBits
  <2> QED BY <2>2
<1>7. PICK bits : bits = ((a \o b) \o c) \o d
  OBVIOUS
<1>8. /\ bits \in Seq({0, 1}) /\ Len(bits) = Len(a) + Len(b) + Len(c) + Len(d)
      /\ \A k \in 1 .. Len(a) : bits[k] = a[k]
      /\ \A k \in 1 .. Len(b) : bits[Len(a) + k] = b[k]
      /\ \A k \in 1 .. Len(c) : bits[Len(a) + Len(b) + k] = c[k]
      /\ \A k \in 1 .. Len(d) : bits[Len(a) + Len(b) + Len(c) + k] = d[k]
  <2>1. Parts(bits, a, b, c, d)
    BY <1>7, FourParts
  <2> QED BY <2>1 DEF Parts
<1>9. /\ Len(bits) = 4 + s + 8 * i + w
      /\ \A k \in 1 .. 4 : bits[k] = a[k]
      /\ \A k \in 1 .. s : bits[4 + k] = b[k]
      /\ \A k \in 1 .. 8 * i : bits[4 + s + k] = c[k]
      /\ \A k \in 1 .. w : bits[4 + s + 8 * i + k] = d[k]
  <2>1. Len(a) = 4 /\ Len(b) = s /\ Len(c) = 8 * i /\ Len(d) = w
    BY <1>3, <1>4, <1>5, <1>6
  <2> QED BY <1>8, <2>1
<1>10. PICK stream : stream = CreateBytestream(m)
  OBVIOUS
<1>11. stream = SetBits(bits, <<>>, 0)
  BY <1>1, <1>2, <1>3, <1>4, <1>5, <1>6, <1>7, <1>10 DEF CreateBytestream, HEADER_BITS, IDBytes
<1>12. /\ IsData(stream) /\ Len(bits) <= Len(stream) /\ Len(stream) \in Nat
       /\ \A k \in 1 .. Len(bits) : stream[k] = bits[k]
  <2>1. bits \in Seq({0, 1})
    BY <1>8
  <2> QED BY <1>11, <2>1, Streamed
<1>13. \A k \in 1 .. 4 : stream[k] = Bits(m.header, 4)[k]
  <2>1. \A k \in 1 .. 4 : k \in 1 .. Len(bits)
    BY <1>9
  <2> QED BY <1>3, <1>9, <1>12, <2>1
<1>14. \A k \in 1 .. s : stream[4 + k] = Bits(m.seqID, 16)[k]
  <2>1. \A k \in 1 .. s : 4 + k \in 1 .. Len(bits)
    BY <1>9
  <2>2. \A k \in 1 .. s : stream[4 + k] = bits[4 + k]
    BY <1>12, <2>1
  <2>3. \A k \in 1 .. s : bits[4 + k] = b[k]
    BY <1>9
  <2>4. \A k \in 1 .. s : b[k] = Bits(m.seqID, 16)[k]
    BY <1>4
  <2> QED BY <2>2, <2>3, <2>4
<1>15. HoldsBytes(stream, 4 + s, id)
  <2>1. (4 + s) + 8 * Len(id) <= Len(stream)
    BY <1>2, <1>9, <1>12, SMTT(30)
  <2>2. ASSUME NEW j \in 1 .. i, NEW l \in 1 .. 8
        PROVE  stream[(4 + s) + 8 * (j - 1) + l] = Bits(id[j], 8)[l]
    <3>1. PICK k \in 1 .. 8 * i : k = 8 * (j - 1) + l
      OBVIOUS
    <3>2. 4 + s + k \in 1 .. Len(bits) /\ 4 + s + k = (4 + s) + 8 * (j - 1) + l
      BY <1>9, <3>1
    <3>3. stream[4 + s + k] = bits[4 + s + k] /\ bits[4 + s + k] = c[k]
      BY <1>9, <1>12, <3>2
    <3>4. c[k] = Bits(id[j], 8)[l]
      BY <1>5, <3>1
    <3> QED BY <3>2, <3>3, <3>4
  <2> QED BY <1>2, <2>1, <2>2 DEF HoldsBytes
<1>16. ASSUME NEW k \in 1 .. w PROVE stream[4 + s + 8 * i + k] = data[k]
  <2>1. 4 + s + 8 * i + k \in 1 .. Len(bits)
    BY <1>9
  <2> QED BY <1>6, <1>9, <1>12, <2>1
<1>17. 4 + s + 8 * i + w <= Len(stream)
  BY <1>9, <1>12
<1> QED BY <1>1, <1>2, <1>10, <1>12, <1>13, <1>14, <1>15, <1>16, <1>17 DEF OnWire
\* What arrives of a message: its IDs and its items.
Arrives(m, r) ==
    /\ r \in Messages /\ r.header = m.header /\ r.msgID = m.msgID /\ r.seqID = m.seqID
    /\ ~r.raised /\ r.readBit = 0 /\ r.writeBit = 0
    /\ 8 * BytesNeeded(m.writeBit) <= Len(r.data)
    /\ \A k \in 1 .. m.writeBit : r.data[k] = m.data[k]

\* More bits are not fewer bytes.
LEMMA BytesMonotone ==
  ASSUME NEW m \in Nat, NEW n \in Nat, m <= n
  PROVE  BytesNeeded(m) <= BytesNeeded(n) /\ BytesNeeded(m) \in Nat /\ BytesNeeded(n) \in Nat
  BY DEF BytesNeeded, BITS_PER_BYTE

\* The stream has the bits of a number.
HasNumber(stream, from, count, number) ==
    /\ (from + count) - 1 <= Len(stream) /\ number < Limit(count)
    /\ \A k \in 1 .. count : stream[(from - 1) + k] = Bits(number, count)[k]

\* The number of four or sixteen bits within a stream.
LEMMA NumberAt ==
  ASSUME NEW stream \in Seq({0, 1}), NEW from \in Nat \ {0}, NEW count \in {4, 16}, NEW number \in Nat,
         HasNumber(stream, from, count, number), NEW to, to = (from + count) - 1
  PROVE  Number(SubSeq(stream, from, to)) = number
<1>0. /\ number < Limit(count) /\ to <= Len(stream)
      /\ \A k \in 1 .. count : stream[(from - 1) + k] = Bits(number, count)[k]
  BY DEF HasNumber
<1>1. PICK n \in Nat \ {0} : n = count /\ to = from + n - 1 /\ from + n - 1 <= Len(stream)
  BY <1>0
<1>2. PICK part : part = SubSeq(stream, from, to)
  OBVIOUS
<1>3. part \in Seq({0, 1}) /\ Len(part) = n /\ \A b \in 1 .. n : part[b] = stream[from + b - 1]
  BY <1>1, <1>2, PartIs
<1>4. \A b \in 1 .. count : part[b] = Bits(number, count)[b]
  <2>1. \A b \in 1 .. count : from + b - 1 = (from - 1) + b
    OBVIOUS
  <2> QED BY <1>0, <1>1, <1>3, <2>1
<1>5. count \in {4, 7, 8, 16} /\ Len(part) = count /\ part \in Seq({0, 1})
  BY <1>1, <1>3
<1>6. Number(part) = number
  BY <1>0, <1>4, <1>5, NumberIs
<1> QED BY <1>2, <1>6

\* What fromBytestream reads from the wire.
LEMMA StreamRead ==
  ASSUME NEW m, Sendable(m), NEW stream, OnWire(m, stream)
  PROVE  /\ Number(SubSeq(stream, 1, 4)) = m.header
         /\ HasSequenceID(m.header) => Number(SubSeq(stream, 5, 20)) = m.seqID
         /\ HasMessageID(m.header) => FromVarULong(stream, HeaderBits(m.header)) =
               [found |-> TRUE, value |-> m.msgID, bits |-> 8 * Len(IDBytes(m))]
<1>0. m \in Messages
  BY PayloadIs
<1>1. /\ m.header \in {0, 2, 5, 7} /\ m.header \in Nat /\ m.seqID < 65536
  BY DEF Sendable, Unreliable, Connect, Disconnect, Reliable
<1>2. m.msgID \in Nat /\ m.seqID \in Nat /\ m.writeBit \in Nat
  BY <1>0, MessageIs
<1>3. PICK i \in Nat, s \in {0, 16} :
          /\ i = Len(IDBytes(m)) /\ s = SequenceBits(m) /\ (HasSequenceID(m.header) <=> s = 16)
          /\ Payload(m) = 4 + s + 8 * i /\ HeaderBits(m.header) = 4 + s
  BY PayloadIs
<1>4. IsData(stream) /\ Payload(m) + m.writeBit <= Len(stream)
  BY DEF OnWire
<1>5. /\ \A k \in 1 .. 4 : stream[k] = Bits(m.header, 4)[k]
      /\ \A k \in 1 .. s : stream[4 + k] = Bits(m.seqID, 16)[k]
      /\ HoldsBytes(stream, 4 + s, IDBytes(m))
  BY <1>3 DEF OnWire
<1>6. stream \in Seq({0, 1}) /\ Len(stream) \in Nat
  BY <1>4, LenProperties DEF IsData
<1>7. 4 + s + 8 * i <= Len(stream)
  BY <1>2, <1>3, <1>4, <1>6
<1>8. Number(SubSeq(stream, 1, 4)) = m.header
  <2>1. PICK from \in Nat \ {0}, count \in {4, 16}, to \in Nat : from = 1 /\ count = 4 /\ to = 4
    OBVIOUS
  <2>2. to = from + count - 1 /\ to <= Len(stream)
    BY <1>6, <1>7, <2>1
  <2>3. \A k \in 1 .. count : stream[(from - 1) + k] = Bits(m.header, count)[k]
    <3>1. \A k \in 1 .. count : (from - 1) + k = k
      BY <2>1
    <3> QED BY <1>5, <2>1, <3>1
  <2>4. PICK number \in Nat : number = m.header /\ number < 16
    BY <1>1
  <2>5. number < Limit(count)
    BY <2>1, <2>4 DEF Limit
  <2>6. \A k \in 1 .. count : stream[(from - 1) + k] = Bits(number, count)[k]
    BY <2>3, <2>4
  <2>7. Number(SubSeq(stream, from, to)) = number
    <3>1. HasNumber(stream, from, count, number) /\ to = (from + count) - 1
      BY <2>2, <2>5, <2>6 DEF HasNumber
    <3> QED BY <1>6, <3>1, NumberAt
  <2> QED BY <2>1, <2>4, <2>7
<1>9. ASSUME HasSequenceID(m.header) PROVE Number(SubSeq(stream, 5, 20)) = m.seqID
  <2>0. s = 16
    BY <1>3, <1>9
  <2>1. PICK from \in Nat \ {0}, count \in {4, 16}, to \in Nat : from = 5 /\ count = 16 /\ to = 20
    OBVIOUS
  <2>2. to = from + count - 1 /\ to <= Len(stream)
    BY <1>6, <1>7, <2>0, <2>1
  <2>4. PICK number \in Nat : number = m.seqID /\ number < 65536
    BY <1>1, <1>2
  <2>5. number < Limit(count)
    BY <2>1, <2>4 DEF Limit
  <2>6. \A k \in 1 .. count : stream[(from - 1) + k] = Bits(number, count)[k]
    <3>1. \A k \in 1 .. count : (from - 1) + k = 4 + k
      BY <2>1
    <3> QED BY <1>5, <2>0, <2>1, <2>4, <3>1
  <2>7. Number(SubSeq(stream, from, to)) = number
    <3>1. HasNumber(stream, from, count, number) /\ to = (from + count) - 1
      BY <2>2, <2>5, <2>6 DEF HasNumber
    <3> QED BY <1>6, <3>1, NumberAt
  <2> QED BY <2>1, <2>4, <2>7
<1>10. ASSUME HasMessageID(m.header)
       PROVE  FromVarULong(stream, HeaderBits(m.header)) =
                 [found |-> TRUE, value |-> m.msgID, bits |-> 8 * Len(IDBytes(m))]
  <2>1. IDBytes(m) = ToVarULong(m.msgID)
    BY <1>10 DEF IDBytes
  <2>2. PICK h \in Nat, number \in Nat : h = 4 + s /\ h = HeaderBits(m.header) /\ number = m.msgID
    BY <1>2, <1>3
  <2>3. HoldsBytes(stream, h, ToVarULong(number))
    BY <1>5, <2>1, <2>2
  <2>4. FromVarULong(stream, h) = [found |-> TRUE, value |-> number, bits |-> 8 * Len(ToVarULong(number))]
    BY <1>4, <2>3, VarULongRead
  <2> QED BY <2>1, <2>2, <2>4
<1> QED BY <1>8, <1>9, <1>10

\* fromBytestream reads what createBytestream wrote.
LEMMA Travels ==
  ASSUME NEW m, Sendable(m)
  PROVE  Arrives(m, FromBytestream(CreateBytestream(m)))
<1>0. m \in Messages
  BY PayloadIs
<1>1. m.header \in Nat /\ m.msgID \in Nat /\ m.seqID \in Nat /\ m.writeBit \in Nat
  BY <1>0, MessageIs
<1>2. PICK i \in Nat, s \in {0, 16} :
          /\ i = Len(IDBytes(m)) /\ s = SequenceBits(m)
          /\ Payload(m) = 4 + s + 8 * i /\ HeaderBits(m.header) = 4 + s
  BY PayloadIs
<1>3. PICK stream : stream = CreateBytestream(m)
  OBVIOUS
<1>4. OnWire(m, stream)
  BY <1>3, CreateIs
<1>5. /\ IsData(stream) /\ Payload(m) + m.writeBit <= Len(stream)
      /\ \A k \in 1 .. m.writeBit : stream[Payload(m) + k] = m.data[k]
  BY <1>4 DEF OnWire
<1>6. stream \in Seq({0, 1}) /\ Len(stream) \in Nat
  BY <1>5, LenProperties DEF IsData
<1>7. /\ Number(SubSeq(stream, 1, 4)) = m.header
      /\ HasSequenceID(m.header) => Number(SubSeq(stream, 5, 20)) = m.seqID
      /\ HasMessageID(m.header) => FromVarULong(stream, HeaderBits(m.header)) =
            [found |-> TRUE, value |-> m.msgID, bits |-> 8 * Len(IDBytes(m))]
  BY <1>4, StreamRead
<1>8. PICK id : id = IF HasMessageID(m.header) THEN FromVarULong(stream, HeaderBits(m.header))
                     ELSE [found |-> TRUE, value |-> 0, bits |-> 0]
  OBVIOUS
<1>9. id.found = TRUE /\ id.value = m.msgID /\ id.bits = 8 * i
  <2>1. CASE HasMessageID(m.header)
    <3>1. id = [found |-> TRUE, value |-> m.msgID, bits |-> 8 * i]
      BY <1>2, <1>7, <1>8, <2>1
    <3> QED BY <3>1
  <2>2. CASE ~HasMessageID(m.header)
    <3>1. id = [found |-> TRUE, value |-> 0, bits |-> 0] /\ m.msgID = 0
      BY <1>8, <2>2 DEF Sendable
    <3>2. Len(IDBytes(m)) = 0
      BY <2>2 DEF IDBytes
    <3> QED BY <1>2, <3>1, <3>2
  <2> QED BY <2>1, <2>2
<1>10. PICK p \in Nat : p = Payload(m) /\ p = HeaderBits(m.header) + id.bits
  BY <1>2, <1>9
<1>11. PICK w \in Nat, count \in Nat : w = m.writeBit /\ count = Len(stream) - p /\ w <= count
  BY <1>1, <1>5, <1>6, <1>10
<1>19. Cuts(count, p)
  <2>1. PICK length \in Nat : length = Len(stream) /\ length % 8 = 0
    BY <1>5, <1>6 DEF IsData
  <2>2. count = length - p
    BY <1>11, <2>1
  <2> QED BY <2>1, <2>2 DEF Cuts
<1>12. PICK data : data = BytesFromBits(stream, count, p)
  OBVIOUS
<1>13. /\ IsData(data) /\ Len(data) = 8 * BytesNeeded(count)
       /\ \A k \in 1 .. Len(data) : p + k <= Len(stream) => data[k] = stream[p + k]
  BY <1>6, <1>12, <1>19, BytesFromBitsIs
<1>14. PICK r : r = FromBytestream(stream)
  OBVIOUS
<1>15. r = [header |-> m.header, msgID |-> m.msgID, seqID |-> m.seqID, data |-> data,
            readBit |-> 0, writeBit |-> 0, raised |-> FALSE]
  <2>1. (IF HasSequenceID(m.header) THEN Number(SubSeq(stream, 5, 20)) ELSE 0) = m.seqID
    BY <1>7 DEF Sendable
  <2>2. r = [NoMessage EXCEPT
                !.header = m.header,
                !.msgID = id.value,
                !.seqID = IF HasSequenceID(m.header) THEN Number(SubSeq(stream, 5, 20)) ELSE 0,
                !.raised = ~id.found,
                !.data = BytesFromBits(stream, Len(stream) - (HeaderBits(m.header) + id.bits), HeaderBits(m.header) + id.bits)]
    BY <1>7, <1>8, <1>14 DEF FromBytestream, HEADER_BITS
  <2>3. BytesFromBits(stream, Len(stream) - (HeaderBits(m.header) + id.bits), HeaderBits(m.header) + id.bits) = data
    BY <1>10, <1>11, <1>12
  <2>4. r = [NoMessage EXCEPT !.header = m.header, !.msgID = m.msgID, !.seqID = m.seqID, !.raised = FALSE,
                              !.data = data]
    BY <1>9, <2>1, <2>2, <2>3
  <2> QED BY <2>4 DEF NoMessage
<1>16. /\ r \in Messages /\ r.header = m.header /\ r.msgID = m.msgID /\ r.seqID = m.seqID
       /\ ~r.raised /\ r.readBit = 0 /\ r.writeBit = 0 /\ r.data = data
  <2>1. Len(data) \in Nat /\ data \in Seq({0, 1})
    BY <1>13, LenProperties DEF IsData
  <2> QED BY <1>1, <1>13, <1>15, <2>1 DEF Messages
<1>17. 8 * BytesNeeded(w) <= Len(data) /\ w <= Len(data) /\ Len(data) \in Nat
  <2>1. BytesNeeded(w) <= BytesNeeded(count) /\ BytesNeeded(w) \in Nat /\ BytesNeeded(count) \in Nat
    BY <1>11, BytesMonotone
  <2>2. w <= 8 * BytesNeeded(w)
    BY Rounded
  <2> QED BY <1>13, <2>1, <2>2
<1>18. ASSUME NEW k \in 1 .. w PROVE data[k] = m.data[k]
  <2>1. k \in 1 .. Len(data) /\ p + k <= Len(stream)
    BY <1>6, <1>11, <1>17
  <2>2. stream[p + k] = m.data[k]
    BY <1>5, <1>10, <1>11
  <2> QED BY <1>13, <2>1, <2>2
<1> QED BY <1>3, <1>11, <1>14, <1>16, <1>17, <1>18 DEF Arrives

\* What the internal message and the application's make together.
Joined(m, other, r) ==
    /\ r \in Messages /\ SameFields(m, r)
    /\ ~r.raised => /\ ~m.raised /\ r.writeBit = m.writeBit + other.writeBit /\ r.writeBit <= MaxBits
                    /\ SameBelow(m.data, r.data, m.writeBit)
                    /\ \A k \in 1 .. other.writeBit : r.data[m.writeBit + k] = other.data[k]

\* The application's items behind those of the message.
LEMMA AppendMessageIs ==
  ASSUME NEW m \in Messages, NEW other \in Messages, NEW r, r = AppendMessage(m, other)
  PROVE  Joined(m, other, r)
<1>1. /\ IsData(m.data) /\ Len(m.data) \in Nat /\ m.raised \in BOOLEAN /\ m.writeBit <= Len(m.data)
  BY MessageIs
<1>2. PICK from \in Seq({0, 1}), w \in Nat, pos \in Nat :
          from = other.data /\ w = other.writeBit /\ pos = m.writeBit /\ w <= Len(from)
  BY MessageIs
<1>3. CASE ~Room(m, other.writeBit)
  <2>1. r = Raise(m)
    BY <1>3 DEF AppendMessage
  <2>2. r \in Messages /\ r.raised /\ SameFields(m, r)
    BY <2>1, RaiseIs
  <2> QED BY <2>2 DEF Joined
<1>4. CASE Room(m, other.writeBit)
  <2>0. /\ SubSeq(from, 1, w) \in Seq({0, 1}) /\ Len(SubSeq(from, 1, w)) = w
        /\ \A k \in 1 .. w : SubSeq(from, 1, w)[k] = from[k]
    BY <1>2, FirstBits
  <2>1. PICK bits \in Seq({0, 1}) : /\ bits = SubSeq(from, 1, w) /\ Len(bits) = w
                                    /\ \A k \in 1 .. w : bits[k] = from[k]
    BY <2>0
  <2>2. PICK end \in Nat : end = pos + w /\ end = pos + Len(bits)
    BY <2>1
  <2>3. PICK room \in Nat : room = BytesNeeded(end) /\ end <= 8 * room
    BY Rounded
  <2>4. PICK data : data = Overlay(bits, Padded(m.data, room), pos)
    OBVIOUS
  <2>5. data = SetBits(bits, m.data, pos)
    BY <2>2, <2>3, <2>4 DEF SetBits, EnsureSpace
  <2>6. r = With(m, data, end)
    <3>1. r = [m EXCEPT !.data = SetBits(bits, @, m.writeBit), !.writeBit = @ + other.writeBit]
      BY <1>2, <1>4, <2>1 DEF AppendMessage
    <3>2. SetBits(bits, m.data, m.writeBit) = data /\ m.writeBit + other.writeBit = end
      BY <1>2, <2>2, <2>5
    <3> QED BY <3>1, <3>2 DEF With
  <2>7. /\ IsData(data) /\ Len(data) = (IF 8 * room > Len(m.data) THEN 8 * room ELSE Len(m.data))
        /\ SameAround(m.data, data, pos, pos + Len(bits)) /\ pos + Len(bits) <= Len(data)
        /\ \A k \in 1 .. Len(bits) : data[pos + k] = bits[k]
    <3>1. pos + Len(bits) <= 8 * room
      BY <2>2, <2>3
    <3> QED BY <1>1, <2>4, <3>1, BitsCopied
  <2>8. Len(m.data) <= Len(data) /\ end <= Len(data)
    BY <2>2, <2>7 DEF SameAround
  <2>9. r \in Messages /\ r.data = data /\ r.writeBit = end /\ r.raised = m.raised /\ SameFields(m, r)
    <3>1. IsData(data)
      BY <2>7
    <3> QED BY <2>6, <2>8, <3>1, WithData
  <2>10. SameBelow(m.data, data, pos)
    BY <2>7 DEF SameAround, SameBelow
  <2>11. end <= MaxBits
    BY <1>2, <1>4, <2>2, MessageAssumption DEF Room
  <2>12. \A k \in 1 .. w : data[pos + k] = from[k]
    BY <2>1, <2>7
  <2> QED BY <1>1, <1>2, <2>2, <2>9, <2>10, <2>11, <2>12 DEF Joined
<1> QED BY <1>3, <1>4

-----------------------------------------------------------------------------
(* Items within a message. *)

\* The write position does not pass an array of bools: what follows is put over it.
BoolArray(item) == item.type = "Bool" /\ item.array

\* A sequence of one.
LEMMA OneElement ==
  ASSUME NEW S, NEW x \in S
  PROVE  <<x>> \in Seq(S) /\ Len(<<x>>) = 1 /\ DOMAIN <<x>> = {1} /\ <<x>>[1] = x
  OBVIOUS

\* What the server puts in front is an item of one byte.
LEMMA KickedIs ==
  /\ IsItem(Kicked) /\ Size(Kicked) = 8 /\ Extent(Kicked) = 8 /\ ~Kicked.array /\ ~BoolArray(Kicked)
  /\ Kicked.type # "Bool" /\ Kicked.type # "String"
<1>1. Kicked.type = "UInt8" /\ ~Kicked.array /\ Kicked.array \in BOOLEAN /\ Kicked.elements = <<<<4>>>>
  BY DEF Kicked
<1>2. "UInt8" \in DOMAIN Byte /\ Byte["UInt8"].size = 1
  BY DEF Byte, Width
<1>3. "UInt8" \in DOMAIN WidthOf /\ WidthOf["UInt8"].size = 1
  <2>1. "UInt8" \in DOMAIN WidthOf
    <3>1. DOMAIN WidthOf = UNION {DOMAIN Byte, DOMAIN Short, DOMAIN Int32s, DOMAIN Long, DOMAIN Float, DOMAIN Double}
      BY DEF WidthOf
    <3>2. \A B, C : "UInt8" \in B /\ C = UNION {B, DOMAIN Short, DOMAIN Int32s, DOMAIN Long, DOMAIN Float, DOMAIN Double}
              => "UInt8" \in C
      BY Zenon
    <3> QED BY <1>2, <3>1, <3>2, Zenon
  <2>2. WidthOf["UInt8"] = Byte["UInt8"]
    <3>1. PICK type : type = "UInt8"
      OBVIOUS
    <3>2. type \in UNION {DOMAIN Byte, DOMAIN Short, DOMAIN Int32s, DOMAIN Long, DOMAIN Float, DOMAIN Double}
      BY <2>1, <3>1 DEF WidthOf
    <3>3. type \in DOMAIN Byte
      BY <1>2, <3>1
    <3>4. type \notin DOMAIN Short /\ type \notin DOMAIN Int32s /\ type \notin DOMAIN Long /\ type \notin DOMAIN Float /\ type \notin DOMAIN Double
      BY <3>3 DEF Byte, Short, Int32s, Long, Float, Double
    <3>5. WidthOf[type] = CASE type \in DOMAIN Byte -> Byte[type]
              [] type \in DOMAIN Short -> Short[type]
              [] type \in DOMAIN Int32s -> Int32s[type]
              [] type \in DOMAIN Long -> Long[type]
              [] type \in DOMAIN Float -> Float[type]
              [] OTHER -> Double[type]
      BY <3>2 DEF WidthOf
    <3>6. WidthOf[type] = Byte[type]
      BY <3>3, <3>4, <3>5, Zenon
    <3> QED BY <3>1, <3>6
  <2> QED BY <1>2, <2>1, <2>2
<1>4. PICK e \in Seq(Seq(0 .. 255)) : e = <<<<4>>>> /\ Len(e) = 1 /\ DOMAIN e = {1} /\ Len(e[1]) = 1
  <2>1. 4 \in 0 .. 255
    OBVIOUS
  <2>2. <<4>> \in Seq(0 .. 255) /\ Len(<<4>>) = 1
    BY <2>1, OneElement
  <2>3. <<<<4>>>> \in Seq(Seq(0 .. 255)) /\ Len(<<<<4>>>>) = 1 /\ DOMAIN <<<<4>>>> = {1} /\ <<<<4>>>>[1] = <<4>>
    BY <2>2, OneElement
  <2> QED BY <2>2, <2>3
<1>5. IsItem(Kicked)
  BY <1>1, <1>3, <1>4 DEF IsItem
<1>6. Size(Kicked) = 8
  BY <1>1, <1>3 DEF Size
<1> QED BY <1>1, <1>5, <1>6 DEF Extent, BoolArray

\* All items are.
LEMMA AnyItem ==
  ASSUME NEW item \in Items \cup {Kicked}
  PROVE  IsItem(item)
  BY KickedIs, MessageAssumption

\* An item below what is written is still there.
LEMMA ItemStays ==
  ASSUME NEW item, IsItem(item), NEW data, IsData(data), NEW after, IsData(after), NEW p \in Nat, NEW q \in Nat,
         HoldsItem(data, p, item), SameBelow(data, after, q), p + Size(item) <= q
  PROVE  HoldsItem(after, p, item)
<1>1. PICK size \in Nat : size = Size(item)
  BY SizeIs
<1>2. p + size <= Len(data) /\ Len(data) \in Nat /\ Len(after) \in Nat
  BY <1>1, HoldsItemEnd, LenProperties DEF IsData
<1>3. Len(data) <= Len(after) /\ \A k \in 1 .. Len(data) : k <= q => after[k] = data[k]
  BY DEF SameBelow
<1>4. p + size <= q
  BY <1>1
<1>5. Carried(data, p, after, p, size)
  <2>1. ASSUME NEW k \in 1 .. size PROVE after[p + k] = data[p + k]
    <3>1. p + k \in 1 .. Len(data) /\ p + k <= q
      BY <1>2, <1>4
    <3> QED BY <1>3, <3>1
  <2>2. p + size <= Len(after)
    BY <1>2, <1>3
  <2> QED BY <2>1, <2>2 DEF Carried
<1> QED BY <1>1, <1>2, <1>5, CarriedItem

\* So is one beside what is written over.
LEMMA ItemStaysAround ==
  ASSUME NEW item, IsItem(item), NEW data, IsData(data), NEW after, IsData(after),
         NEW p \in Nat, NEW from \in Nat, NEW to \in Nat,
         HoldsItem(data, p, item), SameAround(data, after, from, to), p + Size(item) <= from \/ to <= p
  PROVE  HoldsItem(after, p, item)
<1>1. PICK size \in Nat : size = Size(item)
  BY SizeIs
<1>2. p + size <= Len(data) /\ Len(data) \in Nat /\ Len(after) \in Nat
  BY <1>1, HoldsItemEnd, LenProperties DEF IsData
<1>3. Len(data) <= Len(after) /\ \A k \in 1 .. Len(data) : k <= from \/ to < k => after[k] = data[k]
  BY DEF SameAround
<1>4. p + size <= from \/ to <= p
  BY <1>1
<1>5. Carried(data, p, after, p, size)
  <2>1. \A k \in 1 .. size : p + k \in 1 .. Len(data) /\ (p + k <= from \/ to < p + k)
    BY <1>2, <1>4
  <2> QED BY <1>2, <1>3, <2>1, SMTT(30) DEF Carried
<1> QED BY <1>1, <1>2, <1>5, CarriedItem

\* Lengths of the strings make the size of an array of them.
LEMMA SameOffsets ==
  ASSUME NEW s \in Seq(Seq(Bytes)), NEW t \in Seq(Seq(Bytes)), NEW n, n = Len(s), n = Len(t),
         \A i \in 1 .. n : Len(s[i]) = Len(t[i])
  PROVE  StringSpot(s, n + 1) = StringSpot(t, n + 1)
<1>1. /\ n \in Nat /\ StringSpot(s, 1) = PrefixBits(n)
      /\ \A i \in 1 .. n : StringSpot(s, i + 1) = StringSpot(s, i) + StringSize(s[i])
  BY StringSpots
<1>2. /\ StringSpot(t, 1) = PrefixBits(n)
      /\ \A i \in 1 .. n : StringSpot(t, i + 1) = StringSpot(t, i) + StringSize(t[i])
  BY StringSpots
<1>3. \A i \in 1 .. n : StringSize(s[i]) = StringSize(t[i])
  BY DEF StringSize
<1> DEFINE T == {i \in 0 .. n : StringSpot(s, i + 1) = StringSpot(t, i + 1)}
<1>4. 0 \in T
  BY <1>1, <1>2
<1>5. ASSUME NEW i \in 1 .. n, i - 1 \in T PROVE i \in T
  <2>1. (i - 1) + 1 = i /\ i \in 0 .. n
    BY <1>1
  <2>2. StringSpot(s, i) = StringSpot(t, i)
    BY <1>5, <2>1
  <2>3. StringSpot(s, i + 1) = StringSpot(t, i + 1)
    BY <1>1, <1>2, <1>3, <2>2
  <2> QED BY <2>1, <2>3
<1> HIDE DEF T
<1>6. n \in T
  <2>1. \A i \in 0 .. n : i \in T
    BY <1>1, <1>4, <1>5, UpTo
  <2> QED BY <1>1, <2>1
<1> QED BY <1>6 DEF T

\* Items of the same shape take the same bits.
LEMMA SameShapes ==
  ASSUME NEW item, IsItem(item), NEW other, IsItem(other), SameShape(item, other)
  PROVE  /\ Size(item) = Size(other) /\ Extent(item) = Extent(other) /\ (BoolArray(item) <=> BoolArray(other))
         /\ item.type = other.type /\ item.array = other.array
<1> DEFINE v == item.elements
           u == other.elements
           n == Len(v)
<1>1. /\ item.type = other.type /\ item.array = other.array /\ Len(u) = n
      /\ \A i \in DOMAIN v : Len(v[i]) = Len(u[i])
  BY DEF SameShape
<1>2. v \in Seq(Seq(Bytes)) /\ u \in Seq(Seq(Bytes)) /\ n \in Nat
  BY ItemIs
<1>3. DOMAIN v = 1 .. n
  BY <1>2, LenProperties
<1>4. ~item.array => n = 1
  BY ItemIs
<1>5. Size(item) = Size(other)
  <2>1. CASE item.type = "String" /\ item.array
    <3>1. \A i \in 1 .. n : Len(v[i]) = Len(u[i])
      BY <1>1, <1>3
    <3>2. StringSpot(v, n + 1) = StringSpot(u, n + 1)
      <4> HIDE DEF v, u
      <4>1. n = Len(v) /\ n = Len(u)
        BY <1>1
      <4> HIDE DEF n
      <4> QED BY <1>2, <3>1, <4>1, SameOffsets
    <3> QED BY <1>1, <2>1, <3>2 DEF Size
  <2>2. CASE item.type = "String" /\ ~item.array
    <3>1. Len(v[1]) = Len(u[1])
      BY <1>1, <1>3, <1>4, <2>2
    <3> QED BY <1>1, <2>2, <3>1 DEF Size, StringSize
  <2>3. CASE item.type # "String"
    BY <1>1, <2>3 DEF Size
  <2> QED BY <2>1, <2>2, <2>3, ItemIs
<1> QED BY <1>1, <1>5 DEF Extent, BoolArray

-----------------------------------------------------------------------------
(* The items of a message. *)

\* What the model knows of an item: where it starts and whether the message holds it.
Records == [item : Items \cup {Kicked}, start : Nat, held : BOOLEAN]

\* The first items are held up to this one, whatever follows: an array of bools only if it is
\* alone, and if that is enough.
Whole(its, i, alone) ==
    \A j \in 1 .. i : its[j].held /\ (BoolArray(its[j].item) => alone /\ Len(its) = 1)

\* Where what follows an item starts, in a message written up to end.
Follows(its, end, i) == IF i < Len(its) THEN its[i + 1].start ELSE end

\* The items stand one behind the other, from the start of the message on.
Placed(its, end) ==
    /\ IF Len(its) = 0 THEN end = 0 ELSE its[1].start = 0
    /\ \A i \in 1 .. Len(its) :
        /\ its[i].start <= Follows(its, end, i)
        /\ its[i].held /\ ~BoolArray(its[i].item) => its[i].start + Size(its[i].item) = Follows(its, end, i)

\* The data has the items.
Holds(data, its, alone) ==
    \A i \in 1 .. Len(its) : Whole(its, i, alone) => HoldsItem(data, its[i].start, its[i].item)

\* Each item that is held may be written over.
Roomy(data, its) ==
    \A i \in 1 .. Len(its) : its[i].held => its[i].start + Extent(its[i].item) <= Len(data)

\* What is known of a record.
LEMMA RecordIs ==
  ASSUME NEW its \in Seq(Records)
  PROVE  /\ Len(its) \in Nat /\ DOMAIN its = 1 .. Len(its)
         /\ \A i \in 1 .. Len(its) :
               /\ its[i] \in Records /\ its[i].item \in Items \cup {Kicked}
               /\ its[i].start \in Nat /\ its[i].held \in BOOLEAN
               /\ IsItem(its[i].item) /\ Size(its[i].item) \in Nat \ {0} /\ Extent(its[i].item) \in Nat
               /\ Size(its[i].item) <= Extent(its[i].item)
<1>1. Len(its) \in Nat /\ DOMAIN its = 1 .. Len(its)
  BY LenProperties
<1>2. ASSUME NEW i \in 1 .. Len(its)
      PROVE  /\ its[i] \in Records /\ its[i].item \in Items \cup {Kicked}
             /\ its[i].start \in Nat /\ its[i].held \in BOOLEAN
  <2>1. its[i] \in Records
    BY SeqElement
  <2> QED BY <2>1 DEF Records
<1>3. ASSUME NEW i \in 1 .. Len(its)
      PROVE  /\ IsItem(its[i].item) /\ Size(its[i].item) \in Nat \ {0} /\ Extent(its[i].item) \in Nat
             /\ Size(its[i].item) <= Extent(its[i].item)
  <2>1. IsItem(its[i].item)
    BY <1>2, AnyItem
  <2> QED BY <2>1, SizeIs
<1> QED BY <1>1, <1>2, <1>3

\* Later items start later.
LEMMA Ordered ==
  ASSUME NEW its \in Seq(Records), NEW end \in Nat, Placed(its, end)
  PROVE  /\ \A i \in 1 .. Len(its) : Follows(its, end, i) \in Nat /\ Follows(its, end, i) <= end
         /\ \A i, k \in 1 .. Len(its) : i < k => Follows(its, end, i) <= its[k].start
<1> DEFINE n == Len(its)
<1>1. n \in Nat /\ \A i \in 1 .. n : its[i].start \in Nat
  BY RecordIs
<1>2. ASSUME NEW i \in 1 .. n, i + 1 <= n PROVE its[i].start <= its[i + 1].start /\ Follows(its, end, i) = its[i + 1].start
  BY <1>1, <1>2 DEF Placed, Follows
<1>3. ASSUME NEW i \in 1 .. n, NEW k \in 1 .. n, i <= k PROVE its[i].start <= its[k].start
  <2> DEFINE T == {d \in 0 .. n : i + d <= n => its[i].start <= its[i + d].start}
  <2>1. 0 \in T
    BY <1>1
  <2>2. ASSUME NEW d \in 1 .. n, d - 1 \in T PROVE d \in T
    <3> SUFFICES ASSUME i + d <= n PROVE its[i].start <= its[i + d].start
      BY <1>1
    <3>1. PICK e \in 1 .. n : e = i + (d - 1)
      BY <1>1
    <3>2. its[i].start <= its[e].start
      BY <1>1, <2>2, <3>1
    <3>3. PICK c \in 1 .. n : c = i + d /\ c = e + 1
      BY <1>1, <3>1
    <3>4. its[e].start <= its[c].start
      BY <1>2, <3>3
    <3>5. its[e].start \in Nat /\ its[i].start \in Nat /\ its[c].start \in Nat
      BY <1>1
    <3>6. its[i].start <= its[c].start
      BY <3>2, <3>4, <3>5, SMTT(30)
    <3> QED BY <3>3, <3>6
  <2> HIDE DEF T
  <2>3. \A d \in 0 .. n : d \in T
    BY <1>1, <2>1, <2>2, UpTo
  <2>4. k - i \in 0 .. n /\ i + (k - i) = k
    BY <1>1, <1>3
  <2>5. k - i \in T
    BY <2>3, <2>4
  <2> QED BY <1>1, <2>4, <2>5 DEF T
<1>4. ASSUME NEW i \in 1 .. n PROVE Follows(its, end, i) \in Nat /\ Follows(its, end, i) <= end
  <2>1. CASE i + 1 <= n
    <3>1. i + 1 \in 1 .. n /\ n \in 1 .. n /\ i + 1 <= n
      BY <1>1, <2>1
    <3>2. its[i + 1].start <= its[n].start
      BY <1>3, <3>1
    <3>3. its[n].start <= end
      BY <1>1, <3>1 DEF Placed, Follows
    <3>4. its[i + 1].start \in Nat /\ its[n].start \in Nat
      BY <1>1, <3>1
    <3>5. Follows(its, end, i) = its[i + 1].start
      BY <1>2, <2>1
    <3> QED BY <3>2, <3>3, <3>4, <3>5
  <2>2. CASE i = n
    BY <2>2, <1>1 DEF Follows
  <2> QED BY <1>1, <2>1, <2>2
<1>5. ASSUME NEW i \in 1 .. n, NEW k \in 1 .. n, i < k PROVE Follows(its, end, i) <= its[k].start
  <2>1. i + 1 <= n /\ i + 1 \in 1 .. n /\ i + 1 <= k
    BY <1>1, <1>5
  <2>2. Follows(its, end, i) = its[i + 1].start
    BY <1>2, <2>1
  <2>3. its[i + 1].start <= its[k].start
    BY <1>3, <2>1
  <2> QED BY <2>2, <2>3
<1> QED BY <1>4, <1>5

\* An item that is held, and is not an array of bools, ends where the next one starts.
LEMMA Ends ==
  ASSUME NEW its \in Seq(Records), NEW end \in Nat, Placed(its, end), NEW i \in 1 .. Len(its),
         its[i].held, ~BoolArray(its[i].item)
  PROVE  /\ its[i].start + Size(its[i].item) = Follows(its, end, i)
         /\ its[i].start + Size(its[i].item) <= end
  BY Ordered DEF Placed

\* A sequence with another record at the end.
Extends(t, its, e) ==
    /\ t \in Seq(Records) /\ Len(t) = Len(its) + 1 /\ t[Len(its) + 1] = e
    /\ \A i \in 1 .. Len(its) : t[i] = its[i]

\* Another item at the end.
LEMMA Added ==
  ASSUME NEW its \in Seq(Records), NEW e \in Records, NEW t, Extends(t, its, e),
         NEW end \in Nat, NEW new \in Nat, Placed(its, end), e.start = end, end <= new,
         e.held /\ ~BoolArray(e.item) => end + Size(e.item) = new
  PROVE  Placed(t, new)
<1> DEFINE n == Len(its)
<1>1. /\ t \in Seq(Records) /\ Len(t) = n + 1 /\ t[n + 1] = e /\ n \in Nat
      /\ \A i \in 1 .. n : t[i] = its[i]
  BY RecordIs DEF Extends
<1>2. t[1].start = 0
  <2>1. CASE n = 0
    BY <1>1, <2>1 DEF Placed
  <2>2. CASE n # 0
    BY <1>1, <2>2 DEF Placed
  <2> QED BY <2>1, <2>2
<1>3. ASSUME NEW i \in 1 .. n PROVE Follows(t, new, i) = Follows(its, end, i)
  <2>1. CASE i < n
    BY <1>1, <2>1 DEF Follows
  <2>2. CASE i = n
    BY <1>1, <2>2 DEF Follows
  <2> QED BY <1>1, <2>1, <2>2
<1>4. Follows(t, new, n + 1) = new
  BY <1>1 DEF Follows
<1>5. ASSUME NEW i \in 1 .. n + 1
      PROVE  /\ t[i].start <= Follows(t, new, i)
             /\ t[i].held /\ ~BoolArray(t[i].item) => t[i].start + Size(t[i].item) = Follows(t, new, i)
  <2>1. CASE i \in 1 .. n
    <3>1. t[i] = its[i]
      BY <1>1, <2>1
    <3>2. Follows(t, new, i) = Follows(its, end, i)
      BY <1>3, <2>1
    <3> QED BY <2>1, <3>1, <3>2 DEF Placed
  <2>2. CASE i = n + 1
    BY <1>1, <1>4, <2>2
  <2> QED BY <1>1, <2>1, <2>2
<1> QED BY <1>1, <1>2, <1>5 DEF Placed

\* What a put at the end leaves: the items that were there, and the new one if it did not raise.
LEMMA PutKeeps ==
  ASSUME NEW m \in Messages, NEW its \in Seq(Records),
         Placed(its, m.writeBit), Holds(m.data, its, TRUE), Roomy(m.data, its),
         NEW item \in Items, NEW r, r = Put(m, item, -1),
         NEW e \in Records, e.item = item, e.start = m.writeBit, e.held = ~r.raised, NEW t, Extends(t, its, e)
  PROVE  /\ r \in Messages /\ SameFields(m, r)
         /\ Placed(t, r.writeBit) /\ Holds(r.data, t, TRUE) /\ Roomy(r.data, t)
<1> DEFINE n == Len(its)
<1>1. IsItem(item)
  BY AnyItem
<1>2. PutsItem(m, r, item, -1)
  <2>1. Fits(m, -1, Extent(item))
    BY DEF Fits
  <2> QED BY <1>1, <2>1, PutIs
<1>3. /\ r \in Messages /\ Appends(m, r)
      /\ ~r.raised => /\ ~BoolArray(item) => r.writeBit = m.writeBit + Size(item)
                      /\ m.writeBit + Extent(item) <= Len(r.data) /\ HoldsItem(r.data, m.writeBit, item)
  BY <1>2 DEF PutsItem, Effect, Start, BoolArray
<1>4. /\ m.writeBit \in Nat /\ r.writeBit \in Nat /\ r.raised \in BOOLEAN /\ IsData(m.data) /\ IsData(r.data)
      /\ Len(m.data) \in Nat /\ Len(r.data) \in Nat
  BY <1>3, MessageIs
<1>5. SameFields(m, r) /\ m.writeBit <= r.writeBit /\ SameBelow(m.data, r.data, m.writeBit) /\ Len(m.data) <= Len(r.data)
  BY <1>3 DEF Appends, SameBelow
<1>6. e \in Records /\ e.item = item /\ e.start = m.writeBit /\ e.held = ~r.raised
  OBVIOUS
<1>7. n \in Nat /\ \A i \in 1 .. n : its[i].start \in Nat /\ IsItem(its[i].item) /\ Extent(its[i].item) \in Nat
  BY RecordIs
<1>8. /\ t \in Seq(Records) /\ Len(t) = n + 1 /\ t[n + 1] = e
      /\ \A i \in 1 .. n : t[i] = its[i]
      /\ Placed(t, r.writeBit)
  <2>1. e.held /\ ~BoolArray(e.item) => m.writeBit + Size(e.item) = r.writeBit
    BY <1>3, <1>6
  <2>2. /\ t \in Seq(Records) /\ Len(t) = n + 1 /\ t[n + 1] = e
        /\ \A i \in 1 .. n : t[i] = its[i]
    BY DEF Extends
  <2>3. Placed(t, r.writeBit)
    BY <1>4, <1>5, <1>6, <2>1, Added
  <2> QED BY <2>2, <2>3
<1>9. ASSUME NEW i \in 1 .. n + 1, Whole(t, i, TRUE) PROVE HoldsItem(r.data, t[i].start, t[i].item)
  <2>1. CASE i \in 1 .. n
    <3>1. \A j \in 1 .. i : j \in 1 .. n /\ its[j].held /\ ~BoolArray(its[j].item)
      <4>1. \A j \in 1 .. i : t[j].held /\ ~BoolArray(t[j].item)
        BY <1>7, <1>8, <1>9, <2>1 DEF Whole
      <4> QED BY <1>7, <1>8, <2>1, <4>1
    <3>2. Whole(its, i, TRUE)
      BY <3>1 DEF Whole
    <3>3. HoldsItem(m.data, its[i].start, its[i].item)
      BY <2>1, <3>2 DEF Holds
    <3>4. its[i].held /\ ~BoolArray(its[i].item)
      BY <1>7, <2>1, <3>1
    <3>5. its[i].start + Size(its[i].item) <= m.writeBit
      BY <1>4, <2>1, <3>4, Ends
    <3>6. PICK x : x = its[i].item /\ IsItem(x)
      BY <1>7, <2>1
    <3>8. PICK p \in Nat : p = its[i].start
      BY <1>7, <2>1
    <3>7. HoldsItem(r.data, p, x)
      <4>1. p + Size(x) <= m.writeBit /\ HoldsItem(m.data, p, x)
        BY <3>3, <3>5, <3>6, <3>8
      <4> QED BY <1>4, <1>5, <3>6, <4>1, ItemStays
    <3> QED BY <1>8, <2>1, <3>6, <3>7, <3>8
  <2>2. CASE i = n + 1
    <3>1. t[i].held
      BY <1>7, <1>9, <2>2 DEF Whole
    <3> QED BY <1>3, <1>6, <1>8, <2>2, <3>1
  <2> QED BY <1>7, <2>1, <2>2
<1>10. Holds(r.data, t, TRUE)
  BY <1>8, <1>9 DEF Holds
<1>11. ASSUME NEW i \in 1 .. n + 1, t[i].held PROVE t[i].start + Extent(t[i].item) <= Len(r.data)
  <2>1. CASE i \in 1 .. n
    <3>1. t[i] = its[i] /\ its[i].held
      BY <1>8, <1>11, <2>1
    <3>2. its[i].start + Extent(its[i].item) <= Len(m.data)
      BY <2>1, <3>1 DEF Roomy
    <3>3. its[i].start \in Nat /\ Extent(its[i].item) \in Nat
      BY <1>7, <2>1
    <3>4. Len(m.data) <= Len(r.data) /\ Len(m.data) \in Nat /\ Len(r.data) \in Nat
      BY <1>4, <1>5
    <3>5. its[i].start + Extent(its[i].item) <= Len(r.data)
      BY <3>2, <3>3, <3>4
    <3> QED BY <3>1, <3>5
  <2>2. CASE i = n + 1
    BY <1>3, <1>6, <1>8, <1>11, <2>2
  <2> QED BY <1>7, <2>1, <2>2
<1>12. Roomy(r.data, t)
  BY <1>8, <1>11 DEF Roomy
<1> QED BY <1>3, <1>5, <1>8, <1>10, <1>12

\* Nor does it pass the limit.
LEMMA PutWithin ==
  ASSUME NEW m \in Messages, m.writeBit <= MaxBits, NEW item \in Items, NEW r, r = Put(m, item, -1), ~r.raised,
         ~(item.type = "String" /\ item.array)
  PROVE  r.writeBit <= MaxBits
<1>1. IsItem(item) /\ Fits(m, -1, Extent(item))
  BY AnyItem DEF Fits
<1>2. /\ PutsWithin(m, r, item, -1)
      /\ BoolArray(item) => \/ r.writeBit = m.writeBit
                            \/ r.writeBit = BytesNeeded(m.writeBit) + Len(ToVarULong(Len(item.elements)))
  <2>1. /\ PutsWithin(m, r, item, -1)
        /\ item.type = "Bool" /\ item.array =>
               r.writeBit = m.writeBit \/ r.writeBit = BytesNeeded(Start(m, -1)) + Len(ToVarULong(Len(item.elements)))
    BY <1>1, PutIs
  <2> QED BY <2>1 DEF BoolArray, Start
<1>3. CASE ~BoolArray(item)
  BY <1>2, <1>3 DEF PutsWithin, BoolArray
<1>4. CASE BoolArray(item)
  <2>1. m.writeBit \in Nat /\ MaxBits \in Nat
    BY MessageIs, MessageAssumption
  <2>2. BytesNeeded(m.writeBit) <= BytesNeeded(MaxBits) /\ BytesNeeded(m.writeBit) \in Nat /\ BytesNeeded(MaxBits) \in Nat
    BY <2>1, BytesMonotone
  <2>3. BytesNeeded(MaxBits) + Len(ToVarULong(Len(item.elements))) <= MaxBits
    BY <1>4, MessageAssumption DEF BoolArray
  <2>4. PICK l \in Nat : l = Len(ToVarULong(Len(item.elements)))
    BY <1>1, ItemIs, VarULongBytes, LenProperties
  <2> QED BY <1>2, <1>4, <2>1, <2>2, <2>3, <2>4
<1> QED BY <1>3, <1>4

\* A sequence with the item of a record replaced.
ReplacedAt(t, its, i, item, held) ==
    /\ t \in Seq(Records) /\ Len(t) = Len(its)
    /\ t[i].item = item /\ t[i].start = its[i].start /\ t[i].held = held
    /\ \A j \in 1 .. Len(its) : j # i => t[j] = its[j]

\* The items after one was written over.
LEMMA ReplacedIs ==
  ASSUME NEW its \in Seq(Records), NEW i \in 1 .. Len(its), NEW item \in Items, NEW held \in BOOLEAN,
         NEW t, t = [its EXCEPT ![i].item = item, ![i].held = held]
  PROVE  ReplacedAt(t, its, i, item, held)
<1>1. /\ Len(its) \in Nat /\ DOMAIN its = 1 .. Len(its)
      /\ \A j \in 1 .. Len(its) : its[j] \in Records
  BY RecordIs
<1>2. PICK x \in Records : x = its[i]
  BY <1>1
<1>3. PICK e : e = [x EXCEPT !.item = item, !.held = held]
  OBVIOUS
<1>4. e \in Records /\ e.item = item /\ e.start = its[i].start /\ e.held = held
  BY <1>2, <1>3 DEF Records
<1>5. /\ DOMAIN t = 1 .. Len(its) /\ t = [j \in 1 .. Len(its) |-> t[j]]
      /\ t[i] = e /\ \A j \in 1 .. Len(its) : j # i => t[j] = its[j]
  <2>1. t = [its EXCEPT ![i] = e]
    BY <1>1, <1>2, <1>3
  <2> QED BY <1>1, <2>1
<1>6. t \in Seq(Records) /\ Len(t) = Len(its)
  <2>1. t \in [1 .. Len(its) -> Records]
    BY <1>1, <1>4, <1>5
  <2>2. \A k \in Nat : \A f \in [1 .. k -> Records] : f \in Seq(Records) /\ Len(f) = k
    BY SMTT(30)
  <2> QED BY <1>1, <2>1, <2>2
<1> QED BY <1>4, <1>5, <1>6 DEF ReplacedAt

\* What is left by writing over an item, if the call did not raise before it changed anything.
LEMMA WrittenOver ==
  ASSUME NEW m \in Messages, NEW its \in Seq(Records), NEW i \in 1 .. Len(its), its[i].held,
         Placed(its, m.writeBit), Holds(m.data, its, TRUE), Roomy(m.data, its),
         NEW item \in Items, SameShape(item, its[i].item),
         NEW r, PutsItem(m, r, item, its[i].start),
         NEW held \in BOOLEAN, held => ~r.raised /\ (item.type = "UInt8" => ~item.array),
         NEW t, ReplacedAt(t, its, i, item, held)
  PROVE  Placed(t, r.writeBit) /\ Holds(r.data, t, TRUE) /\ Roomy(r.data, t)
<1> DEFINE n == Len(its)
<1>1. /\ n \in Nat
      /\ \A j \in 1 .. n : /\ its[j].start \in Nat /\ IsItem(its[j].item)
                           /\ Size(its[j].item) \in Nat /\ Extent(its[j].item) \in Nat
  BY RecordIs
<1>2. PICK p \in Nat : p = its[i].start
  BY <1>1
<1>3. PICK size \in Nat : size = Size(item) /\ size = Size(its[i].item)
  BY <1>1, AnyItem, SameShapes
<1>4. Extent(item) = Extent(its[i].item) /\ (BoolArray(item) <=> BoolArray(its[i].item))
  BY <1>1, AnyItem, SameShapes
<1>5. /\ r \in Messages /\ Replaces(m, r, p, p + size)
      /\ held => HoldsItem(r.data, p, item)
  BY <1>2, <1>3 DEF PutsItem, Effect, Start
<1>6. r.writeBit = m.writeBit /\ Len(r.data) = Len(m.data) /\ SameAround(m.data, r.data, p, p + size)
  BY <1>5 DEF Replaces
<1>7. m.writeBit \in Nat /\ IsData(m.data) /\ IsData(r.data)
  BY <1>5, MessageIs
<1>8. /\ Len(t) = n /\ t[i].item = item /\ t[i].start = p /\ t[i].held = held
      /\ \A j \in 1 .. n : j # i => t[j] = its[j]
  BY <1>2 DEF ReplacedAt
<1>9. \A j \in 1 .. n : t[j].start = its[j].start
  BY <1>2, <1>8
<1>10. ASSUME NEW j \in 1 .. n PROVE Follows(t, r.writeBit, j) = Follows(its, m.writeBit, j)
  <2>1. CASE j < n
    <3>1. PICK k \in 1 .. n : k = j + 1
      BY <1>1, <2>1
    <3>2. t[k].start = its[k].start
      BY <1>9
    <3> QED BY <1>8, <2>1, <3>1, <3>2 DEF Follows
  <2>2. CASE ~(j < n)
    BY <1>6, <1>8, <2>2 DEF Follows
  <2> QED BY <2>1, <2>2
<1>11. Placed(t, r.writeBit)
  <2>1. n # 0 /\ t[1].start = 0
    <3>1. n # 0 /\ 1 \in 1 .. n
      BY <1>1
    <3>2. its[1].start = 0
      BY <3>1 DEF Placed
    <3> QED BY <1>9, <3>1, <3>2
  <2>2. ASSUME NEW j \in 1 .. n
        PROVE  /\ t[j].start <= Follows(t, r.writeBit, j)
               /\ t[j].held /\ ~BoolArray(t[j].item) => t[j].start + Size(t[j].item) = Follows(t, r.writeBit, j)
    <3>1. /\ its[j].start <= Follows(its, m.writeBit, j)
          /\ its[j].held /\ ~BoolArray(its[j].item) => its[j].start + Size(its[j].item) = Follows(its, m.writeBit, j)
      BY DEF Placed
    <3>2. t[j].start = its[j].start /\ Follows(t, r.writeBit, j) = Follows(its, m.writeBit, j)
      BY <1>9, <1>10
    <3>3. t[j].held /\ ~BoolArray(t[j].item) => its[j].held /\ ~BoolArray(its[j].item) /\ Size(t[j].item) = Size(its[j].item)
      BY <1>3, <1>4, <1>8
    <3> QED BY <3>1, <3>2, <3>3
  <2> QED BY <1>8, <2>1, <2>2 DEF Placed
<1>12. ASSUME NEW j \in 1 .. n, Whole(t, j, TRUE) PROVE HoldsItem(r.data, t[j].start, t[j].item)
  <2>1. CASE j = i
    <3>1. t[i].held
      BY <1>1, <1>12, <2>1 DEF Whole
    <3> QED BY <1>5, <1>8, <2>1, <3>1
  <2>2. CASE j # i
    <3>1. n > 1
      BY <1>1, <2>2
    <3>2. \A k \in 1 .. j : its[k].held /\ ~BoolArray(its[k].item)
      <4>1. \A k \in 1 .. j : t[k].held /\ ~BoolArray(t[k].item)
        BY <1>8, <1>12, <3>1 DEF Whole
      <4>2. \A k \in 1 .. j : k \in 1 .. n
        BY <1>1
      <4> QED BY <1>4, <1>8, <4>1, <4>2
    <3>3. HoldsItem(m.data, its[j].start, its[j].item)
      <4>1. Whole(its, j, TRUE)
        BY <3>2 DEF Whole
      <4> QED BY <4>1 DEF Holds
    <3>4. PICK q \in Nat, x \in {its[j].item} : q = its[j].start /\ x = its[j].item /\ IsItem(x)
      BY <1>1
    <3>5. q + Size(x) <= p \/ p + size <= q
      <4>1. CASE j < i
        <5>1. its[j].held /\ ~BoolArray(its[j].item)
          BY <1>1, <3>2
        <5>2. its[j].start + Size(its[j].item) = Follows(its, m.writeBit, j)
          BY <5>1 DEF Placed
        <5>3. Follows(its, m.writeBit, j) <= its[i].start
          BY <1>7, <4>1, Ordered
        <5> QED BY <1>2, <3>4, <5>2, <5>3
      <4>2. CASE i < j
        <5>1. ~BoolArray(its[i].item)
          BY <1>1, <3>2, <4>2
        <5>2. its[i].start + Size(its[i].item) = Follows(its, m.writeBit, i)
          BY <5>1 DEF Placed
        <5>3. Follows(its, m.writeBit, i) <= its[j].start
          BY <1>7, <4>2, Ordered
        <5> QED BY <1>2, <1>3, <3>4, <5>2, <5>3
      <4> QED BY <1>1, <2>2, <4>1, <4>2
    <3>6. HoldsItem(r.data, q, x)
      <4>1. p + size \in Nat /\ HoldsItem(m.data, q, x)
        BY <3>3, <3>4
      <4> QED BY <1>6, <1>7, <3>4, <3>5, <4>1, ItemStaysAround
    <3> QED BY <1>8, <2>2, <3>4, <3>6
  <2> QED BY <2>1, <2>2
<1>13. ASSUME NEW j \in 1 .. n, t[j].held PROVE t[j].start + Extent(t[j].item) <= Len(r.data)
  <2>1. its[j].held /\ t[j].start = its[j].start /\ Extent(t[j].item) = Extent(its[j].item)
    BY <1>4, <1>8, <1>9, <1>13
  <2>2. its[j].start + Extent(its[j].item) <= Len(m.data)
    BY <2>1 DEF Roomy
  <2> QED BY <1>6, <2>1, <2>2
<1>14. Holds(r.data, t, TRUE) /\ Roomy(r.data, t)
  BY <1>8, <1>12, <1>13 DEF Holds, Roomy
<1> QED BY <1>11, <1>14

\* What Replace makes of the records: nothing, if a single item of fixed width raised.
Rewritten(t, its, i, item, raised) ==
    IF raised /\ ~item.array /\ item.type # "String" THEN t = its
    ELSE ReplacedAt(t, its, i, item, ~raised /\ (item.type = "UInt8" => ~item.array))

\* The message and its records afterwards: no longer, the items that are held of the same kind.
Remains(m, its, r, t) ==
    /\ r \in Messages /\ SameFields(m, r) /\ r.writeBit = m.writeBit
    /\ t \in Seq(Records) /\ Len(t) = Len(its)
    /\ \A j \in 1 .. Len(its) :
          t[j].held => its[j].held /\ t[j].item.type = its[j].item.type /\ t[j].item.array = its[j].item.array
    /\ Placed(t, r.writeBit) /\ Holds(r.data, t, TRUE) /\ Roomy(r.data, t)

\* What writing over an item leaves.
LEMMA ReplaceKeeps ==
  ASSUME NEW m \in Messages, NEW its \in Seq(Records), NEW i \in 1 .. Len(its), its[i].held,
         Placed(its, m.writeBit), Holds(m.data, its, TRUE), Roomy(m.data, its),
         NEW item \in Items, SameShape(item, its[i].item), NEW r, r = Put(m, item, its[i].start),
         NEW t, Rewritten(t, its, i, item, r.raised)
  PROVE  Remains(m, its, r, t)
<1>1. /\ Len(its) \in Nat /\ its[i].start \in Nat /\ IsItem(its[i].item) /\ IsItem(item)
  BY RecordIs, AnyItem
<1>2. Fits(m, its[i].start, Extent(item))
  <2>1. Extent(item) = Extent(its[i].item)
    BY <1>1, SameShapes
  <2> QED BY <2>1 DEF Fits, Roomy
<1>3. PutsItem(m, r, item, its[i].start) /\ PutsOrNot(m, r, item)
  BY <1>1, <1>2, PutIs
<1>4. r \in Messages /\ SameFields(m, r) /\ r.writeBit = m.writeBit
  BY <1>1, <1>3 DEF PutsItem, Effect, Replaces
<1>5. r.raised \in BOOLEAN /\ item.array \in BOOLEAN
  BY <1>1, <1>4, MessageIs, ItemIs
<1>6. CASE r.raised /\ ~item.array /\ item.type # "String"
  <2>1. r.data = m.data /\ t = its
    BY <1>3, <1>6 DEF PutsOrNot, Rewritten
  <2> QED BY <1>4, <2>1 DEF Remains
<1>7. CASE ~(r.raised /\ ~item.array /\ item.type # "String")
  <2>1. PICK held \in BOOLEAN : held = (~r.raised /\ (item.type = "UInt8" => ~item.array))
    BY <1>5
  <2>2. ReplacedAt(t, its, i, item, held)
    BY <1>7, <2>1 DEF Rewritten
  <2>3. Placed(t, r.writeBit) /\ Holds(r.data, t, TRUE) /\ Roomy(r.data, t)
    BY <1>3, <2>1, <2>2, WrittenOver
  <2>4. item.type = its[i].item.type /\ item.array = its[i].item.array
    BY DEF SameShape
  <2> QED BY <1>4, <2>2, <2>3, <2>4 DEF ReplacedAt, Remains
<1> QED BY <1>6, <1>7

-----------------------------------------------------------------------------
(* Items that travel. *)

\* The bits of a message are in another one, behind some of that.
Copied(after, shift, data, end) ==
    /\ Len(after) \in Nat /\ shift + end <= Len(after)
    /\ \A k \in 1 .. end : after[shift + k] = data[k]

\* An item goes with the bits of its message, wherever those go.
LEMMA Goes ==
  ASSUME NEW its \in Seq(Records), NEW end \in Nat, Placed(its, end),
         NEW data, Holds(data, its, TRUE), NEW i \in 1 .. Len(its), Whole(its, i, FALSE),
         NEW after, NEW shift \in Nat, Copied(after, shift, data, end)
  PROVE  HoldsItem(after, shift + its[i].start, its[i].item)
<1>1. /\ Len(its) \in Nat /\ its[i].held /\ ~BoolArray(its[i].item)
      /\ HoldsItem(data, its[i].start, its[i].item)
  <2>1. Len(its) \in Nat /\ i \in 1 .. i
    BY RecordIs
  <2>2. its[i].held /\ ~BoolArray(its[i].item)
    BY <2>1 DEF Whole
  <2>3. Whole(its, i, TRUE)
    BY DEF Whole
  <2> QED BY <2>1, <2>2, <2>3 DEF Holds
<1>2. PICK p \in Nat, size \in Nat : p = its[i].start /\ size = Size(its[i].item)
  BY RecordIs
<1>3. PICK x : x = its[i].item /\ IsItem(x)
  BY RecordIs
<1>4. p + size <= end
  BY <1>1, <1>2, Ends
<1>5. /\ Len(after) \in Nat /\ shift + end <= Len(after)
      /\ \A k \in 1 .. end : after[shift + k] = data[k]
  BY DEF Copied
<1>6. Carried(data, p, after, shift + p, size)
  <2>1. (shift + p) + size <= Len(after)
    BY <1>4, <1>5
  <2>2. ASSUME NEW k \in 1 .. size PROVE after[(shift + p) + k] = data[p + k]
    <3>1. PICK j \in 1 .. end : j = p + k
      BY <1>4
    <3>2. shift + j = (shift + p) + k
      BY <3>1
    <3> QED BY <1>5, <3>1, <3>2
  <2> QED BY <2>1, <2>2 DEF Carried
<1>7. /\ HoldsItem(data, p, x) /\ shift + p \in Nat
      /\ Carried(data, p, after, shift + p, Size(x))
  BY <1>1, <1>2, <1>3, <1>6
<1>8. HoldsItem(after, shift + p, x)
  BY <1>3, <1>5, <1>7, CarriedItem
<1> QED BY <1>2, <1>3, <1>8

\* All of them.
LEMMA AllGo ==
  ASSUME NEW its \in Seq(Records), NEW end \in Nat, Placed(its, end), NEW data, Holds(data, its, TRUE),
         NEW after, Copied(after, 0, data, end)
  PROVE  Holds(after, its, FALSE)
<1>1. ASSUME NEW i \in 1 .. Len(its), Whole(its, i, FALSE) PROVE HoldsItem(after, its[i].start, its[i].item)
  <2>1. HoldsItem(after, 0 + its[i].start, its[i].item)
    BY <1>1, Goes
  <2>2. 0 + its[i].start = its[i].start
    BY RecordIs
  <2> QED BY <2>1, <2>2
<1> QED BY <1>1 DEF Holds

\* Records of the internal message, and behind them those of the application's.
Behind(t, first, its, shift) ==
    /\ t \in Seq(Records) /\ Len(t) = Len(first) + Len(its)
    /\ \A i \in 1 .. Len(first) : t[i] = first[i]
    /\ \A i \in 1 .. Len(its) : /\ t[Len(first) + i].item = its[i].item /\ t[Len(first) + i].held = its[i].held
                                /\ t[Len(first) + i].start = its[i].start + shift

\* Items placed behind placed items are placed.
LEMMA BothPlaced ==
  ASSUME NEW first \in Seq(Records), NEW its \in Seq(Records), NEW shift \in Nat, NEW end \in Nat,
         Placed(first, shift), Placed(its, end), NEW t, Behind(t, first, its, shift)
  PROVE  Placed(t, shift + end)
<1> DEFINE n == Len(first)
           m == Len(its)
<1>1. /\ n \in Nat /\ m \in Nat /\ Len(t) = n + m
      /\ \A i \in 1 .. n : t[i] = first[i] /\ first[i].start \in Nat
      /\ \A i \in 1 .. m : its[i].start \in Nat /\ Size(its[i].item) \in Nat
      /\ \A i \in 1 .. m : t[n + i].item = its[i].item /\ t[n + i].held = its[i].held /\ t[n + i].start = its[i].start + shift
  BY RecordIs DEF Behind
<1>2. CASE n + m = 0
  BY <1>1, <1>2 DEF Placed
<1>3. CASE n + m # 0
  <2>1. t[1].start = 0
    <3>1. CASE n # 0
      BY <1>1, <3>1 DEF Placed
    <3>2. CASE n = 0
      <4>1. shift = 0 /\ m # 0
        BY <1>3, <1>1, <3>2 DEF Placed
      <4>2. its[1].start = 0 /\ 1 \in 1 .. m /\ n + 1 = 1
        BY <1>1, <3>2, <4>1 DEF Placed
      <4>3. t[n + 1].start = its[1].start + shift
        BY <1>1, <4>2
      <4> HIDE DEF n, m
      <4> QED BY <4>1, <4>2, <4>3
    <3> QED BY <3>1, <3>2
  <2>2. ASSUME NEW i \in 1 .. n PROVE Follows(t, shift + end, i) = Follows(first, shift, i)
    <3>1. CASE i < n
      BY <1>1, <3>1 DEF Follows
    <3>2. CASE i = n /\ m = 0
      <4>1. end = 0
        BY <3>2 DEF Placed
      <4> QED BY <1>1, <3>2, <4>1 DEF Follows
    <3>3. CASE i = n /\ m # 0
      <4>1. its[1].start = 0 /\ 1 \in 1 .. m
        BY <1>1, <3>3 DEF Placed
      <4>2. t[n + 1].start = shift
        BY <1>1, <4>1
      <4> QED BY <1>1, <3>3, <4>2 DEF Follows
    <3> QED BY <1>1, <3>1, <3>2, <3>3
  <2>3. ASSUME NEW i \in 1 .. m PROVE Follows(t, shift + end, n + i) = Follows(its, end, i) + shift
    <3>1. CASE i < m
      <4>1. PICK j \in 1 .. m : j = i + 1
        BY <1>1, <3>1
      <4>2. t[n + j].start = its[j].start + shift /\ n + j = (n + i) + 1
        BY <1>1, <4>1
      <4> QED BY <1>1, <3>1, <4>1, <4>2 DEF Follows
    <3>2. CASE i = m
      BY <1>1, <3>2 DEF Follows
    <3> QED BY <1>1, <3>1, <3>2
  <2>4. ASSUME NEW k \in 1 .. n + m
        PROVE  /\ t[k].start <= Follows(t, shift + end, k)
               /\ t[k].held /\ ~BoolArray(t[k].item) => t[k].start + Size(t[k].item) = Follows(t, shift + end, k)
    <3>1. CASE k \in 1 .. n
      <4>1. t[k] = first[k] /\ Follows(t, shift + end, k) = Follows(first, shift, k)
        BY <1>1, <2>2, <3>1
      <4> QED BY <3>1, <4>1 DEF Placed
    <3>2. CASE k \notin 1 .. n
      <4>1. PICK i \in 1 .. m : k = n + i
        <5>1. k - n \in 1 .. m /\ k = n + (k - n)
          BY <1>1, <3>2
        <5> QED BY <5>1
      <4>2. /\ t[k].item = its[i].item /\ t[k].held = its[i].held /\ t[k].start = its[i].start + shift
            /\ Follows(t, shift + end, k) = Follows(its, end, i) + shift
        BY <1>1, <2>3, <4>1
      <4>3. /\ its[i].start <= Follows(its, end, i)
            /\ its[i].held /\ ~BoolArray(its[i].item) => its[i].start + Size(its[i].item) = Follows(its, end, i)
        BY DEF Placed
      <4>4. its[i].start \in Nat /\ Size(its[i].item) \in Nat /\ Follows(its, end, i) \in Nat
        BY <1>1, Ordered
      <4> QED BY <4>2, <4>3, <4>4, SMTT(30)
    <3> QED BY <3>1, <3>2
  <2>5. Len(t) # 0
    BY <1>1, <1>3
  <2> QED BY <1>1, <2>1, <2>4, <2>5 DEF Placed
<1> QED BY <1>2, <1>3

\* Both messages' items are where their bits are.
LEMMA BothGo ==
  ASSUME NEW first \in Seq(Records), NEW its \in Seq(Records), NEW shift \in Nat, NEW end \in Nat,
         Placed(first, shift), Placed(its, end), NEW t, Behind(t, first, its, shift),
         NEW data, Holds(data, first, TRUE), NEW other, Holds(other, its, TRUE),
         NEW after, Copied(after, 0, data, shift), Copied(after, shift, other, end)
  PROVE  Holds(after, t, FALSE)
<1> DEFINE n == Len(first)
           m == Len(its)
<1>1. /\ n \in Nat /\ m \in Nat /\ Len(t) = n + m
      /\ \A i \in 1 .. n : t[i] = first[i]
      /\ \A i \in 1 .. m : t[n + i].item = its[i].item /\ t[n + i].held = its[i].held /\ t[n + i].start = its[i].start + shift
      /\ \A i \in 1 .. m : its[i].start \in Nat
  BY RecordIs DEF Behind
<1>2. ASSUME NEW k \in 1 .. n + m, Whole(t, k, FALSE) PROVE HoldsItem(after, t[k].start, t[k].item)
  <2>0. \A j \in 1 .. k : t[j].held /\ ~BoolArray(t[j].item)
    BY <1>2 DEF Whole
  <2>1. CASE k \in 1 .. n
    <3>1. \A j \in 1 .. k : j \in 1 .. n
      BY <1>1, <2>1
    <3>2. Whole(first, k, FALSE)
      BY <1>1, <2>0, <3>1 DEF Whole
    <3>3. Holds(after, first, FALSE)
      BY AllGo
    <3> QED BY <1>1, <2>1, <3>2, <3>3 DEF Holds
  <2>2. CASE k \notin 1 .. n
    <3>1. PICK i \in 1 .. m : k = n + i
      <4>1. k - n \in 1 .. m /\ k = n + (k - n)
        BY <1>1, <2>2
      <4> QED BY <4>1
    <3>2. ASSUME NEW j \in 1 .. i PROVE its[j].held /\ ~BoolArray(its[j].item)
      <4>1. PICK l \in 1 .. k : l = n + j
        BY <1>1, <3>1
      <4>2. j \in 1 .. m
        BY <1>1, <3>1
      <4>3. t[l].held = its[j].held /\ t[l].item = its[j].item
        BY <1>1, <4>1, <4>2
      <4> QED BY <2>0, <4>1, <4>3
    <3>3. Whole(its, i, FALSE)
      BY <3>2 DEF Whole
    <3>4. HoldsItem(after, shift + its[i].start, its[i].item)
      BY <3>3, Goes
    <3>5. t[k].item = its[i].item /\ t[k].start = shift + its[i].start
      BY <1>1, <3>1
    <3> QED BY <3>4, <3>5
  <2> QED BY <2>1, <2>2
<1> QED BY <1>1, <1>2 DEF Holds

-----------------------------------------------------------------------------
(* The inductive invariant. *)

\* The kinds of the variables; nothing was got or relayed before the message was sent.
Typed ==
    /\ message \in Messages /\ message.readBit = 0 /\ received \in Messages
    /\ items \in Seq(Records)
    /\ replaced \in 0 .. MaxReplaced /\ relayed \in BOOLEAN
    /\ sentAs \in {Unsent, Local, Unreliable, Connect, Disconnect, Reliable}
    /\ gets \in Seq([raised : BOOLEAN, elements : Seq(Seq(Nat))]) /\ Len(gets) <= Len(items)
    /\ sentAs = Unsent => gets = <<>> /\ ~relayed
    /\ relayed => sentAs \in {Unreliable, Reliable}

\* Before it is sent, the message has the items, with room to write over them.
Written == sentAs = Unsent => Holds(message.data, items, TRUE) /\ Roomy(message.data, items)

\* What was sent has the IDs its header has.
Addressed ==
    sentAs \notin {Unsent, Local} =>
        /\ Sendable(message) /\ message.header = sentAs
        /\ received.header = sentAs /\ received.msgID = message.msgID /\ received.seqID = message.seqID

\* What arrived has the items that can be got, and is no shorter than what was sent.
Arrived ==
    sentAs # Unsent /\ ~relayed =>
        /\ Holds(received.data, items, sentAs = Local)
        /\ sentAs = Local => Roomy(received.data, items)
        /\ sentAs # Local => 8 * BytesNeeded(message.writeBit) <= Len(received.data)

\* What has been got was held; the next get reads behind it.
Read ==
    sentAs # Unsent /\ ~relayed =>
        /\ Whole(items, Len(gets), sentAs = Local)
        /\ ~received.raised => received.readBit =
              IF gets = <<>> THEN 0 ELSE items[Len(gets)].start + Size(items[Len(gets)].item)

\* The inductive invariant: the properties and what they rest on.
Inv ==
    /\ Typed /\ Placed(items, message.writeBit) /\ Written /\ Addressed /\ Arrived /\ Read
    /\ ReadsWhatWasPut /\ CapacityHeld

\* The first message is empty.
LEMMA NoMessageIs ==
  ASSUME NEW header \in Nat, NEW m, m = [NoMessage EXCEPT !.header = header]
  PROVE  /\ m \in Messages /\ m.header = header /\ m.msgID = 0 /\ m.seqID = 0 /\ m.data = <<>>
         /\ m.readBit = 0 /\ m.writeBit = 0 /\ ~m.raised
<1>1. m = [header |-> header, msgID |-> 0, seqID |-> 0, data |-> <<>>,
           readBit |-> 0, writeBit |-> 0, raised |-> FALSE]
  BY DEF NoMessage
<1>2. <<>> \in Seq({0, 1}) /\ Len(<<>>) = 0
  BY EmptySeq
<1>3. IsData(<<>>)
  BY <1>2 DEF IsData
<1>4. PICK data : data = <<>> /\ data \in Seq({0, 1}) /\ Len(data) = 0 /\ IsData(data)
  BY <1>2, <1>3
<1>5. data \in Seq({0, 1}) /\ Len(data) = 0 /\ IsData(data)
  BY <1>4
<1>6. PICK x : x = [header |-> header, msgID |-> 0, seqID |-> 0, data |-> data,
                   readBit |-> 0, writeBit |-> 0, raised |-> FALSE]
  OBVIOUS
<1>7. x \in Messages
  BY <1>5, <1>6 DEF Messages
<1>8. x = m
  BY <1>1, <1>4, <1>6
<1>9. /\ x.header = header /\ x.msgID = 0 /\ x.seqID = 0 /\ x.data = data
      /\ x.readBit = 0 /\ x.writeBit = 0 /\ ~x.raised
  BY <1>6
<1>10. data = <<>>
  BY <1>4
<1> QED BY <1>7, <1>8, <1>9, <1>10

\* The empty message.
LEMMA InitHolds ==
  ASSUME Init
  PROVE  Inv
<1>1. NoMessage \in Messages /\ NoMessage.readBit = 0 /\ NoMessage.writeBit = 0
  <2>1. NoMessage = [NoMessage EXCEPT !.header = 0]
    BY DEF NoMessage
  <2> QED BY <2>1, NoMessageIs
<1>2. /\ <<>> \in Seq(Records) /\ <<>> \in Seq([raised : BOOLEAN, elements : Seq(Seq(Nat))]) /\ Len(<<>>) = 0
  BY EmptySeq
<1>3. MaxBits \in Nat /\ MaxReplaced \in Nat
  BY MessageAssumption
<1>4. Typed
  <2>1. /\ message \in Messages /\ message.readBit = 0 /\ received \in Messages
        /\ items \in Seq(Records) /\ items = <<>> /\ gets = <<>>
        /\ gets \in Seq([raised : BOOLEAN, elements : Seq(Seq(Nat))]) /\ Len(gets) <= Len(items)
    BY <1>1, <1>2 DEF Init
  <2>2. /\ replaced \in 0 .. MaxReplaced /\ relayed = FALSE /\ sentAs = Unsent
    BY <1>3 DEF Init
  <2> QED BY <2>1, <2>2 DEF Typed
<1>5. Placed(items, message.writeBit) /\ Written
  BY <1>1, <1>2 DEF Init, Placed, Written, Holds, Roomy
<1>6. Addressed /\ Arrived /\ Read /\ ReadsWhatWasPut /\ CapacityHeld
  BY <1>1, <1>2, <1>3 DEF Init, Addressed, Arrived, Read, ReadsWhatWasPut, CapacityHeld
<1> QED BY <1>4, <1>5, <1>6 DEF Inv

\* Before it is sent, nothing arrived and nothing was got.
LEMMA StillUnsent ==
  ASSUME sentAs' = Unsent, gets' = <<>>
  PROVE  Addressed' /\ Arrived' /\ Read' /\ ReadsWhatWasPut'
<1>1. DOMAIN gets' = {}
  BY EmptySeq
<1> QED BY <1>1 DEF Addressed, Arrived, Read, ReadsWhatWasPut

\* An item is put at the end: the ones before it are held as they were, and the new one is
\* held unless its put raised.
LEMMA PutItemHolds ==
  ASSUME Inv, NEW item \in Items, PutItem(item)
  PROVE  Inv'
<1>1. /\ sentAs = Unsent /\ sentAs' = Unsent /\ gets' = gets
      /\ replaced' = replaced /\ relayed' = relayed /\ received' = received
      /\ message' = Put(message, item, -1)
      /\ items' = Append(items, [item |-> item, start |-> message.writeBit, held |-> ~message'.raised])
  BY DEF PutItem
<1>2. /\ Typed /\ Placed(items, message.writeBit) /\ Holds(message.data, items, TRUE) /\ Roomy(message.data, items)
      /\ CapacityHeld
  BY <1>1 DEF Inv, Written
<1>3. /\ message \in Messages /\ items \in Seq(Records) /\ message.writeBit \in Nat /\ message.readBit = 0
      /\ received \in Messages /\ gets = <<>> /\ ~relayed
  BY <1>1, <1>2, MessageIs DEF Typed
<1>4. message'.raised \in BOOLEAN
  <2>1. IsItem(item) /\ Fits(message, -1, Extent(item))
    BY AnyItem DEF Fits
  <2>2. PutsItem(message, message', item, -1)
    BY <1>1, <1>3, <2>1, PutIs
  <2> QED BY <2>2, MessageIs DEF PutsItem
<1>5. PICK e : e = [item |-> item, start |-> message.writeBit, held |-> ~message'.raised]
  OBVIOUS
<1>6. e \in Records /\ e.item = item /\ e.start = message.writeBit /\ e.held = ~message'.raised
  BY <1>3, <1>4, <1>5 DEF Records
<1>7. Extends(items', items, e) /\ DOMAIN items' = 1 .. Len(items) + 1 /\ DOMAIN items = 1 .. Len(items) /\ Len(items) \in Nat
  <2>1. items' = Append(items, e)
    BY <1>1, <1>5
  <2>2. /\ items' \in Seq(Records) /\ Len(items') = Len(items) + 1 /\ items'[Len(items) + 1] = e
        /\ \A i \in 1 .. Len(items) : items'[i] = items[i]
        /\ DOMAIN items' = 1 .. Len(items) + 1 /\ DOMAIN items = 1 .. Len(items) /\ Len(items) \in Nat
    BY <1>3, <1>6, <2>1, SeqAppend
  <2> QED BY <2>2 DEF Extends
<1>8. /\ message' \in Messages /\ SameFields(message, message')
      /\ Placed(items', message'.writeBit) /\ Holds(message'.data, items', TRUE) /\ Roomy(message'.data, items')
  BY <1>1, <1>2, <1>3, <1>6, <1>7, PutKeeps
<1>9. Typed'
  <2>1. message'.readBit = 0
    BY <1>3, <1>8 DEF SameFields
  <2>2. items' \in Seq(Records) /\ Len(items') \in Nat /\ Len(<<>>) = 0
    BY <1>7, RecordIs, EmptySeq DEF Extends
  <2> QED BY <1>1, <1>2, <1>3, <1>8, <2>1, <2>2 DEF Typed
<1>10. CapacityHeld'
  <2> SUFFICES ASSUME \A i \in DOMAIN items' : items'[i].held /\ ~(items'[i].item.type = "String" /\ items'[i].item.array)
               PROVE  message'.writeBit <= MaxBits
    BY DEF CapacityHeld
  <2>1. \A i \in 1 .. Len(items) : i \in DOMAIN items' /\ items'[i] = items[i]
    BY <1>7 DEF Extends
  <2>2. Len(items) + 1 \in DOMAIN items' /\ items'[Len(items) + 1] = e
    BY <1>7 DEF Extends
  <2>3. message.writeBit <= MaxBits
    BY <1>2, <1>7, <2>1 DEF CapacityHeld
  <2>4. ~message'.raised /\ ~(item.type = "String" /\ item.array)
    BY <1>4, <1>6, <2>2
  <2> QED BY <1>1, <1>3, <2>3, <2>4, PutWithin
<1>11. Written'
  BY <1>8 DEF Written
<1>12. Addressed' /\ Arrived' /\ Read' /\ ReadsWhatWasPut'
  BY <1>1, <1>3, StillUnsent
<1> QED BY <1>8, <1>9, <1>10, <1>11, <1>12 DEF Inv

\* A put at the position of an item of the same shape: the bits of the others stay.
LEMMA ReplaceHolds ==
  ASSUME Inv, NEW i \in DOMAIN items, NEW item \in Items, Replace(i, item)
  PROVE  Inv'
<1>1. /\ sentAs = Unsent /\ sentAs' = Unsent /\ gets' = gets /\ replaced < MaxReplaced
      /\ replaced' = replaced + 1 /\ relayed' = relayed /\ received' = received
      /\ items[i].held /\ SameShape(item, items[i].item)
      /\ message' = Put(message, item, items[i].start)
      /\ items' = IF message'.raised /\ ~item.array /\ item.type # "String" THEN items
                  ELSE [items EXCEPT ![i].item = item,
                                     ![i].held = ~message'.raised /\ (item.type = "UInt8" => ~item.array)]
  BY DEF Replace
<1>2. /\ Typed /\ Placed(items, message.writeBit) /\ Holds(message.data, items, TRUE) /\ Roomy(message.data, items)
      /\ CapacityHeld
  BY <1>1 DEF Inv, Written
<1>3. /\ message \in Messages /\ items \in Seq(Records) /\ message.writeBit \in Nat /\ message.readBit = 0
      /\ received \in Messages /\ gets = <<>> /\ ~relayed /\ replaced \in 0 .. MaxReplaced
  BY <1>1, <1>2, MessageIs DEF Typed
<1>4. i \in 1 .. Len(items) /\ Len(items) \in Nat /\ DOMAIN items = 1 .. Len(items)
  BY <1>3, RecordIs
<1>5. Rewritten(items', items, i, item, message'.raised)
  <2>1. PICK held \in BOOLEAN : held = (~message'.raised /\ (item.type = "UInt8" => ~item.array))
    OBVIOUS
  <2>2. CASE message'.raised /\ ~item.array /\ item.type # "String"
    BY <1>1, <2>2 DEF Rewritten
  <2>3. CASE ~(message'.raised /\ ~item.array /\ item.type # "String")
    <3>1. items' = [items EXCEPT ![i].item = item, ![i].held = held]
      BY <1>1, <2>1, <2>3
    <3>2. ReplacedAt(items', items, i, item, held)
      BY <1>3, <1>4, <3>1, ReplacedIs
    <3> QED BY <2>1, <2>3, <3>2 DEF Rewritten
  <2> QED BY <2>2, <2>3
<1>6. /\ message' \in Messages /\ SameFields(message, message') /\ message'.writeBit = message.writeBit
      /\ items' \in Seq(Records) /\ Len(items') = Len(items)
      /\ \A j \in 1 .. Len(items) : items'[j].held => /\ items[j].held
                                                      /\ items'[j].item.type = items[j].item.type
                                                      /\ items'[j].item.array = items[j].item.array
      /\ Placed(items', message'.writeBit) /\ Holds(message'.data, items', TRUE) /\ Roomy(message'.data, items')
  <2>1. /\ message \in Messages /\ items \in Seq(Records) /\ i \in 1 .. Len(items) /\ items[i].held
        /\ Placed(items, message.writeBit) /\ Holds(message.data, items, TRUE) /\ Roomy(message.data, items)
        /\ SameShape(item, items[i].item) /\ message' = Put(message, item, items[i].start)
    BY <1>1, <1>2, <1>3, <1>4
  <2>2. Remains(message, items, message', items')
    BY <1>5, <2>1, ReplaceKeeps
  <2> QED BY <2>2 DEF Remains
<1>7. Typed'
  <2>1. message'.readBit = 0
    BY <1>3, <1>6 DEF SameFields
  <2>2. Len(items') \in Nat /\ Len(<<>>) = 0 /\ replaced' \in 0 .. MaxReplaced
    BY <1>1, <1>3, <1>4, <1>6, EmptySeq, MessageAssumption
  <2> QED BY <1>1, <1>2, <1>3, <1>6, <2>1, <2>2 DEF Typed
<1>8. CapacityHeld'
  <2> SUFFICES ASSUME \A j \in DOMAIN items' : items'[j].held /\ ~(items'[j].item.type = "String" /\ items'[j].item.array)
               PROVE  message'.writeBit <= MaxBits
    BY DEF CapacityHeld
  <2>1. DOMAIN items' = 1 .. Len(items)
    BY <1>6, RecordIs
  <2>2. message.writeBit <= MaxBits
    BY <1>2, <1>4, <1>6, <2>1 DEF CapacityHeld
  <2> QED BY <1>6, <2>2
<1>9. Written'
  BY <1>6 DEF Written
<1>10. Addressed' /\ Arrived' /\ Read' /\ ReadsWhatWasPut'
  BY <1>1, <1>3, StillUnsent
<1> QED BY <1>6, <1>7, <1>8, <1>9, <1>10 DEF Inv

\* What is sent and what arrives.
LEMMA SentHolds ==
  ASSUME sentAs' \in {Unreliable, Connect, Disconnect, Reliable}, Sendable(message'), message'.header = sentAs',
         message'.readBit = 0, Arrives(message', received'), Holds(received'.data, items', FALSE),
         items' \in Seq(Records), Placed(items', message'.writeBit), gets' = <<>>, relayed' = FALSE,
         replaced' \in 0 .. MaxReplaced, CapacityHeld'
  PROVE  Inv'
<1>1. /\ sentAs' # Unsent /\ sentAs' # Local
      /\ sentAs' \in {Unsent, Local, Unreliable, Connect, Disconnect, Reliable}
  BY DEF Unsent, Local, Unreliable, Connect, Disconnect, Reliable
<1>2. message' \in Messages /\ received' \in Messages
  BY DEF Sendable, Arrives
<1>3. <<>> \in Seq([raised : BOOLEAN, elements : Seq(Seq(Nat))]) /\ Len(<<>>) = 0 /\ Len(items') \in Nat
  BY EmptySeq, RecordIs
<1>4. Typed'
  <2>1. gets' \in Seq([raised : BOOLEAN, elements : Seq(Seq(Nat))]) /\ Len(gets') <= Len(items')
    BY <1>3
  <2>2. relayed' \in BOOLEAN /\ (sentAs' = Unsent => gets' = <<>> /\ ~relayed') /\ (relayed' => sentAs' \in {Unreliable, Reliable})
    BY <1>1
  <2> QED BY <1>1, <1>2, <2>1, <2>2 DEF Typed
<1>5. Written' /\ Addressed'
  BY <1>1 DEF Written, Addressed, Arrives
<1>6. Arrived'
  BY <1>1 DEF Arrived, Arrives
<1>7. Read'
  <2>1. Whole(items', 0, sentAs' = Local)
    BY DEF Whole
  <2> QED BY <1>3, <2>1 DEF Read, Arrives
<1>8. ReadsWhatWasPut'
  BY <1>3, EmptySeq DEF ReadsWhatWasPut
<1> QED BY <1>4, <1>5, <1>6, <1>7, <1>8 DEF Inv

\* A message with its IDs.
WithIDs(m, header, id, seq) == [m EXCEPT !.header = header, !.msgID = id, !.seqID = seq]

\* Only those are new.
Identified(m, r, header, id, seq) ==
    /\ r \in Messages /\ r.header = header /\ r.msgID = id /\ r.seqID = seq
    /\ r.data = m.data /\ r.readBit = m.readBit /\ r.writeBit = m.writeBit /\ r.raised = m.raised

\* The IDs of a message are not in its data.
LEMMA WithIDsIs ==
  ASSUME NEW m \in Messages, NEW header \in Nat, NEW id \in Nat, NEW seq \in Nat
  PROVE  Identified(m, WithIDs(m, header, id, seq), header, id, seq)
<1>0. PICK r : r = WithIDs(m, header, id, seq)
  OBVIOUS
<1>1. m \in [header : Nat, msgID : Nat, seqID : Nat, data : Seq({0, 1}),
             readBit : Nat, writeBit : Nat, raised : BOOLEAN]
  BY DEF Messages
<1>2. /\ r \in [header : Nat, msgID : Nat, seqID : Nat, data : Seq({0, 1}),
                readBit : Nat, writeBit : Nat, raised : BOOLEAN]
      /\ r.header = header /\ r.msgID = id /\ r.seqID = seq
      /\ r.data = m.data /\ r.readBit = m.readBit /\ r.writeBit = m.writeBit /\ r.raised = m.raised
  BY <1>0, <1>1 DEF WithIDs
<1>3. r \in Messages
  BY <1>2 DEF Messages
<1> QED BY <1>0, <1>2, <1>3 DEF Identified

\* A message is sent and received: what was put travels.
LEMMA SendHolds ==
  ASSUME Inv, NEW header \in {Unreliable, Reliable}, NEW id \in MessageIDs, Send(header, id)
  PROVE  Inv'
<1>1. /\ sentAs = Unsent /\ sentAs' = header /\ gets' = gets /\ items' = items
      /\ replaced' = replaced /\ relayed' = relayed
      /\ message' = [message EXCEPT !.header = header, !.msgID = id,
                                    !.seqID = IF HasSequenceID(header) THEN SequenceID ELSE 0]
      /\ received' = FromBytestream(CreateBytestream(message'))
  BY DEF Send
<1>2. /\ Typed /\ Placed(items, message.writeBit) /\ Holds(message.data, items, TRUE) /\ CapacityHeld
  BY <1>1 DEF Inv, Written
<1>3. /\ message \in Messages /\ items \in Seq(Records) /\ message.writeBit \in Nat /\ message.readBit = 0
      /\ gets = <<>> /\ relayed = FALSE /\ replaced \in 0 .. MaxReplaced
  BY <1>1, <1>2, MessageIs DEF Typed
<1>4. PICK seq \in Nat : /\ seq = IF HasSequenceID(header) THEN SequenceID ELSE 0
                         /\ seq < 65536 /\ (~HasSequenceID(header) => seq = 0)
  BY DEF SequenceID
<1>5. header \in Nat /\ id \in Nat /\ HasMessageID(header)
  BY MessageAssumption DEF HasMessageID, Unreliable, Reliable
<1>6. /\ message' \in Messages /\ message'.header = header /\ message'.msgID = id /\ message'.seqID = seq
      /\ message'.data = message.data /\ message'.readBit = 0 /\ message'.writeBit = message.writeBit
  <2>1. message' = WithIDs(message, header, id, seq)
    BY <1>1, <1>4 DEF WithIDs
  <2>2. Identified(message, WithIDs(message, header, id, seq), header, id, seq)
    BY <1>3, <1>5, WithIDsIs
  <2> QED BY <1>3, <2>1, <2>2 DEF Identified
<1>7. Sendable(message')
  BY <1>4, <1>5, <1>6 DEF Sendable
<1>8. Arrives(message', received')
  BY <1>1, <1>7, Travels
<1>9. Holds(received'.data, items', FALSE)
  <2>1. PICK after : after = received'.data
    OBVIOUS
  <2>2. Copied(after, 0, message.data, message.writeBit)
    <3>1. /\ received' \in Messages /\ 8 * BytesNeeded(message.writeBit) <= Len(after)
          /\ \A k \in 1 .. message.writeBit : after[k] = message.data[k]
      BY <1>6, <1>8, <2>1 DEF Arrives
    <3>2. Len(after) \in Nat
      BY <2>1, <3>1, MessageIs
    <3>3. message.writeBit <= 8 * BytesNeeded(message.writeBit) /\ BytesNeeded(message.writeBit) \in Nat
      BY <1>3, Rounded
    <3>4. 0 + message.writeBit <= Len(after)
      BY <1>3, <3>1, <3>2, <3>3
    <3>5. \A k \in 1 .. message.writeBit : after[0 + k] = message.data[k]
      BY <3>1
    <3> QED BY <3>2, <3>4, <3>5 DEF Copied
  <2>3. Holds(after, items, FALSE)
    BY <1>2, <1>3, <2>2, AllGo
  <2> QED BY <1>1, <2>1, <2>3
<1>10. CapacityHeld'
  BY <1>1, <1>2, <1>6 DEF CapacityHeld
<1>11. header \in {Unreliable, Connect, Disconnect, Reliable}
  OBVIOUS
<1> QED BY <1>1, <1>2, <1>3, <1>6, <1>7, <1>8, <1>9, <1>10, <1>11, SentHolds

\* A message that is read where it was written has what was put.
LEMMA ReadLocallyHolds ==
  ASSUME Inv, ReadLocally
  PROVE  Inv'
<1>1. /\ sentAs = Unsent /\ sentAs' = Local /\ received' = Cleared(message)
      /\ message' = message /\ items' = items /\ replaced' = replaced /\ relayed' = relayed /\ gets' = gets
  BY DEF ReadLocally, Cleared
<1>2. /\ Typed /\ Placed(items, message.writeBit) /\ Holds(message.data, items, TRUE) /\ Roomy(message.data, items)
      /\ CapacityHeld
  BY <1>1 DEF Inv, Written
<1>3. /\ message \in Messages /\ items \in Seq(Records) /\ message.readBit = 0
      /\ gets = <<>> /\ relayed = FALSE /\ replaced \in 0 .. MaxReplaced
  BY <1>1, <1>2 DEF Typed
<1>4. received' \in Messages /\ received'.data = message.data /\ received'.readBit = 0
  BY <1>1, <1>3, ClearedIs DEF SameFields
<1>5. /\ Local # Unsent /\ Local \in {Unsent, Local, Unreliable, Connect, Disconnect, Reliable}
      /\ Len(<<>>) = 0 /\ <<>> \in Seq([raised : BOOLEAN, elements : Seq(Seq(Nat))]) /\ Len(items) \in Nat
  BY <1>3, EmptySeq, RecordIs DEF Local, Unsent
<1>6. Typed'
  <2>1. gets' \in Seq([raised : BOOLEAN, elements : Seq(Seq(Nat))]) /\ Len(gets') <= Len(items')
    BY <1>1, <1>3, <1>5
  <2>2. /\ relayed' \in BOOLEAN /\ (sentAs' = Unsent => gets' = <<>> /\ ~relayed') /\ (relayed' => sentAs' \in {Unreliable, Reliable})
        /\ sentAs' \in {Unsent, Local, Unreliable, Connect, Disconnect, Reliable}
    BY <1>1, <1>3, <1>5
  <2>3. /\ message' \in Messages /\ message'.readBit = 0 /\ received' \in Messages
        /\ items' \in Seq(Records) /\ replaced' \in 0 .. MaxReplaced
    BY <1>1, <1>3, <1>4
  <2> QED BY <2>1, <2>2, <2>3 DEF Typed
<1>7. Placed(items, message.writeBit)' /\ Written' /\ Addressed' /\ CapacityHeld'
  BY <1>1, <1>2, <1>5 DEF Written, Addressed, CapacityHeld
<1>8. Arrived'
  BY <1>1, <1>2, <1>4, <1>5 DEF Arrived
<1>9. Read'
  <2>1. Whole(items, 0, Local = Local)
    BY DEF Whole
  <2> QED BY <1>1, <1>3, <1>4, <1>5, <2>1 DEF Read
<1>10. ReadsWhatWasPut'
  BY <1>1, <1>3, EmptySeq DEF ReadsWhatWasPut
<1> QED BY <1>6, <1>7, <1>8, <1>9, <1>10 DEF Inv

\* A relayed message is sent again with the header and the IDs it came with.
LEMMA RelayHolds ==
  ASSUME Inv, Relay
  PROVE  Inv'
<1>1. /\ sentAs \in {Unreliable, Reliable} /\ sentAs' = sentAs /\ relayed' = TRUE
      /\ received' = FromBytestream(CreateBytestream(received))
      /\ message' = message /\ items' = items /\ replaced' = replaced /\ gets' = gets
  BY DEF Relay
<1>2. sentAs # Unsent /\ sentAs # Local
  BY <1>1 DEF Unsent, Local, Unreliable, Reliable
<1>3. /\ Typed /\ Placed(items, message.writeBit) /\ Written /\ Addressed /\ CapacityHeld
  BY DEF Inv
<1>4. /\ Sendable(message) /\ message.header = sentAs /\ received \in Messages
      /\ received.header = sentAs /\ received.msgID = message.msgID /\ received.seqID = message.seqID
  BY <1>2, <1>3 DEF Addressed, Typed
<1>5. Sendable(received)
  BY <1>4 DEF Sendable
<1>6. Arrives(received, received')
  BY <1>1, <1>5, Travels
<1>7. /\ received' \in Messages /\ received'.header = sentAs /\ received'.msgID = message.msgID
      /\ received'.seqID = message.seqID
  BY <1>4, <1>6 DEF Arrives
<1>8. Typed'
  BY <1>1, <1>2, <1>3, <1>7 DEF Typed
<1>9. Placed(items, message.writeBit)' /\ Written' /\ CapacityHeld'
  BY <1>1, <1>3 DEF Written, CapacityHeld
<1>10. Addressed'
  BY <1>1, <1>4, <1>7 DEF Addressed
<1>11. Arrived' /\ Read' /\ ReadsWhatWasPut'
  BY <1>1 DEF Arrived, Read, ReadsWhatWasPut
<1> QED BY <1>8, <1>9, <1>10, <1>11 DEF Inv

\* An internal message, what it has of its own, and the records of that.
Empty(header) == [NoMessage EXCEPT !.header = header]
Own(header, first) == IF first = <<>> THEN Empty(header) ELSE Put(Empty(header), first[1], -1)
RecordsOf(first) == [i \in 1 .. Len(first) |-> [item |-> first[i], start |-> 0, held |-> TRUE]]

\* It has the items of its own, if those could be put.
Internal(own, recs, header) ==
    /\ own \in Messages /\ own.header = header /\ own.msgID = 0 /\ own.seqID = 0 /\ own.readBit = 0
    /\ recs \in Seq(Records)
    /\ ~own.raised => Placed(recs, own.writeBit) /\ Holds(own.data, recs, TRUE)

\* A message of the peer's own: empty, or the one byte that tells why a client is kicked.
LEMMA OwnIs ==
  ASSUME NEW header \in Nat, NEW first \in {<<>>, <<Kicked>>}
  PROVE  Internal(Own(header, first), RecordsOf(first), header)
<1>1. PICK empty : /\ empty = Empty(header)
                   /\ empty \in Messages /\ empty.header = header /\ empty.msgID = 0 /\ empty.seqID = 0
                   /\ empty.readBit = 0 /\ empty.writeBit = 0
  <2>1. PICK empty : empty = Empty(header)
    OBVIOUS
  <2>2. empty = [NoMessage EXCEPT !.header = header]
    BY <2>1 DEF Empty
  <2> QED BY <2>1, <2>2, NoMessageIs
<1>2. PICK own : own = Own(header, first)
  OBVIOUS
<1>3. PICK recs : recs = RecordsOf(first)
  OBVIOUS
<1>4. CASE first = <<>>
  <2>1. own = empty
    BY <1>1, <1>2, <1>4 DEF Own
  <2>2. Len(first) = 0
    BY <1>4
  <2>3. recs \in Seq(Records) /\ Len(recs) = 0
    <3>1. PICK n \in Nat : n = 0 /\ n = Len(first)
      BY <2>2
    <3>2. recs \in [1 .. n -> Records]
      BY <1>3, <3>1 DEF RecordsOf
    <3> QED BY <3>1, <3>2, FunctionIsSeq
  <2>4. Placed(recs, own.writeBit)
    BY <1>1, <2>1, <2>3 DEF Placed
  <2>5. Holds(own.data, recs, TRUE)
    BY <2>3 DEF Holds
  <2>6. Internal(own, recs, header)
    BY <1>1, <2>1, <2>3, <2>4, <2>5 DEF Internal
  <2> QED BY <1>2, <1>3, <2>6
<1>5. CASE first = <<Kicked>>
  <2>1. first # <<>> /\ Len(first) = 1 /\ first[1] = Kicked
    BY <1>5
  <2>2. own = Put(empty, Kicked, -1)
    BY <1>1, <1>2, <2>1 DEF Own
  <2>3. PICK e : e = [item |-> Kicked, start |-> 0, held |-> TRUE]
    OBVIOUS
  <2>4. e \in Records /\ e.item = Kicked /\ e.start = 0 /\ e.held
    BY <2>3 DEF Records
  <2>5. recs \in Seq(Records) /\ Len(recs) = 1 /\ recs[1] = e
    <3>1. PICK n \in Nat : n = 1 /\ n = Len(first)
      BY <2>1
    <3>2. recs = [i \in 1 .. n |-> [item |-> first[i], start |-> 0, held |-> TRUE]]
      BY <1>3, <3>1 DEF RecordsOf
    <3>3. \A i \in 1 .. n : i = 1 /\ recs[i] = e
      <4>1. [item |-> first[1], start |-> 0, held |-> TRUE] = e
        BY <2>1, <2>3
      <4>2. ASSUME NEW i \in 1 .. n PROVE i = 1
        BY <3>1
      <4> QED BY <3>2, <4>1, <4>2
    <3>4. recs \in [1 .. n -> Records] /\ recs[1] = e
      <4>1. 1 \in 1 .. n
        BY <3>1
      <4>2. recs = [i \in 1 .. n |-> recs[i]]
        BY <3>2
      <4> QED BY <2>4, <3>3, <4>1, <4>2
    <3> QED BY <3>1, <3>4, FunctionIsSeq
  <2>6. PutsItem(empty, own, Kicked, -1)
    <3>1. IsItem(Kicked) /\ Fits(empty, -1, Extent(Kicked))
      BY KickedIs DEF Fits
    <3> QED BY <1>1, <2>2, <3>1, PutIs
  <2>7. /\ own \in Messages /\ SameFields(empty, own)
        /\ ~own.raised => own.writeBit = 8 /\ HoldsItem(own.data, 0, Kicked)
    <3>1. Start(empty, -1) = 0
      BY <1>1 DEF Start
    <3>2. Kicked.type # "UInt8" \/ ~Kicked.array
      BY KickedIs
    <3> QED BY <1>1, <2>6, <3>1, <3>2, KickedIs DEF PutsItem, Effect, Appends
  <2>8. ASSUME ~own.raised PROVE Placed(recs, own.writeBit) /\ Holds(own.data, recs, TRUE)
    <3>1. own.writeBit = 8 /\ HoldsItem(own.data, 0, Kicked)
      BY <2>7, <2>8
    <3>2. \A i \in 1 .. Len(recs) : i = 1
      BY <2>5
    <3>3. Follows(recs, own.writeBit, 1) = 8
      BY <2>5, <3>1 DEF Follows
    <3>4. Size(recs[1].item) = 8 /\ recs[1].start = 0
      BY <2>4, <2>5, KickedIs
    <3>5. Placed(recs, own.writeBit)
      <4>1. ASSUME NEW i \in 1 .. Len(recs)
            PROVE  /\ recs[i].start <= Follows(recs, own.writeBit, i)
                   /\ recs[i].start + Size(recs[i].item) = Follows(recs, own.writeBit, i)
        BY <3>2, <3>3, <3>4
      <4> QED BY <2>5, <3>4, <4>1 DEF Placed
    <3>6. Holds(own.data, recs, TRUE)
      BY <2>4, <2>5, <3>1, <3>2 DEF Holds
    <3> QED BY <3>5, <3>6
  <2>9. Internal(own, recs, header)
    BY <1>1, <2>5, <2>7, <2>8 DEF Internal, SameFields
  <2> QED BY <1>2, <1>3, <2>9
<1> QED BY <1>4, <1>5

\* The application's items, moved behind those.
Moved(its, shift) == [i \in DOMAIN its |-> [its[i] EXCEPT !.start = @ + shift]]

\* The items of an appended message, behind the ones it is appended to.
LEMMA MovedIs ==
  ASSUME NEW its \in Seq(Records), NEW shift \in Nat, NEW first \in Seq(Records)
  PROVE  Behind(first \o Moved(its, shift), first, its, shift)
<1>0. PICK moved : moved = Moved(its, shift)
  OBVIOUS
<1>1. /\ Len(its) \in Nat /\ DOMAIN its = 1 .. Len(its)
      /\ \A i \in 1 .. Len(its) : its[i] \in Records
  BY RecordIs
<1>2. ASSUME NEW i \in 1 .. Len(its)
      PROVE  /\ moved[i] \in Records /\ moved[i].item = its[i].item /\ moved[i].held = its[i].held
             /\ moved[i].start = its[i].start + shift
  <2>1. PICK x \in Records : x = its[i]
    BY <1>1
  <2>2. moved[i] = [x EXCEPT !.start = @ + shift]
    BY <1>0, <1>1, <2>1 DEF Moved
  <2>5. PICK at \in Nat : at = x.start + shift
    BY DEF Records
  <2>3. PICK y : y = [x EXCEPT !.start = at]
    OBVIOUS
  <2>6. moved[i] = y
    BY <2>2, <2>3, <2>5
  <2>4. y \in Records /\ y.item = x.item /\ y.held = x.held /\ y.start = at
    BY <2>3 DEF Records
  <2> QED BY <2>1, <2>4, <2>5, <2>6
<1>3. moved \in Seq(Records) /\ Len(moved) = Len(its)
  <2>1. moved \in [1 .. Len(its) -> Records]
    <3>1. moved = [i \in 1 .. Len(its) |-> moved[i]]
      BY <1>0, <1>1 DEF Moved
    <3> QED BY <1>2, <3>1
  <2> QED BY <1>1, <2>1, FunctionIsSeq
<1>5. PICK t : t = first \o moved
  OBVIOUS
<1>4. /\ t \in Seq(Records) /\ Len(t) = Len(first) + Len(moved)
      /\ \A i \in 1 .. Len(first) : t[i] = first[i]
      /\ \A i \in 1 .. Len(moved) : t[Len(first) + i] = moved[i]
  <2>1. /\ first \o moved \in Seq(Records) /\ Len(first \o moved) = Len(first) + Len(moved)
        /\ \A i \in 1 .. Len(first) : (first \o moved)[i] = first[i]
        /\ \A i \in 1 .. Len(moved) : (first \o moved)[Len(first) + i] = moved[i]
    <3>1. moved \in Seq(Records)
      BY <1>3
    <3> QED BY <3>1, SeqConcat
  <2> QED BY <1>5, <2>1
<1>6. Behind(t, first, its, shift)
  BY <1>2, <1>3, <1>4 DEF Behind
<1> QED BY <1>0, <1>5, <1>6

\* The message is appended to one of the peer's own, bit by bit, and that one is sent.
LEMMA SendAppendedHolds ==
  ASSUME Inv, NEW header \in {Connect, Disconnect}, NEW first \in {<<>>, <<Kicked>>}, SendAppended(header, first)
  PROVE  Inv'
<1>2. PICK own : own = Own(header, first)
  OBVIOUS
<1>3. PICK recs : recs = RecordsOf(first)
  OBVIOUS
<1>5. /\ sentAs = Unsent /\ message' = AppendMessage(own, message) /\ ~message'.raised
      /\ items' = recs \o Moved(items, own.writeBit)
      /\ received' = FromBytestream(CreateBytestream(message'))
      /\ sentAs' = header /\ replaced' = replaced /\ relayed' = relayed /\ gets' = gets
  BY <1>2, <1>3 DEF SendAppended, Own, Empty, RecordsOf, Moved
<1>6. /\ Typed /\ Placed(items, message.writeBit) /\ Holds(message.data, items, TRUE)
  BY <1>5 DEF Inv, Written
<1>7. /\ message \in Messages /\ items \in Seq(Records) /\ message.writeBit \in Nat
      /\ gets = <<>> /\ relayed = FALSE /\ replaced \in 0 .. MaxReplaced
  BY <1>5, <1>6, MessageIs DEF Typed
<1>8. header \in Nat /\ ~HasMessageID(header) /\ ~HasSequenceID(header)
  BY DEF HasMessageID, HasSequenceID, Unreliable, Reliable, Connect, Disconnect
<1>9. /\ own \in Messages /\ own.header = header /\ own.msgID = 0 /\ own.seqID = 0 /\ own.readBit = 0
      /\ recs \in Seq(Records)
      /\ ~own.raised => Placed(recs, own.writeBit) /\ Holds(own.data, recs, TRUE)
  <2>1. Internal(Own(header, first), RecordsOf(first), header)
    BY <1>8, OwnIs
  <2> QED BY <1>2, <1>3, <2>1 DEF Internal
<1>10. Joined(own, message, message')
  BY <1>5, <1>7, <1>9, AppendMessageIs
<1>11. PICK shift \in Nat : shift = own.writeBit
  BY <1>9, MessageIs
<1>12. /\ message' \in Messages /\ SameFields(own, message') /\ ~own.raised
       /\ message'.writeBit = shift + message.writeBit /\ message'.writeBit <= MaxBits
       /\ SameBelow(own.data, message'.data, shift)
       /\ \A k \in 1 .. message.writeBit : message'.data[shift + k] = message.data[k]
  BY <1>5, <1>10, <1>11 DEF Joined
<1>13. Behind(items', recs, items, shift)
  <2>1. Behind(recs \o Moved(items, shift), recs, items, shift)
    BY <1>7, <1>9, MovedIs
  <2> QED BY <1>5, <1>11, <2>1
<1>14. /\ Sendable(message') /\ message'.header = header /\ message'.readBit = 0
  BY <1>8, <1>9, <1>12 DEF Sendable, SameFields
<1>15. Arrives(message', received')
  BY <1>5, <1>14, Travels
<1>16. Placed(recs, shift) /\ Holds(own.data, recs, TRUE)
  BY <1>9, <1>11, <1>12
<1>17. Placed(items', message'.writeBit)
  <2>1. Placed(items', shift + message.writeBit)
    BY <1>6, <1>7, <1>9, <1>13, <1>16, BothPlaced
  <2> QED BY <1>12, <2>1
<1>18. Holds(received'.data, items', FALSE)
  <2>1. PICK after : after = received'.data
    OBVIOUS
  <2>2. PICK end \in Nat : end = message'.writeBit /\ end = shift + message.writeBit
    BY <1>7, <1>12
  <2>3. Len(after) \in Nat /\ shift + message.writeBit <= Len(after) /\ \A k \in 1 .. end : after[k] = message'.data[k]
    <3>1. /\ received' \in Messages /\ 8 * BytesNeeded(end) <= Len(after)
          /\ \A k \in 1 .. end : after[k] = message'.data[k]
      BY <1>15, <2>1, <2>2 DEF Arrives
    <3>2. Len(after) \in Nat
      BY <2>1, <3>1, MessageIs
    <3>3. end <= 8 * BytesNeeded(end) /\ BytesNeeded(end) \in Nat
      BY Rounded
    <3>4. end <= Len(after)
      BY <3>1, <3>2, <3>3
    <3> QED BY <2>2, <3>1, <3>2, <3>4
  <2>4. ASSUME NEW k \in 1 .. shift PROVE after[0 + k] = own.data[k]
    <3>1. Len(own.data) \in Nat /\ shift <= Len(own.data)
      BY <1>9, <1>11, MessageIs
    <3>2. k \in 1 .. end /\ k \in 1 .. Len(own.data) /\ k <= shift
      BY <1>7, <2>2, <3>1
    <3> QED BY <1>12, <2>3, <3>2 DEF SameBelow
  <2>5. ASSUME NEW k \in 1 .. message.writeBit PROVE after[shift + k] = message.data[k]
    <3>1. PICK j \in 1 .. end : j = shift + k
      BY <1>7, <2>2
    <3>2. after[j] = message'.data[j]
      BY <2>3
    <3>3. message'.data[shift + k] = message.data[k]
      BY <1>12
    <3> QED BY <3>1, <3>2, <3>3
  <2>6. Holds(after, items', FALSE)
    <3>1. Copied(after, 0, own.data, shift)
      BY <1>7, <2>3, <2>4 DEF Copied
    <3>2. Copied(after, shift, message.data, message.writeBit)
      BY <2>3, <2>5 DEF Copied
    <3>4. Placed(items, message.writeBit) /\ Holds(message.data, items, TRUE)
      BY <1>6
    <3>5. items \in Seq(Records) /\ recs \in Seq(Records) /\ message.writeBit \in Nat
      BY <1>7, <1>9
    <3> QED BY <1>13, <1>16, <3>1, <3>2, <3>4, <3>5, BothGo
  <2> QED BY <2>1, <2>6
<1>19. items' \in Seq(Records) /\ CapacityHeld'
  BY <1>12, <1>13 DEF Behind, CapacityHeld
<1>20. header \in {Unreliable, Connect, Disconnect, Reliable}
  OBVIOUS
<1> QED BY <1>5, <1>7, <1>14, <1>15, <1>17, <1>18, <1>19, <1>20, SentHolds

\* A bit without a byte: it is not the first of one, and no byte follows.
LEMMA NoByte ==
  ASSUME NEW s \in Nat, NEW w \in Nat, NEW data, Len(data) \in Nat, s + 1 <= w,
         8 * BytesNeeded(w) <= Len(data), ~HasByte(data, s)
  PROVE  s % 8 # 0 /\ BytesNeeded(w) = BytesNeeded(s)
<1>1. PICK q \in Nat, r \in 0 .. 7 : s = 8 * q + r /\ q = s \div 8 /\ r = s % 8
  <2>1. s \div 8 \in Nat /\ s % 8 \in 0 .. 7 /\ s = 8 * (s \div 8) + (s % 8)
    OBVIOUS
  <2> QED BY <2>1
<1>2. PICK b \in Nat : b = BytesNeeded(w) /\ BytesNeeded(s + 1) <= b
  BY BytesMonotone
<1>3. BytesNeeded(s + 1) = q + 1
  <2>1. BytesNeeded(s + 1) = (s + 8) \div 8
    BY DEF BytesNeeded, BITS_PER_BYTE
  <2>2. s + 8 = 8 * (q + 1) + r
    BY <1>1
  <2>3. (8 * (q + 1) + r) \div 8 = q + 1
    OBVIOUS
  <2> QED BY <2>1, <2>2, <2>3
<1>4. 8 * q + (IF r = 0 THEN 8 ELSE 16) > Len(data)
  BY <1>1 DEF HasByte
<1>5. 8 * (q + 1) <= Len(data) /\ 8 * b <= Len(data)
  BY <1>2, <1>3
<1>6. r # 0 /\ b = q + 1
  BY <1>2, <1>3, <1>4, <1>5
<1>7. BytesNeeded(s) = q + 1
  <2>1. BytesNeeded(s) = (s + 7) \div 8
    BY DEF BytesNeeded, BITS_PER_BYTE
  <2>2. PICK k \in 0 .. 7 : k = r - 1
    BY <1>6
  <2>3. s + 7 = 8 * (q + 1) + k
    BY <1>1, <2>2
  <2>4. (8 * (q + 1) + k) \div 8 = q + 1
    OBVIOUS
  <2> QED BY <2>1, <2>3, <2>4
<1> QED BY <1>1, <1>2, <1>6, <1>7

\* The items up to the next to be got are held.
LEMMA NextIsWhole ==
  ASSUME NEW i \in Nat, \A j \in 1 .. i : Intact(j)
  PROVE  Whole(items, i, sentAs = Local)
  BY DEF Intact, Whole, BoolArray

\* A get goes on where the last one ended, which is where the next item starts.
LEMMA NextIsThere ==
  ASSUME Typed, Placed(items, message.writeBit), Read, sentAs # Unsent, ~relayed, ~received.raised,
         NEW i \in 1 .. Len(items), i = Len(gets) + 1, Whole(items, i, sentAs = Local)
  PROVE  received.readBit = items[i].start
<1>1. /\ items \in Seq(Records) /\ gets \in Seq([raised : BOOLEAN, elements : Seq(Seq(Nat))])
      /\ received.readBit = IF gets = <<>> THEN 0 ELSE items[Len(gets)].start + Size(items[Len(gets)].item)
  BY DEF Typed, Read
<1>2. Len(items) \in Nat /\ Len(gets) \in Nat
  BY <1>1, RecordIs, LenProperties
<1>3. CASE gets = <<>>
  <2>1. i = 1
    BY <1>3, EmptySeq
  <2> QED BY <1>1, <1>2, <1>3, <2>1 DEF Placed
<1>4. CASE gets # <<>>
  <2>1. Len(gets) # 0
    BY <1>1, <1>4, EmptySeq
  <2>2. PICK n \in 1 .. Len(items) : n = Len(gets) /\ n + 1 = i
    BY <1>2, <2>1
  <2>3. items[n].held /\ ~BoolArray(items[n].item)
    <3>1. n \in 1 .. i /\ Len(items) # 1
      BY <1>2, <2>2
    <3> QED BY <3>1 DEF Whole
  <2>4. items[n].start + Size(items[n].item) = Follows(items, message.writeBit, n)
    BY <2>3 DEF Placed
  <2>5. Follows(items, message.writeBit, n) = items[i].start
    BY <1>2, <2>2 DEF Follows
  <2> QED BY <1>1, <1>4, <2>2, <2>4, <2>5
<1> QED BY <1>3, <1>4

\* A bool that cannot be got is the last of the message, and does not begin a byte.
LEMMA Lone ==
  ASSUME Typed, Placed(items, message.writeBit), Arrived, sentAs # Unsent, ~relayed,
         NEW i \in 1 .. Len(items), Whole(items, i, sentAs = Local),
         items[i].item.type = "Bool", ~items[i].item.array, ~HasByte(received.data, items[i].start)
  PROVE  LoneBool(i)
<1>1. items \in Seq(Records) /\ message \in Messages /\ received \in Messages
  BY DEF Typed
<1>2. /\ IsData(received.data) /\ Len(received.data) \in Nat /\ message.writeBit \in Nat
      /\ items[i].start \in Nat /\ Len(items) \in Nat
  BY <1>1, MessageIs, RecordIs
<1>3. items[i].held /\ ~BoolArray(items[i].item) /\ Size(items[i].item) = 1 /\ Extent(items[i].item) = 8
  <2>1. i \in 1 .. i
    BY <1>2
  <2> QED BY <2>1 DEF Whole, BoolArray, Size, Extent
<1>4. items[i].start + 1 <= message.writeBit
  BY <1>1, <1>2, <1>3, Ends
<1>5. sentAs # Local
  <2> SUFFICES ASSUME sentAs = Local PROVE FALSE
    OBVIOUS
  <2>1. items[i].start + 8 <= Len(received.data)
    BY <1>3 DEF Arrived, Roomy
  <2> QED BY <1>2, <2>1, ByteThere
<1>6. 8 * BytesNeeded(message.writeBit) <= Len(received.data)
  BY <1>5 DEF Arrived
<1>7. items[i].start % 8 # 0 /\ BytesNeeded(message.writeBit) = BytesNeeded(items[i].start)
  BY <1>2, <1>4, <1>6, NoByte
<1> QED BY <1>5, <1>7 DEF LoneBool, BITS_PER_BYTE

\* The next item is got: it is read where it starts, and the get ends where the next starts.
LEMMA GetNextHolds ==
  ASSUME Inv, GetNext
  PROVE  Inv'
<1>1. PICK i : i = Len(gets) + 1
  OBVIOUS
<1>2. PICK got : got = Get(received, items[i].item)
  OBVIOUS
<1>3. PICK g : g = [raised |-> got.message.raised, elements |-> got.elements]
  OBVIOUS
<1>4. /\ sentAs # Unsent /\ ~received.raised /\ Len(gets) < Len(items) /\ (\A j \in 1 .. i : Intact(j))
      /\ received' = got.message /\ gets' = Append(gets, g)
      /\ message' = message /\ items' = items /\ replaced' = replaced /\ sentAs' = sentAs /\ relayed' = relayed
  BY <1>1, <1>2, <1>3 DEF GetNext
<1>5. /\ Typed /\ Placed(items, message.writeBit) /\ Written /\ Addressed /\ Arrived /\ Read
      /\ ReadsWhatWasPut /\ CapacityHeld
  BY DEF Inv
<1>6. /\ items \in Seq(Records) /\ received \in Messages /\ relayed \in BOOLEAN
      /\ gets \in Seq([raised : BOOLEAN, elements : Seq(Seq(Nat))])
      /\ (relayed => sentAs \in {Unreliable, Reliable})
  BY <1>5 DEF Typed
<1>7. Len(gets) \in Nat /\ Len(items) \in Nat /\ i \in 1 .. Len(items) /\ i \in Nat /\ DOMAIN gets = 1 .. Len(gets)
  BY <1>1, <1>4, <1>6, RecordIs, LenProperties
<1>8. Whole(items, i, sentAs = Local)
  BY <1>4, <1>7, NextIsWhole
<1>9. items[i].held /\ IsItem(items[i].item) /\ (BoolArray(items[i].item) => sentAs = Local /\ Len(items) = 1)
  <2>1. i \in 1 .. i
    BY <1>7
  <2> QED BY <1>6, <1>7, <1>8, <2>1, RecordIs DEF Whole
<1>10. ~relayed => received.readBit = items[i].start
  BY <1>1, <1>4, <1>5, <1>7, <1>8, NextIsThere
<1>11. BoolArray(items[i].item) => received.readBit = 0
  <2> SUFFICES ASSUME BoolArray(items[i].item) PROVE received.readBit = 0
    OBVIOUS
  <2>0. sentAs = Local /\ Len(items) = 1
    BY <1>9
  <2>1. sentAs = Local /\ i = 1
    BY <1>7, <2>0
  <2>2. ~relayed
    BY <1>6, <2>1 DEF Local, Unreliable, Reliable
  <2>3. items[1].start = 0
    BY <1>5, <1>7 DEF Placed
  <2> QED BY <1>10, <2>1, <2>2, <2>3
<1>12. /\ Gets(received, got)
       /\ HoldsItem(received.data, received.readBit, items[i].item) =>
             \/ GetsAll(received, got, ReturnedElements(items[i].item, received.readBit), Size(items[i].item))
             \/ /\ got.message.raised /\ items[i].item.type = "Bool" /\ ~items[i].item.array
                /\ ~HasByte(received.data, received.readBit)
  <2>1. PICK item : item = items[i].item
    OBVIOUS
  <2>2. IsItem(item) /\ (item.type = "Bool" /\ item.array => received.readBit = 0) /\ got = Get(received, item)
    BY <1>2, <1>9, <1>11, <2>1 DEF BoolArray
  <2>3. /\ Gets(received, got)
        /\ ~received.raised /\ HoldsItem(received.data, received.readBit, item) =>
              \/ GetsAll(received, got, ReturnedElements(item, received.readBit), Size(item))
              \/ got.message.raised /\ item.type = "Bool" /\ ~item.array /\ ~HasByte(received.data, received.readBit)
    BY <1>6, <2>2, GetIs
  <2> QED BY <1>4, <2>1, <2>3
<1>13. /\ got.message \in Messages /\ got.message.raised \in BOOLEAN /\ got.elements \in Seq(Seq(Nat))
       /\ received'.data = received.data /\ received'.header = received.header
       /\ received'.msgID = received.msgID /\ received'.seqID = received.seqID
  BY <1>4, <1>12, MessageIs DEF Gets
<1>14. /\ g \in [raised : BOOLEAN, elements : Seq(Seq(Nat))]
       /\ g.raised = received'.raised /\ g.elements = got.elements
  BY <1>3, <1>4, <1>13
<1>15. /\ gets' \in Seq([raised : BOOLEAN, elements : Seq(Seq(Nat))]) /\ Len(gets') = i
       /\ DOMAIN gets' = 1 .. i /\ gets'[i] = g
       /\ \A k \in 1 .. Len(gets) : gets'[k] = gets[k]
  BY <1>1, <1>4, <1>6, <1>14, SeqAppend
<1>16. ~relayed => IF received'.raised THEN LoneBool(i)
                   ELSE /\ g.elements = ReturnedElements(items[i].item, items[i].start)
                        /\ received'.readBit = items[i].start + Size(items[i].item)
  <2> SUFFICES ASSUME ~relayed
               PROVE  IF received'.raised THEN LoneBool(i)
                      ELSE /\ g.elements = ReturnedElements(items[i].item, items[i].start)
                           /\ received'.readBit = items[i].start + Size(items[i].item)
    OBVIOUS
  <2>1. HoldsItem(received.data, received.readBit, items[i].item) /\ received.readBit = items[i].start
    BY <1>4, <1>5, <1>7, <1>8, <1>10 DEF Arrived, Holds
  <2>2. CASE GetsAll(received, got, ReturnedElements(items[i].item, received.readBit), Size(items[i].item))
    BY <1>4, <1>14, <2>1, <2>2 DEF GetsAll
  <2>3. CASE /\ got.message.raised /\ items[i].item.type = "Bool" /\ ~items[i].item.array
             /\ ~HasByte(received.data, received.readBit)
    <3>1. LoneBool(i)
      BY <1>4, <1>5, <1>7, <1>8, <2>1, <2>3, Lone
    <3> QED BY <1>4, <2>3, <3>1
  <2> QED BY <1>12, <2>1, <2>2, <2>3
<1>17. Typed'
  <2>1. gets' \in Seq([raised : BOOLEAN, elements : Seq(Seq(Nat))]) /\ Len(gets') <= Len(items')
    BY <1>4, <1>7, <1>15
  <2>2. received' \in Messages
    BY <1>4, <1>13
  <2> QED BY <1>4, <1>5, <2>1, <2>2 DEF Typed
<1>18. Placed(items, message.writeBit)' /\ Written' /\ CapacityHeld'
  BY <1>4, <1>5 DEF Written, CapacityHeld
<1>19. Addressed' /\ Arrived'
  BY <1>4, <1>5, <1>13 DEF Addressed, Arrived
<1>20. Read'
  <2>1. gets' # <<>>
    BY <1>7, <1>15, EmptySeq
  <2>2. Whole(items', Len(gets'), sentAs' = Local)
    BY <1>4, <1>8, <1>15
  <2>3. ~relayed' /\ ~received'.raised =>
            received'.readBit = items'[Len(gets')].start + Size(items'[Len(gets')].item)
    BY <1>4, <1>15, <1>16
  <2> QED BY <2>1, <2>2, <2>3 DEF Read
<1>21. ReadsWhatWasPut'
  <2>1. \A k \in 1 .. i : LoneBool(k)' = LoneBool(k)
    BY <1>4 DEF LoneBool
  <2>2. ASSUME NEW k \in 1 .. i, ~relayed
        PROVE  IF gets'[k].raised THEN LoneBool(k)
               ELSE gets'[k].elements = ReturnedElements(items[k].item, items[k].start)
    <3>1. CASE k = i
      BY <1>14, <1>15, <1>16, <2>2, <3>1
    <3>2. CASE k # i
      <4>1. k \in DOMAIN gets /\ gets'[k] = gets[k]
        BY <1>1, <1>7, <1>15, <3>2
      <4> QED BY <1>5, <2>2, <4>1 DEF ReadsWhatWasPut
    <3> QED BY <3>1, <3>2
  <2> QED BY <1>4, <1>15, <2>1, <2>2 DEF ReadsWhatWasPut
<1> QED BY <1>17, <1>18, <1>19, <1>20, <1>21 DEF Inv

\* Every step keeps the invariant.
LEMMA StepHolds ==
  ASSUME Inv, [Next]_vars
  PROVE  Inv'
<1>1. ASSUME NEW item \in Items, PutItem(item) PROVE Inv'
  BY <1>1, PutItemHolds
<1>2. ASSUME NEW i \in DOMAIN items, NEW item \in Items, Replace(i, item) PROVE Inv'
  BY <1>2, ReplaceHolds
<1>3. ASSUME NEW header \in {Unreliable, Reliable}, NEW id \in MessageIDs, Send(header, id) PROVE Inv'
  BY <1>3, SendHolds
<1>4. CASE SendAppended(Connect, <<>>)
  BY <1>4, SendAppendedHolds
<1>5. CASE SendAppended(Disconnect, <<Kicked>>)
  BY <1>5, SendAppendedHolds
<1>6. CASE ReadLocally
  BY <1>6, ReadLocallyHolds
<1>7. CASE Relay
  BY <1>7, RelayHolds
<1>8. CASE GetNext
  BY <1>8, GetNextHolds
<1>9. CASE UNCHANGED vars
  BY <1>9 DEF vars, Inv, Typed, Written, Addressed, Arrived, Read, ReadsWhatWasPut, LoneBool, CapacityHeld
<1> QED BY <1>1, <1>2, <1>3, <1>4, <1>5, <1>6, <1>7, <1>8, <1>9 DEF Next

\* The invariant holds in every state of every behaviour.
THEOREM InvHolds == Spec => []Inv
<1>1. Init => Inv
  BY InitHolds
<1>2. Inv /\ [Next]_vars => Inv'
  BY StepHolds
<1> QED BY <1>1, <1>2, PTL DEF Spec

\* The payload of a message is whole bytes, and neither of its positions is beyond it.
LEMMA MessagesAre ==
  ASSUME NEW m \in Messages
  PROVE  IsMessage(m)
<1>1. /\ m.data \in Seq({0, 1}) /\ Len(m.data) \in Nat /\ Len(m.data) % 8 = 0
      /\ m.readBit \in Nat /\ m.writeBit \in Nat /\ m.raised \in BOOLEAN
      /\ m.readBit <= Len(m.data) /\ m.writeBit <= Len(m.data)
  BY MessageIs
<1>2. Len(m.data) % BITS_PER_BYTE = 0
  BY <1>1 DEF BITS_PER_BYTE
<1>3. m.readBit \in 0 .. Len(m.data) /\ m.writeBit \in 0 .. Len(m.data)
  BY <1>1
<1> QED BY <1>1, <1>2, <1>3, Zenon DEF IsMessage

\* The payload of a message stays whole bytes, with both of its positions within them,
\* whatever is put, appended, sent and got: no put of message.py writes, and no get reads,
\* beyond the bytearray.
THEOREM TypeOKHolds == Spec => []TypeOK
<1>1. Inv => TypeOK
  BY MessagesAre DEF Inv, Typed, TypeOK, Records
<1> QED BY <1>1, InvHolds, PTL

\* What is got from a message is what was put into it, for all items, IDs and limits, but
\* for empty strings that do not begin a byte, which are got as the byte of their length: the
\* put and get methods of message.py agree on the layout, a put over an earlier item or one
\* that raises leaves the other items alone, appending moves all of them by the same bits,
\* and the bytestream carries them; only the get of a lone bool raises.  What follows an
\* item that the message does not hold, or an array of bools that is not alone, is not got.
THEOREM ReadsWhatWasPutHolds == Spec => []ReadsWhatWasPut
<1>1. Inv => ReadsWhatWasPut
  BY DEF Inv
<1> QED BY <1>1, InvHolds, PTL

\* Header, message ID and sequence ID that createBytestream writes are the ones that
\* fromBytestream reads, also when the message is relayed, for all IDs.
THEOREM HeadersArriveHolds == Spec => []HeadersArrive
<1>1. Inv => HeadersArrive
  BY DEF Inv, Addressed, HeadersArrive
<1> QED BY <1>1, InvHolds, PTL

\* A message whose puts all succeeded, none an array of strings, is written up to its
\* capacity at most, for all items and capacities: the checks that the puts of message.py
\* make element by element add up.
THEOREM CapacityHeldHolds == Spec => []CapacityHeld
<1>1. Inv => CapacityHeld
  BY DEF Inv
<1> QED BY <1>1, InvHolds, PTL
=============================================================================
