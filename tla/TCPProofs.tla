----------------------------- MODULE TCPProofs -----------------------------
(***************************************************************************)
(* Messages over TCP, for any threads, connections and messages, and any   *)
(* room in the sockets.                                                    *)
(*                                                                         *)
(* What the receiving end has of a message that is not complete, and what  *)
(* is on the wire behind it, is one stream of bytes.  As long as no bytes  *)
(* are out of place each byte of it follows from the one before it         *)
(* (Chain), a thread in the middle of a message goes on where the stream   *)
(* ends (EndsRight), and the messages that end in the stream lead from     *)
(* what is handed up to what the socket took (Carries).  The receiver      *)
(* moves bytes within the stream, or takes its first message off.          *)
(***************************************************************************)
EXTENDS TCPStream, SequenceLemmas

\* Bytes behind the size and with it.
Size(m) == SizeBytes + Length[m]

Byte == [of : Messages, at : Nat]

\* The last byte of a message.
AtEnd(b) == b.at = Size(b.of)

Frame(m) == SizeField(m) \o Payload(m)

\* The stream begins with a message, and each byte is the next of its message, or the
\* first of another.
Chain(s) ==
    /\ s # <<>> => s[1].at = 1
    /\ \A p \in 1 .. Len(s) - 1 :
           IF AtEnd(s[p]) THEN s[p + 1].at = 1
           ELSE s[p + 1] = [of |-> s[p].of, at |-> s[p].at + 1]

\* The messages that end in the stream lead from "before" to "after".
Carries(s, before, after) ==
    \E h \in [0 .. Len(s) -> Seq(Messages)] :
        /\ h[0] = before /\ h[Len(s)] = after
        /\ \A p \in 1 .. Len(s) :
               h[p] = IF AtEnd(s[p]) THEN Take(h[p - 1], s[p].of) ELSE h[p - 1]

\* Message m can go on behind k of its bytes.
Joins(s, m, k) ==
    IF k = 0 THEN s # <<>> => AtEnd(s[Len(s)])
    ELSE s # <<>> /\ s[Len(s)] = [of |-> m, at |-> k]

-----------------------------------------------------------------------------
(* Messages and their bytes.                                               *)

\* A message has a length, and is longer with its size.
LEMMA Sizes ==
  ASSUME NEW m \in Messages
  PROVE  /\ Length[m] \in Nat \ {0} /\ SizeBytes \in Nat \ {0}
         /\ Size(m) \in Nat \ {0} /\ Size(m) = SizeBytes + Length[m]
         /\ m \in Nat \ {0} /\ Target[m] \in Connections
  BY TCPAssumption, LenProperties, ElementOfSeq DEF Messages, Size

\* A function on the first n numbers is a sequence.
LEMMA Listed ==
  ASSUME NEW n \in Nat, NEW S, NEW f, \A i \in 1 .. n : f[i] \in S,
         f = [i \in 1 .. n |-> f[i]]
  PROVE  f \in Seq(S) /\ Len(f) = n
<1>1. [i \in 1 .. n |-> f[i]] \in Seq(S)
  OBVIOUS
<1>2. f \in Seq(S)
  BY <1>1
<1>3. DOMAIN [i \in 1 .. n |-> f[i]] = 1 .. n
  OBVIOUS
<1>4. DOMAIN f = 1 .. n
  BY <1>3
<1> QED BY <1>2, <1>4, LenProperties

\* The bytes of a function on the first n numbers are a sequence.
LEMMA BytesInSeq ==
  ASSUME NEW m \in Messages, NEW k \in Nat, NEW n \in Nat,
         NEW b, b = [i \in 1 .. n |-> [of |-> m, at |-> k + i]]
  PROVE  b \in Seq(Byte) /\ Len(b) = n /\ \A i \in 1 .. n : b[i] = [of |-> m, at |-> k + i]
<1>1. \A i \in 1 .. n : b[i] = [of |-> m, at |-> k + i] /\ b[i] \in Byte
  BY DEF Byte
<1>2. b \in [1 .. n -> Byte]
  BY <1>1
<1>3. b = [i \in 1 .. n |-> b[i]]
  BY <1>2
<1>4. \A i \in 1 .. n : b[i] \in Byte
  BY <1>1
<1>5. b \in Seq(Byte) /\ Len(b) = n
  BY <1>3, <1>4, Listed
<1> QED BY <1>1, <1>5

\* The bytes of a message, in order.
LEMMA FrameBytes ==
  ASSUME NEW m \in Messages
  PROVE  /\ SizeField(m) \in Seq(Byte) /\ Len(SizeField(m)) = SizeBytes
         /\ \A i \in 1 .. SizeBytes : SizeField(m)[i] = [of |-> m, at |-> i]
         /\ Payload(m) \in Seq(Byte) /\ Len(Payload(m)) = Length[m]
         /\ \A i \in 1 .. Length[m] : Payload(m)[i] = [of |-> m, at |-> SizeBytes + i]
         /\ Frame(m) \in Seq(Byte) /\ Len(Frame(m)) = Size(m)
         /\ \A i \in 1 .. Size(m) : Frame(m)[i] = [of |-> m, at |-> i]
<1>0. Length[m] \in Nat \ {0} /\ SizeBytes \in Nat \ {0} /\ Size(m) = SizeBytes + Length[m]
  BY Sizes
<1>1. /\ SizeField(m) \in Seq(Byte) /\ Len(SizeField(m)) = SizeBytes
      /\ \A i \in 1 .. SizeBytes : SizeField(m)[i] = [of |-> m, at |-> i]
  <2> DEFINE b == SizeField(m)
             k == 0
  <2>1. b = [i \in 1 .. SizeBytes |-> [of |-> m, at |-> k + i]] /\ k \in Nat
    BY <1>0 DEF SizeField
  <2> HIDE DEF b, k
  <2>2. /\ b \in Seq(Byte) /\ Len(b) = SizeBytes
        /\ \A i \in 1 .. SizeBytes : b[i] = [of |-> m, at |-> k + i]
    BY <2>1, <1>0, BytesInSeq
  <2>3. \A i \in 1 .. SizeBytes : k + i = i
    BY <1>0 DEF k
  <2> QED BY <2>2, <2>3 DEF b
<1>2. /\ Payload(m) \in Seq(Byte) /\ Len(Payload(m)) = Length[m]
      /\ \A i \in 1 .. Length[m] : Payload(m)[i] = [of |-> m, at |-> SizeBytes + i]
  BY <1>0, BytesInSeq DEF Payload
<1>3. /\ Frame(m) \in Seq(Byte) /\ Len(Frame(m)) = Size(m)
      /\ \A i \in 1 .. Size(m) :
             Frame(m)[i] = IF i <= SizeBytes THEN SizeField(m)[i] ELSE Payload(m)[i - SizeBytes]
  <2> DEFINE a == SizeField(m)
             b == Payload(m)
  <2>1. Frame(m) = a \o b
    BY DEF Frame
  <2> HIDE DEF a, b
  <2>2. a \in Seq(Byte) /\ b \in Seq(Byte) /\ Len(a) = SizeBytes /\ Len(b) = Length[m]
    BY <1>1, <1>2 DEF a, b
  <2>3. /\ a \o b \in Seq(Byte) /\ Len(a \o b) = Size(m)
        /\ \A i \in 1 .. Size(m) : (a \o b)[i] = IF i <= SizeBytes THEN a[i] ELSE b[i - SizeBytes]
    <3>1. /\ a \o b \in Seq(Byte) /\ Len(a \o b) = Len(a) + Len(b)
          /\ \A i \in 1 .. Len(a) + Len(b) :
                 (a \o b)[i] = IF i <= Len(a) THEN a[i] ELSE b[i - Len(a)]
      BY <2>2, ConcatProperties
    <3> QED BY <3>1, <2>2, <1>0
  <2> QED BY <2>1, <2>3 DEF a, b
<1>4. \A i \in 1 .. Size(m) : Frame(m)[i] = [of |-> m, at |-> i]
  <2> TAKE i \in 1 .. Size(m)
  <2>1. CASE i <= SizeBytes
    BY <2>1, <1>0, <1>1, <1>3
  <2>2. CASE ~(i <= SizeBytes)
    <3>1. i - SizeBytes \in 1 .. Length[m] /\ SizeBytes + (i - SizeBytes) = i
      BY <2>2, <1>0
    <3> QED BY <2>2, <3>1, <1>2, <1>3
  <2> QED BY <2>1, <2>2
<1> QED BY <1>1, <1>2, <1>3, <1>4

\* One more message at the end, or none.
LEMMA TakeType ==
  ASSUME NEW S, NEW a \in Seq(S), NEW m \in S
  PROVE  Take(a, m) \in Seq(S) /\ Len(a) \in Nat /\ Len(Take(a, m)) \in Nat
         /\ Len(a) <= Len(Take(a, m)) /\ \A i \in 1 .. Len(a) : Take(a, m)[i] = a[i]
  BY AppendProperties, LenProperties DEF Take

\* A prefix, by its elements.
LEMMA PrefixByElements ==
  ASSUME NEW S, NEW a \in Seq(S), NEW b \in Seq(S)
  PROVE  IsPrefix(a, b) <=> Len(a) <= Len(b) /\ \A i \in 1 .. Len(a) : a[i] = b[i]
<1>1. Len(a) \in Nat /\ Len(b) \in Nat /\ DOMAIN a = 1 .. Len(a) /\ DOMAIN b = 1 .. Len(b)
  BY LenProperties
<1>2. SubSeq(a, 1, Len(a)) = a
  BY SubSeqFull
<1>3. ASSUME Len(a) <= Len(b)
      PROVE  SubSeq(b, 1, Len(a)) = a <=> \A i \in 1 .. Len(a) : a[i] = b[i]
  <2> DEFINE c == SubSeq(b, 1, Len(a))
  <2>1. c \in Seq(S) /\ Len(c) = Len(a) /\ \A i \in 1 .. Len(a) : c[i] = b[i]
    BY <1>1, <1>3, SeqPrefix
  <2> HIDE DEF c
  <2>2. (\A i \in 1 .. Len(c) : c[i] = a[i]) => c = a
    BY <2>1, SeqEqual
  <2> QED BY <2>1, <2>2 DEF c
<1> QED BY <1>2, <1>3 DEF IsPrefix

\* What leads from "before" to "after" only adds messages.
LEMMA CarriesPrefix ==
  ASSUME NEW s \in Seq(Byte), NEW before, NEW after, Carries(s, before, after)
  PROVE  /\ before \in Seq(Messages) /\ after \in Seq(Messages) /\ IsPrefix(before, after)
<1>0. Len(s) \in Nat /\ \A p \in 1 .. Len(s) : s[p].of \in Messages
  <2>1. \A p \in 1 .. Len(s) : s[p] \in Byte
    BY ElementOfSeq
  <2> QED BY <2>1, LenProperties DEF Byte
<1>1. PICK h \in [0 .. Len(s) -> Seq(Messages)] :
        /\ h[0] = before /\ h[Len(s)] = after
        /\ \A p \in 1 .. Len(s) :
               h[p] = IF AtEnd(s[p]) THEN Take(h[p - 1], s[p].of) ELSE h[p - 1]
  BY DEF Carries
<1> DEFINE Good(p) == Len(h[0]) <= Len(h[p]) /\ \A i \in 1 .. Len(h[0]) : h[p][i] = h[0][i]
           Bad == {p \in 0 .. Len(s) : ~Good(p)}
<1>2. Good(0)
  BY <1>0, LenProperties
<1>3. ASSUME NEW p \in 1 .. Len(s), Good(p - 1) PROVE Good(p)
  <2>1. p - 1 \in 0 .. Len(s) /\ p \in 0 .. Len(s) /\ 0 \in 0 .. Len(s)
    BY <1>0
  <2>2. h[p - 1] \in Seq(Messages) /\ h[0] \in Seq(Messages)
    BY <2>1
  <2>3. Len(h[0]) \in Nat /\ Len(h[p - 1]) \in Nat
    BY <2>2, LenProperties
  <2>4. CASE AtEnd(s[p])
    <3>1. h[p] = Take(h[p - 1], s[p].of) /\ s[p].of \in Messages
      BY <2>4, <1>0, <1>1
    <3>2. /\ Len(h[p]) \in Nat /\ Len(h[p - 1]) <= Len(h[p])
          /\ \A i \in 1 .. Len(h[p - 1]) : h[p][i] = h[p - 1][i]
      <4> DEFINE a == h[p - 1]
                 m == s[p].of
      <4>1. a \in Seq(Messages) /\ m \in Messages /\ h[p] = Take(a, m)
        BY <3>1, <2>2
      <4> HIDE DEF a, m
      <4>2. /\ Len(Take(a, m)) \in Nat /\ Len(a) <= Len(Take(a, m))
            /\ \A i \in 1 .. Len(a) : Take(a, m)[i] = a[i]
        BY <4>1, TakeType
      <4> QED BY <4>1, <4>2 DEF a
    <3> QED BY <1>3, <3>2, <2>3
  <2>5. CASE ~AtEnd(s[p])
    <3>1. h[p] = h[p - 1]
      BY <2>5, <1>1
    <3> QED BY <1>3, <3>1
  <2> QED BY <2>4, <2>5
<1>4. Bad = {}
  <2> SUFFICES ASSUME Bad # {} PROVE FALSE
    OBVIOUS
  <2>1. Bad \in SUBSET Nat
    BY <1>0
  <2>2. PICK p \in Bad : \A k \in Bad : p <= k
    <3> HIDE DEF Bad
    <3> QED BY <2>1, LeastElement
  <2>3. p \in 1 .. Len(s) /\ p - 1 \in 0 .. Len(s) /\ ~(p <= p - 1)
    BY <1>0, <1>2
  <2>4. Good(p - 1)
    BY <2>2, <2>3
  <2> QED BY <1>3, <2>3, <2>4
<1>5. Len(s) \in 0 .. Len(s) /\ 0 \in 0 .. Len(s)
  BY <1>0
<1>6. Good(Len(s))
  BY <1>4, <1>5
<1>7. before \in Seq(Messages) /\ after \in Seq(Messages)
  BY <1>1, <1>5
<1>8. Len(before) <= Len(after) /\ \A i \in 1 .. Len(before) : before[i] = after[i]
  BY <1>1, <1>6
<1> QED BY <1>7, <1>8, PrefixByElements

-----------------------------------------------------------------------------
(* Streams of bytes.                                                       *)

\* What the bytes of a stream are.
LEMMA StreamBytes ==
  ASSUME NEW s \in Seq(Byte)
  PROVE  /\ Len(s) \in Nat /\ DOMAIN s = 1 .. Len(s)
         /\ \A p \in 1 .. Len(s) : /\ s[p] \in Byte /\ s[p].of \in Messages /\ s[p].at \in Nat
                                   /\ s[p] = [of |-> s[p].of, at |-> s[p].at]
<1>1. \A p \in 1 .. Len(s) : s[p] \in Byte
  BY ElementOfSeq
<1> QED BY <1>1, LenProperties DEF Byte

\* The stream begins with the bytes of one message, as many as there are.
LEMMA FirstMessage ==
  ASSUME NEW s \in Seq(Byte), s # <<>>, Chain(s)
  PROVE  /\ Len(s) \in Nat \ {0} /\ s[1].of \in Messages
         /\ \A p \in 1 .. Len(s) : p <= Size(s[1].of) => s[p] = [of |-> s[1].of, at |-> p]
<1> DEFINE m == s[1].of
           Good(p) == p <= Size(m) => s[p] = [of |-> m, at |-> p]
           Bad == {p \in 1 .. Len(s) : ~Good(p)}
<1>1. Len(s) \in Nat \ {0} /\ 1 \in 1 .. Len(s)
  BY EmptySeq
<1>2. m \in Messages /\ s[1] = [of |-> m, at |-> 1]
  BY <1>1, StreamBytes DEF Chain
<1>3. Size(m) \in Nat
  BY <1>2, Sizes
<1>4. Good(1)
  BY <1>2
<1>5. ASSUME NEW p \in 1 .. Len(s), p # 1, Good(p - 1) PROVE Good(p)
  <2> SUFFICES ASSUME p <= Size(m) PROVE s[p] = [of |-> m, at |-> p]
    OBVIOUS
  <2> DEFINE q == p - 1
  <2>1. q \in 1 .. Len(s) - 1 /\ q <= Size(m) /\ q # Size(m) /\ q + 1 = p
    BY <1>1, <1>3, <1>5
  <2>2. s[q] = [of |-> m, at |-> q]
    BY <1>5, <2>1
  <2>3. ~AtEnd(s[q])
    BY <2>1, <2>2 DEF AtEnd
  <2>4. s[q + 1] = [of |-> s[q].of, at |-> s[q].at + 1]
    BY <2>1, <2>3 DEF Chain
  <2> QED BY <2>1, <2>2, <2>4
<1>6. Bad = {}
  <2> SUFFICES ASSUME Bad # {} PROVE FALSE
    OBVIOUS
  <2>1. Bad \in SUBSET Nat
    BY <1>1
  <2>2. PICK p \in Bad : \A k \in Bad : p <= k
    <3> HIDE DEF Bad
    <3> QED BY <2>1, LeastElement
  <2>3. p \in 1 .. Len(s) /\ p # 1 /\ p - 1 \in 1 .. Len(s) /\ ~(p <= p - 1)
    BY <1>1, <1>4, <2>2
  <2>4. Good(p - 1)
    BY <2>2, <2>3
  <2> QED BY <1>5, <2>2, <2>3, <2>4
<1> QED BY <1>1, <1>2, <1>6

\* Two streams, one behind the other.
LEMMA StreamConcat ==
  ASSUME NEW s \in Seq(Byte), NEW b \in Seq(Byte), NEW t, t = s \o b
  PROVE  /\ t \in Seq(Byte) /\ Len(t) = Len(s) + Len(b) /\ Len(s) \in Nat /\ Len(b) \in Nat
         /\ \A i \in 1 .. Len(s) : t[i] = s[i]
         /\ \A i \in 1 .. Len(b) : t[Len(s) + i] = b[i]
  BY SeqConcat

\* A thread goes on with its message: the stream stays one, and the message arrives
\* with its last byte.
LEMMA StreamGrows ==
  ASSUME NEW s \in Seq(Byte), NEW before, NEW after, Chain(s), Carries(s, before, after),
         NEW m \in Messages, NEW k \in Nat, NEW b \in Seq(Byte), b # <<>>,
         k + Len(b) <= Size(m), \A i \in 1 .. Len(b) : b[i] = [of |-> m, at |-> k + i],
         Joins(s, m, k)
  PROVE  /\ s \o b \in Seq(Byte) /\ Chain(s \o b)
         /\ Carries(s \o b, before, IF k + Len(b) = Size(m) THEN Take(after, m) ELSE after)
         /\ s \o b # <<>> /\ (s \o b)[Len(s \o b)] = [of |-> m, at |-> k + Len(b)]
<1> DEFINE t == s \o b
           n == Len(b)
<1>0. Len(s) \in Nat /\ Size(m) \in Nat /\ n \in Nat \ {0}
  BY Sizes, StreamBytes, EmptySeq
<1>1. /\ t \in Seq(Byte) /\ Len(t) = Len(s) + n /\ Len(t) \in Nat \ {0}
      /\ \A p \in 1 .. Len(s) : t[p] = s[p]
      /\ \A i \in 1 .. n : t[Len(s) + i] = [of |-> m, at |-> k + i]
  <2>1. t = s \o b
    OBVIOUS
  <2> HIDE DEF t
  <2>2. /\ t \in Seq(Byte) /\ Len(t) = Len(s) + Len(b)
        /\ \A i \in 1 .. Len(s) : t[i] = s[i]
        /\ \A i \in 1 .. Len(b) : t[Len(s) + i] = b[i]
    BY <2>1, StreamConcat
  <2>3. Len(t) = Len(s) + n /\ \A i \in 1 .. n : t[Len(s) + i] = b[i]
    BY <2>2
  <2> QED BY <2>2, <2>3, <1>0
<1>2. t # <<>> /\ t[Len(t)] = [of |-> m, at |-> k + n]
  <2>1. n \in 1 .. n
    OBVIOUS
  <2>2. t # <<>>
    BY <1>1, EmptySeq
  <2> HIDE DEF t
  <2> QED BY <1>1, <2>1, <2>2
<1>7. k + n <= Size(m) /\ n \in Nat \ {0}
  BY <1>0
<1> HIDE DEF t, n
<1>3. \A p \in Len(s) + 1 .. Len(t) : t[p] = [of |-> m, at |-> k + (p - Len(s))]
  <2> TAKE p \in Len(s) + 1 .. Len(t)
  <2>1. p - Len(s) \in 1 .. n /\ Len(s) + (p - Len(s)) = p
    BY <1>0, <1>7, <1>1
  <2> QED BY <1>1, <2>1
<1>4. Chain(t)
  <2>1. t[1].at = 1
    <3>1. CASE Len(s) = 0
      <4>1. s = <<>>
        BY <3>1, <1>0, EmptySeq
      <4>2. k = 0
        BY <4>1 DEF Joins
      <4> QED BY <3>1, <4>2, <1>1, <1>3
    <3>2. CASE Len(s) # 0
      <4>1. s # <<>> /\ 1 \in 1 .. Len(s)
        BY <3>2, <1>0, EmptySeq
      <4> QED BY <4>1, <1>1 DEF Chain
    <3> QED BY <3>1, <3>2
  <2>2. ASSUME NEW p \in 1 .. Len(t) - 1
        PROVE  IF AtEnd(t[p]) THEN t[p + 1].at = 1
               ELSE t[p + 1] = [of |-> t[p].of, at |-> t[p].at + 1]
    <3>1. CASE p < Len(s)
      <4>1. p \in 1 .. Len(s) - 1 /\ p \in 1 .. Len(s) /\ p + 1 \in 1 .. Len(s)
        BY <3>1, <1>0, <1>1, <1>7
      <4>2. t[p] = s[p] /\ t[p + 1] = s[p + 1]
        BY <4>1, <1>1
      <4> QED BY <4>1, <4>2 DEF Chain
    <3>2. CASE p = Len(s)
      <4>1. p \in 1 .. Len(s) /\ t[p] = s[p] /\ s # <<>>
        BY <3>2, <1>0, <1>1, EmptySeq
      <4>2. t[p + 1] = [of |-> m, at |-> k + 1]
        <5>1. p + 1 \in Len(s) + 1 .. Len(t) /\ p + 1 - Len(s) = 1
          BY <3>2, <1>0, <1>1, <1>7
        <5> QED BY <5>1, <1>3
      <4>3. CASE k = 0
        <5>1. AtEnd(t[p])
          BY <3>2, <4>1, <4>3 DEF Joins
        <5> QED BY <5>1, <4>2, <4>3
      <4>4. CASE k # 0
        <5>1. t[p] = [of |-> m, at |-> k]
          BY <3>2, <4>1, <4>4 DEF Joins
        <5>2. ~AtEnd(t[p])
          BY <5>1, <1>0 DEF AtEnd
        <5> QED BY <5>1, <5>2, <4>2
      <4> QED BY <4>3, <4>4
    <3>3. CASE p > Len(s)
      <4>1. p \in Len(s) + 1 .. Len(t) /\ p + 1 \in Len(s) + 1 .. Len(t)
        BY <3>3, <1>0, <1>1, <1>7
      <4>2. t[p] = [of |-> m, at |-> k + (p - Len(s))]
        BY <4>1, <1>3
      <4>3. t[p + 1] = [of |-> m, at |-> k + (p - Len(s)) + 1]
        <5>1. k + (p + 1 - Len(s)) = k + (p - Len(s)) + 1
          BY <1>0, <1>7, <4>1
        <5> QED BY <5>1, <4>1, <1>3
      <4>4. k + (p - Len(s)) < Size(m)
        BY <1>0, <1>7, <1>1, <4>1
      <4>5. ~AtEnd(t[p])
        BY <4>2, <4>4, <1>0, <1>7 DEF AtEnd
      <4> QED BY <4>2, <4>3, <4>5
    <3> QED BY <3>1, <3>2, <3>3, <1>0, <1>1, <1>7
  <2> QED BY <2>1, <2>2 DEF Chain
<1>8. \A p \in Len(s) + 1 .. Len(t) :
        /\ p # Len(s) + 1 => p - 1 \in Len(s) + 1 .. Len(t) - 1
        /\ p # Len(t) => k + (p - Len(s)) < Size(m) /\ p \in Len(s) + 1 .. Len(t) - 1
  <2> DEFINE L == Len(t)
             K == Len(s)
             N == Size(m)
  <2>1. K \in Nat /\ N \in Nat /\ n \in Nat /\ k \in Nat /\ L = K + n /\ k + n <= N
    BY <1>0, <1>1, <1>7
  <2> HIDE DEF L, K, N
  <2>2. ASSUME NEW p \in K + 1 .. L
        PROVE  /\ p # K + 1 => p - 1 \in K + 1 .. L - 1
               /\ p # L => k + (p - K) < N /\ p \in K + 1 .. L - 1
    BY <2>1
  <2> QED BY <2>2 DEF L, K, N
<1>5. Carries(t, before, IF k + n = Size(m) THEN Take(after, m) ELSE after)
  <2> DEFINE last == IF k + n = Size(m) THEN Take(after, m) ELSE after
  <2>0. after \in Seq(Messages) /\ last \in Seq(Messages)
    <3>1. after \in Seq(Messages)
      BY CarriesPrefix
    <3> QED BY <3>1, TakeType
  <2> HIDE DEF last
  <2>1. PICK h \in [0 .. Len(s) -> Seq(Messages)] :
          /\ h[0] = before /\ h[Len(s)] = after
          /\ \A p \in 1 .. Len(s) :
                 h[p] = IF AtEnd(s[p]) THEN Take(h[p - 1], s[p].of) ELSE h[p - 1]
    BY DEF Carries
  <2> DEFINE g == [p \in 0 .. Len(t) |->
                     IF p <= Len(s) THEN h[p] ELSE IF p < Len(t) THEN after ELSE last]
  <2>2. g \in [0 .. Len(t) -> Seq(Messages)]
    <3>1. \A p \in 0 .. Len(t) : p <= Len(s) => h[p] \in Seq(Messages)
      <4> TAKE p \in 0 .. Len(t)
      <4> HAVE p <= Len(s)
      <4>1. p \in 0 .. Len(s)
        BY <1>0, <1>7, <1>1
      <4> QED BY <4>1, <2>1
    <3> QED BY <3>1, <2>0
  <2>3. /\ \A p \in 0 .. Len(s) : g[p] = h[p]
        /\ \A p \in Len(s) + 1 .. Len(t) - 1 : g[p] = after
        /\ g[Len(t)] = last
    BY <1>0, <1>7, <1>1
  <2> HIDE DEF g
  <2>4. g[0] = before
    BY <2>1, <2>3, <1>0
  <2>5. ASSUME NEW p \in 1 .. Len(t)
        PROVE  g[p] = IF AtEnd(t[p]) THEN Take(g[p - 1], t[p].of) ELSE g[p - 1]
    <3>1. CASE p <= Len(s)
      <4>1. p \in 1 .. Len(s) /\ p \in 0 .. Len(s) /\ p - 1 \in 0 .. Len(s)
        BY <3>1, <1>0
      <4>2. t[p] = s[p] /\ g[p] = h[p] /\ g[p - 1] = h[p - 1]
        BY <4>1, <1>1, <2>3
      <4> QED BY <4>1, <4>2, <2>1
    <3>2. CASE ~(p <= Len(s))
      <4>1. p \in Len(s) + 1 .. Len(t)
        BY <3>2, <1>0, <1>1, <1>7
      <4>2. t[p] = [of |-> m, at |-> k + (p - Len(s))]
        BY <4>1, <1>3
      <4>3. g[p - 1] = after
        <5>1. CASE p = Len(s) + 1
          <6>1. p - 1 = Len(s) /\ p - 1 \in 0 .. Len(s)
            BY <5>1, <1>0
          <6> QED BY <6>1, <2>1, <2>3
        <5>2. CASE p # Len(s) + 1
          <6>1. p - 1 \in Len(s) + 1 .. Len(t) - 1
            BY <5>2, <4>1, <1>8
          <6> QED BY <6>1, <2>3
        <5> QED BY <5>1, <5>2
      <4>4. CASE p = Len(t)
        <5>1. k + (p - Len(s)) = k + n
          BY <4>4, <1>0, <1>1, <1>7
        <5>2. AtEnd(t[p]) <=> k + n = Size(m)
          BY <5>1, <4>2 DEF AtEnd
        <5>3. t[p].of = m /\ g[p] = last
          BY <4>2, <4>4, <2>3
        <5> QED BY <5>2, <5>3, <4>3 DEF last
      <4>5. CASE p # Len(t)
        <5>1. k + (p - Len(s)) < Size(m) /\ p \in Len(s) + 1 .. Len(t) - 1
          BY <4>1, <4>5, <1>8
        <5>2. ~AtEnd(t[p])
          BY <5>1, <4>2, <1>0 DEF AtEnd
        <5> QED BY <5>1, <5>2, <4>3, <2>3
      <4> QED BY <4>4, <4>5
    <3> QED BY <3>1, <3>2
  <2>6. Carries(t, before, last)
    BY <2>2, <2>3, <2>4, <2>5 DEF Carries
  <2> QED BY <2>6 DEF last
<1> QED BY <1>1, <1>2, <1>4, <1>5 DEF t, n

\* The first message of the stream is taken off: the rest is a stream, from what is
\* handed up with that message.
LEMMA StreamShrinks ==
  ASSUME NEW s \in Seq(Byte), NEW before, NEW after, Chain(s), Carries(s, before, after),
         NEW m \in Messages, \A p \in 1 .. Size(m) : s[p] = [of |-> m, at |-> p],
         NEW r \in Seq(Byte), Len(s) = Size(m) + Len(r),
         \A p \in 1 .. Len(r) : r[p] = s[Size(m) + p]
  PROVE  /\ Chain(r) /\ Carries(r, Take(before, m), after)
         /\ r # <<>> => r[Len(r)] = s[Len(s)]
         /\ r = <<>> => AtEnd(s[Len(s)])
<1> DEFINE z == Size(m)
<1>0. /\ Len(s) \in Nat \ {0} /\ Len(r) \in Nat /\ z \in Nat \ {0} /\ Len(s) = z + Len(r)
      /\ \A p \in 1 .. z : s[p] = [of |-> m, at |-> p]
      /\ \A p \in 1 .. Len(r) : r[p] = s[z + p]
  BY Sizes, StreamBytes
<1>1. /\ \A p \in 1 .. z - 1 : ~AtEnd(s[p])
      /\ AtEnd(s[z]) /\ s[z].of = m
  <2>1. ASSUME NEW p \in 1 .. z PROVE s[p].of = m /\ s[p].at = p
    <3>1. s[p] = [of |-> m, at |-> p]
      BY <1>0
    <3> QED BY <3>1
  <2>2. \A p \in 1 .. z : AtEnd(s[p]) <=> p = z
    BY <2>1 DEF AtEnd
  <2> HIDE DEF z
  <2> QED BY <2>1, <2>2, <1>0
<1> HIDE DEF z
<1>2. \A p \in 1 .. Len(r) : /\ z + p \in 1 .. Len(s) /\ z + p \in 0 .. Len(s)
                             /\ z + p - 1 \in 0 .. Len(s) /\ z + (p - 1) = z + p - 1
                             /\ p # Len(r) => z + p \in 1 .. Len(s) - 1 /\ p + 1 \in 1 .. Len(r)
                                              /\ z + (p + 1) = z + p + 1
  BY <1>0
<1>7. /\ 0 \in 0 .. Len(r) /\ Len(r) \in 0 .. Len(r) /\ z + 0 = z /\ z + Len(r) = Len(s)
      /\ \A p \in 1 .. Len(r) : p \in 0 .. Len(r) /\ p - 1 \in 0 .. Len(r)
  <2> DEFINE K == Len(r)
             L == Len(s)
  <2>1. K \in Nat /\ L \in Nat /\ z \in Nat /\ L = z + K
    BY <1>0
  <2> HIDE DEF K, L
  <2>2. 0 \in 0 .. K /\ K \in 0 .. K /\ z + 0 = z /\ z + K = L
    BY <2>1
  <2>3. \A p \in 1 .. K : p \in 0 .. K /\ p - 1 \in 0 .. K
    BY <2>1
  <2> QED BY <2>2, <2>3 DEF K, L
<1>3. Chain(r)
  <2>1. r # <<>> => r[1].at = 1
    <3> HAVE r # <<>>
    <3>1. 1 \in 1 .. Len(r) /\ r[1] = s[z + 1]
      BY <1>0, EmptySeq
    <3>2. z \in 1 .. Len(s) - 1
      BY <3>1, <1>0
    <3> QED BY <3>1, <3>2, <1>1 DEF Chain
  <2>2. ASSUME NEW p \in 1 .. Len(r) - 1
        PROVE  IF AtEnd(r[p]) THEN r[p + 1].at = 1
               ELSE r[p + 1] = [of |-> r[p].of, at |-> r[p].at + 1]
    <3>1. p \in 1 .. Len(r) /\ p # Len(r)
      BY <1>0
    <3>2. r[p] = s[z + p] /\ r[p + 1] = s[z + p + 1] /\ z + p \in 1 .. Len(s) - 1
      BY <3>1, <1>0, <1>2
    <3> QED BY <3>2 DEF Chain
  <2> QED BY <2>1, <2>2 DEF Chain
<1>4. Carries(r, Take(before, m), after)
  <2>1. PICK h \in [0 .. Len(s) -> Seq(Messages)] :
          /\ h[0] = before /\ h[Len(s)] = after
          /\ \A p \in 1 .. Len(s) :
                 h[p] = IF AtEnd(s[p]) THEN Take(h[p - 1], s[p].of) ELSE h[p - 1]
    BY DEF Carries
  <2> DEFINE Bad == {p \in 0 .. z - 1 : h[p] # before}
  <2>2. Bad = {}
    <3> SUFFICES ASSUME Bad # {} PROVE FALSE
      OBVIOUS
    <3>1. Bad \in SUBSET Nat
      OBVIOUS
    <3>2. PICK p \in Bad : \A k \in Bad : p <= k
      <4> HIDE DEF Bad
      <4> QED BY <3>1, LeastElement
    <3>3. p \in 1 .. z - 1 /\ p - 1 \in 0 .. z - 1 /\ ~(p <= p - 1) /\ p \in 1 .. Len(s)
      BY <3>2, <2>1, <1>0
    <3>4. h[p - 1] = before
      BY <3>2, <3>3
    <3>5. h[p] = h[p - 1]
      BY <3>3, <2>1, <1>1
    <3> QED BY <3>2, <3>4, <3>5
  <2>3. h[z] = Take(before, m)
    <3>1. z \in 1 .. Len(s) /\ z - 1 \in 0 .. z - 1
      BY <1>0
    <3>2. h[z - 1] = before
      BY <3>1, <2>2
    <3> QED BY <3>1, <3>2, <2>1, <1>1
  <2> HIDE DEF Bad
  <2> DEFINE g == [p \in 0 .. Len(r) |-> h[z + p]]
  <2>4. \A p \in 0 .. Len(r) : z + p \in 0 .. Len(s)
    BY <1>0
  <2>5. g \in [0 .. Len(r) -> Seq(Messages)]
    BY <2>1, <2>4
  <2>6. /\ g[0] = Take(before, m) /\ g[Len(r)] = after
        /\ \A p \in 1 .. Len(r) : g[p] = h[z + p] /\ g[p - 1] = h[z + p - 1]
    <3>3. g[0] = h[z + 0] /\ g[Len(r)] = h[z + Len(r)]
      BY <1>7
    <3>4. \A p \in 1 .. Len(r) : g[p] = h[z + p] /\ g[p - 1] = h[z + (p - 1)]
      BY <1>7
    <3> HIDE DEF g
    <3> QED BY <1>7, <3>3, <3>4, <1>2, <2>1, <2>3
  <2> HIDE DEF g
  <2>7. ASSUME NEW p \in 1 .. Len(r)
        PROVE  g[p] = IF AtEnd(r[p]) THEN Take(g[p - 1], r[p].of) ELSE g[p - 1]
    <3> DEFINE q == z + p
    <3>1. r[p] = s[q] /\ q \in 1 .. Len(s) /\ g[p] = h[q] /\ g[p - 1] = h[q - 1]
      BY <2>6, <1>0, <1>2
    <3> HIDE DEF q
    <3> QED BY <3>1, <2>1
  <2> QED BY <2>5, <2>6, <2>7 DEF Carries
<1>5. r # <<>> => r[Len(r)] = s[Len(s)]
  <2> HAVE r # <<>>
  <2>1. Len(r) \in 1 .. Len(r) /\ z + Len(r) = Len(s)
    BY <1>0, EmptySeq
  <2> QED BY <2>1
<1>6. r = <<>> => AtEnd(s[Len(s)])
  <2> HAVE r = <<>>
  <2>1. Len(s) = z
    BY <1>0, EmptySeq
  <2> QED BY <2>1, <1>1
<1> QED BY <1>3, <1>4, <1>5, <1>6

-----------------------------------------------------------------------------
(* Types.                                                                  *)

\* A thread that is not sending, that is between the statements of send, or in sendall.
Call ==
    [at : {"idle"}]
        \union [at : {"extend", "sendall"}, message : Messages, conn : Connections]
        \union [at : {"sending"}, message : Messages, conn : Connections, buffer : Nat,
                rest : Seq(Byte), whole : BOOLEAN, partly : BOOLEAN]

\* What the variables hold.  Once a send has begun the buffer is not empty.
Types ==
    /\ sendBuffer \in [size : Nat, bytes : Seq(Byte)]
    /\ begun > 0 => sendBuffer.bytes # <<>>
    /\ call \in [Threads -> Call] /\ begun \in 0 .. Len(Length)
    /\ wire \in [Connections -> Seq(Byte)] /\ sizeBytes \in [Connections -> Seq(Byte)]
    /\ messageBytes \in [Connections -> Seq(Byte)]
    /\ state \in [Connections -> {"Open", "Closed", "Reset"}]
    /\ nextMessageSize \in [Connections -> Int]
    /\ didReceiveConnect \in [Connections -> BOOLEAN] /\ disconnected \in [Connections -> BOOLEAN]
    /\ broken \in [Connections -> BOOLEAN]
    /\ sent \in [Connections -> Seq(Messages)] /\ got \in [Connections -> Seq(Messages \union {0})]

Typed == Types /\ TypeOK

\* What TypeOK says of a connection.
ConnType(c) ==
    /\ Len(wire[c]) <= Capacity /\ Len(sizeBytes[c]) <= SizeBytes
    /\ messageBytes[c] # <<>> => Len(messageBytes[c]) < nextMessageSize[c]

LEMMA TypeParts == Types => (TypeOK <=> CallType /\ \A c \in Connections : ConnType(c))
  BY DEF Types, TypeOK, ConnType

\* Part of a stream and the rest of it.
LEMMA Parts ==
  ASSUME NEW s \in Seq(Byte), NEW n \in 0 .. Len(s)
  PROVE  /\ SubSeq(s, 1, n) \in Seq(Byte) /\ Len(SubSeq(s, 1, n)) = n
         /\ \A i \in 1 .. n : SubSeq(s, 1, n)[i] = s[i]
         /\ SubSeq(s, n + 1, Len(s)) \in Seq(Byte) /\ Len(SubSeq(s, n + 1, Len(s))) = Len(s) - n
         /\ \A i \in 1 .. Len(s) - n : SubSeq(s, n + 1, Len(s))[i] = s[n + i]
         /\ Len(s) \in Nat /\ SubSeq(s, 1, n) \o SubSeq(s, n + 1, Len(s)) = s
<1>1. Len(s) \in Nat
  BY LenProperties
<1>2. /\ SubSeq(s, 1, n) \in Seq(Byte) /\ Len(SubSeq(s, 1, n)) = n
      /\ \A i \in 1 .. n : SubSeq(s, 1, n)[i] = s[i]
  BY SeqPrefix
<1> DEFINE r == SubSeq(s, n + 1, Len(s))
<1>3. /\ r \in Seq(Byte) /\ Len(r) = Len(s) - n
      /\ \A i \in 1 .. Len(s) - n : r[i] = s[n + i]
  <2>1. \A i \in n + 1 .. Len(s) : s[i] \in Byte
    BY <1>1, StreamBytes
  <2>2. /\ r \in Seq(Byte)
        /\ Len(r) = IF n + 1 <= Len(s) THEN Len(s) - (n + 1) + 1 ELSE 0
        /\ \A i \in 1 .. Len(s) - (n + 1) + 1 : r[i] = s[n + 1 + i - 1]
    BY <1>1, <2>1, SubSeqProperties
  <2> HIDE DEF r
  <2>3. Len(r) = Len(s) - n /\ Len(s) - (n + 1) + 1 = Len(s) - n
    BY <1>1, <2>2
  <2>4. \A i \in 1 .. Len(s) - n : n + 1 + i - 1 = n + i
    BY <1>1
  <2> QED BY <2>2, <2>3, <2>4
<1>4. SubSeq(s, 1, n) \o r = s
  <2>1. 1 \in 1 .. Len(s) + 1 /\ n \in 1 - 1 .. Len(s) /\ Len(s) \in n .. Len(s)
    BY <1>1
  <2>2. SubSeq(s, 1, n) \o r = SubSeq(s, 1, Len(s))
    BY <2>1, ConcatAdjacentSubSeq
  <2> QED BY <2>2, SubSeqFull
<1> QED BY <1>1, <1>2, <1>3, <1>4

\* A thread in the middle of a send has a message that has begun.
LEMMA CallParts ==
  ASSUME Types, NEW t \in Threads
  PROVE  /\ call[t] \in Call
         /\ call[t].at = "extend" \/ call[t].at = "sendall" =>
               /\ call[t] \in [at : {"extend", "sendall"}, message : Messages, conn : Connections]
               /\ call[t].message \in Messages /\ call[t].conn \in Connections
         /\ call[t].at = "sending" =>
               /\ call[t] \in [at : {"sending"}, message : Messages, conn : Connections, buffer : Nat,
                               rest : Seq(Byte), whole : BOOLEAN, partly : BOOLEAN]
               /\ call[t].message \in Messages /\ call[t].conn \in Connections
               /\ call[t].rest \in Seq(Byte) /\ call[t].whole \in BOOLEAN /\ call[t].partly \in BOOLEAN
  BY DEF Types, Call

\* One call changes: what is left of its message, if anything, is to be sent.
LEMMA CallStep ==
  ASSUME Typed, NEW t \in Threads, NEW r \in Call, call' = [call EXCEPT ![t] = r],
         begun' \in Nat, begun <= begun',
         r.at # "idle" => r.message \in 1 .. begun' /\ r.conn \in Connections,
         r.at = "sending" => r.rest # <<>>
  PROVE  call' \in [Threads -> Call] /\ CallType'
<1>1. call \in [Threads -> Call] /\ begun \in Nat
  <2>1. Len(Length) \in Nat
    BY TCPAssumption, LenProperties
  <2> QED BY <2>1 DEF Typed, Types
<1>2. call' \in [Threads -> Call]
  BY <1>1
<1>3. r.at \in {"idle", "extend", "sendall", "sending"}
  BY DEF Call
<1>4. ASSUME NEW u \in Threads
      PROVE  /\ call'[u].at \in {"idle", "extend", "sendall", "sending"}
             /\ call'[u].at # "idle" => call'[u].message \in 1 .. begun' /\ call'[u].conn \in Connections
             /\ call'[u].at = "sending" => call'[u].rest # <<>>
  <2>1. CASE u = t
    BY <2>1, <1>1, <1>3
  <2>2. CASE u # t
    <3>1. call'[u] = call[u]
      BY <2>2, <1>1
    <3>2. CallType
      BY DEF Typed, TypeOK
    <3> QED BY <3>1, <3>2, <1>1 DEF CallType
  <2> QED BY <2>1, <2>2
<1> QED BY <1>2, <1>4 DEF CallType

\* A send begins, fills the buffer, hands it to the socket.
LEMMA SendTypes ==
  ASSUME Typed, NEW t \in Threads, SendSize(t) \/ SendPayload(t) \/ SendAll(t)
  PROVE  Typed'
<1> USE DEF sender, receiver
<1>0. Len(Length) \in Nat /\ begun \in Nat /\ Messages = 1 .. Len(Length)
  <2>1. Len(Length) \in Nat /\ Messages = 1 .. Len(Length)
    BY TCPAssumption, LenProperties DEF Messages
  <2> QED BY <2>1 DEF Typed, Types
<1>1. Types /\ CallType /\ \A c \in Connections : ConnType(c)
  BY TypeParts DEF Typed
<1>2. /\ Types' /\ CallType'
      /\ UNCHANGED <<wire, sizeBytes, messageBytes, nextMessageSize>>
  <2>1. CASE SendSize(t)
    <3> DEFINE m == begun + 1
               r == [at |-> "extend", message |-> m, conn |-> Target[m]]
               b == SizeField(m)
    <3>1. m \in Messages /\ Target[m] \in Connections /\ begun' = m /\ m \in Nat
      BY <2>1, <1>0, Sizes DEF SendSize
    <3>2. r \in Call
      BY <3>1 DEF Call
    <3>3. call' = [call EXCEPT ![t] = r] /\ sendBuffer' = [size |-> m, bytes |-> b]
      BY <2>1, <3>1 DEF SendSize
    <3>4. b \in Seq(Byte) /\ b # <<>>
      BY <3>1, FrameBytes, Sizes, EmptySeq
    <3>5. r.message \in 1 .. m /\ r.conn \in Connections /\ r.at = "extend" /\ begun <= m
      BY <3>1, <1>0
    <3> HIDE DEF r, b
    <3>6. call' \in [Threads -> Call] /\ CallType'
      <4> HIDE DEF m
      <4> QED BY <3>1, <3>2, <3>3, <3>5, CallStep
    <3>8. begun' \in 0 .. Len(Length) /\ sendBuffer' \in [size : Nat, bytes : Seq(Byte)]
          /\ sendBuffer'.bytes # <<>>
      BY <3>1, <3>3, <3>4, <1>0
    <3> QED BY <2>1, <1>1, <3>6, <3>8 DEF SendSize, Types
  <2>2. CASE SendPayload(t)
    <3> DEFINE m == call[t].message
    <3>1. /\ m \in Messages /\ m \in 1 .. begun /\ call[t].conn \in Connections
          /\ call[t] \in [at : {"extend", "sendall"}, message : Messages, conn : Connections]
      BY <2>2, <1>1, CallParts DEF SendPayload, CallType
    <3>2. begun > 0 /\ UNCHANGED <<begun, sent, broken, receiver, wire, state>>
      BY <2>2, <3>1, <1>0 DEF SendPayload
    <3>3. CASE call' = [call EXCEPT ![t] = Idle] /\ UNCHANGED sendBuffer
      <4>1. Idle \in Call /\ Idle.at = "idle"
        BY DEF Idle, Call
      <4>9. begun' \in Nat /\ begun <= begun' /\ begun' = begun
        BY <3>2, <1>0
      <4>2. call' \in [Threads -> Call] /\ CallType'
        BY <3>3, <4>1, <4>9, CallStep
      <4> QED BY <3>2, <3>3, <4>2, <1>1 DEF Types
    <3>4. CASE /\ call' = [call EXCEPT ![t].at = "sendall"]
               /\ sendBuffer' = [sendBuffer EXCEPT !.bytes = @ \o Payload(m)]
      <4> DEFINE r == [call[t] EXCEPT !.at = "sendall"]
                 b == sendBuffer.bytes \o Payload(m)
      <4>1. r \in Call /\ r.at = "sendall" /\ r.message = m /\ r.conn = call[t].conn
        BY <3>1 DEF Call
      <4>2. call' = [call EXCEPT ![t] = r]
        BY <3>4
      <4>3. b \in Seq(Byte) /\ b # <<>>
        <5> DEFINE a == sendBuffer.bytes
                   p == Payload(m)
        <5>1. a \in Seq(Byte) /\ a # <<>> /\ p \in Seq(Byte)
          BY <1>1, <3>1, <3>2, FrameBytes DEF Types
        <5> HIDE DEF a, p
        <5> QED BY <5>1, ConcatProperties, ConcatEqualIffEmpty DEF a, p
      <4>4. sendBuffer' = [sendBuffer EXCEPT !.bytes = b]
        BY <3>4
      <4> HIDE DEF r, b
      <4>9. begun' \in Nat /\ begun <= begun' /\ begun' = begun
        BY <3>2, <1>0
      <4>5. call' \in [Threads -> Call] /\ CallType'
        BY <4>1, <4>2, <3>1, <4>9, CallStep
      <4>6. sendBuffer' \in [size : Nat, bytes : Seq(Byte)] /\ sendBuffer'.bytes # <<>>
        BY <4>3, <4>4, <1>1 DEF Types
      <4> QED BY <3>2, <4>5, <4>6, <1>1 DEF Types
    <3> QED BY <2>2, <3>3, <3>4, <3>2 DEF SendPayload
  <2>3. CASE SendAll(t)
    <3> DEFINE m == call[t].message
               w == sendBuffer.bytes = SizeField(m) \o Payload(m)
               r == [at |-> "sending", message |-> m, conn |-> call[t].conn,
                     buffer |-> sendBuffer.size, rest |-> sendBuffer.bytes,
                     whole |-> w, partly |-> FALSE]
    <3>1. /\ m \in Messages /\ m \in 1 .. begun /\ call[t].conn \in Connections
      BY <2>3, <1>1, CallParts DEF SendAll, CallType
    <3>2. begun > 0 /\ UNCHANGED <<sendBuffer, begun, sent, broken, receiver, wire, state>>
      BY <2>3, <3>1, <1>0 DEF SendAll
    <3>3. call' = [call EXCEPT ![t] = r]
      BY <2>3 DEF SendAll
    <3>4. sendBuffer \in [size : Nat, bytes : Seq(Byte)] /\ sendBuffer.bytes # <<>>
      BY <1>1, <3>2 DEF Types
    <3>5. w \in BOOLEAN
      OBVIOUS
    <3> HIDE DEF w
    <3>6. /\ r \in Call /\ r.at = "sending" /\ r.rest # <<>> /\ r.message = m
          /\ r.conn = call[t].conn
      BY <3>1, <3>4, <3>5 DEF Call
    <3> HIDE DEF r
    <3>9. begun' \in Nat /\ begun <= begun' /\ begun' = begun
      BY <3>2, <1>0
    <3>7. call' \in [Threads -> Call] /\ CallType'
      BY <3>1, <3>3, <3>6, <3>9, CallStep
    <3> QED BY <3>2, <3>7, <1>1 DEF Types
  <2> QED BY <2>1, <2>2, <2>3
<1>3. \A c \in Connections : ConnType(c)'
  BY <1>1, <1>2 DEF ConnType
<1>4. TypeOK'
  BY <1>2, <1>3 DEF Types, TypeOK, ConnType
<1> QED BY <1>2, <1>4 DEF Typed

\* What a step of sendall passes on, and what it leaves.
LEMMA PushParts ==
  ASSUME Typed, NEW t \in Threads, Push(t)
  PROVE  /\ call[t].conn \in Connections /\ call[t].message \in Messages
         /\ call[t].rest \in Seq(Byte) /\ Len(call[t].rest) \in Nat \ {0}
         /\ Fits(t) \in 1 .. Len(call[t].rest) /\ Fits(t) <= Room(call[t].conn)
         /\ SubSeq(call[t].rest, 1, Fits(t)) \in Seq(Byte)
         /\ Len(SubSeq(call[t].rest, 1, Fits(t))) = Fits(t)
         /\ \A i \in 1 .. Fits(t) : SubSeq(call[t].rest, 1, Fits(t))[i] = call[t].rest[i]
         /\ LET r == [call[t] EXCEPT !.rest = SubSeq(@, Fits(t) + 1, Len(@)), !.partly = TRUE]
            IN  Fits(t) # Len(call[t].rest) =>
                /\ r \in Call /\ r.at = "sending" /\ r.message = call[t].message
                /\ r.conn = call[t].conn /\ r.partly /\ r.whole = call[t].whole
                /\ r.rest \in Seq(Byte) /\ Len(r.rest) = Len(call[t].rest) - Fits(t) /\ r.rest # <<>>
                /\ \A i \in 1 .. Len(r.rest) : r.rest[i] = call[t].rest[Fits(t) + i]
<1>1. Types /\ CallType
  BY TypeParts DEF Typed
<1> DEFINE c == call[t].conn
           rest == call[t].rest
           n == Fits(t)
           after == SubSeq(rest, n + 1, Len(rest))
           r == [call[t] EXCEPT !.rest = SubSeq(@, n + 1, Len(@)), !.partly = TRUE]
<1>2. call[t].at = "sending" /\ Room(c) > 0
  BY DEF Push
<1>3. /\ call[t] \in [at : {"sending"}, message : Messages, conn : Connections, buffer : Nat,
                      rest : Seq(Byte), whole : BOOLEAN, partly : BOOLEAN]
      /\ c \in Connections /\ call[t].message \in Messages /\ rest \in Seq(Byte) /\ rest # <<>>
  BY <1>1, <1>2, CallParts DEF CallType
<1>4. Len(rest) \in Nat \ {0}
  BY <1>3, EmptySeq
<1>5. Room(c) \in Int
  <2>1. Len(wire[c]) \in Nat
    BY <1>1, <1>3, LenProperties DEF Types
  <2> QED BY <2>1, TCPAssumption DEF Room
<1>6. n \in 1 .. Len(rest) /\ n <= Room(c)
  <2>1. n = IF Room(c) < Len(rest) THEN Room(c) ELSE Len(rest)
    BY DEF Fits
  <2> HIDE DEF n, rest, c
  <2> QED BY <2>1, <1>2, <1>4, <1>5
<1>7. n \in 0 .. Len(rest) /\ n \in Nat
  BY <1>4, <1>6
<1>8. /\ SubSeq(rest, 1, n) \in Seq(Byte) /\ Len(SubSeq(rest, 1, n)) = n
      /\ \A i \in 1 .. n : SubSeq(rest, 1, n)[i] = rest[i]
      /\ after \in Seq(Byte) /\ Len(after) = Len(rest) - n
      /\ \A i \in 1 .. Len(rest) - n : after[i] = rest[n + i]
  <2> HIDE DEF n, rest
  <2> QED BY <1>3, <1>7, Parts
<1>9. r = [call[t] EXCEPT !.rest = after, !.partly = TRUE]
  OBVIOUS
<1>10. n # Len(rest) => after # <<>>
  <2> DEFINE k == Len(rest)
  <2>1. k \in Nat /\ n \in Nat /\ Len(after) = k - n /\ after \in Seq(Byte)
    BY <1>4, <1>7, <1>8
  <2> HIDE DEF k, n, after
  <2>2. n # k => Len(after) # 0
    BY <2>1
  <2> QED BY <2>2, EmptySeq DEF k
<1> HIDE DEF after, n
<1>11. /\ r \in Call /\ r.at = "sending" /\ r.message = call[t].message
       /\ r.conn = c /\ r.partly /\ r.whole = call[t].whole /\ r.rest = after
  <2>1. /\ r \in [at : {"sending"}, message : Messages, conn : Connections, buffer : Nat,
                      rest : Seq(Byte), whole : BOOLEAN, partly : BOOLEAN]
        /\ r.at = "sending" /\ r.message = call[t].message
        /\ r.conn = c /\ r.partly = TRUE /\ r.whole = call[t].whole /\ r.rest = after
    BY <1>3, <1>8, <1>9
  <2> QED BY <2>1 DEF Call
<1>12. n # Len(rest) =>
         /\ r.rest \in Seq(Byte) /\ Len(r.rest) = Len(rest) - n /\ r.rest # <<>>
         /\ \A i \in 1 .. Len(r.rest) : r.rest[i] = rest[n + i]
  BY <1>8, <1>10, <1>11
<1> QED BY <1>3, <1>4, <1>6, <1>8, <1>11, <1>12 DEF n

\* sendall passes bytes on, or fails.
LEMMA PushTypes ==
  ASSUME Typed, NEW t \in Threads, Push(t) \/ PushFails(t)
  PROVE  Typed'
<1> USE DEF sender, receiver
<1>1. Types /\ CallType /\ \A c \in Connections : ConnType(c)
  BY TypeParts DEF Typed
<1>2. begun' = begun /\ begun' \in Nat /\ begun <= begun'
  <2>1. Len(Length) \in Nat
    BY TCPAssumption, LenProperties
  <2> QED BY <1>1, <2>1 DEF Types, Push, PushFails
<1>3. Idle \in Call /\ Idle.at = "idle"
  BY DEF Idle, Call
<1> DEFINE c == call[t].conn
<1>4. CASE Push(t)
  <2> DEFINE n == Fits(t)
             b == SubSeq(call[t].rest, 1, n)
             r == [call[t] EXCEPT !.rest = SubSeq(@, n + 1, Len(@)), !.partly = TRUE]
  <2>1. /\ c \in Connections /\ call[t].message \in Messages
        /\ b \in Seq(Byte) /\ Len(b) = n /\ n \in 1 .. Len(call[t].rest) /\ n <= Room(c)
        /\ n # Len(call[t].rest) => /\ r \in Call /\ r.at = "sending" /\ r.message = call[t].message
                                    /\ r.conn = c /\ r.rest # <<>>
    BY <1>4, PushParts
  <2>2. /\ wire' = [wire EXCEPT ![c] = @ \o b]
        /\ broken' \in [Connections -> BOOLEAN]
        /\ \/ call' = [call EXCEPT ![t] = Idle] /\ sent' = [sent EXCEPT ![c] = Take(@, call[t].message)]
           \/ n # Len(call[t].rest) /\ call' = [call EXCEPT ![t] = r] /\ UNCHANGED sent
        /\ UNCHANGED <<sendBuffer, begun, receiver, state>>
    <3> DEFINE others == \E u \in Threads \ {t} :
                           call[u].at = "sending" /\ call[u].conn = c /\ call[u].partly
    <3>1. /\ wire' = [wire EXCEPT ![c] = @ \o b]
          /\ broken' = [broken EXCEPT ![c] = @ \/ ~call[t].whole \/ others]
          /\ IF n = Len(call[t].rest)
             THEN call' = [call EXCEPT ![t] = Idle] /\ sent' = [sent EXCEPT ![c] = Take(@, call[t].message)]
             ELSE call' = [call EXCEPT ![t] = r] /\ UNCHANGED sent
          /\ UNCHANGED <<sendBuffer, begun, receiver, state>>
      <4>1. wire' = [wire EXCEPT ![c] = @ \o b]
        BY <1>4 DEF Push
      <4>2. broken' = [broken EXCEPT ![c] = @ \/ ~call[t].whole \/ others]
        BY <1>4, Zenon DEF Push
      <4>3. IF n = Len(call[t].rest)
            THEN call' = [call EXCEPT ![t] = Idle] /\ sent' = [sent EXCEPT ![c] = Take(@, call[t].message)]
            ELSE call' = [call EXCEPT ![t] = r] /\ UNCHANGED sent
        BY <1>4 DEF Push
      <4>4. UNCHANGED <<sendBuffer, begun, receiver, state>>
        BY <1>4 DEF Push
      <4> QED BY <4>1, <4>2, <4>3, <4>4
    <3> DEFINE x == broken[c] \/ ~call[t].whole \/ others
    <3>2. x \in BOOLEAN
      OBVIOUS
    <3>3. broken' = [broken EXCEPT ![c] = x]
      BY <3>1
    <3> HIDE DEF x
    <3>4. broken' \in [Connections -> BOOLEAN]
      BY <3>2, <3>3, <1>1 DEF Types
    <3> QED BY <3>1, <3>4
  <2> HIDE DEF r, b, n
  <2>3. call' \in [Threads -> Call] /\ CallType'
    <3>1. CASE call' = [call EXCEPT ![t] = Idle]
      BY <3>1, <1>2, <1>3, CallStep
    <3>2. CASE n # Len(call[t].rest) /\ call' = [call EXCEPT ![t] = r]
      <4>1. call[t].message \in 1 .. begun'
        BY <1>1, <1>2, <1>4 DEF CallType, Push
      <4> QED BY <3>2, <4>1, <2>1, <1>2, CallStep
    <3> QED BY <2>2, <3>1, <3>2
  <2>4. sent' \in [Connections -> Seq(Messages)]
    <3> DEFINE s == Take(sent[c], call[t].message)
    <3>1. sent[c] \in Seq(Messages)
      BY <1>1, <2>1 DEF Types
    <3>2. s \in Seq(Messages)
      BY <2>1, <3>1, TakeType
    <3>3. sent' = [sent EXCEPT ![c] = s] \/ sent' = sent
      BY <2>2
    <3> HIDE DEF s
    <3> QED BY <1>1, <2>1, <3>2, <3>3 DEF Types
  <2>5. wire' \in [Connections -> Seq(Byte)] /\ \A d \in Connections : Len(wire'[d]) <= Capacity
    <3> DEFINE w == wire[c] \o b
    <3>1. wire[c] \in Seq(Byte) /\ Len(wire[c]) \in Nat
      BY <1>1, <2>1, LenProperties DEF Types
    <3>2. w \in Seq(Byte) /\ Len(w) = Len(wire[c]) + Len(b)
      <4> DEFINE a == wire[c]
      <4> HIDE DEF a
      <4> QED BY <2>1, <3>1, ConcatProperties DEF a
    <3>3. Len(w) <= Capacity
      <4>1. n \in Nat
        BY <2>1
      <4> QED BY <4>1, <2>1, <3>1, <3>2, TCPAssumption DEF Room
    <3>4. wire' = [wire EXCEPT ![c] = w]
      BY <2>2
    <3> HIDE DEF w
    <3>5. \A d \in Connections : wire'[d] = IF d = c THEN w ELSE wire[d]
      BY <3>4, <1>1 DEF Types
    <3> QED BY <3>2, <3>3, <3>4, <3>5, <1>1, <2>1 DEF Types, ConnType
  <2>6. Types'
    BY <2>2, <2>3, <2>4, <2>5, <1>1 DEF Types
  <2>7. \A d \in Connections : ConnType(d)'
    BY <2>2, <2>5, <1>1 DEF ConnType
  <2>8. TypeOK'
    BY <2>3, <2>6, <2>7 DEF Types, TypeOK, ConnType
  <2> QED BY <2>6, <2>8 DEF Typed
<1>5. CASE PushFails(t)
  <2>1. call' \in [Threads -> Call] /\ CallType'
    BY <1>5, <1>2, <1>3, CallStep DEF PushFails
  <2>2. broken' \in [Connections -> BOOLEAN]
    BY <1>5, <1>1, CallParts DEF PushFails, Types
  <2>3. Types'
    BY <1>5, <2>1, <2>2, <1>1 DEF PushFails, Types
  <2>4. TypeOK'
    BY <1>5, <2>1, <2>3, <1>1 DEF PushFails, Types, TypeOK, ConnType
  <2> QED BY <2>3, <2>4 DEF Typed
<1> QED BY <1>4, <1>5

\* What size bytes are read as is a number.
LEMMA ReadSizesType ==
  ASSUME NEW bytes
  PROVE  ReadSizes(bytes) \subseteq Int
<1>1. \A m \in Messages : Length[m] \in Int
  BY Sizes
<1>2. Misread \subseteq Int
  BY TCPAssumption
<1> DEFINE right == {m \in Messages : IsPrefix(bytes, SizeField(m))}
<1>3. ReadSizes(bytes) = IF bytes = <<>> THEN {0}
                         ELSE IF right = {} THEN Misread ELSE {Length[m] : m \in right}
  BY DEF ReadSizes
<1>4. CASE bytes = <<>>
  BY <1>3, <1>4
<1>5. CASE bytes # <<>> /\ right = {}
  BY <1>2, <1>3, <1>5
<1>6. CASE bytes # <<>> /\ right # {}
  <2>1. ReadSizes(bytes) = {Length[m] : m \in right}
    BY <1>3, <1>6
  <2> QED BY <2>1, <1>1
<1> QED BY <1>4, <1>5, <1>6

\* Bytes that a receive moves from the wire.
LEMMA TakenFromWire ==
  ASSUME Typed, NEW c \in Connections, NEW n \in Nat \ {0}, n <= Len(wire[c])
  PROVE  /\ wire[c] \in Seq(Byte) /\ Len(wire[c]) \in Nat
         /\ SubSeq(wire[c], 1, n) \in Seq(Byte) /\ Len(SubSeq(wire[c], 1, n)) = n
         /\ SubSeq(wire[c], n + 1, Len(wire[c])) \in Seq(Byte)
         /\ Len(SubSeq(wire[c], n + 1, Len(wire[c]))) = Len(wire[c]) - n
         /\ SubSeq(wire[c], 1, n) \o SubSeq(wire[c], n + 1, Len(wire[c])) = wire[c]
<1> DEFINE s == wire[c]
<1>1. s \in Seq(Byte) /\ Len(s) \in Nat
  BY LenProperties DEF Typed, Types
<1>2. n \in 0 .. Len(s)
  BY <1>1
<1> HIDE DEF s
<1>3. /\ SubSeq(s, 1, n) \in Seq(Byte) /\ Len(SubSeq(s, 1, n)) = n
      /\ SubSeq(s, n + 1, Len(s)) \in Seq(Byte) /\ Len(SubSeq(s, n + 1, Len(s))) = Len(s) - n
      /\ SubSeq(s, 1, n) \o SubSeq(s, n + 1, Len(s)) = s
  BY <1>1, <1>2, Parts
<1> QED BY <1>1, <1>3 DEF s

\* Steps that leave calls, and change one connection at most.
LEMMA ConnStep ==
  ASSUME Typed, UNCHANGED sender, NEW c \in Connections,
         Types', ConnType(c)',
         \A d \in Connections \ {c} : /\ wire'[d] = wire[d] /\ sizeBytes'[d] = sizeBytes[d]
                                      /\ messageBytes'[d] = messageBytes[d]
                                      /\ nextMessageSize'[d] = nextMessageSize[d]
  PROVE  Typed'
<1>1. CallType'
  BY DEF sender, Typed, TypeOK, CallType
<1>2. \A d \in Connections : ConnType(d)'
  BY DEF Typed, TypeOK, ConnType
<1> QED BY <1>1, <1>2 DEF Typed, Types, TypeOK, ConnType

\* A receive gets bytes of a size.
LEMMA ReceiveSizeTypes ==
  ASSUME Typed, NEW c \in Connections, NEW n \in Nat, ReceiveSize(c, n)
  PROVE  Typed'
<1>1. Types /\ ConnType(c) /\ UNCHANGED <<sender, state, messageBytes, didReceiveConnect, disconnected, got>>
  BY TypeParts DEF Typed, ReceiveSize
<1> DEFINE a == sizeBytes[c]
           b == SubSeq(wire[c], 1, n)
           r == SubSeq(wire[c], n + 1, Len(wire[c]))
<1>2. n \in 1 .. SizeBytes - Len(a) /\ n <= Len(wire[c]) /\ nextMessageSize[c] <= 0
  BY DEF ReceiveSize
<1>3. a \in Seq(Byte) /\ Len(a) \in Nat
  BY <1>1, LenProperties DEF Types
<1>4. n \in Nat \ {0} /\ Len(a) + n <= SizeBytes /\ SizeBytes \in Nat
  BY <1>2, <1>3, TCPAssumption
<1>5. b \in Seq(Byte) /\ Len(b) = n /\ r \in Seq(Byte) /\ Len(r) = Len(wire[c]) - n /\ Len(wire[c]) \in Nat
  BY <1>2, <1>4, TakenFromWire
<1>6. sizeBytes' = [sizeBytes EXCEPT ![c] = a \o b] /\ wire' = [wire EXCEPT ![c] = r]
  BY DEF ReceiveSize
<1> HIDE DEF a, b, r
<1>7. a \o b \in Seq(Byte) /\ Len(a \o b) = Len(a) + Len(b)
  BY <1>3, <1>5, ConcatProperties
<1>8. nextMessageSize' \in [Connections -> Int]
      /\ \A d \in Connections \ {c} : nextMessageSize'[d] = nextMessageSize[d]
  <2>1. CASE UNCHANGED nextMessageSize
    BY <2>1, <1>1 DEF Types
  <2>2. CASE \E size \in ReadSizes(sizeBytes'[c]) : nextMessageSize' = [nextMessageSize EXCEPT ![c] = size]
    BY <2>2, <1>1, ReadSizesType DEF Types
  <2> QED BY <2>1, <2>2 DEF ReceiveSize
<1>9. Types'
  BY <1>1, <1>5, <1>6, <1>7, <1>8 DEF Types, sender
<1>10. messageBytes[c] = <<>>
  <2>1. messageBytes[c] \in Seq(Byte) /\ nextMessageSize[c] \in Int
    BY <1>1 DEF Types
  <2>2. Len(messageBytes[c]) \in Nat
    BY <2>1, LenProperties
  <2> QED BY <1>1, <1>2, <2>1, <2>2 DEF ConnType
<1>11. ConnType(c)'
  <2>1. wire'[c] = r /\ sizeBytes'[c] = a \o b /\ messageBytes'[c] = <<>>
    BY <1>1, <1>6, <1>10 DEF Types
  <2>2. Len(r) <= Capacity
    BY <1>1, <1>4, <1>5, TCPAssumption DEF ConnType
  <2> QED BY <2>1, <2>2, <1>4, <1>5, <1>7 DEF ConnType
<1> QED BY <1>1, <1>6, <1>8, <1>9, <1>11, ConnStep DEF Types

\* A receive gets bytes of a message, which is handed up when it is complete.
LEMMA ReceiveMessageTypes ==
  ASSUME Typed, NEW c \in Connections, NEW n \in Nat, ReceiveMessage(c, n)
  PROVE  Typed'
<1>1. Types /\ ConnType(c) /\ UNCHANGED <<sender, state, disconnected>>
  BY TypeParts DEF Typed, ReceiveMessage
<1> DEFINE a == messageBytes[c]
           b == SubSeq(wire[c], 1, n)
           r == SubSeq(wire[c], n + 1, Len(wire[c]))
           bytes == a \o b
<1>2. n \in 1 .. nextMessageSize[c] - Len(a) /\ n <= Len(wire[c]) /\ nextMessageSize[c] > 0
  BY DEF ReceiveMessage
<1>3. a \in Seq(Byte) /\ Len(a) \in Nat /\ nextMessageSize[c] \in Int
  BY <1>1, LenProperties DEF Types
<1>4. n \in Nat \ {0} /\ Len(a) + n <= nextMessageSize[c]
  BY <1>2, <1>3
<1>5. b \in Seq(Byte) /\ Len(b) = n /\ r \in Seq(Byte) /\ Len(r) = Len(wire[c]) - n /\ Len(wire[c]) \in Nat
  BY <1>2, <1>4, TakenFromWire
<1>6. wire' = [wire EXCEPT ![c] = r]
      /\ IF Len(bytes) = nextMessageSize[c] THEN HandUp(c, bytes)
         ELSE /\ messageBytes' = [messageBytes EXCEPT ![c] = bytes]
              /\ UNCHANGED <<sizeBytes, nextMessageSize, didReceiveConnect, got>>
  BY DEF ReceiveMessage
<1>7. bytes \in Seq(Byte) /\ Len(bytes) = Len(a) + Len(b)
  <2> HIDE DEF a, b
  <2> QED BY <1>3, <1>5, ConcatProperties
<1> HIDE DEF a, b, r, bytes
<1>8. Len(r) <= Capacity /\ Len(sizeBytes[c]) <= SizeBytes
  BY <1>1, <1>4, <1>5, TCPAssumption DEF ConnType
<1>9. CASE Len(bytes) = nextMessageSize[c]
  <2>1. HandUp(c, bytes)
    BY <1>6, <1>9
  <2>2. /\ sizeBytes' = [sizeBytes EXCEPT ![c] = <<>>] /\ messageBytes' = [messageBytes EXCEPT ![c] = <<>>]
        /\ nextMessageSize' = [nextMessageSize EXCEPT ![c] = 0]
    BY <2>1 DEF HandUp
  <2>3. PICK connect \in MayBeConnect(bytes) :
          /\ didReceiveConnect' = [didReceiveConnect EXCEPT ![c] = @ \/ connect]
          /\ got' = IF connect /\ didReceiveConnect[c] THEN got
                    ELSE [got EXCEPT ![c] = Append(@, Read(bytes))]
    BY <2>1 DEF HandUp
  <2>4. Read(bytes) \in Messages \union {0}
    <3> DEFINE right == {m \in Messages : bytes = Payload(m)}
    <3>1. Read(bytes) = IF right = {} THEN 0 ELSE CHOOSE m \in right : TRUE
      BY DEF Read
    <3>2. right # {} => (CHOOSE m \in right : TRUE) \in right
      OBVIOUS
    <3> QED BY <3>1, <3>2
  <2>5. got' \in [Connections -> Seq(Messages \union {0})]
    <3> DEFINE g == Append(got[c], Read(bytes))
    <3>1. got[c] \in Seq(Messages \union {0})
      BY <1>1 DEF Types
    <3>2. g \in Seq(Messages \union {0})
      BY <3>1, <2>4, AppendProperties
    <3>3. got' = got \/ got' = [got EXCEPT ![c] = g]
      BY <2>3
    <3> HIDE DEF g
    <3> QED BY <3>2, <3>3, <1>1 DEF Types
  <2>6. didReceiveConnect' \in [Connections -> BOOLEAN]
    <3> DEFINE x == didReceiveConnect[c] \/ connect
    <3>1. x \in BOOLEAN
      OBVIOUS
    <3>2. didReceiveConnect' = [didReceiveConnect EXCEPT ![c] = x]
      BY <2>3
    <3> HIDE DEF x
    <3> QED BY <3>1, <3>2, <1>1 DEF Types
  <2>7. <<>> \in Seq(Byte) /\ Len(<<>>) = 0 /\ SizeBytes \in Nat
    BY EmptySeq, TCPAssumption
  <2>8. Types'
    <3>1. /\ wire' \in [Connections -> Seq(Byte)] /\ sizeBytes' \in [Connections -> Seq(Byte)]
          /\ messageBytes' \in [Connections -> Seq(Byte)]
      BY <1>1, <1>5, <1>6, <2>2, <2>7 DEF Types
    <3>2. nextMessageSize' \in [Connections -> Int]
      BY <1>1, <2>2 DEF Types
    <3> QED BY <1>1, <2>5, <2>6, <3>1, <3>2 DEF Types, sender
  <2>9. ConnType(c)'
    <3>1. wire'[c] = r /\ sizeBytes'[c] = <<>> /\ messageBytes'[c] = <<>>
      BY <1>1, <1>6, <2>2 DEF Types
    <3> QED BY <3>1, <1>8, <2>7 DEF ConnType
  <2> QED BY <1>1, <1>6, <2>2, <2>8, <2>9, ConnStep DEF Types
<1>10. CASE Len(bytes) # nextMessageSize[c]
  <2>1. /\ messageBytes' = [messageBytes EXCEPT ![c] = bytes]
        /\ UNCHANGED <<sizeBytes, nextMessageSize, didReceiveConnect, got>>
    BY <1>6, <1>10
  <2>2. Types'
    BY <1>1, <1>5, <1>6, <1>7, <2>1 DEF Types, sender
  <2>3. ConnType(c)'
    <3>1. wire'[c] = r /\ sizeBytes'[c] = sizeBytes[c] /\ messageBytes'[c] = bytes
      BY <1>1, <1>6, <2>1 DEF Types
    <3>2. Len(bytes) < nextMessageSize[c]
      BY <1>3, <1>4, <1>5, <1>7, <1>10
    <3> QED BY <3>1, <3>2, <1>8, <2>1 DEF ConnType
  <2> QED BY <1>1, <1>6, <2>1, <2>2, <2>3, ConnStep DEF Types
<1> QED BY <1>9, <1>10

\* Every step keeps the types.
LEMMA TypeStep == Typed /\ [Next]_vars => Typed'
<1> SUFFICES ASSUME Typed, [Next]_vars PROVE Typed'
  OBVIOUS
<1> USE DEF sender, receiver
<1>0. Types /\ CallType /\ \A c \in Connections : ConnType(c)
  BY TypeParts DEF Typed
<1>1. CASE UNCHANGED vars
  BY <1>0, <1>1 DEF vars, Typed, Types, TypeOK, CallType, ConnType
<1>2. ASSUME NEW t \in Threads, SendSize(t) \/ GoOn(t) PROVE Typed'
  BY <1>2, SendTypes, PushTypes DEF GoOn
<1>3. ASSUME NEW c \in Connections, Close(c) PROVE Typed'
  <2>1. Types'
    BY <1>0, <1>3 DEF Close, Types
  <2> QED BY <2>1, <1>0, <1>3 DEF Close, Typed, Types, TypeOK, CallType, ConnType
<1>4. ASSUME NEW c \in Connections, Reset(c) PROVE Typed'
  <2>1. <<>> \in Seq(Byte) /\ Len(<<>>) = 0 /\ Capacity \in Nat
    BY EmptySeq, TCPAssumption
  <2>2. Types'
    BY <2>1, <1>0, <1>4 DEF Reset, Types
  <2>3. ConnType(c)'
    BY <2>1, <1>0, <1>4 DEF Reset, Types, ConnType
  <2> QED BY <2>2, <2>3, <1>4, <1>0, ConnStep DEF Reset, Types
<1>5. ASSUME NEW c \in Connections, NEW n \in 1 .. Capacity, ReceiveSize(c, n) \/ ReceiveMessage(c, n)
      PROVE  Typed'
  <2>1. n \in Nat
    BY TCPAssumption
  <2> QED BY <2>1, <1>5, ReceiveSizeTypes, ReceiveMessageTypes
<1>6. ASSUME NEW c \in Connections, ReceiveEnd(c) PROVE Typed'
  <2>1. PICK size \in ReadSizes(sizeBytes[c]) : nextMessageSize' = [nextMessageSize EXCEPT ![c] = size]
    BY <1>6 DEF ReceiveEnd
  <2>2. size \in Int
    BY ReadSizesType
  <2>3. Types'
    BY <2>1, <2>2, <1>0, <1>6 DEF ReceiveEnd, Types
  <2>4. messageBytes[c] = <<>>
    <3>1. messageBytes[c] \in Seq(Byte) /\ nextMessageSize[c] \in Int /\ nextMessageSize[c] <= 0
      BY <1>0, <1>6 DEF Types, ReceiveEnd
    <3>2. Len(messageBytes[c]) \in Nat
      BY <3>1, LenProperties
    <3> QED BY <1>0, <3>1, <3>2 DEF ConnType
  <2>5. ConnType(c)'
    BY <2>4, <1>0, <1>6 DEF ReceiveEnd, ConnType
  <2> QED BY <2>1, <2>3, <2>5, <1>6, <1>0, ConnStep DEF ReceiveEnd, Types
<1>7. ASSUME NEW c \in Connections, ReceiveReset(c) PROVE Typed'
  <2>1. Types'
    BY <1>0, <1>7 DEF ReceiveReset, Types
  <2> QED BY <2>1, <1>0, <1>7 DEF ReceiveReset, Typed, Types, TypeOK, CallType, ConnType
<1> QED BY <1>1, <1>2, <1>3, <1>4, <1>5, <1>6, <1>7 DEF Next, Receive

LEMMA InitTyped == Init => Typed
<1> SUFFICES ASSUME Init PROVE Typed
  OBVIOUS
<1>1. /\ <<>> \in Seq(Byte) /\ <<>> \in Seq(Messages) /\ <<>> \in Seq(Messages \union {0})
      /\ Len(<<>>) = 0 /\ SizeBytes \in Nat /\ Capacity \in Nat /\ Len(Length) \in Nat
  BY EmptySeq, TCPAssumption, LenProperties
<1>2. Idle \in Call /\ Idle.at = "idle"
  BY DEF Idle, Call
<1>3. Types
  BY <1>1, <1>2 DEF Init, Types
<1> QED BY <1>1, <1>2, <1>3 DEF Init, Typed, TypeOK, CallType

\* Sockets are never overfull, and a receiver never holds more of a message than its
\* size, or a part of one without a size, also after bytes have gone out of place.
THEOREM TypeCorrect == Spec => []TypeOK
BY InitTyped, TypeStep, PTL DEF Spec, Typed

-----------------------------------------------------------------------------
(* Bytes in place.                                                         *)

\* What the receiving end has of the next message, and what is under way to it.
Stream(c) == sizeBytes[c] \o messageBytes[c] \o wire[c]

\* A call of send that is in the middle of its bytes.
PartlyOn(r, c) == r.at = "sending" /\ r.conn = c /\ r.partly

\* Whose buffer was its own has the rest of its message to send.
RestOK(r) ==
    r.at = "sending" /\ r.whole =>
        /\ IF r.partly THEN Len(r.rest) < Size(r.message) ELSE Len(r.rest) = Size(r.message)
        /\ \A i \in 1 .. Len(r.rest) :
               r.rest[i] = [of |-> r.message, at |-> Size(r.message) - Len(r.rest) + i]

\* The stream ends with a message, or where the one thread that is in the middle of its
\* message goes on.
EndsRight(calls, c, s) ==
    \/ /\ \A t \in Threads : ~PartlyOn(calls[t], c)
       /\ s # <<>> => AtEnd(s[Len(s)])
    \/ \E t \in Threads :
           /\ PartlyOn(calls[t], c) /\ calls[t].whole
           /\ \A u \in Threads : PartlyOn(calls[u], c) => u = t
           /\ s # <<>>
           /\ s[Len(s)] = [of |-> calls[t].message, at |-> Size(calls[t].message) - Len(calls[t].rest)]

\* The receiver knows the size of the message it has bytes of.  At the end of the
\* stream it may read some value of a part of a size, but nothing comes any more.
Reading(c) ==
    IF nextMessageSize[c] <= 0 THEN messageBytes[c] = <<>> /\ Len(sizeBytes[c]) < SizeBytes
    ELSE \/ Len(sizeBytes[c]) = SizeBytes /\ nextMessageSize[c] = Length[sizeBytes[c][1].of]
         \/ state[c] # "Open" /\ wire[c] = <<>>

Sound(c) ==
    /\ didReceiveConnect[c] <=> \E i \in DOMAIN got[c] : got[c][i] \in Connects
    /\ Reading(c)
    /\ IF state[c] = "Reset" THEN wire[c] = <<>> /\ IsPrefix(got[c], sent[c])
       ELSE Chain(Stream(c)) /\ Carries(Stream(c), got[c], sent[c])
    /\ state[c] = "Open" => EndsRight(call, c, Stream(c))

\* The inductive invariant.
Framing == (\A t \in Threads : RestOK(call[t])) /\ \A c \in Connections : ~broken[c] => Sound(c)

\* What a step leaves of a connection.
SameConn(c) ==
    UNCHANGED <<didReceiveConnect[c], got[c], sent[c], wire[c], sizeBytes[c], messageBytes[c],
                nextMessageSize[c], state[c]>>

-----------------------------------------------------------------------------
\* A connection that a step does not touch stays sound.
LEMMA SoundKept ==
  ASSUME NEW c, Sound(c), SameConn(c),
         state[c] = "Open" /\ EndsRight(call, c, Stream(c)) => EndsRight(call', c, Stream(c))
  PROVE  Sound(c)'
<1>1. Stream(c)' = Stream(c)
  BY DEF SameConn, Stream
<1>2. Reading(c)'
  BY DEF SameConn, Sound, Reading
<1>3. (IF state[c] = "Reset" THEN wire[c] = <<>> /\ IsPrefix(got[c], sent[c])
       ELSE Chain(Stream(c)) /\ Carries(Stream(c), got[c], sent[c]))'
  BY <1>1 DEF SameConn, Sound
<1>4. (state[c] = "Open")' => EndsRight(call', c, Stream(c)')
  BY <1>1 DEF SameConn, Sound
<1>5. (didReceiveConnect[c] <=> \E i \in DOMAIN got[c] : got[c][i] \in Connects)'
  BY DEF SameConn, Sound
<1> QED BY <1>2, <1>3, <1>4, <1>5 DEF Sound

\* A call that was not in the middle of a message of the connection, and is not now.
LEMMA EndsKept ==
  ASSUME NEW c, NEW s, EndsRight(call, c, s), NEW t \in Threads,
         \A u \in Threads \ {t} : call'[u] = call[u],
         ~PartlyOn(call[t], c), ~PartlyOn(call'[t], c)
  PROVE  EndsRight(call', c, s)
<1>1. \A u \in Threads : PartlyOn(call'[u], c) <=> PartlyOn(call[u], c)
  BY Zenon
<1>2. \A u \in Threads : PartlyOn(call[u], c) => call'[u] = call[u]
  BY Zenon
<1> QED BY <1>1, <1>2, Zenon DEF EndsRight

\* A stream s is put together from three parts.
InParts(s, a, b, w) ==
    /\ s \in Seq(Byte) /\ Len(a) \in Nat /\ Len(b) \in Nat /\ Len(w) \in Nat
    /\ Len(s) = Len(a) + Len(b) + Len(w)
    /\ \A i \in 1 .. Len(a) : s[i] = a[i]
    /\ \A i \in 1 .. Len(b) : s[Len(a) + i] = b[i]
    /\ \A i \in 1 .. Len(w) : s[Len(a) + Len(b) + i] = w[i]

LEMMA StreamOf ==
  ASSUME NEW a \in Seq(Byte), NEW b \in Seq(Byte), NEW w \in Seq(Byte)
  PROVE  InParts(a \o b \o w, a, b, w)
<1> DEFINE ab == a \o b
<1>3. ab = a \o b
  OBVIOUS
<1> HIDE DEF ab
<1>4. /\ ab \in Seq(Byte) /\ Len(ab) = Len(a) + Len(b) /\ Len(a) \in Nat /\ Len(b) \in Nat
      /\ \A i \in 1 .. Len(a) : ab[i] = a[i]
      /\ \A i \in 1 .. Len(b) : ab[Len(a) + i] = b[i]
  BY <1>3, StreamConcat
<1> DEFINE s == ab \o w
<1>5. s = ab \o w
  OBVIOUS
<1> HIDE DEF s
<1>6. /\ s \in Seq(Byte) /\ Len(s) = Len(ab) + Len(w) /\ Len(w) \in Nat
      /\ \A i \in 1 .. Len(ab) : s[i] = ab[i]
      /\ \A i \in 1 .. Len(w) : s[Len(ab) + i] = w[i]
  <2>1. ab \in Seq(Byte)
    BY <1>4
  <2> QED BY <2>1, <1>5, StreamConcat
<1>7. \A i \in 1 .. Len(a) : s[i] = a[i]
  <2>1. \A i \in 1 .. Len(a) : i \in 1 .. Len(ab)
    BY <1>4
  <2> QED BY <2>1, <1>4, <1>6
<1>8. \A i \in 1 .. Len(b) : s[Len(a) + i] = b[i]
  <2>1. \A i \in 1 .. Len(b) : Len(a) + i \in 1 .. Len(ab)
    BY <1>4
  <2> QED BY <2>1, <1>4, <1>6
<1>9. Len(s) = Len(a) + Len(b) + Len(w)
  BY <1>4, <1>6
<1>10. a \o b \o w = s
  BY <1>3, <1>5
<1>11. InParts(s, a, b, w)
  BY <1>4, <1>6, <1>7, <1>8, <1>9 DEF InParts
<1> QED BY <1>10, <1>11

\* The stream of a connection is one, before and after a step.
LEMMA StreamType ==
  ASSUME Typed, NEW c \in Connections
  PROVE  /\ Stream(c) \in Seq(Byte) /\ sizeBytes[c] \in Seq(Byte)
         /\ messageBytes[c] \in Seq(Byte) /\ wire[c] \in Seq(Byte)
         /\ Len(sizeBytes[c]) \in Nat /\ Len(messageBytes[c]) \in Nat /\ Len(wire[c]) \in Nat
         /\ Len(Stream(c)) = Len(sizeBytes[c]) + Len(messageBytes[c]) + Len(wire[c])
         /\ \A i \in 1 .. Len(sizeBytes[c]) : Stream(c)[i] = sizeBytes[c][i]
         /\ \A i \in 1 .. Len(messageBytes[c]) : Stream(c)[Len(sizeBytes[c]) + i] = messageBytes[c][i]
<1> DEFINE a == sizeBytes[c]
           b == messageBytes[c]
           w == wire[c]
<1>1. a \in Seq(Byte) /\ b \in Seq(Byte) /\ w \in Seq(Byte)
  BY DEF Typed, Types
<1>2. Stream(c) = a \o b \o w
  BY DEF Stream
<1> HIDE DEF a, b, w
<1>3. InParts(Stream(c), a, b, w)
  BY <1>1, <1>2, StreamOf
<1> QED BY <1>1, <1>3 DEF InParts, a, b, w

LEMMA StreamTypeNext ==
  ASSUME Typed', NEW c \in Connections
  PROVE  /\ Stream(c)' \in Seq(Byte) /\ sizeBytes'[c] \in Seq(Byte)
         /\ Len(sizeBytes'[c]) \in Nat /\ Len(messageBytes'[c]) \in Nat /\ Len(wire'[c]) \in Nat
         /\ Len(Stream(c)') = Len(sizeBytes'[c]) + Len(messageBytes'[c]) + Len(wire'[c])
         /\ \A i \in 1 .. Len(sizeBytes'[c]) : Stream(c)'[i] = sizeBytes'[c][i]
<1> DEFINE a == sizeBytes'[c]
           b == messageBytes'[c]
           w == wire'[c]
           y == Stream(c)'
<1>1. a \in Seq(Byte) /\ b \in Seq(Byte) /\ w \in Seq(Byte)
  BY DEF Typed, Types
<1>2. y = a \o b \o w
  BY DEF Stream
<1> HIDE DEF a, b, w, y
<1>3. InParts(y, a, b, w)
  BY <1>1, <1>2, StreamOf
<1> QED BY <1>1, <1>3 DEF InParts, a, b, w, y

\* The sender's own statements touch no connection; a whole buffer that is handed to
\* the socket is the message behind its size.
LEMMA SendFrames ==
  ASSUME Typed, Framing, NEW t \in Threads, SendSize(t) \/ SendPayload(t) \/ SendAll(t)
  PROVE  Framing'
<1> USE DEF sender, receiver
<1>0. Types /\ call \in [Threads -> Call]
  BY DEF Typed, Types
<1>1. /\ \A u \in Threads \ {t} : call'[u] = call[u]
      /\ call[t].at # "sending" /\ UNCHANGED <<broken, sent, receiver, wire, state>>
  <2>1. CASE SendSize(t)
    BY <2>1, <1>0 DEF SendSize
  <2>2. CASE SendPayload(t)
    <3>1. call' = [call EXCEPT ![t] = Idle] \/ call' = [call EXCEPT ![t].at = "sendall"]
      BY <2>2 DEF SendPayload
    <3> QED BY <2>2, <3>1, <1>0 DEF SendPayload
  <2>3. CASE SendAll(t)
    BY <2>3, <1>0 DEF SendAll
  <2> QED BY <2>1, <2>2, <2>3
<1>2. RestOK(call'[t]) /\ \A c \in Connections : ~PartlyOn(call'[t], c)
  <2>1. CASE SendSize(t)
    <3>1. call'[t].at = "extend"
      BY <2>1, <1>0 DEF SendSize
    <3> QED BY <3>1 DEF RestOK, PartlyOn
  <2>2. CASE SendPayload(t)
    <3>1. call[t].at = "extend" /\ (call' = [call EXCEPT ![t] = Idle] \/ call' = [call EXCEPT ![t].at = "sendall"])
      BY <2>2 DEF SendPayload
    <3>2. call[t] \in [at : {"extend", "sendall"}, message : Messages, conn : Connections]
      BY <3>1, <1>0, CallParts
    <3>3. call'[t].at \in {"idle", "sendall"}
      BY <3>1, <3>2, <1>0 DEF Idle
    <3> QED BY <3>3 DEF RestOK, PartlyOn
  <2>3. CASE SendAll(t)
    <3> DEFINE m == call[t].message
               w == sendBuffer.bytes = SizeField(m) \o Payload(m)
               r == [at |-> "sending", message |-> m, conn |-> call[t].conn,
                     buffer |-> sendBuffer.size, rest |-> sendBuffer.bytes,
                     whole |-> w, partly |-> FALSE]
    <3>1. m \in Messages
      BY <2>3, <1>0, CallParts DEF SendAll
    <3>2. call' = [call EXCEPT ![t] = r]
      BY <2>3 DEF SendAll
    <3>3. call'[t] = r
      BY <3>2, <1>0
    <3>4. r.whole <=> sendBuffer.bytes = Frame(m)
      BY DEF Frame
    <3>5. r.at = "sending" /\ r.message = m /\ r.rest = sendBuffer.bytes /\ r.partly = FALSE
      OBVIOUS
    <3> HIDE DEF r, w
    <3>6. RestOK(r)
      <4> SUFFICES ASSUME r.whole
                   PROVE  /\ Len(r.rest) = Size(m)
                          /\ \A i \in 1 .. Len(r.rest) :
                                 r.rest[i] = [of |-> m, at |-> Size(m) - Len(r.rest) + i]
        BY <3>5 DEF RestOK
      <4>1. r.rest = Frame(m) /\ Size(m) \in Nat
        BY <3>1, <3>4, <3>5, Sizes
      <4>2. Len(r.rest) = Size(m) /\ \A i \in 1 .. Size(m) : r.rest[i] = [of |-> m, at |-> i]
        BY <3>1, <4>1, FrameBytes
      <4>3. \A i \in 1 .. Size(m) : Size(m) - Len(r.rest) + i = i
        BY <4>1, <4>2
      <4> HIDE DEF m
      <4> QED BY <4>2, <4>3
    <3>7. \A c \in Connections : ~PartlyOn(r, c)
      BY <3>5 DEF PartlyOn
    <3> QED BY <3>3, <3>6, <3>7
  <2> QED BY <2>1, <2>2, <2>3
<1>3. \A u \in Threads : RestOK(call'[u])
  BY <1>1, <1>2 DEF Framing
<1>4. ASSUME NEW c \in Connections, ~broken'[c] PROVE Sound(c)'
  <2>1. Sound(c) /\ SameConn(c)
    BY <1>1, <1>4 DEF Framing, SameConn
  <2>2. ~PartlyOn(call[t], c) /\ ~PartlyOn(call'[t], c)
    BY <1>1, <1>2 DEF PartlyOn
  <2>3. EndsRight(call, c, Stream(c)) => EndsRight(call', c, Stream(c))
    BY <1>1, <2>2, EndsKept
  <2> QED BY <2>1, <2>3, SoundKept
<1> QED BY <1>3, <1>4 DEF Framing

\* A thread passes bytes on: those behind the ones of its message that the stream ends
\* with, or the first of its message behind whole ones.  Else bytes are out of place.
LEMMA PushFrames ==
  ASSUME Typed, Framing, NEW t \in Threads, Push(t)
  PROVE  Framing'
<1> USE DEF sender, receiver
<1>0. Types /\ call \in [Threads -> Call]
  BY DEF Typed, Types
<1>11. PICK c \in Connections : call[t].conn = c
  BY PushParts
<1> DEFINE now == call[t]
           m == now.message
           n == Fits(t)
           b == SubSeq(now.rest, 1, n)
           r == [now EXCEPT !.rest = SubSeq(@, n + 1, Len(@)), !.partly = TRUE]
           k == Size(m) - Len(now.rest)
<1>1. /\ c \in Connections /\ m \in Messages
      /\ now.rest \in Seq(Byte) /\ Len(now.rest) \in Nat \ {0}
      /\ n \in 1 .. Len(now.rest)
      /\ b \in Seq(Byte) /\ Len(b) = n /\ \A i \in 1 .. n : b[i] = now.rest[i]
      /\ n # Len(now.rest) =>
                /\ r \in Call /\ r.at = "sending" /\ r.message = m
                /\ r.conn = c /\ r.partly /\ r.whole = now.whole
                /\ r.rest \in Seq(Byte) /\ Len(r.rest) = Len(now.rest) - n
                /\ \A i \in 1 .. Len(r.rest) : r.rest[i] = now.rest[n + i]
  BY <1>11, PushParts
<1>2. /\ now.at = "sending" /\ state[c] = "Open"
      /\ wire' = [wire EXCEPT ![c] = @ \o b]
      /\ IF n = Len(now.rest)
         THEN call' = [call EXCEPT ![t] = Idle] /\ sent' = [sent EXCEPT ![c] = Take(@, m)]
         ELSE call' = [call EXCEPT ![t] = r] /\ UNCHANGED sent
      /\ UNCHANGED <<sendBuffer, begun, receiver, state>>
  BY <1>11 DEF Push
<1> DEFINE others == \E u \in Threads \ {t} :
                       call[u].at = "sending" /\ call[u].conn = c /\ call[u].partly
           x == broken[c] \/ ~now.whole \/ others
<1>12. broken' = [broken EXCEPT ![c] = x]
  BY <1>11, Zenon DEF Push
<1>3. ~broken'[c] => /\ ~broken[c] /\ now.whole
                     /\ \A u \in Threads \ {t} : ~PartlyOn(call[u], c)
  <2>2. broken'[c] = x
    <3> HIDE DEF x
    <3> QED BY <1>12, <1>0, <1>1 DEF Types
  <2> QED BY <2>2, Zenon DEF PartlyOn
<1> HIDE DEF x, others
<1>4. \A d \in Connections \ {c} : broken'[d] = broken[d] /\ SameConn(d)
  <2> HIDE DEF b, n, r
  <2> TAKE d \in Connections \ {c}
  <2>1. broken'[d] = broken[d]
    BY <1>12, <1>0 DEF Types
  <2>2. wire'[d] = wire[d] /\ sent'[d] = sent[d]
    BY <1>0, <1>2 DEF Types
  <2> QED BY <2>1, <2>2, <1>2 DEF SameConn
<1> HIDE DEF b, r, n
<1>5. \A u \in Threads \ {t} : call'[u] = call[u]
  BY <1>0, <1>2
<1>6. \A d \in Connections \ {c} : ~PartlyOn(call[t], d) /\ ~PartlyOn(call'[t], d)
  <2>1. call'[t] = Idle \/ (call'[t] = r /\ n # Len(now.rest))
    BY <1>0, <1>2
  <2>2. ~(Idle.at = "sending")
    BY DEF Idle
  <2> QED BY <2>1, <2>2, <1>1, <1>11 DEF PartlyOn
<1>7. ASSUME NEW d \in Connections, d # c, ~broken'[d] PROVE Sound(d)'
  <2>1. Sound(d) /\ SameConn(d)
    BY <1>4, <1>7 DEF Framing
  <2>2. EndsRight(call, d, Stream(d)) => EndsRight(call', d, Stream(d))
    BY <1>5, <1>6, <1>7, EndsKept
  <2> QED BY <2>1, <2>2, SoundKept
<1>8. now.whole => /\ k \in Nat /\ k + n <= Size(m) /\ Size(m) \in Nat
                   /\ now.partly <=> k # 0
                   /\ \A i \in 1 .. Len(now.rest) : now.rest[i] = [of |-> m, at |-> k + i]
                   /\ n = Len(now.rest) <=> k + n = Size(m)
  <2> HAVE now.whole
  <2>1. Size(m) \in Nat
    BY <1>1, Sizes
  <2>2. /\ IF now.partly THEN Len(now.rest) < Size(m) ELSE Len(now.rest) = Size(m)
        /\ \A i \in 1 .. Len(now.rest) : now.rest[i] = [of |-> m, at |-> k + i]
    BY <1>2 DEF Framing, RestOK
  <2> DEFINE L == Len(now.rest)
             Z == Size(m)
  <2>3. L \in Nat \ {0} /\ Z \in Nat /\ n \in 1 .. L /\ k = Z - L
    BY <1>1, <2>1
  <2>4. IF now.partly THEN L < Z ELSE L = Z
    BY <2>2
  <2> HIDE DEF L, Z, k, now
  <2>5. k \in Nat /\ k + n <= Z /\ (n = L <=> k + n = Z)
    BY <2>3, <2>4
  <2>6. now.partly <=> k # 0
    BY <2>3, <2>4
  <2> QED BY <2>1, <2>2, <2>5, <2>6 DEF L, Z
<1>9. \A u \in Threads : RestOK(call'[u])
  <2>1. RestOK(call'[t])
    <3>1. CASE n = Len(now.rest)
      <4>1. call'[t].at = "idle"
        BY <3>1, <1>0, <1>2 DEF Idle
      <4> QED BY <4>1 DEF RestOK
    <3>2. CASE n # Len(now.rest)
      <4>1. call'[t] = r
        BY <3>2, <1>0, <1>2
      <4> SUFFICES ASSUME r.whole
                   PROVE  /\ Len(r.rest) < Size(m)
                          /\ \A i \in 1 .. Len(r.rest) :
                                 r.rest[i] = [of |-> m, at |-> Size(m) - Len(r.rest) + i]
        BY <3>2, <4>1, <1>1 DEF RestOK
      <4>2. now.whole
        BY <3>2, <1>1
      <4> DEFINE L == Len(now.rest)
                 Z == Size(m)
                 M == Len(r.rest)
      <4>3. L \in Nat \ {0} /\ Z \in Nat /\ n \in 1 .. L /\ k = Z - L /\ k \in Nat /\ M = L - n
        BY <3>2, <4>2, <1>1, <1>8
      <4>4. \A i \in 1 .. M : r.rest[i] = now.rest[n + i]
        BY <3>2, <1>1
      <4>5. \A i \in 1 .. L : now.rest[i] = [of |-> m, at |-> k + i]
        BY <4>2, <1>8
      <4> HIDE DEF L, Z, M, k, m, now
      <4>6. M < Z /\ \A i \in 1 .. M : n + i \in 1 .. L /\ k + (n + i) = Z - M + i
        BY <4>3
      <4>7. \A i \in 1 .. M : r.rest[i] = [of |-> m, at |-> Z - M + i]
        BY <4>4, <4>5, <4>6
      <4> QED BY <4>6, <4>7 DEF M, Z
    <3> QED BY <3>1, <3>2
  <2> QED BY <2>1, <1>5 DEF Framing
<1>10. ASSUME ~broken'[c] PROVE Sound(c)'
  <2>1. /\ Sound(c) /\ now.whole /\ \A u \in Threads \ {t} : ~PartlyOn(call[u], c)
        /\ k \in Nat /\ k + n <= Size(m) /\ Size(m) \in Nat /\ (now.partly <=> k # 0)
        /\ \A i \in 1 .. Len(now.rest) : now.rest[i] = [of |-> m, at |-> k + i]
        /\ (n = Len(now.rest) <=> k + n = Size(m))
    BY <1>1, <1>3, <1>8, <1>10 DEF Framing
  <2>2. /\ Chain(Stream(c)) /\ Carries(Stream(c), got[c], sent[c]) /\ EndsRight(call, c, Stream(c))
    BY <2>1, <1>2 DEF Sound
  <2>3. Joins(Stream(c), m, k)
    <3>1. CASE now.partly
      <4>1. PartlyOn(call[t], c)
        BY <3>1, <1>11, <1>2 DEF PartlyOn
      <4>2. Stream(c) # <<>> /\ Stream(c)[Len(Stream(c))] = [of |-> m, at |-> k]
        BY <4>1, <2>2 DEF EndsRight
      <4> QED BY <4>2, <3>1, <2>1 DEF Joins
    <3>2. CASE ~now.partly
      <4>1. \A u \in Threads : ~PartlyOn(call[u], c)
        BY <3>2, <2>1 DEF PartlyOn
      <4>2. Stream(c) # <<>> => AtEnd(Stream(c)[Len(Stream(c))])
        BY <4>1, <2>2 DEF EndsRight
      <4> QED BY <4>2, <3>2, <2>1 DEF Joins
    <3> QED BY <3>1, <3>2
  <2> DEFINE s == Stream(c)
             e == sent[c]
             g == got[c]
  <2>4. /\ b \in Seq(Byte) /\ b # <<>> /\ Len(b) = n /\ n \in Nat
        /\ \A i \in 1 .. Len(b) : b[i] = [of |-> m, at |-> k + i]
    <3>1. n \in Nat \ {0} /\ \A i \in 1 .. n : i \in 1 .. Len(now.rest)
      BY <1>1
    <3>2. b # <<>>
      BY <3>1, <1>1, EmptySeq
    <3>3. \A i \in 1 .. n : b[i] = [of |-> m, at |-> k + i]
      BY <3>1, <1>1, <2>1
    <3> QED BY <3>1, <3>2, <3>3, <1>1
  <2>5. Stream(c)' = s \o b
    <3>1. wire'[c] = wire[c] \o b
      BY <1>0, <1>1, <1>2 DEF Types
    <3>2. sizeBytes'[c] = sizeBytes[c] /\ messageBytes'[c] = messageBytes[c]
      BY <1>2
    <3> DEFINE a == sizeBytes[c] \o messageBytes[c]
               w == wire[c]
    <3>5. sizeBytes[c] \in Seq(Byte) /\ messageBytes[c] \in Seq(Byte) /\ w \in Seq(Byte)
      BY StreamType
    <3>3. a \in Seq(Byte)
      BY <3>5, ConcatProperties
    <3>4. s = a \o w /\ Stream(c)' = a \o (w \o b)
      BY <3>1, <3>2 DEF Stream
    <3> HIDE DEF a, w, s
    <3>6. (a \o w) \o b = a \o (w \o b)
      <4>1. b \in Seq(Byte) /\ w \in Seq(Byte)
        BY <2>4, <3>5
      <4> QED BY <4>1, <3>3, ConcatAssociative
    <3> QED BY <3>4, <3>6
  <2>6. s \in Seq(Byte) /\ m \in Messages /\ k \in Nat
    BY <1>1, <2>1, StreamType
  <2> DEFINE last == IF k + n = Size(m) THEN Take(e, m) ELSE e
  <2>7. /\ Chain(s \o b) /\ Carries(s \o b, g, last)
        /\ s \o b # <<>> /\ (s \o b)[Len(s \o b)] = [of |-> m, at |-> k + n]
    <3>1. Chain(s) /\ Carries(s, g, e) /\ Joins(s, m, k) /\ k + Len(b) <= Size(m)
      BY <2>1, <2>2, <2>3, <2>4
    <3>2. \A i \in 1 .. Len(b) : b[i] = [of |-> m, at |-> k + i]
      BY <2>4
    <3>4. b \in Seq(Byte) /\ b # <<>>
      BY <2>4
    <3> HIDE DEF s, e, g, k, m
    <3>3. /\ Chain(s \o b)
          /\ Carries(s \o b, g, IF k + Len(b) = Size(m) THEN Take(e, m) ELSE e)
          /\ s \o b # <<>> /\ (s \o b)[Len(s \o b)] = [of |-> m, at |-> k + Len(b)]
      BY <2>6, <3>1, <3>2, <3>4, StreamGrows
    <3> QED BY <3>3, <2>4
  <2>8. sent'[c] = last
    <3>1. sent \in [Connections -> Seq(Messages)]
      BY <1>0 DEF Types
    <3> QED BY <3>1, <1>1, <1>2, <2>1
  <2>9. EndsRight(call', c, s \o b)
    <3>1. CASE n = Len(now.rest)
      <4>1. call'[t].at = "idle"
        BY <3>1, <1>0, <1>2 DEF Idle
      <4>2. \A u \in Threads : ~PartlyOn(call'[u], c)
        BY <4>1, <1>5, <2>1 DEF PartlyOn
      <4>3. AtEnd((s \o b)[Len(s \o b)])
        BY <3>1, <2>1, <2>7 DEF AtEnd
      <4> QED BY <4>2, <4>3 DEF EndsRight
    <3>2. CASE n # Len(now.rest)
      <4>1. call'[t] = r
        BY <3>2, <1>0, <1>2
      <4>2. /\ PartlyOn(call'[t], c) /\ call'[t].whole /\ call'[t].message = m
            /\ Len(call'[t].rest) = Len(now.rest) - n
        BY <3>2, <4>1, <1>1, <2>1 DEF PartlyOn
      <4>3. \A u \in Threads : PartlyOn(call'[u], c) => u = t
        BY <1>5, <2>1
      <4>4. k + n = Size(m) - Len(call'[t].rest)
        <5> DEFINE L == Len(now.rest)
                   Z == Size(m)
                   M == Len(call'[t].rest)
        <5>1. L \in Nat /\ Z \in Nat /\ n \in Nat /\ k = Z - L /\ M = L - n
          BY <4>2, <1>1, <2>1, <2>4
        <5> HIDE DEF L, Z, M, k
        <5>2. k + n = Z - M
          BY <5>1
        <5> QED BY <5>2 DEF Z, M
      <4>5. (s \o b)[Len(s \o b)] = [of |-> call'[t].message, at |-> Size(call'[t].message) - Len(call'[t].rest)]
        BY <4>2, <4>4, <2>7
      <4> HIDE DEF s, k, m, now
      <4> QED BY <4>2, <4>3, <4>5, <2>7 DEF EndsRight
    <3> QED BY <3>1, <3>2
  <2>10. Reading(c)'
    <3>1. Reading(c) /\ state[c] = "Open"
      BY <2>1, <1>2 DEF Sound
    <3> QED BY <3>1, <1>2 DEF Reading
  <2>11. state'[c] = "Open" /\ got'[c] = g /\ didReceiveConnect'[c] = didReceiveConnect[c]
    BY <1>2
  <2>12. (didReceiveConnect[c] <=> \E i \in DOMAIN got[c] : got[c][i] \in Connects)'
    BY <2>1, <2>11 DEF Sound
  <2>13. (Chain(Stream(c)) /\ Carries(Stream(c), got[c], sent[c]) /\ EndsRight(call, c, Stream(c)))'
    <3> HIDE DEF s, last
    <3> QED BY <2>5, <2>7, <2>8, <2>9, <2>11
  <2> QED BY <2>10, <2>11, <2>12, <2>13 DEF Sound
<1> QED BY <1>7, <1>9, <1>10 DEF Framing

\* sendall fails, a socket is closed, or the connection breaks down.
LEMMA PushFailsFrames ==
  ASSUME Typed, Framing, NEW t \in Threads, PushFails(t)
  PROVE  Framing'
<1> USE DEF sender, receiver
<1>0. Types /\ call \in [Threads -> Call]
  BY DEF Typed, Types
<1>1. PICK c \in Connections : call[t].conn = c
  BY <1>0, CallParts DEF PushFails
<1>2. /\ call[t].at = "sending" /\ call' = [call EXCEPT ![t] = Idle]
      /\ UNCHANGED <<sendBuffer, begun, sent, receiver, wire, state>>
  BY DEF PushFails
<1> DEFINE x == broken[c] \/ (state[c] = "Open" /\ call[t].partly)
<1>3. broken' = [broken EXCEPT ![c] = x]
  BY <1>1, Zenon DEF PushFails
<1> HIDE DEF x
<1>4. call'[t] = Idle /\ Idle.at = "idle" /\ \A u \in Threads \ {t} : call'[u] = call[u]
  BY <1>0, <1>2 DEF Idle
<1>5. \A u \in Threads : RestOK(call'[u])
  BY <1>4 DEF RestOK, Framing
<1>6. ASSUME NEW d \in Connections, ~broken'[d] PROVE Sound(d)'
  <2>1. ~broken[d] /\ (d = c => ~x)
    <3>1. CASE d = c
      <4>1. broken'[d] = x
        BY <3>1, <1>0, <1>3 DEF Types
      <4> QED BY <3>1, <4>1, <1>6 DEF x
    <3>2. CASE d # c
      BY <3>2, <1>0, <1>3, <1>6 DEF Types
    <3> QED BY <3>1, <3>2
  <2>2. Sound(d) /\ SameConn(d)
    BY <2>1, <1>2 DEF Framing, SameConn
  <2>3. ASSUME state[d] = "Open", EndsRight(call, d, Stream(d)) PROVE EndsRight(call', d, Stream(d))
    <3>1. ~PartlyOn(call'[t], d)
      BY <1>4 DEF PartlyOn
    <3>2. ~PartlyOn(call[t], d)
      BY <1>1, <2>1, <2>3, Zenon DEF PartlyOn, x
    <3> QED BY <2>3, <3>1, <3>2, <1>4, EndsKept
  <2> QED BY <2>2, <2>3, SoundKept
<1> QED BY <1>5, <1>6 DEF Framing

\* Steps that leave the calls, and all connections but one.
LEMMA OneConnFrames ==
  ASSUME Framing, NEW c \in Connections, UNCHANGED sender,
         \A d \in Connections \ {c} : SameConn(d),
         ~broken[c] => Sound(c)'
  PROVE  Framing'
<1>1. call' = call /\ broken' = broken
  BY DEF sender
<1>2. ASSUME NEW d \in Connections, d # c, ~broken'[d] PROVE Sound(d)'
  BY <1>1, <1>2, SoundKept DEF Framing
<1>3. ~broken'[c] => Sound(c)'
  BY <1>1
<1> QED BY <1>1, <1>2, <1>3 DEF Framing

LEMMA EndFrames ==
  ASSUME Typed, Framing, NEW c \in Connections, Close(c) \/ Reset(c) \/ ReceiveEnd(c) \/ ReceiveReset(c)
  PROVE  Framing'
<1> USE DEF receiver
<1>0. Types
  BY DEF Typed
<1>1. UNCHANGED sender /\ \A d \in Connections \ {c} : SameConn(d)
  <2>1. CASE Close(c) \/ Reset(c)
    BY <2>1, <1>0 DEF Close, Reset, Types, SameConn, sender
  <2>2. CASE ReceiveEnd(c)
    BY <2>2, <1>0 DEF ReceiveEnd, Types, SameConn, sender
  <2>3. CASE ReceiveReset(c)
    BY <2>3, <1>0 DEF ReceiveReset, Types, SameConn, sender
  <2> QED BY <2>1, <2>2, <2>3
<1>2. ASSUME ~broken[c] PROVE Sound(c)'
  <2>0. Sound(c)
    BY <1>2 DEF Framing
  <2>1. CASE Close(c)
    <3>1. UNCHANGED <<receiver, wire, sent>> /\ state[c] = "Open" /\ state'[c] = "Closed"
      BY <2>1, <1>0 DEF Close, Types, sender
    <3>2. Stream(c)' = Stream(c)
      BY <3>1 DEF Stream
    <3>3. Reading(c)'
      BY <2>0, <3>1 DEF Sound, Reading
    <3> QED BY <2>0, <3>1, <3>2, <3>3 DEF Sound
  <2>2. CASE Reset(c)
    <3>1. UNCHANGED <<receiver, sent>> /\ state[c] # "Reset" /\ state'[c] = "Reset" /\ wire'[c] = <<>>
      BY <2>2, <1>0 DEF Reset, Types, sender
    <3>2. IsPrefix(got[c], sent[c])
      <4>1. Carries(Stream(c), got[c], sent[c])
        BY <2>0, <3>1 DEF Sound
      <4>2. Stream(c) \in Seq(Byte)
        BY StreamType
      <4> DEFINE s == Stream(c)
                 g == got[c]
                 e == sent[c]
      <4> HIDE DEF s, g, e
      <4>3. IsPrefix(g, e)
        BY <4>1, <4>2, CarriesPrefix DEF s, g, e
      <4> QED BY <4>3 DEF g, e
    <3>3. Reading(c)'
      BY <2>0, <3>1 DEF Sound, Reading
    <3> QED BY <2>0, <3>1, <3>2, <3>3 DEF Sound
  <2>3. CASE ReceiveEnd(c)
    <3>1. /\ UNCHANGED <<sent, state, wire, sizeBytes, messageBytes, didReceiveConnect, disconnected, got>>
          /\ state[c] = "Closed" /\ wire[c] = <<>> /\ nextMessageSize[c] <= 0
      BY <2>3 DEF ReceiveEnd, sender
    <3>2. Stream(c)' = Stream(c)
      BY <3>1 DEF Stream
    <3>3. Reading(c)'
      BY <2>0, <3>1 DEF Sound, Reading
    <3> QED BY <2>0, <3>1, <3>2, <3>3 DEF Sound
  <2>4. CASE ReceiveReset(c)
    <3>1. SameConn(c) /\ call' = call
      BY <2>4 DEF ReceiveReset, sender, SameConn
    <3> QED BY <2>0, <3>1, SoundKept
  <2> QED BY <2>1, <2>2, <2>3, <2>4
<1> QED BY <1>1, <1>2, OneConnFrames

\* Bytes move within the stream.
LEMMA RegroupedEmpty ==
  ASSUME NEW a \in Seq(Byte), NEW v \in Seq(Byte), NEW w \in Seq(Byte)
  PROVE  (a \o v) \o <<>> \o w = a \o <<>> \o (v \o w)
<1>1. /\ a \o v \in Seq(Byte)
      /\ (a \o v) \o <<>> = a \o v /\ a \o <<>> = a
  BY ConcatProperties, ConcatEmptySeq
<1>2. (a \o v) \o w = a \o (v \o w)
  BY ConcatAssociative
<1> QED BY <1>1, <1>2

LEMMA Regrouped ==
  ASSUME NEW a \in Seq(Byte), NEW b \in Seq(Byte), NEW v \in Seq(Byte), NEW w \in Seq(Byte)
  PROVE  a \o (b \o v) \o w = a \o b \o (v \o w)
<1>1. a \o b \in Seq(Byte)
  BY ConcatProperties
<1>2. a \o (b \o v) = (a \o b) \o v
  BY ConcatAssociative
<1>3. ((a \o b) \o v) \o w = (a \o b) \o (v \o w)
  <2> DEFINE ab == a \o b
  <2>1. ab \in Seq(Byte)
    BY <1>1
  <2> HIDE DEF ab
  <2>2. (ab \o v) \o w = ab \o (v \o w)
    BY <2>1, ConcatAssociative
  <2> QED BY <2>2 DEF ab
<1> QED BY <1>2, <1>3

\* All the size bytes are those of the first message of the stream, and read as its
\* length.
LEMMA SizeRead ==
  ASSUME NEW m \in Messages, NEW bytes \in Seq(Byte), SizeBytes = Len(bytes),
         \A i \in 1 .. SizeBytes : bytes[i] = [of |-> m, at |-> i]
  PROVE  ReadSizes(bytes) = {Length[m]}
<1>1. SizeBytes \in Nat \ {0} /\ 1 \in 1 .. SizeBytes
  BY TCPAssumption
<1>2. bytes = SizeField(m)
  <2> DEFINE f == SizeField(m)
  <2>1. f \in Seq(Byte) /\ Len(f) = SizeBytes /\ \A i \in 1 .. SizeBytes : f[i] = bytes[i]
    BY FrameBytes
  <2> HIDE DEF f
  <2> QED BY <2>1, SeqEqual DEF f
<1>3. bytes # <<>>
  BY <1>1, EmptySeq
<1>4. \A x \in Messages : IsPrefix(bytes, SizeField(x)) <=> x = m
  <2> TAKE x \in Messages
  <2> DEFINE f == SizeField(x)
  <2>1. f \in Seq(Byte) /\ Len(f) = SizeBytes /\ f[1].of = x
    <3>1. f[1] = [of |-> x, at |-> 1]
      BY <1>1 DEF SizeField
    <3>2. f \in Seq(Byte) /\ Len(f) = SizeBytes
      BY FrameBytes
    <3> HIDE DEF f
    <3> QED BY <3>1, <3>2 DEF f
  <2>2. bytes[1].of = m
    <3>1. bytes[1] = [of |-> m, at |-> 1]
      BY <1>1
    <3> QED BY <3>1
  <2>3. x = m => f = bytes
    BY <1>2
  <2> HIDE DEF f
  <2>4. IsPrefix(bytes, f) <=> Len(bytes) <= Len(f) /\ \A i \in 1 .. Len(bytes) : bytes[i] = f[i]
    BY <2>1, PrefixByElements
  <2>5. ASSUME IsPrefix(bytes, f) PROVE x = m
    BY <2>1, <2>2, <2>4, <2>5, <1>1
  <2>6. ASSUME x = m PROVE IsPrefix(bytes, f)
    BY <2>3, <2>4, <2>6, <1>1
  <2> QED BY <2>5, <2>6 DEF f
<1>5. {x \in Messages : IsPrefix(bytes, SizeField(x))} = {m}
  BY <1>4
<1> QED BY <1>3, <1>5 DEF ReadSizes

\* A receive of size bytes leaves the stream as it is.
LEMMA ReceiveSizeFrames ==
  ASSUME Typed, Framing, NEW c \in Connections, NEW n \in Nat, ReceiveSize(c, n), Typed'
  PROVE  Framing'
<1> USE DEF receiver
<1>0. Types /\ Types'
  BY DEF Typed
<1>1. UNCHANGED <<sender, state, messageBytes, didReceiveConnect, disconnected, got>>
  BY DEF ReceiveSize
<1> DEFINE a == sizeBytes[c]
           v == SubSeq(wire[c], 1, n)
           r == SubSeq(wire[c], n + 1, Len(wire[c]))
<1>2. /\ wire' = [wire EXCEPT ![c] = r] /\ sizeBytes' = [sizeBytes EXCEPT ![c] = a \o v]
      /\ n \in 1 .. SizeBytes - Len(a) /\ n <= Len(wire[c]) /\ nextMessageSize[c] <= 0
  BY DEF ReceiveSize
<1>3. IF Len(sizeBytes'[c]) = SizeBytes
      THEN \E size \in ReadSizes(sizeBytes'[c]) :
               nextMessageSize' = [nextMessageSize EXCEPT ![c] = size]
      ELSE UNCHANGED nextMessageSize
  BY DEF ReceiveSize
<1>4. a \in Seq(Byte) /\ Len(a) \in Nat /\ SizeBytes \in Nat
  BY StreamType, TCPAssumption
<1>5. n \in Nat \ {0}
  BY <1>2, <1>4
<1>6. v \in Seq(Byte) /\ Len(v) = n /\ r \in Seq(Byte) /\ v \o r = wire[c] /\ wire[c] \in Seq(Byte)
  BY <1>2, <1>5, TakenFromWire
<1> HIDE DEF a, v, r
<1>7. \A d \in Connections \ {c} : SameConn(d)
  <2>1. \A d \in Connections \ {c} : nextMessageSize'[d] = nextMessageSize[d]
    BY <1>0, <1>3 DEF Types
  <2>2. \A d \in Connections \ {c} : wire'[d] = wire[d] /\ sizeBytes'[d] = sizeBytes[d]
    BY <1>0, <1>2 DEF Types
  <2> QED BY <1>1, <2>1, <2>2 DEF SameConn, sender
<1>8. ASSUME ~broken[c] PROVE Sound(c)'
  <2>1. Sound(c)
    BY <1>8 DEF Framing
  <2>2. messageBytes[c] = <<>> /\ state[c] # "Reset"
    <3>1. wire[c] # <<>>
      BY <1>2, <1>5, EmptySeq
    <3> QED BY <2>1, <3>1, <1>2 DEF Sound, Reading
  <2>3. wire'[c] = r /\ sizeBytes'[c] = a \o v
    BY <1>0, <1>2 DEF Types
  <2>4. Stream(c)' = Stream(c)
    <3>1. Stream(c) = a \o <<>> \o (v \o r)
      BY <2>2, <1>6 DEF Stream, a
    <3>2. Stream(c)' = (a \o v) \o <<>> \o r
      BY <2>2, <2>3, <1>1 DEF Stream
    <3>3. <<>> \in Seq(Byte)
      BY EmptySeq
    <3>4. (a \o v) \o <<>> \o r = a \o <<>> \o (v \o r)
      <4>1. a \in Seq(Byte) /\ v \in Seq(Byte) /\ r \in Seq(Byte)
        BY <1>4, <1>6
      <4> QED BY <4>1, RegroupedEmpty
    <3> QED BY <3>1, <3>2, <3>4
  <2>5. Reading(c)'
    <3>1. CASE Len(sizeBytes'[c]) = SizeBytes
      <4>1. PICK size \in ReadSizes(sizeBytes'[c]) : nextMessageSize'[c] = size
        BY <3>1, <1>0, <1>3 DEF Types
      <4> DEFINE s == Stream(c)
                 z == sizeBytes'[c]
      <4>2. Chain(s) /\ s \in Seq(Byte)
        BY <2>1, <2>2, StreamType DEF Sound
      <4>3. /\ z \in Seq(Byte) /\ Len(z) = SizeBytes /\ Len(s) \in Nat /\ SizeBytes <= Len(s)
            /\ \A i \in 1 .. SizeBytes : s[i] = z[i]
        <5> DEFINE y == Stream(c)'
                   mb == messageBytes'[c]
                   wi == wire'[c]
        <5>1. /\ Len(y) = Len(z) + Len(mb) + Len(wi) /\ Len(z) \in Nat /\ Len(mb) \in Nat /\ Len(wi) \in Nat
              /\ \A i \in 1 .. Len(z) : y[i] = z[i]
          BY StreamTypeNext
        <5>2. z \in Seq(Byte)
          BY <1>0 DEF Types
        <5>3. y = s
          BY <2>4
        <5> HIDE DEF y, z, mb, wi, s
        <5>4. Len(z) = SizeBytes
          BY <3>1 DEF z
        <5> QED BY <5>1, <5>2, <5>3, <5>4
      <4>4. s # <<>> /\ 1 \in 1 .. SizeBytes
        BY <4>3, TCPAssumption, EmptySeq
      <4> DEFINE m == s[1].of
      <4> HIDE DEF s, z
      <4>5. /\ m \in Messages
            /\ \A p \in 1 .. Len(s) : p <= Size(m) => s[p] = [of |-> m, at |-> p]
        BY <4>2, <4>4, FirstMessage
      <4> HIDE DEF m
      <4>6. \A i \in 1 .. SizeBytes : i \in 1 .. Len(s) /\ i <= Size(m)
        BY <4>3, <4>5, Sizes
      <4>7. \A i \in 1 .. SizeBytes : z[i] = [of |-> m, at |-> i]
        BY <4>3, <4>5, <4>6
      <4>8. ReadSizes(z) = {Length[m]}
        <5>1. z \in Seq(Byte) /\ SizeBytes = Len(z)
          BY <4>3
        <5>2. m \in Messages
          BY <4>5
        <5> QED BY <5>1, <5>2, <4>7, SizeRead
      <4>9. nextMessageSize'[c] = Length[m] /\ z[1].of = m /\ Length[m] \in Nat \ {0}
        <5>1. nextMessageSize'[c] = Length[m]
          BY <4>1, <4>8 DEF z
        <5>2. z[1] = [of |-> m, at |-> 1]
          BY <4>4, <4>7
        <5>3. z[1].of = m
          BY <5>2
        <5> QED BY <5>1, <5>3, <4>5, Sizes
      <4> QED BY <3>1, <4>9 DEF Reading, z
    <3>2. CASE Len(sizeBytes'[c]) # SizeBytes
      <4>1. nextMessageSize'[c] <= 0 /\ messageBytes'[c] = <<>>
        BY <3>2, <1>1, <1>2, <1>3, <2>2
      <4>2. Len(sizeBytes'[c]) < SizeBytes
        <5>1. Len(a \o v) = Len(a) + Len(v)
          BY <1>4, <1>6, ConcatProperties
        <5> DEFINE K == Len(a)
                   L == Len(sizeBytes'[c])
        <5>2. K \in Nat /\ SizeBytes \in Nat /\ n \in 1 .. SizeBytes - K /\ L = K + n /\ L # SizeBytes
          BY <5>1, <3>2, <2>3, <1>2, <1>4, <1>6
        <5> HIDE DEF K, L
        <5>3. L < SizeBytes
          BY <5>2
        <5> QED BY <5>3 DEF L
      <4> QED BY <4>1, <4>2 DEF Reading
    <3> QED BY <3>1, <3>2
  <2>6. call' = call /\ sent' = sent /\ got' = got /\ state' = state /\ didReceiveConnect' = didReceiveConnect
    BY <1>1 DEF sender
  <2> QED BY <2>1, <2>2, <2>4, <2>5, <2>6 DEF Sound
<1> QED BY <1>1, <1>7, <1>8, OneConnFrames

\* The bytes of a message read as that message, and its header as its header.
LEMMA MessageRead ==
  ASSUME NEW m \in Messages, NEW bytes \in Seq(Byte), Length[m] = Len(bytes),
         \A i \in 1 .. Len(bytes) : bytes[i] = [of |-> m, at |-> SizeBytes + i]
  PROVE  Read(bytes) = m /\ MayBeConnect(bytes) = {m \in Connects}
<1>1. Len(bytes) \in Nat \ {0} /\ 1 \in 1 .. Len(bytes) /\ m # 0
  BY Sizes
<1>2. bytes = Payload(m)
  <2> DEFINE f == Payload(m)
  <2>1. /\ f \in Seq(Byte) /\ Len(f) = Length[m]
        /\ \A i \in 1 .. Length[m] : f[i] = [of |-> m, at |-> SizeBytes + i]
    BY FrameBytes
  <2> HIDE DEF f
  <2>2. Len(f) = Len(bytes) /\ \A i \in 1 .. Len(bytes) : f[i] = bytes[i]
    BY <2>1
  <2> QED BY <2>1, <2>2, SeqEqual DEF f
<1>3. bytes[1].of = m
  <2>1. bytes[1] = [of |-> m, at |-> SizeBytes + 1]
    BY <1>1
  <2> QED BY <2>1
<1>4. \A x \in Messages : bytes = Payload(x) <=> x = m
  <2> TAKE x \in Messages
  <2>1. ASSUME bytes = Payload(x) PROVE x = m
    <3>1. 1 \in 1 .. Length[x]
      BY Sizes
    <3>2. Payload(x)[1] = [of |-> x, at |-> SizeBytes + 1]
      BY <3>1 DEF Payload
    <3>3. Payload(x)[1].of = x
      BY <3>2
    <3> QED BY <2>1, <3>3, <1>3
  <2> QED BY <2>1, <1>2
<1>5. {x \in Messages : bytes = Payload(x)} = {m}
  BY <1>4
<1> QED BY <1>2, <1>3, <1>5 DEF Read, MayBeConnect

\* The server drops a Connect that is not the first: what is handed up follows Take.
LEMMA TakenIsGot ==
  ASSUME NEW g \in Seq(Messages), NEW m \in Messages, NEW did,
         did <=> \E i \in DOMAIN g : g[i] \in Connects
  PROVE  /\ Take(g, m) = IF m \in Connects /\ did THEN g ELSE Append(g, m)
         /\ did \/ m \in Connects <=> \E i \in DOMAIN Take(g, m) : Take(g, m)[i] \in Connects
<1>1. Take(g, m) = IF m \in Connects /\ did THEN g ELSE Append(g, m)
  BY DEF Take
<1>2. /\ DOMAIN g = 1 .. Len(g) /\ Len(g) \in Nat
      /\ DOMAIN Append(g, m) = 1 .. Len(g) + 1
      /\ Append(g, m)[Len(g) + 1] = m
      /\ \A i \in 1 .. Len(g) : Append(g, m)[i] = g[i]
  BY AppendProperties, LenProperties
<1>3. CASE m \in Connects /\ did
  BY <1>1, <1>3
<1>4. CASE ~(m \in Connects /\ did)
  <2> DEFINE a == Append(g, m)
  <2>1. Take(g, m) = a
    BY <1>1, <1>4
  <2>2. ASSUME NEW i \in DOMAIN a, a[i] \in Connects PROVE did \/ m \in Connects
    BY <2>2, <1>2
  <2>3. ASSUME did \/ m \in Connects PROVE \E i \in DOMAIN a : a[i] \in Connects
    BY <2>3, <1>2
  <2> HIDE DEF a
  <2>4. did \/ m \in Connects <=> \E i \in DOMAIN a : a[i] \in Connects
    BY <2>2, <2>3, Zenon
  <2> QED BY <2>1, <2>4, <1>1, Zenon
<1> QED BY <1>1, <1>3, <1>4, Zenon

\* The stream without its first message ends as it did.
LEMMA EndsShrunk ==
  ASSUME Typed, NEW c, NEW s, s # <<>>, NEW r, EndsRight(call, c, s),
         r # <<>> => r[Len(r)] = s[Len(s)],
         r = <<>> => AtEnd(s[Len(s)])
  PROVE  EndsRight(call, c, r)
<1>1. CASE (\A t \in Threads : ~PartlyOn(call[t], c)) /\ (s # <<>> => AtEnd(s[Len(s)]))
  BY <1>1 DEF EndsRight
<1>2. CASE \E t \in Threads :
             /\ PartlyOn(call[t], c) /\ call[t].whole
             /\ \A u \in Threads : PartlyOn(call[u], c) => u = t
             /\ s # <<>>
             /\ s[Len(s)] = [of |-> call[t].message, at |-> Size(call[t].message) - Len(call[t].rest)]
  <2>1. PICK t \in Threads :
             /\ PartlyOn(call[t], c) /\ call[t].whole
             /\ \A u \in Threads : PartlyOn(call[u], c) => u = t
             /\ s[Len(s)] = [of |-> call[t].message, at |-> Size(call[t].message) - Len(call[t].rest)]
    BY <1>2
  <2>2. r # <<>>
    <3> SUFFICES ASSUME r = <<>> PROVE FALSE
      OBVIOUS
    <3>1. call[t].at = "sending" /\ Types
      BY <2>1 DEF PartlyOn, Typed
    <3>2. call[t].message \in Messages /\ call[t].rest \in Seq(Byte)
      BY <3>1, CallParts
    <3>3. call[t].rest # <<>>
      BY <3>1 DEF Typed, TypeOK, CallType
    <3>4. Len(call[t].rest) \in Nat \ {0}
      BY <3>2, <3>3, EmptySeq
    <3>5. Size(call[t].message) \in Nat
      BY <3>2, Sizes
    <3>6. AtEnd([of |-> call[t].message, at |-> Size(call[t].message) - Len(call[t].rest)])
      BY <2>1
    <3>7. Size(call[t].message) - Len(call[t].rest) = Size(call[t].message)
      BY <3>6 DEF AtEnd
    <3> QED BY <3>4, <3>5, <3>7
  <2> QED BY <2>1, <2>2 DEF EndsRight
<1> QED BY <1>1, <1>2 DEF EndsRight

\* A receive of bytes of a message moves them within the stream, or takes the first
\* message off the stream and hands it up.
LEMMA ReceiveMessageFrames ==
  ASSUME Typed, Framing, NEW c \in Connections, NEW n \in Nat, ReceiveMessage(c, n), Typed'
  PROVE  Framing'
<1>0. Types /\ Types'
  BY DEF Typed
<1>1. UNCHANGED <<sender, state, disconnected>>
  BY DEF ReceiveMessage
<1> DEFINE a == sizeBytes[c]
           b == messageBytes[c]
           v == SubSeq(wire[c], 1, n)
           r == SubSeq(wire[c], n + 1, Len(wire[c]))
           bytes == b \o v
<1>2. /\ wire' = [wire EXCEPT ![c] = r]
      /\ n \in 1 .. nextMessageSize[c] - Len(b) /\ n <= Len(wire[c]) /\ nextMessageSize[c] > 0
  BY DEF ReceiveMessage
<1>3. IF Len(bytes) = nextMessageSize[c] THEN HandUp(c, bytes)
      ELSE /\ messageBytes' = [messageBytes EXCEPT ![c] = bytes]
           /\ UNCHANGED <<sizeBytes, nextMessageSize, didReceiveConnect, got>>
  BY DEF ReceiveMessage
<1>4. a \in Seq(Byte) /\ b \in Seq(Byte) /\ Len(b) \in Nat /\ nextMessageSize[c] \in Int
  BY <1>0, StreamType DEF Types
<1>5. n \in Nat \ {0}
  BY <1>2, <1>4
<1>6. v \in Seq(Byte) /\ r \in Seq(Byte) /\ v \o r = wire[c] /\ wire[c] \in Seq(Byte)
  BY <1>2, <1>5, TakenFromWire
<1> HIDE DEF a, b, v, r, bytes
<1>7. bytes \in Seq(Byte)
  BY <1>4, <1>6, ConcatProperties DEF bytes
<1>8. \A d \in Connections \ {c} : SameConn(d)
  <2>1. \A d \in Connections \ {c} : wire'[d] = wire[d]
    BY <1>0, <1>2 DEF Types
  <2>2. \A d \in Connections \ {c} :
            /\ sizeBytes'[d] = sizeBytes[d] /\ messageBytes'[d] = messageBytes[d]
            /\ nextMessageSize'[d] = nextMessageSize[d]
            /\ didReceiveConnect'[d] = didReceiveConnect[d] /\ got'[d] = got[d]
    <3>1. CASE Len(bytes) = nextMessageSize[c]
      <4>1. HandUp(c, bytes)
        BY <3>1, <1>3
      <4> QED BY <4>1, <1>0 DEF HandUp, Types
    <3>2. CASE Len(bytes) # nextMessageSize[c]
      BY <3>2, <1>3, <1>0 DEF Types
    <3> QED BY <3>1, <3>2
  <2> QED BY <1>1, <2>1, <2>2 DEF SameConn, sender
<1>9. call' = call /\ sent' = sent /\ state' = state
  BY <1>1 DEF sender
<1>10. wire'[c] = r
  BY <1>0, <1>2 DEF Types
<1>11. ASSUME ~broken[c] PROVE Sound(c)'
  <2>1. Sound(c)
    BY <1>11 DEF Framing
  <2>2. /\ state[c] # "Reset" /\ Len(a) = SizeBytes /\ nextMessageSize[c] = Length[a[1].of]
    <3>1. wire[c] # <<>>
      BY <1>2, <1>5, EmptySeq
    <3>2. ~(nextMessageSize[c] <= 0)
      BY <1>2, <1>4
    <3> QED BY <2>1, <3>1, <3>2 DEF Sound, Reading, a
  <2> DEFINE s == Stream(c)
  <2>3. /\ s \in Seq(Byte) /\ Chain(s) /\ Carries(s, got[c], sent[c])
        /\ state[c] = "Open" => EndsRight(call, c, s)
        /\ (didReceiveConnect[c] <=> \E i \in DOMAIN got[c] : got[c][i] \in Connects)
    BY <2>1, <2>2, StreamType DEF Sound
  <2>4. s = a \o bytes \o r
    <3>1. s = a \o b \o wire[c]
      BY DEF Stream, a, b
    <3>2. a \o (b \o v) \o r = a \o b \o (v \o r)
      <4>1. a \in Seq(Byte) /\ b \in Seq(Byte) /\ v \in Seq(Byte) /\ r \in Seq(Byte)
        BY <1>4, <1>6
      <4>2. \A x, y, p, q \in Seq(Byte) : x \o (y \o p) \o q = x \o y \o (p \o q)
        BY Regrouped
      <4>3. \A p, q \in Seq(Byte) : a \o (b \o p) \o q = a \o b \o (p \o q)
        BY <4>1, <4>2
      <4>4. a \o (b \o v) \o r = a \o b \o (v \o r)
        BY <4>1, <4>3
      <4> QED BY <4>4
    <3> QED BY <3>1, <3>2, <1>6 DEF bytes
  <2>5. CASE Len(bytes) # nextMessageSize[c]
    <3>1. /\ messageBytes' = [messageBytes EXCEPT ![c] = bytes]
          /\ UNCHANGED <<sizeBytes, nextMessageSize, didReceiveConnect, got>>
      BY <2>5, <1>3
    <3>2. messageBytes'[c] = bytes /\ sizeBytes'[c] = a
      BY <3>1, <1>0 DEF Types, a
    <3>3. Stream(c)' = s
      BY <3>2, <2>4, <1>10 DEF Stream
    <3>4. Reading(c)'
      <4>1. ~(nextMessageSize[c] <= 0)
        BY <1>2, <1>4
      <4> QED BY <3>1, <4>1, <2>2 DEF Reading, a
    <3> QED BY <3>1, <3>3, <3>4, <2>2, <2>3, <1>9 DEF Sound
  <2>6. CASE Len(bytes) = nextMessageSize[c]
    <3>1. InParts(s, a, bytes, r)
      BY <2>4, <1>4, <1>6, <1>7, StreamOf
    <3> HIDE DEF s
    <3> DEFINE m == s[1].of
    <3>2. a[1] = s[1] /\ Len(s) \in Nat \ {0}
      <4>1. 1 \in 1 .. Len(a) /\ Len(a) \in Nat \ {0}
        BY <2>2, TCPAssumption
      <4> QED BY <3>1, <4>1 DEF InParts
    <3>3. /\ m \in Messages
          /\ \A p \in 1 .. Len(s) : p <= Size(m) => s[p] = [of |-> m, at |-> p]
      <4>1. s # <<>>
        BY <3>2, EmptySeq
      <4> QED BY <4>1, <2>3, FirstMessage
    <3>4. Len(bytes) = Length[m]
      BY <2>2, <2>6, <3>2
    <3> HIDE DEF m
    <3>5. /\ Len(a) = SizeBytes /\ SizeBytes \in Nat \ {0} /\ Length[m] \in Nat \ {0}
          /\ Size(m) = SizeBytes + Length[m] /\ Size(m) \in Nat /\ Len(r) \in Nat
          /\ Len(s) = Size(m) + Len(r)
      BY <2>2, <3>1, <3>3, <3>4, Sizes DEF InParts
    <3>6. \A p \in 1 .. Size(m) : s[p] = [of |-> m, at |-> p]
      BY <3>3, <3>5
    <3>7. \A i \in 1 .. Len(bytes) : bytes[i] = [of |-> m, at |-> SizeBytes + i]
      <4> TAKE i \in 1 .. Len(bytes)
      <4>1. s[SizeBytes + i] = bytes[i]
        BY <3>1, <3>5 DEF InParts
      <4>2. SizeBytes + i \in 1 .. Size(m)
        BY <3>4, <3>5
      <4> QED BY <4>1, <4>2, <3>6
    <3>8. \A p \in 1 .. Len(r) : r[p] = s[Size(m) + p]
      <4>1. \A p \in 1 .. Len(r) : s[Len(a) + Len(bytes) + p] = r[p]
        BY <3>1 DEF InParts
      <4>2. Len(a) + Len(bytes) = Size(m)
        BY <3>4, <3>5
      <4> QED BY <4>1, <4>2
    <3>9. Read(bytes) = m /\ MayBeConnect(bytes) = {m \in Connects}
      <4>1. Length[m] = Len(bytes)
        BY <3>4
      <4> QED BY <4>1, <1>7, <3>3, <3>7, MessageRead
    <3>10. /\ Chain(r) /\ Carries(r, Take(got[c], m), sent[c])
           /\ r # <<>> => r[Len(r)] = s[Len(s)]
           /\ r = <<>> => AtEnd(s[Len(s)])
      <4>1. m \in Messages
        BY <3>3
      <4>2. Len(s) = Size(m) + Len(r)
        BY <3>5
      <4> QED BY <4>1, <4>2, <1>6, <2>3, <3>6, <3>8, StreamShrinks
    <3>11. HandUp(c, bytes)
      BY <2>6, <1>3
    <3>12. /\ sizeBytes'[c] = <<>> /\ messageBytes'[c] = <<>> /\ nextMessageSize'[c] = 0
      BY <3>11, <1>0 DEF HandUp, Types
    <3>13. /\ got'[c] = Take(got[c], m)
           /\ didReceiveConnect'[c] <=> \E i \in DOMAIN Take(got[c], m) : Take(got[c], m)[i] \in Connects
      <4>1. got[c] \in Seq(Messages)
        BY <2>3, CarriesPrefix
      <4> DEFINE g == got[c]
                 did == didReceiveConnect[c]
                 connect == m \in Connects
      <4>2. /\ Take(g, m) = IF m \in Connects /\ did THEN g ELSE Append(g, m)
            /\ did \/ m \in Connects <=> \E i \in DOMAIN Take(g, m) : Take(g, m)[i] \in Connects
        <5> HIDE DEF g, did
        <5>1. (did <=> \E i \in DOMAIN g : g[i] \in Connects)
          BY <2>3 DEF g, did
        <5>2. g \in Seq(Messages)
          BY <4>1 DEF g
        <5>3. m \in Messages
          BY <3>3
        <5> QED BY <5>1, <5>2, <5>3, TakenIsGot
      <4> HIDE DEF connect
      <4>3. /\ didReceiveConnect' = [didReceiveConnect EXCEPT ![c] = @ \/ connect]
            /\ got' = IF connect /\ didReceiveConnect[c] THEN got
                      ELSE [got EXCEPT ![c] = Append(@, m)]
        BY <3>9, <3>11 DEF HandUp, connect
      <4>4. didReceiveConnect'[c] <=> did \/ connect
        BY <4>3, <1>0, Zenon DEF Types
      <4>5. got'[c] = IF connect /\ did THEN g ELSE Append(g, m)
        BY <4>3, <1>0 DEF Types
      <4> QED BY <4>2, <4>4, <4>5 DEF connect
    <3>14. Stream(c)' = r
      BY <3>12, <1>6, <1>10, ConcatEmptySeq, EmptySeq DEF Stream
    <3>15. Reading(c)'
      <4>1. Len(sizeBytes'[c]) = 0
        BY <3>12, EmptySeq
      <4> QED BY <3>5, <3>12, <4>1 DEF Reading
    <3>16. state[c] = "Open" => EndsRight(call, c, r)
      <4>1. s # <<>>
        BY <3>2, EmptySeq
      <4> QED BY <4>1, <2>3, <3>10, EndsShrunk
    <3> QED BY <2>2, <3>10, <3>13, <3>14, <3>15, <3>16, <1>9 DEF Sound
  <2> QED BY <2>5, <2>6
<1> QED BY <1>1, <1>8, <1>11, OneConnFrames

-----------------------------------------------------------------------------
(* Framing is inductive.                                                   *)

LEMMA InitFraming == Init => Framing
<1> SUFFICES ASSUME Init PROVE Framing
  OBVIOUS
<1>1. \A t \in Threads : call[t].at = "idle"
  BY DEF Init, Idle
<1>2. \A t \in Threads : RestOK(call[t])
  BY <1>1 DEF RestOK
<1>3. ASSUME NEW c \in Connections PROVE Sound(c)
  <2>1. /\ sizeBytes[c] = <<>> /\ messageBytes[c] = <<>> /\ wire[c] = <<>> /\ nextMessageSize[c] = 0
        /\ got[c] = <<>> /\ sent[c] = <<>> /\ didReceiveConnect[c] = FALSE /\ state[c] = "Open"
    BY DEF Init
  <2>2. Stream(c) = <<>> /\ Len(Stream(c)) = 0
    BY <2>1 DEF Stream
  <2>3. Reading(c)
    <3>1. Len(<<>>) = 0 /\ 0 < SizeBytes
      BY TCPAssumption
    <3> QED BY <2>1, <3>1 DEF Reading
  <2>4. Chain(Stream(c))
    BY <2>2 DEF Chain
  <2>5. Carries(Stream(c), got[c], sent[c])
    <3> DEFINE h == [p \in 0 .. 0 |-> <<>>]
    <3>1. h \in [0 .. 0 -> Seq(Messages)] /\ h[0] = <<>>
      <4>1. <<>> \in Seq(Messages)
        BY EmptySeq
      <4> QED BY <4>1
    <3>2. \A p \in 1 .. 0 : FALSE
      OBVIOUS
    <3> HIDE DEF h
    <3> QED BY <2>1, <2>2, <3>1, <3>2 DEF Carries
  <2>6. EndsRight(call, c, Stream(c))
    BY <1>1, <2>2 DEF EndsRight, PartlyOn
  <2>7. didReceiveConnect[c] <=> \E i \in DOMAIN got[c] : got[c][i] \in Connects
    BY <2>1
  <2> QED BY <2>1, <2>3, <2>4, <2>5, <2>6, <2>7 DEF Sound
<1> QED BY <1>2, <1>3 DEF Framing

LEMMA FramingStep == Typed /\ Framing /\ [Next]_vars => Framing'
<1> SUFFICES ASSUME Typed, Framing, [Next]_vars PROVE Framing'
  OBVIOUS
<1>0. Typed'
  BY TypeStep
<1>1. CASE UNCHANGED vars
  BY <1>1 DEF vars, sender, receiver, Framing, Sound, Reading, Stream
<1>2. ASSUME NEW t \in Threads, SendSize(t) \/ GoOn(t) PROVE Framing'
  BY <1>0, <1>2, SendFrames, PushFrames, PushFailsFrames DEF GoOn
<1>3. ASSUME NEW c \in Connections, Close(c) \/ Reset(c) PROVE Framing'
  BY <1>3, EndFrames
<1>4. ASSUME NEW c \in Connections, Receive(c) PROVE Framing'
  <2>1. ASSUME NEW n \in 1 .. Capacity, ReceiveSize(c, n) \/ ReceiveMessage(c, n) PROVE Framing'
    <3>1. n \in Nat
      BY TCPAssumption
    <3> QED BY <1>0, <2>1, <3>1, ReceiveSizeFrames, ReceiveMessageFrames
  <2>2. CASE ReceiveEnd(c) \/ ReceiveReset(c)
    BY <2>2, EndFrames
  <2> QED BY <1>4, <2>1, <2>2 DEF Receive
<1> QED BY <1>1, <1>2, <1>3, <1>4 DEF Next

\* Typed and Framing hold in every state.
LEMMA AlwaysFraming == Spec => [](Typed /\ Framing)
BY InitTyped, TypeStep, InitFraming, FramingStep, PTL DEF Spec

\* Whatever parts the bytes arrive in, whatever is dropped as a whole, closed or reset:
\* what is handed up is a beginning of what the socket took, unless two threads' bytes
\* got between each other's or part of a message was left out.
THEOREM FramesInOrder == Spec => []Framed
<1>1. Typed /\ Framing => Framed
  <2> SUFFICES ASSUME Typed, Framing, NEW c \in Connections, ~broken[c]
               PROVE  IsPrefix(got[c], sent[c])
    BY DEF Framed
  <2>1. Sound(c)
    BY DEF Framing
  <2>2. CASE state[c] = "Reset"
    BY <2>1, <2>2 DEF Sound
  <2>3. CASE state[c] # "Reset"
    <3> DEFINE s == Stream(c)
    <3>1. s \in Seq(Byte)
      BY StreamType
    <3>2. Carries(s, got[c], sent[c])
      BY <2>1, <2>3 DEF Sound
    <3> HIDE DEF s
    <3> QED BY <3>1, <3>2, CarriesPrefix
  <2> QED BY <2>2, <2>3
<1> QED BY <1>1, AlwaysFraming, PTL

\* The receive of the server, which all its connections wait for, never ends only on a
\* connection whose bytes are out of place.
THEOREM SpinsAfterBroken == Spec => []SpinsOnlyIfBroken
<1>1. Typed /\ Framing => SpinsOnlyIfBroken
  <2> SUFFICES ASSUME Typed, Framing, NEW c \in Connections, Spins(c), ~broken[c] PROVE FALSE
    BY DEF SpinsOnlyIfBroken
  <2>1. Reading(c)
    BY DEF Framing, Sound
  <2>2. Len(sizeBytes[c]) = SizeBytes /\ nextMessageSize[c] <= 0 /\ SizeBytes \in Nat
    BY TCPAssumption DEF Spins
  <2>3. Len(sizeBytes[c]) < SizeBytes
    BY <2>1, <2>2 DEF Reading
  <2> QED BY <2>2, <2>3
<1> QED BY <1>1, AlwaysFraming, PTL
=============================================================================
