--------------------------- MODULE ReliableProofs ---------------------------
(***************************************************************************)
(* The reliable send mode, for any two ends, ID space and stream lengths.  *)
(*                                                                         *)
(* Types and the books of pending messages need nothing more.  At most     *)
(* once, the truth of acks and the refinement of AtMostOnceChannel hold as *)
(* long as no end sends more than half the ID space (NoWrap): then a gap   *)
(* is a difference, and the receive window is an exact record of the       *)
(* messages taken in (SeenOK).  Without that bound a packet that is        *)
(* delayed long enough is taken for a new one.                             *)
(***************************************************************************)
EXTENDS ReliableChannel, MCSequenceGap, SequenceLemmas

(* What is always true of packets and queues, whatever the IDs do.         *)

\* A reliable packet carries the masked ID of a message of the other end.
WireOK ==
    \A p \in wire : p.kind = "Reliable" => p.id \in Ids(Other(p.to)) /\ p.seq = Mask(p.id)

\* A queue holds packets that were addressed to its end.
QueueOK == \A e \in Ends : \A m \in Range(messageQueue[e]) : m.to = e

Typed == TypeOK /\ WireOK /\ QueueOK

-----------------------------------------------------------------------------
(* Of IDs and their gap, as the run of MCSequenceGap checks it and for all  *)
(* counters.                                                               *)

\* Half the ID space is exactly that, as the ID space is even.
LEMMA HalfTwice == Half \in Nat \ {0} /\ IdSpace = 2 * Half
  BY IdSpaceAssumption DEF Half

\* "& 0xffff" takes whole periods off.
LEMMA Periods ==
  ASSUME NEW s \in Nat
  PROVE  \E q \in Nat : Mask(s) \in 0 .. IdSpace - 1 /\ s = q * IdSpace + Mask(s)
<1>1. s \div IdSpace \in Nat
  BY IdSpaceAssumption
<1>2. Mask(s) \in 0 .. IdSpace - 1
  BY IdSpaceAssumption DEF Mask
<1>3. s = (s \div IdSpace) * IdSpace + Mask(s)
  BY IdSpaceAssumption DEF Mask
<1> QED
  BY <1>1, <1>2, <1>3

\* The gap of two IDs is their difference corrected by at most one period.
LEMMA GapOfIds ==
  ASSUME NEW r \in 0 .. IdSpace - 1, NEW t \in 0 .. IdSpace - 1
  PROVE  /\ - Half <= r - t /\ r - t <= Half => MaskedGap(r, t) = r - t
         /\ r - t < - Half => MaskedGap(r, t) = r - t + IdSpace
         /\ r - t > Half => MaskedGap(r, t) = r - t - IdSpace
  BY HalfTwice DEF MaskedGap, Lift, Abs

\* Closer than half the ID space, the gap is the distance of the counters.
LEMMA GapOfCounters ==
  ASSUME NEW m \in Nat, NEW n \in Nat, Abs(m - n) < Half
  PROVE  Gap(m, n) = m - n
<1>1. PICK p \in Nat : Mask(m) \in 0 .. IdSpace - 1 /\ m = p * IdSpace + Mask(m)
  BY Periods
<1>2. PICK q \in Nat : Mask(n) \in 0 .. IdSpace - 1 /\ n = q * IdSpace + Mask(n)
  BY Periods
<1> DEFINE r == Mask(m)
           t == Mask(n)
           k == p - q
<1>3. k \in Int /\ IdSpace \in Nat \ {0}
  BY IdSpaceAssumption
<1>4. m - n = k * IdSpace + (r - t)
  <2>1. k * IdSpace = p * IdSpace - q * IdSpace /\ p * IdSpace \in Int /\ q * IdSpace \in Int
    BY <1>3
  <2> DEFINE P == p * IdSpace
             Q == q * IdSpace
  <2>2. P \in Int /\ Q \in Int /\ k * IdSpace = P - Q
    BY <2>1
  <2>3. r \in Int /\ t \in Int /\ m = P + r /\ n = Q + t
    BY <1>1, <1>2, <1>3
  <2> HIDE DEF P, Q, r, t, k
  <2> QED BY <2>2, <2>3
<1>5. - Half < m - n /\ m - n < Half
  BY HalfTwice DEF Abs
<1>6. r \in 0 .. IdSpace - 1 /\ t \in 0 .. IdSpace - 1
  BY <1>1, <1>2
<1> HIDE DEF r, t, k
<1>7. k \in -1 .. 1
  <2>1. k * IdSpace \in Int
    BY <1>3
  <2>2. k * IdSpace < 2 * IdSpace /\ - (2 * IdSpace) < k * IdSpace
    BY <2>1, <1>4, <1>5, <1>6, HalfTwice
  <2> QED BY <2>2, <1>3, SmallMultiple
<1>8. Gap(m, n) = MaskedGap(r, t)
  BY DEF Gap, r, t
<1>9. CASE k = 0
  <2>1. m - n = r - t
    BY <1>9, <1>3, <1>4, <1>6
  <2>2. - Half <= r - t /\ r - t <= Half
    BY <2>1, <1>5, HalfTwice
  <2>3. MaskedGap(r, t) = r - t
    BY <2>2, <1>6, GapOfIds
  <2> QED BY <2>1, <2>3, <1>8
<1>10. CASE k = 1
  BY <1>10, <1>4, <1>5, <1>6, <1>8, GapOfIds, HalfTwice
<1>11. CASE k = -1
  BY <1>11, <1>4, <1>5, <1>6, <1>8, GapOfIds, HalfTwice
<1> QED
  BY <1>7, <1>9, <1>10, <1>11

\* The gap changes its sign with its arguments, for any two counters.
LEMMA GapChangesSign ==
  ASSUME NEW m \in Nat, NEW n \in Nat
  PROVE  Gap(m, n) = - Gap(n, m)
<1>1. Mask(m) \in 0 .. IdSpace - 1 /\ Mask(n) \in 0 .. IdSpace - 1
  BY Periods
<1> QED
  BY <1>1, GapOfIds, HalfTwice DEF Gap

\* The counters of MCSequenceGap stay natural numbers.
LEMMA NaturalCounters == Counting => [](newest \in Nat /\ other \in Nat)
<1> DEFINE Natural == newest \in Nat /\ other \in Nat
<1>1. CountersAtZero => Natural
  BY DEF CountersAtZero
<1>2. Natural /\ [Count]_<<newest, other>> => Natural'
  BY DEF Count, CountNewest, CountOther
<1> QED
  BY <1>1, <1>2, PTL DEF Counting

\* getSequenceGap is the distance of the two counters as long as they are
\* closer than half the ID space, whatever the ID space and wherever it wraps.
THEOREM Distance == Counting => []GapIsDistance
<1>1. newest \in Nat /\ other \in Nat => GapIsDistance
  BY GapOfCounters DEF GapIsDistance
<1> QED
  BY <1>1, NaturalCounters, PTL

\* getSequenceGap never lets both ends think that they are newer, at half the
\* ID space and beyond as well.
THEOREM Antisymmetry == Counting => []GapIsAntisymmetric
<1>1. newest \in Nat /\ other \in Nat => GapIsAntisymmetric
  BY GapChangesSign DEF GapIsAntisymmetric
<1> QED
  BY <1>1, NaturalCounters, PTL

-----------------------------------------------------------------------------
\* There are two ends, each the other's other end.
LEMMA OtherEnd ==
  ASSUME NEW e \in Ends
  PROVE  Other(e) \in Ends /\ Other(e) # e /\ Other(Other(e)) = e
<1>1. PICK a, b \in Ends : a # b /\ Ends = {a, b}
  BY ReliableAssumption
<1>2. \A x \in Ends : Other(x) \in Ends /\ Other(x) # x
  BY <1>1 DEF Other
<1> QED BY <1>1, <1>2

\* What travels in 16 bits is one of the sequence IDs.
LEMMA Masked ==
  ASSUME NEW s \in Nat
  PROVE  Mask(s) \in 0 .. IdSpace - 1 /\ Mask(s) \in Nat
  BY Periods, HalfTwice

\* The gap is a number.
LEMMA GapType ==
  ASSUME NEW m \in Nat, NEW n \in Nat
  PROVE  Gap(m, n) \in Int
<1>1. Mask(m) \in Int /\ Mask(n) \in Int
  BY Masked
<1> QED BY <1>1, HalfTwice DEF Gap, MaskedGap, Lift

\* The operations of the bitfield leave a bitfield.
LEMMA BitfieldType ==
  ASSUME NEW bf \in Windows
  PROVE  /\ \A n \in Nat : ShiftLeft(bf, n) \in Windows
         /\ \A n \in Nat \ {0} : SetBit(bf, n) \in Windows
         /\ \A ones \in SUBSET (Nat \ {0}) : Combine(bf, ones) \in Windows
         /\ \A n \in Nat : Trimmed(bf, n) \in Windows
  BY DEF Windows, ShiftLeft, SetBit, Combine, Trimmed, SweepRaises

\* shouldHandle leaves an ID and a window.
LEMMA WindowType ==
  ASSUME Typed, NEW e \in Ends, NEW seq \in 0 .. IdSpace - 1
  PROVE  Window(e, seq).last \in 0 .. IdSpace - 1 /\ Window(e, seq).bf \in Windows
<1> DEFINE last == lastReceivedSeqId[e]
           bf == receivedSeqIds[e]
           gap == Gap(seq, last)
<1>1. last \in 0 .. IdSpace - 1 /\ bf \in Windows /\ gap \in Int
  BY GapType, HalfTwice DEF Typed, TypeOK
<1>2. CASE gap > 0
  <2>1. \A n \in Nat \ {0}, w \in Windows : SetBit(w, n) \in Windows /\ ShiftLeft(w, n) \in Windows
    BY BitfieldType
  <2>2. gap \in Nat \ {0}
    BY <1>1, <1>2
  <2> HIDE DEF gap, bf
  <2>3. SetBit(ShiftLeft(bf, gap), gap) \in Windows
    BY <1>1, <2>1, <2>2
  <2> QED BY <1>1, <1>2, <2>3 DEF Window, gap, bf
<1>3. CASE gap < 0
  <2>1. SetBit(bf, -gap) \in Windows
    BY <1>1, <1>3, BitfieldType
  <2> QED BY <1>1, <1>3, <2>1 DEF Window
<1>4. CASE gap = 0
  BY <1>1, <1>4 DEF Window
<1> QED BY <1>1, <1>2, <1>3, <1>4

\* updateReceivedAcks leaves a window.
LEMMA AckWindowType ==
  ASSUME Typed, NEW e \in Ends, NEW ack \in wire, ack.kind = "Ack"
  PROVE  NewAckedSeqIds(e, ack) \in Windows
<1> DEFINE gap == AckGap(e, ack)
           bf == ackedSeqIds[e]
<1>1. /\ ack.last \in Nat /\ ack.ones \in SUBSET (Nat \ {0})
      /\ lastReceivedSeqId[e] \in Nat /\ bf \in Windows
  BY HalfTwice, ReliableAssumption DEF Typed, TypeOK, Packet
<1>2. gap \in Int
  BY <1>1, GapType DEF AckGap
<1>3. bf.count \in Nat /\ bf.capacity \in Nat
  BY <1>1 DEF Windows
<1>4. SweptWindow(e, ack) \in Windows
  <2>1. CASE HasCapacityFor(bf, gap)
    BY <1>1, <2>1 DEF SweptWindow
  <2>2. CASE ~HasCapacityFor(bf, gap)
    <3>1. Overflow(bf, gap) \in Nat
      BY <1>2, <1>3, <2>2 DEF HasCapacityFor, Overflow
    <3> QED BY <1>1, <2>2, <3>1, BitfieldType DEF SweptWindow
  <2> QED BY <2>1, <2>2
<1>5. CASE AckRaises(e, ack)
  <2>1. gap > 0
    BY <1>5 DEF AckRaises
  <2> QED BY <1>2, <1>4, <1>5, <2>1 DEF NewAckedSeqIds
<1>6. CASE ~AckRaises(e, ack) /\ gap < 0
  <2>1. SetBit(bf, -gap) \in Windows
    BY <1>1, <1>2, <1>6, BitfieldType
  <2> QED BY <1>6, <2>1 DEF NewAckedSeqIds
<1>7. CASE ~AckRaises(e, ack) /\ gap = 0
  <2>1. Combine(bf, ack.ones) \in Windows
    BY <1>1, BitfieldType
  <2> QED BY <1>7, <2>1 DEF NewAckedSeqIds
<1>8. CASE ~AckRaises(e, ack) /\ gap > 0
  <2>1. ShiftedWindow(e, ack) \in Windows
    BY <1>2, <1>4, <1>8, BitfieldType DEF ShiftedWindow
  <2>2. Combine(ShiftedWindow(e, ack), ack.ones) \in Windows
    BY <1>1, <2>1, BitfieldType
  <2>3. SetBit(Combine(ShiftedWindow(e, ack), ack.ones), gap) \in Windows
    BY <1>2, <1>8, <2>2, BitfieldType
  <2> QED BY <1>2, <1>8, <2>3 DEF NewAckedSeqIds
<1> QED BY <1>2, <1>5, <1>6, <1>7, <1>8

\* Data makes a reliable packet, Ack an ack.
LEMMA PacketType ==
  ASSUME NEW to \in Ends
  PROVE  /\ \A id \in Nat : Data(to, id) \in Packet /\ Data(to, id).to = to
                            /\ Data(to, id).kind = "Reliable" /\ Data(to, id).id = id
                            /\ Data(to, id).seq = Mask(id)
         /\ \A seq \in 0 .. IdSpace - 1, last \in Nat, bf \in Windows :
               /\ Ack(to, seq, last, bf) \in Packet
               /\ Ack(to, seq, last, bf).kind = "Ack" /\ Ack(to, seq, last, bf).to = to
               /\ Ack(to, seq, last, bf).acked = seq /\ Ack(to, seq, last, bf).last = Mask(last)
               /\ Ack(to, seq, last, bf).ones = First(bf, AckBits)
<1>1. ASSUME NEW id \in Nat PROVE Data(to, id) \in Packet
  BY Masked DEF Data, Packet
<1>2. ASSUME NEW seq \in 0 .. IdSpace - 1, NEW last \in Nat, NEW bf \in Windows
      PROVE  Ack(to, seq, last, bf) \in Packet
  <2>1. First(bf, AckBits) \in SUBSET (1 .. AckBits)
    BY ReliableAssumption DEF Windows, First
  <2> QED BY <2>1, Masked DEF Ack, Packet
<1> QED BY <1>1, <1>2 DEF Data, Ack

\* What _handleMessages takes off a queue, and the queue it leaves.
LEMMA PopFacts ==
  ASSUME Typed, NEW e \in Ends, NEW m, Pop(e, m)
  PROVE  /\ m \in wire /\ m \in Packet /\ m.to = e /\ thread[e] # "dead"
         /\ messageQueue[e] \in Seq(Packet) /\ messageQueue[e] # <<>>
         /\ m = Last(messageQueue[e])
         /\ messageQueue' \in [Ends -> Seq(Packet)]
         /\ messageQueue'[e] = Front(messageQueue[e])
         /\ Range(messageQueue[e]) = Range(messageQueue'[e]) \union {m}
         /\ \A f \in Ends \ {e} : messageQueue'[f] = messageQueue[f]
         /\ \A f \in Ends : Range(messageQueue'[f]) \subseteq Range(messageQueue[f])
<1> DEFINE q == messageQueue[e]
<1>1. q \in Seq(Packet) /\ q # <<>> /\ m = Last(q) /\ thread[e] # "dead"
  BY DEF Typed, TypeOK, Pop
<1>2. Front(q) \in Seq(Packet) /\ m \in Range(q) /\ Range(q) = Range(Front(q)) \union {m}
  BY <1>1, SeqFront
<1>3. m \in wire /\ m \in Packet /\ m.to = e
  BY <1>2 DEF Typed, TypeOK, QueueOK
<1>4. messageQueue' = [messageQueue EXCEPT ![e] = Front(q)]
  BY DEF Pop
<1>5. messageQueue \in [Ends -> Seq(Packet)]
  BY DEF Typed, TypeOK
<1>6. /\ messageQueue' \in [Ends -> Seq(Packet)] /\ messageQueue'[e] = Front(q)
      /\ \A f \in Ends \ {e} : messageQueue'[f] = messageQueue[f]
  BY <1>2, <1>4, <1>5
<1> QED BY <1>1, <1>2, <1>3, <1>6

\* What polling puts into a queue.
LEMMA EnqueueFacts ==
  ASSUME Typed, NEW e \in Ends, NEW m \in wire, m.to = e, Enqueue(e, m)
  PROVE  /\ messageQueue' \in [Ends -> Seq(Packet)]
         /\ messageQueue'[e] = Append(messageQueue[e], m)
         /\ Range(messageQueue'[e]) = Range(messageQueue[e]) \union {m}
         /\ \A f \in Ends \ {e} : messageQueue'[f] = messageQueue[f]
         /\ \A f \in Ends : Range(messageQueue'[f]) \subseteq wire
         /\ QueueOK'
<1>1. messageQueue \in [Ends -> Seq(Packet)] /\ m \in Packet
  BY DEF Typed, TypeOK
<1>2. /\ Append(messageQueue[e], m) \in Seq(Packet)
      /\ Range(Append(messageQueue[e], m)) = Range(messageQueue[e]) \union {m}
  BY <1>1, SeqAppend
<1>3. /\ messageQueue' \in [Ends -> Seq(Packet)]
      /\ messageQueue'[e] = Append(messageQueue[e], m)
      /\ \A f \in Ends \ {e} : messageQueue'[f] = messageQueue[f]
  BY <1>1, <1>2 DEF Enqueue
<1>4. \A f \in Ends : f = e \/ messageQueue'[f] = messageQueue[f]
  BY <1>3
<1>5. Range(messageQueue'[e]) \subseteq wire /\ \A n \in Range(messageQueue'[e]) : n.to = e
  BY <1>2, <1>3 DEF Typed, TypeOK, QueueOK
<1>6. \A f \in Ends : Range(messageQueue'[f]) \subseteq wire
  BY <1>4, <1>5 DEF Typed, TypeOK
<1>7. QueueOK'
  BY <1>4, <1>5 DEF Typed, QueueOK
<1> QED BY <1>2, <1>3, <1>6, <1>7

\* Sending and resending add reliable packets of the sender's own messages.
LEMMA TransmitFacts ==
  ASSUME Typed, NEW e \in Ends, NEW ids \in SUBSET Ids(e),
         wire' = wire \union {Data(Other(e), id) : id \in ids}
  PROVE  wire \subseteq wire' /\ wire' \subseteq Packet /\ WireOK'
<1>1. Other(e) \in Ends /\ Other(Other(e)) = e
  BY OtherEnd
<1>2. ids \subseteq Nat
  BY ReliableAssumption DEF Ids
<1>3. \A id \in ids : /\ Data(Other(e), id) \in Packet /\ Data(Other(e), id).to = Other(e)
                      /\ Data(Other(e), id).id = id /\ Data(Other(e), id).seq = Mask(id)
  BY <1>1, <1>2, PacketType
<1>4. wire' \subseteq Packet
  BY <1>3 DEF Typed, TypeOK
<1>5. WireOK'
  BY <1>1, <1>3 DEF Typed, WireOK
<1> QED BY <1>4, <1>5

\* Handling an ack leaves the types in place, whatever becomes of the
\* connection and of the pending messages.
LEMMA AckTyped ==
  ASSUME Typed, NEW e \in Ends, NEW ack \in Range(messageQueue[e]),
         Pop(e, ack), ack.kind = "Ack", AckEffect(e, ack),
         conn' \in [Ends -> {"Connecting", "Connected", "NotConnected"}],
         pendingMessages' \in [Ends -> SUBSET Nat], reported' \in [Ends -> SUBSET Nat],
         \A f \in Ends : pendingMessages'[f] \subseteq Ids(f) /\ reported'[f] \subseteq Ids(f)
  PROVE  Typed'
<1>1. /\ ack \in wire /\ messageQueue' \in [Ends -> Seq(Packet)]
      /\ \A f \in Ends : Range(messageQueue'[f]) \subseteq Range(messageQueue[f])
  BY PopFacts
<1>2. UNCHANGED <<nextSequenceId, recvVars, wire, handled>>
  BY DEF AckEffect
<1>3. WireOK'
  BY <1>2 DEF Typed, WireOK
<1>4. QueueOK'
  BY <1>1 DEF Typed, QueueOK
<1>5. NewAckedSeqIds(e, ack) \in Windows
  BY <1>1, AckWindowType
<1>6. ackedSeqIds' \in [Ends -> Windows]
  BY <1>5 DEF AckEffect, Typed, TypeOK
<1>7. thread' \in [Ends -> {"polling", "handling", "dead"}]
  BY DEF AckEffect, AfterPop, Typed, TypeOK
<1>8. TypeOK'
  BY <1>1, <1>2, <1>6, <1>7 DEF Typed, TypeOK, recvVars
<1> QED BY <1>3, <1>4, <1>8 DEF Typed

\* An ack on which the connection is given up reports some of the pending
\* messages, and drops them all.
LEMMA GivesUpFacts ==
  ASSUME NEW e \in Ends, HandleAckGivesUp(e)
  PROVE  \E ack \in Range(messageQueue[e]), cleared \in SUBSET pendingMessages[e] :
           /\ Pop(e, ack) /\ ack.kind = "Ack" /\ AckEffect(e, ack)
           /\ reported' = [reported EXCEPT ![e] = @ \union cleared]
           /\ pendingMessages' = [pendingMessages EXCEPT ![e] = {}]
           /\ conn[e] = "Connected" /\ conn' = [conn EXCEPT ![e] = "NotConnected"]
<1>1. PICK ack \in Range(messageQueue[e]) :
        /\ Pop(e, ack) /\ ack.kind = "Ack" /\ conn[e] = "Connected" /\ AckEffect(e, ack)
        /\ \E lost \in (SweepResent(e, ack) \ {ack.acked}) \intersect pendingMessages[e] :
             LET cleared == {ack.acked} \union {id \in SweepCleared(e, ack) : id < lost}
             IN  reported' = [reported EXCEPT ![e] = @ \union (cleared \intersect pendingMessages[e])]
        /\ pendingMessages' = [pendingMessages EXCEPT ![e] = {}]
        /\ conn' = [conn EXCEPT ![e] = "NotConnected"]
  BY DEF HandleAckGivesUp
<1>2. PICK lost \in pendingMessages[e] :
        LET cleared == {ack.acked} \union {id \in SweepCleared(e, ack) : id < lost}
        IN  reported' = [reported EXCEPT ![e] = @ \union (cleared \intersect pendingMessages[e])]
  BY <1>1
<1> DEFINE cleared == ({ack.acked} \union {id \in SweepCleared(e, ack) : id < lost})
                        \intersect pendingMessages[e]
<1>3. reported' = [reported EXCEPT ![e] = @ \union cleared] /\ cleared \in SUBSET pendingMessages[e]
  BY <1>2
<1> HIDE DEF cleared
<1> QED BY <1>1, <1>3

\* What clearMessage leaves pending, and what it reports.
LEMMA ClearFacts ==
  ASSUME Typed, NEW e \in Ends, NEW ids, Clear(e, ids)
  PROVE  /\ pendingMessages' \in [Ends -> SUBSET Nat] /\ reported' \in [Ends -> SUBSET Nat]
         /\ pendingMessages'[e] = pendingMessages[e] \ ids
         /\ reported'[e] = reported[e] \union (ids \intersect pendingMessages[e])
         /\ \A f \in Ends \ {e} : /\ pendingMessages'[f] = pendingMessages[f]
                                  /\ reported'[f] = reported[f]
         /\ \A f \in Ends : pendingMessages'[f] \subseteq Ids(f) /\ reported'[f] \subseteq Ids(f)
<1>1. /\ pendingMessages \in [Ends -> SUBSET Nat] /\ reported \in [Ends -> SUBSET Nat]
      /\ \A f \in Ends : pendingMessages[f] \subseteq Ids(f) /\ reported[f] \subseteq Ids(f)
  BY DEF Typed, TypeOK
<1>2. /\ pendingMessages' = [pendingMessages EXCEPT ![e] = @ \ ids]
      /\ reported' = [reported EXCEPT ![e] = @ \union (ids \intersect pendingMessages[e])]
  BY DEF Clear
<1> QED BY <1>1, <1>2

\* A sequence ID allocated is one of the sender's.
LEMMA AllocateFacts ==
  ASSUME Typed, NEW e \in Ends, Allocate(e)
  PROVE  /\ nextSequenceId[e] + 1 \in Ids(e) /\ nextSequenceId[e] + 1 \in Nat \ {0}
         /\ nextSequenceId[e] \in Nat \ {0}
         /\ nextSequenceId' \in [Ends -> Nat \ {0}]
         /\ nextSequenceId'[e] = nextSequenceId[e] + 1
         /\ \A f \in Ends \ {e} : nextSequenceId'[f] = nextSequenceId[f]
         /\ \A f \in Ends : /\ nextSequenceId[f] \in Nat /\ nextSequenceId'[f] \in Nat
                            /\ nextSequenceId[f] <= nextSequenceId'[f]
<1>1. nextSequenceId \in [Ends -> Nat \ {0}] /\ LastId[e] \in Nat
  BY ReliableAssumption DEF Typed, TypeOK
<1>2. nextSequenceId' = [nextSequenceId EXCEPT ![e] = @ + 1] /\ nextSequenceId[e] < LastId[e]
  BY DEF Allocate
<1>4. /\ nextSequenceId'[e] = nextSequenceId[e] + 1
      /\ \A f \in Ends \ {e} : nextSequenceId'[f] = nextSequenceId[f]
  BY <1>1, <1>2
<1>5. ASSUME NEW f \in Ends
      PROVE  /\ nextSequenceId[f] \in Nat /\ nextSequenceId'[f] \in Nat
             /\ nextSequenceId[f] <= nextSequenceId'[f]
  <2>1. nextSequenceId[f] \in Nat
    BY <1>1
  <2>2. nextSequenceId'[f] = nextSequenceId[f] \/ nextSequenceId'[f] = nextSequenceId[f] + 1
    BY <1>4
  <2> QED BY <2>1, <2>2
<1> QED BY <1>1, <1>2, <1>4, <1>5 DEF Ids

\* No step leaves the types.
LEMMA TypedStep ==
  ASSUME Typed, [Next]_vars
  PROVE  Typed'
<1>1. ASSUME NEW e \in Ends, Send(e) PROVE Typed'
  <2> DEFINE id == nextSequenceId[e] + 1
  <2>1. Allocate(e)
    BY <1>1 DEF Send
  <2>2. /\ id \in Ids(e) /\ nextSequenceId' \in [Ends -> Nat \ {0}] /\ nextSequenceId'[e] = id
        /\ \A f \in Ends \ {e} : nextSequenceId'[f] = nextSequenceId[f]
    BY <2>1, AllocateFacts
  <2> HIDE DEF id
  <2>3. /\ pendingMessages' = [pendingMessages EXCEPT ![e] = @ \union {id}]
        /\ wire' = wire \union {Data(Other(e), id)} /\ UNCHANGED conn
    BY <1>1 DEF Send, id
  <2>4. wire' = wire \union {Data(Other(e), i) : i \in {id}} /\ {id} \in SUBSET Ids(e)
    BY <2>2, <2>3
  <2>5. wire \subseteq wire' /\ wire' \subseteq Packet /\ WireOK'
    BY <2>4, TransmitFacts
  <2>6. UNCHANGED <<thread, reported, recvVars, ackedSeqIds, messageQueue, handled>>
    BY <2>1 DEF Allocate
  <2>7. id \in Nat
    BY <2>2, ReliableAssumption DEF Ids
  <2>8. /\ pendingMessages' \in [Ends -> SUBSET Nat]
        /\ \A f \in Ends : pendingMessages'[f] \subseteq Ids(f)
    BY <2>2, <2>3, <2>7 DEF Typed, TypeOK
  <2>9. \A f \in Ends : nextSequenceId'[f] \in Ids(f) \union {1}
    BY <2>2 DEF Typed, TypeOK
  <2>10. TypeOK'
    BY <2>2, <2>3, <2>5, <2>6, <2>8, <2>9 DEF Typed, TypeOK, recvVars
  <2>11. QueueOK'
    BY <2>6 DEF Typed, QueueOK
  <2> QED BY <2>5, <2>10, <2>11 DEF Typed
<1>2. ASSUME NEW e \in Ends, SendGivesUp(e) PROVE Typed'
  <2>1. Allocate(e)
    BY <1>2 DEF SendGivesUp
  <2>2. /\ nextSequenceId[e] + 1 \in Ids(e) /\ nextSequenceId' \in [Ends -> Nat \ {0}]
        /\ nextSequenceId'[e] = nextSequenceId[e] + 1
        /\ \A f \in Ends \ {e} : nextSequenceId'[f] = nextSequenceId[f]
    BY <2>1, AllocateFacts
  <2>3. /\ pendingMessages' = [pendingMessages EXCEPT ![e] = {}] /\ UNCHANGED wire
        /\ conn' = [conn EXCEPT ![e] = "NotConnected"]
    BY <1>2 DEF SendGivesUp
  <2>4. UNCHANGED <<thread, reported, recvVars, ackedSeqIds, messageQueue, handled>>
    BY <2>1 DEF Allocate
  <2>5. \A f \in Ends : nextSequenceId'[f] \in Ids(f) \union {1}
    BY <2>2 DEF Typed, TypeOK
  <2>6. TypeOK'
    BY <2>2, <2>3, <2>4, <2>5 DEF Typed, TypeOK, recvVars
  <2>7. WireOK' /\ QueueOK'
    BY <2>3, <2>4 DEF Typed, QueueOK, WireOK
  <2> QED BY <2>6, <2>7 DEF Typed
<1>3. ASSUME NEW e \in Ends, NEW p \in wire, ReceiveReliable(e, p) PROVE Typed'
  <2> DEFINE w == Window(e, p.seq)
  <2>1. p.seq \in 0 .. IdSpace - 1 /\ p.kind = "Reliable" /\ p.to = e
    BY <1>3 DEF ReceiveReliable, Polls, Typed, TypeOK, Packet
  <2>2. w.last \in 0 .. IdSpace - 1 /\ w.bf \in Windows
    BY <2>1, WindowType
  <2>3. /\ lastReceivedSeqId' = [lastReceivedSeqId EXCEPT ![e] = w.last]
        /\ receivedSeqIds' = [receivedSeqIds EXCEPT ![e] = w.bf]
        /\ wire' = wire \union {Ack(Other(e), p.seq, w.last, w.bf)}
        /\ UNCHANGED <<endVars, sendVars, ackedSeqIds, handled>>
        /\ Enqueue(e, p) \/ UNCHANGED messageQueue
    BY <1>3 DEF ReceiveReliable
  <2> HIDE DEF w
  <2>4. /\ Ack(Other(e), p.seq, w.last, w.bf) \in Packet
        /\ Ack(Other(e), p.seq, w.last, w.bf).kind = "Ack"
    BY <2>1, <2>2, OtherEnd, PacketType
  <2>5. wire \subseteq wire' /\ wire' \subseteq Packet /\ WireOK'
    BY <2>3, <2>4 DEF Typed, TypeOK, WireOK
  <2>6. /\ messageQueue' \in [Ends -> Seq(Packet)]
        /\ \A f \in Ends : Range(messageQueue'[f]) \subseteq wire
        /\ QueueOK'
    <3>1. CASE Enqueue(e, p)
      BY <3>1, <2>1, EnqueueFacts
    <3>2. CASE UNCHANGED messageQueue
      BY <3>2 DEF Typed, TypeOK, QueueOK
    <3> QED BY <2>3, <3>1, <3>2
  <2>7. TypeOK'
    BY <2>2, <2>3, <2>5, <2>6 DEF Typed, TypeOK, endVars, sendVars
  <2> QED BY <2>5, <2>6, <2>7 DEF Typed
<1>4. ASSUME NEW e \in Ends, NEW p \in wire, ReceiveAck(e, p) PROVE Typed'
  <2>1. /\ p.to = e /\ Enqueue(e, p)
        /\ UNCHANGED <<endVars, sendVars, recvVars, ackedSeqIds, wire, handled>>
    BY <1>4 DEF ReceiveAck, Polls
  <2>2. /\ messageQueue' \in [Ends -> Seq(Packet)] /\ QueueOK'
        /\ \A f \in Ends : Range(messageQueue'[f]) \subseteq wire
    BY <2>1, EnqueueFacts
  <2>3. TypeOK' /\ WireOK'
    BY <2>1, <2>2 DEF Typed, TypeOK, WireOK, endVars, sendVars, recvVars
  <2> QED BY <2>2, <2>3 DEF Typed
<1>5. ASSUME NEW e \in Ends, HandleReliable(e) PROVE Typed'
  <2>1. PICK m \in Range(messageQueue[e]) :
          /\ Pop(e, m) /\ m.kind = "Reliable"
          /\ thread' = [thread EXCEPT ![e] = AfterPop(e)]
          /\ handled' = [handled EXCEPT ![e][m.id] = @ + 1]
          /\ UNCHANGED <<conn, sendVars, recvVars, ackedSeqIds, wire>>
    BY <1>5 DEF HandleReliable
  <2>2. /\ m \in wire /\ m.to = e /\ messageQueue' \in [Ends -> Seq(Packet)]
        /\ \A f \in Ends : Range(messageQueue'[f]) \subseteq Range(messageQueue[f])
    BY <2>1, PopFacts
  <2>3. m.id \in Ids(Other(e))
    BY <2>1, <2>2 DEF Typed, WireOK
  <2>4. DOMAIN handled' = Ends /\ \A f \in Ends : handled'[f] \in [Ids(Other(f)) -> Nat]
    BY <2>1, <2>3 DEF Typed, TypeOK
  <2>5. thread' \in [Ends -> {"polling", "handling", "dead"}]
    BY <2>1 DEF AfterPop, Typed, TypeOK
  <2>6. TypeOK'
    BY <2>1, <2>2, <2>4, <2>5 DEF Typed, TypeOK, sendVars, recvVars
  <2>7. WireOK' /\ QueueOK'
    BY <2>1, <2>2 DEF Typed, WireOK, QueueOK
  <2> QED BY <2>6, <2>7 DEF Typed
<1>6. ASSUME NEW e \in Ends, HandleAck(e) PROVE Typed'
  <2>1. PICK ack \in Range(messageQueue[e]) :
          /\ Pop(e, ack) /\ ack.kind = "Ack" /\ AckEffect(e, ack)
          /\ Clear(e, {ack.acked} \union SweepCleared(e, ack) \union BitCleared(e, ack))
          /\ UNCHANGED conn
    BY <1>6 DEF HandleAck
  <2>2. /\ pendingMessages' \in [Ends -> SUBSET Nat] /\ reported' \in [Ends -> SUBSET Nat]
        /\ \A f \in Ends : pendingMessages'[f] \subseteq Ids(f) /\ reported'[f] \subseteq Ids(f)
    BY <2>1, ClearFacts
  <2>3. conn' \in [Ends -> {"Connecting", "Connected", "NotConnected"}]
    BY <2>1 DEF Typed, TypeOK
  <2> QED BY <2>1, <2>2, <2>3, AckTyped
<1>7. ASSUME NEW e \in Ends, HandleAckGivesUp(e) PROVE Typed'
  <2>1. PICK ack \in Range(messageQueue[e]), cleared \in SUBSET pendingMessages[e] :
          /\ Pop(e, ack) /\ ack.kind = "Ack" /\ AckEffect(e, ack)
          /\ reported' = [reported EXCEPT ![e] = @ \union cleared]
          /\ pendingMessages' = [pendingMessages EXCEPT ![e] = {}]
          /\ conn' = [conn EXCEPT ![e] = "NotConnected"]
    BY <1>7, GivesUpFacts
  <2>2. pendingMessages' \in [Ends -> SUBSET Nat] /\ reported' \in [Ends -> SUBSET Nat]
    BY <2>1 DEF Typed, TypeOK
  <2>3. \A f \in Ends : pendingMessages'[f] \subseteq Ids(f) /\ reported'[f] \subseteq Ids(f)
    BY <2>1 DEF Typed, TypeOK
  <2>4. conn' \in [Ends -> {"Connecting", "Connected", "NotConnected"}]
    BY <2>1 DEF Typed, TypeOK
  <2> QED BY <2>1, <2>2, <2>3, <2>4, AckTyped
<1>8. ASSUME NEW e \in Ends, SendUntransmitted(e) PROVE Typed'
  <2> DEFINE id == nextSequenceId[e] + 1
  <2>1. Allocate(e)
    BY <1>8 DEF SendUntransmitted
  <2>2. /\ id \in Ids(e) /\ nextSequenceId' \in [Ends -> Nat \ {0}] /\ nextSequenceId'[e] = id
        /\ \A f \in Ends \ {e} : nextSequenceId'[f] = nextSequenceId[f]
    BY <2>1, AllocateFacts
  <2> HIDE DEF id
  <2>3. /\ pendingMessages' = [pendingMessages EXCEPT ![e] = @ \union {id}]
        /\ UNCHANGED <<conn, wire>>
    BY <1>8 DEF SendUntransmitted, id
  <2>4. UNCHANGED <<thread, reported, recvVars, ackedSeqIds, messageQueue, handled>>
    BY <2>1 DEF Allocate
  <2>5. id \in Nat
    BY <2>2, ReliableAssumption DEF Ids
  <2>6. /\ pendingMessages' \in [Ends -> SUBSET Nat]
        /\ \A f \in Ends : pendingMessages'[f] \subseteq Ids(f)
    BY <2>2, <2>3, <2>5 DEF Typed, TypeOK
  <2>7. \A f \in Ends : nextSequenceId'[f] \in Ids(f) \union {1}
    BY <2>2 DEF Typed, TypeOK
  <2>8. TypeOK'
    BY <2>2, <2>3, <2>4, <2>6, <2>7 DEF Typed, TypeOK, recvVars
  <2>9. WireOK' /\ QueueOK'
    BY <2>3, <2>4 DEF Typed, WireOK, QueueOK
  <2> QED BY <2>8, <2>9 DEF Typed
<1>9. ASSUME NEW e \in Ends, Established(e) PROVE Typed'
  BY <1>9 DEF Established, Typed, TypeOK, WireOK, QueueOK, sendVars, recvVars
<1>10. ASSUME NEW e \in Ends, LocalDisconnect(e) PROVE Typed'
  BY <1>10 DEF LocalDisconnect, Typed, TypeOK, WireOK, QueueOK, recvVars
<1>11. CASE UNCHANGED vars
  BY <1>11 DEF Typed, TypeOK, WireOK, QueueOK, vars, endVars, sendVars, recvVars
<1> QED
  BY <1>1, <1>2, <1>3, <1>4, <1>5, <1>6, <1>7, <1>8, <1>9, <1>10, <1>11
  DEF Next, Receive, Handle

\* The initial state is well typed.
LEMMA TypedInit == Init => Typed
<1> SUFFICES ASSUME Init PROVE Typed
  OBVIOUS
<1>1. EmptyBitfield \in Windows
  BY InitCapacityAssumption DEF EmptyBitfield, Windows
<1>2. messageQueue \in [Ends -> Seq(Packet)] /\ \A e \in Ends : Range(messageQueue[e]) = {}
  BY EmptySeq DEF Init, Range
<1>3. TypeOK
  BY <1>1, <1>2, HalfTwice DEF Init, TypeOK
<1> QED BY <1>2, <1>3 DEF Init, Typed, WireOK, QueueOK

\* The types hold throughout.
LEMMA TypedAlways == Spec => []Typed
BY TypedInit, TypedStep, PTL DEF Spec

\* The state of the reliable send mode is well typed.
THEOREM TypeCorrect == Spec => []TypeOK
<1>1. Typed => TypeOK
  BY DEF Typed
<1> QED BY <1>1, TypedAlways, PTL

-----------------------------------------------------------------------------
(* The books of sendMessage and clearMessage.                              *)

\* No step makes a message both pending and reported, or loses one before the
\* connection is closed.
LEMMA AccountingStep ==
  ASSUME Typed, PendingAccounting, [Next]_vars
  PROVE  PendingAccounting'
<1>1. ASSUME NEW e \in Ends, Send(e) \/ SendUntransmitted(e) PROVE PendingAccounting'
  <2>1. Allocate(e)
    BY <1>1 DEF Send, SendUntransmitted
  <2>2. /\ nextSequenceId[e] \in Nat \ {0} /\ nextSequenceId'[e] = nextSequenceId[e] + 1
        /\ \A f \in Ends \ {e} : nextSequenceId'[f] = nextSequenceId[f]
    BY <2>1, AllocateFacts
  <2>3. /\ pendingMessages' = [pendingMessages EXCEPT ![e] = @ \union {nextSequenceId[e] + 1}]
        /\ UNCHANGED <<conn, reported>>
    BY <1>1, <2>1 DEF Send, SendUntransmitted, Allocate
  <2>4. /\ pendingMessages'[e] = pendingMessages[e] \union {nextSequenceId[e] + 1}
        /\ \A f \in Ends \ {e} : pendingMessages'[f] = pendingMessages[f]
    BY <2>3 DEF Typed, TypeOK
  <2>5. ASSUME NEW f \in Ends, conn[f] # "NotConnected"
        PROVE  /\ pendingMessages'[f] \intersect reported[f] = {}
               /\ pendingMessages'[f] \union reported[f] = 2 .. nextSequenceId'[f]
    <3>1. CASE f = e
      <4>1. /\ pendingMessages[e] \intersect reported[e] = {}
            /\ pendingMessages[e] \union reported[e] = 2 .. nextSequenceId[e]
        BY <2>5, <3>1 DEF PendingAccounting
      <4> QED BY <3>1, <2>2, <2>4, <4>1
    <3>2. CASE f # e
      BY <3>2, <2>2, <2>4, <2>5 DEF PendingAccounting
    <3> QED BY <3>1, <3>2
  <2> QED BY <2>3, <2>5 DEF PendingAccounting
<1>2. ASSUME NEW e \in Ends, SendGivesUp(e) PROVE PendingAccounting'
  <2>1. Allocate(e)
    BY <1>2 DEF SendGivesUp
  <2>2. \A f \in Ends \ {e} : nextSequenceId'[f] = nextSequenceId[f]
    BY <2>1, AllocateFacts
  <2>3. /\ pendingMessages' = [pendingMessages EXCEPT ![e] = {}]
        /\ conn' = [conn EXCEPT ![e] = "NotConnected"] /\ UNCHANGED reported
    BY <1>2, <2>1 DEF SendGivesUp, Allocate
  <2> QED BY <2>2, <2>3 DEF Typed, TypeOK, PendingAccounting
<1>3. ASSUME NEW e \in Ends, HandleAck(e) PROVE PendingAccounting'
  <2>1. PICK ack \in Range(messageQueue[e]) :
          /\ Clear(e, {ack.acked} \union SweepCleared(e, ack) \union BitCleared(e, ack))
          /\ UNCHANGED <<conn, nextSequenceId>>
    BY <1>3 DEF HandleAck, AckEffect
  <2> DEFINE ids == {ack.acked} \union SweepCleared(e, ack) \union BitCleared(e, ack)
  <2> HIDE DEF ids
  <2>2. Clear(e, ids)
    BY <2>1 DEF ids
  <2>3. /\ pendingMessages'[e] = pendingMessages[e] \ ids
        /\ reported'[e] = reported[e] \union (ids \intersect pendingMessages[e])
        /\ \A f \in Ends \ {e} : /\ pendingMessages'[f] = pendingMessages[f]
                                 /\ reported'[f] = reported[f]
    BY <2>2, ClearFacts
  <2>4. ASSUME NEW f \in Ends, conn[f] # "NotConnected"
        PROVE  /\ pendingMessages'[f] \intersect reported'[f] = {}
               /\ pendingMessages'[f] \union reported'[f] = 2 .. nextSequenceId[f]
    <3>1. /\ pendingMessages[f] \intersect reported[f] = {}
          /\ pendingMessages[f] \union reported[f] = 2 .. nextSequenceId[f]
      BY <2>4 DEF PendingAccounting
    <3>2. CASE f = e
      <4> DEFINE P == pendingMessages[e]
                 R == reported[e]
                 N == 2 .. nextSequenceId[e]
      <4>1. P \intersect R = {} /\ P \union R = N
        BY <3>1, <3>2
      <4> HIDE DEF P, R, N
      <4>2. /\ (P \ ids) \intersect (R \union (ids \intersect P)) = {}
            /\ (P \ ids) \union (R \union (ids \intersect P)) = N
        BY <4>1
      <4> QED BY <3>2, <2>3, <4>2 DEF P, R, N
    <3>3. CASE f # e
      BY <3>1, <3>3, <2>3
    <3> QED BY <3>2, <3>3
  <2> QED BY <2>1, <2>4 DEF PendingAccounting
<1>4. ASSUME NEW e \in Ends, HandleAckGivesUp(e) PROVE PendingAccounting'
  <2>1. PICK ack \in Range(messageQueue[e]), cleared \in SUBSET pendingMessages[e] :
          /\ AckEffect(e, ack) /\ conn' = [conn EXCEPT ![e] = "NotConnected"]
          /\ reported' = [reported EXCEPT ![e] = @ \union cleared]
          /\ pendingMessages' = [pendingMessages EXCEPT ![e] = {}]
    BY <1>4, GivesUpFacts
  <2> QED BY <2>1 DEF AckEffect, Typed, TypeOK, PendingAccounting
<1>5. ASSUME NEW e \in Ends, Established(e) PROVE PendingAccounting'
  <2>1. \A f \in Ends : conn'[f] # "NotConnected" => conn[f] # "NotConnected"
    BY <1>5 DEF Established, Typed, TypeOK
  <2> QED BY <1>5, <2>1 DEF Established, PendingAccounting, sendVars
<1>6. ASSUME NEW e \in Ends, LocalDisconnect(e) PROVE PendingAccounting'
  BY <1>6 DEF LocalDisconnect, Typed, TypeOK, PendingAccounting
<1>7. CASE UNCHANGED <<conn, nextSequenceId, pendingMessages, reported>>
  BY <1>7 DEF PendingAccounting
<1> QED
  BY <1>1, <1>2, <1>3, <1>4, <1>5, <1>6, <1>7
  DEF Next, Receive, Handle, ReceiveReliable, ReceiveAck, HandleReliable, vars, endVars, sendVars

\* Until a connection is closed, every sequence ID allocated on it is either still
\* pending or has been reported delivered (sendMessage, clearMessage).
THEOREM Accounting == Spec => []PendingAccounting
<1>1. Init => PendingAccounting
  BY DEF Init, PendingAccounting
<1>2. Typed /\ PendingAccounting /\ [Next]_vars => PendingAccounting'
  BY AccountingStep
<1> QED BY <1>1, <1>2, TypedAlways, PTL DEF Spec

\* A message once off the pending list never comes back to it, and only a
\* pending one is reported: the dict entry is made by sendMessage alone.
THEOREM Cleared == Spec => ClearedForGood
<1> DEFINE A == \A e \in Ends :
                   /\ pendingMessages'[e] \ pendingMessages[e] \subseteq {nextSequenceId[e] + 1}
                   /\ reported'[e] \ reported[e] \subseteq pendingMessages[e]
<1>1. ASSUME Typed, [Next]_vars PROVE A
  <2>1. ASSUME NEW e \in Ends, Send(e) PROVE A
    BY <1>1, <2>1 DEF Send, Allocate, Typed, TypeOK
  <2>2. ASSUME NEW e \in Ends, SendGivesUp(e) PROVE A
    BY <1>1, <2>2 DEF SendGivesUp, Allocate, Typed, TypeOK
  <2>3. ASSUME NEW e \in Ends, HandleAck(e) PROVE A
    <3>1. PICK ids : Clear(e, ids)
      BY <2>3 DEF HandleAck
    <3>2. /\ pendingMessages'[e] = pendingMessages[e] \ ids
          /\ reported'[e] = reported[e] \union (ids \intersect pendingMessages[e])
          /\ \A f \in Ends \ {e} : /\ pendingMessages'[f] = pendingMessages[f]
                                   /\ reported'[f] = reported[f]
      BY <1>1, <3>1, ClearFacts
    <3> QED BY <3>2
  <2>4. ASSUME NEW e \in Ends, HandleAckGivesUp(e) PROVE A
    <3>1. PICK cleared \in SUBSET pendingMessages[e] :
            /\ reported' = [reported EXCEPT ![e] = @ \union cleared]
            /\ pendingMessages' = [pendingMessages EXCEPT ![e] = {}]
      BY <2>4, GivesUpFacts
    <3> QED BY <1>1, <3>1 DEF Typed, TypeOK
  <2>5. ASSUME NEW e \in Ends, SendUntransmitted(e) PROVE A
    BY <1>1, <2>5 DEF SendUntransmitted, Allocate, Typed, TypeOK
  <2>6. ASSUME NEW e \in Ends, LocalDisconnect(e) PROVE A
    BY <1>1, <2>6 DEF LocalDisconnect, Typed, TypeOK
  <2>7. CASE UNCHANGED <<pendingMessages, reported>>
    BY <2>7
  <2> HIDE DEF A
  <2> QED
    BY <1>1, <2>1, <2>2, <2>3, <2>4, <2>5, <2>6, <2>7
    DEF Next, Receive, Handle, Established, ReceiveReliable, ReceiveAck, HandleReliable, vars, sendVars
<1>2. Typed /\ [Next]_vars => [A]_vars
  BY <1>1
<1> QED BY <1>2, TypedAlways, PTL DEF Spec, ClearedForGood
-----------------------------------------------------------------------------
(* The receive window.  As long as no sequence ID wraps far enough to be   *)
(* taken for an older one, the window is an exact record of what was taken *)
(* in: SeenAt relates the last ID, the bits and the accepted messages.     *)

\* No end sends more than half the ID space: 32768 messages in the code.
NoWrap == \A e \in Ends : LastId[e] <= Half

\* A window describes a set of messages: nothing is newer than the last ID, and
\* the bit at a distance from it says whether that message was taken in.  The
\* last ID of a fresh window is 0, which counts as seen.
SeenAt(accepted, last, bf) ==
    /\ bf.count = last
    /\ last \in accepted \union {0}
    /\ \A p \in bf.bits : p <= last /\ last - p \in accepted \union {0}
    /\ \A id \in accepted : id = last \/ (id < last /\ last - id \in bf.bits)

SeenOK == \A e \in Ends : SeenAt(Accepted(e), lastReceivedSeqId[e], receivedSeqIds[e])

\* What waits in a queue was not handled yet, and waits there only once.
WaitsOnce(queue, count) ==
    /\ \A i \in DOMAIN queue : queue[i].kind = "Reliable" => count[queue[i].id] = 0
    /\ \A i, j \in DOMAIN queue :
          i # j /\ queue[i].kind = "Reliable" /\ queue[j].kind = "Reliable"
             => queue[i].id # queue[j].id

HandledOK == AtMostOnce /\ \A e \in Ends : WaitsOnce(messageQueue[e], handled[e])

\* Nothing was transmitted that has no sequence ID yet.
SentOK == \A p \in wire : p.kind = "Reliable" => p.id <= nextSequenceId[Other(p.to)]

\* Closer to zero than half the ID space, an ID is its own mask, and the gap of
\* two such IDs is their difference.
LEMMA SmallIds ==
  ASSUME NEW m \in 0 .. Half, NEW n \in 0 .. Half
  PROVE  Mask(m) = m /\ Gap(m, n) = m - n
<1>1. \A k \in 0 .. Half : Mask(k) = k
  <2> SUFFICES ASSUME NEW k \in 0 .. Half PROVE Mask(k) = k
    OBVIOUS
  <2>1. PICK q \in Nat : Mask(k) \in 0 .. IdSpace - 1 /\ k = q * IdSpace + Mask(k)
    <3>1. k \in Nat
      BY HalfTwice
    <3> QED BY <3>1, Periods
  <2>2. IdSpace \in Nat \ {0} /\ k < IdSpace /\ q * IdSpace \in Int
    BY <2>1, HalfTwice
  <2>3. q * IdSpace = k - Mask(k)
    BY <2>1, <2>2, HalfTwice
  <2>4. q * IdSpace < IdSpace /\ - IdSpace < q * IdSpace
    BY <2>1, <2>2, <2>3, HalfTwice
  <2>5. q * IdSpace < 2 * IdSpace /\ - (2 * IdSpace) < q * IdSpace
    BY <2>2, <2>4
  <2>6. q \in {0, 1}
    BY <2>1, <2>2, <2>5, SmallMultiple
  <2>7. CASE q = 0
    BY <2>1, <2>7, HalfTwice
  <2>8. CASE q = 1
    BY <2>2, <2>4, <2>8
  <2> QED BY <2>6, <2>7, <2>8
<1>2. m \in 0 .. IdSpace - 1 /\ n \in 0 .. IdSpace - 1
  BY HalfTwice
<1>3. - Half <= m - n /\ m - n <= Half
  BY HalfTwice
<1>4. MaskedGap(m, n) = m - n
  BY <1>2, <1>3, GapOfIds
<1> QED BY <1>1, <1>4 DEF Gap

\* A message newer than all before: its gap is not yet marked in the window,
\* and the window shifted and marked describes one message more.
LEMMA SeenNewer ==
  ASSUME NEW A \in SUBSET Nat, NEW last \in Nat, NEW bf \in Windows, SeenAt(A, last, bf),
         NEW id \in Nat, id > last
  PROVE  /\ id \notin A
         /\ ~IsSet(ShiftLeft(bf, id - last), id - last)
         /\ SeenAt(A \union {id}, id, SetBit(ShiftLeft(bf, id - last), id - last))
<1> DEFINE gap == id - last
           moved == ShiftLeft(bf, gap)
           marked == SetBit(moved, gap)
<1>1. gap \in Nat \ {0} /\ bf.count = last /\ bf.bits \subseteq Nat \ {0}
  BY DEF SeenAt, Windows
<1>2. id \notin A
  BY DEF SeenAt
<1>3. moved.count = id /\ moved.bits = {p + gap : p \in {q \in bf.bits : q <= last}}
  BY <1>1 DEF ShiftLeft
<1>4. \A p \in bf.bits : p <= last /\ p \in Nat \ {0}
  BY <1>1 DEF SeenAt
<1>5. moved.bits = {p + gap : p \in bf.bits}
  BY <1>3, <1>4
<1>6. marked.count = id /\ marked.bits = {p + gap : p \in bf.bits} \union {gap}
  BY <1>3, <1>5 DEF SetBit, ShiftLeft
<1>7. ~IsSet(moved, gap)
  BY <1>1, <1>3, <1>4, <1>5 DEF IsSet
<1>8. \A p \in marked.bits : p <= id /\ id - p \in A \union {id, 0}
  <2>1. gap <= id /\ id - gap = last /\ last \in A \union {0}
    BY DEF SeenAt
  <2>2. \A p \in bf.bits : p + gap <= id /\ id - (p + gap) = last - p
                           /\ last - p \in A \union {0}
    BY <1>1, <1>4 DEF SeenAt
  <2> QED BY <1>6, <2>1, <2>2
<1>9. \A i \in A \union {id} : i = id \/ (i < id /\ id - i \in marked.bits)
  <2> SUFFICES ASSUME NEW i \in A PROVE i < id /\ id - i \in marked.bits
    OBVIOUS
  <2>1. CASE i = last
    BY <1>6, <2>1
  <2>2. CASE i < last /\ last - i \in bf.bits
    <3>1. id - i = (last - i) + gap
      BY <2>2
    <3> QED BY <1>6, <2>2, <3>1
  <2> QED BY <2>1, <2>2 DEF SeenAt
<1> HIDE DEF marked
<1>10. SeenAt(A \union {id}, id, marked)
  BY <1>6, <1>8, <1>9 DEF SeenAt
<1> QED BY <1>2, <1>7, <1>10 DEF marked

\* A message older than the last one: its bit says whether it is known, and
\* setting the bit describes one message more.
LEMMA SeenOlder ==
  ASSUME NEW A \in SUBSET Nat, NEW last \in Nat, NEW bf \in Windows, SeenAt(A, last, bf),
         NEW id \in Nat \ {0}, id < last
  PROVE  /\ IsSet(bf, last - id) <=> id \in A
         /\ SeenAt(A \union {id}, last, SetBit(bf, last - id))
<1> DEFINE marked == SetBit(bf, last - id)
<1>1. marked.count = last /\ marked.bits = bf.bits \union {last - id}
  BY DEF SetBit, Windows, SeenAt
<1>2. IsSet(bf, last - id) <=> last - id \in bf.bits
  BY DEF SeenAt, IsSet
<1>3. last - id \in bf.bits => id \in A
  <2>1. last - (last - id) = id /\ id # 0
    OBVIOUS
  <2> QED BY <2>1 DEF SeenAt
<1>4. id \in A => last - id \in bf.bits
  BY DEF SeenAt
<1>5. \A p \in marked.bits : p <= last /\ last - p \in A \union {id, 0}
  <2>1. last - id <= last /\ last - (last - id) = id
    OBVIOUS
  <2> QED BY <1>1, <2>1 DEF SeenAt
<1>6. \A i \in A \union {id} : i = last \/ (i < last /\ last - i \in marked.bits)
  BY <1>1 DEF SeenAt
<1>7. last \in A \union {id, 0}
  BY DEF SeenAt
<1> HIDE DEF marked
<1>8. SeenAt(A \union {id}, last, marked)
  BY <1>1, <1>5, <1>6, <1>7 DEF SeenAt
<1> QED BY <1>2, <1>3, <1>4, <1>8 DEF marked

\* Messages taken in have IDs of the other end.
LEMMA AcceptedIds ==
  ASSUME Typed, NEW e \in Ends
  PROVE  Accepted(e) \subseteq Ids(Other(e)) /\ Ids(Other(e)) \subseteq Nat
<1>1. LastId[Other(e)] \in Nat
  BY OtherEnd, ReliableAssumption
<1>2. \A m \in Range(messageQueue[e]) : m \in wire /\ m.to = e
  BY DEF Typed, TypeOK, QueueOK
<1> QED BY <1>1, <1>2 DEF Accepted, Ids, Typed, WireOK

\* shouldHandle lets through exactly the messages not taken in before, and its
\* window describes them afterwards.
LEMMA WindowIsExact ==
  ASSUME NoWrap, Typed, SeenOK, NEW e \in Ends,
         NEW p \in wire, p.kind = "Reliable", p.to = e
  PROVE  /\ p.id \in Ids(Other(e)) /\ p.seq = p.id
         /\ Window(e, p.seq).isNew <=> p.id \notin Accepted(e)
         /\ Window(e, p.seq).last \in 0 .. Half /\ Window(e, p.seq).bf \in Windows
         /\ SeenAt(Accepted(e) \union {p.id}, Window(e, p.seq).last, Window(e, p.seq).bf)
<1> DEFINE A == Accepted(e)
           last == lastReceivedSeqId[e]
           bf == receivedSeqIds[e]
           id == p.id
<1>1. Other(e) \in Ends /\ LastId[Other(e)] \in Nat /\ LastId[Other(e)] <= Half
  BY OtherEnd, ReliableAssumption DEF NoWrap
<1>2. id \in Ids(Other(e)) /\ id \in Nat \ {0} /\ id \in 0 .. Half /\ p.seq = Mask(id)
  BY <1>1, HalfTwice DEF Typed, WireOK, Ids
<1>3. /\ A \in SUBSET Nat /\ last \in Nat /\ bf \in Windows /\ SeenAt(A, last, bf)
      /\ last \in 0 .. Half
  <2>1. A \subseteq 2 .. LastId[Other(e)] /\ A \in SUBSET Nat
    BY AcceptedIds DEF Ids
  <2>2. last \in Nat /\ bf \in Windows /\ SeenAt(A, last, bf)
    BY HalfTwice DEF Typed, TypeOK, SeenOK
  <2>3. last \in A \union {0}
    BY <2>2 DEF SeenAt
  <2> HIDE DEF A, last
  <2> QED BY <1>1, <2>1, <2>2, <2>3, HalfTwice
<1>4. p.seq = id /\ Gap(p.seq, last) = id - last
  BY <1>2, <1>3, SmallIds
<1>5. p.seq \in 0 .. IdSpace - 1
  BY <1>2, <1>4, HalfTwice
<1>6. Window(e, p.seq).bf \in Windows
  BY <1>5, WindowType
<1> DEFINE w == Window(e, p.seq)
<1>7. CASE id > last
  <2> DEFINE moved == ShiftLeft(bf, id - last)
             marked == SetBit(moved, id - last)
             new == ~IsSet(moved, id - last)
  <2>1. w = [last |-> id, bf |-> marked, isNew |-> new]
    BY <1>2, <1>3, <1>4, <1>7 DEF Window
  <2>2. id \notin A /\ new /\ SeenAt(A \union {id}, id, marked)
    BY <1>2, <1>3, <1>7, SeenNewer
  <2> HIDE DEF marked, new, w, A
  <2>3. w.last = id /\ w.bf = marked /\ w.isNew = new
    BY <2>1
  <2>4. w.isNew <=> id \notin A
    BY <2>2, <2>3, Zenon
  <2>5. w.last \in 0 .. Half /\ SeenAt(A \union {id}, w.last, w.bf)
    BY <1>2, <2>2, <2>3
  <2> QED BY <1>2, <1>4, <1>6, <2>4, <2>5 DEF w, A
<1>8. CASE id < last
  <2> DEFINE marked == SetBit(bf, last - id)
             new == ~IsSet(bf, last - id)
  <2>1. - (id - last) = last - id
    BY <1>2, <1>3
  <2>2. w = [last |-> last, bf |-> marked, isNew |-> new]
    BY <1>2, <1>3, <1>4, <1>8, <2>1 DEF Window
  <2>3. (new <=> id \notin A) /\ SeenAt(A \union {id}, last, marked)
    BY <1>2, <1>3, <1>8, SeenOlder
  <2> HIDE DEF marked, new, w, A
  <2>4. w.last = last /\ w.bf = marked /\ w.isNew = new
    BY <2>2
  <2>5. w.isNew <=> id \notin A
    BY <2>3, <2>4, Zenon
  <2>6. w.last \in 0 .. Half /\ SeenAt(A \union {id}, w.last, w.bf)
    BY <1>3, <2>3, <2>4
  <2> QED BY <1>2, <1>4, <1>6, <2>5, <2>6 DEF w, A
<1>9. CASE id = last
  <2>1. w = [last |-> last, bf |-> bf, isNew |-> FALSE]
    BY <1>2, <1>3, <1>4, <1>9 DEF Window
  <2>2. id \in A
    BY <1>2, <1>3, <1>9 DEF SeenAt
  <2>3. A \union {id} = A
    BY <2>2
  <2> QED BY <1>2, <1>3, <1>4, <1>6, <2>1, <2>2, <2>3
<1> HIDE DEF A, last, bf, id, w
<1>10. id > last \/ id < last \/ id = last
  BY <1>2, <1>3
<1> QED BY <1>7, <1>8, <1>9, <1>10 DEF A, last, bf, id, w

-----------------------------------------------------------------------------
(* At most once.                                                           *)

Recorded == SeenOK /\ HandledOK /\ AcksAreTruthful

\* Where queue and counts stay, so does what was taken in.
LEMMA AcceptedStays ==
  ASSUME NEW e \in Ends, messageQueue'[e] = messageQueue[e], handled'[e] = handled[e]
  PROVE  Accepted(e)' = Accepted(e)
BY DEF Accepted

\* A queue from which the last element is taken still holds each message once.
LEMMA WaitsOnceFront ==
  ASSUME NEW q \in Seq(Packet), q # <<>>, NEW count, WaitsOnce(q, count)
  PROVE  /\ WaitsOnce(Front(q), count)
         /\ Last(q).kind = "Reliable" =>
              /\ count[Last(q).id] = 0
              /\ \A i \in DOMAIN Front(q) :
                    Front(q)[i].kind = "Reliable" => Front(q)[i].id # Last(q).id
<1> DEFINE f == Front(q)
<1>1. /\ Len(q) \in Nat \ {0} /\ DOMAIN q = 1 .. Len(q) /\ DOMAIN f = 1 .. Len(q) - 1
      /\ \A i \in 1 .. Len(q) - 1 : f[i] = q[i]
      /\ Last(q) = q[Len(q)]
  BY SeqFront
<1>2. /\ Len(q) \in DOMAIN q
      /\ \A i \in DOMAIN f : i \in DOMAIN q /\ f[i] = q[i] /\ i # Len(q)
  BY <1>1
<1> HIDE DEF f
<1>3. WaitsOnce(f, count)
  BY <1>2 DEF WaitsOnce
<1>4. Last(q).kind = "Reliable" =>
        /\ count[Last(q).id] = 0
        /\ \A i \in DOMAIN f : f[i].kind = "Reliable" => f[i].id # Last(q).id
  BY <1>1, <1>2 DEF WaitsOnce
<1> QED BY <1>3, <1>4 DEF f

\* A queue to which a message is appended that is neither in it nor handled
\* holds each message once; so does one to which an ack is appended.
LEMMA WaitsOnceAppend ==
  ASSUME NEW q \in Seq(Packet), NEW count, WaitsOnce(q, count), NEW m \in Packet,
         m.kind = "Reliable" => count[m.id] = 0 /\ \A n \in Range(q) :
                                  n.kind = "Reliable" => n.id # m.id
  PROVE  WaitsOnce(Append(q, m), count)
<1> DEFINE a == Append(q, m)
           k == Len(q) + 1
<1>1. /\ DOMAIN q = 1 .. Len(q) /\ DOMAIN a = 1 .. k /\ Len(q) \in Nat /\ a[k] = m
      /\ \A i \in 1 .. Len(q) : a[i] = q[i]
  BY SeqAppend
<1>2. \A i \in DOMAIN a : (i = k /\ a[i] = m) \/ (i \in DOMAIN q /\ a[i] = q[i])
  BY <1>1
<1>3. \A i \in DOMAIN q : q[i] \in Range(q)
  BY DEF Range
<1> HIDE DEF a, k
<1>4. \A i \in DOMAIN a : a[i].kind = "Reliable" => count[a[i].id] = 0
  BY <1>2 DEF WaitsOnce
<1>5. ASSUME NEW i \in DOMAIN a, NEW j \in DOMAIN a, i # j,
             a[i].kind = "Reliable", a[j].kind = "Reliable"
      PROVE  a[i].id # a[j].id
  <2> DEFINE known == Range(q)
  <2>1. CASE i = k
    <3>1. a[i] = m /\ a[j] \in known
      BY <1>1, <1>2, <1>3, <1>5, <2>1
    <3> HIDE DEF known
    <3> QED BY <1>5, <3>1 DEF known
  <2>2. CASE j = k
    <3>1. a[j] = m /\ a[i] \in known
      BY <1>1, <1>2, <1>3, <1>5, <2>2
    <3> HIDE DEF known
    <3> QED BY <1>5, <3>1 DEF known
  <2>3. CASE i # k /\ j # k
    BY <1>2, <1>5, <2>3 DEF WaitsOnce
  <2> QED BY <2>1, <2>2, <2>3
<1> QED BY <1>4, <1>5 DEF WaitsOnce, a

\* A poll that takes a new message in, or finds that it knows it.
LEMMA ReceiveRecorded ==
  ASSUME NoWrap, Typed, Recorded, NEW e \in Ends, NEW p \in wire, ReceiveReliable(e, p)
  PROVE  /\ Recorded' /\ p.id \in Ids(Other(e))
         /\ Accepted(e)' = Accepted(e) \union {p.id}
         /\ \A f \in Ends \ {e} : Accepted(f)' = Accepted(f)
<1> DEFINE w == Window(e, p.seq)
           A == Accepted(e)
<1>1. p.kind = "Reliable" /\ p.to = e
  BY DEF ReceiveReliable, Polls
<1>2. /\ p.id \in Ids(Other(e)) /\ p.seq = p.id /\ (w.isNew <=> p.id \notin A)
      /\ w.last \in 0 .. Half /\ w.bf \in Windows
      /\ SeenAt(A \union {p.id}, w.last, w.bf)
  BY <1>1, WindowIsExact DEF Recorded
<1>3. /\ lastReceivedSeqId' = [lastReceivedSeqId EXCEPT ![e] = w.last]
      /\ receivedSeqIds' = [receivedSeqIds EXCEPT ![e] = w.bf]
      /\ wire' = wire \union {Ack(Other(e), p.seq, w.last, w.bf)}
      /\ w.isNew => Enqueue(e, p)
      /\ ~w.isNew => UNCHANGED messageQueue
      /\ UNCHANGED handled
  BY DEF ReceiveReliable
<1> HIDE DEF w
<1>4. /\ Accepted(e)' = A \union {p.id} /\ \A f \in Ends \ {e} : Accepted(f)' = Accepted(f)
      /\ \A f \in Ends : WaitsOnce(messageQueue'[f], handled[f])
  <2>1. CASE p.id \notin A
    <3>1. Enqueue(e, p)
      BY <1>2, <1>3, <2>1
    <3>2. /\ messageQueue'[e] = Append(messageQueue[e], p)
          /\ Range(messageQueue'[e]) = Range(messageQueue[e]) \union {p}
          /\ \A f \in Ends \ {e} : messageQueue'[f] = messageQueue[f]
      BY <1>1, <3>1, EnqueueFacts
    <3>3. Accepted(e)' = A \union {p.id}
      BY <1>1, <1>3, <3>2 DEF Accepted
    <3>4. \A f \in Ends \ {e} : Accepted(f)' = Accepted(f)
      BY <1>3, <3>2, AcceptedStays
    <3>5. WaitsOnce(messageQueue'[e], handled[e])
      <4>1. handled[e][p.id] = 0
        BY <1>2, <2>1 DEF Accepted, Typed, TypeOK
      <4>2. \A n \in Range(messageQueue[e]) : n.kind = "Reliable" => n.id # p.id
        BY <2>1 DEF Accepted
      <4>3. messageQueue[e] \in Seq(Packet) /\ p \in Packet
        BY DEF Typed, TypeOK
      <4>4. WaitsOnce(messageQueue[e], handled[e])
        BY DEF Recorded, HandledOK
      <4> QED BY <3>2, <4>1, <4>2, <4>3, <4>4, WaitsOnceAppend
    <3>6. \A f \in Ends : WaitsOnce(messageQueue'[f], handled[f])
      BY <3>2, <3>5 DEF Recorded, HandledOK
    <3> QED BY <3>3, <3>4, <3>6
  <2>2. CASE p.id \in A
    <3>1. UNCHANGED messageQueue
      BY <1>2, <1>3, <2>2
    <3>2. \A f \in Ends : Accepted(f)' = Accepted(f)
      BY <1>3, <3>1, AcceptedStays
    <3>3. A \union {p.id} = A
      BY <2>2
    <3> QED BY <3>1, <3>2, <3>3 DEF Recorded, HandledOK
  <2> QED BY <2>1, <2>2
<1>5. HandledOK'
  BY <1>3, <1>4 DEF Recorded, HandledOK, AtMostOnce
<1>6. SeenOK'
  <2>1. lastReceivedSeqId'[e] = w.last /\ receivedSeqIds'[e] = w.bf
    BY <1>3 DEF Typed, TypeOK
  <2>2. \A f \in Ends \ {e} : /\ lastReceivedSeqId'[f] = lastReceivedSeqId[f]
                              /\ receivedSeqIds'[f] = receivedSeqIds[f]
    BY <1>3 DEF Typed, TypeOK
  <2>3. \A f \in Ends : f = e \/ f \in Ends \ {e}
    OBVIOUS
  <2> QED BY <1>2, <1>4, <2>1, <2>2, <2>3 DEF Recorded, SeenOK
<1>7. AcksAreTruthful'
  <2> DEFINE named(ack) == {ack.acked, ack.last} \union {ack.last - i : i \in ack.ones}
             new == Ack(Other(e), p.seq, w.last, w.bf)
  <2>1. Other(e) \in Ends /\ Other(Other(e)) = e
    BY OtherEnd
  <2>2. p.seq \in 0 .. IdSpace - 1 /\ w.last \in Nat
    BY <1>1, <1>2, HalfTwice DEF Typed, TypeOK, Packet
  <2>3. /\ new.to = Other(e) /\ new.acked = p.id /\ new.last = w.last
        /\ new.ones = First(w.bf, AckBits)
    <3>1. Mask(w.last) = w.last
      BY <1>2, SmallIds
    <3> QED BY <1>2, <2>1, <2>2, <3>1, PacketType
  <2>4. named(new) \subseteq A \union {p.id} \union {0}
    <3>1. w.last \in A \union {p.id} \union {0}
      BY <1>2 DEF SeenAt
    <3>2. \A i \in First(w.bf, AckBits) : w.last - i \in A \union {p.id} \union {0}
      BY <1>2 DEF SeenAt, First
    <3> QED BY <2>3, <3>1, <3>2
  <2>5. ASSUME NEW ack \in wire', ack.kind = "Ack"
        PROVE  named(ack) \subseteq Accepted(Other(ack.to))' \union {0}
    <3>1. CASE ack = new
      BY <1>4, <2>1, <2>3, <2>4, <3>1
    <3>2. CASE ack \in wire
      <4>1. Other(ack.to) \in Ends
        BY <3>2, OtherEnd DEF Typed, TypeOK, Packet
      <4>2. Accepted(Other(ack.to)) \subseteq Accepted(Other(ack.to))'
        BY <1>4, <4>1
      <4>3. named(ack) \subseteq Accepted(Other(ack.to)) \union {0}
        BY <2>5, <3>2 DEF Recorded, AcksAreTruthful
      <4> QED BY <4>2, <4>3
    <3> QED BY <1>3, <2>5, <3>1, <3>2
  <2> QED BY <2>5 DEF AcksAreTruthful
<1> QED BY <1>2, <1>4, <1>5, <1>6, <1>7 DEF Recorded

\* Steps that take nothing in and send no ack leave windows and acks as good as
\* they were.
LEMMA RecordsStay ==
  ASSUME Typed, SeenOK, AcksAreTruthful, \A f \in Ends : Accepted(f)' = Accepted(f),
         UNCHANGED recvVars, NEW to \in Ends, NEW ids \in SUBSET Nat,
         wire' = wire \union {Data(to, id) : id \in ids}
  PROVE  SeenOK' /\ AcksAreTruthful'
<1>1. SeenOK'
  BY DEF SeenOK, recvVars
<1>2. \A ack \in wire' : ack.kind = "Ack" => ack \in wire
  BY PacketType
<1>3. \A ack \in wire : ack.kind = "Ack" => Other(ack.to) \in Ends
  BY OtherEnd DEF Typed, TypeOK, Packet
<1>4. AcksAreTruthful'
  BY <1>2, <1>3 DEF AcksAreTruthful
<1> QED BY <1>1, <1>4

\* Handling an ack takes nothing in.
LEMMA AckRecorded ==
  ASSUME Typed, Recorded, NEW e \in Ends, NEW ack, Pop(e, ack), ack.kind = "Ack", AckEffect(e, ack)
  PROVE  Recorded' /\ \A f \in Ends : Accepted(f)' = Accepted(f)
<1>0. UNCHANGED <<handled, recvVars, wire>>
  BY DEF AckEffect
<1>1. /\ messageQueue'[e] = Front(messageQueue[e]) /\ messageQueue[e] # <<>>
      /\ messageQueue[e] \in Seq(Packet)
      /\ Range(messageQueue[e]) = Range(messageQueue'[e]) \union {ack}
      /\ \A f \in Ends \ {e} : messageQueue'[f] = messageQueue[f]
  BY PopFacts
<1>2. Accepted(e)' = Accepted(e)
  BY <1>0, <1>1 DEF Accepted
<1>3. \A f \in Ends \ {e} : Accepted(f)' = Accepted(f)
  BY <1>0, <1>1, AcceptedStays
<1>4. \A f \in Ends : Accepted(f)' = Accepted(f)
  BY <1>2, <1>3
<1>5. WaitsOnce(messageQueue[e], handled[e])
  BY DEF Recorded, HandledOK
<1>6. WaitsOnce(messageQueue'[e], handled[e])
  BY <1>1, <1>5, WaitsOnceFront
<1>7. HandledOK'
  BY <1>0, <1>1, <1>6 DEF Recorded, HandledOK, AtMostOnce
<1>8. wire' = wire \union {Data(e, id) : id \in {}} /\ {} \in SUBSET Nat
  BY <1>0
<1>9. SeenOK' /\ AcksAreTruthful'
  BY <1>0, <1>4, <1>8, RecordsStay DEF Recorded
<1> QED BY <1>4, <1>7, <1>9 DEF Recorded

\* Handing a message to the application moves it from the queue to the handled
\* ones, where it was not.
LEMMA HandleFacts ==
  ASSUME Typed, Recorded, NEW e \in Ends, HandleReliable(e)
  PROVE  \E m \in wire :
           /\ m.kind = "Reliable" /\ m.to = e /\ m.id \in Ids(Other(e))
           /\ handled[e][m.id] = 0
           /\ handled' = [handled EXCEPT ![e][m.id] = 1]
           /\ Recorded' /\ m.id \in Accepted(e) /\ \A f \in Ends : Accepted(f)' = Accepted(f)
           /\ UNCHANGED <<conn, sendVars, wire>>
<1>1. PICK m \in Range(messageQueue[e]) :
        /\ Pop(e, m) /\ m.kind = "Reliable"
        /\ handled' = [handled EXCEPT ![e][m.id] = @ + 1]
        /\ UNCHANGED <<conn, sendVars, recvVars, wire>>
  BY DEF HandleReliable
<1>2. /\ m \in wire /\ m.to = e /\ m = Last(messageQueue[e])
      /\ messageQueue'[e] = Front(messageQueue[e]) /\ messageQueue[e] # <<>>
      /\ messageQueue[e] \in Seq(Packet)
      /\ Range(messageQueue[e]) = Range(messageQueue'[e]) \union {m}
      /\ \A f \in Ends \ {e} : messageQueue'[f] = messageQueue[f]
  BY <1>1, PopFacts
<1>3. m.id \in Ids(Other(e))
  BY <1>1, <1>2 DEF Typed, WireOK
<1> DEFINE q == messageQueue[e]
           r == messageQueue'[e]
<1>4. WaitsOnce(q, handled[e])
  BY DEF Recorded, HandledOK
<1>5. /\ WaitsOnce(r, handled[e]) /\ handled[e][m.id] = 0
      /\ \A i \in DOMAIN r : r[i].kind = "Reliable" => r[i].id # m.id
  BY <1>1, <1>2, <1>4, WaitsOnceFront
<1>6. handled' = [handled EXCEPT ![e][m.id] = 1]
  BY <1>1, <1>5
<1>7. /\ handled'[e] = [handled[e] EXCEPT ![m.id] = 1]
      /\ \A f \in Ends \ {e} : handled'[f] = handled[f]
      /\ handled[e] \in [Ids(Other(e)) -> Nat]
  BY <1>6 DEF Typed, TypeOK
<1>8. /\ handled'[e][m.id] = 1
      /\ \A id \in Ids(Other(e)) \ {m.id} : handled'[e][id] = handled[e][id]
  BY <1>3, <1>7
<1>9. Accepted(e)' = Accepted(e)
  <2> DEFINE H == {id \in Ids(Other(e)) : handled[e][id] > 0}
             K == {id \in Ids(Other(e)) : handled'[e][id] > 0}
             Q == {n.id : n \in {x \in Range(q) : x.kind = "Reliable"}}
             R == {n.id : n \in {x \in Range(r) : x.kind = "Reliable"}}
  <2>1. K = H \union {m.id}
    BY <1>3, <1>8
  <2>2. Q = R \union {m.id}
    BY <1>1, <1>2
  <2>3. Accepted(e) = H \union Q /\ Accepted(e)' = K \union R
    BY DEF Accepted
  <2> HIDE DEF H, K, Q, R
  <2> QED BY <2>1, <2>2, <2>3
<1>10. \A f \in Ends \ {e} : Accepted(f)' = Accepted(f)
  BY <1>2, <1>7, AcceptedStays
<1>11. WaitsOnce(r, handled'[e])
  <2>1. \A i \in DOMAIN r : r[i].kind = "Reliable" => r[i].id \in Ids(Other(e)) \ {m.id}
    <3>1. \A i \in DOMAIN r : r[i] \in Range(r)
      BY DEF Range
    <3>2. \A n \in Range(r) : n \in wire /\ n.to = e
      BY <1>2 DEF Typed, TypeOK, QueueOK
    <3> QED BY <1>5, <3>1, <3>2 DEF Typed, WireOK
  <2> HIDE DEF r
  <2> QED BY <1>5, <1>8, <2>1 DEF WaitsOnce
<1>12. HandledOK'
  <2>1. \A f \in Ends \ {e} : WaitsOnce(messageQueue'[f], handled'[f])
    BY <1>2, <1>7 DEF Recorded, HandledOK
  <2>2. \A id \in DOMAIN handled'[e] : handled'[e][id] <= 1
    BY <1>7, <1>8 DEF Recorded, HandledOK, AtMostOnce
  <2>3. \A f \in Ends \ {e} : \A id \in DOMAIN handled'[f] : handled'[f][id] <= 1
    BY <1>7 DEF Recorded, HandledOK, AtMostOnce
  <2> QED BY <1>11, <2>1, <2>2, <2>3 DEF HandledOK, AtMostOnce
<1>13. SeenOK' /\ AcksAreTruthful'
  <2>1. \A f \in Ends : Accepted(f)' = Accepted(f)
    BY <1>9, <1>10
  <2>2. wire' = wire \union {Data(e, id) : id \in {}} /\ {} \in SUBSET Nat /\ UNCHANGED recvVars
    BY <1>1
  <2> QED BY <2>1, <2>2, RecordsStay DEF Recorded
<1>14. m.id \in Accepted(e)
  BY <1>1 DEF Accepted
<1> QED BY <1>1, <1>2, <1>3, <1>5, <1>6, <1>9, <1>10, <1>12, <1>13, <1>14 DEF Recorded

\* No step breaks the record of what was taken in.
LEMMA RecordedStep ==
  ASSUME NoWrap, Typed, Recorded, [Next]_vars
  PROVE  Recorded'
<1>1. ASSUME NEW e \in Ends, NEW ids \in SUBSET Nat, UNCHANGED <<messageQueue, handled, recvVars>>,
             wire' = wire \union {Data(Other(e), id) : id \in ids}
      PROVE  Recorded'
  <2>1. \A f \in Ends : Accepted(f)' = Accepted(f)
    BY <1>1, AcceptedStays
  <2>2. SeenOK' /\ AcksAreTruthful'
    BY <1>1, <2>1, OtherEnd, RecordsStay DEF Recorded
  <2>3. HandledOK'
    BY <1>1 DEF Recorded, HandledOK, AtMostOnce
  <2> QED BY <2>2, <2>3 DEF Recorded
<1>2. ASSUME NEW e \in Ends, Send(e) PROVE Recorded'
  <2> DEFINE id == nextSequenceId[e] + 1
  <2>1. wire' = wire \union {Data(Other(e), i) : i \in {id}}
    BY <1>2 DEF Send
  <2>2. {id} \in SUBSET Nat /\ UNCHANGED <<messageQueue, handled, recvVars>>
    BY <1>2 DEF Send, Allocate, Typed, TypeOK
  <2> HIDE DEF id
  <2> QED BY <1>1, <2>1, <2>2
<1>3. ASSUME UNCHANGED <<messageQueue, handled, recvVars, wire>> PROVE Recorded'
  <2>1. PICK e : e \in Ends
    BY ReliableAssumption
  <2>2. wire' = wire \union {Data(Other(e), i) : i \in {}} /\ {} \in SUBSET Nat
    BY <1>3
  <2> QED BY <1>1, <1>3, <2>1, <2>2
<1>4. ASSUME NEW e \in Ends, NEW p \in wire, ReceiveReliable(e, p) PROVE Recorded'
  BY <1>4, ReceiveRecorded
<1>5. ASSUME NEW e \in Ends, NEW p \in wire, ReceiveAck(e, p) PROVE Recorded'
  <2>1. /\ p.kind = "Ack" /\ p.to = e /\ Enqueue(e, p)
        /\ UNCHANGED <<recvVars, wire, handled>>
    BY <1>5 DEF ReceiveAck, Polls
  <2>2. /\ messageQueue'[e] = Append(messageQueue[e], p)
        /\ Range(messageQueue'[e]) = Range(messageQueue[e]) \union {p}
        /\ \A f \in Ends \ {e} : messageQueue'[f] = messageQueue[f]
    BY <2>1, EnqueueFacts
  <2>3. Accepted(e)' = Accepted(e)
    BY <2>1, <2>2 DEF Accepted
  <2>4. \A f \in Ends \ {e} : Accepted(f)' = Accepted(f)
    BY <2>1, <2>2, AcceptedStays
  <2>5. \A f \in Ends : Accepted(f)' = Accepted(f)
    BY <2>3, <2>4
  <2>6. wire' = wire \union {Data(e, id) : id \in {}} /\ {} \in SUBSET Nat /\ UNCHANGED recvVars
    BY <2>1
  <2>7. SeenOK' /\ AcksAreTruthful'
    BY <2>5, <2>6, RecordsStay DEF Recorded
  <2>8. messageQueue[e] \in Seq(Packet) /\ p \in Packet /\ WaitsOnce(messageQueue[e], handled[e])
    BY DEF Typed, TypeOK, Recorded, HandledOK
  <2>9. WaitsOnce(messageQueue'[e], handled[e])
    BY <2>1, <2>2, <2>8, WaitsOnceAppend
  <2>10. HandledOK'
    BY <2>1, <2>2, <2>9 DEF Recorded, HandledOK, AtMostOnce
  <2> QED BY <2>7, <2>10 DEF Recorded
<1>6. ASSUME NEW e \in Ends, HandleReliable(e) PROVE Recorded'
  BY <1>6, HandleFacts
<1>7. ASSUME NEW e \in Ends, HandleAck(e) PROVE Recorded'
  BY <1>7, AckRecorded DEF HandleAck
<1>8. ASSUME NEW e \in Ends, HandleAckGivesUp(e) PROVE Recorded'
  <2>1. PICK ack \in Range(messageQueue[e]) :
          Pop(e, ack) /\ ack.kind = "Ack" /\ AckEffect(e, ack)
    BY <1>8, GivesUpFacts
  <2> QED BY <2>1, AckRecorded
<1>9. ASSUME NEW e \in Ends,
             SendGivesUp(e) \/ SendUntransmitted(e) \/ Established(e) \/ LocalDisconnect(e)
      PROVE  UNCHANGED <<messageQueue, handled, recvVars, wire>>
  BY <1>9 DEF SendGivesUp, SendUntransmitted, Established, LocalDisconnect, Allocate
<1>10. CASE UNCHANGED vars
  BY <1>3, <1>10 DEF vars
<1> QED
  BY <1>2, <1>3, <1>4, <1>5, <1>6, <1>7, <1>8, <1>9, <1>10 DEF Next, Receive, Handle

\* Nothing was taken in at first.
LEMMA RecordedInit == Init => Recorded
<1> SUFFICES ASSUME Init PROVE Recorded
  OBVIOUS
<1>1. \A e \in Ends : DOMAIN messageQueue[e] = {} /\ Range(messageQueue[e]) = {}
  BY EmptySeq DEF Init, Range
<1>2. \A e \in Ends : Accepted(e) = {}
  BY <1>1 DEF Init, Accepted
<1>3. SeenOK
  BY <1>2 DEF Init, SeenOK, SeenAt, EmptyBitfield
<1>4. HandledOK
  BY <1>1 DEF Init, HandledOK, AtMostOnce, WaitsOnce
<1>5. AcksAreTruthful
  BY DEF Init, AcksAreTruthful
<1> QED BY <1>3, <1>4, <1>5 DEF Recorded

\* The record is right throughout.
LEMMA RecordedAlways ==
  ASSUME NoWrap
  PROVE  Spec => []Recorded
<1>1. Typed /\ Recorded /\ [Next]_vars => Recorded'
  BY RecordedStep
<1> QED BY <1>1, RecordedInit, TypedAlways, PTL DEF Spec

\* No reliable message is handed to the application twice, however often the
\* network duplicates or delays its packet, if no end sends more than half the
\* ID space (shouldHandle, _handleMessages).
THEOREM HandledOnce ==
  ASSUME NoWrap
  PROVE  Spec => []AtMostOnce
<1>1. Recorded => AtMostOnce
  BY DEF Recorded, HandledOK
<1> QED BY <1>1, RecordedAlways, PTL

\* An ack names only messages its sender took in, under the same condition
\* (shouldHandle, sendAck).
THEOREM TruthfulAcks ==
  ASSUME NoWrap
  PROVE  Spec => []AcksAreTruthful
<1>1. Recorded => AcksAreTruthful
  BY DEF Recorded
<1> QED BY <1>1, RecordedAlways, PTL

-----------------------------------------------------------------------------
(* The channel implements AtMostOnceChannel.                               *)

\* A packet sent before keeps an ID that was allocated.
LEMMA LaterIds ==
  ASSUME Typed, SentOK, NEW e \in Ends, Allocate(e), NEW p \in wire, p.kind = "Reliable"
  PROVE  p.id <= nextSequenceId'[Other(p.to)]
<1>1. p.id \in Nat /\ Other(p.to) \in Ends /\ p.id <= nextSequenceId[Other(p.to)]
  BY OtherEnd DEF Typed, TypeOK, Packet, SentOK
<1>2. \A f \in Ends : /\ nextSequenceId[f] \in Nat /\ nextSequenceId'[f] \in Nat
                      /\ nextSequenceId[f] <= nextSequenceId'[f]
  BY AllocateFacts
<1> QED BY <1>1, <1>2

\* Sequence IDs are allocated before they are used.
LEMMA SentStep ==
  ASSUME Typed, SentOK, [Next]_vars
  PROVE  SentOK'
<1>1. ASSUME NEW e \in Ends, Send(e) PROVE SentOK'
  <2> DEFINE id == nextSequenceId[e] + 1
             new == Data(Other(e), id)
  <2>1. Allocate(e) /\ wire' = wire \union {new}
    BY <1>1 DEF Send
  <2>2. id \in Nat \ {0} /\ nextSequenceId[e] \in Nat /\ nextSequenceId'[e] = id
    BY <2>1, AllocateFacts
  <2>3. Other(e) \in Ends /\ new.to = Other(e) /\ new.id = id /\ Other(Other(e)) = e
    BY <2>2, OtherEnd, PacketType
  <2> HIDE DEF id, new
  <2>4. ASSUME NEW p \in wire', p.kind = "Reliable"
        PROVE  p.id <= nextSequenceId'[Other(p.to)]
    <3>1. CASE p = new
      BY <2>2, <2>3, <3>1
    <3>2. CASE p \in wire
      BY <2>1, <2>4, <3>2, LaterIds
    <3> QED BY <2>1, <2>4, <3>1, <3>2
  <2> QED BY <2>4 DEF SentOK
<1>2. ASSUME NEW e \in Ends, SendGivesUp(e) \/ SendUntransmitted(e) PROVE SentOK'
  BY <1>2, LaterIds DEF SendGivesUp, SendUntransmitted, SentOK
<1>3. ASSUME NEW e \in Ends, NEW p \in wire, ReceiveReliable(e, p) PROVE SentOK'
  <2> DEFINE w == Window(e, p.seq)
             new == Ack(Other(e), p.seq, w.last, w.bf)
  <2>1. wire' = wire \union {new} /\ UNCHANGED nextSequenceId
    BY <1>3 DEF ReceiveReliable, sendVars
  <2>2. new.kind = "Ack"
    BY DEF Ack
  <2> HIDE DEF new
  <2> QED BY <2>1, <2>2 DEF SentOK
<1>4. ASSUME NEW e \in Ends, HandleAckGivesUp(e) PROVE SentOK'
  BY <1>4, GivesUpFacts DEF AckEffect, SentOK
<1>5. CASE UNCHANGED <<nextSequenceId, wire>>
  BY <1>5 DEF SentOK
<1> QED
  BY <1>1, <1>2, <1>3, <1>4, <1>5
  DEF Next, Receive, Handle, Established, LocalDisconnect, ReceiveAck, HandleReliable, HandleAck,
      AckEffect, vars, sendVars

\* That is so throughout.
LEMMA SentAlways == Spec => []SentOK
<1>1. Init => SentOK
  BY DEF Init, SentOK
<1>2. Typed /\ SentOK /\ [Next]_vars => SentOK'
  BY SentStep
<1> QED BY <1>1, <1>2, TypedAlways, PTL DEF Spec

\* What the refinement makes of the connection, the wire and the queue: whether
\* an end takes in, the messages it transmitted, and those it took in.
Open == [e \in Ends |-> conn[e] # "NotConnected"]
SentBy == [e \in Ends |-> {id \in Ids(e) : Data(Other(e), id) \in wire}]
Taken == [e \in Ends |-> Accepted(e)]

promiseVars == <<Open, SentBy, Taken, handled>>

\* Taken is a matter of Accepted alone.
LEMMA TakenStays ==
  ASSUME \A f \in Ends : Accepted(f)' = Accepted(f)
  PROVE  UNCHANGED Taken
BY DEF Taken

\* So it is where neither queues nor counts change.
LEMMA NothingTaken ==
  ASSUME UNCHANGED <<messageQueue, handled>>
  PROVE  UNCHANGED Taken
BY AcceptedStays, TakenStays

\* Every step of the channel is one of AtMostOnceChannel, or invisible there.
LEMMA PromiseStep ==
  ASSUME NoWrap, Typed, SentOK, Recorded, [Next]_vars
  PROVE  [Promise!Next]_promiseVars
<1> DEFINE promised == [Promise!Next]_promiseVars
<1>1. ASSUME NEW e \in Ends, Send(e) PROVE promised
  <2> DEFINE id == nextSequenceId[e] + 1
             new == Data(Other(e), id)
  <2>1. /\ Allocate(e) /\ UNCHANGED <<conn, handled, messageQueue>>
        /\ wire' = wire \union {new}
    BY <1>1 DEF Send, Allocate
  <2>2. id \in Ids(e) /\ id \in Nat \ {0} /\ nextSequenceId[e] \in Nat
    BY <2>1, AllocateFacts
  <2>3. Other(e) \in Ends /\ new.to = Other(e) /\ new.id = id /\ Other(Other(e)) = e
    BY <2>2, OtherEnd, PacketType
  <2>4. new \notin wire
    BY <2>2, <2>3 DEF SentOK, Data
  <2>5. \A f \in Ends : \A i \in Ids(f) : Data(Other(f), i) = new => f = e /\ i = id
    <3>1. \A f \in Ends : \A i : Data(Other(f), i) = new => Other(f) = Other(e) /\ i = id
      BY <2>3 DEF Data
    <3> QED BY <3>1, OtherEnd
  <2>6. id \in Ids(e) \ SentBy[e] /\ SentBy' = [SentBy EXCEPT ![e] = @ \union {id}]
    <3> HIDE DEF id
    <3>1. Data(Other(e), id) = new
      BY DEF new
    <3> HIDE DEF new
    <3>2. SentBy'[e] = SentBy[e] \union {id} /\ \A f \in Ends \ {e} : SentBy'[f] = SentBy[f]
      BY <2>1, <2>2, <2>5, <3>1 DEF SentBy
    <3>3. id \notin SentBy[e]
      BY <2>4, <3>1 DEF SentBy
    <3> QED BY <2>2, <3>2, <3>3 DEF SentBy
  <2>7. UNCHANGED <<Open, Taken, handled>>
    BY <2>1, NothingTaken DEF Open
  <2>8. Promise!Transmit(e)
    BY <2>6, <2>7 DEF Promise!Transmit, Promise!Ids, Ids, SentBy, Open, Taken
  <2> QED BY <2>8 DEF Promise!Next
<1>2. ASSUME NEW e \in Ends, conn[e] # "NotConnected", conn' = [conn EXCEPT ![e] = "NotConnected"],
             UNCHANGED <<wire, handled, Taken>>
      PROVE  promised
  <2>1. Open[e] /\ Open' = [Open EXCEPT ![e] = FALSE]
    BY <1>2 DEF Open, Typed, TypeOK
  <2>2. UNCHANGED <<SentBy, Taken, handled>>
    BY <1>2 DEF SentBy
  <2>3. Promise!Close(e)
    BY <2>1, <2>2 DEF Promise!Close, Promise!Ids, Ids, SentBy, Open, Taken
  <2> QED BY <2>3 DEF Promise!Next
<1>3. ASSUME NEW e \in Ends, SendGivesUp(e) \/ LocalDisconnect(e) PROVE promised
  <2>1. /\ conn[e] # "NotConnected" /\ conn' = [conn EXCEPT ![e] = "NotConnected"]
        /\ UNCHANGED <<wire, handled, messageQueue>>
    BY <1>3 DEF SendGivesUp, LocalDisconnect, Allocate
  <2> QED BY <1>2, <2>1, NothingTaken
<1>4. ASSUME NEW e \in Ends, NEW p \in wire, ReceiveReliable(e, p) PROVE promised
  <2> DEFINE w == Window(e, p.seq)
             new == Ack(Other(e), p.seq, w.last, w.bf)
  <2>1. /\ wire' = wire \union {new} /\ UNCHANGED <<conn, handled>>
        /\ conn[e] # "NotConnected" /\ p.kind = "Reliable" /\ p.to = e
    BY <1>4 DEF ReceiveReliable, Polls, endVars
  <2>2. \A f \in Ends : \A i \in Ids(f) : Data(Other(f), i) # new
    BY DEF Ack, Data
  <2> HIDE DEF new
  <2>3. Open[e] /\ UNCHANGED <<Open, SentBy, handled>>
    BY <2>1, <2>2 DEF Open, SentBy
  <2>4. /\ p.id \in Ids(Other(e)) /\ Accepted(e)' = Accepted(e) \union {p.id}
        /\ \A f \in Ends \ {e} : Accepted(f)' = Accepted(f)
    BY <1>4, ReceiveRecorded
  <2>5. CASE p.id \in Accepted(e)
    <3>1. Accepted(e)' = Accepted(e)
      BY <2>4, <2>5
    <3>2. UNCHANGED Taken
      BY <2>4, <3>1, TakenStays
    <3> QED BY <2>3, <3>2 DEF promiseVars
  <2>6. CASE p.id \notin Accepted(e)
    <3>1. Taken' = [Taken EXCEPT ![e] = @ \union {p.id}] /\ p.id \notin Taken[e]
      BY <2>4, <2>6 DEF Taken
    <3>2. Other(e) \in Ends /\ Other(Other(e)) = e /\ p = Data(e, p.id)
      BY <2>1, OtherEnd DEF Data, Typed, TypeOK, WireOK, Packet
    <3>3. p.id \in SentBy[Other(e)]
      BY <2>4, <3>2 DEF SentBy
    <3>4. Promise!Take(e)
      BY <2>3, <3>1, <3>3 DEF Promise!Take, Promise!Ids, Ids, SentBy, Open, Taken
    <3> QED BY <3>4 DEF Promise!Next
  <2> QED BY <2>5, <2>6
<1>5. ASSUME NEW e \in Ends, HandleReliable(e) PROVE promised
  <2>1. PICK m \in wire :
          /\ handled[e][m.id] = 0 /\ m.id \in Accepted(e)
          /\ handled' = [handled EXCEPT ![e][m.id] = 1]
          /\ \A f \in Ends : Accepted(f)' = Accepted(f)
          /\ UNCHANGED <<conn, wire>>
    BY <1>5, HandleFacts
  <2>2. m.id \in Taken[e]
    BY <2>1 DEF Taken
  <2>3. UNCHANGED <<Open, SentBy, Taken>>
    BY <2>1, TakenStays DEF Open, SentBy
  <2>4. Promise!HandOver(e)
    BY <2>1, <2>2, <2>3 DEF Promise!HandOver, Promise!Ids, Ids, SentBy, Open, Taken
  <2> QED BY <2>4 DEF Promise!Next
<1>6. ASSUME UNCHANGED <<Open, SentBy, Taken, handled>> PROVE promised
  BY <1>6 DEF promiseVars
<1>7. ASSUME NEW e \in Ends, HandleAck(e) PROVE promised
  <2>1. PICK ack \in Range(messageQueue[e]) :
          Pop(e, ack) /\ ack.kind = "Ack" /\ AckEffect(e, ack) /\ UNCHANGED conn
    BY <1>7 DEF HandleAck
  <2>2. UNCHANGED Taken
    BY <2>1, AckRecorded, TakenStays
  <2>3. UNCHANGED <<Open, SentBy, handled>>
    BY <2>1 DEF AckEffect, Open, SentBy
  <2> QED BY <1>6, <2>2, <2>3
<1>8. ASSUME NEW e \in Ends, HandleAckGivesUp(e) PROVE promised
  <2>1. PICK ack \in Range(messageQueue[e]) :
          /\ Pop(e, ack) /\ ack.kind = "Ack" /\ AckEffect(e, ack)
          /\ conn[e] = "Connected" /\ conn' = [conn EXCEPT ![e] = "NotConnected"]
    BY <1>8, GivesUpFacts
  <2>2. UNCHANGED Taken
    BY <2>1, AckRecorded, TakenStays
  <2>3. UNCHANGED <<wire, handled>>
    BY <2>1 DEF AckEffect
  <2> QED BY <1>2, <2>1, <2>2, <2>3
<1>9. ASSUME NEW e \in Ends, NEW p \in wire, ReceiveAck(e, p) PROVE promised
  <2>1. /\ p.kind = "Ack" /\ p.to = e /\ Enqueue(e, p) /\ UNCHANGED <<conn, wire, handled>>
    BY <1>9 DEF ReceiveAck, Polls, endVars
  <2>2. /\ Range(messageQueue'[e]) = Range(messageQueue[e]) \union {p}
        /\ \A f \in Ends \ {e} : messageQueue'[f] = messageQueue[f]
    BY <2>1, EnqueueFacts
  <2>3. Accepted(e)' = Accepted(e) /\ \A f \in Ends \ {e} : Accepted(f)' = Accepted(f)
    BY <2>1, <2>2, AcceptedStays DEF Accepted
  <2>4. \A f \in Ends : Accepted(f)' = Accepted(f)
    BY <2>3
  <2>5. UNCHANGED <<Open, SentBy, Taken, handled>>
    BY <2>1, <2>4, TakenStays DEF Open, SentBy
  <2> QED BY <1>6, <2>5
<1>10. ASSUME NEW e \in Ends, SendUntransmitted(e) PROVE promised
  <2>1. UNCHANGED <<conn, wire, handled, messageQueue>>
    BY <1>10 DEF SendUntransmitted, Allocate
  <2> QED BY <1>6, <2>1, NothingTaken DEF Open, SentBy
<1>11. ASSUME NEW e \in Ends, Established(e) PROVE promised
  <2>1. UNCHANGED <<wire, handled, messageQueue>>
    BY <1>11 DEF Established
  <2>2. \A f \in Ends : conn'[f] # "NotConnected" <=> conn[f] # "NotConnected"
    BY <1>11 DEF Established, Typed, TypeOK
  <2> QED BY <1>6, <2>1, <2>2, NothingTaken DEF Open, SentBy
<1>12. ASSUME UNCHANGED vars PROVE promised
  <2>1. UNCHANGED <<conn, wire, handled, messageQueue>>
    BY <1>12 DEF vars, endVars
  <2> QED BY <1>6, <2>1, NothingTaken DEF Open, SentBy
<1> HIDE DEF promised
<1>13. promised
  BY <1>1, <1>3, <1>4, <1>5, <1>7, <1>8, <1>9, <1>10, <1>11, <1>12 DEF Next, Receive, Handle
<1> QED BY <1>13 DEF promised

\* The reliable mode implements what it promises, for messages up to half the
\* ID space: what the other end transmitted is handed over at most once, and
\* nothing is that arrived after this end was closed.
THEOREM PromiseKept ==
  ASSUME NoWrap
  PROVE  Spec => ImplementsPromise
<1>1. Init => Promise!Init
  <2> SUFFICES ASSUME Init PROVE Promise!Init
    OBVIOUS
  <2>1. \A e \in Ends : Range(messageQueue[e]) = {}
    BY EmptySeq DEF Init, Range
  <2>2. \A e \in Ends : Accepted(e) = {}
    BY <2>1 DEF Init, Accepted
  <2> QED BY <2>2 DEF Init, Promise!Init, Promise!Ids, Ids
<1>2. Typed /\ SentOK /\ Recorded /\ [Next]_vars => [Promise!Next]_promiseVars
  BY PromiseStep
<1> QED
  BY <1>1, <1>2, TypedAlways, SentAlways, RecordedAlways, PTL
  DEF Spec, ImplementsPromise, Promise!Spec, SentBy, Open, Taken, promiseVars
=============================================================================
