--------------------------- MODULE PendingProofs ---------------------------
(***************************************************************************)
(* Proofs about PendingMessages.  Three invariants carry them: Typed, the  *)
(* shape of the state; Counted, which ties the transmissions of a message  *)
(* to the counter of the object that carries it; Life, which says of an    *)
(* object nobody cleared that it is in no pool and pending where it was    *)
(* set up.  They are stated of any table, dicts, pool and queue, because   *)
(* trySend is called with those its callers have already changed.          *)
(***************************************************************************)
EXTENDS PendingMessages, SequenceLemmas, FiniteSetTheorems

-----------------------------------------------------------------------------
(* The order of a dict, and the pool                                       *)

\* s goes through D, from the smallest number to the largest.
Increasing(s, n, D) ==
    s \in [1 .. n -> D] /\ \A i, j \in 1 .. n : i < j => s[i] < s[j]

\* Every finite set of numbers can be written in increasing order.
LEMMA IncreasingExists ==
  ASSUME NEW D \in SUBSET Nat, IsFiniteSet(D)
  PROVE  \E s : Increasing(s, Cardinality(D), D)
<1> DEFINE Fails(E) == E \in SUBSET Nat /\ IsFiniteSet(E) /\ ~\E s : Increasing(s, Cardinality(E), E)
           Sizes == {n \in Nat : \E E \in SUBSET Nat : Fails(E) /\ Cardinality(E) = n}
<1>1. SUFFICES ASSUME Sizes # {} PROVE FALSE
  <2>1. Cardinality(D) \in Nat
    BY FS_CardinalityType
  <2>2. Sizes = {} => ~Fails(D)
    BY <2>1
  <2> QED BY <1>1, <2>2
<1>2. PICK n \in Sizes : \A k \in Sizes : n <= k
  <2> HIDE DEF Fails
  <2> QED BY <1>1, LeastElement
<1>3. PICK E \in SUBSET Nat : Fails(E) /\ Cardinality(E) = n
  OBVIOUS
<1>4. n \in Nat
  OBVIOUS
<1>5. E # {}
  <2> SUFFICES ASSUME E = {} PROVE FALSE
    OBVIOUS
  <2>1. n = 0
    BY <1>3, FS_EmptySet
  <2> DEFINE s == [i \in 1 .. n |-> 0]
  <2>2. 1 .. n = {}
    BY <2>1
  <2>3. s \in [1 .. n -> E] /\ \A i, j \in 1 .. n : i < j => s[i] < s[j]
    BY <2>2
  <2> QED BY <1>3, <2>3 DEF Increasing
<1>6. PICK m \in E : \A k \in E : m <= k
  BY <1>5, LeastElement
<1> DEFINE F == E \ {m}
<1>7. IsFiniteSet(F) /\ Cardinality(F) = n - 1 /\ Cardinality(F) \in Nat
  BY <1>3, FS_RemoveElement, FS_CardinalityType
<1>8. PICK t : Increasing(t, n - 1, F)
  <2>1. n - 1 \notin Sizes
    BY <1>2, <1>4
  <2>2. ~Fails(F)
    BY <1>7, <2>1
  <2> QED BY <1>7, <2>2
<1> DEFINE s == [i \in 1 .. n |-> IF i = 1 THEN m ELSE t[i - 1]]
<1>9. \A i \in 1 .. n : i # 1 => i - 1 \in 1 .. n - 1
  BY <1>4
<1>10. \A i \in 1 .. n - 1 : t[i] \in E /\ t[i] \in Nat /\ m < t[i]
  <2> SUFFICES ASSUME NEW i \in 1 .. n - 1 PROVE t[i] \in E /\ t[i] \in Nat /\ m < t[i]
    OBVIOUS
  <2>1. t[i] \in F
    BY <1>8 DEF Increasing
  <2>2. m \in Nat /\ t[i] \in Nat /\ m <= t[i] /\ m # t[i]
    BY <1>6, <2>1
  <2> QED BY <2>1, <2>2
<1>11. s \in [1 .. n -> E]
  BY <1>9, <1>10
<1>12. ASSUME NEW i \in 1 .. n, NEW j \in 1 .. n, i < j PROVE s[i] < s[j]
  <2>1. j # 1 /\ j - 1 \in 1 .. n - 1
    BY <1>4, <1>12
  <2>2. CASE i = 1
    BY <1>10, <2>1, <2>2
  <2>3. CASE i # 1
    <3>1. i - 1 \in 1 .. n - 1 /\ i - 1 < j - 1
      BY <1>4, <1>12, <2>3
    <3>2. t[i - 1] < t[j - 1]
      BY <1>8, <2>1, <3>1 DEF Increasing
    <3> QED BY <2>1, <2>3, <3>2
  <2> QED BY <2>2, <2>3
<1>13. Increasing(s, n, E)
  <2> HIDE DEF s
  <2> QED BY <1>11, <1>12 DEF Increasing
<1> QED BY <1>3, <1>13

\* InOrder lists the objects of a dict, each as often as the dict holds it.
LEMMA InOrderFacts ==
  ASSUME NEW S, NEW dict, DOMAIN dict \subseteq Nat, IsFiniteSet(DOMAIN dict), Range(dict) \subseteq S
  PROVE  /\ InOrder(dict) \in Seq(S) /\ Range(InOrder(dict)) = Range(dict)
         /\ IsInjective(dict) => IsInjective(InOrder(dict))
<1> DEFINE D   == DOMAIN dict
           n   == Cardinality(D)
           ids == CHOOSE s \in [1 .. n -> D] : \A i, j \in 1 .. n : i < j => s[i] < s[j]
           q   == [i \in 1 .. n |-> dict[ids[i]]]
<1>1. InOrder(dict) = q
  BY DEF InOrder
<1>2. ids \in [1 .. n -> D] /\ \A i, j \in 1 .. n : i < j => ids[i] < ids[j]
  BY IncreasingExists DEF Increasing
<1>3. n \in Nat
  BY FS_CardinalityType
<1> HIDE DEF ids
<1>4. \A i, j \in 1 .. n : ids[i] = ids[j] => i = j
  <2> SUFFICES ASSUME NEW i \in 1 .. n, NEW j \in 1 .. n, i # j PROVE ids[i] # ids[j]
    OBVIOUS
  <2>1. ids[i] \in Nat /\ ids[j] \in Nat
    BY <1>2
  <2>2. i < j \/ j < i
    BY <1>3
  <2> QED BY <1>2, <2>1, <2>2
<1>5. ids \in Injection(1 .. n, D)
  BY <1>2, <1>4 DEF Injection, IsInjective
<1>6. ids \in Surjection(1 .. n, D)
  <2>1. Cardinality(1 .. n) = n
    BY <1>3, FS_Interval
  <2> HIDE DEF n
  <2>2. Cardinality(1 .. n) = Cardinality(D)
    BY <2>1 DEF n
  <2> QED BY <1>5, <2>2, FS_Injection
<1>7. \A d \in D : \E i \in 1 .. n : ids[i] = d
  BY <1>2, <1>6 DEF Surjection
<1> HIDE DEF n
<1>8. \A i \in 1 .. n : q[i] = dict[ids[i]] /\ ids[i] \in D
  BY <1>2
<1>9. DOMAIN q = 1 .. n
  OBVIOUS
<1> HIDE DEF q
<1>10. Range(q) = Range(dict)
  BY <1>7, <1>8, <1>9 DEF Range
<1>11. q \in Seq(S)
  <2>1. \A i \in 1 .. n : q[i] \in S
    BY <1>8 DEF Range
  <2>2. q = [i \in 1 .. n |-> q[i]]
    BY <1>9 DEF q
  <2> QED BY <1>3, <2>1, <2>2, SeqDef
<1>12. IsInjective(dict) => IsInjective(q)
  BY <1>4, <1>8, <1>9 DEF IsInjective
<1> QED BY <1>1, <1>10, <1>11, <1>12

\* The pool after a release: objects that were in it or are released, no more
\* of them than its size, none of them twice if it was so before.
LEMMA ReleaseFacts ==
  ASSUME NEW S, NEW p \in Seq(S), NEW q \in Seq(S)
  PROVE  /\ ReleaseAll(p, q) \in Seq(S) /\ Len(ReleaseAll(p, q)) <= PoolSize
         /\ Range(ReleaseAll(p, q)) \subseteq Range(p) \union Range(q)
         /\ IsInjective(p) /\ IsInjective(q) /\ Range(p) \intersect Range(q) = {}
               => IsInjective(ReleaseAll(p, q))
<1> DEFINE n == Len(p) + Len(q)
           m == Min({PoolSize, n})
<1>1. /\ p \o q \in Seq(S) /\ Len(p \o q) = n /\ n \in Nat
      /\ Range(p \o q) = Range(p) \union Range(q)
      /\ IsInjective(p) /\ IsInjective(q) /\ Range(p) \intersect Range(q) = {}
            => IsInjective(p \o q)
  BY SeqConcat
<1>2. m \in 0 .. n /\ m <= PoolSize
  <2>1. PoolSize \in Nat
    BY PendingAssumption
  <2>2. \E x \in {PoolSize, n} : \A y \in {PoolSize, n} : x <= y
    BY <1>1, <2>1
  <2>3. m \in {PoolSize, n} /\ \A y \in {PoolSize, n} : m <= y
    BY <2>2 DEF Min
  <2> QED BY <1>1, <2>1, <2>3
<1>3. ReleaseAll(p, q) = SubSeq(p \o q, 1, m)
  BY DEF ReleaseAll
<1> HIDE DEF n, m
<1> DEFINE u == p \o q
<1>4. u \in Seq(S) /\ m \in 0 .. Len(u)
  BY <1>1, <1>2
<1> HIDE DEF u
<1>5. /\ SubSeq(u, 1, m) \in Seq(S) /\ Len(SubSeq(u, 1, m)) = m
      /\ Range(SubSeq(u, 1, m)) \subseteq Range(u)
      /\ IsInjective(u) => IsInjective(SubSeq(u, 1, m))
  BY <1>4, SeqPrefix
<1> QED BY <1>1, <1>2, <1>3, <1>5 DEF u

\* A single object is a list.
LEMMA SeqOne ==
  ASSUME NEW S, NEW o \in S
  PROVE  <<o>> \in Seq(S) /\ Range(<<o>>) = {o} /\ IsInjective(<<o>>)
<1>1. <<o>> \in Seq(S) /\ DOMAIN <<o>> = 1 .. 1 /\ <<o>>[1] = o
  OBVIOUS
<1>2. \A i \in DOMAIN <<o>> : i = 1
  BY <1>1
<1> QED BY <1>1, <1>2 DEF Range, IsInjective

-----------------------------------------------------------------------------
(* The invariants, of any table of attributes, dicts, pool and events      *)

Open == {"Connecting", "Connected", "NotConnected"}
ResendEvents(made) == [peer : Conns, priority : Nat, message : made, id : Ids]

\* A dict maps IDs that were allocated to objects that were created, the pool
\* holds such objects and is no larger than its size, events refer to them.
TypedIn(table, dicts, free, queue, made, last) ==
    /\ last \in [Conns -> 1 .. LastId \union {1}]
    /\ DOMAIN dicts = Conns
    /\ \A c \in Conns : DOMAIN dicts[c] \subseteq 2 .. last[c] /\ Range(dicts[c]) \subseteq made
    /\ free \in Seq(made) /\ Len(free) <= PoolSize
    /\ made \subseteq Objects
    /\ table \in [Objects -> Attributes]
    /\ queue \subseteq ResendEvents(made)

\* No two objects carry the same message, and a message was not transmitted more
\* often than the object that carries it.
CountedIn(table, last, made, count) ==
    /\ \A c \in Conns : \A id \in Ids : id > last[c] => count[c][id] = 0
    /\ \A o \in made : /\ table[o].seqID \in 2 .. last[table[o].conn]
                       /\ count[table[o].conn][table[o].seqID] <= table[o].sendAttempts
    /\ \A o, p \in made :
          table[o].conn = table[p].conn /\ table[o].seqID = table[p].seqID => o = p

\* An object that was not cleared carries its first message: it is in no pool,
\* and the dict of its connection has it.  Neither such an object nor an event is
\* of a message sent before its connection was closed.
LifeIn(table, dicts, free, queue, made, last, closed) ==
    /\ \A o \in made : ~table[o].wasCleared =>
          /\ o \notin Range(free)
          /\ table[o].seqID \in DOMAIN dicts[table[o].conn]
          /\ dicts[table[o].conn][table[o].seqID] = o
          /\ table[o].seqID > closed[table[o].conn]
    /\ \A c \in Conns : closed[c] <= last[c]
    /\ \A ev \in queue : ev.id > closed[ev.peer]

\* Every object is in one place only.
ExclusiveIn(table, dicts, free) ==
    /\ IsInjective(free)
    /\ \A c \in Conns : \A id \in DOMAIN dicts[c] :
          /\ dicts[c][id] \notin Range(free)
          /\ table[dicts[c][id]].conn = c /\ table[dicts[c][id]].seqID = id

Phases ==
    /\ state \in [Conns -> Open] /\ stopped \subseteq Conns
    /\ closedAt \in [Conns -> 0 .. LastId \union {1}]
Moving == Phases /\ now \in 0 .. MaxTime
Sends == [Conns -> [Ids -> 0 .. MaxAttempts]]

Typed == Moving /\ sends \in Sends /\ TypedIn(object, pending, pool, events, created, lastId)
Counted == CountedIn(object, lastId, created, sends)
Life == LifeIn(object, pending, pool, events, created, lastId, closedAt)

PendingInv == Typed /\ Counted /\ Life

-----------------------------------------------------------------------------
(* What clearing, trying to send and sending again keep                    *)

\* Clearing objects sets their flag and leaves everything else.
LEMMA MarkFacts ==
  ASSUME NEW table \in [Objects -> Attributes], NEW X
  PROVE  /\ MarkCleared(table, X) \in [Objects -> Attributes]
         /\ \A p \in Objects :
               /\ MarkCleared(table, X)[p].conn = table[p].conn
               /\ MarkCleared(table, X)[p].seqID = table[p].seqID
               /\ MarkCleared(table, X)[p].sendAttempts = table[p].sendAttempts
               /\ ~MarkCleared(table, X)[p].wasCleared <=> (~table[p].wasCleared /\ p \notin X)
<1> SUFFICES ASSUME NEW p \in Objects
             PROVE  LET m == MarkCleared(table, X)[p] IN
                    /\ m \in Attributes /\ m.conn = table[p].conn /\ m.seqID = table[p].seqID
                    /\ m.sendAttempts = table[p].sendAttempts
                    /\ ~m.wasCleared <=> (~table[p].wasCleared /\ p \notin X)
  BY DEF MarkCleared
<1>1. table[p] \in Attributes
  OBVIOUS
<1>2. MarkCleared(table, X)[p]
        = IF p \in X THEN [table[p] EXCEPT !.wasCleared = TRUE] ELSE table[p]
  BY DEF MarkCleared
<1> QED BY <1>1, <1>2 DEF Attributes

\* The entries of a dict are finitely many, and so are the objects it lists.
LEMMA DictFacts ==
  ASSUME NEW table, NEW dicts, NEW free, NEW queue, NEW made, NEW last,
         TypedIn(table, dicts, free, queue, made, last), NEW c \in Conns
  PROVE  /\ InOrder(dicts[c]) \in Seq(made) /\ Range(InOrder(dicts[c])) = Range(dicts[c])
         /\ IsInjective(dicts[c]) => IsInjective(InOrder(dicts[c]))
<1>1. /\ DOMAIN dicts[c] \subseteq 2 .. last[c] /\ Range(dicts[c]) \subseteq made
      /\ last[c] \in Nat
  BY PendingAssumption DEF TypedIn
<1>2. IsFiniteSet(2 .. last[c]) /\ 2 .. last[c] \subseteq Nat
  BY <1>1, FS_Interval
<1>3. IsFiniteSet(DOMAIN dicts[c]) /\ DOMAIN dicts[c] \subseteq Nat
  BY <1>1, <1>2, FS_Subset
<1> QED BY <1>1, <1>3, InOrderFacts

\* The clock of a client is the time, or zero.
LEMMA ClockFacts ==
  ASSUME Moving
  PROVE  \A c : Clock(c) \in 0 .. MaxTime
BY PendingAssumption DEF Moving, Clock

\* An event is of its connection and its message.
LEMMA EventFacts ==
  ASSUME Moving, NEW c \in Conns, NEW made, NEW o \in made, NEW id \in Ids
  PROVE  /\ ResendEvent(c, o, id) \in ResendEvents(made)
         /\ ResendEvent(c, o, id).peer = c /\ ResendEvent(c, o, id).id = id
<1>1. Clock(c) + ResendDelay \in Nat
  BY ClockFacts, PendingAssumption
<1> QED BY <1>1 DEF ResendEvent, ResendEvents

\* One transmission: the counters of the object and of its message go up, the
\* event is in the queue.
LEMMA SentKeeps ==
  ASSUME Moving, sends \in Sends,
         NEW table, NEW dicts, NEW free, NEW queue, NEW made, NEW last,
         TypedIn(table, dicts, free, queue, made, last), CountedIn(table, last, made, sends),
         NEW o \in made, table[o].sendAttempts < MaxAttempts,
         TrySend(o, table, dicts, free, queue)
  PROVE  /\ sends' \in Sends /\ lifecycle' = lifecycle /\ pending' = dicts /\ pool' = free
         /\ table[o].conn \in Conns /\ table[o].seqID \in Ids
         /\ TypedIn(object', dicts, free, events', made, last)
         /\ CountedIn(object', last, made, sends')
         /\ events' = queue \union {ResendEvent(table[o].conn, o, table[o].seqID)}
         /\ \A p \in Objects :
               /\ object'[p].conn = table[p].conn /\ object'[p].seqID = table[p].seqID
               /\ object'[p].wasCleared = table[p].wasCleared
               /\ object'[p].sendAttempts >= table[p].sendAttempts
<1> DEFINE c  == table[o].conn
           id == table[o].seqID
<1>1. /\ sends' = [sends EXCEPT ![c][id] = @ + 1] /\ lifecycle' = lifecycle
      /\ object' = [table EXCEPT ![o].lastSendTime = Clock(c), ![o].sendAttempts = @ + 1]
      /\ events' = queue \union {ResendEvent(c, o, id)} /\ pool' = free /\ pending' = dicts
  BY DEF TrySend
<1>2. /\ o \in Objects /\ table \in [Objects -> Attributes] /\ table[o] \in Attributes
      /\ Clock(c) \in 0 .. MaxTime /\ c \in Conns /\ table[o].sendAttempts \in 0 .. MaxAttempts
      /\ made \subseteq Objects
  BY ClockFacts DEF TypedIn, Attributes
<1>3. /\ id \in 2 .. last[c] /\ sends[c][id] <= table[o].sendAttempts
      /\ last[c] \in 1 .. LastId \union {1}
  BY <1>2 DEF CountedIn, TypedIn
<1>4. id \in Ids
  BY <1>3, PendingAssumption DEF Ids
<1> DEFINE t == [table EXCEPT ![o].lastSendTime = Clock(c)]
<1>5. /\ t \in [Objects -> Attributes] /\ \A p \in Objects : p # o => t[p] = table[p]
      /\ t[o].conn = c /\ t[o].seqID = id /\ t[o].wasCleared = table[o].wasCleared
      /\ t[o].sendAttempts = table[o].sendAttempts
  BY <1>2 DEF Attributes
<1>6. object' = [t EXCEPT ![o].sendAttempts = @ + 1]
  BY <1>1
<1> HIDE DEF t
<1>7. /\ object' \in [Objects -> Attributes]
      /\ \A p \in Objects : p # o => object'[p] = table[p]
      /\ object'[o].conn = c /\ object'[o].seqID = id /\ object'[o].wasCleared = table[o].wasCleared
      /\ object'[o].sendAttempts = table[o].sendAttempts + 1
  <2>1. t[o] \in Attributes /\ t[o].sendAttempts + 1 \in 0 .. MaxAttempts
    BY <1>2, <1>5, PendingAssumption
  <2> DEFINE a == [t[o] EXCEPT !.sendAttempts = t[o].sendAttempts + 1]
  <2>2. /\ a \in Attributes /\ a.conn = t[o].conn /\ a.seqID = t[o].seqID
        /\ a.wasCleared = t[o].wasCleared /\ a.sendAttempts = t[o].sendAttempts + 1
    BY <2>1 DEF Attributes
  <2>3. object' = [t EXCEPT ![o] = a]
    BY <1>6
  <2> HIDE DEF a
  <2> QED BY <1>2, <1>5, <2>2, <2>3
<1>8. \A p \in Objects : table[p].sendAttempts \in 0 .. MaxAttempts
  BY <1>2 DEF Attributes
<1>9. \A p \in Objects : /\ object'[p].conn = table[p].conn /\ object'[p].seqID = table[p].seqID
                         /\ object'[p].wasCleared = table[p].wasCleared
                         /\ object'[p].sendAttempts >= table[p].sendAttempts
  BY <1>2, <1>7, <1>8
<1>10. ResendEvent(c, o, id) \in ResendEvents(made)
  BY <1>2, <1>4, EventFacts
<1>11. TypedIn(object', dicts, free, events', made, last)
  BY <1>1, <1>7, <1>10 DEF TypedIn
<1>12. sends[c][id] \in 0 .. MaxAttempts /\ sends[c] \in [Ids -> 0 .. MaxAttempts]
  BY <1>2, <1>4 DEF Sends
<1>13. sends[c][id] + 1 \in 0 .. MaxAttempts
  BY <1>2, <1>3, <1>12, PendingAssumption
<1>14. sends' \in Sends
  BY <1>1, <1>2, <1>4, <1>13 DEF Sends
<1>15. /\ sends'[c][id] = sends[c][id] + 1
       /\ \A k \in Conns : \A i \in Ids : k # c \/ i # id => sends'[k][i] = sends[k][i]
  BY <1>1, <1>2, <1>4 DEF Sends
<1>16. CountedIn(object', last, made, sends')
  <2>1. ASSUME NEW k \in Conns, NEW i \in Ids, i > last[k] PROVE sends'[k][i] = 0
    <3>1. k # c \/ i # id
      BY <1>3, <2>1 DEF Ids
    <3> QED BY <1>15, <2>1, <3>1 DEF CountedIn
  <2>2. ASSUME NEW p \in made
        PROVE  /\ object'[p].seqID \in 2 .. last[object'[p].conn]
               /\ sends'[object'[p].conn][object'[p].seqID] <= object'[p].sendAttempts
    <3>1. CASE p = o
      BY <1>2, <1>3, <1>7, <1>12, <1>15, <3>1
    <3>2. CASE p # o
      <4>1. /\ p \in Objects /\ object'[p] = table[p]
            /\ table[p].seqID \in 2 .. last[table[p].conn]
            /\ sends[table[p].conn][table[p].seqID] <= table[p].sendAttempts
        BY <1>2, <1>7, <3>2 DEF CountedIn
      <4>2. table[p].conn # c \/ table[p].seqID # id
        BY <3>2 DEF CountedIn
      <4>3. table[p].conn \in Conns
        BY <1>2, <4>1 DEF Attributes
      <4>4. table[p].seqID \in Ids
        <5>1. last[table[p].conn] \in 1 .. LastId \union {1}
          BY <4>3 DEF TypedIn
        <5> QED BY <4>1, <5>1, PendingAssumption DEF Ids
      <4> QED BY <1>15, <4>1, <4>2, <4>3, <4>4
    <3> QED BY <3>1, <3>2
  <2>3. ASSUME NEW p \in made, NEW q \in made, object'[p].conn = object'[q].conn,
               object'[p].seqID = object'[q].seqID
        PROVE  p = q
    BY <1>2, <1>9, <2>3 DEF CountedIn
  <2> QED BY <2>1, <2>2, <2>3 DEF CountedIn
<1> QED BY <1>1, <1>2, <1>4, <1>9, <1>11, <1>14, <1>16

\* What Counted says depends on the connection, ID and counter of the objects.
LEMMA CountedSame ==
  ASSUME NEW table \in [Objects -> Attributes], NEW after, NEW last, NEW made \in SUBSET Objects,
         NEW count, CountedIn(table, last, made, count),
         \A p \in Objects : /\ after[p].conn = table[p].conn /\ after[p].seqID = table[p].seqID
                            /\ after[p].sendAttempts = table[p].sendAttempts
  PROVE  CountedIn(after, last, made, count)
<1>1. \A p \in made : /\ after[p].conn = table[p].conn /\ after[p].seqID = table[p].seqID
                      /\ after[p].sendAttempts = table[p].sendAttempts
  OBVIOUS
<1> QED BY <1>1 DEF CountedIn

\* Giving up clears and releases the object, and on an established connection
\* everything that connection holds.
LEMMA GiveUpKeeps ==
  ASSUME Moving,
         NEW table, NEW dicts, NEW free, NEW queue, NEW made, NEW last,
         TypedIn(table, dicts, free, queue, made, last), CountedIn(table, last, made, sends),
         NEW o \in made, lastId' = last,
         GiveUp(table[o].conn, o, table, dicts, free, queue)
  PROVE  /\ Phases'
         /\ TypedIn(object', pending', pool', events', made, last)
         /\ CountedIn(object', last, made, sends)
         /\ \A p \in Objects : object'[p].sendAttempts = table[p].sendAttempts
         /\ LifeIn(table, dicts, free, queue, made, last, closedAt)
               => LifeIn(object', pending', pool', events', made, last, closedAt')
<1> DEFINE c == table[o].conn
<1>1. /\ o \in Objects /\ made \subseteq Objects /\ table \in [Objects -> Attributes]
      /\ table[o] \in Attributes /\ c \in Conns /\ free \in Seq(made)
  BY DEF TypedIn, Attributes
<1>2. <<o>> \in Seq(made) /\ Range(<<o>>) = {o}
  BY SeqOne
<1>3. CASE state[c] = "Connected"
  <2> DEFINE X == {o} \union Range(dicts[c])
             q == <<o>> \o InOrder(dicts[c])
  <2>1. /\ object' = MarkCleared(table, X) /\ pool' = ReleaseAll(free, q)
        /\ pending' = [dicts EXCEPT ![c] = <<>>]
        /\ state' = [state EXCEPT ![c] = "NotConnected"] /\ stopped' = stopped \union {c}
        /\ closedAt' = [closedAt EXCEPT ![c] = last[c]] /\ events' = queue \ QueueOf(c, queue)
    BY <1>3 DEF GiveUp, Closes
  <2>2. /\ object' \in [Objects -> Attributes]
        /\ \A p \in Objects :
              /\ object'[p].conn = table[p].conn /\ object'[p].seqID = table[p].seqID
              /\ object'[p].sendAttempts = table[p].sendAttempts
              /\ ~object'[p].wasCleared <=> (~table[p].wasCleared /\ p \notin X)
    <3> HIDE DEF X
    <3> QED BY <1>1, <2>1, MarkFacts
  <2>3. q \in Seq(made) /\ Range(q) = X
    <3>1. \A k \in Conns : /\ InOrder(dicts[k]) \in Seq(made)
                            /\ Range(InOrder(dicts[k])) = Range(dicts[k])
      BY DictFacts
    <3> DEFINE one  == <<o>>
               held == InOrder(dicts[c])
    <3>2. one \in Seq(made) /\ Range(one) = {o} /\ held \in Seq(made) /\ Range(held) = Range(dicts[c])
      BY <1>1, <1>2, <3>1
    <3> HIDE DEF one, held
    <3>3. one \o held \in Seq(made) /\ Range(one \o held) = Range(one) \union Range(held)
      BY <3>2, SeqConcat
    <3> QED BY <3>2, <3>3 DEF one, held
  <2>4. /\ pool' \in Seq(made) /\ Len(pool') <= PoolSize
        /\ Range(pool') \subseteq Range(free) \union X
    <3> HIDE DEF q
    <3> QED BY <1>1, <2>1, <2>3, ReleaseFacts
  <2>5. /\ DOMAIN dicts = Conns
        /\ \A k \in Conns : DOMAIN dicts[k] \subseteq 2 .. last[k] /\ Range(dicts[k]) \subseteq made
    BY DEF TypedIn
  <2>6. /\ DOMAIN pending' = Conns /\ DOMAIN pending'[c] = {} /\ Range(pending'[c]) = {}
        /\ \A k \in Conns : k # c => pending'[k] = dicts[k]
    <3>1. DOMAIN pending' = Conns /\ pending'[c] = <<>>
          /\ \A k \in Conns : k # c => pending'[k] = dicts[k]
      BY <1>1, <2>1, <2>5
    <3>2. DOMAIN << >> = {} /\ Range(<< >>) = {}
      BY DEF Range
    <3> QED BY <3>1, <3>2
  <2>7. /\ Phases' /\ closedAt'[c] = last[c] /\ \A k \in Conns : k # c => closedAt'[k] = closedAt[k]
    <3>1. last[c] \in 0 .. LastId \union {1}
      <4>1. last[c] \in 1 .. LastId \union {1}
        BY <1>1 DEF TypedIn
      <4> QED BY <4>1, PendingAssumption
    <3> QED BY <1>1, <2>1, <3>1 DEF Moving, Phases, Open
  <2>8. TypedIn(object', pending', pool', events', made, last)
    <3>1. \A k \in Conns : DOMAIN pending'[k] \subseteq 2 .. last[k] /\ Range(pending'[k]) \subseteq made
      BY <2>5, <2>6
    <3> QED BY <2>1, <2>2, <2>4, <2>6, <3>1 DEF TypedIn
  <2>9. CountedIn(object', last, made, sends)
    <3> HIDE DEF X
    <3> QED BY <1>1, <2>2, CountedSame
  <2>10. ASSUME LifeIn(table, dicts, free, queue, made, last, closedAt)
         PROVE  LifeIn(object', pending', pool', events', made, last, closedAt')
    <3>1. ASSUME NEW p \in made, ~object'[p].wasCleared
          PROVE  /\ p \notin Range(pool') /\ object'[p].seqID \in DOMAIN pending'[object'[p].conn]
                 /\ pending'[object'[p].conn][object'[p].seqID] = p
                 /\ object'[p].seqID > closedAt'[object'[p].conn]
      <4>1. /\ p \in Objects /\ p \notin X /\ ~table[p].wasCleared /\ table[p].conn \in Conns
        BY <1>1, <2>2, <3>1 DEF Attributes
      <4>2. /\ p \notin Range(free) /\ table[p].seqID \in DOMAIN dicts[table[p].conn]
            /\ dicts[table[p].conn][table[p].seqID] = p
            /\ table[p].seqID > closedAt[table[p].conn]
        BY <2>10, <4>1 DEF LifeIn
      <4>3. table[p].conn # c
        BY <4>1, <4>2 DEF Range
      <4> QED BY <2>2, <2>4, <2>6, <2>7, <4>1, <4>2, <4>3
    <3>2. ASSUME NEW k \in Conns PROVE closedAt'[k] <= last[k]
      <4>1. last[k] \in Int
        BY PendingAssumption DEF TypedIn
      <4> QED BY <2>7, <2>10, <4>1 DEF LifeIn
    <3>3. ASSUME NEW ev \in events' PROVE ev.id > closedAt'[ev.peer]
      <4>1. ev \in queue /\ ev.peer \in Conns /\ ev.peer # c
        BY <2>1 DEF QueueOf, TypedIn, ResendEvents
      <4> QED BY <2>7, <2>10, <4>1 DEF LifeIn
    <3> QED BY <3>1, <3>2, <3>3 DEF LifeIn
  <2> QED BY <2>2, <2>7, <2>8, <2>9, <2>10
<1>4. CASE state[c] # "Connected"
  <2>1. /\ object' = MarkCleared(table, {o}) /\ pool' = ReleaseAll(free, <<o>>)
        /\ pending' = dicts /\ events' = queue /\ lifecycle' = lifecycle
    BY <1>4 DEF GiveUp
  <2>2. /\ object' \in [Objects -> Attributes]
        /\ \A p \in Objects :
              /\ object'[p].conn = table[p].conn /\ object'[p].seqID = table[p].seqID
              /\ object'[p].sendAttempts = table[p].sendAttempts
              /\ ~object'[p].wasCleared <=> (~table[p].wasCleared /\ p \notin {o})
    BY <1>1, <2>1, MarkFacts
  <2>3. /\ pool' \in Seq(made) /\ Len(pool') <= PoolSize
        /\ Range(pool') \subseteq Range(free) \union {o}
    BY <1>1, <1>2, <2>1, ReleaseFacts
  <2>4. TypedIn(object', pending', pool', events', made, last)
    BY <2>1, <2>2, <2>3 DEF TypedIn
  <2>5. CountedIn(object', last, made, sends)
    BY <1>1, <2>2, CountedSame
  <2>6. ASSUME LifeIn(table, dicts, free, queue, made, last, closedAt)
        PROVE  LifeIn(object', pending', pool', events', made, last, closedAt')
    <3>1. ASSUME NEW p \in made, ~object'[p].wasCleared
          PROVE  /\ p \notin Range(pool') /\ object'[p].seqID \in DOMAIN pending'[object'[p].conn]
                 /\ pending'[object'[p].conn][object'[p].seqID] = p
                 /\ object'[p].seqID > closedAt'[object'[p].conn]
      <4>1. p \in Objects /\ p # o /\ ~table[p].wasCleared
        BY <1>1, <2>2, <3>1
      <4>2. /\ p \notin Range(free) /\ table[p].seqID \in DOMAIN dicts[table[p].conn]
            /\ dicts[table[p].conn][table[p].seqID] = p
            /\ table[p].seqID > closedAt[table[p].conn]
        BY <2>6, <4>1 DEF LifeIn
      <4> QED BY <2>1, <2>2, <2>3, <4>1, <4>2 DEF lifecycle
    <3>2. closedAt' = closedAt
      BY <2>1 DEF lifecycle
    <3> QED BY <2>1, <2>6, <3>1, <3>2 DEF LifeIn
  <2>7. Phases'
    BY <2>1 DEF Moving, Phases, lifecycle
  <2> QED BY <2>2, <2>4, <2>5, <2>6, <2>7
<1> QED BY <1>3, <1>4

\* trySend, on an object whose message is not one from before its connection was
\* closed: what it leaves, and whose counter of transmissions it changes.
LEMMA TrySendKeeps ==
  ASSUME Moving, sends \in Sends,
         NEW table, NEW dicts, NEW free, NEW queue, NEW made, NEW last,
         TypedIn(table, dicts, free, queue, made, last), CountedIn(table, last, made, sends),
         LifeIn(table, dicts, free, queue, made, last, closedAt),
         NEW o \in made, table[o].seqID > closedAt[table[o].conn], lastId' = last,
         TrySend(o, table, dicts, free, queue)
  PROVE  /\ Phases' /\ sends' \in Sends
         /\ TypedIn(object', pending', pool', events', made, last)
         /\ CountedIn(object', last, made, sends')
         /\ LifeIn(object', pending', pool', events', made, last, closedAt')
         /\ \A c \in Conns : \A id \in Ids :
               c # table[o].conn \/ id # table[o].seqID => sends'[c][id] = sends[c][id]
         /\ ~Exhausted' /\ ExclusiveIn(table, dicts, free) => ExclusiveIn(object', pending', pool')
         /\ \A p \in Objects : object'[p].sendAttempts >= table[p].sendAttempts
<1>1. /\ o \in Objects /\ made \subseteq Objects /\ table[o] \in Attributes
      /\ table \in [Objects -> Attributes] /\ table[o].conn \in Conns
      /\ \A p \in Objects : table[p].sendAttempts \in 0 .. MaxAttempts
  BY DEF TypedIn, Attributes
<1>2. CASE table[o].sendAttempts < MaxAttempts
  <2>1. /\ sends' \in Sends /\ lifecycle' = lifecycle /\ pending' = dicts /\ pool' = free
        /\ table[o].conn \in Conns /\ table[o].seqID \in Ids
        /\ TypedIn(object', dicts, free, events', made, last)
        /\ CountedIn(object', last, made, sends')
        /\ events' = queue \union {ResendEvent(table[o].conn, o, table[o].seqID)}
        /\ \A p \in Objects :
              /\ object'[p].conn = table[p].conn /\ object'[p].seqID = table[p].seqID
              /\ object'[p].wasCleared = table[p].wasCleared
              /\ object'[p].sendAttempts >= table[p].sendAttempts
    BY <1>2, SentKeeps
  <2>2. LifeIn(object', dicts, free, events', made, last, closedAt)
    <3>1. ASSUME NEW p \in made, ~object'[p].wasCleared
          PROVE  /\ p \notin Range(free) /\ object'[p].seqID \in DOMAIN dicts[object'[p].conn]
                 /\ dicts[object'[p].conn][object'[p].seqID] = p
                 /\ object'[p].seqID > closedAt[object'[p].conn]
      <4>1. p \in Objects
        BY <1>1
      <4> QED BY <2>1, <3>1, <4>1 DEF LifeIn
    <3>2. ASSUME NEW ev \in events' PROVE ev.id > closedAt[ev.peer]
      <4> DEFINE new == ResendEvent(table[o].conn, o, table[o].seqID)
      <4>1. new.peer = table[o].conn /\ new.id = table[o].seqID
        BY DEF ResendEvent
      <4>2. ev \in queue \/ ev = new
        BY <2>1
      <4> HIDE DEF new
      <4> QED BY <4>1, <4>2 DEF LifeIn
    <3> QED BY <3>1, <3>2 DEF LifeIn
  <2>3. \A c \in Conns : \A id \in Ids :
           c # table[o].conn \/ id # table[o].seqID => sends'[c][id] = sends[c][id]
    BY <1>1, <1>2 DEF TrySend, Sends
  <2>4. ASSUME ExclusiveIn(table, dicts, free) PROVE ExclusiveIn(object', dicts, free)
    <3>1. \A c \in Conns : \A id \in DOMAIN dicts[c] : dicts[c][id] \in Objects
      BY <1>1 DEF TypedIn, Range
    <3> QED BY <2>1, <2>4, <3>1 DEF ExclusiveIn
  <2>5. Phases' /\ closedAt' = closedAt
    BY <2>1 DEF Moving, Phases, lifecycle
  <2> QED BY <2>1, <2>2, <2>3, <2>4, <2>5
<1>3. CASE ~(table[o].sendAttempts < MaxAttempts)
  <2>1. GiveUp(table[o].conn, o, table, dicts, free, queue) /\ sends' = sends
    BY <1>3 DEF TrySend
  <2>2. /\ Phases'
        /\ TypedIn(object', pending', pool', events', made, last)
        /\ CountedIn(object', last, made, sends)
        /\ \A p \in Objects : object'[p].sendAttempts = table[p].sendAttempts
        /\ LifeIn(object', pending', pool', events', made, last, closedAt')
    BY <2>1, GiveUpKeeps
  <2>3. Exhausted'
    <3>1. object'[o].sendAttempts >= MaxAttempts
      BY <1>1, <1>3, <2>2, PendingAssumption
    <3> QED BY <1>1, <3>1 DEF Exhausted
  <2> QED BY <1>1, <2>1, <2>2, <2>3
<1> QED BY <1>2, <1>3

-----------------------------------------------------------------------------
(* The actions                                                             *)

\* What each step keeps: the invariants, the counters of the messages that are
\* not pending, and, until a counter is exhausted, that an object is in one
\* place only.
Kept ==
    /\ PendingInv'
    /\ \A c \in Conns : \A id \in 2 .. lastId[c] :
          id \notin DOMAIN pending[c] => sends'[c][id] = sends[c][id]
    /\ \A p \in Objects : object'[p].sendAttempts >= object[p].sendAttempts
    /\ ~Exhausted' /\ ExclusiveIn(object, pending, pool) => ExclusiveIn(object', pending', pool')

\* An acquired object is the pool's last one, which leaves it, or a new one.
LEMMA AcquireFacts ==
  ASSUME Typed, NEW o \in Acquirable
  PROVE  /\ o \in Objects
         /\ PoolAfterAcquire \in Seq(created) /\ Len(PoolAfterAcquire) <= PoolSize
         /\ Range(PoolAfterAcquire) \subseteq Range(pool)
         /\ o \in created <=> o \in Range(pool)
         /\ o \notin created => Range(PoolAfterAcquire) = {}
         /\ IsInjective(pool) => IsInjective(PoolAfterAcquire) /\ o \notin Range(PoolAfterAcquire)
<1>1. pool \in Seq(created) /\ Len(pool) <= PoolSize /\ created \subseteq Objects
  BY DEF Typed, TypedIn
<1>2. Range(pool) \subseteq created
  <2>1. DOMAIN pool = 1 .. Len(pool) /\ \A i \in 1 .. Len(pool) : pool[i] \in created
    BY <1>1, LenProperties, ElementOfSeq
  <2> QED BY <2>1 DEF Range
<1>3. CASE pool # <<>>
  <2>1. o = Last(pool) /\ PoolAfterAcquire = Front(pool)
    BY <1>3 DEF Acquirable, PoolAfterAcquire
  <2>2. /\ Front(pool) \in Seq(created) /\ Len(pool) \in Nat \ {0} /\ Len(Front(pool)) = Len(pool) - 1
        /\ Last(pool) \in created /\ Last(pool) \in Range(pool)
        /\ Range(pool) = Range(Front(pool)) \union {Last(pool)}
        /\ IsInjective(pool) => IsInjective(Front(pool)) /\ Last(pool) \notin Range(Front(pool))
    BY <1>1, <1>3, SeqFront
  <2>3. Len(Front(pool)) <= PoolSize
    BY <1>1, <2>2, PendingAssumption
  <2> QED BY <1>1, <2>1, <2>2, <2>3
<1>4. CASE pool = <<>>
  <2>1. o \in Objects \ created /\ PoolAfterAcquire = <<>>
    BY <1>4 DEF Acquirable, PoolAfterAcquire
  <2>2. Range(<<>>) = {}
    BY DEF Range
  <2> QED BY <1>1, <1>2, <1>4, <2>1, <2>2
<1> QED BY <1>3, <1>4

\* What createPending and the dict do before trySend.
TableWith(o, c, id) == [object EXCEPT ![o].conn = c, ![o].seqID = id]
DictsWith(o, c, id) ==
    [pending EXCEPT ![c] = [i \in DOMAIN @ \union {id} |-> IF i = id THEN o ELSE @[i]]]

\* createPending: the object carries the new message and is in the dict.
LEMMA SetUp ==
  ASSUME PendingInv, NEW c \in Conns, lastId[c] < LastId, NEW o \in Acquirable
  PROVE  LET id    == lastId[c] + 1
             table == TableWith(o, c, id)
             dicts == DictsWith(o, c, id)
             made  == created \union {o}
             last  == [lastId EXCEPT ![c] = id]
         IN  /\ TypedIn(table, dicts, PoolAfterAcquire, events, made, last)
             /\ CountedIn(table, last, made, sends)
             /\ LifeIn(table, dicts, PoolAfterAcquire, events, made, last, closedAt)
             /\ o \in made /\ id \in Ids /\ id > closedAt[c]
             /\ table[o].conn = c /\ table[o].seqID = id
             /\ \A p \in Objects : table[p].sendAttempts = object[p].sendAttempts
             /\ ExclusiveIn(object, pending, pool) => ExclusiveIn(table, dicts, PoolAfterAcquire)
<1> DEFINE id    == lastId[c] + 1
           table == TableWith(o, c, id)
           dicts == DictsWith(o, c, id)
           made  == created \union {o}
           last  == [lastId EXCEPT ![c] = id]
<1>0. /\ table = [object EXCEPT ![o].conn = c, ![o].seqID = id]
      /\ dicts = [pending EXCEPT ![c] =
                     [i \in DOMAIN @ \union {id} |-> IF i = id THEN o ELSE @[i]]]
      /\ made = created \union {o} /\ last = [lastId EXCEPT ![c] = id] /\ id = lastId[c] + 1
  BY DEF TableWith, DictsWith
<1> HIDE DEF id, table, dicts, made, last
<1>1. /\ TypedIn(object, pending, pool, events, created, lastId) /\ sends \in Sends
      /\ object \in [Objects -> Attributes] /\ created \subseteq Objects
      /\ lastId \in [Conns -> 1 .. LastId \union {1}]
      /\ DOMAIN pending = Conns
      /\ \A k \in Conns : DOMAIN pending[k] \subseteq 2 .. lastId[k] /\ Range(pending[k]) \subseteq created
      /\ events \subseteq ResendEvents(created)
  BY DEF PendingInv, Typed, TypedIn, ResendEvents
<1>2. /\ o \in Objects
      /\ PoolAfterAcquire \in Seq(created) /\ Len(PoolAfterAcquire) <= PoolSize
      /\ Range(PoolAfterAcquire) \subseteq Range(pool)
      /\ o \in created <=> o \in Range(pool)
      /\ o \notin created => Range(PoolAfterAcquire) = {}
      /\ IsInjective(pool) => IsInjective(PoolAfterAcquire) /\ o \notin Range(PoolAfterAcquire)
  BY AcquireFacts DEF PendingInv
<1>3. lastId[c] \in Nat /\ id \in Ids /\ id \in 2 .. id /\ id \notin 2 .. lastId[c] /\ id > lastId[c]
  <2>1. lastId[c] \in 1 .. LastId \union {1}
    BY <1>1
  <2> QED BY <1>0, <2>1, PendingAssumption DEF Ids
<1>4. /\ last \in [Conns -> 1 .. LastId \union {1}] /\ last[c] = id
      /\ \A k \in Conns : k # c => last[k] = lastId[k]
  <2>1. id \in 1 .. LastId \union {1}
    BY <1>3 DEF Ids
  <2> QED BY <1>0, <1>1, <2>1
<1>5. \A k \in Conns : lastId[k] \in Int /\ last[k] \in Int /\ lastId[k] <= last[k]
  BY <1>1, <1>3, <1>4, PendingAssumption
<1>6. /\ table \in [Objects -> Attributes]
      /\ table[o].conn = c /\ table[o].seqID = id /\ table[o].wasCleared = object[o].wasCleared
      /\ table[o].sendAttempts = object[o].sendAttempts
      /\ \A p \in Objects : p # o => table[p] = object[p]
  <2> DEFINE t == [object EXCEPT ![o].conn = c]
  <2>1. /\ t \in [Objects -> Attributes] /\ t[o].conn = c /\ t[o].wasCleared = object[o].wasCleared
        /\ t[o].sendAttempts = object[o].sendAttempts
        /\ \A p \in Objects : p # o => t[p] = object[p]
    BY <1>1, <1>2 DEF Attributes
  <2>2. table = [t EXCEPT ![o].seqID = id]
    BY <1>0
  <2> HIDE DEF t
  <2> DEFINE a == [t[o] EXCEPT !.seqID = id]
  <2>3. /\ a \in Attributes /\ a.conn = t[o].conn /\ a.seqID = id
        /\ a.wasCleared = t[o].wasCleared /\ a.sendAttempts = t[o].sendAttempts
    BY <1>2, <1>3, <2>1 DEF Attributes
  <2>4. table = [t EXCEPT ![o] = a]
    BY <2>2
  <2> HIDE DEF a
  <2> QED BY <1>2, <2>1, <2>3, <2>4
<1>7. \A p \in Objects : table[p].sendAttempts = object[p].sendAttempts
  BY <1>6
<1>8. /\ DOMAIN dicts = Conns /\ DOMAIN dicts[c] = DOMAIN pending[c] \union {id} /\ dicts[c][id] = o
      /\ \A i \in DOMAIN pending[c] : i # id /\ dicts[c][i] = pending[c][i]
      /\ \A k \in Conns : k # c => dicts[k] = pending[k]
  <2>1. dicts[c] = [i \in DOMAIN pending[c] \union {id} |-> IF i = id THEN o ELSE pending[c][i]]
    BY <1>0, <1>1
  <2>2. \A i \in DOMAIN pending[c] : i # id
    BY <1>1, <1>3
  <2>3. DOMAIN dicts = Conns /\ \A k \in Conns : k # c => dicts[k] = pending[k]
    BY <1>0, <1>1
  <2> QED BY <2>1, <2>2, <2>3
<1>9. \A k \in Conns : DOMAIN dicts[k] \subseteq 2 .. last[k] /\ Range(dicts[k]) \subseteq made
  <2> SUFFICES ASSUME NEW k \in Conns
               PROVE  DOMAIN dicts[k] \subseteq 2 .. last[k] /\ Range(dicts[k]) \subseteq made
    OBVIOUS
  <2>1. 2 .. lastId[k] \subseteq 2 .. last[k]
    BY <1>5
  <2>2. DOMAIN pending[k] \subseteq 2 .. lastId[k] /\ Range(pending[k]) \subseteq created
    BY <1>1
  <2>3. CASE k # c
    BY <1>0, <1>8, <2>1, <2>2, <2>3
  <2>4. CASE k = c
    <3>1. \A i \in DOMAIN pending[c] : pending[c][i] \in created
      BY <2>2, <2>4 DEF Range
    <3>2. \A i \in DOMAIN dicts[c] : dicts[c][i] \in made
      BY <1>0, <1>8, <3>1
    <3>3. Range(dicts[c]) \subseteq made
      BY <3>2 DEF Range
    <3> QED BY <1>3, <1>4, <1>8, <2>1, <2>2, <2>4, <3>3
  <2> QED BY <2>3, <2>4
<1>10. TypedIn(table, dicts, PoolAfterAcquire, events, made, last)
  <2>1. PoolAfterAcquire \in Seq(made)
    BY <1>0, <1>2
  <2>2. events \subseteq ResendEvents(made)
    BY <1>0, <1>1 DEF ResendEvents
  <2> QED BY <1>0, <1>1, <1>2, <1>4, <1>6, <1>8, <1>9, <2>1, <2>2 DEF TypedIn
<1>11. \A p \in created : /\ object[p].conn \in Conns
                          /\ object[p].seqID \in 2 .. lastId[object[p].conn]
                          /\ sends[object[p].conn][object[p].seqID] <= object[p].sendAttempts
  BY <1>1 DEF PendingInv, Counted, CountedIn, Attributes
<1>12. CountedIn(table, last, made, sends)
  <2>1. ASSUME NEW k \in Conns, NEW i \in Ids, i > last[k] PROVE sends[k][i] = 0
    <3>1. i > lastId[k]
      BY <1>5, <2>1 DEF Ids
    <3> QED BY <3>1 DEF PendingInv, Counted, CountedIn
  <2>2. ASSUME NEW p \in made
        PROVE  /\ table[p].seqID \in 2 .. last[table[p].conn]
               /\ sends[table[p].conn][table[p].seqID] <= table[p].sendAttempts
    <3>1. CASE p = o
      <4>1. sends[c][id] = 0
        BY <1>3 DEF PendingInv, Counted, CountedIn
      <4>2. table[o].sendAttempts \in 0 .. MaxAttempts
        BY <1>2, <1>6 DEF Attributes
      <4> QED BY <1>3, <1>4, <1>6, <3>1, <4>1, <4>2
    <3>2. CASE p # o
      <4>1. p \in created /\ table[p] = object[p]
        BY <1>0, <1>1, <1>6, <3>2
      <4>2. 2 .. lastId[object[p].conn] \subseteq 2 .. last[object[p].conn]
        BY <1>5, <1>11, <4>1
      <4> QED BY <1>11, <4>1, <4>2
    <3> QED BY <3>1, <3>2
  <2>3. ASSUME NEW p \in made, p # o PROVE ~(table[p].conn = c /\ table[p].seqID = id)
    <3>1. p \in created /\ table[p] = object[p]
      BY <1>0, <1>1, <1>6, <2>3
    <3> QED BY <1>3, <1>11, <3>1
  <2>4. ASSUME NEW p \in made, NEW q \in made,
               table[p].conn = table[q].conn, table[p].seqID = table[q].seqID
        PROVE  p = q
    <3>1. CASE p # o /\ q # o
      <4>1. p \in created /\ q \in created /\ table[p] = object[p] /\ table[q] = object[q]
        BY <1>0, <1>1, <1>6, <3>1
      <4> QED BY <2>4, <4>1 DEF PendingInv, Counted, CountedIn
    <3> QED BY <1>6, <2>3, <2>4, <3>1
  <2> QED BY <2>1, <2>2, <2>4 DEF CountedIn
<1>15. id > closedAt[c] /\ \A k \in Conns : closedAt[k] <= last[k]
  <2>1. \A k \in Conns : closedAt[k] \in Int /\ closedAt[k] <= lastId[k]
    BY PendingAssumption DEF PendingInv, Typed, Moving, Phases, Life, LifeIn
  <2> QED BY <1>3, <1>5, <2>1, PendingAssumption DEF Ids
<1>13. LifeIn(table, dicts, PoolAfterAcquire, events, made, last, closedAt)
  <2>1. ASSUME NEW p \in made, ~table[p].wasCleared
        PROVE  /\ p \notin Range(PoolAfterAcquire) /\ table[p].seqID \in DOMAIN dicts[table[p].conn]
               /\ dicts[table[p].conn][table[p].seqID] = p
               /\ table[p].seqID > closedAt[table[p].conn]
    <3>1. CASE p = o
      <4>1. o \notin created
        BY <1>2, <1>6, <2>1, <3>1 DEF PendingInv, Life, LifeIn
      <4> QED BY <1>2, <1>6, <1>8, <1>15, <3>1, <4>1
    <3>2. CASE p # o
      <4>1. p \in created /\ table[p] = object[p] /\ object[p].conn \in Conns
        BY <1>0, <1>1, <1>6, <1>11, <3>2
      <4>2. /\ p \notin Range(pool) /\ object[p].seqID \in DOMAIN pending[object[p].conn]
            /\ pending[object[p].conn][object[p].seqID] = p
            /\ object[p].seqID > closedAt[object[p].conn]
        BY <2>1, <4>1 DEF PendingInv, Life, LifeIn
      <4> QED BY <1>2, <1>8, <4>1, <4>2
    <3> QED BY <3>1, <3>2
  <2>2. \A ev \in events : ev.id > closedAt[ev.peer]
    BY DEF PendingInv, Life, LifeIn
  <2> QED BY <1>15, <2>1, <2>2 DEF LifeIn
<1>14. ASSUME ExclusiveIn(object, pending, pool)
       PROVE  ExclusiveIn(table, dicts, PoolAfterAcquire)
  <2>1. IsInjective(PoolAfterAcquire) /\ o \notin Range(PoolAfterAcquire)
    BY <1>2, <1>14 DEF ExclusiveIn
  <2>2. ASSUME NEW k \in Conns, NEW i \in DOMAIN pending[k]
        PROVE  /\ pending[k][i] # o /\ pending[k][i] \in Objects
               /\ pending[k][i] \notin Range(PoolAfterAcquire)
               /\ object[pending[k][i]].conn = k /\ object[pending[k][i]].seqID = i
    <3>1. pending[k][i] \in created
      BY <1>1 DEF Range
    <3>2. /\ pending[k][i] \notin Range(pool)
          /\ object[pending[k][i]].conn = k /\ object[pending[k][i]].seqID = i
      BY <1>14 DEF ExclusiveIn
    <3> QED BY <1>1, <1>2, <3>1, <3>2
  <2>3. ASSUME NEW k \in Conns, NEW i \in DOMAIN dicts[k]
        PROVE  /\ dicts[k][i] \notin Range(PoolAfterAcquire)
               /\ table[dicts[k][i]].conn = k /\ table[dicts[k][i]].seqID = i
    <3>1. CASE k = c /\ i = id
      BY <1>6, <1>8, <2>1, <3>1
    <3>2. CASE ~(k = c /\ i = id)
      <4>1. i \in DOMAIN pending[k] /\ dicts[k][i] = pending[k][i]
        BY <1>8, <3>2
      <4> QED BY <1>6, <2>2, <4>1
    <3> QED BY <3>1, <3>2
  <2> QED BY <2>1, <2>3 DEF ExclusiveIn
<1> QED BY <1>3, <1>6, <1>7, <1>10, <1>12, <1>13, <1>14, <1>15 DEF id, table, dicts, made, last

\* Nothing happens to any message, and at most events are taken out.
LEMMA QuietKept ==
  ASSUME PendingInv, UNCHANGED <<state, closedAt, lastId, pending, pool, object, created, sends>>,
         events' \subseteq events, stopped' \subseteq Conns, now' \in 0 .. MaxTime
  PROVE  Kept
<1>1. Typed' /\ Counted'
  BY DEF PendingInv, Typed, TypedIn, Moving, Phases, Counted, CountedIn
<1>2. Life'
  BY DEF PendingInv, Life, LifeIn
<1>3. \A p \in Objects : object'[p].sendAttempts >= object[p].sendAttempts
  <2> SUFFICES ASSUME NEW p \in Objects PROVE object[p].sendAttempts >= object[p].sendAttempts
    OBVIOUS
  <2>1. object[p].sendAttempts \in 0 .. MaxAttempts
    BY DEF PendingInv, Typed, TypedIn, Attributes
  <2> QED BY <2>1, PendingAssumption
<1> QED BY <1>1, <1>2, <1>3 DEF Kept, PendingInv, ExclusiveIn

\* Sending a pending message again.
LEMMA RetryKept ==
  ASSUME PendingInv, NEW o \in created, NEW queue \in SUBSET events,
         RetrySend(o, queue), UNCHANGED <<now, lastId, created>>
  PROVE  Kept
<1>1. /\ TypedIn(object, pending, pool, queue, created, lastId) /\ Moving /\ sends \in Sends
      /\ CountedIn(object, lastId, created, sends)
      /\ object[o] \in Attributes /\ object[o].conn \in Conns /\ lastId' = lastId
  BY DEF PendingInv, Typed, TypedIn, Counted, Attributes
<1>2. LifeIn(object, pending, pool, queue, created, lastId, closedAt)
  BY DEF PendingInv, Life, LifeIn
<1>3. CASE object[o].wasCleared
  <2>1. events' = queue /\ UNCHANGED <<stopped, state, closedAt, pending, pool, object, sends>>
    BY <1>3 DEF RetrySend, lifecycle
  <2> QED BY <1>1, <2>1, QuietKept DEF Moving, Phases
<1> SUFFICES ASSUME ~object[o].wasCleared PROVE Kept
  BY <1>3
<1>4. /\ object[o].seqID \in DOMAIN pending[object[o].conn]
      /\ object[o].seqID > closedAt[object[o].conn]
  BY <1>2 DEF LifeIn
<1>5. CASE object[o].lastSendTime + MinInterval <= Clock(object[o].conn)
  <2>1. TrySend(o, object, pending, pool, queue)
    BY <1>5 DEF RetrySend
  <2>2. /\ Phases' /\ sends' \in Sends
        /\ TypedIn(object', pending', pool', events', created, lastId)
        /\ CountedIn(object', lastId, created, sends')
        /\ LifeIn(object', pending', pool', events', created, lastId, closedAt')
        /\ \A c \in Conns : \A id \in Ids :
              c # object[o].conn \/ id # object[o].seqID => sends'[c][id] = sends[c][id]
        /\ ~Exhausted' /\ ExclusiveIn(object, pending, pool) => ExclusiveIn(object', pending', pool')
        /\ \A p \in Objects : object'[p].sendAttempts >= object[p].sendAttempts
    BY <1>1, <1>2, <1>4, <2>1, TrySendKeeps
  <2>3. PendingInv'
    BY <1>1, <2>2 DEF PendingInv, Typed, Counted, Life, Moving
  <2>4. \A c \in Conns : \A id \in 2 .. lastId[c] :
           id \notin DOMAIN pending[c] => sends'[c][id] = sends[c][id]
    <3>1. \A c \in Conns : 2 .. lastId[c] \subseteq Ids
      <4> SUFFICES ASSUME NEW c \in Conns PROVE 2 .. lastId[c] \subseteq Ids
        OBVIOUS
      <4>1. lastId[c] \in 1 .. LastId \union {1}
        BY <1>1 DEF TypedIn
      <4> QED BY <4>1, PendingAssumption DEF Ids
    <3> QED BY <1>4, <2>2, <3>1
  <2> QED BY <2>2, <2>3, <2>4 DEF Kept
<1>6. CASE ~(object[o].lastSendTime + MinInterval <= Clock(object[o].conn))
  <2> DEFINE new == ResendEvent(object[o].conn, o, object[o].seqID)
  <2>1. /\ events' = queue \union {new}
        /\ UNCHANGED <<stopped, state, closedAt, pending, pool, object, sends>>
    BY <1>6 DEF RetrySend, lifecycle
  <2>2. new \in ResendEvents(created) /\ new.peer = object[o].conn /\ new.id = object[o].seqID
    <3>1. object[o].seqID \in Ids
      <4>1. object[o].seqID \in 2 .. lastId[object[o].conn] /\ lastId[object[o].conn] \in 1 .. LastId \union {1}
        BY <1>1 DEF CountedIn, TypedIn
      <4> QED BY <4>1, PendingAssumption DEF Ids
    <3> QED BY <1>1, <3>1, EventFacts
  <2> HIDE DEF new
  <2>3. Typed' /\ Counted'
    BY <1>1, <2>1, <2>2 DEF Typed, TypedIn, Moving, Phases, Counted, CountedIn
  <2>4. \A ev \in events' : ev.id > closedAt[ev.peer]
    BY <1>2, <1>4, <2>1, <2>2 DEF LifeIn
  <2>5. Life'
    BY <1>2, <2>1, <2>4 DEF Life, LifeIn
  <2>6. \A p \in Objects : object'[p].sendAttempts >= object[p].sendAttempts
    <3> SUFFICES ASSUME NEW p \in Objects PROVE object[p].sendAttempts >= object[p].sendAttempts
      BY <2>1
    <3>1. object[p].sendAttempts \in 0 .. MaxAttempts
      BY <1>1 DEF TypedIn, Attributes
    <3> QED BY <3>1, PendingAssumption
  <2> QED BY <2>1, <2>3, <2>5, <2>6 DEF Kept, PendingInv, ExclusiveIn
<1> QED BY <1>5, <1>6

\* Objects X are cleared and released, entries that hold them leave the dicts.
LEMMA ClearedKept ==
  ASSUME PendingInv, NEW q \in Seq(created), NEW X, Range(q) = X,
         object' = MarkCleared(object, X), pool' = ReleaseAll(pool, q),
         UNCHANGED <<now, lastId, created, sends>>,
         Phases', events' \subseteq events, DOMAIN pending' = Conns,
         \A k \in Conns : \A i \in DOMAIN pending'[k] :
            i \in DOMAIN pending[k] /\ pending'[k][i] = pending[k][i],
         \A k \in Conns : \A i \in DOMAIN pending[k] :
            i \notin DOMAIN pending'[k] => pending[k][i] \in X,
         \A k \in Conns : closedAt'[k] # closedAt[k] =>
            closedAt'[k] = lastId[k] /\ DOMAIN pending'[k] = {} /\ QueueOf(k, events') = {},
         ExclusiveIn(object, pending, pool) =>
            /\ IsInjective(q) /\ Range(pool) \intersect X = {}
            /\ \A k \in Conns : \A i \in DOMAIN pending'[k] : pending'[k][i] \notin X
  PROVE  Kept
<1>1. /\ TypedIn(object, pending, pool, events, created, lastId) /\ Moving /\ sends \in Sends
      /\ CountedIn(object, lastId, created, sends)
      /\ LifeIn(object, pending, pool, events, created, lastId, closedAt)
  BY DEF PendingInv, Typed, Counted, Life
<1>2. /\ pool \in Seq(created) /\ object \in [Objects -> Attributes] /\ created \subseteq Objects
  BY <1>1 DEF TypedIn
<1>3. /\ object' \in [Objects -> Attributes]
      /\ \A p \in Objects :
            /\ object'[p].conn = object[p].conn /\ object'[p].seqID = object[p].seqID
            /\ object'[p].sendAttempts = object[p].sendAttempts
            /\ ~object'[p].wasCleared <=> (~object[p].wasCleared /\ p \notin X)
  <2> DEFINE table == object
             after == MarkCleared(table, X)
  <2>1. table \in [Objects -> Attributes]
    BY <1>2
  <2> HIDE DEF table
  <2>2. /\ after \in [Objects -> Attributes]
        /\ \A p \in Objects :
              /\ after[p].conn = table[p].conn /\ after[p].seqID = table[p].seqID
              /\ after[p].sendAttempts = table[p].sendAttempts
              /\ ~after[p].wasCleared <=> (~table[p].wasCleared /\ p \notin X)
    BY <2>1, MarkFacts
  <2>3. object' = after
    BY DEF table
  <2> HIDE DEF after
  <2> QED BY <2>2, <2>3 DEF table
<1>4. /\ pool' \in Seq(created) /\ Len(pool') <= PoolSize
      /\ Range(pool') \subseteq Range(pool) \union X
      /\ IsInjective(pool) /\ IsInjective(q) /\ Range(pool) \intersect X = {} => IsInjective(pool')
  BY <1>2, ReleaseFacts
<1>5. TypedIn(object', pending', pool', events', created, lastId)
  <2>1. ASSUME NEW k \in Conns
        PROVE  DOMAIN pending'[k] \subseteq 2 .. lastId[k] /\ Range(pending'[k]) \subseteq created
    <3>1. DOMAIN pending[k] \subseteq 2 .. lastId[k] /\ Range(pending[k]) \subseteq created
      BY <1>1 DEF TypedIn
    <3> QED BY <3>1 DEF Range
  <2> QED BY <1>1, <1>3, <1>4, <2>1 DEF TypedIn
<1>6. CountedIn(object', lastId, created, sends)
  <2> DEFINE table == object
             after == object'
  <2>1. /\ table \in [Objects -> Attributes] /\ created \in SUBSET Objects
        /\ CountedIn(table, lastId, created, sends)
        /\ \A p \in Objects : /\ after[p].conn = table[p].conn /\ after[p].seqID = table[p].seqID
                               /\ after[p].sendAttempts = table[p].sendAttempts
    BY <1>1, <1>2, <1>3
  <2> HIDE DEF table, after
  <2>2. CountedIn(after, lastId, created, sends)
    BY <2>1, CountedSame
  <2> QED BY <2>2 DEF after
<1>7. LifeIn(object', pending', pool', events', created, lastId, closedAt')
  <2>1. ASSUME NEW p \in created, ~object'[p].wasCleared
        PROVE  /\ p \notin Range(pool') /\ object'[p].seqID \in DOMAIN pending'[object'[p].conn]
               /\ pending'[object'[p].conn][object'[p].seqID] = p
               /\ object'[p].seqID > closedAt'[object'[p].conn]
    <3>1. p \in Objects /\ p \notin X /\ ~object[p].wasCleared /\ object[p].conn \in Conns
      BY <1>2, <1>3, <2>1 DEF Attributes
    <3>2. /\ p \notin Range(pool) /\ object[p].seqID \in DOMAIN pending[object[p].conn]
          /\ pending[object[p].conn][object[p].seqID] = p
          /\ object[p].seqID > closedAt[object[p].conn]
      BY <1>1, <3>1 DEF LifeIn
    <3> QED BY <1>3, <1>4, <3>1, <3>2
  <2>2. \A k \in Conns : closedAt'[k] <= lastId[k]
    <3>1. \A k \in Conns : lastId[k] \in Int
      BY <1>1, PendingAssumption DEF TypedIn
    <3> QED BY <1>1, <3>1 DEF LifeIn
  <2>3. ASSUME NEW ev \in events' PROVE ev.id > closedAt'[ev.peer]
    <3>1. ev \in events /\ ev.peer \in Conns /\ ev \in QueueOf(ev.peer, events')
      BY <1>1 DEF TypedIn, ResendEvents, QueueOf
    <3>2. closedAt'[ev.peer] = closedAt[ev.peer]
      BY <3>1
    <3> QED BY <1>1, <3>1, <3>2 DEF LifeIn
  <2> QED BY <2>1, <2>2, <2>3 DEF LifeIn
<1>8. PendingInv'
  BY <1>1, <1>5, <1>6, <1>7 DEF PendingInv, Typed, Counted, Life, Moving
<1>9. \A p \in Objects : object'[p].sendAttempts >= object[p].sendAttempts
  <2> SUFFICES ASSUME NEW p \in Objects PROVE object'[p].sendAttempts >= object[p].sendAttempts
    OBVIOUS
  <2>1. object'[p].sendAttempts = object[p].sendAttempts /\ object[p].sendAttempts \in 0 .. MaxAttempts
    BY <1>2, <1>3 DEF Attributes
  <2> QED BY <2>1, PendingAssumption
<1>10. ASSUME ExclusiveIn(object, pending, pool) PROVE ExclusiveIn(object', pending', pool')
  <2>1. IsInjective(pool')
    BY <1>4, <1>10 DEF ExclusiveIn
  <2>2. ASSUME NEW k \in Conns, NEW i \in DOMAIN pending'[k]
        PROVE  /\ pending'[k][i] \notin Range(pool')
               /\ object'[pending'[k][i]].conn = k /\ object'[pending'[k][i]].seqID = i
    <3>1. i \in DOMAIN pending[k] /\ pending'[k][i] = pending[k][i] /\ pending[k][i] \notin X
      BY <1>10
    <3>2. /\ pending[k][i] \notin Range(pool)
          /\ object[pending[k][i]].conn = k /\ object[pending[k][i]].seqID = i
      BY <1>10, <3>1 DEF ExclusiveIn
    <3>3. pending[k][i] \in Objects
      BY <1>1, <3>1 DEF TypedIn, Range
    <3> QED BY <1>3, <1>4, <3>1, <3>2, <3>3
  <2> QED BY <2>1, <2>2 DEF ExclusiveIn
<1> QED BY <1>8, <1>9, <1>10 DEF Kept

\* Connection.sendMessage.
LEMMA SendMessageKept ==
  ASSUME PendingInv, NEW c \in Conns, SendMessage(c)
  PROVE  Kept
<1>1. lastId[c] < LastId /\ now' = now
  BY DEF SendMessage
<1> DEFINE N == lastId[c] + 1
<1>2. PICK o \in Acquirable :
        /\ lastId' = [lastId EXCEPT ![c] = N] /\ created' = created \union {o}
        /\ TrySend(o, TableWith(o, c, N), DictsWith(o, c, N), PoolAfterAcquire, events)
  BY DEF SendMessage, TableWith, DictsWith
<1> DEFINE T == TableWith(o, c, N)
           D == DictsWith(o, c, N)
           m == created'
           l == lastId'
<1>3. /\ TypedIn(T, D, PoolAfterAcquire, events, m, l)
      /\ CountedIn(T, l, m, sends)
      /\ LifeIn(T, D, PoolAfterAcquire, events, m, l, closedAt)
      /\ o \in m /\ T[o].conn = c /\ T[o].seqID = N /\ N \in Ids /\ N > closedAt[c]
      /\ \A p \in Objects : T[p].sendAttempts = object[p].sendAttempts
      /\ ExclusiveIn(object, pending, pool) => ExclusiveIn(T, D, PoolAfterAcquire)
  BY <1>1, <1>2, SetUp
<1>4. TrySend(o, T, D, PoolAfterAcquire, events)
  BY <1>2
<1> HIDE DEF T, D
<1>5. Moving /\ sends \in Sends
  BY DEF PendingInv, Typed
<1>6. /\ Phases' /\ sends' \in Sends
      /\ TypedIn(object', pending', pool', events', created', lastId')
      /\ CountedIn(object', lastId', created', sends')
      /\ LifeIn(object', pending', pool', events', created', lastId', closedAt')
      /\ \A k \in Conns : \A i \in Ids :
            k # T[o].conn \/ i # T[o].seqID => sends'[k][i] = sends[k][i]
      /\ ~Exhausted' /\ ExclusiveIn(T, D, PoolAfterAcquire) => ExclusiveIn(object', pending', pool')
      /\ \A p \in Objects : object'[p].sendAttempts >= T[p].sendAttempts
  <2>1. T[o].seqID > closedAt[T[o].conn] /\ lastId' = l
    BY <1>3
  <2> HIDE DEF m, l
  <2>3. /\ Phases' /\ sends' \in Sends
        /\ TypedIn(object', pending', pool', events', m, l)
        /\ CountedIn(object', l, m, sends')
        /\ LifeIn(object', pending', pool', events', m, l, closedAt')
        /\ \A k \in Conns : \A i \in Ids :
              k # T[o].conn \/ i # T[o].seqID => sends'[k][i] = sends[k][i]
        /\ ~Exhausted' /\ ExclusiveIn(T, D, PoolAfterAcquire) => ExclusiveIn(object', pending', pool')
        /\ \A p \in Objects : object'[p].sendAttempts >= T[p].sendAttempts
    BY <1>3, <1>4, <1>5, <2>1, TrySendKeeps
  <2> QED BY <2>3 DEF m, l
<1>7. PendingInv'
  BY <1>1, <1>5, <1>6 DEF PendingInv, Typed, Counted, Life, Moving
<1>8. \A k \in Conns : \A i \in 2 .. lastId[k] : sends'[k][i] = sends[k][i]
  <2> SUFFICES ASSUME NEW k \in Conns, NEW i \in 2 .. lastId[k] PROVE sends'[k][i] = sends[k][i]
    OBVIOUS
  <2>1. lastId[k] \in 1 .. LastId \union {1}
    BY DEF PendingInv, Typed, TypedIn
  <2>2. i \in Ids /\ (k = c => i # N)
    BY <2>1, PendingAssumption DEF Ids
  <2> QED BY <1>3, <1>6, <2>2
<1> QED BY <1>3, <1>6, <1>7, <1>8 DEF Kept

\* An acknowledged message leaves the dict, its object goes back.
LEMMA ClearMessageKept ==
  ASSUME PendingInv, NEW c \in Conns, NEW id \in Ids, ClearMessage(c, id)
  PROVE  Kept
<1> DEFINE x == pending[c][id]
           X == {x}
           q == <<x>>
<1>1. /\ id \in DOMAIN pending[c] /\ object' = MarkCleared(object, X) /\ pool' = ReleaseAll(pool, q)
      /\ pending' = [pending EXCEPT ![c] = [i \in DOMAIN @ \ {id} |-> @[i]]]
      /\ UNCHANGED <<now, stopped, state, closedAt, lastId, created, events, sends>>
  BY DEF ClearMessage, lifecycle
<1>2. /\ DOMAIN pending = Conns /\ x \in created /\ Phases
  BY <1>1 DEF PendingInv, Typed, TypedIn, Moving, Range
<1>3. /\ DOMAIN pending' = Conns /\ DOMAIN pending'[c] = DOMAIN pending[c] \ {id}
      /\ \A i \in DOMAIN pending'[c] : pending'[c][i] = pending[c][i]
      /\ \A k \in Conns : k # c => pending'[k] = pending[k]
  <2>1. pending'[c] = [i \in DOMAIN pending[c] \ {id} |-> pending[c][i]]
    BY <1>1, <1>2
  <2> QED BY <1>1, <1>2, <2>1
<1>4. q \in Seq(created) /\ Range(q) = X /\ IsInjective(q)
  BY <1>2, SeqOne
<1>5. \A k \in Conns : \A i \in DOMAIN pending'[k] :
         i \in DOMAIN pending[k] /\ pending'[k][i] = pending[k][i]
  BY <1>3
<1>6. \A k \in Conns : \A i \in DOMAIN pending[k] : i \notin DOMAIN pending'[k] => pending[k][i] \in X
  BY <1>3
<1>8. ASSUME ExclusiveIn(object, pending, pool)
      PROVE  /\ Range(pool) \intersect X = {}
             /\ \A k \in Conns : \A i \in DOMAIN pending'[k] : pending'[k][i] \notin X
  <2>1. x \notin Range(pool) /\ object[x].conn = c /\ object[x].seqID = id
    BY <1>1, <1>8 DEF ExclusiveIn
  <2>2. ASSUME NEW k \in Conns, NEW i \in DOMAIN pending'[k], pending'[k][i] = x PROVE FALSE
    <3>1. i \in DOMAIN pending[k] /\ pending[k][i] = x
      BY <1>5, <2>2
    <3>2. k = c /\ i = id
      BY <1>8, <2>1, <3>1 DEF ExclusiveIn
    <3> QED BY <1>3, <2>2, <3>2
  <2> QED BY <2>1, <2>2
<1> HIDE DEF X, q
<1>9. events' \subseteq events /\ Phases'
  BY <1>1, <1>2 DEF Phases
<1>10. ExclusiveIn(object, pending, pool) =>
          /\ IsInjective(q) /\ Range(pool) \intersect X = {}
          /\ \A k \in Conns : \A i \in DOMAIN pending'[k] : pending'[k][i] \notin X
  BY <1>4, <1>8
<1>11. \A k \in Conns : closedAt'[k] # closedAt[k] =>
          closedAt'[k] = lastId[k] /\ DOMAIN pending'[k] = {} /\ QueueOf(k, events') = {}
  BY <1>1
<1>12. /\ object' = MarkCleared(object, X) /\ pool' = ReleaseAll(pool, q)
       /\ UNCHANGED <<now, lastId, created, sends>> /\ DOMAIN pending' = Conns
       /\ q \in Seq(created) /\ Range(q) = X
  BY <1>1, <1>3, <1>4
<1> QED BY <1>5, <1>6, <1>9, <1>10, <1>11, <1>12, ClearedKept, Zenon

\* Disconnecting clears everything the connection holds.
LEMMA LocalDisconnectKept ==
  ASSUME PendingInv, NEW c \in Conns, LocalDisconnect(c)
  PROVE  Kept
<1> DEFINE X == Range(pending[c])
           q == InOrder(pending[c])
<1>1. /\ object' = MarkCleared(object, X) /\ pool' = ReleaseAll(pool, q)
      /\ pending' = [pending EXCEPT ![c] = <<>>] /\ state' = [state EXCEPT ![c] = "NotConnected"]
      /\ stopped' = stopped \union {c} /\ closedAt' = [closedAt EXCEPT ![c] = lastId[c]]
      /\ events' = events \ QueueOf(c, events) /\ UNCHANGED <<now, lastId, created, sends>>
  BY DEF LocalDisconnect, Closes
<1>2. /\ TypedIn(object, pending, pool, events, created, lastId)
      /\ DOMAIN pending = Conns /\ Phases /\ lastId[c] \in 1 .. LastId \union {1}
  BY DEF PendingInv, Typed, TypedIn, Moving
<1>3. /\ DOMAIN pending' = Conns /\ DOMAIN pending'[c] = {}
      /\ \A k \in Conns : k # c => pending'[k] = pending[k]
  <2>1. pending'[c] = <<>> /\ DOMAIN << >> = {}
    BY <1>1, <1>2
  <2> QED BY <1>1, <1>2, <2>1
<1>4. q \in Seq(created) /\ Range(q) = X /\ (IsInjective(pending[c]) => IsInjective(q))
  <2>1. \A k \in Conns : /\ InOrder(pending[k]) \in Seq(created)
                         /\ Range(InOrder(pending[k])) = Range(pending[k])
                         /\ IsInjective(pending[k]) => IsInjective(InOrder(pending[k]))
    BY <1>2, DictFacts
  <2> QED BY <2>1
<1>5. \A k \in Conns : \A i \in DOMAIN pending'[k] :
         i \in DOMAIN pending[k] /\ pending'[k][i] = pending[k][i]
  BY <1>3
<1>6. \A k \in Conns : \A i \in DOMAIN pending[k] : i \notin DOMAIN pending'[k] => pending[k][i] \in X
  BY <1>3 DEF Range
<1>7. ASSUME NEW k \in Conns, closedAt'[k] # closedAt[k]
      PROVE  closedAt'[k] = lastId[k] /\ DOMAIN pending'[k] = {} /\ QueueOf(k, events') = {}
  <2>1. k = c /\ closedAt'[c] = lastId[c]
    BY <1>1, <1>2, <1>7 DEF Phases
  <2> QED BY <1>1, <1>3, <2>1 DEF QueueOf
<1>8. ASSUME ExclusiveIn(object, pending, pool)
      PROVE  /\ IsInjective(q) /\ Range(pool) \intersect X = {}
             /\ \A k \in Conns : \A i \in DOMAIN pending'[k] : pending'[k][i] \notin X
  <2>1. \A k \in Conns : \A i \in DOMAIN pending[k] :
           /\ pending[k][i] \notin Range(pool)
           /\ object[pending[k][i]].conn = k /\ object[pending[k][i]].seqID = i
    BY <1>8 DEF ExclusiveIn
  <2>2. IsInjective(pending[c])
    BY <2>1 DEF IsInjective
  <2>3. Range(pool) \intersect X = {}
    BY <2>1 DEF Range
  <2>4. ASSUME NEW k \in Conns, NEW i \in DOMAIN pending'[k], pending'[k][i] \in X PROVE FALSE
    <3>1. k # c /\ i \in DOMAIN pending[k] /\ pending[k][i] \in Range(pending[c])
      BY <1>3, <2>4
    <3>2. PICK j \in DOMAIN pending[c] : pending[k][i] = pending[c][j]
      BY <3>1 DEF Range
    <3> QED BY <2>1, <3>1, <3>2
  <2> QED BY <1>4, <2>2, <2>3, <2>4
<1> HIDE DEF X, q
<1>9. events' \subseteq events /\ Phases'
  <2>1. lastId[c] \in 0 .. LastId \union {1}
    BY <1>2, PendingAssumption
  <2> QED BY <1>1, <1>2, <2>1 DEF Phases, Open
<1>10. ExclusiveIn(object, pending, pool) =>
          /\ IsInjective(q) /\ Range(pool) \intersect X = {}
          /\ \A k \in Conns : \A i \in DOMAIN pending'[k] : pending'[k][i] \notin X
  BY <1>4, <1>8
<1>11. \A k \in Conns : closedAt'[k] # closedAt[k] =>
          closedAt'[k] = lastId[k] /\ DOMAIN pending'[k] = {} /\ QueueOf(k, events') = {}
  BY <1>7
<1>12. /\ object' = MarkCleared(object, X) /\ pool' = ReleaseAll(pool, q)
       /\ UNCHANGED <<now, lastId, created, sends>> /\ DOMAIN pending' = Conns
       /\ q \in Seq(created) /\ Range(q) = X
  BY <1>1, <1>3, <1>4
<1> QED BY <1>5, <1>6, <1>9, <1>10, <1>11, <1>12, ClearedKept, Zenon

\* Every step keeps what Kept says.
LEMMA PendingStep ==
  ASSUME PendingInv, [Next]_vars
  PROVE  Kept
<1>1. now \in 0 .. MaxTime /\ MaxTime \in Nat /\ stopped \subseteq Conns
  BY PendingAssumption DEF PendingInv, Typed, Moving, Phases
<1>2. CASE Tick
  <2>1. now' \in 0 .. MaxTime /\ stopped' \subseteq Conns
    BY <1>1, <1>2 DEF Tick
  <2> QED BY <1>2, <2>1, QuietKept DEF Tick
<1>3. CASE ResendEventFires
  <2>1. PICK ev \in Due :
          /\ IF ev.priority = object[ev.message].lastSendTime
             THEN RetrySend(ev.message, events \ {ev})
             ELSE /\ events' = events \ {ev}
                  /\ UNCHANGED <<stopped, state, closedAt, pending, pool, object, sends>>
          /\ UNCHANGED <<now, lastId, created>>
    BY <1>3 DEF ResendEventFires, lifecycle
  <2>2. ev.message \in created /\ events \ {ev} \in SUBSET events
    BY DEF Due, PendingInv, Typed, TypedIn, ResendEvents
  <2>3. CASE ev.priority = object[ev.message].lastSendTime
    BY <2>1, <2>2, <2>3, RetryKept
  <2>4. CASE ev.priority # object[ev.message].lastSendTime
    BY <1>1, <2>1, <2>2, <2>4, QuietKept
  <2> QED BY <2>3, <2>4
<1>4. ASSUME NEW c \in Conns, SendMessage(c) PROVE Kept
  BY <1>4, SendMessageKept
<1>5. ASSUME NEW c \in Conns, Established(c) PROVE Kept
  <2>1. /\ state' = [state EXCEPT ![c] = "Connected"]
        /\ UNCHANGED <<now, stopped, closedAt, lastId, pending, pool, object, created, events, sends>>
    BY <1>5 DEF Established
  <2>2. state' \in [Conns -> Open]
    BY <2>1 DEF PendingInv, Typed, Moving, Phases, Open
  <2>4. Typed' /\ Counted' /\ Life'
    BY <2>1, <2>2
       DEF PendingInv, Typed, TypedIn, Moving, Phases, Counted, CountedIn, Life, LifeIn
  <2>5. \A p \in Objects : object'[p].sendAttempts >= object[p].sendAttempts
    <3> SUFFICES ASSUME NEW p \in Objects PROVE object[p].sendAttempts >= object[p].sendAttempts
      BY <2>1
    <3>1. object[p].sendAttempts \in 0 .. MaxAttempts
      BY DEF PendingInv, Typed, TypedIn, Attributes
    <3> QED BY <3>1, PendingAssumption
  <2> QED BY <2>1, <2>4, <2>5 DEF Kept, PendingInv, ExclusiveIn
<1>6. ASSUME NEW c \in Conns, LocalDisconnect(c) PROVE Kept
  BY <1>6, LocalDisconnectKept
<1>7. ASSUME NEW c \in Conns, NEW id \in Ids, ClearMessage(c, id) PROVE Kept
  BY <1>7, ClearMessageKept
<1>8. ASSUME NEW c \in Conns, NEW id \in Ids, ResendMessage(c, id) PROVE Kept
  <2>1. /\ id \in DOMAIN pending[c] /\ RetrySend(pending[c][id], events)
        /\ UNCHANGED <<now, lastId, created>>
    BY <1>8 DEF ResendMessage
  <2>2. pending[c][id] \in created
    BY <2>1 DEF PendingInv, Typed, TypedIn, Range
  <2> QED BY <2>1, <2>2, RetryKept
<1>9. ASSUME NEW c \in Conns, UpdateStarts(c) PROVE Kept
  BY <1>1, <1>9, QuietKept DEF UpdateStarts
<1>10. CASE UNCHANGED vars
  BY <1>1, <1>10, QuietKept DEF vars, lifecycle
<1> QED BY <1>2, <1>3, <1>4, <1>5, <1>6, <1>7, <1>8, <1>9, <1>10 DEF Next

\* The invariants hold at the start.
LEMMA PendingInit ==
  ASSUME Init
  PROVE  PendingInv /\ Exclusive
<1>1. DOMAIN << >> = {} /\ Range(<<>>) = {} /\ <<>> \in Seq({}) /\ Len(<<>>) = 0
  BY DEF Range
<1>2. (CHOOSE c \in Conns : TRUE) \in Conns
  BY PendingAssumption
<1>3. NewObject \in Attributes
  BY <1>2, PendingAssumption DEF NewObject, Attributes
<1>4. TypedIn(object, pending, pool, events, created, lastId)
  BY <1>1, <1>3, PendingAssumption DEF Init, TypedIn
<1>5. Moving /\ sends \in Sends
  BY PendingAssumption DEF Init, Moving, Phases, Open, Sends
<1>6. Counted
  BY DEF Init, Counted, CountedIn
<1>7. Life
  BY PendingAssumption DEF Init, Life, LifeIn
<1>8. Exclusive
  BY <1>1 DEF Init, Exclusive
<1> QED BY <1>4, <1>5, <1>6, <1>7, <1>8 DEF PendingInv, Typed

\* The inductive invariant holds in every behaviour.
LEMMA PendingInvHolds == Spec => []PendingInv
<1>1. Init => PendingInv
  BY PendingInit
<1>2. PendingInv /\ [Next]_vars => PendingInv'
  BY PendingStep DEF Kept
<1> QED BY <1>1, <1>2, PTL DEF Spec

-----------------------------------------------------------------------------
(* The theorems                                                            *)

\* The state is well typed: IDs in a dict were allocated, the objects in dicts,
\* pool and events exist, the pool never exceeds PENDING_MESSAGE_POOL_SIZE and no
\* message is transmitted more than MAX_SEND_ATTEMPTS times.
THEOREM TypeCorrect == Spec => []TypeOK
<1>1. PendingInv => TypeOK
  <2> SUFFICES ASSUME PendingInv PROVE TypeOK
    OBVIOUS
  <2>1. TypedIn(object, pending, pool, events, created, lastId) /\ Moving /\ sends \in Sends
    BY DEF PendingInv, Typed
  <2>2. \A ev \in events : ev.peer \in Conns /\ ev.message \in created /\ ev.priority \in Nat
                           /\ ev.id \in Ids
    BY <2>1 DEF TypedIn, ResendEvents
  <2> QED BY <2>1, <2>2 DEF TypedIn, Moving, Phases, Sends, Open, TypeOK
<1> QED BY <1>1, PendingInvHolds, PTL

\* No resend, through whatever object and of whatever connection, puts an event for
\* a message from before the disconnect back into the queue that stopTime emptied:
\* the events of a closed connection are for what the application sent afterwards.
THEOREM DisconnectedQuiet == Spec => []OldMessagesRest
<1>1. PendingInv => OldMessagesRest
  BY DEF PendingInv, Life, LifeIn, OldMessagesRest, QueueOf
<1> QED BY <1>1, PendingInvHolds, PTL

\* An object that was not cleared is in no pool, and pending where createPending
\* put it: no object comes back from the pool with its flag down.  Its message is
\* not one from before its connection was closed.
THEOREM UnclearedIsPending == Spec => []Life
<1> QED BY PendingInvHolds, PTL DEF PendingInv

\* A message that was acknowledged or dropped is never transmitted again.
THEOREM ClearedSilent == Spec => NeverSentAfterCleared
<1>1. PendingInv /\ [Next]_vars =>
        [\A c \in Conns : \A id \in 2 .. lastId[c] :
            id \notin DOMAIN pending[c] => sends'[c][id] = sends[c][id]]_vars
  BY PendingStep DEF Kept
<1> QED BY <1>1, PendingInvHolds, PTL DEF Spec, NeverSentAfterCleared

\* As long as no counter reached MAX_SEND_ATTEMPTS, no object is in the pool twice,
\* or in the pool and a dict, or in two places of the dicts.
THEOREM OnePlaceUntilExhausted == Spec => []ExclusiveUntilExhausted
<1>1. Exclusive <=> ExclusiveIn(object, pending, pool)
  BY DEF Exclusive, ExclusiveIn, IsInjective
<1>2. Exclusive' <=> ExclusiveIn(object', pending', pool')
  BY DEF Exclusive, ExclusiveIn, IsInjective
<1>3. Init => ExclusiveUntilExhausted
  BY PendingInit DEF ExclusiveUntilExhausted
<1>4. PendingInv /\ ExclusiveUntilExhausted /\ [Next]_vars => ExclusiveUntilExhausted'
  <2> SUFFICES ASSUME PendingInv, ExclusiveUntilExhausted, [Next]_vars, ~Exhausted'
               PROVE  Exclusive'
    BY DEF ExclusiveUntilExhausted
  <2>1. Kept
    BY PendingStep
  <2>2. ~Exhausted
    <3> SUFFICES ASSUME NEW p \in Objects, object[p].sendAttempts >= MaxAttempts PROVE FALSE
      BY DEF Exhausted
    <3>1. object'[p].sendAttempts >= object[p].sendAttempts
      BY <2>1 DEF Kept
    <3>2. object[p].sendAttempts \in 0 .. MaxAttempts /\ object'[p].sendAttempts \in 0 .. MaxAttempts
      BY <2>1 DEF Kept, PendingInv, Typed, TypedIn, Attributes
    <3>3. object'[p].sendAttempts >= MaxAttempts
      BY <3>1, <3>2, PendingAssumption
    <3> QED BY <3>3 DEF Exhausted
  <2>3. ExclusiveIn(object, pending, pool)
    BY <1>1, <2>2 DEF ExclusiveUntilExhausted
  <2> QED BY <1>2, <2>1, <2>3 DEF Kept
<1> QED BY <1>3, <1>4, PendingInvHolds, PTL DEF Spec
=============================================================================
