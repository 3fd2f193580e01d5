----------------------------- MODULE RelayProofs -----------------------------
(***************************************************************************)
(* Proofs about Relay, for any number of clients, any size of the pool and *)
(* any number of messages, removals and clients that come later.           *)
(***************************************************************************)
EXTENDS Relay, SequenceLemmas

-----------------------------------------------------------------------------
(* Whose an object is                                                      *)

\* What objects and entries of the queue hold.
Message == [of : Int, relay : BOOLEAN]
Entry == [object : Nat, message : Nat, kind : Kinds, from : Conns]

\* The threads that have an object.
Holds(t) == call[t].at \in {"iterate", "release", "append"}

\* What a thread is doing is one of the six things it may be doing.
CallTyped(t) ==
    /\ "at" \in DOMAIN call[t]
    /\ Holds(t) \/ call[t].at \in {"idle", "dead", "acquire"}
    /\ call[t].at = "acquire" =>
         call[t].some \in BOOLEAN /\ (t = Update => call[t].what \in [kind : Kinds, from : Conns])
    /\ Holds(t) => /\ {"object", "times"} \subseteq DOMAIN call[t]
                   /\ call[t].object \in Objects

\* A sequence, of whatever.
IsSequence(s) == \E S : s \in Seq(S)

\* What the pool, the queue and the threads refer to are objects.
Types ==
    /\ received \in Nat
    /\ content \in Seq(Message) /\ pool \in Seq(Objects)
    /\ queue \in Seq(Entry) /\ \A i \in DOMAIN queue : queue[i].object \in Objects
    /\ handled \in Seq([message : Nat, got : Int]) /\ IsSequence(relayed)
    /\ DOMAIN call = Threads /\ \A t \in Threads : CallTyped(t)

\* Before a relay has gone through, an object is in the pool, in the queue or with a
\* thread, but not twice; who has it releases it once; and what is in the queue is what
\* was received.
Owned ==
    /\ IsInjective(pool)
    /\ \A i, j \in DOMAIN queue : i # j => queue[i].object # queue[j].object
    /\ \A i \in DOMAIN queue : queue[i].object \notin Range(pool)
    /\ \A t \in Threads : Holds(t) =>
         /\ call[t].object \notin Range(pool)
         /\ \A i \in DOMAIN queue : queue[i].object # call[t].object
         /\ (t = Update /\ call[t].at = "iterate") \/ call[t].times = 1
    /\ Holds(Update) /\ Holds(App) => call[Update].object # call[App].object
    /\ \A i \in DOMAIN queue : content[queue[i].object].of = queue[i].message
    /\ \A i \in DOMAIN handled : handled[i].got = handled[i].message

\* What is inductive.
PoolInv == Types /\ (relayed = <<>> => Owned)

\* A new server has no objects.
LEMMA InitOwned == ASSUME Init PROVE PoolInv
<1>1. /\ content \in Seq(Message) /\ pool \in Seq(Objects) /\ queue \in Seq(Entry)
      /\ handled \in Seq([message : Nat, got : Int])
  BY DEF Init
<1>2. IsSequence(relayed)
  BY DEF Init, IsSequence
<1>3. \A t \in Threads : call[t] = Idle /\ DOMAIN call = Threads
  BY DEF Init
<1>4. \A t \in Threads : CallTyped(t) /\ ~Holds(t)
  BY <1>3 DEF CallTyped, Holds, Idle
<1>5. DOMAIN call = Threads /\ DOMAIN queue = {} /\ DOMAIN pool = {} /\ DOMAIN handled = {}
  BY DEF Init
<1>6. received \in Nat
  BY DEF Init
<1> QED BY <1>1, <1>2, <1>4, <1>5, <1>6 DEF PoolInv, Types, Owned, Range, IsInjective, Threads

-----------------------------------------------------------------------------
(* The pool                                                                *)

\* What an operation does to the pool: it may take from it, add a new object to it, and
\* write into objects of the pool and new ones.
PoolStep ==
    /\ content' \in Seq(Message) /\ Len(content') \in Nat /\ Objects \subseteq Objects'
    /\ pool' \in Seq(Objects')
    /\ IsInjective(pool) =>
         /\ IsInjective(pool') /\ Range(pool') \cap Objects \subseteq Range(pool)
         /\ \A o \in Objects \ Range(pool) : content'[o] = content[o]

\* Leaving the pool alone is one.
LEMMA PoolKept == ASSUME Types, UNCHANGED <<pool, content>> PROVE PoolStep
<1>1. Len(content) \in Nat
  BY LenProperties DEF Types
<1>2. Objects' = Objects
  BY DEF Objects
<1> QED BY <1>1, <1>2 DEF Types, PoolStep

\* Writing into the object on top of the pool.
LEMMA WriteTop ==
  ASSUME Types, pool # <<>>, NEW message \in Message,
         content' = [content EXCEPT ![Last(pool)] = message]
  PROVE  /\ content' \in Seq(Message) /\ Len(content') \in Nat /\ Objects' = Objects
         /\ Last(pool) \in Objects /\ Last(pool) \in Range(pool)
         /\ content'[Last(pool)] = message
         /\ \A o \in Objects \ Range(pool) : content'[o] = content[o]
<1>1. Last(pool) \in Objects /\ Last(pool) \in Range(pool)
  BY SeqFront DEF Types
<1>2. content \in Seq(Message) /\ Len(content) \in Nat /\ content \in [1 .. Len(content) -> Message]
  BY LenProperties DEF Types
<1>3. content' \in [1 .. Len(content) -> Message]
  BY <1>2
<1>4. content' \in Seq(Message)
  BY <1>2, <1>3, SeqDef
<1>5. Objects = 1 .. Len(content) /\ Objects' = 1 .. Len(content)
  BY <1>2, <1>3 DEF Objects
<1>6. Len(content') \in Nat
  BY <1>4, LenProperties
<1> QED BY <1>1, <1>4, <1>5, <1>6 DEF Objects

\* A new object.
LEMMA WriteNew ==
  ASSUME Types, NEW message \in Message, content' = Append(content, message)
  PROVE  /\ content' \in Seq(Message) /\ Len(content') \in Nat /\ Len(content') = Len(content) + 1
         /\ Objects \subseteq Objects' /\ Len(content') \in Objects' /\ Len(content') \notin Objects
         /\ content'[Len(content')] = message
         /\ \A o \in Objects : content'[o] = content[o]
<1>1. content \in Seq(Message)
  BY DEF Types
<1>2. /\ content' \in Seq(Message) /\ Len(content') = Len(content) + 1 /\ Len(content) \in Nat
      /\ DOMAIN content = 1 .. Len(content) /\ DOMAIN content' = 1 .. Len(content) + 1
      /\ content'[Len(content) + 1] = message
      /\ \A i \in 1 .. Len(content) : content'[i] = content[i]
  BY <1>1, SeqAppend
<1> QED BY <1>2 DEF Objects

\* The notice about a removed client is such a step.
LEMMA NoticePool == ASSUME Types, NoticeSent PROVE PoolStep
<1>1. pool \in Seq(Objects)
  BY DEF Types
<1>2. [of |-> Notice, relay |-> FALSE] \in Message
  BY DEF Message, Notice
<1>3. CASE pool = <<>>
  <2>1. /\ content' = Append(content, [of |-> Notice, relay |-> FALSE])
        /\ pool' = Append(pool, Len(content'))
    BY <1>3 DEF NoticeSent
  <2> DEFINE new == Len(content')
  <2>2. /\ content' \in Seq(Message) /\ new \in Nat /\ Objects \subseteq Objects'
        /\ new \in Objects' /\ new \notin Objects
        /\ \A o \in Objects : content'[o] = content[o]
    BY <1>2, <2>1, WriteNew
  <2>3. pool \in Seq(Objects')
    BY <1>1, <2>2, SeqMonotonic
  <2>4. new \notin Range(pool)
    BY <1>3 DEF Range
  <2>5. pool' = Append(pool, new)
    BY <2>1
  <2> HIDE DEF new
  <2>6. /\ pool' \in Seq(Objects') /\ Range(pool') = Range(pool) \union {new}
        /\ IsInjective(pool) => IsInjective(pool')
    BY <2>2, <2>3, <2>4, <2>5, SeqAppend
  <2> QED BY <2>2, <2>6 DEF PoolStep, new
<1>4. CASE pool # <<>>
  <2>1. content' = [content EXCEPT ![Last(pool)].of = Notice] /\ pool' = pool
    BY <1>4 DEF NoticeSent
  <2>2. Last(pool) \in Objects
    BY <1>1, <1>4, SeqFront
  <2>3. content[Last(pool)] \in Message
    BY <2>2, ElementOfSeq, LenProperties DEF Types, Objects
  <2>4. PICK message \in Message : content' = [content EXCEPT ![Last(pool)] = message]
    <3>1. [content[Last(pool)] EXCEPT !.of = Notice] \in Message
      BY <2>3 DEF Message, Notice
    <3>2. content' = [content EXCEPT ![Last(pool)] = [content[Last(pool)] EXCEPT !.of = Notice]]
      BY <2>1
    <3> QED BY <3>1, <3>2
  <2>5. /\ content' \in Seq(Message) /\ Len(content') \in Nat /\ Objects' = Objects
        /\ \A o \in Objects \ Range(pool) : content'[o] = content[o]
    BY <1>4, <2>4, WriteTop
  <2> QED BY <1>1, <2>1, <2>5 DEF PoolStep
<1> QED BY <1>3, <1>4

\* acquire and writing the message: the object is no longer in the pool.
LEMMA FillPool ==
  ASSUME Types, NEW t \in Threads, call[t].at = "acquire", ~AcquireRaises(t),
         NEW message \in Message, Fill(t, message)
  PROVE  /\ PoolStep /\ Acquired(t) \in Objects' /\ Acquired(t) \in Nat
         /\ content'[Acquired(t)] = message
         /\ Acquired(t) \in Range(pool) \/ Acquired(t) \notin Objects
         /\ IsInjective(pool) => Acquired(t) \notin Range(pool')
<1>1. pool \in Seq(Objects) /\ call[t].some \in BOOLEAN
  BY DEF Types, CallTyped
<1>2. CASE call[t].some
  <2>1. /\ pool # <<>> /\ content' = [content EXCEPT ![Last(pool)] = message]
        /\ pool' = Front(pool) /\ Acquired(t) = Last(pool)
    BY <1>2 DEF AcquireRaises, Fill, Acquired
  <2>2. /\ content' \in Seq(Message) /\ Len(content') \in Nat /\ Objects' = Objects
        /\ Last(pool) \in Objects /\ Last(pool) \in Range(pool)
        /\ content'[Last(pool)] = message
        /\ \A o \in Objects \ Range(pool) : content'[o] = content[o]
    BY <2>1, WriteTop
  <2>3. /\ Front(pool) \in Seq(Objects) /\ Range(Front(pool)) \subseteq Range(pool)
        /\ IsInjective(pool) => IsInjective(Front(pool)) /\ Last(pool) \notin Range(Front(pool))
    BY <1>1, <2>1, SeqFront
  <2>4. Last(pool) \in Nat
    BY <2>2, LenProperties DEF Objects, Types
  <2> QED BY <2>1, <2>2, <2>3, <2>4 DEF PoolStep
<1>3. CASE ~call[t].some
  <2>1. /\ content' = Append(content, message) /\ pool' = pool /\ Acquired(t) = Len(content) + 1
    BY <1>3 DEF Fill, Acquired
  <2>2. /\ content' \in Seq(Message) /\ Len(content') \in Nat /\ Len(content') = Len(content) + 1
        /\ Objects \subseteq Objects' /\ Len(content') \in Objects' /\ Len(content') \notin Objects
        /\ content'[Len(content')] = message
        /\ \A o \in Objects : content'[o] = content[o]
    BY <2>1, WriteNew
  <2>3. pool \in Seq(Objects')
    BY <1>1, <2>2, SeqMonotonic
  <2>4. Range(pool) \subseteq Objects
    BY <1>1, LenProperties, ElementOfSeq DEF Range
  <2> QED BY <2>1, <2>2, <2>3, <2>4 DEF PoolStep
<1> QED BY <1>1, <1>2, <1>3

-----------------------------------------------------------------------------
(* The threads                                                             *)

\* release has decided to append.
Appends(t) == call[t].at = "append"

\* A thread that goes on with the object it has, begins to acquire one, or ends.
Keeps(t) ==
    \/ call'[t] = call[t]
    \/ "at" \in DOMAIN call'[t] /\ call'[t].at \in {"idle", "dead"}
    \/ /\ "at" \in DOMAIN call'[t] /\ call'[t].at = "acquire" /\ call'[t].some \in BOOLEAN
       /\ t = Update => call'[t].what \in [kind : Kinds, from : Conns]
    \/ /\ {"at", "object", "times"} \subseteq DOMAIN call'[t] /\ Holds(t) /\ Holds(t)'
       /\ call'[t].object = call[t].object
       /\ \/ relayed' # <<>> \/ (t = Update /\ call'[t].at = "iterate") \/ call'[t].times = 1

\* The objects of the queue are with it as long as nothing is done but such steps.
LEMMA KeptOwned ==
  ASSUME PoolInv, PoolStep, UNCHANGED <<queue, handled>>, received' \in Nat,
         IsSequence(relayed)', relayed' = <<>> => relayed = <<>>,
         DOMAIN call' = Threads, \A t \in Threads : Keeps(t)
  PROVE  PoolInv'
<1>1. \A t \in Threads : CallTyped(t)'
  BY DEF Keeps, CallTyped, Holds, PoolInv, Types, PoolStep
<1>2. Types'
  BY <1>1 DEF PoolInv, Types, PoolStep
<1>3. ASSUME relayed' = <<>> PROVE Owned'
  <2>1. Owned /\ Types
    BY <1>3 DEF PoolInv
  <2>2. /\ IsInjective(pool')
        /\ \A o \in Objects \ Range(pool) : o \notin Range(pool') /\ content'[o] = content[o]
    BY <2>1 DEF PoolStep, Owned
  <2>3. \A i \in DOMAIN queue : /\ queue[i].object \in Objects \ Range(pool)
                                /\ content[queue[i].object].of = queue[i].message
    BY <2>1 DEF Owned, Types
  <2>4. \A t \in Threads : Holds(t)' =>
          /\ Holds(t) /\ call'[t].object = call[t].object
          /\ (t = Update /\ call'[t].at = "iterate") \/ call'[t].times = 1
    BY <1>3, <2>1 DEF Keeps, Holds, Owned
  <2>5. \A t \in Threads : Holds(t) => call[t].object \in Objects \ Range(pool)
    BY <2>1 DEF Owned, Types, CallTyped
  <2>6. Update \in Threads /\ App \in Threads
    BY DEF Threads
  <2> QED BY <2>1, <2>2, <2>3, <2>4, <2>5, <2>6 DEF Owned
<1> QED BY <1>2, <1>3 DEF PoolInv

\* Most steps change what one thread is doing.
LEMMA OneCall ==
  ASSUME PoolInv, NEW t \in Threads, NEW now, call' = [call EXCEPT ![t] = now]
  PROVE  /\ DOMAIN call' = Threads /\ call'[t] = now
         /\ \A u \in Threads \ {t} : call'[u] = call[u] /\ Keeps(u)
  BY DEF PoolInv, Types, Keeps

\* Removing a client disturbs no object that is in use.
LEMMA LocalDisconnectPool ==
  ASSUME Types, NEW c, LocalDisconnect(c)
  PROVE  PoolStep
  BY NoticePool, PoolKept DEF LocalDisconnect

\* Receiving begins to acquire an object.
LEMMA PollOwned ==
  ASSUME PoolInv, NEW c \in Conns, NEW kind \in Kinds, Poll(c, kind)
  PROVE  PoolInv'
<1>1. Keeps(Update) /\ \A u \in Threads : Keeps(u)
  <2>1. /\ call'[Update] = Acquiring([kind |-> kind, from |-> c])
        /\ \A u \in Threads \ {Update} : Keeps(u)
    BY OneCall DEF Poll, Threads
  <2>2. /\ "at" \in DOMAIN call'[Update] /\ call'[Update].at = "acquire"
        /\ call'[Update].some \in BOOLEAN /\ call'[Update].what \in [kind : Kinds, from : Conns]
    BY <2>1 DEF Acquiring
  <2>3. Keeps(Update)
    BY <2>2 DEF Keeps
  <2> QED BY <2>1, <2>3
<1>2. DOMAIN call' = Threads
  BY OneCall DEF Poll, Threads
<1>3. PoolStep
  BY PoolKept DEF PoolInv, Poll
<1> QED BY <1>1, <1>2, <1>3, KeptOwned DEF Poll, history, PoolInv, Types, IsSequence

\* An exception leaves the object nowhere; release keeps it or drops it.
LEMMA CallOwned ==
  ASSUME PoolInv, NEW t \in Threads, FailsToAcquire(t) \/ TableChanged(t) \/ Release(t)
  PROVE  PoolInv'
<1>1. \A u \in Threads : Keeps(u)
  <2>1. CASE FailsToAcquire(t) \/ TableChanged(t)
    <3>1. call'[t] = Raised(t) /\ \A u \in Threads \ {t} : Keeps(u)
      BY <2>1, OneCall DEF FailsToAcquire, TableChanged
    <3> QED BY <3>1 DEF Keeps, Raised, Idle
  <2>2. CASE Release(t)
    <3> DEFINE then == IF Len(pool) < PoolSize THEN [call[t] EXCEPT !.at = "append"]
                       ELSE Released(call[t])
    <3>1. call'[t] = then /\ \A u \in Threads \ {t} : Keeps(u)
      BY <2>2, OneCall DEF Release
    <3>2. Holds(t) /\ CallTyped(t) /\ call[t].at = "release"
      BY <2>2 DEF Release, Holds, PoolInv, Types
    <3>3. relayed' = <<>> => call[t].times = 1
      BY <2>2, <3>2 DEF Release, history, PoolInv, Owned
    <3>4. Keeps(t)
      <4>1. CASE Len(pool) < PoolSize
        BY <3>1, <3>2, <3>3, <4>1 DEF Keeps, CallTyped, Holds
      <4>2. CASE ~(Len(pool) < PoolSize) /\ call[t].times = 1
        BY <3>1, <4>2 DEF Keeps, Released, Idle
      <4>3. CASE ~(Len(pool) < PoolSize) /\ call[t].times # 1
        <5>1. call'[t] = [at |-> "release", object |-> call[t].object, times |-> call[t].times - 1]
          BY <3>1, <4>3 DEF Released, Releasing
        <5> QED BY <3>2, <3>3, <4>3, <5>1 DEF Keeps, Holds
      <4> QED BY <4>1, <4>2, <4>3
    <3> QED BY <3>1, <3>4
  <2> QED BY <2>1, <2>2
<1>2. DOMAIN call' = Threads
  BY DEF FailsToAcquire, TableChanged, Release, PoolInv, Types
<1>3. PoolStep
  BY PoolKept DEF PoolInv, FailsToAcquire, TableChanged, Release
<1> QED BY <1>1, <1>2, <1>3, KeptOwned
        DEF FailsToAcquire, TableChanged, Release, history, counts, PoolInv, Types, IsSequence

\* The next client: only where the thread is in the table changes.
LEMMA SendNextCall ==
  ASSUME Types, NEW t \in Threads, SendNext(t)
  PROVE  /\ call[t].at = "iterate" /\ call'[t].at = "iterate"
         /\ {"at", "object", "times"} \subseteq DOMAIN call'[t]
         /\ call'[t].object = call[t].object /\ call'[t].times = call[t].times
         /\ \A u \in Threads \ {t} : call'[u] = call[u]
<1> DEFINE i == CHOOSE j \in Upcoming(call[t]) : \A k \in Upcoming(call[t]) : j <= k
           reached == IF id[clients[i]] = call[t].except THEN call[t].reached
                      ELSE Append(call[t].reached, clients[i])
<1>1. call' = [call EXCEPT ![t].position = i, ![t].left = @ - 1, ![t].reached = reached]
  BY DEF SendNext
<1> HIDE DEF i, reached
<1>2. call' = [call EXCEPT ![t] = [call[t] EXCEPT !.position = i, !.left = @ - 1,
                                                  !.reached = reached]]
  BY <1>1 DEF Types
<1>3. Holds(t) /\ CallTyped(t) /\ call[t].at = "iterate"
  BY DEF SendNext, Continues, Holds, Types
<1>4. call'[t] = [call[t] EXCEPT !.position = i, !.left = @ - 1, !.reached = reached]
  BY <1>2 DEF Types
<1> QED BY <1>2, <1>3, <1>4 DEF CallTyped, Types

\* A client that is skipped, reached, or given up: the thread keeps its message.
LEMMA SendNextOwned == ASSUME PoolInv, NEW t \in Threads, SendNext(t) PROVE PoolInv'
<1>1. \A u \in Threads : Keeps(u)
  <2>1. Types
    BY DEF PoolInv
  <2>2. Holds(t) /\ Holds(t)'
    BY <2>1, SendNextCall DEF Holds
  <2>3. relayed' = <<>> => t = Update \/ call[t].times = 1
    BY <2>2 DEF SendNext, history, PoolInv, Owned
  <2> QED BY <2>1, <2>2, <2>3, SendNextCall DEF Keeps
<1>2. DOMAIN call' = Threads
  BY DEF SendNext, PoolInv, Types
<1>3. PoolStep
  BY PoolKept, LocalDisconnectPool DEF PoolInv, SendNext, table
<1> QED BY <1>1, <1>2, <1>3, KeptOwned DEF SendNext, history, PoolInv, Types, IsSequence

\* Accepting a client may resize the table under an iteration of the update thread, which
\* keeps its message and its position.
LEMMA AcceptCall ==
  ASSUME Types, NEW c \in Conns, Accept(c)
  PROVE  /\ DOMAIN call' = Threads /\ call'[App] = call[App]
         /\ \/ call'[Update] = call[Update]
            \/ /\ call[Update].at = "iterate" /\ call'[Update].at = "iterate"
               /\ {"at", "object", "times"} \subseteq DOMAIN call'[Update]
               /\ call'[Update].object = call[Update].object
               /\ call'[Update].times = call[Update].times
               /\ call'[Update] = [call[Update] EXCEPT !.rebuilt = TRUE]
         /\ \A u \in Threads : Keeps(u) /\ (Appends(u)' => Appends(u))
<1>1. DOMAIN call = Threads /\ Update \in Threads /\ App \in Threads /\ App # Update
  BY DEF Types, Threads, App, Update
<1>2. CASE UNCHANGED call
  BY <1>1, <1>2 DEF Keeps, Appends
<1>3. CASE Rebuild(c)
  <2>1. call' = [call EXCEPT ![Update] =
                   IF call[Update].at = "iterate" THEN [call[Update] EXCEPT !.rebuilt = TRUE]
                   ELSE call[Update]]
    BY <1>3 DEF Rebuild
  <2>2. DOMAIN call' = Threads /\ call'[App] = call[App]
    BY <1>1, <2>1
  <2>3. CASE call[Update].at # "iterate"
    <3>1. call'[Update] = call[Update]
      BY <1>1, <2>1, <2>3
    <3> QED BY <2>2, <3>1 DEF Keeps, Appends, Threads
  <2>4. CASE call[Update].at = "iterate"
    <3>1. call'[Update] = [call[Update] EXCEPT !.rebuilt = TRUE]
      BY <1>1, <2>1, <2>4
    <3>2. Holds(Update) /\ {"at", "object", "times"} \subseteq DOMAIN call[Update]
      BY <1>1, <2>4 DEF Types, CallTyped, Holds
    <3>3. /\ {"at", "object", "times"} \subseteq DOMAIN call'[Update]
          /\ call'[Update].at = "iterate" /\ call'[Update].object = call[Update].object
          /\ call'[Update].times = call[Update].times
      BY <2>4, <3>1, <3>2
    <3>4. Keeps(Update) /\ ~Appends(Update)'
      BY <3>2, <3>3 DEF Keeps, Holds, Appends
    <3>5. Keeps(App) /\ (Appends(App)' => Appends(App))
      BY <2>2 DEF Keeps, Appends
    <3> QED BY <2>2, <2>4, <3>1, <3>3, <3>4, <3>5 DEF Threads
  <2> QED BY <2>3, <2>4
<1> QED BY <1>2, <1>3 DEF Accept

\* The application makes a message, kicks a client, or accepts one.
LEMMA ApplicationOwned ==
  ASSUME PoolInv, Create \/ \E c \in Conns : Kick(c) \/ Accept(c)
  PROVE  PoolInv'
<1>1. \A u \in Threads : Keeps(u)
  <2>1. CASE Create
    <3>1. call'[App] = Acquiring(Own) /\ \A u \in Threads \ {App} : Keeps(u)
      BY <2>1, OneCall DEF Create, Threads
    <3>2. "at" \in DOMAIN call'[App] /\ call'[App].at = "acquire" /\ call'[App].some \in BOOLEAN
      BY <3>1 DEF Acquiring
    <3>3. Keeps(App)
      BY <3>2 DEF Keeps, App, Update
    <3> QED BY <3>1, <3>3
  <2>2. CASE \E c \in Conns : Kick(c)
    BY <2>2 DEF Kick, Keeps
  <2>3. CASE \E c \in Conns : Accept(c)
    <3>1. PICK c \in Conns : Accept(c)
      BY <2>3
    <3> QED BY <3>1, AcceptCall DEF PoolInv
  <2> QED BY <2>1, <2>2, <2>3
<1>2. DOMAIN call' = Threads
  BY AcceptCall DEF Create, Kick, PoolInv, Types
<1>3. PoolStep
  BY PoolKept, LocalDisconnectPool DEF PoolInv, Create, Accept, Kick
<1> QED BY <1>1, <1>2, <1>3, KeptOwned
        DEF Create, Accept, Kick, history, counts, PoolInv, Types, IsSequence

\* An element of a longer sequence.
LEMMA SequenceAppend ==
  ASSUME NEW s, IsSequence(s), NEW e
  PROVE  IsSequence(Append(s, e)) /\ Append(s, e) # <<>>
<1>1. PICK S : s \in Seq(S)
  BY DEF IsSequence
<1> DEFINE T == S \union {e}
<1>2. e \in T /\ s \in Seq(T)
  BY <1>1, SeqMonotonic
<1> HIDE DEF T
<1>3. Append(s, e) \in Seq(T) /\ Len(Append(s, e)) = Len(s) + 1 /\ Len(s) \in Nat
  BY <1>2, SeqAppend
<1>4. Append(s, e) # <<>>
  BY <1>3, EmptySeq
<1> QED BY <1>3, <1>4 DEF IsSequence

\* After sendToAll the thread has the object still, to release it.
LEMMA SentToAllOwned == ASSUME PoolInv, NEW t \in Threads, SentToAll(t) PROVE PoolInv'
<1>1. IsSequence(relayed)' /\ (relayed' = <<>> => relayed = <<>> /\ t = App)
  <2>1. IsSequence(relayed)
    BY DEF PoolInv, Types
  <2>2. CASE t = App
    <3>1. relayed' = relayed
      BY <2>2 DEF SentToAll
    <3> QED BY <2>1, <2>2, <3>1 DEF IsSequence
  <2>3. CASE t # App
    <3>1. PICK e : relayed' = Append(relayed, e)
      BY <2>3 DEF SentToAll
    <3> QED BY <2>1, <3>1, SequenceAppend DEF IsSequence
  <2> QED BY <2>2, <2>3
<1>2. \A u \in Threads : Keeps(u)
  <2>1. call'[t] = Releasing(call[t].object, call[t].times) /\ \A u \in Threads \ {t} : Keeps(u)
    BY OneCall DEF SentToAll
  <2>2. Holds(t) /\ call[t].at = "iterate"
    BY DEF SentToAll, Holds
  <2>3. relayed' = <<>> => call[t].times = 1
    <3>1. App # Update
      BY DEF App, Update
    <3> QED BY <1>1, <2>2, <3>1 DEF PoolInv, Owned
  <2>4. Keeps(t)
    BY <2>1, <2>2, <2>3 DEF Keeps, Holds, Releasing
  <2> QED BY <2>1, <2>4
<1>3. DOMAIN call' = Threads
  BY DEF SentToAll, PoolInv, Types
<1>4. PoolStep
  BY PoolKept DEF PoolInv, SentToAll
<1> QED BY <1>1, <1>2, <1>3, <1>4, KeptOwned DEF SentToAll, counts, PoolInv, Types

\* release appends what the thread has, which it has no more unless it releases again.
LEMMA ReleaseAppendsOwned == ASSUME PoolInv, NEW t \in Threads, ReleaseAppends(t) PROVE PoolInv'
<1>1. Types /\ Holds(t) /\ CallTyped(t) /\ call[t].at = "append"
  BY DEF ReleaseAppends, Holds, PoolInv, Types
<1> DEFINE object == call[t].object
<1>2. object \in Objects /\ pool \in Seq(Objects)
  BY <1>1 DEF CallTyped, Types
<1>3. /\ pool' = Append(pool, object) /\ call'[t] = Released(call[t])
      /\ DOMAIN call' = Threads /\ \A u \in Threads \ {t} : call'[u] = call[u]
      /\ UNCHANGED <<content, queue, received, relayed, handled>>
  BY <1>1 DEF ReleaseAppends, counts, history, Types
<1> HIDE DEF object
<1>4. /\ pool' \in Seq(Objects) /\ Range(pool') = Range(pool) \union {object}
      /\ IsInjective(pool) /\ object \notin Range(pool) => IsInjective(pool')
  BY <1>2, <1>3, SeqAppend
<1>5. Objects' = Objects
  BY <1>3 DEF Objects
<1>6. \A u \in Threads : CallTyped(u)'
  <2>1. \A u \in Threads \ {t} : CallTyped(u)'
    BY <1>1, <1>3, <1>5 DEF CallTyped, Holds, Types
  <2>2. CallTyped(t)'
    BY <1>2, <1>3, <1>5 DEF CallTyped, Holds, Released, Releasing, Idle, object
  <2> QED BY <2>1, <2>2
<1>7. Types'
  BY <1>1, <1>3, <1>4, <1>5, <1>6 DEF Types, IsSequence
<1>8. ASSUME relayed' = <<>> PROVE Owned'
  <2>1. Owned
    BY <1>3, <1>8 DEF PoolInv
  <2>2. object \notin Range(pool) /\ call[t].times = 1
    BY <1>1, <2>1 DEF Owned, object
  <2>3. call'[t] = Idle
    BY <1>3, <2>2 DEF Released
  <2>4. ~Holds(t)' /\ \A u \in Threads \ {t} : (Holds(u)' <=> Holds(u)) /\ call'[u] = call[u]
    BY <1>3, <2>3 DEF Holds, Idle
  <2>5. \A u \in Threads \ {t} : Holds(u) => call[u].object # object
    BY <1>1, <2>1 DEF Owned, Threads, object
  <2>6. \A i \in DOMAIN queue : queue[i].object # object
    BY <1>1, <2>1 DEF Owned, object
  <2> QED BY <1>3, <1>4, <2>1, <2>2, <2>4, <2>5, <2>6 DEF Owned, Threads
<1> QED BY <1>7, <1>8 DEF PoolInv

\* The application writes its message into an object of its own.
LEMMA SendCreatedOwned == ASSUME PoolInv, SendCreated PROVE PoolInv'
<1> DEFINE message == [of |-> Own, relay |-> FALSE]
           object  == Acquired(App)
<1>1. message \in Message /\ App \in Threads /\ App # Update
  BY DEF Message, Own, Threads, App, Update
<1>2. Types /\ call[App].at = "acquire" /\ ~AcquireRaises(App) /\ Fill(App, message)
  BY DEF SendCreated, PoolInv
<1> HIDE DEF message
<1>3. /\ PoolStep /\ object \in Objects'
      /\ object \in Range(pool) \/ object \notin Objects
      /\ IsInjective(pool) => object \notin Range(pool')
  BY <1>1, <1>2, FillPool
<1>4. /\ DOMAIN call' = Threads /\ \A u \in Threads \ {App} : call'[u] = call[u]
      /\ call'[App] = Iterating(object, Own, Hole, -1, 1)
      /\ UNCHANGED <<queue, received, relayed, handled>>
  BY <1>1, <1>2 DEF SendCreated, counts, history, Types
<1> HIDE DEF object
<1>5. /\ {"at", "object", "times"} \subseteq DOMAIN call'[App] /\ call'[App].at = "iterate"
      /\ call'[App].object = object /\ call'[App].times = 1
  BY <1>4 DEF Iterating
<1>6. \A u \in Threads : CallTyped(u)'
  <2>1. \A u \in Threads \ {App} : CallTyped(u)'
    BY <1>2, <1>3, <1>4 DEF CallTyped, Holds, Types, PoolStep
  <2>2. CallTyped(App)'
    BY <1>3, <1>5 DEF CallTyped, Holds
  <2> QED BY <2>1, <2>2
<1>7. Types'
  BY <1>2, <1>3, <1>4, <1>6 DEF Types, PoolStep, IsSequence
<1>8. ASSUME relayed' = <<>> PROVE Owned'
  <2>1. Owned
    BY <1>4, <1>8 DEF PoolInv
  <2>2. /\ IsInjective(pool') /\ object \notin Range(pool')
        /\ \A o \in Objects \ Range(pool) :
             o \notin Range(pool') /\ content'[o] = content[o] /\ o # object
    BY <1>3, <2>1 DEF PoolStep, Owned
  <2>3. \A i \in DOMAIN queue : /\ queue[i].object \in Objects \ Range(pool)
                                /\ content[queue[i].object].of = queue[i].message
    BY <1>2, <2>1 DEF Owned, Types
  <2>4. Holds(Update) => call[Update].object \in Objects \ Range(pool)
    BY <1>2, <2>1 DEF Owned, Types, CallTyped, Threads
  <2>5. call'[Update] = call[Update] /\ (Holds(Update)' <=> Holds(Update))
    BY <1>1, <1>4 DEF Threads, Holds
  <2> QED BY <1>1, <1>4, <1>5, <2>1, <2>2, <2>3, <2>4, <2>5 DEF Owned, Threads
<1> QED BY <1>7, <1>8 DEF PoolInv

\* The update thread writes what it received into an object, which goes into the queue.
LEMMA PollQueuesOwned == ASSUME PoolInv, PollQueues PROVE PoolInv'
<1> DEFINE what    == call[Update].what
           message == [of |-> received, relay |-> what.kind = "relay"]
           object  == Acquired(Update)
           entry   == [object |-> object, message |-> received,
                       kind |-> what.kind, from |-> what.from]
<1>1. /\ Types /\ Update \in Threads /\ call[Update].at = "acquire" /\ ~AcquireRaises(Update)
      /\ Fill(Update, message)
  BY DEF PollQueues, PoolInv, Threads
<1>2. received \in Nat /\ what \in [kind : Kinds, from : Conns]
  BY <1>1 DEF Types, CallTyped
<1>3. message \in Message
  BY <1>2 DEF Message
<1> HIDE DEF message
<1>4. /\ PoolStep /\ object \in Objects' /\ object \in Nat /\ content'[object] = message
      /\ object \in Range(pool) \/ object \notin Objects
      /\ IsInjective(pool) => object \notin Range(pool')
  BY <1>1, <1>3, FillPool
<1>5. /\ DOMAIN call' = Threads /\ \A u \in Threads \ {Update} : call'[u] = call[u]
      /\ call'[Update] = Idle /\ queue' = Append(queue, entry)
      /\ UNCHANGED <<received, relayed, handled>>
  BY <1>1 DEF PollQueues, counts, history, Types
<1> HIDE DEF object
<1>6. entry \in Entry /\ entry.object = object /\ entry.message = received /\ message.of = received
  <2>1. entry.object = object /\ entry.message = received
    OBVIOUS
  <2>2. message.of = received
    BY DEF message
  <2>3. what.kind \in Kinds /\ what.from \in Conns
    BY <1>2
  <2> HIDE DEF what
  <2>4. entry \in Entry
    BY <1>2, <1>4, <2>3 DEF Entry
  <2> QED BY <2>1, <2>2, <2>4
<1> HIDE DEF entry
<1>7. /\ queue' \in Seq(Entry) /\ Len(queue) \in Nat
      /\ DOMAIN queue = 1 .. Len(queue) /\ DOMAIN queue' = 1 .. Len(queue) + 1
      /\ queue'[Len(queue) + 1] = entry
      /\ \A i \in DOMAIN queue : queue'[i] = queue[i]
  BY <1>1, <1>5, <1>6, SeqAppend DEF Types
<1>8. \A u \in Threads : CallTyped(u)'
  <2>1. \A u \in Threads \ {Update} : CallTyped(u)'
    BY <1>1, <1>4, <1>5 DEF CallTyped, Holds, Types, PoolStep
  <2>2. CallTyped(Update)'
    BY <1>5 DEF CallTyped, Holds, Idle
  <2> QED BY <2>1, <2>2
<1>9. \A i \in DOMAIN queue' : queue'[i].object \in Objects'
  <2>1. \A i \in DOMAIN queue : queue'[i].object \in Objects'
    BY <1>1, <1>4, <1>7 DEF Types, PoolStep
  <2>2. queue'[Len(queue) + 1].object \in Objects'
    BY <1>4, <1>6, <1>7
  <2>3. \A i \in DOMAIN queue' : i \in DOMAIN queue \/ i = Len(queue) + 1
    BY <1>7
  <2> QED BY <2>1, <2>2, <2>3
<1>10. Types'
  BY <1>1, <1>4, <1>5, <1>7, <1>8, <1>9 DEF Types, PoolStep, IsSequence
<1>11. ASSUME relayed' = <<>> PROVE Owned'
  <2>1. Owned
    BY <1>5, <1>11 DEF PoolInv
  <2>2. /\ IsInjective(pool') /\ object \notin Range(pool')
        /\ \A o \in Objects \ Range(pool) :
             o \notin Range(pool') /\ content'[o] = content[o] /\ o # object
    BY <1>4, <2>1 DEF PoolStep, Owned
  <2>3. \A i \in DOMAIN queue : /\ queue[i].object \in Objects \ Range(pool)
                                /\ content[queue[i].object].of = queue[i].message
    BY <1>1, <2>1 DEF Owned, Types
  <2>4. /\ ~Holds(Update)'
        /\ \A u \in Threads \ {Update} : (Holds(u)' <=> Holds(u)) /\ call'[u] = call[u]
    BY <1>5 DEF Holds, Idle
  <2>5. \A u \in Threads : Holds(u) => call[u].object \in Objects \ Range(pool)
    BY <1>1, <2>1 DEF Owned, Types, CallTyped
  <2>6. /\ \A i, j \in DOMAIN queue' : i # j => queue'[i].object # queue'[j].object
        /\ \A i \in DOMAIN queue' : /\ queue'[i].object \notin Range(pool')
                                    /\ content'[queue'[i].object].of = queue'[i].message
    BY <1>4, <1>6, <1>7, <2>1, <2>2, <2>3 DEF Owned
  <2>7. \A u \in Threads : Holds(u)' =>
          /\ call'[u].object \notin Range(pool')
          /\ \A i \in DOMAIN queue' : queue'[i].object # call'[u].object
          /\ (u = Update /\ call'[u].at = "iterate") \/ call'[u].times = 1
    BY <1>6, <1>7, <2>1, <2>2, <2>4, <2>5 DEF Owned
  <2> QED BY <1>5, <2>1, <2>2, <2>4, <2>6, <2>7 DEF Owned
<1> QED BY <1>10, <1>11 DEF PoolInv

\* handle takes the newest entry out of the queue, and has its object.
LEMMA HandleOwned ==
  ASSUME PoolInv, HandleRelayed \/ HandleReceived \/ HandleDisconnect, queue # <<>>
  PROVE  PoolInv'
<1> DEFINE entry == Last(queue)
           last  == Len(queue)
<1>1. Types /\ Update \in Threads /\ App \in Threads /\ App # Update /\ ~Holds(Update)
  BY DEF PoolInv, HandleRelayed, HandleReceived, HandleDisconnect, Threads, App, Update, Holds
<1>2. /\ queue' = Front(queue) /\ UNCHANGED <<received, relayed>>
      /\ DOMAIN call' = Threads /\ call'[App] = call[App]
  BY <1>1 DEF HandleRelayed, HandleReceived, HandleDisconnect, Popped, counts, history, Types
<1>3. /\ {"at", "object", "times"} \subseteq DOMAIN call'[Update]
      /\ call'[Update].object = entry.object
      /\ \/ call'[Update].at = "iterate"
         \/ call'[Update].at = "release" /\ call'[Update].times = 1
  <2>1. CASE HandleRelayed
    <3>1. call'[Update] = Iterating(entry.object, entry.message, entry.from, id[entry.from], 2)
      BY <1>1, <2>1 DEF HandleRelayed, Popped, Types
    <3> HIDE DEF entry
    <3> QED BY <3>1 DEF Iterating
  <2>2. CASE HandleReceived \/ HandleDisconnect
    <3>1. call'[Update] = Releasing(entry.object, 1)
      BY <1>1, <2>2 DEF HandleReceived, HandleDisconnect, Popped, Types
    <3> HIDE DEF entry
    <3> QED BY <3>1 DEF Releasing
  <2> QED BY <2>1, <2>2
<1>4. /\ queue' \in Seq(Entry) /\ last \in Nat \ {0} /\ DOMAIN queue = 1 .. last
      /\ DOMAIN queue' = 1 .. last - 1 /\ \A i \in DOMAIN queue' : queue'[i] = queue[i]
      /\ entry = queue[last] /\ entry \in Entry
  <2>1. queue \in Seq(Entry)
    BY <1>1 DEF Types
  <2>2. /\ Front(queue) \in Seq(Entry) /\ Len(queue) \in Nat \ {0}
        /\ DOMAIN queue = 1 .. Len(queue) /\ DOMAIN Front(queue) = 1 .. Len(queue) - 1
        /\ \A i \in 1 .. Len(queue) - 1 : Front(queue)[i] = queue[i]
        /\ Last(queue) = queue[Len(queue)] /\ Last(queue) \in Entry
    BY <2>1, SeqFront
  <2> QED BY <1>2, <2>2
<1>5. PoolStep
  <2>1. CASE HandleDisconnect
    <3>1. LocalDisconnect(entry.from)
      BY <2>1 DEF HandleDisconnect
    <3> QED BY <1>1, <3>1, LocalDisconnectPool
  <2>2. CASE HandleRelayed \/ HandleReceived
    BY <1>1, <2>2, PoolKept DEF HandleRelayed, HandleReceived
  <2> QED BY <2>1, <2>2
<1>6. \A u \in Threads : CallTyped(u)'
  <2>1. CallTyped(App)'
    BY <1>1, <1>2, <1>5 DEF CallTyped, Holds, Types, PoolStep
  <2>2. entry.object \in Objects
    BY <1>1, <1>4 DEF Types
  <2>3. CallTyped(Update)'
    BY <1>3, <1>5, <2>2 DEF CallTyped, Holds, PoolStep
  <2> QED BY <2>1, <2>3 DEF Threads
<1>7. handled' \in Seq([message : Nat, got : Int])
  <2>1. CASE HandleReceived
    <3>1. handled' = Append(handled, [message |-> entry.message, got |-> content[entry.object].of])
      BY <2>1 DEF HandleReceived
    <3>2. entry.object \in Objects /\ entry.message \in Nat
      <4> HIDE DEF entry
      <4>1. last \in DOMAIN queue
        BY <1>4
      <4> HIDE DEF last
      <4>2. entry = queue[last] /\ entry \in Entry
        BY <1>4
      <4>3. queue[last].object \in Objects
        BY <1>1, <4>1 DEF Types
      <4> QED BY <4>2, <4>3 DEF Entry
    <3>3. content[entry.object] \in Message
      BY <1>1, <3>2, ElementOfSeq, LenProperties DEF Types, Objects
    <3>4. [message |-> entry.message, got |-> content[entry.object].of]
            \in [message : Nat, got : Int]
      BY <3>2, <3>3 DEF Message
    <3> HIDE DEF entry
    <3> QED BY <1>1, <3>1, <3>4, AppendProperties DEF Types
  <2>2. CASE HandleRelayed \/ HandleDisconnect
    BY <1>1, <2>2 DEF HandleRelayed, HandleDisconnect, history, Types
  <2> QED BY <2>1, <2>2
<1> HIDE DEF entry, last
<1>8. Types'
  BY <1>1, <1>2, <1>4, <1>5, <1>6, <1>7 DEF Types, PoolStep, IsSequence
<1>9. ASSUME relayed' = <<>> PROVE Owned'
  <2>1. Owned
    BY <1>2, <1>9 DEF PoolInv
  <2>2. /\ IsInjective(pool')
        /\ \A o \in Objects \ Range(pool) : o \notin Range(pool') /\ content'[o] = content[o]
    BY <1>5, <2>1 DEF PoolStep, Owned
  <2>3. \A i \in DOMAIN queue : /\ queue[i].object \in Objects \ Range(pool)
                                /\ content[queue[i].object].of = queue[i].message
    BY <1>1, <2>1 DEF Owned, Types
  <2>4. Holds(App) => call[App].object \in Objects \ Range(pool)
    BY <1>1, <2>1 DEF Owned, Types, CallTyped
  <2>5. /\ entry.object \in Objects \ Range(pool)
        /\ \A i \in DOMAIN queue' : queue[i].object # entry.object
        /\ Holds(App) => call[App].object # entry.object
    BY <1>1, <1>4, <2>1, <2>3 DEF Owned
  <2>6. \A u \in Threads : Holds(u)' =>
          /\ call'[u].object \notin Range(pool')
          /\ \A i \in DOMAIN queue' : queue'[i].object # call'[u].object
          /\ (u = Update /\ call'[u].at = "iterate") \/ call'[u].times = 1
    <3>1. Holds(App)' <=> Holds(App)
      BY <1>2 DEF Holds
    <3> QED BY <1>1, <1>2, <1>3, <1>4, <2>1, <2>2, <2>4, <2>5, <3>1 DEF Owned, Threads
  <2>7. \A i \in DOMAIN handled' : handled'[i].got = handled'[i].message
    <3>1. CASE HandleReceived
      <4> DEFINE got == [message |-> entry.message, got |-> content[entry.object].of]
      <4>1. handled' = Append(handled, got)
        BY <3>1 DEF HandleReceived, entry
      <4>2. got.got = got.message
        BY <1>4, <2>3
      <4>3. got \in {got} /\ handled \in Seq(Range(handled) \union {got})
        <5>1. handled \in Seq([message : Nat, got : Int])
          BY <1>1 DEF Types
        <5> QED BY <5>1, LenProperties, SeqDef DEF Range
      <4> HIDE DEF got
      <4>4. /\ DOMAIN handled' = 1 .. Len(handled) + 1 /\ DOMAIN handled = 1 .. Len(handled)
            /\ Len(handled) \in Nat /\ handled'[Len(handled) + 1] = got
            /\ \A i \in DOMAIN handled : handled'[i] = handled[i]
        BY <4>1, <4>3, SeqAppend
      <4> QED BY <4>2, <4>4, <2>1 DEF Owned
    <3>2. CASE HandleRelayed \/ HandleDisconnect
      BY <2>1, <3>2 DEF HandleRelayed, HandleDisconnect, history, Owned
    <3> QED BY <3>1, <3>2
  <2>8. Holds(App)' /\ Holds(Update)' => call'[Update].object # call'[App].object
    BY <1>2, <1>3, <2>5 DEF Holds
  <2> QED BY <1>4, <2>1, <2>2, <2>3, <2>6, <2>7, <2>8 DEF Owned
<1> QED BY <1>8, <1>9 DEF PoolInv

\* The queue is handled only while it has something.
Handling == phase = "handle" => queue # <<>>

\* Polling adds to the queue, and the last that is handled ends the handling.
LEMMA StepHandling == ASSUME Types, Types', Handling, [Next]_vars PROVE Handling'
<1>1. CASE UNCHANGED <<queue, phase>>
  BY <1>1 DEF Handling
<1>2. CASE PollQueues
  <2>1. PICK e : queue' = Append(queue, e)
    BY <1>2 DEF PollQueues
  <2>2. IsSequence(queue)
    BY DEF Types, IsSequence
  <2> QED BY <2>1, <2>2, SequenceAppend DEF Handling
<1>3. CASE PollEnds
  BY <1>3 DEF PollEnds, Handling
<1>4. CASE /\ queue # <<>> /\ queue' = Front(queue)
           /\ phase' = IF Len(queue) = 1 THEN "poll" ELSE phase
  <2>1. Len(queue) \in Nat \ {0} /\ Len(queue') = Len(queue) - 1
    BY <1>4, SeqFront DEF Types
  <2>2. Len(queue) # 1 => queue' # <<>>
    BY <2>1, EmptySeq DEF Types
  <2> QED BY <1>4, <2>2 DEF Handling
<1>5. CASE HandleRelayed \/ HandleReceived \/ HandleDisconnect
  BY <1>4, <1>5 DEF HandleRelayed, HandleReceived, HandleDisconnect, Popped, Handling
<1>6. CASE \/ \E c \in Conns, kind \in Kinds : Poll(c, kind)
           \/ \E t \in Threads : FailsToAcquire(t) \/ SendNext(t) \/ TableChanged(t) \/ SentToAll(t)
                                 \/ Release(t) \/ ReleaseAppends(t)
           \/ Create \/ SendCreated \/ \E c \in Conns : Kick(c) \/ Accept(c)
  BY <1>1, <1>6 DEF Poll, FailsToAcquire, SendNext, TableChanged, SentToAll, Release, ReleaseAppends,
                    Create, SendCreated, Accept, Kick
<1>7. CASE UNCHANGED vars
  BY <1>1, <1>7 DEF vars
<1> QED BY <1>2, <1>3, <1>5, <1>6, <1>7 DEF Next, UpdateThread, Application, Threads

\* Every step keeps the invariant.
LEMMA StepOwned == ASSUME PoolInv, Handling, [Next]_vars PROVE PoolInv'
<1>1. CASE UNCHANGED vars \/ PollEnds
  <2>1. UNCHANGED <<pool, content, queue, handled, received, relayed, call>>
    BY <1>1 DEF vars, counts, history, PollEnds
  <2>2. PoolStep
    BY <2>1, PoolKept DEF PoolInv
  <2> QED BY <2>1, <2>2, KeptOwned DEF Keeps, PoolInv, Types, IsSequence
<1>2. CASE \E c \in Conns, kind \in Kinds : Poll(c, kind)
  BY <1>2, PollOwned
<1>3. CASE \E t \in Threads : FailsToAcquire(t) \/ TableChanged(t) \/ Release(t)
  BY <1>3, CallOwned
<1>4. CASE \E t \in Threads : SendNext(t)
  BY <1>4, SendNextOwned
<1>5. CASE \E t \in Threads : SentToAll(t)
  BY <1>5, SentToAllOwned
<1>6. CASE \E t \in Threads : ReleaseAppends(t)
  BY <1>6, ReleaseAppendsOwned
<1>7. CASE Create \/ \E c \in Conns : Kick(c) \/ Accept(c)
  BY <1>7, ApplicationOwned
<1>8. CASE SendCreated
  BY <1>8, SendCreatedOwned
<1>9. CASE PollQueues
  BY <1>9, PollQueuesOwned
<1>10. CASE HandleRelayed \/ HandleReceived \/ HandleDisconnect
  <2>1. queue # <<>>
    BY <1>10 DEF HandleRelayed, HandleReceived, HandleDisconnect, Handling
  <2> QED BY <1>10, <2>1, HandleOwned
<1> QED BY <1>1, <1>2, <1>3, <1>4, <1>5, <1>6, <1>7, <1>8, <1>9, <1>10
        DEF Next, UpdateThread, Application, Threads

\* As long as no relay has gone through, every handler gets the message that was received:
\* the two threads never have an object of the pool at the same time, although neither
\* acquire nor release is locked, and the notices about removed clients use the pool too.
THEOREM ReceivedIsHandled == Spec => []HandledAsReceived
<1>1. Init => PoolInv /\ Handling
  BY InitOwned DEF Init, Handling
<1>2. PoolInv /\ Handling /\ [Next]_vars => PoolInv' /\ Handling'
  BY StepOwned, StepHandling DEF PoolInv
<1>3. PoolInv => HandledAsReceived
  BY DEF PoolInv, Owned, HandledAsReceived
<1> QED BY <1>1, <1>2, <1>3, PTL DEF Spec

-----------------------------------------------------------------------------
(* The size of the pool                                                    *)

\* A thread that is to append has seen the pool below its size, and the pool has grown
\* since by no more than what the other appended.
PoolBound ==
    /\ Len(pool) <= PoolSize + 1
    /\ \A t \in Threads : Appends(t) => Len(pool) <= PoolSize
    /\ Appends(Update) /\ Appends(App) => Len(pool) <= PoolSize - 1

\* Only release decides to append.
LEMMA NoneAppends ==
  ASSUME Types, [Next]_vars, \A t \in Threads : ~Release(t)
  PROVE  \A t \in Threads : Appends(t)' => Appends(t)
<1>1. CASE UNCHANGED call
  BY <1>1 DEF Appends
<1>2. DOMAIN call = Threads /\ Update \in Threads /\ App \in Threads
  BY DEF Types, Threads
<1>3. CASE (\E c \in Conns, kind \in Kinds : Poll(c, kind)) \/ PollQueues
  <2>1. call'[Update].at # "append" /\ \A u \in Threads \ {Update} : call'[u] = call[u]
    BY <1>2, <1>3 DEF Poll, PollQueues, Acquiring, Idle
  <2> QED BY <2>1 DEF Appends
<1>4. CASE HandleRelayed
  <2>1. call'[Update].at # "append" /\ \A u \in Threads \ {Update} : call'[u] = call[u]
    BY <1>2, <1>4 DEF HandleRelayed, Popped, Iterating
  <2> QED BY <2>1 DEF Appends
<1>5. CASE HandleReceived \/ HandleDisconnect
  <2>1. call'[Update].at # "append" /\ \A u \in Threads \ {Update} : call'[u] = call[u]
    BY <1>2, <1>5 DEF HandleReceived, HandleDisconnect, Popped, Releasing
  <2> QED BY <2>1 DEF Appends
<1>6. ASSUME NEW t \in Threads,
             FailsToAcquire(t) \/ TableChanged(t) \/ SentToAll(t) \/ ReleaseAppends(t)
      PROVE  \A u \in Threads : Appends(u)' => Appends(u)
  <2>1. call'[t].at # "append" /\ \A u \in Threads \ {t} : call'[u] = call[u]
    BY <1>2, <1>6 DEF FailsToAcquire, TableChanged, Raised, SentToAll,
                      ReleaseAppends, Released, Releasing, Idle
  <2> QED BY <2>1 DEF Appends
<1>7. CASE \E t \in Threads : SendNext(t)
  BY <1>7, SendNextCall DEF Appends
<1>8. CASE Create \/ SendCreated
  <2>1. call'[App].at # "append" /\ \A u \in Threads \ {App} : call'[u] = call[u]
    BY <1>2, <1>8 DEF Create, Acquiring, SendCreated, Iterating
  <2> QED BY <2>1 DEF Appends
<1>9. CASE UNCHANGED vars \/ PollEnds \/ \E c \in Conns : Kick(c)
  BY <1>1, <1>9 DEF vars, PollEnds, Kick
<1>10. CASE \E c \in Conns : Accept(c)
  BY <1>10, AcceptCall
<1> QED BY <1>3, <1>4, <1>5, <1>6, <1>7, <1>8, <1>9, <1>10
        DEF Next, UpdateThread, Application, Threads

\* What the pool grows by: a notice that found it empty, or what is released.
Grows ==
    \/ Len(pool') <= Len(pool)
    \/ Len(pool') <= 1 /\ ~(Appends(Update) /\ Appends(App))

\* A notice about a removed client.
LEMMA NoticeLength ==
  ASSUME Types, NEW c, LocalDisconnect(c)
  PROVE  Len(pool') <= Len(pool) \/ Len(pool') <= 1
<1>1. Len(pool) \in Nat
  BY LenProperties DEF Types
<1>2. CASE pool' = pool
  BY <1>1, <1>2
<1>3. CASE pool = <<>> /\ \E o : pool' = Append(pool, o)
  <2>1. PICK o : pool' = Append(pool, o)
    BY <1>3
  <2>2. o \in {o} /\ pool \in Seq({o})
    BY <1>3
  <2>3. Len(pool') = 1
    BY <1>3, <2>1, <2>2, SeqAppend
  <2> QED BY <2>3
<1> QED BY <1>2, <1>3 DEF LocalDisconnect, NoticeSent

\* Taking an object out makes the pool shorter.
LEMMA FillLength ==
  ASSUME Types, NEW t \in Threads, call[t].at = "acquire", ~AcquireRaises(t), NEW message, Fill(t, message)
  PROVE  Len(pool') <= Len(pool)
<1>1. Len(pool) \in Nat /\ pool \in Seq(Objects)
  BY LenProperties DEF Types
<1>2. CASE call[t].some
  <2>1. pool # <<>> /\ pool' = Front(pool)
    BY <1>2 DEF AcquireRaises, Fill
  <2> QED BY <1>1, <2>1, SeqFront
<1>3. CASE ~call[t].some
  BY <1>1, <1>3 DEF Fill
<1> QED BY <1>2, <1>3

\* No step but the append of release makes the pool longer than that.
LEMMA StepGrows ==
  ASSUME Types, [Next]_vars, \A t \in Threads : ~ReleaseAppends(t)
  PROVE  Grows
<1>0. Len(pool) \in Nat
  BY LenProperties DEF Types
<1>1. CASE UNCHANGED pool
  BY <1>0, <1>1 DEF Grows
<1>2. CASE HandleDisconnect
  BY <1>2, NoticeLength DEF HandleDisconnect, Grows, Appends
<1>3. CASE \E t \in Threads : SendNext(t)
  <2>1. PICK t \in Threads : SendNext(t)
    BY <1>3
  <2>2. ~Appends(t) /\ (UNCHANGED pool \/ \E c : LocalDisconnect(c))
    BY <2>1 DEF SendNext, Continues, Appends
  <2> QED BY <1>1, <2>2, NoticeLength DEF Grows, Threads
<1>4. CASE \E c \in Conns : Kick(c)
  BY <1>4, NoticeLength DEF Kick, Grows, Appends
<1>5. CASE PollQueues \/ SendCreated
  BY <1>5, FillLength DEF PollQueues, SendCreated, Grows, Threads
<1>6. CASE \/ UNCHANGED vars \/ \E c \in Conns, kind \in Kinds : Poll(c, kind)
           \/ \E t \in Threads : FailsToAcquire(t) \/ TableChanged(t) \/ SentToAll(t) \/ Release(t)
           \/ PollEnds \/ HandleRelayed \/ HandleReceived \/ Create \/ \E c \in Conns : Accept(c)
  BY <1>1, <1>6 DEF vars, Poll, FailsToAcquire, TableChanged, SentToAll, Release, PollEnds,
                    HandleRelayed, HandleReceived, Create, Accept
<1> QED BY <1>2, <1>3, <1>4, <1>5, <1>6 DEF Next, UpdateThread, Application, Threads

\* However the two threads meet in release, the pool stays within its bound.
LEMMA StepBound == ASSUME Types, Types', PoolBound, [Next]_vars PROVE PoolBound'
<1>0. Len(pool) \in Nat /\ Len(pool') \in Nat /\ PoolSize \in Nat \ {0} /\ Update # App
  BY LenProperties, RelayAssumption DEF Types, Update, App
<1>1. CASE \E t \in Threads : Release(t)
  <2>1. PICK t \in Threads : Release(t)
    BY <1>1
  <2>2. pool' = pool /\ call[t].at = "release" /\ \A u \in Threads \ {t} : call'[u] = call[u]
    BY <2>1 DEF Release, Types
  <2>3. Appends(t)' => Len(pool) < PoolSize
    BY <2>1 DEF Release, Released, Releasing, Idle, Appends, Types
  <2> QED BY <1>0, <2>2, <2>3 DEF PoolBound, Appends, Threads
<1>2. CASE \E t \in Threads : ReleaseAppends(t)
  <2>1. PICK t \in Threads : ReleaseAppends(t)
    BY <1>2
  <2>2. Appends(t) /\ \A u \in Threads \ {t} : call'[u] = call[u]
    BY <2>1 DEF ReleaseAppends, Appends, Types
  <2>3. ~Appends(t)'
    BY <2>1 DEF ReleaseAppends, Released, Releasing, Idle, Appends, Types
  <2>4. Len(pool') = Len(pool) + 1
    <3>1. pool \in Seq(Objects) /\ call[t].object \in Objects
      BY <2>2 DEF Types, CallTyped, Holds, Appends
    <3> QED BY <2>1, <3>1, SeqAppend DEF ReleaseAppends
  <2> QED BY <1>0, <2>2, <2>3, <2>4 DEF PoolBound, Appends, Threads
<1>3. CASE (\A t \in Threads : ~Release(t)) /\ \A t \in Threads : ~ReleaseAppends(t)
  <2>1. (\A t \in Threads : Appends(t)' => Appends(t)) /\ Grows
    BY <1>3, NoneAppends, StepGrows
  <2> QED BY <1>0, <2>1 DEF PoolBound, Grows, Threads
<1> QED BY <1>1, <1>2, <1>3

-----------------------------------------------------------------------------
(* The IDs of the clients                                                  *)

\* A connection is in the table once; the IDs of those in it and the free ones are all
\* there are, and none is twice.
TableInv ==
    /\ clients \in Seq(Conns \union {Hole})
    /\ \A i, j \in DOMAIN clients : clients[i] = clients[j] /\ clients[i] # Hole => i = j
    /\ id \in [Conns -> Int] /\ freeIds \in Seq(Int) /\ IsInjective(freeIds)
    /\ \A c, d \in Present : c # d => id[c] # id[d]
    /\ {id[c] : c \in Present} \cap Range(freeIds) = {}
    /\ {id[c] : c \in Present} \union Range(freeIds) = 1 .. MaxClients

\* All places are taken at the start.
LEMMA InitTable == ASSUME Init PROVE TableInv
<1>1. MaxClients \in Nat \ {0} /\ Conns = 1 .. MaxClients + MaxAccepted /\ 1 .. MaxClients \subseteq Conns
  BY RelayAssumption DEF Conns
<1>2. clients = [i \in 1 .. MaxClients |-> i] /\ id = [c \in Conns |-> IF c <= MaxClients THEN c ELSE 0]
      /\ freeIds = <<>>
  BY DEF Init
<1>3. clients \in Seq(Conns \union {Hole})
  <2>1. clients \in [1 .. MaxClients -> Conns \union {Hole}]
    BY <1>1, <1>2
  <2> QED BY <1>1, <2>1, SeqDef
<1>4. Present = 1 .. MaxClients /\ \A c \in Present : id[c] = c
  BY <1>1, <1>2 DEF Present, Hole
<1>5. Range(freeIds) = {} /\ IsInjective(freeIds) /\ freeIds \in Seq(Int)
  BY <1>2 DEF Range, IsInjective
<1>6. id \in [Conns -> Int] /\ \A i, j \in DOMAIN clients : clients[i] = clients[j] => i = j
  BY <1>1, <1>2
<1> QED BY <1>3, <1>4, <1>5, <1>6 DEF TableInv

\* A client that leaves gives its ID back, once.
LEMMA LocalDisconnectTable == ASSUME TableInv, NEW c, LocalDisconnect(c) PROVE TableInv'
<1> DEFINE gone == Holders(c)
<1>1. /\ clients' = [i \in DOMAIN clients |-> IF clients[i] \in gone THEN Hole ELSE clients[i]]
      /\ freeIds' = IF gone = {} THEN freeIds ELSE Append(freeIds, id[c])
      /\ id' = id
  BY DEF LocalDisconnect
<1>2. gone \subseteq Present /\ \A d \in Present : d \in gone <=> id[d] = id[c]
  BY DEF Holders
<1>3. Present \subseteq Conns /\ Hole \notin Present
  <2>1. \A i \in DOMAIN clients : clients[i] \in Conns \union {Hole}
    BY ElementOfSeq, LenProperties DEF TableInv
  <2> QED BY <2>1 DEF Present
<1> HIDE DEF gone
<1>4. /\ clients' \in Seq(Conns \union {Hole})
      /\ \A i, j \in DOMAIN clients' : clients'[i] = clients'[j] /\ clients'[i] # Hole => i = j
  <2>1. Len(clients) \in Nat /\ clients \in [1 .. Len(clients) -> Conns \union {Hole}]
    BY LenProperties DEF TableInv
  <2>2. clients' \in [1 .. Len(clients) -> Conns \union {Hole}]
    BY <1>1, <2>1
  <2>3. \A i, j \in DOMAIN clients' : clients'[i] = clients'[j] /\ clients'[i] # Hole => i = j
    BY <1>1 DEF TableInv
  <2> QED BY <2>1, <2>2, <2>3, SeqDef
<1>5. Present' = Present \ gone
  <2>1. \A d : d \in Present' => d \in Present \ gone
    BY <1>1, <1>2 DEF Present
  <2>2. \A d : d \in Present \ gone => d \in Present'
    BY <1>1, <1>2 DEF Present
  <2> QED BY <2>1, <2>2
<1>6. CASE gone = {}
  BY <1>1, <1>4, <1>5, <1>6 DEF TableInv
<1>7. CASE gone # {}
  <2>1. PICK d \in Present : id[d] = id[c]
    BY <1>2, <1>7
  <2>2. id[c] \in Int /\ id[c] \notin Range(freeIds)
    BY <1>3, <2>1 DEF TableInv
  <2>3. /\ freeIds' \in Seq(Int) /\ IsInjective(freeIds')
        /\ Range(freeIds') = Range(freeIds) \union {id[c]}
    BY <1>1, <1>7, <2>2, SeqAppend DEF TableInv
  <2>4. {id[e] : e \in Present'} = {id[e] : e \in Present} \ {id[c]}
    BY <1>2, <1>5
  <2>5. id[c] \in {id[e] : e \in Present}
    BY <2>1
  <2>6. {id'[e] : e \in Present'} = {id[e] : e \in Present} \ {id[c]}
    BY <1>1, <2>4
  <2>7. \A e, f \in Present' : e # f => id'[e] # id'[f]
    BY <1>1, <1>5 DEF TableInv
  <2>8. /\ {id'[e] : e \in Present'} \cap Range(freeIds') = {}
        /\ {id'[e] : e \in Present'} \union Range(freeIds') = 1 .. MaxClients
    <3>1. /\ {id[e] : e \in Present} \cap Range(freeIds) = {}
          /\ {id[e] : e \in Present} \union Range(freeIds) = 1 .. MaxClients
      BY DEF TableInv
    <3> QED BY <2>3, <2>5, <2>6, <3>1
  <2> QED BY <1>1, <1>4, <2>3, <2>7, <2>8 DEF TableInv
<1> QED BY <1>6, <1>7

\* A client that is or was in the table has an ID.
LEMMA PresentHasId ==
  ASSUME TableInv
  PROVE  /\ Len(clients) \in Nat /\ DOMAIN clients = 1 .. Len(clients)
         /\ \A i \in DOMAIN clients : clients[i] \in Conns \union {Hole}
         /\ Present \subseteq Conns /\ Hole \notin Conns
         /\ \A c \in Present : id[c] \in Int /\ id[c] # 0
         /\ \A c : c \in Range(freeIds) => c # 0
<1>1. Len(clients) \in Nat /\ DOMAIN clients = 1 .. Len(clients)
  BY LenProperties DEF TableInv
<1>2. \A i \in DOMAIN clients : clients[i] \in Conns \union {Hole}
  BY ElementOfSeq, LenProperties DEF TableInv
<1>3. Present \subseteq Conns /\ Hole \notin Conns
  BY <1>2 DEF Present, Conns, Hole
<1>4. \A c \in Present : id[c] \in 1 .. MaxClients
  BY DEF TableInv
<1>5. \A c : c \in Range(freeIds) => c \in 1 .. MaxClients
  BY DEF TableInv
<1>6. \A n \in 1 .. MaxClients : n \in Int /\ n # 0
  BY RelayAssumption
<1> QED BY <1>1, <1>2, <1>3, <1>4, <1>5, <1>6

\* What the table is made of when c enters: entries there were, in their order, and c.
Appended(c, compacted) ==
    \E old \in Seq(Conns \union {Hole}) :
       /\ clients' = Append(old, c)
       /\ {old[i] : i \in DOMAIN old} \ {Hole} = Present
       /\ \A i, j \in DOMAIN old : old[i] = old[j] /\ old[i] # Hole => i = j
       /\ \A i \in DOMAIN old : \E k \in DOMAIN clients : k >= i /\ old[i] = clients[k]
       /\ ~compacted => old = clients

\* The entries move when the dict is resized.
LEMMA AcceptAppends ==
  ASSUME TableInv, NEW c \in Conns, Accept(c)
  PROVE  (Appended(c, FALSE) /\ UNCHANGED call) \/ (Appended(c, TRUE) /\ Rebuild(c))
<1>1. /\ Len(clients) \in Nat /\ DOMAIN clients = 1 .. Len(clients)
      /\ \A i \in DOMAIN clients : clients[i] \in Conns \union {Hole}
  BY PresentHasId
<1>2. CASE clients' = Append(clients, c) /\ UNCHANGED call
  <2>1. \A i \in DOMAIN clients : i >= i
    BY <1>1
  <2>2. clients \in Seq(Conns \union {Hole}) /\ {clients[i] : i \in DOMAIN clients} \ {Hole} = Present
    BY DEF TableInv, Present
  <2>3. \A i, j \in DOMAIN clients : clients[i] = clients[j] /\ clients[i] # Hole => i = j
    BY DEF TableInv
  <2>4. Appended(c, FALSE)
    BY <1>2, <2>1, <2>2, <2>3 DEF Appended
  <2> QED BY <1>2, <2>4
<1>3. CASE Rebuild(c)
  <2>1. PICK n \in 0 .. Len(clients) : \E kept \in [1 .. n -> DOMAIN clients] :
          /\ Compacting(kept) /\ clients' = Append([i \in 1 .. n |-> clients[kept[i]]], c)
    BY <1>3 DEF Rebuild
  <2>2. PICK kept \in [1 .. n -> DOMAIN clients] :
          /\ Compacting(kept) /\ clients' = Append([i \in 1 .. n |-> clients[kept[i]]], c)
    BY <2>1
  <2> DEFINE old == [i \in 1 .. n |-> clients[kept[i]]]
  <2>3. old \in Seq(Conns \union {Hole}) /\ DOMAIN old = 1 .. n
    <3>1. n \in Nat /\ old \in [1 .. n -> Conns \union {Hole}]
      BY <1>1, <2>2
    <3> QED BY <3>1, SeqDef
  <2>4. /\ {kept[i] : i \in 1 .. n} = {i \in DOMAIN clients : clients[i] # Hole}
        /\ \A i, j \in 1 .. n : kept[i] >= i /\ (i < j => kept[i] < kept[j])
    BY <2>2 DEF Compacting
  <2>5. {old[i] : i \in DOMAIN old} \ {Hole} = Present
    BY <2>3, <2>4 DEF Present
  <2>6. ASSUME NEW i \in 1 .. n, NEW j \in 1 .. n, old[i] = old[j] PROVE i = j
    <3>1. kept[i] \in DOMAIN clients /\ kept[j] \in DOMAIN clients /\ clients[kept[i]] # Hole
      BY <2>4
    <3>2. kept[i] = kept[j]
      BY <2>6, <3>1 DEF TableInv
    <3>3. kept[i] \in Nat /\ ~(i < j) /\ ~(j < i)
      BY <1>1, <2>4, <3>1, <3>2
    <3> QED BY <2>1, <3>3
  <2>7. \A i \in DOMAIN old : \E k \in DOMAIN clients : k >= i /\ old[i] = clients[k]
    BY <2>2, <2>3, <2>4
  <2>8. clients' = Append(old, c)
    BY <2>2
  <2> HIDE DEF old
  <2>9. Appended(c, TRUE)
    BY <2>3, <2>5, <2>6, <2>7, <2>8 DEF Appended
  <2> QED BY <1>3, <2>9
<1> QED BY <1>2, <1>3 DEF Accept

\* The client that is accepted has the ID that has been free longest.
LEMMA AcceptTable == ASSUME TableInv, NEW c \in Conns, Accept(c) PROVE TableInv'
<1>1. /\ freeIds # <<>> /\ id[c] = 0
      /\ id' = [id EXCEPT ![c] = Head(freeIds)] /\ freeIds' = Tail(freeIds)
  BY DEF Accept
<1>2. /\ Tail(freeIds) \in Seq(Int) /\ Head(freeIds) \in Int /\ IsInjective(Tail(freeIds))
      /\ Head(freeIds) \notin Range(Tail(freeIds))
      /\ Range(freeIds) = Range(Tail(freeIds)) \union {Head(freeIds)}
  BY <1>1, SeqTail DEF TableInv
<1>3. c \notin Present /\ c # Hole /\ Present \subseteq Conns
  BY <1>1, PresentHasId
<1>4. PICK old \in Seq(Conns \union {Hole}) :
        /\ clients' = Append(old, c)
        /\ {old[i] : i \in DOMAIN old} \ {Hole} = Present
        /\ \A i, j \in DOMAIN old : old[i] = old[j] /\ old[i] # Hole => i = j
  BY AcceptAppends DEF Appended
<1>5. /\ clients' \in Seq(Conns \union {Hole}) /\ Len(old) \in Nat /\ DOMAIN old = 1 .. Len(old)
      /\ DOMAIN clients' = 1 .. Len(old) + 1 /\ clients'[Len(old) + 1] = c
      /\ \A i \in DOMAIN old : clients'[i] = old[i]
  BY <1>4, SeqAppend
<1>6. \A i : i \in DOMAIN clients' <=> i \in DOMAIN old \/ i = Len(old) + 1
  BY <1>5
<1>7. Present' = Present \union {c}
  <2>1. \A d : d \in Present' <=> d # Hole /\ \E i \in DOMAIN clients' : clients'[i] = d
    BY DEF Present
  <2>2. \A d : d \in Present <=> d # Hole /\ \E i \in DOMAIN old : old[i] = d
    BY <1>4
  <2> QED BY <1>3, <1>5, <1>6, <2>1, <2>2
<1>8. \A i, j \in DOMAIN clients' : clients'[i] = clients'[j] /\ clients'[i] # Hole => i = j
  <2>1. \A i \in DOMAIN old : old[i] # c
    BY <1>3, <1>4
  <2> QED BY <1>4, <1>5, <1>6, <2>1
<1>9. id' \in [Conns -> Int] /\ id'[c] = Head(freeIds) /\ \A d \in Present : id'[d] = id[d]
  BY <1>1, <1>2, <1>3 DEF TableInv
<1>10. {id'[d] : d \in Present'} = {id[d] : d \in Present} \union {Head(freeIds)}
  BY <1>7, <1>9
<1>11. \A d, e \in Present' : d # e => id'[d] # id'[e]
  <2>1. \A d \in Present : id[d] # Head(freeIds)
    BY <1>2 DEF TableInv
  <2> QED BY <1>7, <1>9, <2>1 DEF TableInv
<1>12. /\ {id'[d] : d \in Present'} \cap Range(freeIds') = {}
       /\ {id'[d] : d \in Present'} \union Range(freeIds') = 1 .. MaxClients
  <2>1. /\ {id[d] : d \in Present} \cap Range(freeIds) = {}
        /\ {id[d] : d \in Present} \union Range(freeIds) = 1 .. MaxClients
    BY DEF TableInv
  <2>2. freeIds' = Tail(freeIds)
    BY <1>1
  <2> QED BY <1>2, <1>10, <2>1, <2>2
<1> QED BY <1>1, <1>2, <1>5, <1>8, <1>9, <1>11, <1>12 DEF TableInv

\* Nothing else changes the table.
LEMMA StepTable == ASSUME TableInv, [Next]_vars PROVE TableInv'
<1>1. CASE UNCHANGED <<clients, id, freeIds>>
  BY <1>1 DEF TableInv, Present
<1>2. CASE \E c : LocalDisconnect(c)
  BY <1>2, LocalDisconnectTable
<1>3. CASE \E c \in Conns : Accept(c)
  BY <1>3, AcceptTable
<1>4. CASE HandleDisconnect \/ \E c \in Conns : Kick(c)
  BY <1>2, <1>4 DEF HandleDisconnect, Kick
<1>5. CASE \E t \in Threads : SendNext(t)
  BY <1>1, <1>2, <1>5 DEF SendNext, table
<1>6. CASE \/ UNCHANGED vars \/ \E c \in Conns, kind \in Kinds : Poll(c, kind)
           \/ \E t \in Threads : \/ FailsToAcquire(t) \/ TableChanged(t) \/ SentToAll(t)
                                 \/ Release(t) \/ ReleaseAppends(t)
           \/ PollQueues \/ PollEnds \/ HandleRelayed \/ HandleReceived \/ Create \/ SendCreated
  BY <1>1, <1>6 DEF vars, table, Poll, FailsToAcquire, TableChanged, SentToAll, Release,
                    ReleaseAppends, PollQueues, PollEnds, HandleRelayed, HandleReceived,
                    Create, SendCreated
<1> QED BY <1>3, <1>4, <1>5, <1>6 DEF Next, UpdateThread, Application, Threads

-----------------------------------------------------------------------------
(* Whom a relay reaches                                                    *)

\* What the update thread has done of a relay: nobody it reached is among the entries to
\* come, and unless these have moved it reached those it passed, but for the sender.
Passing(now, list, ids) ==
    /\ {"position", "reached", "except", "rebuilt"} \subseteq DOMAIN now
    /\ now.position \in Nat /\ now.reached \in Seq(Conns) /\ IsInjective(now.reached)
    /\ \A c \in Range(now.reached) : ids[c] # now.except /\ ids[c] # 0
    /\ \A i \in DOMAIN list : i > now.position => list[i] \notin Range(now.reached)
    /\ ~now.rebuilt =>
         /\ now.position <= Len(list)
         /\ \A i \in DOMAIN list :
               i <= now.position /\ list[i] # Hole /\ ids[list[i]] # now.except =>
                  list[i] \in Range(now.reached)

\* The record of a relay that went through, of connections that were in the table.
Reaching(r, ids) ==
    /\ r.reached \in Seq(Conns) /\ IsInjective(r.reached)
    /\ \A c \in Range(r.reached) : ids[c] # r.except /\ ids[c] # 0
    /\ \A c \in r.stayed : c \in Conns /\ ids[c] # 0
    /\ ~r.rebuilt => {c \in r.stayed : ids[c] # r.except} \subseteq Range(r.reached)

ReachInv ==
    /\ call[Update].at = "iterate" => Passing(call[Update], clients, id)
    /\ \A i \in DOMAIN relayed : Reaching(relayed[i], id)

\* A connection that is or was in the table keeps its ID,
KeepsIds == \A c \in Conns : id[c] # 0 => id'[c] = id[c]

\* and an entry its place, or it goes; who comes is behind the others.
KeepsPlaces ==
    /\ Len(clients') >= Len(clients)
    /\ \A i \in DOMAIN clients' :
          \/ clients'[i] = Hole
          \/ i \in DOMAIN clients /\ clients'[i] = clients[i]
          \/ i > Len(clients) /\ clients'[i] \in Conns /\ id[clients'[i]] = 0

\* When the dict is resized an entry may come closer to the start, never further from it.
MovesBack ==
    \A i \in DOMAIN clients' :
       \/ \E k \in DOMAIN clients : k >= i /\ clients'[i] = clients[k]
       \/ clients'[i] \in Conns /\ id[clients'[i]] = 0

\* The place of an entry changes only when a client is accepted.
LEMMA TableSteps ==
  ASSUME TableInv, TableInv', [Next]_vars
  PROVE  /\ KeepsIds
         /\ KeepsPlaces \/ (MovesBack /\ \E c \in Conns : Accept(c) /\ Rebuild(c))
<1>0. /\ Len(clients) \in Nat /\ DOMAIN clients = 1 .. Len(clients)
      /\ Len(clients') \in Nat /\ DOMAIN clients' = 1 .. Len(clients')
  BY LenProperties DEF TableInv
<1>1. CASE UNCHANGED <<clients, id>>
  BY <1>0, <1>1 DEF KeepsIds, KeepsPlaces
<1>2. CASE \E c : LocalDisconnect(c)
  <2>1. PICK c : LocalDisconnect(c)
    BY <1>2
  <2>2. /\ clients' = [i \in DOMAIN clients |-> IF clients[i] \in Holders(c) THEN Hole ELSE clients[i]]
        /\ id' = id
    BY <2>1 DEF LocalDisconnect
  <2>3. DOMAIN clients' = DOMAIN clients
    BY <2>2
  <2>4. Len(clients') = Len(clients)
    <3>1. \A m, n \in Nat : 1 .. m = 1 .. n => m = n
      <4> SUFFICES ASSUME NEW m \in Nat, NEW n \in Nat, 1 .. m = 1 .. n PROVE m <= n /\ n <= m
        OBVIOUS
      <4>1. (m = 0 \/ m \in 1 .. n) /\ (n = 0 \/ n \in 1 .. m)
        OBVIOUS
      <4> QED BY <4>1
    <3>2. 1 .. Len(clients') = 1 .. Len(clients)
      BY <1>0, <2>3
    <3> QED BY <1>0, <3>1, <3>2
  <2> QED BY <1>0, <2>2, <2>4 DEF KeepsIds, KeepsPlaces
<1>3. ASSUME NEW c \in Conns, Accept(c)
      PROVE  KeepsIds /\ (KeepsPlaces \/ (MovesBack /\ Rebuild(c)))
  <2>1. id[c] = 0 /\ id' = [id EXCEPT ![c] = Head(freeIds)]
    BY <1>3 DEF Accept
  <2>2. KeepsIds
    BY <2>1 DEF TableInv, KeepsIds
  <2>3. ASSUME NEW compacted \in BOOLEAN, Appended(c, compacted)
        PROVE  MovesBack /\ (~compacted => KeepsPlaces)
    <3>1. PICK old \in Seq(Conns \union {Hole}) :
            /\ clients' = Append(old, c)
            /\ \A i \in DOMAIN old : \E k \in DOMAIN clients : k >= i /\ old[i] = clients[k]
            /\ ~compacted => old = clients
      BY <2>3 DEF Appended
    <3>2. /\ Len(old) \in Nat /\ DOMAIN old = 1 .. Len(old) /\ Len(clients') = Len(old) + 1
          /\ DOMAIN clients' = 1 .. Len(old) + 1 /\ clients'[Len(old) + 1] = c
          /\ \A i \in DOMAIN old : clients'[i] = old[i]
      BY <3>1, SeqAppend
    <3>3. \A i \in DOMAIN clients' : i \in DOMAIN old \/ i = Len(old) + 1
      BY <3>2
    <3>4. MovesBack
      BY <2>1, <3>1, <3>2, <3>3 DEF MovesBack
    <3>5. ASSUME ~compacted PROVE KeepsPlaces
      <4>1. old = clients
        BY <3>1, <3>5
      <4> QED BY <1>0, <2>1, <3>2, <3>3, <4>1 DEF KeepsPlaces
    <3> QED BY <3>4, <3>5
  <2> QED BY <1>3, <2>2, <2>3, AcceptAppends
<1>4. CASE HandleDisconnect \/ \E c \in Conns : Kick(c)
  BY <1>2, <1>4 DEF HandleDisconnect, Kick
<1>5. CASE \E t \in Threads : SendNext(t)
  BY <1>1, <1>2, <1>5 DEF SendNext, table
<1>6. CASE \/ UNCHANGED vars \/ \E c \in Conns, kind \in Kinds : Poll(c, kind)
           \/ \E t \in Threads : \/ FailsToAcquire(t) \/ TableChanged(t) \/ SentToAll(t)
                                 \/ Release(t) \/ ReleaseAppends(t)
           \/ PollQueues \/ PollEnds \/ HandleRelayed \/ HandleReceived \/ Create \/ SendCreated
  BY <1>1, <1>6 DEF vars, table, Poll, FailsToAcquire, TableChanged, SentToAll, Release,
                    ReleaseAppends, PollQueues, PollEnds, HandleRelayed, HandleReceived,
                    Create, SendCreated
<1> QED BY <1>3, <1>4, <1>5, <1>6 DEF Next, UpdateThread, Application, Threads

\* What is true of a relay that went through stays true however the table changes,
LEMMA ReachingKept ==
  ASSUME KeepsIds
  PROVE  \A r : Reaching(r, id) => Reaching(r, id')
<1> SUFFICES ASSUME NEW r, Reaching(r, id) PROVE Reaching(r, id')
  OBVIOUS
<1>1. \A c \in Range(r.reached) : c \in Conns
  BY ElementOfSeq, LenProperties DEF Reaching, Range
<1>2. \A c \in Range(r.reached) : id'[c] = id[c]
  BY <1>1 DEF Reaching, KeepsIds
<1>3. \A c \in r.stayed : id'[c] = id[c]
  BY DEF Reaching, KeepsIds
<1> QED BY <1>2, <1>3 DEF Reaching

\* and so does what is true of one that is under way; of one whose entries have moved less
\* was said.
LEMMA PassingKept ==
  ASSUME TableInv, TableInv', KeepsIds, NEW now, Passing(now, clients, id),
         KeepsPlaces \/ (MovesBack /\ now.rebuilt)
  PROVE  Passing(now, clients', id')
<1>0. /\ Len(clients) \in Nat /\ DOMAIN clients = 1 .. Len(clients) /\ Hole \notin Conns
      /\ Len(clients') \in Nat /\ DOMAIN clients' = 1 .. Len(clients')
      /\ \A i \in DOMAIN clients : clients[i] \in Conns \union {Hole}
      /\ Present \subseteq Conns /\ \A c \in Present : id[c] # 0
  BY PresentHasId, LenProperties DEF TableInv
<1>1. \A c \in Range(now.reached) : c \in Conns
  BY ElementOfSeq, LenProperties DEF Passing, Range
<1>2. \A c \in Range(now.reached) : id[c] # 0 /\ id'[c] = id[c] /\ c # Hole
  BY <1>0, <1>1 DEF Passing, KeepsIds
<1>3. now.position \in Nat
  BY DEF Passing
<1>4. ASSUME NEW i \in DOMAIN clients', i > now.position PROVE clients'[i] \notin Range(now.reached)
  <2>1. i \in Nat
    BY <1>0
  <2>2. \A k \in DOMAIN clients : k >= i => clients[k] \notin Range(now.reached)
    BY <1>0, <1>3, <1>4, <2>1 DEF Passing
  <2> QED BY <1>0, <1>2, <2>1, <2>2 DEF KeepsPlaces, MovesBack
<1>5. ASSUME ~now.rebuilt
      PROVE  /\ now.position <= Len(clients')
             /\ \A i \in DOMAIN clients' :
                   i <= now.position /\ clients'[i] # Hole /\ id'[clients'[i]] # now.except =>
                      clients'[i] \in Range(now.reached)
  <2>1. KeepsPlaces /\ now.position <= Len(clients)
    BY <1>5 DEF Passing
  <2>2. now.position <= Len(clients')
    BY <1>0, <1>3, <2>1 DEF KeepsPlaces
  <2>3. ASSUME NEW i \in DOMAIN clients', i <= now.position, clients'[i] # Hole,
               id'[clients'[i]] # now.except
        PROVE  clients'[i] \in Range(now.reached)
    <3>1. i \in DOMAIN clients /\ clients'[i] = clients[i]
      BY <1>0, <1>3, <2>1, <2>3 DEF KeepsPlaces
    <3>2. clients[i] \in Present
      BY <2>3, <3>1 DEF Present
    <3>3. id'[clients[i]] = id[clients[i]]
      BY <1>0, <3>2 DEF KeepsIds
    <3> QED BY <1>5, <2>3, <3>1, <3>3 DEF Passing
  <2> QED BY <2>2, <2>3
<1>6. \A c \in Range(now.reached) : id'[c] # now.except /\ id'[c] # 0
  BY <1>2 DEF Passing
<1> QED BY <1>4, <1>5, <1>6 DEF Passing

\* The next client of the iteration is the first that was not passed.
LEMMA SendNextReach ==
  ASSUME Types, TableInv, ReachInv, SendNext(Update)
  PROVE  Passing(call'[Update], clients, id)
<1> DEFINE now == call[Update]
           i   == CHOOSE j \in Upcoming(now) : \A k \in Upcoming(now) : j <= k
           c   == clients[i]
           reached == IF id[c] = now.except THEN now.reached ELSE Append(now.reached, c)
           then == [now EXCEPT !.position = i, !.left = @ - 1, !.reached = reached]
<1>1. /\ now.at = "iterate" /\ Upcoming(now) # {}
      /\ call' = [call EXCEPT ![Update].position = i, ![Update].left = @ - 1,
                              ![Update].reached = reached]
  BY DEF SendNext, Continues
<1>2. Passing(now, clients, id)
  BY <1>1 DEF ReachInv
<1>3. /\ Len(clients) \in Nat /\ DOMAIN clients = 1 .. Len(clients) /\ Hole \notin Conns
      /\ \A k \in DOMAIN clients : clients[k] \in Conns \union {Hole}
      /\ \A d \in Present : id[d] # 0
  BY PresentHasId
<1>4. i \in Upcoming(now) /\ \A k \in Upcoming(now) : i <= k
  <2>1. Upcoming(now) \in SUBSET Nat
    BY <1>3 DEF Upcoming
  <2> QED BY <1>1, <2>1, LeastElement
<1> HIDE DEF i
<1>5. i \in DOMAIN clients /\ i \in Nat /\ i > now.position /\ c # Hole
  BY <1>3, <1>4 DEF Upcoming
<1>6. c \in Conns /\ c \in Present /\ id[c] # 0 /\ c \notin Range(now.reached)
  BY <1>2, <1>3, <1>5 DEF Present, Passing
<1>7. call'[Update] = then
  <2>1. Update \in DOMAIN call
    BY DEF Types, Threads
  <2> HIDE DEF reached
  <2> QED BY <1>1, <2>1
<1> HIDE DEF c
<1>8. /\ reached \in Seq(Conns) /\ IsInjective(reached)
      /\ Range(reached) = IF id[c] = now.except THEN Range(now.reached)
                          ELSE Range(now.reached) \union {c}
  <2>1. CASE id[c] = now.except
    BY <1>2, <2>1 DEF Passing
  <2>2. CASE id[c] # now.except
    <3> DEFINE before == now.reached
    <3>1. before \in Seq(Conns) /\ IsInjective(before) /\ c \notin Range(before)
      BY <1>2, <1>6 DEF Passing
    <3> HIDE DEF before
    <3>2. /\ Append(before, c) \in Seq(Conns) /\ IsInjective(Append(before, c))
          /\ Range(Append(before, c)) = Range(before) \union {c}
      BY <1>6, <3>1, SeqAppend
    <3> QED BY <2>2, <3>2 DEF before
  <2> QED BY <2>1, <2>2
<1> HIDE DEF reached
<1>9. /\ {"position", "reached", "except", "rebuilt"} \subseteq DOMAIN then
      /\ then.position = i /\ then.reached = reached /\ then.except = now.except
      /\ then.rebuilt = now.rebuilt
  BY <1>2 DEF Passing
<1> HIDE DEF then
<1>10. \A d \in Range(reached) : id[d] # now.except /\ id[d] # 0
  BY <1>2, <1>6, <1>8 DEF Passing
<1>11. ASSUME NEW k \in DOMAIN clients, k > i PROVE clients[k] \notin Range(reached)
  <2>1. k > now.position
    BY <1>2, <1>3, <1>5, <1>11 DEF Passing
  <2>2. clients[k] # c
    BY <1>3, <1>5, <1>11 DEF TableInv, c
  <2> QED BY <1>2, <1>8, <2>1, <2>2 DEF Passing
<1>12. ASSUME ~now.rebuilt, NEW k \in DOMAIN clients, k <= i, clients[k] # Hole,
              id[clients[k]] # now.except
       PROVE  clients[k] \in Range(reached)
  <2>1. CASE k <= now.position
    BY <1>2, <1>8, <1>12, <2>1 DEF Passing
  <2>2. CASE ~(k <= now.position)
    <3>1. k \in Upcoming(now) /\ k \in Nat
      BY <1>2, <1>3, <1>12, <2>2 DEF Upcoming, Passing
    <3>2. k = i
      BY <1>4, <1>5, <1>12, <3>1
    <3> QED BY <1>8, <1>12, <3>2 DEF c
  <2> QED BY <2>1, <2>2
<1>13. Passing(then, clients, id)
  <2>1. then.position \in Nat /\ then.position <= Len(clients)
    BY <1>3, <1>5, <1>9
  <2> QED BY <1>8, <1>9, <1>10, <1>11, <1>12, <2>1 DEF Passing
<1> QED BY <1>7, <1>13

\* A relay begins before the first entry of the table.
LEMMA HandleRelayedReach ==
  ASSUME Types, TableInv, HandleRelayed
  PROVE  Passing(call'[Update], clients, id)
<1> DEFINE now == call'[Update]
<1>1. /\ {"position", "reached", "except", "rebuilt"} \subseteq DOMAIN now
      /\ now.position = 0 /\ now.reached = <<>>
  <2>1. PICK object, message, from, except :
           now = Iterating(object, message, from, except, 2)
    BY DEF HandleRelayed, Popped, Types, Threads
  <2> HIDE DEF now
  <2> QED BY <2>1 DEF Iterating
<1>2. Range(<<>>) = {} /\ IsInjective(<<>>) /\ <<>> \in Seq(Conns)
  BY DEF Range, IsInjective
<1>3. Len(clients) \in Nat /\ DOMAIN clients = 1 .. Len(clients)
  BY PresentHasId
<1> QED BY <1>1, <1>2, <1>3 DEF Passing

\* A relay that is through has reached all that it should.
LEMMA SentToAllReach ==
  ASSUME Types, TableInv, ReachInv, SentToAll(Update)
  PROVE  \A k \in DOMAIN relayed' : Reaching(relayed'[k], id)
<1> DEFINE now == call[Update]
           r == [message |-> now.message, except |-> now.except,
                 stayed |-> now.present \cap Present, reached |-> now.reached,
                 rebuilt |-> now.rebuilt]
<1>1. now.at = "iterate" /\ Upcoming(now) = {} /\ relayed' = Append(relayed, r)
  BY DEF SentToAll, Update, App
<1>2. Passing(now, clients, id)
  BY <1>1 DEF ReachInv
<1>3. /\ Len(clients) \in Nat /\ DOMAIN clients = 1 .. Len(clients)
      /\ \A c \in Present : c \in Conns /\ id[c] # 0
  BY PresentHasId
<1>4. /\ r.reached = now.reached /\ r.except = now.except /\ r.stayed = now.present \cap Present
      /\ r.rebuilt = now.rebuilt
  OBVIOUS
<1> HIDE DEF r
<1>5. ASSUME ~now.rebuilt, NEW c \in Present, id[c] # now.except PROVE c \in Range(now.reached)
  <2>1. PICK i \in DOMAIN clients : clients[i] = c /\ c # Hole
    BY DEF Present
  <2>2. i <= now.position
    BY <1>1, <1>2, <1>3, <2>1 DEF Upcoming, Passing
  <2> QED BY <1>2, <1>5, <2>1, <2>2 DEF Passing
<1>6. Reaching(r, id)
  BY <1>2, <1>3, <1>4, <1>5 DEF Passing, Reaching
<1>7. \A k \in DOMAIN relayed' : relayed'[k] = r \/ (k \in DOMAIN relayed /\ relayed'[k] = relayed[k])
  <2>1. PICK S : relayed \in Seq(S)
    BY DEF Types, IsSequence
  <2>2. relayed \in Seq(S \union {r}) /\ r \in S \union {r}
    BY <2>1, SeqMonotonic
  <2> QED BY <1>1, <2>2, SeqAppend
<1> QED BY <1>6, <1>7 DEF ReachInv

\* Accepting a client may move the entries of a relay that is under way.
LEMMA AcceptReach ==
  ASSUME Types, TableInv, TableInv', ReachInv, [Next]_vars, NEW c \in Conns, Accept(c)
  PROVE  ReachInv'
<1>0. KeepsIds /\ (KeepsPlaces \/ (MovesBack /\ \E d \in Conns : Accept(d) /\ Rebuild(d)))
  BY TableSteps
<1>1. \A k \in DOMAIN relayed' : Reaching(relayed'[k], id')
  <2>1. relayed' = relayed
    BY DEF Accept, history
  <2> QED BY <1>0, <2>1, ReachingKept DEF ReachInv
<1>2. ASSUME call'[Update].at = "iterate" PROVE Passing(call'[Update], clients', id')
  <2>1. call[Update].at = "iterate" /\ Passing(call[Update], clients, id)
    BY <1>2, AcceptCall DEF ReachInv
  <2>2. \/ call'[Update] = call[Update] \/ call'[Update] = [call[Update] EXCEPT !.rebuilt = TRUE]
    BY AcceptCall
  <2>3. Passing(call'[Update], clients, id)
    <3>1. CASE call'[Update] = [call[Update] EXCEPT !.rebuilt = TRUE]
      <4> DEFINE now == call[Update]
      <4>1. Passing(now, clients, id)
        BY <2>1
      <4> HIDE DEF now
      <4>2. Passing([now EXCEPT !.rebuilt = TRUE], clients, id)
        BY <4>1 DEF Passing
      <4> QED BY <3>1, <4>2 DEF now
    <3> QED BY <2>1, <2>2, <3>1
  <2>4. CASE KeepsPlaces
    BY <1>0, <2>3, <2>4, PassingKept
  <2>5. CASE MovesBack /\ \E d \in Conns : Rebuild(d)
    <3>1. call'[Update] = [call[Update] EXCEPT !.rebuilt = TRUE]
      BY <2>1, <2>5 DEF Rebuild, Types, Threads
    <3>2. "rebuilt" \in DOMAIN call[Update]
      BY <2>1 DEF Passing
    <3>3. call'[Update].rebuilt
      BY <3>1, <3>2
    <3> QED BY <1>0, <2>3, <2>5, <3>3, PassingKept
  <2> QED BY <1>0, <2>4, <2>5
<1> QED BY <1>1, <1>2 DEF ReachInv

\* Every step keeps the invariant.
LEMMA StepReach == ASSUME Types, TableInv, TableInv', ReachInv, [Next]_vars PROVE ReachInv'
<1>1. CASE \E c \in Conns : Accept(c)
  BY <1>1, AcceptReach
<1> SUFFICES ASSUME \A c \in Conns : ~Accept(c) PROVE ReachInv'
  BY <1>1
<1>2. KeepsIds /\ KeepsPlaces
  BY TableSteps
<1>3. CASE SendNext(Update) \/ HandleRelayed
  <2>1. relayed' = relayed
    BY <1>3 DEF SendNext, HandleRelayed, history
  <2>2. \A k \in DOMAIN relayed' : Reaching(relayed'[k], id')
    BY <1>2, <2>1, ReachingKept DEF ReachInv
  <2>3. Passing(call'[Update], clients, id)
    BY <1>3, SendNextReach, HandleRelayedReach
  <2>4. Passing(call'[Update], clients', id')
    BY <1>2, <2>3, PassingKept
  <2> QED BY <2>2, <2>4 DEF ReachInv
<1>4. CASE SentToAll(Update)
  <2>1. call'[Update].at # "iterate"
    BY <1>4 DEF SentToAll, Releasing, Types, Threads
  <2>2. \A k \in DOMAIN relayed' : Reaching(relayed'[k], id')
    BY <1>2, <1>4, SentToAllReach, ReachingKept
  <2> QED BY <2>1, <2>2 DEF ReachInv
<1>5. CASE /\ relayed' = relayed
           /\ call'[Update] = call[Update] \/ call'[Update].at # "iterate"
  <2>1. \A k \in DOMAIN relayed' : Reaching(relayed'[k], id')
    BY <1>2, <1>5, ReachingKept DEF ReachInv
  <2>2. call'[Update].at = "iterate" => Passing(call'[Update], clients', id')
    BY <1>2, <1>5, PassingKept DEF ReachInv
  <2> QED BY <2>1, <2>2 DEF ReachInv
<1>6. DOMAIN call = Threads /\ Update \in Threads /\ App \in Threads /\ App # Update
  BY DEF Types, Threads, App, Update
<1>7. CASE (\E c \in Conns, kind \in Kinds : Poll(c, kind)) \/ PollQueues
  BY <1>5, <1>6, <1>7 DEF Poll, PollQueues, Acquiring, Idle, history
<1>8. CASE HandleReceived \/ HandleDisconnect
  BY <1>5, <1>6, <1>8 DEF HandleReceived, HandleDisconnect, Popped, Releasing, history
<1>9. ASSUME NEW t \in Threads, FailsToAcquire(t) \/ TableChanged(t) \/ Release(t) \/ ReleaseAppends(t)
      PROVE  ReachInv'
  <2>1. relayed' = relayed /\ \A u \in Threads \ {t} : call'[u] = call[u]
    BY <1>6, <1>9 DEF FailsToAcquire, TableChanged, Release, ReleaseAppends, history
  <2>2. call'[t].at # "iterate"
    <3>1. CASE Release(t)
      <4>1. call[t].at = "release" /\ "at" \in DOMAIN call[t]
        BY <1>9, <3>1 DEF Release, Types, CallTyped
      <4> QED BY <1>6, <3>1, <4>1 DEF Release, Released, Releasing, Idle
    <3>2. CASE ~Release(t)
      BY <1>6, <1>9, <3>2 DEF FailsToAcquire, TableChanged, Raised, ReleaseAppends, Released,
                              Releasing, Idle
    <3> QED BY <3>1, <3>2
  <2> QED BY <1>5, <1>6, <2>1, <2>2
<1>10. CASE SendNext(App) \/ SentToAll(App)
  BY <1>5, <1>6, <1>10 DEF SendNext, SentToAll, history
<1>11. CASE Create \/ SendCreated \/ UNCHANGED vars \/ PollEnds \/ \E c \in Conns : Kick(c)
  BY <1>5, <1>6, <1>11 DEF Create, SendCreated, vars, PollEnds, Kick, history
<1> QED BY <1>3, <1>4, <1>7, <1>8, <1>9, <1>10, <1>11
        DEF Next, UpdateThread, Application, Threads

-----------------------------------------------------------------------------

\* The pool exceeds its size by one object at most, although two threads may look at its
\* length before either appends; it and the queue hold objects there are; and no client ID
\* is lost or used twice, whoever removes a client while a message is sent to all.
THEOREM TypeCorrect == Spec => []TypeOK
<1> DEFINE IInv == PoolInv /\ Handling /\ PoolBound /\ TableInv
<1>1. Init => IInv
  <2> SUFFICES ASSUME Init PROVE IInv
    OBVIOUS
  <2>1. PoolBound
    <3>1. Len(pool) = 0 /\ \A t \in Threads : ~Appends(t)
      BY EmptySeq DEF Init, Appends, Idle
    <3> QED BY <3>1, RelayAssumption DEF PoolBound, Threads
  <2>2. Handling
    BY DEF Init, Handling
  <2> QED BY <2>1, <2>2, InitOwned, InitTable
<1>2. IInv /\ [Next]_vars => IInv'
  BY StepOwned, StepHandling, StepBound, StepTable DEF PoolInv
<1>3. IInv => TypeOK
  <2> SUFFICES ASSUME IInv PROVE TypeOK
    OBVIOUS
  <2>1. Range(pool) \subseteq Objects
    BY ElementOfSeq, LenProperties DEF PoolInv, Types, Range
  <2> QED BY <2>1 DEF PoolInv, Types, Handling, PoolBound, TableInv, TypeOK
<1> QED BY <1>1, <1>2, <1>3, PTL DEF Spec

\* A relay that goes through reaches nobody twice and never one that has the ID of the
\* sender, although clients are removed and accepted while the table is iterated over; and
\* unless the table is resized meanwhile it reaches every other client that was there all
\* the time: the iterator either sees that the table has changed or misses none of them.
THEOREM RelaysArrive == Spec => []RelayReaches
<1> DEFINE IInv == PoolInv /\ Handling /\ TableInv /\ ReachInv
<1>1. Init => IInv
  <2> SUFFICES ASSUME Init PROVE IInv
    OBVIOUS
  <2>1. Handling
    BY DEF Init, Handling
  <2>2. ReachInv
    BY DEF Init, ReachInv, Idle, Threads
  <2> QED BY <2>1, <2>2, InitOwned, InitTable
<1>2. IInv /\ [Next]_vars => IInv'
  BY StepOwned, StepHandling, StepTable, StepReach DEF PoolInv
<1>3. IInv => RelayReaches
  BY DEF ReachInv, Reaching, RelayReaches
<1> QED BY <1>1, <1>2, <1>3, PTL DEF Spec
=============================================================================
