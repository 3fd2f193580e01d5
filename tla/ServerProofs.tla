---------------------------- MODULE ServerProofs ----------------------------
(***************************************************************************)
(* Proofs about Server, for any number of endpoints, clients, connections  *)
(* and messages: type correctness first, then the invariants of the table. *)
(***************************************************************************)
EXTENDS Server, SequenceLemmas, FiniteSetTheorems

-----------------------------------------------------------------------------
(* Type correctness                                                        *)

\* Changing one connection in place keeps the list of connections a list of
\* connections of the same length, as __reject, setPending and
\* localDisconnect rely on.
LEMMA ExceptConnection ==
  ASSUME NEW cs \in Seq(Connection), NEW c \in 1 .. Len(cs), NEW new \in Connection
  PROVE  /\ [cs EXCEPT ![c] = new] \in Seq(Connection)
         /\ Len([cs EXCEPT ![c] = new]) = Len(cs)
         /\ \A d \in 1 .. Len(cs) : [cs EXCEPT ![c] = new][d] = IF d = c THEN new ELSE cs[d]
  BY ExceptSeq

\* The same, of the connections the server has.
LEMMA ChangedConnection ==
  ASSUME TypeOK, NEW c \in Conns, NEW new \in Connection
  PROVE  /\ [conns EXCEPT ![c] = new] \in Seq(Connection)
         /\ Len([conns EXCEPT ![c] = new]) = Len(conns)
         /\ \A d \in Conns : [conns EXCEPT ![c] = new][d] = IF d = c THEN new ELSE conns[d]
<1>1. conns \in Seq(Connection)
  BY DEF TypeOK
<1> QED BY <1>1, ExceptConnection DEF Conns

\* An emptied dictionary is a table without entries.
LEMMA EmptyTable ==
  ASSUME NEW S
  PROVE  DOMAIN <<>> = {} /\ <<>> \in [DOMAIN <<>> -> S]
<1>1. <<>> \in Seq(S) /\ Len(<<>>) = 0
  BY EmptySeq
<1>2. <<>> \in [1 .. Len(<<>>) -> S] /\ DOMAIN <<>> = 1 .. Len(<<>>)
  BY <1>1, LenProperties
<1> QED BY <1>1, <1>2

\* __reject changes nothing but the state of the connection.
LEMMA RejectConnectionType ==
  ASSUME TypeOK, NEW cs \in Seq(Connection), Len(cs) = Len(conns), NEW c \in Conns,
         RejectConnection(c, cs)
  PROVE  /\ conns' \in Seq(Connection) /\ Len(conns') = Len(conns)
         /\ UNCHANGED <<clients, availableClientIDs, welcomed>>
<1> DEFINE new == [cs[c] EXCEPT !.state = "NotConnected"]
<1>1. new \in Connection
  <2>1. cs[c] \in Connection
    BY ElementOfSeq DEF Conns
  <2> QED BY <2>1 DEF Connection
<1>2. conns' = [cs EXCEPT ![c] = new] /\ UNCHANGED <<clients, availableClientIDs, welcomed>>
  BY DEF RejectConnection, tableVars
<1> HIDE DEF new
<1> QED BY <1>1, <1>2, ExceptConnection DEF Conns

\* acceptConnection keeps the table, the free IDs and the connections well typed.
LEMMA AcceptConnectionType ==
  ASSUME TypeOK, NEW cs \in Seq(Connection), Len(cs) = Len(conns), NEW c \in Conns,
         AcceptConnection(c, cs)
  PROVE  /\ conns' \in Seq(Connection) /\ Len(conns') = Len(conns)
         /\ clients' \in [DOMAIN clients' -> Conns] /\ DOMAIN clients' \subseteq 0 .. MaxClients
         /\ availableClientIDs' \in Seq(0 .. MaxClients)
         /\ welcomed' \subseteq Endpoints
<1> USE DEF Conns
<1>1. cs[c] \in Connection
  BY ElementOfSeq
<1>2. CASE ClientCount < MaxClients
  <2> DEFINE id == IF availableClientIDs = <<>> THEN 0 ELSE Head(availableClientIDs)
  <2>1. id \in 0 .. MaxClients
    <3>1. CASE availableClientIDs = <<>>
      BY <3>1, ServerAssumption
    <3>2. CASE availableClientIDs # <<>>
      BY <3>2, HeadTailProperties DEF TypeOK
    <3> QED BY <3>1, <3>2
  <2>2. availableClientIDs' \in Seq(0 .. MaxClients)
    <3>1. CASE availableClientIDs = <<>>
      BY <1>2, <3>1, EmptySeq DEF AcceptConnection
    <3>2. CASE availableClientIDs # <<>>
      <4>1. Tail(availableClientIDs) \in Seq(0 .. MaxClients)
        BY <3>2, HeadTailProperties DEF TypeOK
      <4> QED BY <1>2, <3>2, <4>1 DEF AcceptConnection
    <3> QED BY <3>1, <3>2
  <2>3. /\ conns' = [cs EXCEPT ![c] = [cs[c] EXCEPT !.id = id]]
        /\ clients' = [i \in DOMAIN clients \union {id} |-> IF i = id THEN c ELSE clients[i]]
        /\ welcomed' = welcomed \union {cs[c].endpoint}
    BY <1>2 DEF AcceptConnection
  <2>4. [cs[c] EXCEPT !.id = id] \in Connection
    BY <1>1, <2>1 DEF Connection
  <2>5. conns' \in Seq(Connection) /\ Len(conns') = Len(conns)
    BY <2>3, <2>4, ExceptConnection
  <2>6. clients' \in [DOMAIN clients' -> Conns] /\ DOMAIN clients' \subseteq 0 .. MaxClients
    BY <2>1, <2>3 DEF TypeOK
  <2>7. welcomed' \subseteq Endpoints
    BY <1>1, <2>3 DEF TypeOK, Connection
  <2> QED BY <2>2, <2>5, <2>6, <2>7
<1>3. CASE ~(ClientCount < MaxClients)
  BY <1>3, RejectConnectionType DEF AcceptConnection, TypeOK
<1> QED BY <1>2, <1>3

\* Closing connection c, and nothing else, is what a disconnect may do to the list of
\* connections: at once, or when the event about it has been raised.
MayClose(c) == conns' \in {conns, [conns EXCEPT ![c].state = "NotConnected"]}

\* Closing a connection leaves its ID, its endpoint and all other connections.
LEMMA ClosingConnection ==
  ASSUME TypeOK, NEW c \in Conns, MayClose(c)
  PROVE  /\ conns' \in Seq(Connection) /\ Len(conns') = Len(conns) /\ Conns' = Conns
         /\ \A d \in Conns : conns'[d].id = conns[d].id /\ conns'[d].endpoint = conns[d].endpoint
         /\ \A d \in Conns : d # c => conns'[d] = conns[d]
         /\ conns' # conns => conns'[c].state = "NotConnected"
<1> DEFINE new == [conns[c] EXCEPT !.state = "NotConnected"]
<1>1. conns[c] \in Connection
  BY ElementOfSeq DEF TypeOK, Conns
<1>2. /\ new \in Connection /\ new.state = "NotConnected"
      /\ new.id = conns[c].id /\ new.endpoint = conns[c].endpoint
  BY <1>1 DEF Connection
<1>3. CASE conns' = conns
  BY <1>3 DEF TypeOK, Conns
<1>4. CASE conns' = [conns EXCEPT ![c] = new]
  <2> HIDE DEF new
  <2>1. /\ conns' \in Seq(Connection) /\ Len(conns') = Len(conns)
        /\ \A d \in 1 .. Len(conns) : conns'[d] = IF d = c THEN new ELSE conns[d]
    BY <1>2, <1>4, ExceptConnection DEF TypeOK, Conns
  <2>2. Conns' = Conns
    BY <2>1 DEF Conns
  <2> QED BY <1>2, <2>1, <2>2 DEF Conns
<1> QED BY <1>3, <1>4 DEF MayClose

\* A notice that begins is a notice of the thread, about the connection.
LEMMA BeginsType ==
  ASSUME TypeOK, NEW t \in Threads, NEW c \in Conns, NEW event \in Events, Begins(t, c, event)
  PROVE  telling' \subseteq [thread : Threads, conn : Conns, event : Events] /\ disturbed' \subseteq Conns
BY DEF Begins, TypeOK

\* localDisconnect keeps the table, the free IDs, the transport's connections,
\* the notices and the connections well typed.
LEMMA LocalDisconnectType ==
  ASSUME TypeOK, NEW t \in Threads, NEW c \in Conns, LocalDisconnect(t, c)
  PROVE  /\ conns' \in Seq(Connection) /\ Len(conns') = Len(conns)
         /\ known' \in [Endpoints -> Conns \union {None}]
         /\ clients' \in [DOMAIN clients' -> Conns] /\ DOMAIN clients' \subseteq 0 .. MaxClients
         /\ availableClientIDs' \in Seq(0 .. MaxClients)
         /\ telling' \subseteq [thread : Threads, conn : Conns, event : Events]
         /\ disturbed' \subseteq Conns
<1>1. conns' \in Seq(Connection) /\ Len(conns') = Len(conns)
  BY ClosingConnection DEF LocalDisconnect, MayClose
<1>2. known' \in [Endpoints -> Conns \union {None}]
  <2>1. conns[c] \in Connection
    BY ElementOfSeq DEF TypeOK, Conns
  <2> QED BY <2>1 DEF TypeOK, LocalDisconnect
<1>3. /\ clients' \in [DOMAIN clients' -> Conns] /\ DOMAIN clients' \subseteq 0 .. MaxClients
      /\ availableClientIDs' \in Seq(0 .. MaxClients)
  <2>1. CASE conns[c].id \in DOMAIN clients
    <3>1. Append(availableClientIDs, conns[c].id) \in Seq(0 .. MaxClients)
      BY <2>1, AppendProperties DEF TypeOK
    <3> QED BY <2>1, <3>1 DEF TypeOK, LocalDisconnect
  <2>2. CASE conns[c].id \notin DOMAIN clients
    BY <2>2 DEF TypeOK, LocalDisconnect, tableVars
  <2> QED BY <2>1, <2>2
<1>4. /\ telling' \subseteq [thread : Threads, conn : Conns, event : Events]
      /\ disturbed' \subseteq Conns
  <2>1. CASE conns[c].state \in {"Connected", "Pending"}
    <3>1. PICK event \in Events : Begins(t, c, event)
      BY <2>1 DEF LocalDisconnect, Events
    <3> QED BY <3>1, BeginsType
  <2>2. CASE conns[c].state \notin {"Connected", "Pending"}
    BY <2>2 DEF LocalDisconnect, noticeVars, TypeOK
  <2> QED BY <2>1, <2>2
<1> QED BY <1>1, <1>2, <1>3, <1>4

\* A message leaves the queue from its end: what is left is a queue.
LEMMA PopType ==
  ASSUME TypeOK, NEW kind, NEW c, Pop(kind, c)
  PROVE  /\ messageQueue' \in Seq([kind : Kinds, conn : Conns])
         /\ Len(messageQueue') = Len(messageQueue) - 1
         /\ \A i \in 1 .. Len(messageQueue') : messageQueue'[i] = messageQueue[i]
         /\ messageQueue[Len(messageQueue)] = [kind |-> kind, conn |-> c]
         /\ c \in Conns
         /\ phase' \in {"polling", "handling"}
         /\ UNCHANGED <<running, starts, wire, remote>>
<1> DEFINE M == [kind : Kinds, conn : Conns]
<1>1. messageQueue \in Seq(M) /\ messageQueue # <<>>
  BY DEF TypeOK, Pop
<1>2. /\ Len(messageQueue) \in Nat \ {0}
      /\ \A i \in 1 .. Len(messageQueue) : messageQueue[i] \in M
  BY <1>1, ElementOfSeq, EmptySeq
<1>3. messageQueue' = SubSeq(messageQueue, 1, Len(messageQueue) - 1)
  BY DEF Pop, Front
<1>4. /\ messageQueue' \in Seq(M)
      /\ Len(messageQueue') = Len(messageQueue) - 1
      /\ \A i \in 1 .. Len(messageQueue') : messageQueue'[i] = messageQueue[i]
  <2> HIDE DEF M
  <2> DEFINE n == Len(messageQueue) - 1
             front == SubSeq(messageQueue, 1, n)
  <2>1. n \in Nat /\ \A i \in 1 .. n : messageQueue[i] \in M
    BY <1>2
  <2> HIDE DEF n
  <2>2. front \in Seq(M) /\ Len(front) = n /\ \A i \in 1 .. n : front[i] = messageQueue[i]
    BY <2>1, SubSeqProperties
  <2> QED BY <1>3, <2>2 DEF n
<1>5. messageQueue[Len(messageQueue)] = [kind |-> kind, conn |-> c]
  BY DEF Pop, Last
<1>6. c \in Conns
  <2>1. messageQueue[Len(messageQueue)] \in M
    BY <1>2
  <2> QED BY <1>5, <2>1
<1> QED BY <1>4, <1>5, <1>6 DEF Pop, runVars, clientVars, TypeOK

\* Whoever is removed, the pending list stays a list of connections.
LEMMA WithoutType ==
  ASSUME TypeOK, NEW c \in Conns, Holds(pendingConnections, c)
  PROVE  Without(pendingConnections, c) \in Seq(Conns)
<1> DEFINE list == pendingConnections
           First(i) == /\ SameEndpoint(list[i], c)
                       /\ \A j \in 1 .. i - 1 : ~SameEndpoint(list[j], c)
           i == CHOOSE k \in DOMAIN list : First(k)
<1>1. /\ list \in Seq(Conns) /\ DOMAIN list = 1 .. Len(list) /\ Len(list) \in Nat
      /\ \A j \in 1 .. Len(list) : list[j] \in Conns
  BY ElementOfSeq, LenProperties DEF TypeOK
<1>2. Without(list, c) = SubSeq(list, 1, i - 1) \o SubSeq(list, i + 1, Len(list))
  BY DEF Without, RemoveAt
<1>3. \E k \in DOMAIN list : First(k)
  <2>1. PICK n \in 1 .. Len(list) : SameEndpoint(list[n], c)
    BY <1>1 DEF Holds, Range
  <2> QED
    <3> DEFINE S == {k \in 1 .. Len(list) : SameEndpoint(list[k], c)}
    <3>1. S \in SUBSET Nat /\ S # {}
      BY <1>1, <2>1
    <3>2. PICK k \in S : \A j \in S : k <= j
      BY <3>1, LeastElement
    <3>3. \A j \in 1 .. k - 1 : j \in 1 .. Len(list) /\ ~(k <= j)
      BY <1>1, <3>2
    <3>4. First(k)
      BY <3>2, <3>3
    <3> QED BY <1>1, <3>4
<1>4. i \in 1 .. Len(list)
  BY <1>1, <1>3
<1> HIDE DEF i
<1>5. /\ SubSeq(list, 1, i - 1) \in Seq(Conns)
      /\ SubSeq(list, i + 1, Len(list)) \in Seq(Conns)
  BY <1>1, <1>4, SubSeqProperties
<1> QED BY <1>2, <1>5, ConcatProperties

\* Whatever is appended, the transport's poll leaves the queue, the pending list
\* and the table about connections that exist, as no connection is ever removed.
LEMMA GrowingType ==
  ASSUME TypeOK, NEW n \in Nat, Len(conns) <= n
  PROVE  /\ Conns \subseteq 1 .. n
         /\ messageQueue \in Seq([kind : Kinds, conn : 1 .. n])
         /\ pendingConnections \in Seq(1 .. n)
         /\ clients \in [DOMAIN clients -> 1 .. n]
         /\ telling \subseteq [thread : Threads, conn : 1 .. n, event : Events]
         /\ disturbed \subseteq 1 .. n
<1>1. Len(conns) \in Nat
  BY LenProperties DEF TypeOK
<1>2. Conns \subseteq 1 .. n
  BY <1>1 DEF Conns
<1>3. messageQueue \in Seq([kind : Kinds, conn : 1 .. n])
  <2>1. [kind : Kinds, conn : Conns] \subseteq [kind : Kinds, conn : 1 .. n]
    BY <1>2
  <2> QED BY <2>1, SeqMonotonic DEF TypeOK
<1>4. pendingConnections \in Seq(1 .. n)
  BY <1>2, SeqMonotonic DEF TypeOK
<1>5. clients \in [DOMAIN clients -> 1 .. n]
  BY <1>2 DEF TypeOK
<1>6. telling \subseteq [thread : Threads, conn : 1 .. n, event : Events] /\ disturbed \subseteq 1 .. n
  BY <1>2 DEF TypeOK
<1> QED BY <1>2, <1>3, <1>4, <1>5, <1>6

\* The server's state is well typed in every reachable state, for any number of
\* endpoints and clients: no list, queue or table of server.py ever refers to a
\* connection the transport has not created.
THEOREM TypeCorrect == Spec => []TypeOK
<1>1. Init => TypeOK
  <2> SUFFICES ASSUME Init PROVE TypeOK
    OBVIOUS
  <2>1. clients \in [DOMAIN clients -> Conns] /\ DOMAIN clients \subseteq 0 .. MaxClients
    BY EmptyTable DEF Init
  <2>2. /\ conns \in Seq(Connection) /\ log \in Seq(Seq(Events)) /\ Len(log) = Len(conns)
        /\ pendingConnections \in Seq(Conns) /\ availableClientIDs \in Seq(0 .. MaxClients)
        /\ messageQueue \in Seq([kind : Kinds, conn : Conns])
    <3>1. \A S : <<>> \in Seq(S)
      BY EmptySeq
    <3>2. /\ conns = <<>> /\ log = <<>> /\ pendingConnections = <<>>
          /\ availableClientIDs = <<>> /\ messageQueue = <<>>
      BY DEF Init
    <3> QED BY <3>1, <3>2
  <2>3. starts \in 0 .. MaxStarts
    BY ServerAssumption DEF Init, ServerAssumption
  <2>4. running \in BOOLEAN /\ phase \in {"polling", "handling", "dead"}
    BY DEF Init
  <2>5. /\ known \in [Endpoints -> Conns \union {None}] /\ undecided \subseteq Conns
        /\ wire \subseteq [kind : Kinds, from : Endpoints] /\ welcomed \subseteq Endpoints
        /\ remote \in [Endpoints -> {"new", "connecting", "connected", "closed"}]
        /\ telling \subseteq [thread : Threads, conn : Conns, event : Events] /\ disturbed \subseteq Conns
    BY DEF Init
  <2> QED BY <2>1, <2>2, <2>3, <2>4, <2>5 DEF TypeOK
<1>2. TypeOK /\ [Next]_vars => TypeOK'
  <2> SUFFICES ASSUME TypeOK, [Next]_vars PROVE TypeOK'
    OBVIOUS
  <2> USE DEF runVars, tableVars, decisionVars, loopVars, clientVars, noticeVars, eventVars
  <2>0. Len(conns) \in Nat /\ \A c \in Conns : conns[c] \in Connection
    BY LenProperties, ElementOfSeq DEF TypeOK, Conns
  <2>1. ASSUME NEW ep \in Endpoints,
               ClientConnects(ep) \/ ClientRespondsWelcome(ep) \/ ClientDisconnects(ep)
        PROVE  TypeOK'
    <3>1. wire' \subseteq [kind : Kinds, from : Endpoints]
      BY <2>1 DEF TypeOK, ClientConnects, ClientRespondsWelcome, ClientDisconnects, Sends, Kinds
    <3>2. remote' \in [Endpoints -> {"new", "connecting", "connected", "closed"}]
      BY <2>1 DEF TypeOK, ClientConnects, ClientRespondsWelcome, ClientDisconnects
    <3> QED
      BY <2>1, <3>1, <3>2 DEF TypeOK, Conns, ClientConnects, ClientRespondsWelcome, ClientDisconnects
  <2>2. ASSUME NEW ep \in Endpoints, ReceiveConnect(ep)
        PROVE  TypeOK'
    <3>1. wire' \subseteq [kind : Kinds, from : Endpoints]
      BY <2>2 DEF TypeOK, ReceiveConnect, Polls
    <3>2. CASE known[ep] # None
      BY <2>2, <3>1, <3>2 DEF TypeOK, Conns, ReceiveConnect, Polls
    <3>3. CASE known[ep] = None
      <4> DEFINE n == Len(conns) + 1
                 new == [endpoint |-> ep, state |-> "Connecting", id |-> 0]
                 M == [kind : Kinds, conn : 1 .. n]
      <4>1. /\ conns' = Append(conns, new) /\ log' = Append(log, <<>>)
            /\ known' = [known EXCEPT ![ep] = n]
            /\ messageQueue' = Append(messageQueue, [kind |-> "Connect", conn |-> n])
            /\ UNCHANGED <<running, starts, clients, availableClientIDs, pendingConnections,
                           undecided, phase, remote, welcomed, telling, disturbed>>
        BY <2>2, <3>3 DEF ReceiveConnect, Polls
      <4>2. new \in Connection
        BY ServerAssumption DEF Connection
      <4>3. conns' \in Seq(Connection) /\ Len(conns') = n /\ Conns' = 1 .. n
        <5> HIDE DEF new
        <5> QED BY <2>0, <4>1, <4>2, AppendProperties DEF TypeOK, Conns
      <4>4. log' \in Seq(Seq(Events)) /\ Len(log') = n
        <5>1. <<>> \in Seq(Events)
          BY EmptySeq
        <5> QED BY <2>0, <4>1, <5>1, AppendProperties DEF TypeOK
      <4>5. /\ Conns \subseteq 1 .. n /\ messageQueue \in Seq(M)
            /\ pendingConnections \in Seq(1 .. n) /\ clients \in [DOMAIN clients -> 1 .. n]
            /\ telling \subseteq [thread : Threads, conn : 1 .. n, event : Events]
            /\ disturbed \subseteq 1 .. n
        <5>1. n \in Nat /\ Len(conns) <= n
          BY <2>0
        <5> HIDE DEF n
        <5> QED BY <5>1, GrowingType
      <4>6. messageQueue' \in Seq(M)
        <5> DEFINE m == [kind |-> "Connect", conn |-> n]
        <5>1. m \in M
          BY <2>0 DEF Kinds
        <5> HIDE DEF m, M
        <5>2. Append(messageQueue, m) \in Seq(M)
          BY <4>5, <5>1, AppendProperties
        <5> QED BY <4>1, <5>2 DEF m
      <4>7. known' \in [Endpoints -> 1 .. n \union {None}]
        BY <2>0, <4>1, <4>5 DEF TypeOK
      <4> HIDE DEF n
      <4> QED
        BY <3>1, <4>1, <4>3, <4>4, <4>5, <4>6, <4>7 DEF TypeOK
    <3> QED BY <3>2, <3>3
  <2>3. ASSUME NEW d \in wire, ReceiveOther(d)
        PROVE  TypeOK'
    <3> DEFINE c == known[d.from]
               m == [kind |-> d.kind, conn |-> c]
               M == [kind : Kinds, conn : Conns]
    <3>1. wire' \subseteq [kind : Kinds, from : Endpoints]
      BY <2>3 DEF TypeOK, ReceiveOther, Polls
    <3>2. messageQueue' \in Seq(M)
      <4>1. CASE c # None /\ conns[c].state # "NotConnected"
        <5>1. m \in M
          BY <4>1 DEF TypeOK
        <5>2. messageQueue' = Append(messageQueue, m)
          BY <2>3, <4>1 DEF ReceiveOther
        <5> HIDE DEF m
        <5> QED BY <5>1, <5>2, AppendProperties DEF TypeOK
      <4>2. CASE ~(c # None /\ conns[c].state # "NotConnected")
        BY <2>3, <4>2 DEF TypeOK, ReceiveOther
      <4> QED BY <4>1, <4>2
    <3> QED BY <2>3, <3>1, <3>2 DEF TypeOK, Conns, ReceiveOther, Polls
  <2>4. ASSUME NEW c \in Conns, HandleConnect(c)
        PROVE  TypeOK'
    <3> DEFINE pended == [conns[c] EXCEPT !.state = IF @ = "Connecting" THEN "Pending" ELSE @]
               cs == [conns EXCEPT ![c] = pended]
    <3>1. cs \in Seq(Connection) /\ Len(cs) = Len(conns)
      <4>1. pended \in Connection
        BY <2>0 DEF Connection
      <4> HIDE DEF pended
      <4> QED BY <4>1, ExceptConnection DEF TypeOK, Conns
    <3>2. cs = [conns EXCEPT ![c].state = IF @ = "Connecting" THEN "Pending" ELSE @]
      OBVIOUS
    <3> HIDE DEF cs
    <3>3. /\ messageQueue' \in Seq([kind : Kinds, conn : Conns])
          /\ phase' \in {"polling", "handling"}
          /\ UNCHANGED <<running, starts, wire, remote, known, log, telling, disturbed>>
      BY <2>4, PopType DEF HandleConnect
    <3>4. /\ conns' \in Seq(Connection) /\ Len(conns') = Len(conns)
          /\ clients' \in [DOMAIN clients' -> Conns] /\ DOMAIN clients' \subseteq 0 .. MaxClients
          /\ availableClientIDs' \in Seq(0 .. MaxClients)
          /\ welcomed' \subseteq Endpoints
          /\ pendingConnections' \in Seq(Conns) /\ undecided' \subseteq Conns
      <4>1. CASE AcceptConnection(c, cs) /\ UNCHANGED decisionVars
        BY <3>1, <4>1, AcceptConnectionType DEF TypeOK
      <4>2. CASE /\ pendingConnections' = Append(pendingConnections, c)
                 /\ undecided' = undecided \union {c}
                 /\ conns' = cs /\ UNCHANGED <<tableVars, welcomed>>
        BY <3>1, <4>2, AppendProperties DEF TypeOK
      <4>3. CASE RejectConnection(c, cs) /\ UNCHANGED decisionVars
        BY <3>1, <4>3, RejectConnectionType DEF TypeOK
      <4> QED BY <2>4, <3>2, <4>1, <4>2, <4>3 DEF HandleConnect
    <3> QED BY <3>3, <3>4 DEF TypeOK, Conns
  <2>5. ASSUME NEW c \in Conns, HandleWelcome(c)
        PROVE  TypeOK'
    <3>1. /\ messageQueue' \in Seq([kind : Kinds, conn : Conns])
          /\ phase' \in {"polling", "handling"}
          /\ UNCHANGED <<running, starts, wire, remote>>
      BY <2>5, PopType DEF HandleWelcome
    <3>2. conns' \in Seq(Connection) /\ Len(conns') = Len(conns)
      <4> DEFINE new == [conns[c] EXCEPT !.state = "Connected"]
      <4>1. new \in Connection
        BY <2>0 DEF Connection
      <4>2. conns' \in {conns, [conns EXCEPT ![c] = new]}
        BY <2>5 DEF HandleWelcome
      <4> HIDE DEF new
      <4>3. /\ [conns EXCEPT ![c] = new] \in Seq(Connection)
            /\ Len([conns EXCEPT ![c] = new]) = Len(conns)
        BY <4>1, ExceptConnection DEF TypeOK, Conns
      <4> QED BY <4>2, <4>3 DEF TypeOK
    <3>3. /\ telling' \subseteq [thread : Threads, conn : Conns, event : Events]
          /\ disturbed' \subseteq Conns
      <4>1. CASE Begins("update", c, "ClientConnected")
        <5>1. "update" \in Threads /\ "ClientConnected" \in Events
          BY DEF Threads, Events
        <5> QED BY <4>1, <5>1, BeginsType
      <4>2. CASE UNCHANGED noticeVars
        BY <4>2 DEF TypeOK
      <4> QED BY <2>5, <4>1, <4>2 DEF HandleWelcome
    <3> QED BY <2>5, <3>1, <3>2, <3>3 DEF TypeOK, Conns, HandleWelcome
  <2>6. ASSUME NEW c \in Conns, HandleDisconnect(c)
        PROVE  TypeOK'
    <3>1. "update" \in Threads
      BY DEF Threads
    <3> QED BY <2>6, <3>1, PopType, LocalDisconnectType DEF TypeOK, Conns, HandleDisconnect
  <2>7. ASSUME NEW c \in Conns, Accept(c)
        PROVE  TypeOK'
    <3>1. CASE Holds(pendingConnections, c)
      <4>1. pendingConnections' \in Seq(Conns)
        BY <2>7, <3>1, WithoutType DEF Accept
      <4> QED
        BY <2>7, <3>1, <4>1, AcceptConnectionType DEF TypeOK, Conns, Accept, Decide
    <3>2. CASE ~Holds(pendingConnections, c)
      BY <2>7, <3>2 DEF TypeOK, Conns, Accept, Decide
    <3> QED BY <3>1, <3>2
  <2>8. ASSUME NEW c \in Conns, Reject(c)
        PROVE  TypeOK'
    <3>1. CASE Holds(pendingConnections, c)
      <4>1. pendingConnections' \in Seq(Conns)
        BY <2>8, <3>1, WithoutType DEF Reject
      <4> QED
        BY <2>8, <3>1, <4>1, RejectConnectionType DEF TypeOK, Conns, Reject, Decide
    <3>2. CASE ~Holds(pendingConnections, c)
      BY <2>8, <3>2 DEF TypeOK, Conns, Reject, Decide
    <3> QED BY <3>1, <3>2
  <2>9. ASSUME NEW t \in Threads, NEW c \in Conns, LocalDisconnect(t, c),
               UNCHANGED <<runVars, decisionVars, loopVars, clientVars, welcomed, log>>
        PROVE  TypeOK'
    BY <2>9, LocalDisconnectType DEF TypeOK, Conns
  <2>10. ASSUME NEW t \in Threads, NEW c \in Conns, TimesOut(c) \/ Kick(t, c) \/ QualityDisconnect(t, c)
         PROVE  TypeOK'
    <3>1. "update" \in Threads
      BY DEF Threads
    <3> QED BY <2>9, <2>10, <3>1 DEF TimesOut, Kick, QualityDisconnect
  <2>11. CASE Start
    <3>1. [i \in 1 .. MaxClients |-> i] \in Seq(0 .. MaxClients)
      BY ServerAssumption
    <3>2. /\ pendingConnections' \in Seq(Conns)
          /\ clients' \in [DOMAIN clients' -> Conns] /\ DOMAIN clients' \subseteq 0 .. MaxClients
      BY <2>11, EmptySeq, EmptyTable DEF Start
    <3>3. starts' \in 0 .. MaxStarts
      BY <2>11, ServerAssumption DEF TypeOK, Start, ServerAssumption
    <3> QED BY <2>11, <3>1, <3>2, <3>3 DEF TypeOK, Conns, Start
  <2>12. CASE Stop
    BY <2>12, EmptySeq, EmptyTable DEF TypeOK, Conns, Stop
  <2>13. CASE UNCHANGED vars
    BY <2>13 DEF TypeOK, Conns, vars
  <2>14. ASSUME NEW t \in Threads, Finishes(t)
         PROVE  TypeOK'
    <3>1. PICK n \in Telling(t) :
            /\ telling' = telling \ {n}
            /\ log' = [log EXCEPT ![n.conn] = Append(log[n.conn], n.event)]
            /\ MayClose(n.conn)
      BY <2>14 DEF Finishes, MayClose
    <3>2. n.conn \in Conns /\ n.event \in Events
      BY DEF Telling, TypeOK
    <3>3. conns' \in Seq(Connection) /\ Len(conns') = Len(conns)
      BY <3>1, <3>2, ClosingConnection
    <3>4. log' \in Seq(Seq(Events)) /\ Len(log') = Len(log)
      <4> DEFINE new == Append(log[n.conn], n.event)
      <4>1. new \in Seq(Events)
        BY <3>2, ElementOfSeq, AppendProperties DEF TypeOK, Conns
      <4> HIDE DEF new
      <4>2. [log EXCEPT ![n.conn] = new] \in Seq(Seq(Events)) /\ Len([log EXCEPT ![n.conn] = new]) = Len(log)
        BY <3>2, <4>1, ExceptSeq DEF TypeOK, Conns
      <4> QED BY <3>1, <4>2 DEF new
    <3>5. telling' \subseteq [thread : Threads, conn : Conns, event : Events]
      BY <3>1 DEF TypeOK
    <3> QED BY <2>14, <3>3, <3>4, <3>5 DEF TypeOK, Conns, Finishes
  <2>15. ASSUME NEW t \in Threads, Raises(t)
         PROVE  TypeOK'
    <3>1. /\ telling' \subseteq [thread : Threads, conn : Conns, event : Events]
          /\ disturbed' \subseteq Conns
      BY <2>15 DEF Raises, Telling, TypeOK
    <3> QED BY <2>15, <3>1 DEF TypeOK, Conns, Raises
  <2>16. CASE UpdateRaises
    BY <2>16 DEF TypeOK, Conns, UpdateRaises
  <2> QED
    <3>1. "update" \in Threads
      BY DEF Threads
    <3> QED
      BY <2>1, <2>2, <2>3, <2>4, <2>5, <2>6, <2>7, <2>8, <2>10, <2>11, <2>12, <2>13, <2>14,
         <2>15, <2>16, <3>1
         DEF Next, Handle
<1> QED BY <1>1, <1>2, PTL DEF Spec

-----------------------------------------------------------------------------
(* The client table                                                        *)

\* Rejecting a connection leaves the table and every ID alone.
LEMMA RejectConnectionIds ==
  ASSUME TypeOK, IdsMatch,
         NEW cs \in Seq(Connection), Len(cs) = Len(conns), \A d \in Conns : cs[d].id = conns[d].id,
         NEW c \in Conns, RejectConnection(c, cs)
  PROVE  IdsMatch' /\ Range(clients') \subseteq Range(clients) \union {c}
<1> DEFINE new == [cs[c] EXCEPT !.state = "NotConnected"]
<1>1. \A d \in Conns : cs[d] \in Connection
  BY ElementOfSeq DEF Conns
<1>2. new \in Connection /\ new.id = cs[c].id
  BY <1>1 DEF Connection
<1>3. conns' = [cs EXCEPT ![c] = new] /\ clients' = clients
  BY DEF RejectConnection, tableVars
<1> HIDE DEF new
<1>4. \A d \in Conns : conns'[d] = IF d = c THEN new ELSE cs[d]
  BY <1>2, <1>3, ExceptConnection DEF Conns
<1>5. \A d \in Conns : conns'[d].id = conns[d].id
  BY <1>2, <1>4
<1> QED BY <1>3, <1>5 DEF IdsMatch, TypeOK

\* A disconnect changes no ID and adds nobody to the table.
LEMMA LocalDisconnectIds ==
  ASSUME TypeOK, IdsMatch, NEW t, NEW c \in Conns, LocalDisconnect(t, c)
  PROVE  IdsMatch' /\ Range(clients') \subseteq Range(clients)
<1>1. MayClose(c)
  BY DEF LocalDisconnect, MayClose
<1>2. DOMAIN clients' \subseteq DOMAIN clients /\ \A i \in DOMAIN clients' : clients'[i] = clients[i]
  BY DEF LocalDisconnect, tableVars
<1>3. \A d \in Conns : conns'[d].id = conns[d].id
  BY <1>1, ClosingConnection
<1>4. Range(clients') \subseteq Range(clients)
  BY <1>2 DEF Range
<1>5. IdsMatch'
  BY <1>2, <1>3 DEF IdsMatch, TypeOK
<1> QED BY <1>4, <1>5

\* Accepting a connection that is no client keeps every ID with its connection
\* and adds nobody else to the table.
LEMMA AcceptConnectionIds ==
  ASSUME TypeOK, IdsMatch,
         NEW cs \in Seq(Connection), Len(cs) = Len(conns), \A d \in Conns : cs[d].id = conns[d].id,
         NEW c \in Conns, c \notin Range(clients),
         AcceptConnection(c, cs)
  PROVE  IdsMatch' /\ Range(clients') \subseteq Range(clients) \union {c}
<1>1. \A d \in Conns : cs[d] \in Connection
  BY ElementOfSeq DEF Conns
<1>2. CASE ClientCount < MaxClients
  <2> DEFINE id == IF availableClientIDs = <<>> THEN 0 ELSE Head(availableClientIDs)
             new == [cs[c] EXCEPT !.id = id]
  <2>1. /\ conns' = [cs EXCEPT ![c] = new]
        /\ clients' = [i \in DOMAIN clients \union {id} |-> IF i = id THEN c ELSE clients[i]]
    BY <1>2 DEF AcceptConnection
  <2>2. id \in 0 .. MaxClients
    <3>1. CASE availableClientIDs = <<>>
      BY <3>1, ServerAssumption DEF ServerAssumption
    <3>2. CASE availableClientIDs # <<>>
      BY <3>2, HeadTailProperties DEF TypeOK
    <3> QED BY <3>1, <3>2
  <2> HIDE DEF id
  <2>3. new \in Connection /\ new.id = id
    BY <1>1, <2>2 DEF Connection
  <2> HIDE DEF new
  <2>4. \A d \in Conns : conns'[d] = IF d = c THEN new ELSE cs[d]
    BY <2>1, <2>3, ExceptConnection DEF Conns
  <2>5. Range(clients') \subseteq Range(clients) \union {c}
    BY <2>1 DEF Range
  <2>6. ASSUME NEW i \in DOMAIN clients'
        PROVE  conns'[clients'[i]].id = i
    <3>1. CASE i = id
      BY <2>1, <2>3, <2>4, <3>1
    <3>2. CASE i # id
      <4>1. i \in DOMAIN clients /\ clients'[i] = clients[i]
        BY <2>1, <2>6, <3>2
      <4>2. clients[i] \in Conns /\ clients[i] # c
        BY <4>1 DEF TypeOK, Range
      <4> QED BY <2>4, <4>1, <4>2 DEF IdsMatch
    <3> QED BY <3>1, <3>2
  <2> QED BY <2>5, <2>6 DEF IdsMatch
<1>3. CASE ~(ClientCount < MaxClients)
  <2>1. RejectConnection(c, cs)
    BY <1>3 DEF AcceptConnection
  <2> QED BY <2>1, RejectConnectionIds
<1> QED BY <1>2, <1>3

\* No Connect about d waits in the queue.
NotWaiting(d) == \A i \in DOMAIN messageQueue : messageQueue[i].kind = "Connect" => messageQueue[i].conn # d

\* NewOnce survives a step that takes messages from the queue only and lets
\* into the table, and into the application's hands, only connections whose
\* Connect is not waiting any more.
LEMMA NewOnceKept ==
  ASSUME TypeOK, TypeOK', NewOnce,
         Len(messageQueue') <= Len(messageQueue),
         \A i \in 1 .. Len(messageQueue') : messageQueue'[i] = messageQueue[i],
         \A d \in undecided' \union Range(clients)' :
             d \in undecided \union Range(clients) \/ NotWaiting(d)',
         undecided' \intersect Range(clients)' = {}
  PROVE  NewOnce'
<1>1. /\ DOMAIN messageQueue = 1 .. Len(messageQueue) /\ Len(messageQueue) \in Nat
      /\ DOMAIN messageQueue' = 1 .. Len(messageQueue') /\ Len(messageQueue') \in Nat
  BY LenProperties DEF TypeOK
<1>2. \A i \in DOMAIN messageQueue' : i \in DOMAIN messageQueue /\ messageQueue'[i] = messageQueue[i]
  BY <1>1
<1>3. \A i \in DOMAIN messageQueue' :
          messageQueue'[i].kind = "Connect" => messageQueue'[i].conn \notin undecided' \union Range(clients)'
  BY <1>2 DEF NewOnce, NotWaiting
<1>4. \A i, j \in DOMAIN messageQueue' :
          messageQueue'[i].kind = "Connect" /\ messageQueue'[j].kind = "Connect"
            /\ messageQueue'[i].conn = messageQueue'[j].conn => i = j
  BY <1>2 DEF NewOnce
<1> QED BY <1>3, <1>4 DEF NewOnce

\* When the last message, a Connect, is popped, no other about the same
\* connection is left, and the connection is new.
LEMMA ConnectPopped ==
  ASSUME TypeOK, TypeOK', NewOnce, NEW c \in Conns, Pop("Connect", c)
  PROVE  NotWaiting(c)' /\ c \notin undecided /\ c \notin Range(clients)
<1> DEFINE n == Len(messageQueue)
<1>1. /\ DOMAIN messageQueue = 1 .. n /\ n \in Nat \ {0}
      /\ DOMAIN messageQueue' = 1 .. Len(messageQueue')
  BY LenProperties, EmptySeq DEF TypeOK, Pop
<1>2. /\ Len(messageQueue') = n - 1
      /\ \A i \in 1 .. Len(messageQueue') : messageQueue'[i] = messageQueue[i]
      /\ messageQueue[n] = [kind |-> "Connect", conn |-> c]
  BY PopType
<1>3. \A i \in DOMAIN messageQueue' : i \in DOMAIN messageQueue /\ i # n /\ messageQueue'[i] = messageQueue[i]
  BY <1>1, <1>2
<1> HIDE DEF n
<1>4. n \in DOMAIN messageQueue /\ messageQueue[n].kind = "Connect" /\ messageQueue[n].conn = c
  BY <1>1, <1>2
<1>5. NotWaiting(c)'
  BY <1>3, <1>4 DEF NewOnce, NotWaiting
<1>6. c \notin undecided /\ c \notin Range(clients)
  BY <1>4 DEF NewOnce
<1> QED BY <1>5, <1>6

\* The connection in the table under an ID carries that ID in every reachable
\* state, although acceptConnection looks for the connection among the IDs: what
\* saves it is NewOnce, that a connection reaches acceptConnection once.
THEOREM TableIds == Spec => [](NewOnce /\ IdsMatch)
<1>1. Init => NewOnce /\ IdsMatch
  BY EmptyTable DEF Init, NewOnce, IdsMatch
<1>2. TypeOK /\ TypeOK' /\ NewOnce /\ IdsMatch /\ [Next]_vars => NewOnce' /\ IdsMatch'
  <2> SUFFICES ASSUME TypeOK, TypeOK', NewOnce, IdsMatch, [Next]_vars
               PROVE  NewOnce' /\ IdsMatch'
    OBVIOUS
  <2> USE DEF runVars, tableVars, decisionVars, loopVars, clientVars, noticeVars, eventVars
  <2>0. /\ Len(conns) \in Nat /\ \A c \in Conns : conns[c] \in Connection
        /\ Len(messageQueue) \in Nat
    BY LenProperties, ElementOfSeq DEF TypeOK, Conns
  <2>1. ASSUME UNCHANGED <<conns, clients, undecided, messageQueue>>
        PROVE  NewOnce' /\ IdsMatch'
    BY <2>1 DEF NewOnce, IdsMatch, Range
  <2>2. ASSUME NEW ep \in Endpoints, ReceiveConnect(ep)
        PROVE  NewOnce' /\ IdsMatch'
    <3>1. CASE known[ep] # None
      BY <2>1, <2>2, <3>1 DEF ReceiveConnect, Polls
    <3>2. CASE known[ep] = None
      <4> DEFINE n == Len(conns) + 1
                 m == [kind |-> "Connect", conn |-> n]
                 new == [endpoint |-> ep, state |-> "Connecting", id |-> 0]
                 M == [kind : Kinds, conn : 1 .. n]
      <4>1. /\ messageQueue' = Append(messageQueue, m) /\ UNCHANGED <<clients, undecided>>
            /\ conns' = Append(conns, new)
        BY <2>2, <3>2 DEF ReceiveConnect, Polls
      <4>2. /\ \A c \in Conns : c # n
            /\ undecided \subseteq Conns /\ Range(clients) \subseteq Conns
        BY <2>0 DEF TypeOK, Conns, Range
      <4>3. m \in M /\ messageQueue \in Seq(M) /\ n \in Nat
        <5>1. n \in Nat /\ Len(conns) <= n
          BY <2>0
        <5>2. m \in M
          BY <2>0 DEF Kinds
        <5> HIDE DEF n, m
        <5> QED BY <5>1, <5>2, GrowingType
      <4>4. m.kind = "Connect" /\ m.conn = n
        OBVIOUS
      <4> HIDE DEF m, M, n
      <4>5. /\ DOMAIN messageQueue = 1 .. Len(messageQueue)
            /\ DOMAIN messageQueue' = 1 .. Len(messageQueue) + 1
            /\ \A i \in 1 .. Len(messageQueue) : messageQueue'[i] = messageQueue[i]
            /\ messageQueue'[Len(messageQueue) + 1] = m
        BY <4>1, <4>3, AppendProperties, LenProperties
      <4>6. \A i \in DOMAIN messageQueue : messageQueue[i].conn \in Conns
        <5>1. \A i \in 1 .. Len(messageQueue) : messageQueue[i] \in [kind : Kinds, conn : Conns]
          BY ElementOfSeq DEF TypeOK
        <5> QED BY <4>5, <5>1
      <4>7. \A i \in DOMAIN messageQueue' :
              \/ i \in DOMAIN messageQueue /\ messageQueue'[i] = messageQueue[i] /\ messageQueue'[i].conn # n
              \/ i = Len(messageQueue) + 1 /\ messageQueue'[i].conn = n
        BY <2>0, <4>2, <4>4, <4>5, <4>6
      <4>8. NewOnce'
        BY <4>1, <4>2, <4>7 DEF NewOnce, Range
      <4>9. IdsMatch'
        <5>1. \A c \in Conns : conns'[c] = conns[c]
          <6>1. new \in Connection
            BY ServerAssumption DEF Connection, ServerAssumption
          <6> HIDE DEF new
          <6> QED BY <4>1, <6>1, AppendProperties DEF TypeOK, Conns
        <5> QED BY <4>1, <5>1 DEF IdsMatch, TypeOK
      <4> QED BY <4>8, <4>9
    <3> QED BY <3>1, <3>2
  <2>3. ASSUME NEW d \in wire, ReceiveOther(d)
        PROVE  NewOnce' /\ IdsMatch'
    <3> DEFINE c == known[d.from]
               m == [kind |-> d.kind, conn |-> c]
               M == [kind : Kinds, conn : Conns]
    <3>1. UNCHANGED <<conns, clients, undecided>> /\ d.kind # "Connect"
      BY <2>3 DEF ReceiveOther
    <3>2. CASE c # None /\ conns[c].state # "NotConnected"
      <4>1. messageQueue' = Append(messageQueue, m)
        BY <2>3, <3>2 DEF ReceiveOther
      <4>2. m \in M /\ m.kind # "Connect"
        BY <3>1, <3>2 DEF TypeOK
      <4> HIDE DEF m
      <4>3. messageQueue \in Seq(M)
        BY DEF TypeOK
      <4> HIDE DEF M
      <4>4. /\ DOMAIN messageQueue = 1 .. Len(messageQueue)
            /\ DOMAIN messageQueue' = 1 .. Len(messageQueue) + 1
            /\ \A i \in 1 .. Len(messageQueue) : messageQueue'[i] = messageQueue[i]
            /\ messageQueue'[Len(messageQueue) + 1] = m
        BY <4>1, <4>2, <4>3, AppendProperties, LenProperties
      <4>5. \A i \in DOMAIN messageQueue' :
              \/ i \in DOMAIN messageQueue /\ messageQueue'[i] = messageQueue[i]
              \/ messageQueue'[i].kind # "Connect"
        BY <2>0, <4>2, <4>4
      <4> QED BY <3>1, <4>5 DEF NewOnce, IdsMatch, Range
    <3>3. CASE ~(c # None /\ conns[c].state # "NotConnected")
      BY <2>1, <2>3, <3>3 DEF ReceiveOther
    <3> QED BY <3>2, <3>3
  <2>4. ASSUME NEW c \in Conns, HandleConnect(c)
        PROVE  NewOnce' /\ IdsMatch'
    <3> DEFINE pended == [conns[c] EXCEPT !.state = IF @ = "Connecting" THEN "Pending" ELSE @]
               cs == [conns EXCEPT ![c] = pended]
    <3>1. /\ cs \in Seq(Connection) /\ Len(cs) = Len(conns)
          /\ \A d \in Conns : cs[d].id = conns[d].id
      <4>1. pended \in Connection /\ pended.id = conns[c].id
        BY <2>0 DEF Connection
      <4> HIDE DEF pended
      <4>2. \A d \in Conns : cs[d] = IF d = c THEN pended ELSE conns[d]
        BY <4>1, ChangedConnection
      <4>3. cs \in Seq(Connection) /\ Len(cs) = Len(conns)
        BY <4>1, ChangedConnection
      <4> HIDE DEF cs
      <4> QED BY <4>1, <4>2, <4>3
    <3>2. cs = [conns EXCEPT ![c].state = IF @ = "Connecting" THEN "Pending" ELSE @]
      OBVIOUS
    <3> HIDE DEF cs
    <3>3. /\ Len(messageQueue') <= Len(messageQueue)
          /\ \A i \in 1 .. Len(messageQueue') : messageQueue'[i] = messageQueue[i]
      <4>1. Pop("Connect", c)
        BY <2>4 DEF HandleConnect
      <4>2. /\ Len(messageQueue') = Len(messageQueue) - 1
            /\ \A i \in 1 .. Len(messageQueue') : messageQueue'[i] = messageQueue[i]
        BY <4>1, PopType
      <4> QED BY <2>0, <4>2
    <3>4. NotWaiting(c)' /\ c \notin undecided /\ c \notin Range(clients)
      BY <2>4, ConnectPopped DEF HandleConnect
    <3>5. /\ IdsMatch'
          /\ undecided' \subseteq undecided \union {c} /\ Range(clients') \subseteq Range(clients) \union {c}
          /\ undecided' = undecided \/ Range(clients') = Range(clients)
      <4>1. CASE AcceptConnection(c, cs) /\ UNCHANGED decisionVars
        BY <3>1, <3>4, <4>1, AcceptConnectionIds
      <4>2. CASE /\ undecided' = undecided \union {c}
                 /\ conns' = cs /\ UNCHANGED tableVars
        BY <3>1, <4>2 DEF IdsMatch, TypeOK
      <4>3. CASE RejectConnection(c, cs) /\ UNCHANGED decisionVars
        BY <3>1, <4>3, RejectConnectionIds
      <4> QED BY <2>4, <3>2, <4>1, <4>2, <4>3 DEF HandleConnect
    <3>6. undecided' \intersect Range(clients)' = {}
      BY <3>4, <3>5 DEF NewOnce
    <3> QED BY <3>3, <3>4, <3>5, <3>6, NewOnceKept
  <2>5. ASSUME NEW c \in Conns, HandleWelcome(c)
        PROVE  NewOnce' /\ IdsMatch'
    <3>1. /\ Len(messageQueue') <= Len(messageQueue)
          /\ \A i \in 1 .. Len(messageQueue') : messageQueue'[i] = messageQueue[i]
      <4>1. Pop("Welcome", c)
        BY <2>5 DEF HandleWelcome
      <4>2. /\ Len(messageQueue') = Len(messageQueue) - 1
            /\ \A i \in 1 .. Len(messageQueue') : messageQueue'[i] = messageQueue[i]
        BY <4>1, PopType
      <4> QED BY <2>0, <4>2
    <3>2. UNCHANGED <<undecided, clients>>
      BY <2>5 DEF HandleWelcome
    <3>3. NewOnce'
      <4>1. \A d \in undecided' \union Range(clients)' : d \in undecided \union Range(clients)
        BY <3>2 DEF Range
      <4>2. undecided' \intersect Range(clients)' = {}
        BY <3>2 DEF NewOnce, Range
      <4> QED BY <3>1, <4>1, <4>2, NewOnceKept
    <3>4. \A d \in Conns : conns'[d].id = conns[d].id
      <4> DEFINE new == [conns[c] EXCEPT !.state = "Connected"]
      <4>1. new \in Connection /\ new.id = conns[c].id
        BY <2>0 DEF Connection
      <4>2. conns' \in {conns, [conns EXCEPT ![c] = new]}
        BY <2>5 DEF HandleWelcome
      <4> HIDE DEF new
      <4> DEFINE welcoming == [conns EXCEPT ![c] = new]
      <4>3. \A d \in Conns : welcoming[d] = IF d = c THEN new ELSE conns[d]
        BY <4>1, ChangedConnection
      <4>4. conns' \in {conns, welcoming}
        BY <4>2
      <4> HIDE DEF welcoming
      <4> QED BY <4>1, <4>3, <4>4
    <3>5. IdsMatch'
      BY <3>2, <3>4 DEF IdsMatch, TypeOK
    <3> QED BY <3>3, <3>5
  <2>6. ASSUME NEW c \in Conns, HandleDisconnect(c)
        PROVE  NewOnce' /\ IdsMatch'
    <3>1. /\ Len(messageQueue') <= Len(messageQueue)
          /\ \A i \in 1 .. Len(messageQueue') : messageQueue'[i] = messageQueue[i]
      <4>1. Pop("Disconnect", c)
        BY <2>6 DEF HandleDisconnect
      <4>2. /\ Len(messageQueue') = Len(messageQueue) - 1
            /\ \A i \in 1 .. Len(messageQueue') : messageQueue'[i] = messageQueue[i]
        BY <4>1, PopType
      <4> QED BY <2>0, <4>2
    <3>2. IdsMatch' /\ Range(clients') \subseteq Range(clients) /\ undecided' = undecided
      BY <2>6, LocalDisconnectIds DEF HandleDisconnect
    <3>3. undecided' \intersect Range(clients)' = {}
      BY <3>2 DEF NewOnce
    <3> QED BY <3>1, <3>2, <3>3, NewOnceKept
  <2>7. ASSUME NEW c \in Conns, Accept(c)
        PROVE  NewOnce' /\ IdsMatch'
    <3>1. NotWaiting(c)' /\ c \notin Range(clients)
      BY <2>7 DEF Accept, Decide, NewOnce, NotWaiting
    <3>2. /\ IdsMatch'
          /\ undecided' \subseteq undecided \ {c} /\ Range(clients') \subseteq Range(clients) \union {c}
      <4>1. CASE Holds(pendingConnections, c)
        BY <2>7, <3>1, <4>1, AcceptConnectionIds DEF Accept, Decide, TypeOK
      <4>2. CASE ~Holds(pendingConnections, c)
        BY <2>7, <4>2 DEF Accept, Decide, IdsMatch
      <4> QED BY <4>1, <4>2
    <3>3. undecided' \intersect Range(clients)' = {}
      BY <3>2 DEF NewOnce
    <3>4. messageQueue' = messageQueue
      BY <2>7 DEF Accept, Decide
    <3> QED BY <2>0, <3>1, <3>2, <3>3, <3>4, NewOnceKept
  <2>8. ASSUME NEW c \in Conns, Reject(c)
        PROVE  NewOnce' /\ IdsMatch'
    <3>1. /\ IdsMatch'
          /\ undecided' \subseteq undecided /\ Range(clients') \subseteq Range(clients)
      <4>1. CASE Holds(pendingConnections, c)
        <5>1. RejectConnection(c, conns)
          BY <2>8, <4>1 DEF Reject
        <5>2. IdsMatch'
          BY <5>1, RejectConnectionIds DEF TypeOK
        <5> QED BY <2>8, <5>1, <5>2 DEF Reject, Decide, RejectConnection
      <4>2. CASE ~Holds(pendingConnections, c)
        BY <2>8, <4>2 DEF Reject, Decide, IdsMatch
      <4> QED BY <4>1, <4>2
    <3>2. undecided' \intersect Range(clients)' = {}
      BY <3>1 DEF NewOnce
    <3>3. messageQueue' = messageQueue
      BY <2>8 DEF Reject, Decide
    <3> QED BY <2>0, <3>1, <3>2, <3>3, NewOnceKept
  <2>9. ASSUME NEW t, NEW c \in Conns, TimesOut(c) \/ Kick(t, c) \/ QualityDisconnect(t, c)
        PROVE  NewOnce' /\ IdsMatch'
    <3>1. \E s : LocalDisconnect(s, c)
      BY <2>9 DEF TimesOut, Kick, QualityDisconnect
    <3>2. undecided' = undecided /\ messageQueue' = messageQueue
      BY <2>9 DEF TimesOut, Kick, QualityDisconnect
    <3>3. IdsMatch' /\ Range(clients') \subseteq Range(clients)
      BY <3>1, LocalDisconnectIds
    <3>4. undecided' \intersect Range(clients)' = {}
      BY <3>2, <3>3 DEF NewOnce
    <3> QED BY <2>0, <3>2, <3>3, <3>4, NewOnceKept
  <2>10. ASSUME NEW t, Finishes(t)
         PROVE  NewOnce' /\ IdsMatch'
    <3>1. PICK n \in Telling(t) : MayClose(n.conn)
      BY <2>10 DEF Finishes, MayClose
    <3>2. n.conn \in Conns
      BY DEF Telling, TypeOK
    <3>3. UNCHANGED <<undecided, messageQueue, clients>>
      BY <2>10 DEF Finishes
    <3>4. IdsMatch'
      BY <3>1, <3>2, <3>3, ClosingConnection DEF IdsMatch, TypeOK
    <3>5. NewOnce'
      BY <3>3 DEF NewOnce, Range
    <3> QED BY <3>4, <3>5
  <2>14. ASSUME NEW t, UpdateRaises \/ Raises(t)
         PROVE  NewOnce' /\ IdsMatch'
    BY <2>1, <2>14 DEF UpdateRaises, Raises
  <2>11. CASE Start \/ Stop
    <3>1. clients' = <<>> /\ undecided' = undecided /\ messageQueue' = messageQueue
      BY <2>11 DEF Start, Stop
    <3>2. DOMAIN clients' = {} /\ Range(clients)' = {}
      BY <3>1, EmptyTable DEF Range
    <3>3. IdsMatch'
      BY <3>2 DEF IdsMatch
    <3> QED BY <2>0, <3>1, <3>2, <3>3, NewOnceKept
  <2>12. ASSUME NEW ep \in Endpoints,
                ClientConnects(ep) \/ ClientRespondsWelcome(ep) \/ ClientDisconnects(ep)
         PROVE  NewOnce' /\ IdsMatch'
    BY <2>1, <2>12 DEF ClientConnects, ClientRespondsWelcome, ClientDisconnects
  <2>13. CASE UNCHANGED vars
    BY <2>1, <2>13 DEF vars
  <2> QED
    BY <2>2, <2>3, <2>4, <2>5, <2>6, <2>7, <2>8, <2>9, <2>10, <2>11, <2>12, <2>13, <2>14
       DEF Next, Handle
<1> QED BY <1>1, <1>2, TypeCorrect, PTL DEF Spec

\* A connection attempt is open at one place at most, for a connection that is no
\* client: its Connect waits in the queue, or the application has to decide.  A
\* second decision about the same connection, or a late one, would give it a second ID.
THEOREM OfferedOnce == Spec => []NewOnce
BY TableIds, PTL

\* Accepting moves one ID from the free ones to the table.  There is one: with
\* fewer than MaxClients clients and none free, some ID would be nowhere.
LEMMA AcceptConnectionPartition ==
  ASSUME TypeOK, Partitioned, NEW c, NEW cs, AcceptConnection(c, cs)
  PROVE  Partitioned'
<1> DEFINE free == availableClientIDs
<1>1. free \in Seq(0 .. MaxClients) /\ DOMAIN free = 1 .. Len(free) /\ Len(free) \in Nat
  BY LenProperties DEF TypeOK
<1>2. CASE ClientCount < MaxClients
  <2>1. free # <<>>
    <3> SUFFICES ASSUME free = <<>> PROVE FALSE
      OBVIOUS
    <3>1. Range(free) = {}
      BY EmptyTable DEF Range
    <3>2. DOMAIN clients = 1 .. MaxClients
      BY <3>1 DEF Partitioned
    <3>3. Cardinality(1 .. MaxClients) = MaxClients
      BY FS_Interval, ServerAssumption DEF ServerAssumption
    <3> QED BY <1>2, <3>2, <3>3, ServerAssumption DEF ClientCount, ServerAssumption
  <2>2. /\ free' = Tail(free)
        /\ DOMAIN clients' = DOMAIN clients \union {Head(free)}
    BY <1>2, <2>1 DEF AcceptConnection
  <2>3. /\ Head(free) = free[1] /\ free' \in Seq(0 .. MaxClients)
        /\ Len(free') = Len(free) - 1 /\ DOMAIN free' = 1 .. Len(free')
        /\ \A i \in 1 .. Len(free') : free'[i] = free[i + 1]
        /\ Len(free) >= 1
    <3>1. /\ Tail(free) \in Seq(0 .. MaxClients) /\ Len(Tail(free)) = Len(free) - 1
          /\ \A i \in 1 .. Len(Tail(free)) : Tail(free)[i] = free[i + 1]
      BY <1>1, <2>1, HeadTailProperties
    <3>2. Len(free) >= 1
      BY <1>1, <2>1, EmptySeq
    <3>3. DOMAIN Tail(free) = 1 .. Len(Tail(free))
      BY <3>1, LenProperties
    <3>4. Head(free) = free[1]
      OBVIOUS
    <3> HIDE DEF free
    <3> QED BY <2>2, <3>1, <3>2, <3>3, <3>4 DEF free
  <2>4. \A i \in DOMAIN free' : i + 1 \in DOMAIN free /\ i + 1 # 1 /\ free'[i] = free[i + 1]
    BY <1>1, <2>3
  <2>5. \A j \in DOMAIN free \ {1} : j - 1 \in DOMAIN free' /\ free'[j - 1] = free[j]
    BY <1>1, <2>3
  <2>6. 1 \in DOMAIN free
    BY <1>1, <2>3
  <2>7. Range(free)' = Range(free) \ {free[1]}
    <3>1. Range(free)' \subseteq Range(free) \ {free[1]}
      BY <2>4, <2>6 DEF Range, Partitioned
    <3>2. Range(free) \ {free[1]} \subseteq Range(free)'
      BY <2>5, <2>6 DEF Range
    <3> QED BY <3>1, <3>2
  <2>8. \A i, j \in DOMAIN free' : free'[i] = free'[j] => i = j
    BY <1>1, <2>3, <2>4 DEF Partitioned
  <2>9. free[1] \in Range(free)
    BY <2>6 DEF Range
  <2> QED BY <2>2, <2>3, <2>7, <2>8, <2>9 DEF Partitioned
<1>3. CASE ~(ClientCount < MaxClients)
  BY <1>3 DEF AcceptConnection, RejectConnection, tableVars, Partitioned, Range
<1> QED BY <1>2, <1>3

\* A disconnect moves the connection's ID back, if the table has it.
LEMMA LocalDisconnectPartition ==
  ASSUME TypeOK, Partitioned, NEW t, NEW c, LocalDisconnect(t, c)
  PROVE  Partitioned'
<1> DEFINE free == availableClientIDs
           id == conns[c].id
<1>1. free \in Seq(0 .. MaxClients) /\ DOMAIN free = 1 .. Len(free) /\ Len(free) \in Nat
  BY LenProperties DEF TypeOK
<1>2. CASE id \in DOMAIN clients
  <2>1. free' = Append(free, id) /\ DOMAIN clients' = DOMAIN clients \ {id}
    BY <1>2 DEF LocalDisconnect
  <2>2. id \in 0 .. MaxClients /\ id \notin Range(free)
    BY <1>2 DEF TypeOK, Partitioned
  <2> HIDE DEF id
  <2>3. /\ DOMAIN free' = 1 .. Len(free) + 1
        /\ \A i \in DOMAIN free : free'[i] = free[i]
        /\ free'[Len(free) + 1] = id
    BY <1>1, <2>1, <2>2, AppendProperties, LenProperties
  <2>4. \A i \in DOMAIN free' : (i \in DOMAIN free /\ free'[i] = free[i]) \/ (i = Len(free) + 1 /\ free'[i] = id)
    BY <1>1, <2>3
  <2>5. DOMAIN free \subseteq DOMAIN free' /\ Len(free) + 1 \in DOMAIN free'
    BY <1>1, <2>3
  <2>6. Range(free)' = Range(free) \union {id}
    <3>1. Range(free)' \subseteq Range(free) \union {id}
      BY <2>4 DEF Range
    <3>2. Range(free) \union {id} \subseteq Range(free)'
      BY <2>3, <2>5 DEF Range
    <3> QED BY <3>1, <3>2
  <2>7. \A i, j \in DOMAIN free' : free'[i] = free'[j] => i = j
    BY <2>2, <2>4 DEF Partitioned, Range
  <2> QED BY <1>2, <2>1, <2>2, <2>6, <2>7 DEF Partitioned, id
<1>3. CASE id \notin DOMAIN clients
  BY <1>3 DEF LocalDisconnect, tableVars, Partitioned, Range
<1> QED BY <1>2, <1>3

\* While the server runs, the client IDs are partitioned into the free ones and
\* those in use, in every reachable state and for every MaxClients: no ID is ever
\* lost or handed out twice, however connections come and go, and "No available
\* client IDs, assigned 0!" is never logged.
THEOREM ClientIds == Spec => []IdPartition
<1>1. Init => IdPartition
  BY DEF Init, IdPartition
<1>2. TypeOK /\ IdPartition /\ [Next]_vars => IdPartition'
  <2> SUFFICES ASSUME TypeOK, IdPartition, [Next]_vars, running'
               PROVE  Partitioned'
    BY DEF IdPartition
  <2> USE DEF runVars, tableVars, decisionVars, loopVars, clientVars, noticeVars, eventVars
  <2>1. ASSUME UNCHANGED <<running, clients, availableClientIDs>>
        PROVE  Partitioned'
    BY <2>1 DEF IdPartition, Partitioned, Range
  <2>2. ASSUME NEW c \in Conns, HandleConnect(c)
        PROVE  Partitioned'
    <3>1. Partitioned
      BY <2>2 DEF HandleConnect, Pop, IdPartition
    <3>2. \/ \E cs : AcceptConnection(c, cs)
          \/ UNCHANGED tableVars
      BY <2>2 DEF HandleConnect, RejectConnection
    <3>3. CASE UNCHANGED tableVars
      BY <3>1, <3>3 DEF Partitioned, Range
    <3> QED BY <3>1, <3>2, <3>3, AcceptConnectionPartition
  <2>3. ASSUME NEW c \in Conns, Accept(c)
        PROVE  Partitioned'
    <3>1. Partitioned
      BY <2>3 DEF Accept, Decide, IdPartition
    <3>2. CASE Holds(pendingConnections, c)
      BY <2>3, <3>1, <3>2, AcceptConnectionPartition DEF Accept
    <3>3. CASE ~Holds(pendingConnections, c)
      BY <2>3, <3>1, <3>3 DEF Accept, Partitioned, Range
    <3> QED BY <3>2, <3>3
  <2>4. ASSUME NEW t, NEW c, LocalDisconnect(t, c), UNCHANGED running
        PROVE  Partitioned'
    BY <2>4, LocalDisconnectPartition DEF IdPartition
  <2>5. ASSUME NEW t, NEW c \in Conns,
               HandleDisconnect(c) \/ TimesOut(c) \/ Kick(t, c) \/ QualityDisconnect(t, c)
        PROVE  Partitioned'
    BY <2>4, <2>5 DEF HandleDisconnect, Pop, TimesOut, Kick, QualityDisconnect
  <2>6. ASSUME NEW t, UpdateRaises \/ Finishes(t) \/ Raises(t)
        PROVE  Partitioned'
    BY <2>1, <2>6 DEF UpdateRaises, Finishes, Raises
  <2>7. CASE Start
    <3>1. availableClientIDs' = [i \in 1 .. MaxClients |-> i] /\ clients' = <<>>
      BY <2>7 DEF Start
    <3>2. DOMAIN clients' = {}
      BY <3>1, EmptyTable
    <3>3. Range(availableClientIDs)' = 1 .. MaxClients
      BY <3>1 DEF Range
    <3> QED BY <3>1, <3>2, <3>3 DEF Partitioned
  <2>8. CASE Stop
    BY <2>8 DEF Stop
  <2>9. ASSUME NEW c \in Conns, HandleWelcome(c)
         PROVE  Partitioned'
    BY <2>1, <2>9 DEF HandleWelcome, Pop
  <2>10. ASSUME NEW c \in Conns, Reject(c)
         PROVE  Partitioned'
    BY <2>1, <2>10 DEF Reject, Decide, RejectConnection
  <2>11. CASE UNCHANGED vars
    BY <2>1, <2>11 DEF vars
  <2>12. ASSUME NEW ep \in Endpoints,
                \/ ClientConnects(ep) \/ ClientRespondsWelcome(ep) \/ ClientDisconnects(ep)
                \/ ReceiveConnect(ep)
         PROVE  Partitioned'
    BY <2>1, <2>12 DEF ClientConnects, ClientRespondsWelcome, ClientDisconnects, ReceiveConnect
  <2>13. ASSUME NEW d \in wire, ReceiveOther(d)
         PROVE  Partitioned'
    BY <2>1, <2>13 DEF ReceiveOther
  <2> QED
    BY <2>2, <2>3, <2>5, <2>6, <2>7, <2>8, <2>9, <2>10, <2>11, <2>12, <2>13 DEF Next, Handle
<1> QED BY <1>1, <1>2, TypeCorrect, PTL DEF Spec

-----------------------------------------------------------------------------
(* The events                                                              *)

Announces(n) == n.event = "ClientConnected"
Announcing(c) == \E n \in About(c) : Announces(n)
Unheard(c) == \A i \in DOMAIN log[c] : log[c][i] # "ClientConnected"
Early(c) == conns[c].state \in {"Connecting", "Pending"}

\* Only the update thread announces a connection, only one that was welcomed, and
\* only if it has not done so before, however many notices there are about it.
AnnouncedOnce(c) ==
    /\ \A n \in About(c) : Announces(n) => n.thread = "update"
    /\ Early(c) => ~Announcing(c)
    /\ Early(c) \/ Announcing(c) => Unheard(c)
    /\ \A i, j \in DOMAIN log[c] : log[c][i] = "ClientConnected" /\ log[c][j] = "ClientConnected" => i = j

\* What the application has heard of a connection no notice is under way about, by
\* the connection's state.
FitsState(c) ==
    /\ Early(c) => log[c] = <<>>
    /\ conns[c].state = "Connected" => log[c] = <<"ClientConnected">>
    /\ log[c] \in {<<>>, <<"ClientConnected">>, <<"ConnectionFailed">>,
                    <<"ClientConnected", "ClientDisconnected">>}

\* What it has heard before notice n.
FitsNotice(c, n) ==
    /\ Announces(n) => log[c] = <<>> /\ ~Early(c)
    /\ n.event = "ConnectionFailed" => log[c] = <<>> /\ conns[c].state # "Connected"
    /\ n.event = "ClientDisconnected" => log[c] = <<"ClientConnected">> /\ ~Early(c)

\* There is no more than one notice about a connection, if none was overtaken.
Fits(c) ==
    /\ About(c) = {} => FitsState(c)
    /\ \A n \in About(c) : About(c) = {n} /\ FitsNotice(c, n)

Told(c) == AnnouncedOnce(c) /\ (c \notin disturbed => Fits(c))
EventsByState == \A c \in Conns : Told(c)

\* A connection may be closed, and a new one become pending, without an event.
LEMMA ToldKept ==
  ASSUME NEW c, Told(c), About(c)' = About(c), log'[c] = log[c],
         c \in disturbed => c \in disturbed',
         \/ conns'[c].state \in {conns[c].state, "NotConnected"}
         \/ conns[c].state = "Connecting" /\ conns'[c].state = "Pending"
  PROVE  Told(c)'
<1>1. /\ Early(c)' => Early(c)
      /\ conns'[c].state = "Connected" => conns[c].state = "Connected"
  BY DEF Early
<1>2. (Announcing(c)' <=> Announcing(c)) /\ (Unheard(c)' <=> Unheard(c))
  BY DEF Announcing, Unheard, Announces
<1>3. AnnouncedOnce(c)'
  BY <1>1, <1>2 DEF AnnouncedOnce, Told, Announces
<1>4. Fits(c) => Fits(c)'
  BY <1>1 DEF Fits, FitsState, FitsNotice, Announces
<1> QED BY <1>3, <1>4 DEF Told

\* So a step that does nothing else, to any connection, keeps what was told.
LEMMA EventsKept ==
  ASSUME EventsByState, Len(conns') = Len(conns), UNCHANGED <<telling, disturbed, log>>,
         \A d \in Conns : \/ conns'[d].state \in {conns[d].state, "NotConnected"}
                          \/ conns[d].state = "Connecting" /\ conns'[d].state = "Pending"
  PROVE  EventsByState'
<1>1. Conns' = Conns
  BY DEF Conns
<1>2. \A c \in Conns : About(c)' = About(c)
  BY DEF About
<1>3. \A c \in Conns : Told(c)'
  BY <1>2, ToldKept DEF EventsByState
<1> QED BY <1>1, <1>3 DEF EventsByState

\* A notice that begins is one more about its connection, or the only one.
LEMMA BeginsAbout ==
  ASSUME NEW t, NEW c, NEW event, Begins(t, c, event)
  PROVE  /\ \E n : /\ n.thread = t /\ n.event = event
                   /\ About(c)' = About(c) \union {n}
         /\ c \notin disturbed' => About(c) = {} /\ c \notin disturbed
         /\ \A d : d # c => About(d)' = About(d) /\ (d \in disturbed' <=> d \in disturbed)
<1> DEFINE n == [thread |-> t, conn |-> c, event |-> event]
<1>1. n.thread = t /\ n.conn = c /\ n.event = event
  OBVIOUS
<1>2. telling' = telling \union {n}
  BY DEF Begins
<1> HIDE DEF n
<1>3. About(c)' = About(c) \union {n}
  BY <1>1, <1>2 DEF About
<1>4. \A d : d # c => About(d)' = About(d)
  BY <1>1, <1>2 DEF About
<1>5. disturbed' = IF About(c) = {} THEN disturbed ELSE disturbed \union {c}
  BY DEF Begins
<1> QED BY <1>1, <1>3, <1>4, <1>5

\* Rejecting closes the connection and says nothing.
LEMMA RejectConnectionEvents ==
  ASSUME NEW cs \in Seq(Connection), NEW c \in 1 .. Len(cs), RejectConnection(c, cs)
  PROVE  /\ Len(conns') = Len(cs)
         /\ \A d \in 1 .. Len(cs) : conns'[d].state \in {cs[d].state, "NotConnected"}
<1> DEFINE new == [cs[c] EXCEPT !.state = "NotConnected"]
<1>1. cs[c] \in Connection
  BY ElementOfSeq
<1>2. new \in Connection /\ new.state = "NotConnected"
  BY <1>1 DEF Connection
<1>3. conns' = [cs EXCEPT ![c] = new]
  BY DEF RejectConnection
<1> HIDE DEF new
<1>4. Len(conns') = Len(cs) /\ \A d \in 1 .. Len(cs) : conns'[d] = IF d = c THEN new ELSE cs[d]
  BY <1>2, <1>3, ExceptConnection
<1> QED BY <1>2, <1>4

\* Accepting changes the state of a connection only if it ends in rejecting it.
LEMMA AcceptConnectionEvents ==
  ASSUME TypeOK, NEW cs \in Seq(Connection), NEW c \in 1 .. Len(cs), AcceptConnection(c, cs)
  PROVE  /\ Len(conns') = Len(cs)
         /\ \A d \in 1 .. Len(cs) : conns'[d].state \in {cs[d].state, "NotConnected"}
<1>1. CASE ClientCount < MaxClients
  <2> DEFINE id == IF availableClientIDs = <<>> THEN 0 ELSE Head(availableClientIDs)
             new == [cs[c] EXCEPT !.id = id]
  <2>1. conns' = [cs EXCEPT ![c] = new]
    BY <1>1 DEF AcceptConnection
  <2>2. id \in 0 .. MaxClients
    <3>1. CASE availableClientIDs = <<>>
      BY <3>1, ServerAssumption DEF ServerAssumption
    <3>2. CASE availableClientIDs # <<>>
      BY <3>2, HeadTailProperties DEF TypeOK
    <3> QED BY <3>1, <3>2
  <2> HIDE DEF id
  <2>3. cs[c] \in Connection
    BY ElementOfSeq
  <2>4. new \in Connection /\ new.state = cs[c].state
    BY <2>2, <2>3 DEF Connection
  <2> HIDE DEF new
  <2>5. Len(conns') = Len(cs) /\ \A d \in 1 .. Len(cs) : conns'[d] = IF d = c THEN new ELSE cs[d]
    BY <2>1, <2>4, ExceptConnection
  <2> QED BY <2>4, <2>5
<1>2. CASE ~(ClientCount < MaxClients)
  BY <1>2, RejectConnectionEvents DEF AcceptConnection
<1> QED BY <1>1, <1>2

\* Appending to a history of one event gives a history of two.
LEMMA AppendSecond ==
  ASSUME NEW S, NEW a \in S, NEW b \in S
  PROVE  <<a, b>> = Append(<<a>>, b)
  OBVIOUS

\* What appending an event to the possible histories gives.
LEMMA AppendEvents ==
  /\ Append(<<>>, "ClientConnected") = <<"ClientConnected">>
  /\ Append(<<>>, "ConnectionFailed") = <<"ConnectionFailed">>
  /\ Append(<<"ClientConnected">>, "ClientDisconnected") = <<"ClientConnected", "ClientDisconnected">>
<1>1. Append(<<>>, "ClientConnected") = <<"ClientConnected">>
  OBVIOUS
<1>2. Append(<<>>, "ConnectionFailed") = <<"ConnectionFailed">>
  OBVIOUS
<1>3. Append(<<"ClientConnected">>, "ClientDisconnected") = <<"ClientConnected", "ClientDisconnected">>
  <2>1. "ClientConnected" \in Events /\ "ClientDisconnected" \in Events
    BY DEF Events
  <2> QED BY <2>1, AppendSecond
<1> QED BY <1>1, <1>2, <1>3

\* Appending to a history adds one event at its end.
LEMMA AppendedEvent ==
  ASSUME NEW s \in Seq(Events), NEW event \in Events
  PROVE  /\ DOMAIN s = 1 .. Len(s) /\ Len(s) \in Nat
         /\ DOMAIN Append(s, event) = 1 .. Len(s) + 1
         /\ \A i \in DOMAIN s : Append(s, event)[i] = s[i]
         /\ Append(s, event)[Len(s) + 1] = event
<1>1. DOMAIN s = 1 .. Len(s) /\ Len(s) \in Nat
  BY LenProperties
<1>2. /\ Append(s, event) \in Seq(Events) /\ Len(Append(s, event)) = Len(s) + 1
      /\ \A i \in 1 .. Len(s) : Append(s, event)[i] = s[i]
      /\ Append(s, event)[Len(s) + 1] = event
  BY AppendProperties
<1>3. DOMAIN Append(s, event) = 1 .. Len(Append(s, event))
  BY <1>2, LenProperties
<1> QED BY <1>1, <1>2, <1>3

\* A disconnect begins the notice that fits the state, or closes the connection.
LEMMA LocalDisconnectEvents ==
  ASSUME TypeOK, EventsByState, NEW t, NEW c \in Conns, LocalDisconnect(t, c), log' = log
  PROVE  EventsByState'
<1>1. MayClose(c)
  BY DEF LocalDisconnect, MayClose
<1>2. /\ Conns' = Conns /\ Len(conns') = Len(conns)
      /\ \A d \in Conns : d # c => conns'[d] = conns[d]
      /\ conns' # conns => conns'[c].state = "NotConnected"
  BY <1>1, ClosingConnection
<1>3. CASE conns[c].state \notin {"Connected", "Pending"}
  <2>1. UNCHANGED <<telling, disturbed>>
    BY <1>3 DEF LocalDisconnect, noticeVars
  <2>2. \A d \in Conns : conns'[d].state \in {conns[d].state, "NotConnected"}
    BY <1>2
  <2> QED BY <1>2, <2>1, <2>2, EventsKept
<1>4. CASE conns[c].state \in {"Connected", "Pending"}
  <2> DEFINE event == IF conns[c].state = "Connected" THEN "ClientDisconnected" ELSE "ConnectionFailed"
  <2>1. Begins(t, c, event) /\ conns' = conns
    BY <1>4 DEF LocalDisconnect
  <2>2. /\ event # "ClientConnected"
        /\ event = "ClientDisconnected" => conns[c].state = "Connected"
        /\ event = "ConnectionFailed" => conns[c].state = "Pending"
        /\ event \in {"ClientDisconnected", "ConnectionFailed"}
    BY <1>4
  <2> HIDE DEF event
  <2>3. /\ \E n : /\ n.thread = t /\ n.event = event
                  /\ About(c)' = About(c) \union {n}
        /\ c \notin disturbed' => About(c) = {} /\ c \notin disturbed
        /\ \A d : d # c => About(d)' = About(d) /\ (d \in disturbed' <=> d \in disturbed)
    BY <2>1, BeginsAbout
  <2>4. PICK n : n.event = event /\ About(c)' = About(c) \union {n}
    BY <2>3
  <2>5. Told(c)
    BY DEF EventsByState
  <2>6. (Early(c)' <=> Early(c)) /\ (Unheard(c)' <=> Unheard(c))
    BY <2>1 DEF Early, Unheard
  <2>7. Announcing(c)' <=> Announcing(c)
    BY <2>2, <2>4 DEF Announcing, Announces
  <2>8. AnnouncedOnce(c)'
    <3>1. AnnouncedOnce(c)
      BY <2>5 DEF Told
    <3> QED BY <2>2, <2>4, <2>6, <2>7, <3>1 DEF AnnouncedOnce, Announces
  <2>9. ASSUME c \notin disturbed' PROVE Fits(c)'
    <3>1. About(c) = {} /\ FitsState(c)
      BY <2>3, <2>5, <2>9 DEF Told, Fits
    <3>2. About(c)' = {n}
      BY <2>4, <3>1
    <3>3. FitsNotice(c, n)'
      BY <2>1, <2>2, <2>4, <3>1 DEF FitsNotice, FitsState, Announces, Early
    <3> QED BY <3>2, <3>3 DEF Fits
  <2>10. \A d \in Conns : d # c => Told(d)'
    BY <2>1, <2>3, ToldKept DEF EventsByState
  <2>11. Told(c)'
    BY <2>8, <2>9 DEF Told
  <2> QED BY <1>2, <2>10, <2>11 DEF EventsByState
<1> QED BY <1>3, <1>4

\* When its notice ends, the event is raised after what was heard before.
LEMMA FinishesEvents ==
  ASSUME TypeOK, EventsByState, NEW t, Finishes(t)
  PROVE  EventsByState'
<1>1. PICK n \in Telling(t) :
        /\ telling' = telling \ {n}
        /\ log' = [log EXCEPT ![n.conn] = Append(log[n.conn], n.event)]
        /\ conns' = IF n.event = "ClientConnected"
                    THEN conns ELSE [conns EXCEPT ![n.conn].state = "NotConnected"]
        /\ disturbed' = disturbed
  BY DEF Finishes
<1>0. PICK c : c = n.conn
  OBVIOUS
<1>2. /\ n \in [thread : Threads, conn : Conns, event : Events]
      /\ n \in About(c) /\ c \in Conns /\ n.event \in Events
  BY <1>0 DEF Telling, About, TypeOK
<1>3. MayClose(c)
  BY <1>0, <1>1 DEF MayClose
<1>4. c \in DOMAIN log /\ log[c] \in Seq(Events)
  BY <1>2, LenProperties, ElementOfSeq DEF TypeOK, Conns
<1>5. /\ log'[c] = Append(log[c], n.event)
      /\ \A d \in Conns : d # c => log'[d] = log[d]
  BY <1>0, <1>1, <1>4
<1>6. /\ Conns' = Conns
      /\ \A d \in Conns : d # c => conns'[d] = conns[d]
      /\ conns' # conns => conns'[c].state = "NotConnected"
  BY <1>2, <1>3, ClosingConnection
<1>7. About(c)' = About(c) \ {n} /\ \A d : d # c => About(d)' = About(d)
  BY <1>0, <1>1 DEF About
<1>8. Told(c)
  BY <1>2 DEF EventsByState
<1> DEFINE old == log[c]
           new == log'[c]
<1>9. /\ DOMAIN old = 1 .. Len(old) /\ Len(old) \in Nat /\ DOMAIN new = 1 .. Len(old) + 1
      /\ \A i \in DOMAIN old : new[i] = old[i]
      /\ new[Len(old) + 1] = n.event
  BY <1>2, <1>4, <1>5, AppendedEvent
<1> HIDE DEF old, new
<1>10. \A i \in DOMAIN new : \/ i \in DOMAIN old /\ new[i] = old[i]
                             \/ i = Len(old) + 1 /\ i \notin DOMAIN old /\ new[i] = n.event
  BY <1>9
<1>11. ASSUME Announces(n) PROVE Told(c)'
  <2>1. conns' = conns
    BY <1>1, <1>11 DEF Announces
  <2>2. AnnouncedOnce(c) /\ Announcing(c)
    BY <1>2, <1>8, <1>11 DEF Told, Announcing
  <2>3. \A m \in About(c) : Announces(m) => m = n
    <3>1. SUFFICES ASSUME NEW m \in About(c), Announces(m) PROVE m = n
      OBVIOUS
    <3>2. m.thread = "update" /\ n.thread = "update"
      BY <1>2, <1>11, <2>2, <3>1 DEF AnnouncedOnce
    <3>3. m \in [thread : Threads, conn : Conns, event : Events] /\ m.conn = c
      BY <3>1 DEF About, TypeOK
    <3> QED BY <1>0, <1>2, <1>11, <3>1, <3>2, <3>3 DEF Announces
  <2>4. ~Announcing(c)'
    BY <1>7, <2>3 DEF Announcing, Announces
  <2>5. ~Early(c) /\ ~Early(c)'
    BY <2>1, <2>2 DEF AnnouncedOnce, Early
  <2>6. \A i \in DOMAIN old : old[i] # "ClientConnected"
    BY <2>2 DEF AnnouncedOnce, Unheard, old
  <2>7. \A i, j \in DOMAIN new : new[i] = "ClientConnected" /\ new[j] = "ClientConnected" => i = j
    BY <1>10, <2>6
  <2>8. AnnouncedOnce(c)'
    <3>1. \A m \in About(c)' : Announces(m)' => m.thread = "update"
      BY <1>7, <2>2 DEF AnnouncedOnce, Announces
    <3> QED BY <2>4, <2>5, <2>7, <3>1 DEF AnnouncedOnce, new
  <2>9. ASSUME c \notin disturbed PROVE Fits(c)'
    <3>1. About(c) = {n} /\ FitsNotice(c, n)
      BY <1>2, <1>8, <2>9 DEF Told, Fits
    <3>2. About(c)' = {}
      BY <1>7, <3>1
    <3>3. log'[c] = <<"ClientConnected">>
      BY <1>5, <1>11, <3>1, AppendEvents DEF FitsNotice, Announces
    <3>4. FitsState(c)'
      BY <2>5, <3>3 DEF FitsState
    <3> QED BY <3>2, <3>4 DEF Fits
  <2> QED BY <1>1, <2>8, <2>9 DEF Told
<1>12. ASSUME ~Announces(n) PROVE Told(c)'
  <2>1. conns'[c].state = "NotConnected"
    <3>1. conns[c] \in Connection
      BY <1>2, ElementOfSeq DEF TypeOK, Conns
    <3> DEFINE closed == [conns[c] EXCEPT !.state = "NotConnected"]
    <3>2. closed \in Connection /\ closed.state = "NotConnected"
      BY <3>1 DEF Connection
    <3>3. conns' = [conns EXCEPT ![c] = closed]
      BY <1>0, <1>1, <1>12 DEF Announces
    <3> HIDE DEF closed
    <3> QED BY <1>2, <3>2, <3>3, ExceptConnection DEF TypeOK, Conns
  <2>2. ~Early(c)'
    BY <2>1 DEF Early
  <2>3. Announcing(c)' => Announcing(c)
    BY <1>7 DEF Announcing, Announces
  <2>4. AnnouncedOnce(c)
    BY <1>8 DEF Told
  <2>5. Announcing(c) => Unheard(c)'
    <3>1. Announcing(c) => \A i \in DOMAIN old : old[i] # "ClientConnected"
      BY <2>4 DEF AnnouncedOnce, Unheard, old
    <3>2. Announcing(c) => \A i \in DOMAIN new : new[i] # "ClientConnected"
      BY <1>10, <1>12, <3>1 DEF Announces
    <3> QED BY <3>2 DEF Unheard, new
  <2>6. \A i, j \in DOMAIN new : new[i] = "ClientConnected" /\ new[j] = "ClientConnected" => i = j
    <3>1. \A i, j \in DOMAIN old : old[i] = "ClientConnected" /\ old[j] = "ClientConnected" => i = j
      BY <2>4 DEF AnnouncedOnce, old
    <3> QED BY <1>10, <1>12, <3>1 DEF Announces
  <2>7. AnnouncedOnce(c)'
    <3>1. \A m \in About(c)' : Announces(m)' => m.thread = "update"
      BY <1>7, <2>4 DEF AnnouncedOnce, Announces
    <3> QED BY <2>2, <2>3, <2>5, <2>6, <3>1 DEF AnnouncedOnce, new
  <2>8. ASSUME c \notin disturbed PROVE Fits(c)'
    <3>1. About(c) = {n} /\ FitsNotice(c, n)
      BY <1>2, <1>8, <2>8 DEF Told, Fits
    <3>2. About(c)' = {}
      BY <1>7, <3>1
    <3>3. log'[c] \in {<<"ConnectionFailed">>, <<"ClientConnected", "ClientDisconnected">>}
      <4>1. CASE n.event = "ConnectionFailed"
        BY <1>5, <3>1, <4>1, AppendEvents DEF FitsNotice
      <4>2. CASE n.event = "ClientDisconnected"
        BY <1>5, <3>1, <4>2, AppendEvents DEF FitsNotice
      <4> QED BY <1>2, <1>12, <4>1, <4>2 DEF Events, Announces
    <3>4. FitsState(c)'
      BY <2>1, <2>2, <3>3 DEF FitsState
    <3> QED BY <3>2, <3>4 DEF Fits
  <2> QED BY <1>1, <2>7, <2>8 DEF Told
<1>13. \A d \in Conns : d # c => Told(d)'
  BY <1>1, <1>5, <1>6, <1>7, ToldKept DEF EventsByState
<1> QED BY <1>6, <1>11, <1>12, <1>13 DEF EventsByState

\* A connection a notice is lost about is disturbed; the others hear as before.
LEMMA RaisesEvents ==
  ASSUME EventsByState, NEW t, Raises(t)
  PROVE  EventsByState'
<1>1. /\ telling' = telling \ Telling(t)
      /\ disturbed' = disturbed \union {n.conn : n \in Telling(t)}
      /\ UNCHANGED <<conns, log>>
  BY DEF Raises
<1>2. SUFFICES ASSUME NEW c \in Conns PROVE Told(c)'
  BY <1>1 DEF EventsByState, Conns
<1>3. Told(c)
  BY DEF EventsByState
<1>4. CASE c \in disturbed'
  <2>1. About(c)' \subseteq About(c)
    BY <1>1 DEF About
  <2>2. (Early(c)' <=> Early(c)) /\ (Unheard(c)' <=> Unheard(c)) /\ (Announcing(c)' => Announcing(c))
    BY <1>1, <2>1 DEF Early, Unheard, Announcing, Announces
  <2>3. AnnouncedOnce(c)'
    BY <1>1, <1>3, <2>1, <2>2 DEF Told, AnnouncedOnce, Announces
  <2> QED BY <1>4, <2>3 DEF Told
<1>5. CASE c \notin disturbed'
  <2>1. About(c)' = About(c)
    BY <1>1, <1>5 DEF About, Telling
  <2> QED BY <1>1, <1>3, <2>1, <1>5, ToldKept
<1> QED BY <1>4, <1>5

\* The application hears of a connection in order: it connects and then
\* disconnects, or it fails without having connected, each at most once, unless a
\* notice about it was lost or overtaken by another.  Even then it is announced
\* once at most, whatever the threads do and wherever an exception ends a notice.
THEOREM OrderedEvents == Spec => []EventsInOrder
<1>1. Init => EventsByState
  BY EmptySeq DEF Init, EventsByState, Conns
<1>2. TypeOK /\ TypeOK' /\ EventsByState /\ [Next]_vars => EventsByState'
  <2> SUFFICES ASSUME TypeOK, TypeOK', EventsByState, [Next]_vars
               PROVE  EventsByState'
    OBVIOUS
  <2> USE DEF runVars, tableVars, decisionVars, loopVars, clientVars, noticeVars, eventVars
  <2>0. Len(conns) \in Nat /\ \A c \in Conns : conns[c] \in Connection
    BY LenProperties, ElementOfSeq DEF TypeOK, Conns
  <2>1. ASSUME UNCHANGED <<conns, log, telling, disturbed>>
        PROVE  EventsByState'
    BY <2>1, EventsKept
  <2>2. ASSUME NEW ep \in Endpoints, ReceiveConnect(ep)
        PROVE  EventsByState'
    <3>1. CASE known[ep] # None
      BY <2>1, <2>2, <3>1 DEF ReceiveConnect
    <3>2. CASE known[ep] = None
      <4> DEFINE new == [endpoint |-> ep, state |-> "Connecting", id |-> 0]
                 n == Len(conns) + 1
      <4>1. conns' = Append(conns, new) /\ log' = Append(log, <<>>)
        BY <2>2, <3>2 DEF ReceiveConnect
      <4>2. new \in Connection /\ new.state = "Connecting"
        BY ServerAssumption DEF Connection, ServerAssumption
      <4> HIDE DEF new
      <4>3. /\ Len(conns') = n /\ conns'[n] = new
            /\ \A c \in Conns : conns'[c] = conns[c]
        BY <4>1, <4>2, AppendProperties DEF TypeOK, Conns
      <4>4. <<>> \in Seq(Events)
        BY EmptySeq
      <4>5. log'[n] = <<>> /\ \A c \in Conns : log'[c] = log[c]
        BY <4>1, <4>4, AppendProperties DEF TypeOK, Conns
      <4>6. Conns' = Conns \union {n}
        BY <2>0, <4>3 DEF Conns
      <4>7. UNCHANGED <<telling, disturbed>> /\ n \notin Conns
        BY <2>0, <2>2 DEF ReceiveConnect, Conns
      <4> HIDE DEF n
      <4>8. \A c \in Conns : Told(c)'
        <5>1. \A c \in Conns : About(c)' = About(c)
          BY <4>7 DEF About
        <5> QED BY <4>3, <4>5, <4>7, <5>1, ToldKept DEF EventsByState
      <4>9. ASSUME NEW c, c = n PROVE Told(c)'
        <5>1. About(c)' = {}
          BY <4>7, <4>9 DEF About, TypeOK
        <5>2. log'[c] = <<>> /\ DOMAIN log'[c] = {}
          BY <4>5, <4>9, EmptyTable
        <5>3. conns'[c].state = "Connecting"
          BY <4>2, <4>3, <4>9
        <5>4. AnnouncedOnce(c)'
          BY <5>1, <5>2 DEF AnnouncedOnce, Announcing, Unheard
        <5>5. Fits(c)'
          BY <5>1, <5>2, <5>3 DEF Fits, FitsState
        <5> QED BY <5>4, <5>5 DEF Told
      <4> QED BY <4>6, <4>8, <4>9 DEF EventsByState
    <3> QED BY <3>1, <3>2
  <2>3. ASSUME NEW c \in Conns, HandleConnect(c)
        PROVE  EventsByState'
    <3> DEFINE pended == [conns[c] EXCEPT !.state = IF @ = "Connecting" THEN "Pending" ELSE @]
               cs == [conns EXCEPT ![c] = pended]
    <3>1. /\ cs \in Seq(Connection) /\ Len(cs) = Len(conns)
          /\ \A d \in Conns : \/ cs[d].state = conns[d].state
                              \/ conns[d].state = "Connecting" /\ cs[d].state = "Pending"
      <4>1. /\ pended \in Connection
            /\ \/ pended.state = conns[c].state
               \/ conns[c].state = "Connecting" /\ pended.state = "Pending"
        BY <2>0 DEF Connection
      <4> HIDE DEF pended
      <4>2. \A d \in Conns : cs[d] = IF d = c THEN pended ELSE conns[d]
        BY <4>1, ChangedConnection
      <4>3. cs \in Seq(Connection) /\ Len(cs) = Len(conns)
        BY <4>1, ChangedConnection
      <4> HIDE DEF cs
      <4> QED BY <4>1, <4>2, <4>3
    <3>2. cs = [conns EXCEPT ![c].state = IF @ = "Connecting" THEN "Pending" ELSE @]
      OBVIOUS
    <3> HIDE DEF cs
    <3>3. /\ Len(conns') = Len(cs)
          /\ \A d \in Conns : conns'[d].state \in {cs[d].state, "NotConnected"}
      <4>1. CASE AcceptConnection(c, cs)
        BY <3>1, <4>1, AcceptConnectionEvents DEF Conns
      <4>2. CASE conns' = cs
        BY <4>2
      <4>3. CASE RejectConnection(c, cs)
        BY <3>1, <4>3, RejectConnectionEvents DEF Conns
      <4> QED BY <2>3, <3>2, <4>1, <4>2, <4>3 DEF HandleConnect
    <3>4. UNCHANGED <<telling, disturbed, log>>
      BY <2>3 DEF HandleConnect
    <3>5. \A d \in Conns : \/ conns'[d].state \in {conns[d].state, "NotConnected"}
                           \/ conns[d].state = "Connecting" /\ conns'[d].state = "Pending"
      BY <3>1, <3>3
    <3> QED BY <3>1, <3>3, <3>4, <3>5, EventsKept
  <2>4. ASSUME NEW c \in Conns, HandleWelcome(c)
        PROVE  EventsByState'
    <3>1. CASE conns[c].state = "Pending"
      <4> DEFINE new == [conns[c] EXCEPT !.state = "Connected"]
      <4>1. conns' = [conns EXCEPT ![c] = new] /\ log' = log /\ Begins("update", c, "ClientConnected")
        BY <2>4, <3>1 DEF HandleWelcome
      <4>2. new \in Connection /\ new.state = "Connected"
        BY <2>0 DEF Connection
      <4> HIDE DEF new
      <4>3. Len(conns') = Len(conns) /\ \A d \in Conns : conns'[d] = IF d = c THEN new ELSE conns[d]
        BY <4>1, <4>2, ExceptConnection DEF TypeOK, Conns
      <4>4. /\ \E n : /\ n.thread = "update" /\ n.event = "ClientConnected"
                      /\ About(c)' = About(c) \union {n}
            /\ c \notin disturbed' => About(c) = {} /\ c \notin disturbed
            /\ \A d : d # c => About(d)' = About(d) /\ (d \in disturbed' <=> d \in disturbed)
        BY <4>1, BeginsAbout
      <4>5. PICK n : /\ n.thread = "update" /\ n.event = "ClientConnected"
                     /\ About(c)' = About(c) \union {n}
        BY <4>4
      <4>6. Told(c) /\ Early(c) /\ ~Early(c)'
        BY <3>1, <4>2, <4>3 DEF EventsByState, Early
      <4>7. AnnouncedOnce(c)'
        <5>1. AnnouncedOnce(c)
          BY <4>6 DEF Told
        <5>2. Unheard(c)'
          BY <4>1, <4>6, <5>1 DEF AnnouncedOnce, Unheard
        <5> QED BY <4>1, <4>5, <4>6, <5>1, <5>2 DEF AnnouncedOnce, Announces
      <4>8. ASSUME c \notin disturbed' PROVE Fits(c)'
        <5>1. About(c) = {} /\ FitsState(c)
          BY <4>4, <4>6, <4>8 DEF Told, Fits
        <5>2. About(c)' = {n}
          BY <4>5, <5>1
        <5>3. FitsNotice(c, n)'
          BY <4>1, <4>5, <4>6, <5>1 DEF FitsNotice, FitsState
        <5> QED BY <5>2, <5>3 DEF Fits
      <4>9. Told(c)'
        BY <4>7, <4>8 DEF Told
      <4>10. \A d \in Conns : d # c => Told(d)'
        BY <4>1, <4>3, <4>4, ToldKept DEF EventsByState
      <4>11. Conns' = Conns
        BY <4>3 DEF Conns
      <4> QED BY <4>9, <4>10, <4>11 DEF EventsByState
    <3>2. CASE conns[c].state # "Pending"
      BY <2>1, <2>4, <3>2 DEF HandleWelcome
    <3> QED BY <3>1, <3>2
  <2>5. ASSUME NEW t, NEW c \in Conns,
               HandleDisconnect(c) \/ TimesOut(c) \/ Kick(t, c) \/ QualityDisconnect(t, c)
        PROVE  EventsByState'
    BY <2>5, LocalDisconnectEvents DEF HandleDisconnect, TimesOut, Kick, QualityDisconnect
  <2>6. ASSUME NEW t, Finishes(t) \/ Raises(t) \/ UpdateRaises
        PROVE  EventsByState'
    BY <2>1, <2>6, FinishesEvents, RaisesEvents DEF UpdateRaises
  <2>7. ASSUME NEW c \in Conns, Accept(c) \/ Reject(c)
        PROVE  EventsByState'
    <3>1. CASE AcceptConnection(c, conns) \/ RejectConnection(c, conns)
      <4>1. /\ Len(conns') = Len(conns)
            /\ \A d \in Conns : conns'[d].state \in {conns[d].state, "NotConnected"}
        BY <3>1, AcceptConnectionEvents, RejectConnectionEvents DEF TypeOK, Conns
      <4>2. UNCHANGED <<telling, disturbed, log>>
        BY <2>7 DEF Accept, Reject, Decide
      <4>3. \A d \in Conns : \/ conns'[d].state \in {conns[d].state, "NotConnected"}
                             \/ conns[d].state = "Connecting" /\ conns'[d].state = "Pending"
        BY <4>1
      <4> QED BY <4>1, <4>2, <4>3, EventsKept
    <3>2. CASE conns' = conns
      BY <2>1, <2>7, <3>2 DEF Accept, Reject, Decide
    <3> QED BY <2>7, <3>1, <3>2 DEF Accept, Reject
  <2>8. ASSUME NEW ep \in Endpoints,
               ClientConnects(ep) \/ ClientRespondsWelcome(ep) \/ ClientDisconnects(ep)
        PROVE  EventsByState'
    BY <2>1, <2>8 DEF ClientConnects, ClientRespondsWelcome, ClientDisconnects
  <2>9. ASSUME NEW d \in wire, ReceiveOther(d)
        PROVE  EventsByState'
    BY <2>1, <2>9 DEF ReceiveOther
  <2>10. CASE Start \/ Stop
    BY <2>1, <2>10 DEF Start, Stop
  <2>11. CASE UNCHANGED vars
    BY <2>1, <2>11 DEF vars
  <2> QED
    BY <2>2, <2>3, <2>4, <2>5, <2>6, <2>7, <2>8, <2>9, <2>10, <2>11 DEF Next, Handle
<1>3. TypeOK /\ EventsByState => EventsInOrder
  <2> SUFFICES ASSUME TypeOK, EventsByState, NEW c \in Conns
               PROVE  /\ c \notin disturbed =>
                           log[c] \in {<<>>, <<"ClientConnected">>, <<"ConnectionFailed">>,
                                      <<"ClientConnected", "ClientDisconnected">>}
                      /\ \A i, j \in DOMAIN log[c] :
                            log[c][i] = "ClientConnected" /\ log[c][j] = "ClientConnected" => i = j
    BY DEF EventsInOrder
  <2>1. Told(c)
    BY DEF EventsByState
  <2>2. ASSUME c \notin disturbed, NEW n \in About(c)
        PROVE  log[c] \in {<<>>, <<"ClientConnected">>}
    <3>1. FitsNotice(c, n) /\ n.event \in Events
      BY <2>1, <2>2 DEF Told, Fits, About, TypeOK
    <3> QED BY <3>1 DEF FitsNotice, Announces, Events
  <2>3. c \notin disturbed /\ About(c) = {} => FitsState(c)
    BY <2>1 DEF Told, Fits
  <2> QED BY <2>1, <2>2, <2>3 DEF Told, AnnouncedOnce, FitsState
<1> QED BY <1>1, <1>2, <1>3, TypeCorrect, PTL DEF Spec
-----------------------------------------------------------------------------
(* One place per endpoint, if the application decides about connections.   *)

Pends == DOMAIN pendingConnections

\* OneEntryPerEndpoint, said of the entries themselves: no two pending
\* connections, no two clients, and no pending connection and a client are of
\* the same endpoint.
OneEntry ==
    /\ \A i, j \in Pends : SameEndpoint(pendingConnections[i], pendingConnections[j]) => i = j
    /\ \A x, y \in DOMAIN clients : SameEndpoint(clients[x], clients[y]) => x = y
    /\ \A i \in Pends, x \in DOMAIN clients : ~SameEndpoint(pendingConnections[i], clients[x])

\* No step gives an existing connection another endpoint.
EndpointsStay == \A d \in Conns : d \in Conns' /\ conns'[d].endpoint = conns[d].endpoint

\* What the lists hold are connections.
LEMMA EntriesAreConns ==
  ASSUME TypeOK
  PROVE  /\ \A i \in Pends : pendingConnections[i] \in Conns
         /\ \A x \in DOMAIN clients : clients[x] \in Conns
         /\ Len(pendingConnections) \in Nat /\ Pends = 1 .. Len(pendingConnections)
<1>1. Len(pendingConnections) \in Nat /\ Pends = 1 .. Len(pendingConnections)
  BY LenProperties DEF TypeOK, Pends
<1>2. \A i \in 1 .. Len(pendingConnections) : pendingConnections[i] \in Conns
  BY ElementOfSeq DEF TypeOK
<1> QED BY <1>1, <1>2 DEF TypeOK

\* Entries that stay where they are, or go, keep one place per endpoint.
LEMMA OneEntryFewer ==
  ASSUME TypeOK, OneEntry, EndpointsStay,
         NEW g,
         \A k \in Pends' : g[k] \in Pends /\ pendingConnections'[k] = pendingConnections[g[k]],
         \A k, l \in Pends' : g[k] = g[l] => k = l,
         \A x \in DOMAIN clients' : x \in DOMAIN clients /\ clients'[x] = clients[x]
  PROVE  OneEntry'
<1>1. /\ \A i \in Pends : pendingConnections[i] \in Conns
      /\ \A x \in DOMAIN clients : clients[x] \in Conns
  BY EntriesAreConns
<1>2. \A c, d \in Conns : SameEndpoint(c, d)' <=> SameEndpoint(c, d)
  BY DEF EndpointsStay, SameEndpoint
<1>3. ASSUME NEW k \in Pends', NEW l \in Pends',
             SameEndpoint(pendingConnections[k], pendingConnections[l])'
      PROVE  k = l
  BY <1>1, <1>2, <1>3 DEF OneEntry
<1>4. ASSUME NEW x \in DOMAIN clients', NEW y \in DOMAIN clients',
             SameEndpoint(clients[x], clients[y])'
      PROVE  x = y
  BY <1>1, <1>2, <1>4 DEF OneEntry
<1>5. ASSUME NEW k \in Pends', NEW x \in DOMAIN clients'
      PROVE  ~SameEndpoint(pendingConnections[k], clients[x])'
  BY <1>1, <1>2, <1>5 DEF OneEntry
<1> QED BY <1>3, <1>4, <1>5 DEF OneEntry

\* Where the pending list stays, or is emptied, only the clients matter.
LEMMA OneEntryGoes ==
  ASSUME TypeOK, OneEntry, EndpointsStay,
         pendingConnections' = pendingConnections \/ Pends' = {},
         \A x \in DOMAIN clients' : x \in DOMAIN clients /\ clients'[x] = clients[x]
  PROVE  OneEntry'
<1> DEFINE g == [k \in Pends |-> k]
<1>1. /\ \A k \in Pends' : g[k] \in Pends /\ pendingConnections'[k] = pendingConnections[g[k]]
      /\ \A k, l \in Pends' : g[k] = g[l] => k = l
  BY DEF Pends
<1> HIDE DEF g
<1> QED BY <1>1, OneEntryFewer

\* list.remove takes out one connection of the endpoint; the others keep their
\* order.
LEMMA WithoutFacts ==
  ASSUME TypeOK, NEW c \in Conns, Holds(pendingConnections, c),
         pendingConnections' = Without(pendingConnections, c)
  PROVE  \E i \in Pends : \E g :
           /\ SameEndpoint(pendingConnections[i], c)
           /\ \A k \in Pends' : /\ g[k] \in Pends /\ g[k] # i
                                /\ pendingConnections'[k] = pendingConnections[g[k]]
           /\ \A k, l \in Pends' : g[k] = g[l] => k = l
<1> DEFINE list == pendingConnections
           First(i) == /\ SameEndpoint(list[i], c)
                       /\ \A j \in 1 .. i - 1 : ~SameEndpoint(list[j], c)
           i == CHOOSE k \in DOMAIN list : First(k)
           n == Len(list)
<1>1. /\ list \in Seq(Conns) /\ DOMAIN list = 1 .. n /\ n \in Nat
      /\ \A j \in 1 .. n : list[j] \in Conns
  BY ElementOfSeq, LenProperties DEF TypeOK
<1>2. \E k \in DOMAIN list : First(k)
  <2> DEFINE S == {k \in 1 .. n : SameEndpoint(list[k], c)}
  <2>1. S \in SUBSET Nat /\ S # {}
    BY <1>1 DEF Holds, Range
  <2>2. PICK k \in S : \A j \in S : k <= j
    BY <2>1, LeastElement
  <2>3. \A j \in 1 .. k - 1 : j \in 1 .. n /\ ~(k <= j)
    BY <1>1, <2>2
  <2> QED BY <1>1, <2>2, <2>3
<1>3. i \in DOMAIN list /\ SameEndpoint(list[i], c)
  BY <1>2
<1>4. list' = SubSeq(list, 1, i - 1) \o SubSeq(list, i + 1, n)
  BY DEF Without, RemoveAt
<1> HIDE DEF i, First
<1>5. i \in 1 .. n
  BY <1>1, <1>3
<1> DEFINE front == SubSeq(list, 1, i - 1)
           back == SubSeq(list, i + 1, n)
<1>6. /\ front \in Seq(Conns) /\ Len(front) = i - 1
      /\ \A k \in 1 .. i - 1 : front[k] = list[k]
  <2>1. i - 1 \in Nat /\ \A k \in 1 .. i - 1 : list[k] \in Conns
    BY <1>1, <1>5
  <2> DEFINE m == i - 1
  <2> HIDE DEF m, list, n
  <2>2. /\ SubSeq(list, 1, m) \in Seq(Conns) /\ Len(SubSeq(list, 1, m)) = m
        /\ \A k \in 1 .. m : SubSeq(list, 1, m)[k] = list[k]
    BY <2>1, SubSeqProperties DEF m
  <2> QED BY <2>2 DEF m
<1>7. /\ back \in Seq(Conns) /\ Len(back) = n - i
      /\ \A k \in 1 .. n - i : back[k] = list[k + i]
  <2>1. \A k \in i + 1 .. n : list[k] \in Conns
    BY <1>1, <1>5
  <2>2. /\ back \in Seq(Conns)
        /\ Len(back) = IF i + 1 <= n THEN n - (i + 1) + 1 ELSE 0
        /\ \A k \in 1 .. n - (i + 1) + 1 : back[k] = list[(i + 1) + k - 1]
    BY <1>1, <1>5, <2>1, SubSeqProperties
  <2> HIDE DEF back, list, n
  <2>3. Len(back) = n - i
    BY <1>1, <1>5, <2>2
  <2>4. ASSUME NEW k \in 1 .. n - i PROVE back[k] = list[k + i]
    <3>1. k \in 1 .. n - (i + 1) + 1 /\ (i + 1) + k - 1 = k + i
      BY <1>1, <1>5
    <3>2. back[k] = list[(i + 1) + k - 1]
      BY <2>2, <3>1
    <3> QED BY <3>1, <3>2
  <2> QED BY <2>2, <2>3, <2>4
<1>8. /\ Len(list') = n - 1 /\ DOMAIN list' = 1 .. n - 1
      /\ \A k \in 1 .. n - 1 : list'[k] = IF k < i THEN list[k] ELSE list[k + 1]
  <2> HIDE DEF front, back, list, n
  <2>1. /\ front \o back \in Seq(Conns) /\ Len(front \o back) = Len(front) + Len(back)
        /\ \A k \in 1 .. Len(front) + Len(back) :
              (front \o back)[k] = IF k <= Len(front) THEN front[k] ELSE back[k - Len(front)]
    BY <1>6, <1>7, ConcatProperties
  <2>2. Len(front) + Len(back) = n - 1
    BY <1>1, <1>5, <1>6, <1>7
  <2>3. ASSUME NEW k \in 1 .. n - 1
        PROVE  (front \o back)[k] = IF k < i THEN list[k] ELSE list[k + 1]
    <3>1. CASE k < i
      BY <1>1, <1>5, <1>6, <2>1, <2>2, <3>1
    <3>2. CASE k >= i
      <4>1. k - (i - 1) \in 1 .. n - i /\ (k - (i - 1)) + i = k + 1 /\ ~(k <= i - 1)
        BY <1>1, <1>5, <3>2
      <4>2. (front \o back)[k] = back[k - (i - 1)]
        BY <1>6, <2>1, <2>2, <4>1
      <4>3. back[k - (i - 1)] = list[(k - (i - 1)) + i]
        BY <1>7, <4>1
      <4>4. list[(k - (i - 1)) + i] = list[k + 1]
        BY <4>1
      <4>5. ~(k < i)
        BY <1>1, <1>5, <3>2
      <4>6. (front \o back)[k] = list[k + 1]
        BY <4>2, <4>3, <4>4
      <4> HIDE DEF front, back
      <4> QED BY <4>5, <4>6
    <3>3. k < i \/ k >= i
      BY <1>1, <1>5
    <3> QED BY <3>1, <3>2, <3>3
  <2>4. DOMAIN (front \o back) = 1 .. n - 1
    BY <2>1, <2>2, LenProperties
  <2>5. list' = front \o back
    BY <1>4 DEF front, back
  <2> QED BY <2>1, <2>2, <2>3, <2>4, <2>5
<1> DEFINE g == [k \in 1 .. n - 1 |-> IF k < i THEN k ELSE k + 1]
<1>9. /\ \A k \in Pends' : g[k] \in Pends /\ g[k] # i /\ list'[k] = list[g[k]]
      /\ \A k, l \in Pends' : g[k] = g[l] => k = l
  <2>1. Pends = 1 .. n /\ Pends' = 1 .. n - 1
    BY <1>1, <1>8 DEF Pends
  <2>2. \A k \in 1 .. n - 1 : g[k] = IF k < i THEN k ELSE k + 1
    OBVIOUS
  <2> HIDE DEF g, list, n
  <2> QED BY <1>1, <1>5, <1>8, <2>1, <2>2
<1>10. i \in Pends
  BY <1>3 DEF Pends
<1> HIDE DEF g
<1> QED BY <1>3, <1>9, <1>10

\* A pending connection that becomes a client leaves one place free and takes
\* one.
LEMMA OneEntryMoves ==
  ASSUME TypeOK, OneEntry, EndpointsStay, NEW c \in Conns, NEW id,
         NEW i \in Pends, SameEndpoint(pendingConnections[i], c),
         NEW g,
         \A k \in Pends' : /\ g[k] \in Pends /\ g[k] # i
                           /\ pendingConnections'[k] = pendingConnections[g[k]],
         \A k, l \in Pends' : g[k] = g[l] => k = l,
         clients' = [x \in DOMAIN clients \union {id} |-> IF x = id THEN c ELSE clients[x]]
  PROVE  OneEntry'
<1>1. /\ \A j \in Pends : pendingConnections[j] \in Conns
      /\ \A x \in DOMAIN clients : clients[x] \in Conns
  BY EntriesAreConns
<1>2. \A d, e \in Conns : SameEndpoint(d, e)' <=> SameEndpoint(d, e)
  BY DEF EndpointsStay, SameEndpoint
<1>3. ASSUME NEW k \in Pends', NEW l \in Pends',
             SameEndpoint(pendingConnections[k], pendingConnections[l])'
      PROVE  k = l
  BY <1>1, <1>2, <1>3 DEF OneEntry
<1>4. \A j \in Pends : j # i => ~SameEndpoint(pendingConnections[j], c)
  BY <1>1 DEF OneEntry, SameEndpoint
<1>5. \A x \in DOMAIN clients : ~SameEndpoint(clients[x], c) /\ ~SameEndpoint(c, clients[x])
  BY <1>1 DEF OneEntry, SameEndpoint
<1>6. \A x \in DOMAIN clients' : \/ x # id /\ x \in DOMAIN clients /\ clients'[x] = clients[x]
                                 \/ x = id /\ clients'[x] = c
  OBVIOUS
<1>7. ASSUME NEW x \in DOMAIN clients', NEW y \in DOMAIN clients',
             SameEndpoint(clients[x], clients[y])'
      PROVE  x = y
  BY <1>1, <1>2, <1>5, <1>6, <1>7 DEF OneEntry
<1>8. ASSUME NEW k \in Pends', NEW x \in DOMAIN clients'
      PROVE  ~SameEndpoint(pendingConnections[k], clients[x])'
  BY <1>1, <1>2, <1>4, <1>6, <1>8 DEF OneEntry
<1> QED BY <1>3, <1>7, <1>8 DEF OneEntry

\* __reject gives no connection another endpoint, nor does accepting one, ...
LEMMA RejectEndpoints ==
  ASSUME TypeOK, NEW cs \in Seq(Connection), Len(cs) = Len(conns), NEW c \in Conns,
         \A d \in Conns : cs[d].endpoint = conns[d].endpoint,
         RejectConnection(c, cs)
  PROVE  EndpointsStay
<1> DEFINE new == [cs[c] EXCEPT !.state = "NotConnected"]
<1>1. cs[c] \in Connection
  BY ElementOfSeq DEF Conns
<1>2. new \in Connection /\ new.endpoint = cs[c].endpoint
  BY <1>1 DEF Connection
<1>3. conns' = [cs EXCEPT ![c] = new]
  BY DEF RejectConnection
<1> HIDE DEF new
<1>4. /\ Len(conns') = Len(conns)
      /\ \A d \in 1 .. Len(cs) : conns'[d] = IF d = c THEN new ELSE cs[d]
  BY <1>2, <1>3, ExceptConnection DEF Conns
<1>5. \A d \in Conns : conns'[d].endpoint = conns[d].endpoint
  BY <1>2, <1>4 DEF Conns
<1> QED BY <1>4, <1>5 DEF EndpointsStay, Conns

LEMMA AcceptEndpoints ==
  ASSUME TypeOK, NEW cs \in Seq(Connection), Len(cs) = Len(conns), NEW c \in Conns,
         \A d \in Conns : cs[d].endpoint = conns[d].endpoint,
         AcceptConnection(c, cs)
  PROVE  EndpointsStay
<1>1. CASE ClientCount < MaxClients
  <2> DEFINE id == IF availableClientIDs = <<>> THEN 0 ELSE Head(availableClientIDs)
             new == [cs[c] EXCEPT !.id = id]
  <2>1. id \in 0 .. MaxClients
    <3>1. CASE availableClientIDs = <<>>
      BY <3>1, ServerAssumption
    <3>2. CASE availableClientIDs # <<>>
      BY <3>2, HeadTailProperties DEF TypeOK
    <3> QED BY <3>1, <3>2
  <2>2. conns' = [cs EXCEPT ![c] = new]
    BY <1>1 DEF AcceptConnection
  <2> HIDE DEF id
  <2>3. cs[c] \in Connection
    BY ElementOfSeq DEF Conns
  <2>4. new \in Connection /\ new.endpoint = cs[c].endpoint
    BY <2>1, <2>3 DEF Connection
  <2> HIDE DEF new
  <2>5. /\ Len(conns') = Len(conns)
        /\ \A d \in 1 .. Len(cs) : conns'[d] = IF d = c THEN new ELSE cs[d]
    BY <2>2, <2>4, ExceptConnection DEF Conns
  <2>6. \A d \in Conns : conns'[d].endpoint = conns[d].endpoint
    BY <2>4, <2>5 DEF Conns
  <2> QED BY <2>5, <2>6 DEF EndpointsStay, Conns
<1>2. CASE ~(ClientCount < MaxClients)
  BY <1>2, RejectEndpoints DEF AcceptConnection
<1> QED BY <1>1, <1>2

\* ... nor closing one.
LEMMA DisconnectEndpoints ==
  ASSUME TypeOK, NEW t, NEW c \in Conns, LocalDisconnect(t, c)
  PROVE  /\ EndpointsStay
         /\ \A x \in DOMAIN clients' : x \in DOMAIN clients /\ clients'[x] = clients[x]
<1>1. MayClose(c)
  BY DEF LocalDisconnect, MayClose
<1>2. EndpointsStay
  BY <1>1, ClosingConnection DEF EndpointsStay
<1>3. \A x \in DOMAIN clients' : x \in DOMAIN clients /\ clients'[x] = clients[x]
  BY DEF LocalDisconnect, tableVars
<1> QED BY <1>2, <1>3

\* setPending changes the state of a connection only.
LEMMA PendedConnections ==
  ASSUME TypeOK, NEW c \in Conns
  PROVE  LET cs == [conns EXCEPT ![c].state = IF @ = "Connecting" THEN "Pending" ELSE @] IN
         /\ cs \in Seq(Connection) /\ Len(cs) = Len(conns)
         /\ \A d \in Conns : cs[d].endpoint = conns[d].endpoint
<1> DEFINE new == [conns[c] EXCEPT !.state = IF @ = "Connecting" THEN "Pending" ELSE @]
           cs == [conns EXCEPT ![c].state = IF @ = "Connecting" THEN "Pending" ELSE @]
<1>1. conns[c] \in Connection
  BY ElementOfSeq DEF TypeOK, Conns
<1>2. new \in Connection /\ new.endpoint = conns[c].endpoint
  BY <1>1 DEF Connection
<1>3. cs = [conns EXCEPT ![c] = new]
  OBVIOUS
<1> HIDE DEF new, cs
<1>4. /\ cs \in Seq(Connection) /\ Len(cs) = Len(conns)
      /\ \A d \in 1 .. Len(conns) : cs[d] = IF d = c THEN new ELSE conns[d]
  BY <1>2, <1>3, ExceptConnection DEF TypeOK, Conns
<1>5. \A d \in Conns : cs[d].endpoint = conns[d].endpoint
  BY <1>2, <1>4 DEF Conns
<1> QED BY <1>4, <1>5 DEF cs

\* A connection offered to the application is of an endpoint without an entry.
LEMMA OneEntryOffers ==
  ASSUME TypeOK, OneEntry, EndpointsStay, NEW c \in Conns,
         ~Holds(pendingConnections, c), \A x \in DOMAIN clients : ~SameEndpoint(clients[x], c),
         pendingConnections' = Append(pendingConnections, c), clients' = clients
  PROVE  OneEntry'
<1> DEFINE n == Len(pendingConnections)
<1>1. /\ \A j \in Pends : pendingConnections[j] \in Conns
      /\ \A x \in DOMAIN clients : clients[x] \in Conns
      /\ n \in Nat /\ Pends = 1 .. n
  BY EntriesAreConns
<1>2. \A d, e \in Conns : SameEndpoint(d, e)' <=> SameEndpoint(d, e)
  BY DEF EndpointsStay, SameEndpoint
<1>3. /\ pendingConnections' \in Seq(Conns) /\ Len(pendingConnections') = n + 1
      /\ pendingConnections'[n + 1] = c
      /\ \A i \in 1 .. n : pendingConnections'[i] = pendingConnections[i]
  BY AppendProperties DEF TypeOK
<1>4. Pends' = 1 .. n + 1
  BY <1>3, LenProperties DEF Pends
<1>5. \A j \in Pends' : \/ j \in Pends /\ pendingConnections'[j] = pendingConnections[j]
                        \/ j = n + 1 /\ pendingConnections'[j] = c
  BY <1>1, <1>3, <1>4
<1>6. \A j \in Pends : ~SameEndpoint(pendingConnections[j], c) /\ ~SameEndpoint(c, pendingConnections[j])
  BY DEF Holds, Range, Pends, SameEndpoint
<1>7. \A x \in DOMAIN clients : ~SameEndpoint(clients[x], c) /\ ~SameEndpoint(c, clients[x])
  BY DEF SameEndpoint
<1> HIDE DEF n
<1>8. ASSUME NEW k \in Pends', NEW l \in Pends',
             SameEndpoint(pendingConnections[k], pendingConnections[l])'
      PROVE  k = l
  <2>1. conns[pendingConnections'[k]].endpoint = conns[pendingConnections'[l]].endpoint
    BY <1>1, <1>2, <1>5, <1>8 DEF SameEndpoint, EndpointsStay
  <2>2. CASE k \in Pends /\ l \in Pends
    BY <1>3, <1>1, <2>1, <2>2 DEF OneEntry, SameEndpoint
  <2>3. CASE k = n + 1 \/ l = n + 1
    <3>1. \A j \in 1 .. n : conns[pendingConnections'[j]].endpoint # conns[c].endpoint
      BY <1>1, <1>3, <1>6 DEF SameEndpoint
    <3> QED BY <1>1, <1>3, <1>4, <2>1, <2>3, <3>1
  <2> QED BY <1>1, <1>4, <2>2, <2>3
<1>9. ASSUME NEW x \in DOMAIN clients', NEW y \in DOMAIN clients',
             SameEndpoint(clients[x], clients[y])'
      PROVE  x = y
  BY <1>1, <1>2, <1>9 DEF OneEntry
<1>10. ASSUME NEW k \in Pends', NEW x \in DOMAIN clients'
       PROVE  ~SameEndpoint(pendingConnections[k], clients[x])'
  <2>1. x \in DOMAIN clients /\ clients'[x] = clients[x] /\ clients[x] \in Conns
    BY <1>1
  <2>2. CASE k \in Pends /\ pendingConnections'[k] = pendingConnections[k]
    BY <1>1, <2>1, <2>2 DEF OneEntry, SameEndpoint, EndpointsStay
  <2>3. CASE pendingConnections'[k] = c
    BY <1>7, <2>1, <2>3 DEF SameEndpoint, EndpointsStay
  <2> QED BY <1>5, <2>2, <2>3
<1> QED BY <1>8, <1>9, <1>10 DEF OneEntry

\* No step gives an endpoint a second entry: handleConnect asks for one before it
\* offers a connection, and accept takes the connection out of the pending list.
LEMMA OneEntryStep ==
  ASSUME HasHandler, TypeOK, OneEntry, [Next]_vars
  PROVE  OneEntry'
<1> USE DEF runVars, tableVars, decisionVars, loopVars, clientVars, noticeVars, eventVars
<1>1. ASSUME EndpointsStay, UNCHANGED <<pendingConnections, clients>> PROVE OneEntry'
  BY <1>1, OneEntryGoes
<1>2. ASSUME UNCHANGED <<conns, pendingConnections, clients>> PROVE OneEntry'
  BY <1>1, <1>2 DEF EndpointsStay, Conns
<1>3. ASSUME NEW ep \in Endpoints, ReceiveConnect(ep) PROVE OneEntry'
  <2>1. CASE known[ep] # None
    BY <1>2, <1>3, <2>1 DEF ReceiveConnect
  <2>2. CASE known[ep] = None
    <3> DEFINE new == [endpoint |-> ep, state |-> "Connecting", id |-> 0]
    <3>1. conns' = Append(conns, new) /\ UNCHANGED <<pendingConnections, clients>>
      BY <1>3, <2>2 DEF ReceiveConnect
    <3>2. new \in Connection
      BY ServerAssumption DEF Connection
    <3> HIDE DEF new
    <3>3. /\ Len(conns') = Len(conns) + 1 /\ Len(conns) \in Nat
          /\ \A d \in Conns : conns'[d] = conns[d]
      BY <3>1, <3>2, AppendProperties, LenProperties DEF TypeOK, Conns
    <3>4. EndpointsStay
      BY <3>3 DEF EndpointsStay, Conns
    <3> QED BY <1>1, <3>1, <3>4
  <2> QED BY <2>1, <2>2
<1>4. ASSUME NEW c \in Conns, HandleConnect(c) PROVE OneEntry'
  <2> DEFINE cs == [conns EXCEPT ![c].state = IF @ = "Connecting" THEN "Pending" ELSE @]
  <2>1. /\ cs \in Seq(Connection) /\ Len(cs) = Len(conns)
        /\ \A d \in Conns : cs[d].endpoint = conns[d].endpoint
    BY PendedConnections
  <2>2. \/ /\ ~Holds(pendingConnections, c)
           /\ \A x \in DOMAIN clients : ~SameEndpoint(clients[x], c)
           /\ pendingConnections' = Append(pendingConnections, c)
           /\ conns' = cs /\ UNCHANGED tableVars
        \/ RejectConnection(c, cs) /\ UNCHANGED decisionVars
    BY <1>4 DEF HandleConnect
  <2> HIDE DEF cs
  <2>3. CASE RejectConnection(c, cs) /\ UNCHANGED decisionVars
    <3>1. EndpointsStay
      BY <2>1, <2>3, RejectEndpoints
    <3> QED BY <1>1, <2>3, <3>1 DEF RejectConnection
  <2>4. CASE /\ ~Holds(pendingConnections, c)
             /\ \A x \in DOMAIN clients : ~SameEndpoint(clients[x], c)
             /\ pendingConnections' = Append(pendingConnections, c)
             /\ conns' = cs /\ UNCHANGED tableVars
    <3>1. EndpointsStay
      BY <2>1, <2>4 DEF EndpointsStay, Conns
    <3> QED BY <2>4, <3>1, OneEntryOffers
  <2> QED BY <2>2, <2>3, <2>4
<1>5. ASSUME NEW c \in Conns, HandleWelcome(c) PROVE OneEntry'
  <2> DEFINE new == [conns[c] EXCEPT !.state = "Connected"]
  <2>1. conns[c] \in Connection
    BY ElementOfSeq DEF TypeOK, Conns
  <2>2. new \in Connection /\ new.endpoint = conns[c].endpoint
    BY <2>1 DEF Connection
  <2>3. conns' \in {conns, [conns EXCEPT ![c] = new]} /\ UNCHANGED <<pendingConnections, clients>>
    BY <1>5 DEF HandleWelcome
  <2> HIDE DEF new
  <2>4. CASE conns' = [conns EXCEPT ![c] = new]
    <3>1. /\ Len(conns') = Len(conns)
          /\ \A d \in 1 .. Len(conns) : conns'[d] = IF d = c THEN new ELSE conns[d]
      BY <2>2, <2>4, ExceptConnection DEF TypeOK, Conns
    <3>2. EndpointsStay
      BY <2>2, <3>1 DEF EndpointsStay, Conns
    <3> QED BY <1>1, <2>3, <3>2
  <2> QED BY <1>2, <2>3, <2>4
<1>6. ASSUME NEW t, NEW c \in Conns, LocalDisconnect(t, c), UNCHANGED pendingConnections
      PROVE  OneEntry'
  BY <1>6, DisconnectEndpoints, OneEntryGoes
<1>7. ASSUME NEW c \in Conns, Accept(c) PROVE OneEntry'
  <2>1. CASE Holds(pendingConnections, c)
    <3>1. /\ pendingConnections' = Without(pendingConnections, c) /\ AcceptConnection(c, conns)
      BY <1>7, <2>1 DEF Accept
    <3>0. PICK i \in Pends : \E g :
            /\ SameEndpoint(pendingConnections[i], c)
            /\ \A k \in Pends' : /\ g[k] \in Pends /\ g[k] # i
                                 /\ pendingConnections'[k] = pendingConnections[g[k]]
            /\ \A k, l \in Pends' : g[k] = g[l] => k = l
      BY <2>1, <3>1, WithoutFacts
    <3>2. PICK g :
            /\ SameEndpoint(pendingConnections[i], c)
            /\ \A k \in Pends' : /\ g[k] \in Pends /\ g[k] # i
                                 /\ pendingConnections'[k] = pendingConnections[g[k]]
            /\ \A k, l \in Pends' : g[k] = g[l] => k = l
      BY <3>0
    <3>3. EndpointsStay
      BY <3>1, AcceptEndpoints DEF TypeOK
    <3>4. CASE ClientCount < MaxClients
      <4> DEFINE id == IF availableClientIDs = <<>> THEN 0 ELSE Head(availableClientIDs)
      <4>1. clients' = [x \in DOMAIN clients \union {id} |-> IF x = id THEN c ELSE clients[x]]
        BY <3>1, <3>4 DEF AcceptConnection
      <4> HIDE DEF id
      <4>2. /\ i \in Pends /\ SameEndpoint(pendingConnections[i], c)
            /\ \A k \in Pends' : /\ g[k] \in Pends /\ g[k] # i
                                 /\ pendingConnections'[k] = pendingConnections[g[k]]
            /\ \A k, l \in Pends' : g[k] = g[l] => k = l
        BY <3>2
      <4> HIDE DEF Pends
      <4> QED BY <3>3, <4>1, <4>2, OneEntryMoves, SMTT(60)
    <3>5. CASE ~(ClientCount < MaxClients)
      <4>1. clients' = clients
        BY <3>1, <3>5 DEF AcceptConnection, RejectConnection
      <4> QED BY <3>2, <3>3, <4>1, OneEntryFewer
    <3> QED BY <3>4, <3>5
  <2>2. CASE ~Holds(pendingConnections, c)
    BY <1>2, <1>7, <2>2 DEF Accept
  <2> QED BY <2>1, <2>2
<1>8. ASSUME NEW c \in Conns, Reject(c) PROVE OneEntry'
  <2>1. CASE Holds(pendingConnections, c)
    <3>1. pendingConnections' = Without(pendingConnections, c) /\ RejectConnection(c, conns)
      BY <1>8, <2>1 DEF Reject
    <3>0. PICK i \in Pends : \E g :
            /\ \A k \in Pends' : /\ g[k] \in Pends
                                 /\ pendingConnections'[k] = pendingConnections[g[k]]
            /\ \A k, l \in Pends' : g[k] = g[l] => k = l
      BY <2>1, <3>1, WithoutFacts
    <3>2. PICK g :
            /\ \A k \in Pends' : /\ g[k] \in Pends
                                 /\ pendingConnections'[k] = pendingConnections[g[k]]
            /\ \A k, l \in Pends' : g[k] = g[l] => k = l
      BY <3>0
    <3>3. EndpointsStay /\ clients' = clients
      BY <3>1, RejectEndpoints DEF TypeOK, RejectConnection
    <3> QED BY <3>2, <3>3, OneEntryFewer
  <2>2. CASE ~Holds(pendingConnections, c)
    BY <1>2, <1>8, <2>2 DEF Reject
  <2> QED BY <2>1, <2>2
<1>9. CASE Start \/ Stop
  <2>1. clients' = <<>> /\ pendingConnections' = <<>>
    BY <1>9 DEF Start, Stop
  <2>2. DOMAIN clients' = {} /\ Pends' = {}
    BY <2>1, EmptyTable DEF Pends
  <2> QED BY <2>2 DEF OneEntry
<1>10. ASSUME NEW t, NEW c \in Conns,
              HandleDisconnect(c) \/ TimesOut(c) \/ Kick(t, c) \/ QualityDisconnect(t, c)
       PROVE  OneEntry'
  BY <1>6, <1>10 DEF HandleDisconnect, TimesOut, Kick, QualityDisconnect
<1>11. ASSUME NEW t, Finishes(t) PROVE OneEntry'
  <2>1. PICK n \in Telling(t) : MayClose(n.conn)
    BY <1>11 DEF Finishes, MayClose
  <2>2. n.conn \in Conns
    BY DEF Telling, TypeOK
  <2>3. EndpointsStay
    BY <2>1, <2>2, ClosingConnection DEF EndpointsStay
  <2> QED BY <1>1, <1>11, <2>3 DEF Finishes
<1>12. ASSUME NEW ep \in Endpoints,
              ClientConnects(ep) \/ ClientRespondsWelcome(ep) \/ ClientDisconnects(ep)
       PROVE  OneEntry'
  BY <1>2, <1>12 DEF ClientConnects, ClientRespondsWelcome, ClientDisconnects
<1>13. ASSUME NEW d \in wire, ReceiveOther(d) PROVE OneEntry'
  BY <1>2, <1>13 DEF ReceiveOther
<1>14. CASE UNCHANGED vars
  BY <1>2, <1>14 DEF vars
<1>15. ASSUME NEW t, UpdateRaises \/ Raises(t) PROVE OneEntry'
  BY <1>2, <1>15 DEF UpdateRaises, Raises
<1> QED
  BY <1>3, <1>4, <1>5, <1>7, <1>8, <1>9, <1>10, <1>11, <1>12, <1>13, <1>14, <1>15 DEF Next, Handle

\* A set without two different elements has at most one.
LEMMA AtMostOneElement ==
  ASSUME NEW S, \A x, y \in S : x = y
  PROVE  /\ Cardinality(S) \in {0, 1}
         /\ S # {} => Cardinality(S) = 1
         /\ S = {} => Cardinality(S) = 0
<1>1. CASE S = {}
  BY <1>1, FS_EmptySet
<1>2. CASE S # {}
  <2>1. PICK x \in S : TRUE
    BY <1>2
  <2>2. S = {x}
    BY <2>1
  <2> QED BY <1>2, <2>2, FS_Singleton
<1> QED BY <1>1, <1>2

\* The entries of an endpoint, counted.
LEMMA EntriesCounted == TypeOK /\ (HasHandler => OneEntry) => OneEntryPerEndpoint
<1> SUFFICES ASSUME TypeOK, HasHandler, OneEntry, NEW ep \in Endpoints
             PROVE  LET P == {i \in DOMAIN pendingConnections : conns[pendingConnections[i]].endpoint = ep}
                        C == {id \in DOMAIN clients : conns[clients[id]].endpoint = ep}
                    IN  Cardinality(P) + Cardinality(C) <= 1
  BY DEF OneEntryPerEndpoint
<1> DEFINE P == {i \in DOMAIN pendingConnections : conns[pendingConnections[i]].endpoint = ep}
           C == {id \in DOMAIN clients : conns[clients[id]].endpoint = ep}
<1>1. \A i, j \in P : i = j
  BY DEF OneEntry, Pends, SameEndpoint
<1>2. \A x, y \in C : x = y
  BY DEF OneEntry, SameEndpoint
<1>3. P = {} \/ C = {}
  BY DEF OneEntry, Pends, SameEndpoint
<1> HIDE DEF P, C
<1>4. /\ Cardinality(P) \in {0, 1} /\ (P = {} => Cardinality(P) = 0)
      /\ Cardinality(C) \in {0, 1} /\ (C = {} => Cardinality(C) = 0)
  BY <1>1, <1>2, AtMostOneElement
<1>5. Cardinality(P) + Cardinality(C) <= 1
  BY <1>3, <1>4
<1> QED BY <1>5 DEF P, C

\* With a handler, an endpoint has one place in the server in every reachable
\* state, however often its client connected and whatever the transport forgot.
THEOREM OneEntryEach == Spec => []OneEntryPerEndpoint
<1>1. Init => (HasHandler => OneEntry)
  <2> SUFFICES ASSUME Init PROVE OneEntry
    OBVIOUS
  <2>1. DOMAIN clients = {} /\ Pends = {}
    BY EmptyTable DEF Init, Pends
  <2> QED BY <2>1 DEF OneEntry
<1>2. TypeOK /\ (HasHandler => OneEntry) /\ [Next]_vars => (HasHandler => OneEntry')
  BY OneEntryStep
<1>3. TypeOK /\ (HasHandler => OneEntry) /\ [Next]_vars => (HasHandler => OneEntry)'
  BY <1>2
<1> QED BY <1>1, <1>3, EntriesCounted, TypeCorrect, PTL DEF Spec
=============================================================================
