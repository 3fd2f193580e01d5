---------------------------- MODULE ClientProofs ----------------------------
(***************************************************************************)
(* Proofs about Client, for any intervals and time outs, any number of     *)
(* attempts, and any length of the queue.                                  *)
(***************************************************************************)
EXTENDS Client, SequenceLemmas, FiniteSetTheorems

-----------------------------------------------------------------------------
(* Type correctness                                                        *)

\* Nothing is open or attempted before the first call of connect().
Attempted == attempt = 0 => state = "NotConnected" /\ connectionAttempts = 0

\* The entries of messageQueue.
Queue == [kind : Kinds, attempt : 1 .. MaxConnects]

\* The entry that is handled, and the queue without it.
LEMMA PopType ==
  ASSUME TypeOK, NEW kind, Pop(kind)
  PROVE  /\ messageQueue' \in Seq(Queue) /\ Len(messageQueue') = Len(messageQueue) - 1
         /\ \A i \in 1 .. Len(messageQueue') : messageQueue'[i] = messageQueue[i]
         /\ Len(messageQueue) \in 1 .. Len(messageQueue)
         /\ messageQueue[Len(messageQueue)].kind = kind
         /\ phase' \in {"polling", "handling"}
         /\ UNCHANGED <<attempt, connectionAttempts, elapsed, wire, welcomed>>
<1>1. messageQueue \in Seq(Queue) /\ messageQueue # <<>> /\ messageQueue' = Front(messageQueue)
  BY DEF TypeOK, Queue, Pop
<1>2. /\ Front(messageQueue) \in Seq(Queue) /\ Len(messageQueue) \in Nat \ {0}
      /\ Len(Front(messageQueue)) = Len(messageQueue) - 1
      /\ DOMAIN Front(messageQueue) = 1 .. Len(messageQueue) - 1
      /\ \A i \in 1 .. Len(messageQueue) - 1 : Front(messageQueue)[i] = messageQueue[i]
      /\ Last(messageQueue) = messageQueue[Len(messageQueue)]
  BY <1>1, SeqFront
<1> QED BY <1>1, <1>2 DEF Pop

\* The events of a queue have times, and each is there at least once.
Times(queue) == \A p \in DOMAIN queue : p \in Nat /\ queue[p] \in Nat \ {0}

\* executeLater adds one event, and taking one out adds none.
LEMMA BagType ==
  ASSUME NEW queue, Times(queue), NEW time \in Nat
  PROVE  /\ Times(Queued(time, queue)) /\ DOMAIN Queued(time, queue) # {}
         /\ \A p \in DOMAIN queue : Times(Bag!BagRemove(queue, p))
<1>1. time + Interval \in Nat
  BY ClientAssumption
<1>2. /\ Times(Bag!BagAdd(queue, time + Interval))
      /\ time + Interval \in DOMAIN Bag!BagAdd(queue, time + Interval)
  BY <1>1 DEF Times, Bag!BagAdd
<1>3. ASSUME NEW p \in DOMAIN queue PROVE Times(Bag!BagRemove(queue, p))
  BY DEF Times, Bag!BagRemove
<1> QED BY <1>2, <1>3 DEF Queued

\* The bag without events.
LEMMA EmptyBagType == Times(EmptyBag)
  BY DEF Times, EmptyBag, SetToBag

\* Raising an event at the current attempt.
LEMMA RaisedType ==
  ASSUME attempt \in 1 .. MaxConnects, DOMAIN log = 1 .. MaxConnects, NEW event
  PROVE  /\ DOMAIN Raised(event) = 1 .. MaxConnects
         /\ Raised(event)[attempt] = Append(log[attempt], event)
         /\ \A n \in 1 .. MaxConnects \ {attempt} : Raised(event)[n] = log[n]
  BY DEF Raised

\* What is inductive.
TypeInv == TypeOK /\ Attempted

\* A new client is well typed.
LEMMA InitType == ASSUME Init PROVE TypeInv
<1>1. messageQueue \in Seq(Queue)
  BY EmptySeq DEF Init
<1>2. Times(eventQueue)
  BY EmptyBagType DEF Init
<1>3. /\ attempt = 0 /\ state = "NotConnected" /\ lastHeartbeat = 0 /\ connectionAttempts = 0
      /\ connectMessage \in BOOLEAN /\ now = 0 /\ elapsed = 0 /\ phase = "polling"
      /\ wire = {} /\ welcomed = {}
  BY DEF Init
<1> QED BY <1>1, <1>2, <1>3, ClientAssumption DEF TypeInv, TypeOK, Attempted, Times, Queue

\* Closing drops what the connection had and sets the time back.
LEMMA LocalDisconnectType ==
  ASSUME TypeOK, NEW event, LocalDisconnect(event)
  PROVE  /\ state' = "NotConnected" /\ lastHeartbeat' = lastHeartbeat
         /\ connectMessage' \in BOOLEAN
         /\ now' = 0 /\ Times(eventQueue')
  BY EmptyBagType DEF TypeOK, LocalDisconnect, Closed

\* connect() queues a heartbeat at the old time or at 0.
LEMMA ConnectType == ASSUME TypeInv, Connect PROVE TypeInv'
<1>1. Times(eventQueue')
  <2>1. Times(IF Open THEN EmptyBag ELSE eventQueue) /\ now' \in Nat
    BY EmptyBagType, ClientAssumption DEF TypeInv, TypeOK, Times, Connect, Open
  <2> QED BY <2>1, BagType DEF Connect, Open
<1>2. messageQueue' \in Seq(Queue)
  BY DEF TypeInv, TypeOK, Connect, loopVars, Queue
<1> QED BY <1>1, <1>2, ClientAssumption
        DEF TypeInv, TypeOK, Attempted, Times, Queue, Connect, loopVars

\* disconnect() closes what is open.
LEMMA DisconnectType == ASSUME TypeInv, Disconnect PROVE TypeInv'
<1>1. LocalDisconnect("Disconnected")
  BY DEF Disconnect
<1>2. messageQueue' \in Seq(Queue)
  BY DEF TypeInv, TypeOK, Disconnect, loopVars, Queue
<1> QED BY <1>1, <1>2, LocalDisconnectType, ClientAssumption
        DEF TypeInv, TypeOK, Attempted, Times, Queue, Disconnect, loopVars

\* The time stays within its bound.
LEMMA TickType == ASSUME TypeInv, Tick PROVE TypeInv'
<1>1. elapsed' \in 0 .. MaxTime
  BY ClientAssumption DEF TypeInv, TypeOK, Tick
<1> QED BY <1>1 DEF TypeInv, TypeOK, Attempted, Tick, connVars, loopVars

\* A heartbeat counts up to maxConnectionAttempts, and queues the next one or closes.
LEMMA HeartbeatFiresType == ASSUME TypeInv, HeartbeatFires PROVE TypeInv'
<1>1. PICK p \in Due : Heartbeat(Bag!BagRemove(eventQueue, p))
  BY DEF HeartbeatFires
<1> DEFINE rest == Bag!BagRemove(eventQueue, p)
<1>2. Times(rest)
  <2>1. p \in DOMAIN eventQueue
    BY DEF Due
  <2>2. Times(eventQueue)
    BY DEF TypeInv, TypeOK, Times
  <2> QED BY <2>1, <2>2, BagType
<1>3. now \in Nat /\ Times(Queued(now, rest)) /\ Times(Queued(0, EmptyBag))
  <2>1. now \in Nat
    BY DEF TypeInv, TypeOK
  <2> QED BY <1>2, <2>1, EmptyBagType, BagType
<1> HIDE DEF rest
<1>4. Heartbeat(rest)
  BY <1>1 DEF rest
<1>5. /\ state' \in {state, "NotConnected"} /\ lastHeartbeat' = lastHeartbeat
      /\ connectionAttempts' \in 0 .. MaxAttempts /\ connectMessage' \in BOOLEAN
      /\ now' \in 0 .. MaxTime /\ Times(eventQueue') /\ wire' \subseteq Kinds
      /\ connectionAttempts' = connectionAttempts \/ state # "NotConnected"
  <2>1. CASE /\ state = "Connecting" /\ connectionAttempts < MaxAttempts
             /\ connectionAttempts' = connectionAttempts + 1
             /\ eventQueue' = Queued(now, rest) /\ UNCHANGED <<connVars, now, wire>>
    BY <2>1, <1>3, ClientAssumption DEF TypeInv, TypeOK, connVars
  <2>2. CASE /\ Closed("ConnectionFailed")
             /\ now' = 0 /\ eventQueue' = Queued(0, EmptyBag)
             /\ UNCHANGED <<connectionAttempts, wire>>
    BY <2>2, <1>3, ClientAssumption DEF TypeInv, TypeOK, Closed
  <2>3. CASE (LocalDisconnect("ConnectionFailed") \/ LocalDisconnect("Disconnected"))
             /\ UNCHANGED <<connectionAttempts, wire>>
    <3>1. TypeOK
      BY DEF TypeInv
    <3>2. /\ state' = "NotConnected" /\ lastHeartbeat' = lastHeartbeat
          /\ connectMessage' \in BOOLEAN /\ now' = 0 /\ Times(eventQueue')
      BY <2>3, <3>1, LocalDisconnectType
    <3> QED BY <2>3, <3>1, <3>2, ClientAssumption DEF TypeOK
  <2>4. CASE /\ wire' \in {wire, wire \union {"Heartbeat"}} /\ eventQueue' = Queued(now, rest)
             /\ UNCHANGED <<connVars, connectionAttempts, now>>
    BY <2>4, <1>3 DEF TypeInv, TypeOK, connVars, Kinds
  <2> QED BY <1>4, <2>1, <2>2, <2>3, <2>4 DEF Heartbeat
<1>6. UNCHANGED <<attempt, elapsed, loopVars, welcomed>>
  BY DEF HeartbeatFires
<1>7. messageQueue' \in Seq(Queue) /\ phase' = phase
  BY <1>6 DEF TypeInv, TypeOK, loopVars, Queue
<1> QED BY <1>5, <1>6, <1>7 DEF TypeInv, TypeOK, Attempted, Times, Queue

\* Handling takes one entry out, and changes the connection or closes it.
LEMMA HandleType == ASSUME TypeInv, Handle PROVE TypeInv'
<1>1. PICK kind \in Kinds : Pop(kind)
  BY DEF Handle, HandleConnect, HandleReject, HandleHeartbeat, HandleDisconnect,
         HandleWelcome, Kinds
<1>2. /\ messageQueue' \in Seq(Queue) /\ phase' \in {"polling", "handling"}
      /\ UNCHANGED <<attempt, connectionAttempts, elapsed, wire, welcomed>>
  BY <1>1, PopType DEF TypeInv
<1>3. /\ state' \in {"NotConnected", "Pending", "Connected", state}
      /\ state = "NotConnected" => state' = "NotConnected"
      /\ lastHeartbeat' \in {lastHeartbeat, Epoch} /\ connectMessage' \in BOOLEAN
      /\ now' \in {now, 0} /\ Times(eventQueue')
  <2>0. TypeOK /\ Times(eventQueue)
    BY DEF TypeInv, TypeOK, Times
  <2>1. CASE \E event : LocalDisconnect(event)
    BY <2>0, <2>1, LocalDisconnectType
  <2>2. CASE Ignored
    BY <2>0, <2>2 DEF Ignored, connVars, timeVars, TypeOK
  <2>3. CASE HandleConnect
    BY <2>0, <2>2, <2>3 DEF HandleConnect, timeVars, TypeOK
  <2>4. CASE HandleWelcome
    BY <2>0, <2>2, <2>4 DEF HandleWelcome, timeVars, TypeOK
  <2>5. CASE HandleHeartbeat
    BY <2>0, <2>5 DEF HandleHeartbeat, timeVars, TypeOK
  <2> QED BY <2>1, <2>2, <2>3, <2>4, <2>5 DEF Handle, HandleReject, HandleDisconnect
<1> QED BY <1>2, <1>3, ClientAssumption DEF TypeInv, TypeOK, Attempted, Times, Queue

\* What is received refers to an attempt that was begun.
LEMMA NetworkType ==
  ASSUME TypeInv, NEW kind \in Kinds, ServerSends(kind) \/ Receive(kind)
  PROVE  TypeInv'
<1>1. CASE ServerSends(kind)
  <2>1. welcomed' \subseteq 1 .. MaxConnects /\ wire' \subseteq Kinds
    <3>1. attempt \in 1 .. MaxConnects
      BY <1>1, ClientAssumption DEF ServerSends, TypeInv, TypeOK, Attempted
    <3> QED BY <1>1, <3>1 DEF ServerSends, TypeInv, TypeOK
  <2>2. messageQueue' \in Seq(Queue)
    BY <1>1 DEF TypeInv, TypeOK, ServerSends, loopVars, Queue
  <2> QED BY <1>1, <2>1, <2>2 DEF TypeInv, TypeOK, Attempted, Queue,
                                      ServerSends, connVars, timeVars, loopVars
<1>2. CASE Receive(kind)
  <2>1. [kind |-> kind, attempt |-> attempt] \in Queue
    BY <1>2 DEF Receive, TypeInv, TypeOK, Attempted, Queue
  <2>2. messageQueue' \in Seq(Queue)
    <3>1. messageQueue \in Seq(Queue)
      BY DEF TypeInv, TypeOK, Queue
    <3> QED BY <1>2, <2>1, <3>1, AppendProperties DEF Receive
  <2>3. wire' \subseteq Kinds
    BY <1>2 DEF Receive, TypeInv, TypeOK
  <2> QED BY <1>2, <2>2, <2>3 DEF TypeInv, TypeOK, Attempted, Queue, Receive, connVars, timeVars
<1> QED BY <1>1, <1>2

\* The state stays within its types.
LEMMA StepType == ASSUME TypeInv, [Next]_vars PROVE TypeInv'
<1>1. CASE UNCHANGED vars
  BY <1>1 DEF TypeInv, TypeOK, Attempted, vars, connVars, timeVars, loopVars
<1>2. CASE Connect \/ Disconnect \/ Tick \/ HeartbeatFires \/ Handle
  BY <1>2, ConnectType, DisconnectType, TickType, HeartbeatFiresType, HandleType
<1>3. CASE \E kind \in Kinds : ServerSends(kind) \/ Receive(kind)
  BY <1>3, NetworkType
<1> QED BY <1>1, <1>2, <1>3 DEF Next

\* The inductive invariant holds in every behaviour.
LEMMA TypeInvariant == Spec => []TypeInv
  BY InitType, StepType, PTL DEF Spec

\* Times, the priorities of the events, the attempts the queue refers to and what may
\* arrive are what they should be, however connect(), disconnect() and update() interleave.
THEOREM TypeCorrect == Spec => []TypeOK
<1>1. TypeInv => TypeOK
  BY DEF TypeInv
<1> QED BY <1>1, TypeInvariant, PTL

-----------------------------------------------------------------------------
(* One outcome, and a heartbeat as long as there is a connection            *)

\* The lists of events an attempt may raise.
Outcomes ==
    {<<>>, <<"Connected">>, <<"ConnectionFailed">>, <<"Disconnected">>, <<"Connected", "Disconnected">>}

\* What has been raised for an attempt follows from its state: nothing while it waits
\* for an answer, Connected while it is connected, and nothing for those to come.
OutcomeByState ==
    /\ DOMAIN log = 1 .. MaxConnects
    /\ \A n \in 1 .. MaxConnects : log[n] \in Outcomes /\ (n > attempt => log[n] = <<>>)
    /\ state \in {"Connecting", "Pending"} => log[attempt] = <<>>
    /\ state = "Connected" => log[attempt] = <<"Connected">>

\* The events an operation raises, and the states it does so between.
Raises ==
    \/ /\ UNCHANGED <<attempt, log>>
       /\ state' \in {state, "NotConnected"} \/ (state = "Connecting" /\ state' = "Pending")
    \/ /\ UNCHANGED attempt /\ state \in {"Connecting", "Pending"} /\ state' = "Connected"
       /\ log' = Raised("Connected")
    \/ /\ UNCHANGED attempt /\ state \in {"Connecting", "Pending"} /\ state' = "NotConnected"
       /\ log' = Raised("ConnectionFailed")
    \/ /\ UNCHANGED attempt /\ state # "NotConnected" /\ state' = "NotConnected"
       /\ log' = Raised("Disconnected")
    \/ /\ attempt < MaxConnects /\ attempt' = attempt + 1 /\ state' = "Connecting"
       /\ log' = IF state # "NotConnected" THEN Raised("Disconnected") ELSE log

\* No operation raises an event that does not fit the state the connection was in.
LEMMA StepRaises == ASSUME TypeInv, [Next]_vars PROVE Raises
<1>1. CASE UNCHANGED vars
  BY <1>1 DEF Raises, vars, connVars
<1>2. CASE Connect
  BY <1>2 DEF Raises, Connect
<1>3. CASE Disconnect
  BY <1>3 DEF Raises, Disconnect, LocalDisconnect, Closed
<1>4. CASE Tick
  BY <1>4 DEF Raises, Tick, connVars
<1>5. CASE HeartbeatFires
  BY <1>5 DEF Raises, HeartbeatFires, Heartbeat, LocalDisconnect, Closed, connVars
<1>6. CASE Handle
  <2>1. UNCHANGED attempt
    BY <1>6 DEF Handle, HandleConnect, HandleReject, HandleHeartbeat, HandleDisconnect,
               HandleWelcome, Pop
  <2> QED BY <1>6, <2>1 DEF Raises, Handle, HandleConnect, HandleReject, HandleHeartbeat,
                            HandleDisconnect, HandleWelcome, Ignored, LocalDisconnect, Closed, connVars
<1>7. CASE \E kind \in Kinds : ServerSends(kind) \/ Receive(kind)
  BY <1>7 DEF Raises, ServerSends, Receive, connVars
<1> QED BY <1>1, <1>2, <1>3, <1>4, <1>5, <1>6, <1>7 DEF Next

\* Appending to a list of one gives a list of two.
LEMMA AppendSecond ==
  ASSUME NEW S, NEW a \in S, NEW b \in S
  PROVE  <<a, b>> = Append(<<a>>, b)
  OBVIOUS

\* Appending to the short lists of events there are.
LEMMA AppendOutcome ==
  /\ \A event : Append(<<>>, event) = <<event>>
  /\ Append(<<"Connected">>, "Disconnected") = <<"Connected", "Disconnected">>
<1>1. ASSUME NEW event PROVE Append(<<>>, event) = <<event>>
  <2>1. <<>> \in Seq({event}) /\ <<event>> \in Seq({event})
    OBVIOUS
  <2>2. Len(<<event>>) = 1 /\ <<event>>[1] = event /\ Len(<<>>) = 0
    OBVIOUS
  <2> QED BY <2>1, <2>2, AppendProperties, SeqEqual
<1>2. Append(<<"Connected">>, "Disconnected") = <<"Connected", "Disconnected">>
  <2> DEFINE S == {"Connected", "Disconnected"}
  <2>1. "Connected" \in S /\ "Disconnected" \in S
    OBVIOUS
  <2> HIDE DEF S
  <2> QED BY <2>1, AppendSecond
<1> QED BY <1>1, <1>2

\* Such steps keep the log and the state together.
LEMMA StepOutcome ==
  ASSUME TypeInv, OutcomeByState, Raises, attempt' \in 0 .. MaxConnects
  PROVE  OutcomeByState'
<1>1. attempt \in 0 .. MaxConnects /\ (state # "NotConnected" => attempt \in 1 .. MaxConnects)
  BY ClientAssumption DEF TypeInv, TypeOK, Attempted
<1>2. ASSUME attempt' = attempt, log' = log,
             state' \in {state, "NotConnected"} \/ (state = "Connecting" /\ state' = "Pending")
      PROVE  OutcomeByState'
  <2>1. CASE state' = state
    BY <1>2, <2>1 DEF OutcomeByState
  <2>2. CASE state' = "NotConnected"
    BY <1>2, <2>2 DEF OutcomeByState
  <2>3. CASE state = "Connecting" /\ state' = "Pending"
    BY <1>2, <2>3 DEF OutcomeByState
  <2> QED BY <1>2, <2>1, <2>2, <2>3
<1>3. ASSUME UNCHANGED attempt, state \in {"Connecting", "Pending"},
             NEW event \in {"Connected", "ConnectionFailed"}, log' = Raised(event),
             state' = IF event = "Connected" THEN "Connected" ELSE "NotConnected"
      PROVE  OutcomeByState'
  <2>1. log'[attempt] = <<event>>
    BY <1>1, <1>3, RaisedType, AppendOutcome DEF OutcomeByState
  <2>2. DOMAIN log' = 1 .. MaxConnects /\ \A n \in 1 .. MaxConnects \ {attempt} : log'[n] = log[n]
    BY <1>1, <1>3, RaisedType DEF OutcomeByState
  <2>3. <<event>> \in Outcomes
    BY DEF Outcomes
  <2>4. \A n \in 1 .. MaxConnects : log'[n] \in Outcomes /\ (n > attempt => log'[n] = <<>>)
    BY <1>1, <2>1, <2>2, <2>3 DEF OutcomeByState
  <2>5. state' = "Connected" => log'[attempt] = <<"Connected">>
    BY <1>3, <2>1
  <2> QED BY <1>3, <2>2, <2>4, <2>5 DEF OutcomeByState
<1>4. ASSUME state # "NotConnected", log' = Raised("Disconnected")
      PROVE  /\ DOMAIN log' = 1 .. MaxConnects
             /\ \A n \in 1 .. MaxConnects : log'[n] \in Outcomes /\ (n > attempt => log'[n] = <<>>)
  <2>1. log[attempt] \in {<<>>, <<"Connected">>}
    BY <1>4 DEF OutcomeByState, TypeInv, TypeOK
  <2>2. log'[attempt] \in {<<"Disconnected">>, <<"Connected", "Disconnected">>}
    BY <1>1, <1>4, <2>1, RaisedType, AppendOutcome DEF OutcomeByState
  <2> QED BY <1>1, <1>4, <2>2, RaisedType DEF OutcomeByState, Outcomes
<1>5. CASE /\ UNCHANGED attempt /\ state # "NotConnected" /\ state' = "NotConnected"
           /\ log' = Raised("Disconnected")
  BY <1>4, <1>5 DEF OutcomeByState
<1>6. CASE /\ attempt < MaxConnects /\ attempt' = attempt + 1 /\ state' = "Connecting"
           /\ log' = IF state # "NotConnected" THEN Raised("Disconnected") ELSE log
  <2>1. /\ DOMAIN log' = 1 .. MaxConnects
        /\ \A n \in 1 .. MaxConnects : log'[n] \in Outcomes /\ (n > attempt => log'[n] = <<>>)
    BY <1>4, <1>6 DEF OutcomeByState
  <2> QED BY <1>1, <1>6, <2>1, ClientAssumption DEF OutcomeByState
<1> QED BY <1>2, <1>3, <1>5, <1>6 DEF Raises

\* Every attempt connects, fails or is disconnected once, whatever the network repeats,
\* whatever is left in the queue from earlier attempts, and whenever the application
\* connects and disconnects.
THEOREM SingleOutcome == Spec => []OneOutcome
<1>1. Init => OutcomeByState
  BY ClientAssumption DEF Init, OutcomeByState, Outcomes
<1>2. TypeInv /\ OutcomeByState /\ [Next]_vars => OutcomeByState'
  <2> SUFFICES ASSUME TypeInv, OutcomeByState, [Next]_vars PROVE OutcomeByState'
    OBVIOUS
  <2>1. Raises /\ attempt' \in 0 .. MaxConnects
    BY StepRaises, StepType DEF TypeInv, TypeOK
  <2> QED BY <2>1, StepOutcome
<1>3. OutcomeByState => OneOutcome
  BY DEF OutcomeByState, OneOutcome, Outcomes
<1> QED BY <1>1, <1>2, <1>3, TypeInvariant, PTL DEF Spec

\* A client that is not closed has a heartbeat queued and, while it waits for an answer,
\* the message to connect with.
THEOREM HeartbeatKept == Spec => []HeartbeatQueued
<1>1. Init => HeartbeatQueued
  BY DEF Init, HeartbeatQueued, Open
<1>2. ASSUME TypeInv, HeartbeatQueued, [Next]_vars PROVE HeartbeatQueued'
  <2>0. now \in Nat /\ Times(eventQueue)
    BY <1>2 DEF TypeInv, TypeOK, Times
  <2>1. CASE UNCHANGED vars
    BY <1>2, <2>1 DEF HeartbeatQueued, Open, vars, connVars, timeVars
  <2>2. CASE Connect
    <3>1. DOMAIN eventQueue' # {}
      <4>1. Times(IF Open THEN EmptyBag ELSE eventQueue) /\ now' \in Nat
        BY <2>0, <2>2, EmptyBagType DEF Connect, Open
      <4> QED BY <2>2, <4>1, BagType DEF Connect, Open
    <3> QED BY <2>2, <3>1 DEF Connect, HeartbeatQueued
  <2>3. CASE Disconnect
    BY <2>3 DEF Disconnect, LocalDisconnect, Closed, HeartbeatQueued, Open
  <2>4. CASE Tick
    BY <1>2, <2>4 DEF Tick, HeartbeatQueued, Open, connVars
  <2>5. CASE HeartbeatFires
    <3>1. PICK p \in Due : Heartbeat(Bag!BagRemove(eventQueue, p))
      BY <2>5 DEF HeartbeatFires
    <3> DEFINE rest == Bag!BagRemove(eventQueue, p)
    <3>2. DOMAIN Queued(now, rest) # {}
      <4>1. Times(rest)
        BY <2>0, BagType DEF Due
      <4> QED BY <2>0, <4>1, BagType
    <3> HIDE DEF rest
    <3>3. Heartbeat(rest)
      BY <3>1 DEF rest
    <3> QED BY <1>2, <3>2, <3>3 DEF Heartbeat, LocalDisconnect, Closed,
                                        HeartbeatQueued, Open, connVars
  <2>6. CASE Handle
    BY <1>2, <2>6 DEF Handle, HandleConnect, HandleReject, HandleHeartbeat, HandleDisconnect,
                      HandleWelcome, Ignored, LocalDisconnect, Closed, HeartbeatQueued, Open, connVars, timeVars
  <2>7. CASE \E kind \in Kinds : ServerSends(kind) \/ Receive(kind)
    BY <1>2, <2>7 DEF ServerSends, Receive, HeartbeatQueued, Open, connVars, timeVars
  <2> QED BY <1>2, <2>1, <2>2, <2>3, <2>4, <2>5, <2>6, <2>7 DEF Next
<1> QED BY <1>1, <1>2, TypeInvariant, PTL DEF Spec

-----------------------------------------------------------------------------
(* Connected by a Welcome                                                   *)

\* The attempts that connected, the Welcomes in the queue, and the one that may arrive.
ConnectedAttempts == {n \in 1 .. MaxConnects : "Connected" \in Range(log[n])}
QueuedWelcomes == {i \in 1 .. Len(messageQueue) : messageQueue[i].kind = "Welcome"}
SentWelcomes == wire \cap {"Welcome"}

\* Each attempt that connected, each Welcome in the queue and one that may still arrive
\* have an attempt of their own that the server sent it for.
WelcomesCounted ==
    Cardinality(ConnectedAttempts) + Cardinality(QueuedWelcomes) + Cardinality(SentWelcomes)
        <= Cardinality(welcomed)

\* All that is counted is finite.
LEMMA FiniteCounts ==
  ASSUME TypeInv
  PROVE  /\ IsFiniteSet(ConnectedAttempts) /\ IsFiniteSet(QueuedWelcomes)
         /\ IsFiniteSet(SentWelcomes) /\ IsFiniteSet(welcomed)
         /\ Cardinality(ConnectedAttempts) \in Nat /\ Cardinality(QueuedWelcomes) \in Nat
         /\ Cardinality(SentWelcomes) \in Nat /\ Cardinality(welcomed) \in Nat
<1>1. IsFiniteSet(1 .. MaxConnects)
  BY ClientAssumption, FS_Interval
<1>2. IsFiniteSet(1 .. Len(messageQueue))
  <2>1. Len(messageQueue) \in Nat
    BY LenProperties DEF TypeInv, TypeOK
  <2> QED BY <2>1, FS_Interval
<1>3. IsFiniteSet({"Welcome"})
  BY FS_Singleton
<1>4. /\ ConnectedAttempts \in SUBSET (1 .. MaxConnects) /\ welcomed \in SUBSET (1 .. MaxConnects)
      /\ QueuedWelcomes \in SUBSET (1 .. Len(messageQueue)) /\ SentWelcomes \in SUBSET {"Welcome"}
  BY DEF ConnectedAttempts, QueuedWelcomes, SentWelcomes, TypeInv, TypeOK
<1>5. /\ IsFiniteSet(ConnectedAttempts) /\ IsFiniteSet(QueuedWelcomes)
      /\ IsFiniteSet(SentWelcomes) /\ IsFiniteSet(welcomed)
  BY <1>1, <1>2, <1>3, <1>4, FS_Subset
<1> QED BY <1>5, FS_CardinalityType

\* The lists of events there may be are sequences of events.
LEMMA OutcomeType == Outcomes \subseteq Seq({"Connected", "ConnectionFailed", "Disconnected"})
<1> DEFINE S == {"Connected", "ConnectionFailed", "Disconnected"}
<1>1. "Connected" \in S /\ "ConnectionFailed" \in S /\ "Disconnected" \in S
  OBVIOUS
<1> HIDE DEF S
<1>2. /\ <<>> \in Seq(S) /\ <<"Connected">> \in Seq(S) /\ <<"ConnectionFailed">> \in Seq(S)
      /\ <<"Disconnected">> \in Seq(S) /\ <<"Connected", "Disconnected">> \in Seq(S)
  BY <1>1
<1>3. Outcomes \subseteq Seq(S)
  BY <1>2 DEF Outcomes
<1> QED BY <1>3 DEF S

\* Raising an event adds it to those of the attempt: only Connected connects it.
LEMMA RaisedConnects ==
  ASSUME OutcomeByState, attempt \in 1 .. MaxConnects,
         NEW event \in {"Connected", "ConnectionFailed", "Disconnected"}, log' = Raised(event)
  PROVE  /\ ConnectedAttempts' \subseteq ConnectedAttempts \union {attempt}
         /\ event # "Connected" => ConnectedAttempts' = ConnectedAttempts
<1>1. log[attempt] \in Seq({"Connected", "ConnectionFailed", "Disconnected"})
  BY OutcomeType DEF OutcomeByState
<1>2. Range(Append(log[attempt], event)) = Range(log[attempt]) \union {event}
  BY <1>1, SeqAppend
<1>3. /\ log'[attempt] = Append(log[attempt], event)
      /\ \A n \in 1 .. MaxConnects \ {attempt} : log'[n] = log[n]
  BY RaisedType DEF OutcomeByState
<1> QED BY <1>2, <1>3 DEF ConnectedAttempts

\* Handling a Welcome takes one out of the queue for the attempt that connects.
LEMMA WelcomeCounted ==
  ASSUME TypeInv, OutcomeByState, WelcomesCounted, TypeInv',
         attempt \in 1 .. MaxConnects, Pop("Welcome"), log' = Raised("Connected")
  PROVE  WelcomesCounted'
<1> DEFINE last == Len(messageQueue)
<1>1. /\ last \in 1 .. last /\ messageQueue[last].kind = "Welcome"
      /\ Len(messageQueue') = last - 1
      /\ \A i \in 1 .. last - 1 : messageQueue'[i] = messageQueue[i]
      /\ UNCHANGED <<wire, welcomed>>
  BY PopType DEF TypeInv
<1>2. last \in Nat
  BY LenProperties DEF TypeInv, TypeOK
<1>3. QueuedWelcomes' = QueuedWelcomes \ {last} /\ last \in QueuedWelcomes
  BY <1>1, <1>2 DEF QueuedWelcomes
<1>4. Cardinality(QueuedWelcomes') = Cardinality(QueuedWelcomes) - 1
  BY <1>3, FiniteCounts, FS_RemoveElement
<1>5. Cardinality(ConnectedAttempts') <= Cardinality(ConnectedAttempts) + 1
  <2>1. ConnectedAttempts' \subseteq ConnectedAttempts \union {attempt}
    BY RaisedConnects
  <2>2. /\ IsFiniteSet(ConnectedAttempts \union {attempt})
        /\ Cardinality(ConnectedAttempts \union {attempt})
             = IF attempt \in ConnectedAttempts THEN Cardinality(ConnectedAttempts)
               ELSE Cardinality(ConnectedAttempts) + 1
    BY FiniteCounts, FS_AddElement
  <2>3. /\ Cardinality(ConnectedAttempts') <= Cardinality(ConnectedAttempts \union {attempt})
        /\ Cardinality(ConnectedAttempts') \in Nat
    BY <2>1, <2>2, FS_Subset, FS_CardinalityType
  <2> QED BY <2>2, <2>3, FiniteCounts
<1>6. SentWelcomes' = SentWelcomes /\ welcomed' = welcomed
  BY <1>1 DEF SentWelcomes
<1>7. Cardinality(QueuedWelcomes') \in Nat /\ Cardinality(ConnectedAttempts') \in Nat
  BY <1>4, <1>5, <1>3, RaisedConnects, FiniteCounts, FS_AddElement, FS_Subset, FS_CardinalityType
<1> QED BY <1>4, <1>5, <1>6, <1>7, FiniteCounts DEF WelcomesCounted

\* A Welcome that arrives moves from the wire to the queue.
LEMMA ReceiveCounted ==
  ASSUME TypeInv, WelcomesCounted, NEW kind \in Kinds, Receive(kind)
  PROVE  WelcomesCounted'
<1> DEFINE entry == [kind |-> kind, attempt |-> attempt]
           next  == Len(messageQueue) + 1
<1>1. /\ messageQueue' = Append(messageQueue, entry) /\ entry.kind = kind
      /\ kind \in wire /\ UNCHANGED <<log, welcomed>>
      /\ wire' = wire \ {k \in {kind} : k = "Welcome"}
  BY DEF Receive, connVars
<1>2. messageQueue \in Seq(Queue) /\ entry \in Queue
  BY DEF Receive, TypeInv, TypeOK, Attempted, Queue
<1> HIDE DEF entry
<1>3. /\ Len(messageQueue) \in Nat /\ Len(messageQueue') = next
      /\ messageQueue'[next] = entry
      /\ \A i \in 1 .. Len(messageQueue) : messageQueue'[i] = messageQueue[i]
  BY <1>1, <1>2, AppendProperties, LenProperties
<1>4. QueuedWelcomes' = (IF kind = "Welcome" THEN QueuedWelcomes \union {next} ELSE QueuedWelcomes)
      /\ next \notin QueuedWelcomes
  BY <1>1, <1>3 DEF QueuedWelcomes
<1>5. ConnectedAttempts' = ConnectedAttempts /\ welcomed' = welcomed
  BY <1>1 DEF ConnectedAttempts
<1>6. CASE kind = "Welcome"
  <2>1. SentWelcomes = {"Welcome"} /\ SentWelcomes' = {}
    BY <1>1, <1>6 DEF SentWelcomes
  <2>2. Cardinality(SentWelcomes) = 1 /\ Cardinality(SentWelcomes') = 0
    BY <2>1, FS_Singleton, FS_EmptySet
  <2>3. Cardinality(QueuedWelcomes') = Cardinality(QueuedWelcomes) + 1
    BY <1>4, <1>6, FiniteCounts, FS_AddElement
  <2> QED BY <1>5, <2>2, <2>3, FiniteCounts DEF WelcomesCounted
<1>7. CASE kind # "Welcome"
  <2>1. SentWelcomes' = SentWelcomes /\ QueuedWelcomes' = QueuedWelcomes
    BY <1>1, <1>4, <1>7 DEF SentWelcomes
  <2> QED BY <1>5, <2>1 DEF WelcomesCounted
<1> QED BY <1>6, <1>7

\* A Welcome that is sent has an attempt it was not sent for before.
LEMMA SendCounted ==
  ASSUME TypeInv, WelcomesCounted, NEW kind \in Kinds, ServerSends(kind)
  PROVE  WelcomesCounted'
<1>1. ConnectedAttempts' = ConnectedAttempts /\ QueuedWelcomes' = QueuedWelcomes
  BY DEF ServerSends, connVars, loopVars, ConnectedAttempts, QueuedWelcomes
<1>2. CASE kind = "Welcome"
  <2>1. SentWelcomes = {} /\ SentWelcomes' = {"Welcome"}
    BY <1>2 DEF ServerSends, SentWelcomes
  <2>2. Cardinality(SentWelcomes) = 0 /\ Cardinality(SentWelcomes') = 1
    BY <2>1, FS_Singleton, FS_EmptySet
  <2>3. welcomed' = welcomed \union {attempt} /\ attempt \notin welcomed
    BY <1>2 DEF ServerSends
  <2>4. Cardinality(welcomed') = Cardinality(welcomed) + 1
    BY <2>3, FiniteCounts, FS_AddElement
  <2> QED BY <1>1, <2>2, <2>4, FiniteCounts DEF WelcomesCounted
<1>3. CASE kind # "Welcome"
  <2>1. SentWelcomes' = SentWelcomes /\ welcomed' = welcomed
    BY <1>3 DEF ServerSends, SentWelcomes
  <2> QED BY <1>1, <2>1 DEF WelcomesCounted
<1> QED BY <1>2, <1>3

\* A step that sends no Welcome, connects nothing, and adds nothing to the queue.
LEMMA NothingCounted ==
  ASSUME TypeInv, WelcomesCounted, ConnectedAttempts' = ConnectedAttempts,
         QueuedWelcomes' \subseteq QueuedWelcomes,
         wire' \cap {"Welcome"} \subseteq wire, UNCHANGED welcomed
  PROVE  WelcomesCounted'
<1>1. SentWelcomes' \subseteq SentWelcomes
  BY DEF SentWelcomes
<1>2. /\ Cardinality(QueuedWelcomes') \in Nat /\ Cardinality(SentWelcomes') \in Nat
      /\ Cardinality(QueuedWelcomes') <= Cardinality(QueuedWelcomes)
      /\ Cardinality(SentWelcomes') <= Cardinality(SentWelcomes)
  BY <1>1, FiniteCounts, FS_Subset, FS_CardinalityType
<1> QED BY <1>2, FiniteCounts DEF WelcomesCounted

\* No step connects an attempt without taking a Welcome out of the queue.
LEMMA StepCounted ==
  ASSUME TypeInv, TypeInv', OutcomeByState, WelcomesCounted, [Next]_vars
  PROVE  WelcomesCounted'
<1>1. CASE UNCHANGED vars
  <2>1. /\ ConnectedAttempts' = ConnectedAttempts /\ QueuedWelcomes' = QueuedWelcomes
        /\ UNCHANGED <<wire, welcomed>>
    BY <1>1 DEF vars, connVars, loopVars, ConnectedAttempts, QueuedWelcomes
  <2> QED BY <2>1, NothingCounted
<1>2. ASSUME log' = log \/ (attempt \in 1 .. MaxConnects
                            /\ \E event \in {"ConnectionFailed", "Disconnected"} : log' = Raised(event))
      PROVE  ConnectedAttempts' = ConnectedAttempts
  <2>1. CASE log' = log
    BY <2>1 DEF ConnectedAttempts
  <2>2. CASE /\ attempt \in 1 .. MaxConnects
             /\ \E event \in {"ConnectionFailed", "Disconnected"} : log' = Raised(event)
    BY <2>2, RaisedConnects
  <2> QED BY <1>2, <2>1, <2>2
<1>3. state # "NotConnected" => attempt \in 1 .. MaxConnects
  BY ClientAssumption DEF TypeInv, TypeOK, Attempted
<1>4. CASE Connect \/ Disconnect \/ Tick \/ HeartbeatFires
  <2>1. \/ log' = log
        \/ /\ state # "NotConnected"
           /\ \E event \in {"ConnectionFailed", "Disconnected"} : log' = Raised(event)
    BY <1>4 DEF Connect, Disconnect, Tick, HeartbeatFires, Heartbeat,
                LocalDisconnect, Closed, connVars
  <2>2. UNCHANGED <<messageQueue, welcomed>> /\ wire' \subseteq wire \union {"Heartbeat"}
    BY <1>4 DEF Connect, Disconnect, Tick, HeartbeatFires, Heartbeat, loopVars
  <2>3. QueuedWelcomes' = QueuedWelcomes
    BY <2>2 DEF QueuedWelcomes
  <2> QED BY <1>2, <1>3, <2>1, <2>2, <2>3, NothingCounted
<1>5. ASSUME NEW kind \in Kinds, Pop(kind)
      PROVE  QueuedWelcomes' \subseteq QueuedWelcomes /\ UNCHANGED <<wire, welcomed>>
  <2>1. /\ Len(messageQueue') = Len(messageQueue) - 1
        /\ \A i \in 1 .. Len(messageQueue') : messageQueue'[i] = messageQueue[i]
        /\ UNCHANGED <<wire, welcomed>>
    BY <1>5, PopType DEF TypeInv
  <2>2. Len(messageQueue) \in Nat
    BY LenProperties DEF TypeInv, TypeOK
  <2> QED BY <2>1, <2>2 DEF QueuedWelcomes
<1>6. CASE HandleWelcome /\ log' = Raised("Connected") /\ state # "NotConnected"
  <2>1. Pop("Welcome")
    BY <1>6 DEF HandleWelcome
  <2> QED BY <1>3, <1>6, <2>1, WelcomeCounted
<1>7. CASE Handle /\ ~(HandleWelcome /\ log' = Raised("Connected") /\ state # "NotConnected")
  <2>1. PICK kind \in Kinds : Pop(kind)
    BY <1>7 DEF Handle, HandleConnect, HandleReject, HandleHeartbeat, HandleDisconnect,
         HandleWelcome, Kinds
  <2>2. \/ log' = log
        \/ /\ state # "NotConnected"
           /\ \E event \in {"ConnectionFailed", "Disconnected"} : log' = Raised(event)
    BY <1>7 DEF Handle, HandleConnect, HandleReject, HandleHeartbeat, HandleDisconnect,
                HandleWelcome, Ignored, LocalDisconnect, Closed, connVars
  <2> QED BY <1>2, <1>3, <1>5, <2>1, <2>2, NothingCounted
<1>8. CASE \E kind \in Kinds : ServerSends(kind) \/ Receive(kind)
  BY <1>8, SendCounted, ReceiveCounted
<1> QED BY <1>1, <1>4, <1>6, <1>7, <1>8 DEF Next

\* However the server repeats itself and whatever waits in the queue, the application hears
\* Connected for no more attempts than the server sent a Welcome for.
THEOREM WelcomeConnects == Spec => []ConnectedByWelcome
<1> DEFINE IInv == TypeInv /\ OutcomeByState /\ WelcomesCounted
<1>1. Init => IInv
  <2> SUFFICES ASSUME Init PROVE IInv
    OBVIOUS
  <2>1. TypeInv
    BY InitType
  <2>2. OutcomeByState
    BY ClientAssumption DEF Init, OutcomeByState, Outcomes
  <2>3. ConnectedAttempts = {} /\ QueuedWelcomes = {} /\ SentWelcomes = {} /\ welcomed = {}
    BY DEF Init, ConnectedAttempts, QueuedWelcomes, SentWelcomes, Range
  <2>4. WelcomesCounted
    BY <2>3, FS_EmptySet DEF WelcomesCounted
  <2> QED BY <2>1, <2>2, <2>4
<1>2. IInv /\ [Next]_vars => IInv'
  <2> SUFFICES ASSUME TypeInv, OutcomeByState, WelcomesCounted, [Next]_vars PROVE IInv'
    OBVIOUS
  <2>1. TypeInv' /\ Raises
    BY StepType, StepRaises
  <2>2. OutcomeByState'
    BY <2>1, StepOutcome DEF TypeInv, TypeOK
  <2> QED BY <2>1, <2>2, StepCounted
<1>3. IInv => ConnectedByWelcome
  BY FiniteCounts DEF WelcomesCounted, ConnectedByWelcome, ConnectedAttempts
<1> QED BY <1>1, <1>2, <1>3, PTL DEF Spec

-----------------------------------------------------------------------------
(* No more than two chains                                                  *)

\* There are n events in the queue.
Events(queue, n) ==
    \/ n = 0 /\ DOMAIN queue = {}
    \/ n = 1 /\ \E p : DOMAIN queue = {p} /\ queue[p] = 1
    \/ n = 2 /\ \E p : DOMAIN queue = {p} /\ queue[p] = 2
    \/ n = 2 /\ \E p, r : DOMAIN queue = {p, r} /\ p # r /\ queue[p] = 1 /\ queue[r] = 1

\* The sum over a function with two arguments at most.
LEMMA SumOfTwo ==
  ASSUME NEW f, NEW p, NEW r, DOMAIN f \subseteq {p, r}, \A x \in DOMAIN f : f[x] \in Nat
  PROVE  SumFunction(f) = (IF p \in DOMAIN f THEN f[p] ELSE 0)
                             + (IF r \in DOMAIN f /\ r # p THEN f[r] ELSE 0)
<1> DEFINE D == DOMAIN f
           First(s) == CHOOSE x \in s : TRUE
           Sums(g) == g = [s \in SUBSET D |-> IF s = {} THEN 0 ELSE f[First(s)] + g[s \ {First(s)}]]
           w(s) == (IF p \in s THEN f[p] ELSE 0) + (IF r \in s /\ r # p THEN f[r] ELSE 0)
           sum == [s \in SUBSET D |-> w(s)]
           g == CHOOSE g : Sums(g)
<1>1. SumFunction(f) = g[D]
  BY DEF SumFunction, SumFunctionOnSet, FoldFunctionOnSet, FoldFunction, MapThenFoldSet
<1>2. \A s \in SUBSET D : s # {} => First(s) \in s /\ First(s) \in {p, r} /\ f[First(s)] \in Nat
  OBVIOUS
<1>3. \A s \in SUBSET D : w(s) = IF s = {} THEN 0 ELSE f[First(s)] + w(s \ {First(s)})
  <2> TAKE s \in SUBSET D
  <2>1. CASE s = {}
    BY <2>1
  <2>2. CASE s # {}
    <3> DEFINE x == First(s)
    <3>1. x \in s /\ s \subseteq {p, r} /\ f[x] \in Nat
          /\ (p \in s => f[p] \in Nat) /\ (r \in s => f[r] \in Nat)
      BY <1>2, <2>2
    <3> HIDE DEF x, First
    <3>2. w(s) = f[x] + w(s \ {x})
      BY <3>1
    <3> QED BY <2>2, <3>2 DEF x
  <2> QED BY <2>1, <2>2
<1>4. Sums(sum)
  <2>1. \A s \in SUBSET D : s # {} => s \ {First(s)} \in SUBSET D
    OBVIOUS
  <2> HIDE DEF w, First
  <2> QED BY <1>3, <2>1
<1> HIDE DEF sum
<1>5. Sums(g)
  <2> HIDE DEF Sums
  <2> QED BY <1>4, Zenon
<1> HIDE DEF g
<1>6. \A s \in SUBSET D : g[s] = IF s = {} THEN 0 ELSE f[First(s)] + g[s \ {First(s)}]
  <2> HIDE DEF First
  <2> QED BY <1>5
<1>7. g[{}] = 0
  BY <1>6
<1>8. ASSUME NEW x \in D PROVE g[{x}] = f[x]
  <2>1. First({x}) = x /\ {x} \ {x} = {} /\ {x} \in SUBSET D /\ {x} # {}
    BY <1>8
  <2> HIDE DEF First
  <2> QED BY <1>6, <1>7, <1>8, <2>1
<1>9. ASSUME {p, r} \in SUBSET D, p # r PROVE g[{p, r}] = f[p] + f[r]
  <2>1. First({p, r}) \in {p, r} /\ {p, r} # {} /\ {p, r} \ {p} = {r} /\ {p, r} \ {r} = {p}
    BY <1>9
  <2>2. g[{p, r}] = f[First({p, r})] + g[{p, r} \ {First({p, r})}]
    <3> HIDE DEF First
    <3> QED BY <1>6, <1>9, <2>1
  <2>3. p \in D /\ r \in D /\ f[p] \in Nat /\ f[r] \in Nat
    BY <1>9
  <2>4. g[{p}] = f[p] /\ g[{r}] = f[r]
    BY <1>8, <2>3
  <2> HIDE DEF First
  <2> QED BY <2>1, <2>2, <2>3, <2>4
<1>10. CASE D = {}
  BY <1>1, <1>7, <1>10
<1>11. CASE D = {p}
  <2>1. g[D] = f[p] /\ f[p] \in Nat
    BY <1>8, <1>11
  <2> QED BY <1>1, <1>11, <2>1
<1>12. CASE D = {r} /\ p # r
  <2>1. g[D] = f[r] /\ f[r] \in Nat
    BY <1>8, <1>12
  <2> QED BY <1>1, <1>12, <2>1
<1>13. CASE D = {p, r} /\ p # r
  BY <1>1, <1>9, <1>13
<1>14. D = {} \/ D = {p} \/ (D = {r} /\ p # r) \/ (D = {p, r} /\ p # r)
  OBVIOUS
<1> QED BY <1>10, <1>11, <1>12, <1>13, <1>14

\* So many events are queued.
LEMMA EventsSum == ASSUME NEW queue, NEW n, Events(queue, n) PROVE SumFunction(queue) = n
<1>1. CASE n = 0 /\ DOMAIN queue = {}
  <2>1. SumFunction(queue) = (IF 0 \in DOMAIN queue THEN queue[0] ELSE 0)
                               + (IF 0 \in DOMAIN queue /\ 0 # 0 THEN queue[0] ELSE 0)
    BY <1>1, SumOfTwo
  <2> QED BY <1>1, <2>1
<1>2. ASSUME NEW p, DOMAIN queue = {p}, queue[p] \in Nat PROVE SumFunction(queue) = queue[p]
  BY <1>2, SumOfTwo
<1>3. ASSUME NEW p, NEW r, DOMAIN queue = {p, r}, p # r, queue[p] = 1, queue[r] = 1
      PROVE  SumFunction(queue) = 2
  BY <1>3, SumOfTwo
<1>4. CASE n = 1 /\ \E p : DOMAIN queue = {p} /\ queue[p] = 1
  BY <1>2, <1>4
<1>5. CASE n = 2 /\ \E p : DOMAIN queue = {p} /\ queue[p] = 2
  BY <1>2, <1>5
<1>6. CASE n = 2 /\ \E p, r : DOMAIN queue = {p, r} /\ p # r /\ queue[p] = 1 /\ queue[r] = 1
  BY <1>3, <1>6
<1> QED BY <1>1, <1>4, <1>5, <1>6 DEF Events

\* executeLater adds one.
LEMMA EventAdded ==
  ASSUME NEW queue, NEW time, NEW n \in {0, 1}, Events(queue, n)
  PROVE  Events(Queued(time, queue), n + 1)
<1> DEFINE t == time + Interval
           q == Queued(time, queue)
<1>1. q = IF t \in DOMAIN queue THEN [e \in DOMAIN queue |-> IF e = t THEN queue[e] + 1 ELSE queue[e]]
          ELSE [e \in DOMAIN queue \union {t} |-> IF e = t THEN 1 ELSE queue[e]]
  BY DEF Queued, Bag!BagAdd
<1> HIDE DEF t, q
<1>2. CASE n = 0
  <2>1. DOMAIN queue = {}
    BY <1>2 DEF Events
  <2>2. DOMAIN q = {t} /\ q[t] = 1
    BY <1>1, <2>1
  <2> QED BY <1>2, <2>2 DEF Events, q
<1>3. CASE n = 1
  <2>1. PICK p : DOMAIN queue = {p} /\ queue[p] = 1
    BY <1>3 DEF Events
  <2>2. CASE t = p
    <3>1. DOMAIN q = {p} /\ q[p] = 2
      BY <1>1, <2>1, <2>2
    <3> QED BY <1>3, <3>1 DEF Events, q
  <2>3. CASE t # p
    <3>1. DOMAIN q = {p, t} /\ q[p] = 1 /\ q[t] = 1
      BY <1>1, <2>1, <2>3
    <3> QED BY <1>3, <2>3, <3>1 DEF Events, q
  <2> QED BY <2>2, <2>3
<1> QED BY <1>2, <1>3

\* The event that is run is taken out.
LEMMA EventRemoved ==
  ASSUME NEW queue, NEW p \in DOMAIN queue, NEW n, Events(queue, n)
  PROVE  n \in {1, 2} /\ Events(Bag!BagRemove(queue, p), n - 1)
<1> DEFINE q == Bag!BagRemove(queue, p)
<1>1. q = IF queue[p] = 1 THEN [e \in DOMAIN queue \ {p} |-> queue[e]]
          ELSE [e \in DOMAIN queue |-> IF e = p THEN queue[e] - 1 ELSE queue[e]]
  BY DEF Bag!BagRemove
<1> HIDE DEF q
<1>0. DOMAIN queue # {}
  OBVIOUS
<1>2. CASE n = 1 /\ \E r : DOMAIN queue = {r} /\ queue[r] = 1
  <2>1. DOMAIN queue = {p} /\ queue[p] = 1
    BY <1>2
  <2>2. DOMAIN q = {}
    BY <1>1, <2>1
  <2> QED BY <1>2, <2>2 DEF Events, q
<1>3. CASE n = 2 /\ \E r : DOMAIN queue = {r} /\ queue[r] = 2
  <2>1. DOMAIN queue = {p} /\ queue[p] = 2
    BY <1>3
  <2>2. DOMAIN q = {p} /\ q[p] = 1
    BY <1>1, <2>1
  <2> QED BY <1>3, <2>2 DEF Events, q
<1>4. CASE n = 2 /\ \E x, y : DOMAIN queue = {x, y} /\ x # y /\ queue[x] = 1 /\ queue[y] = 1
  <2>1. PICK r : DOMAIN queue = {p, r} /\ p # r /\ queue[p] = 1 /\ queue[r] = 1
    BY <1>4
  <2>2. DOMAIN q = {r} /\ q[r] = 1
    BY <1>1, <2>1
  <2> QED BY <1>4, <2>2 DEF Events, q
<1> QED BY <1>0, <1>2, <1>3, <1>4 DEF Events

\* While the client is closed there is one event at most: the one that the last attempt
\* queued behind NeverConnected.
ChainsByState ==
    \E n \in {0, 1, 2} : Events(eventQueue, n) /\ (state = "NotConnected" => n # 2)

LEMMA EmptyEvents == Events(EmptyBag, 0)
  BY DEF Events, EmptyBag, SetToBag

\* Closing a connection by LocalDisconnect leaves no event.
LEMMA ClosedChains == ASSUME NEW event, LocalDisconnect(event) PROVE ChainsByState'
<1>1. eventQueue' = EmptyBag
  BY DEF LocalDisconnect
<1>2. Events(eventQueue', 0)
  BY <1>1, EmptyEvents
<1> QED BY <1>2 DEF ChainsByState

\* connect() adds an event to the one there may be, a heartbeat replaces the one it is.
LEMMA StepChains == ASSUME TypeInv, ChainsByState, [Next]_vars PROVE ChainsByState'
<1>1. PICK n \in {0, 1, 2} : Events(eventQueue, n) /\ (state = "NotConnected" => n # 2)
  BY DEF ChainsByState
<1>2. CASE eventQueue' = eventQueue /\ (state' = "NotConnected" => state = "NotConnected")
  BY <1>1, <1>2 DEF ChainsByState
<1>3. CASE \E event : LocalDisconnect(event)
  BY <1>3, ClosedChains
<1>4. CASE Connect
  <2>1. state' = "Connecting"
    BY <1>4 DEF Connect
  <2> DEFINE before == IF state # "NotConnected" THEN EmptyBag ELSE eventQueue
             k == IF state # "NotConnected" THEN 0 ELSE n
  <2>2. eventQueue' = Queued(now', before)
    BY <1>4 DEF Connect
  <2>3. Events(before, k) /\ k \in {0, 1}
    BY <1>1, EmptyEvents
  <2> HIDE DEF before, k
  <2>4. Events(eventQueue', k + 1) /\ k + 1 \in {0, 1, 2}
    <3>1. Events(Queued(now', before), k + 1)
      BY <2>3, EventAdded
    <3> QED BY <2>2, <2>3, <3>1
  <2> QED BY <2>1, <2>4 DEF ChainsByState
<1>5. CASE HeartbeatFires
  <2>1. PICK p \in Due : Heartbeat(Bag!BagRemove(eventQueue, p))
    BY <1>5 DEF HeartbeatFires
  <2> DEFINE rest == Bag!BagRemove(eventQueue, p)
  <2>2. n \in {1, 2} /\ Events(rest, n - 1)
    <3>1. p \in DOMAIN eventQueue
      BY DEF Due
    <3> QED BY <1>1, <3>1, EventRemoved
  <2> HIDE DEF rest
  <2>3. Heartbeat(rest)
    BY <2>1 DEF rest
  <2>4. CASE eventQueue' = Queued(now, rest) /\ state' = state
    <3>1. Events(Queued(now, rest), n)
      <4>1. n - 1 \in {0, 1} /\ (n - 1) + 1 = n
        BY <2>2
      <4> DEFINE k == n - 1
      <4>2. Events(rest, k) /\ k \in {0, 1} /\ k + 1 = n
        BY <2>2, <4>1
      <4> HIDE DEF k
      <4>3. Events(Queued(now, rest), k + 1)
        BY <4>2, EventAdded
      <4> QED BY <4>2, <4>3
    <3> QED BY <1>1, <2>4, <3>1 DEF ChainsByState
  <2>5. CASE eventQueue' = Queued(0, EmptyBag)
    <3>1. Events(Queued(0, EmptyBag), 1)
      <4>1. Events(Queued(0, EmptyBag), 0 + 1)
        BY EmptyEvents, EventAdded
      <4> QED BY <4>1
    <3> QED BY <2>5, <3>1 DEF ChainsByState
  <2> QED BY <1>3, <2>3, <2>4, <2>5 DEF Heartbeat, connVars
<1>6. CASE Disconnect
  BY <1>3, <1>6 DEF Disconnect
<1>7. CASE Handle
  BY <1>2, <1>3, <1>7 DEF Handle, HandleConnect, HandleReject, HandleHeartbeat, HandleDisconnect,
                          HandleWelcome, Ignored, connVars, timeVars
<1>8. CASE UNCHANGED vars \/ Tick \/ \E kind \in Kinds : ServerSends(kind) \/ Receive(kind)
  BY <1>2, <1>8 DEF vars, Tick, ServerSends, Receive, connVars, timeVars
<1> QED BY <1>4, <1>5, <1>6, <1>7, <1>8 DEF Next

\* The heartbeat that NeverConnected leaves behind goes on beside that of the next
\* attempt, and however often attempts fail this way no third chain joins them.
THEOREM NoThirdChain == Spec => []TwoChainsAtMost
<1>1. Init => ChainsByState
  BY EmptyEvents DEF Init, ChainsByState
<1>2. ChainsByState => TwoChainsAtMost
  BY EventsSum DEF ChainsByState, TwoChainsAtMost
<1> QED BY <1>1, <1>2, StepChains, TypeInvariant, PTL DEF Spec
=============================================================================
