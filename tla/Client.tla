------------------------------- MODULE Client -------------------------------
(***************************************************************************)
(* The connection attempts of client.py on a UDP transport: connect and    *)
(* disconnect by the application, the heartbeat that repeats the Connect   *)
(* and watches the time outs, and the internal messages from the server.   *)
(*                                                                         *)
(* update() sets current_time, runs the heartbeats that are due, polls the *)
(* transport and handles the queue from its END.  The application connects *)
(* and disconnects between any two of these steps.  Every connect() makes  *)
(* a new Connection on a new socket; what waits in messageQueue stays      *)
(* there, and is handled for whatever connection the client has by then.   *)
(*                                                                         *)
(* The server is what it may send to one connection.  Messages of the      *)
(* application, acks and round trip times are left out.                    *)
(*                                                                         *)
(* Time is counted in heartbeat intervals or fractions of them.  Epoch is  *)
(* what time() returns: resetTimeout stores seconds since 1970, and the    *)
(* time outs subtract that from the milliseconds since connect(), so that  *)
(* none happens before the two cross (after some 20 days).                 *)
(***************************************************************************)
EXTENDS Integers, FiniteSets, SequencesExt

Bag == INSTANCE BagsExt

CONSTANTS
    MaxAttempts,        \* maxConnectionAttempts: 5
    Interval,           \* heartbeat_interval: 1000 ms
    ConnectTimeout,     \* _connectTimeoutTime: 10000 ms
    Timeout,            \* timeoutTime of a connection: 5000 ms
    Epoch,
    MaxConnects,        \* bound on the calls of connect()
    MaxQueue,           \* bound on the messages one poll appends
    MaxIdle,            \* bound on the time without a connection
    MaxTime             \* bound on the time since connect()

ASSUME ClientAssumption ==
    /\ MaxAttempts \in Nat \ {0} /\ Interval \in Nat \ {0}
    /\ ConnectTimeout \in Nat /\ Timeout \in Nat /\ Epoch \in Nat
    /\ MaxConnects \in Nat /\ MaxQueue \in Nat /\ MaxTime \in Nat
    /\ MaxIdle \in 0 .. MaxTime

VARIABLES
    attempt,            \* counts the calls of connect(); names the current connection
    state,              \* state of that connection; NotConnected if there is none
    lastHeartbeat,      \* its __lastHeartbeat
    connectionAttempts,
    connectMessage,     \* whether there is one to send again
    now,                \* current_time
    elapsed,            \* time since startTime
    eventQueue,         \* priorities of the heartbeat events: a bag
    phase,              \* "polling" or "handling"
    messageQueue,
    wire,               \* kinds of the datagrams that may arrive on the current connection
    welcomed,           \* attempts the server sent a Welcome for
    log                 \* log[n]: the events raised while attempt n was current

connVars == <<state, lastHeartbeat, connectMessage, log>>
timeVars == <<now, eventQueue>>
loopVars == <<phase, messageQueue>>
vars == <<attempt, connVars, connectionAttempts, timeVars, elapsed, loopVars, wire, welcomed>>

Init ==
    /\ attempt = 0 /\ state = "NotConnected" /\ lastHeartbeat = 0
    /\ connectionAttempts = 0 /\ connectMessage = FALSE
    /\ now = 0 /\ elapsed = 0 /\ eventQueue = EmptyBag
    /\ phase = "polling" /\ messageQueue = <<>>
    /\ wire = {} /\ welcomed = {}
    /\ log = [n \in 1 .. MaxConnects |-> <<>>]

-----------------------------------------------------------------------------
(* What the operations are built from                                      *)

Raised(event) == [log EXCEPT ![attempt] = Append(@, event)]

\* localDisconnect of a connection that is not closed, up to its stopTime, which
\* sets the time back and empties the eventQueue.  Only a failed attempt drops
\* its connect message.
Closed(event) ==
    /\ state' = "NotConnected"
    /\ log' = Raised(event)
    /\ connectMessage' = (connectMessage /\ event # "ConnectionFailed")
    /\ UNCHANGED lastHeartbeat

\* A mistake in localDisconnect: the eventQueue is not emptied.
LocalDisconnectKeepingEvents(event) ==
    /\ Closed(event)
    /\ now' = 0 /\ UNCHANGED eventQueue

LocalDisconnect(event) ==
    /\ Closed(event)
    /\ now' = 0 /\ eventQueue' = EmptyBag

HasTimedOut(limit) == now - lastHeartbeat > limit

\* executeLater of the next heartbeat.
Queued(time, queue) == Bag!BagAdd(queue, time + Interval)

-----------------------------------------------------------------------------
(* The application                                                         *)

\* connect: disconnect, a new connection, startTime, and the first heartbeat,
\* which sends the Connect.  current_time is not set: the heartbeat is queued
\* by the time of the last update, or by 0 if disconnect did something.
Connect ==
    LET open == state # "NotConnected" IN
    /\ attempt < MaxConnects
    /\ attempt' = attempt + 1
    /\ state' = "Connecting" /\ lastHeartbeat' = 0
    /\ connectionAttempts' = 1 /\ connectMessage' = TRUE
    /\ log' = IF open THEN Raised("Disconnected") ELSE log
    /\ now' = IF open THEN 0 ELSE now
    /\ eventQueue' = Queued(now', IF open THEN EmptyBag ELSE eventQueue)
    /\ elapsed' = 0
    /\ wire' = {}
    /\ UNCHANGED <<loopVars, welcomed>>

\* disconnect, by the application or for poor quality.
Disconnect ==
    /\ state # "NotConnected"
    /\ LocalDisconnect("Disconnected")
    /\ UNCHANGED <<attempt, connectionAttempts, elapsed, loopVars, wire, welcomed>>

-----------------------------------------------------------------------------
(* update: time and heartbeats                                             *)

Due == {p \in DOMAIN eventQueue : p < now}

Tick ==
    /\ messageQueue = <<>> /\ Due = {}
    /\ elapsed < IF state = "NotConnected" THEN MaxIdle ELSE MaxTime
    /\ elapsed' = elapsed + 1
    /\ now' = elapsed'
    /\ UNCHANGED <<attempt, connVars, connectionAttempts, eventQueue, loopVars, wire, welcomed>>

\* Mistakes in heartbeat: attempts are not counted, or a pending connection
\* returns in any case.
HeartbeatUncounted(queue) ==
    /\ IF state = "Connected" THEN wire' = wire \union {"Heartbeat"} ELSE UNCHANGED wire
    /\ eventQueue' = Queued(now, queue)
    /\ UNCHANGED <<connVars, connectionAttempts, now>>

HeartbeatReturning(queue) ==
    /\ IF state = "Pending" /\ HasTimedOut(ConnectTimeout)
       THEN LocalDisconnect("ConnectionFailed")
       ELSE /\ eventQueue' = IF state = "Pending" THEN queue ELSE Queued(now, queue)
            /\ UNCHANGED <<connVars, now>>
    /\ UNCHANGED <<connectionAttempts, wire>>

\* heartbeat, run by the earliest event.  After NeverConnected it queues the
\* next one all the same ("Check in future if here is a return missing"); the
\* two other ways out return.  A closed connection has its heartbeats too.
Heartbeat(queue) ==
    \/ /\ state = "Connecting" /\ connectionAttempts < MaxAttempts
       /\ connectionAttempts' = connectionAttempts + 1
       /\ eventQueue' = Queued(now, queue)
       /\ UNCHANGED <<connVars, now, wire>>
    \/ /\ state = "Connecting" /\ connectionAttempts >= MaxAttempts
       /\ Closed("ConnectionFailed")
       /\ now' = 0 /\ eventQueue' = Queued(0, EmptyBag)
       /\ UNCHANGED <<connectionAttempts, wire>>
    \/ /\ \/ state = "Pending" /\ HasTimedOut(ConnectTimeout) /\ LocalDisconnect("ConnectionFailed")
          \/ state = "Connected" /\ HasTimedOut(Timeout) /\ LocalDisconnect("Disconnected")
       /\ UNCHANGED <<connectionAttempts, wire>>
    \/ /\ \/ state = "Pending" /\ ~HasTimedOut(ConnectTimeout) /\ UNCHANGED wire
          \/ state = "Connected" /\ ~HasTimedOut(Timeout) /\ wire' = wire \union {"Heartbeat"}
          \/ state = "NotConnected" /\ UNCHANGED wire
       /\ eventQueue' = Queued(now, queue)
       /\ UNCHANGED <<connVars, connectionAttempts, now>>

HeartbeatFires ==
    /\ \E p \in Due :
         /\ \A q \in Due : p <= q
         /\ Heartbeat(Bag!BagRemove(eventQueue, p))
    /\ UNCHANGED <<attempt, elapsed, loopVars, welcomed>>

-----------------------------------------------------------------------------
(* The server                                                              *)

\* It answers a Connect by Connect (the attempt is pending), Reject or Welcome,
\* it may send Disconnect to a client, and it answers the heartbeats.
ServerSends(kind) ==
    /\ connectionAttempts > 0 /\ kind \notin wire
    /\ \/ kind \in {"Connect", "Reject"} /\ attempt \notin welcomed
       \/ kind = "Welcome" /\ attempt \notin welcomed /\ "Reject" \notin wire
       \/ kind = "Disconnect" /\ attempt \in welcomed
    /\ wire' = wire \union {kind}
    /\ welcomed' = IF kind = "Welcome" THEN welcomed \union {attempt} ELSE welcomed
    /\ UNCHANGED <<attempt, connVars, connectionAttempts, timeVars, elapsed, loopVars>>

-----------------------------------------------------------------------------
(* update: polling and handling                                            *)

\* A mistake: duplicates of the Welcome pass as well.
ReceiveUnfiltered(kind) ==
    /\ Due = {} /\ phase = "polling"
    /\ kind \in wire /\ state # "NotConnected"
    /\ Len(messageQueue) < MaxQueue
    /\ messageQueue' = Append(messageQueue, [kind |-> kind, attempt |-> attempt])
    /\ UNCHANGED <<attempt, connVars, connectionAttempts, timeVars, elapsed, phase, wire, welcomed>>

\* Only the Welcome is reliable, and passes the duplicate filter once.
Receive(kind) ==
    /\ Due = {} /\ phase = "polling"
    /\ kind \in wire /\ state # "NotConnected"
    /\ Len(messageQueue) < MaxQueue
    /\ messageQueue' = Append(messageQueue, [kind |-> kind, attempt |-> attempt])
    /\ wire' = wire \ {k \in {kind} : k = "Welcome"}
    /\ UNCHANGED <<attempt, connVars, connectionAttempts, timeVars, elapsed, phase, welcomed>>

Pop(kind) ==
    /\ messageQueue # <<>> /\ Last(messageQueue).kind = kind
    /\ messageQueue' = Front(messageQueue)
    /\ phase' = IF Len(messageQueue) = 1 THEN "polling" ELSE "handling"
    /\ UNCHANGED <<attempt, connectionAttempts, elapsed, wire, welcomed>>

Ignored == UNCHANGED <<connVars, timeVars>>

\* setPending
HandleConnect ==
    /\ Pop("Connect")
    /\ IF state = "Connecting"
       THEN /\ state' = "Pending" /\ lastHeartbeat' = Epoch
            /\ UNCHANGED <<connectMessage, log, timeVars>>
       ELSE Ignored

HandleReject ==
    /\ Pop("Reject")
    /\ IF state \in {"Connecting", "Pending"} THEN LocalDisconnect("ConnectionFailed") ELSE Ignored

\* handleHeartbeatResponse
HandleHeartbeat ==
    /\ Pop("Heartbeat")
    /\ lastHeartbeat' = Epoch
    /\ UNCHANGED <<state, connectMessage, log, timeVars>>

HandleDisconnect ==
    /\ Pop("Disconnect")
    /\ IF state # "NotConnected" THEN LocalDisconnect("Disconnected") ELSE Ignored

\* Mistakes in handling a Welcome: every one is taken, or the time of the last
\* heartbeat is not a time.
HandleWelcomeAgain ==
    /\ Pop("Welcome")
    /\ state' = "Connected" /\ lastHeartbeat' = Epoch
    /\ connectMessage' = FALSE
    /\ log' = Raised("Connected")
    /\ UNCHANGED timeVars

HandleWelcomeUnset ==
    /\ Pop("Welcome")
    /\ IF state \in {"Connecting", "Pending"}
       THEN /\ state' = "Connected" /\ lastHeartbeat' = now - Epoch
            /\ connectMessage' = FALSE
            /\ log' = Raised("Connected")
            /\ UNCHANGED timeVars
       ELSE Ignored

\* handleWelcome and onConnected, which drops the connect message.
HandleWelcome ==
    /\ Pop("Welcome")
    /\ IF state \in {"Connecting", "Pending"}
       THEN /\ state' = "Connected" /\ lastHeartbeat' = Epoch
            /\ connectMessage' = FALSE
            /\ log' = Raised("Connected")
            /\ UNCHANGED timeVars
       ELSE Ignored

Handle == HandleConnect \/ HandleReject \/ HandleHeartbeat \/ HandleDisconnect \/ HandleWelcome

-----------------------------------------------------------------------------
Kinds == {"Connect", "Reject", "Welcome", "Heartbeat", "Disconnect"}

Next ==
    \/ Connect \/ Disconnect \/ Tick \/ HeartbeatFires \/ Handle
    \/ \E kind \in Kinds : ServerSends(kind) \/ Receive(kind)

Spec == Init /\ [][Next]_vars

\* The update thread keeps running: it runs what is due, handles what was polled,
\* and begins anew, however many datagrams keep arriving in between.  Nothing is
\* assumed of the server, the network and the application.
FairSpec == Spec /\ WF_vars(HeartbeatFires) /\ WF_vars(Handle) /\ SF_vars(Tick)

-----------------------------------------------------------------------------
(* Properties                                                              *)

Open == state # "NotConnected"

\* The state is well typed.
TypeOK ==
    /\ attempt \in 0 .. MaxConnects
    /\ state \in {"NotConnected", "Connecting", "Pending", "Connected"}
    /\ lastHeartbeat \in {0, Epoch}
    /\ connectionAttempts \in 0 .. MaxAttempts /\ connectMessage \in BOOLEAN
    /\ now \in 0 .. MaxTime /\ elapsed \in 0 .. MaxTime
    /\ \A p \in DOMAIN eventQueue : p \in Nat /\ eventQueue[p] \in Nat \ {0}
    /\ phase \in {"polling", "handling"}
    /\ messageQueue \in Seq([kind : Kinds, attempt : 1 .. MaxConnects])
    /\ wire \subseteq Kinds /\ welcomed \subseteq 1 .. MaxConnects

\* Every attempt has one outcome: it connects, it fails, or it is disconnected
\* before or after it connected, whatever is left in the queue from the
\* attempts before it and however often its own messages are repeated.
OneOutcome ==
    \A n \in 1 .. MaxConnects : log[n] \in
        {<<>>, <<"Connected">>, <<"ConnectionFailed">>, <<"Disconnected">>, <<"Connected", "Disconnected">>}

\* A client that is not closed always has a heartbeat queued: no order of
\* connecting, disconnecting and timing out loses the chain that would repeat
\* the Connect and notice the time outs, and an attempt that still waits for an
\* answer has its message.
HeartbeatQueued ==
    /\ Open => DOMAIN eventQueue # {}
    /\ state \in {"Connecting", "Pending"} => connectMessage

\* The heartbeat queued after NeverConnected survives into the next attempt, but
\* however often that happens, no more than two chains run at a time.
TwoChainsAtMost == SumFunction(eventQueue) <= 2

\* Every attempt comes to an end the application hears of: it is answered, the
\* Connects are used up, or the pending connection times out.
AttemptsEnd ==
    \A n \in 1 .. MaxConnects :
        (attempt = n /\ state \in {"Connecting", "Pending"}) ~> (log[n] # <<>>)

\* One Welcome connects one attempt, if not always its own: one that was polled before
\* connect() was called again is handled for the new attempt.  However the server
\* repeats itself, the application hears Connected no more often than it was welcomed.
ConnectedByWelcome ==
    Cardinality({n \in 1 .. MaxConnects : "Connected" \in Range(log[n])}) <= Cardinality(welcomed)
=============================================================================
