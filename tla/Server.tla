------------------------------- MODULE Server -------------------------------
(***************************************************************************)
(* The connection table of server.py on a UDP transport: the endpoints     *)
(* transports/udp/udp_server.py knows, the connections pending a decision, *)
(* the clients, the free client IDs, and the messages that drive them.     *)
(*                                                                         *)
(* update() polls the transport, which appends to messageQueue, and then   *)
(* handles the queue from its END until it is empty, in the update thread. *)
(* The application decides about pending connections, kicks clients, stops *)
(* and starts the server between any two of these steps (in a callback or  *)
(* from a thread of its own).                                              *)
(*                                                                         *)
(* Before the application hears of a client that came or went, all clients *)
(* are told: that takes time, may be overtaken by the other thread, may    *)
(* disconnect another client, and may end in an exception.                 *)
(*                                                                         *)
(* A client is what its endpoint may send: Connect (again and again),      *)
(* Welcome once welcomed, Disconnect.  Of what it is sent only the Welcome *)
(* matters for that; a client that was rejected or kicked falls silent,    *)
(* as any client may.  Reliable delivery, the duplicate filter and the     *)
(* heartbeats' clock are not repeated here.                                *)
(***************************************************************************)
EXTENDS Integers, FiniteSets, SequencesExt

CONSTANTS
    Endpoints,      \* remote addresses
    MaxClients,     \* maxClientCount
    HasHandler,     \* whether the application has set handleConnection
    Duplicates,     \* whether the network duplicates datagrams
    None,           \* no connection
    Callers,        \* threads of the application that call the server, besides
                    \* the update thread, on which its callbacks run
    MaxConns,       \* bound on the Connection objects created
    MaxQueue,       \* bound on the messages one poll appends
    MaxStarts       \* bound on the times the server is started

ASSUME ServerAssumption ==
    /\ MaxClients \in Nat /\ MaxConns \in Nat /\ MaxQueue \in Nat /\ MaxStarts \in Nat
    /\ HasHandler \in BOOLEAN /\ Duplicates \in BOOLEAN
    /\ None \notin Nat

VARIABLES
    running,            \* isRunning
    starts,             \* counts the calls of start()
    conns,              \* every Connection object created, in that order
    known,              \* UDPServer.connections: endpoint -> connection
    clients,            \* client ID -> connection
    pendingConnections, \* connections waiting for accept or reject
    undecided,          \* connections the application was offered and has not decided about
    availableClientIDs,
    phase,              \* the update thread is "polling", "handling" or "dead"
    messageQueue,
    wire,               \* datagrams on their way to the server
    remote,             \* state of the client at each endpoint
    welcomed,           \* endpoints a Welcome was sent to
    telling,            \* notices under way: an event about a connection, which
                        \* a thread has still to raise
    disturbed,          \* connections a notice was lost about, or two overlapped
    log                 \* log[c]: the events raised for connection c

clientVars == <<wire, remote>>
tableVars == <<clients, availableClientIDs>>
decisionVars == <<pendingConnections, undecided>>
runVars == <<running, starts>>
loopVars == <<phase, messageQueue>>
noticeVars == <<telling, disturbed>>
eventVars == <<noticeVars, log>>
vars == <<runVars, conns, known, tableVars, decisionVars, loopVars, clientVars, welcomed, eventVars>>

Threads == {"update"} \union Callers

Conns == 1 .. Len(conns)

\* Connections are equal when their endpoints are (UDPConnection.__eq__).
SameEndpoint(c, d) == conns[c].endpoint = conns[d].endpoint
Holds(list, c) == \E d \in Range(list) : SameEndpoint(d, c)

\* list.remove: the first element equal to c.
Without(list, c) ==
    RemoveAt(list, CHOOSE i \in DOMAIN list :
        SameEndpoint(list[i], c) /\ \A j \in 1 .. i - 1 : ~SameEndpoint(list[j], c))

ClientCount == Cardinality(DOMAIN clients)

Telling(t) == {n \in telling : n.thread = t}
About(c) == {n \in telling : n.conn = c}
Runs(t) == t = "update" => phase # "dead"

Init ==
    /\ running = FALSE /\ starts = 0
    /\ conns = <<>> /\ log = <<>>
    /\ telling = {} /\ disturbed = {}
    /\ known = [ep \in Endpoints |-> None]
    /\ clients = <<>> /\ availableClientIDs = <<>>
    /\ pendingConnections = <<>> /\ undecided = {}
    /\ phase = "polling" /\ messageQueue = <<>>
    /\ wire = {}
    /\ remote = [ep \in Endpoints |-> "new"]
    /\ welcomed = {}

-----------------------------------------------------------------------------
(* The clients                                                             *)

Sends(ep, kind) == wire' = wire \union {[kind |-> kind, from |-> ep]}

\* Client.connect, and the Connect its heartbeat repeats.
ClientConnects(ep) ==
    /\ remote[ep] \in {"new", "connecting"}
    /\ Sends(ep, "Connect")
    /\ remote' = [remote EXCEPT ![ep] = "connecting"]
    /\ UNCHANGED <<runVars, conns, known, tableVars, decisionVars, loopVars, welcomed, eventVars>>

ClientRespondsWelcome(ep) ==
    /\ remote[ep] = "connecting" /\ ep \in welcomed
    /\ Sends(ep, "Welcome")
    /\ remote' = [remote EXCEPT ![ep] = "connected"]
    /\ UNCHANGED <<runVars, conns, known, tableVars, decisionVars, loopVars, welcomed, eventVars>>

\* Client.disconnect by its application.
ClientDisconnects(ep) ==
    /\ remote[ep] \in {"connecting", "connected"}
    /\ Sends(ep, "Disconnect")
    /\ remote' = [remote EXCEPT ![ep] = "closed"]
    /\ UNCHANGED <<runVars, conns, known, tableVars, decisionVars, loopVars, welcomed, eventVars>>

-----------------------------------------------------------------------------
(* What the handlers are built from                                        *)

\* A mistake in __reject: the state of the connection stays.
RejectConnectionOpen(c, cs) ==
    /\ conns' = cs
    /\ UNCHANGED <<tableVars, welcomed>>

\* __reject, for any reason: the connection is closed on this side, but its
\* endpoint stays known to the transport (transport.close is commented out).
RejectConnection(c, cs) ==
    /\ conns' = [cs EXCEPT ![c].state = "NotConnected"]
    /\ UNCHANGED <<tableVars, welcomed>>

\* A mistake in acceptConnection: the connection is not told its ID.
AcceptConnectionUntold(c, cs) ==
    IF ClientCount < MaxClients
    THEN LET id == IF availableClientIDs = <<>> THEN 0 ELSE Head(availableClientIDs) IN
         /\ availableClientIDs' = IF availableClientIDs = <<>> THEN <<>> ELSE Tail(availableClientIDs)
         /\ conns' = cs
         /\ clients' = [i \in DOMAIN clients \union {id} |-> IF i = id THEN c ELSE clients[i]]
         /\ welcomed' = welcomed \union {cs[c].endpoint}
    ELSE RejectConnection(c, cs)

\* acceptConnection.  It asks neither for the state of the connection nor,
\* although it means to, whether the connection is a client already:
\* "connection not in self.__clients" searches the IDs.
AcceptConnection(c, cs) ==
    IF ClientCount < MaxClients
    THEN LET id == IF availableClientIDs = <<>> THEN 0 ELSE Head(availableClientIDs) IN
         /\ availableClientIDs' = IF availableClientIDs = <<>> THEN <<>> ELSE Tail(availableClientIDs)
         /\ conns' = [cs EXCEPT ![c].id = id]
         /\ clients' = [i \in DOMAIN clients \union {id} |-> IF i = id THEN c ELSE clients[i]]
         /\ welcomed' = welcomed \union {cs[c].endpoint}
    ELSE RejectConnection(c, cs)

\* onClientConnected, onClientDisconnected and onConnectionFailed begin.
Begins(t, c, event) ==
    /\ telling' = telling \union {[thread |-> t, conn |-> c, event |-> event]}
    /\ disturbed' = IF About(c) = {} THEN disturbed ELSE disturbed \union {c}

\* Mistakes in localDisconnect: the ID is freed although it is in no entry, or
\* not freed at all.
LocalDisconnectFreeing(t, c, freed(_)) ==
    LET id == conns[c].id IN
    /\ known' = [known EXCEPT ![conns[c].endpoint] = None]
    /\ clients' = [i \in DOMAIN clients \ {id} |-> clients[i]]
    /\ availableClientIDs' = availableClientIDs \o freed(id)
    /\ IF conns[c].state \in {"Connected", "Pending"}
       THEN /\ Begins(t, c, IF conns[c].state = "Connected" THEN "ClientDisconnected" ELSE "ConnectionFailed")
            /\ UNCHANGED conns
       ELSE /\ conns' = [conns EXCEPT ![c].state = "NotConnected"]
            /\ UNCHANGED noticeVars

LocalDisconnectFreeingTwice(t, c) == LocalDisconnectFreeing(t, c, LAMBDA id : <<id>>)
LocalDisconnectLosingId(t, c) == LocalDisconnectFreeing(t, c, LAMBDA id : <<>>)

\* localDisconnect: the transport forgets the endpoint, whatever connection is
\* behind it; the client entry under this connection's ID goes, whatever
\* connection is in it.  The connection is closed once the application was told
\* (Finishes), if there is anything to tell.
LocalDisconnect(t, c) ==
    LET id == conns[c].id IN
    /\ known' = [known EXCEPT ![conns[c].endpoint] = None]
    /\ IF id \in DOMAIN clients
       THEN /\ clients' = [i \in DOMAIN clients \ {id} |-> clients[i]]
            /\ availableClientIDs' = Append(availableClientIDs, id)
       ELSE UNCHANGED tableVars
    /\ IF conns[c].state \in {"Connected", "Pending"}
       THEN /\ Begins(t, c, IF conns[c].state = "Connected" THEN "ClientDisconnected" ELSE "ConnectionFailed")
            /\ UNCHANGED conns
       ELSE /\ conns' = [conns EXCEPT ![c].state = "NotConnected"]
            /\ UNCHANGED noticeVars

-----------------------------------------------------------------------------
(* Polling                                                                 *)

Polls(datagram) ==
    /\ running /\ phase = "polling" /\ Telling("update") = {}
    /\ Len(messageQueue) < MaxQueue
    /\ wire' = IF Duplicates THEN wire ELSE wire \ {datagram}

\* onDataReceived of a Connect: it is ignored if the endpoint is known,
\* otherwise a connection is created for it (handleConnectionAttempt).
ReceiveConnect(ep) ==
    LET c == Len(conns) + 1 IN
    /\ [kind |-> "Connect", from |-> ep] \in wire
    /\ Polls([kind |-> "Connect", from |-> ep])
    /\ IF known[ep] # None
       THEN UNCHANGED <<conns, known, messageQueue, log>>
       ELSE /\ c <= MaxConns
            /\ conns' = Append(conns, [endpoint |-> ep, state |-> "Connecting", id |-> 0])
            /\ log' = Append(log, <<>>)
            /\ known' = [known EXCEPT ![ep] = c]
            /\ messageQueue' = Append(messageQueue, [kind |-> "Connect", conn |-> c])
    /\ UNCHANGED <<runVars, tableVars, decisionVars, phase, remote, welcomed, noticeVars>>

\* onDataReceived of anything else: it is dropped unless the endpoint is known
\* and its connection not closed.  (The duplicate filter for the reliable
\* Welcome is left out: handleWelcomeResponse ignores a second one.)
ReceiveOther(datagram) ==
    /\ datagram \in wire /\ datagram.kind # "Connect"
    /\ Polls(datagram)
    /\ LET c == known[datagram.from] IN
       messageQueue' = IF c # None /\ conns[c].state # "NotConnected"
                       THEN Append(messageQueue, [kind |-> datagram.kind, conn |-> c])
                       ELSE messageQueue
    /\ UNCHANGED <<runVars, conns, known, tableVars, decisionVars, phase, remote, welcomed, eventVars>>

-----------------------------------------------------------------------------
(* Handling                                                                *)

\* A mistake in _handleMessages: the message is read, and stays in the queue.
PopKeeping(kind, c) ==
    /\ phase # "dead" /\ Telling("update") = {}
    /\ messageQueue # <<>> /\ Last(messageQueue) = [kind |-> kind, conn |-> c]
    /\ phase' = "handling"
    /\ UNCHANGED <<messageQueue, runVars, clientVars>>

Pop(kind, c) ==
    /\ phase # "dead" /\ Telling("update") = {}
    /\ messageQueue # <<>> /\ Last(messageQueue) = [kind |-> kind, conn |-> c]
    /\ messageQueue' = Front(messageQueue)
    /\ phase' = IF Len(messageQueue) = 1 THEN "polling" ELSE "handling"
    /\ UNCHANGED <<runVars, clientVars>>

\* A mistake in handleConnect: nobody looks whether the endpoint has an entry.
HandleConnectAgain(c) ==
    LET cs == [conns EXCEPT ![c].state = IF @ = "Connecting" THEN "Pending" ELSE @] IN
    /\ Pop("Connect", c)
    /\ \/ /\ ~HasHandler
          /\ AcceptConnection(c, cs)
          /\ UNCHANGED decisionVars
       \/ /\ HasHandler /\ ClientCount < MaxClients
          /\ pendingConnections' = Append(pendingConnections, c)
          /\ undecided' = undecided \union {c}
          /\ conns' = cs
          /\ UNCHANGED <<tableVars, welcomed>>
       \/ /\ HasHandler /\ ClientCount >= MaxClients
          /\ RejectConnection(c, cs)
          /\ UNCHANGED decisionVars
    /\ UNCHANGED <<known, eventVars>>

\* handleConnect, once setPending is done.  The application's handler may decide
\* at once: that is Accept or Reject as the next step.
HandleConnect(c) ==
    LET cs == [conns EXCEPT ![c].state = IF @ = "Connecting" THEN "Pending" ELSE @]
        present == Holds(pendingConnections, c) \/ \E id \in DOMAIN clients : SameEndpoint(clients[id], c)
    IN
    /\ Pop("Connect", c)
    /\ \/ /\ ~HasHandler
          /\ AcceptConnection(c, cs)
          /\ UNCHANGED decisionVars
       \/ /\ HasHandler /\ ClientCount < MaxClients /\ ~present
          /\ pendingConnections' = Append(pendingConnections, c)
          /\ undecided' = undecided \union {c}
          /\ conns' = cs
          /\ UNCHANGED <<tableVars, welcomed>>
       \/ /\ HasHandler /\ (ClientCount >= MaxClients \/ present)
          /\ RejectConnection(c, cs)
          /\ UNCHANGED decisionVars
    /\ UNCHANGED <<known, eventVars>>

\* A mistake in handleWelcomeResponse: it does not ask for a pending connection.
HandleWelcomeAgain(c) ==
    /\ Pop("Welcome", c)
    /\ conns' = [conns EXCEPT ![c].state = "Connected"]
    /\ Begins("update", c, "ClientConnected")
    /\ UNCHANGED <<known, tableVars, decisionVars, welcomed, log>>

\* handleWelcomeResponse, and onClientConnected begins.
HandleWelcome(c) ==
    /\ Pop("Welcome", c)
    /\ IF conns[c].state = "Pending"
       THEN /\ conns' = [conns EXCEPT ![c].state = "Connected"]
            /\ Begins("update", c, "ClientConnected")
       ELSE UNCHANGED <<conns, noticeVars>>
    /\ UNCHANGED <<known, tableVars, decisionVars, welcomed, log>>

HandleDisconnect(c) ==
    /\ Pop("Disconnect", c)
    /\ LocalDisconnect("update", c)
    /\ UNCHANGED <<decisionVars, welcomed, log>>

Handle == \E c \in Conns : HandleConnect(c) \/ HandleWelcome(c) \/ HandleDisconnect(c)

\* Whatever else update() does, in handlers not modelled here, ends it when it
\* raises: nothing in FixedUpdateThread.run catches an exception.
UpdateRaises ==
    /\ phase # "dead" /\ Telling("update") = {}
    /\ phase' = "dead"
    /\ UNCHANGED <<runVars, conns, known, tableVars, decisionVars, messageQueue, clientVars,
                   welcomed, eventVars>>

-----------------------------------------------------------------------------
(* Notices.  sendClientConnected and sendClientDisconnected iterate over   *)
(* the clients; then the event is raised.  What a callback does is taken   *)
(* for the next step of its thread.                                        *)

\* The event is raised, and localDisconnect closes the connection after it.
Finishes(t) == \E n \in Telling(t) :
    /\ telling' = telling \ {n}
    /\ log' = [log EXCEPT ![n.conn] = Append(@, n.event)]
    /\ conns' = IF n.event = "ClientConnected"
                THEN conns ELSE [conns EXCEPT ![n.conn].state = "NotConnected"]
    /\ UNCHANGED <<runVars, known, tableVars, decisionVars, loopVars, clientVars, welcomed, disturbed>>

\* sendToAll raises: RuntimeError when the table changes under its iteration,
\* by the other thread or by a send that gives a client up, OSError once the
\* socket is closed.  The events are lost, of all notices it is nested in, and
\* the connections are not closed.
Raises(t) ==
    /\ \E n \in Telling(t) : n.event # "ConnectionFailed"
    /\ telling' = telling \ Telling(t)
    /\ disturbed' = disturbed \union {n.conn : n \in Telling(t)}
    /\ phase' = IF t = "update" THEN "dead" ELSE phase
    /\ UNCHANGED <<runVars, conns, known, tableVars, decisionVars, messageQueue, clientVars,
                   welcomed, log>>

-----------------------------------------------------------------------------
(* The application                                                         *)

\* accept and reject do nothing but warn if no equal connection is pending.
Decide(c) ==
    /\ c \in undecided
    /\ undecided' = undecided \ {c}
    /\ UNCHANGED <<runVars, known, loopVars, clientVars, eventVars>>

Accept(c) ==
    /\ Decide(c)
    /\ IF Holds(pendingConnections, c)
       THEN /\ pendingConnections' = Without(pendingConnections, c)
            /\ AcceptConnection(c, conns)
       ELSE UNCHANGED <<pendingConnections, conns, tableVars, welcomed>>

Reject(c) ==
    /\ Decide(c)
    /\ IF Holds(pendingConnections, c)
       THEN /\ pendingConnections' = Without(pendingConnections, c)
            /\ RejectConnection(c, conns)
       ELSE UNCHANGED <<pendingConnections, conns, tableVars, welcomed>>

\* disconnectClient, by ID or given a connection: any the application was told of.
Kick(t, c) ==
    /\ Runs(t) /\ Telling(t) = {}
    /\ conns[c].state # "Connecting"
    /\ LocalDisconnect(t, c)
    /\ UNCHANGED <<runVars, decisionVars, loopVars, clientVars, welcomed, log>>

\* One round of heartbeat()'s last loop.  It runs before update() polls, when
\* the queue is empty.  Which connections count as timed out is a question of
\* clocks, left open here.
TimesOut(c) ==
    /\ Runs("update") /\ Telling("update") = {}
    /\ running /\ messageQueue = <<>>
    /\ c \in {clients[id] : id \in DOMAIN clients} \union Range(pendingConnections)
    /\ LocalDisconnect("update", c)
    /\ UNCHANGED <<runVars, decisionVars, loopVars, clientVars, welcomed, log>>

\* disconnect: a connected connection whose quality is too poor, as a send on it
\* finds, be it of a notice under way.  A notice is not sent to the connection it
\* is about.
QualityDisconnect(t, c) ==
    /\ Runs(t) /\ Telling(t) \intersect About(c) = {}
    /\ conns[c].state = "Connected"
    /\ LocalDisconnect(t, c)
    /\ UNCHANGED <<runVars, decisionVars, loopVars, clientVars, welcomed, log>>

\* stop: the queue and the connections themselves are left as they are.
Stop ==
    /\ running
    /\ running' = FALSE
    /\ pendingConnections' = <<>> /\ clients' = <<>>
    /\ known' = [ep \in Endpoints |-> None]
    /\ UNCHANGED <<starts, conns, availableClientIDs, undecided, loopVars, clientVars, welcomed, eventVars>>

\* A mistake in __initializeClientIDs: one ID too many.
StartOneTooMany ==
    /\ starts < MaxStarts
    /\ starts' = starts + 1
    /\ running' = TRUE
    /\ pendingConnections' = <<>> /\ clients' = <<>>
    /\ availableClientIDs' = [i \in 1 .. MaxClients + 1 |-> i]
    /\ known' = [ep \in Endpoints |-> None]
    /\ UNCHANGED <<conns, undecided, loopVars, clientVars, welcomed, eventVars>>

Start ==
    /\ starts < MaxStarts
    /\ starts' = starts + 1
    /\ running' = TRUE
    /\ pendingConnections' = <<>> /\ clients' = <<>>
    /\ availableClientIDs' = [i \in 1 .. MaxClients |-> i]
    /\ known' = [ep \in Endpoints |-> None]
    /\ UNCHANGED <<conns, undecided, loopVars, clientVars, welcomed, eventVars>>

-----------------------------------------------------------------------------
Next ==
    \/ \E ep \in Endpoints :
         ClientConnects(ep) \/ ClientRespondsWelcome(ep) \/ ClientDisconnects(ep) \/ ReceiveConnect(ep)
    \/ \E d \in wire : ReceiveOther(d)
    \/ Handle \/ UpdateRaises
    \/ \E c \in Conns : Accept(c) \/ Reject(c) \/ TimesOut(c)
    \/ \E t \in Threads : \E c \in Conns : Kick(t, c) \/ QualityDisconnect(t, c)
    \/ \E t \in Threads : Finishes(t) \/ Raises(t)
    \/ Start \/ Stop

Spec == Init /\ [][Next]_vars

\* Until it dies the update thread keeps running: what was polled is handled, and
\* its notices end.
FairSpec == Spec /\ WF_vars(Handle) /\ WF_vars(Finishes("update") \/ Raises("update"))

-----------------------------------------------------------------------------
(* Properties                                                              *)

Connection == [endpoint : Endpoints, id : 0 .. MaxClients,
               state : {"Connecting", "Pending", "Connected", "NotConnected"}]
Kinds == {"Connect", "Welcome", "Disconnect"}
Events == {"ClientConnected", "ClientDisconnected", "ConnectionFailed"}

\* The state is well typed: whatever the lists, the table and the queue refer to
\* is a connection the transport has created.
TypeOK ==
    /\ running \in BOOLEAN /\ starts \in 0 .. MaxStarts
    /\ conns \in Seq(Connection)
    /\ log \in Seq(Seq(Events)) /\ Len(log) = Len(conns)
    /\ known \in [Endpoints -> Conns \union {None}]
    /\ clients \in [DOMAIN clients -> Conns] /\ DOMAIN clients \subseteq 0 .. MaxClients
    /\ pendingConnections \in Seq(Conns) /\ undecided \subseteq Conns
    /\ availableClientIDs \in Seq(0 .. MaxClients)
    /\ phase \in {"polling", "handling", "dead"}
    /\ telling \subseteq [thread : Threads, conn : Conns, event : Events] /\ disturbed \subseteq Conns
    /\ messageQueue \in Seq([kind : Kinds, conn : Conns])
    /\ wire \subseteq [kind : Kinds, from : Endpoints]
    /\ remote \in [Endpoints -> {"new", "connecting", "connected", "closed"}]
    /\ welcomed \subseteq Endpoints

Partitioned ==
    /\ \A i, j \in DOMAIN availableClientIDs : availableClientIDs[i] = availableClientIDs[j] => i = j
    /\ Range(availableClientIDs) \intersect DOMAIN clients = {}
    /\ Range(availableClientIDs) \union DOMAIN clients = 1 .. MaxClients

\* While the server runs, every client ID is either free, once, or in use, and
\* 0, the ID handed out when none is free, is never in use.
IdPartition == running => Partitioned

\* The connection in the table under an ID carries that ID, so that none is in
\* the table twice, although accepting one never looks for it there.
IdsMatch == \A id \in DOMAIN clients : conns[clients[id]].id = id

\* The application hears of a connection in order: it connects, then
\* disconnects, or it fails without ever having connected; each at most once.
\* Only a notice that was lost or overtaken breaks that, and even then no
\* connection is announced twice.
EventsInOrder == \A c \in Conns :
    /\ c \notin disturbed => log[c] \in
         {<<>>, <<"ClientConnected">>, <<"ConnectionFailed">>, <<"ClientConnected", "ClientDisconnected">>}
    /\ \A i, j \in DOMAIN log[c] : log[c][i] = "ClientConnected" /\ log[c][j] = "ClientConnected" => i = j

\* With a handler, an endpoint has one place in the server: it is pending once
\* or a client once, however often its client connected and whatever became of
\* the transport's entry for it.
OneEntryPerEndpoint ==
    LET Pending(ep) == {i \in DOMAIN pendingConnections : conns[pendingConnections[i]].endpoint = ep}
        Client(ep) == {id \in DOMAIN clients : conns[clients[id]].endpoint = ep}
    IN  HasHandler => \A ep \in Endpoints : Cardinality(Pending(ep)) + Cardinality(Client(ep)) <= 1

Attempted(c) == IF c \in Conns THEN conns[c].state = "Connecting" ELSE FALSE
HasOutcome(c) ==
    IF c \in Conns THEN c \in undecided \union Range(clients) \/ conns[c].state = "NotConnected" ELSE FALSE

\* Every connection attempt the transport takes in has an outcome: the connection
\* becomes a client, is offered to the application, or is closed, be it silently;
\* unless the update thread dies first.
AttemptsAreDecided == \A c \in 1 .. MaxConns : Attempted(c) ~> (HasOutcome(c) \/ phase = "dead")

\* A connection is new to the table once: neither the Connect waiting in the
\* queue nor the application's decision is about a client, and none is about the
\* same connection as another.  IdsMatch rests on this, for accepting a connection
\* asks for nothing but a free place.
NewOnce ==
    LET Waiting(i) == messageQueue[i].kind = "Connect" IN
    /\ \A i \in DOMAIN messageQueue : Waiting(i) => messageQueue[i].conn \notin undecided \union Range(clients)
    /\ \A i, j \in DOMAIN messageQueue :
           Waiting(i) /\ Waiting(j) /\ messageQueue[i].conn = messageQueue[j].conn => i = j
    /\ undecided \intersect Range(clients) = {}
=============================================================================
