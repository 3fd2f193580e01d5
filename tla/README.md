# Verification of PytideNetworking

TLA+ modules, TLC configurations and TLAPS proofs about PytideNetworking, a
client/server library for games: unreliable, reliable and notify messages over
UDP or TCP. Paths below are relative to `src/pytidenetworking/`.

## 1. The system

| Component | State | Operations | Interacts with |
|---|---|---|---|
| Server (`server.py`) | `clients` (ID → connection), `pendingConnections`, `availableClientIDs`, `timedOutClients`, handlers | `start`, `stop`, `update`, `heartbeat`, `handle`, `handleConnect`, `accept`, `reject`, `disconnectClient`, `localDisconnect`, `send`, `sendToAll` | polls its transport; owns connections; calls the application (`handleConnection`, events, message handlers) |
| Client (`client.py`) | one connection, connect message, attempt counter | `connect`, `disconnect`, `update`, `heartbeat`, `handle`, `localDisconnect` | polls its transport; calls the application |
| Peer (`peer.py`) | `messageQueue`, `eventQueue`, `current_time` | `update`, `executeLater`, `_handleMessages`, `_handleData`, `stopTime` | base class of both; the transport's `DataReceived` calls `_handleData` |
| Connection (`connection.py`) | state, ID, RTT, last heartbeat, pending messages, two sequencers, metrics | `sendMessage`, `handleAck`, `clearMessage`, `resendMessage`, `setPending`, `handleWelcome(Response)`, heartbeats, `localDisconnect` | calls its peer to disconnect; is called by peer and sequencers |
| Reliable sequencer (`utils/sequencer.py`, `utils/relieble_sequencer.py`, `utils/bitfield.py`, `utils/helper.py`) | next ID, receive window, ack window | `nextSequenceID`, `shouldHandle`, `updateReceivedAcks` | asks its connection to ack, clear and resend |
| Notify sequencer (`utils/notify_sequencer.py`) | the same windows | `insertHeader`, `shouldHandle`, `updateReceivedAcks` | reports delivery and loss to its connection |
| Pending messages (`pending_message.py`, `utils/object_pool.py`) | objects with send counter and cleared flag; one pool for the whole process | `createPending`, `trySend`, `retrySend`, `clear` | queue resend events at the peer, disconnect when the counter is exhausted |
| Messages (`message_base.py`, `message.py`, `message_relay_filter.py`, `utils/converter.py`) | bits with a read and a write cursor, a pool | `put...`, `get...`, `release`, `shouldRelay` | used by all |
| Metrics (`utils/connection_metrics.py`, `utils/rolling_stat.py`) | counters, rolling windows | one per kind of traffic | feed the quality disconnect |
| UDP transport (`transports/udp`) | socket, endpoint → connection | `poll`/`receive`, `send`, `close`, `shutdown` | raises `Connected`, `DataReceived` |
| TCP transport (`transports/tcp`) | sockets, a partial message per connection | `accept`, `receive` with length prefix, `send`, `close` | raises `Connected`, `DataReceived`, `Disconnected` |
| Events, threads, logging (`utils/eventhandler.py`, `threading`, `utils/logengine.py`) | handler list; a loop calling `update` | | |

`update()` of either peer does three things in this order: run the delayed events
that are due, poll the transport (every datagram available goes through
`_handleData`: duplicate filter, ack, `messageQueue`), and empty `messageQueue`
**from its end**. It runs in a thread of its own or in the application's loop;
applications send, accept, kick and stop from their own threads or from callbacks.

What makes the behaviour hard: a datagram network that loses, duplicates and
reorders; queued messages handled newest first; connections compared by
endpoint while the table is keyed by ID; objects recycled through a global pool
while events still refer to them; two directions of traffic sharing one ack
window; threads. What makes each component correct:

- sequencer: a reliable message is handed over at most once, and without loss
  in the end; acks name only what arrived;
- connection: every ID is pending or reported, exactly one of the two; a report
  means delivery;
- pending messages: an object carries one message at a time, is resent in time,
  and does nothing any more once cleared, nor once its connection closed;
- server: IDs are partitioned, the table and the connections agree, an endpoint
  has one place, events come in order, every attempt has an outcome;
- client: one heartbeat chain, one outcome per attempt, nothing from an earlier
  connection reaches a later one;
- messages: what is got is what was put, at any alignment, whatever was written
  over or raised in between; an object of the pool is in one message at a time;
- relay: every other client that stays gets the message, once;
- transports: framing neither loses nor joins messages, the end of a stream is
  noticed.

`PROJECT.json` lists the components with their state of modelling, and every
hazard at its line with the properties that cover it.

## 2. The modules

| Module | Models | State and actions |
|---|---|---|
| `SequenceGap` | `getSequenceGap` | operators only |
| `Bitfield` | `utils/bitfield.py` | records `[bits, count, capacity]`; `bits` is the set of positions that are one. Overflowing `capacity`, never trimming, and the `ValueError` of a sweep past the count are kept |
| `AtMostOnceChannel` | nothing: the abstract specification of the reliable mode | `open`, `sent`, `taken`, `got`; `Transmit`, `Close`, `Take`, `HandOver` |
| `ReliableChannel` | both ends of a connection: `sendMessage`, `_handleData`, `shouldHandle`, `sendAck`, `handleAck`, `updateReceivedAcks`, `clearMessage`, `resendMessage` | one variable per attribute, indexed by the end; `wire` is the set of all packets sent; `handled` and `reported` record what the application saw. Sending asks for no state, as in the code: connections are sent on before they are established and after they closed |
| `PendingMessages` | `pending_message.py`, the pool, `executeLater`, the event loop of `Peer.update` | several connections of one process share `pool`; `object` has the attributes; `sends` counts transmissions; `stopped` has the connections whose `current_time` is zero between `stopTime` and the next `update`; `closedAt` is the last ID sent when a connection closed, for checking only |
| `Server` | the connection table with the UDP server's endpoints | `conns` has every Connection object; the actions are the handlers, the application's calls, and what a client may send. `telling` has the notices under way: `onClientConnected` and `onClientDisconnected` first send to all clients (`Begins`) and raise the event afterwards (`Finishes`) or never (`Raises`); `disturbed` has the connections a notice was lost about, or two overlapped |
| `Client` | the client's connection attempts on UDP: `connect`, `disconnect`, `heartbeat`, `handle` | `now`, `elapsed` and `eventQueue` are the peer's time; `messageQueue` outlives connections; `wire` has what may still arrive on the socket of the current one; `log[n]` the events raised while attempt `n` was current |
| `BitStream` | `utils/converter.py`, as far as messages use it | an array is the sequence of its bits; copying bits, variable length integers |
| `Message` | `message.py`, `message_base.py`: one message from the first put to the last get | `message` (data, `readBit`, `writeBit`, header, IDs) and `received`; `items` and `gets` remember what was put and got; the actions are the application's calls, sending, relaying |
| `TCPStream` | `transports/tcp/tcp_connection.py` from `send` of several threads to `receive` of a server | `sendBuffer` of the peer, `call` (the statement of `send` each thread is at), `wire`, the four attributes of the receiving connection; one `recv` is one action |
| `Relay` | `onMessageReceived`, `sendToAll`, `createFromBytes`/`create`/`release` with the pool, for the update thread and one of the application | `pool`, `content` (what an object holds), `queue`, `clients` (the dict in its order, with holes, which an insertion may compact: `Rebuild`), `call` (where each thread is) |
| `MC...` | instances for TLC | symmetry sets, functions as constants, the constraint of one run |
| `ServerProofs`, `ReliableProofs`, `PendingProofs`, `ClientProofs`, `RelayProofs`, `TCPProofs`, `MessageProofs` | the theorems about `Server`, `ReliableChannel` with `MCSequenceGap`, `PendingMessages`, `Client`, `Relay`, `TCPStream`, and `Message` with `BitStream` | |
| `SequenceLemmas` | lemmas the proofs share: what a sequence holds after `Append`, `Front`, `Tail` and `SubSeq`; how often a period fits into a difference | |

How they relate: `ReliableChannel` extends `SequenceGap` and `Bitfield` and
instantiates `AtMostOnceChannel` with a refinement mapping (`Promise`).
`PendingMessages` has what decides the choice `ReliableChannel` leaves open, whether a
(re)send goes out, comes too early or gives the connection up. `Server` takes
the delivery of datagrams as it comes and adds what is decided above it.
`Client` and `Server` are the two ends of the handshake; each has of the other
what it may send. `Message` extends `BitStream` and has what a message is;
`TCPStream` and `Relay` have of it only its length and which one it is. `Relay`
takes from `Server` that clients come and go and how a removal changes the table,
and adds the two things all messages pass: the pool and the iteration over the clients.

Definitions named after a mistake ("a mistake in ...") are variants of the
definition that follows. No specification uses them; each shows, put in that
definition's place, that a property of a run is able to fail.

### What is abstracted

- Message contents, except in `Message`; a packet has its kind, its IDs and its ack fields.
- In `Message`: the value of a fixed width type is its bytes (`int.to_bytes` and `struct`
  are Python's). Arrays without their length and gets at a position are left out.
- In `TCPStream`: a byte is the message it belongs to and its place there, the size
  counted in; read out of place as a size it has any value of `Misread`, so that no
  arithmetic hides a mix up. `sent` is what the socket took of each connection, without the
  Connects after the first, which the server drops (`Take`).
- In `Relay`: when the transport has another message, what the handshake does, and the notice
  `ClientDisconnected`, which is created, sent and released in one step; `localDisconnect` too is
  one step. Which insertions resize a dict is left open: CPython does it when the entries,
  holes included, are two thirds of its table, first at the sixth.
- In `Server`: what a callback does is the next step of its thread, after the event instead of
  within it. `Callers` are the threads that call the server beside the update thread. What the
  iteration over the clients meets on its way is `Relay`'s; `Server` has that it takes time,
  that a send in it may give another client up, and that it may raise.
- In `ReliableChannel` and `PendingMessages`: a connection that closed stays closed. That a
  `Connection` object is used after its client has begun another attempt is left out.
- Metrics. They influence behaviour at two places: the mean number of send attempts
  (`connection.py:352`), which nothing ever feeds, and the loss rate of notify
  messages, which `Server!QualityDisconnect` covers by a free choice.
- In `ReliableChannel`: time and send counters. In `PendingMessages`: the
  network. In `Client`: the server's decisions. In `Server`: clocks (`TimesOut` may happen to any client or pending
  connection), sequence numbers and acks.
- Notify messages, see section 6.

## 3. The runs

| Run | Shows | Bounds, and why they are enough |
|---|---|---|
| `gap` | the gap is the distance of two counters closer than half the ID space, and antisymmetric | 8 IDs, counters up to 19: two full wraps of both |
| `reliable_safety` | at most once, truthful acks, complete bookkeeping, the refinement | 5 and 3 IDs; behaviours of two kinds (constraint `Explored`). Short streams: 2 messages each way and up to 4 acks (2 unless the second end is connected), sent in every state of that end, also before it is established and after it closed, 2 queued, any number of duplicates, any order; two IDs suffice for positive, negative and zero gaps on both windows and for acks crossing data. Long streams: 4 messages to one end, enough for the ack window to be swept, to resend from the sweep and to give the connection up in the middle of it |
| `reliable_liveness` | without loss every message is handled | 2 and 1 messages, 1 queued; see fairness |
| `pending_safety` | exclusive objects, nothing sent after it was cleared, no events after a disconnect but for what is sent after it | 2 connections, 3 objects, pool of 2, 3 attempts, 2 ticks, 2 messages each: objects are recycled across connections, also closed ones, the pool overflows, counters run out |
| `server_safety` | partitioned IDs, matching table, ordered events; no handler | 2 endpoints, 2 connections, 2 client IDs, 2 queued, a restart, duplicated datagrams, one thread of the application beside the update thread: a notice about one client meets the other client, a second notice, and an exception |
| `server_decisions` | with a handler: no double entry, and every attempt has an outcome or the update thread dies | 2 endpoints, 2 connections, 2 IDs, 2 queued, a restart, duplicated datagrams; kicks come from callbacks only (`Callers` is empty), decisions at any time |
| `client` | one outcome per attempt, and one in the end; `Connected` for no more attempts than were welcomed; the heartbeat chain is never lost, and never more than doubled | 3 calls of `connect`, 2 connects per attempt, 2 queued, an `Epoch` of 3 intervals. Attempts fail, are answered, time out and are abandoned in every order; a leftover heartbeat fires while the client is closed (`MaxIdle` 5), and meets the next attempt. `MaxTime` (16) is never reached, so time never stops for an attempt |
| `message` | gets return what was put, headers and IDs arrive, no message outgrows its limit | 12 items: one of each way of putting (fixed width of 1, 2 and 8 bytes, a bool, arrays with and without a check for each element, strings, the empty one alone and in an array), two shapes twice to write over; 3 items in a message of at most 13 bytes, so that two of 8 bytes do not fit, an array stops in the middle, and a bool shifts all that follows off the byte boundary; message IDs of one and of two bytes |
| `tcp_stream` | messages arrive whole, in order and in the end, unless bytes went out of place; only then may the receiver hang | 2 threads, 2 connections, messages of 2, 2 and 1 bytes behind 2 bytes of size, sockets that take 5 bytes: a message and a part of the next fit, every split of sizes and messages occurs; a connection that is closed or reset at any moment |
| `relay` | handlers get what was received until a relay releases a message twice; a relay reaches every client that stays unless the table was resized under it, none twice, never the sender; polled messages are handled | 3 clients and one that is accepted later, 2 messages received, one sent to all, one client removed (by the other thread or by a send that gives up), a pool of 2: it is empty, shared and overfull |

Every bound is a constant: `LastId`, `MaxQueue`, `MaxTime`, `MaxIdle`, `Objects`, `MaxConns`,
`MaxConnects`, `MaxStarts`, `MaxCount`, `MaxBits`, `MaxItems`, `MaxReplaced`, `Length`, `Capacity`,
`MaxEnded`, `MaxReceived`, `MaxCreated`, `MaxRemoved`, `MaxAccepted`. The real window sizes (65536 IDs, 128 positions, 16 ack
bits) are used wherever the run does not depend on reaching their end.
Deadlock is not checked: applications may simply stop sending, and all bounded
counters end.

### Disagreements between code and documentation

Each of these runs checks one sentence of a comment or of the documentation,
and TLC finds a behaviour that violates it.

| Run | Behaviour |
|---|---|
| `reliable_report` | With traffic both ways, `updateReceivedAcks` measures the peer's ack against this end's own receive window (`utils/relieble_sequencer.py:38`): messages that never arrived are cleared and reported delivered. |
| `pending_resend` | A resend event acts only if its due time equals the time of the last send: no timed resend takes place. |

The modules have these behaviours too; no run is spent on them:

- `utils/bitfield.py:58`: the first shift of an ack window makes the capacity equal to the
  count; a later gap sweeps further than the count reaches, `1 << -1` raises
  `ValueError` and ends the update thread (`ReliableChannel!AckRaises`).
- `server.py:483`: a `Disconnect` still queued when its client is kicked removes the
  next holder of the ID (`Server!LocalDisconnect`, and in `Relay`).
- `client.py:351`: a `Welcome` polled before `connect` is called again is handled for the
  new connection: `Connected` for an attempt no server has seen. `ConnectedByWelcome`
  says that it takes the place of the one it was meant for: none comes from nothing.
- `connection.py:258`: nothing asks for the state of a connection. What is sent on a closed one gets an
  ID, an entry in the dict that stays there for good, and a resend event, after the
  `eventQueue` was emptied (`PendingMessages!SendMessage`, `ReliableChannel!Send`,
  `SendUntransmitted`).
- `peer.py:189`: `stopTime` sets `current_time` to zero: until the next `update`, what is sent is
  stamped with a time before that of its connection (`PendingMessages!Clock`).
- `server.py:596`, `server.py:631`: the event is raised after all clients were told. A
  `RuntimeError` or `OSError` in between loses it, and ends the update thread if it is there: after a lost `ClientConnected` the
  application hears `ClientDisconnected` alone, after a lost `ClientDisconnected` the connection stays
  open in no table. A disconnect by the other thread overtakes the notice, so that
  `ClientDisconnected` comes first (`Server!Raises`, `disturbed`). `EventsInOrder` says that
  nothing else disturbs the order, and that even so no connection is announced twice.
- `server.py:425`: a removal and an insertion that resizes the dict leave its size as it was, and the
  iteration goes on: a client that stayed is passed over (`Relay!Rebuild`).
- `utils/converter.py:441`: off the byte boundary a last byte is read whatever the number of bits, so
  that an empty string is read back as `"\x00"`, the byte of its length (`BitStream!ByteBefore`).
- `utils/sequencer.py:28`: `+= 1 & 0xffff` masks the increment, so that the counter
  never wraps; past 65535 the dict key and the acknowledged ID differ (`Allocate`).
- `pending_message.py:97`: a message that gives up is cleared, then the disconnect
  clears it again: its object is in the pool twice (`GiveUp`). `ExclusiveUntilExhausted`
  says that this is the only way to share one.
- `pending_message.py:141`: assigning `pendingMessage.__sendAttempts` outside the class
  creates another attribute: recycled objects keep their counter (`SendMessage`).
- `peer.py:228`: `Connect` and `Disconnect` of one poll are handled in reverse, and a
  closed connection enters the server's table (`Server!Pop`).
- `server.py:350`: a pending connection that timed out or disconnected stays in the
  pending list (`Server!LocalDisconnect`).
- `client.py:295`: a heartbeat is queued after `NeverConnected`, and a second chain runs
  beside the next attempt, whose connects are used up twice as fast (`Client!Heartbeat`).
- `client.py:228`: `connect` does not set `current_time`, so the first heartbeat of an
  attempt is late by the time since the last one started (`Client!Connect`).
- `connection.py:254`: `resetTimeout` stores seconds since 1970, the time outs subtract
  that from milliseconds since `connect`: none before some 20 days (`Client!Epoch`).
- `server.py:613`: a relayed message is released by `sendToAll` and again by `handle`; its
  object then serves two messages, and a handler gets the wrong one. `HandledAsReceived`
  says that nothing else does this.
- `message_base.py:238`: a received message has `writeBit` 0, so that the relay sends its
  header and IDs and no payload (`Message!FromBytestream`, `Relay`).
- `server.py:422`: `sendToAll` ends with `RuntimeError` when a client leaves during it, in the
  update thread too; `utils/object_pool.py:31` with `IndexError` (`Relay!TableChanged`,
  `FailsToAcquire`).
- `message.py:350`: `getBool` of an unaligned bool in the last byte raises `IndexError`
  (`LoneBool`). `message.py:379`: `putBoolArray` does not move the write position, so that
  the next item overwrites the array, and `getBoolArray` reads an unaligned one
  from the start of the message (`Intact`).
- `message.py:735`: `putInt32Array` asks for half the room it needs; `message.py:1088`: a
  string with a byte above 127 raises `OverflowError`. What was put before stays in the
  message. `message.py:518`: an array of `UInt8` put at a position writes all elements to
  the first one's place (`Byte`).
- `transports/tcp/tcp_connection.py:88`: a socket that is full makes `sendall` raise in the middle
  of a message; the rest is dropped, and the receiver takes what follows for it, or for a
  size. A size of zero or less makes `receive` loop for ever (`TCPStream!Spins`).
- `transports/tcp/tcp_connection.py:105`: the end of a stream is reported to nobody
  (`TCPStream!ReceiveEnd`).
- `transports/tcp/tcp_connection.py:85`: two threads that send share one buffer: each may send the
  other's message, or both in one (`TCPStream!SendPayload`).

## 4. Fairness

- `ReliableChannel!LosslessSpec`: weak fairness of handling, because `update`
  always empties the queue it filled; strong fairness of receiving each
  message, which is the assumption that the network loses nothing. It is needed
  because nothing else brings a lost message back (`pending_resend`), and strong
  because polling is disabled while the queue is handled.
- `Server!FairSpec`: weak fairness of handling, and of ending a notice of the update thread,
  by its event or by an exception: the iteration over the clients is finite. That no
  exception ends the thread is not assumed (`UpdateRaises`, `Raises`); `AttemptsAreDecided`
  allows for it. Nothing is assumed of clients, the network or the application.

- `Client!FairSpec`: weak fairness of handling and of the heartbeats that are due,
  because one `update` runs both to their end; strong fairness of time passing,
  because the next `update` comes however many messages keep arriving: a tick waits
  until the queue is empty and nothing is due, which happens again and again.
  Nothing is assumed of the server, the network or the application.

- `TCPStream!FairSpec`: weak fairness of a `send` that has begun, whose statements follow
  one another, and of receiving, because `update` polls every connection again and again.
  That sends begin, or that the socket takes a whole message, is not assumed.

- `Relay!FairSpec`: weak fairness of the update thread alone, which goes on until an exception
  ends it; not of polling, which depends on clients, nor of the application.

`PendingMessages` and `Message` state no liveness.

## 5. The proofs

`ServerProofs` proves, for every value of the constants of `Server` that
`ServerAssumption` allows (any set of endpoints, any bounds, with or without
handler and duplicates):

| Theorem | States |
|---|---|
| `TypeCorrect` | `Spec => []TypeOK` |
| `TableIds` | `Spec => [](NewOnce /\ IdsMatch)` |
| `ClientIds` | `Spec => []IdPartition` |
| `OrderedEvents` | `Spec => []EventsInOrder` |
| `OneEntryEach` | `Spec => []OneEntryPerEndpoint` |
| `OfferedOnce` | `Spec => []NewOnce` |

The argument. `TypeOK` is inductive; the only delicate step is `Without`
(`list.remove`), whose `CHOOSE` needs a least matching position
(`LeastElement`). `IdsMatch` is not inductive alone: accepting writes a new ID
into a connection, which breaks the table if that connection is in it. That it
is not is `NewOnce`: the Connect that is handled, or the decision that is taken,
is about a connection that is not in the table, and no other Connect or decision
about it remains. Both together are inductive over `TypeOK`. `IdPartition` is then
inductive over these two and a bound: an entry is removed under the ID of the
connection that leaves and that ID is freed exactly if it was in use, and
accepting takes an ID only if fewer than `MaxClients` are in use, when the
partition leaves one free. It is claimed while the server runs, because `stop`
empties the table without giving the IDs back. `EventsInOrder` follows from
`EventsByState`, which has two parts for each connection. `AnnouncedOnce` holds whatever is lost
or overtaken: only the update thread announces a connection, once, on the Welcome that
connects it, and no connection goes back to pending. `Fits` is about the connections no
notice was lost about and no two overlapped: it ties the log to the state while there is no
notice (`FitsState`: nothing while connecting or pending, one `ClientConnected` while connected) and to
the event of the notice while there is one (`FitsNotice`), which is the only one; beginning a notice
(`LocalDisconnectEvents`) leads from the first to the second, finishing it (`FinishesEvents`) back. `OneEntryPerEndpoint`
counts sets; `OneEntry` says the same of the entries themselves, and is inductive with a
handler: connections keep their endpoint (`EndpointsStay`), `handleConnect` looks for an
entry before it offers a connection, and accepting takes out of the pending list one
connection of the endpoint it puts into the table (`OneEntryMoves`), though not always
the same object.

`ReliableProofs` proves first, for every even size of the ID space (`IdSpaceAssumption`)
and counters without bound:

| Theorem | States |
|---|---|
| `Distance` | `Counting => []GapIsDistance` |
| `Antisymmetry` | `Counting => []GapIsAntisymmetric` |

A counter is a number of whole periods and an ID (`Periods`). Two counters less than
half a period apart differ by at most one whole period (`SmallMultiple`); in each of
the three cases the correction of `getSequenceGap` (`GapOfIds`) is that difference.

It then proves, for any two ends, any even ID space, any lengths of the streams
(`ReliableAssumption`) and any number of duplicates, losses and delays:

| Theorem | States | If |
|---|---|---|
| `TypeCorrect` | `Spec => []TypeOK` | |
| `Accounting` | `Spec => []PendingAccounting` | |
| `Cleared` | `Spec => ClearedForGood` | |
| `HandledOnce` | `Spec => []AtMostOnce` | `NoWrap` |
| `TruthfulAcks` | `Spec => []AcksAreTruthful` | `NoWrap` |
| `PromiseKept` | `Spec => ImplementsPromise` | `NoWrap` |

`NoWrap` says that no end sends more than half the ID space (32768 messages) in the life of
a connection. It is needed: with 8 IDs and 7 messages, TLC finds a packet that is delayed
until its ID counts as new, and the message is handled a second time. With it, every gap
that is taken is a difference (`GapOfIds`), and the receive window is an exact
record (`SeenAt`): nothing taken in is newer than the last ID, and the bit at each distance
says whether that message was taken in. It is exact because the window of `receivedSeqIds`
grows and is never trimmed. Then `shouldHandle` lets through just what was not taken in
(`WindowIsExact`), an ack built from the window is true, and a message waits in the queue at
most once and only if it was not handled (`WaitsOnce`): together the invariant `Recorded`.
For the refinement, `SentOK` says in addition that what is on the wire has got its ID, so that
what is sent next is new to the wire; every step is then one of `AtMostOnceChannel` or leaves
`open`, `sent`, `taken` and `got` as they are (`PromiseStep`). What `AtMostOnceChannel` promises
of a closed end is that it takes nothing in any more; it may transmit, and hands over what it had
taken. The ack window, which does not work as meant
(`reliable_report`), is part of the steps but of none of these invariants except `TypeOK`.

`ClientProofs` proves, for all intervals, time outs and numbers of attempts
(`ClientAssumption`), any length of the queue, and without the update thread's fairness:

| Theorem | States |
|---|---|
| `TypeCorrect` | `Spec => []TypeOK` |
| `SingleOutcome` | `Spec => []OneOutcome` |
| `HeartbeatKept` | `Spec => []HeartbeatQueued` |
| `WelcomeConnects` | `Spec => []ConnectedByWelcome` |
| `NoThirdChain` | `Spec => []TwoChainsAtMost` |

`TypeOK` needs `Attempted`: before the first `connect()` nothing is open, so that what is
received refers to an attempt. `OneOutcome` follows from `OutcomeByState`, which ties what
was raised for an attempt to the state of the connection: nothing while it waits for an
answer, `Connected` while it is connected, nothing for attempts to come. One lemma
(`StepRaises`) reduces every operation to the event it raises and the states it raises it
between; `StepOutcome` is about those only. `HeartbeatQueued` is inductive as it stands.
`ConnectedByWelcome` is the first term of a count: the attempts that connected, the Welcomes
in the queue and the one that may arrive are together no more than the attempts the server
sent a Welcome for (`WelcomesCounted`). Sending adds to both sides, receiving and handling
move one from term to term, and everything else only takes away. `TwoChainsAtMost` needs
that a closed client has one event at most, the one `NeverConnected` left
(`ChainsByState`): `connect` adds one, a heartbeat replaces the one it is, every other way of
closing empties the queue. The events are the sum of a bag, a recursive function; for a bag
of no more than two events `EventsSum` exhibits it.

`RelayProofs` proves, for any number of clients, any size of the pool and any number of
messages, removals and clients that come later (`RelayAssumption`):

| Theorem | States |
|---|---|
| `TypeCorrect` | `Spec => []TypeOK` |
| `ReceivedIsHandled` | `Spec => []HandledAsReceived` |
| `RelaysArrive` | `Spec => []RelayReaches` |

`Owned` says whose an object is: in the pool, in the queue or with a thread, never twice,
and who has it releases it once. It holds as long as no relay has gone through; a relay
releases its message twice, and the object is then in the pool twice. Its steps are of
three sorts: taking from the pool (`FillPool`), a notice that uses it in passing
(`NoticePool`), and all that leaves every object where it is (`KeptOwned`). The size of the
pool (`PoolBound`) counts the threads that have decided to append: with one of them the pool
is at most at its size, with two of them below it. The IDs (`TableInv`) need the order of the
dict, whose entries are at the place they entered, and that no ID is free twice.
`RelayReaches` follows from what a relay in progress has done (`Passing`): nobody it reached is among
the entries to come; and while the table was not resized, it has reached those before its
position that are still there, but for the sender. The first survives even a
resize, which moves entries only towards the front, the second an insertion at the
end and a removal, which leaves a hole; connections keep their IDs.

`PendingProofs` proves, for any connections, objects, size of the pool, number of attempts,
delay and horizon (`PendingAssumption`):

| Theorem | States |
|---|---|
| `TypeCorrect` | `Spec => []TypeOK` |
| `DisconnectedQuiet` | `Spec => []OldMessagesRest` |
| `UnclearedIsPending` | `Spec => []Life` |
| `ClearedSilent` | `Spec => NeverSentAfterCleared` |
| `OnePlaceUntilExhausted` | `Spec => []ExclusiveUntilExhausted` |

`Life` is what the others need: an object nobody cleared is in no pool, and the dict of the
connection it was set up for has it under its ID. It is about the first message of an object
only: `createPending` never takes the flag back, so that a recycled object stays cleared for
good and nothing is ever resent through it. Hence whatever an event may still send is
pending (`ClearedSilent`). `Life` says besides that neither an object nobody cleared nor an event is of
a message sent before its connection closed: closing clears the ones and empties the queue
of the others, and a resend queues only for an object nobody cleared (`DisconnectedQuiet`). `Counted` ties the transmissions of a message to the
counter of the one object that carries it. `trySend` is called with a table, dicts, a pool
and a queue its callers have changed already, so that the invariants are stated of any of
these (`TypedIn`, `CountedIn`, `LifeIn`), and one lemma about `TrySend` serves all callers
(`TrySendKeeps`). `Exclusive` holds until a counter is exhausted: a message that gives up is
released twice. The order in which a disconnect releases the objects of a dict (`InOrder`)
exists for every finite dict (`IncreasingExists`, which takes a smallest set without one).

`TCPProofs` proves, for any threads, connections, messages, capacity and number of size
bytes (`TCPAssumption`):

| Theorem | States |
|---|---|
| `TypeCorrect` | `Spec => []TypeOK` |
| `FramesInOrder` | `Spec => []Framed` |
| `SpinsAfterBroken` | `Spec => []SpinsOnlyIfBroken` |

What the receiver holds of the next message, and what is on the wire behind it, is one
stream of bytes (`Stream`). As long as no bytes are out of place, it begins with a message
and each byte is the next of its message or the first of another (`Chain`); the messages
that end in it lead from what was handed up to what the socket took (`Carries`); and a
thread in the middle of its message goes on where the stream ends (`EndsRight`). Sending
extends the stream (`StreamGrows`); receiving moves bytes within it, or takes its first
message off and hands it up (`StreamShrinks`). Then `got` is a prefix of `sent`. `Reading`
says that a receiver without a size has no complete one, and with a size has the right one
or is at the end of its stream: that it can spin needs bytes out of place. `Framing` is all
of this, inductive over the types (`Typed`).

`MessageProofs` proves, for any items of any types and lengths, any message IDs and any
capacity (`MessageAssumption`):

| Theorem | States |
|---|---|
| `TypeOKHolds` | `Spec => []TypeOK` |
| `ReadsWhatWasPutHolds` | `Spec => []ReadsWhatWasPut` |
| `HeadersArriveHolds` | `Spec => []HeadersArrive` |
| `CapacityHeldHolds` | `Spec => []CapacityHeld` |
| `InvHolds` | `Spec => []Inv`, the inductive invariant |
| `VarULongRead` | what `toVarULong` wrote at any bit, `fromVarULong` reads, for every number |
| `GetIs` | a get returns the item that is there, a zero byte for an empty string off the byte boundary, and moves past it, but for a lone bool |
| `Travels` | `fromBytestream` makes of `createBytestream` the message that was sent |

A message *holds* an item at a position if its bits there are those a put of the item writes
(`HoldsItem`, said once for each kind: bytes, arrays with their length, strings, bools). Of
each operator three things are shown. A put changes no bit outside its item's extent and
leaves the item held or raises (`PutIs`); a get of a held item returns it (`GetIs`); and
bits that are carried to another place carry the items in them (`CarriedItem`, a string with the
byte of its length, which is what an empty one is read from: `ByteBeforeIs`), which
appending (`AppendMessageIs`) and the stream (`Travels`) do. The model's loops are functions on
`0 .. n`; `Iterates` shows that such a function exists and `UpTo`, by a least element that
fails, what holds after every round. No rule of induction over an operator is needed.

The properties are not inductive: `ReadsWhatWasPut` speaks of gets, and says nothing while
items are put. `Inv` adds `Placed`, that each item ends where the next starts, and the last
where the message is written; `Written`, that before sending the message holds all items up
to the first one it does not, and has room for each where it stands (`Roomy`), without which
a put over an item could lengthen the data; `Addressed` and `Arrived`, which say the same of
what was received, with its IDs; and `Read`, that everything got so far was held and the
next get reads where the next item starts. Each action has a lemma of its own
(`PutItemHolds` to `GetNextHolds`). An array of bools is held only alone and unsent, because
the write position does not pass it. Its length is put at a position, where `putBytes` may
set the write position to a number of bytes instead of bits; the assumption on `MaxBits` says
that this number is no more than the capacity in bits, as it is in the code, whose capacity is
9848 bits and whose lengths have ten bytes at most.

Only model-checked:

- The liveness properties, out of the prover's reach: `EventuallyHandled`,
  `AttemptsAreDecided`, `AttemptsEnd`, `EverythingArrives`, `QueueDrained`.
- The two comments of the code that do not hold (`reliable_report`, `pending_resend`), which
  TLC refutes.

Every safety property of a run has a theorem.

## 6. What is not modelled yet, and the plan

1. `Handshake`: composes `Client` with the server's side of one endpoint, against an
   abstract specification of one attempt and one outcome.
2. `SendRace`: two threads in `nextSequenceID` and in the pending dict.
3. `Timeouts`: the round trip time, the ping ID, and the server's clock.
4. The server's table of TCP connections (`transports/tcp/tcp_server.py`): `closedConnections` has
   endpoints and not connections, is cleared while another thread may close, and `shutdown`
   empties the table that `poll` may iterate over.
5. `Events`: handler lists that change while they are called.
6. Proofs about these modules. In `Message`, gets at a position and arrays without their
   length; the lemmas about puts and gets hold at any position already.

Left out for good:

- Notify mode. `insertHeader` (`utils/notify_sequencer.py:24`) and `updateReceivedAcks` (`:40`)
  read `_lastReceivedSeqId`, which only `shouldHandle` sets, and which nothing calls
  before: the first notify message sent, or received, raises `AttributeError`.
- The metrics (`utils/connection_metrics.py`): sums of counters. The two that decide
  anything count notify messages or are never fed.
- `createConnectBytes`, which nothing calls; byte order and zigzag in `utils/converter.py`,
  pure functions under unit test.
- Sockets and their errors, logging, name tables, the Unity demo and the documentation.
