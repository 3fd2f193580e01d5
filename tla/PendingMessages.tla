-------------------------- MODULE PendingMessages --------------------------
(***************************************************************************)
(* The life of the PendingMessage objects behind reliable messages: the    *)
(* shared pool they come from and return to, their send counters, the      *)
(* resend events (pending_message.py, utils/object_pool.py and the dict of *)
(* pending messages in connection.py).                                     *)
(*                                                                         *)
(* Several clients of one process, each with its connection; the pool is a *)
(* module global, so all of them share its objects.  One thread updates    *)
(* the clients in turn and does their sending.  A connection that is closed *)
(* stays closed, but the application may still send on it.                 *)
(*                                                                         *)
(* createPending resets "pendingMessage.__sendAttempts" and "__wasCleared" *)
(* outside the class.  Python mangles private names inside a class only:   *)
(* these assignments create two new attributes, and a recycled object      *)
(* keeps the counter and the flag of the message it carried before.        *)
(***************************************************************************)
EXTENDS Integers, FiniteSets, SequencesExt

CONSTANTS
    Conns,          \* the connections, one per client
    Objects,        \* bound: identities for the PendingMessage objects created
    PoolSize,       \* PENDING_MESSAGE_POOL_SIZE: 10
    MaxAttempts,    \* MAX_SEND_ATTEMPTS: 15
    ResendDelay,    \* delay of a resend event: max(10, 1.2 RTT), or 50 ms
    MinInterval,    \* what retrySend waits for: RTT / 2, or 25 ms
    MaxTime,        \* bound on the peer's clock
    LastId          \* bound on the sequence IDs of a connection

ASSUME PendingAssumption ==
    /\ Conns # {}
    /\ PoolSize \in Nat /\ MaxAttempts \in Nat \ {0}
    /\ ResendDelay \in Nat \ {0} /\ MinInterval \in Nat
    /\ MaxTime \in Nat /\ LastId \in Nat

Ids == 2 .. LastId

VARIABLES
    now,        \* the time since startTime, the same for all clients
    stopped,    \* clients without an update since stopTime: their current_time is 0
    state,      \* state of each connection
    closedAt,   \* last sequence ID allocated when it was disconnected, 0 before
    lastId,     \* last sequence ID allocated on each connection
    pending,    \* pending[c]: sequence ID -> object
    pool,       \* the objects in the pool; the last one is acquired first
    object,     \* attributes of every object
    created,    \* objects that exist
    events,     \* resend events in the eventQueues of the clients
    sends       \* sends[c][id]: how often that message was given to the transport

lifecycle == <<stopped, state, closedAt>>
vars == <<now, lifecycle, lastId, pending, pool, object, created, events, sends>>

NewObject == [conn |-> CHOOSE c \in Conns : TRUE, seqID |-> 0,
              sendAttempts |-> 0, wasCleared |-> FALSE, lastSendTime |-> 0]

Init ==
    /\ now = 0 /\ stopped = {}
    /\ state = [c \in Conns |-> "Connecting"]
    /\ closedAt = [c \in Conns |-> 0]
    /\ lastId = [c \in Conns |-> 1]
    /\ pending = [c \in Conns |-> <<>>]
    /\ pool = <<>>
    /\ object = [o \in Objects |-> NewObject]
    /\ created = {}
    /\ events = {}
    /\ sends = [c \in Conns |-> [id \in Ids |-> 0]]

-----------------------------------------------------------------------------
(* The pool                                                                *)

\* Releasing objects one after the other: those that find the pool full are
\* dropped.
ReleaseAll(p, objects) ==
    SubSeq(p \o objects, 1, Min({PoolSize, Len(p) + Len(objects)}))

\* Acquiring takes the object released last, or creates one.
Acquirable == IF pool # <<>> THEN {Last(pool)} ELSE Objects \ created
PoolAfterAcquire == IF pool # <<>> THEN Front(pool) ELSE pool

-----------------------------------------------------------------------------
(* PendingMessage                                                          *)

MarkCleared(table, objects) ==
    [o \in Objects |-> IF o \in objects THEN [table[o] EXCEPT !.wasCleared = TRUE] ELSE table[o]]

\* Objects of a connection's dict, in the order of values(): that of insertion,
\* which is the order of the IDs.
InOrder(dict) ==
    LET n   == Cardinality(DOMAIN dict)
        ids == CHOOSE s \in [1 .. n -> DOMAIN dict] : \A i, j \in 1 .. n : i < j => s[i] < s[j]
    IN  [i \in 1 .. n |-> dict[ids[i]]]

\* current_time: stopTime sets it to zero, the next update to the time again.
Clock(c) == IF c \in stopped THEN 0 ELSE now

\* executeLater adds the current time to the priority of the event; id is the
\* message that the object carries then.
ResendEvent(c, o, id) ==
    [peer |-> c, priority |-> Clock(c) + ResendDelay, message |-> o, id |-> id]
QueueOf(c, queue) == {ev \in queue : ev.peer = c}

\* What Client.localDisconnect does to the state and the time.
Closes(c) ==
    /\ state' = [state EXCEPT ![c] = "NotConnected"]
    /\ closedAt' = [closedAt EXCEPT ![c] = lastId'[c]]
    /\ stopped' = stopped \union {c}

\* What trySend does instead of sending once the counter is exhausted: clear()
\* the message, then Client.disconnect, which acts on a Connected client only.
\* It empties the eventQueue (stopTime), and Connection.localDisconnect clears
\* every message of the dict, the cleared one included.
GiveUp(c, o, table, dicts, free, queue) ==
    IF state[c] = "Connected"
    THEN /\ object' = MarkCleared(table, {o} \union Range(dicts[c]))
         /\ pool' = ReleaseAll(free, <<o>> \o InOrder(dicts[c]))
         /\ pending' = [dicts EXCEPT ![c] = <<>>]
         /\ events' = queue \ QueueOf(c, queue)
         /\ Closes(c)
    ELSE /\ object' = MarkCleared(table, {o})
         /\ pool' = ReleaseAll(free, <<o>>)
         /\ pending' = dicts /\ events' = queue
         /\ UNCHANGED lifecycle

\* A mistake in trySend: one attempt too many.
TrySendOnceMore(o, table, dicts, free, queue) ==
    LET c  == table[o].conn
        id == table[o].seqID
    IN  IF table[o].sendAttempts <= MaxAttempts
        THEN /\ sends' = [sends EXCEPT ![c][id] = @ + 1]
             /\ object' = [table EXCEPT ![o].lastSendTime = Clock(c), ![o].sendAttempts = @ + 1]
             /\ events' = queue \union {ResendEvent(c, o, id)}
             /\ pool' = free /\ pending' = dicts
             /\ UNCHANGED lifecycle
        ELSE GiveUp(c, o, table, dicts, free, queue) /\ UNCHANGED sends

\* trySend on object o, given the attributes, dicts, free objects and events
\* before it.
TrySend(o, table, dicts, free, queue) ==
    LET c  == table[o].conn
        id == table[o].seqID
    IN  IF table[o].sendAttempts < MaxAttempts
        THEN /\ sends' = [sends EXCEPT ![c][id] = @ + 1]
             /\ object' = [table EXCEPT ![o].lastSendTime = Clock(c), ![o].sendAttempts = @ + 1]
             /\ events' = queue \union {ResendEvent(c, o, id)}
             /\ pool' = free /\ pending' = dicts
             /\ UNCHANGED lifecycle
        ELSE GiveUp(c, o, table, dicts, free, queue) /\ UNCHANGED sends

\* A mistake in retrySend: it does not ask whether the message was cleared.
RetrySendCleared(o, queue) ==
    LET c == object[o].conn
    IN  IF object[o].lastSendTime + MinInterval <= Clock(c)
        THEN TrySend(o, object, pending, pool, queue)
        ELSE /\ events' = queue \union {ResendEvent(c, o, object[o].seqID)}
             /\ UNCHANGED <<lifecycle, pending, pool, object, sends>>

RetrySend(o, queue) ==
    LET c == object[o].conn
    IN  IF object[o].wasCleared
        THEN events' = queue /\ UNCHANGED <<lifecycle, pending, pool, object, sends>>
        ELSE IF object[o].lastSendTime + MinInterval <= Clock(c)
        THEN TrySend(o, object, pending, pool, queue)
        ELSE /\ events' = queue \union {ResendEvent(c, o, object[o].seqID)}
             /\ UNCHANGED <<lifecycle, pending, pool, object, sends>>

-----------------------------------------------------------------------------
(* Actions                                                                 *)

\* Connection.sendMessage of a reliable message.  Nothing asks whether the
\* connection is established yet, or is closed.
SendMessage(c) ==
    /\ lastId[c] < LastId
    /\ \E o \in Acquirable :
         LET id    == lastId[c] + 1
             table == [object EXCEPT ![o].conn = c, ![o].seqID = id]
             dicts == [pending EXCEPT ![c] =
                          [i \in DOMAIN @ \union {id} |-> IF i = id THEN o ELSE @[i]]]
         IN  /\ lastId' = [lastId EXCEPT ![c] = id]
             /\ created' = created \union {o}
             /\ TrySend(o, table, dicts, PoolAfterAcquire, events)
    /\ UNCHANGED now

\* A mistake in clearMessage: the object is released, its entry stays.
ClearMessageKeepingEntry(c, id) ==
    /\ id \in DOMAIN pending[c]
    /\ object' = MarkCleared(object, {pending[c][id]})
    /\ pool' = ReleaseAll(pool, <<pending[c][id]>>)
    /\ UNCHANGED <<now, lifecycle, lastId, pending, created, events, sends>>

\* clearMessage of an acknowledged message.
ClearMessage(c, id) ==
    /\ id \in DOMAIN pending[c]
    /\ object' = MarkCleared(object, {pending[c][id]})
    /\ pool' = ReleaseAll(pool, <<pending[c][id]>>)
    /\ pending' = [pending EXCEPT ![c] = [i \in DOMAIN @ \ {id} |-> @[i]]]
    /\ UNCHANGED <<now, lifecycle, lastId, created, events, sends>>

\* resendMessage, called for an ID swept out of the ack window.
ResendMessage(c, id) ==
    /\ id \in DOMAIN pending[c]
    /\ UNCHANGED <<now, lastId, created>>
    /\ RetrySend(pending[c][id], events)

\* handleWelcome.
Established(c) ==
    /\ state[c] = "Connecting"
    /\ state' = [state EXCEPT ![c] = "Connected"]
    /\ UNCHANGED <<now, stopped, closedAt, lastId, pending, pool, object, created, events, sends>>

\* Client.localDisconnect: disconnect() by the application, a Disconnect message.
LocalDisconnect(c) ==
    /\ state[c] # "NotConnected"
    /\ UNCHANGED <<now, lastId, created, sends>>
    /\ Closes(c)
    /\ object' = MarkCleared(object, Range(pending[c]))
    /\ pool' = ReleaseAll(pool, InOrder(pending[c]))
    /\ pending' = [pending EXCEPT ![c] = <<>>]
    /\ events' = events \ QueueOf(c, events)

\* Peer.update: it sets the time, whether events are due or not.
UpdateStarts(c) ==
    /\ c \in stopped
    /\ stopped' = stopped \ {c}
    /\ UNCHANGED <<now, state, closedAt, lastId, pending, pool, object, created, events, sends>>

\* The events that are due run first, the earliest one next.  An event only
\* acts if its priority, a time in the future when it was queued, is the time
\* of the latest send.
Due == {ev \in events : ev.priority < now}

ResendEventFires ==
    \E ev \in Due :
        /\ ev.peer \notin stopped
        /\ \A other \in QueueOf(ev.peer, Due) : ev.priority <= other.priority
        /\ UNCHANGED <<now, lastId, created>>
        /\ IF ev.priority = object[ev.message].lastSendTime
           THEN RetrySend(ev.message, events \ {ev})
           ELSE events' = events \ {ev} /\ UNCHANGED <<lifecycle, pending, pool, object, sends>>

Tick ==
    /\ Due = {}
    /\ now < MaxTime
    /\ now' = now + 1 /\ stopped' = {}
    /\ UNCHANGED <<state, closedAt, lastId, pending, pool, object, created, events, sends>>

Next ==
    \/ Tick \/ ResendEventFires
    \/ \E c \in Conns :
         \/ SendMessage(c) \/ Established(c) \/ LocalDisconnect(c) \/ UpdateStarts(c)
         \/ \E id \in Ids : ClearMessage(c, id) \/ ResendMessage(c, id)

Spec == Init /\ [][Next]_vars

-----------------------------------------------------------------------------
(* Properties                                                              *)

Attributes == [conn : Conns, seqID : {0} \union Ids, sendAttempts : 0 .. MaxAttempts,
               wasCleared : BOOLEAN, lastSendTime : 0 .. MaxTime]

\* The state is well typed.
TypeOK ==
    /\ now \in 0 .. MaxTime /\ stopped \subseteq Conns
    /\ closedAt \in [Conns -> 0 .. LastId \union {1}]
    /\ state \in [Conns -> {"Connecting", "Connected", "NotConnected"}]
    /\ lastId \in [Conns -> 1 .. LastId \union {1}]
    /\ DOMAIN pending = Conns
    /\ \A c \in Conns : DOMAIN pending[c] \subseteq 2 .. lastId[c] /\ Range(pending[c]) \subseteq created
    /\ pool \in Seq(created) /\ Len(pool) <= PoolSize
    /\ created \subseteq Objects
    /\ object \in [Objects -> Attributes]
    /\ \A ev \in events : /\ ev.peer \in Conns /\ ev.message \in created
                           /\ ev.priority \in Nat /\ ev.id \in Ids
    /\ sends \in [Conns -> [Ids -> 0 .. MaxAttempts]]

\* Until the send counter of some object is exhausted for the first time (no
\* counter ever goes back), every object is in one place only, and the dict
\* entry that holds it is the one it was set up for.
Exhausted == \E o \in Objects : object[o].sendAttempts >= MaxAttempts

Exclusive ==
    /\ \A i, j \in DOMAIN pool : pool[i] = pool[j] => i = j
    /\ \A c \in Conns : \A id \in DOMAIN pending[c] :
          /\ pending[c][id] \notin Range(pool)
          /\ object[pending[c][id]].conn = c /\ object[pending[c][id]].seqID = id

ExclusiveUntilExhausted == Exhausted \/ Exclusive

\* A message that is no longer pending is never transmitted again, whatever
\* events still refer to its object and whoever uses the object now.
NeverSentAfterCleared ==
    [][\A c \in Conns : \A id \in 2 .. lastId[c] :
          id \notin DOMAIN pending[c] => sends'[c][id] = sends[c][id]]_vars

\* Disconnecting empties the eventQueue (stopTime), and no resend, through
\* whatever object and of whatever client, puts an event for a message sent
\* before back into it: the events of a closed connection are for messages the
\* application sent on it afterwards.
OldMessagesRest ==
    \A c \in Conns : \A ev \in QueueOf(c, events) : ev.id > closedAt[c]

(* What the documentation says, and the code does not do.                  *)

\* A message without an ack is resent after 1.2 round trips
\* (docs/content/lowlevel/index.tex:555): once the events that are due have
\* run, no pending message was last sent longer than a delay ago.
ResentInTime ==
    \A c \in Conns : \A id \in DOMAIN pending[c] :
        Due = {} /\ state[c] # "NotConnected" => now - object[pending[c][id]].lastSendTime <= ResendDelay
=============================================================================
