------------------------------- MODULE Relay -------------------------------
(***************************************************************************)
(* Messages at a server and the pool their objects come from: polling and  *)
(* handling in the update thread, relaying to the other clients, a thread  *)
(* of the application that sends to all.                                   *)
(*                                                                         *)
(* The pool is one for the process, and neither it nor the table of        *)
(* clients is locked: ObjectPool.acquire and release look at the length    *)
(* and then change the list; sendToAll iterates over the table and sends,  *)
(* which may remove a client, as the other thread may.  The table is a     *)
(* dict: its iterator looks at the number of entries and counts what is    *)
(* left of them, but an insertion that resizes the dict moves the entries  *)
(* under it.                                                               *)
(*                                                                         *)
(* Of a message the model has who it is and whether its ID is relayed; of  *)
(* the handshake that a client enters the table.  The ClientDisconnected   *)
(* notice of a removal is sent in one step.                                *)
(***************************************************************************)
EXTENDS Integers, FiniteSets, SequencesExt

CONSTANTS
    MaxClients,         \* places, all taken at the start
    PoolSize,           \* POOL_SIZE: 10 in the code
    MaxReceived,        \* bound on the messages the server receives
    MaxCreated,         \* bound on the messages the application sends to all
    MaxRemoved,         \* bound on the clients that are removed
    MaxAccepted         \* bound on the clients that are accepted later

ASSUME RelayAssumption ==
    /\ MaxClients \in Nat \ {0} /\ PoolSize \in Nat \ {0}
    /\ MaxReceived \in Nat /\ MaxCreated \in Nat /\ MaxRemoved \in Nat /\ MaxAccepted \in Nat

\* The two threads.
Update == "update"
App == "application"
Threads == {Update, App}

Conns == 1 .. MaxClients + MaxAccepted
Hole == 0

\* Messages that were not received.
Own == -1
Notice == -2

VARIABLES
    pool,               \* objects, the last one is acquired next
    content,            \* of each object: the message, and whether its ID is relayed
    queue,              \* messageQueue: object, message received, sender
    phase,              \* of update: "poll" or "handle"
    call,               \* what each thread is doing
    clients,            \* the dict in its order: connections, holes where one was deleted
    id,                 \* of each connection, also after it was removed; 0 before
    freeIds,            \* availableClientIDs
    connected,          \* connections that are connected
    received,           \* number of messages received
    created,            \* number of messages the application has created
    removed,            \* number of removals
    relayed,            \* relays that went through, for checking only
    handled             \* what the handlers of the application got, for checking only

table == <<clients, id, freeIds, connected>>
history == <<relayed, handled>>
counts == <<received, created, removed>>
vars == <<pool, content, queue, phase, call, table, counts, history>>

Idle == [at |-> "idle"]

Init ==
    /\ pool = <<>> /\ content = <<>> /\ queue = <<>> /\ phase = "poll"
    /\ call = [t \in Threads |-> Idle]
    /\ clients = [i \in 1 .. MaxClients |-> i]
    /\ id = [c \in Conns |-> IF c <= MaxClients THEN c ELSE 0]
    /\ freeIds = <<>>
    /\ connected = 1 .. MaxClients
    /\ received = 0 /\ created = 0 /\ removed = 0
    /\ relayed = <<>> /\ handled = <<>>
-----------------------------------------------------------------------------
(* The table of clients. *)

Present == {clients[i] : i \in DOMAIN clients} \ {Hole}

\* The connection that has the ID of c in the table: c itself, or who got its ID later.
Holders(c) == {d \in Present : id[d] = id[c]}

\* createMessage, sendToAll and the release of the notice about a removed client: the
\* object on top of the pool is used and put back.
NoticeSent ==
    IF pool = <<>>
    THEN /\ content' = Append(content, [of |-> Notice, relay |-> FALSE])
         /\ pool' = Append(pool, Len(content'))
    ELSE /\ content' = [content EXCEPT ![Last(pool)].of = Notice]
         /\ UNCHANGED pool

\* localDisconnect of the server: the entry under the ID goes, whoever it is.
LocalDisconnect(c) ==
    /\ clients' = [i \in DOMAIN clients |-> IF clients[i] \in Holders(c) THEN Hole ELSE clients[i]]
    /\ freeIds' = IF Holders(c) = {} THEN freeIds ELSE Append(freeIds, id[c])
    /\ connected' = connected \ {c}
    /\ removed' = removed + 1
    /\ IF c \in connected THEN NoticeSent ELSE UNCHANGED <<pool, content>>
    /\ UNCHANGED id
-----------------------------------------------------------------------------
(* The pool. *)

Acquiring(what) == [at |-> "acquire", some |-> pool # <<>>, what |-> what]

\* What is left of a thread after an exception: the update thread ends.
Raised(t) == IF t = Update THEN [at |-> "dead"] ELSE Idle

\* The other thread has taken the last object since acquire looked: IndexError.
AcquireRaises(t) == call[t].some /\ pool = <<>>

Acquired(t) == IF call[t].some THEN Last(pool) ELSE Len(content) + 1

\* A mistake: the object stays in the pool.
FillKeeping(t, message) ==
    /\ content' = IF call[t].some THEN [content EXCEPT ![Last(pool)] = message]
                  ELSE Append(content, message)
    /\ UNCHANGED pool

\* The object leaves the pool, or is new, and gets its content.
Fill(t, message) ==
    /\ content' = IF call[t].some THEN [content EXCEPT ![Last(pool)] = message]
                  ELSE Append(content, message)
    /\ pool' = IF call[t].some THEN Front(pool) ELSE pool

FailsToAcquire(t) ==
    /\ call[t].at = "acquire" /\ AcquireRaises(t)
    /\ call' = [call EXCEPT ![t] = Raised(t)]
    /\ UNCHANGED <<pool, content, queue, phase, table, counts, history>>

\* times: how often release is still to be called.
Releasing(object, times) == [at |-> "release", object |-> object, times |-> times]

Released(now) == IF now.times = 1 THEN Idle ELSE Releasing(now.object, now.times - 1)

\* A mistake: no look at the size of the pool.
ReleaseAlways(t) ==
    /\ call[t].at = "release"
    /\ call' = [call EXCEPT ![t].at = "append"]
    /\ UNCHANGED <<pool, content, queue, phase, table, counts, history>>

\* release looks at the length of the pool,
Release(t) ==
    /\ call[t].at = "release"
    /\ call' = [call EXCEPT ![t] = IF Len(pool) < PoolSize THEN [@ EXCEPT !.at = "append"]
                                   ELSE Released(@)]
    /\ UNCHANGED <<pool, content, queue, phase, table, counts, history>>

\* and then appends the object.
ReleaseAppends(t) ==
    /\ call[t].at = "append"
    /\ pool' = Append(pool, call[t].object)
    /\ call' = [call EXCEPT ![t] = Released(@)]
    /\ UNCHANGED <<content, queue, phase, table, counts, history>>
-----------------------------------------------------------------------------
(* sendToAll. *)

\* times: how often the message is released afterwards.
Iterating(object, message, from, except, times) ==
    [at |-> "iterate", object |-> object, message |-> message, from |-> from, except |-> except,
     position |-> 0, used |-> Cardinality(Present), left |-> Cardinality(Present),
     present |-> Present, reached |-> <<>>, rebuilt |-> FALSE, times |-> times]

Upcoming(now) == {i \in DOMAIN clients : i > now.position /\ clients[i] # Hole}

\* RuntimeError: the dict has another size than at the start of the iteration, or the
\* same and more entries than there should be left.
TableChanged(t) ==
    /\ call[t].at = "iterate"
    /\ Cardinality(Present) # call[t].used \/ (call[t].left = 0 /\ Upcoming(call[t]) # {})
    /\ call' = [call EXCEPT ![t] = Raised(t)]
    /\ UNCHANGED <<pool, content, queue, phase, table, counts, history>>

\* The entries that are to come are as many as at the start.
Continues(now) ==
    now.at = "iterate" /\ Cardinality(Present) = now.used /\ now.left > 0 /\ Upcoming(now) # {}

\* A mistake: the message goes back to its sender.
SendNextToEveryone(t) ==
    LET i == CHOOSE j \in Upcoming(call[t]) : \A k \in Upcoming(call[t]) : j <= k
    IN  /\ Continues(call[t])
        /\ call' = [call EXCEPT ![t].position = i, ![t].left = @ - 1,
                                ![t].reached = Append(@, clients[i])]
        /\ UNCHANGED <<pool, content, queue, phase, table, counts, history>>

\* The next client; a reliable message to it may be the one that gives it up.
SendNext(t) ==
    LET i == CHOOSE j \in Upcoming(call[t]) : \A k \in Upcoming(call[t]) : j <= k
        c == clients[i]
        skip == id[c] = call[t].except
    IN  /\ Continues(call[t])
        /\ call' = [call EXCEPT ![t].position = i, ![t].left = @ - 1,
                                ![t].reached = IF skip THEN @ ELSE Append(@, c)]
        /\ \/ UNCHANGED <<pool, content, table, removed>>
           \/ ~skip /\ removed < MaxRemoved /\ LocalDisconnect(c)
        /\ UNCHANGED <<queue, phase, received, created, history>>

SentToAll(t) ==
    LET now == call[t]
    IN  /\ now.at = "iterate" /\ Cardinality(Present) = now.used /\ Upcoming(now) = {}
        /\ relayed' = IF t = App THEN relayed
                      ELSE Append(relayed, [message |-> now.message, except |-> now.except,
                                            stayed |-> now.present \cap Present,
                                            reached |-> now.reached, rebuilt |-> now.rebuilt])
        /\ call' = [call EXCEPT ![t] = Releasing(now.object, now.times)]
        /\ UNCHANGED <<pool, content, queue, phase, table, counts, handled>>
-----------------------------------------------------------------------------
(* The update thread. *)

\* A message that the server gets: of the application, relayed or not, or a Disconnect.
Kinds == {"relay", "plain", "disconnect"}

Poll(c, kind) ==
    /\ call[Update].at = "idle" /\ phase = "poll" /\ received < MaxReceived
    /\ c \in Present
    /\ received' = received + 1
    /\ call' = [call EXCEPT ![Update] = Acquiring([kind |-> kind, from |-> c])]
    /\ UNCHANGED <<pool, content, queue, phase, table, created, removed, history>>

PollQueues ==
    LET what == call[Update].what
    IN  /\ call[Update].at = "acquire" /\ ~AcquireRaises(Update)
        /\ Fill(Update, [of |-> received, relay |-> what.kind = "relay"])
        /\ queue' = Append(queue, [object |-> Acquired(Update), message |-> received,
                                   kind |-> what.kind, from |-> what.from])
        /\ call' = [call EXCEPT ![Update] = Idle]
        /\ UNCHANGED <<phase, table, counts, history>>

\* A mistake: the last message waits for the next.
PollEndsLate ==
    /\ call[Update].at = "idle" /\ phase = "poll" /\ Len(queue) > 1
    /\ phase' = "handle"
    /\ UNCHANGED <<pool, content, queue, call, table, counts, history>>

\* The transport has no more: _handleMessages begins.
PollEnds ==
    /\ call[Update].at = "idle" /\ phase = "poll" /\ queue # <<>>
    /\ phase' = "handle"
    /\ UNCHANGED <<pool, content, queue, call, table, counts, history>>

Popped(then) ==
    /\ queue' = Front(queue)
    /\ phase' = IF Len(queue) = 1 THEN "poll" ELSE phase
    /\ call' = [call EXCEPT ![Update] = then]

\* The newest message of the queue.  Its header was kept, the ID that decides about the
\* relay is read from the object.  A relayed message is released by sendToAll and again
\* at the end of handle.
HandleRelayed ==
    LET entry == Last(queue)
    IN  /\ call[Update].at = "idle" /\ phase = "handle"
        /\ entry.kind # "disconnect" /\ content[entry.object].relay
        /\ Popped(Iterating(entry.object, entry.message, entry.from, id[entry.from], 2))
        /\ UNCHANGED <<pool, content, table, counts, history>>

HandleReceived ==
    LET entry == Last(queue)
    IN  /\ call[Update].at = "idle" /\ phase = "handle"
        /\ entry.kind # "disconnect" /\ ~content[entry.object].relay
        /\ Popped(Releasing(entry.object, 1))
        /\ handled' = Append(handled, [message |-> entry.message, got |-> content[entry.object].of])
        /\ UNCHANGED <<pool, content, table, counts, relayed>>

HandleDisconnect ==
    LET entry == Last(queue)
    IN  /\ call[Update].at = "idle" /\ phase = "handle" /\ entry.kind = "disconnect"
        /\ Popped(Releasing(entry.object, 1))
        /\ LocalDisconnect(entry.from)
        /\ UNCHANGED <<received, created, history>>

UpdateThread ==
    \/ PollQueues \/ FailsToAcquire(Update) \/ PollEnds
    \/ HandleRelayed \/ HandleReceived \/ HandleDisconnect
    \/ SendNext(Update) \/ TableChanged(Update) \/ SentToAll(Update)
    \/ Release(Update) \/ ReleaseAppends(Update)
-----------------------------------------------------------------------------
(* The thread of the application. *)

Create ==
    /\ call[App].at = "idle" /\ created < MaxCreated
    /\ created' = created + 1
    /\ call' = [call EXCEPT ![App] = Acquiring(Own)]
    /\ UNCHANGED <<pool, content, queue, phase, table, received, removed, history>>

SendCreated ==
    /\ call[App].at = "acquire" /\ ~AcquireRaises(App)
    /\ Fill(App, [of |-> Own, relay |-> FALSE])
    /\ call' = [call EXCEPT ![App] = Iterating(Acquired(App), Own, Hole, -1, 1)]
    /\ UNCHANGED <<queue, phase, table, counts, history>>

Kick(c) ==
    /\ call[App].at = "idle" /\ removed < MaxRemoved /\ c \in Present
    /\ LocalDisconnect(c)
    /\ UNCHANGED <<queue, phase, call, received, created, history>>

\* The entries that are no holes, in their order.
Compacting(kept) ==
    /\ {kept[i] : i \in DOMAIN kept} = {i \in DOMAIN clients : clients[i] # Hole}
    /\ \A i \in DOMAIN kept :
          kept[i] >= i /\ \A j \in DOMAIN kept : i < j => kept[i] < kept[j]

\* The insertion of c resizes the dict: its holes go, and an iteration that is under way
\* keeps its position.
Rebuild(c) ==
    /\ \E n \in 0 .. Len(clients) : \E kept \in [1 .. n -> DOMAIN clients] :
          /\ Compacting(kept)
          /\ clients' = Append([i \in 1 .. n |-> clients[kept[i]]], c)
    /\ call' = [call EXCEPT ![Update] = IF @.at = "iterate" THEN [@ EXCEPT !.rebuilt = TRUE] ELSE @]

\* A connection that has no ID yet enters the table, with the ID that has been free
\* longest.  Which insertions resize the dict is left open: in CPython the sixth does.
Accept(c) ==
    /\ call[App].at = "idle" /\ id[c] = 0 /\ freeIds # <<>>
    /\ Rebuild(c) \/ (clients' = Append(clients, c) /\ UNCHANGED call)
    /\ id' = [id EXCEPT ![c] = Head(freeIds)]
    /\ freeIds' = Tail(freeIds)
    /\ connected' = connected \cup {c}
    /\ UNCHANGED <<pool, content, queue, phase, counts, history>>

Application ==
    \/ Create \/ SendCreated \/ FailsToAcquire(App)
    \/ SendNext(App) \/ TableChanged(App) \/ SentToAll(App)
    \/ Release(App) \/ ReleaseAppends(App)
    \/ \E c \in Conns : Kick(c) \/ Accept(c)

Next ==
    \/ \E c \in Conns, kind \in Kinds : Poll(c, kind)
    \/ UpdateThread
    \/ Application

Spec == Init /\ [][Next]_vars

\* The update thread goes on until it ends.
FairSpec == Spec /\ WF_vars(UpdateThread)
-----------------------------------------------------------------------------
(* Properties. *)

Objects == DOMAIN content

\* The pool exceeds its size by what the other thread appends at the same time, and what
\* it and the queue hold are objects; the IDs of the clients are different, in use, and
\* not free.
TypeOK ==
    /\ Len(pool) <= PoolSize + 1 /\ Range(pool) \subseteq Objects
    /\ \A i \in DOMAIN queue : queue[i].object \in Objects
    /\ phase = "handle" => queue # <<>>
    /\ \A c, d \in Present : c # d => id[c] # id[d]
    /\ {id[c] : c \in Present} \cap Range(freeIds) = {}
    /\ {id[c] : c \in Present} \cup Range(freeIds) = 1 .. MaxClients

\* Until a message is relayed, which releases it twice, every handler gets the message
\* that was received, whatever the application sends and removes and however the two
\* threads meet in the pool.
HandledAsReceived ==
    relayed = <<>> => \A i \in DOMAIN handled : handled[i].got = handled[i].message

\* A relay that goes through reaches nobody twice and none with the ID of its sender; and
\* it reaches every other client that was there all the time, unless the dict was resized
\* under it: then the entries have moved, and a client that stayed may be passed over.
RelayReaches ==
    \A i \in DOMAIN relayed :
        LET r == relayed[i]
        IN  /\ IsInjective(r.reached)
            /\ ~r.rebuilt => {c \in r.stayed : id[c] # r.except} \subseteq Range(r.reached)
            /\ \A c \in Range(r.reached) : id[c] # r.except

\* Every message that was polled is handled, unless the update thread has ended.
QueueDrained == <>[](queue = <<>> \/ call[Update].at = "dead")
=============================================================================
