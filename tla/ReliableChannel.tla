-------------------------- MODULE ReliableChannel --------------------------
(***************************************************************************)
(* The reliable send mode between the two ends of one connection: sequence *)
(* numbers, duplicate filter, acks and the pending messages of             *)
(* connection.py, peer.py and utils/relieble_sequencer.py.                 *)
(*                                                                         *)
(* Both ends run the same code and both send: a single ReliableSequencer   *)
(* per Connection keeps the receive window and the ack window.             *)
(*                                                                         *)
(* The wire is UDP: the set of all packets ever sent.  A packet that is    *)
(* never received is lost, one received twice is duplicated, and packets   *)
(* are received in any order.                                              *)
(*                                                                         *)
(* An end works in two phases, as Server.update and Client.update do: the  *)
(* transport is polled (shouldHandle filters and acks, what passes is      *)
(* appended to messageQueue), then _handleMessages empties messageQueue    *)
(* from its END.  Application threads send at any moment.                  *)
(*                                                                         *)
(* Times and send counters are abstracted here (PendingMessages has them): *)
(* a send or a resend may find its counter exhausted, and then the         *)
(* connection is given up; a resend may find that it comes too early.      *)
(***************************************************************************)
EXTENDS SequenceGap, Bitfield, Sequences, SequencesExt

CONSTANTS
    Ends,       \* the two ends of the connection
    LastId,     \* LastId[e]: bound on the sequence IDs e allocates
    AckBits,    \* bits of the receive window that travel in an ack: 16
    MaxQueue    \* bound on the messages one poll puts into messageQueue

ASSUME ReliableAssumption ==
    /\ \E a, b \in Ends : a # b /\ Ends = {a, b}
    /\ LastId \in [Ends -> Nat]
    /\ AckBits \in Nat /\ AckBits <= Half
    /\ MaxQueue \in Nat

Other(e) == CHOOSE o \in Ends : o # e

\* nextSequenceID increments a counter that starts at 1 and returns it.
Ids(e) == 2 .. LastId[e]

VARIABLES
    conn,               \* state of the Connection of each end; "Connecting" is
                        \* also the server's Pending
    thread,             \* what the update thread of an end does
    nextSequenceId,     \* the last sequence ID allocated
    pendingMessages,    \* the keys of the dict of unacknowledged messages
    lastReceivedSeqId,
    receivedSeqIds,     \* window of received IDs
    ackedSeqIds,        \* window of acknowledged IDs
    messageQueue,       \* received, not yet handled
    wire,               \* every packet sent so far
    handled,            \* handled[e][id]: times e handed that message to the application
    reported            \* reported[e]: IDs for which e raised reliableDelivered

endVars == <<conn, thread>>
sendVars == <<nextSequenceId, pendingMessages, reported>>
recvVars == <<lastReceivedSeqId, receivedSeqIds>>
vars == <<endVars, sendVars, recvVars, ackedSeqIds, messageQueue, wire, handled>>

-----------------------------------------------------------------------------
(* Packets.  The sequence ID on the wire has 16 bits; id tells the model   *)
(* (not the program) which message it is.                                  *)

Data(to, id) == [kind |-> "Reliable", to |-> to, seq |-> Mask(id), id |-> id]

Ack(to, seq, last, bitfield) ==
    [kind |-> "Ack", to |-> to, last |-> Mask(last), ones |-> First(bitfield, AckBits), acked |-> seq]

-----------------------------------------------------------------------------
Init ==
    /\ conn = [e \in Ends |-> "Connecting"]
    /\ thread = [e \in Ends |-> "polling"]
    /\ nextSequenceId = [e \in Ends |-> 1]
    /\ pendingMessages = [e \in Ends |-> {}]
    /\ lastReceivedSeqId = [e \in Ends |-> 0]
    /\ receivedSeqIds = [e \in Ends |-> EmptyBitfield]
    /\ ackedSeqIds = [e \in Ends |-> EmptyBitfield]
    /\ messageQueue = [e \in Ends |-> <<>>]
    /\ wire = {}
    /\ handled = [e \in Ends |-> [id \in Ids(Other(e)) |-> 0]]
    /\ reported = [e \in Ends |-> {}]

-----------------------------------------------------------------------------
(* Sending (any thread).  Connection.sendMessage asks for no state: the     *)
(* application may send before the connection is established, and on one   *)
(* that is closed.                                                         *)

Allocate(e) ==
    /\ nextSequenceId[e] < LastId[e]
    /\ nextSequenceId' = [nextSequenceId EXCEPT ![e] = @ + 1]
    /\ UNCHANGED <<thread, reported, recvVars, ackedSeqIds, messageQueue, handled>>

\* sendMessage: the message becomes pending and is transmitted.
Send(e) ==
    LET id == nextSequenceId[e] + 1 IN
    /\ Allocate(e)
    /\ pendingMessages' = [pendingMessages EXCEPT ![e] = @ \union {id}]
    /\ wire' = wire \union {Data(Other(e), id)}
    /\ UNCHANGED conn

\* sendMessage whose trySend finds the send counter of its PendingMessage
\* exhausted: it disconnects instead (PoorConnection), which drops every
\* pending message.
SendGivesUp(e) ==
    /\ conn[e] = "Connected"
    /\ Allocate(e)
    /\ conn' = [conn EXCEPT ![e] = "NotConnected"]
    /\ pendingMessages' = [pendingMessages EXCEPT ![e] = {}]
    /\ UNCHANGED wire

\* sendMessage on a connection that is not established, when nothing is
\* transmitted: the counter is exhausted, but Peer.disconnect only acts on a
\* Connected one, or the socket is closed.  The entry stays in the dict, and no
\* resend ever transmits it: the message is cleared, or the socket stays closed.
SendUntransmitted(e) ==
    /\ conn[e] # "Connected"
    /\ Allocate(e)
    /\ pendingMessages' = [pendingMessages EXCEPT ![e] = @ \union {nextSequenceId[e] + 1}]
    /\ UNCHANGED <<conn, wire>>

-----------------------------------------------------------------------------
(* Connecting and disconnecting                                            *)

\* handleWelcome, or handleWelcomeResponse at the server.
Established(e) ==
    /\ conn[e] = "Connecting"
    /\ conn' = [conn EXCEPT ![e] = "Connected"]
    /\ UNCHANGED <<thread, sendVars, recvVars, ackedSeqIds, messageQueue, wire, handled>>

\* Connection.localDisconnect, for whatever reason but an exhausted counter.
\* What was received before is still handled.
LocalDisconnect(e) ==
    /\ conn[e] # "NotConnected"
    /\ conn' = [conn EXCEPT ![e] = "NotConnected"]
    /\ pendingMessages' = [pendingMessages EXCEPT ![e] = {}]
    /\ UNCHANGED <<thread, nextSequenceId, reported, recvVars, ackedSeqIds, messageQueue, wire, handled>>

-----------------------------------------------------------------------------
(* Polling the transport                                                   *)

Polls(e, p) ==
    /\ thread[e] = "polling"
    /\ conn[e] # "NotConnected"     \* the transport drops packets for a closed connection
    /\ p.to = e
    /\ Len(messageQueue[e]) < MaxQueue

Enqueue(e, m) == messageQueue' = [messageQueue EXCEPT ![e] = Append(@, m)]

\* Mistakes in the window that the properties must notice: positions counted
\* from zero, or one too far; a late message not marked, or dropped as if it were
\* a duplicate; the last message taken for new when it comes again.
MistakenWindow(e, seq, newer, older, same) ==
    LET gap == Gap(seq, lastReceivedSeqId[e])
        bf  == receivedSeqIds[e]
    IN  CASE gap > 0 -> [last |-> seq, bf |-> SetBit(ShiftLeft(bf, gap), newer[gap]),
                         isNew |-> ~IsSet(ShiftLeft(bf, gap), gap)]
          [] gap < 0 -> [last |-> lastReceivedSeqId[e],
                         bf |-> IF older = "unmarked" THEN bf ELSE SetBit(bf, -gap),
                         isNew |-> older # "dropped" /\ ~IsSet(bf, -gap)]
          [] gap = 0 -> [last |-> lastReceivedSeqId[e], bf |-> bf, isNew |-> same]

Exactly == [gap \in 1 .. Half |-> gap]
WindowFromZero(e, seq) == MistakenWindow(e, seq, [gap \in 1 .. Half |-> gap - 1], "marked", FALSE)
WindowOneTooFar(e, seq) == MistakenWindow(e, seq, [gap \in 1 .. Half |-> gap + 1], "marked", FALSE)
WindowUnmarked(e, seq) == MistakenWindow(e, seq, Exactly, "unmarked", FALSE)
WindowDroppingLate(e, seq) == MistakenWindow(e, seq, Exactly, "dropped", FALSE)
WindowRepeatingLast(e, seq) == MistakenWindow(e, seq, Exactly, "marked", TRUE)

\* ReliableSequencer.shouldHandle: the window after the message, and whether
\* the message is to be handled.
Window(e, seq) ==
    LET gap == Gap(seq, lastReceivedSeqId[e])
        bf  == receivedSeqIds[e]
    IN  CASE gap > 0 -> [last |-> seq, bf |-> SetBit(ShiftLeft(bf, gap), gap),
                         isNew |-> ~IsSet(ShiftLeft(bf, gap), gap)]
          [] gap < 0 -> [last |-> lastReceivedSeqId[e], bf |-> SetBit(bf, -gap),
                         isNew |-> ~IsSet(bf, -gap)]
          [] gap = 0 -> [last |-> lastReceivedSeqId[e], bf |-> bf, isNew |-> FALSE]

\* _handleData of a reliable message: filter, ack in every case, enqueue.
ReceiveReliable(e, p) ==
    LET w == Window(e, p.seq) IN
    /\ Polls(e, p)
    /\ p.kind = "Reliable"
    /\ lastReceivedSeqId' = [lastReceivedSeqId EXCEPT ![e] = w.last]
    /\ receivedSeqIds' = [receivedSeqIds EXCEPT ![e] = w.bf]
    /\ wire' = wire \union {Ack(Other(e), p.seq, w.last, w.bf)}
    /\ IF w.isNew THEN Enqueue(e, p) ELSE UNCHANGED messageQueue
    /\ UNCHANGED <<endVars, sendVars, ackedSeqIds, handled>>

\* _handleData of an ack, an unreliable message: straight into the queue.
ReceiveAck(e, p) ==
    /\ Polls(e, p)
    /\ p.kind = "Ack"
    /\ Enqueue(e, p)
    /\ UNCHANGED <<endVars, sendVars, recvVars, ackedSeqIds, wire, handled>>

-----------------------------------------------------------------------------
(* Handling the queue                                                      *)

\* _handleMessages pops the message received last, and returns to polling
\* only once the queue is empty.
Pop(e, m) ==
    /\ thread[e] # "dead"
    /\ messageQueue[e] # <<>>
    /\ m = Last(messageQueue[e])
    /\ messageQueue' = [messageQueue EXCEPT ![e] = Front(@)]

AfterPop(e) == IF Len(messageQueue[e]) = 1 THEN "polling" ELSE "handling"

HandleReliable(e) == \E m \in Range(messageQueue[e]) :
    /\ Pop(e, m)
    /\ m.kind = "Reliable"
    /\ thread' = [thread EXCEPT ![e] = AfterPop(e)]
    /\ handled' = [handled EXCEPT ![e][m.id] = @ + 1]
    /\ UNCHANGED <<conn, sendVars, recvVars, ackedSeqIds, wire>>

(* handleAck: clearMessage(ackedSeqID), then updateReceivedAcks.  Note that *)
(* the gap and the swept IDs are taken from the OWN lastReceivedSeqId, the  *)
(* last ID received FROM the other end, not from the last ID acknowledged.  *)

AckGap(e, ack) == Gap(ack.last, lastReceivedSeqId[e])

\* Positions swept out of the ack window to make room for a positive gap.
SweptByAck(e, ack) ==
    IF AckGap(e, ack) <= 0 \/ HasCapacityFor(ackedSeqIds[e], AckGap(e, ack))
    THEN {}
    ELSE Swept(ackedSeqIds[e], Overflow(ackedSeqIds[e], AckGap(e, ack)))

AckRaises(e, ack) ==
    /\ AckGap(e, ack) > 0
    /\ ~HasCapacityFor(ackedSeqIds[e], AckGap(e, ack))
    /\ SweepRaises(ackedSeqIds[e], Overflow(ackedSeqIds[e], AckGap(e, ack)))

\* The ack window once swept, and once shifted as well.
SweptWindow(e, ack) ==
    IF HasCapacityFor(ackedSeqIds[e], AckGap(e, ack))
    THEN ackedSeqIds[e]
    ELSE Trimmed(ackedSeqIds[e], Overflow(ackedSeqIds[e], AckGap(e, ack)))

ShiftedWindow(e, ack) == ShiftLeft(SweptWindow(e, ack), AckGap(e, ack))

NewAckedSeqIds(e, ack) ==
    CASE AckRaises(e, ack)    -> SweptWindow(e, ack)
      [] AckGap(e, ack) < 0   -> SetBit(ackedSeqIds[e], -AckGap(e, ack))
      [] AckGap(e, ack) = 0   -> Combine(ackedSeqIds[e], ack.ones)
      [] OTHER                -> SetBit(Combine(ShiftedWindow(e, ack), ack.ones), AckGap(e, ack))

\* IDs cleared by the sweep, those cleared after the shift, and those the
\* sweep tries to resend.  A resend transmits a packet the wire has already.
SweepCleared(e, ack) ==
    {lastReceivedSeqId[e] - p : p \in SweptByAck(e, ack) \intersect ackedSeqIds[e].bits}

SweepResent(e, ack) ==
    {lastReceivedSeqId[e] - p : p \in SweptByAck(e, ack) \ ackedSeqIds[e].bits}

BitCleared(e, ack) ==
    IF AckRaises(e, ack) \/ AckGap(e, ack) <= 0 THEN {}
    ELSE {ack.last} \union
         {ack.last - i : i \in {b \in ack.ones : ~IsSet(ShiftedWindow(e, ack), b)}}

AckEffect(e, ack) ==
    /\ ackedSeqIds' = [ackedSeqIds EXCEPT ![e] = NewAckedSeqIds(e, ack)]
    /\ thread' = [thread EXCEPT ![e] = IF AckRaises(e, ack) THEN "dead" ELSE AfterPop(e)]
    /\ UNCHANGED <<nextSequenceId, recvVars, wire, handled>>

\* Mistakes in clearMessage: the entry is kept, or the event is raised for a
\* message that is no longer pending.
ClearKeepingEntry(e, ids) ==
    /\ reported' = [reported EXCEPT ![e] = @ \union (ids \intersect pendingMessages[e])]
    /\ UNCHANGED pendingMessages

ClearReportingAll(e, ids) ==
    /\ reported' = [reported EXCEPT ![e] = @ \union (ids \intersect Ids(e))]
    /\ pendingMessages' = [pendingMessages EXCEPT ![e] = @ \ ids]

\* clearMessage raises reliableDelivered for a message still pending, and
\* forgets it.
Clear(e, ids) ==
    /\ reported' = [reported EXCEPT ![e] = @ \union (ids \intersect pendingMessages[e])]
    /\ pendingMessages' = [pendingMessages EXCEPT ![e] = @ \ ids]

HandleAck(e) == \E ack \in Range(messageQueue[e]) :
    /\ Pop(e, ack)
    /\ ack.kind = "Ack"
    /\ AckEffect(e, ack)
    /\ Clear(e, {ack.acked} \union SweepCleared(e, ack) \union BitCleared(e, ack))
    /\ UNCHANGED conn

\* The same, when a resend of the sweep finds its counter exhausted.  The
\* sweep runs from the oldest position to the newest: what it cleared before
\* that resend was reported, the rest is dropped with the connection.
HandleAckGivesUp(e) == \E ack \in Range(messageQueue[e]) :
    /\ Pop(e, ack)
    /\ ack.kind = "Ack" /\ conn[e] = "Connected"
    /\ AckEffect(e, ack)
    /\ \E lost \in (SweepResent(e, ack) \ {ack.acked}) \intersect pendingMessages[e] :
           LET cleared == {ack.acked} \union {id \in SweepCleared(e, ack) : id < lost}
           IN  reported' = [reported EXCEPT ![e] = @ \union (cleared \intersect pendingMessages[e])]
    /\ pendingMessages' = [pendingMessages EXCEPT ![e] = {}]
    /\ conn' = [conn EXCEPT ![e] = "NotConnected"]

-----------------------------------------------------------------------------
Receive(e) == \E p \in wire : ReceiveReliable(e, p) \/ ReceiveAck(e, p)
Handle(e) == HandleReliable(e) \/ HandleAck(e) \/ HandleAckGivesUp(e)

Next == \E e \in Ends :
    \/ Send(e) \/ SendGivesUp(e) \/ SendUntransmitted(e)
    \/ Established(e) \/ LocalDisconnect(e) \/ Receive(e) \/ Handle(e)

Spec == Init /\ [][Next]_vars

-----------------------------------------------------------------------------
(* Fairness.  The update thread of an end that is alive keeps running, and *)
(* no datagram is lost: the timed retransmission that would make up for a  *)
(* loss never happens (see PendingMessages), so nothing can be promised    *)
(* over a network that loses one.  Strong fairness, because polling is     *)
(* suspended again and again while the queue is handled.                   *)

ReceiveMessage(e, id) == \E p \in wire : p.kind = "Reliable" /\ p.id = id /\ ReceiveReliable(e, p)

Lossless ==
    \A e \in Ends :
        /\ WF_vars(Handle(e))
        /\ \A id \in Ids(Other(e)) : SF_vars(ReceiveMessage(e, id))

LosslessSpec == Spec /\ Lossless

-----------------------------------------------------------------------------
(* Properties                                                              *)

Packet ==
    [kind : {"Reliable"}, to : Ends, seq : 0 .. IdSpace - 1, id : Nat]
        \union [kind : {"Ack"}, to : Ends, last : 0 .. IdSpace - 1,
                ones : SUBSET (1 .. AckBits), acked : 0 .. IdSpace - 1]

Windows == [bits : SUBSET (Nat \ {0}), count : Nat, capacity : Nat]

\* The state is well typed.
TypeOK ==
    /\ conn \in [Ends -> {"Connecting", "Connected", "NotConnected"}]
    /\ thread \in [Ends -> {"polling", "handling", "dead"}]
    /\ nextSequenceId \in [Ends -> Nat \ {0}]
    /\ pendingMessages \in [Ends -> SUBSET Nat] /\ reported \in [Ends -> SUBSET Nat]
    /\ lastReceivedSeqId \in [Ends -> 0 .. IdSpace - 1]
    /\ receivedSeqIds \in [Ends -> Windows] /\ ackedSeqIds \in [Ends -> Windows]
    /\ messageQueue \in [Ends -> Seq(Packet)]
    /\ wire \subseteq Packet
    /\ DOMAIN handled = Ends
    /\ \A e \in Ends :
         /\ nextSequenceId[e] \in Ids(e) \union {1}
         /\ pendingMessages[e] \subseteq Ids(e) /\ reported[e] \subseteq Ids(e)
         /\ handled[e] \in [Ids(Other(e)) -> Nat]
         /\ Range(messageQueue[e]) \subseteq wire

\* Messages of the other end that e took in: queued or handled.
Accepted(e) ==
    {id \in Ids(Other(e)) : handled[e][id] > 0}
        \union {m.id : m \in {q \in Range(messageQueue[e]) : q.kind = "Reliable"}}

\* No reliable message is handed to the application twice, however often the
\* network duplicates or delays its packet (shouldHandle, _handleMessages).
AtMostOnce == \A e \in Ends : \A id \in DOMAIN handled[e] : handled[e][id] <= 1

\* An ack names only messages its sender took in: the acknowledged ID itself,
\* and every ID whose bit is set (0 is the window's starting point).
AcksAreTruthful ==
    \A p \in wire : p.kind = "Ack" =>
        LET named == {p.acked, p.last} \union {p.last - i : i \in p.ones}
        IN  named \subseteq Accepted(Other(p.to)) \union {0}

\* Until a connection is closed, every sequence ID allocated on it is either still
\* pending or has been reported delivered, never both, never neither.
PendingAccounting ==
    \A e \in Ends : conn[e] # "NotConnected" =>
        /\ pendingMessages[e] \intersect reported[e] = {}
        /\ pendingMessages[e] \union reported[e] = 2 .. nextSequenceId[e]

\* A message once off the pending list never comes back to it, and no report
\* is raised for a message that was not pending at that moment.
ClearedForGood ==
    [][\A e \in Ends :
          /\ pendingMessages'[e] \ pendingMessages[e] \subseteq {nextSequenceId[e] + 1}
          /\ reported'[e] \ reported[e] \subseteq pendingMessages[e]]_vars

\* Without loss every message put on the wire is handled, unless the receiving
\* end is closed or its update thread has died.
EventuallyHandled ==
    \A e \in Ends : \A id \in Ids(Other(e)) :
        (Data(e, id) \in wire) ~>
            (handled[e][id] > 0 \/ thread[e] = "dead" \/ conn[e] = "NotConnected")

\* The channel implements what the reliable mode promises.
Promise == INSTANCE AtMostOnceChannel WITH
    open  <- [e \in Ends |-> conn[e] # "NotConnected"],
    sent  <- [e \in Ends |-> {id \in Ids(e) : Data(Other(e), id) \in wire}],
    taken <- [e \in Ends |-> Accepted(e)],
    got   <- handled

\* Every behaviour of the channel is one of AtMostOnceChannel, up to steps that
\* only concern acks and windows.
ImplementsPromise == Promise!Spec

(* What the documentation says, and the code does not do.                  *)

\* reliableDelivered is raised for messages "successfully delivered"
\* (connection.py:69): the other end has taken them in.
ReportedWasReceived == \A e \in Ends : reported[e] \subseteq Accepted(Other(e))
=============================================================================
