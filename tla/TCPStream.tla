----------------------------- MODULE TCPStream -----------------------------
(***************************************************************************)
(* Messages over TCP: transports/tcp/tcp_connection.py, from the calls of  *)
(* send in one process to the receive of a server.                         *)
(*                                                                         *)
(* Each message goes behind its size.  All connections of the sending peer *)
(* share one sendBuffer, filled and sent in three statements; the update   *)
(* thread and the threads of the application send.  The sockets do not     *)
(* block: what does not fit into the socket is dropped, and a receive gets *)
(* any part of what it asks for.                                           *)
(*                                                                         *)
(* A byte is a record of the message it belongs to and its place behind    *)
(* and including the size, so that bytes out of place are seen to be; read *)
(* as a size they have any value.                                          *)
(***************************************************************************)
EXTENDS Integers, FiniteSets, SequencesExt

CONSTANTS
    Threads,            \* of the sending process
    Connections,
    Length,             \* length of each message, in the order the sends begin
    Target,             \* and the connection it is sent on
    Connects,           \* those with the header Connect
    Capacity,           \* bytes a socket takes until the other end receives
    SizeBytes,          \* MESSAGE_LENGTH_BYTES: 4 in the code
    Misread,            \* values of size bytes that are out of place
    MaxEnded            \* bound on the connections that are closed or reset

Messages == DOMAIN Length

ASSUME TCPAssumption ==
    /\ Length \in Seq(Nat \ {0}) /\ Connects \subseteq Messages
    /\ Target \in [Messages -> Connections]
    /\ Capacity \in Nat \ {0} /\ SizeBytes \in Nat \ {0} /\ Misread \subseteq Int
    /\ MaxEnded \in Nat

VARIABLES
    sendBuffer,         \* of the sending peer: the size of message "size", then payloads
    call,               \* of each thread: where in send it is, for which message
    begun,              \* number of sends begun
    wire,               \* bytes between the two ends of each connection
    state,              \* Open; Closed by the sender; Reset
    sizeBytes, messageBytes, nextMessageSize, didReceiveConnect,    \* of the receiving end
    disconnected,       \* whether onDisconnected was called
    sent,               \* messages the socket took, without the Connects after the
                        \* first, for checking only
    broken,             \* whether bytes went out of place, for checking only
    got                 \* messages handed up

sender == <<sendBuffer, call, begun, sent, broken>>
receiver == <<sizeBytes, messageBytes, nextMessageSize, didReceiveConnect, disconnected, got>>
vars == <<sender, receiver, wire, state>>

Idle == [at |-> "idle"]

Init ==
    /\ sendBuffer = [size |-> 0, bytes |-> <<>>]
    /\ call = [t \in Threads |-> Idle]
    /\ begun = 0
    /\ wire = [c \in Connections |-> <<>>]
    /\ state = [c \in Connections |-> "Open"]
    /\ sizeBytes = [c \in Connections |-> <<>>]
    /\ messageBytes = [c \in Connections |-> <<>>]
    /\ nextMessageSize = [c \in Connections |-> 0]
    /\ didReceiveConnect = [c \in Connections |-> FALSE]
    /\ disconnected = [c \in Connections |-> FALSE]
    /\ sent = [c \in Connections |-> <<>>]
    /\ broken = [c \in Connections |-> FALSE]
    /\ got = [c \in Connections |-> <<>>]
-----------------------------------------------------------------------------
(* Sending. *)

SizeField(m) == [i \in 1 .. SizeBytes |-> [of |-> m, at |-> i]]
Payload(m) == [i \in 1 .. Length[m] |-> [of |-> m, at |-> SizeBytes + i]]

\* The first statement of send: a new buffer with the size.
SendSize(t) ==
    /\ call[t].at = "idle" /\ begun < Len(Length)
    /\ begun' = begun + 1
    /\ sendBuffer' = [size |-> begun', bytes |-> SizeField(begun')]
    /\ call' = [call EXCEPT ![t] = [at |-> "extend", message |-> begun', conn |-> Target[begun']]]
    /\ UNCHANGED <<sent, broken, receiver, wire, state>>

\* The second: the payload goes into whatever buffer the peer has now.  Python does not
\* let a buffer grow that another thread's sendall holds: BufferError, nothing is sent.
SendPayload(t) ==
    /\ call[t].at = "extend"
    /\ IF \E u \in Threads : call[u].at = "sending" /\ call[u].buffer = sendBuffer.size
       THEN /\ call' = [call EXCEPT ![t] = Idle]
            /\ UNCHANGED sendBuffer
       ELSE /\ call' = [call EXCEPT ![t].at = "sendall"]
            /\ sendBuffer' = [sendBuffer EXCEPT !.bytes = @ \o Payload(call[t].message)]
    /\ UNCHANGED <<begun, sent, broken, receiver, wire, state>>

\* The third: sendall holds on to the buffer the peer has now.
SendAll(t) ==
    /\ call[t].at = "sendall"
    /\ call' = [call EXCEPT ![t] = [at |-> "sending", message |-> @.message, conn |-> @.conn,
                                    buffer |-> sendBuffer.size, rest |-> sendBuffer.bytes,
                                    whole |-> sendBuffer.bytes = SizeField(@.message) \o Payload(@.message),
                                    partly |-> FALSE]]
    /\ UNCHANGED <<sendBuffer, begun, sent, broken, receiver, wire, state>>

Room(c) == Capacity - Len(wire[c])

\* How much of its message a thread can pass on.
Fits(t) ==
    LET left == Len(call[t].rest)
    IN  IF Room(call[t].conn) < left THEN Room(call[t].conn) ELSE left

\* The messages with one more, which the server drops when it is not the first Connect.
Take(messages, m) ==
    IF m \in Connects /\ \E i \in DOMAIN messages : messages[i] \in Connects
    THEN messages ELSE Append(messages, m)

\* sendall passes on as much as the socket takes, and goes on.
Push(t) ==
    LET now == call[t]
        c == now.conn
        n == Fits(t)
        others == \E u \in Threads \ {t} : call[u].at = "sending" /\ call[u].conn = c /\ call[u].partly
    IN  /\ now.at = "sending" /\ state[c] = "Open" /\ Room(c) > 0
        /\ wire' = [wire EXCEPT ![c] = @ \o SubSeq(now.rest, 1, n)]
        /\ broken' = [broken EXCEPT ![c] = @ \/ ~now.whole \/ others]
        /\ IF n = Len(now.rest)
           THEN /\ call' = [call EXCEPT ![t] = Idle]
                /\ sent' = [sent EXCEPT ![c] = Take(@, now.message)]
           ELSE /\ call' = [call EXCEPT ![t] = [now EXCEPT !.rest = SubSeq(@, n + 1, Len(@)), !.partly = TRUE]]
                /\ UNCHANGED sent
        /\ UNCHANGED <<sendBuffer, begun, receiver, state>>

\* The socket takes nothing more, BlockingIOError, or is closed: send logs the error,
\* and the rest of the message is lost.
PushFails(t) ==
    LET c == call[t].conn
    IN  /\ call[t].at = "sending"
        /\ state[c] = "Open" => Room(c) = 0
        /\ call' = [call EXCEPT ![t] = Idle]
        /\ broken' = [broken EXCEPT ![c] = @ \/ (state[c] = "Open" /\ call[t].partly)]
        /\ UNCHANGED <<sendBuffer, begun, sent, receiver, wire, state>>

MayEnd(c) ==
    state[c] # "Open" \/ Cardinality({d \in Connections : state[d] # "Open"}) < MaxEnded

\* The sending end closes its socket: what it has taken still arrives.
Close(c) ==
    /\ state[c] = "Open" /\ MayEnd(c)
    /\ state' = [state EXCEPT ![c] = "Closed"]
    /\ UNCHANGED <<sender, receiver, wire>>

\* The connection breaks down: what is under way is gone.
Reset(c) ==
    /\ state[c] # "Reset" /\ MayEnd(c)
    /\ state' = [state EXCEPT ![c] = "Reset"]
    /\ wire' = [wire EXCEPT ![c] = <<>>]
    /\ UNCHANGED <<sender, receiver>>
-----------------------------------------------------------------------------
(* Receiving.  BlockingIOError ends the loop of receive and changes nothing, so that an
   action is one recv that returns bytes. *)

\* int.from_bytes, of all the size bytes or, at the end of the stream, of the first of
\* them: the least significant byte comes first, and the lengths are below 256.
ReadSizes(bytes) ==
    IF bytes = <<>> THEN {0}
    ELSE LET right == {m \in Messages : IsPrefix(bytes, SizeField(m))}
         IN  IF right = {} THEN Misread ELSE {Length[m] : m \in right}

\* A size of zero or less: the loop of receive has neither a size byte to ask for nor a
\* message, and never ends.
Spins(c) == Len(sizeBytes[c]) = SizeBytes /\ nextMessageSize[c] <= 0

\* The server receives from the connection.
Receives(c) == ~disconnected[c] /\ \A d \in Connections : ~Spins(d)

ReceiveSize(c, n) ==
    /\ Receives(c) /\ nextMessageSize[c] <= 0
    /\ n \in 1 .. SizeBytes - Len(sizeBytes[c]) /\ n <= Len(wire[c])
    /\ sizeBytes' = [sizeBytes EXCEPT ![c] = @ \o SubSeq(wire[c], 1, n)]
    /\ wire' = [wire EXCEPT ![c] = SubSeq(@, n + 1, Len(@))]
    /\ IF Len(sizeBytes'[c]) = SizeBytes
       THEN \E size \in ReadSizes(sizeBytes'[c]) :
                nextMessageSize' = [nextMessageSize EXCEPT ![c] = size]
       ELSE UNCHANGED nextMessageSize
    /\ UNCHANGED <<sender, state, messageBytes, didReceiveConnect, disconnected, got>>

\* The message that the bytes are, or 0.
Read(bytes) ==
    LET right == {m \in Messages : bytes = Payload(m)}
    IN  IF right = {} THEN 0 ELSE CHOOSE m \in right : TRUE

\* The first byte is the header; out of place it may be any.
MayBeConnect(bytes) ==
    LET m == bytes[1].of
    IN  IF bytes[1] = Payload(m)[1] THEN {m \in Connects} ELSE BOOLEAN

\* A mistake: asking for the whole size again after a part.
ReceiveMessageTooMuch(c, n) ==
    /\ Receives(c) /\ nextMessageSize[c] > 0
    /\ n \in 1 .. nextMessageSize[c] /\ n <= Len(wire[c])
    /\ messageBytes' = [messageBytes EXCEPT ![c] = @ \o SubSeq(wire[c], 1, n)]
    /\ wire' = [wire EXCEPT ![c] = SubSeq(@, n + 1, Len(@))]
    /\ UNCHANGED <<sender, state, sizeBytes, nextMessageSize, didReceiveConnect, disconnected, got>>

\* A mistake: the size is left for the next message.
HandUpKeepingSize(c, bytes) ==
    /\ messageBytes' = [messageBytes EXCEPT ![c] = <<>>]
    /\ nextMessageSize' = [nextMessageSize EXCEPT ![c] = 0]
    /\ got' = [got EXCEPT ![c] = Append(@, Read(bytes))]
    /\ UNCHANGED <<sizeBytes, didReceiveConnect>>

\* A message that is complete goes to onDataReceived of the server, which drops every
\* Connect of a connection but the first.
HandUp(c, bytes) ==
    /\ sizeBytes' = [sizeBytes EXCEPT ![c] = <<>>]
    /\ nextMessageSize' = [nextMessageSize EXCEPT ![c] = 0]
    /\ messageBytes' = [messageBytes EXCEPT ![c] = <<>>]
    /\ \E connect \in MayBeConnect(bytes) :
        /\ didReceiveConnect' = [didReceiveConnect EXCEPT ![c] = @ \/ connect]
        /\ got' = IF connect /\ didReceiveConnect[c] THEN got
                  ELSE [got EXCEPT ![c] = Append(@, Read(bytes))]

\* A mistake: a part of a message is forgotten when no more is there.
ReceiveMessageForgetting(c, n) ==
    /\ Receives(c) /\ nextMessageSize[c] > 0
    /\ n \in 1 .. nextMessageSize[c] - Len(messageBytes[c]) /\ n <= Len(wire[c])
    /\ wire' = [wire EXCEPT ![c] = SubSeq(@, n + 1, Len(@))]
    /\ IF n = nextMessageSize[c] THEN HandUp(c, SubSeq(wire[c], 1, n))
       ELSE UNCHANGED <<sizeBytes, messageBytes, nextMessageSize, didReceiveConnect, got>>
    /\ UNCHANGED <<sender, state, disconnected>>

ReceiveMessage(c, n) ==
    /\ Receives(c) /\ nextMessageSize[c] > 0
    /\ n \in 1 .. nextMessageSize[c] - Len(messageBytes[c]) /\ n <= Len(wire[c])
    /\ wire' = [wire EXCEPT ![c] = SubSeq(@, n + 1, Len(@))]
    /\ LET bytes == messageBytes[c] \o SubSeq(wire[c], 1, n)
       IN  IF Len(bytes) = nextMessageSize[c] THEN HandUp(c, bytes)
           ELSE /\ messageBytes' = [messageBytes EXCEPT ![c] = bytes]
                /\ UNCHANGED <<sizeBytes, nextMessageSize, didReceiveConnect, got>>
    /\ UNCHANGED <<sender, state, disconnected>>

\* recv returns no bytes, here and in every poll that follows: nobody is told.  Size
\* bytes that have arrived are taken for a size.
ReceiveEnd(c) ==
    /\ Receives(c) /\ state[c] = "Closed" /\ wire[c] = <<>>
    /\ nextMessageSize[c] <= 0
    /\ \E size \in ReadSizes(sizeBytes[c]) :
        nextMessageSize' = [nextMessageSize EXCEPT ![c] = size]
    /\ UNCHANGED <<sender, state, wire, sizeBytes, messageBytes, didReceiveConnect, disconnected, got>>

\* A mistake: the end of the stream taken for a disconnect before the stream is read.
ReceiveResetOrClosed(c) ==
    /\ Receives(c) /\ state[c] # "Open"
    /\ disconnected' = [disconnected EXCEPT ![c] = TRUE]
    /\ UNCHANGED <<sender, state, wire, sizeBytes, messageBytes, nextMessageSize, didReceiveConnect, got>>

ReceiveReset(c) ==
    /\ Receives(c) /\ state[c] = "Reset"
    /\ disconnected' = [disconnected EXCEPT ![c] = TRUE]
    /\ UNCHANGED <<sender, state, wire, sizeBytes, messageBytes, nextMessageSize, didReceiveConnect, got>>

Receive(c) ==
    \/ \E n \in 1 .. Capacity : ReceiveSize(c, n) \/ ReceiveMessage(c, n)
    \/ ReceiveEnd(c)
    \/ ReceiveReset(c)

GoOn(t) == SendPayload(t) \/ SendAll(t) \/ Push(t) \/ PushFails(t)

Next ==
    \/ \E t \in Threads : SendSize(t) \/ GoOn(t)
    \/ \E c \in Connections : Close(c) \/ Reset(c) \/ Receive(c)

Spec == Init /\ [][Next]_vars

\* A send that has begun goes on, and update polls again and again.
FairSpec ==
    /\ Spec
    /\ \A t \in Threads : WF_vars(GoOn(t))
    /\ \A c \in Connections : WF_vars(Receive(c))
-----------------------------------------------------------------------------
(* Properties. *)

CallType ==
    \A t \in Threads :
        /\ call[t].at \in {"idle", "extend", "sendall", "sending"}
        /\ call[t].at # "idle" => call[t].message \in 1 .. begun /\ call[t].conn \in Connections
        /\ call[t].at = "sending" => call[t].rest # <<>>

\* A receive never has more of a message than its size, and never has a part of a
\* message without the size; the socket is never overfull.
TypeOK ==
    /\ CallType
    /\ begun \in 0 .. Len(Length)
    /\ \A c \in Connections :
        /\ state[c] \in {"Open", "Closed", "Reset"} /\ Len(wire[c]) <= Capacity
        /\ Len(sizeBytes[c]) <= SizeBytes
        /\ messageBytes[c] # <<>> => Len(messageBytes[c]) < nextMessageSize[c]
        /\ nextMessageSize[c] \in Int

\* What is handed up is what the socket took, but for the Connects after the first,
\* whole and in this order, however the bytes arrive and whatever is lost as a whole or
\* closed in between.  Bytes go out of place only when the socket takes part of a
\* message, or threads send at the same time: one passes on a buffer that another has
\* replaced, or in between two parts of another.
Framed == \A c \in Connections : ~broken[c] => IsPrefix(got[c], sent[c])

\* The receiving loop, and with it the update thread of the server, hangs only after
\* bytes have gone out of place.
SpinsOnlyIfBroken == \A c \in Connections : Spins(c) => broken[c]

\* What the socket took is handed up, also after the sender has closed it, unless the
\* connection is reset or its bytes are out of place, or the server hangs.
EverythingArrives ==
    <>[](\A c \in Connections :
            \/ state[c] = "Reset" \/ broken[c] \/ \E d \in Connections : Spins(d)
            \/ got[c] = sent[c])
=============================================================================
