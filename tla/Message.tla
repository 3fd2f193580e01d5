------------------------------ MODULE Message ------------------------------
(***************************************************************************)
(* A message from the first put to the last get: message.py, its wire      *)
(* format in message_base.py.  BitStream has the copying of bits.          *)
(*                                                                         *)
(* The application puts items into a message, may write over one at its    *)
(* position, and sends it.  The receiver gets the items in the order they  *)
(* were put; or the server relays what it received.  A call that raises    *)
(* leaves the message as it is at that moment, and the application may     *)
(* catch the exception and go on.                                          *)
(*                                                                         *)
(* A value of a fixed width type is the bytes Python converts it to.  The  *)
(* option to leave the length out of an array is not modelled, nor are     *)
(* notify messages.                                                        *)
(***************************************************************************)
EXTENDS BitStream

CONSTANTS
    Items,              \* what the application may put: records [type, array, elements]
    MessageIDs,
    MaxBits,            \* _MAX_BIT_COUNT: 9848 in the code
    MaxItems,           \* bound on the items of a message
    MaxReplaced         \* bound on the items written over

HEADER_BITS == 4

\* The headers of the messages that carry items of the application.
Unreliable == 0
Connect == 2
Disconnect == 5
Reliable == 7

\* The reason that disconnectClient puts before the application's items: Kicked.
Kicked == [type |-> "UInt8", array |-> FALSE, elements |-> <<<<4>>>>]

\* The sequence ID of a reliable message: two different bytes.
SequenceID == 42737

\* What becomes of the application's message before and instead of being sent.
Unsent == -1
Local == -2
-----------------------------------------------------------------------------
(* Puts.  A position below zero means: at the end. *)

NoMessage == [header |-> 0, msgID |-> 0, seqID |-> 0, data |-> <<>>,
              readBit |-> 0, writeBit |-> 0, raised |-> FALSE]

Larger(a, b) == IF a > b THEN a ELSE b

Raise(m) == [m EXCEPT !.raised = TRUE]

\* checkBitsAvailable
Room(m, bits) == MaxBits - m.writeBit >= bits

\* A mistake in the space needed by an unaligned value.
AppendBitsShort(m, bytes) ==
    [m EXCEPT !.data = Overlay(BitsOf(bytes), Padded(@, m.writeBit \div 8 + Len(bytes)), m.writeBit),
              !.writeBit = @ + BITS_PER_BYTE * Len(bytes)]

AppendBits(m, bytes) ==
    [m EXCEPT !.data = Overlay(BitsOf(bytes), Padded(@, BytesNeeded(m.writeBit) + Len(bytes)), m.writeBit),
              !.writeBit = @ + BITS_PER_BYTE * Len(bytes)]

\* The new writeBit is a number of bytes.
ReplaceBits(m, bytes, pos) ==
    LET required == BytesNeeded(pos) + Len(bytes)
    IN  [m EXCEPT !.data = Overlay(BitsOf(bytes), Padded(@, required), pos),
                  !.writeBit = IF Len(m.data) < BITS_PER_BYTE * required
                               THEN Larger(@, required) ELSE @]

PutBytes(m, bytes, pos) == IF pos < 0 THEN AppendBits(m, bytes) ELSE ReplaceBits(m, bytes, pos)

\* What differs between the fixed width types: size in bytes; the bits an array
\* asks room for, for each element; whether each element asks for its own; the
\* distance of the elements of an array put at a position; the largest byte.
Width(size, room, each, step, limit) ==
    [size |-> size, room |-> room, each |-> each, step |-> step, limit |-> limit]

Byte == [type \in {"Int8", "UInt8"} |-> Width(1, 8, FALSE, IF type = "UInt8" THEN 0 ELSE 8, 255)]
Short == [type \in {"Int16", "UInt16"} |-> Width(2, 16, TRUE, 16, 255)]
Int32s == [type \in {"Int32", "UInt32"} |-> Width(4, IF type = "Int32" THEN 16 ELSE 32, TRUE, 32, 255)]
Long == [type \in {"Int64", "UInt64"} |-> Width(8, 64, TRUE, 64, 255)]
Float == [type \in {"Float"} |-> Width(4, 32, TRUE, 32, 255)]
Double == [type \in {"Double"} |-> Width(8, 64, TRUE, 64, 255)]

WidthOf ==
    [type \in UNION {DOMAIN Byte, DOMAIN Short, DOMAIN Int32s, DOMAIN Long, DOMAIN Float, DOMAIN Double} |->
        CASE type \in DOMAIN Byte -> Byte[type]
          [] type \in DOMAIN Short -> Short[type]
          [] type \in DOMAIN Int32s -> Int32s[type]
          [] type \in DOMAIN Long -> Long[type]
          [] type \in DOMAIN Float -> Float[type]
          [] OTHER -> Double[type]]

\* What the application may put: one element or an array of them, an element as wide as
\* its type; an element of a string array is the bytes of a string.
IsItem(item) ==
    /\ item.type \in DOMAIN WidthOf \cup {"Bool", "String"} /\ item.array \in BOOLEAN
    /\ item.elements \in Seq(Seq(0 .. 255))
    /\ ~item.array => Len(item.elements) = 1
    /\ \A i \in DOMAIN item.elements :
        /\ item.type \in DOMAIN WidthOf => Len(item.elements[i]) = WidthOf[item.type].size
        /\ item.type = "Bool" => item.elements[i] \in {<<0>>, <<1>>}

\* ReplaceBits may set writeBit to a number of bytes; in the code, where an array has at
\* most ten bytes of length, those are below 9848.
ASSUME MessageAssumption ==
    /\ MaxBits \in Nat /\ MaxItems \in Nat /\ MaxReplaced \in Nat
    /\ MessageIDs \subseteq Nat
    /\ \A item \in Items :
        /\ IsItem(item)
        /\ item.type = "Bool" /\ item.array =>
               BytesNeeded(MaxBits) + Len(ToVarULong(Len(item.elements))) <= MaxBits

\* to_bytes(signed=True) on the bytes of a string: OverflowError above 127.
Character == Width(1, 8, FALSE, 8, 127)

PutFixed(m, width, bytes, pos) ==
    IF Room(m, BITS_PER_BYTE * width.size) THEN PutBytes(m, bytes, pos) ELSE Raise(m)

\* A mistake: trusting the room the array asked for.
PutElementUnchecked(m, width, bytes, pos) == IF m.raised THEN m ELSE PutBytes(m, bytes, pos)

PutElement(m, width, bytes, pos) ==
    CASE m.raised -> m
      [] ~m.raised /\ bytes[1] > width.limit -> Raise(m)
      [] ~m.raised /\ bytes[1] <= width.limit /\ width.each -> PutFixed(m, width, bytes, pos)
      [] OTHER -> PutBytes(m, bytes, pos)

PutArray(m, width, elements, pos) ==
    LET length == ToVarULong(Len(elements))
        counted == PutBytes(m, length, pos)
        At(i) == IF pos < 0 THEN pos
                 ELSE pos + BITS_PER_BYTE * Len(length) + width.step * (i - 1)
        after[i \in 0 .. Len(elements)] ==
            IF i = 0 THEN counted ELSE PutElement(after[i - 1], width, elements[i], At(i))
    IN  IF Room(counted, width.room * Len(elements)) THEN after[Len(elements)] ELSE Raise(counted)

PutBool(m, bit, pos) ==
    CASE ~Room(m, 1) -> Raise(m)
      [] Room(m, 1) /\ pos < 0 -> [m EXCEPT !.data = SetBit(bit, @, m.writeBit), !.writeBit = @ + 1]
      [] OTHER -> [m EXCEPT !.data = SetBit(bit, @, pos)]

\* The length is put AT the end, not appended: writeBit does not pass the array.
PutBoolArray(m, elements, pos) ==
    LET writePos == IF pos < 0 THEN m.writeBit ELSE pos
        length == ToVarULong(Len(elements))
    IN  [PutBytes(m, length, writePos) EXCEPT
            !.data = SetBits([i \in DOMAIN elements |-> elements[i][1]], @, writePos + BITS_PER_BYTE * Len(length))]

Characters(bytes) == [i \in DOMAIN bytes |-> <<bytes[i]>>]

PutString(m, bytes, pos) == PutArray(m, Character, Characters(bytes), pos)

\* Where the i-th string starts, from the start of the first.
StringOffset(strings, i) ==
    LET StringBits(s) == BITS_PER_BYTE * (Len(ToVarULong(Len(s))) + Len(s))
        offset[j \in 0 .. Len(strings)] == IF j = 0 THEN 0 ELSE offset[j - 1] + StringBits(strings[j])
    IN  offset[i - 1]

\* No room is asked for the number of strings.
PutStringArray(m, strings, pos) ==
    LET length == ToVarULong(Len(strings))
        At(i) == IF pos < 0 THEN pos
                 ELSE pos + BITS_PER_BYTE * Len(length) + StringOffset(strings, i)
        PutNext(acc, i) == IF acc.raised THEN acc ELSE PutString(acc, strings[i], At(i))
        after[i \in 0 .. Len(strings)] ==
            IF i = 0 THEN PutBytes(m, length, pos) ELSE PutNext(after[i - 1], i)
    IN  after[Len(strings)]

Put(m, item, pos) ==
    LET v == item.elements
        start == [m EXCEPT !.raised = FALSE]
    IN  CASE item.type = "Bool" /\ ~item.array -> PutBool(start, v[1][1], pos)
          [] item.type = "Bool" /\ item.array -> PutBoolArray(start, v, pos)
          [] item.type = "String" /\ ~item.array -> PutString(start, v[1], pos)
          [] item.type = "String" /\ item.array -> PutStringArray(start, v, pos)
          [] OTHER -> IF item.array THEN PutArray(start, WidthOf[item.type], v, pos)
                      ELSE PutFixed(start, WidthOf[item.type], v[1], pos)
-----------------------------------------------------------------------------
(* The wire. *)

HasSequenceID(header) == header >= Reliable
HasMessageID(header) == header \in {Unreliable, Reliable}

HeaderBits(header) == HEADER_BITS + (IF HasSequenceID(header) THEN 16 ELSE 0)

CreateBytestream(m) ==
    LET id == IF HasMessageID(m.header) THEN ToVarULong(m.msgID) ELSE <<>>
        header == Bits(m.header, HEADER_BITS)
                  \o (IF HasSequenceID(m.header) THEN Bits(m.seqID, 16) ELSE <<>>)
    IN  SetBits(header \o BitsOf(id) \o SubSeq(m.data, 1, m.writeBit), <<>>, 0)

\* writeBit stays at zero: a received message has nothing to send on.
FromBytestream(stream) ==
    LET header == Number(SubSeq(stream, 1, HEADER_BITS))
        start == HeaderBits(header)
        id == IF HasMessageID(header) THEN FromVarULong(stream, start)
              ELSE [found |-> TRUE, value |-> 0, bits |-> 0]
        payload == start + id.bits
    IN  [NoMessage EXCEPT
            !.header = header,
            !.msgID = id.value,
            !.seqID = IF HasSequenceID(header) THEN Number(SubSeq(stream, 5, 20)) ELSE 0,
            !.raised = ~id.found,
            !.data = BytesFromBits(stream, Len(stream) - payload, payload)]

\* The items of the application behind what a connect or disconnect message has.
AppendMessage(m, other) ==
    IF Room(m, other.writeBit)
    THEN [m EXCEPT !.data = SetBits(SubSeq(other.data, 1, other.writeBit), @, m.writeBit),
                   !.writeBit = @ + other.writeBit]
    ELSE Raise(m)
-----------------------------------------------------------------------------
(* Gets: the message afterwards, and the elements; after an exception, none. *)

Got(m, readBit, elements) == [message |-> [m EXCEPT !.readBit = readBit], elements |-> elements]
Failed(m) == [message |-> Raise(m), elements |-> <<>>]

GetBytes(m, length, pos) ==
    IF Len(m.data) - pos < BITS_PER_BYTE * length THEN Failed(m)
    ELSE Got(m, pos + BITS_PER_BYTE * length,
             <<BytesOf(BytesFromBits(m.data, BITS_PER_BYTE * length, pos))>>)

GetFixed(m, width) == GetBytes(m, width.size, m.readBit)

GetArray(m, width) ==
    LET length == FromVarULong(m.data, m.readBit)
        start == m.readBit + length.bits
        bits == BITS_PER_BYTE * width.size
    IN  IF ~length.found \/ Len(m.data) - start < length.value * bits THEN Failed(m)
        ELSE Got(m, start + length.value * bits,
                 [i \in 1 .. length.value |->
                    BytesOf(BytesFromBits(m.data, bits, start + bits * (i - 1)))])

GetBool(m) ==
    IF HasByte(m.data, m.readBit) THEN Got(m, m.readBit + 1, <<<<m.data[m.readBit + 1]>>>>)
    ELSE Failed(m)

\* getBitsToBytes takes length for a number of bytes, and an unaligned array
\* from the start of the message.
GetBoolArray(m) ==
    LET length == FromVarULong(m.data, m.readBit)
        start == m.readBit + length.bits
        first == IF start % 8 = 0 THEN start ELSE start % 8
        there == IF start % 8 = 0 THEN start + length.value <= Len(m.data)
                 ELSE BITS_PER_BYTE * (length.value + 1) <= Len(m.data)
    IN  IF ~length.found \/ Len(m.data) - m.readBit < length.value \/ ~there THEN Failed(m)
        ELSE Got(m, start + length.value, [i \in 1 .. length.value |-> <<m.data[first + i]>>])

GetString(m) ==
    LET length == FromVarULong(m.data, m.readBit)
    IN  IF ~length.found THEN Failed(m) ELSE GetBytes(m, length.value, m.readBit + length.bits)

GetNextString(got) ==
    IF got.message.raised THEN got
    ELSE [GetString(got.message) EXCEPT !.elements = got.elements \o @]

GetStringArray(m) ==
    LET length == FromVarULong(m.data, m.readBit)
        after[i \in 0 .. length.value] ==
            IF i = 0 THEN Got(m, m.readBit + length.bits, <<>>) ELSE GetNextString(after[i - 1])
    IN  IF length.found THEN after[length.value] ELSE Failed(m)

Get(m, item) ==
    CASE item.type = "Bool" /\ ~item.array -> GetBool(m)
      [] item.type = "Bool" /\ item.array -> GetBoolArray(m)
      [] item.type = "String" /\ ~item.array -> GetString(m)
      [] item.type = "String" /\ item.array -> GetStringArray(m)
      [] OTHER -> IF item.array THEN GetArray(m, WidthOf[item.type])
                  ELSE GetFixed(m, WidthOf[item.type])
-----------------------------------------------------------------------------
(* One message from its creation to the last get. *)

VARIABLES
    message,            \* of the application that sends
    items,              \* what it put: the item, its position, whether the message holds it
    replaced,           \* how many items were written over
    sentAs,             \* header it was sent with; Local if the application reads its own
                        \* message, Unsent before
    relayed,            \* whether the server sent on what it received
    received,           \* message of the application that gets
    gets                \* results of the gets

vars == <<message, items, replaced, sentAs, relayed, received, gets>>

Init ==
    /\ message = NoMessage /\ items = <<>> /\ replaced = 0
    /\ sentAs = Unsent /\ relayed = FALSE
    /\ received = NoMessage /\ gets = <<>>

PutItem(item) ==
    /\ sentAs = Unsent /\ Len(items) < MaxItems
    /\ message' = Put(message, item, -1)
    /\ items' = Append(items, [item |-> item, start |-> message.writeBit, held |-> ~message'.raised])
    /\ UNCHANGED <<replaced, sentAs, relayed, received, gets>>

\* The same type and the same size, which the application has to see to.
SameShape(item, other) ==
    /\ item.type = other.type /\ item.array = other.array
    /\ Len(item.elements) = Len(other.elements)
    /\ \A i \in DOMAIN item.elements : Len(item.elements[i]) = Len(other.elements[i])

\* An array of UInt8 is put at its position element over element; a call that raises
\* may have replaced some elements of an array, or characters of a string.
Replace(i, item) ==
    /\ sentAs = Unsent /\ replaced < MaxReplaced
    /\ items[i].held /\ item # items[i].item /\ SameShape(item, items[i].item)
    /\ message' = Put(message, item, items[i].start)
    /\ items' = IF message'.raised /\ ~item.array /\ item.type # "String" THEN items
                ELSE [items EXCEPT ![i].item = item,
                                   ![i].held = ~message'.raised /\ (item.type = "UInt8" => ~item.array)]
    /\ replaced' = replaced + 1
    /\ UNCHANGED <<sentAs, relayed, received, gets>>

\* An application message: header and message ID were given to create, the
\* sequence ID comes from createPending.
Send(header, id) ==
    /\ sentAs = Unsent
    /\ message' = [message EXCEPT !.header = header, !.msgID = id,
                                  !.seqID = IF HasSequenceID(header) THEN SequenceID ELSE 0]
    /\ received' = FromBytestream(CreateBytestream(message'))
    /\ sentAs' = header
    /\ UNCHANGED <<items, replaced, relayed, gets>>

\* The message given to connect or disconnectClient is appended to an internal one,
\* behind what that has; nothing is sent if it does not fit.
SendAppended(header, first) ==
    LET empty == [NoMessage EXCEPT !.header = header]
        own == IF first = <<>> THEN empty ELSE Put(empty, first[1], -1)
        shift == own.writeBit
        offset == Len(first)
    IN  /\ sentAs = Unsent
        /\ message' = AppendMessage(own, message)
        /\ ~message'.raised
        /\ items' = [i \in 1 .. offset |-> [item |-> first[i], start |-> 0, held |-> TRUE]]
                    \o [i \in DOMAIN items |-> [items[i] EXCEPT !.start = @ + shift]]
        /\ received' = FromBytestream(CreateBytestream(message'))
        /\ sentAs' = header
        /\ UNCHANGED <<replaced, relayed, gets>>

\* The application gets from the message it has put into, as the unit tests do.
ReadLocally ==
    /\ sentAs = Unsent
    /\ received' = [message EXCEPT !.raised = FALSE]
    /\ sentAs' = Local
    /\ UNCHANGED <<message, items, replaced, relayed, gets>>

\* onMessageReceived sends the message on before any handler has got an item.
Relay ==
    /\ sentAs \in {Unreliable, Reliable} /\ gets = <<>> /\ ~relayed
    /\ received' = FromBytestream(CreateBytestream(received))
    /\ relayed' = TRUE
    /\ UNCHANGED <<message, items, replaced, sentAs, gets>>

\* The message holds the item, and what follows does not write over it: not so for an
\* array of bools, unless the message has nothing else and stays in the process.
Intact(i) ==
    /\ items[i].held
    /\ items[i].item.type = "Bool" /\ items[i].item.array => sentAs = Local /\ Len(items) = 1

\* The receiver gets the next item; it stops after an exception, and before an item
\* the message does not hold: what a get returns then is whatever follows.
GetNext ==
    /\ sentAs # Unsent /\ ~received.raised /\ Len(gets) < Len(items)
    /\ \A j \in 1 .. Len(gets) + 1 : Intact(j)
    /\ LET got == Get(received, items[Len(gets) + 1].item)
       IN  /\ received' = got.message
           /\ gets' = Append(gets, [raised |-> got.message.raised, elements |-> got.elements])
    /\ UNCHANGED <<message, items, replaced, sentAs, relayed>>

Next ==
    \/ \E item \in Items : PutItem(item)
    \/ \E i \in DOMAIN items : \E item \in Items : Replace(i, item)
    \/ \E header \in {Unreliable, Reliable}, id \in MessageIDs : Send(header, id)
    \/ SendAppended(Connect, <<>>)
    \/ SendAppended(Disconnect, <<Kicked>>)
    \/ ReadLocally
    \/ Relay
    \/ GetNext

Spec == Init /\ [][Next]_vars
-----------------------------------------------------------------------------
(* Properties. *)

IsMessage(m) ==
    /\ m.data \in Seq({0, 1}) /\ Len(m.data) % BITS_PER_BYTE = 0
    /\ m.readBit \in 0 .. Len(m.data) /\ m.writeBit \in 0 .. Len(m.data)
    /\ m.raised \in BOOLEAN

\* The payload is whole bytes, and neither position is beyond it, for the message that
\* is written and the one that is read.
TypeOK ==
    /\ IsMessage(message) /\ IsMessage(received)
    /\ items \in Seq([item : Items \cup {Kicked}, start : Nat, held : BOOLEAN])
    /\ replaced \in 0 .. MaxReplaced /\ relayed \in BOOLEAN
    /\ sentAs \in {Unsent, Local, Unreliable, Connect, Disconnect, Reliable}
    /\ Len(gets) <= Len(items)

\* A single bool that does not begin a byte and has no other byte behind it on the wire:
\* byteFromBits looks for that byte.
LoneBool(i) ==
    /\ items[i].item.type = "Bool" /\ items[i].start % BITS_PER_BYTE # 0
    /\ sentAs # Local
    /\ BytesNeeded(message.writeBit) = BytesNeeded(items[i].start)

\* An empty string that does not begin a byte is read as the byte before it, its length.
Returned(string, start) ==
    IF string = <<>> /\ start % BITS_PER_BYTE # 0 THEN <<0>> ELSE string

ReturnedElements(item, start) ==
    IF item.type = "String" THEN [i \in DOMAIN item.elements |-> Returned(item.elements[i], start)]
    ELSE item.elements

\* What is got is what was put, but for such empty strings, whatever was written over,
\* raised in between and appended to another message, up to the first item the message
\* does not hold; the only get that raises is that of a lone bool.
ReadsWhatWasPut ==
    \A i \in DOMAIN gets :
        ~relayed => IF gets[i].raised THEN LoneBool(i)
                    ELSE gets[i].elements = ReturnedElements(items[i].item, items[i].start)

\* Header, message ID and sequence ID arrive as they were sent, and survive a relay.
HeadersArrive ==
    sentAs \notin {Unsent, Local} =>
        /\ received.header = message.header
        /\ received.msgID = message.msgID
        /\ received.seqID = message.seqID

\* No item passes the end of a message, although every element is checked on its own,
\* after the length of its array: only that length may, when the array then raises or
\* is an array of strings.
CapacityHeld ==
    (\A i \in DOMAIN items : items[i].held /\ ~(items[i].item.type = "String" /\ items[i].item.array))
        => message.writeBit <= MaxBits
=============================================================================
