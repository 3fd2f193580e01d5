------------------------- MODULE MCReliableChannel -------------------------
(* Model checking instance of ReliableChannel. *)
EXTENDS ReliableChannel, TLC
CONSTANTS a, b, LastA, LastB
MCEnds == {a, b}
MCLastId == [e \in MCEnds |-> IF e = a THEN LastA ELSE LastB]

Acks == {p \in wire : p.kind = "Ack"}

\* Two messages each way and up to two different acks, four as long as both ends
\* are connected; a is, once anything is sent, b in any state, ...
ShortStreams ==
    /\ \A e \in MCEnds : nextSequenceId[e] <= 3
    /\ Cardinality(Acks) <= IF conn[b] = "Connected" THEN 4 ELSE 2
    /\ (\E e \in MCEnds : nextSequenceId[e] > 1) => conn[a] = "Connected"

\* ... and longer streams, for a's ack window to be swept, in which both ends
\* send all they have before the first packet arrives, packets are handled one
\* by one, the acks sent to b are lost, and no send gives up.
LongStreamToA ==
    /\ conn[a] = "Connected" /\ conn[b] = "Connected"
    /\ \A e \in MCEnds : lastReceivedSeqId[e] > 0 =>
           \A f \in MCEnds : nextSequenceId[f] = MCLastId[f]
    /\ \A e \in MCEnds : Len(messageQueue[e]) <= 1
    /\ \A i \in DOMAIN messageQueue[b] : messageQueue[b][i].kind = "Reliable"
    /\ Cardinality({p \in Acks : p.to = a}) <= 3

Explored == ShortStreams \/ LongStreamToA
=============================================================================
