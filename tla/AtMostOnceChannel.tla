------------------------- MODULE AtMostOnceChannel -------------------------
(***************************************************************************)
(* What the reliable send mode promises to its two ends, whatever the      *)
(* network does: a message is handed over at most once, and only if the    *)
(* other end transmitted it and this end took it in before it closed.  An  *)
(* end may still transmit once it closed, and still hands over what it     *)
(* took in before.                                                         *)
(***************************************************************************)
EXTENDS Integers

CONSTANTS Ends, LastId, Other(_)

Ids(e) == 2 .. LastId[e]

VARIABLES
    open,       \* open[e]: e still takes messages in
    sent,       \* sent[e]: messages e transmitted
    taken,      \* taken[e]: messages e took in
    got         \* got[e][id]: times e was handed that message

Init ==
    /\ open = [e \in Ends |-> TRUE]
    /\ sent = [e \in Ends |-> {}]
    /\ taken = [e \in Ends |-> {}]
    /\ got = [e \in Ends |-> [id \in Ids(Other(e)) |-> 0]]

Transmit(e) == \E id \in Ids(e) \ sent[e] :
    /\ sent' = [sent EXCEPT ![e] = @ \union {id}]
    /\ UNCHANGED <<open, taken, got>>

Close(e) ==
    /\ open[e]
    /\ open' = [open EXCEPT ![e] = FALSE]
    /\ UNCHANGED <<sent, taken, got>>

Take(e) == \E id \in sent[Other(e)] \ taken[e] :
    /\ open[e]
    /\ taken' = [taken EXCEPT ![e] = @ \union {id}]
    /\ UNCHANGED <<open, sent, got>>

HandOver(e) == \E id \in taken[e] :
    /\ got[e][id] = 0
    /\ got' = [got EXCEPT ![e][id] = 1]
    /\ UNCHANGED <<open, sent, taken>>

Next == \E e \in Ends : Transmit(e) \/ Close(e) \/ Take(e) \/ HandOver(e)

Spec == Init /\ [][Next]_<<open, sent, taken, got>>
=============================================================================
