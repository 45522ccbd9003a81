---------------------------- MODULE PacketRouter ----------------------------
(***************************************************************************)
(* What the receive arbiter promises.  The words the host sent wait in     *)
(* src; one after the other they move to the queue of one of the two       *)
(* clients.  A command word goes to the client it names and takes the      *)
(* payload that follows it to that same client, whatever the payload       *)
(* words look like; nothing is lost, duplicated or overtaken, and a client *)
(* queue never holds more than Depth words.                                *)
(***************************************************************************)
EXTENDS HostFifoPkg

VARIABLES
    src,    \* words sent by the host, not yet routed
    dst,    \* dst[i]: words routed to client i, not yet read by it
    left,   \* payload words of the open packet still to be routed
    to      \* the client of the open packet (of the last one if left = 0)

vars == <<src, dst, left, to>>

Init ==
    /\ src = <<>>
    /\ dst = [i \in Client |-> <<>>]
    /\ left = 0
    /\ to \in Client

\* The word at the head of src is routed; the readers in rd take a word.
Route(ws, rd) ==
    LET w == Head(src)
        target == IF left = 0 THEN ClientOf(w) ELSE to
    IN  /\ src # <<>>
        /\ Len(dst[target]) < Depth
        /\ src' = Tail(src) \o ws
        /\ dst' = [i \in Client |->
                     FifoNext(dst[i], i \in rd, IF i = target THEN <<w>> ELSE <<>>)]
        /\ left' = IF left = 0 THEN fifo_payload[w.cnt] ELSE left - 1
        /\ to' = target

\* Nothing is routed; the host may send and the clients may read.
Wait(ws, rd) ==
    /\ src' = src \o ws
    /\ dst' = [i \in Client |-> FifoNext(dst[i], i \in rd, <<>>)]
    /\ UNCHANGED <<left, to>>

Next ==
    \E ws \in Offer(Word), rd \in SUBSET Client :
        /\ \A i \in rd : dst[i] # <<>>
        /\ Route(ws, rd) \/ Wait(ws, rd)

Spec == Init /\ [][Next]_vars
=============================================================================
