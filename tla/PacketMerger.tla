---------------------------- MODULE PacketMerger ----------------------------
(***************************************************************************)
(* What a transmit arbiter has to promise: the words of two clients merge  *)
(* into one stream, each client's words in the order it wrote them, none   *)
(* lost, and the packets whole: once a command word is in the stream only  *)
(* its own client adds words until its payload is complete.                *)
(***************************************************************************)
EXTENDS HostFifoPkg

VARIABLES
    src,    \* src[i]: words client i wrote, not yet merged
    out,    \* the merged stream, as far as the host has not read it
    left,   \* payload words of the open packet still to come
    owner   \* the client of the open packet, 0 if none is open

vars == <<src, out, left, owner>>

Init ==
    /\ src = [i \in Client |-> <<>>]
    /\ out = <<>>
    /\ left = 0
    /\ owner = 0

\* ws[i] is what client i writes, read whether the host takes a word.
Exchange(i, ws, word, read) ==
    /\ src' = [j \in Client |-> FifoNext(src[j], j = i, ws[j])]
    /\ out' = FifoNext(out, read, word)

Merge(i, ws, read) ==
    LET w == Head(src[i]) IN
    /\ src[i] # <<>>
    /\ owner \in {0, i}
    /\ Exchange(i, ws, <<w>>, read)
    /\ left' = IF left = 0 THEN fifo_payload[w.cnt] ELSE left - 1
    /\ owner' = IF left' = 0 THEN 0 ELSE i

Wait(ws, read) ==
    /\ Exchange(0, ws, <<>>, read)
    /\ UNCHANGED <<left, owner>>

Next ==
    \E ws \in [Client -> Offer(Word)], read \in BOOLEAN :
        /\ read => out # <<>>
        /\ Wait(ws, read) \/ \E i \in Client : Merge(i, ws, read)

Spec == Init /\ [][Next]_vars
=============================================================================
