---------------------------- MODULE HostFifoPkg ----------------------------
(***************************************************************************)
(* The words of the host link and the FIFO core that carries them.         *)
(*                                                                         *)
(* A transaction is a command word followed by as many payload words as    *)
(* its count field announces (host_fifo_pkg.sv).  Of a word the arbiters   *)
(* only look at the SELMASK bit and the 3-bit CNTMASK field; the remaining *)
(* bits are data and are kept as an opaque tag.                            *)
(*                                                                         *)
(* `fifo' (a core the repository depends on and does not contain) is       *)
(* modelled from its instances: full and empty follow the occupancy, a     *)
(* read enable moves the oldest word to the registered read data, and it   *)
(* guards neither end itself.                                              *)
(***************************************************************************)
EXTENDS Integers, Sequences

CONSTANTS
    Code,       \* the count fields in use
    Tag,        \* the data bits of a word
    Depth,      \* words a client FIFO of an arbiter holds (2^AWIDTH)
    HostDepth   \* words the host FIFO holds

ASSUME CodeAssumption == Code \subseteq 0..7 /\ 0 \in Code
ASSUME TagAssumption == 0 \in Tag
ASSUME DepthAssumption == Depth \in Nat \ {0} /\ HostDepth \in Nat \ {0}

\* Payload words announced by a count field.
fifo_payload ==
    [v \in 0..7 |-> CASE v = 3 -> 4 [] v = 4 -> 5 [] v = 5 -> 6
                      [] v = 6 -> 8 [] v = 7 -> 16 [] OTHER -> v]

\* The clients of an arbiter: 1 owns the words whose SELMASK bit is set.
Client == {1, 2}

Word == [sel : BOOLEAN, cnt : Code, tag : Tag]

ClientOf(w) == IF w.sel THEN 1 ELSE 2

\* What `fifo' holds after a clock edge: the oldest word leaves if it was
\* read, ws (at most one word) is stored behind the others.
FifoNext(q, read, ws) == (IF read THEN Tail(q) ELSE q) \o ws

\* Zero or one word of a set offered at a clock edge.
Offer(S) == {<<>>} \cup {<<w>> : w \in S}
=============================================================================
