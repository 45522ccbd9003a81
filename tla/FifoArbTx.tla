----------------------------- MODULE FifoArbTx -----------------------------
(***************************************************************************)
(* fifo_arb_tx: the transmit half of the host FIFO arbiter.  Each client   *)
(* writes its packets into a FIFO of its own and the arbiter copies them   *)
(* to the host FIFO, meant to stay with a client until a packet is         *)
(* complete.  A step is a clock edge, at which each client may write and   *)
(* the host may read a word.                                               *)
(***************************************************************************)
EXTENDS HostFifoPkg

VARIABLES
    fromClient,         \* fromClient[i]: the words in the FIFO of client i
    rddata,             \* rddata[i]: its registered read data
    toHost,             \* the words in the host FIFO
    prden, tx_psel,     \* prden[i], tx_psel[i]: read enable and selection, last cycle
    tx_data_valid,      \* a client FIFO was read at the last edge
    tx_dcnt,            \* payload words of the open packet still to come
    store,              \* a word the host FIFO had no room for
    backpressure,       \* store is waiting
    collided            \* history: both client FIFOs were read at one edge

txArbiter == <<prden, tx_psel, tx_data_valid, tx_dcnt, store, backpressure>>
txVars == <<fromClient, rddata, toHost, txArbiter, collided>>

NoWord == [sel |-> FALSE, cnt |-> 0, tag |-> 0]

TxInit ==
    /\ fromClient = [i \in Client |-> <<>>]
    /\ rddata = [i \in Client |-> NoWord]
    /\ toHost = <<>>
    /\ prden = [i \in Client |-> FALSE]
    /\ tx_psel = [i \in Client |-> FALSE]
    /\ tx_data_valid = FALSE
    /\ tx_dcnt = 0
    /\ store = NoWord
    /\ backpressure = FALSE
    /\ collided = FALSE

-----------------------------------------------------------------------------
(* The wires.                                                              *)

rdempty(i) == fromClient[i] = <<>>

tx_wrfull == Len(toHost) = HostDepth

\* The word read at the last edge.
data == IF prden[1] THEN rddata[1] ELSE IF prden[2] THEN rddata[2] ELSE NoWord

\* Mutant of hold: the selection is not held for the payload of a command
\* word that has just been read.
holdNever == FALSE
hold == tx_dcnt = 0 /\ fifo_payload[data.cnt] # 0

tx_sel(i) == ~tx_psel[3 - i] /\ (~rdempty(i) \/ (tx_psel[i] /\ (hold \/ tx_dcnt > 0)))

\* Mutant of rden: a client FIFO is read while the host FIFO is full.
rdenUnblocked(i) == tx_sel(i) /\ ~rdempty(i) /\ ~backpressure
rden(i) == tx_sel(i) /\ ~rdempty(i) /\ ~tx_wrfull /\ ~backpressure

fifo_wren == ~tx_wrfull /\ (tx_data_valid \/ backpressure)

fifo_wrdata == IF backpressure THEN store ELSE data

-----------------------------------------------------------------------------
(* The clock edge.                                                         *)

\* tx_dcnt once the word read at the last edge is accounted for.
TxCount ==
    IF ~tx_data_valid THEN tx_dcnt
    ELSE IF tx_dcnt = 0 THEN fifo_payload[data.cnt] ELSE tx_dcnt - 1

Stores == tx_wrfull /\ tx_data_valid /\ ~backpressure

Save ==
    /\ store' = IF Stores THEN data ELSE store
    /\ backpressure' = (Stores \/ (backpressure /\ tx_wrfull))

TxArbitrate ==
    /\ prden' = [i \in Client |-> rden(i)]
    /\ tx_psel' = [i \in Client |-> tx_sel(i)]
    /\ tx_data_valid' = (\E i \in Client : rden(i))
    /\ tx_dcnt' = TxCount
    /\ Save

\* Client i writes ws[i], unless its FIFO is full.
TxClock(ws, read) ==
    /\ \A i \in Client : Len(fromClient[i]) + Len(ws[i]) <= Depth
    /\ read => toHost # <<>>
    /\ TxArbitrate
    /\ fromClient' = [i \in Client |-> FifoNext(fromClient[i], rden(i), ws[i])]
    /\ rddata' = [i \in Client |-> IF rden(i) THEN Head(fromClient[i]) ELSE rddata[i]]
    /\ toHost' = FifoNext(toHost, read, IF fifo_wren THEN <<fifo_wrdata>> ELSE <<>>)
    /\ collided' = (collided \/ \A i \in Client : rden(i))

\* A client sets the SELMASK bit of its words by its own number; fifo_arb_tx
\* does not look at it.
Write == {ws \in [Client -> Offer(Word)] :
            \A i \in Client : ws[i] # <<>> => ClientOf(ws[i][1]) = i}

TxNext == \E ws \in Write, read \in BOOLEAN : TxClock(ws, read)

TxSpec == TxInit /\ [][TxNext]_txVars

-----------------------------------------------------------------------------
(* Properties.                                                             *)

TxTypeOK ==
    /\ fromClient \in [Client -> Seq(Word)]
    /\ \A i \in Client : Len(fromClient[i]) <= Depth
    /\ rddata \in [Client -> Word]
    /\ toHost \in Seq(Word) /\ Len(toHost) <= HostDepth
    /\ prden \in [Client -> BOOLEAN] /\ tx_psel \in [Client -> BOOLEAN]
    /\ tx_data_valid \in BOOLEAN /\ backpressure \in BOOLEAN /\ collided \in BOOLEAN
    /\ tx_dcnt \in 0..16
    /\ store \in Word

\* There is at most one word between the client FIFOs and the host FIFO:
\* a word is never read while another one is stored for a full host FIFO.
OneInFlight == ~(tx_data_valid /\ backpressure)

\* While a packet is open exactly one client is selected, also when its own
\* FIFO runs empty in the middle of the packet or the host FIFO is full.
SelectionHeld == TxCount # 0 /\ ~collided => tx_psel[1] # tx_psel[2]

\* All three: no word is in two places between the FIFOs of the arbiter, and an
\* open packet has one client.
Inv == TxTypeOK /\ OneInFlight /\ SelectionHeld

\* The stream the arbiter has produced includes the word it still holds.
Merger == INSTANCE PacketMerger WITH
    src   <- fromClient,
    out   <- toHost \o (IF backpressure THEN <<store>>
                      ELSE IF tx_data_valid THEN <<data>> ELSE <<>>),
    left  <- TxCount,
    owner <- IF TxCount = 0 THEN 0 ELSE IF tx_psel[1] THEN 1 ELSE 2

\* As long as the two client FIFOs were never read at the same edge, every
\* step of the arbiter is a step of the merger: packets are never mixed, and
\* no word is lost when the host FIFO fills in the middle of a packet.
MergesUntilCollision == [][~collided' => Merger!Next]_txVars
=============================================================================
