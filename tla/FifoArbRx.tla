----------------------------- MODULE FifoArbRx -----------------------------
(***************************************************************************)
(* fifo_arb_rx: the receive half of the host FIFO arbiter.  It reads words *)
(* from the host FIFO and writes each into the FIFO of one of two clients. *)
(* A step of the model is a clock edge: the registers take the values the  *)
(* wires have before it, the host may write a word and each client may     *)
(* read one at the same edge.  Of the names that both halves use those of  *)
(* this one begin with rx, and those of FifoArbTx with tx.                 *)
(***************************************************************************)
EXTENDS HostFifoPkg

VARIABLES
    fromHost,       \* the words in the host FIFO
    fifo_rddata,    \* its registered read data
    toClient,       \* toClient[i]: the words in the FIFO of client i
    rx_data_valid,  \* fifo_rddata was read at the last edge
    rx_dcnt,        \* payload words of the open packet still to be written
    pcmd, rx_psel   \* command word and selection, saved from the last cycle

rxArbiter == <<rx_data_valid, rx_dcnt, pcmd, rx_psel>>
rxVars == <<fromHost, fifo_rddata, toClient, rxArbiter>>

RxInit ==
    /\ fromHost = <<>>
    /\ fifo_rddata \in Word
    /\ toClient = [i \in Client |-> <<>>]
    /\ rx_data_valid = FALSE
    /\ rx_dcnt = 0
    /\ pcmd = [sel |-> FALSE, cnt |-> 0, tag |-> 0]
    /\ rx_psel = FALSE

-----------------------------------------------------------------------------
(* The wires.                                                              *)

rx_wrfull(i) == Len(toClient[i]) = Depth

cmd == IF rx_dcnt = 0 /\ rx_data_valid THEN fifo_rddata ELSE pcmd

\* Mutant of rx_sel: the payload is routed by its own bits.
selByWord == IF rx_data_valid THEN fifo_rddata.sel ELSE rx_psel
rx_sel == IF rx_dcnt # 0 THEN rx_psel ELSE cmd.sel

\* Mutant of wren: the write enable does not wait for data.
wrenAlways(i) == rx_sel = (i = 1) /\ ~rx_wrfull(i)
wren(i) == rx_data_valid /\ rx_sel = (i = 1) /\ ~rx_wrfull(i)

\* Mutants of fifo_rden: a new word is read while the last one is written;
\* words are only read between packets.
fifo_rdenPipelined == fromHost # <<>> /\ \A i \in Client : ~rx_wrfull(i)
fifo_rdenBetween ==
    fromHost # <<>> /\ rx_dcnt = 0 /\ \A i \in Client : ~rx_wrfull(i) /\ ~wren(i)
fifo_rden == fromHost # <<>> /\ \A i \in Client : ~rx_wrfull(i) /\ ~wren(i)

-----------------------------------------------------------------------------
(* The clock edge.                                                         *)

RxCount ==
    IF ~rx_data_valid THEN rx_dcnt
    ELSE IF rx_dcnt = 0 THEN fifo_payload[cmd.cnt] ELSE rx_dcnt - 1

RxArbitrate ==
    /\ rx_data_valid' = fifo_rden
    /\ rx_dcnt' = RxCount
    /\ pcmd' = cmd
    /\ rx_psel' = rx_sel

RxClock(ws, rd) ==
    /\ Len(fromHost) + Len(ws) <= HostDepth
    /\ \A i \in rd : toClient[i] # <<>>
    /\ RxArbitrate
    /\ fromHost' = FifoNext(fromHost, fifo_rden, ws)
    /\ fifo_rddata' = IF fifo_rden THEN Head(fromHost) ELSE fifo_rddata
    /\ toClient' = [i \in Client |->
                      FifoNext(toClient[i], i \in rd,
                               IF wren(i) THEN <<fifo_rddata>> ELSE <<>>)]

RxNext == \E ws \in Offer(Word), rd \in SUBSET Client : RxClock(ws, rd)

\* The edges at which client i reads.
Read(i) ==
    \E ws \in Offer(Word), rd \in SUBSET Client : i \in rd /\ RxClock(ws, rd)

RxSpec == RxInit /\ [][RxNext]_rxVars

\* The clock never stops, and a client does not leave its FIFO unread for
\* ever.  The host may stop sending at any time.
RxFairSpec == RxSpec /\ WF_rxVars(RxNext) /\ \A i \in Client : WF_rxVars(Read(i))

-----------------------------------------------------------------------------
(* Properties.                                                             *)

RxTypeOK ==
    /\ fromHost \in Seq(Word) /\ Len(fromHost) <= HostDepth
    /\ fifo_rddata \in Word
    /\ toClient \in [Client -> Seq(Word)]
    /\ \A i \in Client : Len(toClient[i]) <= Depth
    /\ rx_data_valid \in BOOLEAN
    /\ rx_dcnt \in 0..16
    /\ pcmd \in Word
    /\ rx_psel \in BOOLEAN

\* A word taken out of the host FIFO finds room: the write enables are also
\* gated by full, and a word that arrived at a full FIFO would silently
\* disappear, since full is tested a cycle before the word is written.
NoDrop == rx_data_valid => \E i \in Client : wren(i)

\* The selection kept for the payload is the one of the last command word,
\* however long the stream pauses and whatever passes by meanwhile.
SelectionKept == rx_psel = pcmd.sel

IInv == RxTypeOK /\ SelectionKept /\ (rx_data_valid => \A i \in Client : ~rx_wrfull(i))

\* The arbiter routes packets: a word in flight between the host FIFO and a
\* client FIFO counts as not yet routed.
Router == INSTANCE PacketRouter WITH
    src  <- (IF rx_data_valid THEN <<fifo_rddata>> ELSE <<>>) \o fromHost,
    dst  <- toClient,
    left <- rx_dcnt,
    to   <- IF rx_psel THEN 1 ELSE 2

RoutesPackets == Router!Spec

\* A word waiting in the host FIFO is eventually forwarded as long as both
\* clients keep reading, though either full client FIFO blocks both.
Forwards == (fromHost # <<>>) ~> (\E i \in Client : wren(i))
=============================================================================
