---------------------------- MODULE MCFifoArbTx ----------------------------
(***************************************************************************)
(* Small instance of FifoArbTx: packets of one, two and three words, FIFOs *)
(* of two words and a host FIFO of one or two, so that it fills in the     *)
(* middle of packets.                                                      *)
(***************************************************************************)
EXTENDS FifoArbTx

MCCode == {0, 1, 2}
MCTag == {0}
=============================================================================
