---------------------------- MODULE MCFifoArbRx ----------------------------
(***************************************************************************)
(* Small instance of FifoArbRx.  Packets of one, two and three words; the  *)
(* payload words range over all words, so that some look like commands for *)
(* the other client; FIFOs of two words, so that full FIFOs are frequent.  *)
(***************************************************************************)
EXTENDS FifoArbRx

MCCode == {0, 1, 2}
MCTag == {0}
=============================================================================
