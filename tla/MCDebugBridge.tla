--------------------------- MODULE MCDebugBridge ----------------------------
(***************************************************************************)
(* Small instance of DebugBridge: words in the same and in different       *)
(* banks of 16 bytes, and a byte at the address of a word.  The last bank  *)
(* of the address space is not accessed.                                   *)
(***************************************************************************)
EXTENDS DebugBridge

Transfer(write, size, a, d) == [write |-> write, size |-> size, addr |-> a, data |-> d]

MCTransfers ==
    { Transfer(FALSE, 2, 4, 0), Transfer(TRUE, 2, 12, 1), Transfer(TRUE, 0, 4, 1),
      Transfer(TRUE, 2, 16, 1) }
=============================================================================
