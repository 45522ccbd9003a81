---------------------------- MODULE MCTestbench ----------------------------
(***************************************************************************)
(* Small instances of Testbench: two bytes of two bits each, and periods   *)
(* of two.                                                                 *)
(***************************************************************************)
EXTENDS Testbench

MCBytes == {<<0, 1>>, <<1, 0>>}
=============================================================================
