---------------------------- MODULE MCHostMaster ----------------------------
(***************************************************************************)
(* Small instance of HostMaster: bytes of two values and hence 16          *)
(* addresses; reads and writes, with and without an address, of several    *)
(* sizes and lanes, and addresses at the end of the address space so that  *)
(* autoincrement wraps.  Two commands wait, one behind the other.          *)
(***************************************************************************)
EXTENDS HostMaster

Cmd(write, auto, size, a, d) ==
    [write |-> write, auto |-> auto, size |-> size, addr |-> a, data |-> d]

MCCommands ==
    { Cmd(FALSE, FALSE, 0, 14, 0), Cmd(FALSE, TRUE, 1, 0, 0),
      Cmd(TRUE, FALSE, 1, 6, 2), Cmd(TRUE, TRUE, 1, 0, 1) }

\* Each lane of the word differs from its neighbour.
MCReadData == { <<0, 1, 1, 0>> }
=============================================================================
