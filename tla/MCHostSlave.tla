---------------------------- MODULE MCHostSlave -----------------------------
(***************************************************************************)
(* Small instance of HostSlave: bytes of two values, reads of each size    *)
(* and writes of two, at addresses that use different lanes, and a FIFO    *)
(* to the host shorter than any request.                                   *)
(***************************************************************************)
EXTENDS HostSlave

Transfer(write, size, a, d) == [write |-> write, size |-> size, addr |-> a, data |-> d]

MCTransfers ==
    { Transfer(FALSE, 0, 7, 0), Transfer(FALSE, 1, 2, 0), Transfer(FALSE, 2, 8, 0),
      Transfer(TRUE, 1, 6, 2), Transfer(TRUE, 2, 4, 5) }

\* Neighbouring bytes of an answer to a half word, and its halves, differ.
MCAnswerData == { <<1, 0, 1, 1>> }
=============================================================================
