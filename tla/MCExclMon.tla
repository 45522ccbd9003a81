----------------------------- MODULE MCExclMon -----------------------------
(***************************************************************************)
(* Small instance of ExclMon: two addresses, and a delay short enough that *)
(* reservations expire.                                                    *)
(***************************************************************************)
EXTENDS ExclMon
=============================================================================
