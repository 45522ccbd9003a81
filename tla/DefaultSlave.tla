---------------------------- MODULE DefaultSlave ----------------------------
(***************************************************************************)
(* ahb3lite_default_slave: answers every transfer with an ERROR, held for  *)
(* a cycle without and a cycle with HREADYOUT as AHB3-Lite asks.           *)
(***************************************************************************)
VARIABLES
    active,      \* a transfer is being refused
    HREADYOUT, HRESP

vars == <<active, HREADYOUT, HRESP>>

Init == active = FALSE /\ HREADYOUT = TRUE /\ HRESP = FALSE

Refuse ==
    /\ active
    /\ \/ /\ HRESP /\ HREADYOUT
          /\ HRESP' = FALSE /\ active' = FALSE
          /\ UNCHANGED HREADYOUT
       \/ /\ HRESP /\ ~HREADYOUT
          /\ HREADYOUT' = TRUE
          /\ UNCHANGED <<active, HRESP>>
       \/ /\ ~HRESP
          /\ HRESP' = (HRESP \/ ~HREADYOUT)
          /\ UNCHANGED <<active, HREADYOUT>>

\* A clock edge; taken: an address phase for this slave ends.
Clock(taken) ==
    \/ /\ taken
       /\ HREADYOUT' = FALSE /\ active' = TRUE
       /\ UNCHANGED HRESP
    \/ ~taken /\ Refuse
    \/ ~taken /\ ~active /\ UNCHANGED vars
=============================================================================
