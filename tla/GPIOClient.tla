----------------------------- MODULE GPIOClient -----------------------------
(***************************************************************************)
(* GPIOClient.cpp: another simulation whose outputs are inputs of this     *)
(* one, and the reverse.  It sends its outputs when they differ from those *)
(* sent last, with a flush, and reads commands as they come.               *)
(***************************************************************************)
EXTENDS GPIOServer

VARIABLES
    c_pins,             \* outputs of the client's simulation
    c_output, c_init,   \* outputs as last sent; were they ever?
    c_input,            \* inputs of the client's simulation
    snaps               \* history: the outputs sent, in order

gpioClientVars == <<c_pins, c_output, c_init, c_input, snaps>>

StartGpio ==
    /\ Connect
    /\ UNCHANGED gpioClientVars

\* The end of its simulation.
StopGpio ==
    /\ Close(TRUE)
    /\ UNCHANGED gpioClientVars

SendOutputs ==
    /\ c_init => c_pins /= c_output
    /\ Send(Append(Changes(IF c_init THEN c_output ELSE Word \ c_pins, c_pins, Inputs), FlushCommand))
    /\ c_output' = c_pins
    /\ c_init' = TRUE
    /\ snaps' = Append(snaps, c_pins)
    /\ UNCHANGED <<c_pins, c_input>>

ReadCommand ==
    /\ c_init
    /\ Receive
    /\ c_input' = Apply(c_input, Head(outbound), Outputs)
    /\ UNCHANGED <<c_pins, c_output, c_init, snaps>>

=============================================================================
