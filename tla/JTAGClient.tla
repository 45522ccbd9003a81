----------------------------- MODULE JTAGClient -----------------------------
(***************************************************************************)
(* JTAGClient.cpp: another simulation that drives the pins of this one     *)
(* over the connection.  Its doJTAGClient writes the pins, asks for the    *)
(* target's answer, and waits for it.                                      *)
(***************************************************************************)
EXTENDS JTAGServer

VARIABLES
    call,               \* where doJTAGClient is, "idle" between calls
    wrote               \* the pins it wrote

clientVars == <<call, wrote>>

\* Start, which fails unless the server listens.
StartClient ==
    /\ Connect
    /\ UNCHANGED clientVars

WritePins(p) ==
    /\ call = "idle"
    /\ Send(<<SetPins(p)>>)
    /\ call' = "query"
    /\ wrote' = p

WriteQuery ==
    /\ call = "query"
    /\ Send(<<Query>>)
    /\ call' = "read"
    /\ UNCHANGED wrote

ReadAnswer ==
    /\ call = "read"
    /\ Receive
    /\ call' = "idle"
    /\ UNCHANGED wrote

\* A write or a read fails when the other end is gone: exit (-1).
Fails ==
    /\ call \in {"idle", "query", "read"}
    /\ ~Alive
    /\ call' = "failed"
    /\ UNCHANGED <<serverVars, wrote>>

\* Stop, between two calls; or the process is killed in one.
Stop ==
    /\ Close(call = "read")
    /\ call' = "idle"
    /\ UNCHANGED wrote

\* The answer is the target's to the pins this call wrote.
InStep == call = "read" /\ outbound /= <<>> => Head(outbound) = wrote

=============================================================================
