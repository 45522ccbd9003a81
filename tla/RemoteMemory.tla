---------------------------- MODULE RemoteMemory ----------------------------
(***************************************************************************)
(* What a transparent bridge to the bus of a remote target promises: each  *)
(* transfer is performed on the target exactly once, at its own address    *)
(* and of its own size, and ends well only then, a read with the value the *)
(* target has there.  A transfer ends with an error only when the debug    *)
(* port has reported a fault since the bridge was enabled, or while it is  *)
(* disabled.  From the fault until the bridge is enabled anew every        *)
(* transfer ends with an error; what is performed then is left open.       *)
(***************************************************************************)
EXTENDS Integers, Sequences

CONSTANTS
    Transfers,        \* [write : BOOLEAN, size : 0..2, addr, data]
    Content(_, _)     \* what the target holds at an address, for a size

VARIABLES
    ENABLE,      \* transfers are carried out
    bus,         \* the transfer in its data phase, <<>> or <<t>>
    performed,   \* accesses of the target for that transfer, until a fault
    faulted,     \* a command failed since the bridge was enabled
    result       \* the transfer just ended, as its master saw it

vars == <<ENABLE, bus, performed, faulted, result>>

Init ==
    /\ ENABLE = FALSE /\ bus = <<>> /\ performed = <<>>
    /\ faulted = FALSE /\ result = <<>>

Perform ==
    /\ bus # <<>> /\ performed = <<>>
    /\ performed' = bus
    /\ UNCHANGED <<ENABLE, bus, faulted, result>>

\* After a fault the target may perform anything.
Stray == faulted /\ UNCHANGED <<ENABLE, bus, faulted, result>>

Fail == faulted' = TRUE /\ UNCHANGED <<ENABLE, bus, performed, result>>

Start(next) ==
    /\ bus = <<>>
    /\ bus' = next /\ result' = <<>>
    /\ UNCHANGED <<ENABLE, performed, faulted>>

Seen == result' = <<>> /\ UNCHANGED <<ENABLE, bus, performed, faulted>>

Succeed(next) ==
    /\ bus # <<>> /\ performed = bus /\ ~faulted
    /\ result' = [err |-> FALSE, of |-> bus[1],
                  data |-> IF bus[1].write THEN 0 ELSE Content(bus[1].addr, bus[1].size)]
    /\ bus' = next /\ performed' = <<>>
    /\ UNCHANGED <<ENABLE, faulted>>

Refuse(next) ==
    /\ bus # <<>> /\ (faulted \/ (~ENABLE /\ performed = <<>>))
    /\ result' = [err |-> TRUE, of |-> bus[1], data |-> 0]
    /\ bus' = next /\ performed' = <<>>
    /\ UNCHANGED <<ENABLE, faulted>>

Switch ==
    /\ bus = <<>>
    /\ ENABLE' = ~ENABLE
    /\ IF ENABLE THEN UNCHANGED <<performed, faulted>>
       ELSE performed' = <<>> /\ faulted' = FALSE
    /\ UNCHANGED <<bus, result>>

Next ==
    \/ \E next \in {<<>>} \cup {<<t>> : t \in Transfers} :
         Start(next) \/ Succeed(next) \/ Refuse(next)
    \/ Seen \/ Perform \/ Stray \/ Fail \/ Switch

Spec == Init /\ [][Next]_vars
=============================================================================
