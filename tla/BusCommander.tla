---------------------------- MODULE BusCommander ----------------------------
(***************************************************************************)
(* What the bridge from the host link to the bus promises.  The host sends *)
(* commands; they are carried out one at a time in the order they were     *)
(* sent; each one is one bus transfer, at its own address or at the one    *)
(* after the last transfer's, and each is answered by exactly one packet,  *)
(* which carries the data read or tells success from failure.              *)
(*                                                                         *)
(* Bytes are digits base B (256 in the hardware), addresses have four of   *)
(* them.  Payload and answers are sent most significant byte first.        *)
(***************************************************************************)
EXTENDS Integers, Sequences

CONSTANTS
    B,          \* values of a byte
    Commands    \* the commands the host sends

\* A command: [write, auto : BOOLEAN, size : 0..2, addr, data].

VARIABLES
    todo,    \* commands sent and not completed
    issued,  \* the address phase of the first of them has started
    last,    \* address of the transfer issued last
    bus,     \* the transfer completed last, as the bus carried it
    reply    \* bytes of answers the host has not read

vars == <<todo, issued, last, bus, reply>>

AddrSpace == B * B * B * B
Power == <<1, B, B * B, B * B * B, AddrSpace>>   \* B^n is Power[n + 1]

Target(c) == IF c.auto THEN (last + 2^c.size) % AddrSpace ELSE c.addr

\* Header and data bytes of an answer.
Status(err) == [cnt |-> 0, err |-> err]
CountOf == <<1, 2, 3>>
ReadHeader(size) == [cnt |-> CountOf[size + 1], err |-> FALSE]
DataBytes(v, size) ==
    LET n == 2^size IN [k \in 1..n |-> [data |-> (v \div Power[n - k + 1]) % B]]

Answer(c, v, err) ==
    IF err \/ c.write THEN <<Status(err)>>
    ELSE <<ReadHeader(c.size)>> \o DataBytes(v, c.size)

Init ==
    /\ todo = <<>>
    /\ issued = FALSE
    /\ last = 0
    /\ bus = <<>>
    /\ reply = <<>>

\* The host sends a command, and reads a byte of the answers.
Send(cs) == todo' = todo \o cs
Read(read, bytes) == reply' = (IF read THEN Tail(reply) ELSE reply) \o bytes

Issue(cs, read) ==
    /\ todo # <<>>
    /\ ~issued
    /\ issued' = TRUE
    /\ last' = Target(Head(todo))
    /\ Send(cs) /\ Read(read, <<>>)
    /\ UNCHANGED bus

\* The transfer ends with an error or, when it is a read, with a value v.
Complete(cs, read, v, err) ==
    LET c == Head(todo) IN
    /\ issued
    /\ issued' = FALSE
    /\ todo' = Tail(todo) \o cs
    /\ bus' = [write |-> c.write, addr |-> last, size |-> c.size,
               data |-> IF c.write THEN c.data ELSE v, err |-> err]
    /\ Read(read, Answer(c, v, err))
    /\ UNCHANGED last

Idle(cs, read) ==
    /\ Send(cs) /\ Read(read, <<>>)
    /\ UNCHANGED <<issued, last, bus>>

\* The values a transfer of the command in progress can read.
Values == IF todo = <<>> THEN {} ELSE 0..(Power[2^Head(todo).size + 1] - 1)

Next ==
    \E cs \in {<<>>} \cup {<<c>> : c \in Commands}, read \in BOOLEAN :
        /\ read => reply # <<>>
        /\ \/ Issue(cs, read)
           \/ Idle(cs, read)
           \/ \E v \in Values, err \in BOOLEAN : Complete(cs, read, v, err)

Spec == Init /\ [][Next]_vars
=============================================================================
