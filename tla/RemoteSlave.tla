---------------------------- MODULE RemoteSlave -----------------------------
(***************************************************************************)
(* What the bus slave answered by the host promises: each transfer is sent *)
(* to the host as one packet, and completes with the status and the data   *)
(* the host answered to that very packet, and not before.  When disabled,  *)
(* transfers fail and the host hears nothing of them.                      *)
(*                                                                         *)
(* Bytes are digits base B, most significant first; packets have the form  *)
(* of the commands the host sends to the bus master.                       *)
(***************************************************************************)
EXTENDS Integers, Sequences

CONSTANTS
    B,           \* values of a byte
    Transfers,   \* [write : BOOLEAN, size : 0..2, addr, data], aligned
    AnswerData   \* the words (four bytes) the host answers to reads

VARIABLES
    EN,        \* transfers are sent to the host
    bus,       \* the transfer in its data phase, <<>> or <<t>>
    wire,      \* bytes of the request the host has not read
    answer,    \* the host's answer, <<>> or <<[err, data]>>
    result     \* the last transfer as its master saw it end

vars == <<EN, bus, wire, answer, result>>

Digits(v, n) == [k \in 1..n |-> (v \div B^(n - k)) % B]

\* Count fields: 4 address bytes, and 1, 2 or 4 bytes to write.
Request(t) ==
    LET p == Digits(t.addr, 4) \o (IF t.write THEN Digits(t.data, 2^t.size) ELSE <<>>)
        cnt == CASE Len(p) = 4 -> 3 [] Len(p) = 5 -> 4 [] Len(p) = 6 -> 5 [] Len(p) = 8 -> 6
    IN  <<[cnt |-> cnt, write |-> t.write, size |-> t.size]>>
          \o [k \in 1..Len(p) |-> [data |-> p[k]]]

Answers(t) ==
    [err : BOOLEAN, data : {SubSeq(w, 1, IF t.write THEN 0 ELSE 2^t.size) : w \in AnswerData}]

Outcome(t, err, data) ==
    [write |-> t.write, addr |-> t.addr, err |-> err,
     data |-> IF err THEN <<>> ELSE data]

Init == EN = TRUE /\ bus = <<>> /\ wire = <<>> /\ answer = <<>> /\ result = <<>>

\* The data phase of the next transfer, if there is one, starts.
Turn(next) ==
    /\ bus' = next
    /\ wire' = IF next = <<>> \/ ~EN THEN <<>> ELSE Request(next[1])
    /\ UNCHANGED EN

Start(next) ==
    /\ bus = <<>>
    /\ Turn(next)
    /\ UNCHANGED <<answer, result>>

Complete(next) ==
    /\ bus # <<>> /\ EN /\ answer # <<>>
    /\ result' = Outcome(bus[1], answer[1].err, answer[1].data)
    /\ answer' = <<>>
    /\ Turn(next)

Refuse(next) ==
    /\ bus # <<>> /\ ~EN
    /\ result' = Outcome(bus[1], TRUE, <<>>)
    /\ Turn(next)
    /\ UNCHANGED answer

HostReads ==
    /\ wire # <<>>
    /\ wire' = Tail(wire)
    /\ UNCHANGED <<EN, bus, answer, result>>

HostAnswers ==
    /\ bus # <<>> /\ EN /\ wire = <<>> /\ answer = <<>>
    /\ \E a \in Answers(bus[1]) : answer' = <<a>>
    /\ UNCHANGED <<EN, bus, wire, result>>

Switch ==
    /\ bus = <<>>
    /\ EN' = ~EN
    /\ UNCHANGED <<bus, wire, answer, result>>

Next ==
    \/ \E next \in {<<>>} \cup {<<t>> : t \in Transfers} :
         Start(next) \/ Complete(next) \/ Refuse(next)
    \/ HostReads \/ HostAnswers \/ Switch

Spec == Init /\ [][Next]_vars
=============================================================================
