----------------------------- MODULE HostSlave ------------------------------
(***************************************************************************)
(* ahb3lite_host_slave: a bus slave whose transfers the host answers.  A   *)
(* transfer is sent to the host as a packet and the bus waits, HREADYOUT   *)
(* low, until the host's answer has arrived byte by byte.                  *)
(*                                                                         *)
(* Clock is an edge of the bus clock; the host reads and answers between   *)
(* edges.  The bus is external: `bus' is the transfer in its data phase    *)
(* here; while there is none another slave may hold HREADY low.  The host  *)
(* is external too: it answers a whole packet by a status byte, whose bit  *)
(* 0 is the error, and as many data bytes as were asked for, on an error   *)
(* as well, since the slave counts on them.                                *)
(***************************************************************************)
EXTENDS Integers, Sequences

CONSTANTS
    B,           \* values of a byte, an even number
    Transfers,   \* [write : BOOLEAN, size : 0..2, addr, data], aligned
    AnswerData,  \* the words (four bytes) the host answers to reads
    Depth        \* bytes the FIFO to the host holds

ASSUME BAssumption == B \in Nat /\ B > 1 /\ B % 2 = 0
ASSUME DepthAssumption == Depth \in Nat \ {0}
ASSUME TransfersAssumption ==
    Transfers \subseteq [write : BOOLEAN, size : 0..2, addr : Nat, data : Nat]
ASSUME AnswerAssumption == AnswerData \subseteq [1..4 -> 0..(B - 1)]

VARIABLES
    EN, bus, result,          \* enable, data phase, last transfer's end
    fifo, heard, answer,      \* FIFO to the host; packet read; answer
    lost,                     \* history: a byte was written to a full FIFO
    input, RDDATA, dvalid,    \* answer bytes on the way; FIFO read data
    WREN, WRDATA, dato, ocnt, \* request: registered byte, bytes behind it
    icnt, dati,               \* answer: bytes to come, bytes so far
    state, req,               \* state machine, transfer (size, write, addr)
    slv_HREADYOUT, slv_HRESP, slv_HRDATA,
    dslv_HREADYOUT, dslv_HRESP, active   \* the default slave

world == <<EN, bus, result, answer, heard, lost>>
link == <<fifo, input, RDDATA, dvalid>>
outgoing == <<WREN, WRDATA, dato, ocnt>>
slv == <<slv_HREADYOUT, slv_HRESP, slv_HRDATA>>
dslv == <<dslv_HREADYOUT, dslv_HRESP, active>>
vars == <<world, link, outgoing, icnt, dati, state, req, slv, dslv>>

Byte == 0..(B - 1)
Zero == [data |-> 0]

Default == INSTANCE DefaultSlave WITH HREADYOUT <- dslv_HREADYOUT, HRESP <- dslv_HRESP

Init ==
    /\ EN = TRUE /\ bus = <<>> /\ result = <<>>
    /\ fifo = <<>> /\ heard = <<>> /\ answer = <<>> /\ lost = FALSE
    /\ input = <<>> /\ RDDATA = 0 /\ dvalid = FALSE
    /\ WREN = FALSE /\ WRDATA = Zero /\ dato = [k \in 1..9 |-> Zero] /\ ocnt = 0
    /\ icnt = 0 /\ dati = [k \in 1..5 |-> 0]
    /\ state = "IDLE" /\ req = [write |-> FALSE, size |-> 0, addr |-> 0]
    /\ slv_HREADYOUT = TRUE /\ slv_HRESP = FALSE /\ slv_HRDATA = [k \in 1..4 |-> 0]
    /\ Default!Init

HREADYOUT == IF EN THEN slv_HREADYOUT ELSE dslv_HREADYOUT
HRESP == IF EN THEN slv_HRESP ELSE dslv_HRESP
WRFULL == Len(fifo) = Depth

\* A byte of the answer is fetched if it has arrived and one is expected.
RDEN(arrived) == arrived /\ icnt # 0

\* Mutant of err: the bit is looked for in the byte that came last.
errLast == dati[5] % 2 = 1

\* The answer's error bit lies as far back as data bytes follow it.
err == dati[IF req.write THEN 5 ELSE 5 - 2^req.size] % 2 = 1

-----------------------------------------------------------------------------
(* Packets.                                                                *)

Digits(v, n) == [k \in 1..n |-> (v \div B^(n - k)) % B]

\* Count field, write and size: 4 address bytes and 0, 1, 2 or 4 to write.
Header(t) ==
    [cnt |-> IF ~t.write THEN 3 ELSE <<4, 5, 6>>[t.size + 1],
     write |-> t.write, size |-> t.size]

Packet(t, data) ==
    LET p == Digits(t.addr, 4) \o data
    IN  <<Header(t)>> \o [k \in 1..Len(p) |-> [data |-> p[k]]]

PacketLen(h) == 5 + (IF h.write THEN 2^h.size ELSE 0)

\* The lanes of a word (least significant first) that t uses, most
\* significant first.
Lane(w, t) ==
    LET n == 2^t.size
        low == (t.addr % 4) - (t.addr % n)
    IN  [k \in 1..n |-> w[low + n - k + 1]]

\* HWDATA in the data phase of t; the lanes t does not use hold junk.
HWDATA(t, junk) ==
    LET n == 2^t.size
        low == (t.addr % 4) - (t.addr % n)
        ds == Digits(t.data, n)
    IN  [k \in 1..4 |-> IF k \in (low + 1)..(low + n) THEN ds[low + n - k + 1] ELSE junk]

-----------------------------------------------------------------------------
(* Outgoing bytes: the next one is registered when the FIFO is not full;   *)
(* the FIFO takes it an edge later.                                        *)

puts == ocnt # 0 /\ ~WRFULL

Shifted == IF puts THEN Append(Tail(dato), Zero) ELSE dato

PutByte ==
    /\ WREN' = puts
    /\ WRDATA' = IF puts THEN dato[1] ELSE WRDATA

Load(p) ==
    /\ dato' = p \o SubSeq(Shifted, Len(p) + 1, 9)
    /\ ocnt' = Len(p)

Keep ==
    /\ dato' = Shifted
    /\ ocnt' = IF puts THEN ocnt - 1 ELSE ocnt

-----------------------------------------------------------------------------
(* The state machine.  ap is the address phase on the bus for this slave,  *)
(* <<>> or <<t>>, ready its HREADY.                                        *)

\* Mutant of Expected: two data bytes are counted as one.
ExpectedShort(t) == IF t.size = 2 THEN 5 ELSE 2
Expected(t) == <<2, 3, 5>>[t.size + 1]

Idle(ap, ready) ==
    /\ state = "IDLE"
    /\ ~(ap # <<>> /\ ready)
    /\ slv_HRESP' = FALSE
    /\ Keep
    /\ UNCHANGED <<state, req, icnt, dati, slv_HREADYOUT, slv_HRDATA>>

Take(ap, ready) ==
    /\ state = "IDLE" /\ ap # <<>> /\ ready
    /\ slv_HRESP' = FALSE /\ slv_HREADYOUT' = FALSE
    /\ req' = [write |-> ap[1].write, size |-> ap[1].size, addr |-> ap[1].addr]
    /\ IF ap[1].write
       THEN /\ state' = "WAITDATA"
            /\ Keep
            /\ UNCHANGED icnt
       ELSE /\ Load(Packet(ap[1], <<>>))
            /\ icnt' = Expected(ap[1])
            /\ state' = "WAITRESP"
    /\ UNCHANGED <<dati, slv_HRDATA>>

WaitData(hwdata) ==
    /\ state = "WAITDATA"
    /\ Load(Packet(req, Lane(hwdata, req)))
    /\ state' = "WAITRESP"
    /\ icnt' = 1
    /\ UNCHANGED <<req, dati, slv>>

\* Mutant of WaitResp: one byte more is waited for.
WaitRespLate ==
    /\ state = "WAITRESP"
    /\ IF dvalid
       THEN /\ dati' = Append(Tail(dati), RDDATA)
            /\ state' = IF icnt = 0 THEN "AHBRESP" ELSE state
            /\ icnt' = IF icnt # 0 THEN icnt - 1 ELSE icnt
       ELSE UNCHANGED <<dati, state, icnt>>
    /\ Keep
    /\ UNCHANGED <<req, slv>>

WaitResp ==
    /\ state = "WAITRESP"
    /\ IF dvalid
       THEN /\ dati' = Append(Tail(dati), RDDATA)
            /\ state' = IF icnt = 1 THEN "AHBRESP" ELSE state
            /\ icnt' = IF icnt # 0 THEN icnt - 1 ELSE icnt
       ELSE UNCHANGED <<dati, state, icnt>>
    /\ Keep
    /\ UNCHANGED <<req, slv>>

\* Read data is replicated across the byte lanes.
Replicated == [k \in 1..4 |-> dati[5 - ((k - 1) % 2^req.size)]]

\* Mutant of AhbResp: an error does not take an extra cycle.
AhbRespReady ==
    /\ state = "AHBRESP"
    /\ slv_HRDATA' = IF req.write THEN slv_HRDATA ELSE Replicated
    /\ slv_HRESP' = err /\ slv_HREADYOUT' = TRUE
    /\ state' = "IDLE"
    /\ Keep
    /\ UNCHANGED <<req, icnt, dati>>

AhbResp ==
    /\ state = "AHBRESP"
    /\ \/ /\ err
          /\ slv_HRESP' = TRUE
          /\ state' = "ERRDELAY"
          /\ UNCHANGED <<slv_HREADYOUT, slv_HRDATA>>
       \/ /\ ~err
          /\ slv_HRDATA' = IF req.write THEN slv_HRDATA ELSE Replicated
          /\ slv_HRESP' = FALSE /\ slv_HREADYOUT' = TRUE
          /\ state' = "IDLE"
    /\ Keep
    /\ UNCHANGED <<req, icnt, dati>>

ErrDelay ==
    /\ state = "ERRDELAY"
    /\ slv_HREADYOUT' = TRUE
    /\ state' = "IDLE"
    /\ Keep
    /\ UNCHANGED <<req, icnt, dati, slv_HRESP, slv_HRDATA>>

-----------------------------------------------------------------------------
(* The bus clock, and the host.                                            *)

Ready(other) == IF bus = <<>> THEN other ELSE HREADYOUT

\* The bus moves on when HREADY is high; a master sees its transfer end.
Bus(ap, other) ==
    /\ bus' = IF Ready(other) THEN ap ELSE bus
    /\ result' = IF bus = <<>> \/ ~HREADYOUT THEN result
                 ELSE [write |-> bus[1].write, addr |-> bus[1].addr, err |-> HRESP,
                       data |-> IF bus[1].write \/ HRESP THEN <<>>
                                ELSE Lane(slv_HRDATA, bus[1])]
    /\ answer' = IF bus = <<>> \/ ~HREADYOUT THEN answer ELSE <<>>

Fifos(arrived) ==
    /\ arrived => input # <<>>
    /\ RDDATA' = IF RDEN(arrived) THEN Head(input) ELSE RDDATA
    /\ input' = IF RDEN(arrived) THEN Tail(input) ELSE input
    /\ fifo' = IF WREN /\ ~WRFULL THEN Append(fifo, WRDATA) ELSE fifo
    /\ lost' = (lost \/ (WREN /\ WRFULL))

Clock(ap, other, arrived) ==
    /\ EN
    /\ Bus(ap, other) /\ Fifos(arrived)
    /\ dvalid' = RDEN(arrived)
    /\ PutByte
    /\ \/ Idle(ap, Ready(other)) \/ Take(ap, Ready(other))
       \/ \E junk \in Byte : bus # <<>> /\ WaitData(HWDATA(bus[1], junk))
       \/ WaitResp \/ AhbResp \/ ErrDelay
    /\ Default!Clock(FALSE)
    /\ UNCHANGED <<EN, heard>>

\* With EN low the default slave answers and the registers stand still.
ClockDisabled(ap, other) ==
    /\ ~EN
    /\ Bus(ap, other) /\ Fifos(FALSE)
    /\ Default!Clock(ap # <<>> /\ Ready(other))
    /\ UNCHANGED <<EN, heard, dvalid, outgoing, icnt, dati, state, req, slv>>

\* EN changes only between transfers: the code freezes in the middle of one.
Switch ==
    /\ bus = <<>>
    /\ EN' = ~EN
    /\ UNCHANGED <<bus, result, answer, heard, lost, link, outgoing, icnt, dati,
                   state, req, slv, dslv>>

HostReads ==
    /\ fifo # <<>>
    /\ heard' = Append(heard, Head(fifo))
    /\ fifo' = Tail(fifo)
    /\ UNCHANGED <<EN, bus, result, answer, lost, input, RDDATA, dvalid, outgoing,
                   icnt, dati, state, req, slv, dslv>>

HostAnswers(e, w) ==
    /\ heard # <<>> /\ Len(heard) = PacketLen(heard[1])
    /\ LET data == SubSeq(w, 1, IF heard[1].write THEN 0 ELSE 2^heard[1].size)
       IN  /\ answer' = <<[err |-> e, data |-> data]>>
           /\ input' = <<IF e THEN 1 ELSE 0>> \o data
    /\ heard' = <<>>
    /\ UNCHANGED <<EN, bus, result, lost, fifo, RDDATA, dvalid, outgoing,
                   icnt, dati, state, req, slv, dslv>>

Offers == {<<>>} \cup {<<t>> : t \in Transfers}

Edge(arrived) ==
    \E ap \in Offers, other \in BOOLEAN :
        Clock(ap, other, arrived) \/ (~arrived /\ ClockDisabled(ap, other))

Answering == \E e \in BOOLEAN, w \in AnswerData : HostAnswers(e, w)

Next == (\E arrived \in BOOLEAN : Edge(arrived)) \/ Switch \/ HostReads \/ Answering

Spec == Init /\ [][Next]_vars

\* The clock ticks, and an answer arrives; the host reads and answers.
FairSpec ==
    /\ Spec
    /\ WF_vars(\E arrived \in BOOLEAN : Edge(arrived))
    /\ WF_vars(icnt # 0 /\ Edge(TRUE))
    /\ WF_vars(HostReads) /\ WF_vars(Answering)

-----------------------------------------------------------------------------
(* Properties.                                                             *)

\* The request as the host has yet to read it.
Remote == INSTANCE RemoteSlave WITH
    wire <- IF EN /\ state = "WAITDATA"
            THEN Packet(bus[1], Digits(bus[1].data, 2^bus[1].size))
            ELSE fifo \o (IF WREN THEN <<WRDATA>> ELSE <<>>) \o SubSeq(dato, 1, ocnt)

Item == [data : Byte] \cup [cnt : 3..6, write : BOOLEAN, size : 0..2]

TypeOK ==
    /\ bus \in Offers
    /\ heard \in Seq(Item) /\ fifo \in Seq(Item) /\ Len(fifo) <= Depth
    /\ WRDATA \in Item /\ dato \in Seq(Item) /\ Len(dato) = 9 /\ ocnt \in 0..9
    /\ input \in Seq(Byte) /\ Len(input) <= 5 /\ RDDATA \in Byte
    /\ icnt \in 0..5 /\ dati \in [1..5 -> Byte]
    /\ state \in {"IDLE", "WAITDATA", "WAITRESP", "AHBRESP", "ERRDELAY"}
    /\ req \in [write : BOOLEAN, size : 0..2, addr : Nat]
    /\ {WREN, dvalid, lost, EN, active} \subseteq BOOLEAN
    /\ {slv_HREADYOUT, slv_HRESP, dslv_HREADYOUT, dslv_HRESP} \subseteq BOOLEAN
    /\ slv_HRDATA \in [1..4 -> Byte]

\* Reading is decided from a count that trails by a cycle (RDEN, line 79):
\* no byte is nevertheless fetched that the state machine does not take in.
NoOverRead == dvalid => state = "WAITRESP" /\ icnt # 0

\* What the bytes of an answer to t are, and how many.
Awaited(t) == IF t.write THEN 1 ELSE 1 + 2^t.size
Bytes(a) == <<IF a.err THEN 1 ELSE 0>> \o a.data

\* The bytes on the way to the host, and those on the way from it behind the
\* last five taken in.
Outgoing == fifo \o (IF WREN THEN <<WRDATA>> ELSE <<>>) \o SubSeq(dato, 1, ocnt)
Incoming == dati \o (IF dvalid THEN <<RDDATA>> ELSE <<>>) \o input

\* The state machine leaves IDLE for a transfer in its data phase only, holds
\* HREADYOUT low until it is back, and expects bytes in WAITRESP only.
Phases ==
    /\ slv_HREADYOUT <=> state = "IDLE"
    /\ state # "IDLE" =>
         /\ EN /\ bus # <<>>
         /\ req = [write |-> bus[1].write, size |-> bus[1].size, addr |-> bus[1].addr]
    /\ state = "WAITDATA" => bus[1].write
    /\ icnt # 0 <=> state = "WAITRESP"
    /\ state # "WAITRESP" => input = <<>> /\ ~dvalid

\* Until the host answers, it can hear no more than one request, whose header
\* is never lost; but for that nothing is on the way to it.
Asked ==
    IF state = "WAITRESP" /\ answer = <<>>
    THEN /\ heard \o Outgoing # <<>>
         /\ (heard \o Outgoing)[1] = Header(bus[1])
         /\ Len(heard \o Outgoing) <= PacketLen(Header(bus[1]))
         /\ input = <<>> /\ ~dvalid /\ icnt = Awaited(bus[1])
    ELSE heard = <<>> /\ fifo = <<>> /\ ~WREN /\ ocnt = 0

\* The bytes still to come and the last ones taken in are the host's answer,
\* and what the bus is given is made of them.
Heeded ==
    /\ bus = <<>> \/ ~EN \/ state = "WAITDATA" => answer = <<>>
    /\ EN /\ bus # <<>> /\ state \in {"IDLE", "AHBRESP", "ERRDELAY"} => answer # <<>>
    /\ answer # <<>> =>
         LET a == answer[1]
             n == Awaited(bus[1])
         IN  /\ answer = <<a>> /\ a \in Remote!Answers(bus[1])
             /\ state \in {"WAITRESP", "AHBRESP"} =>
                  /\ icnt <= n /\ Len(Incoming) = 5 + icnt
                  /\ \A k \in 1..n : Incoming[5 + icnt - n + k] = Bytes(a)[k]
             /\ state = "ERRDELAY" => a.err
             /\ state \in {"IDLE", "ERRDELAY"} => slv_HRESP = a.err
             /\ state = "IDLE" /\ ~bus[1].write /\ ~a.err => Lane(slv_HRDATA, bus[1]) = a.data

\* The default slave is at work while a transfer is in its data phase with EN
\* low, and shows an error before it lets it end.
Refused ==
    /\ active <=> bus # <<>> /\ ~EN
    /\ ~active => dslv_HREADYOUT /\ ~dslv_HRESP
    /\ active /\ dslv_HREADYOUT => dslv_HRESP

\* All together: each byte of an answer is fetched for the state that takes it,
\* no more are than the answer has, and the bus gets the answer to its request.
Inv == TypeOK /\ NoOverRead /\ Phases /\ Asked /\ Heeded /\ Refused

\* An ERROR takes two cycles on AHB3-Lite: a transfer never ends with one
\* that was not shown a cycle earlier with HREADYOUT low, whichever of the
\* two slaves answers, and also when transfers follow each other directly.
TwoCycleError ==
    [][(bus' # <<>> /\ HREADYOUT' /\ HRESP') =>
         \/ bus # <<>> /\ HRESP /\ ~HREADYOUT
         \/ UNCHANGED <<bus, HREADYOUT, HRESP>>]_vars

\* As long as no byte was written to a full FIFO, every transfer is sent to
\* the host as it stands on the bus and ends with what the host answered.
AnswersUntilLoss == [][~lost' => Remote!Next \/ UNCHANGED Remote!vars]_vars

\* A transfer ends, if the host answers and no byte was lost.
Ends == (bus # <<>> /\ ~HREADYOUT) ~> (HREADYOUT \/ lost)
=============================================================================
