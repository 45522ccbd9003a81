----------------------------- MODULE HostMaster -----------------------------
(***************************************************************************)
(* ahb3lite_host_master: executes host commands on the AHB3-Lite bus.  It  *)
(* reads command packets byte by byte from the host FIFO, drives one bus   *)
(* transfer for each, and writes an answer packet to the response FIFO.    *)
(*                                                                         *)
(* A step is a clock edge.  Bytes are digits base B and the address has    *)
(* four of them, so that B = 256 is the hardware.  The host FIFO is seen   *)
(* through RDEMPTY: a byte that was sent may have arrived or not.  The bus *)
(* is external: it accepts the address phase, which follows idle cycles,   *)
(* without wait states, then holds HREADY low for as long as it likes.     *)
(***************************************************************************)
EXTENDS Integers, Sequences

CONSTANTS
    B,          \* values of a byte
    Commands,   \* the commands the host sends, as in BusCommander
    ReadData,   \* the words (four byte lanes) the bus returns
    MaxTodo,    \* bound: commands sent and not completed
    RespDepth   \* bytes the response FIFO holds

ASSUME BAssumption == B \in Nat /\ B > 1
ASSUME RespAssumption == RespDepth \in Nat \ {0}

Byte == 0..(B - 1)
AddrSpace == B * B * B * B

\* B^n is Power[n + 1].
Power == <<1, B, B * B, B * B * B, AddrSpace>>

\* What is written has as many bytes as the size says, and a word has four.
ASSUME CommandsAssumption ==
    \A c \in Commands :
        /\ c \in [write : BOOLEAN, auto : BOOLEAN, size : 0..2, addr : 0..(AddrSpace - 1),
                  data : Nat]
        /\ c.write => c.data < Power[2^c.size + 1]
ASSUME ReadAssumption == ReadData \subseteq [1..4 -> Byte]

VARIABLES
    host,                 \* bytes the host sent, not read by the master
    RDDATA, dvalid,       \* registered read data, valid after a read
    cmd, icnt, dati,      \* command, payload bytes to come, payload
    state,                \* IDLE, ADDR, WAIT, DATA
    addr,                 \* address for autoincrement
    HWRITE, HTRANS, HSIZE, HADDR, HWDATA,   \* the bus, driven by registers
    WRDATA, dato, ocnt,   \* answer: next byte, the data behind it, length
    resp,                 \* bytes in the response FIFO
    todo, bus             \* history: commands not completed, last transfer

input == <<host, RDDATA, dvalid>>
regs == <<cmd, icnt, dati, state, addr>>
ahb == <<HWRITE, HTRANS, HSIZE, HADDR, HWDATA>>
output == <<WRDATA, dato, ocnt, resp>>
vars == <<input, regs, ahb, output, todo, bus>>

-----------------------------------------------------------------------------
(* The packets of the link, cmd byte ABBBCDEE: BBB count, C write, D        *)
(* autoincrement, EE size.                                                  *)

Bytes == <<0, 1, 2, 4, 5, 6, 8, 16>>   \* host_fifo_pkg: fifo_payload
fifo_payload(cnt) == Bytes[cnt + 1]

\* Value of digits, most significant first.
Value(ds) ==
    CASE Len(ds) = 1 -> ds[1]
      [] Len(ds) = 2 -> ds[1] * B + ds[2]
      [] OTHER -> ((ds[1] * B + ds[2]) * B + ds[3]) * B + ds[4]

Digits(v, n) == [k \in 1..n |-> (v \div Power[n - k + 1]) % B]

\* The packet for a command: no address with autoincrement, no data to read.
Payload(c) ==
    (IF c.auto THEN <<>> ELSE Digits(c.addr, 4))
      \o (IF c.write THEN Digits(c.data, 2^c.size) ELSE <<>>)

Packet(c) ==
    LET p == Payload(c)
        cnt == CHOOSE n \in 0..7 : fifo_payload(n) = Len(p)
    IN  <<[cnt |-> cnt, write |-> c.write, auto |-> c.auto, size |-> c.size]>>
          \o [k \in 1..Len(p) |-> [data |-> p[k]]]

NoCmd == [cnt |-> 0, write |-> FALSE, auto |-> FALSE, size |-> 0]

Init ==
    /\ host = <<>> /\ RDDATA = NoCmd /\ dvalid = FALSE
    /\ cmd = NoCmd /\ icnt = 0 /\ dati = [k \in 1..8 |-> 0]
    /\ state = "IDLE" /\ addr = 0
    /\ HWRITE = FALSE /\ HTRANS = "IDLE" /\ HSIZE = 0 /\ HADDR = 0
    /\ HWDATA = [k \in 1..4 |-> 0]
    /\ WRDATA = [data |-> 0] /\ dato = [k \in 1..4 |-> 0] /\ ocnt = 0
    /\ resp = <<>>
    /\ todo = <<>> /\ bus = <<>>

-----------------------------------------------------------------------------
(* The wires.                                                              *)

WRFULL == Len(resp) = RespDepth

\* Mutant of busy: the last payload byte does not keep the next one out.
busyLate == state # "IDLE"
busy == state # "IDLE" \/ (icnt <= 1 /\ dvalid)

WREN == ocnt # 0 /\ ~WRFULL

\* Mutant of block: a waiting answer does not keep commands out.
blockNever == FALSE
block == WRFULL \/ (WREN /\ ocnt # 0)

\* arrived: the next byte is in the host FIFO.
RDEN(arrived) == arrived /\ ~busy /\ ~block

-----------------------------------------------------------------------------
(* The state machine.                                                      *)

\* Mutant of Collect: a command without payload is not executed at once.
CollectAll ==
    /\ state = "IDLE" /\ dvalid
    /\ IF icnt = 0
       THEN /\ cmd' = RDDATA
            /\ icnt' = fifo_payload(RDDATA.cnt)
            /\ UNCHANGED <<dati, state>>
       ELSE /\ dati' = Append(Tail(dati), RDDATA.data)
            /\ icnt' = icnt - 1
            /\ state' = IF icnt = 1 THEN "ADDR" ELSE "IDLE"
            /\ UNCHANGED cmd
    /\ UNCHANGED <<addr, ahb, bus>>

\* Mutant of Collect: the transfer starts one payload byte early.
CollectEarly ==
    /\ state = "IDLE" /\ dvalid
    /\ IF icnt = 0
       THEN /\ cmd' = RDDATA
            /\ icnt' = fifo_payload(RDDATA.cnt)
            /\ state' = IF RDDATA.cnt = 0 THEN "ADDR" ELSE "IDLE"
            /\ UNCHANGED dati
       ELSE /\ dati' = Append(Tail(dati), RDDATA.data)
            /\ icnt' = icnt - 1
            /\ state' = IF icnt \in {1, 2} THEN "ADDR" ELSE "IDLE"
            /\ UNCHANGED cmd
    /\ UNCHANGED <<addr, ahb, bus>>

\* A byte of a packet arrived: the command byte, or payload.
Collect ==
    /\ state = "IDLE" /\ dvalid
    /\ IF icnt = 0
       THEN /\ cmd' = RDDATA
            /\ icnt' = fifo_payload(RDDATA.cnt)
            /\ state' = IF RDDATA.cnt = 0 THEN "ADDR" ELSE "IDLE"
            /\ UNCHANGED dati
       ELSE /\ dati' = Append(Tail(dati), RDDATA.data)
            /\ icnt' = icnt - 1
            /\ state' = IF icnt = 1 THEN "ADDR" ELSE "IDLE"
            /\ UNCHANGED cmd
    /\ UNCHANGED <<addr, ahb, bus>>

Idle ==
    /\ state = "IDLE" /\ ~dvalid
    /\ UNCHANGED <<regs, ahb, bus>>

\* Mutant of Address: writes of all sizes take the address from dati[63:32].
AddressWide ==
    IF cmd.auto THEN (addr + 2^cmd.size) % AddrSpace
    ELSE IF cmd.write THEN Value(SubSeq(dati, 1, 4)) ELSE Value(SubSeq(dati, 5, 8))

\* The address lies in front of the data to write.
Address ==
    LET n == IF cmd.write THEN 2^cmd.size ELSE 0
    IN  IF cmd.auto THEN (addr + 2^cmd.size) % AddrSpace
        ELSE Value(SubSeq(dati, 5 - n, 8 - n))

StartAddr ==
    /\ state = "ADDR"
    /\ HWRITE' = cmd.write
    /\ HADDR' = Address /\ addr' = Address
    /\ HTRANS' = "NONSEQ" /\ HSIZE' = cmd.size
    /\ state' = "WAIT"
    /\ UNCHANGED <<cmd, icnt, dati, HWDATA, bus>>

\* Data to write is replicated across the byte lanes (least significant
\* lane first).
Lanes == [k \in 1..4 |-> dati[8 - ((k - 1) % 2^cmd.size)]]

LatchAddr ==
    /\ state = "WAIT"
    /\ HWDATA' = IF HWRITE THEN Lanes ELSE HWDATA
    /\ HTRANS' = "IDLE"
    /\ state' = "DATA"
    /\ UNCHANGED <<cmd, icnt, dati, addr, HWRITE, HSIZE, HADDR, bus>>

\* The bus has not completed the transfer.
WaitReady ==
    /\ state = "DATA"
    /\ UNCHANGED <<regs, ahb, bus>>

\* Which lanes a transfer uses, most significant first.
Lane(w, a, size) ==
    LET n == 2^size
        low == (a % 4) - (a % n)
    IN  [k \in 1..n |-> w[low + n - k + 1]]

\* The bus completes the transfer; hrdata are its read lanes.
TransferEnds(hrdata, err) ==
    /\ state = "DATA"
    /\ state' = "IDLE"
    /\ bus' = [write |-> HWRITE, addr |-> HADDR, size |-> HSIZE, err |-> err,
               data |-> Value(Lane(IF HWRITE THEN HWDATA ELSE hrdata, HADDR, HSIZE))]
    /\ UNCHANGED <<cmd, icnt, dati, addr, ahb>>

\* The data of the answer moves up when a byte of the answer is written.
Shifted == IF WREN THEN [k \in 1..4 |-> dato[IF k = 4 THEN 4 ELSE k + 1]] ELSE dato

\* What the answer registers become when the transfer ends.
Respond(hrdata, err) ==
    IF err \/ HWRITE
    THEN /\ WRDATA' = [cnt |-> 0, err |-> err]
         /\ ocnt' = 1
         /\ dato' = Shifted
    ELSE LET n == 2^cmd.size
             ds == Lane(hrdata, HADDR, cmd.size)
         IN  /\ WRDATA' = [cnt |-> cmd.size + 1, err |-> FALSE]
             /\ dato' = [k \in 1..4 |-> IF k <= n THEN ds[k] ELSE Shifted[k]]
             /\ ocnt' = n + 1

\* Otherwise a byte of the answer is written whenever there is room.
SendByte ==
    IF WREN
    THEN /\ ocnt' = ocnt - 1
         /\ WRDATA' = [data |-> dato[1]]
         /\ dato' = Shifted
    ELSE UNCHANGED <<ocnt, WRDATA, dato>>

-----------------------------------------------------------------------------
(* The clock edge.  The host may send a command (cs) and read a byte of    *)
(* the answers; the next byte it sent may have arrived.                    *)

Link(cs, arrived, read) ==
    /\ Len(todo) + Len(cs) <= MaxTodo
    /\ arrived => host # <<>>
    /\ read => resp # <<>>
    /\ dvalid' = RDEN(arrived)
    /\ RDDATA' = IF RDEN(arrived) THEN Head(host) ELSE RDDATA
    /\ host' = (IF RDEN(arrived) THEN Tail(host) ELSE host)
                 \o (IF cs = <<>> THEN <<>> ELSE Packet(cs[1]))
    /\ resp' = (IF read THEN Tail(resp) ELSE resp)
                 \o (IF WREN THEN <<WRDATA>> ELSE <<>>)

Clock(cs, arrived, read) ==
    /\ Link(cs, arrived, read)
    /\ Collect \/ Idle \/ StartAddr \/ LatchAddr \/ WaitReady
    /\ SendByte
    /\ todo' = todo \o cs

ClockEnd(cs, arrived, read) ==
    /\ Link(cs, arrived, read)
    /\ \E hrdata \in ReadData, err \in BOOLEAN :
         TransferEnds(hrdata, err) /\ Respond(hrdata, err)
    /\ todo' = Tail(todo) \o cs

Sends == {<<>>} \cup {<<c>> : c \in Commands}

Edge(arrived, read) ==
    \E cs \in Sends : Clock(cs, arrived, read) \/ ClockEnd(cs, arrived, read)

Next == \E arrived, read \in BOOLEAN : Edge(arrived, read)

Spec == Init /\ [][Next]_vars

\* What the host has sent arrives, every transfer ends, and the host reads
\* the answers.
FairSpec ==
    /\ Spec
    /\ WF_vars(\E read \in BOOLEAN : RDEN(TRUE) /\ Edge(TRUE, read))
    /\ WF_vars(\E cs \in Sends, arrived, read \in BOOLEAN : ClockEnd(cs, arrived, read))
    /\ WF_vars(\E arrived \in BOOLEAN : Edge(arrived, TRUE))
    /\ WF_vars(Next)

-----------------------------------------------------------------------------
(* Properties.                                                             *)

Item == [cnt : 0..7, write : BOOLEAN, auto : BOOLEAN, size : 0..2] \cup [data : Byte]
AnswerItem == [cnt : 0..3, err : BOOLEAN] \cup [data : Byte]

TypeOK ==
    /\ dvalid \in BOOLEAN /\ RDDATA \in Item
    /\ cmd \in [cnt : 0..7, write : BOOLEAN, auto : BOOLEAN, size : 0..2]
    /\ icnt \in 0..16 /\ ocnt \in 0..5
    /\ dati \in [1..8 -> Byte] /\ dato \in [1..4 -> Byte]
    /\ state \in {"IDLE", "ADDR", "WAIT", "DATA"}
    /\ addr \in 0..(AddrSpace - 1) /\ HADDR \in 0..(AddrSpace - 1)
    /\ HWRITE \in BOOLEAN /\ HTRANS \in {"IDLE", "NONSEQ"} /\ HSIZE \in 0..2
    /\ HWDATA \in [1..4 -> Byte] /\ WRDATA \in AnswerItem
    /\ host \in Seq(Item) /\ resp \in Seq(AnswerItem) /\ Len(resp) <= RespDepth
    /\ todo \in Seq(Commands)

\* A byte taken from the host FIFO is looked at in the very next cycle: none
\* is fetched that the state machine would let pass unseen.
NoByteMissed == dvalid => state = "IDLE"

\* One command at a time: while an answer is on its way out no part of the
\* next command is taken in and no transfer can end, so the answer cannot be
\* overwritten by the next one.
AnswerSafe == ocnt # 0 => state = "IDLE" /\ icnt = 0 /\ ~dvalid

\* s is the packets of q, one behind the other; the i-th ends at ends[i].
Stream(s, q) ==
    \E ends \in [1..Len(q) -> 1..Len(s)] :
        LET start(i) == IF i = 1 THEN 0 ELSE ends[i - 1] IN
        /\ Len(s) = IF q = <<>> THEN 0 ELSE ends[Len(q)]
        /\ \A i, j \in 1..Len(q) : i <= j => ends[i] <= ends[j]
        /\ \A i \in 1..Len(q) :
             /\ ends[i] = start(i) + Len(Packet(q[i]))
             /\ \A k \in 1..Len(Packet(q[i])) : s[start(i) + k] = Packet(q[i])[k]

\* What the host sent and the state machine has not looked at.
Input == (IF dvalid THEN <<RDDATA>> ELSE <<>>) \o host

\* The command in progress is the first one; its payload is in dati or still to
\* come, and the packets of the other commands follow.
Collected ==
    IF state = "IDLE" /\ icnt = 0 THEN Stream(Input, todo)
    ELSE /\ todo # <<>>
         /\ LET p == Payload(todo[1])
                n == Len(p) - icnt
            IN  /\ cmd.write = todo[1].write /\ cmd.auto = todo[1].auto
                /\ cmd.size = todo[1].size
                /\ n >= 0 /\ Len(Input) >= icnt
                /\ \A k \in 1..n : dati[8 - n + k] = p[k]
                /\ \A k \in 1..icnt : Input[k] = [data |-> p[n + k]]
                /\ Stream(SubSeq(Input, icnt + 1, Len(Input)), Tail(todo))

\* The bus is driven for it.
Driven ==
    /\ state \in {"WAIT", "DATA"} => HWRITE = cmd.write /\ HSIZE = cmd.size /\ HADDR = addr
    /\ state = "DATA" /\ HWRITE => HWDATA = Lanes

\* No byte on its way from the host to the bus is lost, added or mistaken for
\* another's, and every answer is gone before the next command begins.
IInv ==
    /\ TypeOK /\ NoByteMissed /\ AnswerSafe
    /\ state # "IDLE" => icnt = 0 /\ ocnt = 0
    /\ Collected /\ Driven

\* The bytes of the answers on their way to the host.
Pending == IF ocnt = 0 THEN <<>>
           ELSE <<WRDATA>> \o [k \in 1..(ocnt - 1) |-> [data |-> dato[k]]]
Reply == resp \o Pending

Commander == INSTANCE BusCommander WITH
    issued <- state \in {"WAIT", "DATA"}, last <- addr, reply <- Reply

CarriesOut == Commander!Spec

\* Every command the host sent is answered in the end.
Answered == (todo # <<>>) ~> (ocnt # 0)
=============================================================================
