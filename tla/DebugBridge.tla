----------------------------- MODULE DebugBridge ----------------------------
(***************************************************************************)
(* ahb3lite_debug_bridge: a bus slave that carries out each transfer on    *)
(* the bus of a remote target, by ADIv5 commands to the target's memory    *)
(* access port.  It spares commands by caching what it wrote to the port:  *)
(* the register bank (sel), the access width and the autoincrement (csw),  *)
(* and the address (tar).                                                  *)
(*                                                                         *)
(* Clock is an edge of the bus clock; the ADIv5 controller (AdiServer) and *)
(* the target carry out commands between edges.  The bus is external, as   *)
(* in HostSlave.  Values in commands are integers: a CSW is 4 * autoinc +  *)
(* width.  The IRQ scan is left out: IRQSCAN is low and no ACKs arrive, so *)
(* that the states of the scan are not entered.                            *)
(***************************************************************************)
EXTENDS Integers, Sequences

CONSTANTS
    Transfers,   \* [write : BOOLEAN, size : 0..2, addr, data], aligned
    AddrSpace,   \* addresses (2^32), a multiple of 16
    Depth,       \* entries of the controller's command FIFO
    CtrMod,      \* the response counters count modulo this
    SeqReads,    \* whether masters also read while SEQ is set
    Garbage,     \* bound: what a failed read of the CSW returns
    Repeated,    \* bound: whether more than one command fails until the bridge
                 \*   is enabled anew
    MaxLate      \* bound: transfers begun after a failure was seen, until then

ASSUME SpaceAssumption == AddrSpace \in Nat \ {0} /\ AddrSpace % 16 = 0
ASSUME CtrAssumption == CtrMod \in Nat /\ CtrMod > 1 /\ Depth \in Nat \ {0}

ASSUME SoftwareAssumption == SeqReads \in BOOLEAN
ASSUME GarbageAssumption == Garbage \subseteq 0..7 /\ Garbage # {}
ASSUME FailureAssumption == Repeated \in BOOLEAN /\ MaxLate \in Nat

\* The FIFO holds the longest sequence of commands but the one the controller
\* works on, as the code's (4, with counters modulo 8) does, or the counters
\* stop the sequence in time.
ASSUME RoomAssumption == Depth >= 4 \/ (Depth >= 2 /\ CtrMod <= Depth + 2)

\* Words are aligned, reads carry no data, and the last bank, which the mark of
\* an unknown address is in, is not accessed.
ASSUME TransfersAssumption ==
    \A t \in Transfers :
        /\ t \in [write : BOOLEAN, size : 0..2, addr : 0..(AddrSpace - 17), data : Nat]
        /\ t.size = 2 => t.addr % 4 = 0
        /\ ~t.write => t.data = 0

VARIABLES
    ENABLE, SEQ,                 \* set by software through a CSR
    bus, result,                 \* data phase; a transfer that just ended
    state, STAT,                 \* state machine; sticky status, TRUE if OK
    slv_HREADYOUT, slv_HRESP, slv_HRDATA,
    ahb_addr, ahb_wnr, ahb_req_sz, ahb_data,    \* the transfer
    ahb_pending, ahb_latch_data,
    sel, csw, tar, init_complete,               \* caches of the port
    resp_pending, resp_recvd, check_resp, resp, \* responses
    ADIv5_WREN, ADIv5_WRDATA,                   \* command port
    cmdq, req, respq, ADIv5_RDDATA,             \* ADIv5 controller
    t_bank, t_csw, t_tar,                       \* the target's port
    performed, faulted,                         \* history, as in RemoteMemory
    late,                                       \* history: see MaxLate
    dslv_HREADYOUT, dslv_HRESP, active          \* the default slave

soft == <<ENABLE, SEQ>>
ahb == <<ahb_addr, ahb_wnr, ahb_req_sz, ahb_data, ahb_pending, ahb_latch_data>>
slv == <<slv_HREADYOUT, slv_HRESP, slv_HRDATA>>
dslv == <<dslv_HREADYOUT, dslv_HRESP, active>>
caches == <<sel, csw, tar, init_complete>>
responses == <<resp_recvd, check_resp, resp, STAT>>
port == <<ADIv5_WREN, ADIv5_WRDATA, resp_pending>>
target == <<t_bank, t_csw, t_tar, performed, faulted, late>>
vars == <<soft, bus, result, state, slv, ahb, caches, responses, port,
          cmdq, req, respq, ADIv5_RDDATA, target, dslv>>

Default == INSTANCE DefaultSlave WITH HREADYOUT <- dslv_HREADYOUT, HRESP <- dslv_HRESP

Invalid == AddrSpace - 1   \* tar <= -1

\* What the target holds at an address: different for each place and size.
Content(a, size) == 4 * a + size

Word == 2
Width(c) == c % 4
Inc(c) == (c \div 4) % 2

\* Commands.  a: the two address bits that go with the bank.
Cmd(ap, rd, a, v) == [ap |-> ap, rd |-> rd, a |-> a, v |-> v]
SelectBank(b) == Cmd(FALSE, FALSE, 2, b)
ApWrite(a, v) == Cmd(TRUE, FALSE, a, v)
ApRead(a) == Cmd(TRUE, TRUE, a, 0)
CSW == 0
TAR == 1
DRW == 3

\* The CSW as software leaves it before it enables the bridge.
Configured == {Word, 4 + Word}

Init ==
    /\ ENABLE = FALSE /\ SEQ = FALSE /\ bus = <<>> /\ result = <<>>
    /\ state = "DISABLED" /\ STAT = TRUE
    /\ slv_HREADYOUT = TRUE /\ slv_HRESP = FALSE /\ slv_HRDATA = 0
    /\ ahb_addr = Invalid /\ ahb_wnr = FALSE /\ ahb_req_sz = 0 /\ ahb_data = 0
    /\ ahb_pending = FALSE /\ ahb_latch_data = FALSE
    /\ sel = 0 /\ csw = 0 /\ tar = Invalid /\ init_complete = FALSE
    /\ resp_pending = 0 /\ resp_recvd = 0 /\ check_resp = FALSE
    /\ resp = [ok |-> TRUE, data |-> 0]
    /\ ADIv5_WREN = FALSE /\ ADIv5_WRDATA = SelectBank(0)
    /\ cmdq = <<>> /\ req = <<>> /\ respq = <<>>
    /\ ADIv5_RDDATA = [ok |-> TRUE, data |-> 0]
    /\ t_bank \in {0, 1} /\ t_csw \in Configured /\ t_tar = 0
    /\ performed = <<>> /\ faulted = FALSE /\ late = 0
    /\ Default!Init

HREADYOUT == IF ENABLE THEN slv_HREADYOUT ELSE dslv_HREADYOUT
HRESP == IF ENABLE THEN slv_HRESP ELSE dslv_HRESP

WRFULL == Len(cmdq) = Depth
RDEN == respq # <<>>

\* No room for a command, or for counting it.
Inhibit == WRFULL \/ (resp_pending + 1) % CtrMod = resp_recvd

cmd_complete == resp_pending = resp_recvd

Bank(a) == a \div 16

\* A response is looked at that reports a failure.
Failure == ENABLE /\ check_resp /\ ~ADIv5_RDDATA.ok

-----------------------------------------------------------------------------
(* The state machine.  Its actions assign state, the caches, the command   *)
(* port and the answer to the bus.                                         *)

\* The cached address, unless the state machine writes it.
TarKept == IF Failure THEN Invalid ELSE tar

\* A state that is not left goes to DISABLED when the bridge is disabled.
Stay == state' = IF ENABLE THEN state ELSE "DISABLED"

KeepPort == UNCHANGED <<ADIv5_WRDATA, resp_pending>>

\* A command is written and counted.
Issue(c, next) ==
    /\ ~Inhibit
    /\ ADIv5_WREN' = TRUE /\ ADIv5_WRDATA' = c
    /\ resp_pending' = (resp_pending + 1) % CtrMod
    /\ state' = next
    /\ UNCHANGED <<slv_HRESP, slv_HRDATA>>

Issuing == {"WRITE_DPSELECT", "UPDATE_APCSW", "CACHE_APCSW", "SELECT_APBANK_0",
            "SELECT_APBANK_1", "SET_CSW", "SET_TAR", "ACCESS_DRW", "ACCESS_BDn"}

\* A command that is held back.
Inhibited ==
    /\ state \in Issuing /\ Inhibit
    /\ ADIv5_WREN' = FALSE /\ KeepPort /\ Stay
    /\ tar' = TarKept
    /\ UNCHANGED <<sel, csw, init_complete, slv_HRESP, slv_HRDATA>>

Disabled ==
    /\ state = "DISABLED"
    /\ IF ENABLE
       THEN /\ state' = "WRITE_DPSELECT"
            /\ tar' = TarKept
            /\ UNCHANGED <<ADIv5_WREN, resp_pending, init_complete>>
       ELSE /\ state' = "DISABLED"
            /\ tar' = Invalid /\ ADIv5_WREN' = FALSE
            /\ resp_pending' = 0 /\ init_complete' = FALSE
    /\ UNCHANGED <<sel, csw, ADIv5_WRDATA, slv_HRESP, slv_HRDATA>>

WriteDpSelect ==
    /\ state = "WRITE_DPSELECT"
    /\ Issue(SelectBank(0), IF init_complete THEN "UPDATE_APCSW" ELSE "CACHE_APCSW")
    /\ sel' = 0 /\ tar' = TarKept
    /\ UNCHANGED <<csw, init_complete>>

CacheApCsw ==
    /\ state = "CACHE_APCSW"
    /\ Issue(ApRead(CSW), "READ_APCSW")
    /\ tar' = TarKept
    /\ UNCHANGED <<sel, csw, init_complete>>

ReadApCsw ==
    /\ state = "READ_APCSW"
    /\ ADIv5_WREN' = FALSE /\ KeepPort
    /\ IF cmd_complete
       THEN csw' = resp.data % 8 /\ init_complete' = TRUE /\ state' = "IDLE"
       ELSE Stay /\ UNCHANGED <<csw, init_complete>>
    /\ tar' = TarKept
    /\ UNCHANGED <<sel, slv_HRESP, slv_HRDATA>>

UpdateApCsw ==
    /\ state = "UPDATE_APCSW"
    /\ LET c == 4 * (IF SEQ THEN 1 ELSE 0) + Width(csw)
       IN  Issue(ApWrite(CSW, c), "IDLE") /\ csw' = c
    /\ tar' = TarKept
    /\ UNCHANGED <<sel, init_complete>>

\* Mutant of Route: the width of the access is not compared.
RouteAnyWidth ==
    IF ahb_addr = tar THEN (IF sel = 0 THEN "ACCESS_DRW" ELSE "SELECT_APBANK_0")
    ELSE IF ahb_req_sz # Word \/ Bank(ahb_addr) # Bank(tar)
    THEN (IF sel = 0 THEN "SET_TAR" ELSE "SELECT_APBANK_0")
    ELSE IF sel = 1 THEN "ACCESS_BDn" ELSE "SELECT_APBANK_1"

\* The shortest way to the transfer from what the port holds.
Route ==
    IF ahb_req_sz # Width(csw) THEN (IF sel = 0 THEN "SET_CSW" ELSE "SELECT_APBANK_0")
    ELSE IF ahb_addr = tar THEN (IF sel = 0 THEN "ACCESS_DRW" ELSE "SELECT_APBANK_0")
    ELSE IF ahb_req_sz # Word \/ Bank(ahb_addr) # Bank(tar)
    THEN (IF sel = 0 THEN "SET_TAR" ELSE "SELECT_APBANK_0")
    ELSE IF sel = 1 THEN "ACCESS_BDn" ELSE "SELECT_APBANK_1"

SeqChanged == ~(SEQ <=> Inc(csw) = 1)

Idle ==
    /\ state = "IDLE"
    /\ ADIv5_WREN' = FALSE /\ KeepPort
    /\ slv_HRESP' = FALSE
    /\ IF SeqChanged THEN state' = "WRITE_DPSELECT"
       ELSE IF ahb_pending THEN state' = Route
       ELSE Stay
    /\ tar' = TarKept
    /\ UNCHANGED <<sel, csw, init_complete, slv_HRDATA>>

SelectBank0 ==
    /\ state = "SELECT_APBANK_0"
    /\ Issue(SelectBank(0), IF Width(csw) # ahb_req_sz THEN "SET_CSW"
                            ELSE IF ahb_addr = tar THEN "ACCESS_DRW" ELSE "SET_TAR")
    /\ sel' = 0 /\ tar' = TarKept
    /\ UNCHANGED <<csw, init_complete>>

SelectBank1 ==
    /\ state = "SELECT_APBANK_1"
    /\ Issue(SelectBank(1), "ACCESS_BDn")
    /\ sel' = 1 /\ tar' = TarKept
    /\ UNCHANGED <<csw, init_complete>>

SetCsw ==
    /\ state = "SET_CSW"
    /\ LET c == 4 * Inc(csw) + ahb_req_sz
       IN  /\ Issue(ApWrite(CSW, c), IF ahb_addr = tar THEN "ACCESS_DRW" ELSE "SET_TAR")
           /\ csw' = c
    /\ tar' = TarKept
    /\ UNCHANGED <<sel, init_complete>>

SetTar ==
    /\ state = "SET_TAR"
    /\ Issue(ApWrite(TAR, ahb_addr), "ACCESS_DRW")
    /\ tar' = ahb_addr
    /\ UNCHANGED <<sel, csw, init_complete>>

\* Mutant of AccessDrw: the cached address does not follow the target's.
AccessDrwNoInc ==
    /\ state = "ACCESS_DRW"
    /\ Issue(IF ahb_wnr THEN ApWrite(DRW, ahb_data) ELSE ApRead(DRW), "AHB_RESP")
    /\ tar' = TarKept
    /\ UNCHANGED <<sel, csw, init_complete>>

\* The cached address follows the target's when it autoincrements, but only
\* after writes.
AccessDrw ==
    /\ state = "ACCESS_DRW"
    /\ Issue(IF ahb_wnr THEN ApWrite(DRW, ahb_data) ELSE ApRead(DRW), "AHB_RESP")
    /\ tar' = IF ahb_wnr /\ Inc(csw) = 1 THEN (tar + 2^Width(csw)) % AddrSpace ELSE TarKept
    /\ UNCHANGED <<sel, csw, init_complete>>

AccessBdn ==
    /\ state = "ACCESS_BDn"
    /\ LET n == (ahb_addr \div 4) % 4
       IN  Issue(IF ahb_wnr THEN ApWrite(n, ahb_data) ELSE ApRead(n), "AHB_RESP")
    /\ tar' = TarKept
    /\ UNCHANGED <<sel, csw, init_complete>>

\* All responses have come: the last one is the data read.
AhbResp ==
    /\ state = "AHB_RESP"
    /\ ADIv5_WREN' = FALSE /\ KeepPort
    /\ IF cmd_complete
       THEN /\ slv_HRDATA' = IF ahb_wnr THEN slv_HRDATA ELSE resp.data
            /\ slv_HRESP' = ~STAT
            /\ state' = IF STAT THEN "IDLE" ELSE "AHB_ERROR_WAIT"
       ELSE Stay /\ UNCHANGED <<slv_HRDATA, slv_HRESP>>
    /\ tar' = TarKept
    /\ UNCHANGED <<sel, csw, init_complete>>

ErrorWait ==
    /\ state = "AHB_ERROR_WAIT"
    /\ state' = "IDLE"
    /\ tar' = TarKept
    /\ UNCHANGED <<sel, csw, init_complete, slv_HRESP, slv_HRDATA, port>>

Step == Inhibited \/ Disabled \/ WriteDpSelect \/ CacheApCsw \/ ReadApCsw \/ UpdateApCsw
          \/ Idle \/ SelectBank0 \/ SelectBank1 \/ SetCsw \/ SetTar \/ AccessDrw
          \/ AccessBdn \/ AhbResp \/ ErrorWait

\* The edges at which the state machine raises HREADYOUT.
Released ==
    \/ state = "AHB_RESP" /\ state' = "IDLE"
    \/ state = "AHB_ERROR_WAIT"
    \/ state = "DISABLED" /\ ~ENABLE

-----------------------------------------------------------------------------
(* The rest of the clocked block.                                          *)

\* Responses are counted, and their failures kept until the bridge is
\* disabled.
Receive ==
    IF ~ENABLE
    THEN IF state = "DISABLED"
         THEN resp_recvd' = 0 /\ check_resp' = FALSE /\ STAT' = TRUE /\ UNCHANGED resp
         ELSE UNCHANGED responses
    ELSE /\ check_resp' = RDEN
         /\ IF check_resp
            THEN /\ resp' = ADIv5_RDDATA
                 /\ resp_recvd' = (resp_recvd + 1) % CtrMod
                 /\ STAT' = (STAT /\ ADIv5_RDDATA.ok)
            ELSE UNCHANGED <<resp, resp_recvd, STAT>>

\* Mutant of Latch: IDLE forgets the transfer although SEQ has changed.
LatchForgets(ap, taken) ==
    LET reset == state = "DISABLED" /\ ~ENABLE IN
    /\ slv_HREADYOUT' = (~taken /\ (slv_HREADYOUT \/ Released))
    /\ ahb_pending' = (taken \/ (ahb_pending /\ ~reset /\ state # "IDLE"))
    /\ ahb_latch_data' = ((taken /\ ap[1].write) \/ (ahb_latch_data /\ ~ENABLE /\ ~reset))
    /\ ahb_data' = IF ahb_latch_data /\ ENABLE THEN bus[1].data ELSE ahb_data
    /\ IF taken
       THEN ahb_addr' = ap[1].addr /\ ahb_wnr' = ap[1].write /\ ahb_req_sz' = ap[1].size
       ELSE /\ ahb_addr' = IF reset THEN Invalid ELSE ahb_addr
            /\ UNCHANGED <<ahb_wnr, ahb_req_sz>>

\* The address phase of a transfer is latched, its data an edge later.
Latch(ap, taken) ==
    LET reset == state = "DISABLED" /\ ~ENABLE IN
    /\ slv_HREADYOUT' = (~taken /\ (slv_HREADYOUT \/ Released))
    /\ ahb_pending' = (taken \/ (ahb_pending /\ ~reset
                                  /\ ~(state = "IDLE" /\ ~SeqChanged)))
    /\ ahb_latch_data' = ((taken /\ ap[1].write) \/ (ahb_latch_data /\ ~ENABLE /\ ~reset))
    /\ ahb_data' = IF ahb_latch_data /\ ENABLE THEN bus[1].data ELSE ahb_data
    /\ IF taken
       THEN ahb_addr' = ap[1].addr /\ ahb_wnr' = ap[1].write /\ ahb_req_sz' = ap[1].size
       ELSE /\ ahb_addr' = IF reset THEN Invalid ELSE ahb_addr
            /\ UNCHANGED <<ahb_wnr, ahb_req_sz>>

Ready(other) == IF bus = <<>> THEN other ELSE HREADYOUT

\* The bus moves on when HREADY is high; a master sees its transfer end.
Bus(ap, other) ==
    /\ bus' = IF Ready(other) THEN ap ELSE bus
    /\ IF bus # <<>> /\ HREADYOUT
       THEN /\ result' = [err |-> HRESP, of |-> bus[1],
                          data |-> IF HRESP \/ bus[1].write THEN 0 ELSE slv_HRDATA]
            /\ performed' = <<>>
       ELSE result' = <<>> /\ UNCHANGED performed

\* The controller takes a command when it is free.
Fifos ==
    LET take == req = <<>> /\ cmdq # <<>> IN
    /\ req' = IF take THEN <<Head(cmdq)>> ELSE req
    /\ cmdq' = (IF take THEN Tail(cmdq) ELSE cmdq)
                 \o (IF ADIv5_WREN THEN <<ADIv5_WRDATA>> ELSE <<>>)
    /\ respq' = IF RDEN THEN Tail(respq) ELSE respq
    /\ ADIv5_RDDATA' = IF RDEN THEN Head(respq) ELSE ADIv5_RDDATA

Late(taken) ==
    IF ENABLE /\ ~STAT /\ taken THEN late < MaxLate /\ late' = late + 1 ELSE UNCHANGED late

\* Everything that happens at an edge.  An address phase that is not accepted,
\* and other slaves while a transfer is on the bus, make no difference to it.
Clock(ap, other) ==
    /\ Ready(other) \/ ap = <<>>
    /\ bus = <<>> \/ ~other
    /\ ~SeqReads /\ SEQ /\ ap # <<>> => ap[1].write
    /\ Late(ap # <<>> /\ Ready(other))
    /\ Bus(ap, other) /\ Fifos
    /\ Receive /\ Step
    /\ Latch(ap, ap # <<>> /\ Ready(other))
    /\ Default!Clock(~ENABLE /\ ap # <<>> /\ Ready(other))
    /\ UNCHANGED <<soft, t_bank, t_csw, t_tar, faulted>>

-----------------------------------------------------------------------------
(* Software, the controller and the target.                                *)

Quiet == ~ADIv5_WREN /\ cmdq = <<>> /\ req = <<>> /\ respq = <<>> /\ ~check_resp

\* Software disables the bridge when it is idle, and enables it again when the
\* commands under way are over and it has been reset.  Meanwhile software uses
\* the port itself.
Switch ==
    /\ bus = <<>>
    /\ ENABLE => state = "IDLE" /\ ~SeqChanged
    /\ ~ENABLE => /\ Quiet /\ state = "DISABLED" /\ tar = Invalid
                  /\ resp_pending = 0 /\ resp_recvd = 0 /\ STAT /\ ~init_complete
                  /\ slv_HREADYOUT /\ ~ahb_pending /\ ~ahb_latch_data
    /\ ENABLE' = ~ENABLE
    /\ IF ENABLE
       THEN UNCHANGED target
       ELSE /\ t_bank' \in {0, 1} /\ t_csw' \in Configured /\ t_tar' = 0
            /\ faulted' = FALSE /\ performed' = <<>> /\ late' = 0
    /\ UNCHANGED <<SEQ, bus, result, state, slv, ahb, caches, responses, port, cmdq, req,
                   respq, ADIv5_RDDATA, dslv>>

\* Software changes SEQ between transfers.
SwitchSeq ==
    /\ bus = <<>> /\ Quiet /\ state = (IF ENABLE THEN "IDLE" ELSE "DISABLED")
    /\ SEQ' = ~SEQ
    /\ UNCHANGED <<ENABLE, bus, result, state, slv, ahb, caches, responses, port, cmdq, req,
                   respq, ADIv5_RDDATA, target, dslv>>

\* The target accesses its bus.  Of several accesses after a failed command
\* the last is kept.
Perform(write, a, size, v) ==
    LET access == [write |-> write, size |-> size, addr |-> a, data |-> v]
    IN  performed' = IF faulted THEN <<access>> ELSE Append(performed, access)

Answer(ok, d) == respq' = Append(respq, [ok |-> ok, data |-> d])

\* What a register of bank 0 reads as.  The one between TAR and DRW is reserved.
Register(a) == IF a = CSW THEN t_csw ELSE IF a = TAR THEN t_tar ELSE 0

\* The target carries out c, whatever bank it is meant for.  Of the data read
\* after a failure, which no master sees, only a CSW is looked at.
Execute(c) ==
    LET width == Width(t_csw)
        banked == (t_tar \div 16) * 16 + 4 * c.a
        Done(d) == Answer(TRUE, IF ~faulted THEN d ELSE IF c = ApRead(CSW) THEN d % 8 ELSE 0)
    IN  \/ /\ ~c.ap
           /\ t_bank' = c.v
           /\ Done(0)
           /\ UNCHANGED <<t_csw, t_tar, performed>>
        \/ /\ c.ap /\ t_bank = 0 /\ c.a # DRW
           /\ t_csw' = IF c.a = CSW /\ ~c.rd THEN c.v % 8 ELSE t_csw
           /\ t_tar' = IF c.a = TAR /\ ~c.rd THEN c.v % AddrSpace ELSE t_tar
           /\ Done(IF c.rd THEN Register(c.a) ELSE 0)
           /\ UNCHANGED <<t_bank, performed>>
        \/ /\ c.ap /\ t_bank = 0 /\ c.a = DRW
           /\ Perform(~c.rd, t_tar, width, c.v)
           /\ Done(IF c.rd THEN Content(t_tar, width) ELSE 0)
           /\ t_tar' = IF Inc(t_csw) = 1 THEN (t_tar + 2^width) % AddrSpace ELSE t_tar
           /\ UNCHANGED <<t_bank, t_csw>>
        \/ /\ c.ap /\ t_bank = 1
           /\ Perform(~c.rd, banked, Word, c.v)
           /\ Done(IF c.rd THEN Content(banked, Word) ELSE 0)
           /\ UNCHANGED <<t_bank, t_csw, t_tar>>

Serve ==
    /\ req # <<>>
    /\ req' = <<>>
    /\ Execute(req[1])
    /\ UNCHANGED <<soft, bus, result, state, slv, ahb, caches, responses, port, cmdq,
                   ADIv5_RDDATA, faulted, late, dslv>>

\* A command fails, without effect.  The commands behind it, which the bridge
\* has issued or goes on to issue, are carried out.  Of the data of a failed
\* read, which may be anything, only a CSW is looked at.
Fault ==
    /\ req # <<>> /\ (Repeated \/ ~faulted)
    /\ req' = <<>>
    /\ \E d \in IF req[1] = ApRead(CSW) THEN Garbage ELSE {0} : Answer(FALSE, d)
    /\ faulted' = TRUE
    /\ UNCHANGED <<soft, bus, result, state, slv, ahb, caches, responses, port, cmdq,
                   ADIv5_RDDATA, t_bank, t_csw, t_tar, performed, late, dslv>>

Offers == {<<>>} \cup {<<t>> : t \in Transfers}

Next ==
    \/ \E ap \in Offers, other \in BOOLEAN : Clock(ap, other)
    \/ Switch \/ SwitchSeq \/ Serve \/ Fault

Spec == Init /\ [][Next]_vars

\* The clock ticks, and the controller answers every command.
FairSpec ==
    /\ Spec
    /\ WF_vars(\E ap \in Offers, other \in BOOLEAN : Clock(ap, other))
    /\ WF_vars(Serve \/ Fault)

-----------------------------------------------------------------------------
(* Properties.                                                             *)

Command == {SelectBank(b) : b \in 0..1} \cup [ap : {TRUE}, rd : BOOLEAN, a : 0..3, v : Nat]
Response == [ok : BOOLEAN, data : Nat]

\* The states before a transfer is taken up, and those in which it is routed.
Starting == {"DISABLED", "WRITE_DPSELECT", "CACHE_APCSW", "READ_APCSW", "UPDATE_APCSW", "IDLE"}
Routing == {"SELECT_APBANK_0", "SELECT_APBANK_1", "SET_CSW", "SET_TAR", "ACCESS_DRW",
            "ACCESS_BDn"}
Working == Routing \cup {"AHB_RESP", "AHB_ERROR_WAIT"}

\* Variables stay in range, and the responses are never more than are counted.
TypeOK ==
    /\ {ENABLE, SEQ, STAT, check_resp, ADIv5_WREN, init_complete, faulted} \subseteq BOOLEAN
    /\ {slv_HREADYOUT, slv_HRESP, dslv_HREADYOUT, dslv_HRESP, active} \subseteq BOOLEAN
    /\ {ahb_wnr, ahb_pending, ahb_latch_data} \subseteq BOOLEAN
    /\ bus \in Offers /\ state \in Starting \cup Working
    /\ slv_HRDATA \in Nat /\ ahb_addr \in 0..(AddrSpace - 1) /\ ahb_req_sz \in 0..2
    /\ ahb_data \in Nat
    /\ sel \in 0..1 /\ csw \in 0..7 /\ tar \in 0..(AddrSpace - 1)
    /\ resp_pending \in 0..(CtrMod - 1) /\ resp_recvd \in 0..(CtrMod - 1)
    /\ resp \in Response /\ ADIv5_RDDATA \in Response
    /\ ADIv5_WRDATA \in Command /\ cmdq \in Seq(Command)
    /\ req \in Seq(Command) /\ Len(req) <= 1
    /\ respq \in Seq(Response)
    /\ t_bank \in 0..1 /\ t_csw \in 0..7 /\ t_tar \in 0..(AddrSpace - 1)

\* A command written finds room: WRFULL is looked at a cycle before the write
\* and several commands follow each other directly, but they are never as many.
NoOverflow == ADIv5_WREN => Len(cmdq) < Depth

\* The commands written and not carried out, the oldest first.
Commands == req \o cmdq \o (IF ADIv5_WREN THEN <<ADIv5_WRDATA>> ELSE <<>>)

Outstanding == Len(Commands) + Len(respq) + (IF check_resp THEN 1 ELSE 0)

\* The commands that have no counted response yet are exactly those that the
\* counters differ by: a transfer never ends on an older one's responses.
Counted ==
    /\ Outstanding < CtrMod
    /\ ENABLE => Outstanding = (resp_pending - resp_recvd) % CtrMod
    /\ ENABLE /\ state = "DISABLED" =>
         Outstanding = 0 /\ resp_pending = 0 /\ resp_recvd = 0 /\ STAT /\ ~faulted

\* The commands that may still come before the responses are waited for.
Left ==
    CASE state = "WRITE_DPSELECT" -> IF init_complete THEN 5 ELSE 2
      [] state = "IDLE" -> IF SeqChanged THEN 5 ELSE 3 + sel
      [] state \in {"UPDATE_APCSW", "SELECT_APBANK_0"} -> 4
      [] state = "SET_CSW" -> 3
      [] state \in {"SET_TAR", "SELECT_APBANK_1"} -> 2
      [] state \in {"CACHE_APCSW", "ACCESS_DRW", "ACCESS_BDn"} -> 1
      [] OTHER -> 0

\* A sequence is of five commands at most, one of which the controller has.
Short ==
    /\ Len(Commands) + Left <= 5
    /\ Len(Commands) - Len(req) + Left = 5 => Len(cmdq) <= 1

\* Disabled, the bridge leaves transfers to the default slave, which refuses
\* them.
Off ==
    /\ active <=> ~ENABLE /\ bus # <<>>
    /\ ~active => dslv_HREADYOUT /\ ~dslv_HRESP
    /\ active /\ dslv_HREADYOUT => dslv_HRESP
    /\ ~ENABLE => state \in {"IDLE", "DISABLED"}
    /\ ~ENABLE /\ state = "IDLE" => bus = <<>> /\ ~SeqChanged /\ ~ahb_pending

\* Enabled, the bridge is ready, or has the transfer on the bus as it stands.
On == ENABLE =>
    IF slv_HREADYOUT
    THEN /\ state \in Starting /\ ~ahb_pending /\ ~ahb_latch_data
         /\ bus # <<>> => state = "IDLE"
    ELSE /\ bus # <<>>
         /\ ahb_addr = bus[1].addr /\ ahb_wnr = bus[1].write /\ ahb_req_sz = bus[1].size
         /\ ahb_pending <=> state \in Starting
         /\ ahb_latch_data => ahb_pending /\ ahb_wnr
         /\ ahb_wnr => ahb_latch_data \/ ahb_data = bus[1].data

\* Once the port's CSW is known, autoincrement is as SEQ has it during a
\* transfer, and then no read comes.
Sequential ==
    /\ bus # <<>> /\ SEQ => bus[1].write
    /\ state \in Working => ~SeqChanged
    /\ ENABLE /\ state \in {"DISABLED", "CACHE_APCSW", "READ_APCSW"} => ~init_complete
    /\ ENABLE /\ state \in {"UPDATE_APCSW", "IDLE"} \cup Working => init_complete
    /\ ENABLE /\ state = "WRITE_DPSELECT" /\ ~init_complete => Outstanding = 0

\* A failure is remembered, or its response is still to be looked at.
Failing == ENABLE =>
    (faulted <=> \/ ~STAT
                 \/ check_resp /\ ~ADIv5_RDDATA.ok
                 \/ \E i \in DOMAIN respq : ~respq[i].ok)

Selects == [ap : {FALSE}, rd : {FALSE}, a : {2}, v : 0..1]
CswWrites == [ap : {TRUE}, rd : {FALSE}, a : {CSW}, v : 0..7]
TarWrites == [ap : {TRUE}, rd : {FALSE}, a : {TAR}, v : 0..(AddrSpace - 1)]

\* What a register that holds now and that the commands of K write will hold
\* when the i-th command of s is carried out.
Will(s, K, i, now, v) ==
    \/ now = v /\ \A j \in 1..(i - 1) : s[j] \notin K
    \/ \E j \in 1..(i - 1) : /\ s[j] \in K /\ s[j].v = v
                             /\ \A k \in (j + 1)..(i - 1) : s[k] \notin K

BankWill(i, v) == Will(Commands, Selects, i, t_bank, v)
CswWill(i, v) == Will(Commands, CswWrites, i, t_csw, v)
TarWill(i, v) == Will(Commands, TarWrites, i, t_tar, v)

Accessing == state = "AHB_RESP" /\ Commands # <<>>

\* Commands write registers of the port, in the right bank, but for the last
\* one that reads CSW or makes the access.
Prepared == ~faulted =>
    \A i \in DOMAIN Commands :
        \/ Commands[i] \in Selects
        \/ Commands[i] \in CswWrites \cup TarWrites /\ BankWill(i, 0)
        \/ i = Len(Commands) /\ state \in {"READ_APCSW", "AHB_RESP"}

\* What the bridge remembers of the port is what the port will hold once the
\* commands under way, but for an access, are carried out.
CachesRight == ENABLE /\ ~faulted =>
    LET n == Len(Commands) + (IF Accessing THEN 0 ELSE 1)
    IN  /\ init_complete => BankWill(n, sel) /\ CswWill(n, csw)
        /\ init_complete /\ ~Accessing => tar = Invalid \/ TarWill(n, tar)
        /\ ~init_complete => tar = Invalid
        /\ state \in {"CACHE_APCSW", "READ_APCSW"} =>
             sel = 0 /\ BankWill(n, 0) /\ \A i \in DOMAIN Commands : Commands[i] \notin CswWrites

\* The last response.
Latest == IF respq # <<>> THEN respq[Len(respq)] ELSE IF check_resp THEN ADIv5_RDDATA ELSE resp

\* The CSW that the bridge starts with is the port's.
CswRead == ENABLE /\ ~faulted /\ state = "READ_APCSW" =>
    IF Commands = <<>> THEN Latest.data = t_csw ELSE Commands[Len(Commands)] = ApRead(CSW)

\* The way of a transfer to its access.
Routed == ENABLE =>
    /\ state \in {"UPDATE_APCSW", "SET_CSW", "SET_TAR", "ACCESS_DRW"} => sel = 0
    /\ state = "ACCESS_BDn" => sel = 1
    /\ state \in {"SET_TAR", "ACCESS_DRW", "SELECT_APBANK_1", "ACCESS_BDn", "AHB_RESP"} =>
         Width(csw) = ahb_req_sz
    /\ state \in {"SELECT_APBANK_1", "ACCESS_BDn"} => ahb_req_sz = Word
    /\ ~faulted /\ state = "ACCESS_DRW" => tar = ahb_addr
    /\ ~faulted /\ state \in {"SELECT_APBANK_1", "ACCESS_BDn"} => Bank(ahb_addr) = Bank(tar)

Access(a) == IF ahb_wnr THEN ApWrite(a, ahb_data) ELSE ApRead(a)

\* The access is the transfer's: through DRW, or within the bank of TAR.
Accessed == ENABLE /\ ~faulted /\ state = "AHB_RESP" =>
    LET n == Len(Commands)
    IN  IF Commands = <<>>
        THEN performed = bus /\ (~ahb_wnr => Latest.data = Content(ahb_addr, ahb_req_sz))
        ELSE /\ performed = <<>>
             /\ \/ /\ sel = 0 /\ Commands[n] = Access(DRW) /\ TarWill(n, ahb_addr)
                   /\ tar = IF ahb_wnr /\ Inc(csw) = 1
                            THEN (ahb_addr + 2^ahb_req_sz) % AddrSpace ELSE ahb_addr
                \/ /\ sel = 1 /\ Commands[n] = Access((ahb_addr \div 4) % 4)
                   /\ ahb_req_sz = Word /\ Bank(ahb_addr) = Bank(tar) /\ TarWill(n, tar)

\* Nothing is performed before; what ends well has been performed.
Performed ==
    /\ ~faulted /\ (bus = <<>> \/ ~ENABLE) => performed = <<>>
    /\ ENABLE /\ ~faulted /\ ~slv_HREADYOUT /\ state # "AHB_RESP" => performed = <<>>
    /\ ENABLE /\ state = "AHB_ERROR_WAIT" => Outstanding = 0 /\ slv_HRESP /\ faulted
    /\ ENABLE /\ slv_HREADYOUT /\ bus # <<>> =>
         /\ Outstanding = 0
         /\ IF slv_HRESP THEN faulted
            ELSE /\ ~faulted /\ performed = bus
                 /\ ~bus[1].write => slv_HRDATA = Content(bus[1].addr, bus[1].size)

\* The bridge's bookkeeping is right: no command is written to a full FIFO, the
\* response counters tell what is under way, the caches hold what the port will
\* hold, and a transfer is routed to its own address.  With SeqReads it is not.
Inv ==
    /\ TypeOK /\ NoOverflow /\ Counted /\ Short /\ Off /\ On /\ Sequential /\ Failing
    /\ Prepared /\ CachesRight /\ CswRead /\ Routed /\ Accessed /\ Performed

Memory == INSTANCE RemoteMemory

\* Until a command fails each transfer is performed on the target once, at its
\* address and of its size, and succeeds, whatever the caches spare; a transfer
\* that is refused while the bridge is disabled is not performed.  From the
\* first failure until the bridge is enabled anew every transfer ends with an
\* error, the one that failed included.
TransparentUntilFault == Memory!Spec

\* Until a command fails what the target performs is the transfer on the bus:
\* line 2 says "Transparent bridge between AHB3 slave and ADIv5 ARM debug
\* interface".  Refuted with SeqReads: the cached address does not follow reads
\* that autoincrement.
AtOwnAddress == ~faulted /\ performed # <<>> => performed = bus

\* A transfer ends, also one that arrives while SEQ changes.
Ends == (bus # <<>> /\ ~HREADYOUT) ~> HREADYOUT
=============================================================================
