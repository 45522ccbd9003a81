----------------------------- MODULE JtagAdiv5 -----------------------------
(***************************************************************************)
(* jtag_adiv5: carries out ADIv5 commands as sequences of JTAG PHY         *)
(* commands.  The client writes commands into a FIFO and reads answers     *)
(* from another one; the controller, one clock edge at a time, writes PHY  *)
(* commands and waits for PHY responses; the PHY, in a clock domain of its *)
(* own, executes them on the TAP of the target.                            *)
(*                                                                         *)
(* Of a PHY command the model keeps the operation and, for DR scans, the   *)
(* instruction the scan is meant for (want, not part of the command word). *)
(* The target is external: it answers a scan with any acknowledge.         *)
(***************************************************************************)
EXTENDS Integers, Sequences

CONSTANTS
    Req,         \* commands: [ap, rd : BOOLEAN, addr : 0..3, sw : BOOLEAN]
    Data,        \* data words
    Depth,       \* entries of the command and the answer FIFO (2^FIFO_AW)
    PhyDepth,    \* entries of the PHY command FIFO
    RetryMax     \* `RETRY_MAX

VARIABLES
    cmdq, resp,            \* command and answer FIFO
    pending,               \* answers the client still expects (history)
    req, dvalid, busy,     \* command read from the FIFO
    state, ir, retries,    \* state machine, IR cache
    stat, dati, wren,      \* answer
    PHY_WREN, PHY_WRDATA,  \* PHY command port
    phyq, phyr,            \* PHY command and response FIFO
    phy_dvalid, PHY_RDDATA,  \* response read from the FIFO
    tap,                   \* instruction register of the target's TAP
    scan,                  \* history: the last DR scan
    disturbed              \* history: the TAP's instruction was changed by
                           \*   a reset or an abort after the cache was set

client == <<cmdq, resp, pending, req>>
ctrl == <<dvalid, busy, state, ir, retries, stat, dati, wren>>
phy == <<phyq, phyr, phy_dvalid, PHY_RDDATA>>
port == <<PHY_WREN, PHY_WRDATA>>
target == <<tap, scan, disturbed>>
vars == <<client, ctrl, port, phy, target>>

States == {"IDLE", "SET_IR", "SAVE_IR", "CMD", "IDCODE", "DPWRITE", "DPREAD",
           "APACCESS", "FLUSH", "CHECK", "RESPONSE", "ABORT_IR", "ABORT",
           "ABORT_DONE", "RESET_DONE"}
Instr == {"IDCODE", "DPACC", "APACC", "ABORT", "NONE"}
Ops == {"RESET", "SWITCH", "IR_WRITE", "DR_WRITE", "DR_READ", "FLUSH"}
Ack == {"OK", "WAIT", "BAD"}
Stat == {"OK", "TIMEOUT", "FAULT"}

PhyCmd(op, want) == [op |-> op, want |-> want]

Init ==
    /\ cmdq = <<>> /\ resp = <<>> /\ pending = 0
    /\ req \in Req /\ dvalid = FALSE /\ busy = FALSE
    /\ state = "IDLE" /\ ir = "NONE" /\ retries = 0
    /\ stat = "FAULT" /\ dati \in Data /\ wren = FALSE
    /\ PHY_WREN = FALSE /\ PHY_WRDATA = PhyCmd("RESET", "NONE")
    /\ phyq = <<>> /\ phyr = <<>> /\ phy_dvalid = FALSE
    /\ PHY_RDDATA \in [ack : {"BAD"}, data : Data]
    /\ tap = "IDCODE" /\ scan = [want |-> "IDCODE", got |-> "IDCODE", disturbed |-> FALSE]
    /\ disturbed = FALSE

-----------------------------------------------------------------------------
(* Decoding of {addr, APnDP, RnW}.                                         *)

IsIdcode(r) == ~r.ap /\ r.rd /\ r.addr = 0       \* DP[0] read
IsLine(r) == ~r.ap /\ ~r.rd /\ r.addr = 3        \* DP[C] write
InstrFor(r) == IF r.ap THEN "APACC" ELSE "DPACC"

\* Is the response expected the IDCODE?  (Also TRUE for a write of DP[0].)
idcode == PHY_WRDATA.op = "DR_READ" /\ ~req.ap /\ req.addr = 0

rden == cmdq # <<>> /\ ~busy

-----------------------------------------------------------------------------
(* The state machine.  Every action assigns state, ir, retries, stat,      *)
(* dati, wren and the PHY command port; busy and dvalid are in Clock.      *)

Keep == UNCHANGED <<ir, retries, stat, dati, wren>>

\* `PHY_CMD: offer the command, then, with the FIFO taking it, go on.
Send(next, c) ==
    IF PHY_WREN
    THEN PHY_WREN' = FALSE /\ state' = next /\ UNCHANGED PHY_WRDATA
    ELSE IF Len(phyq) < PhyDepth
    THEN PHY_WREN' = TRUE /\ PHY_WRDATA' = c /\ UNCHANGED state
    ELSE UNCHANGED <<PHY_WREN, PHY_WRDATA, state>>

\* Mutant of Idle: the answer's write enable stays up.
IdleStrobe ==
    /\ state = "IDLE"
    /\ wren' = wren /\ retries' = 0
    /\ state' = IF ~dvalid THEN "IDLE"
                ELSE IF IsIdcode(req) \/ IsLine(req) THEN "CMD" ELSE "SET_IR"
    /\ UNCHANGED <<ir, stat, dati, port>>

Idle ==
    /\ state = "IDLE"
    /\ wren' = FALSE /\ retries' = 0
    /\ state' = IF ~dvalid THEN "IDLE"
                ELSE IF IsIdcode(req) \/ IsLine(req) THEN "CMD" ELSE "SET_IR"
    /\ UNCHANGED <<ir, stat, dati, port>>

SetIr ==
    /\ state = "SET_IR"
    /\ IF ir # InstrFor(req) THEN Send("SAVE_IR", PhyCmd("IR_WRITE", InstrFor(req)))
       ELSE state' = "CMD" /\ UNCHANGED port
    /\ Keep

SaveIr ==
    /\ state = "SAVE_IR"
    /\ ir' = InstrFor(req)
    /\ state' = "CMD"
    /\ UNCHANGED <<retries, stat, dati, wren, port>>

Cmd ==
    /\ state = "CMD"
    /\ CASE IsIdcode(req) -> Send("IDCODE", PhyCmd("RESET", "NONE"))
         [] IsLine(req) -> Send("RESET_DONE",
                                PhyCmd(IF req.sw THEN "SWITCH" ELSE "RESET", "NONE"))
         [] OTHER -> /\ state' = IF req.ap THEN "APACCESS"
                                 ELSE IF req.rd THEN "DPREAD" ELSE "DPWRITE"
                     /\ UNCHANGED port
    /\ Keep

\* The states that only send one PHY command.
Access ==
    /\ \/ state = "IDCODE"   /\ Send("RESPONSE", PhyCmd("DR_READ", "IDCODE"))
       \/ state = "DPWRITE"  /\ Send("CHECK", PhyCmd("DR_WRITE", InstrFor(req)))
       \/ state = "DPREAD"   /\ Send("CHECK", PhyCmd("DR_WRITE", InstrFor(req)))
       \/ state = "APACCESS" /\ Send("FLUSH", PhyCmd("DR_WRITE", InstrFor(req)))
       \/ state = "FLUSH"    /\ Send("CHECK", PhyCmd("FLUSH", "NONE"))
       \/ state = "CHECK"    /\ Send("RESPONSE", PhyCmd("DR_READ", InstrFor(req)))
       \/ state = "ABORT_IR" /\ Send("ABORT", PhyCmd("IR_WRITE", "ABORT"))
       \/ state = "ABORT"    /\ Send("ABORT_DONE", PhyCmd("DR_WRITE", "ABORT"))
    /\ Keep

AbortDone ==
    /\ state = "ABORT_DONE"
    /\ state' = "IDLE" /\ wren' = TRUE
    /\ UNCHANGED <<ir, retries, stat, dati, port>>

ResetDone ==
    /\ state = "RESET_DONE"
    /\ state' = "IDLE"
    /\ Keep /\ UNCHANGED port

Good == idcode \/ PHY_RDDATA.ack = "OK"

\* After the last retry the transaction is aborted, whatever the answer.
Response ==
    /\ state = "RESPONSE" /\ phy_dvalid
    /\ stat' = IF Good THEN "OK" ELSE IF PHY_RDDATA.ack = "WAIT" THEN "TIMEOUT" ELSE "FAULT"
    /\ IF retries = RetryMax
       THEN state' = "ABORT_IR" /\ UNCHANGED <<dati, wren, retries>>
       ELSE IF Good
       THEN state' = "IDLE" /\ wren' = TRUE /\ dati' = PHY_RDDATA.data
            /\ UNCHANGED retries
       ELSE state' = "CMD" /\ retries' = retries + 1 /\ UNCHANGED <<dati, wren>>
    /\ UNCHANGED <<ir, port>>

\* Mutant of Await: the transaction is repeated before it is answered.
AwaitNot ==
    /\ state = "RESPONSE" /\ ~phy_dvalid
    /\ state' = "CMD" /\ Keep /\ UNCHANGED port

Await ==
    /\ state = "RESPONSE" /\ ~phy_dvalid
    /\ UNCHANGED state /\ Keep /\ UNCHANGED port

\* Mutant of Done: a line reset leaves the controller busy.
DoneAnswered == (wren' /\ ~wren) \/ state = "ABORT_DONE"

\* The edges at which the command is completed.
Done == (state = "RESPONSE" /\ state' = "IDLE") \/ state \in {"ABORT_DONE", "RESET_DONE"}

Step == Idle \/ SetIr \/ SaveIr \/ Cmd \/ Access \/ AbortDone \/ ResetDone
          \/ Response \/ Await

\* An edge of the controller's clock.  PHY responses are read as they come.
Clock ==
    /\ Step
    /\ busy' = (~Done /\ (busy \/ rden))
    /\ dvalid' = (~(state = "IDLE" /\ dvalid) /\ (dvalid \/ rden))
    /\ cmdq' = IF rden THEN Tail(cmdq) ELSE cmdq
    /\ req' = IF rden THEN Head(cmdq) ELSE req
    /\ resp' = IF wren THEN Append(resp, [data |-> dati, stat |-> stat]) ELSE resp
    /\ phyq' = IF PHY_WREN THEN Append(phyq, PHY_WRDATA) ELSE phyq
    /\ phy_dvalid' = (phyr # <<>>)
    /\ IF phyr = <<>> THEN UNCHANGED <<phyr, PHY_RDDATA>>
       ELSE phyr' = Tail(phyr) /\ PHY_RDDATA' = Head(phyr)
    /\ UNCHANGED <<pending, target>>

-----------------------------------------------------------------------------
(* The reset, the client, and the PHY.                                     *)

\* RESETn (which adiv5_mux also pulls when the other interface is selected)
\* empties the FIFOs of controller and PHY.  Only four registers are reset,
\* and busy is not one of them: the system is taken to reset a controller
\* that has nothing under way, since a reset in the middle of a command
\* leaves it busy for ever.
Reset ==
    /\ ~busy /\ ~wren
    /\ cmdq' = <<>> /\ resp' = <<>> /\ pending' = 0
    /\ phyq' = <<>> /\ phyr' = <<>>
    /\ state' = "IDLE" /\ dvalid' = FALSE /\ phy_dvalid' = FALSE /\ ir' = "NONE"
    /\ UNCHANGED <<req, busy, retries, stat, dati, wren, port, PHY_RDDATA, target>>

\* The client never has more commands under way than it can take answers.
Write(r) ==
    /\ Len(cmdq) < Depth /\ pending < Depth
    /\ cmdq' = Append(cmdq, r)
    /\ pending' = IF IsLine(r) THEN pending ELSE pending + 1
    /\ UNCHANGED <<resp, req, ctrl, port, phy, target>>

Read ==
    /\ resp # <<>>
    /\ resp' = Tail(resp)
    /\ pending' = pending - 1
    /\ UNCHANGED <<cmdq, req, ctrl, port, phy, target>>

\* jtag_phy executes its next command.
PhyExec ==
    /\ phyq # <<>>
    /\ LET c == Head(phyq) IN
       /\ phyq' = Tail(phyq)
       /\ tap' = CASE c.op \in {"RESET", "SWITCH"} -> "IDCODE"
                   [] c.op = "IR_WRITE" -> c.want
                   [] OTHER -> tap
       /\ disturbed' = CASE c.op \in {"RESET", "SWITCH"} -> TRUE
                         [] c.op = "IR_WRITE" -> c.want = "ABORT"
                         [] OTHER -> disturbed
       /\ scan' = IF c.op \in {"DR_WRITE", "DR_READ"}
                  THEN [want |-> c.want, got |-> tap, disturbed |-> disturbed]
                  ELSE scan
       /\ IF c.op = "DR_READ"
          THEN \E a \in Ack, d \in Data : phyr' = Append(phyr, [ack |-> a, data |-> d])
          ELSE UNCHANGED phyr
    /\ UNCHANGED <<client, ctrl, port, phy_dvalid, PHY_RDDATA>>

Next == Clock \/ Reset \/ (\E r \in Req : Write(r)) \/ Read \/ PhyExec

Spec == Init /\ [][Next]_vars

-----------------------------------------------------------------------------
(* Properties.                                                             *)

TypeOK ==
    /\ cmdq \in Seq(Req) /\ Len(cmdq) <= Depth
    /\ resp \in Seq([data : Data, stat : Stat]) /\ Len(resp) <= Depth
    /\ req \in Req /\ dvalid \in BOOLEAN /\ busy \in BOOLEAN
    /\ state \in States /\ ir \in {"NONE", "DPACC", "APACC"} /\ retries \in 0..RetryMax
    /\ stat \in Stat /\ dati \in Data /\ wren \in BOOLEAN
    /\ PHY_WREN \in BOOLEAN /\ PHY_WRDATA \in [op : Ops, want : Instr]
    /\ phyq \in Seq([op : Ops, want : Instr]) /\ Len(phyq) <= PhyDepth
    /\ phyr \in Seq([ack : Ack, data : Data]) /\ Len(phyr) <= 1
    /\ phy_dvalid \in BOOLEAN /\ PHY_RDDATA \in [ack : Ack, data : Data]
    /\ tap \in Instr /\ scan \in [want : Instr, got : Instr, disturbed : BOOLEAN]
    /\ disturbed \in BOOLEAN

\* A PHY response is only under way while the controller waits for it: none
\* is left over for a later command, however often this one was retried.
NoStrayResponse ==
    /\ phyr # <<>> \/ phy_dvalid => state = "RESPONSE"
    /\ ~(phyr # <<>> /\ phy_dvalid)

\* The IR cache spares an IR scan only when the TAP still holds that
\* instruction, as long as nothing else than the cache's own scans set it.
ScanFollowsCache == scan.got = scan.want \/ scan.disturbed

\* An answer that says OK carries the data of the response that said so,
\* except after the last retry.
DataOfResponse ==
    wren /\ stat = "OK" /\ retries < RetryMax => dati = PHY_RDDATA.data

\* What makes these hold.  The command: it is under way but in IDLE, where
\* it is only announced and the last one answered; the states it visits
\* are those of its kind.
Ordinary == {"SET_IR", "SAVE_IR", "DPWRITE", "DPREAD", "APACCESS", "FLUSH", "CHECK"}

CommandFollowed ==
    /\ state # "IDLE" => busy
    /\ dvalid => busy /\ state = "IDLE"
    /\ wren => ~busy
    /\ state \in Ordinary => ~IsIdcode(req)
    /\ state = "IDCODE" => IsIdcode(req)
    /\ state # "IDLE" => (IsLine(req) <=> state = "RESET_DONE" \/ (state = "CMD" /\ IsLine(req)))
    /\ state \in {"ABORT_IR", "ABORT", "ABORT_DONE"} => retries = RetryMax
    /\ state \in {"CMD", "DPWRITE", "DPREAD", "APACCESS", "FLUSH", "CHECK", "RESPONSE"}
         => ir = InstrFor(req) \/ IsIdcode(req) \/ IsLine(req)

\* The PHY command offered in a state, taken by the FIFO, which has room.
Offer ==
    CASE state = "SET_IR"   -> PhyCmd("IR_WRITE", InstrFor(req))
      [] state = "CMD"      -> PhyCmd(IF IsLine(req) /\ req.sw THEN "SWITCH" ELSE "RESET", "NONE")
      [] state = "IDCODE"   -> PhyCmd("DR_READ", "IDCODE")
      [] state = "FLUSH"    -> PhyCmd("FLUSH", "NONE")
      [] state = "CHECK"    -> PhyCmd("DR_READ", InstrFor(req))
      [] state = "ABORT_IR" -> PhyCmd("IR_WRITE", "ABORT")
      [] state = "ABORT"    -> PhyCmd("DR_WRITE", "ABORT")
      [] OTHER              -> PhyCmd("DR_WRITE", InstrFor(req))

Offering == {"SET_IR", "CMD", "IDCODE", "DPWRITE", "DPREAD", "APACCESS", "FLUSH", "CHECK",
             "ABORT_IR", "ABORT"}

OfferTaken ==
    PHY_WREN =>
        /\ state \in Offering /\ PHY_WRDATA = Offer /\ Len(phyq) < PhyDepth
        /\ state = "SET_IR" => ir # InstrFor(req)
        /\ state = "CMD" => IsIdcode(req) \/ IsLine(req)

\* One response is to come while the controller waits for one: its scan is
\* the last command of the PHY, or it is on its way.
OneResponse ==
    IF state # "RESPONSE"
    THEN (\A i \in DOMAIN phyq : phyq[i].op # "DR_READ") /\ phyr = <<>> /\ ~phy_dvalid
    ELSE \/ /\ phyq # <<>> /\ phyr = <<>> /\ ~phy_dvalid
            /\ \A i \in DOMAIN phyq : phyq[i].op = "DR_READ" <=> i = Len(phyq)
         \/ phyq = <<>> /\ Len(phyr) = 1 /\ ~phy_dvalid
         \/ phyq = <<>> /\ phyr = <<>> /\ phy_dvalid

\* The instructions a DR scan may be meant for, behind the first i commands
\* under way: that of the last IR scan, any if the last change disturbed.
Setter(c) == c.op \in {"RESET", "SWITCH", "IR_WRITE"}
Sets(c) == IF c.op = "IR_WRITE" /\ c.want # "ABORT" THEN {c.want} ELSE Instr
Fine(t, d) == IF d THEN Instr ELSE {t}

LastSetter(q, i, j) ==
    /\ j > 0 => Setter(q[j])
    /\ \A k \in j + 1..i : ~Setter(q[k])

Holds(q, t, d, i, w) ==
    \A j \in 0..i : LastSetter(q, i, j) => w \in IF j = 0 THEN Fine(t, d) ELSE Sets(q[j])

Coming == IF PHY_WREN THEN Append(phyq, PHY_WRDATA) ELSE phyq
Leaves(w) == Holds(Coming, tap, disturbed, Len(Coming), w)

ScansMeant(q, t, d) ==
    \A i \in 1..Len(q) :
        q[i].op \in {"DR_WRITE", "DR_READ"} => Holds(q, t, d, i - 1, q[i].want)

\* The cached instruction is the one the commands under way leave, but for
\* the two edges between an IR scan and the cache's update.
CacheFollowed ==
    /\ ScansMeant(Coming, tap, disturbed)
    /\ state \in {"IDCODE", "ABORT"} => \A w \in Instr : Leaves(w)
    /\ state = "SAVE_IR" => Leaves(InstrFor(req))
    /\ state # "SAVE_IR" /\ ~(state = "SET_IR" /\ PHY_WREN) /\ ir # "NONE" => Leaves(ir)

Inv ==
    /\ TypeOK /\ NoStrayResponse /\ ScanFollowsCache /\ DataOfResponse
    /\ CommandFollowed /\ OfferTaken /\ OneResponse /\ CacheFollowed
=============================================================================
