------------------------------ MODULE SwdAdiv5 ------------------------------
(***************************************************************************)
(* swd_adiv5: carries out ADIv5 commands as serial wire transactions.      *)
(* Client, controller and PHY are as in JtagAdiv5; of a PHY command the    *)
(* model keeps its kind.  Transactions with a read phase are answered by   *)
(* the PHY with an acknowledge and data (ok: acknowledged, and of good     *)
(* parity when it is a read); line sequences are not answered.             *)
(***************************************************************************)
EXTENDS Integers, Sequences

CONSTANTS
    Req,         \* commands: [ap, rd : BOOLEAN, addr : 0..3, sw : BOOLEAN]
    Data,        \* data words
    Depth,       \* entries of the command and the answer FIFO (2^FIFO_AW)
    PhyDepth,    \* entries of the PHY FIFOs
    RetryMax,    \* `RETRY_MAX
    MaxBad       \* bound: bad responses of the target to one command

VARIABLES
    cmdq, resp,            \* command and answer FIFO
    pending,               \* answers the client still expects (history)
    req, dvalid, busy,     \* command read from the FIFO
    addr, APnDP,           \* register accessed, its own or RDBUF
    state, retries,        \* state machine
    stat, dati, wren,      \* answer
    PHY_WREN, PHY_WRDATA,  \* PHY command port
    phyq, phyr,            \* PHY command and response FIFO
    phy_dvalid, PHY_RDDATA,  \* response read from the FIFO
    oks, bad,              \* history: good and bad responses to the command
    gaveUp                 \* history: the retries of some command ran out

client == <<cmdq, resp, pending, req>>
ctrl == <<dvalid, busy, addr, APnDP, state, retries, stat, dati, wren>>
phy == <<phyq, phyr, phy_dvalid, PHY_RDDATA>>
port == <<PHY_WREN, PHY_WRDATA>>
history == <<oks, bad, gaveUp>>
vars == <<client, ctrl, port, phy, history>>

States == {"IDLE", "CMD", "SWITCH", "RESET2", "FLUSH", "RESPONSE", "IGNORE", "DONE"}
Kinds == {"READ", "WRITE", "ABORT", "LINE", "SWITCH", "FLUSH"}
Answered == {"READ", "WRITE", "ABORT"}

Init ==
    /\ cmdq = <<>> /\ resp = <<>> /\ pending = 0
    /\ req \in Req /\ dvalid = FALSE /\ busy = FALSE
    /\ addr = req.addr /\ APnDP = req.ap
    /\ state = "IDLE" /\ retries = 0
    /\ stat = "FAULT" /\ dati \in Data /\ wren = FALSE
    /\ PHY_WREN = FALSE /\ PHY_WRDATA = "LINE"
    /\ phyq = <<>> /\ phyr = <<>> /\ phy_dvalid = FALSE
    /\ PHY_RDDATA \in [ok : {FALSE}, data : Data]
    /\ oks = 0 /\ bad = 0 /\ gaveUp = FALSE

-----------------------------------------------------------------------------

Zero == CHOOSE d \in Data : TRUE

IsLine(r) == ~r.ap /\ ~r.rd /\ r.addr = 3        \* DP[C] write

rden == cmdq # <<>> /\ ~busy

Keep == UNCHANGED <<addr, APnDP, retries, stat, dati, wren>>

\* `PHY_RAW: offer the command, then, with the FIFO taking it, go on.
Send(next, c) ==
    IF PHY_WREN
    THEN PHY_WREN' = FALSE /\ state' = next /\ UNCHANGED PHY_WRDATA
    ELSE IF Len(phyq) < PhyDepth
    THEN PHY_WREN' = TRUE /\ PHY_WRDATA' = c /\ UNCHANGED state
    ELSE UNCHANGED <<PHY_WREN, PHY_WRDATA, state>>

Idle ==
    /\ state = "IDLE"
    /\ wren' = FALSE /\ retries' = 0
    /\ IF dvalid THEN state' = "CMD" /\ addr' = req.addr /\ APnDP' = req.ap
       ELSE UNCHANGED <<state, addr, APnDP>>
    /\ UNCHANGED <<stat, dati, port>>

Cmd ==
    /\ state = "CMD"
    /\ CASE req.rd -> Send("RESPONSE", "READ")
         [] ~req.rd /\ APnDP -> Send("FLUSH", "WRITE")
         [] ~req.rd /\ ~APnDP /\ addr # 3 -> Send("RESPONSE", "WRITE")
         [] OTHER -> Send(IF req.sw THEN "SWITCH" ELSE "DONE", "LINE")
    /\ Keep

\* The states that only send one line sequence.
Sequence ==
    /\ \/ state = "SWITCH" /\ Send("RESET2", "SWITCH")
       \/ state = "RESET2" /\ Send("DONE", "LINE")
       \/ state = "FLUSH"  /\ Send("RESPONSE", "FLUSH")
    /\ Keep

LineDone ==
    /\ state = "DONE"
    /\ state' = "IDLE"
    /\ Keep /\ UNCHANGED port

\* After the last retry: an ABORT, sent as long as there is a response to
\* look at (the write enable stays as it is in the cycles between).
GiveUp ==
    /\ state = "RESPONSE" /\ phy_dvalid /\ retries = RetryMax
    /\ Send("IGNORE", "ABORT")
    /\ Keep

\* A value read from an AP is fetched from RDBUF by a second transaction.
GoodResponse ==
    /\ state = "RESPONSE" /\ phy_dvalid /\ retries # RetryMax
    /\ PHY_RDDATA.ok
    /\ IF APnDP /\ req.rd
       THEN addr' = 3 /\ APnDP' = FALSE /\ state' = "CMD" /\ UNCHANGED <<stat, dati, wren>>
       ELSE state' = "IDLE" /\ wren' = TRUE /\ dati' = PHY_RDDATA.data /\ stat' = "OK"
            /\ UNCHANGED <<addr, APnDP>>
    /\ UNCHANGED <<retries, port>>

BadResponse ==
    /\ state = "RESPONSE" /\ phy_dvalid /\ retries # RetryMax
    /\ ~PHY_RDDATA.ok
    /\ state' = "CMD" /\ retries' = retries + 1
    /\ UNCHANGED <<addr, APnDP, stat, dati, wren, port>>

Ignore ==
    /\ state = "IGNORE" /\ phy_dvalid
    /\ state' = "IDLE" /\ stat' = "FAULT" /\ wren' = TRUE
    /\ dati' = Zero
    /\ UNCHANGED <<addr, APnDP, retries, port>>

Await ==
    /\ state \in {"RESPONSE", "IGNORE"} /\ ~phy_dvalid
    /\ UNCHANGED state /\ Keep /\ UNCHANGED port

\* Mutant of Done: a line sequence leaves the controller busy.
DoneAnswered == state' = "IDLE" /\ state \in {"RESPONSE", "IGNORE"}

\* The edges at which the command is completed.
Done == state' = "IDLE" /\ state \in {"RESPONSE", "IGNORE", "DONE"}

Step == Idle \/ Cmd \/ Sequence \/ LineDone \/ GiveUp \/ GoodResponse
          \/ BadResponse \/ Ignore \/ Await

Count ==
    /\ oks' = IF state = "IDLE" /\ dvalid THEN 0
              ELSE IF state = "RESPONSE" /\ phy_dvalid /\ PHY_RDDATA.ok /\ oks < 3 THEN oks + 1
              ELSE oks
    /\ bad' = IF state = "IDLE" /\ dvalid THEN 0 ELSE bad
    /\ gaveUp' = (gaveUp \/ (state = "RESPONSE" /\ phy_dvalid /\ retries = RetryMax))

\* An edge of the controller's clock.  A PHY FIFO written while it is full
\* is taken to keep what it has.
Clock ==
    /\ Step
    /\ busy' = (~Done /\ (busy \/ rden))
    /\ dvalid' = (~(state = "IDLE" /\ dvalid) /\ (dvalid \/ rden))
    /\ cmdq' = IF rden THEN Tail(cmdq) ELSE cmdq
    /\ req' = IF rden THEN Head(cmdq) ELSE req
    /\ resp' = IF wren THEN Append(resp, [data |-> dati, stat |-> stat]) ELSE resp
    /\ phyq' = IF PHY_WREN /\ Len(phyq) < PhyDepth THEN Append(phyq, PHY_WRDATA) ELSE phyq
    /\ phy_dvalid' = (phyr # <<>>)
    /\ IF phyr = <<>> THEN UNCHANGED <<phyr, PHY_RDDATA>>
       ELSE phyr' = Tail(phyr) /\ PHY_RDDATA' = Head(phyr)
    /\ Count
    /\ UNCHANGED pending

-----------------------------------------------------------------------------
(* The client, and the PHY.                                                *)

Write(r) ==
    /\ Len(cmdq) < Depth /\ pending < Depth
    /\ cmdq' = Append(cmdq, r)
    /\ pending' = IF IsLine(r) THEN pending ELSE pending + 1
    /\ UNCHANGED <<resp, req, ctrl, port, phy, history>>

Read ==
    /\ resp # <<>>
    /\ resp' = Tail(resp)
    /\ pending' = pending - 1
    /\ UNCHANGED <<cmdq, req, ctrl, port, phy, history>>

\* swd_phy executes its next command.  A transaction takes 46 cycles of the
\* PHY clock, sending the flush behind it two of the controller's: the
\* response comes after that.
PhyExec ==
    /\ phyq # <<>>
    /\ Head(phyq) \in Answered => state # "FLUSH" /\ Len(phyr) < PhyDepth
    /\ phyq' = Tail(phyq)
    /\ IF Head(phyq) \in Answered
       THEN \E ok \in BOOLEAN, d \in Data :
              /\ ok \/ bad < MaxBad
              /\ phyr' = Append(phyr, [ok |-> ok, data |-> d])
              /\ bad' = IF ok THEN bad ELSE bad + 1
       ELSE UNCHANGED <<phyr, bad>>
    /\ UNCHANGED <<client, ctrl, port, phy_dvalid, PHY_RDDATA, oks, gaveUp>>

Next == Clock \/ (\E r \in Req : Write(r)) \/ Read \/ PhyExec

Spec == Init /\ [][Next]_vars

-----------------------------------------------------------------------------
(* Properties.                                                             *)

TypeOK ==
    /\ cmdq \in Seq(Req) /\ Len(cmdq) <= Depth
    /\ resp \in Seq([data : Data, stat : {"OK", "FAULT"}]) /\ Len(resp) <= Depth
    /\ req \in Req /\ dvalid \in BOOLEAN /\ busy \in BOOLEAN
    /\ addr \in 0..3 /\ APnDP \in BOOLEAN
    /\ state \in States /\ retries \in 0..RetryMax
    /\ stat \in {"OK", "FAULT"} /\ dati \in Data /\ wren \in BOOLEAN
    /\ PHY_WREN \in BOOLEAN /\ PHY_WRDATA \in Kinds
    /\ phyq \in Seq(Kinds) /\ Len(phyq) <= PhyDepth
    /\ phyr \in Seq([ok : BOOLEAN, data : Data]) /\ Len(phyr) <= PhyDepth
    /\ phy_dvalid \in BOOLEAN /\ PHY_RDDATA \in [ok : BOOLEAN, data : Data]
    /\ oks \in 0..3 /\ gaveUp \in BOOLEAN

\* PHY transactions whose response the controller has not seen.
UnderWay == {i \in DOMAIN phyq : phyq[i] \in Answered}

\* When the controller turns to a command, or to the next transaction of
\* one, every earlier transaction is over: the response it waits for can
\* only be its own.  (ABORTs sent when the retries run out break this.)
ResponsesPaired ==
    ~gaveUp /\ (state = "IDLE" \/ (state = "CMD" /\ ~PHY_WREN)) =>
        UnderWay = {} /\ phyr = <<>> /\ ~phy_dvalid

\* A value from an AP is answered after two good transactions, the access
\* and the read of RDBUF; everything else after one, however often single
\* transactions had to be repeated.
ReadThroughRdbuf ==
    ~gaveUp /\ wren /\ stat = "OK" => oks = IF req.ap /\ req.rd THEN 2 ELSE 1

\* What makes these hold.  The command: it is under way but in IDLE, where
\* it is only announced and the last one answered; the states it visits
\* are those of its kind, and only an AP read leaves its register.
CommandFollowed ==
    /\ state # "IDLE" => busy
    /\ dvalid => busy /\ state = "IDLE"
    /\ wren => ~busy
    /\ state \in {"SWITCH", "RESET2", "DONE"} => IsLine(req)
    /\ state \in {"FLUSH", "RESPONSE", "IGNORE"} => ~IsLine(req)
    /\ state # "IDLE" /\ ~(req.ap /\ req.rd) => addr = req.addr /\ APnDP = req.ap

\* As long as no command was given up: the PHY command offered is taken by
\* the FIFO, which has room, and is not an answered one behind the access.
OfferTaken ==
    PHY_WREN =>
        /\ state \in {"CMD", "SWITCH", "RESET2", "FLUSH"} /\ Len(phyq) < PhyDepth
        /\ PHY_WRDATA \in Answered <=> state = "CMD" /\ ~IsLine(req)

\* One transaction is under way while the controller waits for one.
OneTransaction ==
    IF state \in {"FLUSH", "RESPONSE"}
    THEN \/ /\ \E i \in DOMAIN phyq : UnderWay = {i}
            /\ phyr = <<>> /\ ~phy_dvalid
         \/ state = "RESPONSE" /\ UnderWay = {} /\ Len(phyr) = 1 /\ ~phy_dvalid
         \/ state = "RESPONSE" /\ UnderWay = {} /\ phyr = <<>> /\ phy_dvalid
    ELSE UnderWay = {} /\ phyr = <<>> /\ ~phy_dvalid

\* Only the access of an AP read is over before the command is.
OksCounted ==
    state # "IDLE" => oks = IF req.ap /\ req.rd /\ ~APnDP THEN 1 ELSE 0

Inv ==
    /\ TypeOK /\ ResponsesPaired /\ ReadThroughRdbuf /\ CommandFollowed
    /\ ~gaveUp => state # "IGNORE" /\ OfferTaken /\ OneTransaction /\ OksCounted
=============================================================================
