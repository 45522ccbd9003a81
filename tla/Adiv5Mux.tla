----------------------------- MODULE Adiv5Mux -----------------------------
(***************************************************************************)
(* adiv5_mux: the two ADIv5 controllers behind one command interface.      *)
(* JTAGnSWD selects one; the other is held in reset.  The selection does   *)
(* not change here, so that the variables are those of the controller      *)
(* selected, and those the other one has alone stand still.                *)
(***************************************************************************)
EXTENDS Integers, Sequences

CONSTANTS
    JtagReq, SwdReq,   \* commands, as each controller tells them apart
    Data,              \* data words
    Depth,             \* entries of the command and the answer FIFO
    PhyDepth,          \* entries of the PHY FIFOs
    JtagRetryMax, SwdRetryMax,   \* `RETRY_MAX of each
    MaxBad             \* bound: bad responses of a serial wire target to one command

ASSUME DepthAssumption == {Depth, PhyDepth} \subseteq Nat \ {0}
ASSUME ReqAssumption ==
    JtagReq \cup SwdReq \subseteq [ap : BOOLEAN, rd : BOOLEAN, addr : 0..3, sw : BOOLEAN]
ASSUME RetryAssumption == {JtagRetryMax, SwdRetryMax, MaxBad} \subseteq Nat

VARIABLES
    JTAGnSWD,          \* TRUE: JTAG
    cmdq, resp, pending, req, dvalid, busy, state, retries, stat, dati, wren,
    PHY_WREN, PHY_WRDATA, phyq, phyr, phy_dvalid, PHY_RDDATA,
    ir, tap, scan, disturbed,             \* of JTAG alone
    addr, APnDP, oks, bad, gaveUp         \* of serial wire alone

jtagOnly == <<ir, tap, scan, disturbed>>
swdOnly == <<addr, APnDP, oks, bad, gaveUp>>

Jtag == INSTANCE JtagAdiv5 WITH Req <- JtagReq, RetryMax <- JtagRetryMax
Swd == INSTANCE SwdAdiv5 WITH Req <- SwdReq, RetryMax <- SwdRetryMax

vars == <<JTAGnSWD, Jtag!vars, Swd!vars>>

Init ==
    \/ /\ JTAGnSWD = TRUE
       /\ Jtag!Init
       /\ addr = 0 /\ APnDP = FALSE /\ oks = 0 /\ bad = 0 /\ gaveUp = FALSE
    \/ /\ JTAGnSWD = FALSE
       /\ Swd!Init
       /\ ir = "NONE" /\ tap = "NONE" /\ scan = "none" /\ disturbed = FALSE

Select(jtag, swd) ==
    /\ \/ JTAGnSWD /\ jtag /\ UNCHANGED swdOnly
       \/ ~JTAGnSWD /\ swd /\ UNCHANGED jtagOnly
    /\ UNCHANGED JTAGnSWD

Clock == Select(Jtag!Clock, Swd!Clock)
Reset == Select(Jtag!Reset, FALSE)
Write == Select(\E r \in JtagReq : Jtag!Write(r), \E r \in SwdReq : Swd!Write(r))
Read == Select(Jtag!Read, Swd!Read)
PhyExec == Select(Jtag!PhyExec, Swd!PhyExec)

Next == Clock \/ Reset \/ Write \/ Read \/ PhyExec

\* Both clocks run, and the client reads its answers.
Spec == Init /\ [][Next]_vars /\ WF_vars(Clock) /\ WF_vars(PhyExec) /\ WF_vars(Read)

-----------------------------------------------------------------------------
(* Properties.                                                             *)

\* The answers the client expects, p, are those not read or being made, n,
\* and those of the commands in the FIFO: owed[i], once i of them are made.
Counted(q, n, p) ==
    \E owed \in [0..Len(q) -> 0..Depth] :
        /\ owed[0] = n /\ owed[Len(q)] = p
        /\ \A i \in 1..Len(q) :
              owed[i] = owed[i - 1] + (IF Jtag!IsLine(q[i]) THEN 0 ELSE 1)
        /\ \A i, j \in 0..Len(q) : i <= j => owed[i] <= owed[j]

AnswersCounted ==
    Counted(cmdq,
            Len(resp) + (IF wren THEN 1 ELSE 0) + (IF busy /\ ~Jtag!IsLine(req) THEN 1 ELSE 0),
            pending)

\* While nothing disturbs it, a controller and its target stay in step.
\* Over JTAG: no response is ever left over by a retry; a DR scan meets the
\* instruction it is meant for unless a reset, a protocol switch or an abort
\* has changed the TAP's instruction since it was cached; and OK data is that
\* of the good response unless it came at the last retry.  Over serial wire,
\* until the retries of some command run out: transactions are begun only
\* when no other is under way, and a value of an AP takes two good ones.
\* Where these conditions end the controllers go wrong.  The answer FIFO has room
\* for every answer, always.  (With what makes these inductive.)
PairedUndisturbed ==
    /\ IF JTAGnSWD THEN Jtag!Inv ELSE Swd!Inv
    /\ AnswersCounted

\* Behind the mux there is one server of ADIv5 commands, whichever interface
\* is selected: commands are answered once and in order; the command being
\* carried out and the answer being written count as under way.
Server == INSTANCE AdiServer WITH
    Req    <- JtagReq \cup SwdReq,
    Silent <- Jtag!IsLine,
    Answer <- [data : Data, stat : Jtag!Stat],
    todo   <- (IF busy THEN <<req>> ELSE <<>>) \o cmdq,
    resp   <- resp \o (IF wren THEN <<[data |-> dati, stat |-> stat]>> ELSE <<>>)

ServesInOrder == Server!Spec

\* Every command is completed, however a JTAG target answers, and as long as
\* a serial wire target recovers before the last retry.
Completes == busy ~> (~busy \/ gaveUp)
=============================================================================
