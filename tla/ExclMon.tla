------------------------------ MODULE ExclMon ------------------------------
(***************************************************************************)
(* cm3_excl_mon: the exclusive access monitor on the system bus of the     *)
(* Cortex-M3.  It remembers the address of the last exclusive read and     *)
(* lets an exclusive write through, and acknowledges it, while that        *)
(* reservation is alive.                                                   *)
(*                                                                         *)
(* A step is a clock edge.  The processor holds an address phase until     *)
(* HREADY accepts it, and takes EXRESP with HREADY at the end of the data  *)
(* phase.  The monitor does not see HREADY: it looks at the address phase  *)
(* in every cycle and computes EXRESP anew from it, also while the data    *)
(* phase of an earlier transfer is stretched by wait states.               *)
(***************************************************************************)
EXTENDS Integers

CONSTANTS
    Addr,      \* bus addresses
    NoAddr,    \* no address
    MaxDelay   \* initial value of delay: `EXCL_DELAY - 1

ASSUME AddrAssumption == NoAddr \notin Addr /\ Addr # {}
ASSUME DelayAssumption == MaxDelay \in Nat \ {0}

VARIABLES
    HADDR, HWRITE, EXREQ,   \* the address phase the processor drives
    EXRESP,                 \* TRUE: the exclusive access failed
    exaddr, delay, valid,   \* the reservation
    acc,                    \* history: the transfer in its data phase, as it
                            \*   was when it was accepted
    overlapped,             \* history: the monitor has acknowledged the access
                            \*   behind it in one of its wait states
    lock,                   \* history: address read exclusively and not
                            \*   accessed otherwise since
    age                     \* history: running cycles since the monitor saw
                            \*   that read (bounded by MaxDelay + 2)

phase == <<HADDR, HWRITE, EXREQ>>
monitor == <<EXRESP, exaddr, delay, valid>>
history == <<acc, overlapped, lock, age>>
vars == <<phase, monitor, history>>

NoTransfer == [excl |-> FALSE, write |-> FALSE, out |-> FALSE,
               addr |-> NoAddr, lock |-> NoAddr, age |-> 0]

\* delay is not reset and may hold anything.
Init ==
    /\ HADDR \in Addr /\ HWRITE = FALSE /\ EXREQ = FALSE
    /\ EXRESP = TRUE
    /\ exaddr \in Addr
    /\ delay \in 0..MaxDelay
    /\ valid = FALSE
    /\ acc = NoTransfer /\ overlapped = FALSE /\ lock = NoAddr /\ age = 0

-----------------------------------------------------------------------------

HWRITEOUT == HWRITE /\ ~(EXREQ /\ ~valid)

ExclRead == EXREQ /\ ~HWRITE

Match == valid /\ HADDR = exaddr

Expired == valid /\ delay = 0

\* Mutant of StillValid: ordinary accesses leave the reservation alone.
StillValidExcl(halted) ==
    /\ ~(Match /\ EXREQ /\ HWRITE)
    /\ halted \/ ~Expired
    /\ valid \/ ExclRead

\* The reservation survives the edge: later assignments win, so that the
\* expiry also takes a reservation renewed at the same edge.
StillValid(halted) ==
    /\ ~(Match /\ (~EXREQ \/ HWRITE))
    /\ halted \/ ~Expired
    /\ valid \/ ExclRead

\* Mutant of Delay: the count starts again with every access.
DelayRestart(halted) == MaxDelay

\* While a reservation is alive, counting down also overrides the reload.
Delay(halted) ==
    IF valid /\ ~halted /\ delay > 0 THEN delay - 1
    ELSE IF ExclRead THEN MaxDelay ELSE delay

\* Mutant of Response: exclusive accesses are acknowledged at any address.
ResponseAny == IF valid THEN (IF EXREQ THEN FALSE ELSE EXRESP) ELSE TRUE

\* An ordinary access to the reserved address leaves EXRESP as it is.
Response == IF Match THEN (IF EXREQ THEN FALSE ELSE EXRESP) ELSE TRUE

Monitor(halted) ==
    /\ exaddr' = IF ExclRead THEN HADDR ELSE exaddr
    /\ delay' = Delay(halted)
    /\ valid' = StillValid(halted)
    /\ EXRESP' = Response

\* What the bus makes of the address phase: nothing while it is not ready
\* and the data phase before it lasts.
Record(ready, halted) ==
    /\ acc' = IF ready
              THEN [excl |-> EXREQ, write |-> HWRITE, out |-> HWRITEOUT,
                    addr |-> HADDR, lock |-> lock, age |-> age]
              ELSE acc
    /\ overlapped' = (~ready /\ (overlapped \/ (Match /\ EXREQ)))
    /\ lock' = IF ExclRead THEN HADDR
               ELSE IF ready /\ HADDR = lock /\ (~EXREQ \/ HWRITEOUT) THEN NoAddr
               ELSE lock
    /\ age' = IF ExclRead THEN 0
              ELSE IF ~halted /\ age < MaxDelay + 2 THEN age + 1
              ELSE age

\* The processor drives its next address phase once the last is accepted.
Drive(ready) ==
    IF ready THEN /\ HADDR' \in Addr
                  /\ HWRITE' \in BOOLEAN
                  /\ EXREQ' \in BOOLEAN
    ELSE UNCHANGED phase

ExclWrite == acc.excl /\ acc.write

Clock(ready, halted) ==
    /\ Monitor(halted)
    /\ Record(ready, halted)
    /\ Drive(ready)

Next == \E ready, halted \in BOOLEAN : Clock(ready, halted)

Spec == Init /\ [][Next]_vars

-----------------------------------------------------------------------------
(* Properties.                                                             *)

TypeOK ==
    /\ HADDR \in Addr /\ HWRITE \in BOOLEAN /\ EXREQ \in BOOLEAN
    /\ EXRESP \in BOOLEAN /\ exaddr \in Addr /\ valid \in BOOLEAN
    /\ delay \in 0..MaxDelay
    /\ overlapped \in BOOLEAN
    /\ lock \in Addr \cup {NoAddr} /\ age \in 0..(MaxDelay + 2)

\* An exclusive write is reported as done if its data phase ends now; it may
\* end in any cycle.
Acked == ExclWrite /\ ~EXRESP

\* A read-modify-write that is reported as atomic was atomic, however long its
\* write takes: the write was performed, and between its exclusive read and it
\* this processor made no other access to the address.  Only when the monitor
\* acknowledges the access behind it, in a wait state of the write, is EXRESP
\* not about the write: then also a suppressed one is reported as done, though
\* line 2 says "If conditions are not met then prevent write and signal to
\* processor".
AckedIsAtomicUnlessOverlapped ==
    Acked /\ ~overlapped => acc.out /\ acc.addr = acc.lock

\* ... and it took no longer than the monitor allows, however often the
\* processor was halted and exclusive reads were repeated.
AckedInTimeUnlessOverlapped == Acked /\ ~overlapped => acc.age <= MaxDelay

\* A live reservation is for an address this processor has read exclusively
\* and nobody has accessed since; only the access being presented, which the
\* monitor sees before the bus accepts it, may be ahead.
Reserved == valid => lock = exaddr /\ age + delay <= MaxDelay
=============================================================================
