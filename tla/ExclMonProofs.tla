--------------------------- MODULE ExclMonProofs ---------------------------
(***************************************************************************)
(* The safety of ExclMon, for every set of addresses and every delay.      *)
(*                                                                         *)
(* Reserved is the heart of it: it ties the monitor's registers to what    *)
(* the processor did, and the count to the time that has passed.  What is  *)
(* acknowledged when a data phase begins follows from it one edge later,   *)
(* and EXRESP does not fall while the data phase is stretched, unless the  *)
(* monitor acknowledges the access behind it.                              *)
(***************************************************************************)
EXTENDS ExclMon, TLAPS

\* What is reported as done is, unless EXRESP is about the access behind it.
AckedSound == AckedIsAtomicUnlessOverlapped /\ AckedInTimeUnlessOverlapped

\* The inductive invariant.
IInv == TypeOK /\ Reserved /\ AckedSound

LEMMA Initially == Init => IInv
<1> SUFFICES ASSUME Init PROVE IInv
  OBVIOUS
<1>1. TypeOK
  <2>1. HADDR \in Addr /\ HWRITE \in BOOLEAN /\ EXREQ \in BOOLEAN
    BY DEF Init
  <2>2. EXRESP \in BOOLEAN /\ exaddr \in Addr /\ valid \in BOOLEAN
    BY DEF Init
  <2>3. delay \in 0..MaxDelay /\ lock \in Addr \cup {NoAddr}
    BY DEF Init
  <2>4. age \in 0..(MaxDelay + 2)
    BY DelayAssumption DEF Init
  <2>5. overlapped \in BOOLEAN
    BY DEF Init
  <2> QED  BY <2>1, <2>2, <2>3, <2>4, <2>5 DEF TypeOK
<1>2. ~valid /\ ~Acked
  BY DEF Init, Acked, ExclWrite, NoTransfer
<1> QED  BY <1>1, <1>2 DEF IInv, Reserved, AckedSound, AckedIsAtomicUnlessOverlapped, AckedInTimeUnlessOverlapped

\* The registers keep their ranges: the count stops at zero.
LEMMA TypesKept ==
    ASSUME TypeOK, NEW ready \in BOOLEAN, NEW halted \in BOOLEAN, Clock(ready, halted)
    PROVE  TypeOK'
<1> USE AddrAssumption, DelayAssumption DEF TypeOK
<1>1. HADDR' \in Addr /\ HWRITE' \in BOOLEAN /\ EXREQ' \in BOOLEAN
  BY DEF Clock, Drive, phase
<1>2. EXRESP' \in BOOLEAN
  BY Zenon DEF Clock, Monitor, Response
<1>3. exaddr' \in Addr /\ valid' \in BOOLEAN
  BY DEF Clock, Monitor, StillValid
<1>4. delay' \in 0..MaxDelay
  BY DEF Clock, Monitor, Delay
<1>5. lock' \in Addr \cup {NoAddr}
  BY DEF Clock, Record
<1>6. age' \in 0..(MaxDelay + 2)
  BY DEF Clock, Record
<1>7. overlapped' \in BOOLEAN
  BY Zenon DEF Clock, Record
<1> QED  BY <1>1, <1>2, <1>3, <1>4, <1>5, <1>6, <1>7

\* A reservation that is alive after an edge was made at this edge, or was
\* alive before and neither written to nor expired.
LEMMA ReservedKept ==
    ASSUME TypeOK, Reserved,
           NEW ready \in BOOLEAN, NEW halted \in BOOLEAN, Clock(ready, halted)
    PROVE  Reserved'
<1> SUFFICES ASSUME valid'
             PROVE  lock' = exaddr' /\ age' + delay' <= MaxDelay
  BY DEF Reserved
<1> USE DelayAssumption DEF TypeOK
<1>1. CASE ExclRead
  BY <1>1 DEF Clock, Monitor, Record, Delay
<1>2. CASE ~ExclRead
  <2>1. valid /\ (halted \/ ~Expired) /\ ~(Match /\ (~EXREQ \/ HWRITE))
    BY <1>2 DEF Clock, Monitor, StillValid
  <2>2. lock = exaddr /\ age + delay <= MaxDelay
    BY <2>1 DEF Reserved
  <2>3. lock' = exaddr'
    <3>1. exaddr' = exaddr
      BY <1>2 DEF Clock, Monitor
    <3>2. ~(HADDR = lock /\ (~EXREQ \/ HWRITEOUT))
      BY <1>2, <2>1, <2>2 DEF Match, HWRITEOUT, ExclRead
    <3>3. lock' = lock
      BY <1>2, <3>2 DEF Clock, Record
    <3> QED  BY <2>2, <3>1, <3>3
  <2>4. CASE halted
    BY <1>2, <2>2, <2>3, <2>4 DEF Clock, Monitor, Record, Delay
  <2>5. CASE ~halted
    <3>1. delay > 0
      BY <2>1, <2>5 DEF Expired
    <3>2. delay' = delay - 1
      BY <2>1, <2>5, <3>1 DEF Clock, Monitor, Delay
    <3>3. age' = age \/ age' = age + 1
      BY <1>2 DEF Clock, Record
    <3> QED  BY <2>2, <2>3, <3>2, <3>3
  <2> QED  BY <2>4, <2>5
<1> QED  BY <1>1, <1>2

\* An exclusive write that begins its data phase acknowledged met the
\* reservation ...
LEMMA AckedAtStart ==
    ASSUME TypeOK, Reserved, NEW halted \in BOOLEAN, Clock(TRUE, halted), Acked'
    PROVE  acc'.out /\ acc'.addr = acc'.lock /\ acc'.age <= MaxDelay
<1> USE DelayAssumption DEF TypeOK
<1>1. acc'.excl /\ acc'.write /\ ~EXRESP'
  BY DEF Acked, ExclWrite
<1>2. /\ EXREQ /\ HWRITE
      /\ acc' = [excl |-> EXREQ, write |-> HWRITE, out |-> HWRITEOUT,
                 addr |-> HADDR, lock |-> lock, age |-> age]
  BY <1>1 DEF Clock, Record
<1>3. Match
  BY <1>1 DEF Clock, Monitor, Response
<1>4. HADDR = lock /\ age + delay <= MaxDelay
  BY <1>3 DEF Match, Reserved
<1>5. HWRITEOUT
  BY <1>2, <1>3 DEF HWRITEOUT, Match
<1> QED  BY <1>2, <1>4, <1>5

\* ... and one whose data phase is stretched was acknowledged before: EXRESP
\* falls for an access that is acknowledged itself only.
LEMMA AckedInWait ==
    ASSUME TypeOK, NEW halted \in BOOLEAN, Clock(FALSE, halted), Acked', ~overlapped'
    PROVE  Acked /\ ~overlapped /\ acc' = acc
<1>1. acc' = acc
  BY DEF Clock, Record
<1>2. ExclWrite /\ ~EXRESP'
  BY <1>1 DEF Acked, ExclWrite
<1>3. ~overlapped /\ ~(Match /\ EXREQ)
  BY Zenon DEF Clock, Record
<1>4. EXRESP' \in {EXRESP, TRUE}
  BY <1>3 DEF Clock, Monitor, Response
<1> QED  BY <1>1, <1>2, <1>3, <1>4 DEF Acked, ExclWrite, TypeOK

LEMMA AckedKept ==
    ASSUME TypeOK, Reserved, AckedSound,
           NEW ready \in BOOLEAN, NEW halted \in BOOLEAN, Clock(ready, halted)
    PROVE  AckedSound'
<1> SUFFICES ASSUME Acked', ~overlapped'
             PROVE  acc'.out /\ acc'.addr = acc'.lock /\ acc'.age <= MaxDelay
  BY DEF AckedSound, AckedIsAtomicUnlessOverlapped, AckedInTimeUnlessOverlapped
<1>1. CASE ready = TRUE
  BY <1>1, AckedAtStart
<1>2. CASE ready = FALSE
  <2>1. Acked /\ ~overlapped /\ acc' = acc
    BY <1>2, AckedInWait
  <2> QED  BY <2>1 DEF AckedSound, AckedIsAtomicUnlessOverlapped, AckedInTimeUnlessOverlapped
<1> QED  BY <1>1, <1>2

LEMMA Inductive == IInv /\ [Next]_vars => IInv'
<1> SUFFICES ASSUME IInv, [Next]_vars PROVE IInv'
  OBVIOUS
<1>1. CASE Next
  <2>1. PICK ready \in BOOLEAN, halted \in BOOLEAN : Clock(ready, halted)
    BY <1>1 DEF Next
  <2> QED  BY <2>1, TypesKept, ReservedKept, AckedKept DEF IInv
<1>2. CASE UNCHANGED vars
  BY <1>2 DEF IInv, TypeOK, Reserved, AckedSound, AckedIsAtomicUnlessOverlapped, AckedInTimeUnlessOverlapped,
              Acked, ExclWrite, vars, phase, monitor, history
<1> QED  BY <1>1, <1>2

THEOREM Invariance == Spec => []IInv
  BY Initially, Inductive, PTL DEF Spec

\* A live reservation is the processor's own, and as young as the count
\* says.
THEOREM ReservationSound == Spec => []Reserved
<1>1. IInv => Reserved
  BY DEF IInv
<1> QED  BY Invariance, <1>1, PTL

\* An exclusive write that is acknowledged in whichever cycle its data phase
\* ends, unless the monitor has acknowledged the access behind it in a wait
\* state, was performed, at the address of the processor's exclusive read, with
\* no access of it in between ...
THEOREM Atomicity == Spec => []AckedIsAtomicUnlessOverlapped
<1>1. IInv => AckedIsAtomicUnlessOverlapped
  BY DEF IInv, AckedSound
<1> QED  BY Invariance, <1>1, PTL

\* ... and within the delay of that read.
THEOREM Timeliness == Spec => []AckedInTimeUnlessOverlapped
<1>1. IInv => AckedInTimeUnlessOverlapped
  BY DEF IInv, AckedSound
<1> QED  BY Invariance, <1>1, PTL
=============================================================================
