---------------------------- MODULE FifoArbProofs ----------------------------
(***************************************************************************)
(* Proofs about the two arbiters, FifoArbTx and FifoArbRx, for every depth *)
(* of the FIFOs, every set of count fields and every set of data bits.     *)
(*                                                                         *)
(* Of the transmit half Inv is inductive.  It says where a word is between *)
(* the FIFOs (OneInFlight) and who is selected while a packet is open      *)
(* (SelectionHeld); the step to the abstract merger needs both, the first  *)
(* for the stream, the second for the owner.                               *)
(*                                                                         *)
(* The inductive invariant of the receive half, IInv, adds to the types    *)
(* that the selection register repeats the SELMASK bit of the last command *)
(* word, and that no client FIFO is full while a word is in flight.        *)
(***************************************************************************)
EXTENDS FifoArbRx, FifoArbTx, SequenceTheorems, TLAPS

USE CodeAssumption, TagAssumption, DepthAssumption DEF Client

-----------------------------------------------------------------------------
(* Words and FIFOs.                                                        *)

\* A word offered at an edge is a sequence of at most one word.
LEMMA OfferType ==
    ASSUME NEW S, NEW ws \in Offer(S)
    PROVE  ws \in Seq(S) /\ Len(ws) \in 0..1
<1>1. CASE ws = <<>>
  BY <1>1
<1>2. CASE ws \in {<<w>> : w \in S}
  <2>1. PICK w \in S : ws = <<w>>
    BY <1>2
  <2> QED
    BY <2>1
<1> QED
  BY <1>1, <1>2 DEF Offer

\* What a FIFO holds after an edge, and how its occupancy changes.
LEMMA FifoNextType ==
    ASSUME NEW S, NEW q \in Seq(S), NEW ws \in Seq(S)
    PROVE  /\ q \o ws \in Seq(S) /\ Len(q \o ws) = Len(q) + Len(ws)
           /\ q # <<>> => /\ Tail(q) \o ws \in Seq(S)
                          /\ Len(Tail(q) \o ws) <= Len(q) + Len(ws)
<1>1. q # <<>> => Tail(q) \in Seq(S) /\ Len(Tail(q)) = Len(q) - 1
  OBVIOUS
<1> QED
  BY <1>1

\* Words still on their way may be counted to a FIFO before they are in it.
LEMMA FifoNextBehind ==
    \A q, p, ws \in Seq(Word) :
        /\ (q \o p) \o ws = q \o (p \o ws)
        /\ q # <<>> => Tail(q \o p) \o ws = Tail(q) \o (p \o ws)
<1> SUFFICES ASSUME NEW q \in Seq(Word), NEW p \in Seq(Word), NEW ws \in Seq(Word)
             PROVE  /\ (q \o p) \o ws = q \o (p \o ws)
                    /\ q # <<>> => Tail(q \o p) \o ws = Tail(q) \o (p \o ws)
  OBVIOUS
<1>1. ASSUME q # <<>>
      PROVE  Tail(q) \in Seq(Word) /\ Tail(q \o p) = Tail(q) \o p
  BY <1>1
<1>2. (q \o p) \o ws = q \o (p \o ws)
  BY ConcatAssociative
<1>3. ASSUME q # <<>>
      PROVE  (Tail(q) \o p) \o ws = Tail(q) \o (p \o ws)
  <2> DEFINE r == Tail(q)
  <2>1. r \in Seq(Word)
    BY <1>1, <1>3
  <2> HIDE DEF r
  <2>2. (r \o p) \o ws = r \o (p \o ws)
    BY <2>1, ConcatAssociative
  <2> QED
    BY <2>2 DEF r
<1> QED
  BY <1>1, <1>2, <1>3

\* A packet has sixteen words of payload at most.
LEMMA PayloadType == \A v \in 0..7 : fifo_payload[v] \in 0..16
BY DEF fifo_payload

\* The wires have their types.
LEMMA WireType ==
    ASSUME TxTypeOK
    PROVE  /\ data \in Word /\ fifo_wrdata \in Word
           /\ TxCount \in 0..16
           /\ \A i \in Client : tx_sel(i) \in BOOLEAN /\ rden(i) \in BOOLEAN
           /\ fifo_wren \in BOOLEAN /\ tx_wrfull \in BOOLEAN /\ hold \in BOOLEAN
<1>1. NoWord \in Word
  BY DEF NoWord, Word
<1>2. data \in Word /\ fifo_wrdata \in Word
  BY <1>1 DEF TxTypeOK, data, fifo_wrdata
<1>3. data.cnt \in 0..7
  BY <1>2 DEF Word
<1>4. TxCount \in 0..16
  <2>1. fifo_payload[data.cnt] \in 0..16 /\ tx_dcnt \in 0..16
    BY <1>3, PayloadType DEF TxTypeOK
  <2>2. tx_dcnt # 0 => tx_dcnt - 1 \in 0..16
    BY <2>1
  <2> QED
    BY <2>1, <2>2 DEF TxCount
<1>5. fifo_wren \in BOOLEAN /\ tx_wrfull \in BOOLEAN /\ hold \in BOOLEAN
  BY DEF TxTypeOK, fifo_wren, tx_wrfull, hold
<1>6. \A i \in Client : tx_sel(i) \in BOOLEAN /\ rden(i) \in BOOLEAN
  BY DEF TxTypeOK, tx_sel, rden
<1> QED
  BY <1>2, <1>4, <1>5, <1>6

-----------------------------------------------------------------------------
(* Inv is an inductive invariant.                                          *)

\* Nothing is in flight and nobody selected after reset.
LEMMA InitInv == TxInit => Inv
<1> SUFFICES ASSUME TxInit PROVE Inv
  OBVIOUS
<1>1. NoWord \in Word
  BY DEF NoWord, Word
<1>2. <<>> \in Seq(Word) /\ Len(<<>>) = 0
  OBVIOUS
<1>3. /\ fromClient \in [Client -> Seq(Word)] /\ \A i \in Client : Len(fromClient[i]) <= Depth
      /\ toHost \in Seq(Word) /\ Len(toHost) <= HostDepth
      /\ rddata \in [Client -> Word] /\ store \in Word
  BY <1>1, <1>2 DEF TxInit
<1>4. TxTypeOK
  <2>1. prden \in [Client -> BOOLEAN] /\ tx_psel \in [Client -> BOOLEAN]
    BY DEF TxInit
  <2>2. tx_data_valid \in BOOLEAN /\ backpressure \in BOOLEAN /\ collided \in BOOLEAN
    BY Zenon DEF TxInit
  <2>3. tx_dcnt \in 0..16
    BY DEF TxInit
  <2> QED
    BY <1>3, <2>1, <2>2, <2>3 DEF TxTypeOK
<1>5. TxCount = 0
  BY DEF TxInit, TxCount
<1> QED
  BY <1>4, <1>5 DEF TxInit, Inv, OneInFlight, SelectionHeld

\* The types of the registers, and the bounds of the FIFOs.
LEMMA ClockType ==
    ASSUME Inv, NEW ws \in Write, NEW read \in BOOLEAN, TxClock(ws, read)
    PROVE  TxTypeOK'
<1> USE DEF Inv
<1>1. /\ data \in Word /\ fifo_wrdata \in Word /\ TxCount \in 0..16
      /\ \A i \in Client : tx_sel(i) \in BOOLEAN /\ rden(i) \in BOOLEAN
      /\ fifo_wren \in BOOLEAN /\ tx_wrfull \in BOOLEAN
  BY WireType
<1>2. ASSUME NEW i \in Client
      PROVE  /\ fromClient'[i] \in Seq(Word) /\ Len(fromClient'[i]) <= Depth
             /\ rddata'[i] \in Word
  <2>1. fromClient[i] \in Seq(Word) /\ rddata[i] \in Word
    BY DEF TxTypeOK
  <2>2. ws[i] \in Seq(Word) /\ Len(fromClient[i]) + Len(ws[i]) <= Depth
    <3>1. ws[i] \in Offer(Word)
      BY DEF Write
    <3> QED
      BY <3>1, OfferType DEF TxClock
  <2>3. rden(i) \in BOOLEAN /\ (rden(i) => fromClient[i] # <<>>)
    BY <1>1 DEF rden, rdempty
  <2>4. fromClient'[i] = FifoNext(fromClient[i], rden(i), ws[i])
    BY DEF TxClock
  <2>5. fromClient'[i] \in Seq(Word) /\ Len(fromClient'[i]) <= Len(fromClient[i]) + Len(ws[i])
    <3> DEFINE q == fromClient[i]
               w == ws[i]
    <3>1. q \in Seq(Word) /\ w \in Seq(Word)
      BY <2>1, <2>2
    <3> HIDE DEF q, w
    <3>2. Len(q) \in Nat /\ Len(w) \in Nat
      BY <3>1
    <3>3. CASE rden(i)
      <4>1. q # <<>> /\ fromClient'[i] = Tail(q) \o w
        BY <2>3, <2>4, <3>3 DEF q, w, FifoNext
      <4>2. fromClient'[i] \in Seq(Word) /\ Len(fromClient'[i]) <= Len(q) + Len(w)
        BY <3>1, <4>1, FifoNextType
      <4> QED
        BY <3>2, <4>2 DEF q, w
    <3>4. CASE ~rden(i)
      <4>1. fromClient'[i] = q \o w
        BY <2>3, <2>4, <3>4 DEF q, w, FifoNext
      <4>2. fromClient'[i] \in Seq(Word) /\ Len(fromClient'[i]) = Len(q) + Len(w)
        BY <3>1, <4>1, FifoNextType
      <4> QED
        BY <3>2, <4>2 DEF q, w
    <3> QED
      BY <3>3, <3>4
  <2>6. Len(fromClient'[i]) <= Depth
    <3> DEFINE l == Len(fromClient[i])
               m == Len(ws[i])
               n == Len(fromClient'[i])
    <3>1. l \in Nat /\ m \in Nat /\ n \in Nat
      BY <2>1, <2>2, <2>5
    <3>2. l + m <= Depth /\ n <= l + m
      BY <2>2, <2>5, Zenon
    <3> HIDE DEF l, m, n
    <3>3. n <= Depth
      BY <3>1, <3>2
    <3> QED
      BY <3>3 DEF n
  <2>7. rddata'[i] \in Word
    BY <2>1, <2>3 DEF TxClock
  <2> QED
    BY <2>5, <2>6, <2>7
<1>3. fromClient' \in [Client -> Seq(Word)] /\ rddata' \in [Client -> Word]
  BY <1>2 DEF TxClock
<1>4. toHost' \in Seq(Word) /\ Len(toHost') <= HostDepth
  <2> DEFINE add == IF fifo_wren THEN <<fifo_wrdata>> ELSE <<>>
  <2>1. toHost \in Seq(Word) /\ Len(toHost) <= HostDepth /\ (read => toHost # <<>>)
    BY DEF TxTypeOK, TxClock
  <2>2. add \in Seq(Word) /\ Len(add) = IF fifo_wren THEN 1 ELSE 0
    BY <1>1
  <2>3. fifo_wren => Len(toHost) < HostDepth
    BY <2>1 DEF fifo_wren, tx_wrfull
  <2>4. toHost' = FifoNext(toHost, read, add)
    BY DEF TxClock
  <2> HIDE DEF add
  <2>5. toHost' \in Seq(Word) /\ Len(toHost') <= Len(toHost) + Len(add)
    <3>1. Len(toHost) \in Nat /\ Len(add) \in Nat
      BY <2>1, <2>2
    <3>2. CASE read
      <4>1. toHost' = Tail(toHost) \o add /\ toHost # <<>>
        BY <2>1, <2>4, <3>2 DEF FifoNext
      <4>2. /\ Tail(toHost) \o add \in Seq(Word)
            /\ Len(Tail(toHost) \o add) = Len(toHost) - 1 + Len(add)
        <5>1. Tail(toHost) \in Seq(Word) /\ Len(Tail(toHost)) = Len(toHost) - 1
          BY <2>1, <4>1
        <5> QED
          BY <2>2, <5>1, ConcatProperties
      <4> QED
        BY <3>1, <4>1, <4>2
    <3>3. CASE ~read
      <4>1. toHost' = toHost \o add
        BY <2>4, <3>3 DEF FifoNext
      <4>2. toHost' \in Seq(Word) /\ Len(toHost') = Len(toHost) + Len(add)
        BY <2>1, <2>2, <4>1, FifoNextType
      <4> QED
        BY <3>1, <4>2
    <3> QED
      BY <3>2, <3>3
  <2>6. Len(toHost) + Len(add) <= HostDepth /\ Len(toHost') \in Nat
    <3>1. Len(toHost) \in Nat /\ HostDepth \in Nat
      BY <2>1, LenProperties, Zenon
    <3> QED
      BY <2>1, <2>2, <2>3, <2>5, <3>1
  <2>7. Len(toHost) + Len(add) \in Nat
    BY <2>1, <2>2
  <2> QED
    BY <2>5, <2>6, <2>7
<1>5. /\ prden' \in [Client -> BOOLEAN] /\ tx_psel' \in [Client -> BOOLEAN]
      /\ tx_data_valid' \in BOOLEAN /\ tx_dcnt' \in 0..16
  BY <1>1 DEF TxClock, TxArbitrate
<1>6. store' \in Word /\ backpressure' \in BOOLEAN
  BY <1>1 DEF TxClock, TxArbitrate, Save, Stores, TxTypeOK
<1>7. collided' \in BOOLEAN
  BY <1>1 DEF TxClock, TxTypeOK
<1> QED
  BY <1>2, <1>3, <1>4, <1>5, <1>6, <1>7 DEF TxTypeOK

\* Nothing is read while the host FIFO is full or a word is stored for it.
LEMMA ClockInFlight ==
    ASSUME Inv, NEW ws \in Write, NEW read \in BOOLEAN, TxClock(ws, read)
    PROVE  OneInFlight'
<1>1. tx_data_valid' => ~tx_wrfull /\ ~backpressure
  BY DEF TxClock, TxArbitrate, rden
<1> QED
  BY <1>1 DEF OneInFlight, TxClock, TxArbitrate, Save, Stores

\* While a packet is open its client stays selected, and the other one is not.
LEMMA HeldStep ==
    ASSUME Inv, ~collided, TxCount # 0
    PROVE  /\ \A i \in Client : tx_sel(i) = tx_psel[i]
           /\ \A i \in Client : rden(i) => tx_psel[i]
<1>1. tx_psel[1] # tx_psel[2] /\ tx_psel \in [Client -> BOOLEAN]
  BY DEF Inv, SelectionHeld, TxTypeOK
<1>2. hold \/ tx_dcnt > 0
  <2>1. tx_dcnt \in 0..16
    BY DEF Inv, TxTypeOK
  <2>2. tx_dcnt = 0 => fifo_payload[data.cnt] # 0
    BY DEF TxCount
  <2> QED
    BY <2>1, <2>2 DEF hold
<1>3. \A i \in Client : tx_sel(i) = tx_psel[i]
  BY <1>1, <1>2 DEF tx_sel
<1> QED
  BY <1>3 DEF rden

\* The client read at an edge without a collision is the one selected.
LEMMA ReadStep ==
    ASSUME Inv, NEW i \in Client, rden(i), ~(\A j \in Client : rden(j))
    PROVE  /\ ~rden(3 - i)
           /\ tx_sel(i) /\ ~tx_sel(3 - i)
           /\ TxCount # 0 /\ ~collided => tx_psel[i] /\ ~tx_psel[3 - i]
<1>1. 3 - i \in Client /\ tx_psel \in [Client -> BOOLEAN] /\ 3 - (3 - i) = i
  BY DEF Inv, TxTypeOK
<1>2. ~rden(3 - i)
  BY <1>1
<1>3. tx_sel(i) /\ ~tx_psel[3 - i] /\ ~tx_wrfull /\ ~backpressure
  BY DEF rden, tx_sel
<1>4. ~tx_sel(3 - i)
  <2>1. SUFFICES ASSUME tx_sel(3 - i) PROVE FALSE
    OBVIOUS
  <2>2. rdempty(3 - i)
    BY <1>2, <1>3, <2>1 DEF rden
  <2>3. tx_psel[3 - i]
    BY <2>1, <2>2 DEF tx_sel
  <2> QED
    BY <1>3, <2>3
<1>5. TxCount # 0 /\ ~collided => tx_psel[i]
  BY HeldStep
<1> QED
  BY <1>2, <1>3, <1>4, <1>5

\* One client is selected while a packet is open: psel holds, or both were read.
LEMMA ClockHeld ==
    ASSUME Inv, NEW ws \in Write, NEW read \in BOOLEAN, TxClock(ws, read)
    PROVE  SelectionHeld'
<1> SUFFICES ASSUME TxCount' # 0, ~collided' PROVE (tx_psel[1] # tx_psel[2])'
  BY DEF SelectionHeld
<1>1. ~collided /\ ~(\A j \in Client : rden(j))
  BY DEF TxClock
<1>2. tx_psel' = [i \in Client |-> tx_sel(i)]
  BY DEF TxClock, TxArbitrate
<1>3. CASE \E i \in Client : rden(i)
  <2>1. PICK i \in Client : rden(i)
    BY <1>3
  <2>2. tx_sel(i) /\ ~tx_sel(3 - i)
    BY <1>1, <2>1, ReadStep
  <2> QED
    BY <1>2, <2>2
<1>4. CASE ~(\E i \in Client : rden(i))
  <2>1. TxCount # 0
    <3>1. TxCount' = tx_dcnt' /\ tx_dcnt' = TxCount
      BY <1>4 DEF TxClock, TxArbitrate, TxCount
    <3> QED
      BY <3>1
  <2>2. /\ tx_sel(1) = tx_psel[1] /\ tx_sel(2) = tx_psel[2] /\ tx_psel[1] # tx_psel[2]
    BY <1>1, <2>1, HeldStep DEF Inv, SelectionHeld
  <2> QED
    BY <1>2, <2>2
<1> QED
  BY <1>3, <1>4

\* Inv is inductive.
LEMMA StepInv == Inv /\ [TxNext]_txVars => Inv'
<1>1. ASSUME Inv, TxNext PROVE Inv'
  BY <1>1, ClockType, ClockInFlight, ClockHeld DEF TxNext, Inv
<1>2. ASSUME Inv, UNCHANGED txVars PROVE Inv'
  BY <1>2 DEF Inv, TxTypeOK, OneInFlight, SelectionHeld, TxCount, data, txVars, txArbiter
<1> QED
  BY <1>1, <1>2

\* The types and the bounds of the FIFOs hold in every reachable state; no word
\* is in two places between them; an open packet has one client.
THEOREM TxInvariance == TxSpec => []Inv
  BY InitInv, StepInv, PTL DEF TxSpec
-----------------------------------------------------------------------------
(* The arbiter merges packets.                                             *)

\* The merger's instance of HostFifoPkg is the arbiter's.
LEMMA SameLink ==
    /\ Merger!Client = Client
    /\ Merger!fifo_payload = fifo_payload
    /\ \A q, read, ws : Merger!FifoNext(q, read, ws) = FifoNext(q, read, ws)
    /\ Merger!Offer(Merger!Word) = Offer(Word)
BY DEF Merger!Client, Merger!fifo_payload, fifo_payload, Merger!FifoNext, FifoNext,
       Merger!Offer, Offer, Merger!Word, Word

\* The word between the FIFOs, and the client of the open packet.
Held == IF backpressure THEN <<store>> ELSE IF tx_data_valid THEN <<data>> ELSE <<>>
Owner == IF TxCount = 0 THEN 0 ELSE IF tx_psel[1] THEN 1 ELSE 2

\* What is on its way are words.
LEMMA HeldType == TxTypeOK => Held \in Seq(Word) /\ toHost \in Seq(Word)
  BY WireType DEF Held, TxTypeOK

\* What is on its way to the host after an edge: the words that were, less the
\* one the host has read, and the word read from a client FIFO.
LEMMA ClockStream ==
    ASSUME Inv, NEW ws \in Write, NEW read \in BOOLEAN, TxClock(ws, read),
           NEW w \in Seq(Word),
           tx_data_valid' => w = <<data'>>, ~tx_data_valid' => w = <<>>
    PROVE  (toHost \o Held)' = FifoNext(toHost \o Held, read, w)
<1> DEFINE add == IF fifo_wren THEN <<fifo_wrdata>> ELSE <<>>
<1>1. /\ toHost \in Seq(Word) /\ Held \in Seq(Word) /\ add \in Seq(Word)
      /\ read => toHost # <<>>
      /\ toHost' = FifoNext(toHost, read, add)
      /\ FifoNext(toHost, read, add) \in Seq(Word)
  <2>1. add \in Seq(Word)
    BY WireType DEF Inv
  <2> QED
    BY <2>1, HeldType, FifoNextType DEF Inv, TxClock, FifoNext
<1>2. add \o Held' = Held \o w
  <2>1. tx_data_valid' => ~tx_wrfull /\ ~backpressure /\ ~backpressure'
    BY DEF TxClock, TxArbitrate, rden, Save, Stores
  <2>2. CASE tx_data_valid'
    <3>1. w = <<data'>> /\ Held' = w
      BY <2>1, <2>2 DEF Held
    <3>2. add = Held
      BY <2>1, <2>2 DEF Held, fifo_wren, fifo_wrdata
    <3> QED
      BY <3>1, <3>2
  <2>3. CASE ~tx_data_valid'
    <3>0. w = <<>>
      BY <2>3
    <3>1. w = <<>> /\ Held \o w = Held /\ Held' = IF backpressure' THEN <<store'>> ELSE <<>>
      <4>1. Held \o <<>> = Held
        BY <1>1
      <4>2. Held' = IF backpressure' THEN <<store'>> ELSE <<>>
        BY <2>3, Zenon DEF Held
      <4> QED
        BY <3>0, <4>1, <4>2
    <3>2. ~(tx_data_valid /\ backpressure)
      BY DEF Inv, OneInFlight
    <3>3. CASE tx_wrfull
      <4>1. add = <<>>
        BY <3>3 DEF fifo_wren
      <4>2. Held' = Held
        BY <3>1, <3>2, <3>3 DEF Held, TxClock, TxArbitrate, Save, Stores, Inv, TxTypeOK
      <4>3. <<>> \o Held = Held
        BY <1>1
      <4> QED
        BY <3>1, <4>1, <4>2, <4>3, Zenon
    <3>4. CASE ~tx_wrfull
      <4>1. Held' = <<>>
        BY <3>1, <3>4 DEF TxClock, TxArbitrate, Save, Stores
      <4>2. add = Held
        BY <3>2, <3>4 DEF Held, fifo_wren, fifo_wrdata
      <4> QED
        BY <1>1, <3>1, <4>1, <4>2
    <3> QED
      BY <3>3, <3>4
  <2> QED
    BY <2>2, <2>3
<1>3. Held' \in Seq(Word)
  <2>1. store' \in Word
    BY ClockType DEF TxTypeOK
  <2>2. Held' = IF backpressure' THEN <<store'>> ELSE w
    BY DEF Held
  <2> QED
    BY <2>1, <2>2
<1> HIDE DEF add
<1>4. (toHost \o Held)' = FifoNext(toHost, read, add \o Held')
  <2> DEFINE q == IF read THEN Tail(toHost) ELSE toHost
             h == Held'
  <2>1. q \in Seq(Word)
    BY <1>1
  <2>2. toHost' = q \o add /\ FifoNext(toHost, read, add \o h) = q \o (add \o h)
    BY <1>1, Zenon DEF FifoNext
  <2>3. h \in Seq(Word) /\ add \in Seq(Word)
    BY <1>1, <1>3
  <2> HIDE DEF q, h
  <2>4. (q \o add) \o h = q \o (add \o h)
    BY <2>1, <2>3, FifoNextBehind, Zenon
  <2> QED
    BY <2>2, <2>4, Zenon DEF h
<1>5. FifoNext(toHost \o Held, read, w) = FifoNext(toHost, read, Held \o w)
  <2>1. /\ (toHost \o Held) \o w = toHost \o (Held \o w)
        /\ toHost # <<>> => Tail(toHost \o Held) \o w = Tail(toHost) \o (Held \o w)
    <3>1. toHost \in Seq(Word) /\ Held \in Seq(Word) /\ w \in Seq(Word)
      BY <1>1
    <3> QED
      BY <3>1, FifoNextBehind, Zenon
  <2>2. (read => toHost # <<>>)
    BY <1>1
  <2> QED
    BY <2>1, <2>2, Zenon DEF FifoNext
<1> QED
  BY <1>2, <1>4, <1>5

\* At an edge at which only client i is read, the merger adds its word.
LEMMA ClockMerge ==
    ASSUME Inv, NEW ws \in Write, NEW read \in BOOLEAN, TxClock(ws, read), ~collided',
           NEW i \in Client, rden(i)
    PROVE  Merger!Merge(i, ws, read)
<1> DEFINE w == Head(fromClient[i])
<1>1. ~collided /\ ~(\A j \in Client : rden(j))
  BY DEF TxClock
<1>2. /\ ~rden(3 - i) /\ tx_sel(i) /\ ~tx_sel(3 - i)
      /\ TxCount # 0 => tx_psel[i] /\ ~tx_psel[3 - i]
  BY <1>1, ReadStep
<1>3. fromClient[i] # <<>> /\ w \in Word
  BY DEF rden, rdempty, Inv, TxTypeOK
<1>4. tx_data_valid' /\ data' = w
  <2>1. tx_data_valid' /\ prden'[i] /\ ~prden'[3 - i] /\ rddata'[i] = w
    BY <1>2 DEF TxClock, TxArbitrate
  <2> QED
    BY <2>1 DEF data
<1>5. (toHost \o Held)' = FifoNext(toHost \o Held, read, <<w>>)
  <2>1. <<w>> \in Seq(Word) /\ tx_data_valid' /\ <<w>> = <<data'>>
    BY <1>3, <1>4
  <2> QED
    BY <2>1, ClockStream
<1>6. fromClient' = [j \in Client |-> FifoNext(fromClient[j], j = i, ws[j])]
  <2>1. \A j \in Client : rden(j) = (j = i)
    BY <1>2 DEF rden, tx_sel
  <2> QED
    BY <2>1 DEF TxClock
<1>7. TxCount' = IF TxCount = 0 THEN fifo_payload[w.cnt] ELSE TxCount - 1
  BY <1>4 DEF TxCount, TxClock, TxArbitrate
<1>8. Owner \in {0, i}
  BY <1>2 DEF Owner
<1>9. Owner' = IF TxCount' = 0 THEN 0 ELSE i
  BY <1>2 DEF Owner, TxClock, TxArbitrate
<1> QED
  BY <1>3, <1>5, <1>6, <1>7, <1>8, <1>9, SameLink
     DEF Merger!Merge, Merger!Exchange, Held, Owner

\* At an edge at which none is, the merger waits.
LEMMA ClockWait ==
    ASSUME Inv, NEW ws \in Write, NEW read \in BOOLEAN, TxClock(ws, read), ~collided',
           ~(\E i \in Client : rden(i))
    PROVE  Merger!Wait(ws, read)
<1>1. ~collided /\ ~tx_data_valid' /\ tx_psel' = [i \in Client |-> tx_sel(i)]
  BY DEF TxClock, TxArbitrate
<1>2. (toHost \o Held)' = FifoNext(toHost \o Held, read, <<>>)
  <2>1. <<>> \in Seq(Word) /\ ~tx_data_valid'
    BY <1>1
  <2> QED
    BY <2>1, ClockStream
<1>3. fromClient' = [j \in Client |-> FifoNext(fromClient[j], j = 0, ws[j])]
  <2>1. \A j \in Client : rden(j) = (j = 0)
    BY DEF rden
  <2> QED
    BY <2>1 DEF TxClock
<1>4. TxCount' = TxCount
  BY <1>1 DEF TxCount, TxClock, TxArbitrate
<1>5. Owner' = Owner
  BY <1>1, <1>4, HeldStep DEF Owner
<1> QED
  BY <1>2, <1>3, <1>4, <1>5, SameLink DEF Merger!Wait, Merger!Exchange, Held, Owner

\* Every step is one of PacketMerger, or a stutter, until both are read.
LEMMA StepMerger == Inv /\ [TxNext]_txVars => [~collided' => Merger!Next]_txVars
<1> SUFFICES ASSUME Inv, TxNext, ~collided' PROVE Merger!Next
  OBVIOUS
<1>1. PICK ws \in Write, read \in BOOLEAN : TxClock(ws, read)
  BY DEF TxNext
<1>2. ws \in [Client -> Offer(Word)]
  BY DEF Write
<1>3. read => toHost \o Held # <<>>
  BY <1>1, HeldType DEF TxClock, Inv
<1>4. Merger!Wait(ws, read) \/ \E i \in Client : Merger!Merge(i, ws, read)
  BY <1>1, ClockMerge, ClockWait
<1> QED
  BY <1>2, <1>3, <1>4, SameLink DEF Merger!Next, Held

\* For all depths and words: until both client FIFOs are read at one edge every
\* step of the arbiter is a step of the merger, so that packets stay whole, each
\* client's words in order, and none is lost when the host FIFO fills.
THEOREM Merging == TxSpec => MergesUntilCollision
  BY TxInvariance, StepMerger, PTL DEF TxSpec, MergesUntilCollision

-----------------------------------------------------------------------------
(* The receive half.                                                       *)

\* What a FIFO holds after an edge, and how its occupancy changes.
LEMMA RxFifoNextType ==
    ASSUME NEW S, NEW q \in Seq(S), NEW ws \in Seq(S)
    PROVE  /\ q \o ws \in Seq(S) /\ Len(q \o ws) = Len(q) + Len(ws)
           /\ q # <<>> => /\ Tail(q) \o ws \in Seq(S)
                          /\ Len(Tail(q) \o ws) = Len(q) - 1 + Len(ws)
<1>1. q # <<>> => Tail(q) \in Seq(S) /\ Len(Tail(q)) = Len(q) - 1
  OBVIOUS
<1> QED
  BY <1>1

\* The wires have their types, and at most one write enable is raised.
LEMMA RxWireType ==
    ASSUME RxTypeOK
    PROVE  /\ cmd \in Word
           /\ rx_sel \in BOOLEAN
           /\ fifo_rden \in BOOLEAN
           /\ RxCount \in 0..16
           /\ \A i \in Client : wren(i) \in BOOLEAN
<1>1. cmd \in Word
  BY DEF RxTypeOK, cmd
<1>2. cmd.sel \in BOOLEAN /\ cmd.cnt \in 0..7
  BY <1>1 DEF Word
<1>3. rx_sel \in BOOLEAN
  BY <1>2 DEF RxTypeOK, rx_sel
<1>4. RxCount \in 0..16
  <2>1. fifo_payload[cmd.cnt] \in 0..16 /\ rx_dcnt \in 0..16
    BY <1>2, PayloadType DEF RxTypeOK
  <2>2. rx_dcnt # 0 => rx_dcnt - 1 \in 0..16
    BY <2>1
  <2> QED
    BY <2>1, <2>2 DEF RxCount
<1> QED
  BY <1>1, <1>3, <1>4 DEF fifo_rden, wren

\* The arbiter's registers keep their types, the selection its meaning, and
\* a word is only fetched when both client FIFOs have room for it.
LEMMA RxInitIInv == RxInit => IInv
<1> SUFFICES ASSUME RxInit PROVE IInv
  OBVIOUS
<1>1. pcmd \in Word
  BY DEF RxInit, Word
<1>2. \A i \in Client : toClient[i] = <<>>
  BY DEF RxInit
<1>3. rx_psel = pcmd.sel
  BY DEF RxInit
<1>4. /\ fromHost = <<>> /\ fifo_rddata \in Word /\ toClient \in [Client -> Seq(Word)]
      /\ rx_data_valid = FALSE /\ rx_dcnt = 0 /\ rx_psel = FALSE
  BY DEF RxInit
<1>5. Len(<<>>) = 0 /\ <<>> \in Seq(Word)
  OBVIOUS
<1>6. Len(fromHost) <= HostDepth /\ \A i \in Client : Len(toClient[i]) <= Depth
  BY <1>2, <1>4, <1>5
<1>7. RxTypeOK
  <2>1. fromHost \in Seq(Word)
    BY <1>4, <1>5
  <2>2. rx_dcnt \in 0..16
    BY <1>4
  <2>3. rx_data_valid \in BOOLEAN /\ rx_psel \in BOOLEAN
    BY <1>4, Zenon
  <2> QED
    BY <1>1, <1>4, <1>6, <2>1, <2>2, <2>3 DEF RxTypeOK
<1> QED
  BY <1>3, <1>4, <1>7 DEF IInv, SelectionKept

\* One clock edge, with what the host offers and which clients read, keeps
\* the invariant.
LEMMA RxClockIInv ==
    ASSUME IInv, NEW ws \in Offer(Word), NEW rd \in SUBSET Client, RxClock(ws, rd)
    PROVE  IInv'
<1> USE DEF IInv
<1> DEFINE add(i) == IF wren(i) THEN <<fifo_rddata>> ELSE <<>>
<1>1. /\ cmd \in Word /\ rx_sel \in BOOLEAN /\ fifo_rden \in BOOLEAN
      /\ RxCount \in 0..16
      /\ \A i \in Client : wren(i) \in BOOLEAN
  BY RxWireType
<1>2. ws \in Seq(Word) /\ Len(ws) \in 0..1
  BY OfferType
<1>3. /\ fromHost' = FifoNext(fromHost, fifo_rden, ws)
      /\ Len(fromHost) + Len(ws) <= HostDepth
      /\ fifo_rden => fromHost # <<>>
  BY DEF RxClock, fifo_rden
<1>4. fromHost' \in Seq(Word) /\ Len(fromHost') <= HostDepth
  <2>1. fromHost \in Seq(Word) /\ Len(fromHost) \in Nat
    BY DEF RxTypeOK
  <2>2. /\ FifoNext(fromHost, fifo_rden, ws) \in Seq(Word)
        /\ Len(FifoNext(fromHost, fifo_rden, ws)) =
             (IF fifo_rden THEN Len(fromHost) - 1 ELSE Len(fromHost)) + Len(ws)
    BY <1>1, <1>2, <1>3, <2>1, RxFifoNextType DEF FifoNext
  <2> QED
    BY <1>2, <1>3, <2>1, <2>2
<1>5. fifo_rddata' \in Word
  BY <1>1 DEF RxClock, RxTypeOK, fifo_rden
<1>6. ASSUME NEW i \in Client
      PROVE  /\ toClient'[i] = FifoNext(toClient[i], i \in rd, add(i))
             /\ toClient'[i] \in Seq(Word)
             /\ Len(toClient'[i]) =
                  (IF i \in rd THEN Len(toClient[i]) - 1 ELSE Len(toClient[i]))
                    + (IF wren(i) THEN 1 ELSE 0)
             /\ Len(toClient[i]) \in 0..Depth
             /\ i \in rd => Len(toClient[i]) > 0
  <2>1. toClient'[i] = FifoNext(toClient[i], i \in rd, add(i))
    BY DEF RxClock
  <2>2. toClient[i] \in Seq(Word) /\ Len(toClient[i]) \in 0..Depth
    BY DEF RxTypeOK
  <2>3. i \in rd => toClient[i] # <<>>
    BY DEF RxClock
  <2>4. add(i) \in Seq(Word) /\ Len(add(i)) = IF wren(i) THEN 1 ELSE 0
    BY <1>1 DEF RxTypeOK
  <2>5. i \in rd => Len(toClient[i]) > 0
    BY <2>2, <2>3
  <2> HIDE DEF add
  <2>7. /\ FifoNext(toClient[i], i \in rd, add(i)) \in Seq(Word)
        /\ Len(FifoNext(toClient[i], i \in rd, add(i))) =
             (IF i \in rd THEN Len(toClient[i]) - 1 ELSE Len(toClient[i])) + Len(add(i))
    <3>1. CASE i \in rd
      <4>1. FifoNext(toClient[i], i \in rd, add(i)) = Tail(toClient[i]) \o add(i)
        BY <3>1 DEF FifoNext
      <4>2. /\ Tail(toClient[i]) \o add(i) \in Seq(Word)
            /\ Len(Tail(toClient[i]) \o add(i)) = Len(toClient[i]) - 1 + Len(add(i))
        BY <2>2, <2>3, <2>4, <3>1, RxFifoNextType
      <4> QED
        BY <3>1, <4>1, <4>2, Zenon
    <3>2. CASE i \notin rd
      <4>1. FifoNext(toClient[i], i \in rd, add(i)) = toClient[i] \o add(i)
        BY <3>2 DEF FifoNext
      <4>2. /\ toClient[i] \o add(i) \in Seq(Word)
            /\ Len(toClient[i] \o add(i)) = Len(toClient[i]) + Len(add(i))
        BY <2>2, <2>4, RxFifoNextType
      <4> QED
        BY <3>2, <4>1, <4>2, Zenon
    <3> QED
      BY <3>1, <3>2
  <2> QED
    BY <2>1, <2>2, <2>4, <2>5, <2>7 DEF FifoNext
<1>7. toClient' \in [Client -> Seq(Word)]
  BY <1>6 DEF RxClock
<1>8. \A i \in Client : Len(toClient'[i]) <= Depth
  <2>1. \A i \in Client : wren(i) => Len(toClient[i]) # Depth
    BY DEF wren, rx_wrfull
  <2> SUFFICES ASSUME NEW i \in Client PROVE Len(toClient'[i]) <= Depth
    OBVIOUS
  <2>2. Len(toClient[i]) \in 0..Depth /\ (wren(i) => Len(toClient[i]) # Depth)
    BY <1>6, <2>1
  <2>3. Len(toClient'[i]) = (IF i \in rd THEN Len(toClient[i]) - 1 ELSE Len(toClient[i]))
                         + (IF wren(i) THEN 1 ELSE 0)
    BY <1>6
  <2>4. CASE wren(i)
    BY <2>2, <2>3, <2>4
  <2>5. CASE ~wren(i)
    BY <2>2, <2>3, <2>5
  <2> QED
    BY <2>4, <2>5
<1>9. RxTypeOK'
  BY <1>1, <1>4, <1>5, <1>7, <1>8 DEF RxTypeOK, RxClock, RxArbitrate
<1>10. SelectionKept'
  BY <1>1 DEF SelectionKept, RxTypeOK, RxClock, RxArbitrate, rx_sel, cmd
<1>11. rx_data_valid' => \A i \in Client : ~rx_wrfull(i)'
  <2>1. rx_data_valid' => \A i \in Client : ~wren(i) /\ Len(toClient[i]) # Depth
    BY DEF RxClock, RxArbitrate, fifo_rden, rx_wrfull
  <2> QED
    BY <1>6, <2>1 DEF rx_wrfull
<1> QED
  BY <1>9, <1>10, <1>11

\* IInv is inductive.
LEMMA RxStepIInv == IInv /\ [RxNext]_rxVars => IInv'
<1>1. ASSUME IInv, RxNext PROVE IInv'
  BY <1>1, RxClockIInv DEF RxNext
<1>2. ASSUME IInv, UNCHANGED rxVars PROVE IInv'
  BY <1>2 DEF IInv, RxTypeOK, SelectionKept, rx_wrfull, rxVars, rxArbiter
<1> QED
  BY <1>1, <1>2

\* The inductive invariant, and with it the types of the registers and the
\* bound on every FIFO, holds in every reachable state.
THEOREM RxInvariance == RxSpec => []IInv
<1> QED
  BY RxInitIInv, RxStepIInv, PTL DEF RxSpec

\* Every word fetched from the host FIFO is written to a client FIFO in the
\* next cycle: the full test of the write enables never discards one.
THEOREM NothingDropped == RxSpec => []NoDrop
<1>1. IInv => NoDrop
  BY RxWireType DEF IInv, NoDrop, wren
<1> QED
  BY <1>1, RxInvariance, PTL

-----------------------------------------------------------------------------
(* The receive arbiter implements PacketRouter.                            *)

\* The router's instance of HostFifoPkg is the arbiter's.
LEMMA RxSameLink ==
    /\ Router!Client = Client
    /\ Router!fifo_payload = fifo_payload
    /\ \A w : Router!ClientOf(w) = ClientOf(w)
    /\ \A q, read, ws : Router!FifoNext(q, read, ws) = FifoNext(q, read, ws)
    /\ Router!Offer(Router!Word) = Offer(Word)
BY DEF Router!Client, Router!fifo_payload, fifo_payload, Router!ClientOf, ClientOf,
       Router!FifoNext, FifoNext, Router!Offer, Offer, Router!Word, Word

\* The initial states are those of PacketRouter.
LEMMA RxInitRouter == RxInit => Router!Init
<1> SUFFICES ASSUME RxInit PROVE Router!Init
  OBVIOUS
<1>1. (IF rx_data_valid THEN <<fifo_rddata>> ELSE <<>>) \o fromHost = <<>>
  BY DEF RxInit
<1>2. (IF rx_psel THEN 1 ELSE 2) \in Client
  OBVIOUS
<1> QED
  BY <1>1, <1>2, RxSameLink DEF RxInit, Router!Init

\* At an edge at which a word is in flight, the router routes that word.
LEMMA RxClockRoute ==
    ASSUME IInv, rx_data_valid, NEW ws \in Offer(Word), NEW rd \in SUBSET Client,
           RxClock(ws, rd)
    PROVE  Router!Route(ws, rd)
<1> DEFINE src == (IF rx_data_valid THEN <<fifo_rddata>> ELSE <<>>) \o fromHost
           target == IF rx_dcnt = 0 THEN ClientOf(Head(src))
                     ELSE IF rx_psel THEN 1 ELSE 2
<1>1. RxTypeOK /\ SelectionKept /\ \A i \in Client : ~rx_wrfull(i)
  BY DEF IInv
<1>2. ws \in Seq(Word)
  BY OfferType
<1>3. /\ src = <<fifo_rddata>> \o fromHost
      /\ src # <<>> /\ Head(src) = fifo_rddata /\ Tail(src) = fromHost
  BY <1>1 DEF RxTypeOK
<1> HIDE DEF src
<1>4. rx_sel \in BOOLEAN /\ target = (IF rx_sel THEN 1 ELSE 2)
  BY <1>1, <1>3, RxWireType DEF rx_sel, cmd, ClientOf
<1>5. target \in Client
  BY <1>4
<1> HIDE DEF target
<1>6. \A i \in Client : wren(i) = (i = target)
  BY <1>1, <1>4 DEF wren
<1>7. Len(toClient[target]) < Depth
  BY <1>1, <1>5 DEF RxTypeOK, rx_wrfull
<1>8. ~fifo_rden
  BY <1>5, <1>6 DEF fifo_rden
<1>9. ((IF rx_data_valid THEN <<fifo_rddata>> ELSE <<>>) \o fromHost)' = Tail(src) \o ws
  <2>1. fromHost' = fromHost \o ws /\ rx_data_valid' = FALSE
    BY <1>8 DEF RxClock, RxArbitrate, FifoNext
  <2>2. fromHost \o ws \in Seq(Word)
    BY <1>1, <1>2 DEF RxTypeOK
  <2> QED
    BY <1>3, <2>1, <2>2
<1>10. toClient' = [i \in Client |->
                  FifoNext(toClient[i], i \in rd,
                           IF i = target THEN <<Head(src)>> ELSE <<>>)]
  BY <1>3, <1>6 DEF RxClock
<1>11. rx_dcnt' = IF rx_dcnt = 0 THEN fifo_payload[Head(src).cnt] ELSE rx_dcnt - 1
  BY <1>3 DEF RxClock, RxArbitrate, RxCount, cmd
<1>12. (IF rx_psel THEN 1 ELSE 2)' = target
  BY <1>4 DEF RxClock, RxArbitrate
<1> QED
  BY <1>3, <1>7, <1>9, <1>10, <1>11, <1>12, RxSameLink DEF Router!Route, src, target

\* At an edge at which none is, the router waits: fetching a word from the
\* host FIFO changes nothing of what the router sees.
LEMMA RxClockWait ==
    ASSUME IInv, ~rx_data_valid, NEW ws \in Offer(Word), NEW rd \in SUBSET Client,
           RxClock(ws, rd)
    PROVE  Router!Wait(ws, rd)
<1>1. RxTypeOK /\ SelectionKept
  BY DEF IInv
<1>2. ws \in Seq(Word)
  BY OfferType
<1>3. ((IF rx_data_valid THEN <<fifo_rddata>> ELSE <<>>) \o fromHost)'
        = ((IF rx_data_valid THEN <<fifo_rddata>> ELSE <<>>) \o fromHost) \o ws
  <2>1. fromHost \in Seq(Word)
    BY <1>1 DEF RxTypeOK
  <2>2. CASE fifo_rden
    <3>1. /\ rx_data_valid' = TRUE /\ fifo_rddata' = Head(fromHost)
          /\ fromHost' = Tail(fromHost) \o ws /\ fromHost # <<>>
      BY <2>2 DEF RxClock, RxArbitrate, FifoNext, fifo_rden
    <3>2. fromHost = <<Head(fromHost)>> \o Tail(fromHost)
      BY <2>1, <3>1
    <3>3. Head(fromHost) \in Word /\ Tail(fromHost) \in Seq(Word)
      BY <2>1, <3>1
    <3>4. <<Head(fromHost)>> \o (Tail(fromHost) \o ws)
            = (<<Head(fromHost)>> \o Tail(fromHost)) \o ws
      BY <1>2, <3>3
    <3>5. ((IF rx_data_valid THEN <<fifo_rddata>> ELSE <<>>) \o fromHost)'
            = <<Head(fromHost)>> \o (Tail(fromHost) \o ws)
      BY <3>1
    <3>6. (IF rx_data_valid THEN <<fifo_rddata>> ELSE <<>>) \o fromHost = fromHost
      BY <2>1
    <3> QED
      BY <3>2, <3>4, <3>5, <3>6
  <2>3. CASE ~fifo_rden
    <3>1. fromHost' = fromHost \o ws /\ rx_data_valid' = FALSE
      BY <2>3 DEF RxClock, RxArbitrate, FifoNext
    <3>2. fromHost \o ws \in Seq(Word)
      BY <1>2, <2>1
    <3> QED
      BY <2>1, <3>1, <3>2
  <2> QED
    BY <2>2, <2>3
<1>4. toClient' = [i \in Client |-> FifoNext(toClient[i], i \in rd, <<>>)]
  BY DEF RxClock, wren
<1>5. rx_dcnt' = rx_dcnt
  BY DEF RxClock, RxArbitrate, RxCount
<1>6. rx_psel' = rx_psel
  BY <1>1 DEF RxClock, RxArbitrate, rx_sel, cmd, SelectionKept
<1> QED
  BY <1>3, <1>4, <1>5, <1>6, RxSameLink DEF Router!Wait

\* Every step is one of PacketRouter, or a stutter.
LEMMA RxStepRouter == IInv /\ [RxNext]_rxVars => [Router!Next]_(Router!vars)
<1>1. ASSUME IInv, NEW ws \in Offer(Word), NEW rd \in SUBSET Client, RxClock(ws, rd)
      PROVE  Router!Next
  <2>1. \A i \in rd : toClient[i] # <<>>
    BY <1>1 DEF RxClock
  <2>2. Router!Route(ws, rd) \/ Router!Wait(ws, rd)
    BY <1>1, RxClockRoute, RxClockWait
  <2> QED
    BY <2>1, <2>2, RxSameLink DEF Router!Next
<1>2. ASSUME UNCHANGED rxVars PROVE UNCHANGED Router!vars
  BY <1>2 DEF rxVars, rxArbiter, Router!vars
<1> QED
  BY <1>1, <1>2 DEF RxNext

\* For all depths and words the arbiter implements the abstract router:
\* every packet reaches its client whole, in order, once, and payload words
\* never choose a client.
THEOREM Routing == RxSpec => RoutesPackets
<1> QED
  BY RxInitRouter, RxStepRouter, RxInvariance, PTL DEF RxSpec, RoutesPackets, Router!Spec
=============================================================================
