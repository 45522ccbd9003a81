-------------------------- MODULE HostSlaveProofs ---------------------------
(***************************************************************************)
(* Proofs about HostSlave for every base of a byte, depth of the FIFO and  *)
(* set of transfers.  Inv is inductive: the count that trails by a cycle   *)
(* is harmless because the bytes still to come are exactly those of the    *)
(* host's answer (Heeded), the host answers only a request heard whole,    *)
(* and a byte lost at the full FIFO never is a header (Asked).  The two    *)
(* action properties follow from it: errors take two cycles (TwoCycle),    *)
(* and until a byte is lost the slave implements RemoteSlave.              *)
(*                                                                         *)
(* Lemmas whose name ends in Type say what kind of value something is, in  *)
(* Step that an action keeps Inv, in Implements that it maps to a step of  *)
(* RemoteSlave.                                                            *)
(***************************************************************************)
EXTENDS HostSlave, SequenceTheorems, TLAPS

-----------------------------------------------------------------------------
(* Bytes, packets and lanes.                                               *)

Sized == [write : BOOLEAN, size : 0..2, addr : Nat]

\* What 2 to the size of a transfer is.
LEMMA Powers == 2^0 = 1 /\ 2^1 = 2 /\ 2^2 = 4
  BY SMT

LEMMA SizePower == \A n \in 0..2 : 2^n \in {1, 2, 4} /\ 2^n \in Nat
<1> TAKE n \in 0..2
<1>1. CASE n = 0
  BY <1>1, Powers
<1>2. CASE n = 1
  BY <1>2, Powers
<1>3. CASE n = 2
  BY <1>3, Powers
<1> QED
  BY <1>1, <1>2, <1>3

\* A function on 1..n is a sequence of length n.
LEMMA Tuple ==
    ASSUME NEW S, NEW n \in Nat, NEW f \in [1..n -> S]
    PROVE  f \in Seq(S) /\ Len(f) = n
  OBVIOUS

\* Digits are bytes.
LEMMA DigitsType ==
    ASSUME NEW v \in Nat, NEW n \in Nat
    PROVE  Digits(v, n) \in [1..n -> Byte] /\ Digits(v, n) \in Seq(Byte) /\ Len(Digits(v, n)) = n
<1>1. ASSUME NEW k \in 1..n
      PROVE  (v \div B^(n - k)) % B \in Byte
  <2>1. B^(n - k) \in Int
    BY BAssumption
  <2> QED
    BY <2>1, BAssumption DEF Byte
<1>2. Digits(v, n) \in [1..n -> Byte]
  BY <1>1 DEF Digits
<1> QED
  BY <1>2, Tuple

\* The transfers of the bus.
LEMMA TransferType ==
    \A t \in Transfers :
        t.write \in BOOLEAN /\ t.size \in 0..2 /\ t.addr \in Nat /\ t.data \in Nat
  BY TransfersAssumption

\* The header of a request.
LEMMA HeaderType ==
    ASSUME NEW t \in Transfers
    PROVE  /\ Header(t) \in Item
           /\ Header(t).write = t.write /\ Header(t).size = t.size
           /\ PacketLen(Header(t)) = 5 + (IF t.write THEN 2^t.size ELSE 0)
           /\ PacketLen(Header(t)) \in 5..9
<1>0. t.write \in BOOLEAN /\ t.size \in 0..2
  BY TransferType
<1>1. t.size = 0 \/ t.size = 1 \/ t.size = 2
  BY <1>0
<1>2. (IF ~t.write THEN 3 ELSE <<4, 5, 6>>[t.size + 1]) \in 3..6
  BY <1>1
<1>3. Header(t) \in Item /\ Header(t).write = t.write /\ Header(t).size = t.size
  BY <1>0, <1>2 DEF Header, Item
<1>4. PacketLen(Header(t)) = 5 + (IF t.write THEN 2^t.size ELSE 0)
  BY <1>3 DEF PacketLen
<1>5. PacketLen(Header(t)) \in 5..9
  <2>1. 2^t.size \in {1, 2, 4}
    BY <1>0, SizePower
  <2> HIDE DEF PacketLen, Header
  <2>2. CASE t.write
    <3>1. PacketLen(Header(t)) = 5 + 2^t.size
      BY <1>4, <2>2
    <3> QED
      BY <2>1, <3>1
  <2>3. CASE ~t.write
    BY <1>4, <2>3
  <2> QED
    BY <2>2, <2>3
<1> QED
  BY <1>3, <1>4, <1>5

\* A request is its header and then the bytes of address and data.
LEMMA PacketType ==
    ASSUME NEW t \in Transfers, NEW d \in Seq(Byte)
    PROVE  /\ Packet(t, d) \in Seq(Item)
           /\ Len(Packet(t, d)) = 5 + Len(d)
           /\ Packet(t, d)[1] = Header(t)
<1> DEFINE a == Digits(t.addr, 4)
           p == a \o d
           q == [k \in 1..Len(p) |-> [data |-> p[k]]]
<1>1. a \in Seq(Byte) /\ Len(a) = 4
  BY TransferType, DigitsType
<1>2. p \in Seq(Byte) /\ Len(p) = 4 + Len(d) /\ Len(p) \in Nat /\ Len(d) \in Nat
  <2> HIDE DEF a
  <2>1. p \in Seq(Byte) /\ Len(p) = Len(a) + Len(d)
    BY <1>1, ConcatProperties
  <2> QED
    BY <1>1, <2>1
<1>3. q \in [1..Len(p) -> Item]
  <2>1. \A k \in 1..Len(p) : p[k] \in Byte
    BY <1>2
  <2>2. \A k \in 1..Len(p) : [data |-> p[k]] \in Item
    BY <2>1 DEF Item
  <2> HIDE DEF p
  <2> QED
    BY <2>2
<1>4. q \in Seq(Item) /\ Len(q) = Len(p)
  <2> HIDE DEF p, q
  <2> QED
    BY <1>2, <1>3, Tuple
<1>5. Packet(t, d) = <<Header(t)>> \o q
  BY DEF Packet
<1> HIDE DEF a, p, q
<1>6. <<Header(t)>> \in Seq(Item) /\ Len(<<Header(t)>>) = 1 /\ <<Header(t)>>[1] = Header(t)
  BY HeaderType
<1>7. /\ Packet(t, d) \in Seq(Item)
      /\ Len(Packet(t, d)) = 1 + Len(q)
      /\ Packet(t, d)[1] = Header(t)
  BY <1>4, <1>5, <1>6
<1> QED
  BY <1>2, <1>4, <1>7

\* The request for a read and for a write.
LEMMA PacketReadType ==
    ASSUME NEW t \in Transfers, ~t.write
    PROVE  /\ Packet(t, <<>>) \in Seq(Item)
           /\ Len(Packet(t, <<>>)) = PacketLen(Header(t))
           /\ Packet(t, <<>>)[1] = Header(t)
           /\ PacketLen(Header(t)) = 5
<1>1. PacketLen(Header(t)) = 5
  BY HeaderType
<1> DEFINE d == <<>>
<1>2. d \in Seq(Byte) /\ Len(d) = 0
  OBVIOUS
<1> HIDE DEF d
<1>3. Packet(t, d) \in Seq(Item) /\ Len(Packet(t, d)) = 5 + Len(d) /\ Packet(t, d)[1] = Header(t)
  BY <1>2, PacketType
<1>4. 5 + Len(d) = 5
  BY <1>2
<1> QED
  BY <1>1, <1>3, <1>4 DEF d

LEMMA PacketWriteType ==
    ASSUME NEW t \in Transfers, t.write,
           NEW d \in Seq(Byte), Len(d) = 2^t.size
    PROVE  /\ Packet(t, d) \in Seq(Item)
           /\ Len(Packet(t, d)) = PacketLen(Header(t))
           /\ Packet(t, d)[1] = Header(t)
<1>1. PacketLen(Header(t)) = 5 + 2^t.size
  BY HeaderType
<1>2. Packet(t, d) \in Seq(Item) /\ Len(Packet(t, d)) = 5 + Len(d) /\ Packet(t, d)[1] = Header(t)
  BY PacketType
<1> QED
  BY <1>1, <1>2

\* Where in a word the lanes of a transfer lie.
Low(a, n) == (a % 4) - (a % n)

LEMMA LowRange ==
    \A a \in Nat, n \in {1, 2, 4} :
        /\ Low(a, n) \in 0..3 /\ Low(a, n) + n <= 4
        /\ \A j \in 0..(n - 1) : (Low(a, n) + j) % n = j
<1> TAKE a \in Nat, n \in {1, 2, 4}
<1>1. CASE n = 1
  BY <1>1 DEF Low
<1>2. CASE n = 2
  <2>1. Low(a, 2) = 0 \/ Low(a, 2) = 2
    BY DEF Low
  <2> QED
    BY <1>2, <2>1
<1>3. CASE n = 4
  <2>1. Low(a, 4) = 0
    BY DEF Low
  <2> QED
    BY <1>3, <2>1
<1> QED
  BY <1>1, <1>2, <1>3

\* The lanes of a word, one by one.
LEMMA LaneAt ==
    ASSUME NEW w, NEW t, t.size \in 0..2, t.addr \in Nat, NEW k \in 1..2^t.size
    PROVE  Lane(w, t)[k] = w[Low(t.addr, 2^t.size) + 2^t.size - k + 1]
  BY DEF Lane, Low

LEMMA LaneType ==
    ASSUME NEW w \in [1..4 -> Byte], NEW t, t.size \in 0..2, t.addr \in Nat
    PROVE  Lane(w, t) \in [1..2^t.size -> Byte]
<1> DEFINE n == 2^t.size
           low == Low(t.addr, n)
<1>1. n \in {1, 2, 4}
  BY SizePower
<1>2. low \in 0..3 /\ low + n <= 4
  BY <1>1, LowRange
<1>3. Lane(w, t) = [k \in 1..n |-> w[low + n - k + 1]]
  BY DEF Lane, Low
<1> HIDE DEF n, low
<1>4. \A k \in 1..n : low + n - k + 1 \in 1..4
  BY <1>1, <1>2
<1>5. Lane(w, t) \in [1..n -> Byte]
  BY <1>3, <1>4
<1> QED
  BY <1>5 DEF n

\* The bytes a transfer writes are found again in its lanes.
LEMMA LaneWritten ==
    ASSUME NEW t, t.size \in 0..2, t.addr \in Nat, t.data \in Nat, NEW junk \in Byte
    PROVE  Lane(HWDATA(t, junk), t) = Digits(t.data, 2^t.size)
<1> DEFINE n == 2^t.size
           low == Low(t.addr, n)
           ds == Digits(t.data, n)
           W == HWDATA(t, junk)
<1>1. n \in {1, 2, 4}
  BY SizePower
<1>2. low \in 0..3 /\ low + n <= 4
  BY <1>1, LowRange
<1>3. Lane(W, t) = [k \in 1..n |-> W[low + n - k + 1]]
  BY DEF Lane, Low
<1>4. W = [k \in 1..4 |-> IF k \in (low + 1)..(low + n) THEN ds[low + n - k + 1] ELSE junk]
  BY DEF HWDATA, Low
<1>5. ds \in [1..n -> Byte]
  BY <1>1, DigitsType
<1> HIDE DEF n, low, ds, W
<1>6. ASSUME NEW k \in 1..n
      PROVE  W[low + n - k + 1] = ds[k]
  <2>1. /\ low + n - k + 1 \in 1..4
        /\ low + n - k + 1 \in (low + 1)..(low + n)
        /\ low + n - (low + n - k + 1) + 1 = k
    BY <1>1, <1>2
  <2> QED
    BY <1>4, <2>1
<1>7. Lane(W, t) = [k \in 1..n |-> ds[k]]
  BY <1>3, <1>6
<1>8. Lane(W, t) = ds
  BY <1>5, <1>7
<1> QED
  BY <1>8 DEF n, ds, W

\* The replicated bytes of an answer are the last ones taken in, in order.
LEMMA LaneReplicated ==
    ASSUME NEW t, t.size \in 0..2, t.addr \in Nat, req.size = t.size,
           dati \in [1..5 -> Byte]
    PROVE  Lane(Replicated, t) = [k \in 1..2^t.size |-> dati[5 - 2^t.size + k]]
<1> DEFINE n == 2^t.size
           low == Low(t.addr, n)
           R == Replicated
<1>1. n \in {1, 2, 4}
  BY SizePower
<1>2. /\ low \in 0..3 /\ low + n <= 4
      /\ \A j \in 0..(n - 1) : (low + j) % n = j
  BY <1>1, LowRange
<1>3. Lane(R, t) = [k \in 1..n |-> R[low + n - k + 1]]
  BY DEF Lane, Low
<1>4. R = [k \in 1..4 |-> dati[5 - ((k - 1) % n)]]
  BY DEF Replicated
<1> HIDE DEF n, low, R
<1>5. ASSUME NEW k \in 1..n
      PROVE  R[low + n - k + 1] = dati[5 - n + k]
  <2> DEFINE i == low + n - k + 1
  <2>1. i \in 1..4 /\ i - 1 = low + (n - k)
    BY <1>1, <1>2
  <2>2. n - k \in 0..(n - 1)
    BY <1>1
  <2>3. (low + (n - k)) % n = n - k
    BY <1>2, <2>2
  <2>4. 5 - (n - k) = 5 - n + k
    BY <1>1
  <2>5. R[i] = dati[5 - (n - k)]
    <3> HIDE DEF i
    <3> QED
      BY <1>4, <2>1, <2>3
  <2> QED
    BY <2>4, <2>5
<1>6. Lane(R, t) = [k \in 1..n |-> dati[5 - n + k]]
  BY <1>3, <1>5
<1> QED
  BY <1>6 DEF n, R

-----------------------------------------------------------------------------
(* The bytes on the way to the host.                                       *)

Registered == IF WREN THEN <<WRDATA>> ELSE <<>>

LEMMA RegisteredType == TypeOK => Registered \in Seq(Item) /\ Len(Registered) = IF WREN THEN 1 ELSE 0
  BY DEF TypeOK, Registered

LEMMA ItemZero == Zero \in Item
  BY BAssumption DEF Zero, Item, Byte

LEMMA FirstBytes ==
    ASSUME NEW s \in Seq(Item), NEW n \in 0..Len(s)
    PROVE  SubSeq(s, 1, n) \in Seq(Item) /\ Len(SubSeq(s, 1, n)) = n
<1>1. \A i \in 1..n : s[i] \in Item
  BY ElementOfSeq
<1> QED
  BY <1>1, SubSeqProperties

LEMMA OutgoingType ==
    TypeOK => /\ Outgoing \in Seq(Item)
              /\ Len(Outgoing) = Len(fifo) + (IF WREN THEN 1 ELSE 0) + ocnt
<1> SUFFICES ASSUME TypeOK
             PROVE  /\ Outgoing \in Seq(Item)
                    /\ Len(Outgoing) = Len(fifo) + (IF WREN THEN 1 ELSE 0) + ocnt
  OBVIOUS
<1> DEFINE d == SubSeq(dato, 1, ocnt)
<1>1. d \in Seq(Item) /\ Len(d) = ocnt
  BY FirstBytes DEF TypeOK
<1>2. Registered \in Seq(Item) /\ Len(Registered) = IF WREN THEN 1 ELSE 0
  BY RegisteredType
<1>3. fifo \in Seq(Item)
  BY DEF TypeOK
<1>4. Outgoing = (fifo \o Registered) \o d
  BY DEF Outgoing, Registered
<1> HIDE DEF d
<1>5. fifo \o Registered \in Seq(Item) /\ Len(fifo \o Registered) = Len(fifo) + Len(Registered)
  BY <1>2, <1>3, ConcatProperties
<1>6. Outgoing \in Seq(Item) /\ Len(Outgoing) = Len(fifo \o Registered) + Len(d)
  BY <1>1, <1>4, <1>5, ConcatProperties
<1> QED
  BY <1>1, <1>2, <1>5, <1>6

\* The elements from m to n of a sequence are those of the sequence.
LEMMA Part ==
    ASSUME NEW S, NEW s \in Seq(S), NEW m \in 1..(Len(s) + 1), NEW n \in (m - 1)..Len(s)
    PROVE  /\ SubSeq(s, m, n) \in Seq(S) /\ Len(SubSeq(s, m, n)) = n - m + 1
           /\ \A i \in 1..(n - m + 1) : SubSeq(s, m, n)[i] = s[m + i - 1]
<1>1. \A i \in m..n : s[i] \in S
  BY ElementOfSeq
<1>2. /\ SubSeq(s, m, n) \in Seq(S)
      /\ Len(SubSeq(s, m, n)) = IF m <= n THEN n - m + 1 ELSE 0
      /\ \A i \in 1..(n - m + 1) : SubSeq(s, m, n)[i] = s[m + i - 1]
  BY <1>1, SubSeqProperties
<1> QED
  BY <1>2

\* Shifting a sequence by one and filling it up at its end.
LEMMA Shift ==
    ASSUME NEW S, NEW s \in Seq(S), s # <<>>, NEW z \in S
    PROVE  /\ Append(Tail(s), z) \in Seq(S) /\ Len(Append(Tail(s), z)) = Len(s)
           /\ \A i \in 1..(Len(s) - 1) : Append(Tail(s), z)[i] = s[i + 1]
           /\ Append(Tail(s), z)[Len(s)] = z
<1>1. /\ Tail(s) \in Seq(S) /\ Len(Tail(s)) = Len(s) - 1 /\ Len(s) \in Nat
      /\ \A i \in 1..Len(Tail(s)) : Tail(s)[i] = s[i + 1]
  BY HeadTailProperties
<1> QED
  BY <1>1, AppendProperties

LEMMA ShiftFirst ==
    ASSUME NEW S, NEW s \in Seq(S), NEW z \in S, NEW n \in 1..Len(s)
    PROVE  SubSeq(Append(Tail(s), z), 1, n - 1) = SubSeq(s, 2, n)
<1> DEFINE a == Append(Tail(s), z)
           p == SubSeq(a, 1, n - 1)
           q == SubSeq(s, 2, n)
<1>1. /\ a \in Seq(S) /\ Len(a) = Len(s)
      /\ \A i \in 1..(Len(s) - 1) : a[i] = s[i + 1]
  BY Shift
<1>2. /\ q \in Seq(S) /\ Len(q) = n - 1
      /\ \A i \in 1..(n - 1) : q[i] = s[i + 1]
  BY Part
<1> HIDE DEF a
<1>3. /\ p \in Seq(S) /\ Len(p) = n - 1
      /\ \A i \in 1..(n - 1) : p[i] = a[i]
  <2>1. 1 \in 1..(Len(a) + 1) /\ n - 1 \in (1 - 1)..Len(a)
    BY <1>1
  <2> QED
    BY <1>1, <2>1, Part
<1>4. \A i \in 1..Len(p) : p[i] = q[i]
  BY <1>1, <1>2, <1>3
<1> HIDE DEF p, q
<1>5. p = q
  BY <1>2, <1>3, <1>4, SeqEqual
<1> QED
  BY <1>5 DEF a, p, q

\* The shift register after a byte has been taken from it.
LEMMA ShiftedType ==
    TypeOK => /\ Shifted \in Seq(Item) /\ Len(Shifted) = 9
              /\ puts => SubSeq(Shifted, 1, ocnt - 1) = SubSeq(dato, 2, ocnt)
              /\ ~puts => Shifted = dato
<1> SUFFICES ASSUME TypeOK, puts
             PROVE  /\ Shifted \in Seq(Item) /\ Len(Shifted) = 9
                    /\ SubSeq(Shifted, 1, ocnt - 1) = SubSeq(dato, 2, ocnt)
  BY DEF TypeOK, Shifted
<1>1. dato \in Seq(Item) /\ Len(dato) = 9 /\ dato # <<>> /\ ocnt \in 1..Len(dato)
  <2>1. dato \in Seq(Item) /\ Len(dato) = 9 /\ ocnt \in 0..9
    BY DEF TypeOK
  <2>2. dato # <<>>
    BY <2>1
  <2>3. ocnt # 0
    BY DEF puts
  <2> QED
    BY <2>1, <2>2, <2>3
<1>2. Shifted = Append(Tail(dato), Zero)
  BY DEF Shifted
<1> QED
  BY <1>1, <1>2, ItemZero, Shift, ShiftFirst

\* A request loaded is what is sent next.
LEMMA LoadType ==
    ASSUME TypeOK, NEW p \in Seq(Item), Len(p) >= 5, Len(p) <= 9, Load(p)
    PROVE  /\ dato' \in Seq(Item) /\ Len(dato') = 9
           /\ ocnt' = Len(p) /\ ocnt' \in 0..9
           /\ SubSeq(dato', 1, ocnt') = p
<1> DEFINE q == SubSeq(Shifted, Len(p) + 1, 9)
<1>1. Shifted \in Seq(Item) /\ Len(Shifted) = 9
  BY ShiftedType
<1>2. q \in Seq(Item) /\ Len(q) = 9 - Len(p)
  <2> DEFINE m == Len(p) + 1
             l == Len(Shifted)
  <2>1. m \in 1..(l + 1) /\ l \in (m - 1)..l /\ l = 9 /\ m \in Int /\ 9 - m + 1 = 9 - Len(p)
    BY <1>1
  <2>2. q = SubSeq(Shifted, m, l)
    BY <1>1
  <2> HIDE DEF m, q
  <2>3. q \in Seq(Item) /\ Len(q) = l - m + 1
    BY <1>1, <2>1, <2>2, Part
  <2> QED
    BY <2>1, <2>3
<1>3. dato' = p \o q /\ ocnt' = Len(p)
  BY DEF Load
<1> HIDE DEF q
<1>4. dato' \in Seq(Item) /\ Len(dato') = Len(p) + Len(q)
  BY <1>2, <1>3, ConcatProperties
<1>5. SubSeq(p \o q, 1, Len(p)) = p
  <2>1. 1 \in 1..Len(p) /\ Len(p) \in 1..Len(p)
    OBVIOUS
  <2> QED
    BY <1>2, <2>1, SubSeqOfConcat1, SubSeqFull
<1>6. Len(dato') = 9 /\ ocnt' \in 0..9
  <2> DEFINE n == Len(p)
  <2>1. n \in Nat /\ n >= 5 /\ n <= 9
    OBVIOUS
  <2>2. Len(dato') = n + Len(q) /\ Len(q) = 9 - n /\ ocnt' = n
    BY <1>2, <1>3, <1>4
  <2> HIDE DEF n
  <2> QED
    BY <2>1, <2>2
<1> QED
  BY <1>3, <1>4, <1>5, <1>6

LEMMA OutgoingFirst == TypeOK /\ fifo # <<>> => Outgoing # <<>> /\ Outgoing[1] = fifo[1]
<1> SUFFICES ASSUME TypeOK, fifo # <<>> PROVE Outgoing # <<>> /\ Outgoing[1] = fifo[1]
  OBVIOUS
<1> DEFINE d == SubSeq(dato, 1, ocnt)
<1>1. d \in Seq(Item)
  BY FirstBytes DEF TypeOK
<1>2. Registered \in Seq(Item)
  BY RegisteredType
<1>3. fifo \in Seq(Item)
  BY DEF TypeOK
<1>4. Outgoing = (fifo \o Registered) \o d
  BY DEF Outgoing, Registered
<1> HIDE DEF d
<1>5. /\ fifo \o Registered \in Seq(Item) /\ fifo \o Registered # <<>>
      /\ (fifo \o Registered)[1] = fifo[1]
  BY <1>2, <1>3
<1> QED
  BY <1>1, <1>4, <1>5

\* What the FIFO to the host takes in at an edge.
Written == fifo' = IF WREN /\ ~WRFULL THEN Append(fifo, WRDATA) ELSE fifo

LEMMA WrittenType == TypeOK /\ Written => fifo' \in Seq(Item) /\ Len(fifo') <= Depth
<1> SUFFICES ASSUME TypeOK, Written PROVE fifo' \in Seq(Item) /\ Len(fifo') <= Depth
  OBVIOUS
<1>1. /\ fifo \in Seq(Item) /\ WRDATA \in Item
      /\ Len(fifo) <= Depth /\ Len(fifo) \in Nat /\ Depth \in Nat
  BY DepthAssumption DEF TypeOK
<1>2. CASE WREN /\ ~WRFULL
  BY <1>1, <1>2 DEF Written, WRFULL
<1>3. CASE ~(WREN /\ ~WRFULL)
  BY <1>1, <1>3, Zenon DEF Written
<1> QED
  BY <1>2, <1>3

LEMMA KeepType ==
    TypeOK /\ PutByte /\ Keep =>
        /\ WREN' \in BOOLEAN /\ WRDATA' \in Item
        /\ dato' \in Seq(Item) /\ Len(dato') = 9 /\ ocnt' \in 0..9
<1> SUFFICES ASSUME TypeOK, PutByte, Keep
             PROVE  /\ WREN' \in BOOLEAN /\ WRDATA' \in Item
                    /\ dato' \in Seq(Item) /\ Len(dato') = 9 /\ ocnt' \in 0..9
  OBVIOUS
<1>1. WRDATA \in Item /\ dato \in Seq(Item) /\ Len(dato) = 9 /\ ocnt \in 0..9
  BY DEF TypeOK
<1>2. dato[1] \in Item
  <2>1. 1 \in 1..Len(dato)
    BY <1>1
  <2> QED
    BY <1>1, <2>1, ElementOfSeq, Zenon
<1>3. WRDATA' \in Item
  BY <1>1, <1>2 DEF PutByte
<1>4. WREN' \in BOOLEAN
  BY DEF PutByte, puts
<1>5. dato' \in Seq(Item) /\ Len(dato') = 9
  BY ShiftedType DEF Keep
<1>6. ocnt' \in 0..9
  BY <1>1 DEF Keep, puts
<1> QED
  BY <1>3, <1>4, <1>5, <1>6

\* At an edge the bytes on the way to the host stay the same, ...
LEMMA KeepSends ==
    TypeOK /\ PutByte /\ Keep /\ Written /\ ~(WREN /\ WRFULL) => Outgoing' = Outgoing
<1> SUFFICES ASSUME TypeOK, PutByte, Keep, Written, ~(WREN /\ WRFULL)
             PROVE  Outgoing' = Outgoing
  OBVIOUS
<1> DEFINE d == SubSeq(dato, 1, ocnt)
<1>1. /\ fifo \in Seq(Item) /\ WRDATA \in Item /\ dato \in Seq(Item)
      /\ Len(dato) = 9 /\ ocnt \in 0..9
  BY DEF TypeOK
<1>2. fifo' = fifo \o Registered
  <2>1. CASE WREN
    BY <1>1, <2>1 DEF Written, Registered
  <2>2. CASE ~WREN
    BY <1>1, <2>2 DEF Written, Registered
  <2> QED
    BY <2>1, <2>2
<1>3. Registered' \in Seq(Item) /\ d' \in Seq(Item) /\ d = Registered' \o d'
  <2>1. CASE puts
    <3>1. WREN' /\ WRDATA' = dato[1] /\ dato[1] \in Item
      BY <1>1, <2>1 DEF PutByte
    <3>2. Registered' = <<dato[1]>>
      BY <3>1 DEF Registered
    <3>3. d' = SubSeq(dato, 2, ocnt)
      BY <2>1, ShiftedType DEF Keep
    <3>4. ocnt \in 1..Len(dato) /\ 1 \in 1..Len(dato)
      BY <1>1, <2>1 DEF puts
    <3>5. d = <<dato[1]>> \o SubSeq(dato, 2, ocnt)
      <4>1. 1 + 1 = 2
        OBVIOUS
      <4>2. d = <<dato[1]>> \o SubSeq(dato, 1 + 1, ocnt)
        BY <1>1, <3>4, SubSeqRecursiveFirst
      <4> QED
        BY <4>1, <4>2
    <3>6. SubSeq(dato, 2, ocnt) \in Seq(Item)
      <4>1. 2 \in 1..(Len(dato) + 1) /\ ocnt \in (2 - 1)..Len(dato)
        BY <1>1, <3>4
      <4> QED
        BY <1>1, <4>1, Part
    <3>8. Registered' \in Seq(Item)
      BY <3>1, <3>2
    <3> HIDE DEF d
    <3>7. d = Registered' \o d' /\ d' \in Seq(Item)
      BY <3>2, <3>3, <3>5, <3>6
    <3> QED
      BY <3>7, <3>8
  <2>2. CASE ~puts
    <3>1. Registered' = <<>>
      BY <2>2 DEF PutByte, Registered
    <3>2. d' = d
      BY <2>2, ShiftedType DEF Keep
    <3>3. d \in Seq(Item)
      BY <1>1, FirstBytes
    <3> HIDE DEF d
    <3> QED
      BY <3>1, <3>2, <3>3
  <2> QED
    BY <2>1, <2>2
<1>4. Registered \in Seq(Item)
  BY RegisteredType
<1>5. Outgoing = (fifo \o Registered) \o d /\ Outgoing' = (fifo' \o Registered') \o d'
  BY DEF Outgoing, Registered
<1> HIDE DEF d
<1>6. ((fifo \o Registered) \o Registered') \o d' = (fifo \o Registered) \o (Registered' \o d')
  <2> DEFINE front == fifo \o Registered
             rest == d'
             put == Registered'
  <2>1. front \in Seq(Item) /\ put \in Seq(Item) /\ rest \in Seq(Item)
    BY <1>1, <1>3, <1>4
  <2> HIDE DEF front, rest, put
  <2>2. (front \o put) \o rest = front \o (put \o rest)
    BY ONLY <2>1, ConcatAssociative
  <2> QED
    BY <2>2 DEF front, rest, put
<1> QED
  BY <1>2, <1>3, <1>5, <1>6

\* ... but for a byte written to a full FIFO, which is not the first of them.
LEMMA KeepLoses ==
    TypeOK /\ TypeOK' /\ PutByte /\ Keep /\ Written /\ WREN /\ WRFULL =>
        /\ fifo' = fifo /\ fifo # <<>>
        /\ Len(Outgoing') = Len(Outgoing) - 1
        /\ Outgoing # <<>> /\ Outgoing' # <<>> /\ Outgoing'[1] = Outgoing[1]
<1> SUFFICES ASSUME TypeOK, TypeOK', PutByte, Keep, Written, WREN, WRFULL
             PROVE  /\ fifo' = fifo /\ fifo # <<>>
                    /\ Len(Outgoing') = Len(Outgoing) - 1
                    /\ Outgoing # <<>> /\ Outgoing' # <<>> /\ Outgoing'[1] = Outgoing[1]
  OBVIOUS
<1>1. fifo' = fifo /\ ~WREN' /\ ocnt' = ocnt /\ ocnt \in Nat
  <2>1. ~puts
    BY DEF puts
  <2>2. ocnt \in Nat
    BY DEF TypeOK
  <2> QED
    BY <2>1, <2>2 DEF Written, PutByte, Keep
<1>2. fifo # <<>> /\ Len(fifo) \in Nat
  BY DepthAssumption DEF WRFULL, TypeOK
<1>3. (TypeOK => /\ Outgoing \in Seq(Item)
                 /\ Len(Outgoing) = Len(fifo) + (IF WREN THEN 1 ELSE 0) + ocnt)'
  BY OutgoingType, PTL
<1>4. (TypeOK /\ fifo # <<>> => Outgoing # <<>> /\ Outgoing[1] = fifo[1])'
  BY OutgoingFirst, PTL
<1>5. Len(Outgoing') = Len(fifo) + ocnt
  BY <1>1, <1>2, <1>3
<1>6. Len(Outgoing) = Len(fifo) + 1 + ocnt
  BY OutgoingType
<1> QED
  BY <1>1, <1>2, <1>4, <1>5, <1>6, OutgoingFirst

-----------------------------------------------------------------------------
(* The bytes on the way from the host.                                     *)

Read == IF dvalid THEN <<RDDATA>> ELSE <<>>

LEMMA ReadType ==
    TypeOK => Read \in Seq(Byte) /\ Len(Read) = IF dvalid THEN 1 ELSE 0
  BY DEF TypeOK, Read

LEMMA DatiType == TypeOK => dati \in Seq(Byte) /\ Len(dati) = 5
<1>1. TypeOK => dati \in [1..5 -> Byte]
  BY DEF TypeOK
<1> QED
  BY <1>1, Tuple

LEMMA IncomingType ==
    TypeOK => /\ Incoming \in Seq(Byte)
              /\ Len(Incoming) = 5 + (IF dvalid THEN 1 ELSE 0) + Len(input)
<1> SUFFICES ASSUME TypeOK
             PROVE  /\ Incoming \in Seq(Byte)
                    /\ Len(Incoming) = 5 + (IF dvalid THEN 1 ELSE 0) + Len(input)
  OBVIOUS
<1>1. Read \in Seq(Byte) /\ Len(Read) = IF dvalid THEN 1 ELSE 0
  BY ReadType
<1>2. dati \in Seq(Byte) /\ Len(dati) = 5
  BY DatiType
<1>3. input \in Seq(Byte)
  BY DEF TypeOK
<1>4. Incoming = (dati \o Read) \o input
  BY DEF Incoming, Read
<1>5. dati \o Read \in Seq(Byte) /\ Len(dati \o Read) = Len(dati) + Len(Read)
  BY <1>1, <1>2, ConcatProperties
<1>6. Incoming \in Seq(Byte) /\ Len(Incoming) = Len(dati \o Read) + Len(input)
  BY <1>3, <1>4, <1>5, ConcatProperties
<1> QED
  BY <1>1, <1>2, <1>5, <1>6

\* What an edge takes from the FIFO from the host.
Fetch ==
    /\ dvalid' \in BOOLEAN
    /\ dvalid' => input # <<>>
    /\ RDDATA' = IF dvalid' THEN Head(input) ELSE RDDATA
    /\ input' = IF dvalid' THEN Tail(input) ELSE input

LEMMA FetchType ==
    TypeOK /\ Fetch => /\ input' \in Seq(Byte) /\ RDDATA' \in Byte
                       /\ Len(input') = IF dvalid' THEN Len(input) - 1 ELSE Len(input)
                       /\ Read' \o input' = input /\ Read' \in Seq(Byte)
<1> SUFFICES ASSUME TypeOK, Fetch
             PROVE  /\ input' \in Seq(Byte) /\ RDDATA' \in Byte
                    /\ Len(input') = IF dvalid' THEN Len(input) - 1 ELSE Len(input)
                    /\ Read' \o input' = input /\ Read' \in Seq(Byte)
  OBVIOUS
<1>1. input \in Seq(Byte) /\ RDDATA \in Byte
  BY DEF TypeOK
<1>2. CASE dvalid'
  <2>1. input # <<>> /\ RDDATA' = Head(input) /\ input' = Tail(input) /\ Read' = <<RDDATA'>>
    BY <1>2 DEF Fetch, Read
  <2> QED
    BY <1>1, <1>2, <2>1
<1>3. CASE ~dvalid'
  <2>1. RDDATA' = RDDATA /\ input' = input /\ Read' = <<>>
    BY <1>3 DEF Fetch, Read
  <2> QED
    BY <1>1, <1>3, <2>1
<1> QED
  BY <1>2, <1>3

LEMMA ReadBehind ==
    TypeOK /\ Fetch => \A s \in Seq(Byte) : (s \o Read') \o input' = s \o input
<1> SUFFICES ASSUME TypeOK, Fetch, NEW s \in Seq(Byte)
             PROVE  (s \o Read') \o input' = s \o input
  OBVIOUS
<1>1. Read' \in Seq(Byte) /\ input' \in Seq(Byte)
  BY FetchType
<1>2. Read' \o input' = input
  BY FetchType
<1>3. (s \o Read') \o input' = s \o (Read' \o input')
  BY <1>1, ConcatAssociative
<1> QED
  BY <1>2, <1>3

\* While no byte is taken in, the bytes on the way stay the same.
LEMMA FetchWaits ==
    TypeOK /\ Fetch /\ ~dvalid /\ dati' = dati => Incoming' = Incoming
<1> SUFFICES ASSUME TypeOK, Fetch, ~dvalid, dati' = dati
             PROVE  Incoming' = Incoming
  OBVIOUS
<1>1. dati \in Seq(Byte) /\ input \in Seq(Byte)
  BY DatiType DEF TypeOK
<1>2. Incoming = (dati \o <<>>) \o input /\ Incoming' = (dati \o Read') \o input'
  BY DEF Incoming, Read
<1>4. (dati \o Read') \o input' = dati \o input
  BY <1>1, ReadBehind
<1>5. dati \o <<>> = dati
  BY <1>1
<1> QED
  BY <1>2, <1>4, <1>5

LEMMA TailOfConcat ==
    ASSUME NEW S, NEW a \in Seq(S), a # <<>>, NEW x \in S, NEW b \in Seq(S)
    PROVE  Tail((a \o <<x>>) \o b) = Append(Tail(a), x) \o b
<1>1. a \o <<x>> \in Seq(S) /\ a \o <<x>> # <<>> /\ Tail(a) \in Seq(S)
  OBVIOUS
<1>2. Tail(a \o <<x>>) = Append(Tail(a), x)
  <2>1. a \o <<x>> = Append(a, x)
    OBVIOUS
  <2> QED
    BY <2>1, HeadTailAppend
<1> DEFINE c == a \o <<x>>
<1>3. c \in Seq(S) /\ c # <<>>
  BY <1>1
<1> HIDE DEF c
<1>4. Tail(c \o b) = Tail(c) \o b
  BY <1>3
<1> QED
  BY <1>2, <1>4 DEF c

\* A byte taken in is the first of them.
LEMMA FetchShifts ==
    TypeOK /\ Fetch /\ dvalid /\ dati' = Append(Tail(dati), RDDATA) =>
        /\ dati' \in [1..5 -> Byte]
        /\ Len(Incoming') = Len(Incoming) - 1
        /\ \A i \in 1..Len(Incoming') : Incoming'[i] = Incoming[i + 1]
<1> SUFFICES ASSUME TypeOK, Fetch, dvalid, dati' = Append(Tail(dati), RDDATA)
             PROVE  /\ dati' \in [1..5 -> Byte]
                    /\ Len(Incoming') = Len(Incoming) - 1
                    /\ \A i \in 1..Len(Incoming') : Incoming'[i] = Incoming[i + 1]
  OBVIOUS
<1>1. /\ dati \in Seq(Byte) /\ Len(dati) = 5 /\ dati # <<>>
      /\ input \in Seq(Byte) /\ RDDATA \in Byte
  <2>1. dati \in Seq(Byte) /\ Len(dati) = 5
    BY DatiType
  <2>2. dati # <<>>
    BY <2>1
  <2> QED
    BY <2>1, <2>2 DEF TypeOK
<1>2. dati' \in Seq(Byte) /\ Len(dati') = Len(dati)
  BY <1>1, Shift
<1>3. dati' \in [1..5 -> Byte]
  BY <1>1, <1>2, LenProperties
<1>4. Incoming' = dati' \o input
  <2>1. Incoming' = (dati' \o Read') \o input'
    BY DEF Incoming, Read
  <2>2. (dati' \o Read') \o input' = dati' \o input
    BY <1>2, ReadBehind
  <2> QED
    BY <2>1, <2>2
<1>5. Incoming = (dati \o <<RDDATA>>) \o input
  BY DEF Incoming
<1>6. Incoming' = Tail(Incoming)
  BY <1>1, <1>4, <1>5, TailOfConcat
<1>7. Incoming \in Seq(Byte) /\ Incoming # <<>>
  <2>1. Len(Incoming) = 5 + 1 + Len(input) /\ Len(input) \in Nat /\ Incoming \in Seq(Byte)
    BY <1>1, IncomingType
  <2>2. Len(Incoming) # 0
    BY <2>1
  <2> QED
    BY <2>1, <2>2, EmptySeq
<1> QED
  BY <1>3, <1>6, <1>7, HeadTailProperties

-----------------------------------------------------------------------------
(* The invariant.                                                          *)

LEMMA InitInv == Init => Inv
<1> SUFFICES ASSUME Init PROVE Inv
  OBVIOUS
<1> USE BAssumption, DepthAssumption DEF Init, Default!Init
<1>1. TypeOK
  <2>1. bus \in Offers
    BY DEF Offers
  <2>2. /\ heard \in Seq(Item) /\ fifo \in Seq(Item) /\ Len(fifo) <= Depth
        /\ input \in Seq(Byte) /\ Len(input) <= 5
    OBVIOUS
  <2>3. WRDATA \in Item /\ RDDATA \in Byte
    BY ItemZero DEF Byte
  <2>4. dato \in Seq(Item) /\ Len(dato) = 9 /\ ocnt \in 0..9
    <3>1. dato \in [1..9 -> Item]
      BY ItemZero
    <3> QED
      BY <3>1, Tuple
  <2>5. icnt \in 0..5 /\ dati \in [1..5 -> Byte] /\ slv_HRDATA \in [1..4 -> Byte]
    BY DEF Byte
  <2>6. /\ state \in {"IDLE", "WAITDATA", "WAITRESP", "AHBRESP", "ERRDELAY"}
        /\ req \in [write : BOOLEAN, size : 0..2, addr : Nat]
    OBVIOUS
  <2>7. /\ {WREN, dvalid, lost, EN, active} \subseteq BOOLEAN
        /\ {slv_HREADYOUT, slv_HRESP, dslv_HREADYOUT, dslv_HRESP} \subseteq BOOLEAN
    OBVIOUS
  <2> QED
    BY <2>1, <2>2, <2>3, <2>4, <2>5, <2>6, <2>7 DEF TypeOK
<1>2. NoOverRead
  BY DEF NoOverRead
<1>3. Phases
  BY DEF Phases
<1>4. Asked
  BY DEF Asked
<1>5. Heeded
  BY DEF Heeded
<1>6. Refused
  BY DEF Refused
<1> QED
  BY <1>1, <1>2, <1>3, <1>4, <1>5, <1>6 DEF Inv

\* What every edge with EN high does, whatever the state machine does.
Tick ==
    /\ EN /\ EN' = EN /\ heard' = heard /\ lost' \in BOOLEAN
    /\ Written /\ PutByte
    /\ Fetch /\ (dvalid' => icnt # 0)
    /\ UNCHANGED dslv

LEMMA TypeParts ==
    TypeOK <=>
      /\ bus \in Offers
      /\ heard \in Seq(Item) /\ fifo \in Seq(Item) /\ Len(fifo) <= Depth
      /\ WRDATA \in Item /\ dato \in Seq(Item) /\ Len(dato) = 9 /\ ocnt \in 0..9
      /\ input \in Seq(Byte) /\ Len(input) <= 5 /\ RDDATA \in Byte
      /\ icnt \in 0..5 /\ dati \in [1..5 -> Byte]
      /\ state \in {"IDLE", "WAITDATA", "WAITRESP", "AHBRESP", "ERRDELAY"}
      /\ req \in Sized
      /\ WREN \in BOOLEAN /\ dvalid \in BOOLEAN /\ lost \in BOOLEAN
      /\ EN \in BOOLEAN /\ active \in BOOLEAN
      /\ slv_HREADYOUT \in BOOLEAN /\ slv_HRESP \in BOOLEAN
      /\ dslv_HREADYOUT \in BOOLEAN /\ dslv_HRESP \in BOOLEAN
      /\ slv_HRDATA \in [1..4 -> Byte]
  BY Zenon DEF TypeOK, Sized

\* An edge keeps the types of what it changes, if the state machine does.
LEMMA TickType ==
    TypeOK /\ Tick =>
        ( /\ bus' \in Offers
          /\ dato' \in Seq(Item) /\ Len(dato') = 9 /\ ocnt' \in 0..9
          /\ icnt' \in 0..5 /\ dati' \in [1..5 -> Byte]
          /\ state' \in {"IDLE", "WAITDATA", "WAITRESP", "AHBRESP", "ERRDELAY"}
          /\ req' \in Sized
          /\ slv_HREADYOUT' \in BOOLEAN /\ slv_HRESP' \in BOOLEAN
          /\ slv_HRDATA' \in [1..4 -> Byte]
          => TypeOK')
<1> SUFFICES ASSUME TypeOK, Tick,
                    bus' \in Offers,
                    dato' \in Seq(Item) /\ Len(dato') = 9 /\ ocnt' \in 0..9,
                    icnt' \in 0..5 /\ dati' \in [1..5 -> Byte],
                    state' \in {"IDLE", "WAITDATA", "WAITRESP", "AHBRESP", "ERRDELAY"},
                    req' \in Sized,
                    slv_HREADYOUT' \in BOOLEAN /\ slv_HRESP' \in BOOLEAN,
                    slv_HRDATA' \in [1..4 -> Byte]
             PROVE  TypeOK'
  BY Zenon
<1>1. fifo' \in Seq(Item) /\ Len(fifo') <= Depth
  BY WrittenType DEF Tick
<1>2. heard' \in Seq(Item) /\ WRDATA' \in Item
  <2>1. WRDATA \in Item /\ dato \in Seq(Item) /\ Len(dato) = 9
    BY DEF TypeOK
  <2>2. dato[1] \in Item
    <3>1. 1 \in 1..Len(dato)
      BY <2>1
    <3> QED
      BY <2>1, <3>1, ElementOfSeq, Zenon
  <2> QED
    BY <2>1, <2>2 DEF Tick, PutByte, TypeOK
<1>3. input' \in Seq(Byte) /\ RDDATA' \in Byte /\ Len(input') <= 5
  <2>1. input \in Seq(Byte) /\ Len(input) <= 5
    BY DEF TypeOK
  <2>2. /\ input' \in Seq(Byte) /\ RDDATA' \in Byte
        /\ Len(input') = IF dvalid' THEN Len(input) - 1 ELSE Len(input)
    BY FetchType DEF Tick
  <2> QED
    BY <2>1, <2>2
<1>4. WREN' \in BOOLEAN
  BY Zenon DEF Tick, PutByte, puts
<1>5. dvalid' \in BOOLEAN /\ lost' \in BOOLEAN
  BY Zenon DEF Tick, Fetch
<1>6. /\ EN' \in BOOLEAN /\ active' \in BOOLEAN
      /\ dslv_HREADYOUT' \in BOOLEAN /\ dslv_HRESP' \in BOOLEAN
  BY TypeParts, Zenon DEF Tick, dslv
<1> QED
  BY <1>1, <1>2, <1>3, <1>4, <1>5, <1>6, TypeParts, Zenon DEF TypeOK, Sized

LEMMA TickRefused == Inv /\ Tick => Refused'
  BY DEF Inv, Refused, Tick, dslv

\* But while the host is asked, nothing is on the way to it, ...
LEMMA TickQuiet ==
    Inv /\ Tick /\ ~(state = "WAITRESP" /\ answer = <<>>) =>
        /\ heard = <<>> /\ fifo = <<>> /\ ~WREN /\ ocnt = 0
        /\ heard' = <<>> /\ fifo' = <<>> /\ ~WREN' /\ ~puts
        /\ Shifted = dato
<1> SUFFICES ASSUME Inv, Tick, ~(state = "WAITRESP" /\ answer = <<>>)
             PROVE  /\ heard = <<>> /\ fifo = <<>> /\ ~WREN /\ ocnt = 0
                    /\ heard' = <<>> /\ fifo' = <<>> /\ ~WREN' /\ ~puts
                    /\ Shifted = dato
  OBVIOUS
<1>1. heard = <<>> /\ fifo = <<>> /\ ~WREN /\ ocnt = 0
  BY Zenon DEF Inv, Asked
<1>2. ~puts
  BY <1>1 DEF puts
<1>3. heard' = <<>> /\ fifo' = <<>> /\ ~WREN'
  BY <1>1, <1>2 DEF Tick, Written, PutByte
<1> QED
  BY <1>1, <1>2, <1>3 DEF Shifted

\* ... and nothing from it but while an answer is waited for.
LEMMA TickNoFetch ==
    Inv /\ Tick /\ state # "WAITRESP" =>
        icnt = 0 /\ ~dvalid /\ input = <<>> /\ ~dvalid' /\ input' = <<>>
  BY DEF Inv, Phases, Tick, Fetch

\* A step of the state machine that leaves dato and icnt alone has their types.
LEMMA TickIdleType ==
    Inv /\ Tick /\ Keep /\ UNCHANGED <<req, icnt, dati>> /\ bus' \in Offers
      /\ state' \in {"IDLE", "WAITDATA", "WAITRESP", "AHBRESP", "ERRDELAY"}
      /\ slv_HREADYOUT' \in BOOLEAN /\ slv_HRESP' \in BOOLEAN
      /\ slv_HRDATA' \in [1..4 -> Byte]
      => TypeOK'
<1> SUFFICES ASSUME Inv, Tick, Keep, UNCHANGED <<req, icnt, dati>>, bus' \in Offers,
                    state' \in {"IDLE", "WAITDATA", "WAITRESP", "AHBRESP", "ERRDELAY"},
                    slv_HREADYOUT' \in BOOLEAN, slv_HRESP' \in BOOLEAN,
                    slv_HRDATA' \in [1..4 -> Byte]
             PROVE  TypeOK'
  BY Zenon
<1>1. TypeOK
  BY DEF Inv
<1>2. dato' \in Seq(Item) /\ Len(dato') = 9 /\ ocnt' \in 0..9
  BY <1>1, KeepType DEF Tick
<1>3. icnt' \in 0..5 /\ dati' \in [1..5 -> Byte] /\ req' \in Sized
  BY <1>1, TypeParts, Zenon
<1> QED
  BY <1>1, <1>2, <1>3, TickType, Zenon

\* No transfer starts.
LEMMA IdleStep ==
    Inv /\ Tick /\ Keep /\ state = "IDLE" /\ state' = state /\ slv_HRESP' = FALSE
      /\ UNCHANGED <<req, icnt, dati, slv_HREADYOUT, slv_HRDATA>>
      /\ bus' = <<>> /\ answer' = <<>>
      => Inv'
<1> SUFFICES ASSUME Inv, Tick, Keep, state = "IDLE", state' = state, slv_HRESP' = FALSE,
                    UNCHANGED <<req, icnt, dati, slv_HREADYOUT, slv_HRDATA>>,
                    bus' = <<>>, answer' = <<>>
             PROVE  Inv'
  BY Zenon
<1>1. icnt = 0 /\ ~dvalid' /\ input' = <<>> /\ heard' = <<>> /\ fifo' = <<>> /\ ~WREN' /\ ~puts /\ ocnt = 0
  BY TickNoFetch, TickQuiet
<1>2. TypeOK'
  <2>1. bus' \in Offers /\ slv_HRESP' \in BOOLEAN
    BY Zenon DEF Offers
  <2>2. slv_HREADYOUT' \in BOOLEAN /\ slv_HRDATA' \in [1..4 -> Byte]
    BY TypeParts, Zenon DEF Inv
  <2> QED
    BY <2>1, <2>2, TickIdleType
<1>3. NoOverRead'
  BY <1>1 DEF NoOverRead
<1>4. Phases'
  BY <1>1 DEF Phases, Inv
<1>5. Asked'
  BY <1>1 DEF Asked, Keep
<1>6. Heeded'
  BY DEF Heeded
<1>7. Refused'
  BY TickRefused
<1> QED
  BY <1>2, <1>3, <1>4, <1>5, <1>6, <1>7 DEF Inv

\* What is sent once a request has been loaded.
LEMMA LoadOutgoing ==
    ASSUME Inv, Tick, ~(state = "WAITRESP" /\ answer = <<>>),
           NEW p \in Seq(Item), Len(p) >= 5, Len(p) <= 9, Load(p)
    PROVE  /\ dato' \in Seq(Item) /\ Len(dato') = 9 /\ ocnt' \in 0..9
           /\ Outgoing' = p /\ heard' = <<>> /\ heard' \o Outgoing' = p
<1>1. /\ dato' \in Seq(Item) /\ Len(dato') = 9 /\ ocnt' \in 0..9
      /\ SubSeq(dato', 1, ocnt') = p
  BY LoadType DEF Inv
<1>2. heard' = <<>> /\ fifo' = <<>> /\ ~WREN'
  BY TickQuiet
<1>3. Outgoing' = (<<>> \o <<>>) \o p
  BY <1>1, <1>2 DEF Outgoing
<1> QED
  BY <1>1, <1>2, <1>3

LEMMA BusType == TypeOK /\ bus # <<>> => bus = <<bus[1]>> /\ bus[1] \in Transfers
<1> SUFFICES ASSUME TypeOK, bus # <<>> PROVE bus = <<bus[1]>> /\ bus[1] \in Transfers
  OBVIOUS
<1>1. bus \in {<<t>> : t \in Transfers}
  BY DEF TypeOK, Offers
<1>2. PICK t \in Transfers : bus = <<t>>
  BY <1>1
<1> QED
  BY <1>2

\* The size of an answer to a read, as the code has it.
LEMMA ExpectedAwaited ==
    \A t \in Transfers : ~t.write => Expected(t) = Awaited(t) /\ Awaited(t) \in 2..5
<1> SUFFICES ASSUME NEW t \in Transfers, ~t.write
             PROVE  Expected(t) = Awaited(t) /\ Awaited(t) \in 2..5
  OBVIOUS
<1>1. t.size = 0 \/ t.size = 1 \/ t.size = 2
  BY TransferType
<1>2. Awaited(t) = 1 + 2^t.size
  BY DEF Awaited
<1>3. CASE t.size = 0
  BY <1>2, <1>3, Powers DEF Expected
<1>4. CASE t.size = 1
  BY <1>2, <1>4, Powers DEF Expected
<1>5. CASE t.size = 2
  BY <1>2, <1>5, Powers DEF Expected
<1> QED
  BY <1>1, <1>3, <1>4, <1>5

\* A read starts.
LEMMA TakeReadStep ==
    ASSUME Inv, Tick, state = "IDLE", NEW t \in Transfers, ~t.write,
           bus' = <<t>>, answer' = <<>>, slv_HRESP' = FALSE, slv_HREADYOUT' = FALSE,
           req' = [write |-> t.write, size |-> t.size, addr |-> t.addr],
           Load(Packet(t, <<>>)), icnt' = Expected(t), state' = "WAITRESP",
           UNCHANGED <<dati, slv_HRDATA>>
    PROVE  Inv'
<1> DEFINE p == Packet(t, <<>>)
<1>1. t.write \in BOOLEAN /\ t.size \in 0..2 /\ t.addr \in Nat
  BY TransferType
<1>2. /\ p \in Seq(Item) /\ Len(p) = PacketLen(Header(t)) /\ p[1] = Header(t)
      /\ PacketLen(Header(t)) = 5
  BY <1>1, PacketReadType
<1>3. icnt' = Awaited(t) /\ Awaited(t) \in 2..5
  BY ExpectedAwaited
<1>4. ~dvalid' /\ input' = <<>>
  BY TickNoFetch
<1>5. Load(p)
  OBVIOUS
<1> HIDE DEF p
<1>6. /\ dato' \in Seq(Item) /\ Len(dato') = 9 /\ ocnt' \in 0..9
      /\ heard' \o Outgoing' = p
  <2>1. Len(p) >= 5 /\ Len(p) <= 9
    BY <1>2
  <2> QED
    BY <1>2, <1>5, <2>1, LoadOutgoing
<1>7. bus'[1] = t
  OBVIOUS
<1>8. TypeOK'
  <2>1. bus' \in Offers
    BY DEF Offers
  <2>2. icnt' \in 0..5
    BY <1>3
  <2>3. dati' \in [1..5 -> Byte] /\ slv_HRDATA' \in [1..4 -> Byte]
    BY TypeParts, Zenon DEF Inv
  <2>4. req' \in Sized
    BY <1>1 DEF Sized
  <2>5. slv_HREADYOUT' \in BOOLEAN /\ slv_HRESP' \in BOOLEAN
    BY Zenon
  <2> QED
    BY <1>6, <2>1, <2>2, <2>3, <2>4, <2>5, TickType DEF Inv
<1>9. NoOverRead'
  BY <1>4 DEF NoOverRead
<1>10. Phases'
  BY <1>3, <1>7 DEF Phases, Tick
<1>11. Asked'
  <2>1. p # <<>>
    <3>1. Len(p) = 5
      BY <1>2
    <3> QED
      BY <3>1
  <2>2. /\ heard' \o Outgoing' # <<>>
        /\ (heard' \o Outgoing')[1] = Header(bus'[1])
        /\ Len(heard' \o Outgoing') <= PacketLen(Header(bus'[1]))
    <3>1. Len(p) <= PacketLen(Header(t))
      BY <1>2
    <3> QED
      BY <1>2, <1>6, <1>7, <2>1, <3>1, Zenon
  <2>3. input' = <<>> /\ ~dvalid' /\ icnt' = Awaited(bus'[1])
    BY <1>3, <1>4, <1>7, Zenon
  <2> QED
    BY <2>2, <2>3, Zenon DEF Asked
<1>12. Heeded'
  BY DEF Heeded
<1>13. Refused'
  BY TickRefused
<1> QED
  BY <1>8, <1>9, <1>10, <1>11, <1>12, <1>13 DEF Inv

\* A write starts.
LEMMA TakeWriteStep ==
    ASSUME Inv, Tick, state = "IDLE", NEW t \in Transfers, t.write,
           bus' = <<t>>, answer' = <<>>, slv_HRESP' = FALSE, slv_HREADYOUT' = FALSE,
           req' = [write |-> t.write, size |-> t.size, addr |-> t.addr],
           Keep, state' = "WAITDATA", UNCHANGED <<icnt, dati, slv_HRDATA>>
    PROVE  Inv'
<1>1. t.write \in BOOLEAN /\ t.size \in 0..2 /\ t.addr \in Nat
  BY TransferType
<1>2. icnt = 0 /\ ~dvalid' /\ input' = <<>> /\ heard' = <<>> /\ fifo' = <<>> /\ ~WREN' /\ ~puts /\ ocnt = 0
  BY TickNoFetch, TickQuiet
<1>3. bus'[1] = t
  OBVIOUS
<1>4. TypeOK'
  <2>1. bus' \in Offers
    BY DEF Offers
  <2>2. dato' \in Seq(Item) /\ Len(dato') = 9 /\ ocnt' \in 0..9
    BY KeepType DEF Inv, Tick
  <2>3. icnt' \in 0..5 /\ dati' \in [1..5 -> Byte] /\ slv_HRDATA' \in [1..4 -> Byte]
    BY TypeParts, Zenon DEF Inv
  <2>4. req' \in Sized
    BY <1>1 DEF Sized
  <2>5. slv_HREADYOUT' \in BOOLEAN /\ slv_HRESP' \in BOOLEAN
    BY Zenon
  <2> QED
    BY <2>1, <2>2, <2>3, <2>4, <2>5, TickType DEF Inv
<1>5. NoOverRead'
  BY <1>2 DEF NoOverRead
<1>6. Phases'
  BY <1>2, <1>3 DEF Phases, Tick
<1>7. Asked'
  BY <1>2 DEF Asked, Keep
<1>8. Heeded'
  BY DEF Heeded
<1>9. Refused'
  BY TickRefused
<1> QED
  BY <1>4, <1>5, <1>6, <1>7, <1>8, <1>9 DEF Inv

\* The data of a write arrives: the request is loaded whole.
LEMMA WaitDataSent ==
    ASSUME Inv, Tick, state = "WAITDATA", NEW junk \in Byte, WaitData(HWDATA(bus[1], junk))
    PROVE  LET p == Packet(bus[1], Digits(bus[1].data, 2^bus[1].size))
           IN  /\ p # <<>> /\ Len(p) = PacketLen(Header(bus[1])) /\ p[1] = Header(bus[1])
               /\ dato' \in Seq(Item) /\ Len(dato') = 9 /\ ocnt' \in 0..9
               /\ Outgoing' = p /\ heard' \o Outgoing' = p
<1> DEFINE t == bus[1]
           d == Digits(t.data, 2^t.size)
           p == Packet(t, d)
<1>1. /\ bus # <<>> /\ t \in Transfers /\ t.write /\ answer = <<>>
      /\ req = [write |-> t.write, size |-> t.size, addr |-> t.addr]
  BY BusType DEF Inv, Phases, Heeded
<1>2. t.size \in 0..2 /\ t.addr \in Nat /\ t.data \in Nat /\ t.write \in BOOLEAN
  BY <1>1, TransferType
<1>3. d \in Seq(Byte) /\ Len(d) = 2^t.size
  BY <1>2, SizePower, DigitsType
<1>4. Load(p)
  <2>1. Lane(HWDATA(t, junk), t) = d
    BY <1>2, LaneWritten
  <2>2. Lane(HWDATA(t, junk), req) = Lane(HWDATA(t, junk), t)
    BY <1>1 DEF Lane
  <2>3. Packet(req, d) = Packet(t, d)
    BY <1>1 DEF Packet, Header
  <2>4. Load(Packet(req, Lane(HWDATA(t, junk), req)))
    BY DEF WaitData
  <2> QED
    BY <2>1, <2>2, <2>3, <2>4
<1> HIDE DEF d
<1>5. /\ p \in Seq(Item) /\ Len(p) = PacketLen(Header(t)) /\ p[1] = Header(t)
      /\ PacketLen(Header(t)) \in 5..9
  <2>1. t.write /\ Len(d) = 2^t.size
    BY <1>1, <1>3
  <2>0. t \in Transfers
    BY <1>1
  <2> HIDE DEF t
  <2>2. /\ Packet(t, d) \in Seq(Item) /\ Len(Packet(t, d)) = PacketLen(Header(t))
        /\ Packet(t, d)[1] = Header(t)
    BY <1>3, <2>0, <2>1, PacketWriteType
  <2>3. PacketLen(Header(t)) \in 5..9
    BY <2>0, HeaderType
  <2> QED
    BY <2>2, <2>3
<1> HIDE DEF p
<1>6. Len(p) >= 5 /\ Len(p) <= 9
  BY <1>5
<1>7. /\ dato' \in Seq(Item) /\ Len(dato') = 9 /\ ocnt' \in 0..9
      /\ Outgoing' = p /\ heard' \o Outgoing' = p
  BY <1>4, <1>5, <1>6, LoadOutgoing
<1>8. p # <<>>
  BY <1>6
<1> QED
  BY <1>5, <1>7, <1>8 DEF p, d

LEMMA WaitDataStep ==
    ASSUME Inv, Tick, state = "WAITDATA", NEW junk \in Byte,
           WaitData(HWDATA(bus[1], junk)), bus' = bus, answer' = answer
    PROVE  Inv'
<1> DEFINE t == bus[1]
           p == Packet(t, Digits(t.data, 2^t.size))
<1>1. /\ bus # <<>> /\ t \in Transfers /\ t.write /\ answer = <<>>
      /\ req = [write |-> t.write, size |-> t.size, addr |-> t.addr]
  BY BusType DEF Inv, Phases, Heeded
<1>7. /\ p # <<>> /\ Len(p) = PacketLen(Header(t)) /\ p[1] = Header(t)
      /\ dato' \in Seq(Item) /\ Len(dato') = 9 /\ ocnt' \in 0..9
      /\ heard' \o Outgoing' = p
  BY WaitDataSent
<1> HIDE DEF p
<1>5. PacketLen(Header(t)) \in 5..9
  BY <1>1, HeaderType
<1>8. ~dvalid' /\ input' = <<>> /\ icnt' = 1 /\ state' = "WAITRESP"
  BY TickNoFetch DEF WaitData
<1>9. Awaited(t) = 1
  BY <1>1 DEF Awaited
<1>10. TypeOK'
  <2>1. bus' \in Offers /\ slv_HREADYOUT' \in BOOLEAN /\ slv_HRESP' \in BOOLEAN
    BY TypeParts, Zenon DEF Inv, WaitData, slv
  <2>2. dati' \in [1..5 -> Byte] /\ slv_HRDATA' \in [1..4 -> Byte] /\ req' \in Sized
    BY TypeParts, Zenon DEF Inv, WaitData, slv
  <2>3. icnt' \in 0..5
    BY <1>8
  <2> QED
    BY <1>7, <1>8, <2>1, <2>2, <2>3, TickType DEF Inv
<1>11. NoOverRead'
  BY <1>8 DEF NoOverRead
<1>12. Phases'
  BY <1>1, <1>8 DEF Phases, Inv, Tick, WaitData, slv
<1>13. Asked'
  <2>1. Len(p) <= PacketLen(Header(t))
    BY <1>5, <1>7
  <2> QED
    BY <1>1, <1>7, <1>8, <1>9, <2>1 DEF Asked
<1>14. Heeded'
  BY <1>1, <1>8 DEF Heeded
<1>15. Refused'
  BY TickRefused
<1> QED
  BY <1>10, <1>11, <1>12, <1>13, <1>14, <1>15 DEF Inv

\* A step in WAITRESP that goes on waiting has the types of what it changes.
LEMMA TickWaitType ==
    Inv /\ Tick /\ Keep /\ UNCHANGED <<req, slv>> /\ bus' = bus
      /\ icnt' \in 0..5 /\ dati' \in [1..5 -> Byte] /\ state' \in {"WAITRESP", "AHBRESP"}
      => TypeOK'
<1> SUFFICES ASSUME Inv, Tick, Keep, UNCHANGED <<req, slv>>, bus' = bus,
                    icnt' \in 0..5, dati' \in [1..5 -> Byte],
                    state' \in {"WAITRESP", "AHBRESP"}
             PROVE  TypeOK'
  BY Zenon
<1>1. TypeOK
  BY DEF Inv
<1>2. dato' \in Seq(Item) /\ Len(dato') = 9 /\ ocnt' \in 0..9
  BY <1>1, KeepType DEF Tick
<1>3. bus' \in Offers /\ req' \in Sized
  BY <1>1, TypeParts, Zenon
<1>4. slv_HREADYOUT' \in BOOLEAN /\ slv_HRESP' \in BOOLEAN /\ slv_HRDATA' \in [1..4 -> Byte]
  BY <1>1, TypeParts, Zenon DEF slv
<1>5. state' \in {"IDLE", "WAITDATA", "WAITRESP", "AHBRESP", "ERRDELAY"}
  OBVIOUS
<1> QED
  BY <1>1, <1>2, <1>3, <1>4, <1>5, TickType, Zenon

\* The request while the host has not answered: it only gets shorter when a
\* byte is lost, and keeps its first byte.
LEMMA AskedEdge ==
    ASSUME Inv, Tick, Keep, TypeOK', state = "WAITRESP", answer = <<>>
    PROVE  /\ heard' \o Outgoing' # <<>>
           /\ (heard' \o Outgoing')[1] = Header(bus[1])
           /\ Len(heard' \o Outgoing') <= PacketLen(Header(bus[1]))
<1>1. /\ heard \o Outgoing # <<>>
      /\ (heard \o Outgoing)[1] = Header(bus[1])
      /\ Len(heard \o Outgoing) <= PacketLen(Header(bus[1]))
  BY DEF Inv, Asked
<1>2. heard' = heard
  BY DEF Tick
<1>3. CASE ~(WREN /\ WRFULL)
  <2>1. Outgoing' = Outgoing
    BY <1>3, KeepSends DEF Inv, Tick
  <2> QED
    BY <1>1, <1>2, <2>1
<1>4. CASE WREN /\ WRFULL
  <2>1. /\ Len(Outgoing') = Len(Outgoing) - 1
        /\ Outgoing # <<>> /\ Outgoing' # <<>> /\ Outgoing'[1] = Outgoing[1]
    BY <1>4, KeepLoses DEF Inv, Tick
  <2>2. heard \in Seq(Item)
    BY DEF Inv, TypeOK
  <2>3. Outgoing \in Seq(Item) /\ Outgoing' \in Seq(Item)
    <3>1. (TypeOK => /\ Outgoing \in Seq(Item)
                     /\ Len(Outgoing) = Len(fifo) + (IF WREN THEN 1 ELSE 0) + ocnt)'
      BY OutgoingType, PTL
    <3> QED
      BY <3>1, OutgoingType DEF Inv
  <2> DEFINE h == heard
             o == Outgoing
             q == Outgoing'
  <2>4. /\ h \in Seq(Item) /\ o \in Seq(Item) /\ q \in Seq(Item)
        /\ Len(q) = Len(o) - 1 /\ o # <<>> /\ q # <<>> /\ q[1] = o[1]
    BY <2>1, <2>2, <2>3
  <2> HIDE DEF h, o, q
  <2>5. /\ Len(h \o o) = Len(h) + Len(o) /\ Len(h \o q) = Len(h) + Len(q)
        /\ Len(h) \in Nat /\ Len(o) \in Nat
    BY <2>4
  <2>6. Len(h \o q) = Len(h \o o) - 1 /\ Len(h \o o) \in Nat
    BY <2>4, <2>5
  <2>7. h \o q # <<>> /\ (h \o q)[1] = (h \o o)[1]
    BY <2>4
  <2>8. /\ heard' \o Outgoing' # <<>>
        /\ (heard' \o Outgoing')[1] = Header(bus[1])
    BY <1>1, <1>2, <2>7 DEF h, o, q
  <2>9. bus[1] \in Transfers
    BY BusType DEF Inv, Phases
  <2>10. PacketLen(Header(bus[1])) \in 5..9
    BY <2>9, HeaderType
  <2>11. Len(heard' \o Outgoing') <= PacketLen(Header(bus[1]))
    <3>1. Len(h \o o) <= PacketLen(Header(bus[1]))
      BY <1>1 DEF h, o
    <3>2. Len(h \o q) <= PacketLen(Header(bus[1]))
      BY <2>6, <2>10, <3>1
    <3> QED
      BY <1>2, <3>2 DEF h, q
  <2> QED
    BY <2>8, <2>11
<1> QED
  BY <1>3, <1>4

\* The slave waits, before the host has answered.
LEMMA WaitAskedStep ==
    ASSUME Inv, Tick, WaitResp, answer = <<>>, bus' = bus, answer' = answer
    PROVE  Inv'
<1>1. state = "WAITRESP" /\ Keep /\ UNCHANGED <<req, slv>>
  BY DEF WaitResp
<1>2. input = <<>> /\ ~dvalid /\ icnt = Awaited(bus[1])
  BY <1>1 DEF Inv, Asked
<1>3. ~dvalid' /\ input' = <<>> /\ UNCHANGED <<dati, state, icnt>>
  BY <1>2 DEF Tick, Fetch, WaitResp
<1>4. TypeOK'
  <2>1. icnt' \in 0..5 /\ dati' \in [1..5 -> Byte] /\ state' \in {"WAITRESP", "AHBRESP"}
    <3>1. icnt \in 0..5 /\ dati \in [1..5 -> Byte]
      BY TypeParts, Zenon DEF Inv
    <3> QED
      BY <1>1, <1>3, <3>1
  <2> QED
    BY <1>1, <2>1, TickWaitType
<1>5. NoOverRead'
  BY <1>3 DEF NoOverRead
<1>6. Phases'
  BY <1>1, <1>3 DEF Phases, Inv, Tick, slv
<1>7. Asked'
  BY <1>1, <1>2, <1>3, <1>4, AskedEdge DEF Asked
<1>8. Heeded'
  BY <1>1, <1>3 DEF Heeded
<1>9. Refused'
  BY TickRefused
<1> QED
  BY <1>4, <1>5, <1>6, <1>7, <1>8, <1>9 DEF Inv

LEMMA AwaitedType == \A t \in Transfers : Awaited(t) \in 1..5
<1> TAKE t \in Transfers
<1>1. t.size \in 0..2
  BY TransferType
<1>2. 2^t.size \in {1, 2, 4}
  BY <1>1, SizePower
<1> QED
  BY <1>2 DEF Awaited

\* The slave waits, after the host has answered.
LEMMA WaitAnsweredStep ==
    ASSUME Inv, Tick, WaitResp, answer # <<>>, bus' = bus, answer' = answer
    PROVE  Inv'
<1> DEFINE a == answer[1]
           n == Awaited(bus[1])
<1>1. state = "WAITRESP" /\ Keep /\ UNCHANGED <<req, slv>>
  BY DEF WaitResp
<1>2. /\ answer = <<a>> /\ a \in Remote!Answers(bus[1]) /\ icnt <= n /\ Len(Incoming) = 5 + icnt
      /\ \A k \in 1..n : Incoming[5 + icnt - n + k] = Bytes(a)[k]
  BY <1>1 DEF Inv, Heeded
<1>3. icnt \in 1..5 /\ n \in 1..5
  <2>1. icnt \in 0..5 /\ icnt # 0
    BY <1>1, TypeParts, Zenon DEF Inv, Phases
  <2>2. bus[1] \in Transfers
    BY <1>1, BusType DEF Inv, Phases
  <2> QED
    BY <2>1, <2>2, AwaitedType
<1>4. fifo' = <<>> /\ heard' = <<>> /\ ~WREN' /\ ocnt' = 0
  BY <1>1, TickQuiet DEF Keep
<1>5. /\ icnt' \in 0..5 /\ dati' \in [1..5 -> Byte] /\ icnt' <= n
      /\ state' = IF icnt' = 0 THEN "AHBRESP" ELSE "WAITRESP"
      /\ Len(Incoming') = 5 + icnt'
      /\ \A k \in 1..n : Incoming'[5 + icnt' - n + k] = Bytes(a)[k]
  <2>1. CASE dvalid
    <3>1. /\ dati' = Append(Tail(dati), RDDATA) /\ icnt' = icnt - 1
          /\ state' = IF icnt' = 0 THEN "AHBRESP" ELSE "WAITRESP"
      BY <1>1, <1>3, <2>1 DEF WaitResp
    <3>2. /\ dati' \in [1..5 -> Byte]
          /\ Len(Incoming') = Len(Incoming) - 1
          /\ \A i \in 1..Len(Incoming') : Incoming'[i] = Incoming[i + 1]
      BY <2>1, <3>1, FetchShifts DEF Inv, Tick
    <3>3. icnt' \in 0..5 /\ icnt' <= n /\ Len(Incoming') = 5 + icnt'
      BY <1>2, <1>3, <3>1, <3>2
    <3>4. ASSUME NEW k \in 1..n
          PROVE  Incoming'[5 + icnt' - n + k] = Bytes(a)[k]
      <4> DEFINE i == 5 + icnt' - n + k
      <4>1. i \in 1..Len(Incoming') /\ i + 1 = 5 + icnt - n + k
        BY <1>3, <3>1, <3>3
      <4>2. Incoming'[i] = Incoming[i + 1]
        <5> HIDE DEF i
        <5> QED
          BY <3>2, <4>1
      <4> QED
        BY <1>2, <4>1, <4>2
    <3> QED
      BY <3>1, <3>2, <3>3, <3>4
  <2>2. CASE ~dvalid
    <3>1. UNCHANGED <<dati, state, icnt>>
      BY <2>2 DEF WaitResp
    <3>2. Incoming' = Incoming
      BY <2>2, <3>1, FetchWaits DEF Inv, Tick
    <3>3. dati \in [1..5 -> Byte]
      BY TypeParts, Zenon DEF Inv
    <3> QED
      BY <1>1, <1>2, <1>3, <3>1, <3>2, <3>3
  <2> QED
    BY <2>1, <2>2
<1>6. TypeOK'
  <2>1. state' \in {"WAITRESP", "AHBRESP"}
    BY <1>5
  <2> QED
    BY <1>1, <1>5, <2>1, TickWaitType
<1>7. Len(input') \in Nat /\ icnt' = (IF dvalid' THEN 1 ELSE 0) + Len(input')
  <2>1. (TypeOK => /\ Incoming \in Seq(Byte)
                   /\ Len(Incoming) = 5 + (IF dvalid THEN 1 ELSE 0) + Len(input))'
    BY IncomingType, PTL
  <2>2. input' \in Seq(Byte)
    BY FetchType DEF Inv, Tick
  <2>3. Len(Incoming') = 5 + (IF dvalid' THEN 1 ELSE 0) + Len(input') /\ Len(input') \in Nat
    BY <1>6, <2>1, <2>2
  <2> QED
    BY <1>5, <2>3
<1>8. NoOverRead'
  BY <1>5, <1>7 DEF NoOverRead
<1>9. Phases'
  <2>1. icnt' = 0 => ~dvalid' /\ input' = <<>>
    <3>1. icnt' = 0 => ~dvalid' /\ Len(input') = 0
      BY <1>7
    <3>2. input' \in Seq(Byte)
      BY FetchType DEF Inv, Tick
    <3> QED
      BY <3>1, <3>2, EmptySeq
  <2>2. /\ ~slv_HREADYOUT /\ EN /\ bus # <<>>
        /\ req = [write |-> bus[1].write, size |-> bus[1].size, addr |-> bus[1].addr]
    BY <1>1 DEF Inv, Phases
  <2> QED
    BY <1>1, <1>5, <2>1, <2>2 DEF Phases, Tick, slv
<1>10. Asked'
  BY <1>4 DEF Asked
<1>11. Heeded'
  <2>1. bus # <<>> /\ EN'
    BY <1>1 DEF Inv, Phases, Tick
  <2> QED
    BY <1>2, <1>5, <2>1 DEF Heeded
<1>12. Refused'
  BY TickRefused
<1> QED
  BY <1>6, <1>8, <1>9, <1>10, <1>11, <1>12 DEF Inv

\* The host's answer.
LEMMA AnswerType ==
    ASSUME NEW t \in Transfers, NEW a \in Remote!Answers(t)
    PROVE  /\ a.err \in BOOLEAN /\ a.data \in Seq(Byte) /\ Len(a.data) = Awaited(t) - 1
           /\ Bytes(a) \in Seq(Byte) /\ Len(Bytes(a)) = Awaited(t)
           /\ Bytes(a)[1] = IF a.err THEN 1 ELSE 0
           /\ \A k \in 1..(Awaited(t) - 1) : Bytes(a)[k + 1] = a.data[k]
<1> DEFINE m == IF t.write THEN 0 ELSE 2^t.size
           e == IF a.err THEN 1 ELSE 0
           d == a.data
           n == Awaited(t)
<1>1. a.err \in BOOLEAN /\ \E w \in AnswerData : d = SubSeq(w, 1, m)
  BY DEF Remote!Answers
<1>2. PICK w \in AnswerData : d = SubSeq(w, 1, m)
  BY <1>1
<1>3. m \in 0..4 /\ n = m + 1
  <2>1. t.size \in 0..2
    BY TransferType
  <2>2. 2^t.size \in {1, 2, 4}
    BY <2>1, SizePower
  <2> QED
    BY <2>2 DEF Awaited
<1>4. w \in [1..4 -> Byte]
  BY AnswerAssumption DEF Byte
<1>5. w \in Seq(Byte) /\ Len(w) = 4
  <2>1. 4 \in Nat
    OBVIOUS
  <2> QED
    BY <1>4, <2>1, Tuple, Zenon
<1> HIDE DEF m
<1>6. d \in Seq(Byte) /\ Len(d) = m
  <2>1. m \in 0..Len(w) /\ 1 \in 1..(Len(w) + 1) /\ m \in (1 - 1)..Len(w) /\ m - 1 + 1 = m
    BY <1>3, <1>5
  <2> QED
    BY <1>2, <1>5, <2>1, Part
<1>7. e \in Byte
  BY BAssumption DEF Byte
<1> HIDE DEF d, e
<1>8. <<e>> \in Seq(Byte) /\ Len(<<e>>) = 1 /\ <<e>>[1] = e
  BY <1>7
<1>9. Bytes(a) = <<e>> \o d
  BY DEF Bytes, d, e
<1>10. /\ Bytes(a) \in Seq(Byte) /\ Len(Bytes(a)) = m + 1 /\ Bytes(a)[1] = e
       /\ \A k \in 1..m : Bytes(a)[k + 1] = d[k]
  <2>1. <<e>> \o d \in Seq(Byte) /\ Len(<<e>> \o d) = 1 + m /\ (<<e>> \o d)[1] = e
    BY <1>3, <1>6, <1>8
  <2>2. ASSUME NEW k \in 1..m
        PROVE  (<<e>> \o d)[k + 1] = d[k]
    <3> DEFINE i == k + 1
               s == <<e>>
    <3>1. i \in 1..(1 + m) /\ ~(i <= 1) /\ i - 1 = k
      BY <1>3
    <3>2. s \in Seq(Byte) /\ Len(s) = 1
      BY <1>8
    <3> HIDE DEF i, s
    <3>3. (s \o d)[i] = d[i - 1]
      <4>1. /\ Len(s) + Len(d) = 1 + m
            /\ \A j \in 1..(Len(s) + Len(d)) :
                 (s \o d)[j] = IF j <= Len(s) THEN s[j] ELSE d[j - Len(s)]
        BY <1>6, <3>2, ConcatProperties
      <4> QED
        BY <3>1, <3>2, <4>1
    <3> QED
      BY <3>1, <3>3 DEF i, s
  <2> QED
    BY <1>3, <1>9, <2>1, <2>2
<1> QED
  BY <1>1, <1>3, <1>6, <1>10 DEF d, e

\* In AHBRESP the last bytes taken in are the whole answer.
LEMMA AnswerTaken ==
    ASSUME Inv, state = "AHBRESP"
    PROVE  LET a == answer[1]
               t == bus[1]
           IN  /\ answer = <<a>> /\ bus = <<t>> /\ t \in Transfers
               /\ a \in Remote!Answers(t)
               /\ req = [write |-> t.write, size |-> t.size, addr |-> t.addr]
               /\ err <=> a.err
               /\ ~t.write => Lane(Replicated, t) = a.data
<1> DEFINE a == answer[1]
           t == bus[1]
           n == Awaited(t)
<1>1. /\ EN /\ bus # <<>> /\ answer # <<>> /\ icnt = 0
      /\ req = [write |-> t.write, size |-> t.size, addr |-> t.addr]
  BY DEF Inv, Phases, Heeded
<1>2. /\ answer = <<a>> /\ a \in Remote!Answers(t)
      /\ \A k \in 1..n : Incoming[5 + icnt - n + k] = Bytes(a)[k]
  BY <1>1 DEF Inv, Heeded
<1>3. bus = <<t>> /\ t \in Transfers
  BY <1>1, BusType DEF Inv
<1>4. Incoming = dati
  <2>1. dati \in Seq(Byte)
    BY DatiType DEF Inv
  <2>2. Incoming = (dati \o <<>>) \o <<>>
    BY DEF Inv, Phases, Incoming
  <2> QED
    BY <2>1, <2>2
<1>5. n \in 1..5 /\ n = Awaited(t)
  BY <1>3, AwaitedType
<1> HIDE DEF n, a, t
<1>6. \A k \in 1..n : dati[5 - n + k] = Bytes(a)[k]
  <2>1. 5 + icnt - n = 5 - n
    BY <1>1, <1>5
  <2> QED
    BY <1>2, <1>4, <2>1
<1>7. /\ a.err \in BOOLEAN /\ a.data \in Seq(Byte) /\ Len(a.data) = n - 1
      /\ Bytes(a)[1] = IF a.err THEN 1 ELSE 0
      /\ \A k \in 1..(n - 1) : Bytes(a)[k + 1] = a.data[k]
  BY <1>2, <1>3, <1>5, AnswerType
<1>8. t.size \in 0..2 /\ t.addr \in Nat /\ t.write \in BOOLEAN
  BY <1>3, TransferType
<1>9. err <=> a.err
  <2>1. dati[5 - n + 1] = IF a.err THEN 1 ELSE 0
    BY <1>5, <1>6, <1>7
  <2>2. (IF req.write THEN 5 ELSE 5 - 2^req.size) = 5 - n + 1
    <3>1. 2^t.size \in Nat
      BY <1>8, SizePower
    <3> QED
      BY <1>1, <1>5, <1>8, <3>1 DEF Awaited
  <2>3. err <=> (IF a.err THEN 1 ELSE 0) % 2 = 1
    BY <2>1, <2>2 DEF err
  <2>4. (IF a.err THEN 1 ELSE 0) % 2 = 1 <=> a.err
    <3>1. CASE a.err
      BY <3>1
    <3>2. CASE ~a.err
      BY <3>2
    <3> QED
      BY <3>1, <3>2
  <2> QED
    BY <2>3, <2>4
<1>10. ~t.write => Lane(Replicated, t) = a.data
  <2> SUFFICES ASSUME ~t.write PROVE Lane(Replicated, t) = a.data
    OBVIOUS
  <2> DEFINE m == 2^t.size
  <2>1. n = m + 1 /\ m \in Nat
    BY <1>5, <1>8, SizePower DEF Awaited
  <2>2. dati \in [1..5 -> Byte] /\ req.size = t.size
    BY <1>1, TypeParts, Zenon DEF Inv
  <2>3. Lane(Replicated, t) = [k \in 1..m |-> dati[5 - m + k]]
    BY <1>8, <2>2, LaneReplicated
  <2> HIDE DEF m
  <2>4. ASSUME NEW k \in 1..m
        PROVE  dati[5 - m + k] = a.data[k]
    <3>1. k + 1 \in 1..n /\ 5 - n + (k + 1) = 5 - m + k /\ k \in 1..(n - 1)
      BY <2>1
    <3> QED
      BY <1>6, <1>7, <3>1
  <2>5. a.data \in [1..m -> Byte]
    <3>1. Len(a.data) = m
      BY <1>7, <2>1
    <3> QED
      BY <1>7, <3>1, LenProperties
  <2>6. Lane(Replicated, t) = [k \in 1..m |-> a.data[k]]
    BY <2>3, <2>4
  <2> QED
    BY <2>5, <2>6
<1> QED
  BY <1>1, <1>2, <1>3, <1>9, <1>10 DEF a, t

LEMMA ReplicatedType == TypeOK => Replicated \in [1..4 -> Byte]
<1> SUFFICES ASSUME TypeOK PROVE Replicated \in [1..4 -> Byte]
  OBVIOUS
<1>1. dati \in [1..5 -> Byte] /\ req.size \in 0..2
  BY TypeParts DEF Sized
<1> DEFINE n == 2^req.size
<1>2. n \in {1, 2, 4}
  BY <1>1, SizePower
<1>3. Replicated = [k \in 1..4 |-> dati[5 - ((k - 1) % n)]]
  BY DEF Replicated
<1> HIDE DEF n
<1>4. \A k \in 1..4 : 5 - ((k - 1) % n) \in 1..5
  BY <1>2
<1> QED
  BY <1>1, <1>3, <1>4

\* The bus gets the answer, or the first cycle of an error.
LEMMA AhbRespStep ==
    ASSUME Inv, Tick, AhbResp, bus' = bus, answer' = answer
    PROVE  Inv'
<1> DEFINE a == answer[1]
           t == bus[1]
<1>1. state = "AHBRESP" /\ Keep /\ UNCHANGED <<req, icnt, dati>>
  BY DEF AhbResp
<1>2. /\ answer = <<a>> /\ bus = <<t>> /\ t \in Transfers /\ a \in Remote!Answers(t)
      /\ req = [write |-> t.write, size |-> t.size, addr |-> t.addr]
      /\ err <=> a.err
      /\ ~t.write => Lane(Replicated, t) = a.data
  BY <1>1, AnswerTaken
<1>3. a.err \in BOOLEAN /\ t.write \in BOOLEAN
  BY <1>2, AnswerType, TransferType
<1>4. icnt = 0 /\ ~dvalid' /\ input' = <<>> /\ heard' = <<>> /\ fifo' = <<>> /\ ~WREN' /\ ocnt' = 0
  BY <1>1, TickNoFetch, TickQuiet DEF Keep
<1>5. EN' /\ ~slv_HREADYOUT /\ bus # <<>> /\ answer # <<>>
  BY <1>1 DEF Inv, Phases, Heeded, Tick
<1>6. \/ /\ err /\ slv_HRESP' = TRUE /\ state' = "ERRDELAY"
         /\ UNCHANGED <<slv_HREADYOUT, slv_HRDATA>>
      \/ /\ ~err /\ slv_HRESP' = FALSE /\ slv_HREADYOUT' = TRUE /\ state' = "IDLE"
         /\ slv_HRDATA' = IF req.write THEN slv_HRDATA ELSE Replicated
  BY DEF AhbResp
<1>7. TypeOK'
  <2>1. bus' \in Offers
    BY TypeParts DEF Inv
  <2>2. state' \in {"IDLE", "WAITDATA", "WAITRESP", "AHBRESP", "ERRDELAY"}
    BY <1>6
  <2>3. slv_HREADYOUT' \in BOOLEAN /\ slv_HRESP' \in BOOLEAN
    BY <1>6, TypeParts, Zenon DEF Inv
  <2>4. slv_HRDATA' \in [1..4 -> Byte]
    <3>1. slv_HRDATA \in [1..4 -> Byte] /\ Replicated \in [1..4 -> Byte]
      BY TypeParts, ReplicatedType, Zenon DEF Inv
    <3> QED
      BY <1>6, <3>1
  <2> QED
    BY <1>1, <2>1, <2>2, <2>3, <2>4, TickIdleType
<1>8. NoOverRead'
  BY <1>4 DEF NoOverRead
<1>9. Phases'
  BY <1>1, <1>2, <1>4, <1>5, <1>6 DEF Phases
<1>10. Asked'
  BY <1>4, <1>6 DEF Asked
<1>11. Heeded'
  <2>1. CASE err
    BY <1>2, <1>5, <1>6, <2>1 DEF Heeded
  <2>2. CASE ~err
    <3>1. ~t.write => Lane(slv_HRDATA', t) = a.data
      BY <1>2, <1>6, <2>2
    <3>2. slv_HRESP' = a.err
      BY <1>2, <1>3, <1>6, <2>2
    <3> QED
      BY <1>2, <1>5, <1>6, <2>2, <3>1, <3>2 DEF Heeded
  <2> QED
    BY <2>1, <2>2
<1>12. Refused'
  BY TickRefused
<1> QED
  BY <1>7, <1>8, <1>9, <1>10, <1>11, <1>12 DEF Inv

\* The second cycle of an error.
LEMMA ErrDelayStep ==
    ASSUME Inv, Tick, ErrDelay, bus' = bus, answer' = answer
    PROVE  Inv'
<1>1. state = "ERRDELAY" /\ Keep /\ UNCHANGED <<req, icnt, dati>>
  BY DEF ErrDelay
<1>2. icnt = 0 /\ ~dvalid' /\ input' = <<>> /\ heard' = <<>> /\ fifo' = <<>> /\ ~WREN' /\ ocnt' = 0
  BY <1>1, TickNoFetch, TickQuiet DEF Keep
<1>3. EN' /\ bus # <<>> /\ answer # <<>> /\ slv_HREADYOUT' /\ state' = "IDLE" /\ slv_HRESP' = slv_HRESP
  BY <1>1 DEF Inv, Phases, Heeded, Tick, ErrDelay
<1>4. TypeOK'
  <2>1. bus' \in Offers
    BY TypeParts DEF Inv
  <2>2. slv_HREADYOUT' \in BOOLEAN
    BY Zenon DEF ErrDelay
  <2>3. slv_HRESP' \in BOOLEAN /\ slv_HRDATA' \in [1..4 -> Byte]
    BY TypeParts, Zenon DEF Inv, ErrDelay
  <2> QED
    BY <1>1, <1>3, <2>1, <2>2, <2>3, TickIdleType
<1>5. NoOverRead'
  BY <1>2 DEF NoOverRead
<1>6. Phases'
  BY <1>1, <1>2, <1>3 DEF Phases
<1>7. Asked'
  BY <1>2, <1>3 DEF Asked
<1>8. Heeded'
  <2>1. /\ answer = <<answer[1]>> /\ answer[1] \in Remote!Answers(bus[1])
        /\ answer[1].err /\ slv_HRESP = answer[1].err
    BY <1>1, <1>3 DEF Inv, Heeded
  <2> QED
    BY <1>3, <2>1 DEF Heeded
<1>9. Refused'
  BY TickRefused
<1> QED
  BY <1>4, <1>5, <1>6, <1>7, <1>8, <1>9 DEF Inv

\* What an edge with EN high is made of.
LEMMA ClockTick ==
    ASSUME Inv, NEW ap \in Offers, NEW other \in BOOLEAN, NEW arrived \in BOOLEAN,
           Clock(ap, other, arrived)
    PROVE  Tick
<1>1. EN /\ EN' = EN /\ heard' = heard /\ PutByte /\ Written
  BY DEF Clock, Fifos, Written
<1>2. lost' \in BOOLEAN
  BY Zenon DEF Clock, Fifos
<1>3. Fetch /\ (dvalid' => icnt # 0)
  <2>1. dvalid' \in BOOLEAN
    BY Zenon DEF Clock, RDEN
  <2>2. dvalid' <=> RDEN(arrived)
    BY DEF Clock
  <2>3. dvalid' => arrived /\ icnt # 0
    BY <2>2 DEF RDEN
  <2>4. /\ RDDATA' = IF dvalid' THEN Head(input) ELSE RDDATA
        /\ input' = IF dvalid' THEN Tail(input) ELSE input
        /\ arrived => input # <<>>
    BY <2>2 DEF Clock, Fifos
  <2> QED
    BY <2>1, <2>3, <2>4 DEF Fetch
<1>4. UNCHANGED dslv
  <2>1. ~active
    BY <1>1 DEF Inv, Refused
  <2> QED
    BY <2>1 DEF Clock, Default!Clock, Default!Refuse, Default!vars, dslv
<1> QED
  BY <1>1, <1>2, <1>3, <1>4 DEF Tick

LEMMA OfferType == \A ap \in Offers : ap = <<>> \/ (ap = <<ap[1]>> /\ ap[1] \in Transfers)
<1> TAKE ap \in Offers
<1>1. CASE ap = <<>>
  BY <1>1
<1>2. CASE ap \in {<<t>> : t \in Transfers}
  <2>1. PICK t \in Transfers : ap = <<t>>
    BY <1>2
  <2> QED
    BY <2>1
<1> QED
  BY <1>1, <1>2 DEF Offers

\* What the bus does at an edge: it moves on when the state machine is in IDLE.
LEMMA BusIdle ==
    ASSUME Inv, EN, state = "IDLE", NEW ap \in Offers, NEW other \in BOOLEAN, Bus(ap, other)
    PROVE  /\ Ready(other) <=> (bus # <<>> \/ other)
           /\ Ready(other) => bus' = ap
           /\ ~Ready(other) => bus' = <<>>
           /\ answer' = <<>>
<1>1. HREADYOUT
  BY DEF HREADYOUT, Inv, Phases
<1>2. bus = <<>> => answer = <<>>
  BY DEF Inv, Heeded
<1>3. Ready(other) <=> (bus # <<>> \/ other)
  BY <1>1 DEF Ready
<1>4. answer' = <<>>
  BY <1>1, <1>2 DEF Bus
<1> QED
  BY <1>3, <1>4 DEF Bus

LEMMA BusBusy ==
    ASSUME Inv, EN, state # "IDLE", NEW ap \in Offers, NEW other \in BOOLEAN, Bus(ap, other)
    PROVE  bus' = bus /\ answer' = answer /\ result' = result
<1>1. ~HREADYOUT /\ bus # <<>>
  BY DEF HREADYOUT, Inv, Phases
<1> QED
  BY <1>1 DEF Bus, Ready

LEMMA ClockStep ==
    ASSUME Inv, NEW ap \in Offers, NEW other \in BOOLEAN, NEW arrived \in BOOLEAN,
           Clock(ap, other, arrived)
    PROVE  Inv'
<1>1. Tick /\ EN /\ Bus(ap, other)
  BY ClockTick DEF Clock
<1>2. CASE Idle(ap, Ready(other))
  <2>1. state = "IDLE" /\ ~(ap # <<>> /\ Ready(other))
    BY <1>2 DEF Idle
  <2>2. bus' = <<>> /\ answer' = <<>>
    BY <1>1, <2>1, BusIdle
  <2> QED
    BY <1>1, <1>2, <2>2, IdleStep DEF Idle
<1>3. CASE Take(ap, Ready(other))
  <2>1. state = "IDLE" /\ ap # <<>> /\ Ready(other)
    BY <1>3 DEF Take
  <2>2. bus' = ap /\ answer' = <<>>
    BY <1>1, <2>1, BusIdle
  <2> DEFINE t == ap[1]
  <2>3. ap = <<t>> /\ t \in Transfers
    BY <2>1, OfferType
  <2>4. bus' = <<t>>
    BY <2>2, <2>3
  <2>5. /\ slv_HRESP' = FALSE /\ slv_HREADYOUT' = FALSE
        /\ req' = [write |-> t.write, size |-> t.size, addr |-> t.addr]
        /\ UNCHANGED <<dati, slv_HRDATA>>
    BY <1>3 DEF Take
  <2>6. CASE t.write
    <3>1. state' = "WAITDATA" /\ Keep /\ UNCHANGED icnt
      BY <1>3, <2>6 DEF Take
    <3> HIDE DEF t
    <3> QED
      BY <1>1, <2>1, <2>2, <2>3, <2>4, <2>5, <2>6, <3>1, TakeWriteStep
  <2>7. CASE ~t.write
    <3>1. state' = "WAITRESP" /\ Load(Packet(t, <<>>)) /\ icnt' = Expected(t)
      BY <1>3, <2>7 DEF Take
    <3> HIDE DEF t
    <3> QED
      BY <1>1, <2>1, <2>2, <2>3, <2>4, <2>5, <2>7, <3>1, TakeReadStep
  <2> QED
    BY <2>6, <2>7
<1>4. CASE \E junk \in Byte : bus # <<>> /\ WaitData(HWDATA(bus[1], junk))
  <2>1. PICK junk \in Byte : WaitData(HWDATA(bus[1], junk))
    BY <1>4
  <2>2. state = "WAITDATA"
    BY <2>1 DEF WaitData
  <2>3. bus' = bus /\ answer' = answer
    BY <1>1, <2>2, BusBusy
  <2> QED
    BY <1>1, <2>1, <2>2, <2>3, WaitDataStep
<1>5. CASE WaitResp
  <2>1. bus' = bus /\ answer' = answer
    BY <1>1, <1>5, BusBusy DEF WaitResp
  <2> QED
    BY <1>1, <1>5, <2>1, WaitAskedStep, WaitAnsweredStep
<1>6. CASE AhbResp
  <2>1. bus' = bus /\ answer' = answer
    BY <1>1, <1>6, BusBusy DEF AhbResp
  <2> QED
    BY <1>1, <1>6, <2>1, AhbRespStep
<1>7. CASE ErrDelay
  <2>1. bus' = bus /\ answer' = answer
    BY <1>1, <1>7, BusBusy DEF ErrDelay
  <2> QED
    BY <1>1, <1>7, <2>1, ErrDelayStep
<1> QED
  BY <1>2, <1>3, <1>4, <1>5, <1>6, <1>7 DEF Clock

\* While EN is low nothing is on the way, and the registers stand still.
LEMMA Still ==
    ASSUME Inv, ~EN \/ bus = <<>>
    PROVE  /\ state = "IDLE" /\ icnt = 0 /\ answer = <<>> /\ heard = <<>> /\ fifo = <<>>
           /\ ~WREN /\ ocnt = 0 /\ input = <<>> /\ ~dvalid
<1>1. state = "IDLE" /\ answer = <<>>
  BY DEF Inv, Phases, Heeded
<1> QED
  BY <1>1 DEF Inv, Phases, Asked

LEMMA DisabledStep ==
    ASSUME Inv, NEW ap \in Offers, NEW other \in BOOLEAN, ClockDisabled(ap, other)
    PROVE  Inv'
<1>1. ~EN /\ ~EN'
  BY DEF ClockDisabled
<1>2. UNCHANGED <<heard, dvalid, outgoing, icnt, dati, state, req, slv>>
  BY DEF ClockDisabled
<1>3. /\ state = "IDLE" /\ icnt = 0 /\ answer = <<>> /\ heard = <<>> /\ fifo = <<>>
      /\ ~WREN /\ ocnt = 0 /\ input = <<>> /\ ~dvalid
  BY <1>1, Still
<1>4. /\ fifo' = <<>> /\ input' = <<>> /\ RDDATA' = RDDATA /\ lost' = lost
      /\ answer' = <<>>
  <2>1. Fifos(FALSE) /\ Bus(ap, other)
    BY DEF ClockDisabled
  <2>2. ~RDEN(FALSE)
    BY DEF RDEN
  <2>3. lost \in BOOLEAN
    BY TypeParts, Zenon DEF Inv
  <2> QED
    BY <1>3, <2>1, <2>2, <2>3 DEF Fifos, Bus
<1>5. bus' \in Offers /\ (bus' = IF Ready(other) THEN ap ELSE bus)
  <2>1. bus \in Offers
    BY TypeParts DEF Inv
  <2> QED
    BY <2>1 DEF ClockDisabled, Bus
<1>6. Ready(other) = IF bus = <<>> THEN other ELSE dslv_HREADYOUT
  BY <1>1 DEF Ready, HREADYOUT
<1>7. Refused' /\ active' \in BOOLEAN /\ dslv_HREADYOUT' \in BOOLEAN /\ dslv_HRESP' \in BOOLEAN
  <2>1. /\ active \in BOOLEAN /\ dslv_HREADYOUT \in BOOLEAN /\ dslv_HRESP \in BOOLEAN
        /\ active <=> bus # <<>>
        /\ ~active => dslv_HREADYOUT /\ ~dslv_HRESP
        /\ active /\ dslv_HREADYOUT => dslv_HRESP
    BY <1>1, TypeParts DEF Inv, Refused
  <2>2. CASE ap # <<>> /\ Ready(other)
    <3>1. bus' # <<>>
      BY <1>5, <2>2
    <3>2. dslv_HREADYOUT' = FALSE /\ active' = TRUE /\ dslv_HRESP' = dslv_HRESP
      BY <2>2 DEF ClockDisabled, Default!Clock
    <3> QED
      BY <1>1, <2>1, <3>1, <3>2, Zenon DEF Refused
  <2>3. CASE ~(ap # <<>> /\ Ready(other)) /\ active
    <3>1. Default!Refuse
      BY <2>3 DEF ClockDisabled, Default!Clock
    <3>2. CASE dslv_HREADYOUT
      <4>1. dslv_HRESP /\ Ready(other) /\ ap = <<>>
        BY <1>6, <2>1, <2>3, <3>2
      <4>2. dslv_HRESP' = FALSE /\ active' = FALSE /\ dslv_HREADYOUT' = dslv_HREADYOUT
        BY <3>1, <3>2, <4>1 DEF Default!Refuse
      <4>3. bus' = <<>>
        BY <1>5, <4>1
      <4> QED
        BY <1>1, <2>1, <3>2, <4>2, <4>3, Zenon DEF Refused
    <3>3. CASE ~dslv_HREADYOUT
      <4>1. bus' = bus /\ bus # <<>>
        BY <1>5, <1>6, <2>1, <2>3, <3>3
      <4>2. active' = TRUE /\ dslv_HRESP' = TRUE /\ dslv_HREADYOUT' \in BOOLEAN
        <5>1. CASE dslv_HRESP
          BY <2>1, <2>3, <3>1, <3>3, <5>1 DEF Default!Refuse
        <5>2. CASE ~dslv_HRESP
          BY <2>1, <2>3, <3>1, <3>3, <5>2 DEF Default!Refuse
        <5> QED
          BY <5>1, <5>2
      <4> QED
        BY <1>1, <4>1, <4>2, Zenon DEF Refused
    <3> QED
      BY <3>2, <3>3
  <2>4. CASE ~(ap # <<>> /\ Ready(other)) /\ ~active
    <3>1. UNCHANGED <<active, dslv_HREADYOUT, dslv_HRESP>>
      BY <2>4 DEF ClockDisabled, Default!Clock, Default!Refuse, Default!vars
    <3>2. bus' = <<>>
      BY <1>5, <2>1, <2>4
    <3> QED
      BY <1>1, <2>1, <2>4, <3>1, <3>2, Zenon DEF Refused
  <2> QED
    BY <2>2, <2>3, <2>4
<1>8. TypeOK'
  <2>1. heard' \in Seq(Item) /\ fifo' \in Seq(Item) /\ Len(fifo') <= Depth
        /\ input' \in Seq(Byte) /\ Len(input') <= 5
    BY <1>2, <1>3, <1>4, DepthAssumption
  <2>2. /\ WRDATA' \in Item /\ dato' \in Seq(Item) /\ Len(dato') = 9 /\ ocnt' \in 0..9
        /\ RDDATA' \in Byte /\ icnt' \in 0..5 /\ dati' \in [1..5 -> Byte]
        /\ state' \in {"IDLE", "WAITDATA", "WAITRESP", "AHBRESP", "ERRDELAY"}
        /\ req' \in Sized /\ WREN' \in BOOLEAN /\ dvalid' \in BOOLEAN /\ lost' \in BOOLEAN
        /\ slv_HREADYOUT' \in BOOLEAN /\ slv_HRESP' \in BOOLEAN
        /\ slv_HRDATA' \in [1..4 -> Byte]
    BY <1>2, <1>4, TypeParts, Zenon DEF Inv, outgoing, slv
  <2>3. EN' \in BOOLEAN
    BY TypeParts, Zenon DEF Inv, ClockDisabled
  <2> QED
    BY <1>5, <1>7, <2>1, <2>2, <2>3, Zenon DEF TypeOK, Sized
<1>9. NoOverRead' /\ Phases' /\ Asked' /\ Heeded'
  BY <1>1, <1>2, <1>3, <1>4 DEF NoOverRead, Inv, Phases, Asked, Heeded, outgoing, slv
<1> QED
  BY <1>7, <1>8, <1>9 DEF Inv

LEMMA SwitchStep == Inv /\ Switch => Inv'
<1> SUFFICES ASSUME Inv, Switch PROVE Inv'
  OBVIOUS
<1>1. bus = <<>> /\ bus' = <<>> /\ EN' = ~EN
  BY DEF Switch
<1>2. UNCHANGED <<answer, heard, lost, link, outgoing, icnt, dati, state, req, slv, dslv>>
  BY DEF Switch
<1>3. /\ state = "IDLE" /\ icnt = 0 /\ answer = <<>> /\ heard = <<>> /\ fifo = <<>>
      /\ ~WREN /\ ocnt = 0 /\ input = <<>> /\ ~dvalid
  BY <1>1, Still
<1>4. TypeOK'
  <2>1. EN' \in BOOLEAN /\ bus' \in Offers
    BY <1>1, Zenon DEF Offers
  <2> QED
    BY <1>2, <2>1, TypeParts, Zenon DEF Inv, TypeOK, Sized, link, outgoing, slv, dslv
<1>5. NoOverRead' /\ Phases' /\ Asked' /\ Heeded'
  BY <1>1, <1>2, <1>3 DEF NoOverRead, Inv, Phases, Asked, Heeded, outgoing, slv, link
<1>6. Refused'
  BY <1>1, <1>2 DEF Inv, Refused, dslv
<1> QED
  BY <1>4, <1>5, <1>6 DEF Inv

\* Reading does not change what the host hears in the end.
LEMMA HostReadsStep == Inv /\ HostReads => Inv'
<1> SUFFICES ASSUME Inv, HostReads PROVE Inv'
  OBVIOUS
<1>1. fifo # <<>> /\ heard' = Append(heard, Head(fifo)) /\ fifo' = Tail(fifo)
  BY DEF HostReads
<1>2. UNCHANGED <<EN, bus, result, answer, lost, input, RDDATA, dvalid, outgoing,
                  icnt, dati, state, req, slv, dslv>>
  BY DEF HostReads
<1>3. state = "WAITRESP" /\ answer = <<>>
  BY <1>1 DEF Inv, Asked
<1>4. heard \in Seq(Item) /\ fifo \in Seq(Item) /\ Len(fifo) <= Depth
  BY DEF Inv, TypeOK
<1>5. /\ heard' \in Seq(Item) /\ fifo' \in Seq(Item) /\ Len(fifo') <= Depth
      /\ heard' \o fifo' = heard \o fifo
  <2>1. Len(fifo') = Len(fifo) - 1 /\ Len(fifo) \in Nat /\ fifo' \in Seq(Item)
    BY <1>1, <1>4, HeadTailProperties
  <2>2. Len(fifo') <= Depth
    BY <1>4, <2>1, DepthAssumption
  <2>3. Head(fifo) \in Item /\ Append(heard, Head(fifo)) \in Seq(Item)
    BY <1>1, <1>4
  <2>4. Append(heard, Head(fifo)) = heard \o <<Head(fifo)>> /\ fifo = <<Head(fifo)>> \o Tail(fifo)
    BY <1>1, <1>4, <2>3
  <2>5. <<Head(fifo)>> \in Seq(Item) /\ Tail(fifo) \in Seq(Item)
    BY <1>1, <1>4, <2>3
  <2>6. (heard \o <<Head(fifo)>>) \o Tail(fifo) = heard \o (<<Head(fifo)>> \o Tail(fifo))
    BY <1>4, <2>5, ConcatAssociative
  <2> QED
    BY <1>1, <2>1, <2>2, <2>3, <2>4, <2>6
<1>6. heard' \o Outgoing' = heard \o Outgoing
  <2> DEFINE d == SubSeq(dato, 1, ocnt)
             r == Registered
  <2>1. d \in Seq(Item)
    BY FirstBytes DEF Inv, TypeOK
  <2>2. r \in Seq(Item)
    BY RegisteredType DEF Inv
  <2>3. Outgoing = (fifo \o r) \o d /\ Outgoing' = (fifo' \o r) \o d
    BY <1>2 DEF Outgoing, Registered, outgoing
  <2> HIDE DEF d, r
  <2> DEFINE e == r \o d
  <2>4. heard \in Seq(Item)
    BY <1>4
  <2>5. fifo \in Seq(Item)
    BY <1>4
  <2>6. heard' \in Seq(Item)
    BY <1>5
  <2>7. fifo' \in Seq(Item)
    BY <1>5
  <2>8. (fifo \o r) \o d = fifo \o (r \o d)
    BY ONLY <2>5, <2>2, <2>1, ConcatAssociative
  <2>9. (fifo' \o r) \o d = fifo' \o (r \o d)
    BY ONLY <2>7, <2>2, <2>1, ConcatAssociative
  <2>10. e \in Seq(Item)
    BY ONLY <2>1, <2>2, ConcatProperties
  <2>11. Outgoing = fifo \o e /\ Outgoing' = fifo' \o e
    BY ONLY <2>3, <2>8, <2>9
  <2> HIDE DEF e
  <2>12. (heard \o fifo) \o e = heard \o (fifo \o e)
    BY ONLY <2>4, <2>5, <2>10, ConcatAssociative
  <2>13. (heard' \o fifo') \o e = heard' \o (fifo' \o e)
    BY ONLY <2>6, <2>7, <2>10, ConcatAssociative
  <2>14. heard' \o fifo' = heard \o fifo
    BY <1>5
  <2> QED
    BY ONLY <2>11, <2>12, <2>13, <2>14
<1>7. TypeOK'
  <2>1. WREN' \in BOOLEAN /\ dvalid' \in BOOLEAN
    BY <1>2, TypeParts, Zenon DEF Inv, outgoing
  <2> QED
    BY <1>2, <1>5, <2>1, TypeParts, Zenon DEF Inv, TypeOK, Sized, outgoing, slv, dslv
<1>8. Asked'
  <2>1. state' = "WAITRESP" /\ answer' = <<>>
    BY <1>2, <1>3
  <2>2. /\ heard \o Outgoing # <<>>
        /\ (heard \o Outgoing)[1] = Header(bus[1])
        /\ Len(heard \o Outgoing) <= PacketLen(Header(bus[1]))
        /\ input = <<>> /\ ~dvalid /\ icnt = Awaited(bus[1])
    BY <1>3 DEF Inv, Asked
  <2> QED
    BY <1>2, <1>6, <2>1, <2>2 DEF Asked
<1>9. NoOverRead' /\ Phases' /\ Heeded' /\ Refused'
  BY <1>2, <1>3 DEF NoOverRead, Inv, Phases, Heeded, Refused, outgoing, slv, dslv
<1> QED
  BY <1>7, <1>8, <1>9 DEF Inv

\* When the host has heard a request whole, nothing more is on the way to it.
LEMMA HeardWhole ==
    ASSUME Inv, heard # <<>>, Len(heard) = PacketLen(heard[1])
    PROVE  /\ state = "WAITRESP" /\ answer = <<>> /\ EN /\ bus # <<>> /\ bus[1] \in Transfers
           /\ heard[1] = Header(bus[1])
           /\ Outgoing = <<>> /\ fifo = <<>> /\ ~WREN /\ ocnt = 0
           /\ ~dvalid /\ icnt = Awaited(bus[1])
<1>1. state = "WAITRESP" /\ answer = <<>>
  BY DEF Inv, Asked
<1>2. EN /\ bus # <<>> /\ bus[1] \in Transfers
  BY <1>1, BusType DEF Inv, Phases
<1>3. /\ (heard \o Outgoing)[1] = Header(bus[1])
      /\ Len(heard \o Outgoing) <= PacketLen(Header(bus[1]))
      /\ ~dvalid /\ icnt = Awaited(bus[1])
  BY <1>1 DEF Inv, Asked
<1>4. heard \in Seq(Item) /\ Outgoing \in Seq(Item) /\ fifo \in Seq(Item)
  BY OutgoingType DEF Inv, TypeOK
<1> DEFINE o == Outgoing
<1>5. o \in Seq(Item)
  BY <1>4
<1> HIDE DEF o
<1>6. (heard \o o)[1] = heard[1]
  BY <1>4, <1>5
<1>7. heard[1] = Header(bus[1])
  BY <1>3, <1>6 DEF o
<1>8. Len(heard \o o) = Len(heard) + Len(o) /\ Len(heard) \in Nat /\ Len(o) \in Nat
  BY <1>4, <1>5
<1>9. Len(o) = 0
  <2> DEFINE l == PacketLen(Header(bus[1]))
  <2>1. Len(heard) = l /\ Len(heard \o o) <= l
    BY <1>3, <1>7 DEF o
  <2> HIDE DEF l
  <2> QED
    BY <1>8, <2>1
<1>10. Outgoing = <<>>
  BY <1>5, <1>9, EmptySeq DEF o
<1>11. Len(fifo) = 0 /\ ~WREN /\ ocnt = 0
  <2>1. Len(Outgoing) = Len(fifo) + (IF WREN THEN 1 ELSE 0) + ocnt
    BY OutgoingType DEF Inv
  <2>2. Len(fifo) \in Nat /\ ocnt \in Nat /\ Len(Outgoing) = 0
    BY <1>4, <1>9 DEF o, Inv, TypeOK
  <2> QED
    BY <2>1, <2>2
<1>12. fifo = <<>>
  BY <1>4, <1>11, EmptySeq
<1> QED
  BY <1>1, <1>2, <1>3, <1>7, <1>10, <1>11, <1>12

\* What the host answers is an answer to the transfer on the bus.
LEMMA HostAnswersAnswer ==
    ASSUME Inv, NEW e \in BOOLEAN, NEW w \in AnswerData, HostAnswers(e, w)
    PROVE  /\ heard # <<>> /\ Len(heard) = PacketLen(heard[1])
           /\ answer' = <<answer'[1]>>
           /\ answer'[1] \in Remote!Answers(bus[1])
           /\ input' = Bytes(answer'[1])
<1> DEFINE t == bus[1]
           data == SubSeq(w, 1, IF heard[1].write THEN 0 ELSE 2^heard[1].size)
           a == [err |-> e, data |-> data]
<1>1. heard # <<>> /\ Len(heard) = PacketLen(heard[1])
  BY DEF HostAnswers
<1>2. t \in Transfers /\ heard[1] = Header(t)
  BY <1>1, HeardWhole
<1>3. heard[1].write = t.write /\ heard[1].size = t.size
  BY <1>2, HeaderType
<1>4. answer' = <<a>> /\ input' = <<IF e THEN 1 ELSE 0>> \o data
  BY DEF HostAnswers
<1>5. data = SubSeq(w, 1, IF t.write THEN 0 ELSE 2^t.size)
  BY <1>3
<1> HIDE DEF data
<1>6. a \in Remote!Answers(t)
  BY <1>5, Zenon DEF Remote!Answers
<1>7. input' = Bytes(a)
  BY <1>4 DEF Bytes
<1> QED
  BY <1>1, <1>4, <1>6, <1>7

LEMMA HostAnswersStep ==
    ASSUME Inv, NEW e \in BOOLEAN, NEW w \in AnswerData, HostAnswers(e, w)
    PROVE  Inv'
<1> DEFINE t == bus[1]
           a == answer'[1]
           n == Awaited(t)
<1>1. /\ heard # <<>> /\ Len(heard) = PacketLen(heard[1])
      /\ answer' = <<a>> /\ a \in Remote!Answers(t) /\ input' = Bytes(a)
  BY HostAnswersAnswer
<1>2. /\ heard' = <<>>
      /\ UNCHANGED <<EN, bus, result, lost, fifo, RDDATA, dvalid, outgoing,
                     icnt, dati, state, req, slv, dslv>>
  BY DEF HostAnswers
<1>3. /\ state = "WAITRESP" /\ EN /\ bus # <<>> /\ t \in Transfers
      /\ fifo = <<>> /\ ~WREN /\ ocnt = 0 /\ ~dvalid /\ icnt = n
  BY <1>1, HeardWhole
<1>4. n \in 1..5
  BY <1>3, AwaitedType
<1>5. Bytes(a) \in Seq(Byte) /\ Len(Bytes(a)) = n
  BY <1>1, <1>3, AnswerType
<1>6. TypeOK'
  <2>1. input' \in Seq(Byte) /\ Len(input') <= 5
    BY <1>1, <1>4, <1>5
  <2>2. heard' \in Seq(Item)
    BY <1>2
  <2>3. WREN' \in BOOLEAN
    BY <1>2, TypeParts, Zenon DEF Inv, outgoing
  <2> QED
    BY <1>2, <2>1, <2>2, <2>3, TypeParts, Zenon DEF Inv, TypeOK, Sized, outgoing, slv, dslv
<1>7. NoOverRead' /\ Phases' /\ Refused'
  BY <1>2, <1>3 DEF NoOverRead, Inv, Phases, Refused, slv, dslv
<1>8. Asked'
  <2> HIDE DEF a
  <2>1. answer' # <<>> /\ fifo' = <<>> /\ ~WREN' /\ ocnt' = 0
    BY <1>1, <1>2, <1>3 DEF outgoing
  <2> QED
    BY <1>2, <2>1 DEF Asked
<1>9. Incoming' = dati \o Bytes(a)
  <2>1. Incoming' = (dati \o <<>>) \o Bytes(a)
    BY <1>1, <1>2, <1>3 DEF Incoming
  <2>2. dati \in Seq(Byte)
    BY DatiType DEF Inv
  <2>3. dati \o <<>> = dati
    BY <2>2
  <2> QED
    BY <2>1, <2>3
<1>10. /\ Len(Incoming') = 5 + icnt
       /\ \A k \in 1..n : Incoming'[5 + icnt - n + k] = Bytes(a)[k]
  <2> DEFINE b == Bytes(a)
  <2>1. dati \in Seq(Byte) /\ Len(dati) = 5 /\ b \in Seq(Byte) /\ Len(b) = n
    BY <1>5, DatiType DEF Inv
  <2> HIDE DEF b, n
  <2>2. /\ Len(dati \o b) = Len(dati) + Len(b)
        /\ \A i \in 1..(Len(dati) + Len(b)) :
             (dati \o b)[i] = IF i <= Len(dati) THEN dati[i] ELSE b[i - Len(dati)]
    BY <2>1, ConcatProperties
  <2>3. ASSUME NEW k \in 1..n PROVE (dati \o b)[5 + icnt - n + k] = b[k]
    <3> DEFINE i == 5 + icnt - n + k
    <3>1. i \in 1..(5 + n) /\ ~(i <= 5) /\ i - 5 = k
      BY <1>3, <1>4
    <3> HIDE DEF i
    <3>2. (dati \o b)[i] = b[i - 5]
      BY <2>1, <2>2, <3>1
    <3> QED
      BY <3>1, <3>2 DEF i
  <2>4. Len(dati \o b) = 5 + icnt
    BY <1>3, <2>1, <2>2
  <2> QED
    BY <1>9, <2>3, <2>4 DEF b
<1>11. Heeded'
  <2>1. icnt <= n
    BY <1>3, <1>4
  <2>2. bus' = bus /\ EN' = EN /\ state' = state /\ icnt' = icnt
    BY <1>2
  <2> HIDE DEF a, n
  <2>3. answer'[1] = a
    BY DEF a
  <2> QED
    BY <1>1, <1>3, <1>10, <2>1, <2>2, <2>3 DEF Heeded, n
<1> QED
  BY <1>6, <1>7, <1>8, <1>11 DEF Inv

LEMMA StepInv == Inv /\ [Next]_vars => Inv'
<1> SUFFICES ASSUME Inv, [Next]_vars PROVE Inv'
  OBVIOUS
<1>1. CASE \E arrived \in BOOLEAN : Edge(arrived)
  <2>1. PICK arrived \in BOOLEAN : Edge(arrived)
    BY <1>1
  <2>2. PICK ap \in Offers, other \in BOOLEAN :
          Clock(ap, other, arrived) \/ (~arrived /\ ClockDisabled(ap, other))
    BY <2>1 DEF Edge
  <2> QED
    BY <2>2, ClockStep, DisabledStep
<1>2. CASE Switch
  BY <1>2, SwitchStep
<1>3. CASE HostReads
  BY <1>3, HostReadsStep
<1>4. CASE Answering
  <2>1. PICK e \in BOOLEAN, w \in AnswerData : HostAnswers(e, w)
    BY <1>4 DEF Answering
  <2> QED
    BY <2>1, HostAnswersStep
<1>5. CASE UNCHANGED vars
  BY <1>5, Zenon DEF vars, world, link, outgoing, slv, dslv, Inv, TypeOK, NoOverRead, Phases,
     Asked, Heeded, Refused, Outgoing, Incoming, err, Replicated
<1> QED
  BY <1>1, <1>2, <1>3, <1>4, <1>5 DEF Next

\* For every depth of the FIFO, base of a byte and set of transfers: Inv holds
\* in every reachable state.
THEOREM Invariance == Spec => []Inv
  BY InitInv, StepInv, PTL DEF Spec

-----------------------------------------------------------------------------
(* Errors take two cycles.                                                 *)

TwoCycles ==
    (bus' # <<>> /\ HREADYOUT' /\ HRESP') =>
      \/ bus # <<>> /\ HRESP /\ ~HREADYOUT
      \/ UNCHANGED <<bus, HREADYOUT, HRESP>>

LEMMA ClockTwoCycles ==
    ASSUME Inv, NEW ap \in Offers, NEW other \in BOOLEAN, NEW arrived \in BOOLEAN,
           Clock(ap, other, arrived)
    PROVE  TwoCycles
<1>1. EN /\ EN'
  BY DEF Clock
<1>2. HREADYOUT' = slv_HREADYOUT' /\ HRESP' = slv_HRESP'
  BY <1>1 DEF HREADYOUT, HRESP
<1>3. CASE Idle(ap, Ready(other)) \/ Take(ap, Ready(other))
  BY <1>2, <1>3 DEF Idle, Take, TwoCycles
<1>4. CASE (\E junk \in Byte : bus # <<>> /\ WaitData(HWDATA(bus[1], junk))) \/ WaitResp
  <2>1. state # "IDLE" /\ slv' = slv
    BY <1>4 DEF WaitData, WaitResp
  <2>2. ~slv_HREADYOUT'
    BY <2>1 DEF Inv, Phases, slv
  <2> QED
    BY <1>2, <2>2 DEF TwoCycles
<1>5. CASE AhbResp
  <2>1. ~slv_HREADYOUT
    BY <1>5 DEF AhbResp, Inv, Phases
  <2> QED
    BY <1>2, <1>5, <2>1 DEF AhbResp, TwoCycles
<1>6. CASE ErrDelay
  <2>1. state = "ERRDELAY"
    BY <1>6 DEF ErrDelay
  <2>2. bus # <<>> /\ ~slv_HREADYOUT /\ slv_HRESP
    BY <1>1, <2>1 DEF Inv, Phases, Heeded
  <2> QED
    BY <1>1, <2>2 DEF HREADYOUT, HRESP, TwoCycles
<1> QED
  BY <1>3, <1>4, <1>5, <1>6 DEF Clock

LEMMA DisabledTwoCycles ==
    ASSUME Inv, NEW ap \in Offers, NEW other \in BOOLEAN, ClockDisabled(ap, other)
    PROVE  TwoCycles
<1>1. /\ ~EN /\ ~EN'
      /\ HREADYOUT' = dslv_HREADYOUT' /\ HRESP' = dslv_HRESP'
      /\ HREADYOUT = dslv_HREADYOUT /\ HRESP = dslv_HRESP
  BY DEF ClockDisabled, HREADYOUT, HRESP
<1>2. /\ active <=> bus # <<>>
      /\ ~active => dslv_HREADYOUT /\ ~dslv_HRESP
      /\ active /\ dslv_HREADYOUT => dslv_HRESP
  BY <1>1 DEF Inv, Refused
<1>3. CASE ap # <<>> /\ Ready(other)
  <2>1. ~dslv_HREADYOUT'
    BY <1>3 DEF ClockDisabled, Default!Clock
  <2> QED
    BY <1>1, <2>1 DEF TwoCycles
<1>4. CASE ~(ap # <<>> /\ Ready(other)) /\ active
  <2>1. Default!Refuse
    BY <1>4 DEF ClockDisabled, Default!Clock
  <2> QED
    BY <1>1, <1>2, <1>4, <2>1 DEF Default!Refuse, TwoCycles
<1>5. CASE ~(ap # <<>> /\ Ready(other)) /\ ~active
  <2>1. dslv_HRESP' = dslv_HRESP
    BY <1>5 DEF ClockDisabled, Default!Clock, Default!Refuse, Default!vars
  <2> QED
    BY <1>1, <1>2, <1>5, <2>1 DEF TwoCycles
<1> QED
  BY <1>3, <1>4, <1>5

LEMMA StepTwoCycles == Inv /\ [Next]_vars => [TwoCycles]_vars
<1> SUFFICES ASSUME Inv, Next PROVE TwoCycles
  BY DEF vars
<1>1. CASE \E arrived \in BOOLEAN : Edge(arrived)
  <2>1. PICK arrived \in BOOLEAN : Edge(arrived)
    BY <1>1
  <2>2. PICK ap \in Offers, other \in BOOLEAN :
          Clock(ap, other, arrived) \/ (~arrived /\ ClockDisabled(ap, other))
    BY <2>1 DEF Edge
  <2> QED
    BY <2>2, ClockTwoCycles, DisabledTwoCycles
<1>2. CASE Switch
  BY <1>2 DEF Switch, TwoCycles
<1>3. CASE HostReads
  BY <1>3 DEF HostReads, TwoCycles, HREADYOUT, HRESP, slv, dslv
<1>4. CASE Answering
  BY <1>4 DEF Answering, HostAnswers, TwoCycles, HREADYOUT, HRESP, slv, dslv
<1> QED
  BY <1>1, <1>2, <1>3, <1>4 DEF Next

\* A transfer never ends with an error that was not shown a cycle earlier with
\* HREADYOUT low, whether the host or the default slave refuses it.
THEOREM TwoCycle == Spec => TwoCycleError
  BY Invariance, StepTwoCycles, PTL DEF Spec, TwoCycleError, TwoCycles

-----------------------------------------------------------------------------
(* The abstract slave.                                                     *)

Wire == IF EN /\ state = "WAITDATA"
        THEN Packet(bus[1], Digits(bus[1].data, 2^bus[1].size))
        ELSE Outgoing

LEMMA QuietOutgoing == fifo = <<>> /\ ~WREN /\ ocnt = 0 => Outgoing = <<>>
<1> SUFFICES ASSUME fifo = <<>>, ~WREN, ocnt = 0 PROVE Outgoing = <<>>
  OBVIOUS
<1>1. SubSeq(dato, 1, 0) = <<>>
  BY SubSeqEmpty
<1>2. Outgoing = (<<>> \o <<>>) \o SubSeq(dato, 1, 0)
  BY DEF Outgoing
<1> QED
  BY <1>1, <1>2

\* The abstract actions, said of Wire.
LEMMA TurnFold ==
    ASSUME NEW next, bus' = next, EN' = EN,
           Wire' = IF next = <<>> \/ ~EN THEN <<>> ELSE Remote!Request(next[1])
    PROVE  Remote!Turn(next)
  BY Zenon DEF Remote!Turn, Wire, Outgoing

LEMMA WaitFold ==
    ASSUME UNCHANGED <<EN, bus, answer, result>>, Wire' = Wire
    PROVE  UNCHANGED Remote!vars
  BY Zenon DEF Remote!vars, Wire, Outgoing

\* The packets of the two modules agree.
LEMMA RequestRead ==
    ASSUME NEW t \in Transfers, ~t.write
    PROVE  Remote!Request(t) = Packet(t, <<>>)
<1> DEFINE a == Digits(t.addr, 4)
           p == a \o <<>>
<1>1. a \in Seq(Byte) /\ Len(a) = 4
  BY TransferType, DigitsType
<1>2. Len(p) = 4
  <2> HIDE DEF a
  <2> QED
    BY <1>1
<1>3. Remote!Digits(t.addr, 4) = a
  BY DEF Remote!Digits, Digits
<1>4. Remote!Request(t) =
        <<[cnt |-> CASE Len(p) = 4 -> 3 [] Len(p) = 5 -> 4 [] Len(p) = 6 -> 5 [] Len(p) = 8 -> 6,
           write |-> t.write, size |-> t.size]>> \o [k \in 1..Len(p) |-> [data |-> p[k]]]
  BY <1>3 DEF Remote!Request
<1>5. Header(t) = [cnt |-> 3, write |-> t.write, size |-> t.size]
  BY DEF Header
<1>6. Packet(t, <<>>) = <<Header(t)>> \o [k \in 1..Len(p) |-> [data |-> p[k]]]
  BY DEF Packet
<1> HIDE DEF p
<1> QED
  BY <1>2, <1>4, <1>5, <1>6

LEMMA RequestWrite ==
    ASSUME NEW t \in Transfers, t.write
    PROVE  Remote!Request(t) = Packet(t, Digits(t.data, 2^t.size))
<1> DEFINE a == Digits(t.addr, 4)
           d == Digits(t.data, 2^t.size)
           p == a \o d
<1>0. t.size \in 0..2 /\ t.addr \in Nat /\ t.data \in Nat
  BY TransferType
<1>1. a \in Seq(Byte) /\ Len(a) = 4 /\ d \in Seq(Byte) /\ Len(d) = 2^t.size
  BY <1>0, SizePower, DigitsType
<1>2. Len(p) = 4 + 2^t.size
  <2>1. a \in Seq(Byte) /\ d \in Seq(Byte)
    BY <1>1
  <2> HIDE DEF a, d
  <2>2. Len(a \o d) = Len(a) + Len(d)
    BY <2>1, ConcatProperties
  <2> QED
    BY <1>1, <2>2
<1>3. Remote!Digits(t.addr, 4) = a /\ Remote!Digits(t.data, 2^t.size) = d
  BY DEF Remote!Digits, Digits
<1>4. Remote!Request(t) =
        <<[cnt |-> CASE Len(p) = 4 -> 3 [] Len(p) = 5 -> 4 [] Len(p) = 6 -> 5 [] Len(p) = 8 -> 6,
           write |-> t.write, size |-> t.size]>> \o [k \in 1..Len(p) |-> [data |-> p[k]]]
  BY <1>3 DEF Remote!Request
<1>5. Header(t) = [cnt |-> <<4, 5, 6>>[t.size + 1], write |-> t.write, size |-> t.size]
  BY DEF Header
<1>6. Packet(t, d) = <<Header(t)>> \o [k \in 1..Len(p) |-> [data |-> p[k]]]
  BY DEF Packet
<1> HIDE DEF p
<1>7. (CASE Len(p) = 4 -> 3 [] Len(p) = 5 -> 4 [] Len(p) = 6 -> 5 [] Len(p) = 8 -> 6)
        = <<4, 5, 6>>[t.size + 1]
  <2>1. CASE t.size = 0
    <3>1. Len(p) = 5
      BY <1>2, <2>1, Powers
    <3> QED
      BY <2>1, <3>1
  <2>2. CASE t.size = 1
    <3>1. Len(p) = 6
      BY <1>2, <2>2, Powers
    <3> QED
      BY <2>2, <3>1
  <2>3. CASE t.size = 2
    <3>1. Len(p) = 8
      BY <1>2, <2>3, Powers
    <3> QED
      BY <2>3, <3>1
  <2>4. t.size = 0 \/ t.size = 1 \/ t.size = 2
    BY <1>0
  <2> QED
    BY <2>1, <2>2, <2>3, <2>4, Zenon
<1> QED
  BY <1>4, <1>5, <1>6, <1>7

Implements == ~lost' => Remote!Next \/ UNCHANGED Remote!vars

\* A transfer ends as the host answered it.
LEMMA EndResult ==
    ASSUME Inv, EN, state = "IDLE", bus # <<>>,
           NEW ap \in Offers, NEW other \in BOOLEAN, Bus(ap, other)
    PROVE  /\ answer # <<>>
           /\ result' = Remote!Outcome(bus[1], answer[1].err, answer[1].data)
<1> DEFINE t == bus[1]
           a == answer[1]
<1>1. HREADYOUT /\ HRESP = slv_HRESP
  BY DEF HREADYOUT, HRESP, Inv, Phases
<1>2. answer # <<>> /\ a \in Remote!Answers(t) /\ slv_HRESP = a.err
      /\ (~t.write /\ ~a.err => Lane(slv_HRDATA, t) = a.data)
  BY DEF Inv, Heeded
<1>3. t \in Transfers
  BY BusType DEF Inv
<1>4. a.err \in BOOLEAN /\ t.write \in BOOLEAN
  BY <1>2, <1>3, AnswerType, TransferType
<1>5. t.write => a.data = <<>>
  <2>1. a.data \in Seq(Byte) /\ Len(a.data) = Awaited(t) - 1
    BY <1>2, <1>3, AnswerType
  <2>2. t.write => Awaited(t) = 1
    BY DEF Awaited
  <2>3. t.write => Len(a.data) = 0
    BY <2>1, <2>2
  <2> QED
    BY <2>1, <2>3, EmptySeq
<1>6. result' = [write |-> t.write, addr |-> t.addr, err |-> slv_HRESP,
                 data |-> IF t.write \/ slv_HRESP THEN <<>> ELSE Lane(slv_HRDATA, t)]
  BY <1>1 DEF Bus
<1>7. (IF t.write \/ slv_HRESP THEN <<>> ELSE Lane(slv_HRDATA, t))
        = (IF a.err THEN <<>> ELSE a.data)
  <2>1. CASE a.err
    BY <1>2, <2>1
  <2>2. CASE ~a.err /\ t.write
    BY <1>2, <1>5, <2>2
  <2>3. CASE ~a.err /\ ~t.write
    BY <1>2, <2>3
  <2> QED
    BY <1>4, <2>1, <2>2, <2>3
<1> QED
  BY <1>2, <1>6, <1>7 DEF Remote!Outcome

\* In IDLE the next data phase starts, and the last one ends.
LEMMA TurnStep ==
    ASSUME Inv, EN, EN' = EN, state = "IDLE",
           NEW ap \in Offers, NEW other \in BOOLEAN, Bus(ap, other),
           NEW next \in Offers, bus' = next,
           Wire' = IF next = <<>> THEN <<>> ELSE Remote!Request(next[1])
    PROVE  Remote!Next
<1>1. Remote!Turn(next)
  <2>1. Wire' = IF next = <<>> \/ ~EN THEN <<>> ELSE Remote!Request(next[1])
    OBVIOUS
  <2> QED
    BY <2>1, TurnFold
<1>2. answer' = <<>>
  BY BusIdle
<1>3. CASE bus = <<>>
  <2>1. answer = <<>> /\ result' = result
    BY <1>3 DEF Bus, Inv, Heeded
  <2>2. Remote!Start(next)
    BY <1>1, <1>2, <1>3, <2>1, Zenon DEF Remote!Start
  <2> QED
    BY <2>2, Zenon DEF Remote!Next, Offers
<1>4. CASE bus # <<>>
  <2>1. answer # <<>> /\ result' = Remote!Outcome(bus[1], answer[1].err, answer[1].data)
    BY <1>4, EndResult
  <2>2. Remote!Complete(next)
    BY <1>1, <1>2, <1>4, <2>1, Zenon DEF Remote!Complete
  <2> QED
    BY <2>2, Zenon DEF Remote!Next, Offers
<1> QED
  BY <1>3, <1>4

LEMMA EmptyOffer == <<>> \in Offers
  BY DEF Offers

LEMMA ClockImplements ==
    ASSUME Inv, NEW ap \in Offers, NEW other \in BOOLEAN, NEW arrived \in BOOLEAN,
           Clock(ap, other, arrived)
    PROVE  Implements
<1> SUFFICES ASSUME ~lost' PROVE Remote!Next \/ UNCHANGED Remote!vars
  BY DEF Implements
<1>1. Tick /\ EN /\ EN' = EN /\ Bus(ap, other)
  BY ClockTick DEF Clock
<1>2. CASE Idle(ap, Ready(other))
  <2>1. state = "IDLE" /\ state' = "IDLE" /\ ~(ap # <<>> /\ Ready(other)) /\ Keep
    BY <1>2 DEF Idle
  <2>2. bus' = <<>>
    BY <1>1, <2>1, BusIdle
  <2>3. Wire' = <<>>
    <3>1. fifo' = <<>> /\ ~WREN' /\ ocnt' = 0
      BY <1>1, <2>1, TickQuiet DEF Keep
    <3>2. (fifo = <<>> /\ ~WREN /\ ocnt = 0 => Outgoing = <<>>)'
      BY QuietOutgoing, PTL
    <3> QED
      BY <2>1, <3>1, <3>2 DEF Wire
  <2>4. Wire' = IF <<>> = <<>> THEN <<>> ELSE Remote!Request(<<>>[1])
    BY <2>3
  <2> QED
    BY <1>1, <2>1, <2>2, <2>4, EmptyOffer, TurnStep
<1>3. CASE Take(ap, Ready(other))
  <2>1. state = "IDLE" /\ ap # <<>> /\ Ready(other)
    BY <1>3 DEF Take
  <2> DEFINE t == ap[1]
  <2>2. bus' = ap /\ ap = <<t>> /\ t \in Transfers
    BY <1>1, <2>1, BusIdle, OfferType
  <2>3. Wire' = Remote!Request(t)
    <3>1. CASE t.write
      <4>1. state' = "WAITDATA" /\ EN' /\ bus'[1] = t
        BY <1>1, <1>3, <2>2, <3>1 DEF Take
      <4>2. Wire' = Packet(t, Digits(t.data, 2^t.size))
        BY <4>1 DEF Wire
      <4> QED
        BY <2>2, <3>1, <4>2, RequestWrite
    <3>2. CASE ~t.write
      <4> DEFINE p == Packet(t, <<>>)
      <4>1. state' = "WAITRESP" /\ Load(p)
        BY <1>3, <3>2 DEF Take
      <4>2. p \in Seq(Item) /\ Len(p) >= 5 /\ Len(p) <= 9
        <5>1. p \in Seq(Item) /\ Len(p) = PacketLen(Header(t)) /\ PacketLen(Header(t)) = 5
          BY <2>2, <3>2, PacketReadType
        <5> HIDE DEF p
        <5>2. Len(p) = 5
          BY <5>1
        <5> QED
          BY <5>1, <5>2
      <4> HIDE DEF p
      <4>3. Outgoing' = p
        BY <1>1, <2>1, <4>1, <4>2, LoadOutgoing
      <4>4. Wire' = p
        BY <4>1, <4>3 DEF Wire
      <4>5. Remote!Request(t) = p
        BY <2>2, <3>2, RequestRead DEF p
      <4> QED
        BY <4>4, <4>5
    <3> QED
      BY <3>1, <3>2
  <2>4. Wire' = IF ap = <<>> THEN <<>> ELSE Remote!Request(ap[1])
    BY <2>1, <2>3
  <2> QED
    BY <1>1, <2>1, <2>2, <2>4, TurnStep
<1>4. ASSUME state # "IDLE", Wire' = Wire PROVE UNCHANGED Remote!vars
  <2>1. bus' = bus /\ answer' = answer /\ result' = result
    BY <1>1, <1>4, BusBusy
  <2> QED
    BY <1>1, <1>4, <2>1, WaitFold
<1>5. CASE \E junk \in Byte : bus # <<>> /\ WaitData(HWDATA(bus[1], junk))
  <2>1. PICK junk \in Byte : WaitData(HWDATA(bus[1], junk))
    BY <1>5
  <2>2. state = "WAITDATA" /\ state' = "WAITRESP"
    BY <2>1 DEF WaitData
  <2>3. Wire' = Wire
    BY <1>1, <2>1, <2>2, WaitDataSent DEF Wire
  <2> QED
    BY <1>4, <2>2, <2>3
<1>6. CASE WaitResp
  <2>1. state = "WAITRESP" /\ state' \in {"WAITRESP", "AHBRESP"} /\ Keep
    BY <1>6 DEF WaitResp
  <2>2. ~(WREN /\ WRFULL)
    BY DEF Clock, Fifos
  <2>3. Outgoing' = Outgoing
    BY <1>1, <2>1, <2>2, KeepSends DEF Inv, Tick
  <2>4. Wire' = Wire
    BY <2>1, <2>3 DEF Wire
  <2> QED
    BY <1>4, <2>1, <2>4
<1>7. CASE AhbResp \/ ErrDelay
  <2>1. state \in {"AHBRESP", "ERRDELAY"} /\ state' \in {"IDLE", "ERRDELAY"} /\ Keep
    BY <1>7 DEF AhbResp, ErrDelay
  <2>2. ~(WREN /\ WRFULL)
    BY DEF Clock, Fifos
  <2>3. Outgoing' = Outgoing
    BY <1>1, <2>1, <2>2, KeepSends DEF Inv, Tick
  <2>4. Wire' = Wire
    BY <2>1, <2>3 DEF Wire
  <2> QED
    BY <1>4, <2>1, <2>4
<1> QED
  BY <1>2, <1>3, <1>5, <1>6, <1>7 DEF Clock

LEMMA DisabledImplements ==
    ASSUME Inv, NEW ap \in Offers, NEW other \in BOOLEAN, ClockDisabled(ap, other)
    PROVE  Remote!Next \/ UNCHANGED Remote!vars
<1>1. ~EN /\ ~EN' /\ EN' = EN
  BY DEF ClockDisabled
<1>2. /\ state = "IDLE" /\ answer = <<>> /\ fifo = <<>> /\ ~WREN /\ ocnt = 0
  BY <1>1, Still
<1>3. fifo' = <<>> /\ ~WREN' /\ ocnt' = 0 /\ answer' = answer
  <2>1. Fifos(FALSE) /\ Bus(ap, other) /\ UNCHANGED outgoing
    BY DEF ClockDisabled
  <2> QED
    BY <1>2, <2>1 DEF Fifos, Bus, outgoing
<1>4. Wire = <<>> /\ Wire' = <<>>
  <2>1. (fifo = <<>> /\ ~WREN /\ ocnt = 0 => Outgoing = <<>>)'
    BY QuietOutgoing, PTL
  <2> QED
    BY <1>1, <1>2, <1>3, <2>1, QuietOutgoing DEF Wire
<1>5. Bus(ap, other)
  BY DEF ClockDisabled
<1>6. CASE Ready(other)
  <2>1. bus' = ap
    BY <1>5, <1>6 DEF Bus
  <2>2. Remote!Turn(ap)
    <3>1. Wire' = IF ap = <<>> \/ ~EN THEN <<>> ELSE Remote!Request(ap[1])
      BY <1>1, <1>4
    <3> QED
      BY <1>1, <2>1, <3>1, TurnFold
  <2>3. CASE bus = <<>>
    <3>1. result' = result
      BY <1>5, <2>3 DEF Bus
    <3>2. Remote!Start(ap)
      BY <1>3, <2>2, <2>3, <3>1, Zenon DEF Remote!Start
    <3> QED
      BY <3>2, Zenon DEF Remote!Next, Offers
  <2>4. CASE bus # <<>>
    <3>1. HREADYOUT /\ HRESP = dslv_HRESP /\ dslv_HREADYOUT
      BY <1>1, <1>6, <2>4 DEF Ready, HREADYOUT, HRESP
    <3>2. dslv_HRESP /\ dslv_HRESP \in BOOLEAN
      BY <1>1, <2>4, <3>1, TypeParts DEF Inv, Refused
    <3>3. HRESP = TRUE
      BY <3>1, <3>2
    <3>4. result' = [write |-> bus[1].write, addr |-> bus[1].addr, err |-> TRUE, data |-> <<>>]
      BY <1>5, <2>4, <3>1, <3>3 DEF Bus
    <3>5. result' = Remote!Outcome(bus[1], TRUE, <<>>)
      BY <3>4 DEF Remote!Outcome
    <3>6. Remote!Refuse(ap)
      BY <1>1, <1>3, <2>2, <2>4, <3>5, Zenon DEF Remote!Refuse
    <3> QED
      BY <3>6, Zenon DEF Remote!Next, Offers
  <2> QED
    BY <2>3, <2>4
<1>7. CASE ~Ready(other)
  <2>1. bus' = bus /\ result' = result
    BY <1>5, <1>7 DEF Bus, Ready
  <2> QED
    BY <1>1, <1>3, <1>4, <2>1, WaitFold
<1> QED
  BY <1>6, <1>7

LEMMA SwitchImplements == Inv /\ Switch => Remote!Next
<1> SUFFICES ASSUME Inv, Switch PROVE Remote!Next
  OBVIOUS
<1>1. bus = <<>> /\ EN' = ~EN /\ UNCHANGED <<bus, result, answer>>
  BY DEF Switch
<1>2. state = "IDLE" /\ state' = "IDLE" /\ Outgoing' = Outgoing
  BY <1>1, Still DEF Switch, link, outgoing, Outgoing
<1>3. Wire' = Wire
  BY <1>2 DEF Wire
<1>4. Remote!Switch
  BY <1>1, <1>3, Zenon DEF Remote!Switch, Wire, Outgoing
<1> QED
  BY <1>4, Zenon DEF Remote!Next

LEMMA HostReadsImplements == Inv /\ HostReads => Remote!Next
<1> SUFFICES ASSUME Inv, HostReads PROVE Remote!Next
  OBVIOUS
<1>1. fifo # <<>> /\ fifo' = Tail(fifo) /\ UNCHANGED <<EN, bus, result, answer, outgoing, state>>
  BY DEF HostReads
<1>2. state = "WAITRESP"
  BY <1>1 DEF Inv, Asked
<1>3. Outgoing # <<>> /\ Outgoing' = Tail(Outgoing)
  <2> DEFINE d == SubSeq(dato, 1, ocnt)
             r == Registered
  <2>1. d \in Seq(Item) /\ r \in Seq(Item) /\ fifo \in Seq(Item)
    BY FirstBytes, RegisteredType DEF Inv, TypeOK
  <2>2. Outgoing = (fifo \o r) \o d /\ Outgoing' = (fifo' \o r) \o d
    BY <1>1 DEF Outgoing, Registered, outgoing
  <2> HIDE DEF d, r
  <2>3. fifo \o r \in Seq(Item) /\ fifo \o r # <<>> /\ Tail(fifo \o r) = Tail(fifo) \o r
    BY <1>1, <2>1
  <2>4. Tail((fifo \o r) \o d) = Tail(fifo \o r) \o d
    <3> DEFINE c == fifo \o r
    <3>1. c \in Seq(Item) /\ c # <<>>
      BY <2>3
    <3> HIDE DEF c
    <3>2. Tail(c \o d) = Tail(c) \o d
      BY <2>1, <3>1
    <3> QED
      BY <3>2 DEF c
  <2>5. Outgoing # <<>>
    BY <1>1, OutgoingFirst DEF Inv
  <2> QED
    BY <1>1, <2>2, <2>3, <2>4, <2>5
<1>4. Wire # <<>> /\ Wire' = Tail(Wire)
  BY <1>1, <1>2, <1>3 DEF Wire
<1>5. Remote!HostReads
  BY <1>1, <1>4, Zenon DEF Remote!HostReads, Wire, Outgoing
<1> QED
  BY <1>5, Zenon DEF Remote!Next

LEMMA HostAnswersImplements ==
    ASSUME Inv, NEW e \in BOOLEAN, NEW w \in AnswerData, HostAnswers(e, w)
    PROVE  Remote!Next
<1>1. /\ heard # <<>> /\ Len(heard) = PacketLen(heard[1])
      /\ answer' = <<answer'[1]>> /\ answer'[1] \in Remote!Answers(bus[1])
  BY HostAnswersAnswer
<1>2. /\ state = "WAITRESP" /\ answer = <<>> /\ EN /\ bus # <<>> /\ Outgoing = <<>>
  BY <1>1, HeardWhole
<1>3. UNCHANGED <<EN, bus, result, fifo, outgoing, state>>
  BY DEF HostAnswers
<1>4. Wire = <<>> /\ Wire' = Wire
  BY <1>2, <1>3 DEF Wire, Outgoing, outgoing
<1>5. \E a \in Remote!Answers(bus[1]) : answer' = <<a>>
  BY <1>1, Zenon
<1>6. Remote!HostAnswers
  BY <1>2, <1>3, <1>4, <1>5, Zenon DEF Remote!HostAnswers, Wire, Outgoing
<1> QED
  BY <1>6, Zenon DEF Remote!Next

LEMMA StepImplements == Inv /\ [Next]_vars => [Implements]_vars
<1> SUFFICES ASSUME Inv, Next PROVE Implements
  BY DEF vars
<1>1. CASE \E arrived \in BOOLEAN : Edge(arrived)
  <2>1. PICK arrived \in BOOLEAN : Edge(arrived)
    BY <1>1
  <2>2. PICK ap \in Offers, other \in BOOLEAN :
          Clock(ap, other, arrived) \/ (~arrived /\ ClockDisabled(ap, other))
    BY <2>1 DEF Edge
  <2> QED
    BY <2>2, ClockImplements, DisabledImplements DEF Implements
<1>2. CASE Switch \/ HostReads
  BY <1>2, SwitchImplements, HostReadsImplements DEF Implements
<1>3. CASE Answering
  <2>1. PICK e \in BOOLEAN, w \in AnswerData : HostAnswers(e, w)
    BY <1>3 DEF Answering
  <2> QED
    BY <2>1, HostAnswersImplements DEF Implements
<1> QED
  BY <1>1, <1>2, <1>3 DEF Next

\* As long as no byte was written to a full FIFO, every step of the slave is a
\* step of the abstract one or changes nothing it speaks of.
THEOREM AnswersWhileHeard == Spec => AnswersUntilLoss
  BY Invariance, StepImplements, PTL DEF Spec, AnswersUntilLoss, Implements
=============================================================================
