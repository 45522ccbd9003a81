-------------------------- MODULE HostMasterProofs --------------------------
(***************************************************************************)
(* The bus master keeps the promise of BusCommander, for every byte size,  *)
(* set of commands, bus and response FIFO.                                 *)
(*                                                                         *)
(* The invariant says where the input stands.  What the host sent and the  *)
(* state machine has not looked at is the packets of the commands that are *)
(* not completed, less the bytes of the first one it has looked at: those  *)
(* are the command register, the count of bytes to come, and the youngest  *)
(* bytes of dati.  No byte passes by unseen only because of the handshakes *)
(* with the host FIFO and of the rule that an answer is gone before the    *)
(* next command begins, which need each other.                             *)
(*                                                                         *)
(* The rest is arithmetic: a number is the value of its digits and bytes   *)
(* are the digits of their value, the address and the data to write lie    *)
(* where dati is read for them, and the lanes of a transfer are the bytes  *)
(* that were replicated across the word.  A step then starts the first     *)
(* command, completes it, or only moves bytes.                             *)
(***************************************************************************)
EXTENDS HostMaster, SequenceTheorems, TLAPS

USE BAssumption

-----------------------------------------------------------------------------
(* Digits.                                                                 *)

LEMMA Sizes == \A n \in 0..2 : 2^n \in {1, 2, 4}
<1> TAKE n \in 0..2
<1>1. 2^0 = 1 /\ 2^1 = 2 /\ 2^2 = 4
  BY SMT
<1>2. n = 0 \/ n = 1 \/ n = 2
  OBVIOUS
<1> QED
  BY <1>1, <1>2

\* Products of bytes.
LEMMA Products ==
    /\ B * B \in Nat /\ B * B > 1 /\ B * B * B \in Nat /\ B * B * B > 1
    /\ AddrSpace \in Nat /\ AddrSpace > 1
<1>1. \A m \in Nat : m > 1 => m * B \in Nat /\ m * B > 1
  OBVIOUS
<1>2. B * B \in Nat /\ B * B > 1
  BY <1>1
<1> DEFINE b2 == B * B
<1> HIDE DEF b2
<1>3. b2 * B \in Nat /\ b2 * B > 1
  BY <1>1, <1>2 DEF b2
<1> DEFINE b3 == b2 * B
<1> HIDE DEF b3
<1>4. b3 * B \in Nat /\ b3 * B > 1
  BY <1>1, <1>3 DEF b3
<1> QED
  BY <1>2, <1>3, <1>4 DEF b2, b3, AddrSpace

\* The quotient is the number whose product leaves a small rest.
LEMMA Quotient ==
    ASSUME NEW m \in Nat, m > 0, NEW q \in Nat, NEW r \in 0..(m - 1)
    PROVE  (q * m + r) \div m = q /\ (q * m + r) % m = r
<1> DEFINE a == q * m + r
           x == a \div m
           y == a % m
<1>1. a \in Nat
  OBVIOUS
<1>2. a = x * m + y /\ x \in Nat /\ y \in 0..(m - 1)
  <2> HIDE DEF a
  <2> QED
    BY <1>1
<1>3. q * m + r = x * m + y
  BY <1>2
<1> HIDE DEF a, x, y
<1>4. ASSUME NEW u \in Nat, NEW v \in Nat, NEW s \in 0..(m - 1), NEW t \in 0..(m - 1),
             u * m + s = v * m + t
      PROVE  ~(u < v)
  <2> SUFFICES ASSUME u < v PROVE FALSE
    OBVIOUS
  <2>1. PICK d \in Nat : v = u + 1 + d
    <3>1. v - u - 1 \in Nat /\ v = u + 1 + (v - u - 1)
      OBVIOUS
    <3> QED
      BY <3>1
  <2>2. v * m = u * m + m + d * m
    BY <2>1
  <2>3. d * m \in Nat /\ u * m \in Nat
    OBVIOUS
  <2> QED
    BY <1>4, <2>2, <2>3
<1>5. x = q
  BY <1>2, <1>3, <1>4
<1>6. y = r
  <2>1. q * m \in Nat
    OBVIOUS
  <2> QED
    BY <1>2, <1>3, <1>5, <2>1
<1> QED
  BY <1>5, <1>6 DEF a, x, y

\* What dividing by a byte leaves, and dividing twice.
LEMMA Rest ==
    ASSUME NEW a \in Nat
    PROVE  a = (a \div B) * B + (a % B) /\ a \div B \in Nat /\ a % B \in Byte
  BY DEF Byte

LEMMA DivTwice ==
    ASSUME NEW m \in Nat, m > 0, NEW a \in Nat
    PROVE  a \div (m * B) = (a \div m) \div B
<1> DEFINE q == a \div m
           r == a % m
           x == q \div B
           y == q % B
<1>1. a = q * m + r /\ q \in Nat /\ r \in 0..(m - 1)
  OBVIOUS
<1>2. q = x * B + y /\ x \in Nat /\ y \in 0..(B - 1)
  <2> HIDE DEF q
  <2> QED
    BY <1>1
<1> HIDE DEF q, r, x, y
<1>3. a = (x * B + y) * m + r
  BY <1>1, <1>2
<1>4. (x * B + y) * m = x * (m * B) + y * m
  BY <1>2
<1>5. y * m + r \in 0..(m * B - 1)
  <2>1. y * m \in Nat /\ (B - 1 - y) * m \in Nat
    BY <1>2
  <2>2. (B - 1 - y) * m = m * B - m - y * m
    BY <1>2
  <2> QED
    BY <1>1, <2>1, <2>2
<1>6. m * B \in Nat /\ m * B > 0
  OBVIOUS
<1> DEFINE s == y * m + r
           k == m * B
<1>7. a = x * k + s
  BY <1>1, <1>2, <1>3, <1>4
<1> HIDE DEF s, k
<1>8. (x * k + s) \div k = x
  BY <1>2, <1>5, <1>6, Quotient DEF s, k
<1> QED
  BY <1>7, <1>8 DEF k, x, q

\* Quotients are smaller.
LEMMA DivSmall ==
    ASSUME NEW m \in Nat, m > 0, NEW a \in Nat, a < m * B
    PROVE  a \div B < m
<1>1. a = (a \div B) * B + (a % B) /\ a \div B \in Nat /\ a % B \in Nat
  BY Rest DEF Byte
<1> DEFINE q == a \div B
<1> HIDE DEF q
<1> SUFFICES ASSUME q >= m PROVE FALSE
  BY <1>1 DEF q
<1>2. (q - m) * B \in Nat /\ (q - m) * B = q * B - m * B
  BY <1>1 DEF q
<1> QED
  BY <1>1, <1>2 DEF q

\* The digits of a number, one by one.
LEMMA DigitsAt ==
    ASSUME NEW v \in Nat, NEW n \in {1, 2, 4}
    PROVE  /\ Digits(v, n) \in [1..n -> Byte]
           /\ Digits(v, n)[n] = v % B
           /\ n >= 2 => Digits(v, n)[n - 1] = (v \div B) % B
           /\ n = 4 => /\ Digits(v, n)[2] = ((v \div B) \div B) % B
                       /\ Digits(v, n)[1] = (((v \div B) \div B) \div B) % B
<1>1. v \div (B * B) = (v \div B) \div B /\ v \div (B * B * B) = ((v \div B) \div B) \div B
  <2>1. B \in Nat /\ B > 0 /\ B * B \in Nat /\ B * B > 0
    BY Products
  <2>2. v \div (B * B) = (v \div B) \div B
    BY <2>1, DivTwice, Zenon
  <2>3. v \div (B * B * B) = (v \div (B * B)) \div B
    BY <2>1, DivTwice, Zenon
  <2> QED
    BY <2>2, <2>3, Zenon
<1>2. v \div 1 = v
  OBVIOUS
<1>3. /\ Power[1] = 1 /\ Power[2] = B /\ Power[3] = B * B /\ Power[4] = B * B * B
      /\ \A k \in 1..n : n - k + 1 \in 1..4
  BY DEF Power
<1>4. \A k \in 1..n : Digits(v, n)[k] = (v \div Power[n - k + 1]) % B
  BY DEF Digits
<1>5. Digits(v, n)[n] = (v \div Power[1]) % B
  BY <1>4
<1>6. n >= 2 => Digits(v, n)[n - 1] = (v \div Power[2]) % B
  BY <1>4
<1>7. n = 4 => Digits(v, n)[2] = (v \div Power[3]) % B /\ Digits(v, n)[1] = (v \div Power[4]) % B
  BY <1>4
<1>8. /\ Digits(v, n)[n] = v % B
      /\ n >= 2 => Digits(v, n)[n - 1] = (v \div B) % B
      /\ n = 4 => /\ Digits(v, n)[2] = ((v \div B) \div B) % B
                  /\ Digits(v, n)[1] = (((v \div B) \div B) \div B) % B
  BY <1>1, <1>2, <1>3, <1>5, <1>6, <1>7, Zenon
<1>9. v % B \in Byte /\ (v \div B) % B \in Byte /\ ((v \div B) \div B) % B \in Byte
        /\ (((v \div B) \div B) \div B) % B \in Byte
  BY Rest
<1>10. \A k \in 1..n : Digits(v, n)[k] \in Byte
  <2> DEFINE d == Digits(v, n)
  <2>1. \A k \in 1..n : k = n \/ (n >= 2 /\ k = n - 1) \/ (n = 4 /\ k = 2) \/ (n = 4 /\ k = 1)
    OBVIOUS
  <2>2. /\ d[n] \in Byte
        /\ n >= 2 => d[n - 1] \in Byte
        /\ n = 4 => d[2] \in Byte /\ d[1] \in Byte
    BY <1>8, <1>9, Zenon
  <2> HIDE DEF d
  <2> QED
    BY <2>1, <2>2 DEF d
<1>11. Digits(v, n) \in [1..n -> Byte]
  <2>1. Digits(v, n) = [k \in 1..n |-> Digits(v, n)[k]]
    BY DEF Digits
  <2> QED
    BY <1>10, <2>1, Zenon
<1> QED
  BY <1>8, <1>11

\* A number is the value of its digits.
LEMMA DigitsValue ==
    ASSUME NEW n \in {1, 2, 4}, NEW v \in Nat, v < Power[n + 1]
    PROVE  Value(Digits(v, n)) = v
<1> DEFINE d == Digits(v, n)
           v1 == v \div B
           v2 == v1 \div B
           v3 == v2 \div B
<1>1. /\ d \in [1..n -> Byte] /\ Len(d) = n
      /\ d[n] = v % B
      /\ n >= 2 => d[n - 1] = v1 % B
      /\ n = 4 => d[2] = v2 % B /\ d[1] = v3 % B
  <2>1. /\ d \in [1..n -> Byte]
        /\ d[n] = v % B
        /\ n >= 2 => d[n - 1] = v1 % B
        /\ n = 4 => d[2] = v2 % B /\ d[1] = v3 % B
    BY DigitsAt, Zenon
  <2> HIDE DEF d
  <2>2. Len(d) = n
    BY <2>1
  <2> QED
    BY <2>1, <2>2, Zenon
<1>2. /\ v = v1 * B + (v % B) /\ v1 \in Nat
      /\ v1 = v2 * B + (v1 % B) /\ v2 \in Nat
      /\ v2 = v3 * B + (v2 % B) /\ v3 \in Nat
  BY Rest
<1>3. Power[2] = B /\ Power[3] = B * B /\ Power[5] = B * B * B * B
  BY DEF Power, AddrSpace
<1> HIDE DEF d
<1>4. CASE n = 1
  <2>1. v < B
    BY <1>3, <1>4
  <2>2. v % B = v
    BY <2>1
  <2> QED
    BY <1>1, <1>4, <2>2 DEF Value, d
<1>5. CASE n = 2
  <2>1. v < B * B
    BY <1>3, <1>5
  <2>2. v1 < B
    BY <2>1, DivSmall
  <2>3. v1 % B = v1
    BY <1>2, <2>2
  <2>4. Value(d) = d[1] * B + d[2]
    BY <1>1, <1>5 DEF Value
  <2> HIDE DEF v1
  <2> QED
    BY <1>1, <1>2, <1>5, <2>3, <2>4 DEF d
<1>6. CASE n = 4
  <2>1. v < (B * B * B) * B
    BY <1>3, <1>6
  <2>2. v1 < (B * B) * B
    BY <2>1, Products, DivSmall
  <2>3. v2 < B * B
    BY <1>2, <2>2, Products, DivSmall
  <2>4. v3 < B
    BY <1>2, <2>3, DivSmall
  <2>5. v3 % B = v3
    BY <1>2, <2>4
  <2>6. Value(d) = ((d[1] * B + d[2]) * B + d[3]) * B + d[4]
    BY <1>1, <1>6 DEF Value
  <2>7. d[4] = v % B /\ d[3] = v1 % B /\ d[2] = v2 % B /\ d[1] = v3
    BY <1>1, <1>6, <2>5
  <2> HIDE DEF v1, v2, v3
  <2>8. d[1] * B + d[2] = v2
    BY <1>2, <2>7
  <2>9. v2 * B + d[3] = v1
    BY <1>2, <2>7
  <2>10. v1 * B + d[4] = v
    BY <1>2, <2>7
  <2> QED
    BY <2>6, <2>8, <2>9, <2>10 DEF d
<1> QED
  BY <1>4, <1>5, <1>6

\* Bytes are the digits of their value.
LEMMA ValueDigits ==
    ASSUME NEW n \in {1, 2, 4}, NEW ds \in [1..n -> Byte]
    PROVE  /\ Value(ds) \in 0..(Power[n + 1] - 1)
           /\ \A k \in 1..n : (Value(ds) \div Power[n - k + 1]) % B = ds[k]
<1>0. ASSUME NEW m \in Nat, m > 0, NEW q \in 0..(m - 1), NEW r \in Byte
      PROVE  /\ q * B + r \in 0..(m * B - 1)
             /\ (q * B + r) \div B = q /\ (q * B + r) % B = r
  <2>1. q * B \in Nat /\ (m - 1 - q) * B \in Nat /\ (m - 1 - q) * B = m * B - B - q * B
    OBVIOUS
  <2>2. q * B + r \in 0..(m * B - 1)
    BY <2>1 DEF Byte
  <2>3. (q * B + r) \div B = q /\ (q * B + r) % B = r
    BY Quotient DEF Byte
  <2> QED
    BY <2>2, <2>3
<1>1. Len(ds) = n /\ \A k \in 1..n : ds[k] \in Byte
  OBVIOUS
<1> DEFINE b2 == B * B
           b3 == b2 * B
<1> HIDE DEF b2, b3
<1>2. /\ B \in Nat /\ B > 0 /\ b2 \in Nat /\ b2 > 0 /\ b3 \in Nat /\ b3 > 0
      /\ B * B = b2 /\ b2 * B = b3
  BY Products DEF b2, b3
<1>3. Power[2] = B /\ Power[3] = B * B /\ Power[5] = B * B * B * B
  BY DEF Power, AddrSpace
<1>4. \A k \in 1..n : Digits(Value(ds), n)[k] = (Value(ds) \div Power[n - k + 1]) % B
  BY DEF Digits
<1>5. CASE n = 1
  <2>1. Value(ds) = ds[1] /\ ds[1] \in Byte
    BY <1>1, <1>5 DEF Value
  <2>2. Value(ds) \in 0..(B - 1) /\ Value(ds) % B = ds[1]
    BY <2>1 DEF Byte
  <2>3. Digits(Value(ds), n)[1] = Value(ds) % B
    BY <1>5, <2>2, DigitsAt
  <2> QED
    BY <1>3, <1>4, <1>5, <2>2, <2>3
<1>6. CASE n = 2
  <2> DEFINE x == ds[1]
             y == ds[2]
             v == Value(ds)
  <2>1. v = x * B + y /\ x \in 0..(B - 1) /\ y \in Byte
    BY <1>1, <1>6 DEF Value, Byte
  <2> HIDE DEF x, y, v
  <2>2. v \in 0..(B * B - 1) /\ v \div B = x /\ v % B = y
    BY <1>0, <1>2, <2>1, Zenon
  <2>3. x % B = x
    BY <2>1
  <2>4. v \in Nat
    BY <2>2, Products
  <2>5. Digits(v, n)[2] = y /\ Digits(v, n)[1] = x
    <3>1. n \in {1, 2, 4} /\ n >= 2 /\ n - 1 = 1
      BY <1>6
    <3> QED
      BY <1>6, <2>2, <2>3, <2>4, <3>1, DigitsAt, Zenon
  <2>6. \A k \in 1..n : k = 1 \/ k = 2
    BY <1>6
  <2> QED
    BY <1>3, <1>4, <1>6, <2>2, <2>5, <2>6 DEF x, y, v
<1>7. CASE n = 4
  <2> DEFINE d1 == ds[1]
             d2 == ds[2]
             d3 == ds[3]
             d4 == ds[4]
             v == Value(ds)
             x2 == d1 * B + d2
             x3 == x2 * B + d3
  <2>1. v = x3 * B + d4 /\ d1 \in 0..(B - 1) /\ d2 \in Byte /\ d3 \in Byte /\ d4 \in Byte
    BY <1>1, <1>7 DEF Value, Byte
  <2> HIDE DEF d1, d2, d3, d4, v
  <2>2. x2 \in 0..(B * B - 1) /\ x2 \div B = d1 /\ x2 % B = d2
    BY <1>0, <1>2, <2>1, Zenon
  <2> HIDE DEF x2
  <2>3. x3 \in 0..(b2 * B - 1) /\ x3 \div B = x2 /\ x3 % B = d3
    BY <1>0, <1>2, <2>1, <2>2, Zenon
  <2> HIDE DEF x3
  <2>4. v \in 0..(b3 * B - 1) /\ v \div B = x3 /\ v % B = d4
    BY <1>0, <1>2, <2>1, <2>3, Zenon
  <2>5. v \in Nat
    BY <2>4
  <2>6. d1 % B = d1
    BY <2>1
  <2>7. Digits(v, n)[4] = d4 /\ Digits(v, n)[3] = d3 /\ Digits(v, n)[2] = d2 /\ Digits(v, n)[1] = d1
    <3>1. n \in {1, 2, 4} /\ n >= 2 /\ n - 1 = 3
      BY <1>7
    <3> QED
      BY <1>7, <2>2, <2>3, <2>4, <2>5, <2>6, <3>1, DigitsAt, Zenon
  <2>8. \A k \in 1..n : k = 1 \/ k = 2 \/ k = 3 \/ k = 4
    BY <1>7
  <2> QED
    <3>1. Power[n + 1] = b3 * B
      BY <1>3, <1>7 DEF b2, b3
    <3> QED
      BY <1>4, <1>7, <2>4, <2>7, <2>8, <3>1 DEF d1, d2, d3, d4, v
<1> QED
  BY <1>5, <1>6, <1>7

-----------------------------------------------------------------------------
(* Packets.                                                                *)

\* A function on 1..n is a sequence of length n.
LEMMA Tuple ==
    ASSUME NEW S, NEW n \in Nat, NEW f \in [1..n -> S]
    PROVE  f \in Seq(S) /\ Len(f) = n
  OBVIOUS

LEMMA CommandType ==
    ASSUME NEW c \in Commands
    PROVE  /\ c.write \in BOOLEAN /\ c.auto \in BOOLEAN /\ c.size \in 0..2
           /\ c.addr \in Nat /\ c.addr < AddrSpace /\ c.data \in Nat
           /\ c.write => c.data < Power[2^c.size + 1]
  BY CommandsAssumption, Products

\* How many bytes a packet has behind its first one.
Lead(c) == IF c.auto THEN 0 ELSE 4
Written(c) == IF c.write THEN 2^c.size ELSE 0

\* Address and data of a packet.
LEMMA PayloadType ==
    ASSUME NEW c \in Commands
    PROVE  /\ Payload(c) \in Seq(Byte)
           /\ Len(Payload(c)) = Lead(c) + Written(c)
           /\ Lead(c) \in {0, 4} /\ Written(c) \in {0, 1, 2, 4}
           /\ \A k \in 1..Lead(c) : Payload(c)[k] = Digits(c.addr, 4)[k]
           /\ \A k \in 1..Written(c) :
                Payload(c)[Lead(c) + k] = Digits(c.data, 2^c.size)[k]
<1> DEFINE a == IF c.auto THEN <<>> ELSE Digits(c.addr, 4)
           d == IF c.write THEN Digits(c.data, 2^c.size) ELSE <<>>
           l == Lead(c)
           w == Written(c)
<1>0. c.size \in 0..2 /\ c.addr \in Nat /\ c.data \in Nat
  BY CommandType
<1>1. l \in {0, 4} /\ w \in {0, 1, 2, 4} /\ l \in Nat /\ w \in Nat
  <2>1. 2^c.size \in {1, 2, 4}
    BY <1>0, Sizes
  <2> QED
    BY <2>1 DEF Lead, Written
<1>2. a \in Seq(Byte) /\ Len(a) = l /\ \A k \in 1..l : a[k] = Digits(c.addr, 4)[k]
  <2>1. CASE c.auto
    BY <2>1 DEF Lead
  <2>2. CASE ~c.auto
    <3>1. a \in [1..4 -> Byte] /\ l = 4 /\ a = Digits(c.addr, 4)
      BY <1>0, <2>2, DigitsAt DEF Lead
    <3> HIDE DEF a, l
    <3> QED
      BY <3>1, Tuple
  <2> QED
    BY <2>1, <2>2
<1>3. d \in Seq(Byte) /\ Len(d) = w /\ \A k \in 1..w : d[k] = Digits(c.data, 2^c.size)[k]
  <2>1. CASE ~c.write
    BY <2>1 DEF Written
  <2>2. CASE c.write
    <3> DEFINE n == 2^c.size
    <3>1. n \in {1, 2, 4} /\ w = n /\ d = Digits(c.data, n)
      BY <1>0, <2>2, Sizes DEF Written
    <3> HIDE DEF n, d, w
    <3>2. d \in [1..n -> Byte]
      BY <1>0, <3>1, DigitsAt
    <3> QED
      BY <3>1, <3>2, Tuple DEF n
  <2> QED
    BY <2>1, <2>2
<1>4. Payload(c) = a \o d
  BY DEF Payload
<1> HIDE DEF a, d, l, w
<1>5. /\ a \o d \in Seq(Byte) /\ Len(a \o d) = l + w
      /\ \A k \in 1..l : (a \o d)[k] = a[k]
      /\ \A k \in 1..w : (a \o d)[l + k] = d[k]
  BY <1>1, <1>2, <1>3
<1> QED
  BY <1>1, <1>2, <1>3, <1>4, <1>5 DEF l, w

\* Headers name the number of bytes.
Header(c) == Packet(c)[1]

LEMMA PacketType ==
    ASSUME NEW c \in Commands
    PROVE  /\ Packet(c) \in Seq(Item)
           /\ Len(Payload(c)) \in 0..8 /\ Len(Packet(c)) = 1 + Len(Payload(c))
           /\ Header(c) \in [cnt : 0..7, write : BOOLEAN, auto : BOOLEAN, size : 0..2]
           /\ Header(c).write = c.write /\ Header(c).auto = c.auto /\ Header(c).size = c.size
           /\ fifo_payload(Header(c).cnt) = Len(Payload(c))
           /\ Header(c).cnt = 0 <=> Len(Payload(c)) = 0
           /\ \A k \in 1..Len(Payload(c)) : Packet(c)[k + 1] = [data |-> Payload(c)[k]]
           /\ \A k \in 1..Len(Payload(c)) : Payload(c)[k] \in Byte
<1> DEFINE p == Payload(c)
           n == Len(p)
           cnt == CHOOSE m \in 0..7 : fifo_payload(m) = n
           h == [cnt |-> cnt, write |-> c.write, auto |-> c.auto, size |-> c.size]
           q == [k \in 1..n |-> [data |-> p[k]]]
<1>1. p \in Seq(Byte) /\ n \in {0, 1, 2, 4, 5, 6, 8}
  <2> DEFINE l == Lead(c)
             w == Written(c)
  <2>1. p \in Seq(Byte) /\ n = l + w /\ l \in {0, 4} /\ w \in {0, 1, 2, 4}
    BY PayloadType
  <2> HIDE DEF p, n, l, w
  <2> QED
    BY <2>1
<1> HIDE DEF n
<1>2. \E m \in 0..7 : fifo_payload(m) = n
  <2>1. /\ fifo_payload(0) = 0 /\ fifo_payload(1) = 1 /\ fifo_payload(2) = 2
        /\ fifo_payload(3) = 4 /\ fifo_payload(4) = 5 /\ fifo_payload(5) = 6
        /\ fifo_payload(7) = 16 /\ fifo_payload(6) = 8
    BY DEF fifo_payload, Bytes
  <2> QED
    BY <1>1, <2>1
<1>3. cnt \in 0..7 /\ fifo_payload(cnt) = n
  BY <1>2
<1> HIDE DEF cnt
<1>4. cnt = 0 <=> n = 0
  BY <1>3 DEF fifo_payload, Bytes
<1>5. h \in [cnt : 0..7, write : BOOLEAN, auto : BOOLEAN, size : 0..2] /\ h \in Item
  BY <1>3, CommandType DEF Item
<1>6. q \in [1..n -> Item] /\ n \in Nat
  <2>1. \A k \in 1..n : p[k] \in Byte
    BY <1>1 DEF n
  <2> HIDE DEF p
  <2>2. \A k \in 1..n : [data |-> p[k]] \in Item
    BY <2>1 DEF Item
  <2> QED
    BY <1>1, <2>2
<1>7. q \in Seq(Item) /\ Len(q) = n /\ \A k \in 1..n : q[k] = [data |-> p[k]]
  <2>1. \A k \in 1..n : q[k] = [data |-> p[k]]
    OBVIOUS
  <2> HIDE DEF q
  <2> QED
    BY <1>6, <2>1, Tuple
<1>8. Packet(c) = <<h>> \o q
  BY DEF Packet, p, n, cnt
<1>9. \A k \in 1..n : p[k] \in Byte
  BY <1>1 DEF n
<1> HIDE DEF h, q, p
<1>10. /\ <<h>> \o q \in Seq(Item) /\ Len(<<h>> \o q) = 1 + n /\ (<<h>> \o q)[1] = h
       /\ \A k \in 1..n : (<<h>> \o q)[k + 1] = q[k]
  BY <1>5, <1>6, <1>7
<1>11. h.write = c.write /\ h.auto = c.auto /\ h.size = c.size /\ h.cnt = cnt
  BY DEF h
<1>12. Header(c) = h /\ Payload(c) = p /\ Len(Payload(c)) = n
  BY <1>8, <1>10 DEF n, p, Header
<1>13. n \in 0..8
  BY <1>1
<1> QED
  BY <1>3, <1>4, <1>5, <1>7, <1>8, <1>9, <1>10, <1>11, <1>12, <1>13, Zenon

-----------------------------------------------------------------------------
(* Streams of packets.                                                     *)

Start(ends, i) == IF i = 1 THEN 0 ELSE ends[i - 1]

Cut(s, q, ends) ==
    /\ Len(s) = IF q = <<>> THEN 0 ELSE ends[Len(q)]
    /\ \A i, j \in 1..Len(q) : i <= j => ends[i] <= ends[j]
    /\ \A i \in 1..Len(q) :
         /\ ends[i] = Start(ends, i) + Len(Packet(q[i]))
         /\ \A k \in 1..Len(Packet(q[i])) : s[Start(ends, i) + k] = Packet(q[i])[k]

LEMMA StreamCut ==
    ASSUME NEW s, NEW q
    PROVE  Stream(s, q) <=> \E ends \in [1..Len(q) -> 1..Len(s)] : Cut(s, q, ends)
  BY DEF Stream, Cut, Start

LEMMA StreamNone ==
    ASSUME NEW s \in Seq(Item)
    PROVE  Stream(s, <<>>) <=> s = <<>>
<1>1. Stream(s, <<>>) => s = <<>>
  <2> SUFFICES ASSUME Stream(s, <<>>) PROVE s = <<>>
    OBVIOUS
  <2>1. PICK ends \in [1..Len(<<>>) -> 1..Len(s)] : Cut(s, <<>>, ends)
    BY StreamCut
  <2>2. Len(s) = 0
    BY <2>1 DEF Cut
  <2> QED
    BY <2>2, EmptySeq
<1>2. Stream(<<>>, <<>>)
  <2> DEFINE e == [i \in 1..0 |-> 1]
  <2>1. e \in [1..Len(<<>>) -> 1..Len(<<>>)] /\ Cut(<<>>, <<>>, e)
    BY DEF Cut
  <2> QED
    BY <2>1, StreamCut
<1> QED
  BY <1>1, <1>2

\* A packet more.
LEMMA StreamAdd ==
    ASSUME NEW s \in Seq(Item), NEW q \in Seq(Commands), NEW c \in Commands, Stream(s, q)
    PROVE  Stream(s \o Packet(c), q \o <<c>>)
<1> DEFINE t == s \o Packet(c)
           r == q \o <<c>>
           n == Len(q)
           l == Len(s)
           m == Len(Packet(c))
<1>1. PICK e \in [1..n -> 1..l] : Cut(s, q, e)
  BY StreamCut
<1>2. Packet(c) \in Seq(Item) /\ m \in Nat /\ m > 0
  BY PacketType
<1>3. /\ t \in Seq(Item) /\ Len(t) = l + m /\ n \in Nat /\ l \in Nat
      /\ \A k \in 1..l : t[k] = s[k]
      /\ \A k \in 1..m : t[l + k] = Packet(c)[k]
  BY <1>2
<1>4. /\ Len(r) = n + 1 /\ r # <<>> /\ r[n + 1] = c
      /\ \A i \in 1..n : r[i] = q[i] /\ r[i] \in Commands
  OBVIOUS
<1> DEFINE f == [i \in 1..(n + 1) |-> IF i <= n THEN e[i] ELSE l + m]
<1>5. /\ l = IF n = 0 THEN 0 ELSE e[n]
      /\ \A i, j \in 1..n : i <= j => e[i] <= e[j]
      /\ \A i \in 1..n : /\ e[i] = Start(e, i) + Len(Packet(q[i]))
                         /\ \A k \in 1..Len(Packet(q[i])) :
                              s[Start(e, i) + k] = Packet(q[i])[k]
  <2>1. q = <<>> <=> n = 0
    BY EmptySeq
  <2> QED
    BY <1>1, <2>1 DEF Cut
<1> HIDE DEF t, r, n, l, m
<1>6. /\ f \in [1..(n + 1) -> 1..(l + m)] /\ f[n + 1] = l + m
      /\ \A i \in 1..n : f[i] = e[i] /\ e[i] \in 1..l
  <2>1. \A i \in 1..n : e[i] \in 1..l
    BY <1>1
  <2>2. \A i \in 1..(n + 1) : /\ i <= n => i \in 1..n
                              /\ (IF i <= n THEN e[i] ELSE l + m) \in 1..(l + m)
    BY <1>2, <1>3, <2>1
  <2>3. n + 1 \in 1..(n + 1) /\ ~(n + 1 <= n) /\ \A i \in 1..n : i \in 1..(n + 1) /\ i <= n
    BY <1>3
  <2> QED
    BY <2>1, <2>2, <2>3
<1> HIDE DEF f
<1>7. \A i, j \in 1..(n + 1) : i <= j => f[i] <= f[j]
  <2> TAKE i, j \in 1..(n + 1)
  <2>1. CASE j = n + 1
    <3>1. f[j] = l + m /\ f[i] \in 1..(l + m)
      BY <1>6, <2>1
    <3> QED
      BY <1>2, <1>3, <3>1
  <2>2. CASE j # n + 1 /\ i <= j
    <3>1. i \in 1..n /\ j \in 1..n
      BY <1>3, <2>2
    <3> QED
      BY <1>5, <1>6, <3>1
  <2> QED
    BY <2>1, <2>2
<1>8. ASSUME NEW i \in 1..(n + 1)
      PROVE  /\ f[i] = Start(f, i) + Len(Packet(r[i]))
             /\ \A k \in 1..Len(Packet(r[i])) : t[Start(f, i) + k] = Packet(r[i])[k]
  <2>1. CASE i = n + 1
    <3>1. Start(f, i) = l
      BY <1>3, <1>5, <1>6, <2>1 DEF Start
    <3> QED
      BY <1>3, <1>4, <1>6, <2>1, <3>1 DEF m
  <2>2. CASE i \in 1..n
    <3>1. Start(f, i) = Start(e, i) /\ Start(e, i) \in Nat
      BY <1>3, <1>6, <2>2 DEF Start
    <3>2. /\ e[i] = Start(e, i) + Len(Packet(q[i])) /\ e[i] <= l
          /\ r[i] = q[i] /\ q[i] \in Commands /\ Len(Packet(q[i])) \in Nat
      BY <1>4, <1>5, <1>6, <2>2, PacketType
    <3>3. ASSUME NEW k \in 1..Len(Packet(q[i]))
          PROVE  t[Start(e, i) + k] = Packet(q[i])[k]
      <4>1. Start(e, i) + k \in 1..l
        BY <1>3, <3>1, <3>2
      <4> QED
        BY <1>3, <1>5, <2>2, <4>1
    <3> QED
      BY <1>6, <2>2, <3>1, <3>2, <3>3
  <2> QED
    BY <1>3, <2>1, <2>2
<1>9. Cut(t, r, f)
  BY <1>3, <1>4, <1>6, <1>7, <1>8 DEF Cut
<1>10. Stream(t, r)
  BY <1>3, <1>4, <1>6, <1>9, StreamCut
<1> QED
  BY <1>10 DEF t, r

\* A packet less.
LEMMA StreamFirst ==
    ASSUME NEW s \in Seq(Item), NEW q \in Seq(Commands), q # <<>>, Stream(s, q)
    PROVE  /\ Len(Packet(q[1])) <= Len(s)
           /\ \A k \in 1..Len(Packet(q[1])) : s[k] = Packet(q[1])[k]
           /\ Stream(SubSeq(s, Len(Packet(q[1])) + 1, Len(s)), Tail(q))
<1> DEFINE n == Len(q)
           l == Len(s)
           m == Len(Packet(q[1]))
           t == SubSeq(s, m + 1, l)
           r == Tail(q)
<1>1. PICK e \in [1..n -> 1..l] : Cut(s, q, e)
  BY StreamCut
<1>2. n \in Nat /\ n > 0 /\ l \in Nat /\ \A i \in 1..n : q[i] \in Commands
  BY EmptySeq
<1>3. /\ l = e[n]
      /\ \A i, j \in 1..n : i <= j => e[i] <= e[j]
      /\ \A i \in 1..n : /\ e[i] = Start(e, i) + Len(Packet(q[i]))
                         /\ \A k \in 1..Len(Packet(q[i])) :
                              s[Start(e, i) + k] = Packet(q[i])[k]
  BY <1>1 DEF Cut
<1>4. \A i \in 1..n : Len(Packet(q[i])) \in Nat /\ Len(Packet(q[i])) > 0
  BY <1>2, PacketType
<1>5. /\ m \in Nat /\ m > 0 /\ e[1] = m /\ m <= l
      /\ \A k \in 1..m : s[k] = Packet(q[1])[k]
  <2>1. 1 \in 1..n /\ n \in 1..n
    BY <1>2
  <2>2. Start(e, 1) = 0
    BY DEF Start
  <2>3. m \in Nat /\ m > 0
    BY <1>4, <2>1
  <2>4. e[1] = 0 + m /\ \A k \in 1..m : s[0 + k] = Packet(q[1])[k]
    BY <1>3, <2>1, <2>2
  <2>5. e[1] <= l
    BY <1>2, <1>3, <2>1
  <2> HIDE DEF m, l, n
  <2> QED
    BY <2>3, <2>4, <2>5
<1>6. t \in Seq(Item) /\ Len(t) = l - m /\ \A k \in 1..(l - m) : t[k] = s[m + k]
  <2> HIDE DEF m
  <2> QED
    BY <1>2, <1>5
<1>7. Len(r) = n - 1 /\ \A i \in 1..(n - 1) : r[i] = q[i + 1]
  BY <1>2
<1> HIDE DEF n, l, m, t, r
<1> DEFINE f == [i \in 1..(n - 1) |-> e[i + 1] - m]
<1>8. \A i \in 1..(n - 1) : /\ i + 1 \in 1..n /\ e[i] >= m /\ e[i + 1] <= l
                            /\ e[i + 1] = e[i] + Len(Packet(q[i + 1]))
  <2> TAKE i \in 1..(n - 1)
  <2>1. i \in 1..n /\ i + 1 \in 1..n /\ n \in 1..n /\ 1 \in 1..n /\ 1 <= i /\ i + 1 <= n
    BY <1>2
  <2>2. Start(e, i + 1) = e[i]
    BY <2>1 DEF Start
  <2> QED
    BY <1>3, <1>5, <2>1, <2>2
<1>9. f \in [1..(n - 1) -> 1..(l - m)] /\ \A i \in 1..(n - 1) : f[i] = e[i + 1] - m
  <2>1. ASSUME NEW i \in 1..(n - 1) PROVE e[i + 1] - m \in 1..(l - m)
    <3>1. i + 1 \in 1..n /\ e[i] >= m /\ e[i + 1] <= l /\ e[i + 1] = e[i] + Len(Packet(q[i + 1]))
      BY <1>8
    <3>2. Len(Packet(q[i + 1])) \in Nat /\ Len(Packet(q[i + 1])) > 0
      BY <1>4, <3>1
    <3>3. e[i] \in 1..l /\ e[i + 1] \in 1..l
      BY <1>1, <1>2, <3>1
    <3> QED
      BY <1>2, <1>5, <3>1, <3>2, <3>3
  <2> QED
    BY <2>1
<1> HIDE DEF f
<1>10. Len(t) = IF r = <<>> THEN 0 ELSE f[Len(r)]
  <2>1. r = <<>> <=> n - 1 = 0
    <3>1. r \in Seq(Commands)
      BY DEF r
    <3> QED
      BY <1>7, <3>1, EmptySeq
  <2>2. CASE n = 1
    BY <1>3, <1>5, <1>6, <2>1, <2>2
  <2>3. CASE n > 1
    <3>1. n - 1 \in 1..(n - 1) /\ (n - 1) + 1 = n
      BY <1>2, <2>3
    <3>2. f[n - 1] = l - m
      BY <1>3, <1>9, <3>1
    <3> QED
      BY <1>2, <1>6, <1>7, <2>1, <2>3, <3>2
  <2> QED
    BY <1>2, <2>2, <2>3
<1>11. \A i, j \in 1..(n - 1) : i <= j => f[i] <= f[j]
  <2> TAKE i, j \in 1..(n - 1)
  <2>1. i + 1 \in 1..n /\ j + 1 \in 1..n /\ (i <= j => i + 1 <= j + 1)
    BY <1>2
  <2>2. e[i + 1] \in 1..l /\ e[j + 1] \in 1..l
    BY <1>1, <2>1
  <2>3. i <= j => e[i + 1] <= e[j + 1]
    BY <1>3, <2>1
  <2>4. f[i] = e[i + 1] - m /\ f[j] = e[j + 1] - m
    BY <1>9
  <2> DEFINE x == e[i + 1]
             y == e[j + 1]
  <2> HIDE DEF x, y
  <2>5. f[i] = x - m /\ f[j] = y - m /\ x \in Nat /\ y \in Nat /\ (i <= j => x <= y)
    BY <1>2, <2>2, <2>3, <2>4 DEF x, y
  <2> QED
    BY <1>5, <2>5
<1>12. ASSUME NEW i \in 1..(n - 1)
       PROVE  /\ f[i] = Start(f, i) + Len(Packet(r[i]))
              /\ \A k \in 1..Len(Packet(r[i])) : t[Start(f, i) + k] = Packet(r[i])[k]
  <2>1. /\ i \in 1..n /\ i + 1 \in 1..n /\ r[i] = q[i + 1] /\ f[i] = e[i + 1] - m
        /\ e[i] \in Nat /\ e[i] >= m /\ e[i + 1] <= l
        /\ e[i + 1] = e[i] + Len(Packet(q[i + 1])) /\ Len(Packet(q[i + 1])) \in Nat
    <3>1. i \in 1..n /\ i + 1 \in 1..n
      BY <1>2
    <3>2. e[i] \in Nat
      BY <1>1, <1>2, <3>1
    <3>3. r[i] = q[i + 1] /\ f[i] = e[i + 1] - m
      BY <1>7, <1>9
    <3>4. Len(Packet(q[i + 1])) \in Nat
      BY <1>4, <3>1
    <3> QED
      BY <1>8, <3>1, <3>2, <3>3, <3>4
  <2>2. Start(f, i) = e[i] - m
    <3>1. CASE i = 1
      BY <1>5, <3>1 DEF Start
    <3>2. CASE i # 1
      <4>1. i - 1 \in 1..(n - 1) /\ (i - 1) + 1 = i
        BY <1>2, <3>2
      <4>2. f[i - 1] = e[i] - m
        BY <1>9, <4>1
      <4> QED
        BY <3>2, <4>2 DEF Start
    <3> QED
      BY <3>1, <3>2
  <2>3. f[i] = Start(f, i) + Len(Packet(r[i]))
    BY <1>5, <2>1, <2>2
  <2>4. ASSUME NEW k \in 1..Len(Packet(q[i + 1]))
        PROVE  t[(e[i] - m) + k] = Packet(q[i + 1])[k]
    <3> DEFINE x == e[i]
               y == Len(Packet(q[i + 1]))
    <3>0. x \in Nat /\ x >= m /\ y \in Nat /\ x + y <= l /\ k \in 1..y
      BY <2>1
    <3> HIDE DEF x, y
    <3>1. (x - m) + k \in 1..(l - m) /\ m + ((x - m) + k) = x + k
      BY <1>2, <1>5, <3>0
    <3> USE DEF x
    <3>2. t[(e[i] - m) + k] = s[e[i] + k]
      BY <1>6, <3>1
    <3>3. Start(e, i + 1) = e[i]
      BY <2>1 DEF Start
    <3>4. s[e[i] + k] = Packet(q[i + 1])[k]
      BY <1>3, <2>1, <3>3
    <3> QED
      BY <3>2, <3>4
  <2> QED
    BY <2>1, <2>2, <2>3, <2>4
<1>13. Cut(t, r, f)
  BY <1>7, <1>10, <1>11, <1>12 DEF Cut
<1>14. Stream(t, r)
  BY <1>6, <1>7, <1>9, <1>13, StreamCut
<1> QED
  BY <1>5, <1>14 DEF t, r, m, l

-----------------------------------------------------------------------------
(* The command in progress: m is what its header said, i bytes of its      *)
(* payload are to come, d holds the others, s is the input, q the commands. *)

Mid(m, i, d, s, q) ==
    /\ q # <<>>
    /\ LET p == Payload(q[1])
           n == Len(p) - i
       IN  /\ m.write = q[1].write /\ m.auto = q[1].auto /\ m.size = q[1].size
           /\ n >= 0 /\ Len(s) >= i
           /\ \A k \in 1..n : d[8 - n + k] = p[k]
           /\ \A k \in 1..i : s[k] = [data |-> p[n + k]]
           /\ Stream(SubSeq(s, i + 1, Len(s)), Tail(q))

LEMMA CollectedMid ==
    Collected <=> IF state = "IDLE" /\ icnt = 0 THEN Stream(Input, todo)
                  ELSE Mid(cmd, icnt, dati, Input, todo)
  BY DEF Collected, Mid

\* What the host adds to the input.
New(cs) == IF cs = <<>> THEN <<>> ELSE Packet(cs[1])

LEMMA NewType ==
    ASSUME NEW cs \in Sends
    PROVE  /\ New(cs) \in Seq(Item) /\ cs \in Seq(Commands)
           /\ \/ cs = <<>> /\ New(cs) = <<>>
              \/ \E c \in Commands : cs = <<c>> /\ New(cs) = Packet(c)
<1>1. CASE cs = <<>>
  BY <1>1 DEF New
<1>2. CASE \E c \in Commands : cs = <<c>>
  BY <1>2, PacketType DEF New
<1> QED
  BY <1>1, <1>2 DEF Sends

LEMMA StreamSend ==
    ASSUME NEW s \in Seq(Item), NEW q \in Seq(Commands), Stream(s, q), NEW cs \in Sends
    PROVE  Stream(s \o New(cs), q \o cs)
<1>1. CASE cs = <<>> /\ New(cs) = <<>>
  <2>1. s \o <<>> = s /\ q \o <<>> = q
    OBVIOUS
  <2> QED
    BY <1>1, <2>1
<1>2. CASE \E c \in Commands : cs = <<c>> /\ New(cs) = Packet(c)
  BY <1>2, StreamAdd
<1> QED
  BY <1>1, <1>2, NewType

\* What is left of a longer sequence.
LEMMA Rests ==
    ASSUME NEW s \in Seq(Item), NEW t \in Seq(Item), NEW i \in Nat, i <= Len(s)
    PROVE  SubSeq(s \o t, i + 1, Len(s \o t)) = SubSeq(s, i + 1, Len(s)) \o t
<1> DEFINE a == SubSeq(s \o t, i + 1, Len(s \o t))
           u == SubSeq(s, i + 1, Len(s))
           b == u \o t
           l == Len(s)
           n == Len(t)
<1>1. /\ l \in Nat /\ n \in Nat /\ s \o t \in Seq(Item) /\ Len(s \o t) = l + n
      /\ \A k \in 1..l : (s \o t)[k] = s[k]
      /\ \A k \in 1..n : (s \o t)[l + k] = t[k]
  OBVIOUS
<1>2. u \in Seq(Item) /\ Len(u) = l - i /\ \A k \in 1..(l - i) : u[k] = s[i + k]
  BY <1>1
<1> HIDE DEF u
<1>3. /\ b \in Seq(Item) /\ Len(b) = (l - i) + n
      /\ \A k \in 1..(l - i) : b[k] = u[k]
      /\ \A k \in 1..n : b[(l - i) + k] = t[k]
  <2>1. /\ b \in Seq(Item) /\ Len(b) = Len(u) + n
        /\ \A k \in 1..Len(u) : b[k] = u[k]
        /\ \A k \in 1..n : b[Len(u) + k] = t[k]
    <3>1. u \in Seq(Item) /\ t \in Seq(Item)
      BY <1>2
    <3> QED
      BY <3>1
  <2> HIDE DEF b, n, l
  <2> QED
    BY <1>2, <2>1
<1>4. /\ a \in Seq(Item) /\ Len(a) = (l + n) - i
      /\ \A k \in 1..((l + n) - i) : a[k] = (s \o t)[i + k]
  <2> DEFINE st == s \o t
  <2> HIDE DEF st
  <2> QED
    BY <1>1 DEF st
<1> HIDE DEF a, b, l, n
<1>5. \A k \in 1..((l + n) - i) : a[k] = b[k]
  <2> TAKE k \in 1..((l + n) - i)
  <2>1. CASE k <= l - i
    <3>1. k \in 1..(l - i) /\ i + k \in 1..l
      BY <1>1, <2>1
    <3> QED
      BY <1>1, <1>2, <1>3, <1>4, <3>1
  <2>2. CASE k > l - i
    <3>1. PICK j \in 1..n : k = (l - i) + j /\ i + k = l + j
      <4>1. k - (l - i) \in 1..n /\ k = (l - i) + (k - (l - i)) /\ i + k = l + (k - (l - i))
        BY <1>1, <2>2 DEF l
      <4> QED
        BY <4>1
    <3>2. a[k] = (s \o t)[l + j] /\ b[k] = b[(l - i) + j]
      BY <1>4, <3>1
    <3> QED
      BY <1>1, <1>3, <3>1, <3>2
  <2> QED
    BY <1>1, <2>1, <2>2 DEF l
<1>6. a = b
  <2>1. Len(a) = (l + n) - i /\ Len(b) = (l + n) - i
    BY <1>1, <1>3, <1>4 DEF l
  <2> QED
    BY <1>3, <1>4, <1>5, <2>1, SeqEqual
<1> QED
  BY <1>6 DEF a, b, l, u

LEMMA MidSend ==
    ASSUME NEW m, NEW i \in Nat, NEW d, NEW s \in Seq(Item), NEW q \in Seq(Commands),
           Mid(m, i, d, s, q), NEW cs \in Sends
    PROVE  Mid(m, i, d, s \o New(cs), q \o cs)
<1> DEFINE t == New(cs)
           u == SubSeq(s, i + 1, Len(s))
           p == Payload(q[1])
           n == Len(p) - i
<1>1. t \in Seq(Item) /\ cs \in Seq(Commands)
  BY NewType
<1>2. /\ q # <<>>
      /\ m.write = q[1].write /\ m.auto = q[1].auto /\ m.size = q[1].size
      /\ n >= 0 /\ Len(s) >= i
      /\ \A k \in 1..n : d[8 - n + k] = p[k]
      /\ \A k \in 1..i : s[k] = [data |-> p[n + k]]
      /\ Stream(u, Tail(q))
  BY DEF Mid
<1>3. u \in Seq(Item) /\ Tail(q) \in Seq(Commands)
  BY <1>2
<1> HIDE DEF t
<1>4. Stream(u \o t, Tail(q) \o cs)
  BY <1>2, <1>3, StreamSend DEF t
<1>5. q \o cs # <<>> /\ (q \o cs)[1] = q[1] /\ Tail(q \o cs) = Tail(q) \o cs
  BY <1>1, <1>2
<1>6. /\ Len(s \o t) >= i /\ \A k \in 1..i : (s \o t)[k] = s[k]
      /\ SubSeq(s \o t, i + 1, Len(s \o t)) = u \o t
  <2>1. Len(s \o t) = Len(s) + Len(t) /\ Len(s) >= i /\ Len(t) \in Nat
    BY <1>1, <1>2
  <2>2. \A k \in 1..i : (s \o t)[k] = s[k]
    BY <1>1, <1>2
  <2>3. SubSeq(s \o t, i + 1, Len(s \o t)) = u \o t
    BY <1>1, <1>2, Rests
  <2>4. Len(s \o t) >= i
    BY <2>1
  <2> QED
    BY <2>2, <2>3, <2>4
<1> HIDE DEF u
<1> QED
  BY <1>2, <1>4, <1>5, <1>6 DEF Mid, t

\* The first byte of a packet is looked at.
LEMMA MidBegin ==
    ASSUME NEW s \in Seq(Item), NEW q \in Seq(Commands), s # <<>>, Stream(s, q), NEW d
    PROVE  /\ q # <<>>
           /\ s[1] \in [cnt : 0..7, write : BOOLEAN, auto : BOOLEAN, size : 0..2]
           /\ s[1].cnt = 0 <=> fifo_payload(s[1].cnt) = 0
           /\ fifo_payload(s[1].cnt) \in 0..8
           /\ Mid(s[1], fifo_payload(s[1].cnt), d, Tail(s), q)
<1>1. q # <<>>
  BY StreamNone
<1> DEFINE c == q[1]
           p == Payload(c)
           l == Len(p)
           k0 == Packet(c)
           h == s[1]
<1>2. c \in Commands
  BY <1>1
<1>3. /\ Len(k0) <= Len(s) /\ \A k \in 1..Len(k0) : s[k] = k0[k]
      /\ Stream(SubSeq(s, Len(k0) + 1, Len(s)), Tail(q))
  BY <1>1, StreamFirst
<1>4. /\ l \in 0..8 /\ Len(k0) = 1 + l
      /\ k0[1] \in [cnt : 0..7, write : BOOLEAN, auto : BOOLEAN, size : 0..2]
      /\ k0[1].write = c.write /\ k0[1].auto = c.auto /\ k0[1].size = c.size
      /\ fifo_payload(k0[1].cnt) = l
      /\ k0[1].cnt = 0 <=> l = 0
      /\ \A k \in 1..l : k0[k + 1] = [data |-> p[k]]
  BY <1>2, PacketType DEF Header
<1> HIDE DEF k0, l, p, c
<1>5. h = k0[1]
  BY <1>3, <1>4
<1>6. /\ Tail(s) \in Seq(Item) /\ Len(Tail(s)) = Len(s) - 1 /\ Len(s) \in Nat
      /\ \A k \in 1..(Len(s) - 1) : Tail(s)[k] = s[k + 1]
  OBVIOUS
<1>7. SubSeq(Tail(s), l + 1, Len(Tail(s))) = SubSeq(s, Len(k0) + 1, Len(s))
  BY <1>3, <1>4
<1>8. \A k \in 1..l : Tail(s)[k] = [data |-> p[0 + k]]
  <2> TAKE k \in 1..l
  <2>1. k + 1 \in 1..Len(k0) /\ k \in 1..(Len(s) - 1) /\ 0 + k = k
    BY <1>3, <1>4, <1>6
  <2> QED
    BY <1>3, <1>4, <1>6, <2>1
<1>9. Mid(h, l, d, Tail(s), q)
  <2>1. l - l = 0 /\ Len(Tail(s)) >= l /\ ~(\E k \in 1..0 : TRUE)
    BY <1>3, <1>4, <1>6
  <2>2. \A k \in 1..(l - l) : d[8 - (l - l) + k] = p[k]
    BY <2>1
  <2>3. \A k \in 1..l : Tail(s)[k] = [data |-> p[(l - l) + k]]
    BY <1>8, <2>1
  <2>4. Stream(SubSeq(Tail(s), l + 1, Len(Tail(s))), Tail(q))
    BY <1>3, <1>7
  <2>5. l - l >= 0 /\ Len(Tail(s)) >= l
    BY <2>1
  <2>6. h.write = c.write /\ h.auto = c.auto /\ h.size = c.size
    BY <1>4, <1>5
  <2> HIDE DEF h
  <2> QED
    BY <1>1, <2>2, <2>3, <2>4, <2>5, <2>6, Zenon DEF Mid, l, p, c
<1> QED
  BY <1>1, <1>4, <1>5, <1>9

LEMMA Shift ==
    ASSUME NEW d \in [1..8 -> Byte], NEW x \in Byte
    PROVE  /\ Append(Tail(d), x) \in [1..8 -> Byte] /\ Append(Tail(d), x)[8] = x
           /\ \A k \in 1..7 : Append(Tail(d), x)[k] = d[k + 1]
<1>1. d \in Seq(Byte) /\ Len(d) = 8
  BY Tuple
<1>2. /\ Append(Tail(d), x) \in Seq(Byte) /\ Len(Append(Tail(d), x)) = 8
      /\ Append(Tail(d), x)[8] = x
      /\ \A k \in 1..7 : Append(Tail(d), x)[k] = d[k + 1]
  <2> DEFINE u == Tail(d)
  <2>1. u \in Seq(Byte) /\ Len(u) = 7 /\ \A k \in 1..7 : u[k] = d[k + 1]
    <3>1. d # <<>>
      <4>1. Len(d) # Len(<<>>)
        BY <1>1
      <4> QED
        BY <4>1, Zenon
    <3>2. /\ Tail(d) \in Seq(Byte) /\ Len(Tail(d)) = Len(d) - 1
          /\ \A k \in 1..Len(Tail(d)) : Tail(d)[k] = d[k + 1]
      BY <1>1, <3>1, HeadTailProperties, Zenon
    <3> HIDE DEF u
    <3>3. Len(d) - 1 = 7
      BY <1>1
    <3> QED
      BY <3>2, <3>3, Zenon DEF u
  <2> HIDE DEF u
  <2>2. /\ Append(u, x) \in Seq(Byte) /\ Len(Append(u, x)) = 8 /\ Append(u, x)[8] = x
        /\ \A k \in 1..7 : Append(u, x)[k] = u[k]
    <3>1. /\ Append(u, x) \in Seq(Byte) /\ Len(Append(u, x)) = Len(u) + 1
          /\ \A k \in 1..Len(u) : Append(u, x)[k] = u[k]
          /\ Append(u, x)[Len(u) + 1] = x
      <4>1. \A w \in Seq(Byte) : /\ Append(w, x) \in Seq(Byte)
                                 /\ Len(Append(w, x)) = Len(w) + 1
                                 /\ \A k \in 1..Len(w) : Append(w, x)[k] = w[k]
                                 /\ Append(w, x)[Len(w) + 1] = x
        OBVIOUS
      <4> QED
        BY <2>1, <4>1, Zenon
    <3>2. Len(u) + 1 = 8
      BY <2>1
    <3> QED
      BY <2>1, <3>1, <3>2, Zenon
  <2> QED
    BY <2>1, <2>2 DEF u
<1>3. Append(Tail(d), x) \in [1..8 -> Byte]
  BY <1>2, LenProperties
<1> QED
  BY <1>2, <1>3

\* A byte of its payload is looked at.
LEMMA MidTake ==
    ASSUME NEW m, NEW i \in Nat, i > 0, NEW d \in [1..8 -> Byte], NEW s \in Seq(Item),
           NEW q \in Seq(Commands), Mid(m, i, d, s, q)
    PROVE  /\ s # <<>> /\ s[1].data \in Byte
           /\ Mid(m, i - 1, Append(Tail(d), s[1].data), Tail(s), q)
<1> DEFINE c == q[1]
           p == Payload(c)
           n == Len(p) - i
           x == s[1].data
           e == Append(Tail(d), x)
<1>1. /\ q # <<>>
      /\ m.write = c.write /\ m.auto = c.auto /\ m.size = c.size
      /\ n >= 0 /\ Len(s) >= i
      /\ \A k \in 1..n : d[8 - n + k] = p[k]
      /\ \A k \in 1..i : s[k] = [data |-> p[n + k]]
      /\ Stream(SubSeq(s, i + 1, Len(s)), Tail(q))
  BY DEF Mid
<1>2. Len(p) \in 0..8 /\ \A k \in 1..Len(p) : p[k] \in Byte
  <2>1. c \in Commands
    BY <1>1
  <2> HIDE DEF c
  <2> QED
    BY <2>1, PacketType
<1>3. n \in 0..7 /\ n + 1 \in 1..Len(p)
  <2> DEFINE l == Len(p)
  <2>1. l \in 0..8 /\ l - i >= 0
    <3>1. l - i >= 0
      BY <1>1, Zenon
    <3> HIDE DEF n
    <3> QED
      BY <1>2, <3>1, Zenon
  <2> HIDE DEF l
  <2>2. l - i \in 0..7 /\ l - i + 1 \in 1..l
    BY <2>1
  <2> QED
    BY <2>2 DEF l
<1>4. x = p[n + 1] /\ x \in Byte
  <2>1. s[1] = [data |-> p[n + 1]]
    BY <1>1
  <2> HIDE DEF n, p
  <2> QED
    BY <1>2, <1>3, <2>1
<1>5. /\ e[8] = x /\ \A k \in 1..7 : e[k] = d[k + 1]
  BY <1>4, Shift
<1>6. Len(p) - (i - 1) = n + 1
  BY <1>2
<1> HIDE DEF n, p, c, x, e
<1>7. s # <<>> /\ Len(s) \in Nat /\ Len(s) > 0
  BY <1>1
<1>8. /\ Tail(s) \in Seq(Item) /\ Len(Tail(s)) = Len(s) - 1
      /\ \A k \in 1..(Len(s) - 1) : Tail(s)[k] = s[k + 1]
      /\ SubSeq(Tail(s), (i - 1) + 1, Len(Tail(s))) = SubSeq(s, i + 1, Len(s))
  BY <1>1, <1>7
<1>9. \A k \in 1..(n + 1) : e[8 - (n + 1) + k] = p[k]
  <2> TAKE k \in 1..(n + 1)
  <2>1. CASE k = n + 1
    BY <1>3, <1>4, <1>5, <2>1
  <2>2. CASE k \in 1..n
    <3>1. 8 - (n + 1) + k \in 1..7 /\ (8 - (n + 1) + k) + 1 = 8 - n + k
      BY <1>3, <2>2
    <3> QED
      BY <1>1, <1>5, <2>2, <3>1
  <2> QED
    BY <1>3, <2>1, <2>2
<1>10. \A k \in 1..(i - 1) : Tail(s)[k] = [data |-> p[(n + 1) + k]]
  <2> TAKE k \in 1..(i - 1)
  <2>1. k + 1 \in 1..i
    OBVIOUS
  <2>2. k \in 1..(Len(s) - 1)
    BY <1>1, <1>7
  <2>3. n + (k + 1) = (n + 1) + k
    BY <1>3
  <2> QED
    BY <1>1, <1>8, <2>1, <2>2, <2>3
<1>11. n + 1 >= 0 /\ Len(Tail(s)) >= i - 1
  BY <1>1, <1>3, <1>7, <1>8
<1>12. Mid(m, i - 1, e, Tail(s), q)
  BY <1>1, <1>6, <1>8, <1>9, <1>10, <1>11 DEF Mid, c, p
<1> QED
  BY <1>4, <1>7, <1>12 DEF e, x

\* The command is carried out.
LEMMA MidEnd ==
    ASSUME NEW m, NEW d, NEW s \in Seq(Item), NEW q, Mid(m, 0, d, s, q)
    PROVE  Stream(s, Tail(q))
<1>1. SubSeq(s, 0 + 1, Len(s)) = s
  OBVIOUS
<1> QED
  BY <1>1 DEF Mid

-----------------------------------------------------------------------------
(* Lanes of the bus.                                                       *)

LEMMA LowRange ==
    \A a \in Nat, n \in {1, 2, 4} :
        LET low == (a % 4) - (a % n)
        IN  /\ low \in 0..3 /\ low + n <= 4
            /\ \A j \in 0..(n - 1) : (low + j) % n = j
<1> TAKE a \in Nat, n \in {1, 2, 4}
<1>1. CASE n = 1
  BY <1>1
<1>2. CASE n = 2
  <2>1. (a % 4) - (a % 2) = 0 \/ (a % 4) - (a % 2) = 2
    OBVIOUS
  <2> QED
    BY <1>2, <2>1
<1>3. CASE n = 4
  BY <1>3
<1> QED
  BY <1>1, <1>2, <1>3

LEMMA LaneType ==
    ASSUME NEW w \in [1..4 -> Byte], NEW a \in Nat, NEW size \in 0..2
    PROVE  Lane(w, a, size) \in [1..2^size -> Byte]
<1> DEFINE n == 2^size
           low == (a % 4) - (a % n)
<1>1. n \in {1, 2, 4}
  BY Sizes
<1>2. low \in 0..3 /\ low + n <= 4
  BY <1>1, LowRange
<1>3. Lane(w, a, size) = [k \in 1..n |-> w[low + n - k + 1]]
  BY DEF Lane
<1> HIDE DEF n, low
<1>4. \A k \in 1..n : low + n - k + 1 \in 1..4
  BY <1>1, <1>2
<1>5. Lane(w, a, size) \in [1..n -> Byte]
  BY <1>3, <1>4
<1> QED
  BY <1>5 DEF n

LEMMA LanesType ==
    ASSUME dati \in [1..8 -> Byte], cmd.size \in 0..2
    PROVE  /\ Lanes \in [1..4 -> Byte]
           /\ \A j \in 1..4 : Lanes[j] = dati[8 - ((j - 1) % 2^cmd.size)]
<1> DEFINE n == 2^cmd.size
<1>1. n \in {1, 2, 4}
  BY Sizes
<1>2. \A j \in 1..4 : 8 - ((j - 1) % n) \in 1..8
  <2> HIDE DEF n
  <2> TAKE j \in 1..4
  <2>1. (j - 1) % n \in 0..3
    BY <1>1
  <2> QED
    BY <2>1
<1>3. Lanes = [k \in 1..4 |-> dati[8 - ((k - 1) % n)]]
  BY DEF Lanes
<1> HIDE DEF n
<1>4. Lanes \in [1..4 -> Byte] /\ \A j \in 1..4 : Lanes[j] = dati[8 - ((j - 1) % n)]
  BY <1>2, <1>3
<1> QED
  BY <1>4 DEF n

\* Every transfer finds in its lanes the bytes behind the address.
LEMMA LaneOfLanes ==
    ASSUME dati \in [1..8 -> Byte], cmd.size \in 0..2, NEW a \in Nat, NEW k \in 1..2^cmd.size
    PROVE  Lane(Lanes, a, cmd.size)[k] = dati[8 - 2^cmd.size + k]
<1> DEFINE n == 2^cmd.size
           low == (a % 4) - (a % n)
           j == low + n - k + 1
<1>1. n \in {1, 2, 4}
  BY Sizes
<1>2. low \in 0..3 /\ low + n <= 4 /\ \A i \in 0..(n - 1) : (low + i) % n = i
  BY <1>1, LowRange
<1>3. Lane(Lanes, a, cmd.size)[k] = Lanes[j]
  BY DEF Lane
<1>4. Lanes[j] = dati[8 - ((j - 1) % n)]
  <2>1. j \in 1..4
    <3>1. k \in 1..n
      OBVIOUS
    <3> HIDE DEF n, low
    <3> QED
      BY <1>1, <1>2, <3>1
  <2> HIDE DEF j
  <2> QED
    BY <2>1, LanesType
<1>5. (j - 1) % n = n - k
  <2>1. n - k \in 0..(n - 1) /\ j - 1 = low + (n - k)
    <3>1. k \in 1..n
      OBVIOUS
    <3> HIDE DEF n, low
    <3> QED
      BY <1>1, <1>2, <3>1
  <2> HIDE DEF n, low, j
  <2> QED
    BY <1>2, <2>1
<1>6. 8 - (n - k) = 8 - n + k
  <2>1. k \in 1..n
    OBVIOUS
  <2> HIDE DEF n
  <2> QED
    BY <1>1, <2>1
<1> HIDE DEF j
<1> QED
  BY <1>3, <1>4, <1>5, <1>6

-----------------------------------------------------------------------------
(* The command in progress is carried out.                                 *)

LEMMA AddressType ==
    ASSUME TypeOK
    PROVE  Address \in 0..(AddrSpace - 1)
<1> DEFINE n == IF cmd.write THEN 2^cmd.size ELSE 0
           ds == SubSeq(dati, 5 - n, 8 - n)
<1>1. cmd.size \in 0..2 /\ addr \in Nat /\ dati \in [1..8 -> Byte]
  BY Products DEF TypeOK
<1>2. 2^cmd.size \in {1, 2, 4} /\ n \in {0, 1, 2, 4}
  BY <1>1, Sizes
<1>3. CASE cmd.auto
  <2>1. Address = (addr + 2^cmd.size) % AddrSpace
    BY <1>3 DEF Address
  <2> QED
    BY <1>1, <1>2, <2>1, Products
<1>4. CASE ~cmd.auto
  <2>1. Address = Value(ds)
    BY <1>4 DEF Address
  <2>2. ds \in [1..4 -> Byte]
    <3> HIDE DEF n
    <3>1. (8 - n) - (5 - n) + 1 = 4 /\ \A k \in (5 - n)..(8 - n) : dati[k] \in Byte
      BY <1>1, <1>2
    <3>2. 5 - n \in Int /\ 8 - n \in Int /\ 5 - n <= 8 - n
      BY <1>2
    <3>3. ds \in Seq(Byte) /\ Len(ds) = 4
      BY <3>1, <3>2, SubSeqProperties
    <3> QED
      BY <3>3, LenProperties
  <2> HIDE DEF ds
  <2>3. Value(ds) \in 0..(Power[5] - 1)
    <3>1. 4 \in {1, 2, 4} /\ 4 + 1 = 5
      OBVIOUS
    <3> QED
      BY <2>2, <3>1, ValueDigits, Zenon
  <2> QED
    BY <2>1, <2>3 DEF Power
<1> QED
  BY <1>3, <1>4

\* The payload is complete: it says where the transfer goes and what it writes.
LEMMA PayloadUsed ==
    ASSUME TypeOK, NEW s, NEW q \in Seq(Commands), Mid(cmd, 0, dati, s, q)
    PROVE  /\ q # <<>> /\ q[1] \in Commands
           /\ cmd.write = q[1].write /\ cmd.auto = q[1].auto /\ cmd.size = q[1].size
           /\ Address = IF q[1].auto THEN (addr + 2^q[1].size) % AddrSpace ELSE q[1].addr
           /\ cmd.write => \A a \in Nat : Value(Lane(Lanes, a, cmd.size)) = q[1].data
<1> DEFINE c == q[1]
           p == Payload(c)
           m == Len(p)
           l == Lead(c)
           w == Written(c)
           n == 2^cmd.size
<1>1. /\ q # <<>>
      /\ cmd.write = c.write /\ cmd.auto = c.auto /\ cmd.size = c.size
      /\ \A k \in 1..(m - 0) : dati[8 - (m - 0) + k] = p[k]
  BY DEF Mid
<1>2. c \in Commands
  BY <1>1
<1>3. /\ m = l + w /\ l \in {0, 4} /\ w \in {0, 1, 2, 4}
      /\ \A k \in 1..l : p[k] = Digits(c.addr, 4)[k]
      /\ \A k \in 1..w : p[l + k] = Digits(c.data, 2^c.size)[k]
  BY <1>2, PayloadType
<1>4. /\ c.size \in 0..2 /\ c.addr \in Nat /\ c.addr < AddrSpace /\ c.data \in Nat
      /\ c.write => c.data < Power[2^c.size + 1]
  BY <1>2, CommandType
<1>5. n \in {1, 2, 4} /\ n = 2^c.size
  BY <1>1, <1>4, Sizes
<1>6. dati \in [1..8 -> Byte] /\ cmd.size \in 0..2
  BY DEF TypeOK
<1>7. l = (IF c.auto THEN 0 ELSE 4) /\ w = (IF c.write THEN n ELSE 0)
  BY <1>1 DEF Lead, Written
<1> HIDE DEF c, p, m, l, w, n
<1>8. \A k \in 1..(l + w) : dati[8 - (l + w) + k] = p[k]
  <2>1. m - 0 = l + w
    BY <1>3
  <2> QED
    BY <1>1, <2>1
<1>9. ASSUME ~c.auto PROVE Address = c.addr
  <2> DEFINE ds == SubSeq(dati, 5 - w, 8 - w)
  <2>1. l = 4
    BY <1>7, <1>9
  <2>2. Address = Value(ds)
    BY <1>1, <1>7, <1>9 DEF Address, n
  <2>3. ds \in Seq(Byte) /\ Len(ds) = 4 /\ \A k \in 1..4 : ds[k] = dati[(5 - w) + k - 1]
    <3>1. (8 - w) - (5 - w) + 1 = 4 /\ \A k \in (5 - w)..(8 - w) : dati[k] \in Byte
      BY <1>3, <1>6
    <3>2. 5 - w \in Int /\ 8 - w \in Int /\ 5 - w <= 8 - w
      BY <1>3
    <3> QED
      BY <3>1, <3>2, SubSeqProperties
  <2> DEFINE e == Digits(c.addr, 4)
  <2>4. e \in [1..4 -> Byte] /\ 4 \in {1, 2, 4}
    BY <1>4, DigitsAt
  <2>5. \A k \in 1..4 : ds[k] = e[k]
    <3> HIDE DEF ds, e
    <3> TAKE k \in 1..4
    <3>1. k \in 1..l /\ k \in 1..(l + w) /\ (5 - w) + k - 1 = 8 - (l + w) + k
      BY <1>3, <2>1
    <3> QED
      BY <1>3, <1>8, <2>3, <3>1 DEF e
  <2> HIDE DEF ds, e
  <2>6. e \in Seq(Byte) /\ Len(e) = 4
    BY <2>4, Tuple
  <2>7. ds = e
    BY <2>3, <2>5, <2>6, SeqEqual
  <2>8. Value(Digits(c.addr, 4)) = c.addr
    <3>1. c.addr < Power[4 + 1]
      BY <1>4 DEF Power
    <3> QED
      BY <1>4, <2>4, <3>1, DigitsValue, Zenon
  <2> QED
    BY <2>2, <2>7, <2>8 DEF e
<1>10. ASSUME c.auto PROVE Address = (addr + 2^c.size) % AddrSpace
  BY <1>1, <1>10 DEF Address
<1>11. ASSUME cmd.write, NEW a \in Nat PROVE Value(Lane(Lanes, a, cmd.size)) = c.data
  <2> DEFINE e == Digits(c.data, n)
             g == Lane(Lanes, a, cmd.size)
  <2>1. w = n
    BY <1>1, <1>7, <1>11
  <2>2. e \in [1..n -> Byte]
    BY <1>4, <1>5, DigitsAt
  <2>3. g \in [1..n -> Byte]
    BY <1>6, <1>11, LanesType, LaneType DEF n
  <2>4. \A k \in 1..n : g[k] = e[k]
    <3> TAKE k \in 1..n
    <3>1. g[k] = dati[8 - n + k]
      BY <1>6, <1>11, LaneOfLanes DEF n
    <3> HIDE DEF g, e
    <3>2. l + k \in 1..(l + w) /\ 8 - (l + w) + (l + k) = 8 - n + k /\ k \in 1..w
      <4>1. l \in Nat /\ n \in Nat /\ k \in Nat /\ k >= 1 /\ k <= n
        BY <1>3, <1>5
      <4> QED
        BY <2>1, <4>1
    <3>3. dati[8 - n + k] = p[l + k]
      BY <1>8, <3>2
    <3> QED
      BY <1>3, <1>5, <3>1, <3>2, <3>3 DEF e
  <2> HIDE DEF g, e
  <2>5. g = e
    <3>1. /\ n \in Nat /\ g \in Seq(Byte) /\ Len(g) = n
          /\ e \in Seq(Byte) /\ Len(e) = n
      <4>1. n \in Nat
        BY <1>5
      <4>2. g \in Seq(Byte) /\ Len(g) = n
        BY <2>3, <4>1, Tuple
      <4>3. e \in Seq(Byte) /\ Len(e) = n
        BY <2>2, <4>1, Tuple
      <4> QED
        BY <4>1, <4>2, <4>3
    <3> QED
      BY <2>4, <3>1, SeqEqual
  <2>6. Value(Digits(c.data, n)) = c.data
    <3>1. c.data < Power[n + 1]
      BY <1>1, <1>4, <1>5, <1>11
    <3> QED
      BY <1>4, <1>5, <3>1, DigitsValue
  <2> QED
    BY <2>5, <2>6 DEF g, e
<1> QED
  BY <1>1, <1>2, <1>9, <1>10, <1>11 DEF c

-----------------------------------------------------------------------------
(* What an edge does to the link, the handshakes and the answers.          *)

LEMMA InputType ==
    ASSUME TypeOK
    PROVE  /\ Input \in Seq(Item) /\ host \in Seq(Item)
           /\ dvalid => /\ Input # <<>> /\ Input[1] = RDDATA /\ Tail(Input) = host
           /\ ~dvalid => Input = host
<1>1. RDDATA \in Item /\ host \in Seq(Item)
  BY DEF TypeOK
<1>2. CASE dvalid
  <2>1. Input = <<RDDATA>> \o host
    BY <1>2 DEF Input
  <2>2. /\ <<RDDATA>> \o host \in Seq(Item) /\ <<RDDATA>> \o host # <<>>
        /\ (<<RDDATA>> \o host)[1] = RDDATA /\ Tail(<<RDDATA>> \o host) = host
    BY <1>1
  <2> QED
    BY <1>1, <1>2, <2>1, <2>2
<1>3. CASE ~dvalid
  <2>1. Input = <<>> \o host
    BY <1>3 DEF Input
  <2>2. <<>> \o host = host
    BY <1>1
  <2> QED
    BY <1>1, <1>3, <2>1, <2>2
<1> QED
  BY <1>2, <1>3

LEMMA LinkInput ==
    ASSUME TypeOK, NEW cs \in Sends, NEW arrived \in BOOLEAN, NEW read \in BOOLEAN,
           Link(cs, arrived, read)
    PROVE  Input' = host \o New(cs) /\ host' \in Seq(Item) /\ RDDATA' \in Item
<1>1. /\ arrived => host # <<>>
      /\ dvalid' = RDEN(arrived)
      /\ RDDATA' = IF RDEN(arrived) THEN Head(host) ELSE RDDATA
      /\ host' = (IF RDEN(arrived) THEN Tail(host) ELSE host) \o New(cs)
  BY DEF Link, New
<1>2. RDDATA \in Item /\ host \in Seq(Item) /\ New(cs) \in Seq(Item)
  BY NewType DEF TypeOK
<1>3. CASE RDEN(arrived)
  <2>1. host # <<>>
    BY <1>1, <1>3 DEF RDEN
  <2>2. RDDATA' = Head(host) /\ host' = Tail(host) \o New(cs) /\ dvalid'
    BY <1>1, <1>3
  <2>3. Input' = <<RDDATA'>> \o host'
    BY <2>2 DEF Input
  <2> DEFINE n == New(cs)
  <2> HIDE DEF n
  <2>4. /\ Head(host) \in Item /\ Tail(host) \o n \in Seq(Item)
        /\ <<Head(host)>> \o (Tail(host) \o n) = host \o n
    <3>0. n \in Seq(Item)
      BY <1>2 DEF n
    <3>1. Head(host) \in Item /\ Tail(host) \in Seq(Item) /\ <<Head(host)>> \o Tail(host) = host
      BY <1>2, <2>1
    <3>2. <<Head(host)>> \in Seq(Item)
      BY <3>1
    <3>3. <<Head(host)>> \o (Tail(host) \o n) = (<<Head(host)>> \o Tail(host)) \o n
      BY <3>0, <3>1, <3>2, ConcatAssociative
    <3>4. Tail(host) \o n \in Seq(Item)
      BY <3>0, <3>1
    <3> QED
      BY <3>1, <3>3, <3>4
  <2> QED
    BY <2>2, <2>3, <2>4 DEF n
<1>4. CASE ~RDEN(arrived)
  <2>1. RDDATA' = RDDATA /\ host' = host \o New(cs) /\ ~dvalid'
    BY <1>1, <1>4
  <2>2. Input' = <<>> \o host'
    BY <2>1 DEF Input
  <2>3. host \o New(cs) \in Seq(Item)
    BY <1>2
  <2> QED
    BY <1>2, <2>1, <2>2, <2>3
<1> QED
  BY <1>3, <1>4

LEMMA LinkAnswers ==
    ASSUME TypeOK, NEW cs, NEW arrived, NEW read \in BOOLEAN, Link(cs, arrived, read)
    PROVE  resp' \in Seq(AnswerItem) /\ Len(resp') <= RespDepth
<1>1. /\ resp \in Seq(AnswerItem) /\ Len(resp) <= RespDepth /\ WRDATA \in AnswerItem
      /\ read => resp # <<>>
      /\ resp' = (IF read THEN Tail(resp) ELSE resp) \o (IF WREN THEN <<WRDATA>> ELSE <<>>)
  BY DEF Link, TypeOK
<1>2. RespDepth \in Nat /\ (WREN => Len(resp) < RespDepth)
  BY <1>1, RespAssumption DEF WREN, WRFULL
<1> DEFINE a == IF read THEN Tail(resp) ELSE resp
           b == IF WREN THEN <<WRDATA>> ELSE <<>>
<1>3. a \in Seq(AnswerItem) /\ Len(a) <= Len(resp)
  BY <1>1
<1>4. b \in Seq(AnswerItem) /\ Len(b) = IF WREN THEN 1 ELSE 0
  BY <1>1
<1> HIDE DEF a, b
<1>5. a \o b \in Seq(AnswerItem) /\ Len(a \o b) = Len(a) + Len(b)
  BY <1>3, <1>4, ConcatProperties, Zenon
<1>6. Len(a) + Len(b) <= RespDepth
  BY <1>1, <1>2, <1>3, <1>4
<1> QED
  BY <1>1, <1>5, <1>6 DEF a, b

LEMMA ShiftedType ==
    ASSUME TypeOK
    PROVE  Shifted \in [1..4 -> Byte]
<1>1. dato \in [1..4 -> Byte]
  BY DEF TypeOK
<1>2. \A k \in 1..4 : (IF k = 4 THEN 4 ELSE k + 1) \in 1..4
  OBVIOUS
<1> QED
  BY <1>1, <1>2 DEF Shifted

LEMMA SendByteType ==
    ASSUME TypeOK, SendByte
    PROVE  ocnt' \in 0..5 /\ WRDATA' \in AnswerItem /\ dato' \in [1..4 -> Byte]
<1>1. ocnt \in 0..5 /\ WRDATA \in AnswerItem /\ dato \in [1..4 -> Byte]
  BY DEF TypeOK
<1>2. CASE WREN
  <2>1. ocnt # 0 /\ ocnt' = ocnt - 1 /\ WRDATA' = [data |-> dato[1]] /\ dato' = Shifted
    BY <1>2 DEF SendByte, WREN
  <2>2. dato[1] \in Byte
    BY <1>1
  <2> QED
    BY <1>1, <2>1, <2>2, ShiftedType DEF AnswerItem
<1>3. CASE ~WREN
  BY <1>1, <1>3 DEF SendByte
<1> QED
  BY <1>2, <1>3

LEMMA RespondType ==
    ASSUME TypeOK, NEW hrdata \in ReadData, NEW err \in BOOLEAN, Respond(hrdata, err)
    PROVE  ocnt' \in 0..5 /\ WRDATA' \in AnswerItem /\ dato' \in [1..4 -> Byte]
<1>1. CASE err \/ HWRITE
  <2>1. WRDATA' = [cnt |-> 0, err |-> err] /\ ocnt' = 1 /\ dato' = Shifted
    BY <1>1 DEF Respond
  <2>2. [cnt |-> 0, err |-> err] \in AnswerItem
    BY DEF AnswerItem
  <2> QED
    BY <2>1, <2>2, ShiftedType
<1>2. CASE ~(err \/ HWRITE)
  <2> DEFINE n == 2^cmd.size
             ds == Lane(hrdata, HADDR, cmd.size)
             f == [k \in 1..4 |-> IF k <= n THEN ds[k] ELSE Shifted[k]]
  <2>1. WRDATA' = [cnt |-> cmd.size + 1, err |-> FALSE] /\ dato' = f /\ ocnt' = n + 1
    BY <1>2 DEF Respond
  <2>2. cmd.size \in 0..2 /\ HADDR \in Nat /\ hrdata \in [1..4 -> Byte]
    BY ReadAssumption, Products DEF TypeOK
  <2>3. n \in {1, 2, 4} /\ ds \in [1..n -> Byte] /\ Shifted \in [1..4 -> Byte]
    BY <2>2, Sizes, LaneType, ShiftedType
  <2> HIDE DEF n, ds
  <2>4. f \in [1..4 -> Byte]
    <3>1. ASSUME NEW k \in 1..4 PROVE (IF k <= n THEN ds[k] ELSE Shifted[k]) \in Byte
      <4>1. CASE k <= n
        <5>1. k \in 1..n
          BY <2>3, <4>1
        <5> QED
          BY <2>3, <4>1, <5>1
      <4>2. CASE ~(k <= n)
        BY <2>3, <4>2
      <4> QED
        BY <4>1, <4>2
    <3> QED
      BY <3>1
  <2>5. [cnt |-> cmd.size + 1, err |-> FALSE] \in AnswerItem
    <3>1. cmd.size + 1 \in 0..3
      BY <2>2
    <3> QED
      BY <3>1 DEF AnswerItem
  <2>6. n + 1 \in 0..5
    BY <2>3
  <2> QED
    BY <2>1, <2>4, <2>5, <2>6
<1> QED
  BY <1>1, <1>2

-----------------------------------------------------------------------------
(* The handshakes.                                                         *)

Shake == NoByteMissed /\ AnswerSafe /\ (state # "IDLE" => icnt = 0 /\ ocnt = 0)

\* A byte is fetched only in IDLE, with no answer on its way, and not right
\* behind the last byte of a packet.
LEMMA FetchGuard ==
    ASSUME NEW arrived, RDEN(arrived)
    PROVE  /\ state = "IDLE" /\ ocnt = 0
           /\ dvalid => icnt # 0 /\ icnt # 1
  BY DEF RDEN, busy, block, WREN

\* The edges at which no transfer ends.
LEMMA ClockShakes ==
    ASSUME Shake, NEW cs, NEW arrived, NEW read, Clock(cs, arrived, read)
    PROVE  Shake'
<1> USE DEF Shake
<1>1. dvalid' = RDEN(arrived)
  BY DEF Clock, Link
<1>2. ocnt = 0 => ocnt' = 0
  BY DEF Clock, SendByte, WREN
<1>3. CASE Collect
  <2>1. state = "IDLE" /\ dvalid /\ ocnt = 0
    BY <1>3 DEF Collect, AnswerSafe
  <2>2. ocnt' = 0
    BY <1>2, <2>1
  <2>3. state' = "IDLE" \/ (state' = "ADDR" /\ icnt' = 0 /\ (icnt = 0 \/ icnt = 1))
    BY <1>3 DEF Collect, fifo_payload, Bytes
  <2>4. dvalid' => state' = "IDLE"
    BY <1>1, <2>1, <2>3, FetchGuard
  <2> QED
    BY <2>2, <2>3, <2>4 DEF NoByteMissed, AnswerSafe
<1>4. CASE Idle
  <2>1. state' = state /\ icnt' = icnt
    BY <1>4 DEF Idle, regs
  <2>2. dvalid' => ocnt = 0
    BY <1>1, FetchGuard
  <2> QED
    BY <1>2, <1>4, <2>1, <2>2 DEF Idle, NoByteMissed, AnswerSafe
<1>5. CASE StartAddr \/ LatchAddr \/ WaitReady
  <2>1. state # "IDLE" /\ icnt' = icnt
    BY <1>5 DEF StartAddr, LatchAddr, WaitReady, regs
  <2>2. icnt = 0 /\ ocnt = 0
    BY <2>1
  <2>3. ~dvalid'
    BY <1>1, <2>1, FetchGuard
  <2> QED
    BY <1>2, <2>1, <2>2, <2>3 DEF NoByteMissed, AnswerSafe
<1> QED
  BY <1>3, <1>4, <1>5 DEF Clock

\* The edge at which the transfer ends and the answer begins.
LEMMA ClockEndShakes ==
    ASSUME Shake, NEW cs, NEW arrived, NEW read, ClockEnd(cs, arrived, read)
    PROVE  Shake'
<1>1. state = "DATA" /\ state' = "IDLE" /\ icnt' = icnt
  BY DEF ClockEnd, TransferEnds
<1>2. icnt = 0
  BY <1>1 DEF Shake
<1>3. ~dvalid'
  BY <1>1, FetchGuard DEF ClockEnd, Link
<1> QED
  BY <1>1, <1>2, <1>3 DEF Shake, NoByteMissed, AnswerSafe

-----------------------------------------------------------------------------
(* The state machine.                                                      *)

\* What the input and the command in progress become.
LEMMA CollectStep ==
    ASSUME IInv, NEW cs \in Sends, NEW arrived \in BOOLEAN, NEW read \in BOOLEAN,
           Link(cs, arrived, read), Collect, todo' = todo \o cs
    PROVE  /\ cmd' \in [cnt : 0..7, write : BOOLEAN, auto : BOOLEAN, size : 0..2]
           /\ icnt' \in 0..16 /\ dati' \in [1..8 -> Byte] /\ state' \in {"IDLE", "ADDR"}
           /\ Collected'
<1>1. /\ state = "IDLE" /\ dvalid /\ TypeOK /\ todo \in Seq(Commands)
      /\ cmd \in [cnt : 0..7, write : BOOLEAN, auto : BOOLEAN, size : 0..2]
      /\ icnt \in 0..16 /\ dati \in [1..8 -> Byte]
  BY DEF Collect, IInv, TypeOK
<1>2. /\ Input \in Seq(Item) /\ host \in Seq(Item) /\ Input # <<>>
      /\ Input[1] = RDDATA /\ Tail(Input) = host
  BY <1>1, InputType
<1>3. Input' = host \o New(cs)
  BY <1>1, LinkInput
<1>4. IF icnt = 0 THEN Stream(Input, todo) ELSE Mid(cmd, icnt, dati, Input, todo)
  BY <1>1, CollectedMid DEF IInv
<1>5. Collected' <=> IF state' = "IDLE" /\ icnt' = 0 THEN Stream(Input', todo')
                     ELSE Mid(cmd', icnt', dati', Input', todo')
  BY DEF Collected, Mid
<1>6. CASE icnt = 0
  <2> DEFINE i == fifo_payload(RDDATA.cnt)
  <2>1. /\ cmd' = RDDATA /\ icnt' = i /\ dati' = dati
        /\ state' = IF RDDATA.cnt = 0 THEN "ADDR" ELSE "IDLE"
    BY <1>6 DEF Collect
  <2>2. /\ RDDATA \in [cnt : 0..7, write : BOOLEAN, auto : BOOLEAN, size : 0..2]
        /\ RDDATA.cnt = 0 <=> i = 0
        /\ i \in 0..8 /\ Mid(RDDATA, i, dati, host, todo)
    BY <1>1, <1>2, <1>4, <1>6, MidBegin
  <2> HIDE DEF i
  <2>3. i \in Nat
    BY <2>2
  <2>4. Mid(RDDATA, i, dati, host \o New(cs), todo \o cs)
    BY <1>1, <1>2, <2>2, <2>3, MidSend
  <2>5. ~(state' = "IDLE" /\ icnt' = 0)
    BY <2>1, <2>2
  <2>6. Mid(cmd', icnt', dati', Input', todo')
    BY <1>3, <2>1, <2>4
  <2> QED
    BY <1>1, <1>5, <2>1, <2>2, <2>5, <2>6
<1>7. CASE icnt # 0
  <2>1. /\ cmd' = cmd /\ icnt' = icnt - 1 /\ dati' = Append(Tail(dati), RDDATA.data)
        /\ state' = IF icnt = 1 THEN "ADDR" ELSE "IDLE"
    BY <1>7 DEF Collect
  <2>2. icnt \in Nat /\ icnt > 0 /\ icnt - 1 \in Nat
    BY <1>1, <1>7
  <2>3. Mid(cmd, icnt, dati, Input, todo)
    BY <1>4, <1>7
  <2>4. RDDATA.data \in Byte /\ Mid(cmd, icnt - 1, dati', host, todo)
    BY <1>1, <1>2, <2>1, <2>2, <2>3, MidTake
  <2>5. dati' \in [1..8 -> Byte]
    BY <1>1, <2>1, <2>4, Shift
  <2>6. Mid(cmd, icnt - 1, dati', host \o New(cs), todo \o cs)
    BY <1>1, <1>2, <2>2, <2>4, MidSend
  <2>7. Mid(cmd', icnt', dati', Input', todo')
    BY <1>3, <2>1, <2>6
  <2>8. ~(state' = "IDLE" /\ icnt' = 0) /\ icnt' \in 0..16 /\ state' \in {"IDLE", "ADDR"}
    BY <1>1, <1>7, <2>1
  <2> QED
    BY <1>1, <1>5, <2>1, <2>5, <2>7, <2>8
<1> QED
  BY <1>6, <1>7

\* Without a byte to look at only the host adds to the input.
LEMMA WaitStep ==
    ASSUME IInv, NEW cs \in Sends, NEW arrived \in BOOLEAN, NEW read \in BOOLEAN,
           Link(cs, arrived, read), ~dvalid, todo' = todo \o cs,
           cmd' = cmd, icnt' = icnt, dati' = dati, state' = "IDLE" <=> state = "IDLE"
    PROVE  Collected'
<1>1. TypeOK /\ todo \in Seq(Commands) /\ icnt \in Nat
  BY DEF IInv, TypeOK
<1>2. Input \in Seq(Item) /\ Input = host
  BY <1>1, InputType
<1>3. Input' = Input \o New(cs)
  BY <1>1, <1>2, LinkInput
<1>4. Collected' <=> IF state' = "IDLE" /\ icnt' = 0 THEN Stream(Input', todo')
                     ELSE Mid(cmd', icnt', dati', Input', todo')
  BY DEF Collected, Mid
<1>5. CASE state = "IDLE" /\ icnt = 0
  <2>1. Stream(Input, todo)
    BY <1>5, CollectedMid DEF IInv
  <2>2. Stream(Input', todo')
    BY <1>1, <1>2, <1>3, <2>1, StreamSend
  <2> QED
    BY <1>4, <1>5, <2>2
<1>6. CASE ~(state = "IDLE" /\ icnt = 0)
  <2>1. Mid(cmd, icnt, dati, Input, todo)
    BY <1>6, CollectedMid DEF IInv
  <2>2. Mid(cmd, icnt, dati, Input \o New(cs), todo \o cs)
    BY <1>1, <1>2, <2>1, MidSend
  <2> QED
    BY <1>3, <1>4, <1>6, <2>2
<1> QED
  BY <1>5, <1>6

\* The command in progress is done with.
LEMMA EndStep ==
    ASSUME IInv, NEW cs \in Sends, NEW arrived \in BOOLEAN, NEW read \in BOOLEAN,
           Link(cs, arrived, read), state = "DATA", state' = "IDLE", icnt' = icnt,
           todo' = Tail(todo) \o cs
    PROVE  todo # <<>> /\ todo' \in Seq(Commands) /\ Collected'
<1>1. TypeOK /\ todo \in Seq(Commands) /\ icnt = 0 /\ ~dvalid
  BY DEF IInv, TypeOK, NoByteMissed
<1>2. Input \in Seq(Item) /\ Input = host
  BY <1>1, InputType
<1>3. Input' = Input \o New(cs)
  BY <1>1, <1>2, LinkInput
<1>4. Mid(cmd, 0, dati, Input, todo)
  BY <1>1, CollectedMid DEF IInv
<1>5. todo # <<>>
  BY <1>4 DEF Mid
<1>6. Tail(todo) \in Seq(Commands) /\ cs \in Seq(Commands)
  BY <1>1, <1>5, NewType
<1>7. Stream(Input, Tail(todo))
  BY <1>2, <1>4, MidEnd
<1>8. Stream(Input', todo')
  BY <1>2, <1>3, <1>6, <1>7, StreamSend
<1>9. Collected' <=> IF state' = "IDLE" /\ icnt' = 0 THEN Stream(Input', todo')
                     ELSE Mid(cmd', icnt', dati', Input', todo')
  BY DEF Collected, Mid
<1>10. todo' \in Seq(Commands)
  BY <1>6
<1> QED
  BY <1>1, <1>5, <1>8, <1>9, <1>10

\* What the state machine drives.
LEMMA MachineStep ==
    ASSUME IInv, NEW cs \in Sends, NEW arrived \in BOOLEAN, NEW read \in BOOLEAN,
           Clock(cs, arrived, read)
    PROVE  /\ cmd' \in [cnt : 0..7, write : BOOLEAN, auto : BOOLEAN, size : 0..2]
           /\ icnt' \in 0..16 /\ dati' \in [1..8 -> Byte]
           /\ state' \in {"IDLE", "ADDR", "WAIT", "DATA"}
           /\ addr' \in 0..(AddrSpace - 1) /\ HADDR' \in 0..(AddrSpace - 1)
           /\ HWRITE' \in BOOLEAN /\ HTRANS' \in {"IDLE", "NONSEQ"} /\ HSIZE' \in 0..2
           /\ HWDATA' \in [1..4 -> Byte]
           /\ Collected' /\ Driven'
<1>1. /\ TypeOK /\ NoByteMissed /\ Driven
      /\ cmd \in [cnt : 0..7, write : BOOLEAN, auto : BOOLEAN, size : 0..2]
      /\ icnt \in 0..16 /\ dati \in [1..8 -> Byte]
      /\ addr \in 0..(AddrSpace - 1) /\ HADDR \in 0..(AddrSpace - 1)
      /\ HWRITE \in BOOLEAN /\ HTRANS \in {"IDLE", "NONSEQ"} /\ HSIZE \in 0..2
      /\ HWDATA \in [1..4 -> Byte]
  BY DEF IInv, TypeOK
<1>2. Link(cs, arrived, read) /\ todo' = todo \o cs
  BY DEF Clock
<1>3. CASE Collect
  <2>1. UNCHANGED ahb /\ UNCHANGED addr
    BY <1>3 DEF Collect
  <2>2. /\ cmd' \in [cnt : 0..7, write : BOOLEAN, auto : BOOLEAN, size : 0..2]
        /\ icnt' \in 0..16 /\ dati' \in [1..8 -> Byte] /\ state' \in {"IDLE", "ADDR"}
        /\ Collected'
    BY <1>2, <1>3, CollectStep
  <2>3. Driven'
    BY <2>2 DEF Driven
  <2> QED
    BY <1>1, <2>1, <2>2, <2>3 DEF ahb
<1>4. CASE Idle
  <2>1. UNCHANGED <<regs, ahb>> /\ ~dvalid /\ state = "IDLE"
    BY <1>4 DEF Idle
  <2>2. Collected'
    BY <1>2, <2>1, WaitStep DEF regs
  <2>3. Driven'
    BY <2>1 DEF Driven, regs
  <2> QED
    BY <1>1, <2>1, <2>2, <2>3 DEF ahb, regs
<1>5. CASE StartAddr
  <2>1. /\ state = "ADDR" /\ state' = "WAIT" /\ UNCHANGED <<cmd, icnt, dati, HWDATA>>
        /\ HWRITE' = cmd.write /\ HADDR' = Address /\ addr' = Address
        /\ HTRANS' = "NONSEQ" /\ HSIZE' = cmd.size
    BY <1>5 DEF StartAddr
  <2>2. Address \in 0..(AddrSpace - 1)
    BY <1>1, AddressType
  <2>3. Collected'
    <3>1. ~dvalid
      BY <1>1, <2>1 DEF NoByteMissed
    <3> QED
      BY <1>2, <2>1, <3>1, WaitStep
  <2>4. Driven'
    BY <2>1 DEF Driven
  <2> QED
    BY <1>1, <2>1, <2>2, <2>3, <2>4
<1>6. CASE LatchAddr
  <2>1. /\ state = "WAIT" /\ state' = "DATA" /\ HTRANS' = "IDLE"
        /\ HWDATA' = IF HWRITE THEN Lanes ELSE HWDATA
        /\ UNCHANGED <<cmd, icnt, dati, addr, HWRITE, HSIZE, HADDR>>
    BY <1>6 DEF LatchAddr
  <2>2. Collected'
    <3>1. ~dvalid
      BY <1>1, <2>1 DEF NoByteMissed
    <3> QED
      BY <1>2, <2>1, <3>1, WaitStep
  <2>3. Lanes \in [1..4 -> Byte]
    BY <1>1, LanesType
  <2>4. Lanes' = Lanes
    BY <2>1 DEF Lanes
  <2>5. Driven'
    BY <1>1, <2>1, <2>4 DEF Driven
  <2> QED
    BY <1>1, <2>1, <2>2, <2>3, <2>5
<1>7. CASE WaitReady
  <2>1. UNCHANGED <<regs, ahb>> /\ state = "DATA"
    BY <1>7 DEF WaitReady
  <2>2. Collected'
    <3>1. ~dvalid
      BY <1>1, <2>1 DEF NoByteMissed
    <3> QED
      BY <1>2, <2>1, <3>1, WaitStep DEF regs
  <2>3. Lanes' = Lanes
    BY <2>1 DEF Lanes, regs
  <2>4. Driven'
    BY <1>1, <2>1, <2>3 DEF Driven, regs, ahb
  <2> QED
    BY <1>1, <2>1, <2>2, <2>4 DEF ahb, regs
<1> QED
  BY <1>3, <1>4, <1>5, <1>6, <1>7 DEF Clock

-----------------------------------------------------------------------------
(* The invariant.                                                          *)

LEMMA Initially == Init => IInv
<1> SUFFICES ASSUME Init PROVE IInv
  OBVIOUS
<1>1. TypeOK
  <2>1. 0 \in Byte /\ 0 \in 0..(AddrSpace - 1)
    BY Products DEF Byte
  <2>2. NoCmd \in [cnt : 0..7, write : BOOLEAN, auto : BOOLEAN, size : 0..2]
    BY DEF NoCmd
  <2>3. [data |-> 0] \in AnswerItem /\ NoCmd \in Item
    BY <2>1, <2>2 DEF AnswerItem, Item
  <2>4. <<>> \in Seq(Item) /\ <<>> \in Seq(AnswerItem) /\ <<>> \in Seq(Commands) /\ Len(<<>>) = 0
    OBVIOUS
  <2>5. Len(<<>>) <= RespDepth
    BY RespAssumption
  <2>6. /\ [k \in 1..8 |-> 0] \in [1..8 -> Byte] /\ [k \in 1..4 |-> 0] \in [1..4 -> Byte]
        /\ 0 \in 0..16 /\ 0 \in 0..5 /\ 0 \in 0..2
    BY <2>1
  <2> QED
    BY <2>1, <2>2, <2>3, <2>4, <2>5, <2>6, Zenon DEF Init, TypeOK
<1>2. Input = <<>>
  BY DEF Init, Input
<1>3. Collected
  <2>1. Stream(<<>>, <<>>)
    BY StreamNone, EmptySeq
  <2> QED
    BY <1>2, <2>1, CollectedMid DEF Init
<1> QED
  BY <1>1, <1>3 DEF Init, IInv, NoByteMissed, AnswerSafe, Driven

\* The types after an edge, from its parts.
LEMMA EdgeType ==
    ASSUME TypeOK, NEW cs \in Sends, NEW arrived \in BOOLEAN, NEW read \in BOOLEAN,
           Link(cs, arrived, read),
           todo' \in Seq(Commands),
           ocnt' \in 0..5, WRDATA' \in AnswerItem, dato' \in [1..4 -> Byte],
           cmd' \in [cnt : 0..7, write : BOOLEAN, auto : BOOLEAN, size : 0..2],
           icnt' \in 0..16, dati' \in [1..8 -> Byte],
           state' \in {"IDLE", "ADDR", "WAIT", "DATA"},
           addr' \in 0..(AddrSpace - 1), HADDR' \in 0..(AddrSpace - 1),
           HWRITE' \in BOOLEAN, HTRANS' \in {"IDLE", "NONSEQ"}, HSIZE' \in 0..2,
           HWDATA' \in [1..4 -> Byte]
    PROVE  TypeOK'
<1>1. host' \in Seq(Item) /\ RDDATA' \in Item
  BY LinkInput
<1>2. resp' \in Seq(AnswerItem) /\ Len(resp') <= RespDepth
  BY LinkAnswers
<1>3. dvalid' \in BOOLEAN
  BY Zenon DEF Link, RDEN
<1>4. Byte' = Byte /\ AddrSpace' = AddrSpace /\ Item' = Item /\ AnswerItem' = AnswerItem
  BY DEF Byte, AddrSpace, Item, AnswerItem
<1> QED
  BY <1>1, <1>2, <1>3, <1>4 DEF TypeOK

LEMMA ClockKeeps ==
    ASSUME IInv, NEW cs \in Sends, NEW arrived \in BOOLEAN, NEW read \in BOOLEAN,
           Clock(cs, arrived, read)
    PROVE  IInv'
<1>1. TypeOK /\ Shake /\ Link(cs, arrived, read) /\ SendByte /\ todo' = todo \o cs
  BY DEF IInv, Shake, Clock
<1>2. todo' \in Seq(Commands)
  <2>1. todo \in Seq(Commands) /\ cs \in Seq(Commands)
    BY <1>1, NewType DEF TypeOK
  <2> QED
    BY <1>1, <2>1
<1>3. TypeOK'
  BY <1>1, <1>2, SendByteType, MachineStep, EdgeType
<1>4. Shake'
  BY <1>1, ClockShakes
<1>5. Collected' /\ Driven'
  BY MachineStep
<1> QED
  BY <1>3, <1>4, <1>5 DEF IInv, Shake

LEMMA ClockEndKeeps ==
    ASSUME IInv, NEW cs \in Sends, NEW arrived \in BOOLEAN, NEW read \in BOOLEAN,
           ClockEnd(cs, arrived, read)
    PROVE  IInv'
<1>1. TypeOK /\ Shake /\ Link(cs, arrived, read) /\ todo' = Tail(todo) \o cs
  BY DEF IInv, Shake, ClockEnd
<1>2. PICK hrdata \in ReadData, err \in BOOLEAN :
        TransferEnds(hrdata, err) /\ Respond(hrdata, err)
  BY DEF ClockEnd
<1>3. state = "DATA" /\ state' = "IDLE" /\ UNCHANGED <<cmd, icnt, dati, addr, ahb>>
  BY <1>2 DEF TransferEnds
<1>4. todo' \in Seq(Commands) /\ Collected'
  BY <1>1, <1>3, EndStep
<1>5. TypeOK'
  BY <1>1, <1>2, <1>3, <1>4, RespondType, EdgeType DEF TypeOK, ahb
<1>6. Shake'
  BY <1>1, ClockEndShakes
<1>7. Driven'
  BY <1>3 DEF Driven
<1> QED
  BY <1>4, <1>5, <1>6, <1>7 DEF IInv, Shake

LEMMA Inductive == IInv /\ [Next]_vars => IInv'
<1> SUFFICES ASSUME IInv, [Next]_vars PROVE IInv'
  OBVIOUS
<1>1. CASE Next
  <2>1. PICK arrived \in BOOLEAN, read \in BOOLEAN, cs \in Sends :
          Clock(cs, arrived, read) \/ ClockEnd(cs, arrived, read)
    BY <1>1 DEF Next, Edge
  <2> QED
    BY <2>1, ClockKeeps, ClockEndKeeps
<1>2. CASE UNCHANGED vars
  <2>1. /\ UNCHANGED <<host, RDDATA, dvalid, cmd, icnt, dati, state, addr>>
        /\ UNCHANGED <<HWRITE, HTRANS, HSIZE, HADDR, HWDATA, WRDATA, dato, ocnt, resp, todo>>
    BY <1>2 DEF vars, input, regs, ahb, output
  <2>2. TypeOK' /\ NoByteMissed' /\ AnswerSafe' /\ (state' # "IDLE" => icnt' = 0 /\ ocnt' = 0)
    BY <2>1 DEF IInv, TypeOK, NoByteMissed, AnswerSafe
  <2>3. Collected'
    <3>1. Input' = Input
      BY <2>1 DEF Input
    <3> QED
      BY <2>1, <3>1 DEF IInv, Collected
  <2>4. Driven'
    <3>1. Lanes' = Lanes
      BY <2>1 DEF Lanes
    <3> QED
      BY <2>1, <3>1 DEF IInv, Driven
  <2> QED
    BY <2>2, <2>3, <2>4 DEF IInv
<1> QED
  BY <1>1, <1>2

\* IInv holds, for every bus and every host.
THEOREM Invariance == Spec => []IInv
  BY Initially, Inductive, PTL DEF Spec

\* No byte taken from the host FIFO passes by unseen.
THEOREM EveryByteSeen == Spec => []NoByteMissed
<1>1. IInv => NoByteMissed
  BY DEF IInv
<1> QED
  BY Invariance, <1>1, PTL

\* No answer is overwritten: one command at a time.
THEOREM OneAtATime == Spec => []AnswerSafe
<1>1. IInv => AnswerSafe
  BY DEF IInv
<1> QED
  BY Invariance, <1>1, PTL

-----------------------------------------------------------------------------
(* The answers.                                                            *)

\* n bytes of an answer: w, and the data behind it.
AnswerBytes(n, w, d) == IF n = 0 THEN <<>> ELSE <<w>> \o [k \in 1..(n - 1) |-> [data |-> d[k]]]

LEMMA PendingType ==
    ASSUME NEW n \in 0..5, NEW w \in AnswerItem, NEW d \in [1..4 -> Byte]
    PROVE  /\ AnswerBytes(n, w, d) \in Seq(AnswerItem) /\ Len(AnswerBytes(n, w, d)) = n
           /\ n > 0 => AnswerBytes(n, w, d)[1] = w
           /\ \A k \in 1..(n - 1) : AnswerBytes(n, w, d)[k + 1] = [data |-> d[k]]
<1>1. CASE n = 0
  BY <1>1 DEF AnswerBytes
<1>2. CASE n # 0
  <2> DEFINE f == [k \in 1..(n - 1) |-> [data |-> d[k]]]
  <2>1. f \in [1..(n - 1) -> AnswerItem]
    <3>1. \A k \in 1..(n - 1) : d[k] \in Byte
      OBVIOUS
    <3> QED
      BY <3>1 DEF AnswerItem
  <2>2. AnswerBytes(n, w, d) = <<w>> \o f
    BY <1>2 DEF AnswerBytes
  <2>3. \A k \in 1..(n - 1) : f[k] = [data |-> d[k]]
    OBVIOUS
  <2> HIDE DEF f
  <2>4. n - 1 \in Nat
    BY <1>2
  <2>5. f \in Seq(AnswerItem) /\ Len(f) = n - 1
    BY <2>1, <2>4, Tuple
  <2>6. /\ <<w>> \o f \in Seq(AnswerItem) /\ Len(<<w>> \o f) = 1 + (n - 1)
        /\ (<<w>> \o f)[1] = w
        /\ \A k \in 1..(n - 1) : (<<w>> \o f)[k + 1] = f[k]
    BY <2>4, <2>5
  <2>7. 1 + (n - 1) = n
    OBVIOUS
  <2> QED
    BY <2>2, <2>3, <2>6, <2>7
<1> QED
  BY <1>1, <1>2

LEMMA PendingBytes ==
    Pending = AnswerBytes(ocnt, WRDATA, dato) /\ Pending' = AnswerBytes(ocnt', WRDATA', dato')
  BY DEF Pending, AnswerBytes

\* A byte that goes into the response FIFO stays in the answers.
LEMMA PendingSend ==
    ASSUME TypeOK, SendByte
    PROVE  (IF WREN THEN <<WRDATA>> ELSE <<>>) \o Pending' = Pending
<1>1. ocnt \in 0..5 /\ WRDATA \in AnswerItem /\ dato \in [1..4 -> Byte]
  BY DEF TypeOK
<1>2. ocnt' \in 0..5 /\ WRDATA' \in AnswerItem /\ dato' \in [1..4 -> Byte]
  BY SendByteType
<1>3. /\ Pending \in Seq(AnswerItem) /\ Len(Pending) = ocnt
      /\ ocnt > 0 => Pending[1] = WRDATA
      /\ \A k \in 1..(ocnt - 1) : Pending[k + 1] = [data |-> dato[k]]
  BY <1>1, PendingType, PendingBytes
<1>4. /\ Pending' \in Seq(AnswerItem) /\ Len(Pending') = ocnt'
      /\ ocnt' > 0 => Pending'[1] = WRDATA'
      /\ \A k \in 1..(ocnt' - 1) : Pending'[k + 1] = [data |-> dato'[k]]
  BY <1>2, PendingType, PendingBytes
<1>5. CASE WREN
  <2>1. /\ ocnt # 0 /\ ocnt' = ocnt - 1 /\ WRDATA' = [data |-> dato[1]]
        /\ \A k \in 1..3 : dato'[k] = dato[k + 1]
    BY <1>5 DEF SendByte, WREN, Shifted
  <2> DEFINE p == Pending'
             r == <<WRDATA>> \o p
  <2>2. /\ r \in Seq(AnswerItem) /\ Len(r) = 1 + ocnt' /\ r[1] = WRDATA
        /\ \A k \in 1..ocnt' : r[k + 1] = p[k]
    <3> HIDE DEF p
    <3> QED
      BY <1>1, <1>4 DEF p
  <2> HIDE DEF p, r
  <2>3. Len(r) = Len(Pending)
    BY <1>1, <1>3, <2>1, <2>2
  <2>4. \A j \in 1..Len(r) : r[j] = Pending[j]
    <3> TAKE j \in 1..Len(r)
    <3>1. CASE j = 1
      BY <1>1, <1>3, <2>1, <2>2, <3>1
    <3>2. CASE j = 2
      <4>1. 1 \in 1..ocnt' /\ 1 \in 1..(ocnt - 1) /\ ocnt' > 0
        BY <1>1, <2>1, <2>2, <3>2
      <4> QED
        BY <1>3, <1>4, <2>1, <2>2, <3>2, <4>1 DEF p
    <3>3. CASE j > 2
      <4>1. /\ j - 1 \in 1..ocnt' /\ j - 1 \in 1..(ocnt - 1) /\ j - 2 \in 1..(ocnt' - 1)
            /\ j - 2 \in 1..3 /\ (j - 1) + 1 = j /\ (j - 2) + 1 = j - 1
        BY <1>1, <2>1, <2>2, <3>3
      <4>2. r[j] = p[j - 1]
        BY <2>2, <4>1
      <4>3. p[j - 1] = [data |-> dato'[j - 2]]
        BY <1>4, <4>1 DEF p
      <4>4. Pending[j] = [data |-> dato[j - 1]]
        BY <1>3, <4>1
      <4> QED
        BY <2>1, <4>1, <4>2, <4>3, <4>4
    <3> QED
      BY <2>2, <3>1, <3>2, <3>3, <1>2
  <2>5. r = Pending
    BY <1>3, <2>2, <2>3, <2>4, SeqEqual
  <2> QED
    BY <1>5, <2>5 DEF p, r
<1>6. CASE ~WREN
  <2>1. Pending' = Pending
    BY <1>6 DEF SendByte, Pending
  <2>2. <<>> \o Pending = Pending
    BY <1>3
  <2> QED
    BY <1>6, <2>1, <2>2
<1> QED
  BY <1>5, <1>6

LEMMA ReplyNow ==
    ASSUME TypeOK
    PROVE  /\ resp \in Seq(AnswerItem) /\ Pending \in Seq(AnswerItem)
           /\ resp # <<>> => Reply # <<>> /\ Tail(Reply) = Tail(resp) \o Pending
<1>1. resp \in Seq(AnswerItem) /\ Pending \in Seq(AnswerItem)
  BY PendingType, PendingBytes DEF TypeOK
<1>2. ASSUME resp # <<>> PROVE Reply # <<>> /\ Tail(Reply) = Tail(resp) \o Pending
  BY <1>1, <1>2 DEF Reply
<1> QED
  BY <1>1, <1>2

LEMMA ReplySend ==
    ASSUME TypeOK, NEW cs, NEW arrived, NEW read \in BOOLEAN, Link(cs, arrived, read), SendByte
    PROVE  Reply' = (IF read THEN Tail(Reply) ELSE Reply) \o <<>>
<1> DEFINE a == IF read THEN Tail(resp) ELSE resp
           b == IF WREN THEN <<WRDATA>> ELSE <<>>
<1>1. (read => resp # <<>>) /\ resp' = a \o b
  BY DEF Link
<1>2. resp \in Seq(AnswerItem) /\ Pending \in Seq(AnswerItem) /\ WRDATA \in AnswerItem
  BY ReplyNow DEF TypeOK
<1>3. a \in Seq(AnswerItem) /\ b \in Seq(AnswerItem)
  BY <1>1, <1>2
<1>4. b \o Pending' = Pending
  BY PendingSend
<1>5. Pending' \in Seq(AnswerItem)
  <2>1. ocnt' \in 0..5 /\ WRDATA' \in AnswerItem /\ dato' \in [1..4 -> Byte]
    BY SendByteType
  <2> QED
    BY <2>1, PendingType, PendingBytes
<1>6. a \o Pending = IF read THEN Tail(Reply) ELSE Reply
  BY <1>1, ReplyNow DEF Reply
<1>7. Reply' = (a \o b) \o Pending'
  BY <1>1 DEF Reply
<1> HIDE DEF a, b
<1>8. (a \o b) \o Pending' = a \o (b \o Pending')
  BY <1>3, <1>5, ConcatAssociative
<1>9. a \o Pending \in Seq(AnswerItem)
  BY <1>2, <1>3
<1>10. (a \o Pending) \o <<>> = a \o Pending
  BY <1>9, ConcatEmptySeq
<1> QED
  BY <1>4, <1>6, <1>7, <1>8, <1>10

\* The answer to a transfer that ends.
LEMMA PendingEnd ==
    ASSUME TypeOK, NEW hrdata \in ReadData, NEW err \in BOOLEAN, Respond(hrdata, err),
           NEW c \in Commands, HWRITE = c.write, cmd.size = c.size
    PROVE  Pending' = Commander!Answer(c, Value(Lane(hrdata, HADDR, cmd.size)), err)
<1> DEFINE n == 2^cmd.size
           ds == Lane(hrdata, HADDR, cmd.size)
           v == Value(ds)
<1>1. Pending' = AnswerBytes(ocnt', WRDATA', dato')
  BY PendingBytes
<1>2. CASE err \/ HWRITE
  <2>1. WRDATA' = [cnt |-> 0, err |-> err] /\ ocnt' = 1
    BY <1>2 DEF Respond
  <2> DEFINE f == [k \in 1..0 |-> [data |-> dato'[k]]]
  <2>2. Pending' = <<WRDATA'>> \o f
    BY <1>1, <2>1 DEF AnswerBytes
  <2>3. f = <<>>
    OBVIOUS
  <2>4. Pending' = <<[cnt |-> 0, err |-> err]>>
    <3>1. <<WRDATA'>> \o <<>> = <<WRDATA'>>
      OBVIOUS
    <3> QED
      BY <2>1, <2>2, <2>3, <3>1
  <2> QED
    BY <1>2, <2>4 DEF Commander!Answer, Commander!Status
<1>3. CASE ~(err \/ HWRITE)
  <2>1. cmd.size \in 0..2 /\ HADDR \in Nat /\ hrdata \in [1..4 -> Byte]
    BY ReadAssumption, Products DEF TypeOK
  <2>2. n \in {1, 2, 4} /\ ds \in [1..n -> Byte]
    BY <2>1, Sizes, LaneType
  <2>3. /\ WRDATA' = [cnt |-> cmd.size + 1, err |-> FALSE] /\ ocnt' = n + 1
        /\ dato' = [k \in 1..4 |-> IF k <= n THEN ds[k] ELSE Shifted[k]]
    BY <1>3 DEF Respond
  <2>4. WRDATA' = Commander!ReadHeader(c.size)
    <3>1. cmd.size = 0 \/ cmd.size = 1 \/ cmd.size = 2
      BY <2>1
    <3>2. /\ Commander!CountOf[1] = 1 /\ Commander!CountOf[2] = 2
          /\ Commander!CountOf[3] = 3
      BY DEF Commander!CountOf
    <3>3. Commander!CountOf[cmd.size + 1] = cmd.size + 1
      BY <3>1, <3>2
    <3> QED
      BY <2>3, <3>3 DEF Commander!ReadHeader
  <2> HIDE DEF n, ds
  <2>5. \A k \in 1..n : dato'[k] = ds[k]
    <3> TAKE k \in 1..n
    <3>1. k \in 1..4 /\ k <= n
      BY <2>2
    <3> QED
      BY <2>3, <3>1
  <2>6. \A k \in 1..n : (v \div Power[n - k + 1]) % B = ds[k]
    BY <2>2, ValueDigits
  <2> DEFINE f == [k \in 1..(ocnt' - 1) |-> [data |-> dato'[k]]]
             g == [k \in 1..n |-> [data |-> (v \div Power[n - k + 1]) % B]]
  <2>7. f = g
    <3>1. ocnt' - 1 = n
      BY <2>2, <2>3
    <3> QED
      BY <2>5, <2>6, <3>1
  <2>8. Pending' = <<WRDATA'>> \o g
    <3>1. ocnt' # 0
      BY <2>2, <2>3
    <3>2. Pending' = <<WRDATA'>> \o f
      BY <1>1, <3>1 DEF AnswerBytes
    <3> QED
      BY <2>7, <3>2
  <2>9. Commander!DataBytes(v, c.size) = g
    <3>1. Commander!Power = Power
      BY DEF Commander!Power, Commander!AddrSpace, Power, AddrSpace
    <3> HIDE DEF v
    <3> QED
      BY <3>1 DEF Commander!DataBytes, n
  <2>10. Commander!Answer(c, v, err) = <<Commander!ReadHeader(c.size)>> \o Commander!DataBytes(v, c.size)
    BY <1>3 DEF Commander!Answer
  <2> QED
    BY <2>4, <2>8, <2>9, <2>10 DEF ds
<1> QED
  BY <1>2, <1>3

LEMMA ReplyEnd ==
    ASSUME TypeOK, ocnt = 0, NEW cs, NEW arrived, NEW read \in BOOLEAN,
           Link(cs, arrived, read)
    PROVE  Reply' = (IF read THEN Tail(Reply) ELSE Reply) \o Pending'
<1>1. resp \in Seq(AnswerItem) /\ (read => resp # <<>>)
  BY DEF TypeOK, Link
<1>2. Reply = resp
  <2>1. resp \o <<>> = resp
    BY <1>1
  <2> QED
    BY <2>1 DEF Reply, Pending
<1>3. resp' = (IF read THEN Tail(resp) ELSE resp) \o <<>>
  BY DEF Link, WREN
<1>4. resp' = IF read THEN Tail(resp) ELSE resp
  BY <1>1, <1>3
<1> QED
  BY <1>2, <1>4 DEF Reply

-----------------------------------------------------------------------------
(* The bridge carries out what the host asks for.                          *)

LEMMA ReadsAnswer ==
    ASSUME TypeOK, NEW cs, NEW arrived, NEW read \in BOOLEAN, Link(cs, arrived, read)
    PROVE  read => Reply # <<>>
  BY ReplyNow DEF Link

\* The edge at which the address phase starts issues the first command.
LEMMA StartIssues ==
    ASSUME IInv, NEW cs \in Sends, NEW arrived \in BOOLEAN, NEW read \in BOOLEAN,
           Clock(cs, arrived, read), StartAddr
    PROVE  Commander!Issue(cs, read)
<1>1. TypeOK /\ Link(cs, arrived, read) /\ SendByte /\ todo' = todo \o cs /\ todo \in Seq(Commands)
  BY DEF IInv, TypeOK, Clock
<1>2. state = "ADDR" /\ state' = "WAIT" /\ addr' = Address /\ bus' = bus
  BY DEF StartAddr
<1>3. icnt = 0 /\ Mid(cmd, icnt, dati, Input, todo)
  BY <1>2, CollectedMid DEF IInv
<1>4. /\ todo # <<>>
      /\ Address = IF todo[1].auto THEN (addr + 2^todo[1].size) % AddrSpace ELSE todo[1].addr
  BY <1>1, <1>3, PayloadUsed
<1>5. addr' = Commander!Target(Head(todo))
  <2>1. Head(todo) = todo[1]
    BY <1>1, <1>4
  <2> QED
    BY <1>2, <1>4, <2>1 DEF Commander!Target, Commander!AddrSpace, AddrSpace
<1>6. Reply' = (IF read THEN Tail(Reply) ELSE Reply) \o <<>>
  BY <1>1, ReplySend
<1> QED
  BY <1>1, <1>2, <1>4, <1>5, <1>6 DEF Commander!Issue, Commander!Send, Commander!Read

\* The other edges at which no transfer ends move bytes.
LEMMA OthersIdle ==
    ASSUME IInv, NEW cs \in Sends, NEW arrived \in BOOLEAN, NEW read \in BOOLEAN,
           Clock(cs, arrived, read), Collect \/ Idle \/ LatchAddr \/ WaitReady
    PROVE  Commander!Idle(cs, read)
<1>1. TypeOK /\ Link(cs, arrived, read) /\ SendByte /\ todo' = todo \o cs
  BY DEF IInv, Clock
<1>2. /\ bus' = bus /\ addr' = addr
      /\ state' \in {"WAIT", "DATA"} <=> state \in {"WAIT", "DATA"}
  BY DEF Collect, Idle, LatchAddr, WaitReady, regs
<1>3. Reply' = (IF read THEN Tail(Reply) ELSE Reply) \o <<>>
  BY <1>1, ReplySend
<1>4. (state \in {"WAIT", "DATA"})' = (state \in {"WAIT", "DATA"})
  BY <1>2
<1> QED
  BY <1>1, <1>2, <1>3, <1>4 DEF Commander!Idle, Commander!Send, Commander!Read

\* The edge at which the transfer ends completes the first command.
LEMMA EndCompletes ==
    ASSUME IInv, NEW cs \in Sends, NEW arrived \in BOOLEAN, NEW read \in BOOLEAN,
           ClockEnd(cs, arrived, read)
    PROVE  \E v \in Commander!Values, err \in BOOLEAN : Commander!Complete(cs, read, v, err)
<1>1. TypeOK /\ Driven /\ Link(cs, arrived, read) /\ todo' = Tail(todo) \o cs
        /\ todo \in Seq(Commands)
  BY DEF IInv, TypeOK, ClockEnd
<1>2. PICK hrdata \in ReadData, err \in BOOLEAN :
        TransferEnds(hrdata, err) /\ Respond(hrdata, err)
  BY DEF ClockEnd
<1>3. /\ state = "DATA" /\ state' = "IDLE" /\ addr' = addr
      /\ bus' = [write |-> HWRITE, addr |-> HADDR, size |-> HSIZE, err |-> err,
                 data |-> Value(Lane(IF HWRITE THEN HWDATA ELSE hrdata, HADDR, HSIZE))]
  BY <1>2 DEF TransferEnds
<1>4. icnt = 0 /\ ocnt = 0 /\ Mid(cmd, icnt, dati, Input, todo)
  BY <1>3, CollectedMid DEF IInv
<1> DEFINE c == todo[1]
           v == Value(Lane(hrdata, HADDR, cmd.size))
<1>5. /\ todo # <<>> /\ c \in Commands
      /\ cmd.write = c.write /\ cmd.size = c.size
      /\ cmd.write => \A a \in Nat : Value(Lane(Lanes, a, cmd.size)) = c.data
  BY <1>1, <1>4, PayloadUsed
<1>6. /\ HWRITE = c.write /\ HSIZE = c.size /\ HADDR = addr /\ HADDR \in Nat
      /\ HWRITE => HWDATA = Lanes
  BY <1>1, <1>3, <1>5, Products DEF Driven, TypeOK
<1>7. Head(todo) = c
  BY <1>1, <1>5
<1> HIDE DEF c
<1>8. v \in Commander!Values
  <2> DEFINE n == 2^cmd.size
             ds == Lane(hrdata, HADDR, cmd.size)
  <2>1. n \in {1, 2, 4} /\ ds \in [1..n -> Byte]
    <3>1. cmd.size \in 0..2 /\ hrdata \in [1..4 -> Byte]
      BY <1>1, ReadAssumption DEF TypeOK
    <3> QED
      BY <1>6, <3>1, Sizes, LaneType
  <2> HIDE DEF n, ds
  <2>2. Value(ds) \in 0..(Power[n + 1] - 1)
    BY <2>1, ValueDigits
  <2>3. Commander!Power = Power
    BY DEF Commander!Power, Commander!AddrSpace, Power, AddrSpace
  <2>4. v \in 0..(Power[2^c.size + 1] - 1)
    BY <1>5, <2>2 DEF n, ds
  <2> HIDE DEF v
  <2> QED
    BY <1>5, <1>7, <2>3, <2>4, Zenon DEF Commander!Values
<1>9. bus' = [write |-> c.write, addr |-> addr, size |-> c.size,
              data |-> IF c.write THEN c.data ELSE v, err |-> err]
  <2>1. CASE c.write
    BY <1>3, <1>5, <1>6, <2>1
  <2>2. CASE ~c.write
    BY <1>3, <1>5, <1>6, <2>2
  <2> QED
    BY <2>1, <2>2
<1>10. Pending' = Commander!Answer(c, v, err)
  BY <1>1, <1>2, <1>5, <1>6, PendingEnd
<1>11. Reply' = (IF read THEN Tail(Reply) ELSE Reply) \o Pending'
  BY <1>1, <1>4, ReplyEnd
<1> HIDE DEF v
<1>12. Commander!Complete(cs, read, v, err)
  <2>1. state \in {"WAIT", "DATA"} /\ (state' \in {"WAIT", "DATA"}) = FALSE
    BY <1>3
  <2>2. Commander!Read(read, Commander!Answer(c, v, err))
    BY <1>10, <1>11 DEF Commander!Read
  <2> QED
    BY <1>1, <1>3, <1>7, <1>9, <2>1, <2>2 DEF Commander!Complete
<1> QED
  BY <1>8, <1>12

\* Every step of the bus master is a step of the bridge the host relies on.
LEMMA StepCarriesOut == IInv /\ [Next]_vars => [Commander!Next]_(Commander!vars)
<1> SUFFICES ASSUME IInv, [Next]_vars PROVE [Commander!Next]_(Commander!vars)
  OBVIOUS
<1>1. CASE Next
  <2>1. PICK arrived \in BOOLEAN, read \in BOOLEAN, cs \in Sends :
          Clock(cs, arrived, read) \/ ClockEnd(cs, arrived, read)
    BY <1>1 DEF Next, Edge
  <2>2. cs \in {<<>>} \cup {<<c>> : c \in Commands}
    BY DEF Sends
  <2>3. read => Reply # <<>>
    BY <2>1, ReadsAnswer DEF IInv, Clock, ClockEnd
  <2>4. \/ Commander!Issue(cs, read) \/ Commander!Idle(cs, read)
        \/ \E v \in Commander!Values, err \in BOOLEAN : Commander!Complete(cs, read, v, err)
    <3>1. CASE Clock(cs, arrived, read)
      <4>1. StartAddr \/ (Collect \/ Idle \/ LatchAddr \/ WaitReady)
        BY <3>1 DEF Clock
      <4> QED
        BY <3>1, <4>1, StartIssues, OthersIdle
    <3>2. CASE ClockEnd(cs, arrived, read)
      BY <3>2, EndCompletes
    <3> QED
      BY <2>1, <3>1, <3>2
  <2>5. Commander!Next
    BY <2>2, <2>3, <2>4 DEF Commander!Next
  <2> QED
    BY <2>5
<1>2. CASE UNCHANGED vars
  BY <1>2 DEF vars, input, regs, ahb, output, Commander!vars, Reply, Pending
<1> QED
  BY <1>1, <1>2

\* The bus master keeps the promise of BusCommander, for every byte size, set of
\* commands, bus and response FIFO: the commands are carried out in the order in
\* which they were sent, each by one transfer at its address, and each is
\* answered by one packet that tells what that transfer did.
THEOREM CarryingOut == Spec => CarriesOut
<1>1. Init => Commander!Init
  BY DEF Init, Commander!Init, Reply, Pending
<1> QED
  BY <1>1, Invariance, StepCarriesOut, PTL DEF Spec, CarriesOut, Commander!Spec
=============================================================================
