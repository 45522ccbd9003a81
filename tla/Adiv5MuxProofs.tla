--------------------------- MODULE Adiv5MuxProofs ---------------------------
(***************************************************************************)
(* Proofs about Adiv5Mux: whichever interface is selected, controller and  *)
(* target stay in step while nothing disturbs it, and the commands are     *)
(* served in order, always.                                                *)
(***************************************************************************)
EXTENDS Adiv5Mux, SequenceTheorems, TLAPS

Reqs == [ap : BOOLEAN, rd : BOOLEAN, addr : 0..3, sw : BOOLEAN]

-----------------------------------------------------------------------------
(* Sequences, as the proofs below use them.                                *)

LEMMA AppendFacts ==
    ASSUME NEW S, NEW q \in Seq(S), NEW c \in S
    PROVE  /\ Append(q, c) \in Seq(S) /\ Append(q, c) # <<>>
           /\ Len(Append(q, c)) = Len(q) + 1
           /\ \A i \in 1..Len(q) : Append(q, c)[i] = q[i]
           /\ Append(q, c)[Len(q) + 1] = c
OBVIOUS

LEMMA TailFacts ==
    ASSUME NEW S, NEW q \in Seq(S), q # <<>>
    PROVE  /\ Head(q) \in S /\ Head(q) = q[1]
           /\ Tail(q) \in Seq(S)
           /\ Len(q) \in Nat \ {0} /\ Len(Tail(q)) = Len(q) - 1
           /\ \A i \in 1..Len(q) - 1 : Tail(q)[i] = q[i + 1]
OBVIOUS

LEMMA EmptyFacts ==
    ASSUME NEW S, NEW q \in Seq(S)
    PROVE  /\ q = <<>> <=> Len(q) = 0
           /\ Len(q) \in Nat /\ DOMAIN q = 1..Len(q)
           /\ \A i \in 1..Len(q) : q[i] \in S
OBVIOUS

LEMMA TailAppend ==
    ASSUME NEW S, NEW q \in Seq(S), NEW c \in S, q # <<>>
    PROVE  Tail(Append(q, c)) = Append(Tail(q), c) /\ Head(Append(q, c)) = Head(q)
<1>1. Append(q, c) \in Seq(S) /\ Append(q, c) # <<>>
    BY AppendFacts
<1>2. Tail(Append(q, c)) \in Seq(S) /\ Append(Tail(q), c) \in Seq(S)
    BY <1>1, TailFacts, AppendFacts
<1>3. Len(Tail(Append(q, c))) = Len(q) /\ Len(Append(Tail(q), c)) = Len(q)
    BY <1>1, TailFacts, AppendFacts, EmptyFacts
<1>4. ASSUME NEW i \in 1..Len(q)
      PROVE  Tail(Append(q, c))[i] = Append(Tail(q), c)[i]
    OBVIOUS
<1>5. Tail(Append(q, c)) = Append(Tail(q), c)
    BY <1>2, <1>3, <1>4, SeqEqual
<1> QED
    BY <1>5

-----------------------------------------------------------------------------
(* The count of the answers owed.                                          *)

LEMMA CountBounds ==
    ASSUME NEW q \in Seq(Reqs), NEW n, NEW p, Counted(q, n, p)
    PROVE  n \in 0..Depth /\ p \in 0..Depth /\ n <= p
<1>1. PICK owed \in [0..Len(q) -> 0..Depth] :
        /\ owed[0] = n /\ owed[Len(q)] = p
        /\ \A i, j \in 0..Len(q) : i <= j => owed[i] <= owed[j]
    BY DEF Counted
<1>2. Len(q) \in Nat /\ 0 \in 0..Len(q) /\ Len(q) \in 0..Len(q)
    OBVIOUS
<1> QED
    BY <1>1, <1>2

LEMMA CountEmpty == Counted(<<>>, 0, 0)
<1> DEFINE owed == [i \in 0..0 |-> 0]
<1>1. owed \in [0..0 -> 0..Depth] /\ owed[0] = 0
    BY DepthAssumption
<1>2. \A i, j \in 0..0 : i <= j => owed[i] <= owed[j]
    OBVIOUS
<1> HIDE DEF owed
<1>3. Len(<<>>) = 0 /\ 1..0 = {}
    OBVIOUS
<1> QED
    BY <1>1, <1>2, <1>3 DEF Counted

LEMMA CountAppend ==
    ASSUME NEW q \in Seq(Reqs), NEW r \in Reqs, NEW n, NEW p, Counted(q, n, p), p < Depth
    PROVE  Counted(Append(q, r), n, IF Jtag!IsLine(r) THEN p ELSE p + 1)
<1>1. PICK owed \in [0..Len(q) -> 0..Depth] :
        /\ owed[0] = n /\ owed[Len(q)] = p
        /\ \A i \in 1..Len(q) :
              owed[i] = owed[i - 1] + (IF Jtag!IsLine(q[i]) THEN 0 ELSE 1)
        /\ \A i, j \in 0..Len(q) : i <= j => owed[i] <= owed[j]
    BY DEF Counted
<1> DEFINE k == IF Jtag!IsLine(r) THEN p ELSE p + 1
           more == [i \in 0..Len(q) + 1 |-> IF i = Len(q) + 1 THEN k ELSE owed[i]]
<1>2. Len(q) \in Nat /\ p \in 0..Depth /\ Depth \in Nat
    BY <1>1, DepthAssumption, CountBounds
<1>3. k \in 0..Depth /\ p <= k /\ k = p + (IF Jtag!IsLine(r) THEN 0 ELSE 1)
    BY <1>2
<1> HIDE DEF k
<1>4. more \in [0..Len(q) + 1 -> 0..Depth]
    BY <1>1, <1>2, <1>3
<1>5. more[Len(q) + 1] = k /\ \A i \in 0..Len(q) : more[i] = owed[i]
    BY <1>2
<1> HIDE DEF more
<1>6. /\ Len(Append(q, r)) = Len(q) + 1 /\ Append(q, r)[Len(q) + 1] = r
      /\ \A i \in 1..Len(q) : Append(q, r)[i] = q[i]
    BY AppendFacts
<1>7. more[0] = n /\ more[Len(q) + 1] = k
    BY <1>1, <1>2, <1>5
<1>8. ASSUME NEW i \in 1..Len(q) + 1
      PROVE  more[i] = more[i - 1] + (IF Jtag!IsLine(Append(q, r)[i]) THEN 0 ELSE 1)
  <2>1. CASE i = Len(q) + 1
    <3>1. more[i - 1] = p
        BY <1>1, <1>2, <1>5, <2>1
    <3> QED
        BY <1>3, <1>5, <1>6, <2>1, <3>1
  <2>2. CASE i # Len(q) + 1
    <3>1. i \in 1..Len(q) /\ i \in 0..Len(q) /\ i - 1 \in 0..Len(q)
        BY <1>2, <2>2
    <3> QED
        BY <1>1, <1>5, <1>6, <3>1
  <2> QED
      BY <2>1, <2>2
<1>9. ASSUME NEW i \in 0..Len(q) + 1, NEW j \in 0..Len(q) + 1, i <= j
      PROVE  more[i] <= more[j]
  <2>1. CASE i = Len(q) + 1
      BY <1>2, <1>3, <1>5, <1>9, <2>1
  <2>2. CASE i # Len(q) + 1 /\ j = Len(q) + 1
    <3>1. i \in 0..Len(q) /\ Len(q) \in 0..Len(q) /\ i <= Len(q)
        BY <1>2, <2>2
    <3>2. owed[i] <= p /\ owed[i] \in 0..Depth
        BY <1>1, <3>1
    <3> QED
        BY <1>2, <1>3, <1>5, <2>2, <3>1, <3>2
  <2>3. CASE i # Len(q) + 1 /\ j # Len(q) + 1
    <3>1. i \in 0..Len(q) /\ j \in 0..Len(q)
        BY <1>2, <2>3
    <3> QED
        BY <1>1, <1>5, <1>9, <3>1
  <2> QED
      BY <2>1, <2>2, <2>3
<1> QED
    BY <1>4, <1>6, <1>7, <1>8, <1>9 DEF Counted, k

LEMMA CountTail ==
    ASSUME NEW q \in Seq(Reqs), NEW n, NEW p, q # <<>>, Counted(q, n, p)
    PROVE  Counted(Tail(q), n + (IF Jtag!IsLine(Head(q)) THEN 0 ELSE 1), p)
<1>1. PICK owed \in [0..Len(q) -> 0..Depth] :
        /\ owed[0] = n /\ owed[Len(q)] = p
        /\ \A i \in 1..Len(q) :
              owed[i] = owed[i - 1] + (IF Jtag!IsLine(q[i]) THEN 0 ELSE 1)
        /\ \A i, j \in 0..Len(q) : i <= j => owed[i] <= owed[j]
    BY DEF Counted
<1> DEFINE rest == [i \in 0..Len(q) - 1 |-> owed[i + 1]]
<1>2. /\ Len(q) \in Nat \ {0} /\ Len(Tail(q)) = Len(q) - 1 /\ Head(q) = q[1]
      /\ \A i \in 1..Len(q) - 1 : Tail(q)[i] = q[i + 1]
    BY TailFacts
<1>3. rest \in [0..Len(q) - 1 -> 0..Depth]
    BY <1>1, <1>2
<1>4. \A i \in 0..Len(q) - 1 : rest[i] = owed[i + 1]
    OBVIOUS
<1> HIDE DEF rest
<1>5. rest[0] = n + (IF Jtag!IsLine(Head(q)) THEN 0 ELSE 1) /\ rest[Len(q) - 1] = p
    BY <1>1, <1>2, <1>4
<1>6. ASSUME NEW i \in 1..Len(q) - 1
      PROVE  rest[i] = rest[i - 1] + (IF Jtag!IsLine(Tail(q)[i]) THEN 0 ELSE 1)
  <2>1. rest[i] = owed[i + 1] /\ rest[i - 1] = owed[i] /\ Tail(q)[i] = q[i + 1]
      BY <1>2, <1>4
  <2>2. i + 1 \in 1..Len(q) /\ (i + 1) - 1 = i
      BY <1>2
  <2> QED
      BY <1>1, <2>1, <2>2
<1>7. ASSUME NEW i \in 0..Len(q) - 1, NEW j \in 0..Len(q) - 1, i <= j
      PROVE  rest[i] <= rest[j]
  <2>1. i + 1 \in 0..Len(q) /\ j + 1 \in 0..Len(q) /\ i + 1 <= j + 1
      BY <1>2, <1>7
  <2> QED
      BY <1>1, <1>4, <2>1
<1> QED
    BY <1>2, <1>3, <1>5, <1>6, <1>7 DEF Counted

LEMMA CountRead ==
    ASSUME NEW q \in Seq(Reqs), NEW n \in Nat, NEW p, n > 0, Counted(q, n, p)
    PROVE  Counted(q, n - 1, p - 1)
<1>1. PICK owed \in [0..Len(q) -> 0..Depth] :
        /\ owed[0] = n /\ owed[Len(q)] = p
        /\ \A i \in 1..Len(q) :
              owed[i] = owed[i - 1] + (IF Jtag!IsLine(q[i]) THEN 0 ELSE 1)
        /\ \A i, j \in 0..Len(q) : i <= j => owed[i] <= owed[j]
    BY DEF Counted
<1> DEFINE less == [i \in 0..Len(q) |-> owed[i] - 1]
<1>2. Len(q) \in Nat /\ 0 \in 0..Len(q) /\ Len(q) \in 0..Len(q)
    OBVIOUS
<1>3. \A i \in 0..Len(q) : owed[i] \in 1..Depth
    BY <1>1, <1>2, DepthAssumption
<1>4. less \in [0..Len(q) -> 0..Depth]
    BY <1>3, DepthAssumption
<1>5. \A i \in 0..Len(q) : less[i] = owed[i] - 1
    OBVIOUS
<1> HIDE DEF less
<1>6. less[0] = n - 1 /\ less[Len(q)] = p - 1
    BY <1>1, <1>2, <1>5
<1>7. ASSUME NEW i \in 1..Len(q)
      PROVE  less[i] = less[i - 1] + (IF Jtag!IsLine(q[i]) THEN 0 ELSE 1)
  <2>1. i \in 0..Len(q) /\ i - 1 \in 0..Len(q)
      BY <1>2
  <2>2. owed[i] = owed[i - 1] + (IF Jtag!IsLine(q[i]) THEN 0 ELSE 1)
      BY <1>1
  <2> QED
      BY <1>3, <1>5, <2>1, <2>2
<1>8. ASSUME NEW i \in 0..Len(q), NEW j \in 0..Len(q), i <= j
      PROVE  less[i] <= less[j]
    BY <1>1, <1>3, <1>5, <1>8
<1> QED
    BY <1>4, <1>6, <1>7, <1>8 DEF Counted

-----------------------------------------------------------------------------
(* JTAG: the instruction behind the commands of a queue.                   *)

PhyCmds == [op : Jtag!Ops, want : Jtag!Instr]

\* The target's TAP behind a command, and whether it is disturbed.
TapBehind(c, t) ==
    CASE c.op \in {"RESET", "SWITCH"} -> "IDCODE"
      [] c.op = "IR_WRITE" -> c.want
      [] OTHER -> t
DisturbedBehind(c, d) ==
    CASE c.op \in {"RESET", "SWITCH"} -> TRUE
      [] c.op = "IR_WRITE" -> c.want = "ABORT"
      [] OTHER -> d

\* A command further back changes nothing for those before it.
LEMMA HoldsBefore ==
    ASSUME NEW q \in Seq(PhyCmds), NEW c \in PhyCmds, NEW t, NEW d, NEW w,
           NEW i \in 0..Len(q), Jtag!Holds(q, t, d, i, w)
    PROVE  Jtag!Holds(Append(q, c), t, d, i, w)
<1> DEFINE r == Append(q, c)
<1>1. Len(q) \in Nat /\ \A k \in 1..Len(q) : r[k] = q[k]
    BY AppendFacts, EmptyFacts
<1> HIDE DEF r
<1>2. ASSUME NEW j \in 0..i, Jtag!LastSetter(r, i, j)
      PROVE  w \in IF j = 0 THEN Jtag!Fine(t, d) ELSE Jtag!Sets(r[j])
  <2>1. \A k \in j + 1..i : r[k] = q[k]
      BY <1>1
  <2>2. j > 0 => r[j] = q[j]
      BY <1>1
  <2>3. Jtag!LastSetter(q, i, j)
      BY <1>2, <2>1, <2>2 DEF Jtag!LastSetter
  <2>4. w \in IF j = 0 THEN Jtag!Fine(t, d) ELSE Jtag!Sets(q[j])
      BY <2>3 DEF Jtag!Holds
  <2>5. j = 0 \/ j > 0
      OBVIOUS
  <2> QED
      BY <2>2, <2>4, <2>5
<1>3. Jtag!Holds(r, t, d, i, w)
    BY <1>2 DEF Jtag!Holds
<1> QED
    BY <1>3 DEF r

\* A command that does not set the instruction leaves what holds before it.
LEMMA HoldsBehind ==
    ASSUME NEW q \in Seq(PhyCmds), NEW c \in PhyCmds, NEW t, NEW d, NEW w,
           ~Jtag!Setter(c), Jtag!Holds(q, t, d, Len(q), w)
    PROVE  Jtag!Holds(Append(q, c), t, d, Len(q) + 1, w)
<1> DEFINE r == Append(q, c)
           n == Len(q)
<1>1. n \in Nat /\ r[n + 1] = c /\ \A k \in 1..n : r[k] = q[k]
    BY AppendFacts, EmptyFacts
<1> HIDE DEF r
<1>2. ASSUME NEW j \in 0..n + 1, Jtag!LastSetter(r, n + 1, j)
      PROVE  w \in IF j = 0 THEN Jtag!Fine(t, d) ELSE Jtag!Sets(r[j])
  <2>1. j \in 0..n
    <3>1. j # n + 1
        BY <1>1, <1>2 DEF Jtag!LastSetter
    <3> QED
        BY <1>1, <3>1
  <2>2. \A k \in j + 1..n : r[k] = q[k] /\ k \in j + 1..n + 1
      BY <1>1, <2>1
  <2>3. j > 0 => r[j] = q[j]
      BY <1>1, <2>1
  <2>4. Jtag!LastSetter(q, n, j)
      BY <1>2, <2>2, <2>3 DEF Jtag!LastSetter
  <2>5. w \in IF j = 0 THEN Jtag!Fine(t, d) ELSE Jtag!Sets(q[j])
      BY <2>1, <2>4 DEF Jtag!Holds
  <2>6. j = 0 \/ j > 0
      BY <2>1
  <2> QED
      BY <2>3, <2>5, <2>6
<1>3. Jtag!Holds(r, t, d, n + 1, w)
    BY <1>2 DEF Jtag!Holds
<1> QED
    BY <1>3 DEF r

\* Behind a command that sets the instruction, what it sets holds.
LEMMA HoldsSet ==
    ASSUME NEW q \in Seq(PhyCmds), NEW c \in PhyCmds, NEW t, NEW d, NEW w,
           Jtag!Setter(c), w \in Jtag!Sets(c)
    PROVE  Jtag!Holds(Append(q, c), t, d, Len(q) + 1, w)
<1> DEFINE r == Append(q, c)
           n == Len(q)
<1>1. n \in Nat /\ r[n + 1] = c
    BY AppendFacts, EmptyFacts
<1> HIDE DEF r
<1>2. ASSUME NEW j \in 0..n + 1, Jtag!LastSetter(r, n + 1, j)
      PROVE  w \in IF j = 0 THEN Jtag!Fine(t, d) ELSE Jtag!Sets(r[j])
  <2>1. j = n + 1
    <3>1. CASE j # n + 1
      <4>1. n + 1 \in j + 1..n + 1
          BY <1>1, <3>1
      <4> QED
          BY <1>1, <1>2, <4>1 DEF Jtag!LastSetter
    <3> QED
        BY <3>1
  <2>2. j # 0
      BY <1>1, <2>1
  <2> QED
      BY <1>1, <2>1, <2>2
<1>3. Jtag!Holds(r, t, d, n + 1, w)
    BY <1>2 DEF Jtag!Holds
<1> QED
    BY <1>3 DEF r

\* The PHY executing the first command keeps what holds behind it.
LEMMA HoldsTail ==
    ASSUME NEW q \in Seq(PhyCmds), NEW t, NEW d, NEW w, q # <<>>,
           NEW i \in 1..Len(q), Jtag!Holds(q, t, d, i, w), w \in Jtag!Instr
    PROVE  Jtag!Holds(Tail(q), TapBehind(Head(q), t), DisturbedBehind(Head(q), d), i - 1, w)
<1> DEFINE r == Tail(q)
           h == Head(q)
           u == TapBehind(h, t)
           e == DisturbedBehind(h, d)
<1>1. /\ Len(q) \in Nat \ {0} /\ h \in PhyCmds /\ q[1] = h
      /\ \A k \in 1..Len(q) - 1 : r[k] = q[k + 1]
    BY TailFacts
<1>2. Jtag!Setter(h) => Jtag!Sets(h) = Jtag!Fine(u, e)
  <2>1. CASE h.op \in {"RESET", "SWITCH"}
      BY <2>1 DEF Jtag!Sets, Jtag!Fine, DisturbedBehind
  <2>2. CASE h.op = "IR_WRITE"
      BY <2>2 DEF Jtag!Sets, Jtag!Fine, DisturbedBehind, TapBehind
  <2> QED
      BY <2>1, <2>2 DEF Jtag!Setter
<1>3. ~Jtag!Setter(h) => Jtag!Fine(t, d) = Jtag!Fine(u, e)
    BY DEF Jtag!Setter, TapBehind, DisturbedBehind
<1> HIDE DEF r, h, u, e
<1>4. ASSUME NEW j \in 0..i - 1, Jtag!LastSetter(r, i - 1, j)
      PROVE  w \in IF j = 0 THEN Jtag!Fine(u, e) ELSE Jtag!Sets(r[j])
  <2>1. ASSUME NEW k \in j + 2..i
        PROVE  ~Jtag!Setter(q[k])
    <3>1. k - 1 \in j + 1..i - 1 /\ k - 1 \in 1..Len(q) - 1 /\ (k - 1) + 1 = k
        BY <1>1, <2>1
    <3>2. r[k - 1] = q[k]
        BY <1>1, <3>1
    <3> QED
        BY <1>4, <3>1, <3>2 DEF Jtag!LastSetter
  <2>2. CASE j > 0
    <3>1. j \in 1..Len(q) - 1 /\ j + 1 \in 0..i /\ j + 1 > 0 /\ (j + 1) + 1 = j + 2
        BY <1>1, <2>2
    <3>2. r[j] = q[j + 1] /\ Jtag!Setter(r[j])
        BY <1>1, <1>4, <2>2, <3>1 DEF Jtag!LastSetter
    <3>3. Jtag!LastSetter(q, i, j + 1)
        BY <2>1, <3>1, <3>2 DEF Jtag!LastSetter
    <3>4. w \in IF j + 1 = 0 THEN Jtag!Fine(t, d) ELSE Jtag!Sets(q[j + 1])
        BY <3>1, <3>3 DEF Jtag!Holds
    <3> QED
        BY <2>2, <3>1, <3>2, <3>4
  <2>3. CASE j = 0 /\ Jtag!Setter(h)
    <3>1. Jtag!LastSetter(q, i, 1)
        BY <1>1, <2>1, <2>3 DEF Jtag!LastSetter
    <3>2. w \in Jtag!Sets(h)
        BY <1>1, <3>1 DEF Jtag!Holds
    <3> QED
        BY <1>2, <2>3, <3>2
  <2>4. CASE j = 0 /\ ~Jtag!Setter(h)
    <3>1. ASSUME NEW k \in 1..i
          PROVE  ~Jtag!Setter(q[k])
      <4>1. k = 1 \/ k \in j + 2..i
          BY <2>4
      <4> QED
          BY <1>1, <2>1, <2>4, <4>1
    <3>2. Jtag!LastSetter(q, i, 0)
        BY <3>1 DEF Jtag!LastSetter
    <3>3. w \in Jtag!Fine(t, d)
        BY <3>2 DEF Jtag!Holds
    <3> QED
        BY <1>3, <2>4, <3>3
  <2> QED
      BY <2>2, <2>3, <2>4
<1>5. Jtag!Holds(r, u, e, i - 1, w)
    BY <1>4 DEF Jtag!Holds
<1> QED
    BY <1>5 DEF r, u, e, h

\* Scans under way stay meant for the TAP as the PHY gets to them.
LEMMA ScansTail ==
    ASSUME NEW q \in Seq(PhyCmds), NEW t, NEW d, q # <<>>, Jtag!ScansMeant(q, t, d)
    PROVE  Jtag!ScansMeant(Tail(q), TapBehind(Head(q), t), DisturbedBehind(Head(q), d))
<1> DEFINE r == Tail(q)
           u == TapBehind(Head(q), t)
           e == DisturbedBehind(Head(q), d)
<1>1. /\ Len(q) \in Nat \ {0} /\ Len(r) = Len(q) - 1
      /\ \A k \in 1..Len(q) - 1 : r[k] = q[k + 1]
    BY TailFacts
<1>2. ASSUME NEW i \in 1..Len(r), r[i].op \in {"DR_WRITE", "DR_READ"}
      PROVE  Jtag!Holds(r, u, e, i - 1, r[i].want)
  <2>1. i + 1 \in 1..Len(q) /\ i \in 1..Len(q) /\ r[i] = q[i + 1] /\ (i + 1) - 1 = i
      BY <1>1
  <2>2. Jtag!Holds(q, t, d, i, q[i + 1].want)
      BY <1>2, <2>1 DEF Jtag!ScansMeant
  <2>3. q[i + 1] \in PhyCmds
      BY <2>1, EmptyFacts
  <2>4. q[i + 1].want \in Jtag!Instr
      BY <2>3 DEF PhyCmds
  <2> QED
      BY <2>1, <2>2, <2>4, HoldsTail
<1> QED
    BY <1>2 DEF Jtag!ScansMeant

\* A scan is added behind what its instruction holds behind, or no scan is.
LEMMA ScansAppend ==
    ASSUME NEW q \in Seq(PhyCmds), NEW c \in PhyCmds, NEW t, NEW d, Jtag!ScansMeant(q, t, d),
           c.op \in {"DR_WRITE", "DR_READ"} => Jtag!Holds(q, t, d, Len(q), c.want)
    PROVE  Jtag!ScansMeant(Append(q, c), t, d)
<1> DEFINE r == Append(q, c)
<1>1. /\ Len(q) \in Nat /\ Len(r) = Len(q) + 1 /\ r[Len(q) + 1] = c
      /\ \A k \in 1..Len(q) : r[k] = q[k]
    BY AppendFacts, EmptyFacts
<1>2. ASSUME NEW i \in 1..Len(r), r[i].op \in {"DR_WRITE", "DR_READ"}
      PROVE  Jtag!Holds(r, t, d, i - 1, r[i].want)
  <2>1. i - 1 \in 0..Len(q)
      BY <1>1
  <2>2. Jtag!Holds(q, t, d, i - 1, r[i].want)
    <3>1. CASE i = Len(q) + 1
      <4>1. i - 1 = Len(q) /\ r[i] = c
          BY <1>1, <3>1
      <4> QED
          BY <1>2, <4>1
    <3>2. CASE i # Len(q) + 1
      <4>1. i \in 1..Len(q) /\ r[i] = q[i]
          BY <1>1, <3>2
      <4> QED
          BY <1>2, <4>1 DEF Jtag!ScansMeant
    <3> QED
        BY <3>1, <3>2
  <2> QED
      BY <2>1, <2>2, HoldsBefore
<1> QED
    BY <1>2 DEF Jtag!ScansMeant

-----------------------------------------------------------------------------
(* The client's side, which is the same over both interfaces.              *)

Answers == [data : Data, stat : Jtag!Stat]

ClientOK ==
    /\ cmdq \in Seq(Reqs) /\ req \in Reqs /\ resp \in Seq(Answers)
    /\ dati \in Data /\ stat \in Jtag!Stat
    /\ busy \in BOOLEAN /\ wren \in BOOLEAN
    /\ wren => ~busy

\* An edge of the clock: it reads a command, completes one, or neither.
ClientEdge ==
    /\ resp' = IF wren THEN Append(resp, [data |-> dati, stat |-> stat]) ELSE resp
    /\ pending' = pending
    /\ wren' => ~busy'
    /\ \/ /\ ~busy /\ cmdq # <<>> /\ busy' /\ ~wren'
          /\ req' = Head(cmdq) /\ cmdq' = Tail(cmdq)
       \/ /\ busy /\ ~busy' /\ (wren' <=> ~Jtag!IsLine(req))
          /\ UNCHANGED cmdq
       \/ /\ (busy' <=> busy) /\ ~wren'
          /\ UNCHANGED <<cmdq, req>>

LEMMA CountEdge ==
    ASSUME ClientOK, AnswersCounted, ClientEdge
    PROVE  AnswersCounted'
<1> DEFINE n == Len(resp) + (IF wren THEN 1 ELSE 0) + (IF busy /\ ~Jtag!IsLine(req) THEN 1 ELSE 0)
           m == Len(resp') + (IF wren' THEN 1 ELSE 0)
                   + (IF busy' /\ ~Jtag!IsLine(req)' THEN 1 ELSE 0)
<1>1. Len(resp) \in Nat /\ Len(resp') = Len(resp) + (IF wren THEN 1 ELSE 0)
    BY AppendFacts DEF ClientOK, ClientEdge, Answers
<1>2. Counted(cmdq, n, pending)
    BY DEF AnswersCounted
<1>3. Jtag!IsLine(req)' <=> Jtag!IsLine(req')
    BY DEF Jtag!IsLine
<1>4. CASE /\ ~busy /\ cmdq # <<>> /\ busy' /\ ~wren'
           /\ req' = Head(cmdq) /\ cmdq' = Tail(cmdq)
  <2>1. m = n + (IF Jtag!IsLine(Head(cmdq)) THEN 0 ELSE 1)
      BY <1>1, <1>3, <1>4
  <2> HIDE DEF n, m
  <2>2. Counted(Tail(cmdq), n + (IF Jtag!IsLine(Head(cmdq)) THEN 0 ELSE 1), pending)
      BY <1>2, <1>4, CountTail DEF ClientOK
  <2>3. Counted(cmdq', m, pending')
      BY <1>4, <2>1, <2>2 DEF ClientEdge
  <2> QED
      BY <2>3 DEF AnswersCounted, m, Counted, Jtag!IsLine
<1>5. CASE /\ busy /\ ~busy' /\ (wren' <=> ~Jtag!IsLine(req))
           /\ UNCHANGED cmdq
  <2>1. m = n
    <3>1. ~wren /\ Len(resp') = Len(resp)
        BY <1>1, <1>5 DEF ClientOK
    <3>2. CASE Jtag!IsLine(req)
        BY <1>5, <3>1, <3>2
    <3>3. CASE ~Jtag!IsLine(req)
        BY <1>1, <1>5, <3>1, <3>3
    <3> QED
        BY <3>2, <3>3
  <2> HIDE DEF n, m
  <2>2. Counted(cmdq', m, pending')
      BY <1>2, <1>5, <2>1 DEF ClientEdge
  <2> QED
      BY <2>2 DEF AnswersCounted, m, Counted, Jtag!IsLine
<1>6. CASE /\ (busy' <=> busy) /\ ~wren'
           /\ UNCHANGED <<cmdq, req>>
  <2>1. m = n
    <3>1. (Jtag!IsLine(req)' <=> Jtag!IsLine(req)) /\ (wren => ~busy)
        BY <1>3, <1>6 DEF ClientOK
    <3>2. CASE wren
        BY <1>1, <1>6, <3>1, <3>2
    <3>3. CASE ~wren
        BY <1>1, <1>6, <3>1, <3>3
    <3> QED
        BY <3>2, <3>3
  <2> HIDE DEF n, m
  <2>2. Counted(cmdq', m, pending')
      BY <1>2, <1>6, <2>1 DEF ClientEdge
  <2> QED
      BY <2>2 DEF AnswersCounted, m, Counted, Jtag!IsLine
<1> QED
    BY <1>4, <1>5, <1>6 DEF ClientEdge

LEMMA CountWrite ==
    ASSUME ClientOK, AnswersCounted, NEW r \in Reqs, pending < Depth,
           cmdq' = Append(cmdq, r),
           pending' = IF Jtag!IsLine(r) THEN pending ELSE pending + 1,
           UNCHANGED <<resp, req, busy, wren>>
    PROVE  AnswersCounted'
<1> DEFINE n == Len(resp) + (IF wren THEN 1 ELSE 0) + (IF busy /\ ~Jtag!IsLine(req) THEN 1 ELSE 0)
<1>1. Counted(cmdq, n, pending)
    BY DEF AnswersCounted
<1>2. n = n'
    BY DEF Jtag!IsLine
<1> HIDE DEF n
<1>3. Counted(cmdq', n', pending')
    BY <1>1, <1>2, CountAppend DEF ClientOK
<1> QED
    BY <1>3 DEF AnswersCounted, n, Counted, Jtag!IsLine

LEMMA CountAnswer ==
    ASSUME ClientOK, AnswersCounted, resp # <<>>, resp' = Tail(resp), pending' = pending - 1,
           UNCHANGED <<cmdq, req, busy, wren>>
    PROVE  AnswersCounted'
<1> DEFINE y == IF wren THEN 1 ELSE 0
           z == IF busy /\ ~Jtag!IsLine(req) THEN 1 ELSE 0
           n == Len(resp) + y + z
<1>1. Counted(cmdq, n, pending)
    BY DEF AnswersCounted
<1>2. Len(resp) \in Nat \ {0} /\ Len(resp') = Len(resp) - 1
    BY TailFacts DEF ClientOK
<1>3. n \in Nat \ {0} /\ n' = n - 1
  <2>1. y \in Nat /\ z \in Nat
      OBVIOUS
  <2>2. y' = y /\ z' = z
      BY DEF Jtag!IsLine
  <2> HIDE DEF y, z
  <2> QED
      BY <1>2, <2>1, <2>2
<1> HIDE DEF n
<1>4. Counted(cmdq', n', pending')
    BY <1>1, <1>3, CountRead DEF ClientOK
<1> QED
    BY <1>4 DEF AnswersCounted, n, Counted, Jtag!IsLine

LEMMA CountSame ==
    ASSUME AnswersCounted, UNCHANGED <<cmdq, req, resp, pending, busy, wren>>
    PROVE  AnswersCounted'
BY DEF AnswersCounted, Counted, Jtag!IsLine

\* The answer FIFO has room for every answer.
LEMMA AnswersFit ==
    ASSUME cmdq \in Seq(Reqs), resp \in Seq(Answers), AnswersCounted
    PROVE  Len(resp) <= Depth
<1> DEFINE y == IF wren THEN 1 ELSE 0
           z == IF busy /\ ~Jtag!IsLine(req) THEN 1 ELSE 0
           n == Len(resp) + y + z
<1>1. Len(resp) \in Nat /\ Len(resp) <= n /\ n \in Nat
  <2>1. Len(resp) \in Nat /\ y \in Nat /\ z \in Nat
      BY EmptyFacts
  <2> HIDE DEF y, z
  <2> QED
      BY <2>1
<1>2. Counted(cmdq, n, pending)
    BY DEF AnswersCounted
<1> HIDE DEF n
<1>3. n \in 0..Depth
    BY <1>2, CountBounds
<1> QED
    BY <1>1, <1>3, DepthAssumption

-----------------------------------------------------------------------------
(* JTAG: an edge of the clock.                                             *)

LEMMA SeqWider ==
    ASSUME NEW S, NEW T, S \subseteq T, NEW q \in Seq(S)
    PROVE  q \in Seq(T)
OBVIOUS

LEMMA JtagTyped ==
    ASSUME Jtag!TypeOK
    PROVE  /\ cmdq \in Seq(JtagReq) /\ cmdq \in Seq(Reqs) /\ req \in JtagReq /\ req \in Reqs
           /\ resp \in Seq(Answers) /\ dati \in Data /\ stat \in Jtag!Stat
           /\ phyq \in Seq(PhyCmds) /\ PHY_WRDATA \in PhyCmds
           /\ Len(phyq) \in Nat /\ Len(phyr) \in Nat /\ PhyDepth \in Nat \ {0}
           /\ busy \in BOOLEAN /\ wren \in BOOLEAN /\ dvalid \in BOOLEAN
<1>1. JtagReq \subseteq Reqs
    BY ReqAssumption DEF Reqs
<1>2. cmdq \in Seq(Reqs)
    BY <1>1, SeqWider DEF Jtag!TypeOK
<1> QED
    BY <1>1, <1>2, DepthAssumption DEF Jtag!TypeOK, Answers, PhyCmds

\* What an edge does to the command port: nothing; a command offered to the
\* FIFO, which has room; or the command offered taken, and the next state.
LEMMA JtagPort ==
    ASSUME Jtag!TypeOK, Jtag!CommandFollowed, Jtag!OfferTaken, Jtag!Clock
    PROVE  \/ ~PHY_WREN /\ ~PHY_WREN' /\ UNCHANGED <<PHY_WRDATA, phyq>>
           \/ /\ ~PHY_WREN /\ PHY_WREN' /\ Len(phyq) < PhyDepth
              /\ PHY_WRDATA' = Jtag!Offer /\ state \in Jtag!Offering
              /\ state = "SET_IR" => ir # Jtag!InstrFor(req)
              /\ state = "CMD" => Jtag!IsIdcode(req) \/ Jtag!IsLine(req)
              /\ UNCHANGED <<state, ir, req, phyq>>
           \/ /\ PHY_WREN /\ ~PHY_WREN' /\ UNCHANGED <<PHY_WRDATA, ir, req>>
              /\ phyq' = Append(phyq, PHY_WRDATA)
              /\ state \in Jtag!Offering
              /\ state' = CASE state = "SET_IR" -> "SAVE_IR"
                            [] state = "CMD" /\ Jtag!IsIdcode(req) -> "IDCODE"
                            [] state = "CMD" /\ ~Jtag!IsIdcode(req) -> "RESET_DONE"
                            [] state \in {"IDCODE", "CHECK"} -> "RESPONSE"
                            [] state \in {"DPWRITE", "DPREAD", "FLUSH"} -> "CHECK"
                            [] state = "APACCESS" -> "FLUSH"
                            [] state = "ABORT_IR" -> "ABORT"
                            [] state = "ABORT" -> "ABORT_DONE"
<1> USE DEF Jtag!Clock, Jtag!Offering, Jtag!port, Jtag!Keep
<1>1. PHY_WREN \in BOOLEAN
    BY DEF Jtag!TypeOK
<1>2. state # "IDLE" => busy
    BY DEF Jtag!CommandFollowed
<1>3. CASE Jtag!Idle \/ Jtag!SaveIr \/ Jtag!AbortDone \/ Jtag!ResetDone \/ Jtag!Response \/ Jtag!Await
    BY <1>3 DEF Jtag!Idle, Jtag!SaveIr, Jtag!AbortDone, Jtag!ResetDone, Jtag!Response, Jtag!Await,
                Jtag!OfferTaken
<1>4. CASE Jtag!SetIr
    BY <1>1, <1>2, <1>4 DEF Jtag!SetIr, Jtag!Send, Jtag!OfferTaken, Jtag!Offer, Jtag!rden
<1>5. CASE Jtag!Cmd
  <2>1. Jtag!IsIdcode(req) => ~Jtag!IsLine(req)
      BY DEF Jtag!IsIdcode, Jtag!IsLine
  <2>2. CASE Jtag!IsIdcode(req)
      BY <1>1, <1>2, <1>5, <2>1, <2>2 DEF Jtag!Cmd, Jtag!Send, Jtag!Offer, Jtag!rden
  <2>3. CASE Jtag!IsLine(req)
      BY <1>1, <1>2, <1>5, <2>1, <2>3 DEF Jtag!Cmd, Jtag!Send, Jtag!Offer, Jtag!rden
  <2>4. CASE ~Jtag!IsIdcode(req) /\ ~Jtag!IsLine(req)
      BY <1>5, <2>4 DEF Jtag!Cmd, Jtag!OfferTaken
  <2> QED
      BY <2>2, <2>3, <2>4
<1>6. CASE Jtag!Access
    BY <1>1, <1>2, <1>6 DEF Jtag!Access, Jtag!Send, Jtag!Offer, Jtag!rden
<1> QED
    BY <1>3, <1>4, <1>5, <1>6 DEF Jtag!Step

LEMMA JtagEdgeClient ==
    ASSUME Jtag!Inv, Jtag!Clock
    PROVE  ClientOK /\ ClientEdge
<1>1. ClientOK
    BY JtagTyped DEF Jtag!Inv, Jtag!CommandFollowed, ClientOK
<1>2. dvalid \in BOOLEAN /\ busy \in BOOLEAN /\ wren \in BOOLEAN
    BY JtagTyped DEF Jtag!Inv
<1>3. /\ state # "IDLE" => busy /\ ~wren
      /\ wren => ~busy
      /\ state # "IDLE" => (Jtag!IsLine(req) <=> state = "RESET_DONE" \/ (state = "CMD" /\ Jtag!IsLine(req)))
    BY DEF Jtag!Inv, Jtag!CommandFollowed
<1>4. IF Jtag!Done THEN wren' <=> ~Jtag!IsLine(req) ELSE ~wren'
  <2>1. CASE Jtag!Idle
      BY <2>1 DEF Jtag!Idle, Jtag!Done
  <2>2. CASE Jtag!SetIr \/ Jtag!SaveIr \/ Jtag!Await
      BY <1>3, <2>2 DEF Jtag!SetIr, Jtag!SaveIr, Jtag!Await, Jtag!Done, Jtag!Keep
  <2>3. CASE Jtag!Cmd
      BY <1>3, <2>3 DEF Jtag!Cmd, Jtag!Done, Jtag!Keep
  <2>4. CASE Jtag!Access
      BY <1>3, <2>4 DEF Jtag!Access, Jtag!Done, Jtag!Keep
  <2>5. CASE Jtag!AbortDone
      BY <1>3, <2>5 DEF Jtag!AbortDone, Jtag!Done
  <2>6. CASE Jtag!ResetDone
      BY <1>3, <2>6 DEF Jtag!ResetDone, Jtag!Done, Jtag!Keep
  <2>7. CASE Jtag!Response
      BY <1>3, <2>7 DEF Jtag!Response, Jtag!Done
  <2> QED
      BY <2>1, <2>2, <2>3, <2>4, <2>5, <2>6, <2>7 DEF Jtag!Clock, Jtag!Step
<1>5. Jtag!Done => busy
    BY <1>3 DEF Jtag!Done
<1>6. /\ busy' = (~Jtag!Done /\ (busy \/ Jtag!rden))
      /\ cmdq' = IF Jtag!rden THEN Tail(cmdq) ELSE cmdq
      /\ req' = IF Jtag!rden THEN Head(cmdq) ELSE req
      /\ Jtag!rden <=> cmdq # <<>> /\ ~busy
      /\ resp' = IF wren THEN Append(resp, [data |-> dati, stat |-> stat]) ELSE resp
      /\ pending' = pending
    BY DEF Jtag!Clock, Jtag!rden
<1>7. ClientEdge
  <2>1. CASE Jtag!Done
      BY <1>4, <1>5, <1>6, <2>1 DEF ClientEdge
  <2>2. CASE ~Jtag!Done /\ Jtag!rden
      BY <1>4, <1>6, <2>2 DEF ClientEdge
  <2>3. CASE ~Jtag!Done /\ ~Jtag!rden
      BY <1>2, <1>4, <1>6, <2>3 DEF ClientEdge
  <2> QED
      BY <2>1, <2>2, <2>3
<1> QED
    BY <1>1, <1>7

LEMMA JtagEdgeTypes ==
    ASSUME Jtag!Inv, Jtag!Clock, Len(resp') <= Depth
    PROVE  Jtag!TypeOK'
<1> USE DEF Jtag!Inv, Jtag!TypeOK, Jtag!Clock
<1>1. /\ cmdq' \in Seq(JtagReq) /\ Len(cmdq') <= Depth /\ req' \in JtagReq
      /\ resp' \in Seq([data : Data, stat : Jtag!Stat])
      /\ dvalid' \in BOOLEAN /\ busy' \in BOOLEAN
  <2>1. cmdq' \in Seq(JtagReq) /\ Len(cmdq') <= Depth /\ req' \in JtagReq
    <3>1. CASE Jtag!rden
      <4>1. cmdq # <<>> /\ cmdq' = Tail(cmdq) /\ req' = Head(cmdq)
          BY <3>1 DEF Jtag!rden
      <4>2. Len(cmdq') = Len(cmdq) - 1 /\ Len(cmdq) \in Nat
          BY <4>1, TailFacts
      <4> QED
          BY <4>1, <4>2, DepthAssumption, TailFacts
    <3>2. CASE ~Jtag!rden
        BY <3>2
    <3> QED
        BY <3>1, <3>2
  <2>2. [data |-> dati, stat |-> stat] \in [data : Data, stat : Jtag!Stat]
      OBVIOUS
  <2>3. resp' \in Seq([data : Data, stat : Jtag!Stat])
      BY <2>2, AppendFacts
  <2>4. dvalid' \in BOOLEAN /\ busy' \in BOOLEAN
      OBVIOUS
  <2> QED
      BY <2>1, <2>3, <2>4
<1>2. /\ state' \in Jtag!States /\ ir' \in {"NONE", "DPACC", "APACC"}
      /\ stat' \in Jtag!Stat /\ wren' \in BOOLEAN
  <2>1. CASE Jtag!Idle \/ Jtag!SetIr \/ Jtag!SaveIr \/ Jtag!AbortDone \/ Jtag!ResetDone
      BY <2>1 DEF Jtag!Idle, Jtag!SetIr, Jtag!SaveIr, Jtag!AbortDone, Jtag!ResetDone, Jtag!Send,
                  Jtag!Keep, Jtag!States, Jtag!InstrFor
  <2>2. CASE Jtag!Cmd
      BY <2>2 DEF Jtag!Cmd, Jtag!Send, Jtag!Keep, Jtag!States
  <2>3. CASE Jtag!Access
      BY <2>3 DEF Jtag!Access, Jtag!Send, Jtag!Keep, Jtag!States
  <2>4. CASE Jtag!Response \/ Jtag!Await
      BY <2>4 DEF Jtag!Response, Jtag!Await, Jtag!Keep, Jtag!States, Jtag!Stat
  <2> QED
      BY <2>1, <2>2, <2>3, <2>4 DEF Jtag!Step
<1>3. retries' \in 0..JtagRetryMax /\ dati' \in Data
  <2>1. CASE Jtag!Idle
      BY <2>1, RetryAssumption DEF Jtag!Idle
  <2>2. CASE Jtag!Response
      BY <2>2, RetryAssumption DEF Jtag!Response
  <2>3. CASE ~Jtag!Idle /\ ~Jtag!Response
      BY <2>3 DEF Jtag!Step, Jtag!SetIr, Jtag!SaveIr, Jtag!Cmd, Jtag!Access, Jtag!AbortDone,
                  Jtag!ResetDone, Jtag!Await, Jtag!Keep
  <2> QED
      BY <2>1, <2>2, <2>3
<1>4. /\ PHY_WREN' \in BOOLEAN /\ PHY_WRDATA' \in [op : Jtag!Ops, want : Jtag!Instr]
      /\ phyq' \in Seq([op : Jtag!Ops, want : Jtag!Instr]) /\ Len(phyq') <= PhyDepth
  <2>0. PHY_WREN' \in BOOLEAN
      BY DEF Jtag!Step, Jtag!Idle, Jtag!SetIr, Jtag!SaveIr, Jtag!Cmd, Jtag!Access,
             Jtag!AbortDone, Jtag!ResetDone, Jtag!Response, Jtag!Await, Jtag!Send, Jtag!port
  <2>1. Jtag!Offer \in [op : Jtag!Ops, want : Jtag!Instr]
      BY DEF Jtag!Offer, Jtag!Ops, Jtag!Instr, Jtag!PhyCmd, Jtag!InstrFor
  <2>2. PHY_WREN => Len(phyq) < PhyDepth
      BY DEF Jtag!OfferTaken
  <2>3. CASE ~PHY_WREN /\ ~PHY_WREN' /\ UNCHANGED <<PHY_WRDATA, phyq>>
      BY <2>0, <2>3
  <2>4. CASE ~PHY_WREN /\ PHY_WREN' /\ PHY_WRDATA' = Jtag!Offer /\ UNCHANGED phyq
      BY <2>0, <2>1, <2>4
  <2>5. CASE PHY_WREN /\ ~PHY_WREN' /\ UNCHANGED PHY_WRDATA /\ phyq' = Append(phyq, PHY_WRDATA)
      BY <2>0, <2>2, <2>5, AppendFacts, DepthAssumption
  <2> QED
      BY <2>3, <2>4, <2>5, JtagPort
<1>5. /\ phyr' \in Seq([ack : Jtag!Ack, data : Data]) /\ Len(phyr') <= 1
      /\ phy_dvalid' \in BOOLEAN /\ PHY_RDDATA' \in [ack : Jtag!Ack, data : Data]
      /\ UNCHANGED <<tap, scan, disturbed>>
  <2>0. phy_dvalid' \in BOOLEAN
      BY Zenon
  <2>1. CASE phyr = <<>>
      BY <2>0, <2>1 DEF Jtag!target
  <2>2. CASE phyr # <<>>
    <3>1. Len(phyr) \in Nat /\ Len(Tail(phyr)) = Len(phyr) - 1
        BY <2>2, TailFacts
    <3>2. phyr' = Tail(phyr) /\ PHY_RDDATA' = Head(phyr)
        BY <2>2
    <3>3. phyr \in Seq([ack : Jtag!Ack, data : Data]) /\ Len(phyr) <= 1
        OBVIOUS
    <3>4. Tail(phyr) \in Seq([ack : Jtag!Ack, data : Data]) /\ Head(phyr) \in [ack : Jtag!Ack, data : Data]
        BY <2>2, <3>3, TailFacts
    <3>5. Len(phyr') <= 1
        BY <3>1, <3>2, <3>3
    <3>6. UNCHANGED <<tap, scan, disturbed>>
        BY DEF Jtag!target
    <3> QED
        BY <2>0, <3>2, <3>4, <3>5, <3>6
  <2> QED
      BY <2>1, <2>2
<1> QED
    BY <1>1, <1>2, <1>3, <1>4, <1>5

\* A command is read in IDLE, and the controller stays there.
LEMMA JtagReads ==
    ASSUME Jtag!Inv, Jtag!Clock
    PROVE  /\ Jtag!rden => state = "IDLE" /\ state' = "IDLE" /\ ~dvalid
           /\ ~Jtag!rden => req' = req
           /\ state' # "IDLE" => ~Jtag!rden /\ busy /\ busy'
<1>1. /\ state # "IDLE" => busy
      /\ dvalid => busy /\ state = "IDLE"
      /\ Jtag!rden => ~busy
    BY DEF Jtag!Inv, Jtag!CommandFollowed, Jtag!rden
<1>2. Jtag!rden => state = "IDLE" /\ state' = "IDLE" /\ ~dvalid
    BY <1>1 DEF Jtag!Clock, Jtag!Step, Jtag!Idle, Jtag!SetIr, Jtag!SaveIr, Jtag!Cmd, Jtag!Access,
                Jtag!AbortDone, Jtag!ResetDone, Jtag!Response, Jtag!Await
<1>3. state' # "IDLE" => busy
    BY <1>1 DEF Jtag!Clock, Jtag!Step, Jtag!Idle, Jtag!SetIr, Jtag!SaveIr, Jtag!Cmd, Jtag!Access,
                Jtag!AbortDone, Jtag!ResetDone, Jtag!Response, Jtag!Await
<1>4. state' # "IDLE" => ~Jtag!Done
    BY DEF Jtag!Clock, Jtag!Step, Jtag!Idle, Jtag!SetIr, Jtag!SaveIr, Jtag!Cmd, Jtag!Access,
           Jtag!AbortDone, Jtag!ResetDone, Jtag!Response, Jtag!Await, Jtag!Done
<1>5. busy' = (~Jtag!Done /\ (busy \/ Jtag!rden)) /\ (~Jtag!rden => req' = req)
    BY DEF Jtag!Clock
<1> QED
    BY <1>1, <1>2, <1>3, <1>4, <1>5

LEMMA JtagEdgeCommand ==
    ASSUME Jtag!Inv, Jtag!Clock
    PROVE  Jtag!CommandFollowed'
<1>1. /\ Jtag!rden => state = "IDLE" /\ state' = "IDLE" /\ ~dvalid
      /\ ~Jtag!rden => req' = req
      /\ state' # "IDLE" => ~Jtag!rden /\ busy /\ busy'
    BY JtagReads
<1>2. wren' => ~busy'
    BY JtagEdgeClient DEF ClientEdge
<1>3. dvalid' => busy' /\ state' = "IDLE"
  <2>1. dvalid' => Jtag!rden
      BY DEF Jtag!Clock, Jtag!Inv, Jtag!CommandFollowed
  <2>2. Jtag!rden => ~Jtag!Done
      BY <1>1 DEF Jtag!Done
  <2>3. Jtag!rden => busy'
      BY <2>2 DEF Jtag!Clock
  <2> QED
      BY <1>1, <2>1, <2>3
<1>4. state' # "IDLE" =>
        /\ req' = req
        /\ state' \in Jtag!Ordinary => ~Jtag!IsIdcode(req)
        /\ state' = "IDCODE" => Jtag!IsIdcode(req)
        /\ Jtag!IsLine(req) <=> state' = "RESET_DONE" \/ (state' = "CMD" /\ Jtag!IsLine(req))
        /\ state' \in {"ABORT_IR", "ABORT", "ABORT_DONE"} => retries' = JtagRetryMax
        /\ state' \in {"CMD", "DPWRITE", "DPREAD", "APACCESS", "FLUSH", "CHECK", "RESPONSE"}
             => ir' = Jtag!InstrFor(req) \/ Jtag!IsIdcode(req) \/ Jtag!IsLine(req)
  <2> SUFFICES ASSUME state' # "IDLE"
               PROVE  /\ state' \in Jtag!Ordinary => ~Jtag!IsIdcode(req)
                      /\ state' = "IDCODE" => Jtag!IsIdcode(req)
                      /\ Jtag!IsLine(req) <=> state' = "RESET_DONE" \/ (state' = "CMD" /\ Jtag!IsLine(req))
                      /\ state' \in {"ABORT_IR", "ABORT", "ABORT_DONE"} => retries' = JtagRetryMax
                      /\ state' \in {"CMD", "DPWRITE", "DPREAD", "APACCESS", "FLUSH", "CHECK", "RESPONSE"}
                           => ir' = Jtag!InstrFor(req) \/ Jtag!IsIdcode(req) \/ Jtag!IsLine(req)
      BY <1>1
  <2>1. /\ Jtag!IsIdcode(req) => ~Jtag!IsLine(req)
        /\ state \in Jtag!Ordinary => ~Jtag!IsIdcode(req)
        /\ state = "IDCODE" => Jtag!IsIdcode(req)
        /\ state # "IDLE" => (Jtag!IsLine(req) <=> state = "RESET_DONE" \/ (state = "CMD" /\ Jtag!IsLine(req)))
        /\ state \in {"ABORT_IR", "ABORT", "ABORT_DONE"} => retries = JtagRetryMax
        /\ state \in {"CMD", "DPWRITE", "DPREAD", "APACCESS", "FLUSH", "CHECK", "RESPONSE"}
             => ir = Jtag!InstrFor(req) \/ Jtag!IsIdcode(req) \/ Jtag!IsLine(req)
      BY DEF Jtag!Inv, Jtag!CommandFollowed, Jtag!IsIdcode, Jtag!IsLine
  <2> USE DEF Jtag!Ordinary, Jtag!Keep
  <2>2. CASE Jtag!Idle
      BY <2>1, <2>2 DEF Jtag!Idle
  <2>3. CASE Jtag!SetIr
      BY <2>1, <2>3 DEF Jtag!SetIr, Jtag!Send
  <2>4. CASE Jtag!SaveIr
      BY <2>1, <2>4 DEF Jtag!SaveIr
  <2>5. CASE Jtag!Cmd
    <3>1. CASE Jtag!IsIdcode(req)
        BY <2>1, <2>5, <3>1 DEF Jtag!Cmd, Jtag!Send
    <3>2. CASE Jtag!IsLine(req)
        BY <2>1, <2>5, <3>2 DEF Jtag!Cmd, Jtag!Send
    <3>3. CASE ~Jtag!IsIdcode(req) /\ ~Jtag!IsLine(req)
        BY <2>1, <2>5, <3>3 DEF Jtag!Cmd, Jtag!Send
    <3> QED
        BY <3>1, <3>2, <3>3
  <2>6. CASE Jtag!Access
      BY <2>1, <2>6 DEF Jtag!Access, Jtag!Send
  <2>7. CASE Jtag!AbortDone \/ Jtag!ResetDone
      BY <2>7 DEF Jtag!AbortDone, Jtag!ResetDone
  <2>8. CASE Jtag!Response
      BY <2>1, <2>8 DEF Jtag!Response
  <2>9. CASE Jtag!Await
      BY <2>1, <2>9 DEF Jtag!Await
  <2> QED
      BY <2>2, <2>3, <2>4, <2>5, <2>6, <2>7, <2>8, <2>9 DEF Jtag!Clock, Jtag!Step
<1>5. state' # "IDLE" => busy'
    BY <1>1
<1>6. state' # "IDLE" =>
        /\ state' \in Jtag!Ordinary => ~Jtag!IsIdcode(req')
        /\ state' = "IDCODE" => Jtag!IsIdcode(req')
        /\ Jtag!IsLine(req') <=> state' = "RESET_DONE" \/ (state' = "CMD" /\ Jtag!IsLine(req'))
        /\ state' \in {"ABORT_IR", "ABORT", "ABORT_DONE"} => retries' = JtagRetryMax
        /\ state' \in {"CMD", "DPWRITE", "DPREAD", "APACCESS", "FLUSH", "CHECK", "RESPONSE"}
             => ir' = Jtag!InstrFor(req') \/ Jtag!IsIdcode(req') \/ Jtag!IsLine(req')
    BY <1>4
<1>7. "IDLE" \notin Jtag!Ordinary
    BY DEF Jtag!Ordinary
<1> QED
    BY <1>2, <1>3, <1>5, <1>6, <1>7 DEF Jtag!CommandFollowed, Jtag!IsIdcode, Jtag!IsLine, Jtag!InstrFor

LEMMA JtagEdgeOffer ==
    ASSUME Jtag!Inv, Jtag!Clock
    PROVE  Jtag!OfferTaken'
<1>1. CASE ~PHY_WREN'
    BY <1>1 DEF Jtag!OfferTaken
<1>2. CASE /\ ~PHY_WREN /\ PHY_WREN' /\ Len(phyq) < PhyDepth
           /\ PHY_WRDATA' = Jtag!Offer /\ state \in Jtag!Offering
           /\ state = "SET_IR" => ir # Jtag!InstrFor(req)
           /\ state = "CMD" => Jtag!IsIdcode(req) \/ Jtag!IsLine(req)
           /\ UNCHANGED <<state, ir, req, phyq>>
  <2>1. Jtag!Offer' = Jtag!Offer
      BY <1>2 DEF Jtag!Offer, Jtag!InstrFor, Jtag!IsLine
  <2> QED
      BY <1>2, <2>1 DEF Jtag!OfferTaken, Jtag!InstrFor, Jtag!IsLine, Jtag!IsIdcode
<1> QED
    BY <1>1, <1>2, JtagPort DEF Jtag!Inv

LEMMA JtagEdgeData ==
    ASSUME Jtag!Inv, Jtag!Clock
    PROVE  Jtag!DataOfResponse' /\ Jtag!ScanFollowsCache'
<1>1. Jtag!ScanFollowsCache'
    BY DEF Jtag!Inv, Jtag!Clock, Jtag!ScanFollowsCache, Jtag!target
<1>2. CASE Jtag!Response
  <2>1. state = "RESPONSE" /\ phy_dvalid
      BY <1>2 DEF Jtag!Response
  <2>2. phyr = <<>>
      BY <2>1 DEF Jtag!Inv, Jtag!NoStrayResponse
  <2>3. PHY_RDDATA' = PHY_RDDATA
      BY <2>2 DEF Jtag!Clock
  <2>4. ~wren
      BY <2>1 DEF Jtag!Inv, Jtag!CommandFollowed
  <2> QED
      BY <1>1, <1>2, <2>3, <2>4 DEF Jtag!Response, Jtag!DataOfResponse
<1>3. CASE Jtag!AbortDone
  <2>1. retries' = JtagRetryMax
      BY <1>3 DEF Jtag!AbortDone, Jtag!Inv, Jtag!CommandFollowed
  <2> QED
      BY <1>1, <2>1, RetryAssumption DEF Jtag!DataOfResponse
<1>4. CASE ~Jtag!Response /\ ~Jtag!AbortDone
  <2>1. ~wren'
      BY <1>4 DEF Jtag!Clock, Jtag!Step, Jtag!Idle, Jtag!SetIr, Jtag!SaveIr, Jtag!Cmd, Jtag!Access,
                  Jtag!ResetDone, Jtag!Await, Jtag!Keep, Jtag!Inv, Jtag!CommandFollowed
  <2> QED
      BY <1>1, <2>1 DEF Jtag!DataOfResponse
<1> QED
    BY <1>2, <1>3, <1>4

LEMMA JtagEdgeResponse ==
    ASSUME Jtag!Inv, Jtag!Clock
    PROVE  Jtag!OneResponse'
<1> DEFINE NoScan(q) == \A i \in DOMAIN q : q[i].op # "DR_READ"
           LastScan(q) == \A i \in DOMAIN q : q[i].op = "DR_READ" <=> i = Len(q)
<1>1. /\ phyq \in Seq(PhyCmds) /\ PHY_WRDATA \in PhyCmds /\ Len(phyq) \in Nat
      /\ DOMAIN phyq = 1..Len(phyq)
    BY JtagTyped, EmptyFacts DEF Jtag!Inv
<1>2. CASE state # "RESPONSE"
  <2>1. NoScan(phyq) /\ phyr = <<>> /\ ~phy_dvalid
      BY <1>2 DEF Jtag!Inv, Jtag!OneResponse
  <2>2. phyr' = <<>> /\ ~phy_dvalid'
      BY <2>1 DEF Jtag!Clock
  <2>3. state' = "RESPONSE" => PHY_WREN
      BY <1>2 DEF Jtag!Clock, Jtag!Step, Jtag!Idle, Jtag!SetIr, Jtag!SaveIr, Jtag!Cmd, Jtag!Access,
                  Jtag!AbortDone, Jtag!ResetDone, Jtag!Response, Jtag!Await, Jtag!Send
  <2>4. CASE UNCHANGED phyq /\ ~PHY_WREN
    <3>1. state' # "RESPONSE"
        BY <2>3, <2>4
    <3> QED
        BY <2>1, <2>2, <2>4, <3>1 DEF Jtag!OneResponse
  <2>5. CASE PHY_WREN /\ phyq' = Append(phyq, PHY_WRDATA)
    <3>1. /\ Len(phyq') = Len(phyq) + 1 /\ phyq'[Len(phyq) + 1] = PHY_WRDATA /\ phyq' # <<>>
          /\ \A i \in 1..Len(phyq) : phyq'[i] = phyq[i]
          /\ phyq' \in Seq(PhyCmds)
        BY <1>1, <2>5, AppendFacts
    <3>2. DOMAIN phyq' = 1..Len(phyq) + 1
        BY <3>1, EmptyFacts
    <3>3. \A i \in 1..Len(phyq) : phyq'[i].op # "DR_READ"
        BY <1>1, <2>1, <3>1
    <3>4. PHY_WRDATA = Jtag!Offer /\ state \in Jtag!Offering
        BY <2>5 DEF Jtag!Inv, Jtag!OfferTaken
    <3>5. state' = "RESPONSE" <=> state \in {"IDCODE", "CHECK"}
        BY <2>5, JtagPort DEF Jtag!Inv, Jtag!Offering
    <3>6. PHY_WRDATA.op = "DR_READ" <=> state \in {"IDCODE", "CHECK"}
        BY <3>4 DEF Jtag!Offer, Jtag!PhyCmd, Jtag!Offering
    <3>7. CASE state' = "RESPONSE"
      <4>1. phyq'[Len(phyq) + 1].op = "DR_READ"
          BY <3>1, <3>5, <3>6, <3>7
      <4>2. ASSUME NEW i \in 1..Len(phyq) + 1
            PROVE  phyq'[i].op = "DR_READ" <=> i = Len(phyq) + 1
        <5>1. i \in 1..Len(phyq) \/ i = Len(phyq) + 1
            BY <1>1
        <5>2. i \in 1..Len(phyq) => i # Len(phyq) + 1
            BY <1>1
        <5> QED
            BY <3>3, <4>1, <5>1, <5>2
      <4> QED
          BY <2>2, <3>1, <3>2, <3>7, <4>2 DEF Jtag!OneResponse
    <3>8. CASE state' # "RESPONSE"
      <4>1. phyq'[Len(phyq) + 1].op # "DR_READ"
          BY <3>1, <3>5, <3>6, <3>8
      <4>2. ASSUME NEW i \in 1..Len(phyq) + 1
            PROVE  phyq'[i].op # "DR_READ"
        <5>1. i \in 1..Len(phyq) \/ i = Len(phyq) + 1
            BY <1>1
        <5> QED
            BY <3>3, <4>1, <5>1
      <4> QED
          BY <2>2, <3>2, <3>8, <4>2 DEF Jtag!OneResponse
    <3> QED
        BY <3>7, <3>8
  <2> QED
      BY <2>4, <2>5, JtagPort DEF Jtag!Inv
<1>3. CASE state = "RESPONSE"
  <2>1. phyq' = phyq
      BY <1>3, JtagPort DEF Jtag!Inv, Jtag!Offering, Jtag!OfferTaken
  <2>2. phyr' = (IF phyr = <<>> THEN phyr ELSE Tail(phyr)) /\ (phy_dvalid' <=> phyr # <<>>)
      BY DEF Jtag!Clock
  <2>3. \/ Jtag!Response /\ phy_dvalid /\ state' # "RESPONSE"
        \/ Jtag!Await /\ ~phy_dvalid /\ state' = "RESPONSE"
      BY <1>3 DEF Jtag!Clock, Jtag!Step, Jtag!Idle, Jtag!SetIr, Jtag!SaveIr, Jtag!Cmd, Jtag!Access,
                  Jtag!AbortDone, Jtag!ResetDone, Jtag!Response, Jtag!Await
  <2>4. CASE phyq # <<>> /\ phyr = <<>> /\ ~phy_dvalid /\ LastScan(phyq)
      BY <2>1, <2>2, <2>3, <2>4 DEF Jtag!OneResponse
  <2>5. CASE phyq = <<>> /\ Len(phyr) = 1 /\ ~phy_dvalid
    <3>1. phyr \in Seq([ack : Jtag!Ack, data : Data])
        BY DEF Jtag!Inv, Jtag!TypeOK
    <3>2. phyr # <<>>
        BY <2>5
    <3>3. Tail(phyr) = <<>>
      <4>1. Tail(phyr) \in Seq([ack : Jtag!Ack, data : Data]) /\ Len(Tail(phyr)) = 0
          BY <2>5, <3>1, <3>2, TailFacts
      <4> QED
          BY <4>1, EmptyFacts
    <3> QED
        BY <2>1, <2>2, <2>3, <2>5, <3>2, <3>3 DEF Jtag!OneResponse
  <2>6. CASE phyq = <<>> /\ phyr = <<>> /\ phy_dvalid
    <3>1. DOMAIN phyq' = {}
        BY <2>1, <2>6
    <3> QED
        BY <2>1, <2>2, <2>3, <2>6, <3>1 DEF Jtag!OneResponse
  <2> QED
      BY <1>3, <2>4, <2>5, <2>6 DEF Jtag!Inv, Jtag!OneResponse
<1> QED
    BY <1>2, <1>3

LEMMA JtagStray ==
    ASSUME Jtag!OneResponse
    PROVE  Jtag!NoStrayResponse
<1>1. CASE state = "RESPONSE"
    BY <1>1 DEF Jtag!OneResponse, Jtag!NoStrayResponse
<1>2. CASE state # "RESPONSE"
    BY <1>2 DEF Jtag!OneResponse, Jtag!NoStrayResponse
<1> QED
    BY <1>1, <1>2

\* The commands under way: unchanged by an edge, or one more.
LEMMA JtagComing ==
    ASSUME Jtag!TypeOK, Jtag!CommandFollowed, Jtag!OfferTaken, Jtag!Clock
    PROVE  /\ Jtag!Coming \in Seq(PhyCmds) /\ Jtag!Offer \in PhyCmds
           /\ IF ~PHY_WREN /\ PHY_WREN' THEN Jtag!Coming' = Append(Jtag!Coming, Jtag!Offer)
              ELSE Jtag!Coming' = Jtag!Coming
<1>1. phyq \in Seq(PhyCmds) /\ PHY_WRDATA \in PhyCmds
    BY JtagTyped
<1>2. Jtag!Coming \in Seq(PhyCmds)
    BY <1>1, AppendFacts DEF Jtag!Coming
<1>3. Jtag!Offer \in PhyCmds
    BY DEF Jtag!Offer, PhyCmds, Jtag!Ops, Jtag!Instr, Jtag!PhyCmd, Jtag!InstrFor
<1>4. Jtag!Coming' = IF PHY_WREN' THEN Append(phyq', PHY_WRDATA') ELSE phyq'
    BY DEF Jtag!Coming
<1>5. IF ~PHY_WREN /\ PHY_WREN' THEN Jtag!Coming' = Append(Jtag!Coming, Jtag!Offer)
      ELSE Jtag!Coming' = Jtag!Coming
    BY <1>4, JtagPort DEF Jtag!Coming
<1> QED
    BY <1>2, <1>3, <1>5

LEMMA JtagEdgeCache ==
    ASSUME Jtag!Inv, Jtag!Clock
    PROVE  Jtag!CacheFollowed'
<1> DEFINE q == Jtag!Coming
           c == Jtag!Offer
           H(r, w) == Jtag!Holds(r, tap, disturbed, Len(r), w)
<1>1. /\ q \in Seq(PhyCmds) /\ c \in PhyCmds
      /\ IF ~PHY_WREN /\ PHY_WREN' THEN q' = Append(q, c) ELSE q' = q
    BY JtagComing DEF Jtag!Inv
<1>2. tap' = tap /\ disturbed' = disturbed
    BY DEF Jtag!Clock, Jtag!target
<1>3. /\ Jtag!ScansMeant(q, tap, disturbed)
      /\ state \in {"IDCODE", "ABORT"} => \A w \in Jtag!Instr : H(q, w)
      /\ state = "SAVE_IR" => H(q, Jtag!InstrFor(req))
      /\ state # "SAVE_IR" /\ ~(state = "SET_IR" /\ PHY_WREN) /\ ir # "NONE" => H(q, ir)
    BY DEF Jtag!Inv, Jtag!CacheFollowed, Jtag!Leaves
<1>4. Len(Append(q, c)) = Len(q) + 1
    BY <1>1, AppendFacts
<1>5. /\ \A w : Jtag!Leaves(w)' <=> H(q', w)
      /\ Jtag!Leaves(ir)' <=> H(q', ir')
      /\ Jtag!Leaves(Jtag!InstrFor(req))' <=> H(q', Jtag!InstrFor(req)')
      /\ Jtag!ScansMeant(Jtag!Coming, tap, disturbed)' <=> Jtag!ScansMeant(q', tap, disturbed)
    BY <1>2 DEF Jtag!Leaves, Jtag!ScansMeant, Jtag!Holds, Jtag!LastSetter, Jtag!Fine
<1>6. ir \in Jtag!Instr
    BY DEF Jtag!Inv, Jtag!TypeOK, Jtag!Instr
<1>7. /\ Jtag!InstrFor(req) \in Jtag!Instr \ {"NONE"}
      /\ state \in Jtag!Ordinary \ {"SET_IR", "SAVE_IR"} => ir = Jtag!InstrFor(req)
    BY DEF Jtag!InstrFor, Jtag!Instr, Jtag!Ordinary, Jtag!Inv, Jtag!CommandFollowed
<1>8. CASE ~PHY_WREN /\ ~PHY_WREN' /\ UNCHANGED <<PHY_WRDATA, phyq>>
  <2>1. q' = q
      BY <1>1, <1>8
  <2>2. state' \in {"IDCODE", "ABORT"} => state' = state
      BY <1>8 DEF Jtag!Clock, Jtag!Step, Jtag!Idle, Jtag!SetIr, Jtag!SaveIr, Jtag!Cmd, Jtag!Access,
                  Jtag!AbortDone, Jtag!ResetDone, Jtag!Response, Jtag!Await, Jtag!Send
  <2>3. state' # "SAVE_IR"
      BY <1>8 DEF Jtag!Clock, Jtag!Step, Jtag!Idle, Jtag!SetIr, Jtag!SaveIr, Jtag!Cmd, Jtag!Access,
                  Jtag!AbortDone, Jtag!ResetDone, Jtag!Response, Jtag!Await, Jtag!Send
  <2>4. ir' = IF state = "SAVE_IR" THEN Jtag!InstrFor(req) ELSE ir
      BY DEF Jtag!Clock, Jtag!Step, Jtag!Idle, Jtag!SetIr, Jtag!SaveIr, Jtag!Cmd, Jtag!Access,
             Jtag!AbortDone, Jtag!ResetDone, Jtag!Response, Jtag!Await, Jtag!Keep
  <2> HIDE DEF q, c, H
  <2>5. ir' # "NONE" => H(q, ir')
      BY <1>3, <1>8, <2>4
  <2>6. state' \in {"IDCODE", "ABORT"} => \A w \in Jtag!Instr : H(q, w)
      BY <1>3, <2>2
  <2>7. /\ Jtag!ScansMeant(Jtag!Coming, tap, disturbed)'
        /\ state' \in {"IDCODE", "ABORT"} => \A w \in Jtag!Instr : Jtag!Leaves(w)'
        /\ ir' # "NONE" => Jtag!Leaves(ir)'
      BY <1>3, <1>5, <2>1, <2>5, <2>6
  <2> QED
      BY <2>3, <2>7 DEF Jtag!CacheFollowed
<1>9. CASE /\ ~PHY_WREN /\ PHY_WREN' /\ Len(phyq) < PhyDepth
           /\ PHY_WRDATA' = Jtag!Offer /\ state \in Jtag!Offering
           /\ state = "SET_IR" => ir # Jtag!InstrFor(req)
           /\ state = "CMD" => Jtag!IsIdcode(req) \/ Jtag!IsLine(req)
           /\ UNCHANGED <<state, ir, req, phyq>>
  <2>1. q' = Append(q, c)
      BY <1>1, <1>9
  <2>2. /\ state \in {"IDCODE", "DPWRITE", "DPREAD", "APACCESS", "FLUSH", "CHECK", "ABORT"}
             => ~Jtag!Setter(c)
        /\ state \in {"CMD", "ABORT_IR"} => Jtag!Setter(c) /\ Jtag!Sets(c) = Jtag!Instr
        /\ c.op \in {"DR_WRITE", "DR_READ"} =>
             \/ state = "IDCODE" /\ c.want = "IDCODE"
             \/ state = "ABORT" /\ c.want = "ABORT"
             \/ state \in Jtag!Ordinary \ {"SET_IR", "SAVE_IR"} /\ c.want = Jtag!InstrFor(req)
      BY <1>9 DEF Jtag!Offer, Jtag!Offering, Jtag!Setter, Jtag!Sets, Jtag!PhyCmd, Jtag!Ordinary
  <2>3. ASSUME NEW w, ~Jtag!Setter(c), H(q, w)
        PROVE  H(Append(q, c), w)
      BY <1>1, <1>4, <2>3, HoldsBehind
  <2>4. ASSUME NEW w \in Jtag!Instr, Jtag!Setter(c), Jtag!Sets(c) = Jtag!Instr
        PROVE  H(Append(q, c), w)
      BY <1>1, <1>4, <2>4, HoldsSet
  <2>5. c.op \in {"DR_WRITE", "DR_READ"} => H(q, c.want)
    <3>1. "IDCODE" \in Jtag!Instr /\ "ABORT" \in Jtag!Instr
        BY DEF Jtag!Instr
    <3>2. CASE state \in Jtag!Ordinary \ {"SET_IR", "SAVE_IR"} /\ c.want = Jtag!InstrFor(req)
      <4> HIDE DEF q, c, H
      <4>1. ir = Jtag!InstrFor(req) /\ ir # "NONE"
          BY <1>7, <3>2
      <4> QED
          BY <1>3, <3>2, <4>1
    <3> HIDE DEF q, c, H
    <3> QED
        BY <1>3, <2>2, <3>1, <3>2
  <2>6. Jtag!ScansMeant(Append(q, c), tap, disturbed)
      BY <1>1, <1>3, <2>5, ScansAppend
  <2>7. state # "SAVE_IR"
      BY <1>9 DEF Jtag!Offering
  <2>8. state \in {"IDCODE", "ABORT"} => \A w \in Jtag!Instr : H(Append(q, c), w)
    <3> HIDE DEF q, c, H
    <3> QED
        BY <1>3, <2>2, <2>3
  <2>9. state # "SET_IR" /\ ir # "NONE" => H(Append(q, c), ir)
    <3>1. CASE state \in {"CMD", "ABORT_IR"}
        BY <1>6, <2>2, <2>4, <3>1
    <3>2. CASE state \in {"IDCODE", "DPWRITE", "DPREAD", "APACCESS", "FLUSH", "CHECK", "ABORT"}
      <4> HIDE DEF q, c, H
      <4>1. ir # "NONE" => H(q, ir)
          BY <1>3, <2>7, <3>2
      <4> QED
          BY <2>2, <2>3, <3>2, <4>1
    <3> QED
        BY <1>9, <3>1, <3>2 DEF Jtag!Offering
  <2>10. /\ Jtag!ScansMeant(Jtag!Coming, tap, disturbed)'
         /\ state' \in {"IDCODE", "ABORT"} => \A w \in Jtag!Instr : Jtag!Leaves(w)'
         /\ state' # "SET_IR" /\ ir' # "NONE" => Jtag!Leaves(ir)'
         /\ state' # "SAVE_IR"
    <3>1. state' = state /\ ir' = ir
        BY <1>9
    <3> HIDE DEF q, c, H
    <3> QED
        BY <1>5, <2>1, <2>6, <2>7, <2>8, <2>9, <3>1
  <2> QED
      BY <1>9, <2>10 DEF Jtag!CacheFollowed
<1>10. CASE PHY_WREN /\ ~PHY_WREN' /\ UNCHANGED <<ir, req>>
  <2>1. q' = q
      BY <1>1, <1>10
  <2>2. PHY_WRDATA = c /\ state \in Jtag!Offering
      BY <1>10 DEF Jtag!Inv, Jtag!OfferTaken
  <2>3. q = Append(phyq, c) /\ phyq \in Seq(PhyCmds) /\ Len(q) = Len(phyq) + 1
      BY <1>1, <1>10, <2>2, AppendFacts, JtagTyped DEF Jtag!Coming, Jtag!Inv
  <2>4. ASSUME NEW w, Jtag!Setter(c), w \in Jtag!Sets(c)
        PROVE  H(q, w)
      BY <1>1, <2>3, <2>4, HoldsSet
  <2>5. /\ state' \in {"IDCODE", "ABORT"} => state \in {"CMD", "ABORT_IR", "IDCODE", "ABORT"}
        /\ state' = "SAVE_IR" <=> state = "SET_IR"
        /\ state' # "SET_IR"
      BY <1>10, <2>2, JtagPort DEF Jtag!Offering, Jtag!Inv
  <2>6. /\ state \in {"CMD", "ABORT_IR"} => Jtag!Setter(c) /\ Jtag!Sets(c) = Jtag!Instr
        /\ state = "SET_IR" => Jtag!Setter(c) /\ Jtag!InstrFor(req) \in Jtag!Sets(c)
      BY DEF Jtag!Offer, Jtag!Setter, Jtag!Sets, Jtag!PhyCmd, Jtag!InstrFor
  <2> HIDE DEF q, c, H
  <2>7. state' \in {"IDCODE", "ABORT"} => \A w \in Jtag!Instr : H(q, w)
      BY <1>3, <2>4, <2>5, <2>6
  <2>8. state' = "SAVE_IR" => H(q, Jtag!InstrFor(req))
      BY <2>4, <2>5, <2>6
  <2>9. state' # "SAVE_IR" /\ ir # "NONE" => H(q, ir)
    <3>1. state # "SAVE_IR"
        BY <2>2 DEF Jtag!Offering
    <3> QED
        BY <1>3, <2>5, <3>1
  <2>10. Jtag!InstrFor(req)' = Jtag!InstrFor(req)
      BY <1>10 DEF Jtag!InstrFor
  <2>11. /\ Jtag!ScansMeant(Jtag!Coming, tap, disturbed)'
         /\ state' \in {"IDCODE", "ABORT"} => \A w \in Jtag!Instr : Jtag!Leaves(w)'
         /\ state' = "SAVE_IR" => Jtag!Leaves(Jtag!InstrFor(req))'
         /\ state' # "SAVE_IR" /\ ir' # "NONE" => Jtag!Leaves(ir)'
    <3>1. ir' = ir
        BY <1>10
    <3> QED
        BY <1>3, <1>5, <2>1, <2>7, <2>8, <2>9, <2>10, <3>1
  <2> QED
      BY <2>11 DEF Jtag!CacheFollowed
<1> QED
    BY <1>8, <1>9, <1>10, JtagPort DEF Jtag!Inv

-----------------------------------------------------------------------------
(* JTAG: the PHY, the client and the reset.                                *)

LEMMA JtagExecTypes ==
    ASSUME Jtag!Inv, Jtag!PhyExec
    PROVE  /\ Jtag!TypeOK'
           /\ phyq # <<>> /\ phyq' = Tail(phyq)
           /\ tap' = TapBehind(Head(phyq), tap)
           /\ disturbed' = DisturbedBehind(Head(phyq), disturbed)
           /\ IF Head(phyq).op = "DR_READ" THEN phyr = <<>> => Len(phyr') = 1 ELSE phyr' = phyr
<1> USE DEF Jtag!Inv, Jtag!TypeOK
<1>1. /\ phyq # <<>> /\ phyq' = Tail(phyq)
      /\ tap' = TapBehind(Head(phyq), tap)
      /\ disturbed' = DisturbedBehind(Head(phyq), disturbed)
      /\ scan' = IF Head(phyq).op \in {"DR_WRITE", "DR_READ"}
                 THEN [want |-> Head(phyq).want, got |-> tap, disturbed |-> disturbed]
                 ELSE scan
      /\ IF Head(phyq).op = "DR_READ"
         THEN \E a \in Jtag!Ack, d \in Data : phyr' = Append(phyr, [ack |-> a, data |-> d])
         ELSE UNCHANGED phyr
      /\ UNCHANGED <<cmdq, resp, pending, req>> /\ UNCHANGED Jtag!ctrl /\ UNCHANGED Jtag!port
      /\ UNCHANGED <<phy_dvalid, PHY_RDDATA>>
    BY DEF Jtag!PhyExec, TapBehind, DisturbedBehind, Jtag!client
<1>2. /\ Head(phyq) \in [op : Jtag!Ops, want : Jtag!Instr]
      /\ phyq' \in Seq([op : Jtag!Ops, want : Jtag!Instr]) /\ Len(phyq') <= PhyDepth
  <2>1. Len(Tail(phyq)) = Len(phyq) - 1 /\ Len(phyq) \in Nat
      BY <1>1, TailFacts
  <2>2. phyq \in Seq([op : Jtag!Ops, want : Jtag!Instr]) /\ Len(phyq) <= PhyDepth
      OBVIOUS
  <2>3. Head(phyq) \in [op : Jtag!Ops, want : Jtag!Instr]
        /\ Tail(phyq) \in Seq([op : Jtag!Ops, want : Jtag!Instr])
      BY <1>1, <2>2, TailFacts
  <2>4. Len(Tail(phyq)) <= PhyDepth
      BY <2>1, <2>2, DepthAssumption
  <2> QED
      BY <1>1, <2>3, <2>4
<1>3. tap' \in Jtag!Instr
    BY <1>1, <1>2 DEF TapBehind, Jtag!Instr
<1>4. disturbed' \in BOOLEAN
    BY <1>1, Zenon DEF DisturbedBehind
<1>5. scan' \in [want : Jtag!Instr, got : Jtag!Instr, disturbed : BOOLEAN]
    BY <1>1, <1>2
<1>6. /\ IF Head(phyq).op = "DR_READ" THEN phyr = <<>> => Len(phyr') = 1 ELSE phyr' = phyr
      /\ phyr' \in Seq([ack : Jtag!Ack, data : Data]) /\ Len(phyr') <= 1
  <2>1. CASE Head(phyq).op = "DR_READ"
    <3>1. PICK a \in Jtag!Ack, d \in Data : phyr' = Append(phyr, [ack |-> a, data |-> d])
        BY <1>1, <2>1
    <3>2. [ack |-> a, data |-> d] \in [ack : Jtag!Ack, data : Data]
        OBVIOUS
    <3>3. Head(phyq) = phyq[1] /\ 1 \in DOMAIN phyq
        BY <1>1, TailFacts, EmptyFacts
    <3>4. phyr = <<>>
        BY <2>1, <3>3 DEF Jtag!OneResponse
    <3>5. Len(phyr) = 0
        BY <3>4
    <3>6. Len(phyr') = 1 /\ phyr' \in Seq([ack : Jtag!Ack, data : Data])
        BY <3>1, <3>2, <3>5, AppendFacts
    <3> QED
        BY <2>1, <3>6
  <2>2. CASE Head(phyq).op # "DR_READ"
      BY <1>1, <2>2
  <2> QED
      BY <2>1, <2>2
<1>7. Jtag!TypeOK'
    BY <1>1, <1>2, <1>3, <1>4, <1>5, <1>6 DEF Jtag!ctrl, Jtag!port
<1> QED
    BY <1>1, <1>6, <1>7

LEMMA JtagExec ==
    ASSUME Jtag!Inv, Jtag!PhyExec
    PROVE  Jtag!Inv'
<1>1. /\ Jtag!TypeOK' /\ phyq # <<>> /\ phyq' = Tail(phyq)
      /\ tap' = TapBehind(Head(phyq), tap)
      /\ disturbed' = DisturbedBehind(Head(phyq), disturbed)
      /\ IF Head(phyq).op = "DR_READ" THEN phyr = <<>> => Len(phyr') = 1 ELSE phyr' = phyr
    BY JtagExecTypes
<1>2. /\ UNCHANGED <<cmdq, resp, pending, req>>
      /\ UNCHANGED <<dvalid, busy, state, ir, retries, stat, dati, wren>>
      /\ UNCHANGED <<PHY_WREN, PHY_WRDATA, phy_dvalid, PHY_RDDATA>>
    BY DEF Jtag!PhyExec, Jtag!client, Jtag!ctrl, Jtag!port
<1>3. /\ phyq \in Seq(PhyCmds) /\ PHY_WRDATA \in PhyCmds
      /\ Len(phyq) \in Nat \ {0} /\ Len(phyq') = Len(phyq) - 1
      /\ \A i \in 1..Len(phyq) - 1 : phyq'[i] = phyq[i + 1]
      /\ Head(phyq) = phyq[1] /\ DOMAIN phyq = 1..Len(phyq) /\ DOMAIN phyq' = 1..Len(phyq) - 1
      /\ Head(phyq) \in PhyCmds
  <2>1. phyq \in Seq(PhyCmds) /\ PHY_WRDATA \in PhyCmds
      BY JtagTyped DEF Jtag!Inv
  <2>2. phyq' \in Seq(PhyCmds)
      BY <1>1, <2>1, TailFacts
  <2> QED
      BY <1>1, <2>1, <2>2, TailFacts, EmptyFacts
<1>4. Jtag!CommandFollowed'
    BY <1>2 DEF Jtag!Inv, Jtag!CommandFollowed, Jtag!IsLine, Jtag!IsIdcode, Jtag!InstrFor
<1>5. Jtag!OfferTaken'
  <2>1. Jtag!Offer' = Jtag!Offer
      BY <1>2 DEF Jtag!Offer, Jtag!InstrFor, Jtag!IsLine
  <2>2. PhyDepth \in Nat
      BY DepthAssumption
  <2> QED
      BY <1>2, <1>3, <2>1, <2>2 DEF Jtag!Inv, Jtag!OfferTaken, Jtag!InstrFor, Jtag!IsLine, Jtag!IsIdcode
<1>6. Jtag!DataOfResponse'
    BY <1>2 DEF Jtag!Inv, Jtag!DataOfResponse
<1>7. Jtag!OneResponse'
  <2>1. CASE state # "RESPONSE"
    <3>1. (\A i \in DOMAIN phyq : phyq[i].op # "DR_READ") /\ phyr = <<>> /\ ~phy_dvalid
        BY <2>1 DEF Jtag!Inv, Jtag!OneResponse
    <3>2. phyr' = <<>>
        BY <1>1, <1>3, <3>1
    <3>3. ASSUME NEW i \in DOMAIN phyq'
          PROVE  phyq'[i].op # "DR_READ"
      <4>1. i + 1 \in DOMAIN phyq /\ phyq'[i] = phyq[i + 1]
          BY <1>3
      <4> QED
          BY <3>1, <4>1
    <3> QED
        BY <1>2, <2>1, <3>1, <3>2, <3>3 DEF Jtag!OneResponse
  <2>2. CASE state = "RESPONSE"
    <3>1. /\ phyr = <<>> /\ ~phy_dvalid
          /\ \A i \in DOMAIN phyq : phyq[i].op = "DR_READ" <=> i = Len(phyq)
        BY <1>1, <2>2 DEF Jtag!Inv, Jtag!OneResponse
    <3>2. CASE Len(phyq) = 1
      <4>1. Head(phyq).op = "DR_READ"
          BY <1>3, <3>1, <3>2
      <4>2. phyq' = <<>>
          BY <1>1, <1>3, <3>2, EmptyFacts, TailFacts
      <4> QED
          BY <1>1, <1>2, <2>2, <3>1, <4>1, <4>2 DEF Jtag!OneResponse
    <3>3. CASE Len(phyq) # 1
      <4>1. Head(phyq).op # "DR_READ"
          BY <1>3, <3>1, <3>3
      <4>2. phyq' # <<>>
        <5>1. Len(phyq') # 0
            BY <1>3, <3>3
        <5> QED
            BY <5>1
      <4>3. ASSUME NEW i \in DOMAIN phyq'
            PROVE  phyq'[i].op = "DR_READ" <=> i = Len(phyq')
        <5>1. i + 1 \in DOMAIN phyq /\ phyq'[i] = phyq[i + 1]
            BY <1>3
        <5>2. i = Len(phyq') <=> i + 1 = Len(phyq)
            BY <1>3
        <5> QED
            BY <3>1, <5>1, <5>2
      <4> QED
          BY <1>1, <1>2, <2>2, <3>1, <4>1, <4>2, <4>3 DEF Jtag!OneResponse
    <3> QED
        BY <3>2, <3>3
  <2> QED
      BY <2>1, <2>2
<1>8. /\ Jtag!Coming \in Seq(PhyCmds) /\ Jtag!Coming # <<>> /\ Head(Jtag!Coming) = Head(phyq)
      /\ Jtag!Coming' = Tail(Jtag!Coming)
  <2>1. CASE PHY_WREN
      BY <1>1, <1>2, <1>3, <2>1, AppendFacts, TailAppend DEF Jtag!Coming
  <2>2. CASE ~PHY_WREN
      BY <1>1, <1>2, <1>3, <2>2 DEF Jtag!Coming
  <2> QED
      BY <2>1, <2>2
<1>9. Jtag!CacheFollowed'
  <2> DEFINE q == Jtag!Coming
             u == TapBehind(Head(q), tap)
             e == DisturbedBehind(Head(q), disturbed)
  <2>1. tap' = u /\ disturbed' = e /\ q' = Tail(q)
      BY <1>1, <1>8
  <2>2. Len(q) \in Nat \ {0} /\ Len(Tail(q)) = Len(q) - 1 /\ Len(q) \in 1..Len(q)
      BY <1>8, TailFacts
  <2>3. ASSUME NEW w \in Jtag!Instr, Jtag!Leaves(w)
        PROVE  Jtag!Leaves(w)'
    <3>1. Jtag!Holds(q, tap, disturbed, Len(q), w)
        BY <2>3 DEF Jtag!Leaves
    <3>2. Jtag!Holds(Tail(q), u, e, Len(q) - 1, w)
        BY <1>8, <2>2, <3>1, HoldsTail
    <3> HIDE DEF q, u, e
    <3>3. Jtag!Holds(q', tap', disturbed', Len(q'), w)
        BY <2>1, <2>2, <3>2
    <3> QED
        BY <3>3 DEF Jtag!Leaves, q, Jtag!Holds, Jtag!LastSetter, Jtag!Fine
  <2>4. Jtag!ScansMeant(Jtag!Coming, tap, disturbed)'
    <3>1. Jtag!ScansMeant(q, tap, disturbed)
        BY DEF Jtag!Inv, Jtag!CacheFollowed
    <3>2. Jtag!ScansMeant(Tail(q), u, e)
        BY <1>8, <3>1, ScansTail
    <3> HIDE DEF q, u, e
    <3>3. Jtag!ScansMeant(q', tap', disturbed')
        BY <2>1, <3>2
    <3> QED
        BY <3>3 DEF q, Jtag!ScansMeant, Jtag!Holds, Jtag!LastSetter, Jtag!Fine
  <2>5. ir \in Jtag!Instr /\ Jtag!InstrFor(req) \in Jtag!Instr
      BY DEF Jtag!Inv, Jtag!TypeOK, Jtag!Instr, Jtag!InstrFor
  <2>6. /\ Jtag!Leaves(ir)' <=> Jtag!Holds(q', tap', disturbed', Len(q'), ir)
        /\ Jtag!Leaves(Jtag!InstrFor(req))' <=> Jtag!Holds(q', tap', disturbed', Len(q'), Jtag!InstrFor(req))
        /\ \A w : Jtag!Leaves(w)' <=> Jtag!Holds(q', tap', disturbed', Len(q'), w)
      BY <1>2 DEF Jtag!Leaves, Jtag!Holds, Jtag!LastSetter, Jtag!Fine, Jtag!InstrFor
  <2> HIDE DEF q, u, e
  <2>7. /\ state \in {"IDCODE", "ABORT"} => \A w \in Jtag!Instr : Jtag!Leaves(w)'
        /\ state = "SAVE_IR" => Jtag!Leaves(Jtag!InstrFor(req))'
        /\ state # "SAVE_IR" /\ ~(state = "SET_IR" /\ PHY_WREN) /\ ir # "NONE" => Jtag!Leaves(ir)'
      BY <2>3, <2>5, <2>6 DEF Jtag!Inv, Jtag!CacheFollowed
  <2> QED
      BY <1>2, <2>4, <2>7 DEF Jtag!CacheFollowed
<1>10. Jtag!ScanFollowsCache'
  <2> DEFINE c == Head(phyq)
  <2>1. scan' = IF c.op \in {"DR_WRITE", "DR_READ"}
                THEN [want |-> c.want, got |-> tap, disturbed |-> disturbed]
                ELSE scan
      BY DEF Jtag!PhyExec
  <2>2. CASE c.op \in {"DR_WRITE", "DR_READ"}
    <3>1. 1 \in 1..Len(Jtag!Coming) /\ Jtag!Coming[1] = c
        BY <1>8, TailFacts
    <3>2. Jtag!Holds(Jtag!Coming, tap, disturbed, 0, c.want)
        BY <2>2, <3>1 DEF Jtag!Inv, Jtag!CacheFollowed, Jtag!ScansMeant
    <3>3. c.want \in Jtag!Fine(tap, disturbed)
        BY <3>2 DEF Jtag!Holds, Jtag!LastSetter
    <3> QED
        BY <2>1, <2>2, <3>3 DEF Jtag!Fine, Jtag!ScanFollowsCache
  <2>3. CASE c.op \notin {"DR_WRITE", "DR_READ"}
      BY <2>1, <2>3 DEF Jtag!Inv, Jtag!ScanFollowsCache
  <2> QED
      BY <2>2, <2>3
<1>11. Jtag!NoStrayResponse'
    BY <1>7, JtagStray, PTL
<1> QED
    BY <1>1, <1>4, <1>5, <1>6, <1>7, <1>9, <1>10, <1>11 DEF Jtag!Inv

LEMMA JtagEdge ==
    ASSUME Jtag!Inv, AnswersCounted, Jtag!Clock
    PROVE  Jtag!Inv' /\ AnswersCounted'
<1>1. ClientOK /\ ClientEdge
    BY JtagEdgeClient
<1>2. AnswersCounted'
    BY <1>1, CountEdge
<1>3. /\ cmdq' \in Seq(Reqs) /\ resp' \in Seq(Answers)
  <2>1. [data |-> dati, stat |-> stat] \in Answers
      BY <1>1 DEF ClientOK, Answers
  <2>2. resp' \in Seq(Answers)
      BY <1>1, <2>1, AppendFacts DEF ClientOK, ClientEdge
  <2>3. cmdq' \in Seq(Reqs)
      BY <1>1, TailFacts DEF ClientOK, ClientEdge
  <2> QED
      BY <2>2, <2>3
<1>4. Len(resp') <= Depth
  <2>1. (cmdq \in Seq(Reqs))' /\ (resp \in Seq(Answers))'
      BY <1>3
  <2>2. (Len(resp) <= Depth)'
      BY <1>2, <2>1, AnswersFit, PTL
  <2> QED
      BY <2>2
<1>5. Jtag!TypeOK'
    BY <1>4, JtagEdgeTypes
<1>6. Jtag!OneResponse'
    BY JtagEdgeResponse
<1>7. Jtag!NoStrayResponse'
    BY <1>6, JtagStray, PTL
<1> QED
    BY <1>2, <1>5, <1>6, <1>7, JtagEdgeCommand, JtagEdgeOffer, JtagEdgeData, JtagEdgeCache DEF Jtag!Inv

\* The client's own steps, and a reset, leave the rest of the controller alone.
LEMMA JtagRest ==
    ASSUME Jtag!Inv, Jtag!TypeOK',
           UNCHANGED <<req, dvalid, busy, state, ir, retries, stat, dati, wren>>,
           UNCHANGED <<PHY_WREN, PHY_WRDATA, phyq, phyr, phy_dvalid, PHY_RDDATA>>,
           UNCHANGED <<tap, scan, disturbed>>
    PROVE  Jtag!Inv'
<1>1. Jtag!CommandFollowed' /\ Jtag!OfferTaken'
    BY DEF Jtag!Inv, Jtag!CommandFollowed, Jtag!OfferTaken, Jtag!Offer, Jtag!IsLine, Jtag!IsIdcode,
           Jtag!InstrFor
<1>2. Jtag!OneResponse' /\ Jtag!NoStrayResponse'
    BY DEF Jtag!Inv, Jtag!OneResponse, Jtag!NoStrayResponse
<1>3. Jtag!DataOfResponse' /\ Jtag!ScanFollowsCache'
    BY DEF Jtag!Inv, Jtag!DataOfResponse, Jtag!ScanFollowsCache
<1>4. Jtag!CacheFollowed'
    BY DEF Jtag!Inv, Jtag!CacheFollowed, Jtag!Leaves, Jtag!Coming, Jtag!ScansMeant, Jtag!Holds,
           Jtag!LastSetter, Jtag!Fine, Jtag!InstrFor
<1> QED
    BY <1>1, <1>2, <1>3, <1>4 DEF Jtag!Inv

LEMMA JtagWrite ==
    ASSUME Jtag!Inv, AnswersCounted, NEW r \in JtagReq, Jtag!Write(r)
    PROVE  Jtag!Inv' /\ AnswersCounted'
<1>1. /\ Len(cmdq) < Depth /\ pending < Depth /\ cmdq' = Append(cmdq, r)
      /\ pending' = IF Jtag!IsLine(r) THEN pending ELSE pending + 1
      /\ UNCHANGED <<resp, req, dvalid, busy, state, ir, retries, stat, dati, wren>>
      /\ UNCHANGED <<PHY_WREN, PHY_WRDATA, phyq, phyr, phy_dvalid, PHY_RDDATA>>
      /\ UNCHANGED <<tap, scan, disturbed>>
    BY DEF Jtag!Write, Jtag!ctrl, Jtag!port, Jtag!phy, Jtag!target
<1>2. r \in Reqs
    BY ReqAssumption DEF Reqs
<1>3. ClientOK
    BY JtagTyped DEF ClientOK, Jtag!Inv, Jtag!CommandFollowed
<1>4. AnswersCounted'
    BY <1>1, <1>2, <1>3, CountWrite
<1>5. cmdq \in Seq(JtagReq) /\ Len(cmdq') = Len(cmdq) + 1 /\ Len(cmdq) \in Nat
      /\ cmdq' \in Seq(JtagReq)
    BY <1>1, AppendFacts DEF Jtag!Inv, Jtag!TypeOK
<1>6. Len(cmdq') <= Depth
    BY <1>1, <1>5, DepthAssumption
<1>7. Jtag!TypeOK'
    BY <1>1, <1>5, <1>6 DEF Jtag!Inv, Jtag!TypeOK
<1>8. Jtag!Inv'
    BY <1>1, <1>7, JtagRest
<1> QED
    BY <1>4, <1>8

LEMMA JtagRead ==
    ASSUME Jtag!Inv, AnswersCounted, Jtag!Read
    PROVE  Jtag!Inv' /\ AnswersCounted'
<1>1. /\ resp # <<>> /\ resp' = Tail(resp) /\ pending' = pending - 1
      /\ UNCHANGED <<cmdq, req, dvalid, busy, state, ir, retries, stat, dati, wren>>
      /\ UNCHANGED <<PHY_WREN, PHY_WRDATA, phyq, phyr, phy_dvalid, PHY_RDDATA>>
      /\ UNCHANGED <<tap, scan, disturbed>>
    BY DEF Jtag!Read, Jtag!ctrl, Jtag!port, Jtag!phy, Jtag!target
<1>2. ClientOK
    BY JtagTyped DEF ClientOK, Jtag!Inv, Jtag!CommandFollowed
<1>3. AnswersCounted'
    BY <1>1, <1>2, CountAnswer
<1>4. resp \in Seq([data : Data, stat : Jtag!Stat]) /\ Len(resp) <= Depth
    BY DEF Jtag!Inv, Jtag!TypeOK
<1>5. resp' \in Seq([data : Data, stat : Jtag!Stat])
      /\ Len(resp') = Len(resp) - 1 /\ Len(resp) \in Nat
    BY <1>1, <1>4, TailFacts
<1>6. Len(resp') <= Depth
    BY <1>4, <1>5, DepthAssumption
<1>7. Jtag!TypeOK'
    BY <1>1, <1>5, <1>6 DEF Jtag!Inv, Jtag!TypeOK
<1>8. Jtag!Inv'
    BY <1>1, <1>7, JtagRest
<1> QED
    BY <1>3, <1>8

LEMMA JtagReset ==
    ASSUME Jtag!Inv, Jtag!Reset
    PROVE  Jtag!Inv' /\ AnswersCounted'
<1>1. /\ ~busy /\ ~wren
      /\ cmdq' = <<>> /\ resp' = <<>> /\ pending' = 0 /\ phyq' = <<>> /\ phyr' = <<>>
      /\ state' = "IDLE" /\ dvalid' = FALSE /\ phy_dvalid' = FALSE /\ ir' = "NONE"
      /\ UNCHANGED <<req, busy, retries, stat, dati, wren, PHY_WREN, PHY_WRDATA, PHY_RDDATA>>
      /\ UNCHANGED <<tap, scan, disturbed>>
    BY DEF Jtag!Reset, Jtag!port, Jtag!target
<1>2. state = "IDLE" /\ ~PHY_WREN
    BY <1>1 DEF Jtag!Inv, Jtag!CommandFollowed, Jtag!OfferTaken, Jtag!Offering
<1>3. Jtag!TypeOK'
  <2>1. cmdq' \in Seq(JtagReq) /\ resp' \in Seq([data : Data, stat : Jtag!Stat])
        /\ phyq' \in Seq([op : Jtag!Ops, want : Jtag!Instr])
        /\ phyr' \in Seq([ack : Jtag!Ack, data : Data])
        /\ Len(cmdq') = 0 /\ Len(resp') = 0 /\ Len(phyq') = 0 /\ Len(phyr') = 0
      BY <1>1
  <2>2. Len(cmdq') <= Depth /\ Len(resp') <= Depth /\ Len(phyq') <= PhyDepth /\ Len(phyr') <= 1
      BY <2>1, DepthAssumption
  <2>3. dvalid' \in BOOLEAN /\ phy_dvalid' \in BOOLEAN
      BY <1>1
  <2>4. state' \in Jtag!States /\ ir' \in {"NONE", "DPACC", "APACC"}
      BY <1>1 DEF Jtag!States
  <2> QED
      BY <1>1, <2>1, <2>2, <2>3, <2>4 DEF Jtag!Inv, Jtag!TypeOK
<1>4. Jtag!CommandFollowed' /\ Jtag!OfferTaken'
    BY <1>1, <1>2 DEF Jtag!CommandFollowed, Jtag!OfferTaken, Jtag!Ordinary
<1>5. Jtag!OneResponse' /\ Jtag!NoStrayResponse'
  <2>1. DOMAIN phyq' = {}
      BY <1>1
  <2> QED
      BY <1>1, <2>1 DEF Jtag!OneResponse, Jtag!NoStrayResponse
<1>6. Jtag!DataOfResponse' /\ Jtag!ScanFollowsCache'
    BY <1>1 DEF Jtag!Inv, Jtag!DataOfResponse, Jtag!ScanFollowsCache
<1>7. Jtag!CacheFollowed'
  <2>1. Len(Jtag!Coming') = 0
      BY <1>1, <1>2 DEF Jtag!Coming
  <2> QED
      BY <1>1, <2>1 DEF Jtag!CacheFollowed, Jtag!ScansMeant
<1>8. AnswersCounted'
  <2>1. ~busy' /\ ~wren' /\ Len(resp') = 0
      BY <1>1
  <2>2. Counted(cmdq', 0, pending')
      BY <1>1, CountEmpty
  <2>3. Len(resp') + (IF wren' THEN 1 ELSE 0) + (IF busy' /\ ~Jtag!IsLine(req') THEN 1 ELSE 0) = 0
      BY <2>1
  <2>4. Counted(cmdq', Len(resp') + (IF wren' THEN 1 ELSE 0)
                         + (IF busy' /\ ~Jtag!IsLine(req') THEN 1 ELSE 0), pending')
      BY <2>2, <2>3
  <2> QED
      BY <2>4 DEF AnswersCounted, Counted, Jtag!IsLine
<1> QED
    BY <1>3, <1>4, <1>5, <1>6, <1>7, <1>8 DEF Jtag!Inv

LEMMA JtagInit ==
    ASSUME Jtag!Init
    PROVE  Jtag!Inv /\ AnswersCounted
<1> USE DEF Jtag!Init
<1>1. Jtag!TypeOK
  <2>1. cmdq \in Seq(JtagReq) /\ resp \in Seq([data : Data, stat : Jtag!Stat])
        /\ phyq \in Seq([op : Jtag!Ops, want : Jtag!Instr])
        /\ phyr \in Seq([ack : Jtag!Ack, data : Data])
        /\ Len(cmdq) = 0 /\ Len(resp) = 0 /\ Len(phyq) = 0 /\ Len(phyr) = 0
      OBVIOUS
  <2>2. PHY_RDDATA \in [ack : Jtag!Ack, data : Data] /\ stat \in Jtag!Stat /\ state \in Jtag!States
        /\ PHY_WRDATA \in [op : Jtag!Ops, want : Jtag!Instr] /\ tap \in Jtag!Instr
        /\ scan \in [want : Jtag!Instr, got : Jtag!Instr, disturbed : BOOLEAN]
      BY DEF Jtag!Ack, Jtag!Stat, Jtag!States, Jtag!Ops, Jtag!Instr, Jtag!PhyCmd
  <2>3. Len(cmdq) <= Depth /\ Len(resp) <= Depth /\ Len(phyq) <= PhyDepth /\ Len(phyr) <= 1
      BY <2>1, DepthAssumption
  <2>4. /\ dvalid \in BOOLEAN /\ busy \in BOOLEAN /\ wren \in BOOLEAN /\ PHY_WREN \in BOOLEAN
        /\ phy_dvalid \in BOOLEAN /\ disturbed \in BOOLEAN
      OBVIOUS
  <2>5. retries \in 0..JtagRetryMax /\ ir \in {"NONE", "DPACC", "APACC"}
      BY RetryAssumption
  <2>6. req \in JtagReq /\ dati \in Data
      OBVIOUS
  <2> QED
      BY <2>1, <2>2, <2>3, <2>4, <2>5, <2>6 DEF Jtag!TypeOK
<1>2. Jtag!CommandFollowed /\ Jtag!OfferTaken
    BY DEF Jtag!CommandFollowed, Jtag!OfferTaken, Jtag!Ordinary
<1>3. Jtag!OneResponse /\ Jtag!NoStrayResponse
    BY DEF Jtag!OneResponse, Jtag!NoStrayResponse
<1>4. Jtag!DataOfResponse /\ Jtag!ScanFollowsCache
    BY DEF Jtag!DataOfResponse, Jtag!ScanFollowsCache
<1>5. Jtag!CacheFollowed
  <2>1. Len(Jtag!Coming) = 0
      BY DEF Jtag!Coming
  <2> QED
      BY <2>1 DEF Jtag!CacheFollowed, Jtag!ScansMeant
<1>6. AnswersCounted
  <2>1. Len(resp) + (IF wren THEN 1 ELSE 0) + (IF busy /\ ~Jtag!IsLine(req) THEN 1 ELSE 0) = 0
      OBVIOUS
  <2> QED
      BY <2>1, CountEmpty DEF AnswersCounted
<1> QED
    BY <1>1, <1>2, <1>3, <1>4, <1>5, <1>6 DEF Jtag!Inv

-----------------------------------------------------------------------------
(* Serial wire: an edge of the clock.                                      *)

LEMMA SwdTyped ==
    ASSUME Swd!TypeOK
    PROVE  /\ cmdq \in Seq(SwdReq) /\ cmdq \in Seq(Reqs) /\ req \in SwdReq /\ req \in Reqs
           /\ resp \in Seq(Answers) /\ dati \in Data /\ stat \in Jtag!Stat
           /\ phyq \in Seq(Swd!Kinds) /\ PHY_WRDATA \in Swd!Kinds
           /\ Len(phyq) \in Nat /\ PhyDepth \in Nat \ {0}
           /\ busy \in BOOLEAN /\ wren \in BOOLEAN /\ dvalid \in BOOLEAN
<1>1. SwdReq \subseteq Reqs
    BY ReqAssumption DEF Reqs
<1>2. cmdq \in Seq(Reqs)
    BY <1>1, SeqWider DEF Swd!TypeOK
<1>3. [data : Data, stat : {"OK", "FAULT"}] \subseteq Answers
    BY DEF Answers, Jtag!Stat
<1>4. resp \in Seq(Answers)
    BY <1>3, SeqWider DEF Swd!TypeOK
<1>5. stat \in Jtag!Stat
    BY DEF Swd!TypeOK, Jtag!Stat
<1> QED
    BY <1>1, <1>2, <1>4, <1>5, DepthAssumption DEF Swd!TypeOK

LEMMA SameLine == \A r : Swd!IsLine(r) <=> Jtag!IsLine(r)
BY DEF Swd!IsLine, Jtag!IsLine

LEMMA SwdEdgeClient ==
    ASSUME Swd!Inv, Swd!Clock
    PROVE  ClientOK /\ ClientEdge
<1>1. ClientOK
    BY SwdTyped DEF Swd!Inv, Swd!CommandFollowed, ClientOK
<1>2. dvalid \in BOOLEAN /\ busy \in BOOLEAN /\ wren \in BOOLEAN
    BY SwdTyped DEF Swd!Inv
<1>3. /\ state # "IDLE" => busy /\ ~wren
      /\ wren => ~busy
      /\ state \in {"SWITCH", "RESET2", "DONE"} => Swd!IsLine(req)
      /\ state \in {"FLUSH", "RESPONSE", "IGNORE"} => ~Swd!IsLine(req)
    BY DEF Swd!Inv, Swd!CommandFollowed
<1>4. IF Swd!Done THEN wren' <=> ~Swd!IsLine(req) ELSE ~wren'
  <2>1. CASE Swd!Idle
      BY <2>1 DEF Swd!Idle, Swd!Done
  <2>2. CASE Swd!Cmd \/ Swd!Sequence
      BY <1>3, <2>2 DEF Swd!Cmd, Swd!Sequence, Swd!Done, Swd!Keep
  <2>3. CASE Swd!LineDone
      BY <1>3, <2>3 DEF Swd!LineDone, Swd!Done, Swd!Keep
  <2>4. CASE Swd!GiveUp
      BY <1>3, <2>4 DEF Swd!GiveUp, Swd!Send, Swd!Done, Swd!Keep
  <2>5. CASE Swd!GoodResponse \/ Swd!BadResponse
      BY <1>3, <2>5 DEF Swd!GoodResponse, Swd!BadResponse, Swd!Done
  <2>6. CASE Swd!Ignore \/ Swd!Await
      BY <1>3, <2>6 DEF Swd!Ignore, Swd!Await, Swd!Done, Swd!Keep
  <2> QED
      BY <2>1, <2>2, <2>3, <2>4, <2>5, <2>6 DEF Swd!Clock, Swd!Step
<1>5. Swd!Done => busy
    BY <1>3 DEF Swd!Done
<1>6. /\ busy' = (~Swd!Done /\ (busy \/ Swd!rden))
      /\ cmdq' = IF Swd!rden THEN Tail(cmdq) ELSE cmdq
      /\ req' = IF Swd!rden THEN Head(cmdq) ELSE req
      /\ Swd!rden <=> cmdq # <<>> /\ ~busy
      /\ resp' = IF wren THEN Append(resp, [data |-> dati, stat |-> stat]) ELSE resp
      /\ pending' = pending
    BY DEF Swd!Clock, Swd!rden
<1>7. ClientEdge
  <2>1. CASE Swd!Done
      BY <1>4, <1>5, <1>6, <2>1, SameLine DEF ClientEdge
  <2>2. CASE ~Swd!Done /\ Swd!rden
      BY <1>4, <1>6, <2>2 DEF ClientEdge
  <2>3. CASE ~Swd!Done /\ ~Swd!rden
      BY <1>2, <1>4, <1>6, <2>3 DEF ClientEdge
  <2> QED
      BY <2>1, <2>2, <2>3
<1> QED
    BY <1>1, <1>7

LEMMA SwdReads ==
    ASSUME Swd!Inv, Swd!Clock
    PROVE  /\ Swd!rden => state = "IDLE" /\ state' = "IDLE" /\ ~dvalid
           /\ ~Swd!rden => req' = req
           /\ state' # "IDLE" => ~Swd!rden /\ busy /\ busy'
<1> USE DEF Swd!Clock, Swd!Step, Swd!Idle, Swd!Cmd, Swd!Sequence, Swd!LineDone, Swd!GiveUp,
            Swd!GoodResponse, Swd!BadResponse, Swd!Ignore, Swd!Await
<1>1. /\ state # "IDLE" => busy
      /\ dvalid => busy /\ state = "IDLE"
      /\ Swd!rden => ~busy
    BY DEF Swd!Inv, Swd!CommandFollowed, Swd!rden
<1>2. Swd!rden => state = "IDLE" /\ state' = "IDLE" /\ ~dvalid
    BY <1>1
<1>3. state' # "IDLE" => busy
    BY <1>1
<1>4. state' # "IDLE" => ~Swd!Done
    BY DEF Swd!Done
<1>5. busy' = (~Swd!Done /\ (busy \/ Swd!rden)) /\ (~Swd!rden => req' = req)
    OBVIOUS
<1> QED
    BY <1>1, <1>2, <1>3, <1>4, <1>5

LEMMA SwdEdgeCommand ==
    ASSUME Swd!Inv, Swd!Clock
    PROVE  Swd!CommandFollowed'
<1>1. /\ Swd!rden => state = "IDLE" /\ state' = "IDLE" /\ ~dvalid
      /\ ~Swd!rden => req' = req
      /\ state' # "IDLE" => ~Swd!rden /\ busy /\ busy'
    BY SwdReads
<1>2. wren' => ~busy'
    BY SwdEdgeClient DEF ClientEdge
<1>3. dvalid' => busy' /\ state' = "IDLE"
  <2>1. dvalid' => Swd!rden
      BY DEF Swd!Clock, Swd!Inv, Swd!CommandFollowed
  <2>2. Swd!rden => ~Swd!Done
      BY <1>1 DEF Swd!Done
  <2>3. Swd!rden => busy'
      BY <2>2 DEF Swd!Clock
  <2> QED
      BY <1>1, <2>1, <2>3
<1>4. ASSUME state' # "IDLE"
      PROVE  /\ state' \in {"SWITCH", "RESET2", "DONE"} => Swd!IsLine(req)
             /\ state' \in {"FLUSH", "RESPONSE", "IGNORE"} => ~Swd!IsLine(req)
             /\ ~(req.ap /\ req.rd) => addr' = req.addr /\ APnDP' = req.ap
  <2>1. /\ state \in {"SWITCH", "RESET2", "DONE"} => Swd!IsLine(req)
        /\ state \in {"FLUSH", "RESPONSE", "IGNORE"} => ~Swd!IsLine(req)
        /\ state # "IDLE" /\ ~(req.ap /\ req.rd) => addr = req.addr /\ APnDP = req.ap
        /\ req \in Reqs
      BY SwdTyped DEF Swd!Inv, Swd!CommandFollowed
  <2>2. CASE Swd!Idle
      BY <1>4, <2>2 DEF Swd!Idle
  <2>3. CASE Swd!Cmd
    <3>1. CASE req.rd
        BY <2>1, <2>3, <3>1 DEF Swd!Cmd, Swd!Send, Swd!Keep, Swd!IsLine
    <3>2. CASE ~req.rd
        BY <2>1, <2>3, <3>2 DEF Swd!Cmd, Swd!Send, Swd!Keep, Swd!IsLine
    <3> QED
        BY <3>1, <3>2
  <2>4. CASE Swd!Sequence
      BY <2>1, <2>4 DEF Swd!Sequence, Swd!Send, Swd!Keep
  <2>5. CASE Swd!LineDone \/ Swd!Ignore
      BY <1>4, <2>5 DEF Swd!LineDone, Swd!Ignore
  <2>6. CASE Swd!GiveUp
      BY <2>1, <2>6 DEF Swd!GiveUp, Swd!Send, Swd!Keep
  <2>7. CASE Swd!GoodResponse
      BY <1>4, <2>1, <2>7 DEF Swd!GoodResponse
  <2>8. CASE Swd!BadResponse \/ Swd!Await
      BY <2>1, <2>8 DEF Swd!BadResponse, Swd!Await, Swd!Keep
  <2> QED
      BY <2>2, <2>3, <2>4, <2>5, <2>6, <2>7, <2>8 DEF Swd!Clock, Swd!Step
<1>5. state' # "IDLE" =>
        /\ state' \in {"SWITCH", "RESET2", "DONE"} => Swd!IsLine(req')
        /\ state' \in {"FLUSH", "RESPONSE", "IGNORE"} => ~Swd!IsLine(req')
        /\ ~(req'.ap /\ req'.rd) => addr' = req'.addr /\ APnDP' = req'.ap
    BY <1>1, <1>4
<1> QED
    BY <1>1, <1>2, <1>3, <1>5 DEF Swd!CommandFollowed, Swd!IsLine

LEMMA SwdEdgeTypes ==
    ASSUME Swd!Inv, Swd!Clock, Len(resp') <= Depth
    PROVE  Swd!TypeOK'
<1> USE DEF Swd!Inv, Swd!TypeOK, Swd!Clock
<1>1. cmdq' \in Seq(SwdReq) /\ Len(cmdq') <= Depth /\ req' \in SwdReq
  <2>1. CASE Swd!rden
    <3>1. cmdq # <<>> /\ cmdq' = Tail(cmdq) /\ req' = Head(cmdq)
        BY <2>1 DEF Swd!rden
    <3>2. Len(cmdq') = Len(cmdq) - 1 /\ Len(cmdq) \in Nat
        BY <3>1, TailFacts
    <3> QED
        BY <3>1, <3>2, DepthAssumption, TailFacts
  <2>2. CASE ~Swd!rden
      BY <2>2
  <2> QED
      BY <2>1, <2>2
<1>2. resp' \in Seq([data : Data, stat : {"OK", "FAULT"}])
  <2>1. [data |-> dati, stat |-> stat] \in [data : Data, stat : {"OK", "FAULT"}]
      OBVIOUS
  <2> QED
      BY <2>1, AppendFacts
<1>3. dvalid' \in BOOLEAN /\ busy' \in BOOLEAN
    OBVIOUS
<1>4. addr' \in 0..3 /\ APnDP' \in BOOLEAN
  <2>1. req.addr \in 0..3 /\ req.ap \in BOOLEAN
      BY SwdTyped DEF Reqs
  <2>2. CASE Swd!Idle
    <3>1. \/ addr' = req.addr /\ APnDP' = req.ap
          \/ addr' = addr /\ APnDP' = APnDP
        BY <2>2 DEF Swd!Idle
    <3>2. addr \in 0..3 /\ APnDP \in BOOLEAN
        OBVIOUS
    <3> QED
        BY <2>1, <3>1, <3>2
  <2>3. CASE Swd!GoodResponse
    <3>1. \/ addr' = 3 /\ APnDP' = FALSE
          \/ addr' = addr /\ APnDP' = APnDP
        BY <2>3 DEF Swd!GoodResponse
    <3>2. addr \in 0..3 /\ APnDP \in BOOLEAN
        OBVIOUS
    <3>3. FALSE \in BOOLEAN /\ 3 \in 0..3
        OBVIOUS
    <3> QED
        BY <3>1, <3>2, <3>3, Zenon
  <2>4. CASE ~Swd!Idle /\ ~Swd!GoodResponse
    <3>1. UNCHANGED <<addr, APnDP>>
        BY <2>4 DEF Swd!Step, Swd!Cmd, Swd!Sequence, Swd!LineDone, Swd!GiveUp, Swd!BadResponse,
                    Swd!Ignore, Swd!Await, Swd!Keep
    <3> QED
        BY <3>1
  <2> QED
      BY <2>2, <2>3, <2>4
<1>5. state' \in Swd!States
    BY DEF Swd!Step, Swd!Idle, Swd!Cmd, Swd!Sequence, Swd!LineDone, Swd!GiveUp, Swd!Send,
           Swd!GoodResponse, Swd!BadResponse, Swd!Ignore, Swd!Await, Swd!Keep, Swd!States
<1>6. retries' \in 0..SwdRetryMax
  <2>1. CASE Swd!BadResponse
    <3>1. retries # SwdRetryMax /\ retries' = retries + 1
        BY <2>1 DEF Swd!BadResponse
    <3>2. retries \in 0..SwdRetryMax
        OBVIOUS
    <3> QED
        BY <3>1, <3>2, RetryAssumption
  <2>2. CASE ~Swd!BadResponse
    <3>1. retries' \in {0, retries}
        BY <2>2, Zenon DEF Swd!Step, Swd!Idle, Swd!Cmd, Swd!Sequence, Swd!LineDone, Swd!GiveUp,
               Swd!GoodResponse, Swd!Ignore, Swd!Await, Swd!Keep
    <3>2. retries \in 0..SwdRetryMax /\ 0 \in 0..SwdRetryMax
        BY RetryAssumption
    <3> QED
        BY <3>1, <3>2, Zenon
  <2> QED
      BY <2>1, <2>2
<1>7. stat' \in {"OK", "FAULT"} /\ dati' \in Data /\ wren' \in BOOLEAN
  <2>1. Swd!Zero \in Data
      BY DEF Swd!Zero
  <2> QED
      BY <2>1 DEF Swd!Step, Swd!Idle, Swd!Cmd, Swd!Sequence, Swd!LineDone, Swd!GiveUp,
              Swd!GoodResponse, Swd!BadResponse, Swd!Ignore, Swd!Await, Swd!Keep
<1>8. PHY_WREN' \in BOOLEAN /\ PHY_WRDATA' \in Swd!Kinds
    BY DEF Swd!Step, Swd!Idle, Swd!Cmd, Swd!Sequence, Swd!LineDone, Swd!GiveUp, Swd!Send,
           Swd!GoodResponse, Swd!BadResponse, Swd!Ignore, Swd!Await, Swd!port, Swd!Kinds
<1>9. phyq' \in Seq(Swd!Kinds) /\ Len(phyq') <= PhyDepth
  <2>1. CASE PHY_WREN /\ Len(phyq) < PhyDepth
    <3>1. phyq' = Append(phyq, PHY_WRDATA)
        BY <2>1
    <3>2. phyq' \in Seq(Swd!Kinds) /\ Len(phyq') = Len(phyq) + 1 /\ Len(phyq) \in Nat
        BY <3>1, AppendFacts
    <3> QED
        BY <2>1, <3>2, DepthAssumption
  <2>2. CASE ~(PHY_WREN /\ Len(phyq) < PhyDepth)
      BY <2>2
  <2> QED
      BY <2>1, <2>2
<1>10. /\ phyr' \in Seq([ok : BOOLEAN, data : Data]) /\ Len(phyr') <= PhyDepth
       /\ PHY_RDDATA' \in [ok : BOOLEAN, data : Data]
  <2>1. CASE phyr = <<>>
      BY <2>1
  <2>2. CASE phyr # <<>>
    <3>1. Len(phyr) \in Nat /\ Len(Tail(phyr)) = Len(phyr) - 1
        BY <2>2, TailFacts
    <3>2. phyr' = Tail(phyr) /\ PHY_RDDATA' = Head(phyr)
        BY <2>2
    <3>3. phyr \in Seq([ok : BOOLEAN, data : Data]) /\ Len(phyr) <= PhyDepth
        OBVIOUS
    <3>4. Tail(phyr) \in Seq([ok : BOOLEAN, data : Data]) /\ Head(phyr) \in [ok : BOOLEAN, data : Data]
        BY <2>2, <3>3, TailFacts
    <3>5. Len(phyr') <= PhyDepth
        BY <3>1, <3>2, <3>3, DepthAssumption
    <3> QED
        BY <3>2, <3>4, <3>5
  <2> QED
      BY <2>1, <2>2
<1>11. phy_dvalid' \in BOOLEAN
    BY Zenon
<1>12. oks' \in 0..3 /\ gaveUp' \in BOOLEAN
  <2>1. oks' \in 0..3
      BY DEF Swd!Count
  <2>2. gaveUp' \in BOOLEAN
      BY Zenon DEF Swd!Count
  <2> QED
      BY <2>1, <2>2
<1> QED
    BY <1>1, <1>2, <1>3, <1>4, <1>5, <1>6, <1>7, <1>8, <1>9, <1>10, <1>11, <1>12

\* What an edge does to the command port while no command is given up.
LEMMA SwdPort ==
    ASSUME Swd!Inv, Swd!Clock, ~gaveUp'
    PROVE  /\ ~gaveUp /\ state # "IGNORE" /\ state' # "IGNORE" /\ ~Swd!GiveUp
           /\ \/ ~PHY_WREN /\ ~PHY_WREN' /\ UNCHANGED <<PHY_WRDATA, phyq>>
              \/ /\ ~PHY_WREN /\ PHY_WREN' /\ Len(phyq) < PhyDepth
                 /\ state \in {"CMD", "SWITCH", "RESET2", "FLUSH"}
                 /\ PHY_WRDATA' \in Swd!Answered <=> state = "CMD" /\ ~Swd!IsLine(req)
                 /\ UNCHANGED <<state, req, phyq>>
              \/ /\ PHY_WREN /\ ~PHY_WREN' /\ UNCHANGED <<PHY_WRDATA, req>>
                 /\ phyq' = Append(phyq, PHY_WRDATA)
                 /\ PHY_WRDATA \in Swd!Answered <=> state = "CMD" /\ ~Swd!IsLine(req)
                 /\ \/ state = "CMD" /\ ~Swd!IsLine(req) /\ state' \in {"FLUSH", "RESPONSE"}
                    \/ state = "CMD" /\ Swd!IsLine(req) /\ state' \in {"SWITCH", "DONE"}
                    \/ state = "SWITCH" /\ state' = "RESET2"
                    \/ state = "RESET2" /\ state' = "DONE"
                    \/ state = "FLUSH" /\ state' = "RESPONSE"
<1> USE DEF Swd!Clock, Swd!port, Swd!Keep
<1>1. ~gaveUp /\ ~Swd!GiveUp
    BY DEF Swd!Count, Swd!GiveUp
<1>2. state # "IGNORE" /\ Swd!OfferTaken
    BY <1>1 DEF Swd!Inv
<1>3. /\ state # "IDLE" => ~Swd!rden
      /\ ~Swd!rden => req' = req
    BY DEF Swd!Inv, Swd!CommandFollowed, Swd!rden
<1>4. PHY_WREN \in BOOLEAN
    BY DEF Swd!Inv, Swd!TypeOK
<1>5. PHY_WREN => Len(phyq) < PhyDepth
    BY <1>2 DEF Swd!OfferTaken
<1>6. phyq' = IF PHY_WREN THEN Append(phyq, PHY_WRDATA) ELSE phyq
    BY <1>5
<1>7. CASE Swd!Idle \/ Swd!LineDone \/ Swd!GoodResponse \/ Swd!BadResponse \/ Swd!Ignore \/ Swd!Await
    BY <1>1, <1>2, <1>6, <1>7 DEF Swd!Idle, Swd!LineDone, Swd!GoodResponse, Swd!BadResponse,
                                  Swd!Ignore, Swd!Await, Swd!OfferTaken
<1>8. CASE Swd!Cmd
  <2>1. /\ ~(req.ap /\ req.rd) => addr = req.addr /\ APnDP = req.ap
        /\ req \in Reqs /\ state = "CMD"
      BY <1>8, SwdTyped DEF Swd!Inv, Swd!CommandFollowed, Swd!Cmd
  <2>2. PHY_WREN => (PHY_WRDATA \in Swd!Answered <=> ~Swd!IsLine(req))
      BY <1>2, <2>1 DEF Swd!OfferTaken
  <2>3. \/ ~Swd!IsLine(req) /\ Swd!Send("RESPONSE", "READ")
        \/ ~Swd!IsLine(req) /\ Swd!Send("FLUSH", "WRITE")
        \/ ~Swd!IsLine(req) /\ Swd!Send("RESPONSE", "WRITE")
        \/ Swd!IsLine(req) /\ Swd!Send("SWITCH", "LINE")
        \/ Swd!IsLine(req) /\ Swd!Send("DONE", "LINE")
    <3>1. CASE req.rd
        BY <1>8, <2>1, <3>1 DEF Swd!Cmd, Swd!IsLine
    <3>2. CASE ~req.rd /\ APnDP
        BY <1>8, <2>1, <3>2 DEF Swd!Cmd, Swd!IsLine
    <3>3. CASE ~req.rd /\ ~APnDP /\ addr # 3
        BY <1>8, <2>1, <3>3 DEF Swd!Cmd, Swd!IsLine
    <3>4. CASE ~req.rd /\ ~APnDP /\ addr = 3
        BY <1>8, <2>1, <3>4 DEF Swd!Cmd, Swd!IsLine
    <3> QED
        BY <3>1, <3>2, <3>3, <3>4
  <2>4. "READ" \in Swd!Answered /\ "WRITE" \in Swd!Answered /\ "LINE" \notin Swd!Answered
      BY DEF Swd!Answered
  <2> QED
      BY <1>1, <1>2, <1>3, <1>4, <1>6, <2>1, <2>2, <2>3, <2>4 DEF Swd!Send
<1>9. CASE Swd!Sequence
  <2>1. PHY_WREN => PHY_WRDATA \notin Swd!Answered
      BY <1>2, <1>9 DEF Swd!OfferTaken, Swd!Sequence
  <2>2. "SWITCH" \notin Swd!Answered /\ "FLUSH" \notin Swd!Answered /\ "LINE" \notin Swd!Answered
      BY DEF Swd!Answered
  <2> QED
      BY <1>1, <1>2, <1>3, <1>4, <1>6, <1>9, <2>1, <2>2 DEF Swd!Send, Swd!Sequence
<1> QED
    BY <1>1, <1>7, <1>8, <1>9 DEF Swd!Step

LEMMA SwdEdgeOffer ==
    ASSUME Swd!Inv, Swd!Clock, ~gaveUp'
    PROVE  state' # "IGNORE" /\ Swd!OfferTaken'
BY SwdPort DEF Swd!OfferTaken, Swd!IsLine

LEMMA SwdEdgeOks ==
    ASSUME Swd!Inv, Swd!Clock, ~gaveUp'
    PROVE  Swd!OksCounted' /\ Swd!ReadThroughRdbuf'
<1>1. /\ ~gaveUp /\ state # "IGNORE" /\ ~Swd!GiveUp
      /\ Swd!rden => state = "IDLE" /\ state' = "IDLE"
      /\ ~Swd!rden => req' = req
      /\ state' # "IDLE" => ~Swd!rden /\ busy
    BY SwdPort, SwdReads
<1>2. /\ state # "IDLE" => oks = IF req.ap /\ req.rd /\ ~APnDP THEN 1 ELSE 0
      /\ state # "IDLE" => busy /\ ~wren
      /\ state # "IDLE" /\ ~(req.ap /\ req.rd) => APnDP = req.ap
      /\ APnDP \in BOOLEAN /\ req.ap \in BOOLEAN /\ req.rd \in BOOLEAN
    BY <1>1, SwdTyped DEF Swd!Inv, Swd!OksCounted, Swd!CommandFollowed, Swd!TypeOK, Reqs
<1>3. oks' = IF state = "IDLE" /\ dvalid THEN 0
             ELSE IF state = "RESPONSE" /\ phy_dvalid /\ PHY_RDDATA.ok /\ oks < 3 THEN oks + 1
             ELSE oks
    BY DEF Swd!Clock, Swd!Count
<1>4. CASE Swd!Idle
    BY <1>1, <1>3, <1>4 DEF Swd!Idle, Swd!OksCounted, Swd!ReadThroughRdbuf
<1>5. CASE Swd!GoodResponse
  <2>1. state = "RESPONSE" /\ oks' = oks + 1 /\ req' = req
      BY <1>1, <1>2, <1>3, <1>5 DEF Swd!GoodResponse
  <2>2. CASE APnDP /\ req.rd
    <3>1. req.ap
        BY <1>2, <2>1, <2>2
    <3> QED
        BY <1>2, <1>5, <2>1, <2>2, <3>1 DEF Swd!GoodResponse, Swd!OksCounted, Swd!ReadThroughRdbuf
  <2>3. CASE ~(APnDP /\ req.rd)
    <3>1. state' = "IDLE"
        BY <1>5, <2>3 DEF Swd!GoodResponse
    <3>2. oks' = IF req.ap /\ req.rd THEN 2 ELSE 1
        BY <1>2, <2>1, <2>3
    <3> QED
        BY <2>1, <3>1, <3>2 DEF Swd!OksCounted, Swd!ReadThroughRdbuf
  <2> QED
      BY <2>2, <2>3
<1>6. CASE ~Swd!Idle /\ ~Swd!GoodResponse
  <2>1. state # "IDLE" /\ UNCHANGED <<APnDP, wren>> /\ ~(state = "RESPONSE" /\ phy_dvalid /\ PHY_RDDATA.ok)
      BY <1>1, <1>6 DEF Swd!Clock, Swd!Step, Swd!Cmd, Swd!Sequence, Swd!LineDone, Swd!BadResponse,
                        Swd!Ignore, Swd!Await, Swd!Keep
  <2>2. oks' = oks /\ req' = req
      BY <1>1, <1>3, <2>1
  <2> QED
      BY <1>2, <2>1, <2>2 DEF Swd!OksCounted, Swd!ReadThroughRdbuf
<1> QED
    BY <1>4, <1>5, <1>6

LEMMA SwdEdgeTransaction ==
    ASSUME Swd!Inv, Swd!Clock, ~gaveUp'
    PROVE  Swd!OneTransaction'
<1> DEFINE Under(q) == {i \in DOMAIN q : q[i] \in Swd!Answered}
           n == Len(phyq)
<1>1. /\ ~gaveUp /\ state # "IGNORE" /\ state' # "IGNORE" /\ ~Swd!GiveUp
      /\ Swd!OneTransaction /\ Swd!OfferTaken /\ Swd!CommandFollowed
    BY SwdPort DEF Swd!Inv
<1>2. /\ phyq \in Seq(Swd!Kinds) /\ PHY_WRDATA \in Swd!Kinds /\ n \in Nat /\ DOMAIN phyq = 1..n
    BY SwdTyped, EmptyFacts DEF Swd!Inv
<1>3. /\ phyr' = (IF phyr = <<>> THEN phyr ELSE Tail(phyr)) /\ (phy_dvalid' <=> phyr # <<>>)
    BY DEF Swd!Clock
<1>4. Swd!UnderWay = Under(phyq) /\ Swd!UnderWay' = Under(phyq')
    BY DEF Swd!UnderWay
<1>5. CASE phyq' = phyq /\ ~PHY_WREN /\ state \notin {"RESPONSE"}
  <2>1. state' \in {"FLUSH", "RESPONSE"} <=> state \in {"FLUSH", "RESPONSE"}
      BY <1>1, <1>5 DEF Swd!Clock, Swd!Step, Swd!Idle, Swd!Cmd, Swd!Sequence, Swd!LineDone, Swd!Send,
                        Swd!GoodResponse, Swd!BadResponse, Swd!Ignore, Swd!Await
  <2>2. phyr = <<>> /\ ~phy_dvalid
      BY <1>1, <1>5 DEF Swd!OneTransaction
  <2> QED
      BY <1>1, <1>3, <1>5, <2>1, <2>2 DEF Swd!OneTransaction, Swd!UnderWay
<1>6. CASE state = "RESPONSE"
  <2>1. phyq' = phyq /\ Swd!UnderWay' = Swd!UnderWay
      BY <1>4, <1>6, SwdPort
  <2>2. \/ phy_dvalid /\ state' \in {"IDLE", "CMD"}
        \/ ~phy_dvalid /\ state' = "RESPONSE"
      BY <1>1, <1>6 DEF Swd!Clock, Swd!Step, Swd!Idle, Swd!Cmd, Swd!Sequence, Swd!LineDone, Swd!Send,
                        Swd!GoodResponse, Swd!BadResponse, Swd!Ignore, Swd!Await
  <2>3. CASE (\E i \in DOMAIN phyq : Swd!UnderWay = {i}) /\ phyr = <<>> /\ ~phy_dvalid
      BY <1>3, <2>1, <2>2, <2>3 DEF Swd!OneTransaction
  <2>4. CASE Swd!UnderWay = {} /\ Len(phyr) = 1 /\ ~phy_dvalid
    <3>1. phyr \in Seq([ok : BOOLEAN, data : Data])
        BY DEF Swd!Inv, Swd!TypeOK
    <3>2. phyr # <<>>
        BY <2>4
    <3>3. Tail(phyr) = <<>>
      <4>1. Tail(phyr) \in Seq([ok : BOOLEAN, data : Data]) /\ Len(Tail(phyr)) = 0
          BY <2>4, <3>1, <3>2, TailFacts
      <4> QED
          BY <4>1, EmptyFacts
    <3> QED
        BY <1>3, <2>1, <2>2, <2>4, <3>2, <3>3 DEF Swd!OneTransaction
  <2>5. CASE Swd!UnderWay = {} /\ phyr = <<>> /\ phy_dvalid
      BY <1>3, <2>1, <2>2, <2>5 DEF Swd!OneTransaction
  <2> QED
      BY <1>1, <1>6, <2>3, <2>4, <2>5 DEF Swd!OneTransaction
<1>7. CASE /\ PHY_WREN /\ phyq' = Append(phyq, PHY_WRDATA)
           /\ PHY_WRDATA \in Swd!Answered <=> state = "CMD" /\ ~Swd!IsLine(req)
           /\ \/ state = "CMD" /\ ~Swd!IsLine(req) /\ state' \in {"FLUSH", "RESPONSE"}
              \/ state = "CMD" /\ Swd!IsLine(req) /\ state' \in {"SWITCH", "DONE"}
              \/ state = "SWITCH" /\ state' = "RESET2"
              \/ state = "RESET2" /\ state' = "DONE"
              \/ state = "FLUSH" /\ state' = "RESPONSE"
  <2>1. /\ \A i \in 1..n : phyq'[i] = phyq[i]
        /\ phyq'[n + 1] = PHY_WRDATA /\ DOMAIN phyq' = 1..n + 1
    <3>1. /\ phyq' \in Seq(Swd!Kinds) /\ Len(phyq') = n + 1 /\ phyq'[n + 1] = PHY_WRDATA
          /\ \A i \in 1..n : phyq'[i] = phyq[i]
        BY <1>2, <1>7, AppendFacts
    <3> QED
        BY <3>1, EmptyFacts
  <2>2. Under(phyq') = IF PHY_WRDATA \in Swd!Answered THEN Under(phyq) \cup {n + 1} ELSE Under(phyq)
    <3>1. ASSUME NEW i
          PROVE  i \in Under(phyq') <=> i \in Under(phyq) \/ (i = n + 1 /\ PHY_WRDATA \in Swd!Answered)
      <4>1. i \in 1..n + 1 <=> i \in 1..n \/ i = n + 1
          BY <1>2
      <4>2. n + 1 \notin 1..n
          BY <1>2
      <4> QED
          BY <1>2, <2>1, <4>1, <4>2
    <3> QED
        BY <3>1
  <2>3. phyr = <<>> /\ ~phy_dvalid
      BY <1>1, <1>7 DEF Swd!OneTransaction
  <2>4. phyr' = <<>> /\ ~phy_dvalid'
      BY <1>3, <2>3
  <2>5. CASE state = "FLUSH"
    <3>1. \E i \in DOMAIN phyq : Under(phyq) = {i}
        BY <1>1, <1>4, <2>5 DEF Swd!OneTransaction
    <3>2. Under(phyq') = Under(phyq)
        BY <1>7, <2>2, <2>5
    <3>3. \E i \in DOMAIN phyq' : Under(phyq') = {i}
      <4>1. \A i \in DOMAIN phyq : i \in DOMAIN phyq'
          BY <1>2, <2>1
      <4> QED
          BY <3>1, <3>2, <4>1
    <3> QED
        BY <1>4, <1>7, <2>4, <2>5, <3>3 DEF Swd!OneTransaction
  <2>6. CASE state # "FLUSH"
    <3>1. Under(phyq) = {}
        BY <1>1, <1>4, <1>7, <2>6 DEF Swd!OneTransaction
    <3>2. CASE state = "CMD" /\ ~Swd!IsLine(req)
      <4>1. Under(phyq') = {n + 1} /\ n + 1 \in DOMAIN phyq'
          BY <1>2, <1>7, <2>1, <2>2, <3>1, <3>2
      <4> HIDE DEF Under
      <4> QED
          BY <1>4, <1>7, <2>4, <3>2, <4>1 DEF Swd!OneTransaction
    <3>3. CASE ~(state = "CMD" /\ ~Swd!IsLine(req))
      <4>1. Under(phyq') = {} /\ state' \notin {"FLUSH", "RESPONSE"}
          BY <1>7, <2>2, <2>6, <3>1, <3>3
      <4> HIDE DEF Under
      <4> QED
          BY <1>4, <2>4, <4>1 DEF Swd!OneTransaction
    <3> QED
        BY <3>2, <3>3
  <2> QED
      BY <2>5, <2>6
<1> QED
    BY <1>5, <1>6, <1>7, SwdPort

LEMMA SwdPaired ==
    ASSUME ~gaveUp => Swd!OneTransaction
    PROVE  Swd!ResponsesPaired
BY DEF Swd!OneTransaction, Swd!ResponsesPaired

LEMMA SwdEdge ==
    ASSUME Swd!Inv, AnswersCounted, Swd!Clock
    PROVE  Swd!Inv' /\ AnswersCounted'
<1>1. ClientOK /\ ClientEdge
    BY SwdEdgeClient
<1>2. AnswersCounted'
    BY <1>1, CountEdge
<1>3. /\ cmdq' \in Seq(Reqs) /\ resp' \in Seq(Answers)
  <2>1. [data |-> dati, stat |-> stat] \in Answers
      BY <1>1 DEF ClientOK, Answers
  <2>2. resp' \in Seq(Answers)
      BY <1>1, <2>1, AppendFacts DEF ClientOK, ClientEdge
  <2>3. cmdq' \in Seq(Reqs)
      BY <1>1, TailFacts DEF ClientOK, ClientEdge
  <2> QED
      BY <2>2, <2>3
<1>4. Len(resp') <= Depth
  <2>1. (cmdq \in Seq(Reqs))' /\ (resp \in Seq(Answers))'
      BY <1>3
  <2>2. (Len(resp) <= Depth)'
      BY <1>2, <2>1, AnswersFit, PTL
  <2> QED
      BY <2>2
<1>5. Swd!TypeOK'
    BY <1>4, SwdEdgeTypes
<1>6. (~gaveUp => Swd!OneTransaction)'
    BY SwdEdgeTransaction
<1>7. Swd!ResponsesPaired'
    BY <1>6, SwdPaired, PTL
<1>8. Swd!ReadThroughRdbuf'
  <2>1. CASE gaveUp'
      BY <2>1 DEF Swd!ReadThroughRdbuf
  <2>2. CASE ~gaveUp'
      BY <2>2, SwdEdgeOks
  <2> QED
      BY <2>1, <2>2
<1> QED
    BY <1>2, <1>5, <1>6, <1>7, <1>8, SwdEdgeCommand, SwdEdgeOffer, SwdEdgeOks DEF Swd!Inv

-----------------------------------------------------------------------------
(* Serial wire: the PHY and the client.                                    *)

LEMMA SwdExec ==
    ASSUME Swd!Inv, Swd!PhyExec
    PROVE  Swd!Inv'
<1> DEFINE n == Len(phyq)
           h == Head(phyq)
           R == [ok : BOOLEAN, data : Data]
<1>1. /\ phyq # <<>> /\ phyq' = Tail(phyq)
      /\ h \in Swd!Answered => state # "FLUSH" /\ Len(phyr) < PhyDepth
      /\ UNCHANGED <<cmdq, resp, pending, req>>
      /\ UNCHANGED <<dvalid, busy, addr, APnDP, state, retries, stat, dati, wren>>
      /\ UNCHANGED <<PHY_WREN, PHY_WRDATA, phy_dvalid, PHY_RDDATA, oks, gaveUp>>
    BY DEF Swd!PhyExec, Swd!client, Swd!ctrl, Swd!port
<1>2. IF h \in Swd!Answered THEN \E a \in R : phyr' = Append(phyr, a) ELSE phyr' = phyr
  <2>1. CASE h \in Swd!Answered
    <3>1. PICK ok \in BOOLEAN, d \in Data : phyr' = Append(phyr, [ok |-> ok, data |-> d])
        BY <2>1 DEF Swd!PhyExec
    <3>2. [ok |-> ok, data |-> d] \in R
        OBVIOUS
    <3> QED
        BY <2>1, <3>1, <3>2
  <2>2. CASE h \notin Swd!Answered
      BY <2>2 DEF Swd!PhyExec
  <2> QED
      BY <2>1, <2>2
<1>3. /\ phyq \in Seq(Swd!Kinds) /\ n \in Nat \ {0} /\ h = phyq[1]
      /\ phyq' \in Seq(Swd!Kinds) /\ Len(phyq') = n - 1
      /\ DOMAIN phyq = 1..n /\ DOMAIN phyq' = 1..n - 1
      /\ \A i \in 1..n - 1 : phyq'[i] = phyq[i + 1]
  <2>1. phyq \in Seq(Swd!Kinds)
      BY SwdTyped DEF Swd!Inv
  <2>2. phyq' \in Seq(Swd!Kinds)
      BY <1>1, <2>1, TailFacts
  <2> QED
      BY <1>1, <2>1, <2>2, TailFacts, EmptyFacts
<1>4. /\ phyr \in Seq(R) /\ phyr' \in Seq(R) /\ Len(phyr') <= PhyDepth /\ Len(phyr) \in Nat
      /\ h \in Swd!Answered => Len(phyr') = Len(phyr) + 1
  <2>1. phyr \in Seq(R) /\ Len(phyr) <= PhyDepth /\ Len(phyr) \in Nat
      BY DEF Swd!Inv, Swd!TypeOK
  <2>2. CASE h \in Swd!Answered
    <3>1. PICK a \in R : phyr' = Append(phyr, a)
        BY <1>2, <2>2
    <3> HIDE DEF R
    <3>2. phyr' \in Seq(R) /\ Len(phyr') = Len(phyr) + 1
        BY <2>1, <3>1, AppendFacts
    <3> QED
        BY <1>1, <2>1, <2>2, <3>2, DepthAssumption
  <2>3. CASE h \notin Swd!Answered
      BY <1>2, <2>1, <2>3
  <2> QED
      BY <2>2, <2>3
<1>5. Swd!TypeOK'
  <2>1. Len(phyq') <= PhyDepth
      BY <1>3, DepthAssumption DEF Swd!Inv, Swd!TypeOK
  <2> QED
      BY <1>1, <1>3, <1>4, <2>1 DEF Swd!Inv, Swd!TypeOK
<1>6. Swd!CommandFollowed'
    BY <1>1 DEF Swd!Inv, Swd!CommandFollowed, Swd!IsLine
<1>7. Swd!ReadThroughRdbuf'
    BY <1>1 DEF Swd!Inv, Swd!ReadThroughRdbuf
<1>8. ASSUME ~gaveUp
      PROVE  state' # "IGNORE" /\ Swd!OfferTaken' /\ Swd!OksCounted' /\ Swd!OneTransaction'
  <2>1. state # "IGNORE" /\ Swd!OfferTaken /\ Swd!OksCounted /\ Swd!OneTransaction
      BY <1>8 DEF Swd!Inv
  <2>2. Swd!OksCounted'
      BY <1>1, <2>1 DEF Swd!OksCounted
  <2>3. Swd!OfferTaken'
    <3>1. Len(phyq) < PhyDepth => Len(phyq') < PhyDepth
        BY <1>3, DepthAssumption
    <3> QED
        BY <1>1, <2>1, <3>1 DEF Swd!OfferTaken, Swd!IsLine
  <2>4. \A i : i \in Swd!UnderWay' <=> i \in 1..n - 1 /\ i + 1 \in Swd!UnderWay
    <3>1. Swd!UnderWay' = {i \in DOMAIN phyq' : phyq'[i] \in Swd!Answered}
        BY DEF Swd!UnderWay
    <3>2. ASSUME NEW i \in 1..n - 1
          PROVE  i + 1 \in 1..n /\ phyq'[i] = phyq[i + 1]
        BY <1>3
    <3> HIDE DEF n
    <3> QED
        BY <1>3, <3>1, <3>2 DEF Swd!UnderWay
  <2>5. h \in Swd!Answered <=> 1 \in Swd!UnderWay
      BY <1>3 DEF Swd!UnderWay
  <2>6. CASE Swd!UnderWay = {}
    <3>1. phyr' = phyr /\ Swd!UnderWay' = {}
        BY <1>2, <2>4, <2>5, <2>6
    <3> QED
        BY <1>1, <2>1, <2>2, <2>3, <2>6, <3>1 DEF Swd!OneTransaction
  <2>7. CASE Swd!UnderWay # {}
    <3>1. /\ state \in {"FLUSH", "RESPONSE"} /\ phyr = <<>> /\ ~phy_dvalid
          /\ \E i \in DOMAIN phyq : Swd!UnderWay = {i}
        BY <2>1, <2>7 DEF Swd!OneTransaction
    <3>2. PICK i \in 1..n : Swd!UnderWay = {i}
        BY <1>3, <3>1
    <3>3. CASE i = 1
      <4>1. state = "RESPONSE" /\ Len(phyr') = 1
        <5>1. Len(phyr) = 0
            BY <3>1
        <5> QED
            BY <1>1, <1>4, <2>5, <3>1, <3>2, <3>3, <5>1
      <4>2. Swd!UnderWay' = {}
        <5>1. \A k \in 1..n - 1 : k + 1 # 1
            BY <1>3
        <5> QED
            BY <2>4, <3>2, <3>3, <5>1
      <4> QED
          BY <1>1, <2>1, <2>2, <2>3, <3>1, <4>1, <4>2 DEF Swd!OneTransaction
    <3>4. CASE i # 1
      <4>1. phyr' = phyr
          BY <1>2, <2>5, <3>2, <3>4
      <4>2. i - 1 \in DOMAIN phyq' /\ Swd!UnderWay' = {i - 1}
        <5>1. i - 1 \in 1..n - 1 /\ (i - 1) + 1 = i
            BY <1>3, <3>4
        <5>2. \A k \in 1..n - 1 : k + 1 = i <=> k = i - 1
            BY <1>3
        <5> QED
            BY <1>3, <2>4, <3>2, <5>1, <5>2
      <4> QED
          BY <1>1, <2>1, <2>2, <2>3, <3>1, <4>1, <4>2 DEF Swd!OneTransaction
    <3> QED
        BY <3>3, <3>4
  <2> QED
      BY <2>6, <2>7
<1>9. (~gaveUp => Swd!OneTransaction)'
    BY <1>1, <1>8
<1>10. Swd!ResponsesPaired'
    BY <1>9, SwdPaired, PTL
<1> QED
    BY <1>1, <1>5, <1>6, <1>7, <1>8, <1>10 DEF Swd!Inv

LEMMA SwdRest ==
    ASSUME Swd!Inv, Swd!TypeOK',
           UNCHANGED <<req, dvalid, busy, addr, APnDP, state, retries, stat, dati, wren>>,
           UNCHANGED <<PHY_WREN, PHY_WRDATA, phyq, phyr, phy_dvalid, PHY_RDDATA>>,
           UNCHANGED <<oks, gaveUp>>
    PROVE  Swd!Inv'
<1>1. Swd!CommandFollowed' /\ Swd!ReadThroughRdbuf' /\ Swd!ResponsesPaired'
    BY DEF Swd!Inv, Swd!CommandFollowed, Swd!ReadThroughRdbuf, Swd!ResponsesPaired, Swd!UnderWay,
           Swd!IsLine
<1>2. (~gaveUp => state # "IGNORE" /\ Swd!OfferTaken /\ Swd!OneTransaction /\ Swd!OksCounted)'
    BY DEF Swd!Inv, Swd!OfferTaken, Swd!OneTransaction, Swd!OksCounted, Swd!UnderWay, Swd!IsLine
<1> QED
    BY <1>1, <1>2 DEF Swd!Inv

LEMMA SwdWrite ==
    ASSUME Swd!Inv, AnswersCounted, NEW r \in SwdReq, Swd!Write(r)
    PROVE  Swd!Inv' /\ AnswersCounted'
<1>1. /\ Len(cmdq) < Depth /\ pending < Depth /\ cmdq' = Append(cmdq, r)
      /\ pending' = IF Jtag!IsLine(r) THEN pending ELSE pending + 1
      /\ UNCHANGED <<resp, req, dvalid, busy, addr, APnDP, state, retries, stat, dati, wren>>
      /\ UNCHANGED <<PHY_WREN, PHY_WRDATA, phyq, phyr, phy_dvalid, PHY_RDDATA>>
      /\ UNCHANGED <<oks, gaveUp>>
    BY SameLine DEF Swd!Write, Swd!ctrl, Swd!port, Swd!phy, Swd!history
<1>2. r \in Reqs
    BY ReqAssumption DEF Reqs
<1>3. ClientOK
    BY SwdTyped DEF ClientOK, Swd!Inv, Swd!CommandFollowed
<1>4. AnswersCounted'
    BY <1>1, <1>2, <1>3, CountWrite
<1>5. cmdq \in Seq(SwdReq) /\ Len(cmdq') = Len(cmdq) + 1 /\ Len(cmdq) \in Nat
      /\ cmdq' \in Seq(SwdReq)
    BY <1>1, AppendFacts DEF Swd!Inv, Swd!TypeOK
<1>6. Len(cmdq') <= Depth
    BY <1>1, <1>5, DepthAssumption
<1>7. Swd!TypeOK'
    BY <1>1, <1>5, <1>6 DEF Swd!Inv, Swd!TypeOK
<1>8. Swd!Inv'
    BY <1>1, <1>7, SwdRest
<1> QED
    BY <1>4, <1>8

LEMMA SwdRead ==
    ASSUME Swd!Inv, AnswersCounted, Swd!Read
    PROVE  Swd!Inv' /\ AnswersCounted'
<1>1. /\ resp # <<>> /\ resp' = Tail(resp) /\ pending' = pending - 1
      /\ UNCHANGED <<cmdq, req, dvalid, busy, addr, APnDP, state, retries, stat, dati, wren>>
      /\ UNCHANGED <<PHY_WREN, PHY_WRDATA, phyq, phyr, phy_dvalid, PHY_RDDATA>>
      /\ UNCHANGED <<oks, gaveUp>>
    BY DEF Swd!Read, Swd!ctrl, Swd!port, Swd!phy, Swd!history
<1>2. ClientOK
    BY SwdTyped DEF ClientOK, Swd!Inv, Swd!CommandFollowed
<1>3. AnswersCounted'
    BY <1>1, <1>2, CountAnswer
<1>4. resp \in Seq([data : Data, stat : {"OK", "FAULT"}]) /\ Len(resp) <= Depth
    BY DEF Swd!Inv, Swd!TypeOK
<1>5. resp' \in Seq([data : Data, stat : {"OK", "FAULT"}])
      /\ Len(resp') = Len(resp) - 1 /\ Len(resp) \in Nat
    BY <1>1, <1>4, TailFacts
<1>6. Len(resp') <= Depth
    BY <1>4, <1>5, DepthAssumption
<1>7. Swd!TypeOK'
    BY <1>1, <1>5, <1>6 DEF Swd!Inv, Swd!TypeOK
<1>8. Swd!Inv'
    BY <1>1, <1>7, SwdRest
<1> QED
    BY <1>3, <1>8

LEMMA SwdInit ==
    ASSUME Swd!Init
    PROVE  Swd!Inv /\ AnswersCounted
<1> USE DEF Swd!Init
<1>1. Swd!TypeOK
  <2>1. cmdq \in Seq(SwdReq) /\ resp \in Seq([data : Data, stat : {"OK", "FAULT"}])
        /\ phyq \in Seq(Swd!Kinds) /\ phyr \in Seq([ok : BOOLEAN, data : Data])
        /\ Len(cmdq) = 0 /\ Len(resp) = 0 /\ Len(phyq) = 0 /\ Len(phyr) = 0
      OBVIOUS
  <2>2. PHY_RDDATA \in [ok : BOOLEAN, data : Data] /\ stat \in {"OK", "FAULT"}
        /\ state \in Swd!States /\ PHY_WRDATA \in Swd!Kinds
      BY DEF Swd!States, Swd!Kinds
  <2>3. Len(cmdq) <= Depth /\ Len(resp) <= Depth /\ Len(phyq) <= PhyDepth /\ Len(phyr) <= PhyDepth
      BY <2>1, DepthAssumption
  <2>4. /\ dvalid \in BOOLEAN /\ busy \in BOOLEAN /\ wren \in BOOLEAN /\ PHY_WREN \in BOOLEAN
        /\ phy_dvalid \in BOOLEAN /\ gaveUp \in BOOLEAN
      OBVIOUS
  <2>5. retries \in 0..SwdRetryMax /\ oks \in 0..3
      BY RetryAssumption
  <2>6. req \in SwdReq /\ dati \in Data
      OBVIOUS
  <2>7. req \in Reqs
      BY <2>6, ReqAssumption DEF Reqs
  <2>8. addr \in 0..3 /\ APnDP \in BOOLEAN
      BY <2>7 DEF Reqs
  <2> QED
      BY <2>1, <2>2, <2>3, <2>4, <2>5, <2>6, <2>8 DEF Swd!TypeOK
<1>2. Swd!UnderWay = {}
    BY DEF Swd!UnderWay
<1>3. /\ Swd!CommandFollowed /\ Swd!OfferTaken /\ Swd!OneTransaction /\ Swd!OksCounted
      /\ Swd!ResponsesPaired /\ Swd!ReadThroughRdbuf /\ state # "IGNORE"
    BY <1>2 DEF Swd!CommandFollowed, Swd!OfferTaken, Swd!OneTransaction, Swd!OksCounted,
                Swd!ResponsesPaired, Swd!ReadThroughRdbuf
<1>4. AnswersCounted
  <2>1. Len(resp) + (IF wren THEN 1 ELSE 0) + (IF busy /\ ~Jtag!IsLine(req) THEN 1 ELSE 0) = 0
      OBVIOUS
  <2> QED
      BY <2>1, CountEmpty DEF AnswersCounted
<1> QED
    BY <1>1, <1>3, <1>4 DEF Swd!Inv

-----------------------------------------------------------------------------
(* Behind the mux.                                                         *)

LEMMA InitPaired ==
    ASSUME Init
    PROVE  PairedUndisturbed
BY JtagInit, SwdInit DEF Init, PairedUndisturbed

\* Every step keeps the controller selected and its invariant.
LEMMA StepPaired ==
    ASSUME PairedUndisturbed, [Next]_vars
    PROVE  PairedUndisturbed'
<1>1. CASE Clock
  <2>1. CASE JTAGnSWD /\ Jtag!Clock /\ UNCHANGED JTAGnSWD
      BY <2>1, JtagEdge DEF PairedUndisturbed
  <2>2. CASE ~JTAGnSWD /\ Swd!Clock /\ UNCHANGED JTAGnSWD
      BY <2>2, SwdEdge DEF PairedUndisturbed
  <2> QED
      BY <1>1, <2>1, <2>2 DEF Clock, Select
<1>2. CASE Reset
    BY <1>2, JtagReset DEF Reset, Select, PairedUndisturbed
<1>3. CASE Write
  <2>1. CASE JTAGnSWD /\ (\E r \in JtagReq : Jtag!Write(r)) /\ UNCHANGED JTAGnSWD
      BY <2>1, JtagWrite DEF PairedUndisturbed
  <2>2. CASE ~JTAGnSWD /\ (\E r \in SwdReq : Swd!Write(r)) /\ UNCHANGED JTAGnSWD
      BY <2>2, SwdWrite DEF PairedUndisturbed
  <2> QED
      BY <1>3, <2>1, <2>2 DEF Write, Select
<1>4. CASE Read
  <2>1. CASE JTAGnSWD /\ Jtag!Read /\ UNCHANGED JTAGnSWD
      BY <2>1, JtagRead DEF PairedUndisturbed
  <2>2. CASE ~JTAGnSWD /\ Swd!Read /\ UNCHANGED JTAGnSWD
      BY <2>2, SwdRead DEF PairedUndisturbed
  <2> QED
      BY <1>4, <2>1, <2>2 DEF Read, Select
<1>5. CASE PhyExec
  <2>1. CASE JTAGnSWD /\ Jtag!PhyExec /\ UNCHANGED JTAGnSWD
    <3>1. UNCHANGED <<cmdq, req, resp, pending, busy, wren>>
        BY <2>1 DEF Jtag!PhyExec, Jtag!client, Jtag!ctrl
    <3> QED
        BY <2>1, <3>1, JtagExec, CountSame DEF PairedUndisturbed
  <2>2. CASE ~JTAGnSWD /\ Swd!PhyExec /\ UNCHANGED JTAGnSWD
    <3>1. UNCHANGED <<cmdq, req, resp, pending, busy, wren>>
        BY <2>2 DEF Swd!PhyExec, Swd!client, Swd!ctrl
    <3> QED
        BY <2>2, <3>1, SwdExec, CountSame DEF PairedUndisturbed
  <2> QED
      BY <1>5, <2>1, <2>2 DEF PhyExec, Select
<1>6. CASE UNCHANGED vars
  <2>1. /\ UNCHANGED <<JTAGnSWD, cmdq, resp, pending, req, dvalid, busy, state, retries, stat, dati, wren>>
        /\ UNCHANGED <<PHY_WREN, PHY_WRDATA, phyq, phyr, phy_dvalid, PHY_RDDATA>>
        /\ UNCHANGED <<ir, tap, scan, disturbed, addr, APnDP, oks, gaveUp>>
      BY <1>6 DEF vars, Jtag!vars, Jtag!client, Jtag!ctrl, Jtag!port, Jtag!phy, Jtag!target,
                  Swd!vars, Swd!client, Swd!ctrl, Swd!port, Swd!phy, Swd!history
  <2>2. AnswersCounted'
      BY <2>1, CountSame DEF PairedUndisturbed
  <2>3. CASE JTAGnSWD
    <3>1. Jtag!Inv /\ Jtag!TypeOK
        BY <2>3 DEF PairedUndisturbed, Jtag!Inv
    <3>2. Jtag!TypeOK'
        BY <2>1, <3>1 DEF Jtag!TypeOK
    <3>3. Jtag!Inv'
        BY <2>1, <3>1, <3>2, JtagRest
    <3> QED
        BY <2>1, <2>2, <2>3, <3>3 DEF PairedUndisturbed
  <2>4. CASE ~JTAGnSWD
    <3>1. Swd!Inv /\ Swd!TypeOK
        BY <2>4 DEF PairedUndisturbed, Swd!Inv
    <3>2. Swd!TypeOK'
        BY <2>1, <3>1 DEF Swd!TypeOK
    <3>3. Swd!Inv'
        BY <2>1, <3>1, <3>2, SwdRest
    <3> QED
        BY <2>1, <2>2, <2>4, <3>3 DEF PairedUndisturbed
  <2> QED
      BY <2>3, <2>4
<1> QED
    BY <1>1, <1>2, <1>3, <1>4, <1>5, <1>6 DEF Next

\* Whichever interface is selected, controller and target stay in step while
\* nothing disturbs it (the conditions are those of PairedUndisturbed: over
\* JTAG of the instruction and of OK data only, over serial wire that no
\* command has run out of retries), and the answer FIFO always has room.
THEOREM Invariance == Spec => []PairedUndisturbed
<1>1. Init => PairedUndisturbed
    BY InitPaired
<1>2. PairedUndisturbed /\ [Next]_vars => PairedUndisturbed'
    BY StepPaired
<1> QED
    BY <1>1, <1>2, PTL DEF Spec

\* Over JTAG, without condition: a response is only under way while the
\* controller waits for it, however often a transaction is repeated, aborted
\* or reset.
THEOREM NoResponseLeft == Spec => [](JTAGnSWD => Jtag!NoStrayResponse)
<1>1. PairedUndisturbed => (JTAGnSWD => Jtag!NoStrayResponse)
    BY DEF PairedUndisturbed, Jtag!Inv
<1> QED
    BY Invariance, <1>1, PTL

-----------------------------------------------------------------------------
(* The controller behind the mux serves its commands in order.             *)

Todo == (IF busy THEN <<req>> ELSE <<>>) \o cmdq
Given == resp \o (IF wren THEN <<[data |-> dati, stat |-> stat]>> ELSE <<>>)

LEMMA ConsFacts ==
    ASSUME NEW S, NEW x \in S, NEW q \in Seq(S)
    PROVE  /\ <<x>> \o q # <<>> /\ Head(<<x>> \o q) = x /\ Tail(<<x>> \o q) = q
           /\ \A y \in S : <<x>> \o Append(q, y) = Append(<<x>> \o q, y)
<1>1. <<x>> \o q \in Seq(S) /\ Len(<<x>> \o q) = Len(q) + 1 /\ Len(q) \in Nat
      /\ (<<x>> \o q)[1] = x /\ \A i \in 1..Len(q) : (<<x>> \o q)[i + 1] = q[i]
    OBVIOUS
<1>2. <<x>> \o q # <<>> /\ Head(<<x>> \o q) = x
    BY <1>1
<1>3. Tail(<<x>> \o q) = q
  <2>1. Tail(<<x>> \o q) \in Seq(S) /\ Len(Tail(<<x>> \o q)) = Len(q)
        /\ \A i \in 1..Len(q) : Tail(<<x>> \o q)[i] = q[i]
      BY <1>1, <1>2, TailFacts
  <2> QED
      BY <2>1, SeqEqual
<1>4. ASSUME NEW y \in S
      PROVE  <<x>> \o Append(q, y) = Append(<<x>> \o q, y)
  <2>1. Append(q, y) = q \o <<y>> /\ Append(<<x>> \o q, y) = (<<x>> \o q) \o <<y>>
      BY <1>1, AppendIsConcat
  <2>2. <<x>> \in Seq(S) /\ <<y>> \in Seq(S)
      OBVIOUS
  <2> QED
      BY <2>1, <2>2, ConcatAssociative
<1> QED
    BY <1>2, <1>3, <1>4

LEMMA TailConcat ==
    ASSUME NEW S, NEW q \in Seq(S), q # <<>>, NEW r \in Seq(S)
    PROVE  q \o r # <<>> /\ Tail(q \o r) = Tail(q) \o r
<1>1. Len(q) \in Nat \ {0} /\ Len(r) \in Nat
    BY TailFacts
<1>2. q \o r \in Seq(S) /\ Len(q \o r) = Len(q) + Len(r)
      /\ \A i \in 1..Len(q) + Len(r) : (q \o r)[i] = IF i <= Len(q) THEN q[i] ELSE r[i - Len(q)]
    OBVIOUS
<1>3. q \o r # <<>>
    BY <1>1, <1>2
<1>4. Tail(q) \in Seq(S) /\ Len(Tail(q)) = Len(q) - 1
      /\ \A i \in 1..Len(q) - 1 : Tail(q)[i] = q[i + 1]
    BY TailFacts
<1>5. Tail(q \o r) \in Seq(S) /\ Len(Tail(q \o r)) = Len(q) + Len(r) - 1
      /\ \A i \in 1..Len(q) + Len(r) - 1 : Tail(q \o r)[i] = (q \o r)[i + 1]
    BY <1>1, <1>2, <1>3, TailFacts
<1>6. Tail(q) \o r \in Seq(S) /\ Len(Tail(q) \o r) = Len(q) + Len(r) - 1
      /\ \A i \in 1..Len(q) + Len(r) - 1 :
            (Tail(q) \o r)[i] = IF i <= Len(q) - 1 THEN Tail(q)[i] ELSE r[i - (Len(q) - 1)]
    BY <1>1, <1>4
<1>7. ASSUME NEW i \in 1..Len(q) + Len(r) - 1
      PROVE  Tail(q \o r)[i] = (Tail(q) \o r)[i]
  <2>1. i + 1 \in 1..Len(q) + Len(r) /\ i - (Len(q) - 1) = (i + 1) - Len(q)
        /\ (i <= Len(q) - 1 <=> i + 1 <= Len(q))
      BY <1>1
  <2>2. CASE i <= Len(q) - 1
    <3>1. i \in 1..Len(q) - 1
        BY <1>1, <2>2
    <3> QED
        BY <1>2, <1>4, <1>5, <1>6, <2>1, <2>2, <3>1
  <2>3. CASE ~(i <= Len(q) - 1)
      BY <1>2, <1>5, <1>6, <2>1, <2>3
  <2> QED
      BY <2>2, <2>3
<1>8. Tail(q \o r) = Tail(q) \o r
    BY <1>5, <1>6, <1>7, SeqEqual
<1> QED
    BY <1>3, <1>8

\* The server's state as it is seen behind the mux.
LEMMA Seen ==
    ASSUME ClientOK
    PROVE  /\ ~busy => Todo = cmdq
           /\ busy => Todo # <<>> /\ Head(Todo) = req /\ Tail(Todo) = cmdq
           /\ ~wren => Given = resp
           /\ wren => Given = Append(resp, [data |-> dati, stat |-> stat])
<1>1. cmdq \in Seq(Reqs) /\ req \in Reqs /\ resp \in Seq(Answers)
      /\ [data |-> dati, stat |-> stat] \in Answers
    BY DEF ClientOK, Answers
<1>2. ~busy => Todo = cmdq
    BY <1>1 DEF Todo
<1>3. busy => Todo # <<>> /\ Head(Todo) = req /\ Tail(Todo) = cmdq
    BY <1>1, ConsFacts DEF Todo
<1>4. ~wren => Given = resp
    BY <1>1 DEF Given
<1>5. wren => Given = Append(resp, [data |-> dati, stat |-> stat])
    BY <1>1, AppendIsConcat DEF Given
<1> QED
    BY <1>2, <1>3, <1>4, <1>5

\* A reading edge leaves the server's state, a completing one serves.
LEMMA EdgeServes ==
    ASSUME ClientOK, ClientOK', ClientEdge
    PROVE  \/ Server!Serve
           \/ Todo' = Todo /\ Given' = Given
<1>1. /\ ~busy => Todo = cmdq
      /\ busy => Todo # <<>> /\ Head(Todo) = req /\ Tail(Todo) = cmdq
      /\ ~wren => Given = resp
      /\ wren => Given = Append(resp, [data |-> dati, stat |-> stat])
    BY Seen
<1>2. /\ ~busy' => Todo' = cmdq'
      /\ ~wren' => Given' = resp'
      /\ wren' => Given' = Append(resp', [data |-> dati', stat |-> stat'])
  <2>1. (/\ ~busy => Todo = cmdq
         /\ ~wren => Given = resp
         /\ wren => Given = Append(resp, [data |-> dati, stat |-> stat]))'
      BY Seen, PTL
  <2> QED
      BY <2>1
<1>3. resp' = Given
    BY <1>1 DEF ClientEdge
<1>4. wren => ~busy
    BY DEF ClientOK
<1>5. CASE /\ ~busy /\ cmdq # <<>> /\ busy' /\ ~wren'
           /\ req' = Head(cmdq) /\ cmdq' = Tail(cmdq)
  <2>1. Todo' = <<Head(cmdq)>> \o Tail(cmdq)
      BY <1>5 DEF Todo
  <2>2. <<Head(cmdq)>> \o Tail(cmdq) = cmdq
      BY <1>5, HeadTailProperties DEF ClientOK
  <2> QED
      BY <1>1, <1>2, <1>3, <1>5, <2>1, <2>2
<1>6. CASE /\ busy /\ ~busy' /\ (wren' <=> ~Jtag!IsLine(req))
           /\ UNCHANGED cmdq
  <2>1. Todo # <<>> /\ Todo' = Tail(Todo) /\ Head(Todo) = req
      BY <1>1, <1>2, <1>6
  <2>2. IF Jtag!IsLine(Head(Todo)) THEN Given' = Given
        ELSE \E a \in Answers : Given' = Append(Given, a)
    <3>1. CASE Jtag!IsLine(req)
        BY <1>2, <1>3, <1>6, <2>1, <3>1
    <3>2. CASE ~Jtag!IsLine(req)
      <4>1. [data |-> dati', stat |-> stat'] \in Answers
        <5>1. dati' \in Data /\ stat' \in Jtag!Stat
            BY DEF ClientOK, Jtag!Stat
        <5> QED
            BY <5>1 DEF Answers
      <4>2. Given' = Append(Given, [data |-> dati', stat |-> stat'])
          BY <1>2, <1>3, <1>6, <3>2
      <4> QED
          BY <2>1, <3>2, <4>1, <4>2
    <3> QED
        BY <3>1, <3>2
  <2>3. Server!Serve
      BY <2>1, <2>2 DEF Server!Serve, Todo, Given, Answers
  <2> QED
      BY <2>3
<1>7. CASE /\ (busy' <=> busy) /\ ~wren'
           /\ UNCHANGED <<cmdq, req>>
  <2>1. Todo' = Todo
      BY <1>7 DEF Todo
  <2> QED
      BY <1>2, <1>3, <1>7, <2>1
<1> QED
    BY <1>5, <1>6, <1>7 DEF ClientEdge

LEMMA WriteServed ==
    ASSUME ClientOK, NEW r \in JtagReq \cup SwdReq, cmdq' = Append(cmdq, r),
           UNCHANGED <<resp, req, busy, wren, dati, stat>>
    PROVE  Server!Write
<1>1. r \in Reqs /\ cmdq \in Seq(Reqs) /\ req \in Reqs
    BY ReqAssumption DEF Reqs, ClientOK
<1>2. Todo' = Append(Todo, r)
  <2>1. CASE busy
      BY <1>1, <2>1, ConsFacts DEF Todo
  <2>2. CASE ~busy
    <3>1. Append(cmdq, r) \in Seq(Reqs)
        BY <1>1
    <3> QED
        BY <1>1, <2>2, <3>1 DEF Todo
  <2> QED
      BY <2>1, <2>2
<1>3. Given' = Given
    BY DEF Given
<1> QED
    BY <1>2, <1>3 DEF Server!Write, Todo, Given

LEMMA ReadServed ==
    ASSUME ClientOK, resp # <<>>, resp' = Tail(resp),
           UNCHANGED <<cmdq, req, busy, wren, dati, stat>>
    PROVE  Server!Read
<1> DEFINE x == IF wren THEN <<[data |-> dati, stat |-> stat]>> ELSE <<>>
<1>1. resp \in Seq(Answers) /\ x \in Seq(Answers)
  <2>1. [data |-> dati, stat |-> stat] \in Answers
      BY DEF ClientOK, Answers
  <2> QED
      BY <2>1 DEF ClientOK
<1>2. x' = x /\ Given = resp \o x
    BY DEF Given
<1>3. Given' = resp' \o x'
    BY DEF Given
<1> HIDE DEF x
<1>4. Given # <<>> /\ Given' = Tail(Given)
    BY <1>1, <1>2, <1>3, TailConcat
<1>5. Todo' = Todo
    BY DEF Todo
<1> QED
    BY <1>4, <1>5 DEF Server!Read, Todo, Given

LEMMA PairedClient ==
    ASSUME PairedUndisturbed
    PROVE  ClientOK
<1>1. CASE JTAGnSWD
    BY <1>1, JtagTyped DEF PairedUndisturbed, ClientOK, Jtag!Inv, Jtag!CommandFollowed
<1>2. CASE ~JTAGnSWD
    BY <1>2, SwdTyped DEF PairedUndisturbed, ClientOK, Swd!Inv, Swd!CommandFollowed
<1> QED
    BY <1>1, <1>2

LEMMA StepServes ==
    ASSUME PairedUndisturbed, PairedUndisturbed', [Next]_vars
    PROVE  [Server!Next]_(Server!vars)
<1>1. ClientOK /\ ClientOK'
  <2>1. ClientOK'
      BY PairedClient, PTL
  <2> QED
      BY <2>1, PairedClient
<1>2. ASSUME UNCHANGED <<cmdq, req, resp, busy, wren, dati, stat>>
      PROVE  UNCHANGED Server!vars
    BY <1>2 DEF Server!vars
<1>3. CASE Clock
  <2>1. ClientEdge
    <3>1. CASE JTAGnSWD /\ Jtag!Clock
        BY <3>1, JtagEdgeClient DEF PairedUndisturbed
    <3>2. CASE ~JTAGnSWD /\ Swd!Clock
        BY <3>2, SwdEdgeClient DEF PairedUndisturbed
    <3> QED
        BY <1>3, <3>1, <3>2 DEF Clock, Select
  <2>2. Server!Serve \/ (Todo' = Todo /\ Given' = Given)
      BY <1>1, <2>1, EdgeServes
  <2> QED
      BY <2>2 DEF Server!Next, Server!vars, Todo, Given
<1>4. CASE Reset
  <2>1. /\ ~busy' /\ ~wren' /\ cmdq' = <<>> /\ resp' = <<>>
      BY <1>4 DEF Reset, Select, Jtag!Reset
  <2>2. Todo' = <<>> /\ Given' = <<>>
      BY <2>1 DEF Todo, Given
  <2> QED
      BY <2>2 DEF Server!Next, Server!Reset, Todo, Given
<1>5. CASE Write
  <2>1. PICK r \in JtagReq \cup SwdReq :
          cmdq' = Append(cmdq, r) /\ UNCHANGED <<resp, req, busy, wren, dati, stat>>
    <3>1. CASE \E r \in JtagReq : Jtag!Write(r)
        BY <3>1 DEF Jtag!Write, Jtag!ctrl
    <3>2. CASE \E r \in SwdReq : Swd!Write(r)
        BY <3>2 DEF Swd!Write, Swd!ctrl
    <3> QED
        BY <1>5, <3>1, <3>2 DEF Write, Select
  <2>2. Server!Write
      BY <1>1, <2>1, WriteServed
  <2> QED
      BY <2>2 DEF Server!Next
<1>6. CASE Read
  <2>1. resp # <<>> /\ resp' = Tail(resp) /\ UNCHANGED <<cmdq, req, busy, wren, dati, stat>>
      BY <1>6 DEF Read, Select, Jtag!Read, Jtag!ctrl, Swd!Read, Swd!ctrl
  <2>2. Server!Read
      BY <1>1, <2>1, ReadServed
  <2> QED
      BY <2>2 DEF Server!Next
<1>7. CASE PhyExec
  <2>1. UNCHANGED <<cmdq, req, resp, busy, wren, dati, stat>>
      BY <1>7 DEF PhyExec, Select, Jtag!PhyExec, Jtag!client, Jtag!ctrl,
                  Swd!PhyExec, Swd!client, Swd!ctrl
  <2> QED
      BY <1>2, <2>1
<1>8. CASE UNCHANGED vars
  <2>1. UNCHANGED <<cmdq, req, resp, busy, wren, dati, stat>>
      BY <1>8 DEF vars, Jtag!vars, Jtag!client, Jtag!ctrl
  <2> QED
      BY <1>2, <2>1
<1> QED
    BY <1>3, <1>4, <1>5, <1>6, <1>7, <1>8 DEF Next

\* Behind the mux there is one server of ADIv5 commands: whichever interface
\* is selected, each command written is carried out once, in order, and
\* answered once unless it only resets the line; nothing else is answered,
\* however often a target makes the controller repeat or give up.
THEOREM Refinement == Spec => ServesInOrder
<1>1. Init => Server!Init
  <2>1. ASSUME cmdq = <<>>, resp = <<>>, ~busy, ~wren
        PROVE  Todo = <<>> /\ Given = <<>>
      BY <2>1 DEF Todo, Given
  <2>2. Init => cmdq = <<>> /\ resp = <<>> /\ ~busy /\ ~wren
      BY DEF Init, Jtag!Init, Swd!Init
  <2> QED
      BY <2>1, <2>2 DEF Server!Init, Todo, Given
<1>2. PairedUndisturbed /\ PairedUndisturbed' /\ [Next]_vars => [Server!Next]_(Server!vars)
    BY StepServes
<1> QED
    BY <1>1, <1>2, Invariance, PTL DEF Spec, ServesInOrder, Server!Spec
=============================================================================
