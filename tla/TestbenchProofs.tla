-------------------------- MODULE TestbenchProofs --------------------------
(***************************************************************************)
(* Proofs about Testbench for every period, buffer size and set of pins,   *)
(* and for any number of clients one after the other.                      *)
(***************************************************************************)
EXTENDS Testbench, SequenceTheorems, FiniteSetTheorems, TLAPS

-----------------------------------------------------------------------------
(* The parts of the inductive invariant.                                   *)

\* What goes over the connection.
PinLevels == Pins \cup {CHOOSE p \in Pins : TRUE}
Change == {Ordered(c)[k] : c \in SUBSET Nat, k \in Nat} \X BOOLEAN
Command ==
    IF service = "uart" THEN Bytes
    ELSE IF service = "gpio" THEN Change \cup {FlushCommand}
    ELSE [op : {"pins"}, pins : Pins] \cup [op : {"reset"}, on : BOOLEAN] \cup [op : {"query"}]
Answer ==
    IF service = "uart" THEN Seq({0, 1})
    ELSE IF service = "gpio" THEN Change
    ELSE PinLevels

ServerType ==
    /\ running \in BOOLEAN /\ rude \in BOOLEAN
    /\ thread \in {"none", "new", "socket", "listen", "accept", "read", "flush", "ended"}
    /\ process \in {"runs", "quits", "joins", "deleted", "exit 0", "exit -1"}
    /\ sockfd \in {"none", "bound", "listening", "shut"}
    /\ conn \in {"none", "pending", "open", "fin", "reset", "dead"}
    /\ tx \in Seq(Command) /\ inbound \in Seq(Command)
    /\ sent \in Seq(Command) /\ served \in Seq(Command)
    /\ rx \in Seq(Answer) /\ outbound \in Seq(Answer)
    /\ answered \in Seq(Answer) /\ got \in Seq(Answer)

PeerType ==
    /\ service \in {"none", "jtag", "uart", "gpio"}
    /\ service = "none" => peer = "none"
    /\ service = "jtag" => peer \in {"JTAGClient", "openocd"}
    /\ service = "uart" => peer = "host"
    /\ service = "gpio" => peer = "GPIOClient"
    /\ pins \in PinLevels /\ tdo \in PinLevels
    /\ rxc \in Seq({0, 1}) /\ line \in Seq({0, 1})
    /\ call \in {"idle", "query", "read", "failed"}
    /\ peer # "JTAGClient" => call = "idle"
    /\ t \in Nat

TypeOK == ServerType /\ PeerType

\* Where the thread is, its socket and its connection.
ThreadFollowed ==
    /\ thread \in {"none", "new", "socket"} => sockfd = "none"
    /\ thread = "listen" => sockfd = "bound"
    /\ thread \in {"accept", "read", "flush", "ended"} => sockfd \in {"listening", "shut"}
    /\ sockfd \in {"none", "bound"} => conn = "none"
    /\ thread = "accept" => conn \in {"none", "pending", "fin"}
    /\ thread \in {"read", "flush"} => conn \in {"open", "fin", "reset", "dead"}
    /\ conn # "open" => outbound = <<>>
    /\ service = "none" => thread = "none" /\ ~running
    /\ process \in {"runs", "quits"} =>
          /\ thread \notin {"none", "new"} => running
          /\ thread # "ended"
          /\ sockfd # "shut"

\* The simulation ends only while the server listens, ...
QuitsListening ==
    /\ process \in {"quits", "joins"} => service = "none" \/ sockfd \in {"listening", "shut"}
    /\ process = "deleted" => thread \in {"none", "ended"}

\* Every query has been answered once when it has been served, and a client
\* that is gone, if it was not rude, has left nothing to be answered.
Owed ==
    /\ service = "jtag" => Len(answered) = Queries(served)
    /\ ~rude =>
         /\ conn \notin {"reset", "dead"}
         /\ ~Connected => IF service = "jtag" THEN Asked = Len(got) ELSE sent = <<>> /\ conn = "none"
         /\ peer = "JTAGClient" /\ call # "failed" =>
                Asked = Len(got) + (IF call = "read" THEN 1 ELSE 0)
    /\ call = "failed" => ~Alive

ServerInv == TypeOK /\ ThreadFollowed /\ Conserved /\ Owed /\ Survives

\* The k-th command set the pins, and they show it once it has been served.
PinsSent(k) ==
    /\ k > 0 /\ sent[k] = SetPins(wrote)
    /\ Len(served) >= k => pins = wrote

\* A client that has written its pins, but no query, and one that waits.
QueryFollowed == call = "query" => PinsSent(Len(sent))
ReadFollowed ==
    call = "read" =>
        /\ PinsSent(Len(sent) - 1) /\ sent[Len(sent)] = Query
        /\ Len(served) = Len(sent) /\ ~rude => answered = Append(got, wrote)

\* The pins show what the client wrote once that has been served, and so does
\* the answer to its query.
PinsFollowed == peer = "JTAGClient" => QueryFollowed /\ ReadFollowed

\* The trace: it is on if the last tick was in its window, and holds the ticks
\* of the window so far.
TraceTypes ==
    /\ fst \in [on : BOOLEAN, start : 0..Horizon, stop : 0..Horizon, garbage : BOOLEAN]
    /\ fstDumping \in BOOLEAN /\ isOpen \in BOOLEAN
    /\ t \in 0..(Horizon + Wrap)
TraceClosed ==
    /\ isOpen => fstDumping
    /\ process \in {"joins", "deleted", "exit 0"} => ~isOpen
Window(n) == {u \in 0..(n - 1) : InWindow(u)}
TraceNow ==
    /\ fstDumping <=> t > 0 /\ InWindow(t - 1)
    /\ isOpen = fstDumping
    /\ dumped = Window(t)
TraceDumped ==
    ~fst.garbage /\ t <= Horizon =>
        /\ process = "runs" => TraceNow
        /\ dumped \ {t} = Window(t)

TraceFollowed == TraceTypes /\ TraceClosed /\ TraceDumped

\* Clocks of a frame.
Clocks == (Bits + 2) * UartPeriod

\* The UART.  The server's state machines and the target's are where the r-th
\* clock of bit n of a byte's frame has them; bit 0 is the start bit, bit
\* Bits + 1 the stop bit.
Upto(a, n) == SubSeq(a, 1, n)
Past(a, n) == SubSeq(a, n + 1, Len(a))
Phase(start) == (t - start) % (2 * UartPeriod)
Middle == UartPeriod \div 2
At(n, r) == n * UartPeriod + r
BitOf(byte, n) == IF n = 0 THEN 0 ELSE IF n <= Bits THEN byte[n] ELSE 1

UartTypes ==
    service = "uart" => tx_start \in Nat /\ rx_start \in Nat /\ heard \in Seq(Bytes)

\* The frame on tx_pin: what is left of it on the line, and what the server
\* has seen of it.
TxIdling == tx_state = "IDLE" /\ tx_start = 0 /\ rxc = <<>> /\ answered = said
IsRest(x, byte, n, r) ==
    /\ Len(x) = Clocks - At(n, r)
    /\ \A k \in 1..Len(x) : x[k] = Frame(byte)[At(n, r) + k]
TxBusy(byte, n, r) ==
    /\ IsRest(line, byte, n, r)
    /\ IF n <= Bits
       THEN /\ tx_state = IF n < Bits THEN "DATA" ELSE "STOP"
            /\ tx_start # 0 /\ Phase(tx_start) = 2 * r + (t % 2)
            /\ rxc = Upto(byte, n)
            /\ said = Append(answered, byte)
       ELSE TxIdling
TxSomewhere ==
    \/ line = <<>> /\ TxIdling
    \/ \E byte \in Bytes, n \in 0..(Bits + 1), r \in 0..(UartPeriod - 1) : TxBusy(byte, n, r)
TxFollowed ==
    service = "uart" /\ clean /\ process = "runs" =>
        /\ ~running => line = <<>>
        /\ TxSomewhere

\* The frame on rx_pin: what the target's receiver has of it, and what the
\* server has put out.
Hearing(byte, n, r) ==
    IF n <= Bits \/ r <= Middle
    THEN /\ hearing = At(n, r)
         /\ bits = Upto(byte, IF n = 0 \/ r > Middle THEN n ELSE n - 1)
         /\ served = Append(heard, byte)
    ELSE hearing = 0 /\ bits = <<>> /\ heard = served
RxBusy(byte, n, r) ==
    /\ rx_state = IF n < Bits THEN "DATA" ELSE IF n = Bits THEN "STOP" ELSE "DONE"
    /\ rx_start # 0 /\ Phase(rx_start) = 2 * r + (t % 2)
    /\ n <= Bits => txc = Past(byte, n)
    /\ n > Bits => r # UartPeriod - 1
    /\ rx_pin = BitOf(byte, n)
    /\ Hearing(byte, n, r)
RxIdling ==
    /\ rx_state = "IDLE" /\ rx_start = 0 /\ rx_pin = 1
    /\ \/ hearing = 0 /\ bits = <<>> /\ heard = served
       \/ \E byte \in Bytes : Hearing(byte, Bits + 1, UartPeriod - 1)
RxSomewhere ==
    \/ RxIdling
    \/ \E byte \in Bytes, n \in 0..(Bits + 1), r \in 0..(UartPeriod - 1) : RxBusy(byte, n, r)
RxFollowed ==
    service = "uart" /\ process = "runs" =>
        /\ ~running => rx_state = "IDLE" /\ hearing = 0
        /\ RxSomewhere

UartFollowed == UartTypes /\ TxFollowed /\ RxFollowed /\ (process # "runs" => UartBytes)

-----------------------------------------------------------------------------
(* Sequences.                                                              *)

\* A sequence cut in two.
LEMMA Cut ==
    ASSUME NEW S, NEW s \in Seq(S), NEW n \in 0..Len(s)
    PROVE  /\ SubSeq(s, 1, n) \in Seq(S) /\ Len(SubSeq(s, 1, n)) = n
           /\ SubSeq(s, n + 1, Len(s)) \in Seq(S)
           /\ Len(SubSeq(s, n + 1, Len(s))) = Len(s) - n
           /\ s = SubSeq(s, 1, n) \o SubSeq(s, n + 1, Len(s))
<1> DEFINE a == SubSeq(s, 1, n)
           b == SubSeq(s, n + 1, Len(s))
<1>1. /\ a \in Seq(S) /\ Len(a) = n
      /\ \A i \in 1..n : a[i] = s[i]
  <2>1. \A i \in 1..n : s[i] \in S
    OBVIOUS
  <2> QED
    BY <2>1, SubSeqProperties
<1>2. /\ b \in Seq(S) /\ Len(b) = Len(s) - n
      /\ \A i \in 1..(Len(s) - n) : b[i] = s[n + i]
  <2>1. \A i \in (n + 1)..Len(s) : s[i] \in S
    OBVIOUS
  <2> QED
    BY <2>1, SubSeqProperties
<1> HIDE DEF a, b
<1> DEFINE z == a \o b
<1>3. /\ z \in Seq(S) /\ Len(z) = Len(a) + Len(b)
      /\ \A i \in 1..(Len(a) + Len(b)) : z[i] = IF i <= Len(a) THEN a[i] ELSE b[i - Len(a)]
  BY <1>1, <1>2, ConcatProperties
<1> HIDE DEF z
<1>4. /\ z \in Seq(S) /\ Len(z) = n + (Len(s) - n)
      /\ \A i \in 1..(n + (Len(s) - n)) : z[i] = IF i <= n THEN a[i] ELSE b[i - n]
  BY <1>1, <1>2, <1>3, Zenon
<1>5. Len(s) \in Nat /\ n \in Nat /\ n + (Len(s) - n) = Len(s)
  BY LenProperties
<1>6. ASSUME NEW i \in 1..Len(s)
      PROVE  z[i] = s[i]
  <2>1. CASE i <= n
    <3>1. i \in 1..n
      BY <2>1
    <3> QED
      BY <1>1, <1>4, <1>5, <2>1, <3>1
  <2>2. CASE ~(i <= n)
    <3>1. i - n \in 1..(Len(s) - n) /\ n + (i - n) = i
      BY <1>5, <2>2
    <3>2. z[i] = b[i - n]
      BY <1>4, <1>5, <2>2
    <3>3. b[i - n] = s[n + (i - n)]
      BY <1>2, <3>1
    <3> QED
      BY <3>1, <3>2, <3>3
  <2> QED
    BY <2>1, <2>2
<1>7. s = z
  BY <1>4, <1>5, <1>6, SeqEqual
<1> QED
  BY <1>1, <1>2, <1>7 DEF a, b, z

\* A list of answers, none, or one.
LEMMA Short ==
    ASSUME NEW S, NEW x \in S
    PROVE  <<>> \in Seq(S) /\ <<x>> \in Seq(S) /\ Len(<<x>>) = 1 /\ Len(<<>>) = 0
OBVIOUS

\* Concatenation is associative.
LEMMA Assoc ==
    ASSUME NEW S, NEW a \in Seq(S), NEW b \in Seq(S), NEW c \in Seq(S)
    PROVE  (a \o b) \o c = a \o (b \o c)
<1> DEFINE x == (a \o b) \o c
           y == a \o (b \o c)
<1>1. /\ a \o b \in Seq(S) /\ b \o c \in Seq(S)
      /\ Len(a \o b) = Len(a) + Len(b) /\ Len(b \o c) = Len(b) + Len(c)
  BY ConcatProperties
<1>2. x \in Seq(S) /\ y \in Seq(S) /\ Len(x) = Len(y)
  BY <1>1
<1>3. ASSUME NEW i \in 1..Len(x)
      PROVE  x[i] = y[i]
  BY <1>1
<1> HIDE DEF x, y
<1>4. x = y
  BY <1>2, <1>3, SeqEqual
<1> QED
  BY <1>4, Zenon DEF x, y

\* The same by name: the provers know too much of the operators of Sequences;
\* the parts of a sequence are Upto and Past, above.
Cat(a, b) == a \o b

\* What is needed of them: types, associativity, and a cut undone.
LEMMA CatFacts ==
    ASSUME NEW S
    PROVE  /\ \A a, b \in Seq(S) : Cat(a, b) \in Seq(S)
           /\ \A a, b, c \in Seq(S) : Cat(Cat(a, b), c) = Cat(a, Cat(b, c))
           /\ \A a \in Seq(S) : \A n \in 0..Len(a) :
                 /\ Upto(a, n) \in Seq(S) /\ Past(a, n) \in Seq(S)
                 /\ Cat(Upto(a, n), Past(a, n)) = a
<1>1. \A a, b \in Seq(S) : Cat(a, b) \in Seq(S)
  BY ConcatProperties DEF Cat
<1>2. \A a, b, c \in Seq(S) : Cat(Cat(a, b), c) = Cat(a, Cat(b, c))
  BY Assoc DEF Cat
<1>3. \A a \in Seq(S) : \A n \in 0..Len(a) :
        /\ Upto(a, n) \in Seq(S) /\ Past(a, n) \in Seq(S)
        /\ Cat(Upto(a, n), Past(a, n)) = a
  <2> TAKE a \in Seq(S)
  <2> TAKE n \in 0..Len(a)
  <2> QED
    BY Cut DEF Cat, Upto, Past
<1> QED
  BY <1>1, <1>2, <1>3

\* The first of one sequence put behind the other.
LEMMA Taken ==
    ASSUME NEW S, NEW a \in Seq(S), NEW b \in Seq(S), NEW n \in 0..Len(b)
    PROVE  Cat(Cat(a, Upto(b, n)), Past(b, n)) = Cat(a, b)
BY CatFacts

\* The same with a third sequence before the two.
LEMMA Moved ==
    ASSUME NEW S, NEW a \in Seq(S), NEW b \in Seq(S), NEW c \in Seq(S), NEW n \in 0..Len(c)
    PROVE  Cat(Cat(a, Cat(b, Upto(c, n))), Past(c, n)) = Cat(Cat(a, b), c)
<1> DEFINE x == Upto(c, n)
           y == Past(c, n)
<1>1. x \in Seq(S) /\ y \in Seq(S) /\ c = Cat(x, y)
  BY CatFacts
<1> HIDE DEF x, y
<1>2. Cat(Cat(a, Cat(b, x)), y) = Cat(Cat(a, b), c)
  <2>1. Cat(a, Cat(b, x)) = Cat(Cat(a, b), x) /\ Cat(a, b) \in Seq(S)
    BY <1>1, CatFacts
  <2>2. Cat(Cat(Cat(a, b), x), y) = Cat(Cat(a, b), Cat(x, y))
    BY <1>1, <2>1, CatFacts
  <2> QED
    BY <1>1, <2>1, <2>2, Zenon
<1> QED
  BY <1>2, Zenon DEF x, y

\* An element passed from the head of one sequence to the end of another.
LEMMA Passed ==
    ASSUME NEW S, NEW a \in Seq(S), NEW b \in Seq(S), b # <<>>
    PROVE  Cat(Append(a, Head(b)), Tail(b)) = Cat(a, b)
<1> DEFINE x == <<Head(b)>>
           y == Tail(b)
<1>1. /\ x \in Seq(S) /\ y \in Seq(S)
      /\ b = Cat(x, y) /\ Append(a, Head(b)) = Cat(a, x)
  <2>1. Head(b) \in S /\ y \in Seq(S)
    BY HeadTailProperties
  <2>2. x \in Seq(S)
    BY <2>1, Short
  <2>3. Append(a, Head(b)) = a \o x
    BY <2>1, AppendIsConcat
  <2>4. b = x \o y
    OBVIOUS
  <2> QED
    BY <2>1, <2>2, <2>3, <2>4 DEF Cat
<1> HIDE DEF x, y
<1>2. Cat(Cat(a, x), y) = Cat(a, Cat(x, y))
  BY <1>1, CatFacts
<1> QED
  BY <1>1, <1>2, Zenon DEF y

-----------------------------------------------------------------------------
(* Queries.                                                                *)

\* What a sequence of commands asks is a number, and more of them ask for
\* at least as much.
LEMMA QueriesType ==
    ASSUME NEW S, NEW s \in Seq(S)
    PROVE  /\ IsFiniteSet({i \in DOMAIN s : s[i].op = "query"})
           /\ Queries(s) \in Nat
<1> DEFINE A == {i \in DOMAIN s : s[i].op = "query"}
<1>1. A \in SUBSET (1..Len(s)) /\ IsFiniteSet(1..Len(s))
  <2>1. DOMAIN s = 1..Len(s) /\ Len(s) \in Int
    BY LenProperties
  <2> QED
    BY <2>1, FS_Interval
<1>2. IsFiniteSet(A)
  BY <1>1, FS_Subset
<1> QED
  BY <1>2, FS_CardinalityType DEF Queries

\* No commands, no queries.
LEMMA QueriesEmpty == Queries(<<>>) = 0
<1>1. {i \in DOMAIN <<>> : <<>>[i].op = "query"} = {}
  OBVIOUS
<1> QED
  BY <1>1, FS_EmptySet DEF Queries

\* A command more is a query more if it is one.
LEMMA QueriesAppend ==
    ASSUME NEW S, NEW s \in Seq(S), NEW c \in S
    PROVE  Queries(Append(s, c)) = Queries(s) + (IF c.op = "query" THEN 1 ELSE 0)
<1> DEFINE A == {i \in DOMAIN s : s[i].op = "query"}
           B == {i \in DOMAIN Append(s, c) : Append(s, c)[i].op = "query"}
           n == Len(s) + 1
<1>1. IsFiniteSet(A) /\ Queries(s) = Cardinality(A) /\ Queries(s) \in Nat
  BY QueriesType DEF Queries
<1>2. /\ DOMAIN Append(s, c) = 1..n /\ DOMAIN s = 1..Len(s) /\ Len(s) \in Nat
      /\ Append(s, c)[n] = c /\ \A i \in 1..Len(s) : Append(s, c)[i] = s[i]
  OBVIOUS
<1>3. n \notin A /\ 1..n = (1..Len(s)) \cup {n}
  BY <1>2
<1>4. CASE c.op = "query"
  <2>1. B = A \cup {n}
    BY <1>2, <1>3, <1>4
  <2> QED
    <3>1. Cardinality(A \cup {n}) = Cardinality(A) + 1
      BY <1>1, <1>3, FS_AddElement
    <3>2. Queries(Append(s, c)) = Cardinality(A \cup {n})
      BY <2>1, Zenon DEF Queries
    <3>3. Queries(Append(s, c)) = Queries(s) + 1
      BY <1>1, <3>1, <3>2, Zenon
    <3> QED
      BY <1>1, <1>4, <3>3
<1>5. CASE c.op # "query"
  <2>1. B = A
    BY <1>2, <1>3, <1>5
  <2> QED
    <3>1. Queries(Append(s, c)) = Queries(s)
      BY <2>1, Zenon DEF Queries
    <3> QED
      BY <1>1, <1>5, <3>1
<1> QED
  BY <1>4, <1>5

\* More commands hold at least the queries there were.
LEMMA QueriesMore ==
    ASSUME NEW S, NEW s \in Seq(S), NEW u \in Seq(S)
    PROVE  Queries(s) <= Queries(s \o u)
<1> DEFINE A == {i \in DOMAIN s : s[i].op = "query"}
           B == {i \in DOMAIN (s \o u) : (s \o u)[i].op = "query"}
<1>1. s \o u \in Seq(S)
  BY ConcatProperties
<1>2. IsFiniteSet(B)
  BY <1>1, QueriesType
<1>3. A \in SUBSET B
  <2>1. ASSUME NEW i \in DOMAIN s
        PROVE  i \in DOMAIN (s \o u) /\ (s \o u)[i] = s[i]
    OBVIOUS
  <2> QED
    BY <2>1
<1> QED
  BY <1>2, <1>3, FS_Subset DEF Queries

-----------------------------------------------------------------------------
(* Types.                                                                  *)

\* The options and the client's kind never change, nor does what they send.
LEMMA Fixed ==
    ASSUME [Next]_vars
    PROVE  /\ UNCHANGED <<service, timeout, fst, peer>>
           /\ Command' = Command /\ Answer' = Answer
<1>1. UNCHANGED <<service, timeout, fst, peer>>
  <2>1. CASE Main
    BY <2>1, Zenon DEF Main, Parse, Iterate, Leave, Delete, Exit, options, peers
  <2>2. CASE ServerThread
    BY <2>2, Zenon DEF ServerThread, options, peers
  <2>3. CASE Client
    BY <2>3, Zenon DEF Client, Dial, JtagPeer, Openocd, Host, GpioPeer, GpioPeerPins,
                       simulationVars, options, peers, StartClient, StartGpio
  <2>4. CASE UNCHANGED vars
    BY <2>4, Zenon DEF vars, options, peers
  <2> QED
    BY <2>1, <2>2, <2>3, <2>4 DEF Next
<1> QED
  BY <1>1, Zenon DEF Command, Answer

\* What differs between two words is a sequence of changes.
LEMMA ChangesType ==
    ASSUME NEW a, NEW b, NEW n \in Nat
    PROVE  Changes(a, b, n) \in Seq(Change)
<1> DEFINE changed == {i \in 0..(n - 1) : Mask(i) \cap a /= Mask(i) \cap b}
           m == Cardinality(changed)
           pin(k) == Ordered(changed)[k]
<1>1. changed \in SUBSET Nat /\ m \in Nat
  <2>1. changed \in SUBSET (0..(n - 1)) /\ IsFiniteSet(0..(n - 1))
    BY FS_Interval
  <2> QED
    BY <2>1, FS_Subset, FS_CardinalityType
<1>2. ASSUME NEW k \in 1..m
      PROVE  <<pin(k), Mask(pin(k)) \cap b /= {}>> \in Change
  <2>1. /\ (Mask(pin(k)) \cap b /= {}) \in BOOLEAN
        /\ k \in Nat
    BY <1>1
  <2> HIDE DEF changed
  <2> DEFINE P == {Ordered(c)[j] : c \in SUBSET Nat, j \in Nat}
             v == Mask(pin(k)) \cap b /= {}
  <2>2. pin(k) \in P
    BY <1>1, <2>1
  <2>3. Change = P \X BOOLEAN
    BY DEF Change
  <2> HIDE DEF pin, P
  <2>4. v \in BOOLEAN
    OBVIOUS
  <2> HIDE DEF v
  <2>5. <<pin(k), v>> \in P \X BOOLEAN
    BY <2>2, <2>4
  <2> QED
    BY <2>3, <2>5 DEF v
<1>3. Changes(a, b, n) = [k \in 1..m |-> <<pin(k), Mask(pin(k)) \cap b /= {}>>]
  BY Zenon DEF Changes
<1> HIDE DEF m, changed, pin
<1> QED
  BY <1>1, <1>2, <1>3

\* Pins are levels of pins, and so is what the server keeps of them.
LEMMA PinLevelsType == Pins \subseteq PinLevels /\ (TypeOK => pins \in PinLevels /\ tdo \in PinLevels)
BY DEF PinLevels, TypeOK, PeerType

\* The first command of some.
LEMMA First ==
    ASSUME NEW S, NEW x \in Seq(S), x # <<>>
    PROVE  SubSeq(x, 1, 1) = <<Head(x)>>
<1> DEFINE a == SubSeq(x, 1, 1)
           b == <<Head(x)>>
<1>1. x[1] \in S /\ Head(x) = x[1]
  OBVIOUS
<1>2. a \in Seq(S) /\ Len(a) = 1 /\ a[1] = x[1]
  <2>1. \A i \in 1..1 : x[i] \in S
    BY <1>1
  <2> QED
    BY <2>1, SubSeqProperties
<1>3. b \in Seq(S) /\ Len(b) = 1 /\ b[1] = x[1]
  BY <1>1
<1> HIDE DEF a, b
<1>4. \A i \in 1..1 : a[i] = b[i]
  BY <1>2, <1>3
<1>5. a = b
  BY <1>2, <1>3, <1>4, SeqEqual
<1> QED
  BY <1>5 DEF a, b

\* The simulation takes n commands and gives the answers a: JTAG takes one,
\* and answers it, or sets the pins.
Answers(n, a) ==
    /\ n \in 0..Len(tx) /\ a \in Seq(Answer)
    /\ Exchange(n, a)
    /\ service = "jtag" =>
          /\ tx # <<>> /\ n = 1
          /\ a = IF Head(tx).op = "query" THEN <<tdo'>> ELSE <<>>
          /\ pins' = IF Head(tx).op = "pins" THEN Head(tx).pins ELSE pins

Answering == (\E n, a : Answers(n, a)) \/ UNCHANGED <<tx, rx, simulation, pins>>

\* doGPIOServer takes no more commands than there are.
LEMMA BatchType == ASSUME ServerType PROVE Batch \in 0..Len(tx)
<1> DEFINE B == {k \in 1..Len(tx) : \A j \in 1..(k - 1) : ~IsFlush(tx[j])}
<1>1. Len(tx) \in Nat
  BY LenProperties DEF ServerType
<1>2. IsFiniteSet(1..Len(tx)) /\ Cardinality(1..Len(tx)) = Len(tx)
  <2> DEFINE n == Len(tx)
             c == Cardinality(1..n)
  <2>1. n \in Nat
    BY <1>1
  <2> HIDE DEF n
  <2>2. 1 \in Int /\ n \in Int
    BY <2>1
  <2>3. IsFiniteSet(1..n) /\ c = IF 1 > n THEN 0 ELSE n - 1 + 1
    BY <2>2, FS_Interval, Zenon
  <2> HIDE DEF c
  <2>4. c = n
    BY <2>1, <2>3
  <2> QED
    BY <2>3, <2>4 DEF c, n
<1>3. B \in SUBSET (1..Len(tx))
  OBVIOUS
<1> HIDE DEF B
<1>4. IsFiniteSet(B) /\ Cardinality(B) <= Cardinality(1..Len(tx))
  BY <1>2, <1>3, FS_Subset
<1>5. Cardinality(B) \in Nat
  BY <1>4, FS_CardinalityType
<1>6. Batch = Cardinality(B)
  BY Zenon DEF Batch, B
<1> QED
  BY <1>1, <1>2, <1>4, <1>5, <1>6

\* JTAG: one command, which is answered if it is a query.
LEMMA JtagAnswers ==
    ASSUME TypeOK, service = "jtag", tdo' \in PinLevels, NEW r, DoJTAGServer(r)
    PROVE  Answering /\ pins' \in PinLevels
<1>1. CASE tx = <<>>
  <2>1. UNCHANGED <<tx, rx, simulation, pins>> \/ tx # <<>>
    BY Zenon DEF DoJTAGServer
  <2> QED
    BY <1>1, <2>1, PinLevelsType DEF Answering
<1>2. CASE tx # <<>>
  <2> DEFINE cmd == Head(tx)
             a == IF cmd.op = "query" THEN <<tdo'>> ELSE <<>>
  <2>1. /\ Exchange(1, a)
        /\ pins' = IF cmd.op = "pins" THEN cmd.pins ELSE pins
    BY <1>2, Zenon DEF DoJTAGServer
  <2>2. /\ tx \in Seq(Command) /\ cmd \in Command /\ 1 \in 0..Len(tx)
        /\ cmd = tx[1] /\ <<cmd>> \in Seq(Command)
    <3>1. tx \in Seq(Command)
      BY DEF TypeOK, ServerType
    <3> QED
      BY <1>2, <3>1
  <2>3. /\ Command = [op : {"pins"}, pins : Pins] \cup [op : {"reset"}, on : BOOLEAN] \cup [op : {"query"}]
        /\ Answer = PinLevels
    BY Zenon DEF Command, Answer
  <2>4. pins' \in PinLevels
    <3>1. cmd.op = "pins" => cmd.pins \in Pins
      BY <2>2, <2>3
    <3> QED
      BY <2>1, <3>1, PinLevelsType
  <2>5. a \in Seq(Answer)
    BY <2>3, Short
  <2>6. Answers(1, a)
    BY <1>2, <2>1, <2>2, <2>5, Zenon DEF Answers
  <2> QED
    BY <2>4, <2>6, Zenon DEF Answering
<1> QED
  BY <1>1, <1>2

\* UART: a byte that is whole.
LEMMA UartAnswers ==
    ASSUME TypeOK, service = "uart", NEW now, NEW pin \in {0, 1}, DoUARTServer(now, pin),
           UNCHANGED pins
    PROVE  Answering /\ rxc' \in Seq({0, 1})
<1>1. rxc \in Seq({0, 1}) /\ Answer = Seq({0, 1})
  BY DEF TypeOK, PeerType, Answer
<1>2. CASE ~running \/ now % 2 = 1
  <2>1. UNCHANGED <<tx, rx, simulation, uartVars>>
    BY <1>2, Zenon DEF DoUARTServer
  <2> QED
    BY <1>1, <2>1 DEF Answering, uartVars
<1>3. CASE ~(~running \/ now % 2 = 1)
  <2> DEFINE n == IF Taking(now) THEN 1 ELSE 0
             a == IF Queued(now) THEN <<rxc>> ELSE <<>>
  <2>1. Transmit(now, pin) /\ Exchange(n, a)
    BY <1>3, Zenon DEF DoUARTServer
  <2>2. rxc' \in Seq({0, 1})
    <3>1. Append(rxc, pin) \in Seq({0, 1}) /\ <<>> \in Seq({0, 1})
      BY <1>1
    <3>2. rxc' = rxc \/ rxc' = Append(rxc, pin) \/ rxc' = <<>>
      BY <2>1, Zenon DEF Transmit, TxIdle, TxData, TxStop
    <3> QED
      BY <1>1, <3>1, <3>2
  <2>3. n \in 0..Len(tx)
    <3>1. tx \in Seq(Command)
      BY DEF TypeOK, ServerType
    <3>2. tx # <<>> => Len(tx) >= 1
      BY <3>1
    <3>3. Len(tx) \in Nat
      BY <3>1
    <3> QED
      BY <3>2, <3>3 DEF Taking
  <2>4. a \in Seq(Answer)
    BY <1>1, Short
  <2> HIDE DEF n, a
  <2>5. Answers(n, a)
    BY <2>1, <2>3, <2>4 DEF Answers
  <2> QED
    BY <2>2, <2>5, Zenon DEF Answering
<1> QED
  BY <1>2, <1>3

\* GPIO: what changed.
LEMMA GpioAnswers ==
    ASSUME TypeOK, service = "gpio", NEW o, DoGPIOServer(o), UNCHANGED pins
    PROVE  Answering
<1>1. CASE ~running
  BY <1>1 DEF DoGPIOServer, Answering
<1>2. CASE running
  <2> DEFINE a == Changes(IF init THEN output ELSE Word \ o, o, Outputs)
  <2>1. Exchange(Batch, a)
    BY <1>2, Zenon DEF DoGPIOServer
  <2>2. Answer = Change
    BY DEF Answer
  <2>3. Outputs \in Nat
    BY GpioAssumption
  <2>4. a \in Seq(Answer)
    BY <2>2, <2>3, ChangesType
  <2>5. Batch \in 0..Len(tx)
    BY BatchType DEF TypeOK
  <2> HIDE DEF a
  <2>6. Answers(Batch, a)
    BY <2>1, <2>4, <2>5 DEF Answers
  <2> QED
    BY <2>6, Zenon DEF Answering
<1> QED
  BY <1>1, <1>2

-----------------------------------------------------------------------------
(* An iteration of the main loop.                                          *)

\* A bit lasts two clocks at least, and a byte has a bit.
LEMMA Periods == UartPeriod \in Nat /\ UartPeriod > 1 /\ Bits \in Nat /\ Bits > 0
BY UartAssumption

\* A frame is longer than two bits.
LEMMA ClocksType == Clocks \in Nat /\ Clocks > 2 * UartPeriod
<1>1. (Bits + 2) * UartPeriod = Bits * UartPeriod + 2 * UartPeriod
  BY Periods
<1>2. Bits * UartPeriod \in Nat /\ Bits * UartPeriod > 0
  BY Periods
<1> QED
  BY <1>1, <1>2, Periods DEF Clocks

\* A frame is levels, as many as there are clocks in it.
LEMMA FrameType ==
    ASSUME NEW b \in Bytes
    PROVE  /\ Frame(b) \in Seq({0, 1}) /\ Len(Frame(b)) = Clocks
           /\ \A k \in 1..Clocks :
                Frame(b)[k] = LET bit == (k - 1) \div UartPeriod
                              IN  IF bit = 0 THEN 0 ELSE IF bit <= Bits THEN b[bit] ELSE 1
<1> DEFINE F(k) == LET bit == (k - 1) \div UartPeriod
                   IN  IF bit = 0 THEN 0 ELSE IF bit <= Bits THEN b[bit] ELSE 1
<1>1. Frame(b) = [k \in 1..Clocks |-> F(k)]
  BY Zenon DEF Frame, Clocks
<1>2. ASSUME NEW k \in 1..Clocks
      PROVE  F(k) \in {0, 1}
  <2> DEFINE bit == (k - 1) \div UartPeriod
  <2>1. bit \in Nat
    <3>1. k - 1 \in Nat
      BY ClocksType
    <3> QED
      BY <3>1, Periods
  <2>2. b \in [1..Bits -> {0, 1}]
    BY FrameAssumption
  <2> HIDE DEF bit
  <2>3. bit # 0 /\ bit <= Bits => b[bit] \in {0, 1}
    BY <2>1, <2>2, Periods
  <2> QED
    BY <2>3 DEF bit
<1> HIDE DEF F
<1>3. Frame(b) \in Seq({0, 1}) /\ Len(Frame(b)) = Clocks
  BY <1>1, <1>2, ClocksType
<1>4. \A k \in 1..Clocks : Frame(b)[k] = F(k)
  BY <1>1
<1> QED
  BY <1>3, <1>4 DEF F

\* What the main loop does to the queues, and to what answers are made of.
LEMMA Iterates ==
    ASSUME TypeOK, Iterate
    PROVE  /\ process = "runs" /\ Parsed
           /\ UNCHANGED <<running, thread, sockfd, connection, process, clients, options, peers>>
           /\ Answering
           /\ tdo' = pins /\ pins' \in PinLevels
           /\ rxc' \in Seq({0, 1}) /\ line' \in Seq({0, 1}) /\ t' \in Nat
<1> DEFINE resetn == t' > ResetTime \/ PORESETn
<1>1. /\ process = "runs" /\ Parsed
      /\ UNCHANGED <<running, thread, sockfd, connection, process, clients, options, peers>>
      /\ t' = Tick
      /\ Eval(t', resetn) /\ Serve(t', resetn, level', outputs')
  BY Zenon DEF Iterate, DoCycle
<1>2. t' \in Nat
  BY <1>1, PeriodAssumption DEF Tick, TypeOK, PeerType
<1>3. tdo' = pins /\ tdo' \in PinLevels
  BY <1>1, PinLevelsType, Zenon DEF Eval
<1>4. line' \in Seq({0, 1})
  <2>1. line' = line \/ Say
    BY <1>1, Zenon DEF Eval, uartTarget
  <2>2. line \in Seq({0, 1})
    BY DEF TypeOK, PeerType
  <2>3. Say => line' \in Seq({0, 1})
    <3>1. ASSUME line' = IF line = <<>> THEN <<>> ELSE Tail(line)
          PROVE  line' \in Seq({0, 1})
      BY <2>2, <3>1
    <3> QED
      BY <3>1, FrameType DEF Say
  <2> QED
    BY <2>1, <2>2, <2>3
<1>5. level' \in {0, 1}
  BY <1>4 DEF level
<1> HIDE DEF resetn
<1>6. \/ service = "jtag" /\ DoJTAGServer(resetn) /\ UNCHANGED rxc
      \/ service = "uart" /\ DoUARTServer(t', level') /\ UNCHANGED pins
      \/ service = "gpio" /\ DoGPIOServer(outputs') /\ UNCHANGED <<pins, rxc>>
      \/ UNCHANGED <<tx, rx, simulation, pins, rxc>>
  BY <1>1, Zenon DEF Serve, uartVars
<1>7. rxc \in Seq({0, 1})
  BY DEF TypeOK, PeerType
<1>8. /\ Answering
      /\ pins' \in PinLevels
      /\ rxc' \in Seq({0, 1})
  <2>1. CASE service = "jtag" /\ DoJTAGServer(resetn) /\ UNCHANGED rxc
    BY <1>3, <1>7, <2>1, JtagAnswers
  <2>2. CASE service = "uart" /\ DoUARTServer(t', level') /\ UNCHANGED pins
    BY <1>5, <2>2, UartAnswers, PinLevelsType
  <2>3. CASE service = "gpio" /\ DoGPIOServer(outputs') /\ UNCHANGED <<pins, rxc>>
    BY <1>7, <2>3, GpioAnswers, PinLevelsType
  <2>4. CASE UNCHANGED <<tx, rx, simulation, pins, rxc>>
    BY <1>7, <2>4, PinLevelsType DEF Answering
  <2> QED
    BY <1>6, <2>1, <2>2, <2>3, <2>4
<1> QED
  BY <1>1, <1>2, <1>3, <1>4, <1>8

-----------------------------------------------------------------------------
(* The steps, as the server sees them.                                     *)

\* What clients send: one JTAG client pins and queries in turn.
Sends ==
    \E cmds \in Seq(Command) :
        /\ Send(cmds)
        /\ \/ service = "jtag" /\ peer = "openocd" /\ call' = call
           \/ service \in {"uart", "gpio"} /\ call' = call
           \/ /\ peer = "JTAGClient" /\ call = "idle" /\ call' = "query"
              /\ wrote' \in Pins /\ cmds = <<SetPins(wrote')>>
           \/ /\ peer = "JTAGClient" /\ call = "query" /\ call' = "read" /\ wrote' = wrote
              /\ cmds = <<Query>>
Receives ==
    /\ Receive
    /\ IF peer = "JTAGClient" THEN call = "read" /\ call' = "idle" ELSE call' = call
Closes ==
    \E due \in BOOLEAN :
        /\ Close(due)
        /\ \/ peer = "JTAGClient" /\ due = (call = "read") /\ call' = "idle"
           \/ peer = "openocd" /\ due = (Asked > Len(got)) /\ call' = call
           \/ service \in {"uart", "gpio"} /\ due /\ call' = call
Breaks ==
    /\ peer = "JTAGClient" /\ call # "failed" /\ ~Alive /\ call' = "failed"
    /\ UNCHANGED <<serverVars, wrote>>
Connects ==
    /\ Connect
    /\ conns < IF service = "jtag" THEN MaxConns ELSE 1
    /\ conns' = conns + 1
    /\ UNCHANGED <<call, wrote>>

\* A step of the client.
LEMMA ClientMoves ==
    ASSUME TypeOK, Client
    PROVE  /\ \/ Connects
              \/ (Sends \/ Receives \/ Closes) /\ conns' = conns
              \/ Breaks
              \/ UNCHANGED <<serverVars, call, wrote>>
           /\ UNCHANGED <<pins, tdo, rxc, line, t>>
<1>1. UNCHANGED <<pins, tdo, rxc, line, t>>
  <2>1. UNCHANGED simulationVars \/ GpioPeerPins
    BY Zenon DEF Client, Dial, JtagPeer, Openocd, Host, GpioPeer
  <2> QED
    BY <2>1, Zenon DEF GpioPeerPins, simulationVars, uartVars, utils, target, uartTarget
<1>2. CASE Dial
  <2>1. Connect /\ UNCHANGED clientVars
    BY <1>2, Zenon DEF Dial, StartClient, StartGpio
  <2>2. conns < (IF service = "jtag" THEN MaxConns ELSE 1) /\ conns' = conns + 1
    BY <1>2, Zenon DEF Dial
  <2>3. Connects
    BY <2>1, <2>2, Zenon DEF Connects, clientVars
  <2> QED
    BY <1>1, <2>3, Zenon
<1>3. CASE JtagPeer
  <2>1. peer = "JTAGClient" /\ conns' = conns /\ service = "jtag"
    BY <1>3 DEF JtagPeer, TypeOK, PeerType
  <2>2. Command = [op : {"pins"}, pins : Pins] \cup [op : {"reset"}, on : BOOLEAN] \cup [op : {"query"}]
    BY <2>1, Zenon DEF Command
  <2>3. ASSUME NEW p \in Pins, WritePins(p)
        PROVE  Sends
    <3>1. SetPins(p) \in Command
      BY <2>2 DEF SetPins
    <3>2. <<SetPins(p)>> \in Seq(Command)
      BY <3>1, Short
    <3>3. Send(<<SetPins(p)>>) /\ call = "idle" /\ call' = "query" /\ wrote' = p
      BY <2>3, Zenon DEF WritePins
    <3> QED
      BY <2>1, <3>2, <3>3, Zenon DEF Sends
  <2>4. ASSUME WriteQuery
        PROVE  Sends
    <3>1. Query \in Command
      BY <2>2 DEF Query
    <3>2. <<Query>> \in Seq(Command)
      BY <3>1, Short
    <3>3. Send(<<Query>>) /\ call = "query" /\ call' = "read" /\ wrote' = wrote
      BY <2>4, Zenon DEF WriteQuery
    <3> QED
      BY <2>1, <3>2, <3>3, Zenon DEF Sends
  <2>5. ASSUME Stop
        PROVE  Closes
    <3>1. Close(call = "read") /\ call' = "idle"
      BY <2>5, Zenon DEF Stop
    <3>2. (call = "read") \in BOOLEAN
      OBVIOUS
    <3> QED
      BY <2>1, <3>1, <3>2 DEF Closes
  <2>6. ReadAnswer => Receives
    BY <2>1, Zenon DEF ReadAnswer, Receives
  <2>7. Fails => Breaks
    BY <2>1 DEF Fails, Breaks
  <2> QED
    BY <1>1, <1>3, <2>1, <2>3, <2>4, <2>5, <2>6, <2>7, Zenon DEF JtagPeer
<1>4. CASE Openocd
  <2>1. /\ peer = "openocd" /\ peer # "JTAGClient" /\ service = "jtag"
        /\ conns' = conns /\ call' = call
    BY <1>4 DEF Openocd, peers, clientVars, TypeOK, PeerType
  <2>2. Command = [op : {"pins"}, pins : Pins] \cup [op : {"reset"}, on : BOOLEAN] \cup [op : {"query"}]
    BY <2>1, Zenon DEF Command
  <2>3. ASSUME NEW c \in {Query, Reset(TRUE), Reset(FALSE)}, Send(<<c>>)
        PROVE  Sends
    <3>1. c \in Command
      <4>1. \A b \in BOOLEAN : Reset(b) \in Command
        BY <2>2 DEF Reset
      <4>2. Query \in Command
        BY <2>2 DEF Query
      <4> QED
        BY <4>1, <4>2
    <3>2. <<c>> \in Seq(Command)
      BY <3>1, Short
    <3> QED
      BY <2>1, <2>3, <3>2, Zenon DEF Sends
  <2>4. ASSUME NEW p \in Pins, Send(<<SetPins(p), Query>>)
        PROVE  Sends
    <3>1. SetPins(p) \in Command /\ Query \in Command
      BY <2>2 DEF Query, SetPins
    <3>2. <<SetPins(p), Query>> \in Seq(Command)
      BY <3>1
    <3> QED
      BY <2>1, <2>4, <3>2, Zenon DEF Sends
  <2>5. Receive => Receives
    BY <2>1, Zenon DEF Receives
  <2>6. Close(Asked > Len(got)) => Closes
    <3>1. (Asked > Len(got)) \in BOOLEAN
      OBVIOUS
    <3> QED
      BY <2>1, <3>1, Zenon DEF Closes
  <2> QED
    BY <1>1, <1>4, <2>1, <2>3, <2>4, <2>5, <2>6, Zenon DEF Openocd
<1>5. CASE Host
  <2>1. peer = "host" /\ peer # "JTAGClient" /\ service = "uart" /\ conns' = conns /\ call' = call
    BY <1>5 DEF Host, peers, clientVars, TypeOK, PeerType
  <2>2. ASSUME NEW b \in Bytes, Send(<<b>>)
        PROVE  Sends
    <3>1. <<b>> \in Seq(Command)
      BY <2>1, Short DEF Command
    <3> QED
      BY <2>1, <2>2, <3>1, Zenon DEF Sends
  <2>3. (Receive => Receives) /\ (Close(TRUE) => Closes)
    BY <2>1, Zenon DEF Receives, Closes
  <2> QED
    BY <1>1, <1>5, <2>1, <2>2, <2>3, Zenon DEF Host
<1>6. CASE GpioPeer
  <2>1. /\ peer = "GPIOClient" /\ peer # "JTAGClient" /\ service = "gpio"
        /\ conns' = conns /\ call' = call
    BY <1>6 DEF GpioPeer, clientVars, TypeOK, PeerType
  <2>2. ASSUME SendOutputs
        PROVE  Sends
    <3> DEFINE cmds == Changes(IF c_init THEN c_output ELSE Word \ c_pins, c_pins, Inputs)
    <3>1. Command = Change \cup {FlushCommand}
      BY <2>1 DEF Command
    <3>2. cmds \in Seq(Change)
      BY ChangesType, GpioAssumption
    <3>3. Send(Append(cmds, FlushCommand))
      BY <2>2, Zenon DEF SendOutputs
    <3> HIDE DEF cmds
    <3>4. Append(cmds, FlushCommand) \in Seq(Command)
      BY <3>1, <3>2
    <3> QED
      BY <2>1, <3>3, <3>4, Zenon DEF Sends
  <2>3. (ReadCommand => Receives) /\ (StopGpio => Closes)
    BY <2>1, Zenon DEF ReadCommand, StopGpio, Receives, Closes
  <2> QED
    BY <1>1, <1>6, <2>1, <2>2, <2>3, Zenon DEF GpioPeer
<1>7. CASE GpioPeerPins
  BY <1>1, <1>7, Zenon DEF GpioPeerPins, clientVars
<1> QED
  BY <1>1, <1>2, <1>3, <1>4, <1>5, <1>6, <1>7, Zenon DEF Client

Leaves ==
    /\ process = "runs" /\ Parsed
    /\ EarlyQuit \/ service = "none" \/ sockfd = "listening"
    /\ process' = "quits"
    /\ UNCHANGED <<running, thread, tx, rx, sockfd, connection, simulation, clients>>
Exits ==
    /\ process = "deleted"
    /\ process' = "exit 0"
    /\ UNCHANGED <<running, thread, tx, rx, sockfd, connection, simulation, clients>>

\* Every step: an iteration, one of the server's, or one of the client's.
LEMMA Moves ==
    ASSUME TypeOK, [Next]_vars
    PROVE  \/ Iterate
           \/ /\ \/ Start /\ service # "none"
                 \/ Listen
                 \/ Leaves
                 \/ Destroy
                 \/ Joined
                 \/ Exits
              /\ UNCHANGED <<call, wrote, conns, pins, tdo, rxc, line>> /\ t' \in Nat
           \/ /\ Connects \/ Sends \/ Receives \/ Closes \/ Breaks
              /\ UNCHANGED <<pins, tdo, rxc, line, t>>
           \/ UNCHANGED <<serverVars, call, wrote, pins, tdo, rxc, line, t>>
<1> DEFINE rest == UNCHANGED <<call, wrote, conns, pins, tdo, rxc, line>>
<1>1. t \in Nat
  BY DEF TypeOK, PeerType
<1>2. CASE Parse
  <2>1. Start /\ service # "none" /\ rest /\ t' = t
    BY <1>2, Zenon DEF Parse, uartVars, utils, target, uartTarget, peers, clientVars
  <2> QED
    BY <1>1, <2>1, Zenon
<1>3. CASE Leave
  <2>1. Leaves /\ rest
    BY <1>3, Zenon DEF Leave, Leaves, uartVars, target, uartTarget, peers, clientVars
  <2>2. t' = Tick \/ t' = t
    BY <1>3, Zenon DEF Leave, DoCycle, DoCycleEnds
  <2>3. t' \in Nat
    BY <1>1, <2>2, PeriodAssumption DEF Tick
  <2> QED
    BY <2>1, <2>3, Zenon
<1>4. CASE Delete
  <2>1. (Destroy \/ Joined) /\ rest /\ t' = t
    BY <1>4, Zenon DEF Delete, uartVars, target, uartTarget, peers, clientVars
  <2> QED
    BY <1>1, <2>1, Zenon
<1>5. CASE Exit
  <2>1. Exits /\ rest /\ t' = t
    BY <1>5, Zenon DEF Exit, Exits, uartVars, utils, target, uartTarget, peers, clientVars
  <2> QED
    BY <1>1, <2>1, Zenon
<1>6. CASE ServerThread
  <2>1. Listen /\ rest /\ t' = t
    BY <1>6, Zenon DEF ServerThread, uartVars, utils, target, uartTarget, peers, clientVars
  <2> QED
    BY <1>1, <2>1, Zenon
<1>7. CASE Client
  BY <1>7, ClientMoves, Zenon
<1>8. CASE UNCHANGED vars
  BY <1>8, Zenon DEF vars, uartVars, utils, target, uartTarget, peers, clientVars
<1> QED
  BY <1>2, <1>3, <1>4, <1>5, <1>6, <1>7, <1>8, Zenon DEF Next, Main

-----------------------------------------------------------------------------
(* Type correctness.                                                       *)

\* The beginning of a sequence is one over the same set.
LEMMA SubSeqType ==
    ASSUME NEW S, NEW x \in Seq(S), NEW m \in Int, m <= Len(x)
    PROVE  SubSeq(x, 1, m) \in Seq(S)
<1>1. \A i \in 1..m : x[i] \in S
  OBVIOUS
<1> QED
  BY <1>1, SubSeqProperties

\* The thread keeps the queues what they are.
LEMMA ListenType ==
    ASSUME ServerType, Listen
    PROVE  /\ tx' \in Seq(Command) /\ inbound' \in Seq(Command)
           /\ rx' \in Seq(Answer) /\ outbound' \in Seq(Answer)
           /\ UNCHANGED <<sent, served, answered, got>>
<1>1. /\ tx \in Seq(Command) /\ inbound \in Seq(Command)
      /\ rx \in Seq(Answer) /\ outbound \in Seq(Answer)
  BY DEF ServerType
<1>2. ASSUME SetRunning \/ OpenSocket \/ ListenSocket \/ Accept \/ AcceptFails \/ ReadNothing \/ Done
      PROVE  UNCHANGED <<tx, inbound, rx, outbound, sent, served, answered, got>>
  BY <1>2, Zenon DEF SetRunning, OpenSocket, ListenSocket, Accept, AcceptFails, ReadNothing, Done,
                     connection, simulation, clients
<1>3. CASE Read
  <2> DEFINE n == IF CmdBytes < Len(inbound) THEN CmdBytes ELSE Len(inbound)
  <2>1. /\ tx' = tx \o SubSeq(inbound, 1, n)
        /\ inbound' = SubSeq(inbound, n + 1, Len(inbound))
        /\ UNCHANGED <<rx, outbound, sent, served, answered, got>>
    BY <1>3, Zenon DEF Read, simulation, clients
  <2>2. n \in 0..Len(inbound)
    <3>1. Len(inbound) \in Nat /\ CmdBytes \in Nat
      BY <1>1, BytesAssumption, LenProperties
    <3> QED
      BY <3>1
  <2> HIDE DEF n
  <2>3. SubSeq(inbound, 1, n) \in Seq(Command) /\ SubSeq(inbound, n + 1, Len(inbound)) \in Seq(Command)
    BY <1>1, <2>2, Cut
  <2> QED
    BY <1>1, <2>1, <2>3, ConcatProperties
<1>4. CASE ReadEnd
  <2>1. outbound' = <<>> /\ UNCHANGED <<tx, inbound, rx, sent, served, answered, got>>
    BY <1>4, Zenon DEF ReadEnd, simulation, clients
  <2> QED
    BY <1>1, <2>1
<1>5. CASE Flush
  <2> DEFINE n == IF RespBytes < Len(rx) THEN RespBytes ELSE Len(rx)
             room == SockBytes - Len(outbound)
             m == IF n < room THEN n ELSE room
  <2>1. /\ rx' = SubSeq(rx, n + 1, Len(rx))
        /\ outbound' = outbound \/ outbound' = outbound \o SubSeq(rx, 1, m)
        /\ UNCHANGED <<tx, inbound, sent, served, answered, got>>
    BY <1>5, Zenon DEF Flush, simulation
  <2>2. n \in 0..Len(rx) /\ m \in Int /\ m <= Len(rx)
    <3>1. Len(rx) \in Nat /\ Len(outbound) \in Nat /\ RespBytes \in Nat /\ SockBytes \in Nat
      BY <1>1, BytesAssumption, LenProperties
    <3> QED
      BY <3>1
  <2> HIDE DEF n, m
  <2>3. SubSeq(rx, 1, m) \in Seq(Answer)
    BY <1>1, <2>2, SubSeqType
  <2>4. SubSeq(rx, n + 1, Len(rx)) \in Seq(Answer)
    BY <1>1, <2>2, Cut
  <2> QED
    BY <1>1, <2>1, <2>3, <2>4, ConcatProperties
<1> QED
  BY <1>1, <1>2, <1>3, <1>4, <1>5, Zenon DEF Listen

\* Taking commands and giving answers, too.
LEMMA ExchangeType ==
    ASSUME ServerType, Answering
    PROVE  /\ tx' \in Seq(Command) /\ served' \in Seq(Command)
           /\ rx' \in Seq(Answer) /\ answered' \in Seq(Answer)
<1>1. /\ tx \in Seq(Command) /\ served \in Seq(Command)
      /\ rx \in Seq(Answer) /\ answered \in Seq(Answer)
  BY DEF ServerType
<1>2. ASSUME NEW n, NEW a, Answers(n, a)
      PROVE  /\ tx' \in Seq(Command) /\ served' \in Seq(Command)
             /\ rx' \in Seq(Answer) /\ answered' \in Seq(Answer)
  <2>1. /\ n \in 0..Len(tx) /\ a \in Seq(Answer)
        /\ tx' = SubSeq(tx, n + 1, Len(tx)) /\ served' = served \o SubSeq(tx, 1, n)
        /\ rx' = rx \o a /\ answered' = answered \o a
    BY <1>2, Zenon DEF Answers, Exchange
  <2>2. SubSeq(tx, 1, n) \in Seq(Command) /\ SubSeq(tx, n + 1, Len(tx)) \in Seq(Command)
    BY <1>1, <2>1, Cut
  <2> QED
    BY <1>1, <2>1, <2>2, ConcatProperties
<1> QED
  BY <1>1, <1>2, Zenon DEF Answering, simulation

\* Where the thread, the process, the socket and the connection can be.
ControlType ==
    /\ running \in BOOLEAN /\ rude \in BOOLEAN
    /\ thread \in {"none", "new", "socket", "listen", "accept", "read", "flush", "ended"}
    /\ process \in {"runs", "quits", "joins", "deleted", "exit 0", "exit -1"}
    /\ sockfd \in {"none", "bound", "listening", "shut"}
    /\ conn \in {"none", "pending", "open", "fin", "reset", "dead"}

\* The thread keeps its state and the socket's among the known ones.
LEMMA ListenControl == ControlType /\ Listen => ControlType'
<1> SUFFICES ASSUME ControlType, Listen
             PROVE  ControlType'
  OBVIOUS
<1>1. CASE SetRunning
  BY <1>1 DEF ControlType, SetRunning, connection, simulation, clients
<1>2. CASE OpenSocket
  BY <1>2 DEF ControlType, OpenSocket, connection, simulation, clients
<1>3. CASE ListenSocket
  BY <1>3 DEF ControlType, ListenSocket, connection, simulation, clients
<1>4. CASE Accept
  BY <1>4 DEF ControlType, Accept, simulation, clients
<1>5. CASE AcceptFails
  BY <1>5 DEF ControlType, AcceptFails, connection, simulation, clients
<1>6. CASE Read
  <2>1. thread' = "flush" /\ UNCHANGED <<running, sockfd, conn, process, rude>>
    BY <1>6, Zenon DEF Read, clients
  <2> QED
    BY <2>1 DEF ControlType
<1>7. CASE ReadNothing
  BY <1>7 DEF ControlType, ReadNothing, simulation, clients
<1>8. CASE ReadEnd
  BY <1>8 DEF ControlType, ReadEnd, simulation, clients
<1>9. CASE Flush
  <2>1. /\ thread' = "read" /\ conn' \in {conn, "reset"} /\ process' \in {process, "exit -1"}
        /\ rude' \in BOOLEAN /\ UNCHANGED <<running, sockfd>>
    <3>1. /\ thread' = "read" /\ UNCHANGED <<running, sockfd>>
      BY <1>9, Zenon DEF Flush
    <3>2. conn' \in {conn, "reset"}
      BY <1>9 DEF Flush
    <3>3. process' \in {process, "exit -1"}
      BY <1>9 DEF Flush
    <3>4. rude' \in BOOLEAN
      BY <1>9 DEF Flush, ControlType
    <3> QED
      BY <3>1, <3>2, <3>3, <3>4
  <2> QED
    BY <2>1 DEF ControlType
<1>10. CASE Done
  BY <1>10 DEF ControlType, Done, connection, simulation, clients
<1> QED
  BY <1>1, <1>2, <1>3, <1>4, <1>5, <1>6, <1>7, <1>8, <1>9, <1>10 DEF Listen

\* So does every step.
LEMMA ControlStep == TypeOK /\ [Next]_vars => ControlType'
<1> SUFFICES ASSUME TypeOK, [Next]_vars
             PROVE  ControlType'
  OBVIOUS
<1>0. ControlType
  BY Zenon DEF TypeOK, ServerType, ControlType
<1>1. CASE Iterate
  BY <1>0, <1>1, Iterates DEF ControlType, connection, clients
<1>2. CASE Start
  BY <1>0, <1>2 DEF ControlType, Start, connection, clients
<1>3. CASE Listen
  BY <1>0, <1>3, ListenControl
<1>4. CASE Leaves
  BY <1>0, <1>4 DEF ControlType, Leaves, connection, clients
<1>5. CASE Destroy
  BY <1>0, <1>5 DEF ControlType, Destroy, connection, clients
<1>6. CASE Joined
  BY <1>0, <1>6 DEF ControlType, Joined, connection, clients
<1>7. CASE Exits
  BY <1>0, <1>7 DEF ControlType, Exits, connection, clients
<1>8. CASE Connects
  BY <1>0, <1>8 DEF ControlType, Connects, Connect, clients
<1>9. CASE Sends
  <2>1. UNCHANGED <<running, thread, process, sockfd, conn, rude>>
    BY <1>9, Zenon DEF Sends, Send
  <2> QED
    BY <1>0, <2>1 DEF ControlType
<1>10. CASE Receives
  <2>1. UNCHANGED <<running, thread, process, sockfd, conn, rude>>
    BY <1>10, Zenon DEF Receives, Receive
  <2> QED
    BY <1>0, <2>1 DEF ControlType
<1>11. CASE Closes
  <2>1. PICK due \in BOOLEAN : Close(due)
    BY <1>11, Zenon DEF Closes
  <2>2. /\ conn' \in {"fin", "reset"} /\ rude' = (rude \/ due)
        /\ UNCHANGED <<running, thread, process, sockfd>>
    BY <2>1 DEF Close
  <2> QED
    BY <1>0, <2>2 DEF ControlType
<1>12. CASE UNCHANGED serverVars
  BY <1>0, <1>12, Zenon DEF ControlType, serverVars, connection, clients
<1>13. Breaks => UNCHANGED serverVars
  BY Zenon DEF Breaks
<1> QED
  BY <1>1, <1>2, <1>3, <1>4, <1>5, <1>6, <1>7, <1>8, <1>9, <1>10, <1>11, <1>12, <1>13, Moves, Zenon

\* What is carried stays what it is.
QueueType ==
    /\ tx \in Seq(Command) /\ inbound \in Seq(Command)
    /\ sent \in Seq(Command) /\ served \in Seq(Command)
    /\ rx \in Seq(Answer) /\ outbound \in Seq(Answer)
    /\ answered \in Seq(Answer) /\ got \in Seq(Answer)

\* Every step keeps commands commands and answers answers.
LEMMA QueueStep == TypeOK /\ [Next]_vars => QueueType'
<1> SUFFICES ASSUME TypeOK, [Next]_vars
             PROVE  QueueType'
  OBVIOUS
<1>1. ServerType /\ QueueType /\ Command' = Command /\ Answer' = Answer
  BY Fixed, Zenon DEF TypeOK, ServerType, QueueType
<1>2. CASE Iterate
  <2>1. Answering /\ UNCHANGED <<inbound, outbound, sent, got>>
    BY <1>2, Iterates, Zenon DEF connection, clients
  <2> QED
    BY <1>1, <2>1, ExchangeType, Zenon DEF QueueType
<1>3. CASE Listen
  <2>1. UNCHANGED <<sent, served, answered, got>>
    BY <1>1, <1>3, ListenType
  <2> QED
    BY <1>1, <1>3, <2>1, ListenType, Zenon DEF QueueType
<1>4. CASE Sends
  <2>1. PICK cmds \in Seq(Command) : Send(cmds)
    BY <1>4, Zenon DEF Sends
  <2>2. /\ inbound' = inbound \o cmds /\ sent' = sent \o cmds
        /\ UNCHANGED <<tx, rx, outbound, served, answered, got>>
    BY <2>1, Zenon DEF Send, simulation
  <2>3. inbound \in Seq(Command) /\ sent \in Seq(Command)
    BY <1>1, Zenon DEF QueueType
  <2>4. inbound' \in Seq(Command) /\ sent' \in Seq(Command)
    BY <2>2, <2>3, ConcatProperties
  <2> QED
    BY <1>1, <2>2, <2>4, Zenon DEF QueueType
<1>5. CASE Receives
  <2>1. /\ outbound # <<>> /\ outbound' = Tail(outbound) /\ got' = Append(got, Head(outbound))
        /\ UNCHANGED <<tx, inbound, sent, served, rx, answered>>
    BY <1>5, Zenon DEF Receives, Receive, simulation
  <2>2. outbound \in Seq(Answer) /\ got \in Seq(Answer)
    BY <1>1, Zenon DEF QueueType
  <2>3. outbound' \in Seq(Answer) /\ got' \in Seq(Answer)
    BY <2>1, <2>2
  <2> QED
    BY <1>1, <2>1, <2>3, Zenon DEF QueueType
<1>6. CASE Closes
  <2>1. outbound' = <<>> /\ UNCHANGED <<tx, inbound, sent, served, rx, answered, got>>
    BY <1>6, Zenon DEF Closes, Close, simulation
  <2>2. outbound' \in Seq(Answer)
    BY <2>1
  <2> QED
    BY <1>1, <2>1, <2>2, Zenon DEF QueueType
<1>7. CASE UNCHANGED <<tx, inbound, sent, served, rx, outbound, answered, got>>
  BY <1>1, <1>7, Zenon DEF QueueType
<1>8. Start \/ Leaves \/ Destroy \/ Joined \/ Exits \/ Connects \/ Breaks \/ UNCHANGED serverVars
        => UNCHANGED <<tx, inbound, sent, served, rx, outbound, answered, got>>
  BY Zenon DEF Start, Leaves, Destroy, Joined, Exits, Connects, Connect, Breaks, serverVars,
               connection, simulation, clients
<1> QED
  BY <1>2, <1>3, <1>4, <1>5, <1>6, <1>7, <1>8, Moves, Zenon

\* The client's call.
LEMMA CallStep ==
    TypeOK /\ [Next]_vars => /\ call' \in {"idle", "query", "read", "failed"}
                             /\ peer' # "JTAGClient" => call' = "idle"
<1> SUFFICES ASSUME TypeOK, [Next]_vars
             PROVE  /\ call' \in {"idle", "query", "read", "failed"}
                    /\ peer' # "JTAGClient" => call' = "idle"
  OBVIOUS
<1>1. /\ call \in {"idle", "query", "read", "failed"}
      /\ peer # "JTAGClient" => call = "idle"
      /\ service \in {"uart", "gpio"} => peer # "JTAGClient"
      /\ peer' = peer
  BY Fixed DEF TypeOK, PeerType
<1>2. call' = call \/ Sends \/ Receives \/ Closes \/ Breaks
  <2>1. Iterate => call' = call
    BY Iterates, Zenon DEF peers, clientVars
  <2>2. Iterate \/ call' = call \/ Sends \/ Receives \/ Closes \/ Breaks
    BY Moves, Zenon DEF Connects
  <2> QED
    BY <2>1, <2>2, Zenon
<1>3. Sends => call' = call \/ (peer = "JTAGClient" /\ call' \in {"query", "read"})
  BY DEF Sends
<1>4. Receives => call' = call \/ (peer = "JTAGClient" /\ call' = "idle")
  BY DEF Receives
<1>5. Closes => call' = call \/ (peer = "JTAGClient" /\ call' = "idle")
  BY DEF Closes
<1>6. Breaks => peer = "JTAGClient" /\ call' = "failed"
  BY DEF Breaks
<1> QED
  BY <1>1, <1>2, <1>3, <1>4, <1>5, <1>6

\* The types are inductive.
LEMMA TypeStep == TypeOK /\ [Next]_vars => TypeOK'
<1> SUFFICES ASSUME TypeOK, [Next]_vars
             PROVE  TypeOK'
  OBVIOUS
<1>1. ServerType'
  BY ControlStep, QueueStep, Zenon DEF ServerType, ControlType, QueueType
<1>2. UNCHANGED <<service, peer>>
  BY Fixed
<1>3. /\ pins' \in PinLevels /\ tdo' \in PinLevels
      /\ rxc' \in Seq({0, 1}) /\ line' \in Seq({0, 1})
      /\ t' \in Nat
  <2>1. /\ pins \in PinLevels /\ tdo \in PinLevels
        /\ rxc \in Seq({0, 1}) /\ line \in Seq({0, 1})
        /\ t \in Nat
    BY Zenon DEF TypeOK, PeerType
  <2>2. CASE Iterate
    BY <2>1, <2>2, Iterates, Zenon
  <2>3. CASE UNCHANGED <<pins, tdo, rxc, line>> /\ t' \in Nat
    BY <2>1, <2>3, Zenon
  <2>4. CASE UNCHANGED <<pins, tdo, rxc, line, t>>
    BY <2>1, <2>4, Zenon
  <2> QED
    BY <2>2, <2>3, <2>4, Moves, Zenon
<1>4. PinLevels' = PinLevels
  BY Zenon DEF PinLevels
<1>5. PeerType'
  BY <1>2, <1>3, <1>4, CallStep, Zenon DEF TypeOK, PeerType
<1> QED
  BY <1>1, <1>5, Zenon DEF TypeOK

-----------------------------------------------------------------------------
(* The thread, its socket and the process.                                 *)

\* A step of the thread leaves it, its socket and its connection in agreement.
LEMMA ListenFollowed ==
    ASSUME TypeOK, ThreadFollowed, Listen, service' = service
    PROVE  ThreadFollowed'
<1>0. ControlType
  BY Zenon DEF TypeOK, ServerType, ControlType
<1>1. CASE SetRunning
  BY <1>0, <1>1 DEF ControlType, ThreadFollowed, SetRunning, connection
<1>2. CASE OpenSocket
  BY <1>0, <1>2 DEF ControlType, ThreadFollowed, OpenSocket, connection
<1>3. CASE ListenSocket
  BY <1>0, <1>3 DEF ControlType, ThreadFollowed, ListenSocket, connection
<1>4. CASE Accept
  BY <1>0, <1>4 DEF ControlType, ThreadFollowed, Accept
<1>5. CASE AcceptFails
  BY <1>0, <1>5 DEF ControlType, ThreadFollowed, AcceptFails, connection
<1>6. CASE Read
  <2>1. /\ thread = "read" /\ thread' = "flush"
        /\ UNCHANGED <<running, sockfd, conn, outbound, process>>
    BY <1>6, Zenon DEF Read
  <2> QED
    BY <1>0, <2>1 DEF ControlType, ThreadFollowed
<1>7. CASE ReadNothing
  BY <1>0, <1>7 DEF ControlType, ThreadFollowed, ReadNothing
<1>8. CASE ReadEnd
  BY <1>0, <1>8 DEF ControlType, ThreadFollowed, ReadEnd
<1>9. CASE Flush
  <2>1. /\ thread = "flush" /\ thread' = "read"
        /\ conn' = conn \/ (conn = "fin" /\ conn' = "reset")
        /\ process' = process \/ process' = "exit -1"
        /\ conn = "open" \/ outbound' = outbound
        /\ UNCHANGED <<running, sockfd>>
    BY <1>9, Zenon DEF Flush
  <2> QED
    BY <1>0, <2>1 DEF ControlType, ThreadFollowed
<1>10. CASE Done
  BY <1>0, <1>10 DEF ControlType, ThreadFollowed, Done, connection
<1> QED
  BY <1>1, <1>2, <1>3, <1>4, <1>5, <1>6, <1>7, <1>8, <1>9, <1>10, Zenon DEF Listen

\* Every step leaves the thread, its socket and its connection in agreement.
LEMMA ThreadStep == TypeOK /\ ThreadFollowed /\ [Next]_vars => ThreadFollowed'
<1> SUFFICES ASSUME TypeOK, ThreadFollowed, [Next]_vars
             PROVE  ThreadFollowed'
  OBVIOUS
<1>0. ControlType /\ service' = service
  BY Fixed, Zenon DEF TypeOK, ServerType, ControlType
<1>1. CASE Iterate
  <2>1. UNCHANGED <<running, thread, process, sockfd, conn, outbound>>
    BY <1>1, Iterates, Zenon DEF connection
  <2> QED
    BY <1>0, <2>1, Zenon DEF ThreadFollowed
<1>2. CASE Start /\ service # "none"
  BY <1>0, <1>2 DEF ControlType, ThreadFollowed, Start, connection
<1>3. CASE Listen
  BY <1>0, <1>3, ListenFollowed
<1>4. CASE Leaves
  BY <1>0, <1>4 DEF ControlType, ThreadFollowed, Leaves, connection
<1>5. CASE Destroy
  BY <1>0, <1>5 DEF ControlType, ThreadFollowed, Destroy, connection
<1>6. CASE Joined
  BY <1>0, <1>6 DEF ControlType, ThreadFollowed, Joined, connection
<1>7. CASE Exits
  BY <1>0, <1>7 DEF ControlType, ThreadFollowed, Exits, connection
<1>8. CASE Connects
  BY <1>0, <1>8 DEF ControlType, ThreadFollowed, Connects, Connect
<1>9. CASE Sends
  <2>1. UNCHANGED <<running, thread, process, sockfd, conn, outbound>>
    BY <1>9, Zenon DEF Sends, Send
  <2> QED
    BY <1>0, <2>1, Zenon DEF ThreadFollowed
<1>10. CASE Receives
  <2>1. /\ outbound # <<>>
        /\ UNCHANGED <<running, thread, process, sockfd, conn>>
    BY <1>10, Zenon DEF Receives, Receive
  <2> QED
    BY <1>0, <2>1 DEF ControlType, ThreadFollowed
<1>11. CASE Closes
  <2>1. PICK due \in BOOLEAN : Close(due)
    BY <1>11, Zenon DEF Closes
  <2>2. /\ conn \in {"pending", "open"} /\ conn' \in {"fin", "reset"}
        /\ outbound' = <<>>
        /\ conn = "pending" => conn' = "fin"
        /\ UNCHANGED <<running, thread, process, sockfd>>
    <3>1. /\ conn \in {"pending", "open"} /\ outbound' = <<>>
          /\ UNCHANGED <<running, thread, process, sockfd>>
      BY <2>1, Zenon DEF Close, Connected
    <3>2. conn' = IF outbound # <<>> THEN "reset" ELSE "fin"
      BY <2>1, Zenon DEF Close
    <3> QED
      BY <3>1, <3>2 DEF ThreadFollowed
  <2> QED
    BY <1>0, <2>2 DEF ControlType, ThreadFollowed
<1>12. CASE UNCHANGED serverVars
  BY <1>0, <1>12, Zenon DEF ThreadFollowed, serverVars, connection
<1>13. Breaks => UNCHANGED serverVars
  BY Zenon DEF Breaks
<1> QED
  BY <1>1, <1>2, <1>3, <1>4, <1>5, <1>6, <1>7, <1>8, <1>9, <1>10, <1>11, <1>12, <1>13, Moves, Zenon

\* The main loop is left only while the server listens, and from then on the
\* destructor finds the thread and waits for it.
LEMMA QuitsStep ==
    ~EarlyQuit /\ TypeOK /\ ThreadFollowed /\ QuitsListening /\ [Next]_vars => QuitsListening'
<1> SUFFICES ASSUME ~EarlyQuit, TypeOK, ThreadFollowed, QuitsListening, [Next]_vars
             PROVE  QuitsListening'
  OBVIOUS
<1>0. ControlType /\ service' = service
  BY Fixed, Zenon DEF TypeOK, ServerType, ControlType
<1>1. CASE Iterate
  BY <1>1, Iterates, <1>0, Zenon DEF QuitsListening
<1>2. CASE Start
  BY <1>0, <1>2 DEF ControlType, QuitsListening, Start
<1>3. CASE Listen
  <2>1. \/ process' = process /\ sockfd' = sockfd /\ thread' # thread /\ thread' = "ended"
        \/ process' = "exit -1"
        \/ /\ process' = process
           /\ sockfd \in {"listening", "shut"} => sockfd' \in {"listening", "shut"}
           /\ thread \notin {"none", "ended"}
    <3>1. Done => process' = process /\ sockfd' = sockfd /\ thread' # thread /\ thread' = "ended"
      BY DEF Done
    <3>2. AcceptFails => process' = "exit -1"
      BY DEF AcceptFails
    <3>3. SetRunning \/ Accept \/ Read \/ ReadNothing \/ ReadEnd =>
             process' = process /\ sockfd' = sockfd /\ thread \notin {"none", "ended"}
      BY DEF SetRunning, Accept, Read, ReadNothing, ReadEnd
    <3>4. OpenSocket => process' = process /\ sockfd = "none" /\ thread \notin {"none", "ended"}
      BY DEF OpenSocket, ThreadFollowed
    <3>5. ListenSocket => process' = process /\ sockfd' = "listening" /\ thread \notin {"none", "ended"}
      BY DEF ListenSocket
    <3>6. Flush => sockfd' = sockfd /\ thread = "flush" /\ (process' = process \/ process' = "exit -1")
      BY DEF Flush
    <3> QED
      BY <1>3, <3>1, <3>2, <3>3, <3>4, <3>5, <3>6 DEF Listen
  <2> QED
    BY <1>0, <2>1 DEF ControlType, QuitsListening
<1>4. CASE Leaves
  BY <1>0, <1>4 DEF ControlType, QuitsListening, Leaves
<1>5. CASE Destroy
  BY <1>0, <1>5 DEF ControlType, QuitsListening, ThreadFollowed, Destroy
<1>6. CASE Joined
  BY <1>0, <1>6 DEF ControlType, QuitsListening, Joined
<1>7. CASE Exits
  BY <1>0, <1>7 DEF ControlType, QuitsListening, Exits
<1>8. CASE UNCHANGED <<thread, process, sockfd>>
  BY <1>0, <1>8, Zenon DEF QuitsListening
<1>9. Connects \/ Sends \/ Receives \/ Closes \/ Breaks \/ UNCHANGED serverVars => UNCHANGED <<thread, process, sockfd>>
  BY Zenon DEF Connects, Connect, Sends, Send, Receives, Receive, Closes, Close, Breaks, serverVars
<1> QED
  BY <1>1, <1>2, <1>3, <1>4, <1>5, <1>6, <1>7, <1>8, <1>9, Moves, Zenon

-----------------------------------------------------------------------------
(* What is sent is served, what is answered is received.                   *)

\* Answers owed, while no client was rude.
LEMMA OwedLengths ==
    ASSUME TypeOK, Conserved, Owed, ~rude, service = "jtag"
    PROVE  /\ Asked \in Nat /\ Len(got) \in Nat /\ Len(answered) \in Nat
           /\ Len(outbound) \in Nat /\ Len(rx) \in Nat
           /\ Len(answered) = Len(got) + Len(outbound) + Len(rx)
           /\ Len(answered) <= Asked
           /\ Asked = Len(got) => outbound = <<>> /\ rx = <<>>
<1>1. QueueType
  BY Zenon DEF TypeOK, ServerType, QueueType
<1>2. /\ Asked \in Nat /\ Len(got) \in Nat /\ Len(answered) \in Nat
      /\ Len(outbound) \in Nat /\ Len(rx) \in Nat
  BY <1>1, QueriesType, LenProperties DEF QueueType, Asked
<1>3. Len(answered) = Len(got) + Len(outbound) + Len(rx)
  <2>1. answered = (got \o outbound) \o rx
    BY Zenon DEF Conserved
  <2>2. got \in Seq(Answer) /\ outbound \in Seq(Answer) /\ rx \in Seq(Answer)
    BY <1>1, Zenon DEF QueueType
  <2>3. got \o outbound \in Seq(Answer) /\ Len(got \o outbound) = Len(got) + Len(outbound)
    BY <2>2, ConcatProperties
  <2>4. Len((got \o outbound) \o rx) = Len(got \o outbound) + Len(rx)
    BY <2>2, <2>3, ConcatProperties
  <2> QED
    BY <2>1, <2>3, <2>4
<1>4. Len(answered) <= Asked
  <2>1. Len(answered) = Queries(served)
    BY Zenon DEF Owed
  <2>2. served \in Seq(Command) /\ tx \in Seq(Command) /\ inbound \in Seq(Command)
    BY <1>1, Zenon DEF QueueType
  <2>3. served \o tx \in Seq(Command)
    BY <2>2, ConcatProperties
  <2>4. Queries(served) <= Queries(served \o tx)
    BY <2>2, QueriesMore
  <2>5. Queries(served \o tx) <= Queries((served \o tx) \o inbound)
    BY <2>2, <2>3, QueriesMore
  <2>6. Queries(sent) = Queries((served \o tx) \o inbound)
    BY Zenon DEF Conserved
  <2>7. /\ Queries(served) \in Nat /\ Queries(served \o tx) \in Nat
        /\ Queries((served \o tx) \o inbound) \in Nat
    <3>1. (served \o tx) \o inbound \in Seq(Command)
      BY <2>2, <2>3, ConcatProperties
    <3> QED
      BY <2>2, <2>3, <3>1, QueriesType
  <2> QED
    BY <2>1, <2>4, <2>5, <2>6, <2>7 DEF Asked
<1>5. ASSUME Asked = Len(got)
      PROVE  outbound = <<>> /\ rx = <<>>
  <2>1. Len(outbound) = 0 /\ Len(rx) = 0
    BY <1>2, <1>3, <1>4, <1>5
  <2>2. outbound \in Seq(Answer) /\ rx \in Seq(Answer)
    BY <1>1, Zenon DEF QueueType
  <2> QED
    BY <2>1, <2>2
<1> QED
  BY <1>2, <1>3, <1>4, <1>5

\* A client that is gone, and was not rude, has left nothing to answer.
LEMMA NothingLeft ==
    ASSUME TypeOK, ThreadFollowed, Conserved, Owed, ~rude, conn \notin {"none", "pending", "open"}
    PROVE  outbound = <<>> /\ rx = <<>>
<1>1. ~Connected /\ conn # "none"
  BY DEF Connected
<1>2. service = "jtag" /\ Asked = Len(got)
  BY <1>1 DEF Owed
<1> QED
  BY <1>2, OwedLengths

\* A client that leaves without being rude has received all it asked for.
LEMMA CleanClose ==
    ASSUME TypeOK, Conserved, Owed, Closes, ~rude'
    PROVE  ~rude /\ outbound = <<>> /\ service = "jtag" /\ Asked = Len(got)
<1>1. PICK due \in BOOLEAN :
        /\ Close(due)
        /\ \/ peer = "JTAGClient" /\ due = (call = "read") /\ call' = "idle"
           \/ peer = "openocd" /\ due = (Asked > Len(got)) /\ call' = call
           \/ service \in {"uart", "gpio"} /\ due /\ call' = call
  BY Zenon DEF Closes
<1>2. Alive /\ rude' = (rude \/ due)
  BY <1>1, Zenon DEF Close
<1>3. ~rude /\ ~due
  BY <1>2, Zenon
<1>4. peer \in {"JTAGClient", "openocd"}
  BY <1>1, <1>3
<1>5. service = "jtag"
  BY <1>4 DEF TypeOK, PeerType
<1>6. Asked = Len(got)
  <2>1. Len(got) \in Nat /\ Asked \in Nat /\ Len(got) <= Asked
    <3>1. /\ Asked \in Nat /\ Len(got) \in Nat /\ Len(outbound) \in Nat /\ Len(rx) \in Nat
          /\ Len(got) + Len(outbound) + Len(rx) <= Asked
      BY <1>3, <1>5, OwedLengths
    <3> QED
      BY <3>1
  <2>2. CASE peer = "JTAGClient"
    <3>1. call # "failed" /\ call # "read"
      BY <1>1, <1>2, <1>3, <2>2 DEF Owed
    <3>2. Asked = Len(got) + (IF call = "read" THEN 1 ELSE 0)
      BY <1>3, <2>2, <3>1, Zenon DEF Owed
    <3> QED
      BY <2>1, <3>1, <3>2
  <2>3. CASE peer = "openocd"
    <3>1. ~(Asked > Len(got))
      <4>1. peer # "JTAGClient" /\ service \notin {"uart", "gpio"}
        BY <1>5, <2>3
      <4> QED
        BY <1>1, <1>3, <4>1, Zenon
    <3> QED
      BY <2>1, <3>1
  <2> QED
    BY <1>4, <2>2, <2>3
<1> QED
  BY <1>3, <1>5, <1>6, OwedLengths

\* No step loses, repeats or reorders a command, or an answer as long as no
\* client is rude.
LEMMA ConservedStep ==
    TypeOK /\ ThreadFollowed /\ Conserved /\ Owed /\ [Next]_vars => Conserved'
<1> SUFFICES ASSUME TypeOK, ThreadFollowed, Conserved, Owed, [Next]_vars
             PROVE  Conserved'
  OBVIOUS
<1>1. QueueType
  BY Zenon DEF TypeOK, ServerType, QueueType
<1>2. /\ sent = (served \o tx) \o inbound
      /\ ~rude => answered = (got \o outbound) \o rx
  BY Zenon DEF Conserved
<1> DEFINE GoneOut == sent' = (served' \o tx') \o inbound'
           ComeBack == ~rude' => answered' = (got' \o outbound') \o rx'
<1>3. SUFFICES GoneOut /\ ComeBack
  BY Zenon DEF Conserved
<1>4. UNCHANGED <<sent, served, tx, inbound>> => GoneOut
  BY <1>2, Zenon
<1>5. UNCHANGED <<rude, answered, got, outbound, rx>> => ComeBack
  BY <1>2
<1>6. CASE Iterate
  <2>1. Answering /\ UNCHANGED <<inbound, outbound, sent, got, rude>>
    BY <1>6, Iterates, Zenon DEF connection, clients
  <2>2. CASE UNCHANGED <<tx, rx, simulation>>
    BY <1>4, <1>5, <2>1, <2>2, Zenon DEF simulation
  <2>3. ASSUME NEW n, NEW a, Answers(n, a)
        PROVE  GoneOut /\ ComeBack
    <3>1. /\ n \in 0..Len(tx) /\ a \in Seq(Answer)
          /\ tx' = SubSeq(tx, n + 1, Len(tx)) /\ served' = served \o SubSeq(tx, 1, n)
          /\ rx' = rx \o a /\ answered' = answered \o a
      BY <2>3, Zenon DEF Answers, Exchange
    <3>2. /\ served \in Seq(Command) /\ tx \in Seq(Command)
          /\ got \in Seq(Answer) /\ outbound \in Seq(Answer) /\ rx \in Seq(Answer)
      BY <1>1, Zenon DEF QueueType
    <3>3. served' \o tx' = served \o tx
      <4>1. Cat(Cat(served, Upto(tx, n)), Past(tx, n)) = Cat(served, tx)
        BY <3>1, <3>2, Taken
      <4> QED
        BY <3>1, <4>1, Zenon DEF Cat, Upto, Past
    <3>4. GoneOut
      BY <1>2, <2>1, <3>3, Zenon
    <3>5. ComeBack
      <4>1. Cat(got, outbound) \in Seq(Answer)
        BY <3>2, CatFacts
      <4>2. Cat(Cat(Cat(got, outbound), rx), a) = Cat(Cat(got, outbound), Cat(rx, a))
        BY <3>1, <3>2, <4>1, CatFacts
      <4> QED
        BY <1>2, <2>1, <3>1, <4>2, Zenon DEF Cat
    <3> QED
      BY <3>4, <3>5, Zenon
  <2> QED
    BY <2>1, <2>2, <2>3, Zenon DEF Answering
<1>7. CASE Listen
  <2>1. CASE SetRunning \/ OpenSocket \/ ListenSocket \/ Accept \/ AcceptFails \/ ReadNothing \/ Done
    <3>1. UNCHANGED <<tx, inbound, rx, outbound, sent, served, answered, got, rude>>
      BY <2>1, Zenon DEF SetRunning, OpenSocket, ListenSocket, Accept, AcceptFails, ReadNothing, Done,
                         connection, simulation, clients
    <3> QED
      BY <1>4, <1>5, <3>1, Zenon
  <2>2. CASE Read
    <3> DEFINE n == IF CmdBytes < Len(inbound) THEN CmdBytes ELSE Len(inbound)
    <3>1. /\ tx' = tx \o SubSeq(inbound, 1, n)
          /\ inbound' = SubSeq(inbound, n + 1, Len(inbound))
          /\ UNCHANGED <<sent, served, rude, answered, got, outbound, rx>>
      BY <2>2, Zenon DEF Read, simulation, clients
    <3>2. served \in Seq(Command) /\ tx \in Seq(Command) /\ inbound \in Seq(Command)
      BY <1>1, Zenon DEF QueueType
    <3>3. n \in 0..Len(inbound)
      <4>1. Len(inbound) \in Nat /\ CmdBytes \in Nat
        BY <3>2, BytesAssumption, LenProperties
      <4> QED
        BY <4>1
    <3> HIDE DEF n
    <3>4. Cat(Cat(served, Cat(tx, Upto(inbound, n))), Past(inbound, n)) = Cat(Cat(served, tx), inbound)
      BY <3>2, <3>3, Moved
    <3>5. GoneOut
      BY <1>2, <3>1, <3>4, Zenon DEF Cat, Upto, Past
    <3> QED
      BY <1>5, <3>1, <3>5, Zenon
  <2>3. CASE ReadEnd
    <3>1. /\ conn \in {"fin", "dead"} /\ outbound' = <<>>
          /\ UNCHANGED <<tx, inbound, rx, sent, served, answered, got, rude>>
      BY <2>3, Zenon DEF ReadEnd, simulation, clients
    <3>2. outbound = <<>>
      BY <3>1 DEF ThreadFollowed
    <3> QED
      BY <1>4, <1>5, <3>1, <3>2, Zenon
  <2>4. CASE Flush
    <3> DEFINE n == IF RespBytes < Len(rx) THEN RespBytes ELSE Len(rx)
               room == SockBytes - Len(outbound)
               m == IF n < room THEN n ELSE room
    <3>1. /\ thread = "flush"
          /\ rx' = SubSeq(rx, n + 1, Len(rx))
          /\ n = 0 => UNCHANGED <<outbound, rude>>
          /\ n # 0 => /\ outbound' = IF conn = "open" THEN outbound \o SubSeq(rx, 1, m) ELSE outbound
                      /\ rude' = (rude \/ (conn = "open" /\ n > room))
          /\ UNCHANGED <<tx, inbound, sent, served, answered, got>>
      BY <2>4, Zenon DEF Flush, simulation
    <3>2. got \in Seq(Answer) /\ outbound \in Seq(Answer) /\ rx \in Seq(Answer)
      BY <1>1, Zenon DEF QueueType
    <3>3. /\ Len(rx) \in Nat /\ n \in 0..Len(rx) /\ n \in Nat /\ room \in Int
          /\ n <= room => m = n
          /\ n = 0 => Len(rx) = 0
      <4>1. Len(rx) \in Nat /\ Len(outbound) \in Nat /\ RespBytes \in Nat \ {0} /\ SockBytes \in Nat
        BY <3>2, BytesAssumption, LenProperties
      <4> QED
        BY <4>1
    <3>4. GoneOut
      BY <1>4, <3>1, Zenon
    <3>5. CASE rude' \/ n = 0
      <4>1. n = 0 => rx = <<>> /\ rx' = rx
        <5> HIDE DEF n
        <5>1. ASSUME n = 0
              PROVE  rx = <<>> /\ SubSeq(rx, 1, Len(rx)) = <<>>
          BY <3>2, <3>3, <5>1
        <5> QED
          BY <3>1, <5>1
      <4> HIDE DEF n
      <4> QED
        BY <1>5, <3>1, <3>4, <3>5, <4>1, Zenon
    <3>6. CASE ~rude' /\ n # 0
      <4> HIDE DEF n, room, m
      <4>1. ~rude
        BY <3>1, <3>6, Zenon
      <4>2. conn = "open"
        <5>1. conn \in {"open", "fin", "reset", "dead"}
          BY <3>1 DEF ThreadFollowed
        <5>2. conn # "open" => rx = <<>>
          BY <4>1, <5>1, NothingLeft
        <5>3. rx = <<>> => Len(rx) = 0
          BY <3>2
        <5> QED
          BY <3>3, <3>6, <5>2, <5>3
      <4>3. n <= room
        <5>1. rude' = (rude \/ (conn = "open" /\ n > room))
          BY <3>1, <3>6, Zenon
        <5>2. ~(n > room)
          BY <3>6, <4>2, <5>1, Zenon
        <5> QED
          BY <3>3, <5>2
      <4>4. outbound' = outbound \o SubSeq(rx, 1, n)
        BY <3>1, <3>3, <3>6, <4>2, <4>3, Zenon
      <4>5. Cat(Cat(got, Cat(outbound, Upto(rx, n))), Past(rx, n)) = Cat(Cat(got, outbound), rx)
        BY <3>2, <3>3, Moved
      <4>6. ComeBack
        BY <1>2, <3>1, <4>1, <4>4, <4>5, Zenon DEF Cat, Upto, Past
      <4> QED
        BY <3>4, <4>6, Zenon
    <3> QED
      BY <3>5, <3>6, Zenon
  <2> QED
    BY <1>7, <2>1, <2>2, <2>3, <2>4, Zenon DEF Listen
<1>8. CASE Sends
  <2>1. PICK cmds \in Seq(Command) : Send(cmds)
    BY <1>8, Zenon DEF Sends
  <2>2. /\ inbound' = inbound \o cmds /\ sent' = sent \o cmds
        /\ UNCHANGED <<tx, served, rude, answered, got, outbound, rx>>
    BY <2>1, Zenon DEF Send, simulation
  <2>3. /\ served \in Seq(Command) /\ tx \in Seq(Command) /\ inbound \in Seq(Command)
    BY <1>1, Zenon DEF QueueType
  <2>4. Cat(served, tx) \in Seq(Command)
    BY <2>3, CatFacts
  <2>5. Cat(Cat(Cat(served, tx), inbound), cmds) = Cat(Cat(served, tx), Cat(inbound, cmds))
    BY <2>3, <2>4, CatFacts
  <2>6. GoneOut
    BY <1>2, <2>2, <2>5, Zenon DEF Cat
  <2> QED
    BY <1>5, <2>2, <2>6, Zenon
<1>9. CASE Receives
  <2>1. /\ outbound # <<>> /\ outbound' = Tail(outbound) /\ got' = Append(got, Head(outbound))
        /\ UNCHANGED <<tx, inbound, sent, served, rude, rx, answered>>
    BY <1>9, Zenon DEF Receives, Receive, simulation
  <2>2. got \in Seq(Answer) /\ outbound \in Seq(Answer)
    BY <1>1, Zenon DEF QueueType
  <2>3. Cat(Append(got, Head(outbound)), Tail(outbound)) = Cat(got, outbound)
    BY <2>1, <2>2, Passed
  <2>4. ComeBack
    BY <1>2, <2>1, <2>3, Zenon DEF Cat
  <2> QED
    BY <1>4, <2>1, <2>4, Zenon
<1>10. CASE Closes
  <2>1. PICK due \in BOOLEAN : Close(due)
    BY <1>10, Zenon DEF Closes
  <2>2. /\ outbound' = <<>> /\ rude' = (rude \/ due)
        /\ UNCHANGED <<tx, inbound, sent, served, rx, answered, got>>
    BY <2>1, Zenon DEF Close, simulation
  <2>3. ~rude' => ~rude /\ outbound = <<>>
    BY <1>10, CleanClose
  <2>4. ComeBack
    BY <1>2, <2>2, <2>3, Zenon
  <2> QED
    BY <1>4, <2>2, <2>4, Zenon
<1>11. Start \/ Leaves \/ Destroy \/ Joined \/ Exits \/ Connects \/ Breaks \/ UNCHANGED serverVars
         => UNCHANGED <<tx, inbound, sent, served, rude, rx, outbound, answered, got>>
  BY Zenon DEF Start, Leaves, Destroy, Joined, Exits, Connects, Connect, Breaks, serverVars,
               connection, simulation, clients
<1>12. UNCHANGED <<tx, inbound, sent, served, rude, rx, outbound, answered, got>> => GoneOut /\ ComeBack
  BY <1>4, <1>5, Zenon
<1> HIDE DEF GoneOut, ComeBack
<1> QED
  BY <1>6, <1>7, <1>8, <1>9, <1>10, <1>11, <1>12, Moves, Zenon

\* Every query served is answered.
LEMMA OwedServed ==
    TypeOK /\ Owed /\ [Next]_vars => (service' = "jtag" => Len(answered') = Queries(served'))
<1> SUFFICES ASSUME TypeOK, Owed, [Next]_vars, service' = "jtag"
             PROVE  Len(answered') = Queries(served')
  OBVIOUS
<1>1. service = "jtag" /\ Len(answered) = Queries(served) /\ Queries(served)' = Queries(served')
  BY Fixed, Zenon DEF Owed, Queries
<1>2. CASE UNCHANGED <<served, answered>>
  BY <1>1, <1>2, Zenon
<1>3. CASE Iterate
  <2>1. Answering
    BY <1>3, Iterates
  <2>2. ASSUME NEW n, NEW a, Answers(n, a)
        PROVE  Len(answered') = Queries(served')
    <3> DEFINE c == Head(tx)
               k == IF c.op = "query" THEN 1 ELSE 0
    <3>1. /\ tx # <<>> /\ n = 1 /\ a = IF c.op = "query" THEN <<tdo'>> ELSE <<>>
          /\ a \in Seq(Answer)
          /\ served' = served \o SubSeq(tx, 1, n) /\ answered' = answered \o a
      BY <1>1, <2>2, Zenon DEF Answers, Exchange
    <3>2. tx \in Seq(Command) /\ served \in Seq(Command) /\ answered \in Seq(Answer)
      BY Zenon DEF TypeOK, ServerType
    <3>3. c \in Command
      BY <3>1, <3>2
    <3>4. served' = Append(served, c)
      <4>1. SubSeq(tx, 1, 1) = <<c>>
        BY <3>1, <3>2, First
      <4>2. Append(served, c) = served \o <<c>>
        BY <3>2, <3>3, AppendIsConcat
      <4> QED
        BY <3>1, <4>1, <4>2, Zenon
    <3>5. Queries(Append(served, c)) = Queries(served) + k
      BY <3>2, <3>3, QueriesAppend
    <3>6. Len(a) = k
      BY <3>1, Short
    <3>7. Len(answered \o a) = Len(answered) + Len(a)
      BY <3>1, <3>2, ConcatProperties
    <3> HIDE DEF k, c
    <3> QED
      BY <1>1, <3>1, <3>4, <3>5, <3>6, <3>7, Zenon
  <2> QED
    BY <1>2, <2>1, <2>2, Zenon DEF Answering, simulation
<1>4. CASE Listen
  <2>1. ServerType
    BY DEF TypeOK
  <2> QED
    BY <1>2, <1>4, <2>1, ListenType
<1>5. Start \/ Leaves \/ Destroy \/ Joined \/ Exits \/ Connects \/ Sends \/ Receives
       \/ Closes \/ Breaks \/ UNCHANGED serverVars
         => UNCHANGED <<served, answered>>
  BY Zenon DEF Start, Leaves, Destroy, Joined, Exits, Connects, Connect, Sends, Send, Receives, Receive,
               Closes, Close, Breaks, serverVars, simulation
<1> QED
  BY <1>2, <1>3, <1>4, <1>5, Moves, Zenon

\* The thread loses the connection of a client that was not rude only when
\* nothing is owed to it.
LEMMA ListenOwed ==
    ASSUME TypeOK, ThreadFollowed, Conserved, Owed, Listen, ~rude'
    PROVE  /\ ~rude
           /\ conn' \notin {"reset", "dead"}
           /\ ~Connected' => ~Connected /\ (conn = "none" => conn' = "none")
<1>0. ControlType
  BY Zenon DEF TypeOK, ServerType, ControlType
<1>1. rude' = rude \/ Flush
  BY Zenon DEF Listen, SetRunning, OpenSocket, ListenSocket, Accept, AcceptFails, Read, ReadNothing,
               ReadEnd, Done, clients
<1>2. ~rude
  <2>1. Flush => (rude => rude')
    BY DEF Flush
  <2> QED
    BY <1>1, <2>1
<1>3. conn \notin {"reset", "dead"}
  BY <1>2 DEF Owed
<1>4. CASE conn' = conn
  BY <1>2, <1>3, <1>4 DEF Connected
<1>5. CASE Accept
  BY <1>2, <1>5 DEF Accept, Connected
<1>6. CASE ReadNothing
  BY <1>2, <1>3, <1>4, <1>6 DEF ReadNothing
<1>7. CASE ReadEnd
  BY <1>2, <1>3, <1>7 DEF ReadEnd, Connected
<1>8. CASE Flush
  <2> DEFINE n == IF RespBytes < Len(rx) THEN RespBytes ELSE Len(rx)
  <2>1. /\ n = 0 => conn' = conn
        /\ n # 0 => conn' = IF conn = "fin" THEN "reset" ELSE conn
    BY <1>8, Zenon DEF Flush
  <2>2. conn = "fin" => n = 0
    <3>1. ASSUME conn = "fin"
          PROVE  rx = <<>>
      BY <1>2, <3>1, NothingLeft
    <3>2. RespBytes \in Nat
      BY BytesAssumption
    <3>3. rx = <<>> => n = 0
      BY <3>2
    <3> QED
      BY <3>1, <3>3
  <2>3. conn' = conn
    BY <2>1, <2>2, Zenon
  <2> QED
    BY <1>4, <2>3
<1>9. SetRunning \/ OpenSocket \/ ListenSocket \/ AcceptFails \/ Read \/ Done => conn' = conn
  BY Zenon DEF SetRunning, OpenSocket, ListenSocket, AcceptFails, Read, Done, connection
<1> QED
  BY <1>4, <1>5, <1>6, <1>7, <1>8, <1>9, Zenon DEF Listen

\* Who is connected, and what was asked, when the client moves.
OwedNow ==
    /\ conn \notin {"reset", "dead"}
    /\ ~Connected => IF service = "jtag" THEN Asked = Len(got) ELSE sent = <<>> /\ conn = "none"
OwedCall ==
    peer = "JTAGClient" /\ call # "failed" => Asked = Len(got) + (IF call = "read" THEN 1 ELSE 0)

\* A client that is not rude leaves only when it has all it asked for.
LEMMA OwedNowStep ==
    TypeOK /\ ThreadFollowed /\ Conserved /\ Owed /\ [Next]_vars => (~rude' => OwedNow')
<1> SUFFICES ASSUME TypeOK, ThreadFollowed, Conserved, Owed, [Next]_vars, ~rude'
             PROVE  OwedNow'
  OBVIOUS
<1>1. service' = service /\ (~rude => OwedNow)
  BY Fixed, Zenon DEF Owed, OwedNow
<1>2. ASSUME UNCHANGED <<sent, got>>, ~rude,
             conn' \notin {"reset", "dead"},
             ~Connected' => ~Connected /\ (conn = "none" => conn' = "none")
      PROVE  OwedNow'
  <2>1. Asked' = Asked
    BY <1>2, Zenon DEF Asked
  <2> QED
    BY <1>1, <1>2, <2>1, Zenon DEF OwedNow
<1>3. CASE UNCHANGED <<sent, got, conn, rude>>
  <2>1. Connected' = Connected
    BY <1>3, Zenon DEF Connected
  <2>2. ~rude /\ conn \notin {"reset", "dead"}
    BY <1>1, <1>3, Zenon DEF OwedNow
  <2> QED
    BY <1>2, <1>3, <2>1, <2>2, Zenon
<1>4. CASE Listen
  <2>1. UNCHANGED <<sent, got>>
    BY <1>4, ListenType, Zenon DEF TypeOK
  <2> QED
    BY <1>2, <1>4, <2>1, ListenOwed
<1>5. CASE Connects
  <2>1. conn' = "pending"
    BY <1>5, Zenon DEF Connects, Connect
  <2> QED
    BY <2>1 DEF OwedNow, Connected
<1>6. CASE Sends \/ Receives
  <2>1. Connected /\ conn' = conn /\ rude' = rude
    BY <1>6, Zenon DEF Sends, Send, Receives, Receive
  <2> QED
    BY <2>1 DEF OwedNow, Connected
<1>7. CASE Closes
  <2>1. ~rude /\ outbound = <<>> /\ service = "jtag" /\ Asked = Len(got)
    BY <1>7, CleanClose
  <2>2. UNCHANGED <<sent, got>> /\ conn' = IF outbound # <<>> THEN "reset" ELSE "fin"
    BY <1>7, Zenon DEF Closes, Close
  <2>3. conn' = "fin" /\ Asked' = Asked
    BY <2>1, <2>2 DEF Asked
  <2> QED
    BY <1>1, <2>1, <2>2, <2>3 DEF OwedNow
<1>8. Iterate => UNCHANGED <<sent, got, conn, rude>>
  BY Iterates, Zenon DEF connection, clients
<1>9. Start \/ Leaves \/ Destroy \/ Joined \/ Exits \/ Breaks \/ UNCHANGED serverVars
        => UNCHANGED <<sent, got, conn, rude>>
  BY Zenon DEF Start, Leaves, Destroy, Joined, Exits, Breaks, serverVars, connection, clients
<1> QED
  BY <1>3, <1>4, <1>5, <1>6, <1>7, <1>8, <1>9, Moves, Zenon

\* A JTAG client waits for one answer, that to its last query.
LEMMA OwedCallStep ==
    TypeOK /\ ThreadFollowed /\ Conserved /\ Owed /\ [Next]_vars => (~rude' => OwedCall')
<1> SUFFICES ASSUME TypeOK, ThreadFollowed, Conserved, Owed, [Next]_vars, ~rude', peer' = "JTAGClient",
                    call' # "failed"
             PROVE  Asked' = Len(got)' + (IF call' = "read" THEN 1 ELSE 0)
  BY Zenon DEF OwedCall
<1>1. peer = "JTAGClient" /\ (~rude => OwedCall)
  BY Fixed, Zenon DEF Owed, OwedCall
<1>2. CASE UNCHANGED <<sent, got, call>> /\ ~rude
  BY <1>1, <1>2, Zenon DEF OwedCall, Asked
<1>3. service = "jtag" /\ call \in {"idle", "query", "read", "failed"}
  BY <1>1 DEF TypeOK, PeerType
<1>4. CASE Sends
  <2>1. PICK cmds \in Seq(Command) :
          /\ Send(cmds)
          /\ \/ call = "idle" /\ call' = "query" /\ wrote' \in Pins /\ cmds = <<SetPins(wrote')>>
             \/ call = "query" /\ call' = "read" /\ wrote' = wrote /\ cmds = <<Query>>
    <3>1. peer # "openocd" /\ service \notin {"uart", "gpio"}
      BY <1>1, <1>3
    <3> QED
      BY <1>4, <3>1, Zenon DEF Sends
  <2>2. sent' = sent \o cmds /\ got' = got /\ ~rude
    BY <2>1, Zenon DEF Send
  <2>3. sent \in Seq(Command) /\ Len(got) \in Nat
    BY LenProperties DEF TypeOK, ServerType
  <2>4. Asked = Len(got)
    BY <1>1, <2>1, <2>2, <2>3 DEF OwedCall
  <2>5. ASSUME NEW c \in Command
        PROVE  Queries(sent \o <<c>>) = Queries(sent) + (IF c.op = "query" THEN 1 ELSE 0)
    <3>1. Append(sent, c) = sent \o <<c>>
      BY <2>3, AppendIsConcat
    <3>2. Queries(Append(sent, c)) = Queries(sent) + (IF c.op = "query" THEN 1 ELSE 0)
      BY <2>3, QueriesAppend
    <3> QED
      BY <3>1, <3>2, Zenon
  <2>6. Command = [op : {"pins"}, pins : Pins] \cup [op : {"reset"}, on : BOOLEAN] \cup [op : {"query"}]
    BY <1>3, Zenon DEF Command
  <2>7. CASE call = "idle" /\ call' = "query" /\ wrote' \in Pins /\ cmds = <<SetPins(wrote')>>
    <3> DEFINE c == SetPins(wrote')
    <3>1. c \in Command /\ c.op # "query"
      BY <2>6, <2>7 DEF SetPins
    <3> HIDE DEF c
    <3>2. Queries(sent \o <<c>>) = Queries(sent) + 0
      BY <2>5, <3>1
    <3>3. Queries(sent') = Queries(sent) + 0
      BY <2>2, <2>7, <3>2, Zenon DEF c
    <3> QED
      BY <2>2, <2>3, <2>4, <2>7, <3>3 DEF Asked
  <2>8. CASE call = "query" /\ call' = "read" /\ wrote' = wrote /\ cmds = <<Query>>
    <3>1. Query \in Command /\ Query.op = "query"
      BY <2>6 DEF Query
    <3>2. Queries(sent \o <<Query>>) = Queries(sent) + 1
      BY <2>5, <3>1
    <3>3. Queries(sent') = Queries(sent) + 1
      BY <2>2, <2>8, <3>2, Zenon
    <3> QED
      BY <2>2, <2>3, <2>4, <2>8, <3>3 DEF Asked
  <2> QED
    BY <2>1, <2>7, <2>8, Zenon
<1>5. CASE Receives
  <2>1. /\ call = "read" /\ call' = "idle" /\ outbound # <<>>
        /\ got' = Append(got, Head(outbound)) /\ sent' = sent /\ ~rude
    BY <1>1, <1>5, Zenon DEF Receives, Receive
  <2>2. outbound \in Seq(Answer) /\ got \in Seq(Answer)
    BY Zenon DEF TypeOK, ServerType
  <2>3. Len(got') = Len(got) + 1 /\ Len(got) \in Nat
    BY <2>1, <2>2
  <2>4. Asked = Len(got) + 1
    BY <1>1, <2>1 DEF OwedCall
  <2>5. Asked' = Asked
    BY <2>1, Zenon DEF Asked
  <2> QED
    BY <2>1, <2>3, <2>4, <2>5
<1>6. CASE Closes
  <2>1. Asked = Len(got)
    BY <1>6, CleanClose
  <2>2. UNCHANGED <<sent, got>>
    BY <1>6, Zenon DEF Closes, Close
  <2>3. call' = "idle"
    <3>1. peer # "openocd" /\ service \notin {"uart", "gpio"}
      BY <1>1, <1>3
    <3> QED
      BY <1>6, <3>1, Zenon DEF Closes
  <2>4. Asked' = Asked
    BY <2>2, Zenon DEF Asked
  <2>5. Len(got) \in Nat
    BY LenProperties DEF TypeOK, ServerType
  <2> QED
    BY <2>1, <2>2, <2>3, <2>4, <2>5
<1>7. CASE Iterate
  BY <1>2, <1>7, Iterates, Zenon DEF clients, peers, clientVars
<1>8. CASE Listen /\ call' = call
  <2>1. UNCHANGED <<sent, got>>
    BY <1>8, ListenType, Zenon DEF TypeOK
  <2> QED
    BY <1>2, <1>8, <2>1, ListenOwed
<1>9. Start \/ Leaves \/ Destroy \/ Joined \/ Exits \/ Connects \/ UNCHANGED serverVars
        => UNCHANGED <<sent, got, rude>>
  BY Zenon DEF Start, Leaves, Destroy, Joined, Exits, Connects, Connect, serverVars, clients
<1>10. ~Breaks
  BY DEF Breaks
<1>11. Connects => call' = call
  BY Zenon DEF Connects
<1>12. rude' = rude => ~rude
  OBVIOUS
<1> QED
  BY <1>2, <1>4, <1>5, <1>6, <1>7, <1>8, <1>9, <1>10, <1>11, <1>12, Moves, Zenon

\* A call fails only when the connection is gone.
LEMMA OwedFailedStep ==
    TypeOK /\ Owed /\ [Next]_vars => (call' = "failed" => ~Alive')
<1> SUFFICES ASSUME TypeOK, Owed, [Next]_vars, call' = "failed"
             PROVE  ~Alive'
  OBVIOUS
<1>1. call = "failed" => ~Alive
  BY Zenon DEF Owed
<1>2. CASE process' = process /\ ~Alive
  BY <1>2, Zenon DEF Alive
<1>3. CASE Iterate
  <2>1. process' = process /\ call' = call
    BY <1>3, Iterates, Zenon DEF peers, clientVars
  <2> QED
    BY <1>1, <1>2, <2>1, Zenon
<1>4. Start \/ Listen \/ Leaves \/ Destroy \/ Joined \/ Exits => Alive
  BY DEF Start, Listen, Leaves, Destroy, Joined, Exits, Alive
<1>5. Connects => Alive /\ call' = call
  BY Zenon DEF Connects, Connect
<1>6. Sends => Alive /\ (call' = call \/ call' # "failed")
  BY DEF Sends, Send
<1>7. Receives => process' = process /\ (call' = call \/ call' # "failed")
  BY DEF Receives, Receive
<1>8. Closes => Alive /\ (call' = call \/ call' # "failed")
  BY DEF Closes, Close
<1>9. Breaks => process' = process /\ ~Alive
  BY Zenon DEF Breaks, serverVars
<1>10. UNCHANGED serverVars => process' = process
  BY Zenon DEF serverVars
<1> QED
  BY <1>1, <1>2, <1>3, <1>4, <1>5, <1>6, <1>7, <1>8, <1>9, <1>10, Moves, Zenon

\* What is owed is known after every step.
LEMMA OwedStep ==
    TypeOK /\ ThreadFollowed /\ Conserved /\ Owed /\ [Next]_vars => Owed'
<1>1. Owed' <=> /\ service' = "jtag" => Len(answered') = Queries(served')
                /\ ~rude' => OwedNow' /\ OwedCall'
                /\ call' = "failed" => ~Alive'
  BY Zenon DEF Owed, OwedNow, OwedCall, Queries
<1> QED
  BY <1>1, OwedServed, OwedNowStep, OwedCallStep, OwedFailedStep, Zenon

\* Something is more than nothing.
LEMMA Exceeds == \A x, y : x \in Nat /\ x # 0 /\ y = 0 => x > y
OBVIOUS

\* The server fails only if its client was rude, or at the end.
LEMMA SurvivesStep ==
    TypeOK /\ ThreadFollowed /\ Conserved /\ Owed /\ Survives /\ [Next]_vars => Survives'
<1> SUFFICES ASSUME TypeOK, ThreadFollowed, Conserved, Owed, Survives, [Next]_vars,
                    process' = "exit -1"
             PROVE  rude' \/ sockfd' = "shut"
  BY Zenon DEF Survives
<1>1. CASE UNCHANGED <<process, rude, sockfd>>
  BY <1>1 DEF Survives
<1>2. CASE Listen
  <2>0. Alive /\ process # "exit -1"
    BY <1>2 DEF Listen, Alive
  <2>1. CASE AcceptFails
    BY <2>1 DEF AcceptFails
  <2>2. CASE Flush
    <3> DEFINE n == IF RespBytes < Len(rx) THEN RespBytes ELSE Len(rx)
               room == SockBytes - Len(outbound)
    <3>1. /\ n = 0 => process' = process
          /\ n # 0 => /\ rude' = (rude \/ (conn = "open" /\ n > room))
                      /\ process' = IF conn \in {"reset", "dead"} \/ (conn = "open" /\ room = 0)
                                    THEN "exit -1" ELSE process
      BY <2>2, Zenon DEF Flush
    <3>2. n # 0 /\ (conn \in {"reset", "dead"} \/ (conn = "open" /\ room = 0))
      BY <2>0, <3>1, Zenon
    <3>3. n \in Nat
      <4>1. rx \in Seq(Answer) /\ RespBytes \in Nat
        BY BytesAssumption DEF TypeOK, ServerType
      <4>2. Len(rx) \in Nat
        BY <4>1, LenProperties
      <4> QED
        BY <4>1, <4>2
    <3> HIDE DEF n, room
    <3>4. CASE conn \in {"reset", "dead"}
      <4>1. conn \notin {"reset", "dead"} \/ rude
        BY Zenon DEF Owed, OwedNow
      <4>2. rude
        BY <3>4, <4>1
      <4>3. rude' = TRUE
        BY <3>1, <3>2, <4>2
      <4> QED
        BY <4>3
    <3>5. CASE conn = "open" /\ room = 0
      <4>0. n # 0 /\ room = 0
        BY <3>2, <3>5, Zenon
      <4>2. n > room
        BY <3>3, <4>0, Exceeds, Zenon
      <4>3. rude' = (rude \/ (conn = "open" /\ n > room))
        BY <3>1, <3>2, Zenon
      <4> QED
        BY <3>5, <4>2, <4>3, Zenon
    <3> QED
      BY <3>2, <3>4, <3>5
  <2>3. SetRunning \/ OpenSocket \/ ListenSocket \/ Accept \/ Read \/ ReadNothing \/ ReadEnd \/ Done
          => process' = process
    BY Zenon DEF SetRunning, OpenSocket, ListenSocket, Accept, Read, ReadNothing, ReadEnd, Done
  <2> QED
    BY <1>2, <2>0, <2>1, <2>2, <2>3, Zenon DEF Listen
<1>3. CASE Closes
  <2>1. process' = process /\ sockfd' = sockfd /\ (rude => rude')
    BY <1>3 DEF Closes, Close
  <2> QED
    BY <2>1 DEF Survives
<1>4. Start \/ Iterate \/ Connects \/ Sends \/ Receives \/ Breaks \/ UNCHANGED serverVars
        => UNCHANGED <<process, rude, sockfd>>
  BY Iterates, Zenon DEF Start, Connects, Connect, Sends, Send, Receives, Receive, Breaks, serverVars, clients
<1>5. Leaves \/ Destroy \/ Joined \/ Exits => process' # "exit -1"
  BY DEF Leaves, Destroy, Joined, Exits
<1> QED
  BY <1>1, <1>2, <1>3, <1>4, <1>5, Moves, Zenon

-----------------------------------------------------------------------------
(* Two simulations in step.                                                *)

\* A sequence that ends with a query asks more than what comes before it.
LEMMA QueriesFewer ==
    ASSUME NEW S, NEW s \in Seq(S), NEW u \in Seq(S), u # <<>>,
           (s \o u)[Len(s \o u)].op = "query"
    PROVE  Queries(s) < Queries(s \o u)
<1> DEFINE A == {i \in DOMAIN s : s[i].op = "query"}
           B == {i \in DOMAIN (s \o u) : (s \o u)[i].op = "query"}
           n == Len(s \o u)
<1>1. /\ s \o u \in Seq(S) /\ n = Len(s) + Len(u) /\ Len(s) \in Nat /\ Len(u) \in Nat /\ Len(u) > 0
      /\ DOMAIN s = 1..Len(s) /\ DOMAIN (s \o u) = 1..n
  BY ConcatProperties, LenProperties
<1>2. IsFiniteSet(A) /\ Queries(s) = Cardinality(A) /\ Queries(s) \in Nat
  BY QueriesType, Zenon DEF Queries
<1>3. IsFiniteSet(B) /\ Queries(s \o u) = Cardinality(B) /\ Queries(s \o u) \in Nat
  BY <1>1, QueriesType, Zenon DEF Queries
<1>4. n \notin A /\ n \in B
  BY <1>1
<1>5. A \cup {n} \in SUBSET B
  <2>1. ASSUME NEW i \in DOMAIN s
        PROVE  i \in DOMAIN (s \o u) /\ (s \o u)[i] = s[i]
    OBVIOUS
  <2> QED
    BY <1>4, <2>1
<1>6. Cardinality(A \cup {n}) = Cardinality(A) + 1 /\ IsFiniteSet(A \cup {n})
  BY <1>2, <1>4, FS_AddElement
<1>7. Cardinality(A \cup {n}) <= Cardinality(B)
  BY <1>3, <1>5, FS_Subset
<1> HIDE DEF A, B, n
<1> QED
  BY <1>2, <1>3, <1>6, <1>7

\* Who is served next, and how many there are.
LEMMA SentLengths ==
    ASSUME TypeOK, Conserved
    PROVE  /\ Len(sent) \in Nat /\ Len(served) \in Nat /\ Len(tx) \in Nat /\ Len(inbound) \in Nat
           /\ Len(sent) = Len(served) + Len(tx) + Len(inbound)
           /\ tx # <<>> => Len(tx) > 0 /\ sent[Len(served) + 1] = Head(tx)
<1>1. served \in Seq(Command) /\ tx \in Seq(Command) /\ inbound \in Seq(Command) /\ sent \in Seq(Command)
  BY Zenon DEF TypeOK, ServerType
<1>2. sent = (served \o tx) \o inbound
  BY Zenon DEF Conserved
<1>3. /\ Len(sent) \in Nat /\ Len(served) \in Nat /\ Len(tx) \in Nat /\ Len(inbound) \in Nat
  BY <1>1, LenProperties
<1> DEFINE z == served \o tx
<1>4. /\ z \in Seq(Command) /\ Len(z) = Len(served) + Len(tx)
      /\ \A i \in 1..(Len(served) + Len(tx)) :
            z[i] = IF i <= Len(served) THEN served[i] ELSE tx[i - Len(served)]
  BY <1>1, ConcatProperties
<1> HIDE DEF z
<1>0. z \in Seq(Command)
  BY <1>4
<1>5. /\ Len(sent) = Len(z) + Len(inbound)
      /\ \A i \in 1..(Len(z) + Len(inbound)) :
            sent[i] = IF i <= Len(z) THEN z[i] ELSE inbound[i - Len(z)]
  <2> DEFINE y == z \o inbound
  <2>1. sent = y
    BY <1>2 DEF z
  <2>2. /\ Len(y) = Len(z) + Len(inbound)
        /\ \A i \in 1..(Len(z) + Len(inbound)) :
              y[i] = IF i <= Len(z) THEN z[i] ELSE inbound[i - Len(z)]
    BY <1>1, <1>0, ConcatProperties
  <2> HIDE DEF y
  <2> QED
    BY <2>1, <2>2, Zenon
<1>6. ASSUME tx # <<>>
      PROVE  Len(tx) > 0 /\ sent[Len(served) + 1] = Head(tx)
  <2>1. Len(tx) > 0 /\ Head(tx) = tx[1]
    BY <1>1, <1>6
  <2>2. sent[Len(served) + 1] = z[Len(served) + 1]
    BY <1>3, <1>4, <1>5, <2>1
  <2>3. z[Len(served) + 1] = tx[1]
    BY <1>3, <1>4, <2>1
  <2> QED
    BY <2>1, <2>2, <2>3
<1> QED
  BY <1>3, <1>4, <1>5, <1>6

\* What is asked last is asked until it is served.
LEMMA LastAsked ==
    ASSUME TypeOK, Conserved, Len(served) # Len(sent), sent[Len(sent)] = Query
    PROVE  Queries(served) < Asked
<1> DEFINE rest == tx \o inbound
<1>1. served \in Seq(Command) /\ tx \in Seq(Command) /\ inbound \in Seq(Command)
  BY Zenon DEF TypeOK, ServerType
<1>2. rest \in Seq(Command) /\ Len(rest) = Len(tx) + Len(inbound)
  BY <1>1, ConcatProperties
<1>3. sent = served \o rest
  <2>1. (served \o tx) \o inbound = served \o (tx \o inbound)
    BY <1>1, Assoc
  <2> QED
    BY <2>1, Zenon DEF Conserved
<1>4. rest # <<>>
  BY <1>2, SentLengths
<1> HIDE DEF rest
<1>5. (served \o rest)[Len(served \o rest)].op = "query"
  BY <1>3 DEF Query
<1>6. Queries(served) < Queries(served \o rest)
  BY <1>1, <1>2, <1>4, <1>5, QueriesFewer
<1> QED
  BY <1>3, <1>6 DEF Asked

\* The client that waits for an answer has none before its query is served.
LEMMA NoneYet ==
    ASSUME TypeOK, Conserved, Owed, ~rude, peer = "JTAGClient", call = "read",
           Len(served) # Len(sent), sent[Len(sent)] = Query
    PROVE  answered = got
<1>1. service = "jtag"
  BY Zenon DEF TypeOK, PeerType
<1>2. Asked = Len(got) + 1 /\ Len(answered) = Queries(served)
  BY <1>1, Zenon DEF Owed
<1>3. Queries(served) < Asked
  BY LastAsked
<1>4. /\ Len(got) \in Nat /\ Len(answered) \in Nat /\ Len(outbound) \in Nat /\ Len(rx) \in Nat
      /\ Len(answered) = Len(got) + Len(outbound) + Len(rx)
  BY <1>1, OwedLengths
<1>5. Len(outbound) = 0 /\ Len(rx) = 0
  BY <1>2, <1>3, <1>4
<1>6. got \in Seq(Answer) /\ outbound \in Seq(Answer) /\ rx \in Seq(Answer)
  BY Zenon DEF TypeOK, ServerType
<1>7. outbound = <<>> /\ rx = <<>>
  BY <1>5, <1>6
<1>8. answered = (got \o <<>>) \o <<>>
  BY <1>7, Zenon DEF Conserved
<1> QED
  BY <1>6, <1>8

\* The service takes one command of the client, and answers it.
LEMMA PinsServed ==
    ASSUME TypeOK, Conserved, Owed, PinsFollowed, Iterate
    PROVE  PinsFollowed'
<1> SUFFICES ASSUME peer' = "JTAGClient"
             PROVE  (QueryFollowed /\ ReadFollowed)'
  BY Zenon DEF PinsFollowed
<1>1. /\ UNCHANGED <<clients, peers>> /\ Answering /\ tdo' = pins
  BY Iterates
<1>2. /\ sent' = sent /\ got' = got /\ rude' = rude
      /\ peer = "JTAGClient" /\ call' = call /\ wrote' = wrote
  BY <1>1, Zenon DEF clients, peers, clientVars
<1>3. QueryFollowed /\ ReadFollowed
  BY <1>2, Zenon DEF PinsFollowed
<1>4. service = "jtag"
  BY <1>2, Zenon DEF TypeOK, PeerType
<1>5. CASE UNCHANGED <<tx, rx, simulation, pins>>
  <2>1. pins' = pins /\ served' = served /\ answered' = answered
    BY <1>5, Zenon DEF simulation
  <2> QED
    BY <1>2, <1>3, <2>1, Zenon DEF QueryFollowed, ReadFollowed, PinsSent
<1>6. ASSUME NEW n, NEW a, Answers(n, a)
      PROVE  (QueryFollowed /\ ReadFollowed)'
  <2> DEFINE c == Head(tx)
             k == Len(served)
  <2>1. /\ tx # <<>> /\ n = 1 /\ a = IF c.op = "query" THEN <<tdo'>> ELSE <<>>
        /\ pins' = IF c.op = "pins" THEN c.pins ELSE pins
        /\ served' = served \o SubSeq(tx, 1, n) /\ answered' = answered \o a
    BY <1>4, <1>6, Zenon DEF Answers, Exchange
  <2>2. /\ tx \in Seq(Command) /\ served \in Seq(Command) /\ answered \in Seq(Answer)
        /\ got \in Seq(Answer)
    BY Zenon DEF TypeOK, ServerType
  <2>3. Len(served') = k + 1
    <3>1. SubSeq(tx, 1, 1) \in Seq(Command) /\ Len(SubSeq(tx, 1, 1)) = 1
      <4>1. 1 \in 0..Len(tx)
        BY <2>1, <2>2
      <4> QED
        BY <2>2, <4>1, Cut
    <3> QED
      BY <2>1, <2>2, <3>1, ConcatProperties
  <2>4. k \in Nat /\ Len(sent) \in Nat /\ k < Len(sent) /\ sent[k + 1] = c
    BY <2>1, SentLengths
  <2>5. ASSUME NEW i \in Int, PinsSent(i), k >= i => c.op # "pins"
        PROVE  /\ i > 0 /\ sent'[i] = SetPins(wrote')
               /\ Len(served') >= i => pins' = wrote'
    <3>1. sent'[i] = SetPins(wrote') /\ i > 0
      BY <1>2, <2>5 DEF PinsSent
    <3>2. ASSUME k + 1 >= i
          PROVE  pins' = wrote
      <4>1. CASE k >= i
        BY <2>1, <2>5, <4>1 DEF PinsSent
      <4>2. CASE i = k + 1
        <5>1. c = SetPins(wrote)
          BY <2>4, <2>5, <4>2 DEF PinsSent
        <5> HIDE DEF c
        <5> QED
          BY <2>1, <5>1 DEF SetPins
      <4> QED
        BY <2>4, <2>5, <3>2, <4>1, <4>2
    <3> QED
      BY <1>2, <2>3, <3>1, <3>2
  <2>6. QueryFollowed'
    <3> SUFFICES ASSUME call = "query"
                 PROVE  PinsSent(Len(sent))'
      BY <1>2, Zenon DEF QueryFollowed
    <3>1. PinsSent(Len(sent))
      BY <1>3, Zenon DEF QueryFollowed
    <3> QED
      BY <1>2, <2>4, <2>5, <3>1 DEF PinsSent
  <2>7. ReadFollowed'
    <3> SUFFICES ASSUME call = "read"
                 PROVE  (ReadFollowed)'
      BY <1>2, Zenon DEF ReadFollowed
    <3>1. PinsSent(Len(sent) - 1) /\ sent[Len(sent)] = Query
      BY <1>3, Zenon DEF ReadFollowed
    <3>2. k >= Len(sent) - 1 => c = Query
      BY <2>4, <3>1
    <3>3. k >= Len(sent) - 1 => c.op # "pins"
      BY <3>2 DEF Query
    <3>4. PinsSent(Len(sent) - 1)' /\ sent'[Len(sent)] = Query
      <4>1. Len(sent) - 1 \in Int
        BY <2>4
      <4>2. PinsSent(Len(sent) - 1)'
        BY <1>2, <2>5, <3>1, <3>3, <4>1 DEF PinsSent
      <4> QED
        BY <1>2, <3>1, <4>2
    <3>5. ASSUME k + 1 = Len(sent), ~rude
          PROVE  answered' = Append(got, wrote)
      <4>1. answered = got
        BY <1>2, <2>4, <3>1, <3>5, NoneYet
      <4>2. a = <<wrote>>
        <5>1. pins = wrote
          BY <2>4, <3>1, <3>5 DEF PinsSent
        <5>2. c = Query
          BY <2>4, <3>2, <3>5
        <5> HIDE DEF c
        <5> QED
          BY <1>1, <2>1, <5>1, <5>2 DEF Query
      <4>3. wrote \in Answer
        <5>1. <<wrote>> \in Seq(Answer)
          BY <1>6, <4>2, Zenon DEF Answers
        <5> QED
          BY <5>1
      <4> QED
        BY <2>1, <2>2, <4>1, <4>2, <4>3, AppendIsConcat
    <3> QED
      BY <1>2, <2>3, <2>4, <3>4, <3>5 DEF ReadFollowed
  <2> QED
    BY <2>6, <2>7
<1> QED
  BY <1>1, <1>5, <1>6, Zenon DEF Answering

\* A client that was rude was.
LEMMA RudeStays == TypeOK /\ [Next]_vars => (~rude' => ~rude)
<1>1. Start \/ Leaves \/ Destroy \/ Joined \/ Exits \/ Connects \/ Sends \/ Receives \/ Breaks
       \/ UNCHANGED serverVars
         => rude' = rude
  BY Zenon DEF Start, Leaves, Destroy, Joined, Exits, Connects, Connect, Sends, Send, Receives, Receive,
               Breaks, serverVars, clients
<1>2. Closes => (rude => rude')
  BY Zenon DEF Closes, Close
<1>3. Listen => (rude => rude')
  <2>1. SetRunning \/ OpenSocket \/ ListenSocket \/ Accept \/ AcceptFails \/ Read \/ ReadNothing
         \/ ReadEnd \/ Done
           => rude' = rude
    BY Zenon DEF SetRunning, OpenSocket, ListenSocket, Accept, AcceptFails, Read, ReadNothing,
                 ReadEnd, Done, clients
  <2>2. Flush => (rude => rude')
    BY DEF Flush
  <2> QED
    BY <2>1, <2>2, Zenon DEF Listen
<1>4. TypeOK /\ Iterate => rude' = rude
  BY Iterates, Zenon DEF clients
<1> QED
  BY <1>1, <1>2, <1>3, <1>4, Moves, Zenon

\* The client sends.
LEMMA PinsSends ==
    ASSUME TypeOK, Conserved, PinsFollowed, Sends, peer' = peer, pins' = pins
    PROVE  PinsFollowed'
<1> SUFFICES ASSUME peer = "JTAGClient"
             PROVE  (QueryFollowed /\ ReadFollowed)'
  BY Zenon DEF PinsFollowed
<1>1. QueryFollowed /\ ReadFollowed
  BY Zenon DEF PinsFollowed
<1>2. PICK cmds \in Seq(Command) :
        /\ Send(cmds)
        /\ \/ service = "jtag" /\ peer = "openocd" /\ call' = call
           \/ service \in {"uart", "gpio"} /\ call' = call
           \/ /\ peer = "JTAGClient" /\ call = "idle" /\ call' = "query"
              /\ wrote' \in Pins /\ cmds = <<SetPins(wrote')>>
           \/ /\ peer = "JTAGClient" /\ call = "query" /\ call' = "read" /\ wrote' = wrote
              /\ cmds = <<Query>>
  BY Zenon DEF Sends
<1>3. service = "jtag"
  BY Zenon DEF TypeOK, PeerType
<1>4. sent' = sent \o cmds /\ served' = served
  BY <1>2, Zenon DEF Send, simulation
<1>5. sent \in Seq(Command) /\ Len(sent) \in Nat /\ Len(served) \in Nat /\ Len(served) <= Len(sent)
  <2>1. /\ Len(sent) \in Nat /\ Len(served) \in Nat /\ Len(tx) \in Nat /\ Len(inbound) \in Nat
        /\ Len(sent) = Len(served) + Len(tx) + Len(inbound)
    BY SentLengths
  <2>2. sent \in Seq(Command)
    BY Zenon DEF TypeOK, ServerType
  <2> QED
    BY <2>1, <2>2
<1>6. ASSUME NEW c, cmds = <<c>>
      PROVE  /\ Len(sent') = Len(sent) + 1 /\ sent'[Len(sent) + 1] = c
             /\ \A i \in 1..Len(sent) : sent'[i] = sent[i]
  <2>1. c \in Command /\ Len(cmds) = 1 /\ cmds[1] = c
    BY <1>6
  <2>2. sent' = Append(sent, c)
    BY <1>4, <1>5, <1>6, <2>1, AppendIsConcat
  <2> QED
    BY <1>5, <2>1, <2>2, AppendProperties
<1>7. CASE call = "idle" /\ call' = "query" /\ cmds = <<SetPins(wrote')>>
  <2>1. Len(sent') = Len(sent) + 1 /\ sent'[Len(sent) + 1] = SetPins(wrote')
    BY <1>6, <1>7
  <2> QED
    BY <1>4, <1>5, <1>7, <2>1 DEF QueryFollowed, ReadFollowed, PinsSent
<1>8. CASE call = "query" /\ call' = "read" /\ wrote' = wrote /\ cmds = <<Query>>
  <2>1. /\ Len(sent') = Len(sent) + 1 /\ sent'[Len(sent) + 1] = Query
        /\ \A i \in 1..Len(sent) : sent'[i] = sent[i]
    BY <1>6, <1>8
  <2>2. PinsSent(Len(sent))
    BY <1>1, <1>8, Zenon DEF QueryFollowed
  <2> QED
    BY <1>4, <1>5, <1>8, <2>1, <2>2 DEF QueryFollowed, ReadFollowed, PinsSent
<1> QED
  BY <1>2, <1>3, <1>7, <1>8

\* The pins follow the client through every step.
LEMMA PinsStep ==
    TypeOK /\ Conserved /\ Owed /\ PinsFollowed /\ [Next]_vars => PinsFollowed'
<1> SUFFICES ASSUME TypeOK, Conserved, Owed, PinsFollowed, [Next]_vars
             PROVE  PinsFollowed'
  OBVIOUS
<1>1. peer' = peer
  BY Fixed
<1>2. ASSUME call' = call, UNCHANGED <<wrote, pins, sent, served, answered, got>>
      PROVE  PinsFollowed'
  BY <1>1, <1>2, RudeStays, Zenon DEF PinsFollowed, QueryFollowed, ReadFollowed, PinsSent
<1>3. ASSUME peer = "JTAGClient" => call' \notin {"query", "read"}
      PROVE  PinsFollowed'
  BY <1>1, <1>3 DEF PinsFollowed, QueryFollowed, ReadFollowed
<1>4. CASE (Start \/ Leaves \/ Destroy \/ Joined \/ Exits) /\ UNCHANGED <<call, wrote, pins>>
  BY <1>2, <1>4, Zenon DEF Start, Leaves, Destroy, Joined, Exits, simulation, clients
<1>5. CASE Connects /\ UNCHANGED pins
  BY <1>2, <1>5, Zenon DEF Connects, Connect, simulation, clients
<1>6. CASE UNCHANGED <<serverVars, call, wrote, pins>>
  BY <1>2, <1>6, Zenon DEF serverVars, simulation, clients
<1>7. CASE Listen /\ UNCHANGED <<call, wrote, pins>>
  <2>1. UNCHANGED <<sent, served, answered, got>>
    BY <1>7, ListenType, Zenon DEF TypeOK
  <2> QED
    BY <1>2, <1>7, <2>1, Zenon
<1>8. Receives => (peer = "JTAGClient" => call' \notin {"query", "read"})
  BY DEF Receives
<1>9. Closes => (peer = "JTAGClient" => call' \notin {"query", "read"})
  BY DEF Closes, TypeOK, PeerType
<1>10. Breaks => call' \notin {"query", "read"}
  BY DEF Breaks
<1>11. Sends /\ UNCHANGED pins => PinsFollowed'
  BY <1>1, PinsSends
<1> QED
  BY <1>3, <1>4, <1>5, <1>6, <1>7, <1>8, <1>9, <1>10, <1>11, PinsServed, Moves, Zenon

\* What the client waits for is what it wrote.
LEMMA InStepFollows ==
    ASSUME TypeOK, Conserved, Owed, PinsFollowed
    PROVE  LockStep
<1> SUFFICES ASSUME peer = "JTAGClient", ~rude, call = "read", outbound # <<>>
             PROVE  Head(outbound) = wrote
  BY Zenon DEF LockStep, InStep
<1>1. service = "jtag"
  BY Zenon DEF TypeOK, PeerType
<1>2. ReadFollowed
  BY Zenon DEF PinsFollowed
<1>3. answered = (got \o outbound) \o rx
  BY Zenon DEF Conserved
<1>4. got \in Seq(Answer) /\ outbound \in Seq(Answer) /\ rx \in Seq(Answer)
  BY Zenon DEF TypeOK, ServerType
<1>5. Len(got) \in Nat /\ Len(outbound) > 0 /\ Len(outbound) \in Nat /\ Len(rx) \in Nat
  BY <1>4
<1>6. Len(served) = Len(sent)
  <2>1. Len(answered) = Len(got) + Len(outbound) + Len(rx)
    BY <1>1, OwedLengths
  <2>2. answered # got
    BY <1>5, <2>1
  <2> QED
    BY <1>2, <2>2, NoneYet, Zenon DEF ReadFollowed
<1>7. answered = Append(got, wrote)
  BY <1>2, <1>6, Zenon DEF ReadFollowed
<1>8. answered[Len(got) + 1] = Head(outbound)
  <2>1. (got \o outbound)[Len(got) + 1] = outbound[1] /\ got \o outbound \in Seq(Answer)
         /\ Len(got \o outbound) = Len(got) + Len(outbound)
    BY <1>4, <1>5, ConcatProperties
  <2>2. answered[Len(got) + 1] = (got \o outbound)[Len(got) + 1]
    BY <1>3, <1>4, <1>5, <2>1, ConcatProperties
  <2>3. Head(outbound) = outbound[1]
    BY <1>4, <1>5
  <2> QED
    BY <2>1, <2>2, <2>3
<1>9. Append(got, wrote)[Len(got) + 1] = wrote
  BY <1>4
<1> QED
  BY <1>7, <1>8, <1>9

-----------------------------------------------------------------------------
(* The trace.                                                              *)

\* What a step does to the trace, the time and the process.
LEMMA TraceMoves ==
    ASSUME [Next]_vars
    PROVE  /\ UNCHANGED fst
           /\ \/ process = "runs" /\ process' \in {"runs", "quits"} /\ DoCycle
              \/ process = "runs" /\ process' = "quits" /\ DoCycleEnds
              \/ process = "quits" /\ process' \in {"joins", "deleted"} /\ CloseTrace /\ t' = t
              \/ process' \in {process, "exit -1"} /\ UNCHANGED <<traceVars, t>>
              \/ process = "joins" /\ process' = "deleted" /\ UNCHANGED <<traceVars, t>>
              \/ process = "deleted" /\ process' = "exit 0" /\ UNCHANGED <<traceVars, t>>
<1>0. UNCHANGED fst
  BY Fixed
<1>1. CASE Parse
  <2>1. process' = process /\ UNCHANGED <<traceVars, t>>
    BY <1>1, Zenon DEF Parse, Start, utils
  <2> QED
    BY <1>0, <2>1, Zenon
<1>2. CASE Iterate
  <2>1. process = "runs" /\ process' = process /\ DoCycle
    BY <1>2, Zenon DEF Iterate
  <2> QED
    BY <1>0, <2>1, Zenon
<1>3. CASE Leave
  <2>1. process = "runs" /\ process' = "quits" /\ (DoCycle \/ DoCycleEnds)
    BY <1>3, Zenon DEF Leave
  <2> QED
    BY <1>0, <2>1, Zenon
<1>4. CASE Delete
  <2>1. CASE Destroy /\ CloseTrace
    <3>1. process = "quits" /\ process' = (IF running THEN "joins" ELSE "deleted") /\ t' = t
      BY <1>4, <2>1, Zenon DEF Delete, Destroy
    <3>2. process' \in {"joins", "deleted"}
      BY <3>1
    <3> QED
      BY <1>0, <2>1, <3>1, <3>2, Zenon
  <2>2. CASE Joined /\ UNCHANGED traceVars
    <3>1. process = "joins" /\ process' = "deleted" /\ t' = t
      BY <1>4, <2>2, Zenon DEF Delete, Joined
    <3> QED
      BY <1>0, <2>2, <3>1, Zenon
  <2> QED
    BY <1>4, <2>1, <2>2, Zenon DEF Delete
<1>5. CASE Exit
  <2>1. process = "deleted" /\ process' = "exit 0" /\ UNCHANGED <<traceVars, t>>
    BY <1>5, Zenon DEF Exit, utils
  <2> QED
    BY <1>0, <2>1, Zenon
<1>6. CASE ServerThread
  <2>1. Listen /\ UNCHANGED <<traceVars, t>>
    BY <1>6, Zenon DEF ServerThread, utils
  <2>2. SetRunning \/ OpenSocket \/ ListenSocket \/ Accept \/ Read \/ ReadNothing \/ ReadEnd \/ Done
          => process' = process
    BY Zenon DEF SetRunning, OpenSocket, ListenSocket, Accept, Read, ReadNothing, ReadEnd, Done
  <2>3. AcceptFails => process' = "exit -1"
    BY Zenon DEF AcceptFails
  <2>4. Flush => process' = process \/ process' = "exit -1"
    BY DEF Flush
  <2> QED
    BY <1>0, <2>1, <2>2, <2>3, <2>4, Zenon DEF Listen
<1>7. CASE Client
  <2>1. UNCHANGED <<traceVars, t>>
    BY <1>7, Zenon DEF Client, Dial, JtagPeer, Openocd, Host, GpioPeer, GpioPeerPins, simulationVars, utils
  <2>2. process' = process
    BY <1>7, Zenon DEF Client, Dial, JtagPeer, Openocd, Host, GpioPeer, GpioPeerPins, StartClient, StartGpio,
                       WritePins, WriteQuery, ReadAnswer, Fails, Stop, SendOutputs, ReadCommand, StopGpio,
                       Connect, Send, Receive, Close, serverVars
  <2> QED
    BY <1>0, <2>1, <2>2, Zenon
<1>8. CASE UNCHANGED vars
  <2>1. process' = process /\ UNCHANGED <<traceVars, t>>
    BY <1>8, Zenon DEF vars, serverVars, utils
  <2> QED
    BY <1>0, <2>1, Zenon
<1> QED
  BY <1>1, <1>2, <1>3, <1>4, <1>5, <1>6, <1>7, <1>8, Zenon DEF Next, Main

\* An open trace is one that is written to.
LEMMA DumpOpen ==
    ASSUME TraceTypes, isOpen => fstDumping, NEW finish \in BOOLEAN, Dump(finish)
    PROVE  fstDumping' \in BOOLEAN /\ isOpen' \in BOOLEAN /\ (isOpen' => fstDumping')
BY DEF TraceTypes, Dump, Stopped, Started

\* A tick is in the window if the trace is on after it, as long as it was on
\* after the last if that was.
LEMMA DumpNow ==
    ASSUME TraceTypes, fstDumping <=> t > 0 /\ InWindow(t - 1), Dump(FALSE)
    PROVE  fstDumping' = InWindow(t)
<1> DEFINE on == fst.on
           start == fst.start
           stop == fst.stop
<1>1. on \in BOOLEAN /\ start \in Nat /\ stop \in Nat /\ t \in Nat /\ fstDumping \in BOOLEAN
  BY PeriodAssumption DEF TraceTypes
<1>2. fstDumping' = IF stop # 0 /\ t >= stop THEN FALSE
                    ELSE fstDumping \/ (~(stop # 0 /\ t >= stop) /\ on /\ t >= start)
  BY Zenon DEF Dump, Stopped, Started
<1>3. \A u : InWindow(u) = (on /\ u >= start /\ (stop = 0 \/ u < stop))
  BY Zenon DEF InWindow
<1> HIDE DEF on, start, stop
<1>4. InWindow(t - 1) = (on /\ t - 1 >= start /\ (stop = 0 \/ t - 1 < stop))
  BY <1>3, Zenon
<1>5. InWindow(t) = (on /\ t >= start /\ (stop = 0 \/ t < stop))
  BY <1>3, Zenon
<1>6. fstDumping => on /\ t - 1 >= start
  BY <1>4, Zenon
<1>7. CASE stop # 0 /\ t >= stop
  <2>1. fstDumping' = FALSE
    BY <1>2, <1>7, Zenon
  <2>2. ~(stop = 0 \/ t < stop)
    BY <1>1, <1>7
  <2>3. InWindow(t) = FALSE
    BY <1>5, <2>2
  <2> QED
    BY <2>1, <2>3
<1>8. CASE ~(stop # 0 /\ t >= stop)
  <2>1. fstDumping' = (fstDumping \/ (on /\ t >= start))
    BY <1>2, <1>8
  <2>2. InWindow(t) = (on /\ t >= start)
    BY <1>1, <1>5, <1>8
  <2>3. fstDumping => on /\ t >= start
    BY <1>1, <1>6
  <2> QED
    BY <1>1, <2>1, <2>2, <2>3
<1> QED
  BY <1>7, <1>8

\* It is open too, and the tick is written.
LEMMA DumpTick ==
    ASSUME TraceTypes, fstDumping <=> t > 0 /\ InWindow(t - 1), isOpen = fstDumping, dumped = Window(t),
           Dump(FALSE)
    PROVE  isOpen' = fstDumping' /\ dumped' = Window(t + 1)
<1>1. t \in Nat /\ fstDumping \in BOOLEAN
  BY PeriodAssumption DEF TraceTypes
<1>2. fstDumping' = InWindow(t)
  BY DumpNow
<1> DEFINE open == IF Stopped /\ fstDumping THEN FALSE ELSE isOpen \/ (Started /\ ~fstDumping)
<1>3. /\ fstDumping' = IF Stopped THEN FALSE ELSE fstDumping \/ Started
      /\ isOpen' = (open /\ ~FALSE)
      /\ dumped' = IF fstDumping' /\ open THEN dumped \cup {t} ELSE dumped
  BY Zenon DEF Dump
<1>4. Started => ~Stopped
  BY DEF Started
<1>5. open = fstDumping'
  BY <1>1, <1>3, <1>4
<1> HIDE DEF open
<1>6. isOpen' = fstDumping'
  BY <1>3, <1>5
<1>7. Window(t + 1) = IF InWindow(t) THEN Window(t) \cup {t} ELSE Window(t)
  <2>1. 0..((t + 1) - 1) = (0..(t - 1)) \cup {t}
    BY <1>1
  <2> QED
    BY <2>1 DEF Window
<1> QED
  BY <1>2, <1>3, <1>5, <1>6, <1>7

\* The trace holds what it has to after every step.
LEMMA TraceStep == TraceFollowed /\ [Next]_vars => TraceFollowed'
<1> SUFFICES ASSUME TraceFollowed, [Next]_vars
             PROVE  TraceFollowed'
  OBVIOUS
<1>1. TraceTypes /\ TraceClosed /\ TraceDumped
  BY Zenon DEF TraceFollowed
<1>2. /\ UNCHANGED fst
      /\ \/ process = "runs" /\ process' \in {"runs", "quits"} /\ DoCycle
         \/ process = "runs" /\ process' = "quits" /\ DoCycleEnds
         \/ process = "quits" /\ process' \in {"joins", "deleted"} /\ CloseTrace /\ t' = t
         \/ process' \in {process, "exit -1"} /\ UNCHANGED <<traceVars, t>>
         \/ process = "joins" /\ process' = "deleted" /\ UNCHANGED <<traceVars, t>>
         \/ process = "deleted" /\ process' = "exit 0" /\ UNCHANGED <<traceVars, t>>
  BY TraceMoves
<1>3. t \in Nat /\ Horizon \in Nat
  BY <1>1, PeriodAssumption DEF TraceTypes
<1>4. CASE UNCHANGED <<traceVars, t>> /\ (process' = "runs" => process = "runs")
           /\ (process' \in {"joins", "deleted", "exit 0"} => process \in {"joins", "deleted", "exit 0"})
  BY <1>1, <1>2, <1>4, Zenon DEF TraceFollowed, TraceTypes, TraceClosed, TraceDumped, TraceNow, traceVars,
                                 Window, InWindow
<1>5. CASE process = "quits" /\ process' \in {"joins", "deleted"} /\ CloseTrace /\ t' = t
  <2>1. fstDumping' = fstDumping /\ dumped' = dumped /\ isOpen' = (isOpen /\ ~fstDumping)
    BY <1>5, Zenon DEF CloseTrace
  <2>2. ~isOpen'
    BY <1>1, <2>1, Zenon DEF TraceClosed
  <2>3. isOpen' \in BOOLEAN
    BY <2>1
  <2>4. process' # "runs"
    BY <1>5
  <2>5. TraceTypes' /\ TraceClosed'
    BY <1>1, <1>2, <1>5, <2>1, <2>2, <2>3, Zenon DEF TraceTypes, TraceClosed
  <2>6. TraceDumped'
    BY <1>1, <1>2, <1>5, <2>1, <2>4, Zenon DEF TraceDumped, Window, InWindow
  <2> QED
    BY <2>5, <2>6, Zenon DEF TraceFollowed
<1>6. ASSUME NEW finish \in BOOLEAN, Dump(finish), t' \in {t, Tick}, process = "runs",
             process' \in {"runs", "quits"}
      PROVE  TraceTypes' /\ TraceClosed'
  <2>1. fstDumping' \in BOOLEAN /\ isOpen' \in BOOLEAN /\ (isOpen' => fstDumping')
    BY <1>1, <1>6, DumpOpen, Zenon DEF TraceClosed
  <2>2. t' \in 0..(Horizon + Wrap)
    <3>1. t \in 0..(Horizon + Wrap) /\ Horizon \in Nat /\ Wrap \in Nat /\ Wrap > 0
      BY <1>1, PeriodAssumption DEF TraceTypes
    <3> QED
      BY <1>6, <3>1 DEF Tick
  <2>3. process' \notin {"joins", "deleted", "exit 0"}
    BY <1>6
  <2> QED
    BY <1>1, <1>2, <2>1, <2>2, <2>3, Zenon DEF TraceTypes, TraceClosed
<1>7. CASE process = "runs" /\ process' \in {"runs", "quits"} /\ DoCycle
  <2>1. Dump(FALSE) /\ t' = Tick
    BY <1>7, Zenon DEF DoCycle
  <2>2. TraceTypes' /\ TraceClosed'
    BY <1>6, <1>7, <2>1
  <2>3. ASSUME ~fst.garbage, t' <= Horizon
        PROVE  TraceNow' /\ (dumped \ {t} = Window(t))'
    <3>1. t <= Horizon /\ t' = t + 1
      <4>1. t \in 0..(Horizon + Wrap) /\ Wrap \in Nat /\ Wrap > 0
        BY <1>1, PeriodAssumption DEF TraceTypes
      <4> QED
        BY <1>3, <2>1, <2>3, <4>1 DEF Tick
    <3>2. TraceNow
      BY <1>1, <1>7, <2>3, <3>1, Zenon DEF TraceDumped
    <3>3. fstDumping' = InWindow(t)
      BY <1>1, <2>1, <3>2, DumpNow, Zenon DEF TraceNow
    <3>4. isOpen' = fstDumping' /\ dumped' = Window(t + 1)
      BY <1>1, <2>1, <3>2, DumpTick, Zenon DEF TraceNow
    <3>5. t' > 0 /\ t' - 1 = t
      BY <1>3, <3>1
    <3>6. \A u : InWindow(u)' = InWindow(u)
      BY <1>2, Zenon DEF InWindow
    <3>7. Window(t)' = Window(t')
      BY <1>2, <3>6, Zenon DEF Window
    <3>8. dumped' = Window(t')
      BY <3>1, <3>4
    <3>9. Window(t') \ {t'} = Window(t')
      <4>1. t' \in Nat
        BY <1>3, <3>1
      <4> QED
        BY <4>1 DEF Window
    <3>10. InWindow(t - 1)' = InWindow(t)
      BY <1>2, <3>5, Zenon DEF InWindow
    <3> QED
      BY <3>3, <3>4, <3>5, <3>7, <3>8, <3>9, <3>10, Zenon DEF TraceNow
  <2> QED
    BY <1>2, <2>2, <2>3, Zenon DEF TraceFollowed, TraceDumped
<1>8. CASE process = "runs" /\ process' = "quits" /\ DoCycleEnds
  <2>1. PICK finish \in BOOLEAN : Dump(finish) /\ t' = t
    BY <1>8, Zenon DEF DoCycleEnds
  <2>2. TraceTypes' /\ TraceClosed'
    BY <1>6, <1>8, <2>1
  <2>3. dumped' = dumped \/ dumped' = dumped \cup {t}
    BY <2>1, Zenon DEF Dump
  <2>4. dumped' \ {t'} = dumped \ {t}
    BY <2>1, <2>3
  <2>5. process' # "runs"
    BY <1>8
  <2>6. TraceDumped'
    BY <1>1, <1>2, <2>1, <2>4, <2>5, Zenon DEF TraceDumped, Window, InWindow
  <2> QED
    BY <2>2, <2>6, Zenon DEF TraceFollowed
<1>9. CASE process' \in {process, "exit -1"} /\ UNCHANGED <<traceVars, t>>
  BY <1>4, <1>9
<1>10. CASE process = "joins" /\ process' = "deleted" /\ UNCHANGED <<traceVars, t>>
  BY <1>4, <1>10
<1>11. CASE process = "deleted" /\ process' = "exit 0" /\ UNCHANGED <<traceVars, t>>
  BY <1>4, <1>11
<1> QED
  BY <1>2, <1>5, <1>7, <1>8, <1>9, <1>10, <1>11, Zenon

\* The trace at the start.
LEMMA InitTrace == Init => TraceFollowed
<1> SUFFICES ASSUME Init
             PROVE  TraceFollowed
  OBVIOUS
<1>1. process = "runs" /\ t = 0 /\ isOpen = FALSE /\ dumped = {} /\ fstDumping \in BOOLEAN
  BY Zenon DEF Init, ServerInit, UtilsInit
<1>2. /\ fst \in [on : BOOLEAN, start : 0..Horizon, stop : 0..Horizon, garbage : BOOLEAN]
      /\ fst.garbage = fstDumping
  <2>1. \/ fst \in [on : BOOLEAN, start : 0..Horizon, stop : 0..Horizon, garbage : {fstDumping}]
        \/ fst = [on |-> FALSE, start |-> 0, stop |-> 0, garbage |-> fstDumping]
    BY Zenon DEF Init, UtilsInit
  <2>2. 0 \in 0..Horizon
    BY PeriodAssumption
  <2>3. CASE fst \in [on : BOOLEAN, start : 0..Horizon, stop : 0..Horizon, garbage : {fstDumping}]
    BY <1>1, <2>3
  <2>4. CASE fst = [on |-> FALSE, start |-> 0, stop |-> 0, garbage |-> fstDumping]
    BY <1>1, <2>2, <2>4
  <2> QED
    BY <2>1, <2>3, <2>4
<1>3. Window(0) = {}
  BY DEF Window
<1>4. 0 \in 0..(Horizon + Wrap) /\ ~(0 > 0)
  BY PeriodAssumption
<1>5. TraceTypes
  BY <1>1, <1>2, <1>4 DEF TraceTypes
<1>6. TraceClosed
  BY <1>1 DEF TraceClosed
<1>7. TraceDumped
  <2>1. ASSUME ~fst.garbage
        PROVE  fstDumping = FALSE
    BY <1>1, <1>2, <2>1
  <2>2. {} \ {0} = {}
    OBVIOUS
  <2> QED
    BY <1>1, <1>3, <1>4, <2>1, <2>2 DEF TraceDumped, TraceNow
<1> QED
  BY <1>5, <1>6, <1>7 DEF TraceFollowed

-----------------------------------------------------------------------------
(* The UART: clocks, bits and frames.                                      *)

\* A number is a quotient and a rest in one way only.
LEMMA Division ==
    \A m \in Nat \ {0}, a, q, r \in Int :
        a = q * m + r /\ r \in 0..(m - 1) => a \div m = q /\ a % m = r
<1>1. \A a, q, r \in Int, m \in Nat \ {0} :
        a = m * q + r /\ r \in 0..(m - 1) => a % m = r /\ a \div m = q
  OBVIOUS
<1> TAKE m \in Nat \ {0}, a, q, r \in Int
<1>2. q * m = m * q
  OBVIOUS
<1> QED
  BY <1>1, <1>2

\* Every number has them.
LEMMA Remainder ==
    \A a \in Int, m \in Nat \ {0} :
        /\ a % m \in 0..(m - 1) /\ a \div m \in Int
        /\ a = (a \div m) * m + (a % m)
<1> TAKE a \in Int, m \in Nat \ {0}
<1>1. a \div m \in Int
  OBVIOUS
<1>2. a % m \in 0..(m - 1)
  OBVIOUS
<1>3. a = m * (a \div m) + (a % m)
  OBVIOUS
<1>4. m * (a \div m) = (a \div m) * m
  BY <1>1
<1> QED
  BY <1>1, <1>2, <1>3, <1>4

\* The same with names for the two.
LEMMA RemainderOf ==
    ASSUME NEW a \in Int, NEW m \in Nat \ {0}
    PROVE  \E q \in Int, r \in Int :
              r \in 0..(m - 1) /\ a = q * m + r /\ a % m = r
<1>1. /\ a % m \in 0..(m - 1) /\ a \div m \in Int
      /\ a = (a \div m) * m + (a % m)
  BY Remainder
<1>2. a % m \in Int
  OBVIOUS
<1> QED
  BY <1>1, <1>2, Zenon

\* The rest of the next number.
LEMMA RestLater ==
    \A a \in Int, m \in Nat \ {0, 1} :
        /\ a % m = m - 1 => (a + 1) % m = 0
        /\ a % m # m - 1 => (a + 1) % m = (a % m) + 1
<1> SUFFICES ASSUME NEW a \in Int, NEW m \in Nat \ {0, 1}
             PROVE  /\ a % m = m - 1 => (a + 1) % m = 0
                    /\ a % m # m - 1 => (a + 1) % m = (a % m) + 1
  OBVIOUS
<1>1. PICK q \in Int, r \in Int :
        r \in 0..(m - 1) /\ a = q * m + r /\ a % m = r
  BY RemainderOf, Zenon
<1> DEFINE b == a + 1
<1>2. r = m - 1 => b = (q + 1) * m + 0 /\ q + 1 \in Int /\ 0 \in 0..(m - 1)
  BY <1>1
<1>3. r # m - 1 => b = q * m + (r + 1) /\ r + 1 \in 0..(m - 1)
  BY <1>1
<1>4. b \in Int
  OBVIOUS
<1> HIDE DEF b
<1>5. r = m - 1 => b % m = 0
  BY <1>2, <1>4, Division
<1>6. r # m - 1 => b % m = r + 1
  BY <1>1, <1>3, <1>4, Division
<1> QED
  BY <1>1, <1>5, <1>6, Zenon DEF b

\* A multiple less leaves the rest as it is.
LEMMA RestWithout ==
    \A a, k \in Int, m \in Nat \ {0} : (a - k * m) % m = a % m
<1> SUFFICES ASSUME NEW a \in Int, NEW k \in Int, NEW m \in Nat \ {0}
             PROVE  (a - k * m) % m = a % m
  OBVIOUS
<1>1. PICK q \in Int, r \in Int :
        r \in 0..(m - 1) /\ a = q * m + r /\ a % m = r
  BY RemainderOf, Zenon
<1> DEFINE b == a - k * m
<1>2. b \in Int /\ q - k \in Int /\ b = (q - k) * m + r
  BY <1>1
<1> HIDE DEF b
<1>3. b % m = r
  BY <1>1, <1>2, Division
<1> QED
  BY <1>1, <1>3, Zenon DEF b

\* The time wraps around by whole bits, and so by an even number of ticks.
LEMMA Wraps ==
    /\ \E w \in Int : Wrap = w * (2 * UartPeriod)
    /\ \E w \in Int : Wrap = w * 2
<1>1. Wrap \in Int /\ 2 * UartPeriod \in Nat \ {0, 1} /\ Wrap % (2 * UartPeriod) = 0
  BY PeriodAssumption, Periods
<1> DEFINE m == 2 * UartPeriod
<1> HIDE DEF m
<1>2. PICK w \in Int, r \in Int : Wrap = w * m + r /\ Wrap % m = r
  <2>1. m \in Nat \ {0}
    BY <1>1 DEF m
  <2> QED
    BY <1>1, <2>1, RemainderOf, Zenon
<1>3. Wrap % m = 0 /\ m \in Nat
  BY <1>1 DEF m
<1>4. Wrap = w * m
  BY <1>2, <1>3
<1>5. Wrap = w * (2 * UartPeriod)
  BY <1>4, Zenon DEF m
<1>6. w * (2 * UartPeriod) = (w * UartPeriod) * 2 /\ w * UartPeriod \in Int
  BY Periods
<1> QED
  BY <1>5, <1>6

\* The rest of the time since s, a tick later.
LEMMA RestTicks ==
    ASSUME NEW m \in Nat \ {0, 1}, NEW w \in Int, Wrap = w * m,
           t \in Nat, NEW s \in Int, NEW u, u = Tick
    PROVE  /\ (t - s) % m = m - 1 => (u - s) % m = 0
           /\ (t - s) % m # m - 1 => (u - s) % m = ((t - s) % m) + 1
<1> DEFINE a == t - s
           b == a + 1
<1>1. a \in Int /\ b \in Int
  OBVIOUS
<1>2. u - s = b \/ u - s = b - w * m
  <2>1. Horizon \in Nat /\ Wrap \in Nat
    BY PeriodAssumption
  <2>2. u = t + 1 \/ (t = Horizon + Wrap /\ u = Horizon + 1)
    BY Zenon DEF Tick
  <2> QED
    BY <2>1, <2>2
<1>3. /\ a % m = m - 1 => b % m = 0
      /\ a % m # m - 1 => b % m = (a % m) + 1
  <2> HIDE DEF a
  <2> QED
    BY <1>1, RestLater
<1> HIDE DEF b
<1>4. (u - s) % m = b % m
  <2>1. (b - w * m) % m = b % m
    BY <1>1, RestWithout
  <2> QED
    BY <1>2, <2>1, Zenon
<1> QED
  BY <1>3, <1>4, Zenon DEF a

\* A tick moves the phase by one, and r clocks into a bit become the next.
LEMMA PhaseTicks ==
    ASSUME t \in Nat, NEW u, u = Tick, NEW s \in Int, NEW r \in 0..(UartPeriod - 1),
           Phase(s) = 2 * r + (t % 2)
    PROVE  /\ u % 2 = 1 => (u - s) % (2 * UartPeriod) = 2 * r + 1
           /\ u % 2 # 1 => /\ r = UartPeriod - 1 => (u - s) % (2 * UartPeriod) = 0
                           /\ r # UartPeriod - 1 => (u - s) % (2 * UartPeriod) = 2 * (r + 1)
<1> DEFINE m == 2 * UartPeriod
           p == (t - s) % m
           q == (u - s) % m
           x == t % 2
           y == u % 2
<1>1. (p = m - 1 => q = 0) /\ (p # m - 1 => q = p + 1)
  <2>1. PICK w \in Int : Wrap = w * m
    BY Wraps
  <2>2. m \in Nat \ {0, 1}
    BY Periods
  <2> HIDE DEF m
  <2> QED
    BY <2>1, <2>2, RestTicks
<1>2. (x = 1 => y = 0) /\ (x # 1 => y = x + 1)
  <2> DEFINE two == 2
             zero == 0
  <2>1. PICK w \in Int : Wrap = w * two
    BY Wraps
  <2>2. two \in Nat \ {0, 1} /\ zero \in Int
    OBVIOUS
  <2>3. t - zero = t /\ u - zero = u
    BY PeriodAssumption DEF Tick
  <2>4. two - 1 = 1
    OBVIOUS
  <2> HIDE DEF two, zero
  <2>5. /\ (t - zero) % two = two - 1 => (u - zero) % two = 0
        /\ (t - zero) % two # two - 1 => (u - zero) % two = ((t - zero) % two) + 1
    BY <2>1, <2>2, RestTicks
  <2> QED
    BY <2>3, <2>4, <2>5, Zenon DEF two
<1>3. p = 2 * r + x
  BY DEF Phase
<1>4. x \in 0..1
  BY Remainder
<1> HIDE DEF m, p, q, x, y
<1>5. /\ y = 1 => q = 2 * r + 1
      /\ y # 1 => /\ r = UartPeriod - 1 => q = 0
                  /\ r # UartPeriod - 1 => q = 2 * (r + 1)
  BY <1>1, <1>2, <1>3, <1>4, Periods DEF m
<1> QED
  BY <1>5, Zenon DEF q, y, m

\* Products of a period.
LEMMA Products ==
    \A n, k \in Int :
        /\ n * UartPeriod \in Int
        /\ (n + 1) * UartPeriod = n * UartPeriod + UartPeriod
        /\ n <= k => n * UartPeriod <= k * UartPeriod
<1> SUFFICES ASSUME NEW n \in Int, NEW k \in Int
             PROVE  /\ n * UartPeriod \in Int
                    /\ (n + 1) * UartPeriod = n * UartPeriod + UartPeriod
                    /\ n <= k => n * UartPeriod <= k * UartPeriod
  OBVIOUS
<1>1. n * UartPeriod \in Int /\ (n + 1) * UartPeriod = n * UartPeriod + UartPeriod
  BY Periods
<1>2. ASSUME n <= k
      PROVE  n * UartPeriod <= k * UartPeriod
  <2>1. k - n \in Nat
    BY <1>2
  <2>2. (k - n) * UartPeriod \in Nat
    BY <2>1, Periods
  <2>3. (k - n) * UartPeriod = k * UartPeriod - n * UartPeriod
    BY Periods
  <2> QED
    BY <1>1, <2>2, <2>3, Periods
<1> QED
  BY <1>1, <1>2

\* The clocks of a frame, one after the other.
LEMMA AtFacts ==
    ASSUME NEW n \in 0..(Bits + 1), NEW r \in 0..(UartPeriod - 1)
    PROVE  /\ At(n, r) \in Nat /\ At(n, r) < Clocks
           /\ At(n, r) = 0 <=> n = 0 /\ r = 0
           /\ r = UartPeriod - 1 => At(n, r) + 1 = At(n + 1, 0)
           /\ r # UartPeriod - 1 => At(n, r) + 1 = At(n, r + 1)
           /\ At(n, r) + 1 = Clocks <=> n = Bits + 1 /\ r = UartPeriod - 1
           /\ At(n, r) % UartPeriod = r /\ At(n, r) \div UartPeriod = n
<1> DEFINE x == n * UartPeriod
           y == (n + 1) * UartPeriod
           z == (Bits + 1) * UartPeriod
<1>1. /\ x \in Int /\ y = x + UartPeriod
      /\ z \in Int /\ Clocks = z + UartPeriod
      /\ x <= z /\ (n # Bits + 1 => y <= z)
      /\ x >= 0 /\ (n # 0 => x >= UartPeriod)
  <2>1. Bits + 1 \in Int /\ n \in Int /\ n + 1 \in Int /\ 0 \in Int /\ 1 \in Int
    BY Periods
  <2>2. x \in Int /\ y = x + UartPeriod /\ z \in Int
    BY <2>1, Products
  <2>3. Clocks = z + UartPeriod
    <3>1. (Bits + 1) + 1 = Bits + 2
      BY Periods
    <3>2. ((Bits + 1) + 1) * UartPeriod = z + UartPeriod
      BY <2>1, Products
    <3> QED
      BY <3>1, <3>2 DEF Clocks
  <2>4. x <= z
    BY <2>1, Products
  <2>5. n # Bits + 1 => n + 1 <= Bits + 1
    BY <2>1
  <2>6. n + 1 <= Bits + 1 => y <= z
    <3> DEFINE a == n + 1
               b == Bits + 1
    <3>1. a \in Int /\ b \in Int
      BY <2>1
    <3> HIDE DEF a, b
    <3>2. a <= b => a * UartPeriod <= b * UartPeriod
      BY <3>1, Products
    <3> QED
      BY <3>2, Zenon DEF a, b
  <2>7. 0 * UartPeriod = 0 /\ 1 * UartPeriod = UartPeriod
    BY Periods
  <2>8. 0 <= n => 0 * UartPeriod <= x
    BY <2>1, Products
  <2>9. 1 <= n => 1 * UartPeriod <= x
    BY <2>1, Products
  <2> HIDE DEF x, y, z
  <2> QED
    BY <2>1, <2>2, <2>3, <2>4, <2>5, <2>6, <2>7, <2>8, <2>9
<1>2. At(n, r) = x + r
  BY Zenon DEF At
<1>3. At(n + 1, 0) = y /\ At(n, r + 1) = x + (r + 1)
  <2>1. At(n + 1, 0) = y + 0 /\ At(n, r + 1) = x + (r + 1)
    BY Zenon DEF At
  <2>2. y \in Int
    BY <1>1, Periods
  <2> HIDE DEF x, y
  <2> QED
    BY <2>1, <2>2
<1>4. At(n, r) % UartPeriod = r /\ At(n, r) \div UartPeriod = n
  <2> DEFINE a == At(n, r)
  <2>1. a = n * UartPeriod + r /\ a \in Int /\ n \in Int /\ r \in Int
    BY <1>1 DEF At
  <2>2. UartPeriod \in Nat \ {0}
    BY Periods
  <2> HIDE DEF a
  <2> QED
    BY <2>1, <2>2, Division DEF a
<1> HIDE DEF x, y, z
<1>5. At(n, r) \in Nat /\ At(n, r) < Clocks
  BY <1>1, <1>2, Periods
<1>6. At(n, r) = 0 <=> n = 0 /\ r = 0
  <2>1. n = 0 => x = 0
    BY Periods DEF x
  <2> QED
    BY <1>1, <1>2, <2>1, Periods
<1>7. /\ r = UartPeriod - 1 => At(n, r) + 1 = At(n + 1, 0)
      /\ r # UartPeriod - 1 => At(n, r) + 1 = At(n, r + 1)
  BY <1>1, <1>2, <1>3, Periods
<1>8. At(n, r) + 1 = Clocks <=> n = Bits + 1 /\ r = UartPeriod - 1
  <2>1. n = Bits + 1 => x = z
    BY DEF x, z
  <2> QED
    BY <1>1, <1>2, <2>1, Periods
<1> QED
  BY <1>4, <1>5, <1>6, <1>7, <1>8, Zenon

\* The level of a frame's next clock is that of the bit it belongs to.
LEMMA FrameLevel ==
    ASSUME NEW byte \in Bytes, NEW n \in 0..(Bits + 1), NEW r \in 0..(UartPeriod - 1)
    PROVE  Frame(byte)[At(n, r) + 1] = BitOf(byte, n)
<1> DEFINE k == At(n, r) + 1
<1>1. k \in 1..Clocks /\ k - 1 = At(n, r)
  BY AtFacts, ClocksType
<1>2. At(n, r) \div UartPeriod = n
  BY AtFacts
<1>3. (k - 1) \div UartPeriod = n
  BY <1>1, <1>2, Zenon
<1> HIDE DEF k
<1>4. Frame(byte)[k] = LET bit == (k - 1) \div UartPeriod
                       IN  IF bit = 0 THEN 0 ELSE IF bit <= Bits THEN byte[bit] ELSE 1
  BY <1>1, FrameType
<1>5. Frame(byte)[k] = BitOf(byte, n)
  BY <1>3, <1>4, Zenon DEF BitOf
<1> QED
  BY <1>5, Zenon DEF k

\* A byte bit by bit.
LEMMA ByteParts ==
    ASSUME NEW byte \in Bytes
    PROVE  /\ byte \in Seq({0, 1}) /\ Len(byte) = Bits
           /\ Upto(byte, 0) = <<>> /\ Past(byte, 0) = byte
           /\ Upto(byte, Bits) = byte /\ Past(byte, Bits) = <<>>
<1>1. byte \in Seq({0, 1}) /\ Len(byte) = Bits
  BY FrameAssumption, Periods
<1>2. Upto(byte, 0) = <<>> /\ Past(byte, 0) = byte
  BY <1>1 DEF Upto, Past
<1>3. Upto(byte, Bits) = byte /\ Past(byte, Bits) = <<>>
  BY <1>1 DEF Upto, Past
<1> QED
  BY <1>1, <1>2, <1>3

\* The next bit of a byte ends what was sent, and begins what was not.
LEMMA ByteBits ==
    ASSUME NEW byte \in Bytes, NEW n \in 0..(Bits - 1)
    PROVE  /\ byte[n + 1] \in {0, 1}
           /\ Append(Upto(byte, n), byte[n + 1]) = Upto(byte, n + 1)
           /\ Len(Upto(byte, n + 1)) = n + 1
           /\ Past(byte, n) # <<>>
           /\ Head(Past(byte, n)) = byte[n + 1]
           /\ Tail(Past(byte, n)) = Past(byte, n + 1)
           /\ Past(byte, n + 1) = <<>> <=> n + 1 = Bits
<1>1. byte \in Seq({0, 1}) /\ Len(byte) = Bits /\ n + 1 \in 1..Bits
  BY ByteParts, Periods
<1>2. byte[n + 1] \in {0, 1}
  BY <1>1
<1>3. /\ Append(Upto(byte, n), byte[n + 1]) = Upto(byte, n + 1)
      /\ Len(Upto(byte, n + 1)) = n + 1
  BY <1>1 DEF Upto
<1>4. /\ Past(byte, n) # <<>>
      /\ Head(Past(byte, n)) = byte[n + 1]
      /\ Tail(Past(byte, n)) = Past(byte, n + 1)
  BY <1>1 DEF Past
<1>5. Past(byte, n + 1) = <<>> <=> n + 1 = Bits
  <2>1. Past(byte, n + 1) \in Seq({0, 1}) /\ Len(Past(byte, n + 1)) = Bits - (n + 1)
    BY <1>1, Cut DEF Past
  <2>2. Past(byte, n + 1) = <<>> <=> Len(Past(byte, n + 1)) = 0
    BY <2>1
  <2> QED
    BY <1>1, <2>1, <2>2
<1> QED
  BY <1>2, <1>3, <1>4, <1>5

\* What an iteration does with the UART: nothing at odd ticks, and only the
\* target's side as long as the server does not run.
LEMMA UartIterates ==
    ASSUME TypeOK, service = "uart", Iterate
    PROVE  /\ process = "runs" /\ UNCHANGED <<process, running, service>>
           /\ t \in Nat /\ t' = Tick /\ t' \in Nat \ {0}
           /\ t' % 2 = 1 => UNCHANGED <<uartTarget, uartVars, served, answered>>
           /\ t' % 2 # 1 => /\ t' % 2 = 0 /\ Say /\ Hear
                            /\ clean' = (clean /\ (running \/ line' = <<>>))
           /\ t' % 2 # 1 /\ ~running => UNCHANGED <<uartVars, served, answered>>
           /\ t' % 2 # 1 /\ running =>
                /\ Transmit(t', level') /\ ReceiveBits(t')
                /\ answered' = IF Queued(t') THEN Append(answered, rxc) ELSE answered
                /\ served' = IF Taking(t') THEN Append(served, Head(tx)) ELSE served
<1> DEFINE resetn == t' > ResetTime \/ PORESETn
<1>1. /\ process = "runs" /\ t' = Tick
      /\ UNCHANGED <<process, running, options>>
      /\ Eval(t', resetn) /\ Serve(t', resetn, level', outputs')
  BY Zenon DEF Iterate, DoCycle
<1>2. service' = service
  BY <1>1, Zenon DEF options
<1>3. t \in Nat /\ t' \in Nat \ {0}
  BY <1>1, PeriodAssumption DEF Tick, TypeOK, PeerType
<1> HIDE DEF resetn
<1>4. t' % 2 \in {0, 1}
  <2>1. \A a \in Nat : a % 2 \in {0, 1}
    OBVIOUS
  <2> QED
    BY <1>3, <2>1, Zenon
<1>5. DoUARTServer(t', level')
  BY <1>1, Zenon DEF Serve
<1>6. t' % 2 = 1 => UNCHANGED <<uartTarget, uartVars, served, answered>>
  <2>1. t' % 2 = 1 => UNCHANGED <<uartVars, served, answered>>
    BY <1>5, Zenon DEF DoUARTServer, simulation
  <2>2. t' % 2 = 1 => UNCHANGED uartTarget
    <3>1. 1 # 0
      OBVIOUS
    <3> QED
      BY <1>1, <3>1, Zenon DEF Eval
  <2> QED
    BY <2>1, <2>2, Zenon
<1>7. ASSUME t' % 2 # 1
      PROVE  /\ t' % 2 = 0 /\ Say /\ Hear
             /\ clean' = (clean /\ (running \/ line' = <<>>))
  <2>1. t' % 2 = 0
    BY <1>4, <1>7
  <2> QED
    BY <1>1, <2>1, Zenon DEF Eval
<1>8. ASSUME t' % 2 # 1, ~running
      PROVE  UNCHANGED <<uartVars, served, answered>>
  BY <1>5, <1>8, Zenon DEF DoUARTServer, simulation
<1>9. ASSUME t' % 2 # 1, running
      PROVE  /\ Transmit(t', level') /\ ReceiveBits(t')
             /\ answered' = IF Queued(t') THEN Append(answered, rxc) ELSE answered
             /\ served' = IF Taking(t') THEN Append(served, Head(tx)) ELSE served
  <2> DEFINE n == IF Taking(t') THEN 1 ELSE 0
             a == IF Queued(t') THEN <<rxc>> ELSE <<>>
  <2>1. Transmit(t', level') /\ ReceiveBits(t') /\ Exchange(n, a)
    BY <1>5, <1>9, Zenon DEF DoUARTServer
  <2>2. /\ tx \in Seq(Command) /\ served \in Seq(Command)
        /\ answered \in Seq(Answer) /\ rxc \in Answer
    BY DEF TypeOK, ServerType, PeerType, Answer
  <2>3. served' = served \o SubSeq(tx, 1, n) /\ answered' = answered \o a
    BY <2>1, Zenon DEF Exchange
  <2>4. answered' = IF Queued(t') THEN Append(answered, rxc) ELSE answered
    <3>1. Queued(t') => answered' = answered \o <<rxc>>
      BY <2>3, Zenon
    <3>2. ~Queued(t') => answered' = answered \o <<>>
      BY <2>3, Zenon
    <3>3. answered \o <<rxc>> = Append(answered, rxc) /\ answered \o <<>> = answered
      BY <2>2
    <3> QED
      BY <3>1, <3>2, <3>3, Zenon
  <2>5. served' = IF Taking(t') THEN Append(served, Head(tx)) ELSE served
    <3>1. Taking(t') => served' = served \o SubSeq(tx, 1, 1) /\ tx # <<>>
      BY <2>3, Zenon DEF Taking
    <3>2. ~Taking(t') => served' = served \o SubSeq(tx, 1, 0)
      BY <2>3, Zenon
    <3>3. ASSUME tx # <<>>
          PROVE  SubSeq(tx, 1, 1) = <<Head(tx)>> /\ Head(tx) \in Command
      <4>1. Len(tx) >= 1 /\ Head(tx) = tx[1] /\ tx[1] \in Command
        BY <2>2, <3>3
      <4> DEFINE y == SubSeq(tx, 1, 1)
      <4>2. y \in Seq(Command) /\ Len(y) = 1 /\ y[1] = tx[1]
        BY <2>2, <4>1, SubSeqProperties
      <4> HIDE DEF y
      <4>3. y = <<y[1]>>
        BY <4>2
      <4> QED
        BY <4>1, <4>2, <4>3, Zenon DEF y
    <3>4. SubSeq(tx, 1, 0) = <<>>
      BY <2>2
    <3>5. served \o <<>> = served /\ (tx # <<>> => served \o <<Head(tx)>> = Append(served, Head(tx)))
      BY <2>2, <3>3
    <3> QED
      BY <3>1, <3>2, <3>3, <3>4, <3>5, Zenon
  <2> QED
    BY <2>1, <2>4, <2>5, Zenon
<1> QED
  BY <1>1, <1>2, <1>3, <1>6, <1>7, <1>8, <1>9, Zenon

\* Any other step leaves the UART alone, and does not undo that the server
\* runs as long as the simulation does.
LEMMA UartRests ==
    ASSUME TypeOK, ThreadFollowed, service = "uart", [Next]_vars
    PROVE  \/ Iterate
           \/ /\ UNCHANGED <<uartVars, uartTarget, served, answered, service>>
              /\ process' = "runs" => process = "runs" /\ t' = t /\ (running => running')
<1>0. service' = service
  BY Fixed
<1> DEFINE rest == UNCHANGED <<uartVars, uartTarget, served, answered>>
           on == process' = "runs" => process = "runs" /\ t' = t /\ (running => running')
<1>1. CASE Parse
  BY <1>0, <1>1, Zenon DEF Parse, Start, utils, target, simulation
<1>2. CASE Leave
  BY <1>0, <1>2 DEF Leave, target, simulation
<1>3. CASE Delete
  BY <1>0, <1>3 DEF Delete, Destroy, Joined, target, simulation
<1>4. CASE Exit
  BY <1>0, <1>4 DEF Exit, target, simulation
<1>5. CASE ServerThread
  <2>1. Listen /\ t' = t /\ UNCHANGED <<uartVars, uartTarget>>
    BY <1>5, Zenon DEF ServerThread, utils, target
  <2>2. UNCHANGED <<served, answered>>
    BY <2>1, Zenon DEF Listen, SetRunning, OpenSocket, ListenSocket, Accept, AcceptFails, Read,
                       ReadNothing, ReadEnd, Flush, Done, simulation
  <2>3. on
    BY <2>1 DEF Listen, SetRunning, OpenSocket, ListenSocket, Accept, AcceptFails, Read,
                ReadNothing, ReadEnd, Flush, Done, ThreadFollowed
  <2> QED
    BY <1>0, <2>1, <2>2, <2>3, Zenon
<1>6. CASE Client
  <2>1. UNCHANGED simulationVars \/ GpioPeerPins
    BY <1>6, Zenon DEF Client, Dial, JtagPeer, Openocd, Host, GpioPeer
  <2>2. UNCHANGED <<uartVars, uartTarget, t>>
    BY <2>1, Zenon DEF GpioPeerPins, simulationVars, utils, target
  <2>3. Connects \/ Sends \/ Receives \/ Closes \/ Breaks \/ UNCHANGED serverVars
    BY <1>6, ClientMoves, Zenon
  <2>4. UNCHANGED <<served, answered, process, running>>
    BY <2>3, Zenon DEF Connects, Sends, Receives, Closes, Breaks, Connect, Send, Receive, Close,
                       serverVars, simulation
  <2> QED
    BY <1>0, <2>2, <2>4, Zenon
<1>7. CASE UNCHANGED vars
  BY <1>0, <1>7, Zenon DEF vars, serverVars, utils, target, simulation
<1> QED
  BY <1>1, <1>2, <1>3, <1>4, <1>5, <1>6, <1>7, Zenon DEF Next, Main

\* A clock that is not a frame's last has a next one.
LEMMA NextClock ==
    ASSUME NEW n \in 0..(Bits + 1), NEW r \in 0..(UartPeriod - 1),
           ~(n = Bits + 1 /\ r = UartPeriod - 1)
    PROVE  \E m \in 0..(Bits + 1), q \in 0..(UartPeriod - 1) :
              /\ At(m, q) = At(n, r) + 1
              /\ r = UartPeriod - 1 => m = n + 1 /\ q = 0
              /\ r # UartPeriod - 1 => m = n /\ q = r + 1
<1>1. /\ r = UartPeriod - 1 => At(n, r) + 1 = At(n + 1, 0)
      /\ r # UartPeriod - 1 => At(n, r) + 1 = At(n, r + 1)
  BY AtFacts
<1>2. CASE r = UartPeriod - 1
  <2>1. n + 1 \in 0..(Bits + 1) /\ 0 \in 0..(UartPeriod - 1)
    BY <1>2, Periods
  <2> QED
    BY <1>1, <1>2, <2>1, Zenon
<1>3. CASE r # UartPeriod - 1
  <2>1. r + 1 \in 0..(UartPeriod - 1)
    BY <1>3, Periods
  <2> QED
    BY <1>1, <1>3, <2>1, Zenon
<1> QED
  BY <1>2, <1>3, Zenon

\* What is left of a frame begins with its bit's level, ...
LEMMA RestLevel ==
    ASSUME NEW byte \in Bytes, NEW n \in 0..(Bits + 1), NEW r \in 0..(UartPeriod - 1),
           NEW x \in Seq({0, 1}), IsRest(x, byte, n, r)
    PROVE  Head(x) = BitOf(byte, n) /\ Len(x) >= 1 /\ x # <<>>
<1>1. At(n, r) \in Nat /\ At(n, r) < Clocks /\ Clocks \in Nat
  BY AtFacts, ClocksType
<1>2. Len(x) >= 1 /\ x # <<>> /\ Head(x) = x[1]
  BY <1>1 DEF IsRest
<1>3. x[1] = Frame(byte)[At(n, r) + 1]
  BY <1>2 DEF IsRest
<1> QED
  BY <1>2, <1>3, FrameLevel, Zenon

\* ... is all of it before the first clock, ...
LEMMA RestBegins ==
    ASSUME NEW byte \in Bytes
    PROVE  IsRest(Frame(byte), byte, 0, 0)
<1>1. At(0, 0) = 0
  BY Periods DEF At
<1>2. Len(Frame(byte)) = Clocks /\ Clocks \in Nat
  BY FrameType, ClocksType
<1>3. Clocks - 0 = Clocks /\ \A k \in 1..Clocks : 0 + k = k
  BY <1>2
<1> QED
  BY <1>1, <1>2, <1>3, Zenon DEF IsRest

\* ... and loses one level a clock.
LEMMA RestGoesOn ==
    ASSUME NEW byte \in Bytes,
           NEW n \in 0..(Bits + 1), NEW r \in 0..(UartPeriod - 1),
           NEW m \in 0..(Bits + 1), NEW q \in 0..(UartPeriod - 1),
           At(m, q) = At(n, r) + 1,
           NEW x \in Seq({0, 1}), IsRest(x, byte, n, r)
    PROVE  Tail(x) \in Seq({0, 1}) /\ IsRest(Tail(x), byte, m, q)
<1> DEFINE a == At(n, r)
           b == At(m, q)
           y == Tail(x)
<1>1. a \in Nat /\ Clocks \in Nat /\ Len(x) >= 1 /\ x # <<>>
  BY AtFacts, ClocksType, RestLevel
<1>2. /\ y \in Seq({0, 1}) /\ Len(y) = Len(x) - 1
      /\ \A k \in 1..Len(y) : y[k] = x[k + 1]
  BY <1>1
<1>3. b = a + 1 /\ Len(x) = Clocks - a
  BY DEF IsRest
<1>4. \A k \in 1..Len(x) : x[k] = Frame(byte)[a + k]
  BY Zenon DEF IsRest
<1> HIDE DEF a, b, y
<1>5. Len(y) = Clocks - b
  BY <1>1, <1>2, <1>3
<1>6. ASSUME NEW k \in 1..Len(y)
      PROVE  y[k] = Frame(byte)[b + k]
  <2>1. k + 1 \in 1..Len(x) /\ a + (k + 1) = b + k
    BY <1>1, <1>2, <1>3, <1>6
  <2>2. x[k + 1] = Frame(byte)[a + (k + 1)]
    BY <1>4, <2>1, Zenon
  <2> QED
    BY <1>2, <1>6, <2>1, <2>2, Zenon
<1> QED
  BY <1>2, <1>5, <1>6, Zenon DEF IsRest, b, y

\* The server's side of the frame, at an even tick.
TxStep ==
    /\ Transmit(t', level')
    /\ answered' = IF Queued(t') THEN Append(answered, rxc) ELSE answered

\* Between frames it waits for a start bit.
LEMMA TxWaits ==
    ASSUME TxIdling, TxStep
    PROVE  /\ answered' = answered /\ rxc' = <<>>
           /\ level' # 0 => tx_state' = "IDLE" /\ tx_start' = 0
           /\ level' = 0 => tx_state' = "DATA" /\ tx_start' = t'
<1>1. tx_state = "IDLE" /\ tx_start = 0 /\ rxc = <<>>
  BY Zenon DEF TxIdling
<1>2. BitDue(tx_start, t') /\ ~Queued(t')
  BY <1>1 DEF BitDue, Queued
<1>3. TxIdle(t', level')
  <2>1. TxIdle(t', level') \/ TxData(level') \/ TxStop
    BY <1>2, Zenon DEF TxStep, Transmit
  <2> QED
    BY <1>1, <2>1 DEF TxData, TxStop
<1> QED
  BY <1>1, <1>2, <1>3 DEF TxIdle, TxStep

\* The phase at the start of a frame.
LEMMA PhaseStarts ==
    ASSUME t' \in Nat \ {0}, t' % 2 = 0, NEW s, s = t'
    PROVE  (t' - s) % (2 * UartPeriod) = 2 * 0 + (t' % 2)
<1> DEFINE m == 2 * UartPeriod
           z == t' - s
<1>1. z = 0 /\ z \in Int /\ m \in Nat \ {0}
  <2>1. \A a \in Nat \ {0} : a - a = 0
    OBVIOUS
  <2>2. z = 0
    BY <2>1, Zenon
  <2>3. m \in Nat \ {0}
    BY Periods
  <2> HIDE DEF m, z
  <2> QED
    BY <2>2, <2>3
<1>2. z = 0 * m + 0 /\ 0 \in 0..(m - 1) /\ 0 \in Int
  BY <1>1
<1> HIDE DEF m, z
<1>3. z % m = 0
  BY <1>1, <1>2, Division
<1>4. z % m = 2 * 0 + 0
  BY <1>3
<1> QED
  BY <1>4, Zenon DEF m, z

\* With it a frame begins, ...
LEMMA TxBegins ==
    ASSUME TxIdling, TxStep, t' \in Nat \ {0}, t' % 2 = 0,
           NEW b \in Bytes, line' = Frame(b), said' = Append(said, b)
    PROVE  TxBusy(b, 0, 0)'
<1>1. IsRest(line', b, 0, 0)
  BY RestBegins
<1>2. level' = 0
  <2>1. /\ Frame(b) \in Seq({0, 1})
        /\ 0 \in 0..(Bits + 1) /\ 0 \in 0..(UartPeriod - 1)
    BY FrameType, Periods
  <2>2. Head(Frame(b)) = BitOf(b, 0) /\ Frame(b) # <<>>
    BY <2>1, RestBegins, RestLevel
  <2> QED
    BY <2>2, Zenon DEF BitOf, level
<1>3. /\ answered' = answered /\ rxc' = <<>> /\ tx_state' = "DATA" /\ tx_start' = t'
      /\ answered = said
  BY <1>2, TxWaits, Zenon DEF TxIdling
<1>4. (t' - tx_start') % (2 * UartPeriod) = 2 * 0 + (t' % 2)
  BY <1>3, PhaseStarts
<1>5. Upto(b, 0) = <<>> /\ 0 <= Bits /\ 0 < Bits
  BY ByteParts, Periods
<1>6. said' = Append(answered', b)
  BY <1>3, Zenon
<1>7. tx_start' # 0
  BY <1>3
<1> QED
  BY <1>1, <1>3, <1>4, <1>5, <1>6, <1>7, Zenon DEF TxBusy, Phase

\* ... and goes on by a clock.
LEMMA TxGoesOn ==
    ASSUME TypeOK, UartTypes, service = "uart", TxStep, t' = Tick, t' % 2 = 0,
           NEW byte \in Bytes, NEW n \in 0..(Bits + 1), NEW r \in 0..(UartPeriod - 1),
           TxBusy(byte, n, r), ~(n = Bits + 1 /\ r = UartPeriod - 1),
           line' = Tail(line), said' = said
    PROVE  \E m \in 0..(Bits + 1), q \in 0..(UartPeriod - 1) : TxBusy(byte, m, q)'
<1>1. PICK m \in 0..(Bits + 1), q \in 0..(UartPeriod - 1) :
        /\ At(m, q) = At(n, r) + 1
        /\ r = UartPeriod - 1 => m = n + 1 /\ q = 0
        /\ r # UartPeriod - 1 => m = n /\ q = r + 1
  BY NextClock
<1>2. line \in Seq({0, 1}) /\ t \in Nat /\ tx_start \in Int
  BY DEF TypeOK, PeerType, UartTypes
<1>3. line' \in Seq({0, 1}) /\ IsRest(line', byte, m, q)
  BY <1>1, <1>2, RestGoesOn, Zenon DEF TxBusy
<1>4. level' = BitOf(byte, m)
  <2>1. Head(line') = BitOf(byte, m) /\ line' # <<>>
    BY <1>3, RestLevel, Zenon
  <2> QED
    BY <2>1, Zenon DEF level
<1>5. CASE n <= Bits
  <2>1. /\ tx_state = IF n < Bits THEN "DATA" ELSE "STOP"
        /\ tx_start # 0 /\ Phase(tx_start) = 2 * r + (t % 2)
        /\ rxc = Upto(byte, n)
        /\ said = Append(answered, byte)
    BY <1>5, Zenon DEF TxBusy
  <2> DEFINE u == t'
             p == (u - tx_start) % (2 * UartPeriod)
  <2>2. /\ r = UartPeriod - 1 => p = 0
        /\ r # UartPeriod - 1 => p = 2 * (r + 1)
    <3>1. u = Tick /\ u % 2 # 1
      OBVIOUS
    <3> HIDE DEF u
    <3> QED
      BY <1>2, <2>1, <3>1, PhaseTicks, Zenon
  <2>3. BitDue(tx_start, t') <=> p = 0
    BY <2>1, Zenon DEF BitDue
  <2> HIDE DEF p
  <2>4. CASE r # UartPeriod - 1
    <3>1. ~BitDue(tx_start, t')
      BY <2>2, <2>3, <2>4
    <3>2. UNCHANGED <<tx_state, tx_start, rxc, answered>>
      BY <3>1, Zenon DEF TxStep, Transmit, Queued
    <3>3. m = n /\ q = r + 1 /\ (t' - tx_start') % (2 * UartPeriod) = 2 * q + (t' % 2)
      <4>1. m = n /\ q = r + 1 /\ p = 2 * q
        BY <1>1, <2>2, <2>4, Zenon
      <4>2. 2 * q = 2 * q + 0
        BY Periods
      <4> QED
        BY <3>2, <4>1, <4>2, Zenon DEF p
    <3>4. TxBusy(byte, m, q)'
      BY <1>3, <1>5, <2>1, <3>2, <3>3, Zenon DEF TxBusy, Phase
    <3> QED
      BY <3>4
  <2>5. CASE r = UartPeriod - 1
    <3>1. BitDue(tx_start, t') /\ m = n + 1 /\ q = 0
      BY <1>1, <2>2, <2>3, <2>5, Zenon
    <3>2. TxIdle(t', level') \/ TxData(level') \/ TxStop
      BY <3>1, Zenon DEF TxStep, Transmit
    <3>3. CASE n < Bits
      <4>1. tx_state = "DATA"
        BY <2>1, <3>3, Zenon
      <4>2. TxData(level') /\ answered' = answered
        BY <3>2, <4>1 DEF TxIdle, TxStop, TxStep, Queued
      <4>3. n \in 0..(Bits - 1) /\ m # 0 /\ m <= Bits /\ (m < Bits <=> m # Bits)
        BY <3>1, <3>3, Periods
      <4>4. level' = byte[m]
        BY <1>4, <4>3, Zenon DEF BitOf
      <4>5. rxc' = Upto(byte, m) /\ Len(rxc') = m
        BY <2>1, <3>1, <4>2, <4>3, <4>4, ByteBits, Zenon DEF TxData
      <4>6. tx_state' = (IF m < Bits THEN "DATA" ELSE "STOP") /\ tx_start' = tx_start
        BY <4>2, <4>3, <4>5, Zenon DEF TxData
      <4>7. (t' - tx_start') % (2 * UartPeriod) = 2 * q + (t' % 2)
        <5>1. p = 0 /\ 2 * q + 0 = 0
          BY <2>2, <2>5, <3>1
        <5> QED
          BY <4>6, <5>1, Zenon DEF p
      <4>8. TxBusy(byte, m, q)'
        BY <1>3, <2>1, <4>2, <4>3, <4>5, <4>6, <4>7, Zenon DEF TxBusy, Phase
      <4> QED
        BY <4>8
    <3>4. CASE ~(n < Bits)
      <4>1. n = Bits /\ tx_state = "STOP" /\ m = Bits + 1 /\ ~(m <= Bits)
        BY <1>5, <2>1, <3>1, <3>4, Periods
      <4>2. TxStop /\ answered' = Append(answered, rxc)
        BY <3>1, <3>2, <4>1 DEF TxIdle, TxData, TxStep, Queued
      <4>3. rxc = byte
        BY <2>1, <4>1, ByteParts, Zenon
      <4>4. TxIdling'
        BY <2>1, <4>2, <4>3, Zenon DEF TxStop, TxIdling
      <4>5. TxBusy(byte, m, q)'
        BY <1>3, <4>1, <4>4, Zenon DEF TxBusy
      <4> QED
        BY <4>5
    <3> QED
      BY <3>3, <3>4
  <2> QED
    BY <2>4, <2>5
<1>6. CASE ~(n <= Bits)
  <2>1. n = Bits + 1 /\ m = Bits + 1 /\ ~(m <= Bits) /\ m # 0
    BY <1>1, <1>6, Periods
  <2>2. TxIdling
    BY <1>6, Zenon DEF TxBusy
  <2>3. level' = 1 /\ 1 # 0
    <3>1. 1 # 0
      OBVIOUS
    <3> QED
      BY <1>4, <2>1, <3>1, Zenon DEF BitOf
  <2>4. TxIdling'
    BY <2>2, <2>3, TxWaits DEF TxIdling
  <2>5. TxBusy(byte, m, q)'
    BY <1>3, <2>1, <2>4, Zenon DEF TxBusy
  <2> QED
    BY <2>5
<1> QED
  BY <1>5, <1>6

\* The same when the tick is odd: only the phase moves.
LEMMA PhaseOdd ==
    ASSUME t \in Nat, t' = Tick, t' % 2 = 1, NEW s \in Int, NEW r \in 0..(UartPeriod - 1),
           Phase(s) = 2 * r + (t % 2)
    PROVE  (t' - s) % (2 * UartPeriod) = 2 * r + (t' % 2)
<1> DEFINE u == t'
<1>1. u = Tick /\ u % 2 = 1
  OBVIOUS
<1> HIDE DEF u
<1>2. (u - s) % (2 * UartPeriod) = 2 * r + 1
  BY <1>1, PhaseTicks, Zenon
<1> QED
  BY <1>1, <1>2, Zenon DEF u

\* The bytes said are queued, whatever the step.
LEMMA TxIterates ==
    ASSUME TypeOK, UartTypes, TxFollowed, service = "uart", Iterate
    PROVE  TxFollowed'
<1>1. /\ process = "runs" /\ UNCHANGED <<process, running, service>>
      /\ t \in Nat /\ t' = Tick /\ t' \in Nat \ {0}
      /\ t' % 2 = 1 => UNCHANGED <<uartTarget, uartVars, served, answered>>
      /\ t' % 2 # 1 => /\ t' % 2 = 0 /\ Say
                       /\ clean' = (clean /\ (running \/ line' = <<>>))
      /\ t' % 2 # 1 /\ ~running => UNCHANGED <<uartVars, served, answered>>
      /\ t' % 2 # 1 /\ running => TxStep
  BY UartIterates, Zenon DEF TxStep
<1> SUFFICES ASSUME clean'
             PROVE  (~running' => line' = <<>>) /\ TxSomewhere'
  BY Zenon DEF TxFollowed
<1>2. clean /\ (t' % 2 # 1 => running \/ line' = <<>>)
  BY <1>1, Zenon DEF uartTarget
<1>3. (~running => line = <<>>) /\ TxSomewhere
  BY <1>1, <1>2, Zenon DEF TxFollowed
<1>4. ~running' => line' = <<>>
  BY <1>1, <1>2, <1>3, Zenon DEF uartTarget
<1>5. CASE t' % 2 = 1
  <2>1. UNCHANGED <<line, said, tx_state, tx_start, rxc, answered>>
    BY <1>1, <1>5, Zenon DEF uartTarget, uartVars
  <2>2. TxIdling => TxIdling'
    BY <2>1, Zenon DEF TxIdling
  <2>3. ASSUME NEW byte \in Bytes, NEW n \in 0..(Bits + 1), NEW r \in 0..(UartPeriod - 1),
               TxBusy(byte, n, r)
        PROVE  TxBusy(byte, n, r)'
    <3>1. IsRest(line', byte, n, r)
      BY <2>1, <2>3, Zenon DEF TxBusy
    <3>2. CASE n <= Bits
      <4>1. Phase(tx_start) = 2 * r + (t % 2)
        BY <2>3, <3>2, Zenon DEF TxBusy
      <4>2. tx_start \in Int
        BY DEF UartTypes
      <4>3. (t' - tx_start) % (2 * UartPeriod) = 2 * r + (t' % 2)
        BY <1>1, <1>5, <4>1, <4>2, PhaseOdd
      <4> QED
        BY <2>1, <2>3, <3>1, <3>2, <4>3, Zenon DEF TxBusy, Phase
    <3>3. CASE ~(n <= Bits)
      BY <2>2, <2>3, <3>1, <3>3, Zenon DEF TxBusy
    <3> QED
      BY <3>2, <3>3
  <2> QED
    BY <1>3, <1>4, <2>1, <2>2, <2>3, Zenon DEF TxSomewhere
<1>6. CASE t' % 2 # 1 /\ ~running
  <2>1. /\ line = <<>> /\ line' = <<>>
        /\ UNCHANGED <<tx_state, tx_start, rxc, answered>>
    BY <1>1, <1>2, <1>3, <1>6, Zenon DEF uartVars
  <2>2. TxIdling
    <3>1. ASSUME NEW byte \in Bytes, NEW n \in 0..(Bits + 1), NEW r \in 0..(UartPeriod - 1),
                 TxBusy(byte, n, r)
          PROVE  FALSE
      <4>1. line \in Seq({0, 1})
        BY DEF TypeOK, PeerType
      <4>2. line # <<>>
        BY <3>1, <4>1, RestLevel, Zenon DEF TxBusy
      <4> QED
        BY <2>1, <4>2
    <3> QED
      BY <1>3, <3>1, Zenon DEF TxSomewhere
  <2>3. said' = said
    <3>1. ASSUME NEW b \in Bytes
          PROVE  Frame(b) # <<>>
      <4>1. Frame(b) \in Seq({0, 1}) /\ Len(Frame(b)) = Clocks /\ Clocks \in Nat /\ Clocks > 0
        BY FrameType, ClocksType, Periods
      <4> QED
        BY <4>1
    <3> QED
      BY <1>1, <1>6, <2>1, <3>1, Zenon DEF Say
  <2>4. TxIdling'
    BY <2>1, <2>2, <2>3, Zenon DEF TxIdling
  <2> QED
    BY <1>4, <2>1, <2>4, Zenon DEF TxSomewhere
<1>7. CASE t' % 2 # 1 /\ running
  <2>0. t' % 2 = 0 /\ Say /\ TxStep
    BY <1>1, <1>7, Zenon
  <2>1. ASSUME TxIdling, NEW b \in Bytes, line' = Frame(b), said' = Append(said, b)
        PROVE  TxSomewhere'
    <3>1. TxBusy(b, 0, 0)'
      BY <1>1, <2>0, <2>1, TxBegins
    <3>2. 0 \in 0..(Bits + 1) /\ 0 \in 0..(UartPeriod - 1)
      BY Periods
    <3> QED
      BY <3>1, <3>2, Zenon DEF TxSomewhere
  <2>2. ASSUME TxIdling, line' = <<>>, said' = said
        PROVE  TxSomewhere'
    <3>1. level' = 1 /\ 1 # 0
      BY <2>2 DEF level
    <3> QED
      BY <2>0, <2>2, <3>1, TxWaits, Zenon DEF TxIdling, TxSomewhere
  <2>3. CASE line = <<>> /\ TxIdling
    BY <1>4, <2>0, <2>1, <2>2, <2>3, Zenon DEF Say
  <2>4. ASSUME NEW byte \in Bytes, NEW n \in 0..(Bits + 1), NEW r \in 0..(UartPeriod - 1),
               TxBusy(byte, n, r)
        PROVE  TxSomewhere'
    <3>1. line \in Seq({0, 1}) /\ line # <<>> /\ Len(line) >= 1
      <4>1. line \in Seq({0, 1})
        BY DEF TypeOK, PeerType
      <4> QED
        BY <2>4, <4>1, RestLevel, Zenon DEF TxBusy
    <3>2. Len(line) = Clocks - At(n, r) /\ At(n, r) \in Nat /\ Clocks \in Nat
      BY <2>4, AtFacts, ClocksType, Zenon DEF TxBusy, IsRest
    <3>3. CASE ~(n = Bits + 1 /\ r = UartPeriod - 1)
      <4>1. At(n, r) + 1 # Clocks
        BY <3>3, AtFacts
      <4>2. ~(Len(line) <= 1)
        BY <3>1, <3>2, <4>1, AtFacts
      <4>3. line' = Tail(line) /\ said' = said
        BY <2>0, <3>1, <4>2, Zenon DEF Say
      <4> QED
        BY <1>1, <2>0, <2>4, <3>3, <4>3, TxGoesOn, Zenon DEF TxSomewhere
    <3>4. CASE n = Bits + 1 /\ r = UartPeriod - 1
      <4>1. TxIdling
        <5>1. ~(n <= Bits)
          BY <3>4, Periods
        <5> QED
          BY <2>4, <5>1, Zenon DEF TxBusy
      <4>2. Tail(line) = <<>>
        <5>1. At(n, r) + 1 = Clocks
          BY <3>4, AtFacts
        <5>2. Len(line) = 1
          BY <3>1, <3>2, <5>1
        <5>3. Tail(line) \in Seq({0, 1}) /\ Len(Tail(line)) = 0
          BY <3>1, <5>2
        <5> QED
          BY <5>3, EmptySeq
      <4> QED
        BY <2>0, <2>1, <2>2, <3>1, <4>1, <4>2, Zenon DEF Say
    <3> QED
      BY <3>3, <3>4
  <2> QED
    BY <1>3, <1>4, <2>3, <2>4, Zenon DEF TxSomewhere
<1> QED
  BY <1>5, <1>6, <1>7

\* The middle of a bit is neither its first clock nor after its last.
LEMMA MiddleType == Middle \in 1..(UartPeriod - 1)
<1>1. \A a \in Nat : a > 1 => a \div 2 \in 1..(a - 1)
  OBVIOUS
<1> QED
  BY <1>1, Periods DEF Middle

\* The target's receiver follows the frame by a clock.
LEMMA HearsOn ==
    ASSUME Hear, served' = served, heard \in Seq(Bytes),
           NEW byte \in Bytes,
           NEW n \in 0..(Bits + 1), NEW r \in 0..(UartPeriod - 1),
           NEW m \in 0..(Bits + 1), NEW q \in 0..(UartPeriod - 1),
           At(m, q) = At(n, r) + 1,
           r = UartPeriod - 1 => m = n + 1 /\ q = 0,
           r # UartPeriod - 1 => m = n /\ q = r + 1,
           Hearing(byte, n, r), rx_pin = BitOf(byte, n)
    PROVE  Hearing(byte, m, q)' /\ heard' \in Seq(Bytes)
<1>0. Middle \in 1..(UartPeriod - 1)
  BY MiddleType
<1>1. CASE n <= Bits \/ r <= Middle
  <2>1. /\ hearing = At(n, r)
        /\ bits = Upto(byte, IF n = 0 \/ r > Middle THEN n ELSE n - 1)
        /\ served = Append(heard, byte)
    BY <1>1, Zenon DEF Hearing
  <2>2. /\ hearing = 0 <=> n = 0 /\ r = 0
        /\ hearing % UartPeriod = r /\ hearing \div UartPeriod = n
        /\ hearing + 1 = At(m, q)
    <3>1. /\ At(n, r) = 0 <=> n = 0 /\ r = 0
          /\ At(n, r) % UartPeriod = r /\ At(n, r) \div UartPeriod = n
      BY AtFacts
    <3>2. hearing = At(n, r)
      BY <2>1, Zenon
    <3> QED
      BY <3>1, <3>2, Zenon
  <2>3. CASE n = 0 /\ r = 0
    <3>1. rx_pin = 0
      BY <2>3, Zenon DEF BitOf
    <3>2. hearing' = 1 /\ bits' = bits /\ heard' = heard
      BY <2>2, <2>3, <3>1, Zenon DEF Hear
    <3>3. m = 0 /\ q = 1 /\ hearing' = At(m, q)
      <4>1. r # UartPeriod - 1 /\ r + 1 = 1
        BY <2>3, Periods
      <4>2. m = 0 /\ q = 1
        BY <2>3, <4>1, Zenon
      <4>3. At(0, 1) = 1
        BY Periods DEF At
      <4> QED
        BY <3>2, <4>2, <4>3, Zenon
    <3>4. bits' = Upto(byte, IF m = 0 \/ q > Middle THEN m ELSE m - 1)
      BY <2>1, <2>3, <3>2, <3>3, Zenon
    <3>5. m <= Bits
      BY <3>3, Periods
    <3> QED
      BY <2>1, <3>2, <3>3, <3>4, <3>5, Zenon DEF Hearing
  <2>4. CASE ~(n = 0 /\ r = 0) /\ r = Middle /\ n = Bits + 1
    <3>1. /\ hearing' = 0 /\ bits' = <<>>
          /\ heard' = IF rx_pin = 1 THEN Append(heard, bits) ELSE heard
      BY <2>2, <2>4, Zenon DEF Hear, Middle
    <3>2. rx_pin = 1 /\ bits = byte
      <4>1. ~(n = 0 \/ r > Middle) /\ n - 1 = Bits /\ n # 0 /\ ~(n <= Bits)
        BY <1>0, <2>4, Periods
      <4>2. bits = Upto(byte, Bits)
        BY <2>1, <4>1, Zenon
      <4> QED
        BY <4>1, <4>2, ByteParts, Zenon DEF BitOf
    <3>3. heard' = served' /\ heard' \in Seq(Bytes)
      BY <2>1, <3>1, <3>2
    <3>4. ~(m <= Bits \/ q <= Middle)
      <4>1. r # UartPeriod - 1
        BY <2>4, Periods
      <4>2. m = Bits + 1 /\ q = Middle + 1
        BY <2>4, <4>1, Zenon
      <4> QED
        BY <1>0, <4>2, Periods
    <3> QED
      BY <3>1, <3>3, <3>4, Zenon DEF Hearing
  <2>5. CASE ~(n = 0 /\ r = 0) /\ ~(r = Middle /\ n = Bits + 1)
    <3>1. /\ hearing' = At(m, q)
          /\ bits' = IF r = Middle /\ n \in 1..Bits THEN Append(bits, rx_pin) ELSE bits
          /\ heard' = heard
      BY <2>2, <2>5, Zenon DEF Hear, Middle
    <3>2. m <= Bits \/ q <= Middle
      BY <1>0, <1>1, <2>5, Periods
    <3>3. bits' = Upto(byte, IF m = 0 \/ q > Middle THEN m ELSE m - 1)
      <4> DEFINE before == IF n = 0 \/ r > Middle THEN n ELSE n - 1
                 after == IF m = 0 \/ q > Middle THEN m ELSE m - 1
      <4>1. CASE r = Middle /\ n \in 1..Bits
        <5>1. before \in 0..(Bits - 1) /\ before + 1 = n /\ n # 0 /\ n <= Bits /\ after = n
          BY <1>0, <4>1, Periods
        <5> HIDE DEF before, after
        <5>2. rx_pin = byte[before + 1]
          BY <5>1, Zenon DEF BitOf
        <5>3. Append(Upto(byte, before), byte[before + 1]) = Upto(byte, before + 1)
          BY <5>1, ByteBits
        <5> QED
          BY <2>1, <3>1, <4>1, <5>1, <5>2, <5>3, Zenon DEF before, after
      <4>2. CASE ~(r = Middle /\ n \in 1..Bits)
        <5>1. after = before
          BY <1>0, <1>1, <2>5, <4>2, Periods
        <5> QED
          BY <2>1, <3>1, <4>2, <5>1, Zenon
      <4> QED
        BY <4>1, <4>2
    <3> QED
      BY <2>1, <3>1, <3>2, <3>3, Zenon DEF Hearing
  <2> QED
    BY <2>3, <2>4, <2>5
<1>2. CASE ~(n <= Bits \/ r <= Middle)
  <2>1. hearing = 0 /\ bits = <<>> /\ heard = served
    BY <1>2, Zenon DEF Hearing
  <2>2. n # 0 /\ ~(m <= Bits \/ q <= Middle)
    BY <1>0, <1>2, Periods
  <2>3. rx_pin = 1 /\ 1 # 0
    <3>1. 1 # 0
      OBVIOUS
    <3> QED
      BY <1>2, <2>2, <3>1, Zenon DEF BitOf
  <2>4. hearing' = 0 /\ bits' = bits /\ heard' = heard
    BY <2>1, <2>3, Zenon DEF Hear
  <2> QED
    BY <2>1, <2>2, <2>4, Zenon DEF Hearing
<1> QED
  BY <1>1, <1>2

\* Both sides of the frame on rx_pin, at an even tick.
RxStep ==
    /\ Hear
    /\ ReceiveBits(t')
    /\ served' = IF Taking(t') THEN Append(served, Head(tx)) ELSE served

\* The bytes of the UART are commands.
LEMMA UartCommands ==
    ASSUME TypeOK, service = "uart"
    PROVE  tx \in Seq(Bytes) /\ served \in Seq(Bytes)
BY DEF TypeOK, ServerType, Command

\* A receiver done with its frame is as good as idle: it takes note of a last
\* byte in the clock in which the server may begin another.
LEMMA HearsLast ==
    ASSUME RxIdling, Hear, service = "uart", TypeOK, heard \in Seq(Bytes)
    PROVE  hearing' = 0 /\ bits' = <<>> /\ heard' = served /\ heard' \in Seq(Bytes)
<1>0. served \in Seq(Bytes) /\ rx_pin = 1 /\ 1 # 0 /\ Middle \in 1..(UartPeriod - 1)
  BY UartCommands, MiddleType DEF RxIdling
<1>1. CASE hearing = 0 /\ bits = <<>> /\ heard = served
  BY <1>0, <1>1, Zenon DEF Hear
<1>2. ASSUME NEW byte \in Bytes, Hearing(byte, Bits + 1, UartPeriod - 1)
      PROVE  hearing' = 0 /\ bits' = <<>> /\ heard' = served
  <2> DEFINE n == Bits + 1
             r == UartPeriod - 1
  <2>0. n \in 0..(Bits + 1) /\ r \in 0..(UartPeriod - 1) /\ ~(n <= Bits) /\ n # 0 /\ n - 1 = Bits
    BY Periods
  <2>1. CASE r <= Middle
    <3>1. r = Middle /\ ~(r > Middle)
      BY <1>0, <2>0, <2>1, Periods
    <3>2. /\ hearing = At(n, r) /\ bits = Upto(byte, n - 1)
          /\ served = Append(heard, byte)
      BY <1>2, <2>0, <2>1, <3>1, Zenon DEF Hearing
    <3>3. hearing # 0 /\ hearing % UartPeriod = r /\ hearing \div UartPeriod = n
      BY <2>0, <3>2, AtFacts, Zenon
    <3>4. bits = byte
      BY <2>0, <3>2, ByteParts, Zenon
    <3>5. hearing' = 0 /\ bits' = <<>> /\ heard' = Append(heard, bits)
      BY <1>0, <3>1, <3>3, Zenon DEF Hear, Middle
    <3> QED
      BY <3>2, <3>4, <3>5, Zenon
  <2>2. CASE ~(r <= Middle)
    <3>1. hearing = 0 /\ bits = <<>> /\ heard = served
      BY <1>2, <2>0, <2>2, Zenon DEF Hearing
    <3> QED
      BY <1>0, <3>1, Zenon DEF Hear
  <2> QED
    BY <2>1, <2>2
<1> QED
  BY <1>0, <1>1, <1>2, Zenon DEF RxIdling

\* Between frames the server waits for a byte, and begins the next.
LEMMA RxWaits ==
    ASSUME TypeOK, service = "uart", heard \in Seq(Bytes), RxIdling, RxStep,
           t' \in Nat \ {0}, t' % 2 = 0
    PROVE  RxSomewhere' /\ heard' \in Seq(Bytes)
<1>1. hearing' = 0 /\ bits' = <<>> /\ heard' = served /\ heard' \in Seq(Bytes)
  BY HearsLast, Zenon DEF RxStep
<1>2. rx_state = "IDLE" /\ rx_start = 0 /\ rx_pin = 1
  BY Zenon DEF RxIdling
<1>3. BitDue(rx_start, t') /\ (Taking(t') <=> tx # <<>>)
  BY <1>2, Zenon DEF BitDue, Taking
<1>4. RxIdle(t')
  <2>1. RxIdle(t') \/ RxData \/ RxStop
    BY <1>2, <1>3 DEF RxStep, ReceiveBits
  <2> QED
    BY <1>2, <2>1 DEF RxData, RxStop
<1>5. CASE tx = <<>>
  <2>1. UNCHANGED <<rx_pin, rx_state, rx_start, served>>
    BY <1>3, <1>4, <1>5, Zenon DEF RxIdle, RxStep
  <2>2. RxIdling'
    BY <1>1, <1>2, <2>1, Zenon DEF RxIdling
  <2> QED
    BY <1>1, <2>2, Zenon DEF RxSomewhere
<1>6. CASE tx # <<>>
  <2>1. PICK byte \in Bytes : byte = Head(tx)
    BY <1>6, UartCommands
  <2>2. /\ rx_pin' = 0 /\ rx_state' = "DATA" /\ rx_start' = t' /\ txc' = byte
        /\ served' = Append(served, byte)
    BY <1>3, <1>4, <1>6, <2>1, Zenon DEF RxIdle, RxStep
  <2>3. /\ 0 \in 0..(Bits + 1) /\ 0 \in 0..(UartPeriod - 1)
        /\ 0 < Bits /\ 0 <= Bits /\ ~(0 > Bits) /\ At(0, 0) = 0
    BY Periods DEF At
  <2>4. (t' - rx_start') % (2 * UartPeriod) = 2 * 0 + (t' % 2)
    BY <2>2, PhaseStarts
  <2>5. Hearing(byte, 0, 0)'
    <3>1. bits' = Upto(byte, 0)
      BY <1>1, <2>1, ByteParts, Zenon
    <3> QED
      BY <1>1, <2>2, <2>3, <3>1, Zenon DEF Hearing
  <2>6. txc' = Past(byte, 0) /\ rx_pin' = BitOf(byte, 0) /\ rx_start' # 0
    BY <2>1, <2>2, ByteParts, Zenon DEF BitOf
  <2>7. RxBusy(byte, 0, 0)'
    BY <2>2, <2>3, <2>4, <2>5, <2>6, Zenon DEF RxBusy, Phase
  <2> QED
    BY <1>1, <2>1, <2>3, <2>7, Zenon DEF RxSomewhere
<1> QED
  BY <1>5, <1>6

\* A frame goes on by a clock, the last of which is idle already.
LEMMA RxGoesOn ==
    ASSUME TypeOK, UartTypes, service = "uart", RxStep, t' = Tick, t' % 2 = 0,
           NEW byte \in Bytes, NEW n \in 0..(Bits + 1), NEW r \in 0..(UartPeriod - 1),
           RxBusy(byte, n, r)
    PROVE  RxSomewhere' /\ heard' \in Seq(Bytes)
<1>0. /\ t \in Nat /\ rx_start \in Int /\ heard \in Seq(Bytes)
      /\ rx_start # 0 /\ Phase(rx_start) = 2 * r + (t % 2)
      /\ rx_state = IF n < Bits THEN "DATA" ELSE IF n = Bits THEN "STOP" ELSE "DONE"
      /\ n <= Bits => txc = Past(byte, n)
      /\ n > Bits => r # UartPeriod - 1
      /\ rx_pin = BitOf(byte, n) /\ Hearing(byte, n, r)
  BY DEF TypeOK, PeerType, UartTypes, RxBusy
<1>1. PICK m \in 0..(Bits + 1), q \in 0..(UartPeriod - 1) :
        /\ At(m, q) = At(n, r) + 1
        /\ r = UartPeriod - 1 => m = n + 1 /\ q = 0
        /\ r # UartPeriod - 1 => m = n /\ q = r + 1
  <2>1. ~(n = Bits + 1 /\ r = UartPeriod - 1)
    BY <1>0, Periods
  <2> QED
    BY <2>1, NextClock
<1>2. served' = served
  <2>1. rx_state # "IDLE"
    BY <1>0
  <2> QED
    BY <2>1, Zenon DEF RxStep, Taking
<1>3. Hearing(byte, m, q)' /\ heard' \in Seq(Bytes)
  BY <1>0, <1>1, <1>2, HearsOn, Zenon DEF RxStep
<1> DEFINE u == t'
           p == (u - rx_start) % (2 * UartPeriod)
<1>4. /\ r = UartPeriod - 1 => p = 0
      /\ r # UartPeriod - 1 => p = 2 * (r + 1)
  <2>1. u = Tick /\ u % 2 # 1
    OBVIOUS
  <2> HIDE DEF u
  <2> QED
    BY <1>0, <2>1, PhaseTicks, Zenon
<1>5. BitDue(rx_start, t') <=> p = 0
  BY <1>0, Zenon DEF BitDue
<1>6. ASSUME rx_start' = rx_start
      PROVE  (t' - rx_start') % (2 * UartPeriod) = 2 * q + (t' % 2)
  <2>1. p = 2 * q
    <3>1. 2 * 0 = 0
      OBVIOUS
    <3> QED
      BY <1>1, <1>4, <3>1, Zenon
  <2>2. 2 * q = 2 * q + 0
    BY Periods
  <2> QED
    BY <1>6, <2>1, <2>2, Zenon
<1> HIDE DEF p
<1>7. n <= Bits => rx_state # "DONE"
  <2>1. n <= Bits => n < Bits \/ n = Bits
    BY Periods
  <2>2. "DATA" # "DONE" /\ "STOP" # "DONE"
    OBVIOUS
  <2> QED
    BY <1>0, <2>1, <2>2, Zenon
<1>8. CASE n <= Bits /\ r # UartPeriod - 1
  <2>1. ~BitDue(rx_start, t') /\ rx_state # "DONE"
    <3>1. 2 * (r + 1) # 0
      BY Periods
    <3>2. ~BitDue(rx_start, t')
      BY <1>4, <1>5, <1>8, <3>1, Zenon
    <3> QED
      BY <1>8, <1>7, <3>2, Zenon
  <2>2. UNCHANGED <<rx_state, rx_start, txc, rx_pin>>
    BY <2>1, Zenon DEF RxStep, ReceiveBits
  <2>3. m = n /\ ~(m > Bits)
    BY <1>1, <1>8, Periods
  <2>4. RxBusy(byte, m, q)'
    BY <1>0, <1>3, <1>6, <1>8, <2>2, <2>3, Zenon DEF RxBusy, Phase
  <2> QED
    BY <1>3, <2>4, Zenon DEF RxSomewhere
<1>9. CASE n <= Bits /\ r = UartPeriod - 1
  <2>1. BitDue(rx_start, t') /\ rx_state # "DONE" /\ m = n + 1 /\ q = 0
    BY <1>1, <1>4, <1>5, <1>9, <1>7, Zenon
  <2>2. RxData \/ RxStop
    <3>1. RxIdle(t') \/ RxData \/ RxStop
      BY <2>1, Zenon DEF RxStep, ReceiveBits
    <3> QED
      BY <1>0, <3>1 DEF RxIdle
  <2>3. CASE n < Bits
    <3>1. RxData
      BY <1>0, <2>2, <2>3 DEF RxStop
    <3>2. n \in 0..(Bits - 1) /\ m # 0 /\ m <= Bits /\ ~(m > Bits) /\ (m < Bits <=> m # Bits)
      BY <2>1, <2>3, Periods
    <3>3. rx_pin' = byte[m] /\ txc' = Past(byte, m) /\ (txc' = <<>> <=> m = Bits)
      BY <1>0, <1>9, <2>1, <3>1, <3>2, ByteBits, Zenon DEF RxData
    <3>4. rx_state' = (IF txc' = <<>> THEN "STOP" ELSE "DATA") /\ rx_start' = rx_start
      BY <3>1, Zenon DEF RxData
    <3>5. rx_pin' = BitOf(byte, m)
      BY <3>2, <3>3, Zenon DEF BitOf
    <3>6. rx_state' = IF m < Bits THEN "DATA" ELSE IF m = Bits THEN "STOP" ELSE "DONE"
      BY <3>2, <3>3, <3>4, Zenon
    <3>7. RxBusy(byte, m, q)'
      BY <1>0, <1>3, <1>6, <3>2, <3>3, <3>4, <3>5, <3>6, Zenon DEF RxBusy, Phase
    <3> QED
      BY <1>3, <3>7, Zenon DEF RxSomewhere
  <2>4. CASE ~(n < Bits)
    <3>1. /\ n = Bits /\ m = Bits + 1 /\ m # 0 /\ ~(m <= Bits) /\ ~(m < Bits) /\ m # Bits
          /\ q # UartPeriod - 1
      BY <1>9, <2>1, <2>4, Periods
    <3>2. RxStop
      BY <1>0, <2>2, <3>1 DEF RxData
    <3>3. rx_pin' = BitOf(byte, m) /\ rx_state' = "DONE" /\ rx_start' = rx_start
      BY <3>1, <3>2, Zenon DEF RxStop, BitOf
    <3>4. RxBusy(byte, m, q)'
      BY <1>0, <1>3, <1>6, <3>1, <3>3, Zenon DEF RxBusy, Phase
    <3> QED
      BY <1>3, <3>4, Zenon DEF RxSomewhere
  <2> QED
    BY <2>3, <2>4
<1>10. CASE ~(n <= Bits)
  <2>1. /\ n = Bits + 1 /\ r # UartPeriod - 1 /\ m = n /\ q = r + 1
        /\ m # 0 /\ ~(m <= Bits) /\ ~(m < Bits) /\ m # Bits
    <3>1. n = Bits + 1 /\ r # UartPeriod - 1
      BY <1>0, <1>10, Periods
    <3> QED
      BY <1>1, <3>1, Periods
  <2>2. rx_state = "DONE" /\ RxDone(t')
    <3>1. rx_state = "DONE"
      BY <1>0, <2>1
    <3> QED
      BY <3>1, Zenon DEF RxStep, ReceiveBits
  <2>3. p = 2 * UartPeriod - 2 <=> q = UartPeriod - 1
    BY <1>4, <2>1, Periods
  <2>4. rx_pin' = rx_pin /\ rx_pin = 1
    BY <1>0, <2>1, <2>2, Zenon DEF RxDone, BitOf
  <2>5. CASE q = UartPeriod - 1
    <3>1. rx_state' = "IDLE" /\ rx_start' = 0
      BY <2>2, <2>3, <2>5, Zenon DEF RxDone, p
    <3>2. Hearing(byte, Bits + 1, UartPeriod - 1)'
      BY <1>3, <2>1, <2>5, Zenon
    <3>3. RxIdling'
      BY <2>4, <3>1, <3>2, Zenon DEF RxIdling
    <3> QED
      BY <1>3, <3>3, Zenon DEF RxSomewhere
  <2>6. CASE q # UartPeriod - 1
    <3>1. UNCHANGED <<rx_state, rx_start>>
      BY <2>2, <2>3, <2>6, Zenon DEF RxDone, p
    <3>2. rx_pin' = BitOf(byte, m)
      BY <2>1, <2>4, Zenon DEF BitOf
    <3>3. RxBusy(byte, m, q)'
      BY <1>0, <1>3, <1>6, <2>1, <2>2, <2>6, <3>1, <3>2, Zenon DEF RxBusy, Phase
    <3> QED
      BY <1>3, <3>3, Zenon DEF RxSomewhere
  <2> QED
    BY <2>5, <2>6
<1> QED
  BY <1>8, <1>9, <1>10

\* The bytes served are heard, whatever the step.
LEMMA RxIterates ==
    ASSUME TypeOK, UartTypes, RxFollowed, service = "uart", Iterate
    PROVE  RxFollowed' /\ heard' \in Seq(Bytes)
<1>1. /\ process = "runs" /\ UNCHANGED <<process, running, service>>
      /\ t \in Nat /\ t' = Tick /\ t' \in Nat \ {0}
      /\ t' % 2 = 1 => UNCHANGED <<uartTarget, uartVars, served, answered>>
      /\ t' % 2 # 1 => t' % 2 = 0 /\ Hear
      /\ t' % 2 # 1 /\ ~running => UNCHANGED <<uartVars, served, answered>>
      /\ t' % 2 # 1 /\ running => RxStep
  BY UartIterates, Zenon DEF RxStep
<1>2. (~running => rx_state = "IDLE" /\ hearing = 0) /\ RxSomewhere
  BY <1>1, Zenon DEF RxFollowed
<1>3. heard \in Seq(Bytes) /\ rx_start \in Int
  BY DEF UartTypes
<1> SUFFICES /\ ~running' => rx_state' = "IDLE" /\ hearing' = 0
             /\ RxSomewhere' /\ heard' \in Seq(Bytes)
  BY Zenon DEF RxFollowed
<1>4. CASE t' % 2 = 1
  <2>1. UNCHANGED <<hearing, bits, heard, rx_state, rx_start, txc, rx_pin, served>>
    BY <1>1, <1>4, Zenon DEF uartTarget, uartVars
  <2>2. ASSUME NEW byte, NEW n, NEW r, Hearing(byte, n, r)
        PROVE  Hearing(byte, n, r)'
    BY <2>1, <2>2, Zenon DEF Hearing
  <2>3. RxIdling => RxIdling'
    BY <2>1, <2>2, Zenon DEF RxIdling
  <2>4. ASSUME NEW byte \in Bytes, NEW n \in 0..(Bits + 1), NEW r \in 0..(UartPeriod - 1),
               RxBusy(byte, n, r)
        PROVE  RxBusy(byte, n, r)'
    <3>1. Phase(rx_start) = 2 * r + (t % 2)
      BY <2>4, Zenon DEF RxBusy
    <3>2. (t' - rx_start) % (2 * UartPeriod) = 2 * r + (t' % 2)
      BY <1>1, <1>3, <1>4, <3>1, PhaseOdd
    <3> QED
      BY <2>1, <2>2, <2>4, <3>2, Zenon DEF RxBusy, Phase
  <2> QED
    BY <1>1, <1>2, <1>3, <2>1, <2>3, <2>4, Zenon DEF RxSomewhere
<1>5. CASE t' % 2 # 1 /\ ~running
  <2>1. /\ rx_state = "IDLE" /\ hearing = 0 /\ Hear
        /\ UNCHANGED <<rx_state, rx_start, txc, rx_pin, served>>
    BY <1>1, <1>2, <1>5, Zenon DEF uartVars
  <2>2. RxIdling
    <3>1. ASSUME NEW byte \in Bytes, NEW n \in 0..(Bits + 1), NEW r \in 0..(UartPeriod - 1),
                 RxBusy(byte, n, r)
          PROVE  FALSE
      <4>1. rx_state \in {"DATA", "STOP", "DONE"}
        BY <3>1 DEF RxBusy
      <4> QED
        BY <2>1, <4>1
    <3> QED
      BY <1>2, <3>1, Zenon DEF RxSomewhere
  <2>3. hearing' = 0 /\ bits' = <<>> /\ heard' = served /\ heard' \in Seq(Bytes)
    BY <1>3, <2>1, <2>2, HearsLast
  <2>4. RxIdling'
    BY <2>1, <2>2, <2>3, Zenon DEF RxIdling
  <2> QED
    BY <1>1, <2>1, <2>3, <2>4, Zenon DEF RxSomewhere
<1>6. CASE t' % 2 # 1 /\ running
  <2>1. RxStep /\ t' % 2 = 0 /\ running'
    BY <1>1, <1>6, Zenon
  <2>2. RxIdling => RxSomewhere' /\ heard' \in Seq(Bytes)
    BY <1>1, <1>3, <2>1, RxWaits, Zenon
  <2>3. ASSUME NEW byte \in Bytes, NEW n \in 0..(Bits + 1), NEW r \in 0..(UartPeriod - 1),
               RxBusy(byte, n, r)
        PROVE  RxSomewhere' /\ heard' \in Seq(Bytes)
    BY <1>1, <2>1, <2>3, RxGoesOn, Zenon
  <2> QED
    BY <1>2, <2>1, <2>2, <2>3, Zenon DEF RxSomewhere
<1> QED
  BY <1>4, <1>5, <1>6

\* One element behind, or none.
LEMMA Lagging ==
    ASSUME NEW S, NEW a \in Seq(S), NEW x
    PROVE  IsLag(a, a) /\ IsLag(a, Append(a, x))
<1>1. Len(a) \in Nat /\ Len(Append(a, x)) = Len(a) + 1
  OBVIOUS
<1>2. SubSeq(a, 1, Len(a)) = SubSeq(Append(a, x), 1, Len(a))
  OBVIOUS
<1>3. IsPrefix(a, a) /\ IsPrefix(a, Append(a, x))
  BY <1>1, <1>2 DEF IsPrefix
<1> QED
  BY <1>1, <1>3 DEF IsLag

\* While the simulation runs, the bytes are where the frames say.
LEMMA BytesFollow ==
    ASSUME TypeOK, UartTypes, TxFollowed, RxFollowed, process = "runs"
    PROVE  UartBytes
<1> SUFFICES ASSUME service = "uart"
             PROVE  (clean => IsLag(answered, said)) /\ IsLag(heard, served)
  BY Zenon DEF UartBytes
<1>1. answered \in Seq(Answer) /\ heard \in Seq(Bytes)
  BY DEF TypeOK, ServerType, UartTypes
<1>2. ASSUME clean
      PROVE  IsLag(answered, said)
  <2>1. TxSomewhere
    BY <1>2, Zenon DEF TxFollowed
  <2>2. answered = said \/ \E byte \in Bytes : said = Append(answered, byte)
    BY <2>1, Zenon DEF TxSomewhere, TxIdling, TxBusy
  <2> QED
    BY <1>1, <2>2, Lagging, Zenon
<1>3. IsLag(heard, served)
  <2>1. RxSomewhere
    BY Zenon DEF RxFollowed
  <2>2. heard = served \/ \E byte \in Bytes : served = Append(heard, byte)
    BY <2>1, Zenon DEF RxSomewhere, RxIdling, RxBusy, Hearing
  <2> QED
    BY <1>1, <2>2, Lagging, Zenon
<1> QED
  BY <1>2, <1>3

\* Every step keeps frames and bytes together.
LEMMA UartStep ==
    TypeOK /\ ThreadFollowed /\ UartFollowed /\ [Next]_vars => UartFollowed'
<1> SUFFICES ASSUME TypeOK, ThreadFollowed, UartFollowed, [Next]_vars
             PROVE  UartFollowed'
  OBVIOUS
<1>1. UartTypes /\ TxFollowed /\ RxFollowed /\ (process # "runs" => UartBytes)
  BY Zenon DEF UartFollowed
<1>2. CASE service # "uart"
  <2>1. service' = service
    BY Fixed
  <2> QED
    BY <1>2, <2>1, Zenon DEF UartFollowed, UartTypes, TxFollowed, RxFollowed, UartBytes
<1>3. CASE service = "uart" /\ Iterate
  <2>1. /\ process' = "runs" /\ t' \in Nat
        /\ \/ UNCHANGED uartVars
           \/ Transmit(t', level') /\ ReceiveBits(t')
    BY <1>3, UartIterates DEF uartVars
  <2>2. tx_start \in Nat /\ rx_start \in Nat
    BY <1>1, <1>3, Zenon DEF UartTypes
  <2>3. tx_start' \in {tx_start, t', 0} /\ rx_start' \in {rx_start, t', 0}
    <3>1. CASE UNCHANGED uartVars
      BY <3>1 DEF uartVars
    <3>2. CASE Transmit(t', level') /\ ReceiveBits(t')
      <4>1. tx_start' = tx_start \/ tx_start' = t' \/ tx_start' = 0
        BY <3>2, Zenon DEF Transmit, TxIdle, TxData, TxStop
      <4>2. rx_start' = rx_start \/ rx_start' = t' \/ rx_start' = 0
        BY <3>2, Zenon DEF ReceiveBits, RxIdle, RxData, RxStop, RxDone
      <4> QED
        BY <4>1, <4>2
    <3> QED
      BY <2>1, <3>1, <3>2
  <2>4. tx_start' \in Nat /\ rx_start' \in Nat
    BY <2>1, <2>2, <2>3
  <2>5. TxFollowed'
    BY <1>1, <1>3, TxIterates
  <2>6. RxFollowed' /\ heard' \in Seq(Bytes)
    BY <1>1, <1>3, RxIterates
  <2> QED
    BY <2>1, <2>4, <2>5, <2>6, Zenon DEF UartFollowed, UartTypes
<1>4. CASE service = "uart" /\ ~Iterate
  <2>1. /\ UNCHANGED <<uartVars, uartTarget, served, answered, service>>
        /\ process' = "runs" => process = "runs" /\ t' = t /\ (running => running')
    BY <1>4, UartRests, Zenon
  <2>2. /\ UNCHANGED <<tx_state, tx_start, rxc, rx_state, rx_start, txc, rx_pin>>
        /\ UNCHANGED <<line, said, hearing, bits, heard, clean, served, answered, service>>
    BY <2>1, Zenon DEF uartVars, uartTarget
  <2>3. UartTypes'
    BY <1>1, <2>2, Zenon DEF UartTypes
  <2>4. UartBytes'
    <3>1. UartBytes
      BY <1>1, BytesFollow, Zenon
    <3> QED
      BY <2>2, <3>1, Zenon DEF UartBytes
  <2>5. CASE process' # "runs"
    BY <2>3, <2>4, <2>5, Zenon DEF UartFollowed, TxFollowed, RxFollowed
  <2>6. CASE process' = "runs"
    <3>1. process = "runs" /\ t' = t /\ (~running' => ~running)
      BY <2>1, <2>6, Zenon
    <3>2. TxSomewhere => TxSomewhere'
      <4>1. TxIdling => TxIdling'
        BY <2>2, Zenon DEF TxIdling
      <4>2. ASSUME NEW byte, NEW n, NEW r, TxBusy(byte, n, r)
            PROVE  TxBusy(byte, n, r)'
        BY <2>2, <3>1, <4>1, <4>2, Zenon DEF TxBusy, Phase
      <4> QED
        BY <2>2, <4>1, <4>2, Zenon DEF TxSomewhere
    <3>3. RxSomewhere => RxSomewhere'
      <4>1. ASSUME NEW byte, NEW n, NEW r, Hearing(byte, n, r)
            PROVE  Hearing(byte, n, r)'
        BY <2>2, <4>1, Zenon DEF Hearing
      <4>2. RxIdling => RxIdling'
        BY <2>2, <4>1, Zenon DEF RxIdling
      <4>3. ASSUME NEW byte, NEW n, NEW r, RxBusy(byte, n, r)
            PROVE  RxBusy(byte, n, r)'
        BY <2>2, <3>1, <4>1, <4>3, Zenon DEF RxBusy, Phase
      <4> QED
        BY <4>2, <4>3, Zenon DEF RxSomewhere
    <3>4. TxFollowed'
      BY <1>1, <2>2, <3>1, <3>2, Zenon DEF TxFollowed
    <3>5. RxFollowed'
      BY <1>1, <2>2, <3>1, <3>3, Zenon DEF RxFollowed
    <3> QED
      BY <2>3, <2>4, <3>4, <3>5, Zenon DEF UartFollowed
  <2> QED
    BY <2>5, <2>6
<1> QED
  BY <1>2, <1>3, <1>4

\* Both lines are idle at the start.
LEMMA InitUart == Init => UartFollowed
<1> SUFFICES ASSUME Init
             PROVE  UartFollowed
  OBVIOUS
<1>1. /\ UartInit /\ ServerInit
      /\ line = <<>> /\ said = <<>> /\ hearing = 0 /\ bits = <<>> /\ heard = <<>>
  BY Zenon DEF Init
<1>2. served = <<>> /\ answered = <<>> /\ process = "runs"
  BY <1>1, Zenon DEF ServerInit
<1>3. /\ tx_state = "IDLE" /\ tx_start = 0 /\ rxc = <<>>
      /\ rx_state = "IDLE" /\ rx_start = 0 /\ rx_pin = 1
  BY <1>1, Zenon DEF UartInit
<1>4. UartTypes
  BY <1>1, <1>3 DEF UartTypes
<1>5. TxFollowed
  BY <1>1, <1>2, <1>3, Zenon DEF TxFollowed, TxSomewhere, TxIdling
<1>6. RxFollowed
  BY <1>1, <1>2, <1>3, Zenon DEF RxFollowed, RxSomewhere, RxIdling
<1> QED
  BY <1>2, <1>4, <1>5, <1>6, Zenon DEF UartFollowed

-----------------------------------------------------------------------------
(* The initial states.                                                     *)

\* The types at the start.
LEMMA InitTypes ==
    ASSUME Init
    PROVE  TypeOK
<1>1. ServerType
  <2>1. <<>> \in Seq(Command) /\ <<>> \in Seq(Answer)
    OBVIOUS
  <2>2. ServerInit
    BY Zenon DEF Init
  <2>3. /\ tx = <<>> /\ rx = <<>> /\ inbound = <<>> /\ outbound = <<>>
        /\ sent = <<>> /\ served = <<>> /\ answered = <<>> /\ got = <<>>
    BY <2>2, Zenon DEF ServerInit
  <2>4. ControlType
    BY <2>2 DEF ServerInit, ControlType
  <2> QED
    BY <2>1, <2>3, <2>4, Zenon DEF ServerType, ControlType
<1>2. service \in {"none", "jtag", "uart", "gpio"} /\ t = 0
  BY DEF Init, UtilsInit
<1>3. /\ service = "none" => peer = "none"
      /\ service = "jtag" => peer \in {"JTAGClient", "openocd"}
      /\ service = "uart" => peer = "host"
      /\ service = "gpio" => peer = "GPIOClient"
  <2>1. peer \in CASE service = "jtag" -> {"JTAGClient", "openocd"}
                   [] service = "uart" -> {"host"}
                   [] service = "gpio" -> {"GPIOClient"}
                   [] OTHER -> {"none"}
    BY Zenon DEF Init
  <2> QED
    BY <1>2, <2>1
<1>4. pins \in PinLevels /\ tdo \in PinLevels
  <2>1. pins = (CHOOSE p \in Pins : TRUE) /\ tdo = pins
    BY Zenon DEF Init
  <2> QED
    BY <2>1, Zenon DEF PinLevels
<1>5. rxc = <<>> /\ line = <<>> /\ call = "idle"
  BY Zenon DEF Init, UartInit
<1>6. PeerType
  BY <1>2, <1>3, <1>4, <1>5 DEF PeerType
<1> QED
  BY <1>1, <1>6, Zenon DEF TypeOK

\* Nothing is sent, owed or running at the start.
LEMMA InitServer ==
    ASSUME Init
    PROVE  ServerInv /\ QuitsListening
<1>1. TypeOK
  BY InitTypes
<1>2. /\ thread = "none" /\ sockfd = "none" /\ conn = "none" /\ process = "runs" /\ rude = FALSE
      /\ tx = <<>> /\ rx = <<>> /\ inbound = <<>> /\ outbound = <<>>
      /\ sent = <<>> /\ served = <<>> /\ answered = <<>> /\ got = <<>>
      /\ call = "idle" /\ (service = "none" => ~running)
  BY Zenon DEF Init, ServerInit
<1>3. ThreadFollowed /\ QuitsListening /\ Survives
  BY <1>2 DEF ThreadFollowed, QuitsListening, Survives
<1>4. Conserved
  <2>1. (<<>> \o <<>>) \o <<>> = <<>>
    OBVIOUS
  <2> QED
    BY <1>2, <2>1, Zenon DEF Conserved
<1>5. Owed
  <2>1. Queries(sent) = 0 /\ Queries(served) = 0 /\ Len(answered) = 0 /\ Len(got) = 0
    BY <1>2, QueriesEmpty
  <2> QED
    BY <1>2, <2>1 DEF Owed, Asked
<1> QED
  BY <1>1, <1>3, <1>4, <1>5, Zenon DEF ServerInv

-----------------------------------------------------------------------------
(* Theorems.                                                               *)

\* The invariant of the server: types, where its thread is, what is carried,
\* what is owed, and that it survives its clients.
THEOREM ServerInvariant == Spec => []ServerInv
<1>1. Init => ServerInv
  BY InitServer
<1>2. ServerInv /\ [Next]_vars => ServerInv'
  BY TypeStep, ThreadStep, ConservedStep, OwedStep, SurvivesStep, Zenon DEF ServerInv
<1> QED
  BY <1>1, <1>2, PTL DEF Spec

\* Commands reach the service as they were sent, and answers the client as
\* they were given, whatever the sizes of the buffers, over any number of
\* connections.
THEOREM CommandsConserved == Spec => []Conserved
BY ServerInvariant, PTL DEF ServerInv

\* Two simulations coupled over JTAG stay in step: what the client reads is
\* the target's answer to the pins it wrote last.
THEOREM CoupledLockStep == Spec => []LockStep
<1>1. Init => PinsFollowed
  BY DEF Init, PinsFollowed, QueryFollowed, ReadFollowed
<1>2. ServerInv /\ PinsFollowed /\ [Next]_vars => PinsFollowed'
  BY PinsStep, Zenon DEF ServerInv
<1>3. ServerInv /\ PinsFollowed => LockStep
  BY InStepFollows, Zenon DEF ServerInv
<1> QED
  BY <1>1, <1>2, <1>3, ServerInvariant, PTL DEF Spec

\* Unless the simulation may end before the server listens, its thread never
\* outlives it, and no client that waits for its answers ends it.
THEOREM SimulationEndsWell == ~EarlyQuit => (Spec => []EndsWell)
<1> SUFFICES ASSUME ~EarlyQuit
             PROVE  Spec => []EndsWell
  OBVIOUS
<1>1. Init => QuitsListening
  BY InitServer
<1>2. ServerInv /\ QuitsListening /\ [Next]_vars => QuitsListening'
  BY QuitsStep, Zenon DEF ServerInv
<1>3. ServerInv /\ QuitsListening => EndsWell
  BY Zenon DEF ServerInv, QuitsListening, EndsWell, JoinedFirst
<1> QED
  BY <1>1, <1>2, <1>3, ServerInvariant, PTL DEF Spec

\* The trace holds the ticks it is asked for, and none besides, unless the flag
\* the constructor forgets was set, and it is closed when the simulation ends.
THEOREM TraceHoldsWindow == Spec => []TraceWindow
<1>1. TraceFollowed => TraceWindow
  BY Zenon DEF TraceFollowed, TraceClosed, TraceDumped, TraceWindow, Window
<1> QED
  BY <1>1, InitTrace, TraceStep, PTL DEF Spec

\* The UART carries every byte in both directions, whatever the length of a
\* bit, and is never more than one byte behind.
THEOREM BytesCarried == Spec => []UartBytes
<1>1. ServerInv /\ UartFollowed /\ [Next]_vars => UartFollowed'
  BY UartStep, Zenon DEF ServerInv
<1>2. ServerInv /\ UartFollowed => UartBytes
  BY BytesFollow, Zenon DEF ServerInv, UartFollowed
<1> QED
  BY <1>1, <1>2, InitUart, ServerInvariant, PTL DEF Spec
=============================================================================
