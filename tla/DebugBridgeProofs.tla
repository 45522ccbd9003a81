------------------------- MODULE DebugBridgeProofs --------------------------
(***************************************************************************)
(* Proofs about DebugBridge for every set of transfers, address space,     *)
(* FIFO and counter in reach of the assumptions, and for any number of     *)
(* failures, with masters that do not read while the target's address      *)
(* autoincrements.                                                         *)
(* Inv is inductive. Its core is CachesRight, which says of each cached    *)
(* register what the port WILL hold when the commands under way are        *)
(* carried out: an edge at which a command is issued appends to them (the  *)
(* lemmas Issue...), one at which none is leaves them (Quiet...), and the  *)
(* target takes the oldest away (WritesInv, ReadsInv, AccessInv). That the *)
(* oldest finds the port ready is Prepared, that its answer is the one     *)
(* waited for is Counted, that there is room for the longest sequence is   *)
(* Short. After a failure the target may do anything (StrayInv), but no    *)
(* transfer ends well (Failing, Performed). Then every step is one of      *)
(* RemoteMemory, or none.                                                  *)
(*                                                                         *)
(* Edge is a clock edge but for the bus; a lemma whose name ends in Inv    *)
(* says that an action keeps Inv, in Type what kind of value something is. *)
(***************************************************************************)
EXTENDS DebugBridge, SequenceTheorems, TLAPS

-----------------------------------------------------------------------------
(* Arithmetic.                                                             *)

LEMMA ModSmall ==
    ASSUME NEW m \in Nat, NEW x \in Int, 0 <= x, x < m
    PROVE  x % m = x
  OBVIOUS

LEMMA ModWrap ==
    ASSUME NEW m \in Nat, m > 0
    PROVE  m % m = 0
  OBVIOUS

LEMMA ModBelow ==
    ASSUME NEW m \in Nat, NEW x \in Int, x < 0, 0 <= x + m
    PROVE  x % m = x + m
  OBVIOUS

LEMMA ModRange ==
    ASSUME NEW m \in Nat, m > 0, NEW x \in Int
    PROVE  x % m \in 0..(m - 1)
  OBVIOUS

LEMMA Powers == \A n \in 0..3 : 2^n \in {1, 2, 4, 8}
<1> TAKE n \in 0..3
<1>1. 2^0 = 1 /\ 2^1 = 2 /\ 2^2 = 4 /\ 2^3 = 8
  BY SMT
<1>2. n = 0 \/ n = 1 \/ n = 2 \/ n = 3
  OBVIOUS
<1> QED
  BY <1>1, <1>2

LEMMA BankedAddress ==
    \A a, t \in Nat : a % 4 = 0 /\ Bank(a) = Bank(t) => (t \div 16) * 16 + 4 * ((a \div 4) % 4) = a
  BY DEF Bank

LEMMA LastBank ==
    \A a \in 0..(AddrSpace - 17) : Bank(a) # Bank(Invalid) /\ a # Invalid
  BY SpaceAssumption DEF Bank, Invalid

-----------------------------------------------------------------------------
(* Commands under way.                                                     *)

\* With no command ahead a register holds what it holds.
LEMMA WillNow ==
    ASSUME NEW s, NEW K, NEW now, NEW v
    PROVE  Will(s, K, 1, now, v) <=> now = v
  BY DEF Will

\* A command at the end does not change what comes before it.
LEMMA WillAppend ==
    ASSUME NEW S, NEW s \in Seq(S), NEW c \in S, NEW K, NEW i \in 1..(Len(s) + 1),
           NEW now, NEW v
    PROVE  Will(Append(s, c), K, i, now, v) <=> Will(s, K, i, now, v)
<1>1. \A j \in 1..(i - 1) : Append(s, c)[j] = s[j]
  OBVIOUS
<1> DEFINE t == Append(s, c)
<1> HIDE DEF t
<1>2. \A j \in 1..(i - 1) : \A k \in (j + 1)..(i - 1) : k \in 1..(i - 1)
  OBVIOUS
<1> QED
  BY <1>1, <1>2, Zenon DEF Will, t

\* The command at the end writes the register, or leaves it.
LEMMA WillWrite ==
    ASSUME NEW S, NEW s \in Seq(S), NEW c \in S, NEW K, c \in K, NEW now
    PROVE  Will(Append(s, c), K, Len(s) + 2, now, c.v)
<1> DEFINE t == Append(s, c)
           n == Len(s) + 1
<1>1. t[n] = c /\ n \in Nat /\ n > 0 /\ Len(s) + 2 = n + 1
  OBVIOUS
<1> HIDE DEF t, n
<1>2. n \in 1..((n + 1) - 1) /\ \A k \in (n + 1)..((n + 1) - 1) : FALSE
  BY <1>1
<1>3. Will(t, K, n + 1, now, c.v)
  BY <1>1, <1>2, Zenon DEF Will
<1> QED
  BY <1>1, <1>3 DEF t

LEMMA WillLeave ==
    ASSUME NEW S, NEW s \in Seq(S), NEW c \in S, NEW K, c \notin K, NEW now, NEW v,
           Will(s, K, Len(s) + 1, now, v)
    PROVE  Will(Append(s, c), K, Len(s) + 2, now, v)
<1>0. Will(Append(s, c), K, Len(s) + 1, now, v)
  BY WillAppend
<1>1. Append(s, c)[Len(s) + 1] \notin K /\ Len(s) \in Nat
  OBVIOUS
<1> DEFINE t == Append(s, c)
           n == Len(s)
<1> HIDE DEF t, n
<1>2. CASE now = v /\ \A j \in 1..((n + 1) - 1) : t[j] \notin K
  BY <1>1, <1>2 DEF Will, t, n
<1>3. CASE \E j \in 1..((n + 1) - 1) : /\ t[j] \in K /\ t[j].v = v
                                   /\ \A k \in (j + 1)..((n + 1) - 1) : t[k] \notin K
  <2>1. PICK j \in 1..n : t[j] \in K /\ t[j].v = v /\ \A k \in (j + 1)..n : t[k] \notin K
    BY <1>1, <1>3 DEF n
  <2>2. \A k \in (j + 1)..(n + 1) : t[k] \notin K
    BY <1>1, <2>1 DEF t, n
  <2> QED
    BY <1>1, <2>1, <2>2 DEF Will, t, n
<1> QED
  BY <1>0, <1>2, <1>3 DEF Will, t, n

\* When the first command is carried out, the register holds what it writes.
LEMMA WillTail ==
    ASSUME NEW S, NEW s \in Seq(S), s # <<>>, NEW K, NEW i \in 1..Len(s), NEW now, NEW next,
           NEW v, next = IF s[1] \in K THEN s[1].v ELSE now, Will(s, K, i + 1, now, v)
    PROVE  Will(Tail(s), K, i, next, v)
<1> DEFINE t == Tail(s)
<1>1. \A j \in 1..(i - 1) : t[j] = s[j + 1]
  OBVIOUS
<1> HIDE DEF t
<1>2. CASE now = v /\ \A j \in 1..((i + 1) - 1) : s[j] \notin K
  <2>1. s[1] \notin K /\ \A j \in 1..(i - 1) : s[j + 1] \notin K
    BY <1>2
  <2> QED
    BY <1>1, <1>2, <2>1 DEF Will, t
<1>3. ASSUME NEW j \in 1..((i + 1) - 1), s[j] \in K, s[j].v = v,
             \A k \in (j + 1)..((i + 1) - 1) : s[k] \notin K
      PROVE  Will(t, K, i, next, v)
  <2>1. CASE j = 1
    <3>1. \A k \in 1..(i - 1) : s[k + 1] \notin K
      BY <1>3, <2>1
    <3> QED
      BY <1>1, <1>3, <2>1, <3>1 DEF Will
  <2>2. CASE j # 1
    <3>1. j - 1 \in 1..(i - 1) /\ t[j - 1] = s[j]
      BY <1>1, <2>2
    <3>2. \A k \in ((j - 1) + 1)..(i - 1) : t[k] \notin K
      <4> TAKE k \in ((j - 1) + 1)..(i - 1)
      <4>1. t[k] = s[k + 1] /\ k + 1 \in (j + 1)..((i + 1) - 1)
        BY <1>1, <3>1
      <4> QED
        BY <1>3, <4>1
    <3> QED
      BY <1>3, <3>1, <3>2 DEF Will
  <2> QED
    BY <2>1, <2>2
<1> QED
  BY <1>2, <1>3 DEF Will, t

\* TypeOK, a variable at a time.
Typed ==
    /\ ENABLE \in BOOLEAN /\ SEQ \in BOOLEAN /\ STAT \in BOOLEAN /\ check_resp \in BOOLEAN
    /\ ADIv5_WREN \in BOOLEAN /\ init_complete \in BOOLEAN /\ faulted \in BOOLEAN
    /\ slv_HREADYOUT \in BOOLEAN /\ slv_HRESP \in BOOLEAN
    /\ dslv_HREADYOUT \in BOOLEAN /\ dslv_HRESP \in BOOLEAN /\ active \in BOOLEAN
    /\ ahb_wnr \in BOOLEAN /\ ahb_pending \in BOOLEAN /\ ahb_latch_data \in BOOLEAN
    /\ bus \in Offers /\ state \in Starting \cup Working
    /\ slv_HRDATA \in Nat /\ ahb_addr \in 0..(AddrSpace - 1) /\ ahb_req_sz \in 0..2
    /\ ahb_data \in Nat
    /\ sel \in 0..1 /\ csw \in 0..7 /\ tar \in 0..(AddrSpace - 1)
    /\ resp_pending \in 0..(CtrMod - 1) /\ resp_recvd \in 0..(CtrMod - 1)
    /\ resp \in Response /\ ADIv5_RDDATA \in Response
    /\ ADIv5_WRDATA \in Command /\ cmdq \in Seq(Command)
    /\ req \in Seq(Command) /\ Len(req) <= 1
    /\ respq \in Seq(Response)
    /\ t_bank \in 0..1 /\ t_csw \in 0..7 /\ t_tar \in 0..(AddrSpace - 1)

LEMMA TypeParts == TypeOK <=> Typed
<1>1. ({ENABLE, SEQ, STAT, check_resp, ADIv5_WREN, init_complete, faulted} \subseteq BOOLEAN) <=>
      /\ ENABLE \in BOOLEAN /\ SEQ \in BOOLEAN /\ STAT \in BOOLEAN /\ check_resp \in BOOLEAN
      /\ ADIv5_WREN \in BOOLEAN /\ init_complete \in BOOLEAN /\ faulted \in BOOLEAN
  BY Zenon
<1>2. ({slv_HREADYOUT, slv_HRESP, dslv_HREADYOUT, dslv_HRESP, active} \subseteq BOOLEAN) <=>
      /\ slv_HREADYOUT \in BOOLEAN /\ slv_HRESP \in BOOLEAN
      /\ dslv_HREADYOUT \in BOOLEAN /\ dslv_HRESP \in BOOLEAN /\ active \in BOOLEAN
  BY Zenon
<1>3. ({ahb_wnr, ahb_pending, ahb_latch_data} \subseteq BOOLEAN) <=>
      ahb_wnr \in BOOLEAN /\ ahb_pending \in BOOLEAN /\ ahb_latch_data \in BOOLEAN
  BY Zenon
<1> QED
  BY <1>1, <1>2, <1>3, Zenon DEF TypeOK, Typed

LEMMA CommandsType == TypeOK => Commands \in Seq(Command)
  BY DEF TypeOK, Commands

LEMMA CommandsLen ==
    TypeOK => Len(Commands) = Len(req) + Len(cmdq) + IF ADIv5_WREN THEN 1 ELSE 0
  BY DEF TypeOK, Commands

\* The controller takes commands in order.
LEMMA FifosKeep ==
    TypeOK /\ Fifos =>
      /\ req' \in Seq(Command) /\ Len(req') <= 1 /\ cmdq' \in Seq(Command)
      /\ req' \o cmdq' = Commands
<1> SUFFICES ASSUME TypeOK, Fifos
             PROVE  /\ req' \in Seq(Command) /\ Len(req') <= 1 /\ cmdq' \in Seq(Command)
                    /\ req' \o cmdq' = Commands
  OBVIOUS
<1> DEFINE w == IF ADIv5_WREN THEN <<ADIv5_WRDATA>> ELSE <<>>
<1>1. /\ req \in Seq(Command) /\ cmdq \in Seq(Command) /\ Len(req) <= 1
      /\ w \in Seq(Command)
  BY DEF TypeOK
<1>2. Commands = (req \o cmdq) \o w
  BY DEF Commands
<1>3. CASE req = <<>> /\ cmdq # <<>>
  <2>1. req' = <<Head(cmdq)>> /\ cmdq' = Tail(cmdq) \o w
    BY <1>3 DEF Fifos
  <2> HIDE DEF w
  <2>2. /\ <<Head(cmdq)>> \in Seq(Command) /\ Tail(cmdq) \in Seq(Command)
        /\ cmdq = <<Head(cmdq)>> \o Tail(cmdq) /\ Len(<<Head(cmdq)>>) = 1
    BY <1>1, <1>3
  <2>3. (<<Head(cmdq)>> \o Tail(cmdq)) \o w = <<Head(cmdq)>> \o (Tail(cmdq) \o w)
    BY <1>1, <2>2, ConcatAssociative
  <2>4. req \o cmdq = cmdq
    BY <1>1, <1>3
  <2>5. req' \o cmdq' = Commands
    BY <1>2, <2>1, <2>2, <2>3, <2>4, Zenon
  <2>6. Tail(cmdq) \o w \in Seq(Command)
    BY <1>1, <2>2, ConcatProperties, Zenon
  <2> QED
    BY <2>1, <2>2, <2>5, <2>6
<1>4. CASE ~(req = <<>> /\ cmdq # <<>>)
  <2>1. req' = req /\ cmdq' = cmdq \o w
    BY <1>4, Zenon DEF Fifos
  <2> HIDE DEF w
  <2>2. (req \o cmdq) \o w = req \o (cmdq \o w)
    BY <1>1, ConcatAssociative
  <2> QED
    BY <1>1, <1>2, <2>1, <2>2
<1> QED
  BY <1>3, <1>4

\* An edge at which a command is written puts it behind the others.
LEMMA ClockCommands ==
    TypeOK /\ Fifos =>
      /\ ~ADIv5_WREN' => Commands' = Commands
      /\ ADIv5_WREN' => Commands' = Append(Commands, ADIv5_WRDATA')
<1> SUFFICES ASSUME TypeOK, Fifos
             PROVE  /\ ~ADIv5_WREN' => Commands' = Commands
                    /\ ADIv5_WREN' => Commands' = Append(Commands, ADIv5_WRDATA')
  OBVIOUS
<1>1. req' \o cmdq' = Commands /\ Commands \in Seq(Command)
  BY FifosKeep, CommandsType
<1>2. Commands' = Commands \o (IF ADIv5_WREN' THEN <<ADIv5_WRDATA'>> ELSE <<>>)
  BY <1>1 DEF Commands
<1>3. CASE ~ADIv5_WREN'
  BY <1>1, <1>2, <1>3
<1>4. CASE ADIv5_WREN'
  <2>1. Commands' = Commands \o <<ADIv5_WRDATA'>>
    BY <1>2, <1>4
  <2>2. Append(Commands, ADIv5_WRDATA') = Commands \o <<ADIv5_WRDATA'>>
    BY <1>1
  <2> QED
    BY <1>4, <2>1, <2>2
<1> QED
  BY <1>3, <1>4

LEMMA TailOfConcat ==
    ASSUME NEW S, NEW a \in Seq(S), a # <<>>, NEW r \in Seq(S)
    PROVE  a \o r # <<>> /\ (a \o r)[1] = a[1] /\ Tail(a \o r) = Tail(a) \o r
  OBVIOUS

LEMMA SingleFirst ==
    ASSUME NEW S, NEW a \in Seq(S), Len(a) <= 1, a # <<>>, NEW r \in Seq(S)
    PROVE  a \o r # <<>> /\ (a \o r)[1] = a[1] /\ Tail(a \o r) = r
<1>1. a \o r # <<>> /\ (a \o r)[1] = a[1] /\ Tail(a \o r) = Tail(a) \o r
  BY TailOfConcat
<1>2. Tail(a) = <<>>
  OBVIOUS
<1>3. Tail(a) \o r = r
  BY <1>2
<1> QED
  BY <1>1, <1>3

\* The controller carries out the oldest command.
LEMMA ServedCommands ==
    TypeOK /\ req # <<>> /\ req' = <<>> /\ UNCHANGED <<cmdq, port>> =>
      Commands # <<>> /\ Commands[1] = req[1] /\ Commands' = Tail(Commands)
<1> SUFFICES ASSUME TypeOK, req # <<>>, req' = <<>>, UNCHANGED <<cmdq, port>>
             PROVE  Commands # <<>> /\ Commands[1] = req[1] /\ Commands' = Tail(Commands)
  OBVIOUS
<1> DEFINE w == IF ADIv5_WREN THEN <<ADIv5_WRDATA>> ELSE <<>>
           r == cmdq \o w
<1>1. /\ req \in Seq(Command) /\ cmdq \in Seq(Command) /\ Len(req) <= 1
      /\ w \in Seq(Command) /\ r \in Seq(Command)
  BY DEF TypeOK
<1>2. Commands = (req \o cmdq) \o w /\ Commands' = (<<>> \o cmdq) \o w
  BY DEF Commands, port
<1> HIDE DEF w
<1>3. Commands = req \o r /\ Commands' = r
  <2>1. (req \o cmdq) \o w = req \o (cmdq \o w)
    BY <1>1, ConcatAssociative
  <2>2. <<>> \o cmdq = cmdq
    BY <1>1
  <2> QED
    BY <1>2, <2>1, <2>2
<1> HIDE DEF r
<1> QED
  BY <1>1, <1>3, SingleFirst

-----------------------------------------------------------------------------
(* The initial states.                                                     *)

LEMMA InitInv == Init => Inv
<1> SUFFICES ASSUME Init PROVE Inv
  OBVIOUS
<1> USE SpaceAssumption, CtrAssumption DEF Init, Invalid
<1>1. Commands = <<>> /\ Len(Commands) = 0 /\ Outstanding = 0
  BY DEF Commands, Outstanding
<1>2. TypeOK
  <2>1. /\ ENABLE \in BOOLEAN /\ SEQ \in BOOLEAN /\ STAT \in BOOLEAN /\ check_resp \in BOOLEAN
        /\ ADIv5_WREN \in BOOLEAN /\ init_complete \in BOOLEAN /\ faulted \in BOOLEAN
        /\ slv_HREADYOUT \in BOOLEAN /\ slv_HRESP \in BOOLEAN
        /\ dslv_HREADYOUT \in BOOLEAN /\ dslv_HRESP \in BOOLEAN /\ active \in BOOLEAN
        /\ ahb_wnr \in BOOLEAN /\ ahb_pending \in BOOLEAN /\ ahb_latch_data \in BOOLEAN
    BY DEF Default!Init
  <2>2. bus \in Offers /\ state \in Starting \cup Working
    BY DEF Offers, Starting
  <2>3. resp \in Response /\ ADIv5_RDDATA \in Response /\ ADIv5_WRDATA \in Command
    BY DEF Response, Command, SelectBank, Cmd
  <2>4. /\ cmdq \in Seq(Command) /\ req \in Seq(Command) /\ Len(req) <= 1
        /\ respq \in Seq(Response)
    OBVIOUS
  <2>5. /\ slv_HRDATA \in Nat /\ ahb_addr \in 0..(AddrSpace - 1) /\ ahb_req_sz \in 0..2
        /\ ahb_data \in Nat
        /\ sel \in 0..1 /\ csw \in 0..7 /\ tar \in 0..(AddrSpace - 1)
        /\ resp_pending \in 0..(CtrMod - 1) /\ resp_recvd \in 0..(CtrMod - 1)
        /\ t_bank \in 0..1 /\ t_csw \in 0..7 /\ t_tar \in 0..(AddrSpace - 1)
    BY DEF Configured, Word
  <2> QED
    BY <2>1, <2>2, <2>3, <2>4, <2>5, TypeParts, Zenon DEF Typed
<1>3. NoOverflow /\ Counted
  BY <1>1 DEF NoOverflow, Counted
<1>4. Short
  BY <1>1 DEF Short, Left
<1>5. Off /\ On /\ Failing /\ Sequential
  BY DEF Off, On, Failing, Sequential, Default!Init, Working, Routing
<1>6. Prepared
  BY <1>1 DEF Prepared
<1>7. CachesRight /\ CswRead /\ Routed /\ Accessed
  BY DEF CachesRight, CswRead, Routed, Accessed
<1>8. Performed
  BY DEF Performed
<1> QED
  BY <1>2, <1>3, <1>4, <1>5, <1>6, <1>7, <1>8 DEF Inv

-----------------------------------------------------------------------------
(* The command port.                                                       *)

\* A command is written and counted, none is, or the counters are reset.
Issues ==
    /\ state \in Issuing /\ ~Inhibit
    /\ ADIv5_WREN' /\ ADIv5_WRDATA' \in Command
    /\ resp_pending' = (resp_pending + 1) % CtrMod
Holds == ~ADIv5_WREN' /\ UNCHANGED <<ADIv5_WRDATA, resp_pending>>
Resets ==
    /\ state = "DISABLED" /\ ~ENABLE
    /\ ~ADIv5_WREN' /\ resp_pending' = 0 /\ ADIv5_WRDATA' = ADIv5_WRDATA

LEMMA CommandType ==
    TypeOK =>
      /\ \A b \in 0..1 : SelectBank(b) \in Command
      /\ \A c \in 0..7 : ApWrite(CSW, c) \in Command
      /\ ApRead(CSW) \in Command
      /\ ApWrite(TAR, ahb_addr) \in Command
      /\ \A a \in 0..3 : Access(a) \in Command
      /\ DRW \in 0..3 /\ (ahb_addr \div 4) % 4 \in 0..3
<1> SUFFICES ASSUME TypeOK
             PROVE  /\ \A b \in 0..1 : SelectBank(b) \in Command
                    /\ \A c \in 0..7 : ApWrite(CSW, c) \in Command
                    /\ ApRead(CSW) \in Command
                    /\ ApWrite(TAR, ahb_addr) \in Command
                    /\ \A a \in 0..3 : Access(a) \in Command
                    /\ DRW \in 0..3 /\ (ahb_addr \div 4) % 4 \in 0..3
  OBVIOUS
<1>1. ahb_addr \in Nat /\ ahb_data \in Nat
  BY DEF TypeOK
<1> QED
  BY <1>1 DEF Command, SelectBank, ApWrite, ApRead, Cmd, CSW, TAR, DRW, Access

\* The values that the port's CSW takes.
LEMMA CswType ==
    ASSUME NEW c \in 0..7
    PROVE  Width(c) \in 0..3 /\ Inc(c) \in 0..1 /\ c % 8 = c
  BY DEF Width, Inc

LEMMA CswParts ==
    ASSUME NEW i \in 0..1, NEW w \in 0..3
    PROVE  4 * i + w \in 0..7 /\ Width(4 * i + w) = w /\ Inc(4 * i + w) = i
  BY DEF Width, Inc

LEMMA UpdatedType ==
    TypeOK => 4 * (IF SEQ THEN 1 ELSE 0) + Width(csw) \in 0..7 /\ 4 * Inc(csw) + ahb_req_sz \in 0..7
<1> SUFFICES ASSUME TypeOK
             PROVE  /\ 4 * (IF SEQ THEN 1 ELSE 0) + Width(csw) \in 0..7
                    /\ 4 * Inc(csw) + ahb_req_sz \in 0..7
  OBVIOUS
<1>1. csw \in 0..7 /\ ahb_req_sz \in 0..2
  BY DEF TypeOK
<1>2. Width(csw) \in 0..3 /\ Inc(csw) \in 0..1
  BY <1>1, CswType
<1>3. (IF SEQ THEN 1 ELSE 0) \in 0..1
  OBVIOUS
<1> QED
  BY <1>1, <1>2, <1>3

LEMMA StepPort == Inv /\ Step => Issues \/ Holds \/ Resets
<1> SUFFICES ASSUME Inv, Step PROVE Issues \/ Holds \/ Resets
  OBVIOUS
<1>1. TypeOK
  BY DEF Inv
<1> USE DEF Issues, Holds, KeepPort, Issue, Issuing
<1>2. CASE Inhibited
  BY <1>2 DEF Inhibited
<1>3. CASE Disabled
  <2>1. ENABLE => ~ADIv5_WREN
    BY <1>1, <1>3, CommandsLen DEF Disabled, Inv, Counted, Outstanding, TypeOK
  <2> QED
    BY <1>3, <2>1 DEF Disabled, Resets
<1>4. CASE WriteDpSelect
  BY <1>1, <1>4, CommandType DEF WriteDpSelect
<1>5. CASE CacheApCsw
  BY <1>1, <1>5, CommandType DEF CacheApCsw
<1>6. CASE ReadApCsw
  BY <1>6 DEF ReadApCsw
<1>7. CASE UpdateApCsw
  BY <1>1, <1>7, CommandType, UpdatedType DEF UpdateApCsw
<1>8. CASE Idle
  BY <1>8 DEF Idle
<1>9. CASE SelectBank0
  BY <1>1, <1>9, CommandType DEF SelectBank0
<1>10. CASE SelectBank1
  BY <1>1, <1>10, CommandType DEF SelectBank1
<1>11. CASE SetCsw
  BY <1>1, <1>11, CommandType, UpdatedType DEF SetCsw
<1>12. CASE SetTar
  BY <1>1, <1>12, CommandType DEF SetTar
<1>13. CASE AccessDrw
  BY <1>1, <1>13, CommandType DEF AccessDrw, Access
<1>14. CASE AccessBdn
  BY <1>1, <1>14, CommandType DEF AccessBdn, Access
<1>15. CASE AhbResp
  BY <1>15 DEF AhbResp
<1>16. CASE ErrorWait
  <2>1. ENABLE /\ Outstanding = 0
    BY <1>16 DEF ErrorWait, Inv, Off, Performed
  <2>2. ~ADIv5_WREN
    BY <1>1, <2>1, CommandsLen DEF Outstanding, TypeOK
  <2> QED
    BY <1>16, <2>2 DEF ErrorWait, port
<1> QED
  BY <1>2, <1>3, <1>4, <1>5, <1>6, <1>7, <1>8, <1>9, <1>10, <1>11, <1>12, <1>13, <1>14,
     <1>15, <1>16 DEF Step

-----------------------------------------------------------------------------
(* Counting.                                                               *)

\* How many a counter is ahead of another, modulo m.
LEMMA Ahead ==
    ASSUME NEW m \in Nat, m > 1, NEW a \in 0..(m - 1), NEW b \in 0..(m - 1)
    PROVE  /\ (a - b) % m = IF a >= b THEN a - b ELSE (a - b) + m
           /\ (a + 1) % m = IF a = m - 1 THEN 0 ELSE a + 1
<1>1. a >= b => (a - b) % m = a - b
  BY ModSmall
<1>2. a < b => (a - b) % m = (a - b) + m
  BY ModBelow
<1>3. a # m - 1 => (a + 1) % m = a + 1
  BY ModSmall
<1>4. a = m - 1 => (a + 1) % m = 0
  <2>1. a = m - 1 => a + 1 = m
    OBVIOUS
  <2> QED
    BY <2>1, ModWrap
<1> QED
  BY <1>1, <1>2, <1>3, <1>4

Gap(a, b) == (a - b) % CtrMod
After(a) == (a + 1) % CtrMod

LEMMA Counting ==
    ASSUME NEW a \in 0..(CtrMod - 1), NEW b \in 0..(CtrMod - 1)
    PROVE  /\ Gap(a, b) \in 0..(CtrMod - 1)
           /\ After(a) \in 0..(CtrMod - 1)
           /\ Gap(a, b) = 0 <=> a = b
           /\ After(a) # b => Gap(a, b) + 1 < CtrMod /\ Gap(After(a), b) = Gap(a, b) + 1
           /\ Gap(a, b) > 0 => Gap(a, After(b)) = Gap(a, b) - 1
<1> DEFINE n == Gap(a, b)
           a1 == After(a)
           b1 == After(b)
           m == CtrMod
<1>0. m \in Nat /\ m > 1
  BY CtrAssumption
<1>1. n = IF a >= b THEN a - b ELSE (a - b) + m
  BY <1>0, Ahead DEF Gap
<1>2. a1 = (IF a = m - 1 THEN 0 ELSE a + 1) /\ b1 = (IF b = m - 1 THEN 0 ELSE b + 1)
  BY <1>0, Ahead DEF After
<1> HIDE DEF n, a1, b1
<1>3. a1 \in 0..(m - 1) /\ b1 \in 0..(m - 1) /\ n \in 0..(m - 1)
  BY <1>0, <1>1, <1>2
<1>4. Gap(a1, b) = IF a1 >= b THEN a1 - b ELSE (a1 - b) + m
  BY <1>0, <1>3, Ahead DEF Gap
<1>5. Gap(a, b1) = IF a >= b1 THEN a - b1 ELSE (a - b1) + m
  BY <1>0, <1>3, Ahead DEF Gap
<1> HIDE DEF m
<1>6. n = 0 <=> a = b
  BY <1>0, <1>1 DEF m
<1>7. a1 # b => n + 1 < m /\ Gap(a1, b) = n + 1
  BY <1>0, <1>1, <1>2, <1>4 DEF m
<1>8. n > 0 => Gap(a, b1) = n - 1
  BY <1>0, <1>1, <1>2, <1>5 DEF m
<1> QED
  BY <1>3, <1>6, <1>7, <1>8 DEF n, a1, b1, m

\* Responses under way.
Incoming == Len(respq) + IF check_resp THEN 1 ELSE 0

LEMMA OutstandingParts ==
    TypeOK => /\ Len(Commands) \in Nat /\ Incoming \in Nat
              /\ Outstanding = Len(Commands) + Incoming
<1> SUFFICES ASSUME TypeOK
             PROVE  /\ Len(Commands) \in Nat /\ Incoming \in Nat
                    /\ Outstanding = Len(Commands) + Incoming
  OBVIOUS
<1>1. Commands \in Seq(Command)
  BY CommandsType
<1>2. respq \in Seq(Response)
  BY DEF TypeOK
<1> QED
  BY <1>1, <1>2 DEF Outstanding, Incoming

LEMMA ReceiveType ==
    TypeOK /\ Fifos /\ Receive =>
      /\ respq' \in Seq(Response) /\ ADIv5_RDDATA' \in Response /\ resp' \in Response
      /\ resp_recvd' \in 0..(CtrMod - 1)
<1> SUFFICES ASSUME TypeOK, Fifos, Receive
             PROVE  /\ respq' \in Seq(Response) /\ ADIv5_RDDATA' \in Response
                    /\ resp' \in Response /\ resp_recvd' \in 0..(CtrMod - 1)
  OBVIOUS
<1>1. /\ respq \in Seq(Response) /\ ADIv5_RDDATA \in Response /\ resp \in Response
      /\ resp_recvd \in 0..(CtrMod - 1)
  BY DEF TypeOK
<1>2. respq' \in Seq(Response) /\ ADIv5_RDDATA' \in Response
  BY <1>1 DEF Fifos, RDEN
<1>3. (resp_recvd + 1) % CtrMod \in 0..(CtrMod - 1)
  BY <1>1, CtrAssumption, ModRange
<1>4. resp' \in Response /\ resp_recvd' \in 0..(CtrMod - 1)
  BY <1>1, <1>3, CtrAssumption DEF Receive, responses
<1> QED
  BY <1>2, <1>4

\* A response looked at is counted.
LEMMA ReceiveCounts ==
    TypeOK /\ Fifos /\ Receive =>
      /\ ENABLE => IF check_resp
                   THEN Incoming' = Incoming - 1 /\ resp_recvd' = (resp_recvd + 1) % CtrMod
                   ELSE Incoming' = Incoming /\ resp_recvd' = resp_recvd
      /\ ~ENABLE => Incoming' <= Incoming /\ Incoming' \in Nat
<1> SUFFICES ASSUME TypeOK, Fifos, Receive
             PROVE  /\ ENABLE => IF check_resp
                                 THEN /\ Incoming' = Incoming - 1
                                      /\ resp_recvd' = (resp_recvd + 1) % CtrMod
                                 ELSE Incoming' = Incoming /\ resp_recvd' = resp_recvd
                    /\ ~ENABLE => Incoming' <= Incoming /\ Incoming' \in Nat
  OBVIOUS
<1>1. respq \in Seq(Response) /\ Len(respq) \in Nat
  BY DEF TypeOK
<1>2. CASE respq = <<>>
  <2>1. respq' = <<>> /\ ~RDEN
    BY <1>2 DEF Fifos, RDEN
  <2>2. Len(respq) = 0 /\ Len(respq') = 0
    BY <1>2, <2>1
  <2> QED
    BY <2>1, <2>2 DEF Receive, responses, Incoming
<1>3. CASE respq # <<>>
  <2>1. respq' = Tail(respq) /\ RDEN
    BY <1>3 DEF Fifos, RDEN
  <2>2. Len(respq') = Len(respq) - 1 /\ Len(respq') \in Nat
    BY <1>1, <1>3, <2>1
  <2>3. /\ ENABLE => check_resp'
        /\ ~ENABLE => ~check_resp' \/ check_resp' = check_resp
    BY <2>1 DEF Receive, responses
  <2>4. Len(respq) > 0
    BY <1>1, <2>2
  <2>5. CASE ENABLE
    <3>1. Incoming' = Len(respq') + 1
      BY <2>3, <2>5 DEF Incoming
    <3>2. IF check_resp THEN resp_recvd' = (resp_recvd + 1) % CtrMod ELSE resp_recvd' = resp_recvd
      BY <2>5 DEF Receive
    <3> QED
      BY <1>1, <2>2, <2>5, <3>1, <3>2 DEF Incoming
  <2>6. CASE ~ENABLE
    BY <1>1, <2>2, <2>3, <2>6 DEF Incoming
  <2> QED
    BY <2>5, <2>6
<1> QED
  BY <1>2, <1>3

LEMMA StepEnabled == Inv /\ Step => (ENABLE => state' # "DISABLED")
<1> SUFFICES ASSUME Inv, Step, ENABLE PROVE state' # "DISABLED"
  OBVIOUS
<1> QED
  BY DEF Step, Inhibited, Disabled, WriteDpSelect, CacheApCsw, ReadApCsw, UpdateApCsw, Idle,
         SelectBank0, SelectBank1, SetCsw, SetTar, AccessDrw, AccessBdn, AhbResp, ErrorWait,
         Issue, Stay, Route, Issuing

LEMMA ClockCounted == Inv /\ Fifos /\ Receive /\ Step /\ UNCHANGED ENABLE => Counted'
<1> SUFFICES ASSUME Inv, Fifos, Receive, Step, UNCHANGED ENABLE PROVE Counted'
  OBVIOUS
<1>1. TypeOK
  BY DEF Inv
<1>2. Commands \in Seq(Command) /\ Len(Commands) \in Nat
  BY <1>1, CommandsType
<1>3. Outstanding = Len(Commands) + Incoming /\ Incoming \in Nat /\ Outstanding < CtrMod
  BY <1>1, OutstandingParts DEF Inv, Counted
<1>4. Outstanding' = Len(Commands') + Incoming'
  BY DEF Outstanding, Incoming
<1>5. Commands' = Commands \/ (ADIv5_WREN' /\ Len(Commands') = Len(Commands) + 1)
  BY <1>1, <1>2, ClockCommands
<1>6. CASE ~ENABLE
  <2>1. ~ADIv5_WREN'
    BY <1>6, StepPort DEF Issues, Holds, Resets, Inv, Off, Issuing
  <2>2. Len(Commands') = Len(Commands)
    BY <1>5, <2>1
  <2>3. Incoming' <= Incoming /\ Incoming' \in Nat
    BY <1>1, <1>6, ReceiveCounts
  <2>4. Outstanding' < CtrMod
    BY <1>2, <1>3, <1>4, <2>2, <2>3, CtrAssumption
  <2> QED
    BY <1>6, <2>4 DEF Counted
<1>7. CASE ENABLE
  <2> DEFINE a == resp_pending
             b == resp_recvd
             n == Outstanding
             b1 == After(b)
             a1 == After(a)
  <2>1. n = Gap(a, b) /\ n < CtrMod
    BY <1>7 DEF Inv, Counted, Gap
  <2>2. a \in 0..(CtrMod - 1) /\ b \in 0..(CtrMod - 1)
    BY <1>1 DEF TypeOK
  <2>3. check_resp => n > 0 /\ Incoming > 0
    BY <1>1, <1>2, <1>3 DEF Incoming, TypeOK
  <2>4. /\ check_resp => Incoming' = Incoming - 1 /\ resp_recvd' = b1
        /\ ~check_resp => Incoming' = Incoming /\ resp_recvd' = b
    BY <1>1, <1>7, ReceiveCounts DEF After
  <2> HIDE DEF a, b
  <2>5. a1 \in 0..(CtrMod - 1)
    BY <2>2, Counting
  <2>6. a1 # b => n + 1 < CtrMod /\ Gap(a1, b) = n + 1
    BY <2>1, <2>2, Counting
  <2>7. n > 0 => Gap(a, b1) = n - 1
    BY <2>1, <2>2, Counting
  <2> HIDE DEF a1
  <2>8. Gap(a1, b) > 0 => Gap(a1, b1) = Gap(a1, b) - 1
    BY <2>2, <2>5, Counting
  <2>9. CASE Issues
    <3>1. a1 # b /\ resp_pending' = a1 /\ ADIv5_WREN'
      BY <2>9 DEF Issues, Inhibit, a, b, a1, After
    <3>2. Len(Commands') = Len(Commands) + 1
      BY <1>1, <1>2, <3>1, ClockCommands DEF Issues
    <3> HIDE DEF b1, n
    <3>3. check_resp => Outstanding' = n /\ Gap(a1, b1) = n
      BY <1>2, <1>3, <1>4, <2>3, <2>4, <2>6, <2>8, <3>1, <3>2 DEF n
    <3>4. ~check_resp => Outstanding' = n + 1 /\ Gap(a1, b) = n + 1
      BY <1>2, <1>3, <1>4, <2>4, <2>6, <3>1, <3>2 DEF n
    <3>5. Outstanding' < CtrMod /\ Outstanding' = Gap(resp_pending', resp_recvd')
      BY <2>1, <2>4, <2>6, <3>1, <3>3, <3>4
    <3> QED
      BY <1>7, <3>5, StepEnabled DEF Counted, Gap
  <2>10. CASE Holds
    <3>1. resp_pending' = a /\ Commands' = Commands
      BY <1>1, <2>10, ClockCommands DEF Holds, a
    <3> HIDE DEF b1, n
    <3>2. check_resp => Outstanding' = n - 1 /\ Gap(a, b1) = n - 1
      BY <1>2, <1>3, <1>4, <2>3, <2>4, <2>7, <3>1 DEF n
    <3>3. ~check_resp => Outstanding' = n
      BY <1>2, <1>3, <1>4, <2>4, <3>1 DEF n
    <3>4. n \in Nat
      BY <1>2, <1>3 DEF n
    <3>5. Outstanding' < CtrMod /\ Outstanding' = Gap(resp_pending', resp_recvd')
      <4>1. check_resp => Outstanding' < CtrMod /\ Outstanding' = Gap(a, b1)
        BY <2>1, <3>2, <3>4, CtrAssumption
      <4>2. ~check_resp => Outstanding' < CtrMod /\ Outstanding' = Gap(a, b)
        BY <2>1, <3>3
      <4> QED
        BY <2>4, <3>1, <4>1, <4>2
    <3> QED
      BY <1>7, <3>5, StepEnabled DEF Counted, Gap
  <2> QED
    BY <1>7, <2>9, <2>10, StepPort DEF Resets
<1> QED
  BY <1>6, <1>7

LEMMA NoneOutstanding ==
    TypeOK => (Outstanding = 0 <=> Commands = <<>> /\ respq = <<>> /\ ~check_resp)
<1> SUFFICES ASSUME TypeOK
             PROVE  Outstanding = 0 <=> Commands = <<>> /\ respq = <<>> /\ ~check_resp
  OBVIOUS
<1>1. Commands \in Seq(Command) /\ respq \in Seq(Response)
  BY CommandsType DEF TypeOK
<1> QED
  BY <1>1 DEF Outstanding

LEMMA Complete == Inv /\ ENABLE => (cmd_complete <=> Outstanding = 0)
<1> SUFFICES ASSUME Inv, ENABLE PROVE cmd_complete <=> Outstanding = 0
  OBVIOUS
<1>1. Outstanding = Gap(resp_pending, resp_recvd)
  BY DEF Inv, Counted, Gap
<1>2. resp_pending \in 0..(CtrMod - 1) /\ resp_recvd \in 0..(CtrMod - 1)
  BY DEF Inv, TypeOK
<1> QED
  BY <1>1, <1>2, Counting DEF cmd_complete

LEMMA LeftType == TypeOK => Left \in 0..5
  BY DEF TypeOK, Left

LEMMA LeftStep ==
    Inv /\ Step /\ UNCHANGED soft =>
      \/ Issues /\ Left' + 1 <= Left
      \/ ~ADIv5_WREN' /\ (Left' <= Left \/ Outstanding = 0)
<1> SUFFICES ASSUME Inv, Step, UNCHANGED soft
             PROVE  \/ Issues /\ Left' + 1 <= Left
                    \/ ~ADIv5_WREN' /\ (Left' <= Left \/ Outstanding = 0)
  OBVIOUS
<1>1. Issues \/ Holds \/ Resets
  BY StepPort
<1>2. TypeOK /\ SEQ' = SEQ /\ ENABLE' = ENABLE /\ sel \in 0..1
  BY DEF Inv, TypeOK, soft
<1> USE DEF Left, KeepPort, Issue, Issuing, Stay
<1>3. CASE Inhibited
  <2>1. ~ENABLE => state \notin Issuing
    BY DEF Inv, Off
  <2>2. ~ADIv5_WREN' /\ state' = state /\ sel' = sel /\ init_complete' = init_complete
    BY <1>3, <2>1 DEF Inhibited
  <2> QED
    BY <1>2, <1>3, <2>2 DEF Inhibited
<1>4. CASE Disabled
  <2>1. ~ADIv5_WREN' /\ (ENABLE => Outstanding = 0)
    BY <1>1, <1>4 DEF Disabled, Issues, Holds, Resets, Inv, Counted
  <2> QED
    BY <1>2, <1>4, <2>1 DEF Disabled
<1>5. CASE WriteDpSelect
  BY <1>1, <1>2, <1>5 DEF WriteDpSelect, Issues, Holds, Resets
<1>6. CASE CacheApCsw
  BY <1>1, <1>2, <1>6 DEF CacheApCsw, Issues, Holds, Resets
<1>7. CASE ReadApCsw
  <2>1. cmd_complete => Outstanding = 0
    BY <1>7, Complete DEF ReadApCsw, Inv, Off
  <2> QED
    BY <1>2, <1>7, <2>1 DEF ReadApCsw
<1>8. CASE UpdateApCsw
  <2>1. sel = 0 /\ sel' = sel /\ state' = "IDLE"
    BY <1>8 DEF UpdateApCsw, Inv, Off, Routed
  <2>2. ~SeqChanged'
    <3>1. csw' = 4 * (IF SEQ THEN 1 ELSE 0) + Width(csw) /\ Width(csw) \in 0..3
      BY <1>2, <1>8, CswType DEF UpdateApCsw, TypeOK
    <3> DEFINE i == IF SEQ THEN 1 ELSE 0
    <3>2. i \in 0..1
      OBVIOUS
    <3> HIDE DEF i
    <3>3. Inc(4 * i + Width(csw)) = i
      BY <3>1, <3>2, CswParts
    <3>4. Inc(csw') = i
      BY <3>1, <3>3 DEF i
    <3> QED
      BY <1>2, <3>4 DEF SeqChanged, i
  <2>3. Issues
    BY <1>1, <1>8 DEF UpdateApCsw, Holds, Resets
  <2> QED
    BY <1>8, <2>1, <2>2, <2>3 DEF UpdateApCsw
<1>9. CASE Idle
  <2>1. SeqChanged => init_complete /\ ENABLE
    BY <1>9 DEF Idle, Inv, Off, Sequential
  <2>2. state' = "IDLE" => (SeqChanged' <=> SeqChanged)
    BY <1>2, <1>9 DEF Idle, SeqChanged
  <2>3. SeqChanged => state' = "WRITE_DPSELECT"
    BY <1>9 DEF Idle
  <2> QED
    BY <1>2, <1>9, <2>1, <2>2, <2>3 DEF Idle, Route
<1>10. CASE SelectBank0
  BY <1>1, <1>2, <1>10 DEF SelectBank0, Issues, Holds, Resets
<1>11. CASE SelectBank1
  BY <1>1, <1>2, <1>11 DEF SelectBank1, Issues, Holds, Resets
<1>12. CASE SetCsw
  BY <1>1, <1>2, <1>12 DEF SetCsw, Issues, Holds, Resets
<1>13. CASE SetTar
  BY <1>1, <1>2, <1>13 DEF SetTar, Issues, Holds, Resets
<1>14. CASE AccessDrw
  BY <1>1, <1>2, <1>14 DEF AccessDrw, Issues, Holds, Resets
<1>15. CASE AccessBdn
  BY <1>1, <1>2, <1>15 DEF AccessBdn, Issues, Holds, Resets
<1>16. CASE AhbResp
  <2>1. cmd_complete => Outstanding = 0
    BY <1>16, Complete DEF AhbResp, Inv, Off
  <2> QED
    BY <1>2, <1>16, <2>1 DEF AhbResp
<1>17. CASE ErrorWait
  <2>1. Outstanding = 0 /\ ~ADIv5_WREN'
    BY <1>1, <1>17 DEF ErrorWait, Inv, Off, Performed, Issues, Holds, Resets
  <2> QED
    BY <2>1
<1> QED
  BY <1>3, <1>4, <1>5, <1>6, <1>7, <1>8, <1>9, <1>10, <1>11, <1>12, <1>13, <1>14, <1>15,
     <1>16, <1>17 DEF Step

\* The controller that is free after an edge had at most one command to take.
LEMMA FifosTake == TypeOK /\ Fifos => (req' = <<>> => Len(cmdq') <= 1)
<1> SUFFICES ASSUME TypeOK, Fifos, req' = <<>> PROVE Len(cmdq') <= 1
  OBVIOUS
<1>1. cmdq = <<>>
  <2>1. CASE req = <<>> /\ cmdq # <<>>
    <3>1. req' = <<Head(cmdq)>>
      BY <2>1 DEF Fifos
    <3> QED
      BY <3>1
  <2>2. CASE req # <<>>
    BY <2>2, Zenon DEF Fifos
  <2> QED
    BY <2>1, <2>2
<1>2. cmdq' = <<>> \o (IF ADIv5_WREN THEN <<ADIv5_WRDATA>> ELSE <<>>)
  BY <1>1 DEF Fifos
<1>3. CASE ADIv5_WREN
  <2>1. cmdq' = <<>> \o <<ADIv5_WRDATA>> /\ ADIv5_WRDATA \in Command
    BY <1>2, <1>3 DEF TypeOK
  <2> HIDE DEF Command
  <2>2. cmdq' = <<ADIv5_WRDATA>>
    BY <2>1
  <2> QED
    BY <2>2
<1>4. CASE ~ADIv5_WREN
  BY <1>2, <1>4
<1> QED
  BY <1>3, <1>4

LEMMA ClockLens ==
    TypeOK /\ Fifos =>
      /\ Len(req') \in 0..1 /\ Len(cmdq') \in Nat
      /\ Len(Commands) \in Nat /\ Len(req') + Len(cmdq') = Len(Commands)
      /\ Len(req') = 0 => Len(cmdq') <= 1
      /\ ~ADIv5_WREN' => Len(Commands') = Len(Commands)
      /\ ADIv5_WREN' => Len(Commands') = Len(Commands) + 1
<1> SUFFICES ASSUME TypeOK, Fifos
             PROVE  /\ Len(req') \in 0..1 /\ Len(cmdq') \in Nat
                    /\ Len(Commands) \in Nat /\ Len(req') + Len(cmdq') = Len(Commands)
                    /\ Len(req') = 0 => Len(cmdq') <= 1
                    /\ ~ADIv5_WREN' => Len(Commands') = Len(Commands)
                    /\ ADIv5_WREN' => Len(Commands') = Len(Commands) + 1
  OBVIOUS
<1>1. /\ req' \in Seq(Command) /\ Len(req') <= 1 /\ cmdq' \in Seq(Command)
      /\ req' \o cmdq' = Commands
  BY FifosKeep
<1>2. Len(req') \in 0..1 /\ Len(cmdq') \in Nat
  <2>1. Len(req') \in Nat /\ Len(cmdq') \in Nat
    BY <1>1, LenProperties
  <2>2. \A n \in Nat : n <= 1 => n \in 0..1
    OBVIOUS
  <2> QED
    BY <1>1, <2>1, <2>2, Zenon
<1>3. Len(req' \o cmdq') = Len(req') + Len(cmdq')
  BY <1>1, ConcatProperties
<1>4. Len(req') = 0 => req' = <<>>
  BY <1>1
<1>5. Commands \in Seq(Command) /\ Len(Commands) \in Nat
  BY CommandsType
<1>6. ADIv5_WREN' => Len(Commands') = Len(Commands) + 1
  BY <1>5, ClockCommands
<1> QED
  BY <1>1, <1>2, <1>3, <1>4, <1>5, <1>6, ClockCommands, FifosTake

LEMMA ClockShort == Inv /\ Fifos /\ Step /\ UNCHANGED soft => Short' /\ Left' \in Nat
<1> SUFFICES ASSUME Inv, Fifos, Step, UNCHANGED soft PROVE Short' /\ Left' \in Nat
  OBVIOUS
<1>1. TypeOK
  BY DEF Inv
<1> DEFINE c == Len(Commands)
           q == Len(cmdq')
           r == Len(req')
           l == Left'
<1>2. /\ r \in 0..1 /\ q \in Nat /\ c \in Nat /\ r + q = c /\ (r = 0 => q <= 1)
      /\ ~ADIv5_WREN' => Len(Commands') = c
      /\ ADIv5_WREN' => Len(Commands') = c + 1
  BY <1>1, ClockLens
<1>3. Outstanding = 0 => c = 0
  BY <1>1, NoneOutstanding
<1>4. Left \in 0..5 /\ c + Left <= 5
  BY <1>1, LeftType DEF Inv, Short
<1>5. sel' \in 0..1
  BY <1>1 DEF Step, Inhibited, Disabled, WriteDpSelect, CacheApCsw, ReadApCsw, UpdateApCsw,
     Idle, SelectBank0, SelectBank1, SetCsw, SetTar, AccessDrw, AccessBdn, AhbResp, ErrorWait,
     TypeOK
<1>6. l \in 0..5
  BY <1>5 DEF Left
<1>7. \/ ADIv5_WREN' /\ l + 1 <= Left
      \/ ~ADIv5_WREN' /\ (l <= Left \/ Outstanding = 0)
  BY LeftStep DEF Issues
<1> HIDE DEF c, q, r, l
<1>8. Len(Commands') + l <= 5 /\ (Len(Commands') - r + l = 5 => q <= 1)
  BY <1>2, <1>3, <1>4, <1>6, <1>7
<1> QED
  BY <1>6, <1>8 DEF Short, q, r, l

LEMMA ClockRoom ==
    TypeOK /\ Fifos /\ Short' /\ Counted' /\ Left' \in Nat /\ Incoming' \in Nat
      /\ Outstanding' = Len(Commands') + Incoming' => NoOverflow'
<1> SUFFICES ASSUME TypeOK, Fifos, Short', Counted', Left' \in Nat, Incoming' \in Nat,
                    Outstanding' = Len(Commands') + Incoming', ADIv5_WREN'
             PROVE  Len(cmdq') < Depth
  BY DEF NoOverflow
<1> DEFINE c == Len(Commands)
           q == Len(cmdq')
           r == Len(req')
           l == Left'
           i == Incoming'
<1>1. /\ r \in 0..1 /\ q \in Nat /\ c \in Nat /\ r + q = c /\ (r = 0 => q <= 1)
      /\ Len(Commands') = c + 1
  BY ClockLens
<1>2. c + 1 + l <= 5 /\ (c + 1 - r + l = 5 => q <= 1) /\ l \in Nat
  BY <1>1 DEF Short
<1>3. c + 1 + i < CtrMod /\ i \in Nat
  BY <1>1 DEF Counted
<1> HIDE DEF c, q, r, l, i
<1>4. CASE Depth >= 4
  BY <1>1, <1>2, <1>4, CtrAssumption DEF q
<1>5. CASE Depth >= 2 /\ CtrMod <= Depth + 2
  BY <1>1, <1>3, <1>5, CtrAssumption DEF q
<1> QED
  BY <1>4, <1>5, RoomAssumption

-----------------------------------------------------------------------------
(* The transfer.                                                           *)

\* At an edge a transfer is latched, the bus becomes idle, or one waits.
Takes(t) ==
    /\ bus = <<>> \/ HREADYOUT
    /\ bus' = <<t>>
    /\ ~slv_HREADYOUT' /\ ahb_pending'
    /\ ahb_latch_data' <=> t.write \/ (ahb_latch_data /\ ~ENABLE /\ state # "DISABLED")
    /\ ahb_addr' = t.addr /\ ahb_wnr' = t.write /\ ahb_req_sz' = t.size
    /\ ahb_data' = IF ahb_latch_data /\ ENABLE THEN bus[1].data ELSE ahb_data

Keeps ==
    /\ slv_HREADYOUT' <=> slv_HREADYOUT \/ Released
    /\ ahb_pending' <=> /\ ahb_pending
                        /\ ~(state = "DISABLED" /\ ~ENABLE)
                        /\ ~(state = "IDLE" /\ ~SeqChanged)
    /\ ahb_latch_data' <=> ahb_latch_data /\ ~ENABLE /\ state # "DISABLED"
    /\ ahb_addr' = IF state = "DISABLED" /\ ~ENABLE THEN Invalid ELSE ahb_addr
    /\ ahb_wnr' = ahb_wnr /\ ahb_req_sz' = ahb_req_sz
    /\ ahb_data' = IF ahb_latch_data /\ ENABLE THEN bus[1].data ELSE ahb_data

Rests ==
    /\ bus = <<>> \/ HREADYOUT
    /\ bus' = <<>>
    /\ Keeps

Waits ==
    /\ bus # <<>> /\ ~HREADYOUT
    /\ bus' = bus
    /\ Keeps

LEMMA OfferType == \A ap \in Offers : ap = <<>> \/ (ap = <<ap[1]>> /\ ap[1] \in Transfers)
<1> TAKE ap \in Offers
<1>1. ap = <<>> \/ \E t \in Transfers : ap = <<t>>
  BY DEF Offers
<1>2. ASSUME NEW t \in Transfers, ap = <<t>> PROVE ap = <<ap[1]>> /\ ap[1] \in Transfers
  BY <1>2
<1> QED
  BY <1>1, <1>2

LEMMA LatchTaken ==
    ASSUME NEW ap, NEW taken, taken = TRUE, Latch(ap, taken)
    PROVE  /\ ~slv_HREADYOUT' /\ ahb_pending'
           /\ ahb_latch_data' <=> ap[1].write \/ (ahb_latch_data /\ ~ENABLE /\ state # "DISABLED")
           /\ ahb_addr' = ap[1].addr /\ ahb_wnr' = ap[1].write /\ ahb_req_sz' = ap[1].size
           /\ ahb_data' = IF ahb_latch_data /\ ENABLE THEN bus[1].data ELSE ahb_data
  BY Zenon DEF Latch

LEMMA LatchKeeps ==
    ASSUME NEW ap, NEW taken, taken = FALSE, Latch(ap, taken)
    PROVE  Keeps
  BY Zenon DEF Latch, Keeps

LEMMA ClockBus ==
    ASSUME NEW ap \in Offers, NEW other \in BOOLEAN, TypeOK,
           Bus(ap, other), Latch(ap, ap # <<>> /\ Ready(other))
    PROVE  \/ Takes(ap[1]) /\ ap # <<>> /\ ap[1] \in Transfers
           \/ Rests \/ Waits
<1> DEFINE taken == ap # <<>> /\ Ready(other)
<1>1. ap = <<>> \/ (ap = <<ap[1]>> /\ ap[1] \in Transfers)
  BY OfferType
<1>2. (bus # <<>> /\ ~HREADYOUT) \/ bus = <<>> \/ HREADYOUT
  BY Zenon
<1>3. CASE Ready(other) /\ ap # <<>>
  <2>1. taken = TRUE
    BY <1>3, Zenon
  <2>2. bus = <<>> \/ HREADYOUT
    BY <1>3, Zenon DEF Ready
  <2>3. bus' = ap
    BY <1>3, Zenon DEF Bus
  <2> HIDE DEF taken
  <2>4. Latch(ap, taken)
    BY DEF taken
  <2>5. Takes(ap[1])
    BY <1>1, <1>3, <2>1, <2>2, <2>3, <2>4, LatchTaken, Zenon DEF Takes
  <2> QED
    BY <1>1, <1>3, <2>5
<1>4. CASE Ready(other) /\ ap = <<>>
  <2>1. taken = FALSE
    BY <1>4, Zenon
  <2>2. bus = <<>> \/ HREADYOUT
    BY <1>4, Zenon DEF Ready
  <2>3. bus' = <<>>
    BY <1>4, Zenon DEF Bus
  <2> HIDE DEF taken
  <2>4. Latch(ap, taken)
    BY DEF taken
  <2> QED
    BY <2>1, <2>2, <2>3, <2>4, LatchKeeps, Zenon DEF Rests
<1>5. CASE ~Ready(other)
  <2>1. taken = FALSE
    BY <1>5, Zenon
  <2>2. bus' = bus
    BY <1>5, Zenon DEF Bus
  <2> HIDE DEF taken
  <2>3. Latch(ap, taken)
    BY DEF taken
  <2>4. Keeps
    BY <2>1, <2>3, LatchKeeps, Zenon
  <2>5. CASE bus # <<>> /\ ~HREADYOUT
    BY <2>2, <2>4, <2>5, Zenon DEF Waits
  <2>6. CASE bus = <<>>
    BY <2>2, <2>4, <2>6, Zenon DEF Rests
  <2> QED
    BY <1>5, <2>5, <2>6, Zenon DEF Ready
<1> QED
  BY <1>3, <1>4, <1>5

\* The state machine takes up a transfer in IDLE, and is done with it when it
\* raises HREADYOUT.
LEMMA StateStep ==
    Inv /\ Step =>
      /\ ENABLE /\ state \in Starting =>
           IF state = "IDLE" /\ ~SeqChanged /\ ahb_pending
           THEN state' \in Routing ELSE state' \in Starting
      /\ ENABLE /\ state \in Working => (Released => state' = "IDLE") /\ (~Released => state' \in Working)
      /\ ENABLE /\ state \in Starting => ~Released
      /\ ~ENABLE => state' = "DISABLED"
<1> SUFFICES ASSUME Inv, Step
             PROVE  /\ ENABLE /\ state \in Starting =>
                         IF state = "IDLE" /\ ~SeqChanged /\ ahb_pending
                         THEN state' \in Routing ELSE state' \in Starting
                    /\ ENABLE /\ state \in Working =>
                         (Released => state' = "IDLE") /\ (~Released => state' \in Working)
                    /\ ENABLE /\ state \in Starting => ~Released
                    /\ ~ENABLE => state' = "DISABLED"
  OBVIOUS
<1>0. ~ENABLE => state \in {"IDLE", "DISABLED"} /\ (state = "IDLE" => ~SeqChanged /\ ~ahb_pending)
  BY DEF Inv, Off
<1> USE <1>0 DEF Starting, Working, Routing, Released
<1>1. CASE Inhibited
  BY <1>1 DEF Inhibited, Stay, Issuing
<1>2. CASE Disabled
  BY <1>2 DEF Disabled
<1>3. CASE WriteDpSelect
  BY <1>3 DEF WriteDpSelect, Issue
<1>4. CASE CacheApCsw
  BY <1>4 DEF CacheApCsw, Issue
<1>5. CASE ReadApCsw
  BY <1>5 DEF ReadApCsw, Stay
<1>6. CASE UpdateApCsw
  BY <1>6 DEF UpdateApCsw, Issue
<1>7. CASE Idle
  BY <1>7 DEF Idle, Stay, Route
<1>8. CASE SelectBank0
  BY <1>8 DEF SelectBank0, Issue
<1>9. CASE SelectBank1
  BY <1>9 DEF SelectBank1, Issue
<1>10. CASE SetCsw
  BY <1>10 DEF SetCsw, Issue
<1>11. CASE SetTar
  BY <1>11 DEF SetTar, Issue
<1>12. CASE AccessDrw
  BY <1>12 DEF AccessDrw, Issue
<1>13. CASE AccessBdn
  BY <1>13 DEF AccessBdn, Issue
<1>14. CASE AhbResp
  BY <1>14 DEF AhbResp, Stay
<1>15. CASE ErrorWait
  BY <1>15 DEF ErrorWait
<1> QED
  BY <1>1, <1>2, <1>3, <1>4, <1>5, <1>6, <1>7, <1>8,
     <1>9, <1>10, <1>11, <1>12, <1>13, <1>14, <1>15 DEF Step

LEMMA StepStates == Inv /\ Step => state' \in Starting \cup Working
<1> SUFFICES ASSUME Inv, Step PROVE state' \in Starting \cup Working
  OBVIOUS
<1>1. state \in Starting \cup Working
  BY DEF Inv, TypeOK
<1>2. "IDLE" \in Starting /\ "DISABLED" \in Starting /\ Routing \subseteq Working
  BY DEF Starting, Working
<1>3. ENABLE \in BOOLEAN
  BY TypeParts DEF Inv, Typed
<1> QED
  BY <1>1, <1>2, <1>3, StateStep

LEMMA ClockOn ==
    ASSUME NEW t, Inv, Step, UNCHANGED ENABLE, Takes(t) \/ Rests \/ Waits
    PROVE  On'
<1> SUFFICES ASSUME ENABLE PROVE On'
  BY DEF On
<1>1. ENABLE' /\ HREADYOUT = slv_HREADYOUT
  BY Zenon DEF HREADYOUT
<1>2. state \in Starting \cup Working /\ Starting \cap Working = {}
  BY DEF Inv, TypeOK, Starting, Working, Routing
<1>3. CASE Takes(t)
  <2>1. slv_HREADYOUT /\ state \in Starting /\ ~ahb_pending
    BY <1>1, <1>3 DEF Takes, Inv, On
  <2>2. state' \in Starting
    BY <2>1, StateStep
  <2>3. bus' # <<>> /\ bus'[1] = t
    BY <1>3 DEF Takes
  <2> QED
    BY <1>1, <1>3, <2>2, <2>3 DEF Takes, On
<1>4. CASE Rests
  <2>1. slv_HREADYOUT /\ state \in Starting /\ ~ahb_pending
    BY <1>1, <1>4 DEF Rests, Inv, On
  <2>2. state' \in Starting
    BY <2>1, StateStep
  <2> QED
    BY <1>1, <1>4, <2>1, <2>2 DEF Rests, Keeps, On
<1>5. CASE Waits
  <2>1. /\ ~slv_HREADYOUT /\ bus # <<>> /\ bus' = bus
        /\ ahb_addr = bus[1].addr /\ ahb_wnr = bus[1].write /\ ahb_req_sz = bus[1].size
        /\ ahb_pending <=> state \in Starting
        /\ ahb_latch_data => ahb_pending /\ ahb_wnr
        /\ ahb_wnr => ahb_latch_data \/ ahb_data = bus[1].data
    BY <1>1, <1>5 DEF Waits, Inv, On
  <2>2. CASE Released
    <3>1. state \in Working /\ state' = "IDLE"
      BY <1>2, <2>2, StateStep
    <3> QED
      BY <1>1, <1>2, <1>5, <2>1, <2>2, <3>1 DEF Waits, Keeps, On, Starting
  <2>3. CASE ~Released
    <3>1. /\ ~slv_HREADYOUT' /\ ~ahb_latch_data'
          /\ ahb_addr' = bus'[1].addr /\ ahb_wnr' = bus'[1].write /\ ahb_req_sz' = bus'[1].size
          /\ ahb_wnr' => ahb_data' = bus'[1].data
      BY <1>5, <2>1, <2>3 DEF Waits, Keeps
    <3>2. ahb_pending' <=> state' \in Starting
      <4>1. CASE state \in Starting
        BY <1>2, <1>5, <2>1, <4>1, StateStep DEF Waits, Keeps, Working
      <4>2. CASE state \in Working
        BY <1>2, <1>5, <2>1, <2>3, <4>2, StateStep DEF Waits, Keeps
      <4> QED
        BY <1>2, <4>1, <4>2
    <3> QED
      BY <1>1, <2>1, <3>1, <3>2 DEF On
  <2> QED
    BY <2>2, <2>3
<1> QED
  BY <1>3, <1>4, <1>5

-----------------------------------------------------------------------------
(* Types.                                                                  *)

LEMMA StepBooleans ==
    TypeOK /\ Step =>
      ADIv5_WREN' \in BOOLEAN /\ init_complete' \in BOOLEAN /\ slv_HRESP' \in BOOLEAN
<1> SUFFICES ASSUME TypeOK, Step
             PROVE  /\ ADIv5_WREN' \in BOOLEAN /\ init_complete' \in BOOLEAN
                    /\ slv_HRESP' \in BOOLEAN
  OBVIOUS
<1>0. ADIv5_WREN \in BOOLEAN /\ init_complete \in BOOLEAN /\ slv_HRESP \in BOOLEAN
  BY TypeParts, Zenon DEF Typed
<1>1. CASE Inhibited
  BY <1>0, <1>1, Zenon DEF Inhibited
<1>2. CASE Disabled
  BY <1>0, <1>2, Zenon DEF Disabled
<1>3. CASE WriteDpSelect
  BY <1>0, <1>3, Zenon DEF WriteDpSelect, Issue
<1>4. CASE CacheApCsw
  BY <1>0, <1>4, Zenon DEF CacheApCsw, Issue
<1>5. CASE ReadApCsw
  BY <1>0, <1>5, Zenon DEF ReadApCsw
<1>6. CASE UpdateApCsw
  BY <1>0, <1>6, Zenon DEF UpdateApCsw, Issue
<1>7. CASE Idle
  BY <1>0, <1>7, Zenon DEF Idle
<1>8. CASE SelectBank0
  BY <1>0, <1>8, Zenon DEF SelectBank0, Issue
<1>9. CASE SelectBank1
  BY <1>0, <1>9, Zenon DEF SelectBank1, Issue
<1>10. CASE SetCsw
  BY <1>0, <1>10, Zenon DEF SetCsw, Issue
<1>11. CASE SetTar
  BY <1>0, <1>11, Zenon DEF SetTar, Issue
<1>12. CASE AccessDrw
  BY <1>0, <1>12, Zenon DEF AccessDrw, Issue
<1>13. CASE AccessBdn
  BY <1>0, <1>13, Zenon DEF AccessBdn, Issue
<1>14. CASE AhbResp
  BY <1>0, <1>14, Zenon DEF AhbResp
<1>15. CASE ErrorWait
  BY <1>0, <1>15, Zenon DEF ErrorWait, port
<1> QED
  BY <1>1, <1>2, <1>3, <1>4, <1>5, <1>6, <1>7, <1>8,
     <1>9, <1>10, <1>11, <1>12, <1>13, <1>14, <1>15, Zenon DEF Step

\* An address plus the bytes of an access, in the address space.
LEMMA Stepped ==
    ASSUME NEW a \in 0..(AddrSpace - 1), NEW c \in 0..7
    PROVE  (a + 2^Width(c)) % AddrSpace \in 0..(AddrSpace - 1)
<1>1. Width(c) \in 0..3
  BY CswType
<1>2. 2^Width(c) \in {1, 2, 4, 8}
  BY <1>1, Powers
<1> DEFINE x == a + 2^Width(c)
<1>3. x \in Int
  BY <1>2, SpaceAssumption
<1>4. AddrSpace \in Nat /\ AddrSpace > 0
  BY SpaceAssumption
<1> HIDE DEF x
<1>5. x % AddrSpace \in 0..(AddrSpace - 1)
  BY <1>3, <1>4, ModRange
<1> QED
  BY <1>5 DEF x

LEMMA StepRanges ==
    TypeOK /\ Step =>
      /\ slv_HRDATA' \in Nat
      /\ sel' \in 0..1 /\ csw' \in 0..7 /\ tar' \in 0..(AddrSpace - 1)
<1> SUFFICES ASSUME TypeOK, Step
             PROVE  /\ slv_HRDATA' \in Nat
                    /\ sel' \in 0..1 /\ csw' \in 0..7 /\ tar' \in 0..(AddrSpace - 1)
  OBVIOUS
<1>0. /\ slv_HRDATA \in Nat /\ sel \in 0..1 /\ csw \in 0..7 /\ tar \in 0..(AddrSpace - 1)
      /\ resp.data \in Nat /\ ahb_addr \in 0..(AddrSpace - 1)
      /\ TarKept \in 0..(AddrSpace - 1) /\ Invalid \in 0..(AddrSpace - 1)
  BY SpaceAssumption DEF TypeOK, Response, TarKept, Invalid
<1>1. CASE Inhibited
  BY <1>0, <1>1 DEF Inhibited
<1>2. CASE Disabled
  BY <1>0, <1>2 DEF Disabled
<1>3. CASE WriteDpSelect
  BY <1>0, <1>3 DEF WriteDpSelect, Issue
<1>4. CASE CacheApCsw
  BY <1>0, <1>4 DEF CacheApCsw, Issue
<1>5. CASE ReadApCsw
  <2>1. resp.data % 8 \in 0..7
    BY <1>0
  <2> QED
    BY <1>0, <1>5, <2>1 DEF ReadApCsw
<1>6. CASE UpdateApCsw
  BY <1>0, <1>6, UpdatedType DEF UpdateApCsw, Issue
<1>7. CASE Idle
  BY <1>0, <1>7 DEF Idle
<1>8. CASE SelectBank0
  BY <1>0, <1>8 DEF SelectBank0, Issue
<1>9. CASE SelectBank1
  BY <1>0, <1>9 DEF SelectBank1, Issue
<1>10. CASE SetCsw
  BY <1>0, <1>10, UpdatedType DEF SetCsw, Issue
<1>11. CASE SetTar
  BY <1>0, <1>11 DEF SetTar, Issue
<1>12. CASE AccessDrw
  <2>1. (tar + 2^Width(csw)) % AddrSpace \in 0..(AddrSpace - 1)
    BY <1>0, Stepped
  <2> QED
    BY <1>0, <1>12, <2>1 DEF AccessDrw, Issue
<1>13. CASE AccessBdn
  BY <1>0, <1>13 DEF AccessBdn, Issue
<1>14. CASE AhbResp
  BY <1>0, <1>14 DEF AhbResp
<1>15. CASE ErrorWait
  BY <1>0, <1>15 DEF ErrorWait
<1> QED
  BY <1>1, <1>2, <1>3, <1>4, <1>5, <1>6, <1>7, <1>8,
     <1>9, <1>10, <1>11, <1>12, <1>13, <1>14, <1>15 DEF Step

LEMMA LatchBooleans ==
    ASSUME NEW ap, NEW taken, TypeOK, Latch(ap, taken), taken => ap[1].write \in BOOLEAN
    PROVE  /\ slv_HREADYOUT' \in BOOLEAN /\ ahb_pending' \in BOOLEAN
           /\ ahb_latch_data' \in BOOLEAN /\ ahb_wnr' \in BOOLEAN
<1>1. ahb_wnr \in BOOLEAN
  BY TypeParts, Zenon DEF Typed
<1>2. ahb_wnr' = IF taken THEN ap[1].write ELSE ahb_wnr
  BY Zenon DEF Latch
<1> QED
  BY <1>1, <1>2, Zenon DEF Latch

LEMMA DefaultBooleans ==
    ASSUME NEW taken, TypeOK, Default!Clock(taken)
    PROVE  dslv_HREADYOUT' \in BOOLEAN /\ dslv_HRESP' \in BOOLEAN /\ active' \in BOOLEAN
<1>1. dslv_HREADYOUT \in BOOLEAN /\ dslv_HRESP \in BOOLEAN /\ active \in BOOLEAN
  BY TypeParts, Zenon DEF Typed
<1> QED
  BY <1>1, Zenon DEF Default!Clock, Default!Refuse, Default!vars

\* The clocked block of the bridge, the FIFOs included, but for the transfer.
Edge ==
    /\ Fifos /\ Receive /\ Step
    /\ UNCHANGED <<soft, t_bank, t_csw, t_tar, faulted>>

LEMMA PortType ==
    Inv /\ Step => resp_pending' \in 0..(CtrMod - 1) /\ ADIv5_WRDATA' \in Command
<1> SUFFICES ASSUME Inv, Step
             PROVE  resp_pending' \in 0..(CtrMod - 1) /\ ADIv5_WRDATA' \in Command
  OBVIOUS
<1>1. resp_pending \in 0..(CtrMod - 1) /\ ADIv5_WRDATA \in Command
  BY DEF Inv, TypeOK
<1>2. (resp_pending + 1) % CtrMod \in 0..(CtrMod - 1)
  BY <1>1, CtrAssumption, ModRange
<1> QED
  BY <1>1, <1>2, StepPort, CtrAssumption DEF Issues, Holds, Resets

LEMMA TransferType ==
    ASSUME NEW t \in Transfers
    PROVE  /\ t.write \in BOOLEAN /\ t.size \in 0..2 /\ t.addr \in 0..(AddrSpace - 17)
           /\ t.data \in Nat
           /\ t.addr \in 0..(AddrSpace - 1)
           /\ t.size = 2 => t.addr % 4 = 0
           /\ ~t.write => t.data = 0
<1>1. /\ t \in [write : BOOLEAN, size : 0..2, addr : 0..(AddrSpace - 17), data : Nat]
      /\ t.size = 2 => t.addr % 4 = 0
      /\ ~t.write => t.data = 0
  BY TransfersAssumption
<1>2. t.write \in BOOLEAN /\ t.size \in 0..2 /\ t.addr \in 0..(AddrSpace - 17) /\ t.data \in Nat
  BY <1>1
<1>3. t.addr \in 0..(AddrSpace - 1)
  BY <1>2, SpaceAssumption
<1> QED
  BY <1>1, <1>2, <1>3

LEMMA ClockType ==
    ASSUME NEW ap \in Offers, NEW other \in BOOLEAN, Inv, Clock(ap, other)
    PROVE  TypeOK'
<1>0. TypeOK /\ Typed /\ Bus(ap, other) /\ Edge
  BY TypeParts DEF Inv, Clock, Edge
<1>1. ap = <<>> \/ (ap = <<ap[1]>> /\ ap[1] \in Transfers)
  BY OfferType
<1>2. ap # <<>> => ap[1].write \in BOOLEAN
  BY <1>1, TransferType
<1>3. /\ slv_HREADYOUT' \in BOOLEAN /\ ahb_pending' \in BOOLEAN
      /\ ahb_latch_data' \in BOOLEAN /\ ahb_wnr' \in BOOLEAN
  <2> DEFINE taken == ap # <<>> /\ Ready(other)
  <2>1. Latch(ap, taken) /\ (taken => ap[1].write \in BOOLEAN)
    BY <1>2, Zenon DEF Clock
  <2> HIDE DEF taken
  <2> QED
    BY <1>0, <2>1, LatchBooleans, Zenon
<1>4. dslv_HREADYOUT' \in BOOLEAN /\ dslv_HRESP' \in BOOLEAN /\ active' \in BOOLEAN
  BY <1>0, DefaultBooleans, Zenon DEF Clock
<1>5. ADIv5_WREN' \in BOOLEAN /\ init_complete' \in BOOLEAN /\ slv_HRESP' \in BOOLEAN
  BY <1>0, StepBooleans DEF Edge
<1>6. /\ ENABLE' \in BOOLEAN /\ SEQ' \in BOOLEAN /\ STAT' \in BOOLEAN
      /\ check_resp' \in BOOLEAN /\ faulted' \in BOOLEAN
  <2>1. UNCHANGED <<ENABLE, SEQ, faulted>>
    BY <1>0 DEF Edge, soft
  <2>2. STAT' \in BOOLEAN /\ check_resp' \in BOOLEAN
    BY <1>0, Zenon DEF Edge, Receive, responses, RDEN, Typed
  <2> QED
    BY <1>0, <2>1, <2>2, Zenon DEF Typed
<1>7. bus' \in Offers
  BY <1>0, Zenon DEF Bus, Typed
<1>8. state' \in Starting \cup Working
  <2>1. state \in Starting \cup Working /\ {"IDLE", "DISABLED"} \subseteq Starting
    BY <1>0 DEF Typed, Starting
  <2> QED
    BY <1>0, <2>1, StepStates DEF Edge
<1>9. /\ slv_HRDATA' \in Nat
      /\ sel' \in 0..1 /\ csw' \in 0..7 /\ tar' \in 0..(AddrSpace - 1)
  BY <1>0, StepRanges DEF Edge
<1>10. ahb_addr' \in 0..(AddrSpace - 1) /\ ahb_req_sz' \in 0..2 /\ ahb_data' \in Nat
  <2>1. ahb_latch_data /\ ENABLE => bus # <<>>
    BY DEF Inv, On
  <2>2. bus = <<>> \/ (bus = <<bus[1]>> /\ bus[1] \in Transfers)
    BY <1>0, OfferType DEF Typed
  <2>3. ahb_latch_data /\ ENABLE => bus[1].data \in Nat
    BY <2>1, <2>2, TransferType
  <2>4. ahb_addr \in 0..(AddrSpace - 1) /\ ahb_req_sz \in 0..2 /\ ahb_data \in Nat
    BY <1>0 DEF Typed
  <2>5. Invalid \in 0..(AddrSpace - 1)
    BY SpaceAssumption DEF Invalid
  <2>6. PICK t \in Transfers \cup {<<>>} : (Takes(t) /\ t \in Transfers) \/ Rests \/ Waits
    BY <1>0, ClockBus DEF Clock
  <2>7. CASE Takes(t) /\ t \in Transfers
    BY <2>3, <2>4, <2>7, TransferType DEF Takes
  <2>8. CASE Keeps
    BY <2>3, <2>4, <2>5, <2>8 DEF Keeps
  <2> QED
    BY <2>6, <2>7, <2>8 DEF Rests, Waits
<1>11. resp_pending' \in 0..(CtrMod - 1) /\ ADIv5_WRDATA' \in Command
  BY <1>0, PortType DEF Edge
<1>12. /\ respq' \in Seq(Response) /\ ADIv5_RDDATA' \in Response /\ resp' \in Response
       /\ resp_recvd' \in 0..(CtrMod - 1)
  BY <1>0, ReceiveType DEF Edge
<1>13. req' \in Seq(Command) /\ Len(req') <= 1 /\ cmdq' \in Seq(Command)
  BY <1>0, FifosKeep DEF Edge
<1>14. t_bank' \in 0..1 /\ t_csw' \in 0..7 /\ t_tar' \in 0..(AddrSpace - 1)
  BY <1>0 DEF Edge, Typed
<1>15. Typed'
  BY <1>3, <1>4, <1>5, <1>6, <1>7, <1>8, <1>9, <1>10, <1>11, <1>12, <1>13, <1>14, Zenon DEF Typed
<1>16. (TypeOK <=> Typed)'
  BY TypeParts, PTL
<1> QED
  BY <1>15, <1>16

-----------------------------------------------------------------------------
(* An edge.                                                                *)

LEMMA EdgeParts ==
    Inv /\ Edge =>
      /\ TypeOK /\ Step /\ Fifos /\ Receive /\ ENABLE \in BOOLEAN
      /\ ENABLE' = ENABLE /\ SEQ' = SEQ /\ t_bank' = t_bank /\ t_csw' = t_csw
      /\ t_tar' = t_tar /\ faulted' = faulted
  BY TypeParts DEF Inv, Edge, soft, Typed

\* What the last response is does not change while none comes.
LEMMA EdgeLatest == Inv /\ Edge /\ ENABLE => Latest' = Latest
<1> SUFFICES ASSUME Inv, Edge, ENABLE PROVE Latest' = Latest
  OBVIOUS
<1>1. respq \in Seq(Response) /\ Fifos /\ Receive
  BY DEF Inv, TypeOK, Edge
<1>2. CASE respq = <<>>
  BY <1>1, <1>2 DEF Fifos, Receive, RDEN, Latest
<1>3. CASE respq # <<>>
  <2>0. check_resp'
    BY <1>1, <1>3, Zenon DEF Receive, RDEN
  <2>1. check_resp' /\ respq' = Tail(respq) /\ ADIv5_RDDATA' = respq[1]
    BY <1>1, <1>3, <2>0 DEF Fifos, RDEN
  <2>2. Latest = respq[Len(respq)]
    BY <1>3 DEF Latest
  <2>3. CASE Tail(respq) = <<>>
    <3>1. Len(Tail(respq)) = Len(respq) - 1 /\ Len(Tail(respq)) = 0 /\ Len(respq) \in Nat
      BY <1>1, <1>3, <2>3, HeadTailProperties, EmptySeq
    <3> QED
      BY <2>1, <2>2, <2>3, <3>1 DEF Latest
  <2>4. CASE Tail(respq) # <<>>
    <3>1. Tail(respq)[Len(Tail(respq))] = respq[Len(respq)]
      BY <1>1, <1>3, <2>4
    <3> QED
      BY <2>1, <2>2, <2>4, <3>1 DEF Latest
  <2> QED
    BY <2>3, <2>4
<1> QED
  BY <1>2, <1>3

\* Nothing comes out of nothing.
LEMMA EdgeNone == Inv /\ Edge /\ ENABLE /\ Outstanding = 0 /\ ~ADIv5_WREN' => Outstanding' = 0
<1> SUFFICES ASSUME Inv, Edge, ENABLE, Outstanding = 0, ~ADIv5_WREN' PROVE Outstanding' = 0
  OBVIOUS
<1>1. TypeOK /\ Fifos /\ Receive
  BY EdgeParts
<1>2. Commands = <<>> /\ respq = <<>> /\ ~check_resp
  BY <1>1, NoneOutstanding
<1>3. Commands' = <<>>
  BY <1>1, <1>2, ClockCommands
<1>4. respq' = <<>> /\ ~check_resp'
  BY <1>1, <1>2 DEF Fifos, Receive, RDEN
<1> QED
  BY <1>3, <1>4 DEF Outstanding

LEMMA EdgeFailing == Inv /\ Edge => Failing'
<1> SUFFICES ASSUME Inv, Edge, ENABLE PROVE Failing'
  BY EdgeParts DEF Failing
<1>1. Fifos /\ Receive /\ faulted' = faulted /\ respq \in Seq(Response)
  BY EdgeParts DEF TypeOK
<1>2. /\ check_resp' <=> respq # <<>>
      /\ STAT' <=> STAT /\ (check_resp => ADIv5_RDDATA.ok)
  BY <1>1, Zenon DEF Receive, RDEN
<1>3. faulted <=> \/ ~STAT
                  \/ check_resp /\ ~ADIv5_RDDATA.ok
                  \/ \E i \in DOMAIN respq : ~respq[i].ok
  BY DEF Inv, Failing
<1>4. CASE respq = <<>>
  <2>1. respq' = <<>>
    BY <1>1, <1>4 DEF Fifos, RDEN
  <2> QED
    BY <1>1, <1>2, <1>3, <1>4, <2>1 DEF Failing
<1>5. CASE respq # <<>>
  <2>1. respq' = Tail(respq) /\ ADIv5_RDDATA' = respq[1]
    BY <1>1, <1>5 DEF Fifos, RDEN
  <2>2. /\ \A i \in DOMAIN respq : i = 1 \/ (i - 1 \in DOMAIN Tail(respq) /\ Tail(respq)[i - 1] = respq[i])
        /\ \A i \in DOMAIN Tail(respq) : i + 1 \in DOMAIN respq /\ Tail(respq)[i] = respq[i + 1]
        /\ 1 \in DOMAIN respq
    BY <1>1, <1>5
  <2>3. (\E i \in DOMAIN respq : ~respq[i].ok) <=> \/ ~respq[1].ok
                                                   \/ \E i \in DOMAIN Tail(respq) : ~Tail(respq)[i].ok
    BY <2>2
  <2> QED
    BY <1>1, <1>2, <1>3, <1>5, <2>1, <2>3 DEF Failing
<1> QED
  BY <1>4, <1>5

\* Without a failure the caches stay unless the state machine writes them.
LEMMA NoFailure == Inv /\ ENABLE /\ ~faulted => ~Failure /\ TarKept = tar /\ STAT
  BY DEF Inv, Failing, Failure, TarKept

LEMMA ClockOff ==
    ASSUME NEW ap \in Offers, NEW other \in BOOLEAN, Inv, Clock(ap, other)
    PROVE  Off'
<1>0. Edge /\ Bus(ap, other)
  BY DEF Clock, Edge
<1>1. state' = "DISABLED" \/ ENABLE
  BY <1>0, EdgeParts, StateStep
<1>2. /\ active <=> ~ENABLE /\ bus # <<>>
      /\ ~active => dslv_HREADYOUT /\ ~dslv_HRESP
      /\ active /\ dslv_HREADYOUT => dslv_HRESP
  BY DEF Inv, Off
<1> DEFINE taken == ~ENABLE /\ ap # <<>> /\ Ready(other)
<1>3. Default!Clock(taken) /\ (taken <=> ~ENABLE /\ ap # <<>> /\ Ready(other))
  BY DEF Clock
<1> HIDE DEF taken
<1>4. bus' = IF Ready(other) THEN ap ELSE bus
  BY <1>0 DEF Bus
<1>5. Ready(other) <=> IF bus = <<>> THEN other ELSE HREADYOUT
  BY Zenon DEF Ready
<1>6. ~ENABLE => (HREADYOUT <=> dslv_HREADYOUT)
  BY Zenon DEF HREADYOUT
<1>7. (active' <=> ~ENABLE /\ bus' # <<>>) /\ (~active' => dslv_HREADYOUT' /\ ~dslv_HRESP')
        /\ (active' /\ dslv_HREADYOUT' => dslv_HRESP')
  <2>1. CASE taken
    BY <1>2, <1>3, <1>4, <2>1, Zenon DEF Default!Clock
  <2>2. CASE ~taken /\ Default!Refuse
    <3>1. active /\ ~ENABLE /\ bus # <<>> /\ (Ready(other) <=> dslv_HREADYOUT)
      BY <1>2, <1>5, <1>6, <2>2, Zenon DEF Default!Refuse
    <3>2. CASE dslv_HRESP /\ dslv_HREADYOUT
      <4>1. ~dslv_HRESP' /\ ~active' /\ dslv_HREADYOUT'
        BY <2>2, <3>2, Zenon DEF Default!Refuse
      <4>2. bus' = <<>>
        BY <1>3, <1>4, <2>2, <3>1, <3>2, Zenon
      <4> QED
        BY <4>1, <4>2, Zenon
    <3>3. CASE ~dslv_HREADYOUT
      <4>1. /\ active' = active
            /\ dslv_HRESP => dslv_HRESP' = dslv_HRESP
            /\ ~dslv_HRESP => dslv_HRESP' = (dslv_HRESP \/ ~dslv_HREADYOUT)
        BY <2>2, <3>1, <3>3 DEF Default!Refuse
      <4>2. active'
        BY <3>1, <4>1
      <4>3. dslv_HRESP => dslv_HRESP'
        BY <4>1
      <4>4. ~dslv_HRESP => dslv_HRESP'
        BY <3>3, <4>1, Zenon
      <4>5. bus' = bus
        BY <1>4, <3>1, <3>3, Zenon
      <4> QED
        BY <3>1, <4>2, <4>3, <4>4, <4>5, Zenon
    <3> QED
      BY <1>2, <3>1, <3>2, <3>3
  <2>3. CASE ~taken /\ ~active /\ UNCHANGED Default!vars
    BY <1>2, <1>3, <1>4, <1>5, <2>3 DEF Default!vars
  <2> QED
    BY <1>3, <2>1, <2>2, <2>3, Zenon DEF Default!Clock
<1>8. ENABLE' = ENABLE
  BY <1>0, EdgeParts
<1> QED
  BY <1>1, <1>7, <1>8 DEF Off

\* What becomes of the transfer at an edge.
Moves(t) == (t \in Transfers /\ Takes(t)) \/ Rests \/ Waits

LEMMA ClockMoves ==
    ASSUME NEW ap \in Offers, NEW other \in BOOLEAN, Inv, Clock(ap, other)
    PROVE  Moves(ap[1]) /\ (Takes(ap[1]) => ap # <<>>)
<1>1. TypeOK /\ Bus(ap, other) /\ Latch(ap, ap # <<>> /\ Ready(other))
  BY DEF Inv, Clock
<1>2. \/ Takes(ap[1]) /\ ap # <<>> /\ ap[1] \in Transfers
      \/ Rests \/ Waits
  BY <1>1, ClockBus
<1>3. Takes(ap[1]) => bus' # <<>> /\ (bus = <<>> \/ HREADYOUT)
  BY DEF Takes
<1>4. bus' = ap \/ (bus' = bus /\ (bus = <<>> \/ ~HREADYOUT))
  BY <1>1, Zenon DEF Bus, Ready
<1>5. Takes(ap[1]) => ap # <<>>
  BY <1>3, <1>4
<1> QED
  BY <1>2, <1>5, Zenon DEF Moves

\* Routed and worked on, a transfer is on the bus and stays.
LEMMA Busy ==
    Inv /\ ENABLE /\ (state \in Working \/ ahb_pending) =>
      ~slv_HREADYOUT /\ bus # <<>> /\ (state \in Working => ~ahb_latch_data)
  BY DEF Inv, On, Starting, Working, Routing

LEMMA Held ==
    ASSUME NEW t, Inv, ENABLE, Moves(t), ~slv_HREADYOUT
    PROVE  /\ Waits /\ bus' = bus /\ bus # <<>>
           /\ ahb_addr' = ahb_addr /\ ahb_wnr' = ahb_wnr /\ ahb_req_sz' = ahb_req_sz
           /\ ~ahb_latch_data => ahb_data' = ahb_data
<1>1. ~HREADYOUT /\ bus # <<>>
  BY DEF HREADYOUT, Inv, On
<1>2. Waits
  BY <1>1 DEF Moves, Takes, Rests
<1> QED
  BY <1>1, <1>2 DEF Waits, Keeps

\* How the caches and the state go on.
LEMMA EdgeSequential ==
    Inv /\ Edge /\ ENABLE =>
      /\ state' \in Working => ~SeqChanged'
      /\ state' \in {"CACHE_APCSW", "READ_APCSW"} => ~init_complete'
      /\ state' \in {"UPDATE_APCSW", "IDLE"} \cup Working => init_complete'
      /\ state' = "WRITE_DPSELECT" /\ ~init_complete' => Outstanding' = 0
<1> SUFFICES ASSUME Inv, Edge, ENABLE
             PROVE  /\ state' \in Working => ~SeqChanged'
                    /\ state' \in {"CACHE_APCSW", "READ_APCSW"} => ~init_complete'
                    /\ state' \in {"UPDATE_APCSW", "IDLE"} \cup Working => init_complete'
                    /\ state' = "WRITE_DPSELECT" /\ ~init_complete' => Outstanding' = 0
  OBVIOUS
<1>0. /\ Step
      /\ state \in Working => ~SeqChanged
      /\ state \in {"DISABLED", "CACHE_APCSW", "READ_APCSW"} => ~init_complete
      /\ state \in {"UPDATE_APCSW", "IDLE"} \cup Working => init_complete
      /\ state = "WRITE_DPSELECT" /\ ~init_complete => Outstanding = 0
      /\ Inc(csw') = Inc(csw) => (SeqChanged' <=> SeqChanged)
      /\ csw' = csw => Inc(csw') = Inc(csw)
      /\ Outstanding = 0 /\ ~ADIv5_WREN' => Outstanding' = 0
      /\ state = "DISABLED" => Outstanding = 0 /\ ~ADIv5_WREN
  <2>1. Outstanding = 0 /\ ~ADIv5_WREN' => Outstanding' = 0
    BY EdgeNone
  <2>2. SEQ' = SEQ /\ Step /\ TypeOK
    BY EdgeParts
  <2>3. Outstanding = 0 => ~ADIv5_WREN
    BY <2>2, CommandsLen, OutstandingParts DEF TypeOK, Incoming
  <2> QED
    BY <2>1, <2>2, <2>3 DEF Inv, Sequential, SeqChanged, Counted
<1> USE DEF Working, Routing
<1>1. CASE Inhibited
  BY <1>0, <1>1 DEF Inhibited, Stay, Issuing
<1>2. CASE Disabled
  BY <1>0, <1>2 DEF Disabled
<1>3. CASE WriteDpSelect
  BY <1>0, <1>3 DEF WriteDpSelect, Issue
<1>4. CASE CacheApCsw
  BY <1>0, <1>4 DEF CacheApCsw, Issue
<1>5. CASE ReadApCsw
  BY <1>0, <1>5 DEF ReadApCsw, Stay
<1>6. CASE UpdateApCsw
  BY <1>0, <1>6 DEF UpdateApCsw, Issue
<1>7. CASE Idle
  BY <1>0, <1>7 DEF Idle, Stay, Route
<1>8. CASE SelectBank0
  BY <1>0, <1>8 DEF SelectBank0, Issue
<1>9. CASE SelectBank1
  BY <1>0, <1>9 DEF SelectBank1, Issue
<1>10. CASE SetCsw
  <2>1. csw \in 0..7 /\ ahb_req_sz \in 0..3
    BY DEF Inv, TypeOK
  <2>2. Inc(csw) \in 0..1
    BY <2>1, CswType
  <2>3. Inc(4 * Inc(csw) + ahb_req_sz) = Inc(csw)
    BY <2>1, <2>2, CswParts
  <2> QED
    BY <1>0, <1>10, <2>3 DEF SetCsw, Issue
<1>11. CASE SetTar
  BY <1>0, <1>11 DEF SetTar, Issue
<1>12. CASE AccessDrw
  BY <1>0, <1>12 DEF AccessDrw, Issue
<1>13. CASE AccessBdn
  BY <1>0, <1>13 DEF AccessBdn, Issue
<1>14. CASE AhbResp
  BY <1>0, <1>14 DEF AhbResp, Stay
<1>15. CASE ErrorWait
  BY <1>0, <1>15 DEF ErrorWait
<1> QED
  BY <1>0, <1>1, <1>2, <1>3, <1>4, <1>5, <1>6, <1>7, <1>8,
     <1>9, <1>10, <1>11, <1>12, <1>13, <1>14, <1>15 DEF Step

LEMMA ClockSequential ==
    ASSUME NEW t, Inv, Edge, Moves(t), SEQ /\ Takes(t) => t.write
    PROVE  Sequential'
<1>1. /\ ENABLE' = ENABLE /\ SEQ' = SEQ /\ Step /\ (ENABLE => state' # "DISABLED")
      /\ (~ENABLE => state' = "DISABLED")
  BY EdgeParts, StepEnabled, StateStep
<1>2. bus' # <<>> /\ SEQ' => bus'[1].write
  <2>1. bus # <<>> /\ SEQ => bus[1].write
    BY DEF Inv, Sequential
  <2> QED
    BY <1>1, <2>1 DEF Moves, Takes, Rests, Waits
<1>3. CASE ENABLE
  BY <1>1, <1>2, <1>3, EdgeSequential DEF Sequential
<1>4. CASE ~ENABLE
  <2>1. state' \notin Working
    BY <1>1, <1>4 DEF Working, Routing
  <2> QED
    BY <1>1, <1>2, <1>4, <2>1 DEF Sequential
<1> QED
  BY <1>3, <1>4

\* The way of a transfer stays right at every step.
LEMMA ClockRouted ==
    ASSUME NEW t, Inv, Edge, Moves(t)
    PROVE  Routed'
<1> SUFFICES ASSUME ENABLE PROVE Routed'
  BY EdgeParts DEF Routed
<1> DEFINE busy == state \in Working \/ ahb_pending
           kept == ahb_addr' = ahb_addr /\ ahb_req_sz' = ahb_req_sz
<1>0. /\ Step /\ ENABLE /\ ENABLE' = ENABLE /\ faulted' = faulted
      /\ ~faulted => TarKept = tar
      /\ busy => kept
      /\ Routed /\ sel \in 0..1
  BY EdgeParts, NoFailure, Busy, Held DEF Inv, TypeOK
<1> HIDE DEF kept
<1> USE DEF Working, Routing, Routed
<1>1. CASE Inhibited
  BY <1>0, <1>1 DEF Inhibited, Stay, Issuing, kept
<1>2. CASE Disabled
  BY <1>0, <1>2 DEF Disabled, kept
<1>3. CASE WriteDpSelect
  BY <1>0, <1>3 DEF WriteDpSelect, Issue, kept
<1>4. CASE CacheApCsw
  BY <1>0, <1>4 DEF CacheApCsw, Issue, kept
<1>5. CASE ReadApCsw
  BY <1>0, <1>5 DEF ReadApCsw, Stay, kept
<1>6. CASE UpdateApCsw
  BY <1>0, <1>6 DEF UpdateApCsw, Issue, kept
<1>7. CASE Idle
  BY <1>0, <1>7 DEF Idle, Stay, Route, kept
<1>8. CASE SelectBank0
  BY <1>0, <1>8 DEF SelectBank0, Issue, kept
<1>9. CASE SelectBank1
  BY <1>0, <1>9 DEF SelectBank1, Issue, kept
<1>10. CASE SetCsw
  <2>1. csw \in 0..7 /\ ahb_req_sz \in 0..3
    BY DEF Inv, TypeOK
  <2>2. Inc(csw) \in 0..1
    BY <2>1, CswType
  <2>3. Width(4 * Inc(csw) + ahb_req_sz) = ahb_req_sz
    BY <2>1, <2>2, CswParts
  <2> QED
    BY <1>0, <1>10, <2>3 DEF SetCsw, Issue, kept
<1>11. CASE SetTar
  BY <1>0, <1>11 DEF SetTar, Issue, kept
<1>12. CASE AccessDrw
  BY <1>0, <1>12 DEF AccessDrw, Issue, kept
<1>13. CASE AccessBdn
  BY <1>0, <1>13 DEF AccessBdn, Issue, kept
<1>14. CASE AhbResp
  BY <1>0, <1>14 DEF AhbResp, Stay, kept
<1>15. CASE ErrorWait
  BY <1>0, <1>15 DEF ErrorWait, kept
<1> QED
  BY <1>0, <1>1, <1>2, <1>3, <1>4, <1>5, <1>6, <1>7, <1>8,
     <1>9, <1>10, <1>11, <1>12, <1>13, <1>14, <1>15 DEF Step

\* The last response but the one that is looked at has come.
LEMMA Answered ==
    Inv /\ ENABLE /\ cmd_complete =>
      /\ Outstanding = 0 /\ Commands = <<>> /\ Latest = resp
      /\ faulted <=> ~STAT
<1> SUFFICES ASSUME Inv, ENABLE, cmd_complete
             PROVE  /\ Outstanding = 0 /\ Commands = <<>> /\ Latest = resp
                    /\ faulted <=> ~STAT
  OBVIOUS
<1>1. Outstanding = 0 /\ TypeOK
  BY Complete DEF Inv
<1>2. Commands = <<>> /\ respq = <<>> /\ ~check_resp
  BY <1>1, NoneOutstanding
<1> QED
  BY <1>1, <1>2 DEF Latest, Inv, Failing

\* What ends well has been performed.
LEMMA ClockPerformed ==
    ASSUME NEW t, NEW ap, NEW other, Inv, Edge, Moves(t), Bus(ap, other)
    PROVE  Performed'
<1>0. /\ Step /\ ENABLE' = ENABLE /\ faulted' = faulted /\ ENABLE \in BOOLEAN
      /\ Outstanding = 0 /\ ENABLE /\ ~ADIv5_WREN' => Outstanding' = 0
  BY EdgeParts, EdgeNone
<1>1. performed' = IF bus # <<>> /\ HREADYOUT THEN <<>> ELSE performed
  BY DEF Bus
<1>2. ~faulted /\ (bus' = <<>> \/ ~ENABLE) => performed' = <<>>
  BY <1>1 DEF Inv, Performed, Moves, Takes, Rests, Waits
<1>3. CASE ~ENABLE
  BY <1>0, <1>2, <1>3 DEF Performed
<1>4. ASSUME ENABLE PROVE Performed'
  <2>0. HREADYOUT <=> slv_HREADYOUT
    BY <1>4, Zenon DEF HREADYOUT
  <2>1. CASE slv_HREADYOUT
    <3>1. ~faulted => performed' = <<>>
      BY <1>1, <1>4, <2>0, <2>1 DEF Inv, Performed
    <3>2. state \notin Working /\ state # "AHB_RESP"
      BY <1>4, <2>1, Busy DEF Working
    <3>3. state' # "AHB_ERROR_WAIT"
      BY <1>0, <1>4, <3>2, StateStep DEF Inv, TypeOK, Starting, Routing
    <3>4. slv_HREADYOUT' => bus' = <<>>
      BY <2>0, <2>1 DEF Moves, Takes, Rests, Waits, Inv, On
    <3> QED
      BY <1>0, <1>2, <3>1, <3>3, <3>4 DEF Performed
  <2>2. CASE ~slv_HREADYOUT
    <3>0. /\ Waits /\ bus' = bus /\ bus # <<>> /\ ahb_wnr' = ahb_wnr
          /\ slv_HREADYOUT' <=> Released
      BY <1>4, <2>2, Held DEF Waits, Keeps
    <3>1. performed' = performed
      BY <1>1, <2>0, <2>2
    <3>2. ahb_wnr = bus[1].write /\ ahb_addr = bus[1].addr /\ ahb_req_sz = bus[1].size
      BY <1>4, <2>2 DEF Inv, On
    <3>3. CASE AhbResp
      <4>1. CASE cmd_complete
        <5>1. /\ Outstanding' = 0 /\ (faulted <=> ~STAT) /\ state' # "AHB_RESP"
              /\ slv_HRESP' <=> ~STAT
              /\ state' = IF STAT THEN "IDLE" ELSE "AHB_ERROR_WAIT"
              /\ slv_HRDATA' = IF ahb_wnr THEN slv_HRDATA ELSE resp.data
              /\ Commands = <<>> /\ Latest = resp
          BY <1>0, <1>4, <3>3, <4>1, Answered DEF AhbResp
        <5>2. state = "AHB_RESP"
          BY <3>3 DEF AhbResp
        <5>3. ~faulted => performed = bus /\ (~ahb_wnr => resp.data = Content(ahb_addr, ahb_req_sz))
          BY <1>4, <5>1, <5>2 DEF Inv, Accessed
        <5>4. slv_HREADYOUT' <=> STAT
          BY <3>0, <5>1, <5>2 DEF Released
        <5> QED
          BY <1>0, <1>2, <3>0, <3>1, <3>2, <5>1, <5>3, <5>4 DEF Performed
      <4>2. CASE ~cmd_complete
        <5>1. state' = "AHB_RESP" /\ state = "AHB_RESP"
          BY <1>4, <3>3, <4>2 DEF AhbResp, Stay
        <5>2. ~slv_HREADYOUT'
          BY <3>0, <5>1 DEF Released
        <5> QED
          BY <1>0, <1>2, <5>1, <5>2 DEF Performed
      <4> QED
        BY <4>1, <4>2
    <3>4. CASE ErrorWait
      <4>1. /\ state = "AHB_ERROR_WAIT" /\ state' = "IDLE" /\ slv_HRESP' = slv_HRESP
            /\ ADIv5_WREN' = ADIv5_WREN
        BY <3>4 DEF ErrorWait, port
      <4>2. Outstanding = 0 /\ slv_HRESP /\ faulted
        BY <1>4, <4>1 DEF Inv, Performed
      <4>3. ~ADIv5_WREN
        BY <4>2, NoneOutstanding, CommandsLen DEF Inv, TypeOK
      <4>4. Outstanding' = 0 /\ slv_HRESP'
        BY <1>0, <1>4, <4>1, <4>2, <4>3
      <4> QED
        BY <1>0, <1>2, <4>1, <4>2, <4>4 DEF Performed
    <3>5. CASE ~AhbResp /\ ~ErrorWait
      <4>1. state \notin {"AHB_RESP", "AHB_ERROR_WAIT"} /\ state' # "AHB_ERROR_WAIT"
        <5>1. state \notin {"AHB_RESP", "AHB_ERROR_WAIT"}
          BY <1>0, <3>5 DEF Step, Inhibited, Disabled, WriteDpSelect, CacheApCsw, ReadApCsw,
             UpdateApCsw, Idle, SelectBank0, SelectBank1, SetCsw, SetTar, AccessDrw, AccessBdn,
             Issuing
        <5>2. state' # "AHB_ERROR_WAIT"
          BY <1>0, <3>5, <5>1 DEF Step, Inhibited, Disabled, WriteDpSelect, CacheApCsw,
             ReadApCsw, UpdateApCsw, Idle, SelectBank0, SelectBank1, SetCsw, SetTar, AccessDrw,
             AccessBdn, Issuing, Issue, Stay, Route
        <5> QED
          BY <5>1, <5>2
      <4>2. ~Released /\ ~slv_HREADYOUT'
        BY <1>4, <3>0, <4>1 DEF Released
      <4>3. ~faulted => performed = <<>>
        BY <1>4, <2>2, <4>1 DEF Inv, Performed
      <4> QED
        BY <1>0, <1>2, <3>1, <4>1, <4>2, <4>3 DEF Performed
    <3> QED
      BY <3>3, <3>4, <3>5
  <2> QED
    BY <2>1, <2>2
<1> QED
  BY <1>0, <1>3, <1>4

-----------------------------------------------------------------------------
(* The caches at an edge.                                                  *)

\* A command is of at most one kind.
LEMMA Kinds ==
    /\ \A b \in 0..1 : /\ SelectBank(b) \in Selects /\ SelectBank(b).v = b
                       /\ SelectBank(b) \notin CswWrites /\ SelectBank(b) \notin TarWrites
    /\ \A c \in 0..7 : /\ ApWrite(CSW, c) \in CswWrites /\ ApWrite(CSW, c).v = c
                       /\ ApWrite(CSW, c) \notin Selects /\ ApWrite(CSW, c) \notin TarWrites
    /\ \A a \in 0..(AddrSpace - 1) :
         /\ ApWrite(TAR, a) \in TarWrites /\ ApWrite(TAR, a).v = a
         /\ ApWrite(TAR, a) \notin Selects /\ ApWrite(TAR, a) \notin CswWrites
    /\ ApRead(CSW) \notin Selects /\ ApRead(CSW) \notin CswWrites /\ ApRead(CSW) \notin TarWrites
<1> USE DEF Selects, CswWrites, TarWrites, SelectBank, ApWrite, ApRead, Cmd, CSW, TAR
<1>1. \A b \in 0..1 : /\ SelectBank(b) \in Selects /\ SelectBank(b).v = b
                      /\ SelectBank(b) \notin CswWrites /\ SelectBank(b) \notin TarWrites
  OBVIOUS
<1>2. \A c \in 0..7 : /\ ApWrite(CSW, c) \in CswWrites /\ ApWrite(CSW, c).v = c
                      /\ ApWrite(CSW, c) \notin Selects /\ ApWrite(CSW, c) \notin TarWrites
  OBVIOUS
<1>3. \A a \in 0..(AddrSpace - 1) :
         /\ ApWrite(TAR, a) \in TarWrites /\ ApWrite(TAR, a).v = a
         /\ ApWrite(TAR, a) \notin Selects /\ ApWrite(TAR, a) \notin CswWrites
  OBVIOUS
<1>4. ApRead(CSW) \notin Selects /\ ApRead(CSW) \notin CswWrites /\ ApRead(CSW) \notin TarWrites
  OBVIOUS
<1> QED
  BY <1>1, <1>2, <1>3, <1>4

\* An edge without a command leaves what was under way as it was.
LEMMA QuietEdge ==
    Inv /\ Edge /\ ENABLE /\ ~faulted /\ ~ADIv5_WREN' =>
      /\ Commands' = Commands /\ sel' = sel /\ tar' = tar
      /\ \/ csw' = csw /\ init_complete' = init_complete
         \/ /\ state = "READ_APCSW" /\ state' = "IDLE" /\ cmd_complete
            /\ csw' = resp.data % 8 /\ init_complete'
      /\ state' \in {"CACHE_APCSW", "READ_APCSW", "AHB_RESP"} => state' = state
      /\ state \in {"READ_APCSW", "AHB_RESP"} => state' = state \/ Commands = <<>>
<1> SUFFICES ASSUME Inv, Edge, ENABLE, ~faulted, ~ADIv5_WREN'
             PROVE  /\ Commands' = Commands /\ sel' = sel /\ tar' = tar
                    /\ \/ csw' = csw /\ init_complete' = init_complete
                       \/ /\ state = "READ_APCSW" /\ state' = "IDLE" /\ cmd_complete
                          /\ csw' = resp.data % 8 /\ init_complete'
                    /\ state' \in {"CACHE_APCSW", "READ_APCSW", "AHB_RESP"} => state' = state
                    /\ state \in {"READ_APCSW", "AHB_RESP"} => state' = state \/ Commands = <<>>
  OBVIOUS
<1>0. /\ Step /\ TarKept = tar /\ Commands' = Commands
      /\ cmd_complete => Commands = <<>>
  BY EdgeParts, NoFailure, ClockCommands, Answered
<1>1. CASE Inhibited
  BY <1>0, <1>1 DEF Inhibited, Stay, Issuing
<1>2. CASE Disabled
  BY <1>0, <1>2 DEF Disabled
<1>3. CASE WriteDpSelect
  BY <1>0, <1>3 DEF WriteDpSelect, Issue
<1>4. CASE CacheApCsw
  BY <1>0, <1>4 DEF CacheApCsw, Issue
<1>5. CASE ReadApCsw
  BY <1>0, <1>5 DEF ReadApCsw, Stay
<1>6. CASE UpdateApCsw
  BY <1>0, <1>6 DEF UpdateApCsw, Issue
<1>7. CASE Idle
  BY <1>0, <1>7 DEF Idle, Stay, Route
<1>8. CASE SelectBank0
  BY <1>0, <1>8 DEF SelectBank0, Issue
<1>9. CASE SelectBank1
  BY <1>0, <1>9 DEF SelectBank1, Issue
<1>10. CASE SetCsw
  BY <1>0, <1>10 DEF SetCsw, Issue
<1>11. CASE SetTar
  BY <1>0, <1>11 DEF SetTar, Issue
<1>12. CASE AccessDrw
  BY <1>0, <1>12 DEF AccessDrw, Issue
<1>13. CASE AccessBdn
  BY <1>0, <1>13 DEF AccessBdn, Issue
<1>14. CASE AhbResp
  BY <1>0, <1>14 DEF AhbResp, Stay
<1>15. CASE ErrorWait
  BY <1>0, <1>15 DEF ErrorWait
<1> QED
  BY <1>0, <1>1, <1>2, <1>3, <1>4, <1>5, <1>6, <1>7, <1>8,
     <1>9, <1>10, <1>11, <1>12, <1>13, <1>14, <1>15 DEF Step

\* What the registers will hold as of the next state.
BankNext(i, v) == Will(Commands', Selects, i, t_bank', v)
CswNext(i, v) == Will(Commands', CswWrites, i, t_csw', v)
TarNext(i, v) == Will(Commands', TarWrites, i, t_tar', v)

LEMMA QuietPrepared == Inv /\ Edge /\ ~ADIv5_WREN' => Prepared'
<1> SUFFICES ASSUME Inv, Edge, ~ADIv5_WREN', ~faulted PROVE Prepared'
  BY EdgeParts DEF Prepared
<1>1. Commands' = Commands /\ t_bank' = t_bank
  BY EdgeParts, ClockCommands
<1>2. state \in {"READ_APCSW", "AHB_RESP"} => state' = state \/ Commands = <<>>
  <2>1. CASE ENABLE
    BY <2>1, QuietEdge
  <2>2. CASE ~ENABLE
    BY <2>2 DEF Inv, Off
  <2> QED
    BY <2>1, <2>2
<1>3. \A i \in DOMAIN Commands :
        \/ Commands[i] \in Selects
        \/ Commands[i] \in CswWrites \cup TarWrites /\ BankWill(i, 0)
        \/ i = Len(Commands) /\ state \in {"READ_APCSW", "AHB_RESP"}
  BY DEF Inv, Prepared
<1>4. \A i : BankNext(i, 0) <=> BankWill(i, 0)
  BY <1>1 DEF BankWill, BankNext
<1>5. Commands = <<>> => DOMAIN Commands = {}
  OBVIOUS
<1> QED
  BY <1>1, <1>2, <1>3, <1>4, <1>5 DEF Prepared, BankWill, BankNext

LEMMA QuietCaches == Inv /\ Edge /\ ENABLE /\ ~ADIv5_WREN' => CachesRight' /\ CswRead'
<1> SUFFICES ASSUME Inv, Edge, ENABLE, ~ADIv5_WREN', ~faulted PROVE CachesRight' /\ CswRead'
  BY EdgeParts DEF CachesRight, CswRead
<1> DEFINE n == Len(Commands) + (IF Accessing THEN 0 ELSE 1)
<1>1. /\ Commands' = Commands /\ sel' = sel /\ tar' = tar
      /\ \/ csw' = csw /\ init_complete' = init_complete
         \/ /\ state = "READ_APCSW" /\ state' = "IDLE" /\ cmd_complete
            /\ csw' = resp.data % 8 /\ init_complete'
      /\ state' \in {"CACHE_APCSW", "READ_APCSW", "AHB_RESP"} => state' = state
      /\ state \in {"READ_APCSW", "AHB_RESP"} => state' = state \/ Commands = <<>>
  BY QuietEdge
<1>2. /\ t_bank' = t_bank /\ t_csw' = t_csw /\ t_tar' = t_tar /\ Latest' = Latest
      /\ ENABLE' = ENABLE /\ faulted' = faulted
  BY EdgeParts, EdgeLatest
<1>3. CswRead'
  BY <1>1, <1>2 DEF Inv, CswRead
<1>4. Accessing' <=> Accessing
  BY <1>1 DEF Accessing
<1>5. n' = n
  BY <1>1, <1>4
<1>6. /\ init_complete => BankWill(n, sel) /\ CswWill(n, csw)
      /\ init_complete /\ ~Accessing => tar = Invalid \/ TarWill(n, tar)
      /\ ~init_complete => tar = Invalid
      /\ state \in {"CACHE_APCSW", "READ_APCSW"} =>
           sel = 0 /\ BankWill(n, 0) /\ \A i \in DOMAIN Commands : Commands[i] \notin CswWrites
  BY DEF Inv, CachesRight
<1>7. \A i, v : /\ BankNext(i, v) <=> BankWill(i, v)
                /\ CswNext(i, v) <=> CswWill(i, v)
                /\ TarNext(i, v) <=> TarWill(i, v)
  BY <1>1, <1>2 DEF BankWill, CswWill, TarWill, BankNext, CswNext, TarNext
<1>8. /\ init_complete' => BankWill(n, sel') /\ CswWill(n, csw')
      /\ init_complete' /\ ~Accessing => tar' = Invalid \/ TarWill(n, tar')
      /\ ~init_complete' => tar' = Invalid
  <2>1. CASE csw' = csw /\ init_complete' = init_complete
    <3> HIDE DEF n
    <3> QED
      BY <1>1, <1>6, <2>1
  <2>2. CASE /\ state = "READ_APCSW" /\ state' = "IDLE" /\ cmd_complete
             /\ csw' = resp.data % 8 /\ init_complete'
    <3>1. Commands = <<>> /\ Latest = resp
      BY <2>2, Answered
    <3>2. t_csw = resp.data
      BY <2>2, <3>1 DEF Inv, CswRead
    <3>3. t_csw \in 0..7
      BY DEF Inv, TypeOK
    <3>4. csw' = t_csw
      BY <2>2, <3>2, <3>3, CswType
    <3>5. n = 1 /\ ~Accessing
      BY <3>1 DEF Accessing
    <3>6. ~init_complete /\ tar = Invalid /\ sel = 0
      BY <1>6, <2>2 DEF Inv, Sequential
    <3> HIDE DEF n
    <3>7. CswWill(1, csw')
      BY <3>4, WillNow DEF CswWill
    <3> QED
      BY <1>1, <1>6, <2>2, <3>5, <3>6, <3>7
  <2> QED
    BY <1>1, <2>1, <2>2
<1>9. CachesRight'
  <2> HIDE DEF n
  <2>1. /\ init_complete' => BankNext(n, sel') /\ CswNext(n, csw')
        /\ init_complete' /\ ~Accessing' => tar' = Invalid \/ TarNext(n, tar')
        /\ state' \in {"CACHE_APCSW", "READ_APCSW"} =>
             /\ sel' = 0 /\ BankNext(n, 0)
             /\ \A i \in DOMAIN Commands' : Commands'[i] \notin CswWrites
    BY <1>1, <1>4, <1>6, <1>7, <1>8
  <2> QED
    BY <1>5, <1>8, <2>1 DEF CachesRight, n, BankWill, CswWill, TarWill, BankNext, CswNext, TarNext
<1> QED
  BY <1>3, <1>9

LEMMA ClockPerforms ==
    ASSUME NEW ap, NEW other, Inv, ENABLE, Bus(ap, other), ~slv_HREADYOUT
    PROVE  performed' = performed
<1>1. ~HREADYOUT
  BY Zenon DEF HREADYOUT
<1> QED
  BY <1>1 DEF Bus

LEMMA QuietAccessed ==
    ASSUME NEW t, NEW ap, NEW other, Inv, Edge, Moves(t), Bus(ap, other), ~ADIv5_WREN'
    PROVE  Accessed'
<1> SUFFICES ASSUME ENABLE, ~faulted, state' = "AHB_RESP" PROVE Accessed'
  BY EdgeParts DEF Accessed
<1>1. /\ Commands' = Commands /\ sel' = sel /\ tar' = tar /\ csw' = csw
      /\ state = "AHB_RESP"
  BY QuietEdge
<1>2. ~slv_HREADYOUT /\ ~ahb_latch_data
  BY <1>1, Busy DEF Working
<1>3. /\ ahb_addr' = ahb_addr /\ ahb_wnr' = ahb_wnr /\ ahb_req_sz' = ahb_req_sz
      /\ ahb_data' = ahb_data /\ bus' = bus
  BY <1>2, Held
<1>4. performed' = performed /\ t_tar' = t_tar /\ Latest' = Latest
  BY <1>2, ClockPerforms, EdgeParts, EdgeLatest
<1>5. \A i, v : TarNext(i, v) <=> TarWill(i, v)
  BY <1>1, <1>4 DEF TarNext, TarWill
<1>6. Accessed
  BY DEF Inv
<1> QED
  BY <1>1, <1>3, <1>4, <1>5, <1>6 DEF Accessed, TarNext, TarWill, Access

\* A command written comes behind the others and changes nothing before it.
LEMMA Appended ==
    ASSUME NEW n, n = Len(Commands) + 1, Inv, Edge, ADIv5_WREN'
    PROVE  /\ n \in Nat /\ n > 0 /\ Commands' = Append(Commands, ADIv5_WRDATA')
           /\ Len(Commands') = n /\ Commands' # <<>> /\ Commands'[n] = ADIv5_WRDATA'
           /\ DOMAIN Commands' = 1..n
           /\ \A i \in 1..(n - 1) : Commands'[i] = Commands[i] /\ i \in DOMAIN Commands
           /\ \A i \in 1..n : \A v : BankNext(i, v) <=> BankWill(i, v)
           /\ \A i \in 1..n : \A v : TarNext(i, v) <=> TarWill(i, v)
           /\ \A v : BankWill(n, v) /\ ADIv5_WRDATA' \notin Selects => BankNext(n + 1, v)
           /\ \A v : CswWill(n, v) /\ ADIv5_WRDATA' \notin CswWrites => CswNext(n + 1, v)
           /\ \A v : TarWill(n, v) /\ ADIv5_WRDATA' \notin TarWrites => TarNext(n + 1, v)
           /\ \A v : CswNext(n, v) <=> CswWill(n, v)
           /\ ADIv5_WRDATA' \in Selects => BankNext(n + 1, ADIv5_WRDATA'.v)
           /\ ADIv5_WRDATA' \in CswWrites => CswNext(n + 1, ADIv5_WRDATA'.v)
           /\ ADIv5_WRDATA' \in TarWrites => TarNext(n + 1, ADIv5_WRDATA'.v)
<1> DEFINE s == Commands
           c == ADIv5_WRDATA'
<1>1. s \in Seq(Command) /\ c \in Command /\ Commands' = Append(s, c)
  BY EdgeParts, CommandsType, PortType, ClockCommands
<1>2. t_bank' = t_bank /\ t_csw' = t_csw /\ t_tar' = t_tar
  BY EdgeParts
<1> HIDE DEF s, c
<1>3. /\ n \in Nat /\ n > 0 /\ n = Len(s) + 1 /\ n + 1 = Len(s) + 2
      /\ Len(Append(s, c)) = n /\ Append(s, c) # <<>> /\ Append(s, c)[n] = c
      /\ DOMAIN Append(s, c) = 1..n
      /\ \A i \in 1..(n - 1) : Append(s, c)[i] = s[i] /\ i \in DOMAIN s
  BY <1>1 DEF s
<1>4. ASSUME NEW K, NEW now
      PROVE  /\ \A i \in 1..n : \A v : Will(Append(s, c), K, i, now, v) <=> Will(s, K, i, now, v)
             /\ \A v : Will(s, K, n, now, v) /\ c \notin K => Will(Append(s, c), K, n + 1, now, v)
             /\ c \in K => Will(Append(s, c), K, n + 1, now, c.v)
  <2>1. \A i \in 1..n : \A v : Will(Append(s, c), K, i, now, v) <=> Will(s, K, i, now, v)
    BY <1>1, <1>3, WillAppend
  <2>2. ASSUME NEW v, Will(s, K, n, now, v), c \notin K
        PROVE  Will(Append(s, c), K, n + 1, now, v)
    <3>1. Will(s, K, Len(s) + 1, now, v)
      BY <1>3, <2>2
    <3>2. Will(Append(s, c), K, Len(s) + 2, now, v)
      BY <1>1, <2>2, <3>1, WillLeave
    <3> QED
      BY <1>3, <3>2
  <2>3. ASSUME c \in K PROVE Will(Append(s, c), K, n + 1, now, c.v)
    <3>1. Will(Append(s, c), K, Len(s) + 2, now, c.v)
      BY <1>1, <2>3, WillWrite
    <3> QED
      BY <1>3, <3>1
  <2> QED
    BY <2>1, <2>2, <2>3
<1>5. /\ n \in Nat /\ n > 0 /\ Commands' = Append(Commands, ADIv5_WRDATA')
      /\ Len(Commands') = n /\ Commands' # <<>> /\ Commands'[n] = ADIv5_WRDATA'
      /\ DOMAIN Commands' = 1..n
      /\ \A i \in 1..(n - 1) : Commands'[i] = Commands[i] /\ i \in DOMAIN Commands
  BY <1>1, <1>3 DEF s, c
<1>6. /\ \A i \in 1..n : \A v : BankNext(i, v) <=> BankWill(i, v)
      /\ \A v : BankWill(n, v) /\ c \notin Selects => BankNext(n + 1, v)
      /\ c \in Selects => BankNext(n + 1, c.v)
  BY <1>1, <1>2, <1>4 DEF BankNext, BankWill, s
<1>7. /\ \A i \in 1..n : \A v : CswNext(i, v) <=> CswWill(i, v)
      /\ \A v : CswWill(n, v) /\ c \notin CswWrites => CswNext(n + 1, v)
      /\ c \in CswWrites => CswNext(n + 1, c.v)
  BY <1>1, <1>2, <1>4 DEF CswNext, CswWill, s
<1>8. /\ \A i \in 1..n : \A v : TarNext(i, v) <=> TarWill(i, v)
      /\ \A v : TarWill(n, v) /\ c \notin TarWrites => TarNext(n + 1, v)
      /\ c \in TarWrites => TarNext(n + 1, c.v)
  BY <1>1, <1>2, <1>4 DEF TarNext, TarWill, s
<1>9. n \in 1..n
  BY <1>3
<1> QED
  BY <1>5, <1>6, <1>7, <1>8, <1>9, Zenon DEF c

\* What is known of the port when a command is written.
LEMMA Known ==
    ASSUME NEW n, n = Len(Commands) + 1, Inv, ENABLE, ~faulted, state # "AHB_RESP"
    PROVE  /\ init_complete => /\ BankWill(n, sel) /\ CswWill(n, csw)
                               /\ tar = Invalid \/ TarWill(n, tar)
           /\ ~init_complete => tar = Invalid
           /\ state \in {"CACHE_APCSW", "READ_APCSW"} =>
                /\ sel = 0 /\ BankWill(n, 0)
                /\ \A i \in DOMAIN Commands : Commands[i] \notin CswWrites
<1>1. ~Accessing
  BY DEF Accessing
<1>2. Len(Commands) + (IF Accessing THEN 0 ELSE 1) = n
  BY <1>1
<1> QED
  BY <1>1, <1>2 DEF Inv, CachesRight

\* Only the actions that write commands do.
LEMMA Issued ==
    Inv /\ Edge /\ ENABLE /\ ADIv5_WREN' =>
      /\ state \in Issuing
      /\ \/ WriteDpSelect \/ CacheApCsw \/ UpdateApCsw \/ SelectBank0 \/ SelectBank1
         \/ SetCsw \/ SetTar \/ AccessDrw \/ AccessBdn
<1> SUFFICES ASSUME Inv, Edge, ENABLE, ADIv5_WREN'
             PROVE  /\ state \in Issuing
                    /\ \/ WriteDpSelect \/ CacheApCsw \/ UpdateApCsw \/ SelectBank0
                       \/ SelectBank1 \/ SetCsw \/ SetTar \/ AccessDrw \/ AccessBdn
  OBVIOUS
<1>1. Issues /\ Step
  BY EdgeParts, StepPort DEF Holds, Resets
<1>2. state \in Issuing /\ ~Inhibit
  BY <1>1 DEF Issues
<1> QED
  BY <1>1, <1>2 DEF Step, Inhibited, Disabled, ReadApCsw, Idle, AhbResp, ErrorWait, Issuing

\* The values that the commands carry.
LEMMA Carried ==
    Inv =>
      /\ ahb_addr \in 0..(AddrSpace - 1) /\ csw \in 0..7
      /\ 4 * (IF SEQ THEN 1 ELSE 0) + Width(csw) \in 0..7 /\ 4 * Inc(csw) + ahb_req_sz \in 0..7
  BY UpdatedType DEF Inv, TypeOK

LEMMA IssuePrepared == Inv /\ Edge /\ ENABLE /\ ADIv5_WREN' => Prepared'
<1> SUFFICES ASSUME Inv, Edge, ENABLE, ADIv5_WREN', ~faulted PROVE Prepared'
  BY EdgeParts DEF Prepared
<1> DEFINE n == Len(Commands) + 1
           c == ADIv5_WRDATA'
<1>1. state \in Issuing /\ state \notin {"READ_APCSW", "AHB_RESP"}
  BY Issued DEF Issuing
<1>2. /\ n \in Nat /\ n > 0 /\ Len(Commands') = n /\ Commands'[n] = c
      /\ DOMAIN Commands' = 1..n
      /\ \A i \in 1..(n - 1) : Commands'[i] = Commands[i] /\ i \in DOMAIN Commands
      /\ \A i \in 1..n : \A v : BankNext(i, v) <=> BankWill(i, v)
  <2>1. n = Len(Commands) + 1 /\ c = ADIv5_WRDATA'
    OBVIOUS
  <2> HIDE DEF n, c
  <2> QED
    BY <2>1, Appended
<1>3. /\ init_complete => BankWill(n, sel)
      /\ state \in {"UPDATE_APCSW", "SET_CSW", "SET_TAR"} => sel = 0 /\ init_complete
  BY <1>1, Known DEF Inv, Routed, Sequential, Working, Routing
<1>4. \A i \in DOMAIN Commands : \/ Commands[i] \in Selects
                                 \/ Commands[i] \in CswWrites \cup TarWrites /\ BankWill(i, 0)
  BY <1>1 DEF Inv, Prepared
<1> HIDE DEF n, c
<1>5. \/ c \in Selects
      \/ c \in CswWrites \cup TarWrites /\ BankWill(n, 0)
      \/ state' \in {"READ_APCSW", "AHB_RESP"}
  <2> USE DEF Issue, c
  <2>1. CASE WriteDpSelect \/ SelectBank0 \/ SelectBank1
    BY <2>1, Kinds DEF WriteDpSelect, SelectBank0, SelectBank1
  <2>2. CASE CacheApCsw \/ AccessDrw \/ AccessBdn
    BY <2>2 DEF CacheApCsw, AccessDrw, AccessBdn
  <2>3. CASE UpdateApCsw \/ SetCsw
    BY <1>3, <2>3, Kinds, Carried DEF UpdateApCsw, SetCsw
  <2>4. CASE SetTar
    BY <1>3, <2>4, Kinds, Carried DEF SetTar
  <2> QED
    BY <2>1, <2>2, <2>3, <2>4, Issued
<1>6. ASSUME NEW i \in 1..n
      PROVE  \/ Commands'[i] \in Selects
             \/ Commands'[i] \in CswWrites \cup TarWrites /\ BankNext(i, 0)
             \/ i = Len(Commands') /\ state' \in {"READ_APCSW", "AHB_RESP"}
  <2>1. CASE i = n
    BY <1>2, <1>5, <2>1
  <2>2. CASE i # n
    <3>1. i \in 1..(n - 1)
      BY <1>2, <2>2
    <3> QED
      BY <1>2, <1>4, <3>1
  <2> QED
    BY <2>1, <2>2
<1> QED
  BY <1>2, <1>6 DEF Prepared, BankWill, BankNext

LEMMA IssueCaches == Inv /\ Edge /\ ENABLE /\ ADIv5_WREN' => CachesRight'
<1> SUFFICES ASSUME Inv, Edge, ENABLE, ADIv5_WREN', ~faulted PROVE CachesRight'
  BY EdgeParts DEF CachesRight
<1> DEFINE n == Len(Commands) + 1
           c == ADIv5_WRDATA'
           m == IF state' = "AHB_RESP" THEN n ELSE n + 1
<1>1. state \in Issuing /\ state \notin {"READ_APCSW", "AHB_RESP"} /\ TarKept = tar
  BY Issued, NoFailure DEF Issuing
<1>2. /\ n \in Nat /\ n > 0 /\ Commands' # <<>> /\ Len(Commands') = n /\ Commands'[n] = c
      /\ DOMAIN Commands' = 1..n
      /\ \A i \in 1..(n - 1) : Commands'[i] = Commands[i] /\ i \in DOMAIN Commands
  <2>1. n = Len(Commands) + 1 /\ c = ADIv5_WRDATA'
    OBVIOUS
  <2> HIDE DEF n, c
  <2> QED
    BY <2>1, Appended
<1>3. /\ \A v : BankWill(n, v) => BankNext(n, v) /\ (c \notin Selects => BankNext(n + 1, v))
      /\ \A v : CswWill(n, v) => CswNext(n, v) /\ (c \notin CswWrites => CswNext(n + 1, v))
      /\ \A v : TarWill(n, v) /\ c \notin TarWrites => TarNext(n + 1, v)
      /\ c \in Selects => BankNext(n + 1, c.v)
      /\ c \in CswWrites => CswNext(n + 1, c.v)
      /\ c \in TarWrites => TarNext(n + 1, c.v)
  <2>1. n = Len(Commands) + 1 /\ c = ADIv5_WRDATA' /\ n \in 1..n
    BY <1>2
  <2> HIDE DEF n, c
  <2> QED
    BY <2>1, Appended
<1>4. /\ init_complete => /\ BankWill(n, sel) /\ CswWill(n, csw)
                          /\ tar = Invalid \/ TarWill(n, tar)
      /\ ~init_complete => tar = Invalid
      /\ state = "CACHE_APCSW" =>
           /\ sel = 0 /\ BankWill(n, 0)
           /\ \A i \in DOMAIN Commands : Commands[i] \notin CswWrites
  BY <1>1, Known
<1>5. /\ state \in {"CACHE_APCSW"} => ~init_complete
      /\ state \in {"UPDATE_APCSW"} \cup Working => init_complete
      /\ state = "WRITE_DPSELECT" /\ ~init_complete => Commands = <<>>
      /\ ENABLE' = ENABLE
  BY EdgeParts, NoneOutstanding DEF Inv, Sequential
<1>6. Accessing' <=> state' = "AHB_RESP"
  BY <1>2 DEF Accessing
<1>7. Len(Commands') + (IF Accessing' THEN 0 ELSE 1) = m
  BY <1>2, <1>6
<1> HIDE DEF n, c
<1>8. /\ init_complete' => BankNext(m, sel') /\ CswNext(m, csw')
      /\ init_complete' /\ state' # "AHB_RESP" => tar' = Invalid \/ TarNext(m, tar')
      /\ ~init_complete' => tar' = Invalid
      /\ state' \in {"CACHE_APCSW", "READ_APCSW"} =>
           /\ sel' = 0 /\ BankNext(m, 0)
           /\ \A i \in DOMAIN Commands' : Commands'[i] \notin CswWrites
  <2> USE DEF Issue, c
  <2>1. CASE WriteDpSelect
    <3>1. /\ c = SelectBank(0) /\ sel' = 0 /\ tar' = tar /\ csw' = csw /\ m = n + 1
          /\ init_complete' = init_complete /\ state' \in {"UPDATE_APCSW", "CACHE_APCSW"}
          /\ state' = "CACHE_APCSW" => ~init_complete
      BY <1>1, <2>1 DEF WriteDpSelect
    <3>2. BankNext(n + 1, 0) /\ c \notin CswWrites /\ c \notin TarWrites
      BY <1>3, <3>1, Kinds
    <3>3. ~init_complete => \A i \in DOMAIN Commands' : Commands'[i] \notin CswWrites
      <4>1. ~init_complete => n = 1
        BY <1>5, <2>1 DEF WriteDpSelect, n
      <4> QED
        BY <1>2, <3>2, <4>1
    <3> QED
      BY <1>3, <1>4, <3>1, <3>2, <3>3
  <2>2. CASE CacheApCsw
    <3>1. /\ c = ApRead(CSW) /\ sel' = sel /\ tar' = tar /\ csw' = csw /\ m = n + 1
          /\ init_complete' = init_complete /\ state' = "READ_APCSW" /\ state = "CACHE_APCSW"
      BY <1>1, <2>2 DEF CacheApCsw
    <3>2. c \notin Selects /\ c \notin CswWrites
      BY <3>1, Kinds
    <3>3. \A i \in DOMAIN Commands' : Commands'[i] \notin CswWrites
      <4> TAKE i \in DOMAIN Commands'
      <4>1. i = n \/ i \in 1..(n - 1)
        BY <1>2
      <4> QED
        BY <1>2, <1>4, <3>1, <3>2, <4>1
    <3> QED
      BY <1>3, <1>4, <1>5, <3>1, <3>2, <3>3
  <2>3. CASE UpdateApCsw
    <3>1. /\ c = ApWrite(CSW, csw') /\ sel' = sel /\ tar' = tar /\ m = n + 1 /\ csw' \in 0..7
          /\ init_complete' = init_complete /\ state' = "IDLE" /\ init_complete
      BY <1>1, <1>5, <2>3, Carried DEF UpdateApCsw
    <3> QED
      BY <1>3, <1>4, <3>1, Kinds
  <2>4. CASE SelectBank0
    <3>1. /\ c = SelectBank(0) /\ sel' = 0 /\ tar' = tar /\ csw' = csw /\ m = n + 1
          /\ init_complete' = init_complete /\ init_complete
          /\ state' \in {"SET_CSW", "ACCESS_DRW", "SET_TAR"}
      BY <1>1, <1>5, <2>4 DEF SelectBank0, Working, Routing
    <3> QED
      BY <1>3, <1>4, <3>1, Kinds
  <2>5. CASE SelectBank1
    <3>1. /\ c = SelectBank(1) /\ sel' = 1 /\ tar' = tar /\ csw' = csw /\ m = n + 1
          /\ init_complete' = init_complete /\ init_complete /\ state' = "ACCESS_BDn"
      BY <1>1, <1>5, <2>5 DEF SelectBank1, Working, Routing
    <3> QED
      BY <1>3, <1>4, <3>1, Kinds
  <2>6. CASE SetCsw
    <3>1. /\ c = ApWrite(CSW, csw') /\ sel' = sel /\ tar' = tar /\ m = n + 1 /\ csw' \in 0..7
          /\ init_complete' = init_complete /\ state' \in {"ACCESS_DRW", "SET_TAR"}
          /\ init_complete
      BY <1>1, <1>5, <2>6, Carried DEF SetCsw, Working, Routing
    <3> QED
      BY <1>3, <1>4, <3>1, Kinds
  <2>7. CASE SetTar
    <3>1. /\ c = ApWrite(TAR, tar') /\ sel' = sel /\ csw' = csw /\ m = n + 1
          /\ tar' \in 0..(AddrSpace - 1)
          /\ init_complete' = init_complete /\ state' = "ACCESS_DRW" /\ init_complete
      BY <1>1, <1>5, <2>7, Carried DEF SetTar, Working, Routing
    <3> QED
      BY <1>3, <1>4, <3>1, Kinds
  <2>8. CASE AccessDrw \/ AccessBdn
    <3>1. /\ sel' = sel /\ csw' = csw /\ m = n
          /\ init_complete' = init_complete /\ state' = "AHB_RESP" /\ init_complete
      BY <1>5, <2>8 DEF AccessDrw, AccessBdn, Working, Routing
    <3> QED
      BY <1>3, <1>4, <3>1
  <2> QED
    BY <2>1, <2>2, <2>3, <2>4, <2>5, <2>6, <2>7, <2>8, Issued
<1> HIDE DEF m
<1> QED
  BY <1>6, <1>7, <1>8 DEF CachesRight, BankWill, CswWill, TarWill, BankNext, CswNext, TarNext

LEMMA IssueCswRead == Inv /\ Edge /\ ENABLE /\ ADIv5_WREN' => CswRead'
<1> SUFFICES ASSUME Inv, Edge, ENABLE, ADIv5_WREN', state' = "READ_APCSW" PROVE CswRead'
  BY DEF CswRead
<1> DEFINE n == Len(Commands) + 1
<1>1. CacheApCsw
  BY Issued DEF WriteDpSelect, UpdateApCsw, SelectBank0, SelectBank1, SetCsw, SetTar, AccessDrw,
     AccessBdn, Issue
<1>2. ADIv5_WRDATA' = ApRead(CSW)
  BY <1>1 DEF CacheApCsw, Issue
<1>3. Commands' # <<>> /\ Len(Commands') = n /\ Commands'[n] = ADIv5_WRDATA'
  BY Appended
<1> QED
  BY <1>2, <1>3 DEF CswRead

LEMMA IssueAccessed ==
    ASSUME NEW t, NEW ap, NEW other, Inv, Edge, Moves(t), Bus(ap, other), ENABLE, ADIv5_WREN'
    PROVE  Accessed'
<1> SUFFICES ASSUME ~faulted, state' = "AHB_RESP" PROVE Accessed'
  BY EdgeParts DEF Accessed
<1> DEFINE n == Len(Commands) + 1
<1>1. AccessDrw \/ AccessBdn
  BY Issued DEF WriteDpSelect, CacheApCsw, UpdateApCsw, SelectBank0, SelectBank1, SetCsw, SetTar,
     Issue
<1>2. state \in {"ACCESS_DRW", "ACCESS_BDn"} /\ state \in Working /\ init_complete
  BY <1>1 DEF AccessDrw, AccessBdn, Working, Routing, Inv, Sequential
<1>3. ~slv_HREADYOUT /\ ~ahb_latch_data /\ bus # <<>>
  BY <1>2, Busy
<1>4. /\ ahb_addr' = ahb_addr /\ ahb_wnr' = ahb_wnr /\ ahb_req_sz' = ahb_req_sz
      /\ ahb_data' = ahb_data
  BY <1>3, Held
<1>5. performed' = <<>>
  BY <1>2, <1>3, ClockPerforms DEF Inv, Performed
<1>6. /\ n \in 1..n /\ Commands' # <<>> /\ Len(Commands') = n /\ Commands'[n] = ADIv5_WRDATA'
      /\ \A v : TarNext(n, v) <=> TarWill(n, v)
  <2>1. n = Len(Commands) + 1
    OBVIOUS
  <2> HIDE DEF n
  <2>2. n \in Nat /\ n > 0
    BY <2>1, Appended
  <2>3. n \in 1..n
    BY <2>2
  <2> QED
    BY <2>1, <2>3, Appended
<1>7. tar = Invalid \/ TarWill(n, tar)
  BY <1>2, Known
<1>8. ahb_addr # Invalid /\ Bank(ahb_addr) # Bank(Invalid)
  <2>1. ahb_addr = bus[1].addr
    BY <1>3 DEF Inv, On
  <2>2. bus[1] \in Transfers
    BY <1>3, OfferType DEF Inv, TypeOK
  <2>3. ahb_addr \in 0..(AddrSpace - 17)
    BY <2>1, <2>2, TransferType
  <2> QED
    BY <2>3, LastBank
<1>9. TarKept = tar
  BY NoFailure
<1> HIDE DEF n
<1>10. CASE AccessDrw
  <2>1. sel = 0 /\ tar = ahb_addr /\ Width(csw) = ahb_req_sz
    BY <1>10 DEF AccessDrw, Inv, Routed
  <2>2. /\ ADIv5_WRDATA' = Access(DRW) /\ sel' = sel /\ csw' = csw
        /\ tar' = IF ahb_wnr /\ Inc(csw) = 1 THEN (tar + 2^Width(csw)) % AddrSpace ELSE tar
    BY <1>9, <1>10 DEF AccessDrw, Issue, Access
  <2>3. Access(DRW)' = Access(DRW)
    BY <1>4 DEF Access
  <2>4. TarNext(n, ahb_addr)
    BY <1>6, <1>7, <1>8, <2>1
  <2> QED
    BY <1>4, <1>5, <1>6, <2>1, <2>2, <2>3, <2>4 DEF Accessed, TarWill, TarNext
<1>11. CASE AccessBdn
  <2>1. sel = 1 /\ ahb_req_sz = Word /\ Bank(ahb_addr) = Bank(tar)
    BY <1>11 DEF AccessBdn, Inv, Routed
  <2>2. ADIv5_WRDATA' = Access((ahb_addr \div 4) % 4) /\ sel' = sel /\ tar' = tar
    BY <1>9, <1>11 DEF AccessBdn, Issue, Access
  <2>3. Access((ahb_addr \div 4) % 4)' = Access((ahb_addr \div 4) % 4)
    BY <1>4 DEF Access
  <2>4. TarNext(n, tar)
    BY <1>6, <1>7, <1>8, <2>1
  <2> QED
    BY <1>4, <1>5, <1>6, <2>1, <2>2, <2>3, <2>4 DEF Accessed, TarWill, TarNext
<1> QED
  BY <1>1, <1>10, <1>11

LEMMA ClockInv ==
    ASSUME SeqReads = FALSE, NEW ap \in Offers, NEW other \in BOOLEAN, Inv, Clock(ap, other)
    PROVE  Inv'
<1> DEFINE t == ap[1]
<1>1. Edge /\ Bus(ap, other) /\ ENABLE' = ENABLE /\ UNCHANGED soft
  BY DEF Clock, Edge, soft
<1>2. TypeOK /\ Step /\ Fifos /\ Receive
  BY <1>1, EdgeParts
<1>3. Moves(t) /\ (Takes(t) => ap # <<>>)
  BY ClockMoves
<1>4. SEQ /\ Takes(t) => t.write
  BY <1>3 DEF Clock
<1> HIDE DEF t
<1>5. TypeOK'
  BY ClockType
<1>6. Counted'
  BY <1>1, <1>2, ClockCounted
<1>7. Short' /\ Left' \in Nat
  BY <1>1, <1>2, ClockShort
<1>8. NoOverflow'
  <2>1. (TypeOK => /\ Len(Commands) \in Nat /\ Incoming \in Nat
                   /\ Outstanding = Len(Commands) + Incoming)'
    BY OutstandingParts, PTL
  <2> QED
    BY <1>2, <1>5, <1>6, <1>7, <2>1, ClockRoom
<1>9. Off' /\ On'
  BY <1>1, <1>2, <1>3, ClockOff, ClockOn DEF Moves
<1>10. Sequential' /\ Failing' /\ Routed' /\ Performed'
  BY <1>1, <1>3, <1>4, ClockSequential, EdgeFailing, ClockRouted, ClockPerformed
<1>11. Prepared' /\ CachesRight' /\ CswRead' /\ Accessed'
  <2>1. CASE ~ENABLE
    <3>1. ~ADIv5_WREN'
      BY <1>2, <2>1, StepPort DEF Issues, Holds, Resets, Inv, Off, Issuing
    <3> QED
      BY <1>1, <2>1, <3>1, QuietPrepared DEF CachesRight, CswRead, Accessed
  <2>2. CASE ENABLE /\ ~ADIv5_WREN'
    BY <1>1, <1>3, <2>2, QuietPrepared, QuietCaches, QuietAccessed
  <2>3. CASE ENABLE /\ ADIv5_WREN'
    BY <1>1, <1>3, <2>3, IssuePrepared, IssueCaches, IssueCswRead, IssueAccessed
  <2> QED
    BY <2>1, <2>2, <2>3
<1> QED
  BY <1>5, <1>6, <1>7, <1>8, <1>9, <1>10, <1>11 DEF Inv

-----------------------------------------------------------------------------
(* Software.                                                               *)

LEMMA SwitchInv == ASSUME Inv, Switch PROVE Inv'
<1> USE DEF Inv
<1>1. /\ bus = <<>> /\ ENABLE' = ~ENABLE
      /\ UNCHANGED <<SEQ, bus, result, state, slv, ahb, caches, responses, port, cmdq, req,
                     respq, ADIv5_RDDATA, dslv>>
      /\ ~faulted' => performed' = <<>>
      /\ ENABLE => UNCHANGED target
      /\ ~ENABLE => /\ t_bank' \in {0, 1} /\ t_csw' \in Configured /\ t_tar' = 0
                    /\ faulted' = FALSE
  BY DEF Switch, target, Performed
<1>2. /\ ENABLE => state = "IDLE" /\ ~SeqChanged
      /\ ~ENABLE => /\ ~ADIv5_WREN /\ cmdq = <<>> /\ req = <<>> /\ respq = <<>> /\ ~check_resp
                    /\ state = "DISABLED" /\ tar = Invalid
                    /\ resp_pending = 0 /\ resp_recvd = 0 /\ STAT /\ ~init_complete
                    /\ slv_HREADYOUT /\ ~ahb_pending /\ ~ahb_latch_data
  BY DEF Switch, Quiet
<1> USE DEF slv, ahb, caches, responses, port, dslv
<1>3. /\ Commands' = Commands /\ Outstanding' = Outstanding /\ Left' = Left
      /\ SeqChanged' = SeqChanged /\ Latest' = Latest
  BY <1>1 DEF Commands, Outstanding, Left, SeqChanged, Latest
<1>4. ~ENABLE => Commands = <<>> /\ Outstanding = 0
  BY <1>2 DEF Commands, Outstanding
<1>5. TypeOK'
  <2>1. Typed /\ ENABLE \in BOOLEAN /\ faulted \in BOOLEAN
    BY TypeParts, Zenon DEF Typed
  <2>2. ENABLE' \in BOOLEAN /\ faulted' \in BOOLEAN
    <3>1. ENABLE' \in BOOLEAN
      BY <1>1, Zenon
    <3>2. faulted' = faulted \/ faulted' = FALSE
      BY <1>1, <2>1 DEF target
    <3> QED
      BY <2>1, <3>1, <3>2, Zenon
  <2>3. t_bank' \in 0..1 /\ t_csw' \in 0..7 /\ t_tar' \in 0..(AddrSpace - 1)
    BY <1>1, <2>1, SpaceAssumption DEF target, Configured, Word, Typed
  <2>4. Typed'
    BY <1>1, <2>1, <2>2, <2>3 DEF Typed
  <2>5. (TypeOK <=> Typed)'
    BY TypeParts, PTL
  <2> QED
    BY <2>4, <2>5
<1>6. NoOverflow' /\ Counted' /\ Short'
  BY <1>1, <1>2, <1>3, <1>4, CtrAssumption, ModSmall DEF NoOverflow, Counted, Short
<1>7. Off' /\ On' /\ Sequential'
  BY <1>1, <1>2, <1>3, <1>4 DEF Off, On, Sequential, Starting, Working, Routing
<1>8. Failing'
  <2>1. SUFFICES ASSUME ENABLE' PROVE Failing'
    BY DEF Failing
  <2>2. ~ENABLE
    BY <1>1, <2>1, Zenon
  <2>3. faulted' = FALSE /\ STAT' /\ ~check_resp' /\ respq' = <<>> /\ DOMAIN respq' = {}
    BY <1>1, <1>2, <2>2
  <2> QED
    BY <2>3 DEF Failing
<1>9. Prepared'
  <2>1. CASE ENABLE
    BY <1>1, <1>3, <2>1 DEF Prepared, target, BankWill
  <2>2. CASE ~ENABLE
    BY <1>3, <1>4, <2>2 DEF Prepared
  <2> QED
    BY <2>1, <2>2
<1>10. CachesRight' /\ CswRead' /\ Routed' /\ Accessed'
  BY <1>1, <1>2 DEF CachesRight, CswRead, Routed, Accessed
<1>11. Performed'
  BY <1>1, <1>2 DEF Performed
<1> QED
  BY <1>5, <1>6, <1>7, <1>8, <1>9, <1>10, <1>11

LEMMA SwitchSeqInv == Inv /\ SwitchSeq => Inv'
<1> SUFFICES ASSUME Inv, SwitchSeq PROVE Inv'
  OBVIOUS
<1> USE DEF Inv
<1>1. /\ bus = <<>> /\ SEQ' = ~SEQ /\ state = (IF ENABLE THEN "IDLE" ELSE "DISABLED")
      /\ UNCHANGED <<ENABLE, bus, result, state, slv, ahb, caches, responses, port, cmdq, req,
                     respq, ADIv5_RDDATA, target, dslv>>
  BY DEF SwitchSeq
<1>2. ~ADIv5_WREN /\ cmdq = <<>> /\ req = <<>> /\ respq = <<>> /\ ~check_resp
  BY DEF SwitchSeq, Quiet
<1> USE DEF slv, ahb, caches, responses, port, dslv, target
<1>3. /\ Commands' = Commands /\ Commands = <<>> /\ Outstanding' = Outstanding
      /\ Latest' = Latest
  BY <1>1, <1>2 DEF Commands, Outstanding, Latest
<1>4. TypeOK'
  <2>1. Typed
    BY TypeParts
  <2>2. SEQ' \in BOOLEAN
    BY <1>1, Zenon
  <2>3. Typed'
    BY <1>1, <2>1, <2>2 DEF Typed
  <2>4. (TypeOK <=> Typed)'
    BY TypeParts, PTL
  <2> QED
    BY <2>3, <2>4
<1>5. NoOverflow' /\ Counted'
  BY <1>1, <1>2, <1>3 DEF NoOverflow, Counted
<1>6. Short'
  <2>1. Left' <= 5 /\ Left' \in Nat
    BY <1>1 DEF Left, TypeOK
  <2>2. Commands' = <<>> /\ cmdq' = <<>> /\ req' = <<>>
    BY <1>1, <1>2, <1>3
  <2> QED
    <3> DEFINE c == Len(Commands')
               q == Len(cmdq')
               r == Len(req')
               l == Left'
    <3>1. c = 0 /\ q = 0 /\ r = 0 /\ l <= 5 /\ l \in Nat
      BY <2>1, <2>2
    <3> HIDE DEF c, q, r, l
    <3>2. c + l <= 5 /\ (c - r + l = 5 => q <= 1)
      BY <3>1
    <3> QED
      BY <3>2 DEF Short, c, q, r, l
<1>7. Off' /\ On' /\ Sequential'
  BY <1>1, <1>3 DEF Off, On, Sequential, Working, Routing
<1>8. Failing'
  BY <1>1, <1>2 DEF Failing
<1>9. Prepared'
  BY <1>3 DEF Prepared
<1>10. CachesRight' /\ CswRead' /\ Routed' /\ Accessed'
  <2>1. CachesRight'
    BY <1>1, <1>3 DEF CachesRight, Accessing, BankWill, CswWill, TarWill
  <2>2. CswRead' /\ Routed' /\ Accessed'
    BY <1>1 DEF CswRead, Routed, Accessed
  <2> QED
    BY <2>1, <2>2
<1>11. Performed'
  BY <1>1, <1>3 DEF Performed
<1> QED
  BY <1>4, <1>5, <1>6, <1>7, <1>8, <1>9, <1>10, <1>11

-----------------------------------------------------------------------------
(* The controller and the target.                                          *)

\* A command is answered: r is the response, and the bridge does not move.
Answers(r) ==
    /\ req # <<>> /\ req' = <<>>
    /\ respq' = Append(respq, r) /\ r \in Response
    /\ UNCHANGED <<soft, bus, result, state, slv, ahb, caches, responses, port, cmdq,
                   ADIv5_RDDATA, dslv>>

LEMMA AnswersKeep ==
    ASSUME NEW r, Inv, Answers(r)
    PROVE  /\ Commands # <<>> /\ Commands[1] = req[1] /\ Commands' = Tail(Commands)
           /\ Len(Commands) \in Nat /\ Len(Commands) > 0 /\ Len(Commands') = Len(Commands) - 1
           /\ Commands \in Seq(Command)
           /\ Outstanding' = Outstanding /\ Outstanding # 0
           /\ NoOverflow' /\ Counted' /\ Short' /\ Off' /\ On' /\ Sequential'
<1> USE DEF soft, slv, ahb, caches, responses, port, dslv
<1>1. TypeOK /\ respq \in Seq(Response) /\ Commands \in Seq(Command)
  BY CommandsType DEF Inv, TypeOK
<1>2. Commands # <<>> /\ Commands[1] = req[1] /\ Commands' = Tail(Commands)
  BY <1>1, ServedCommands DEF Answers
<1>3. /\ Len(Commands) \in Nat /\ Len(Commands) > 0 /\ Len(Commands') = Len(Commands) - 1
      /\ Len(respq) \in Nat /\ Len(respq') = Len(respq) + 1
  BY <1>1, <1>2 DEF Answers
<1>4. Outstanding' = Outstanding /\ Outstanding # 0
  BY <1>3 DEF Outstanding, Answers
<1>5. NoOverflow'
  BY DEF Answers, Inv, NoOverflow
<1>6. Counted'
  BY <1>4 DEF Answers, Inv, Counted
<1>7. Short'
  <2> DEFINE c == Len(Commands)
             q == Len(cmdq)
             r0 == Len(req)
             l == Left
  <2>1. Left' = Left /\ cmdq' = cmdq /\ req' = <<>>
    BY DEF Answers, Left, SeqChanged
  <2>2. r0 = 1
    <3>1. r0 \in Nat /\ r0 <= 1 /\ r0 # 0
      BY <1>1, EmptySeq, LenProperties DEF Answers, TypeOK
    <3> QED
      BY <3>1
  <2>3. l \in Nat /\ c + l <= 5 /\ (c - r0 + l = 5 => q <= 1)
    BY <1>1, LeftType DEF Inv, Short
  <2> HIDE DEF r0, l
  <2>4. (c - 1) + l <= 5 /\ ((c - 1) - 0 + l = 5 => q <= 1)
    BY <1>3, <2>2, <2>3
  <2>5. Len(Commands') = c - 1 /\ Len(req') = 0 /\ Left' = l /\ Len(cmdq') = q
    BY <1>3, <2>1 DEF l
  <2> QED
    BY <2>4, <2>5 DEF Short
<1>8. Off' /\ On' /\ Sequential'
  BY <1>4 DEF Answers, Inv, Off, On, Sequential, SeqChanged
<1> QED
  BY <1>1, <1>2, <1>3, <1>4, <1>5, <1>6, <1>7, <1>8

LEMMA AnswersType ==
    ASSUME NEW r, Inv, Answers(r), faulted' \in BOOLEAN,
           t_bank' \in 0..1 /\ t_csw' \in 0..7 /\ t_tar' \in 0..(AddrSpace - 1)
    PROVE  TypeOK'
<1>1. Typed
  BY TypeParts DEF Inv
<1>2. respq' \in Seq(Response) /\ req' \in Seq(Command) /\ Len(req') <= 1
  BY <1>1 DEF Typed, Answers
<1>3. Typed'
  BY <1>1, <1>2 DEF Typed, Answers, soft, slv, ahb, caches, responses, port, dslv
<1>4. (TypeOK <=> Typed)'
  BY TypeParts, PTL
<1> QED
  BY <1>3, <1>4

LEMMA FaultInv == Inv /\ Fault => Inv'
<1> SUFFICES ASSUME Inv, Fault PROVE Inv'
  OBVIOUS
<1>1. PICK d \in Nat : respq' = Append(respq, [ok |-> FALSE, data |-> d])
  <2>1. PICK d \in IF req[1] = ApRead(CSW) THEN Garbage ELSE {0} : Answer(FALSE, d)
    BY DEF Fault
  <2>2. d \in Nat
    BY GarbageAssumption
  <2> QED
    BY <2>1, <2>2 DEF Answer
<1> DEFINE r == [ok |-> FALSE, data |-> d]
<1>2. r \in Response /\ r.ok = FALSE
  BY DEF Response
<1>3. Answers(r)
  BY <1>1, <1>2 DEF Fault, Answers
<1> HIDE DEF r
<1>4. /\ Commands # <<>> /\ Outstanding' = Outstanding /\ Outstanding # 0
      /\ NoOverflow' /\ Counted' /\ Short' /\ Off' /\ On' /\ Sequential'
  BY <1>3, AnswersKeep
<1>5. faulted' = TRUE
  BY DEF Fault
<1>6. TypeOK'
  <2>1. t_bank' \in 0..1 /\ t_csw' \in 0..7 /\ t_tar' \in 0..(AddrSpace - 1)
    BY DEF Fault, Inv, TypeOK
  <2> QED
    BY <1>3, <1>5, <2>1, AnswersType
<1>7. Failing'
  <2>1. respq' = Append(respq, r) /\ respq \in Seq(Response)
    BY <1>3 DEF Answers, Inv, TypeOK
  <2>2. Len(respq) + 1 \in DOMAIN respq' /\ respq'[Len(respq) + 1] = r
    BY <2>1
  <2> QED
    BY <1>2, <1>5, <2>2 DEF Failing
<1>8. Prepared' /\ CachesRight' /\ CswRead' /\ Accessed'
  BY <1>5 DEF Prepared, CachesRight, CswRead, Accessed
<1>9. Routed'
  BY <1>3, <1>5 DEF Answers, soft, ahb, caches, Inv, Routed
<1>10. Performed'
  BY <1>3, <1>4, <1>5 DEF Answers, soft, slv, Inv, Performed
<1> QED
  BY <1>4, <1>6, <1>7, <1>8, <1>9, <1>10 DEF Inv

\* A command that writes a register, which is not the last of a transfer's.
Writes ==
    /\ \/ Commands[1] \in Selects
       \/ Commands[1] \in CswWrites \cup TarWrites /\ t_bank = 0
    /\ state \in {"READ_APCSW", "AHB_RESP"} => Len(Commands) # 1

\* The CSW is read, or the access made.
Reads ==
    /\ ENABLE /\ Len(Commands) = 1 /\ state = "READ_APCSW"
    /\ Commands[1] = ApRead(CSW) /\ t_bank = 0

AccessesDrw ==
    /\ ENABLE /\ Len(Commands) = 1 /\ state = "AHB_RESP"
    /\ Commands[1] = Access(DRW) /\ t_bank = 0 /\ t_tar = ahb_addr /\ t_csw = csw
    /\ tar = IF ahb_wnr /\ Inc(csw) = 1 THEN (ahb_addr + 2^ahb_req_sz) % AddrSpace ELSE ahb_addr

AccessesBdn ==
    /\ ENABLE /\ Len(Commands) = 1 /\ state = "AHB_RESP"
    /\ Commands[1] = Access((ahb_addr \div 4) % 4) /\ t_bank = 1 /\ t_tar = tar /\ t_csw = csw
    /\ ahb_req_sz = Word /\ Bank(ahb_addr) = Bank(tar)

LEMMA FirstWill ==
    \A v : /\ BankWill(1, v) <=> t_bank = v
           /\ CswWill(1, v) <=> t_csw = v
           /\ TarWill(1, v) <=> t_tar = v
  BY WillNow DEF BankWill, CswWill, TarWill

\* The oldest command is one of these.
LEMMA Oldest ==
    Inv /\ ~faulted /\ Commands # <<>> => Writes \/ Reads \/ AccessesDrw \/ AccessesBdn
<1> SUFFICES ASSUME Inv, ~faulted, Commands # <<>>
             PROVE  Writes \/ Reads \/ AccessesDrw \/ AccessesBdn
  OBVIOUS
<1>0. /\ Commands \in Seq(Command) /\ Len(Commands) \in Nat /\ Len(Commands) > 0
      /\ 1 \in DOMAIN Commands
  BY CommandsType DEF Inv
<1>1. \/ Commands[1] \in Selects
      \/ Commands[1] \in CswWrites \cup TarWrites /\ t_bank = 0
      \/ 1 = Len(Commands) /\ state \in {"READ_APCSW", "AHB_RESP"}
  BY <1>0, FirstWill DEF Inv, Prepared
<1>2. CASE ~(1 = Len(Commands) /\ state \in {"READ_APCSW", "AHB_RESP"})
  BY <1>1, <1>2 DEF Writes
<1>3. CASE 1 = Len(Commands) /\ state = "READ_APCSW"
  <2>1. ENABLE
    BY <1>3 DEF Inv, Off
  <2>2. Commands[1] = ApRead(CSW)
    BY <1>0, <1>3, <2>1 DEF Inv, CswRead
  <2>3. BankWill(2, 0) /\ Commands[1] \notin Selects
    <3>1. Len(Commands) + (IF Accessing THEN 0 ELSE 1) = 2
      <4>1. ~Accessing /\ Len(Commands) = 1
        BY <1>3 DEF Accessing
      <4> QED
        BY <4>1
    <3> QED
      BY <1>3, <2>1, <2>2, <3>1, Kinds DEF Inv, CachesRight
  <2>4. t_bank = 0
    <3>1. 1 \in 1..(2 - 1) /\ \A j \in 1..(2 - 1) : j = 1
      OBVIOUS
    <3> QED
      BY <2>3, <3>1 DEF BankWill, Will
  <2> QED
    BY <1>3, <2>1, <2>2, <2>4 DEF Reads
<1>4. CASE 1 = Len(Commands) /\ state = "AHB_RESP"
  <2>1. ENABLE
    BY <1>4 DEF Inv, Off
  <2>2. \/ /\ sel = 0 /\ Commands[1] = Access(DRW) /\ t_tar = ahb_addr
           /\ tar = IF ahb_wnr /\ Inc(csw) = 1
                    THEN (ahb_addr + 2^ahb_req_sz) % AddrSpace ELSE ahb_addr
        \/ /\ sel = 1 /\ Commands[1] = Access((ahb_addr \div 4) % 4)
           /\ ahb_req_sz = Word /\ Bank(ahb_addr) = Bank(tar) /\ t_tar = tar
    BY <1>0, <1>4, <2>1, FirstWill DEF Inv, Accessed
  <2>3. t_bank = sel /\ t_csw = csw
    <3>1. Len(Commands) + (IF Accessing THEN 0 ELSE 1) = 1
      BY <1>0, <1>4 DEF Accessing
    <3>2. init_complete
      BY <1>4, <2>1 DEF Inv, Sequential, Working
    <3> QED
      BY <2>1, <3>1, <3>2, FirstWill DEF Inv, CachesRight
  <2> QED
    BY <1>4, <2>1, <2>2, <2>3 DEF AccessesDrw, AccessesBdn
<1> QED
  BY <1>2, <1>3, <1>4

LEMMA KindsDisjoint ==
    /\ \A c \in Selects : c \notin CswWrites /\ c \notin TarWrites
    /\ \A c \in CswWrites : c \notin Selects /\ c \notin TarWrites
    /\ \A c \in TarWrites : c \notin Selects /\ c \notin CswWrites
<1>1. /\ \A c \in Selects : c.ap = FALSE
      /\ \A c \in CswWrites : c.ap = TRUE /\ c.a = 0
      /\ \A c \in TarWrites : c.ap = TRUE /\ c.a = 1
  BY DEF Selects, CswWrites, TarWrites, CSW, TAR
<1> QED
  BY <1>1

\* What carrying it out does.
Registers ==
    /\ t_bank' = IF Commands[1] \in Selects THEN Commands[1].v ELSE t_bank
    /\ t_csw' = IF Commands[1] \in CswWrites THEN Commands[1].v ELSE t_csw
    /\ t_tar' = IF Commands[1] \in TarWrites THEN Commands[1].v ELSE t_tar

LEMMA ExecuteWrites ==
    Inv /\ ~faulted /\ Writes /\ Execute(Commands[1]) =>
      Registers /\ performed' = performed /\ respq' = Append(respq, [ok |-> TRUE, data |-> 0])
<1> SUFFICES ASSUME Inv, ~faulted, Writes, Execute(Commands[1])
             PROVE  /\ Registers /\ performed' = performed
                    /\ respq' = Append(respq, [ok |-> TRUE, data |-> 0])
  OBVIOUS
<1>1. CASE Commands[1] \in Selects
  BY <1>1 DEF Execute, Answer, Registers, Selects, CswWrites, TarWrites
<1>2. CASE Commands[1] \in CswWrites /\ t_bank = 0
  <2> DEFINE c == Commands[1]
  <2>1. c.v % 8 = c.v /\ c.ap /\ ~c.rd /\ c.a = 0
    BY <1>2, CswType DEF CswWrites, CSW
  <2>2. c \in CswWrites /\ c \notin Selects /\ c \notin TarWrites
    BY <1>2, KindsDisjoint
  <2> HIDE DEF c
  <2>3. Execute(c) /\ t_bank = 0
    BY <1>2 DEF c
  <2>4. /\ t_csw' = c.v /\ UNCHANGED <<t_bank, t_tar, performed>>
        /\ respq' = Append(respq, [ok |-> TRUE, data |-> 0])
    BY <2>1, <2>3 DEF Execute, Answer, CSW, TAR, DRW
  <2> QED
    BY <2>2, <2>4 DEF Registers, c
<1>3. CASE Commands[1] \in TarWrites /\ t_bank = 0
  <2> DEFINE c == Commands[1]
             x == c.v
  <2>1. x \in 0..(AddrSpace - 1) /\ c.ap /\ ~c.rd /\ c.a = 1
    BY <1>3 DEF TarWrites, TAR
  <2>2. c \in TarWrites /\ c \notin Selects /\ c \notin CswWrites
    BY <1>3, KindsDisjoint
  <2> HIDE DEF c, x
  <2>3. Execute(c) /\ t_bank = 0
    BY <1>3 DEF c
  <2>4. x % AddrSpace = x
    BY <2>1, ModSmall, SpaceAssumption
  <2>5. /\ t_tar' = c.v % AddrSpace /\ UNCHANGED <<t_bank, t_csw, performed>>
        /\ respq' = Append(respq, [ok |-> TRUE, data |-> 0])
    BY <2>1, <2>3 DEF Execute, Answer, CSW, TAR, DRW
  <2> QED
    BY <2>2, <2>4, <2>5 DEF Registers, c, x
<1> QED
  BY <1>1, <1>2, <1>3 DEF Writes

LEMMA ExecuteReads ==
    Inv /\ ~faulted /\ Reads /\ Execute(Commands[1]) =>
      /\ UNCHANGED <<t_bank, t_csw, t_tar, performed>>
      /\ respq' = Append(respq, [ok |-> TRUE, data |-> t_csw])
  BY DEF Reads, Execute, Answer, Register, ApRead, Cmd, CSW, TAR, DRW

\* The transfer that is worked on, as it stands on the bus.
LEMMA AtWork ==
    Inv /\ ENABLE /\ state \in Working =>
      /\ ~slv_HREADYOUT
      /\ bus = <<[write |-> ahb_wnr, size |-> ahb_req_sz, addr |-> ahb_addr,
                  data |-> IF ahb_wnr THEN ahb_data ELSE 0]>>
      /\ ahb_wnr \in BOOLEAN /\ ahb_addr \in Nat /\ ahb_req_sz \in 0..2
      /\ ahb_req_sz = 2 => ahb_addr % 4 = 0
      /\ ~ahb_wnr => Inc(csw) # 1
<1> SUFFICES ASSUME Inv, ENABLE, state \in Working
             PROVE  /\ ~slv_HREADYOUT
                    /\ bus = <<[write |-> ahb_wnr, size |-> ahb_req_sz, addr |-> ahb_addr,
                                data |-> IF ahb_wnr THEN ahb_data ELSE 0]>>
                    /\ ahb_wnr \in BOOLEAN /\ ahb_addr \in Nat /\ ahb_req_sz \in 0..2
                    /\ ahb_req_sz = 2 => ahb_addr % 4 = 0
                    /\ ~ahb_wnr => Inc(csw) # 1
  OBVIOUS
<1> DEFINE t == bus[1]
<1>1. /\ ~slv_HREADYOUT /\ ~ahb_latch_data /\ bus # <<>>
      /\ ahb_addr = t.addr /\ ahb_wnr = t.write /\ ahb_req_sz = t.size
      /\ ahb_wnr => ahb_data = t.data
  BY Busy DEF Inv, On
<1>2. bus = <<t>> /\ t \in Transfers
  BY <1>1, OfferType DEF Inv, TypeOK
<1>3. ~t.write => Inc(csw) # 1
  BY <1>1 DEF Inv, Sequential, SeqChanged
<1> HIDE DEF t
<1>4. /\ t.write \in BOOLEAN /\ t.size \in 0..2 /\ t.addr \in Nat
      /\ t.size = 2 => t.addr % 4 = 0
      /\ ~t.write => t.data = 0
  BY <1>2, TransferType
<1>5. t = [write |-> t.write, size |-> t.size, addr |-> t.addr, data |-> t.data]
  BY <1>2, TransfersAssumption
<1>6. t.data = IF ahb_wnr THEN ahb_data ELSE 0
  BY <1>1, <1>4
<1> QED
  BY <1>1, <1>2, <1>3, <1>4, <1>5, <1>6

\* The access is the transfer's.
LEMMA ExecuteAccess ==
    Inv /\ ~faulted /\ (AccessesDrw \/ AccessesBdn) /\ Execute(Commands[1]) =>
      /\ performed' = Append(performed, [write |-> ahb_wnr, size |-> ahb_req_sz,
                                         addr |-> ahb_addr,
                                         data |-> IF ahb_wnr THEN ahb_data ELSE 0])
      /\ t_bank' = t_bank /\ t_csw' = t_csw /\ t_tar' = tar
      /\ respq' = Append(respq, [ok |-> TRUE, data |-> IF ahb_wnr THEN 0
                                                       ELSE Content(ahb_addr, ahb_req_sz)])
<1> SUFFICES ASSUME Inv, ~faulted, AccessesDrw \/ AccessesBdn, Execute(Commands[1])
             PROVE  /\ performed' = Append(performed, [write |-> ahb_wnr, size |-> ahb_req_sz,
                                         addr |-> ahb_addr,
                                         data |-> IF ahb_wnr THEN ahb_data ELSE 0])
                    /\ t_bank' = t_bank /\ t_csw' = t_csw /\ t_tar' = tar
                    /\ respq' = Append(respq, [ok |-> TRUE, data |-> IF ahb_wnr THEN 0
                                                       ELSE Content(ahb_addr, ahb_req_sz)])
  OBVIOUS
<1> DEFINE c == Commands[1]
<1>1. /\ ENABLE /\ state = "AHB_RESP" /\ t_csw = csw
      /\ c = Access(DRW) \/ c = Access((ahb_addr \div 4) % 4)
  BY DEF AccessesDrw, AccessesBdn
<1>2. /\ ahb_wnr \in BOOLEAN /\ ahb_addr \in Nat /\ ahb_req_sz \in 0..2
      /\ ahb_req_sz = 2 => ahb_addr % 4 = 0
      /\ ~ahb_wnr => Inc(csw) # 1
  BY <1>1, AtWork DEF Working
<1>3. Width(t_csw) = ahb_req_sz
  BY <1>1 DEF Inv, Routed
<1>4. c.ap /\ c.rd = ~ahb_wnr /\ (~c.rd) = ahb_wnr /\ c.v = IF ahb_wnr THEN ahb_data ELSE 0
  <2>1. CASE ahb_wnr
    <3>1. c.ap /\ c.rd = FALSE /\ c.v = ahb_data
      BY <1>1, <2>1 DEF Access, ApWrite, Cmd
    <3> QED
      BY <1>2, <2>1, <3>1
  <2>2. CASE ~ahb_wnr
    <3>1. c.ap /\ c.rd = TRUE /\ c.v = 0
      BY <1>1, <2>2 DEF Access, ApRead, Cmd
    <3> QED
      BY <1>2, <2>2, <3>1
  <2> QED
    BY <2>1, <2>2
<1>5. CASE AccessesDrw
  <2>1. c.a = 3 /\ t_bank = 0 /\ t_tar = ahb_addr
    BY <1>5 DEF AccessesDrw, Access, ApWrite, ApRead, Cmd, DRW
  <2> HIDE DEF c
  <2>2. Execute(c)
    BY DEF c
  <2>3. /\ Perform(~c.rd, t_tar, Width(t_csw), c.v)
        /\ respq' = Append(respq, [ok |-> TRUE,
                                   data |-> IF c.rd THEN Content(t_tar, Width(t_csw)) ELSE 0])
        /\ t_tar' = IF Inc(t_csw) = 1 THEN (t_tar + 2^Width(t_csw)) % AddrSpace ELSE t_tar
        /\ UNCHANGED <<t_bank, t_csw>>
    BY <1>4, <2>1, <2>2 DEF Execute, Answer, CSW, TAR, DRW
  <2>4. t_tar' = tar
    BY <1>1, <1>2, <1>3, <1>5, <2>1, <2>3 DEF AccessesDrw
  <2> QED
    BY <1>3, <1>4, <2>1, <2>3, <2>4 DEF Perform
<1>6. CASE AccessesBdn
  <2>1. c.a = (ahb_addr \div 4) % 4 /\ t_bank = 1 /\ t_tar = tar /\ ahb_req_sz = Word
    BY <1>6 DEF AccessesBdn, Access, ApWrite, ApRead, Cmd
  <2>2. (t_tar \div 16) * 16 + 4 * c.a = ahb_addr
    <3>1. Bank(ahb_addr) = Bank(tar) /\ tar \in Nat
      BY <1>6 DEF AccessesBdn, Inv, TypeOK
    <3>2. ahb_addr % 4 = 0
      BY <1>2, <2>1 DEF Word
    <3> QED
      BY <1>2, <2>1, <3>1, <3>2, BankedAddress
  <2> HIDE DEF c
  <2>3. Execute(c)
    BY DEF c
  <2> DEFINE b == (t_tar \div 16) * 16 + 4 * c.a
  <2>4. /\ Perform(~c.rd, b, Word, c.v)
        /\ respq' = Append(respq, [ok |-> TRUE, data |-> IF c.rd THEN Content(b, Word) ELSE 0])
        /\ UNCHANGED <<t_bank, t_csw, t_tar>>
    BY <1>4, <2>1, <2>3 DEF Execute, Answer
  <2> QED
    BY <1>4, <2>1, <2>2, <2>4 DEF Perform
<1> QED
  BY <1>5, <1>6

\* A response without a failure keeps what is known of failures.
LEMMA AnswersOk ==
    ASSUME NEW r, Inv, Answers(r), r.ok = TRUE, faulted' = faulted
    PROVE  Failing'
<1>1. /\ ENABLE' = ENABLE /\ STAT' = STAT /\ check_resp' = check_resp
      /\ ADIv5_RDDATA' = ADIv5_RDDATA /\ respq' = Append(respq, r)
      /\ respq \in Seq(Response) /\ r \in Response
  BY DEF Answers, soft, responses, Inv, TypeOK
<1>2. (\E i \in DOMAIN Append(respq, r) : ~Append(respq, r)[i].ok)
         <=> (\E i \in DOMAIN respq : ~respq[i].ok)
  <2>1. /\ \A i \in DOMAIN respq : i \in DOMAIN Append(respq, r) /\ Append(respq, r)[i] = respq[i]
        /\ \A i \in DOMAIN Append(respq, r) :
             \/ i \in DOMAIN respq /\ Append(respq, r)[i] = respq[i]
             \/ Append(respq, r)[i] = r
    BY <1>1
  <2> QED
    BY <2>1
<1> QED
  BY <1>1, <1>2 DEF Inv, Failing

LEMMA AnswersLatest ==
    ASSUME NEW r, Inv, Answers(r)
    PROVE  Latest' = r
<1>1. respq' = Append(respq, r) /\ respq \in Seq(Response)
  BY DEF Answers, Inv, TypeOK
<1>2. respq' # <<>> /\ respq'[Len(respq')] = r
  BY <1>1
<1> QED
  BY <1>2 DEF Latest

\* Registers after a command are as they were to be.
LEMMA RegistersWill ==
    ASSUME Inv, Commands # <<>>, Commands' = Tail(Commands), Registers,
           NEW i \in 1..Len(Commands), NEW v
    PROVE  /\ BankWill(i + 1, v) => BankNext(i, v)
           /\ CswWill(i + 1, v) => CswNext(i, v)
           /\ TarWill(i + 1, v) => TarNext(i, v)
<1>1. Commands \in Seq(Command)
  BY CommandsType DEF Inv
<1>2. BankWill(i + 1, v) => BankNext(i, v)
  BY <1>1, WillTail DEF BankWill, BankNext, Registers
<1>3. CswWill(i + 1, v) => CswNext(i, v)
  BY <1>1, WillTail DEF CswWill, CswNext, Registers
<1>4. TarWill(i + 1, v) => TarNext(i, v)
  BY <1>1, WillTail DEF TarWill, TarNext, Registers
<1> QED
  BY <1>2, <1>3, <1>4

LEMMA WritesInv ==
    ASSUME NEW r, Inv, Answers(r), ~faulted, faulted' = faulted, r.ok = TRUE,
           Writes, Registers, performed' = performed
    PROVE  Inv'
<1> DEFINE n == Len(Commands)
<1>1. /\ Commands # <<>> /\ Commands' = Tail(Commands) /\ Commands \in Seq(Command)
      /\ n \in Nat /\ n > 0 /\ Len(Commands') = n - 1 /\ Outstanding' = Outstanding
      /\ Outstanding # 0
      /\ NoOverflow' /\ Counted' /\ Short' /\ Off' /\ On' /\ Sequential'
  BY AnswersKeep
<1>2. /\ ENABLE' = ENABLE /\ SEQ' = SEQ /\ bus' = bus /\ state' = state /\ sel' = sel
      /\ csw' = csw /\ tar' = tar /\ init_complete' = init_complete
      /\ ahb_addr' = ahb_addr /\ ahb_wnr' = ahb_wnr /\ ahb_req_sz' = ahb_req_sz
      /\ ahb_data' = ahb_data /\ slv_HREADYOUT' = slv_HREADYOUT /\ slv_HRESP' = slv_HRESP
      /\ slv_HRDATA' = slv_HRDATA
  BY DEF Answers, soft, slv, ahb, caches
<1>3. TypeOK'
  <2>1. t_bank \in 0..1 /\ t_csw \in 0..7 /\ t_tar \in 0..(AddrSpace - 1)
    BY DEF Inv, TypeOK
  <2>2. t_bank' \in 0..1 /\ t_csw' \in 0..7 /\ t_tar' \in 0..(AddrSpace - 1)
    BY <2>1 DEF Registers, Selects, CswWrites, TarWrites
  <2>3. faulted' \in BOOLEAN
    BY TypeParts, Zenon DEF Inv, Typed
  <2> QED
    BY <2>2, <2>3, AnswersType
<1>4. Failing'
  BY AnswersOk
<1>5. /\ \A i \in DOMAIN Commands' : i + 1 \in DOMAIN Commands /\ Commands'[i] = Commands[i + 1]
      /\ \A i \in DOMAIN Commands' : i \in 1..n /\ (i + 1 = n => i = Len(Commands'))
  BY <1>1
<1>6. \A i \in 1..n : \A v : /\ BankWill(i + 1, v) => BankNext(i, v)
                             /\ CswWill(i + 1, v) => CswNext(i, v)
                             /\ TarWill(i + 1, v) => TarNext(i, v)
  BY <1>1, RegistersWill
<1>7. state \in {"READ_APCSW", "AHB_RESP"} => Commands' # <<>>
  <2>1. state \in {"READ_APCSW", "AHB_RESP"} => Len(Commands') # 0
    BY <1>1 DEF Writes
  <2> QED
    BY <2>1, EmptySeq
<1> HIDE DEF n
<1>8. Prepared'
  <2>1. ASSUME NEW i \in DOMAIN Commands'
        PROVE  \/ Commands'[i] \in Selects
               \/ Commands'[i] \in CswWrites \cup TarWrites /\ BankNext(i, 0)
               \/ i = Len(Commands') /\ state' \in {"READ_APCSW", "AHB_RESP"}
    <3>1. \/ Commands[i + 1] \in Selects
          \/ Commands[i + 1] \in CswWrites \cup TarWrites /\ BankWill(i + 1, 0)
          \/ i + 1 = n /\ state \in {"READ_APCSW", "AHB_RESP"}
      BY <1>5 DEF Inv, Prepared, n
    <3> QED
      BY <1>2, <1>5, <1>6, <3>1
  <2> QED
    BY <2>1 DEF Prepared, BankWill, BankNext
<1>9. CachesRight'
  <2> DEFINE m == IF Accessing THEN n - 1 ELSE n
  <2>1. Accessing' <=> Accessing
    BY <1>1, <1>2, <1>7 DEF Accessing
  <2>2. /\ Len(Commands') + (IF Accessing' THEN 0 ELSE 1) = m
        /\ Len(Commands) + (IF Accessing THEN 0 ELSE 1) = m + 1
        /\ m \in 1..n
    <3>1. Accessing => n # 1
      BY <1>1, <1>7 DEF Accessing, Writes, n
    <3> QED
      BY <1>1, <2>1, <3>1 DEF n
  <2> HIDE DEF m
  <2>3. ASSUME ENABLE
        PROVE  /\ init_complete => BankWill(m + 1, sel) /\ CswWill(m + 1, csw)
               /\ init_complete /\ ~Accessing => tar = Invalid \/ TarWill(m + 1, tar)
               /\ ~init_complete => tar = Invalid
               /\ state \in {"CACHE_APCSW", "READ_APCSW"} =>
                    /\ sel = 0 /\ BankWill(m + 1, 0)
                    /\ \A i \in DOMAIN Commands : Commands[i] \notin CswWrites
    BY <2>2, <2>3 DEF Inv, CachesRight
  <2>4. ASSUME ENABLE
        PROVE  /\ init_complete => BankNext(m, sel) /\ CswNext(m, csw)
               /\ init_complete /\ ~Accessing => tar = Invalid \/ TarNext(m, tar)
               /\ ~init_complete => tar = Invalid
               /\ state \in {"CACHE_APCSW", "READ_APCSW"} =>
                    /\ sel = 0 /\ BankNext(m, 0)
                    /\ \A i \in DOMAIN Commands' : Commands'[i] \notin CswWrites
    BY <1>5, <1>6, <2>2, <2>3, <2>4
  <2> QED
    BY <1>2, <2>1, <2>2, <2>4
       DEF CachesRight, BankWill, CswWill, TarWill, BankNext, CswNext, TarNext
<1>10. CswRead'
  <2>1. ASSUME ENABLE, state = "READ_APCSW"
        PROVE  Commands'[Len(Commands')] = ApRead(CSW)
    <3>1. Commands[n] = ApRead(CSW)
      BY <1>1, <2>1 DEF Inv, CswRead, n
    <3>2. Len(Commands') \in DOMAIN Commands' /\ Len(Commands') + 1 = n
      BY <1>1, <1>7, <2>1 DEF n
    <3> QED
      BY <1>5, <3>1, <3>2
  <2> QED
    BY <1>2, <1>7, <2>1 DEF CswRead
<1>11. Routed'
  BY <1>2 DEF Inv, Routed
<1>12. Accessed'
  <2> SUFFICES ASSUME ENABLE, state = "AHB_RESP" PROVE Accessed'
    BY <1>2 DEF Accessed
  <2>1. /\ Commands' # <<>> /\ Len(Commands') \in DOMAIN Commands' /\ Len(Commands') + 1 = n
        /\ Len(Commands') \in 1..n
    BY <1>1, <1>7 DEF n
  <2>2. Commands'[Len(Commands')] = Commands[n]
    BY <1>5, <2>1
  <2>3. \A v : TarWill(n, v) => TarNext(Len(Commands'), v)
    BY <1>6, <2>1
  <2>4. /\ performed = <<>>
        /\ \/ /\ sel = 0 /\ Commands[n] = Access(DRW) /\ TarWill(n, ahb_addr)
              /\ tar = IF ahb_wnr /\ Inc(csw) = 1
                       THEN (ahb_addr + 2^ahb_req_sz) % AddrSpace ELSE ahb_addr
           \/ /\ sel = 1 /\ Commands[n] = Access((ahb_addr \div 4) % 4)
              /\ ahb_req_sz = Word /\ Bank(ahb_addr) = Bank(tar) /\ TarWill(n, tar)
    BY <1>1 DEF Inv, Accessed, n
  <2>5. performed' = <<>>
    BY <2>4
  <2>6. Access(DRW)' = Access(DRW) /\ Access((ahb_addr \div 4) % 4)' = Access((ahb_addr \div 4) % 4)
    BY <1>2 DEF Access
  <2> QED
    BY <1>2, <2>1, <2>2, <2>3, <2>4, <2>5, <2>6 DEF Accessed, TarWill, TarNext
<1>13. Performed'
  BY <1>1, <1>2 DEF Inv, Performed
<1> QED
  BY <1>1, <1>3, <1>4, <1>8, <1>9, <1>10, <1>11, <1>12, <1>13 DEF Inv

\* What holds after the last command under way, whatever it does.
LEMMA LastKeeps ==
    ASSUME NEW r, Inv, Answers(r), ~faulted, faulted' = faulted, r.ok = TRUE,
           ENABLE, Len(Commands) = 1, state \in {"READ_APCSW", "AHB_RESP"},
           t_bank' = t_bank, t_csw' = t_csw, t_tar' \in 0..(AddrSpace - 1)
    PROVE  /\ Commands' = <<>> /\ Outstanding' # 0 /\ Latest' = r
           /\ ENABLE' = ENABLE /\ SEQ' = SEQ /\ bus' = bus /\ state' = state /\ sel' = sel
           /\ csw' = csw /\ tar' = tar /\ init_complete' = init_complete
           /\ ahb_addr' = ahb_addr /\ ahb_wnr' = ahb_wnr /\ ahb_req_sz' = ahb_req_sz
           /\ slv_HREADYOUT' = slv_HREADYOUT
           /\ TypeOK' /\ NoOverflow' /\ Counted' /\ Short' /\ Off' /\ On' /\ Sequential'
           /\ Failing' /\ Prepared' /\ Routed'
           /\ Len(Commands') + (IF Accessing' THEN 0 ELSE 1) = 1
           /\ \A v : /\ BankWill(1, v)' <=> t_bank' = v
                     /\ CswWill(1, v)' <=> t_csw' = v
                     /\ TarWill(1, v)' <=> t_tar' = v
<1>1. /\ Commands \in Seq(Command) /\ Commands' = Tail(Commands)
      /\ Outstanding' = Outstanding /\ Outstanding # 0
      /\ NoOverflow' /\ Counted' /\ Short' /\ Off' /\ On' /\ Sequential'
  BY AnswersKeep
<1>2. Commands' = <<>>
  BY <1>1
<1>3. /\ ENABLE' = ENABLE /\ SEQ' = SEQ /\ bus' = bus /\ state' = state /\ sel' = sel
      /\ csw' = csw /\ tar' = tar /\ init_complete' = init_complete
      /\ ahb_addr' = ahb_addr /\ ahb_wnr' = ahb_wnr /\ ahb_req_sz' = ahb_req_sz
      /\ slv_HREADYOUT' = slv_HREADYOUT
  BY DEF Answers, soft, slv, ahb, caches
<1>4. TypeOK'
  <2>1. faulted' \in BOOLEAN
    BY TypeParts, Zenon DEF Inv, Typed
  <2>2. t_bank \in 0..1 /\ t_csw \in 0..7
    BY DEF Inv, TypeOK
  <2> QED
    BY <2>1, <2>2, AnswersType
<1>5. Failing' /\ Latest' = r
  BY AnswersOk, AnswersLatest
<1>6. Prepared' /\ ~Accessing'
  BY <1>2 DEF Prepared, Accessing
<1>7. Routed'
  BY <1>3 DEF Inv, Routed
<1>8. Len(Commands') + (IF Accessing' THEN 0 ELSE 1) = 1
  <2>1. Len(Commands') = 0
    BY <1>2
  <2> QED
    BY <1>6, <2>1
<1>9. \A v : /\ BankWill(1, v)' <=> t_bank' = v
             /\ CswWill(1, v)' <=> t_csw' = v
             /\ TarWill(1, v)' <=> t_tar' = v
  <2>1. (\A v : /\ BankWill(1, v) <=> t_bank = v
                /\ CswWill(1, v) <=> t_csw = v
                /\ TarWill(1, v) <=> t_tar = v)'
    BY FirstWill, PTL
  <2> QED
    BY <2>1
<1> QED
  BY <1>1, <1>2, <1>3, <1>4, <1>5, <1>6, <1>7, <1>8, <1>9

LEMMA ReadsInv ==
    ASSUME NEW r, Inv, Answers(r), ~faulted, faulted' = faulted, r.ok = TRUE, Reads,
           r.data = t_csw, UNCHANGED <<t_bank, t_csw, t_tar, performed>>
    PROVE  Inv'
<1>1. /\ ENABLE /\ Len(Commands) = 1 /\ state = "READ_APCSW" /\ t_bank = 0
      /\ t_tar \in 0..(AddrSpace - 1)
  BY DEF Reads, Inv, TypeOK
<1>2. /\ Commands' = <<>> /\ Outstanding' # 0 /\ Latest' = r
      /\ ENABLE' = ENABLE /\ bus' = bus /\ state' = state /\ sel' = sel
      /\ tar' = tar /\ init_complete' = init_complete
      /\ slv_HREADYOUT' = slv_HREADYOUT
      /\ TypeOK' /\ NoOverflow' /\ Counted' /\ Short' /\ Off' /\ On' /\ Sequential'
      /\ Failing' /\ Prepared' /\ Routed'
      /\ Len(Commands') + (IF Accessing' THEN 0 ELSE 1) = 1
      /\ \A v : BankWill(1, v)' <=> t_bank' = v
  BY <1>1, LastKeeps
<1>3. CachesRight'
  <2>1. ~init_complete
    BY <1>1 DEF Inv, Sequential
  <2>2. sel = 0 /\ tar = Invalid
    BY <1>1, <2>1 DEF Inv, CachesRight
  <2>3. DOMAIN Commands' = {}
    BY <1>2
  <2>4. BankWill(1, 0)'
    BY <1>1, <1>2
  <2> QED
    BY <1>1, <1>2, <2>1, <2>2, <2>3, <2>4 DEF CachesRight
<1>4. CswRead' /\ Accessed'
  BY <1>1, <1>2 DEF CswRead, Accessed
<1>5. Performed'
  <2>1. ~slv_HREADYOUT \/ bus = <<>>
    BY <1>1 DEF Inv, On
  <2> QED
    BY <1>1, <1>2, <2>1 DEF Inv, Performed
<1> QED
  BY <1>2, <1>3, <1>4, <1>5 DEF Inv

LEMMA AccessInv ==
    ASSUME NEW r, Inv, Answers(r), ~faulted, faulted' = faulted, r.ok = TRUE,
           AccessesDrw \/ AccessesBdn,
           ~ahb_wnr => r.data = Content(ahb_addr, ahb_req_sz),
           performed' = bus, t_bank' = t_bank, t_csw' = t_csw, t_tar' = tar
    PROVE  Inv'
<1>1. /\ ENABLE /\ Len(Commands) = 1 /\ state = "AHB_RESP" /\ t_csw = csw
      /\ tar \in 0..(AddrSpace - 1)
  BY DEF AccessesDrw, AccessesBdn, Inv, TypeOK
<1>2. /\ Commands' = <<>> /\ Outstanding' # 0 /\ Latest' = r
      /\ ENABLE' = ENABLE /\ bus' = bus /\ state' = state /\ sel' = sel
      /\ csw' = csw /\ tar' = tar /\ init_complete' = init_complete
      /\ ahb_addr' = ahb_addr /\ ahb_wnr' = ahb_wnr /\ ahb_req_sz' = ahb_req_sz
      /\ slv_HREADYOUT' = slv_HREADYOUT
      /\ TypeOK' /\ NoOverflow' /\ Counted' /\ Short' /\ Off' /\ On' /\ Sequential'
      /\ Failing' /\ Prepared' /\ Routed'
      /\ Len(Commands') + (IF Accessing' THEN 0 ELSE 1) = 1
      /\ \A v : /\ BankWill(1, v)' <=> t_bank' = v
                /\ CswWill(1, v)' <=> t_csw' = v
                /\ TarWill(1, v)' <=> t_tar' = v
  BY <1>1, LastKeeps
<1>3. t_bank = sel /\ init_complete
  <2>1. init_complete
    BY <1>1 DEF Inv, Sequential, Working
  <2>2. Len(Commands) + (IF Accessing THEN 0 ELSE 1) = 1
    <3>1. Commands # <<>>
      BY AnswersKeep
    <3> QED
      BY <1>1, <3>1 DEF Accessing
  <2>3. BankWill(1, sel)
    BY <1>1, <2>1, <2>2 DEF Inv, CachesRight
  <2> QED
    BY <2>1, <2>3, FirstWill
<1>4. CachesRight'
  <2>1. BankWill(1, sel)' /\ CswWill(1, csw)' /\ TarWill(1, tar)'
    BY <1>1, <1>2, <1>3
  <2> QED
    BY <1>1, <1>2, <1>3, <2>1 DEF CachesRight
<1>5. CswRead' /\ Accessed'
  BY <1>1, <1>2 DEF CswRead, Accessed
<1>6. Performed'
  <2>1. ~slv_HREADYOUT /\ bus # <<>>
    BY <1>1, AtWork, Busy DEF Working
  <2> QED
    BY <1>1, <1>2, <2>1 DEF Inv, Performed
<1> QED
  BY <1>2, <1>4, <1>5, <1>6 DEF Inv

\* Until a failure a command carried out answers, and accesses nothing but the
\* transfer's place, once.
LEMMA ServeInv ==
    Inv /\ ~faulted /\ Serve =>
      /\ Inv'
      /\ UNCHANGED <<ENABLE, bus, faulted, result>>
      /\ performed' = performed \/ (bus # <<>> /\ performed = <<>> /\ performed' = bus)
<1> SUFFICES ASSUME Inv, ~faulted, Serve
             PROVE  /\ Inv'
                    /\ UNCHANGED <<ENABLE, bus, faulted, result>>
                    /\ \/ performed' = performed
                       \/ bus # <<>> /\ performed = <<>> /\ performed' = bus
  OBVIOUS
<1>1. /\ req # <<>> /\ req' = <<>> /\ ~faulted /\ faulted' = faulted /\ Execute(req[1])
      /\ UNCHANGED <<soft, bus, result, state, slv, ahb, caches, responses, port, cmdq,
                     ADIv5_RDDATA, dslv>>
  BY DEF Serve
<1>2. Commands # <<>> /\ Commands[1] = req[1]
  BY <1>1, ServedCommands DEF Inv, TypeOK
<1>3. Writes \/ Reads \/ AccessesDrw \/ AccessesBdn
  BY <1>1, <1>2, Oldest
<1>4. UNCHANGED <<ENABLE, bus, faulted, result>>
  BY <1>1 DEF soft
<1>5. CASE Writes
  <2> DEFINE r == [ok |-> TRUE, data |-> 0]
  <2>1. Registers /\ performed' = performed /\ respq' = Append(respq, r)
    BY <1>1, <1>2, <1>5, ExecuteWrites
  <2>2. r \in Response /\ r.ok = TRUE
    BY DEF Response
  <2> HIDE DEF r
  <2>3. Answers(r)
    BY <1>1, <2>1, <2>2 DEF Answers
  <2> QED
    BY <1>1, <1>4, <1>5, <2>1, <2>2, <2>3, WritesInv
<1>6. CASE Reads
  <2> DEFINE r == [ok |-> TRUE, data |-> t_csw]
  <2>1. UNCHANGED <<t_bank, t_csw, t_tar, performed>> /\ respq' = Append(respq, r)
    BY <1>1, <1>2, <1>6, ExecuteReads
  <2>2. r \in Response /\ r.ok = TRUE /\ r.data = t_csw
    BY DEF Response, Inv, TypeOK
  <2> HIDE DEF r
  <2>3. Answers(r)
    BY <1>1, <2>1, <2>2 DEF Answers
  <2> QED
    BY <1>1, <1>4, <1>6, <2>1, <2>2, <2>3, ReadsInv
<1>7. CASE AccessesDrw \/ AccessesBdn
  <2> DEFINE r == [ok |-> TRUE, data |-> IF ahb_wnr THEN 0 ELSE Content(ahb_addr, ahb_req_sz)]
  <2>1. /\ performed' = Append(performed, [write |-> ahb_wnr, size |-> ahb_req_sz,
                                           addr |-> ahb_addr,
                                           data |-> IF ahb_wnr THEN ahb_data ELSE 0])
        /\ t_bank' = t_bank /\ t_csw' = t_csw /\ t_tar' = tar /\ respq' = Append(respq, r)
    BY <1>1, <1>2, <1>7, ExecuteAccess
  <2>2. ENABLE /\ state = "AHB_RESP"
    BY <1>7 DEF AccessesDrw, AccessesBdn
  <2>3. bus = <<[write |-> ahb_wnr, size |-> ahb_req_sz, addr |-> ahb_addr,
                 data |-> IF ahb_wnr THEN ahb_data ELSE 0]>>
    BY <2>2, AtWork DEF Working
  <2>4. performed = <<>>
    BY <1>1, <1>2, <2>2 DEF Inv, Accessed
  <2>5. performed' = bus /\ bus # <<>>
    BY <2>1, <2>3, <2>4
  <2>6. r \in Response /\ r.ok = TRUE /\ (~ahb_wnr => r.data = Content(ahb_addr, ahb_req_sz))
    <3>1. ahb_addr \in Nat /\ ahb_req_sz \in 0..2
      BY DEF Inv, TypeOK
    <3>2. Content(ahb_addr, ahb_req_sz) \in Nat
      BY <3>1 DEF Content
    <3> QED
      BY <3>2 DEF Response
  <2> HIDE DEF r
  <2>7. Answers(r)
    BY <1>1, <2>1, <2>6 DEF Answers
  <2>8. Inv'
    BY <1>1, <1>7, <2>1, <2>5, <2>6, <2>7, AccessInv
  <2> QED
    BY <1>4, <2>4, <2>5, <2>8
<1> QED
  BY <1>3, <1>5, <1>6, <1>7

\* A command that does not go to the port selects a bank.
LEMMA CommandParts ==
    ASSUME NEW c \in Command
    PROVE  (~c.ap => c.v \in 0..1) /\ (c.ap => c.v \in Nat)
<1>1. CASE c \in {SelectBank(b) : b \in 0..1}
  <2>1. PICK b \in 0..1 : c = SelectBank(b)
    BY <1>1
  <2>2. c.ap = FALSE /\ c.v = b
    BY <2>1 DEF SelectBank, Cmd
  <2> QED
    BY <2>2
<1>2. CASE c \in [ap : {TRUE}, rd : BOOLEAN, a : 0..3, v : Nat]
  <2>1. c.ap = TRUE /\ c.v \in Nat
    BY <1>2
  <2> QED
    BY <2>1
<1> QED
  BY <1>1, <1>2 DEF Command

\* What the target holds after any command.
LEMMA ExecuteType ==
    ASSUME TypeOK, NEW c \in Command, Execute(c)
    PROVE  t_bank' \in 0..1 /\ t_csw' \in 0..7 /\ t_tar' \in 0..(AddrSpace - 1)
<1>1. t_bank \in 0..1 /\ t_csw \in 0..7 /\ t_tar \in 0..(AddrSpace - 1)
  BY DEF TypeOK
<1>2. ~c.ap => c.v \in 0..1
  BY CommandParts
<1>3. c.ap => c.v \in Nat
  BY CommandParts
<1>4. \A n \in Nat : n % AddrSpace \in 0..(AddrSpace - 1)
  BY SpaceAssumption
<1>5. 2^Width(t_csw) \in Nat
  <2>1. Width(t_csw) \in 0..3
    BY <1>1, CswType
  <2>2. 2^Width(t_csw) \in {1, 2, 4, 8}
    BY <2>1, Powers
  <2> QED
    BY <2>2
<1>6. t_bank' \in 0..1
  BY <1>1, <1>2 DEF Execute
<1>7. t_csw' \in 0..7
  <2>1. t_csw' = t_csw \/ (c.ap /\ t_csw' = c.v % 8)
    BY DEF Execute
  <2>2. \A n \in Nat : n % 8 \in 0..7
    OBVIOUS
  <2> QED
    BY <1>1, <1>3, <2>1, <2>2
<1>8. t_tar' \in 0..(AddrSpace - 1)
  <2> DEFINE w == 2^Width(t_csw)
  <2>1. w \in Nat /\ t_tar + w \in Nat
    BY <1>1, <1>5
  <2>2. \/ t_tar' = t_tar
        \/ c.ap /\ t_tar' = c.v % AddrSpace
        \/ t_tar' = (t_tar + w) % AddrSpace
    BY DEF Execute
  <2> HIDE DEF w
  <2> QED
    BY <1>1, <1>3, <1>4, <2>1, <2>2
<1> QED
  BY <1>6, <1>7, <1>8

\* After a failure a command carried out answers, and may access anything.
LEMMA StrayInv ==
    Inv /\ faulted /\ Serve => Inv' /\ UNCHANGED <<ENABLE, bus, faulted, result>>
<1> SUFFICES ASSUME Inv, faulted, Serve
             PROVE  Inv' /\ UNCHANGED <<ENABLE, bus, faulted, result>>
  OBVIOUS
<1>1. /\ req # <<>> /\ req' = <<>> /\ faulted' = faulted /\ Execute(req[1])
      /\ UNCHANGED <<soft, bus, result, state, slv, ahb, caches, responses, port, cmdq,
                     ADIv5_RDDATA, dslv>>
  BY DEF Serve
<1>2. req[1] \in Command
  BY <1>1 DEF Inv, TypeOK
<1>3. PICK d \in Nat : respq' = Append(respq, [ok |-> TRUE, data |-> d])
  <2> DEFINE c == req[1]
             D(x) == IF c = ApRead(CSW) THEN x % 8 ELSE 0
  <2>1. t_csw \in Nat /\ t_tar \in Nat
    BY DEF Inv, TypeOK
  <2> HIDE DEF c
  <2>2. c = ApRead(CSW) => c.ap /\ c.rd /\ c.a = CSW
    BY DEF ApRead, Cmd
  <2>3. \A a : Register(a) \in Nat
    BY <2>1 DEF Register
  <2>4. 4 * ((t_tar \div 16) * 16 + 4 * c.a) + Word \in Nat \/ c # ApRead(CSW)
    BY <2>1, <2>2 DEF Word, CSW
  <2>5. \E x : /\ respq' = Append(respq, [ok |-> TRUE, data |-> D(x)])
               /\ c = ApRead(CSW) => x \in Nat
    <3>0. Execute(c)
      BY <1>1 DEF c
    <3>1. CASE ~c.ap
      BY <2>2, <3>0, <3>1 DEF Execute, Answer
    <3>2. CASE c.ap /\ t_bank = 0 /\ c.a # DRW
      <4> DEFINE x == IF c.rd THEN Register(c.a) ELSE 0
      <4>1. respq' = Append(respq, [ok |-> TRUE, data |-> D(x)])
        BY <3>0, <3>2 DEF Execute, Answer
      <4>2. x \in Nat
        BY <2>3
      <4> QED
        BY <4>1, <4>2
    <3>3. CASE c.ap /\ t_bank = 0 /\ c.a = DRW
      <4> DEFINE x == IF c.rd THEN Content(t_tar, Width(t_csw)) ELSE 0
      <4>1. respq' = Append(respq, [ok |-> TRUE, data |-> D(x)])
        BY <3>0, <3>3 DEF Execute, Answer
      <4>2. c # ApRead(CSW)
        BY <2>2, <3>3 DEF CSW, DRW
      <4> QED
        BY <4>1, <4>2
    <3>4. CASE c.ap /\ t_bank = 1
      <4> DEFINE b == (t_tar \div 16) * 16 + 4 * c.a
                 x == IF c.rd THEN Content(b, Word) ELSE 0
      <4>1. respq' = Append(respq, [ok |-> TRUE, data |-> D(x)])
        BY <3>0, <3>4 DEF Execute, Answer
      <4>2. c = ApRead(CSW) => x \in Nat
        BY <2>4 DEF Content
      <4> QED
        BY <4>1, <4>2
    <3> QED
      BY <3>0, <3>1, <3>2, <3>3, <3>4 DEF Execute
  <2>6. \A x : (c = ApRead(CSW) => x \in Nat) => D(x) \in Nat
    OBVIOUS
  <2> QED
    BY <2>5, <2>6
<1> DEFINE r == [ok |-> TRUE, data |-> d]
<1>4. r \in Response /\ r.ok = TRUE
  BY DEF Response
<1>5. Answers(r)
  BY <1>1, <1>3, <1>4 DEF Answers
<1> HIDE DEF r
<1>6. /\ Outstanding' = Outstanding /\ Outstanding # 0
      /\ NoOverflow' /\ Counted' /\ Short' /\ Off' /\ On' /\ Sequential'
  BY <1>5, AnswersKeep
<1>7. faulted' \in BOOLEAN /\ faulted'
  BY <1>1, TypeParts, Zenon DEF Inv, Typed
<1>8. TypeOK'
  <2>1. t_bank' \in 0..1 /\ t_csw' \in 0..7 /\ t_tar' \in 0..(AddrSpace - 1)
    BY <1>1, <1>2, ExecuteType DEF Inv
  <2> QED
    BY <1>5, <1>7, <2>1, AnswersType
<1>9. Failing'
  BY <1>1, <1>4, <1>5, AnswersOk
<1>10. Prepared' /\ CachesRight' /\ CswRead' /\ Accessed'
  BY <1>7 DEF Prepared, CachesRight, CswRead, Accessed
<1>11. Routed'
  BY <1>1, <1>5 DEF Answers, soft, ahb, caches, Inv, Routed
<1>12. Performed'
  BY <1>5, <1>6, <1>7 DEF Answers, soft, slv, Inv, Performed
<1> QED
  BY <1>1, <1>6, <1>8, <1>9, <1>10, <1>11, <1>12 DEF Inv, soft

LEMMA StutterInv == Inv /\ UNCHANGED vars => Inv'
<1> SUFFICES ASSUME Inv, UNCHANGED vars PROVE Inv'
  OBVIOUS
<1>1. /\ ENABLE' = ENABLE /\ SEQ' = SEQ /\ bus' = bus /\ state' = state /\ STAT' = STAT
      /\ slv_HREADYOUT' = slv_HREADYOUT /\ slv_HRESP' = slv_HRESP /\ slv_HRDATA' = slv_HRDATA
      /\ ahb_addr' = ahb_addr /\ ahb_wnr' = ahb_wnr /\ ahb_req_sz' = ahb_req_sz
      /\ ahb_data' = ahb_data /\ ahb_pending' = ahb_pending
      /\ ahb_latch_data' = ahb_latch_data
      /\ sel' = sel /\ csw' = csw /\ tar' = tar /\ init_complete' = init_complete
      /\ resp_pending' = resp_pending /\ resp_recvd' = resp_recvd
      /\ check_resp' = check_resp /\ resp' = resp
      /\ ADIv5_WREN' = ADIv5_WREN /\ ADIv5_WRDATA' = ADIv5_WRDATA
      /\ cmdq' = cmdq /\ req' = req /\ respq' = respq /\ ADIv5_RDDATA' = ADIv5_RDDATA
      /\ t_bank' = t_bank /\ t_csw' = t_csw /\ t_tar' = t_tar
      /\ performed' = performed /\ faulted' = faulted
      /\ dslv_HREADYOUT' = dslv_HREADYOUT /\ dslv_HRESP' = dslv_HRESP /\ active' = active
  BY DEF vars, soft, slv, ahb, caches, responses, port, target, dslv
<1>2. /\ Commands' = Commands /\ Outstanding' = Outstanding /\ Left' = Left
      /\ SeqChanged' = SeqChanged /\ Latest' = Latest /\ Accessing' = Accessing
  BY <1>1 DEF Commands, Outstanding, Left, SeqChanged, Latest, Accessing
<1>3. TypeOK'
  BY <1>1 DEF Inv, TypeOK
<1>4. NoOverflow' /\ Counted' /\ Short'
  BY <1>1, <1>2 DEF Inv, NoOverflow, Counted, Short
<1>5. Off' /\ On' /\ Sequential' /\ Failing'
  BY <1>1, <1>2 DEF Inv, Off, On, Sequential, Failing
<1>6. Prepared' /\ CachesRight' /\ CswRead'
  BY <1>1, <1>2 DEF Inv, Prepared, CachesRight, CswRead, BankWill, CswWill, TarWill
<1>7. Routed' /\ Accessed' /\ Performed'
  BY <1>1, <1>2 DEF Inv, Routed, Accessed, Performed, Access, TarWill
<1> QED
  BY <1>3, <1>4, <1>5, <1>6, <1>7 DEF Inv

-----------------------------------------------------------------------------
(* The theorems.                                                           *)

LEMMA Invariant ==
    ASSUME SeqReads = FALSE PROVE Inv /\ [Next]_vars => Inv'
<1>1. ASSUME Inv, NEW ap \in Offers, NEW other \in BOOLEAN, Clock(ap, other)
      PROVE  Inv'
  BY <1>1, ClockInv
<1>2. Inv /\ Serve => Inv'
  BY ServeInv, StrayInv
<1> QED
  BY <1>1, <1>2, SwitchInv, SwitchSeqInv, FaultInv, StutterInv DEF Next

\* With masters that do not read while the target's address autoincrements the
\* bookkeeping of ahb3lite_debug_bridge is right: commands find room in the FIFO,
\* the response counters tell what is under way, and, until a command fails, the
\* caches hold what the port will hold.
THEOREM Invariance == ASSUME SeqReads = FALSE PROVE Spec => []Inv
<1>1. Init => Inv
  BY InitInv
<1>2. Inv /\ [Next]_vars => Inv'
  BY Invariant
<1> QED
  BY <1>1, <1>2, PTL DEF Spec

\* How a transfer ends is what RemoteMemory allows.
LEMMA EndRefines ==
    ASSUME NEW ap \in Offers, NEW other \in BOOLEAN, Inv, Clock(ap, other), bus # <<>>, HREADYOUT
    PROVE  Memory!Succeed(ap) \/ Memory!Refuse(ap)
<1>1. /\ bus' = ap /\ performed' = <<>> /\ ENABLE' = ENABLE /\ faulted' = faulted
      /\ result' = [err |-> HRESP, of |-> bus[1],
                    data |-> IF HRESP \/ bus[1].write THEN 0 ELSE slv_HRDATA]
  BY Zenon DEF Clock, Bus, Ready, soft
<1>2. HRESP \in BOOLEAN
  <2>1. Typed
    BY TypeParts DEF Inv
  <2> QED
    BY <2>1, Zenon DEF Typed, HRESP
<1>3. CASE HRESP
  <2>1. faulted \/ (~ENABLE /\ performed = <<>>)
    <3>1. ENABLE => slv_HREADYOUT /\ slv_HRESP
      BY <1>3, Zenon DEF HREADYOUT, HRESP
    <3> QED
      BY <3>1 DEF Inv, Performed
  <2>2. HRESP = TRUE
    BY <1>2, <1>3, Zenon
  <2>3. result' = [err |-> TRUE, of |-> bus[1], data |-> 0]
    BY <1>1, <2>2, Zenon
  <2> QED
    BY <1>1, <2>1, <2>3 DEF Memory!Refuse
<1>4. CASE ~HRESP
  <2>1. ENABLE /\ slv_HREADYOUT /\ ~slv_HRESP
    <3>1. ~ENABLE => dslv_HREADYOUT /\ ~dslv_HRESP
      BY <1>4, Zenon DEF HREADYOUT, HRESP
    <3>2. ENABLE
      BY <3>1 DEF Inv, Off
    <3> QED
      BY <1>4, <3>2, Zenon DEF HREADYOUT, HRESP
  <2>2. /\ ~faulted /\ performed = bus
        /\ ~bus[1].write => slv_HRDATA = Content(bus[1].addr, bus[1].size)
    BY <2>1 DEF Inv, Performed
  <2>3. HRESP = FALSE
    BY <1>2, <1>4, Zenon
  <2>4. result' = [err |-> FALSE, of |-> bus[1],
                   data |-> IF bus[1].write THEN 0 ELSE Content(bus[1].addr, bus[1].size)]
    BY <1>1, <2>2, <2>3, Zenon
  <2> QED
    BY <1>1, <2>2, <2>4 DEF Memory!Succeed
<1> QED
  BY <1>3, <1>4

\* Every step of the bridge is one of RemoteMemory, or none.
LEMMA StepRefines == Inv /\ [Next]_vars => [Memory!Next]_(Memory!vars)
<1> SUFFICES ASSUME Inv, [Next]_vars PROVE [Memory!Next]_(Memory!vars)
  OBVIOUS
<1> USE DEF Memory!Next, Memory!vars
<1>1. ASSUME NEW ap \in Offers, NEW other \in BOOLEAN, Clock(ap, other)
      PROVE  Memory!Next
  <2>1. ap \in {<<>>} \cup {<<t>> : t \in Transfers} /\ <<>> \in {<<>>} \cup {<<t>> : t \in Transfers}
    BY DEF Offers
  <2>2. UNCHANGED <<ENABLE, faulted>> /\ Bus(ap, other)
    BY <1>1 DEF Clock, soft
  <2>3. CASE bus # <<>> /\ HREADYOUT
    BY <1>1, <2>1, <2>3, EndRefines
  <2>4. CASE bus # <<>> /\ ~HREADYOUT
    <3>1. bus' = bus /\ result' = <<>> /\ performed' = performed
      BY <2>2, <2>4, Zenon DEF Bus, Ready
    <3> QED
      BY <2>2, <3>1 DEF Memory!Seen
  <2>5. CASE bus = <<>>
    <3>1. (bus' = ap \/ bus' = <<>>) /\ result' = <<>> /\ performed' = performed
      BY <2>2, <2>5, Zenon DEF Bus
    <3>2. Memory!Start(ap) \/ Memory!Start(<<>>)
      BY <2>2, <2>5, <3>1 DEF Memory!Start
    <3> QED
      BY <2>1, <3>2
  <2> QED
    BY <2>3, <2>4, <2>5
<1>2. ASSUME Switch PROVE Memory!Next
  <2>1. /\ bus = <<>> /\ ENABLE' = ~ENABLE /\ UNCHANGED <<bus, result>>
        /\ IF ENABLE THEN UNCHANGED <<performed, faulted>>
           ELSE performed' = <<>> /\ faulted' = FALSE
    BY <1>2 DEF Switch, target
  <2> QED
    BY <2>1 DEF Memory!Switch
<1>3. ASSUME SwitchSeq PROVE UNCHANGED Memory!vars
  BY <1>3 DEF SwitchSeq, target
<1>4. ASSUME Serve PROVE Memory!Next \/ UNCHANGED Memory!vars
  <2>1. CASE faulted
    BY <1>4, <2>1, StrayInv DEF Memory!Stray
  <2>2. CASE ~faulted
    <3>1. /\ UNCHANGED <<ENABLE, bus, faulted, result>>
          /\ performed' = performed \/ (bus # <<>> /\ performed = <<>> /\ performed' = bus)
      BY <1>4, <2>2, ServeInv
    <3> QED
      BY <3>1 DEF Memory!Perform
  <2> QED
    BY <2>1, <2>2
<1>5. ASSUME Fault PROVE Memory!Next
  BY <1>5 DEF Fault, soft, Memory!Fail
<1>6. ASSUME UNCHANGED vars PROVE UNCHANGED Memory!vars
  BY <1>6 DEF vars, soft, target
<1> QED
  BY <1>1, <1>2, <1>3, <1>4, <1>5, <1>6 DEF Next

\* With such masters the bridge implements RemoteMemory: until a
\* command fails each transfer is performed on the target once, at its own address
\* and of its own size, and ends well only then, a read with what the target has
\* there.  From then on every transfer ends with an error, until the bridge is
\* enabled anew; where the target is accessed meanwhile is not said, and may be
\* anywhere.
THEOREM Transparency ==
    ASSUME SeqReads = FALSE PROVE Spec => TransparentUntilFault
<1>1. Init => Memory!Init
  BY DEF Init, Memory!Init
<1>2. Inv /\ [Next]_vars => [Memory!Next]_(Memory!vars)
  BY StepRefines
<1>3. Spec => []Inv
  BY Invariance
<1> QED
  BY <1>1, <1>2, <1>3, PTL DEF Spec, TransparentUntilFault, Memory!Spec
=============================================================================
