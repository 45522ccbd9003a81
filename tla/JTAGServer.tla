----------------------------- MODULE JTAGServer -----------------------------
(***************************************************************************)
(* JTAGServer.cpp: commands of the bitbang protocol.  A command sets the   *)
(* pins (TCK, TMS and TDI, here one value), asks for what the target       *)
(* answers, or sets the system reset.                                      *)
(***************************************************************************)
EXTENDS Server

CONSTANT Pins           \* what a client can put on the pins

VARIABLES
    pins,               \* TCK, TMS, TDI
    tdo,                \* TDO and TMS of the target
    PORESETn            \* the pin srst points to: is the target out of reset?

jtagVars == <<pins, tdo, PORESETn>>

SetPins(p) == [op |-> "pins", pins |-> p]    \* '0' ... '7'
Reset(on) == [op |-> "reset", on |-> on]     \* 'r' ... 'u'
Query == [op |-> "query"]                    \* 'R' and 'S'

\* How many of some commands ask for an answer.
Queries(cmds) == Cardinality({i \in DOMAIN cmds : cmds[i].op = "query"})

\* doJTAGServer: one command.  resetn is PORESETn as the main loop has left it.
\* Mutant of DoJTAGServer: every command there is.
DoJTAGServerAll(resetn) ==
    LET n == Len(tx)
        sets == SelectSeq(tx, LAMBDA c : c.op = "pins")
        asks == SelectSeq(tx, LAMBDA c : c.op = "query")
    IN  /\ Exchange(n, [i \in 1..Len(asks) |-> tdo'])
        /\ pins' = IF sets = <<>> THEN pins ELSE Last(sets).pins
        /\ PORESETn' = resetn
DoJTAGServer(resetn) ==
    \/ /\ tx = <<>>
       /\ UNCHANGED <<tx, rx, simulation, pins>>
       /\ PORESETn' = resetn
    \/ /\ tx /= <<>>
       /\ LET cmd == Head(tx)
          IN  /\ Exchange(1, IF cmd.op = "query" THEN <<tdo'>> ELSE <<>>)
              /\ pins' = IF cmd.op = "pins" THEN cmd.pins ELSE pins
              /\ PORESETn' = IF cmd.op = "reset" THEN ~cmd.on ELSE resetn

=============================================================================
