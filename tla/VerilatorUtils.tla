--------------------------- MODULE VerilatorUtils ---------------------------
(***************************************************************************)
(* verilator_utils.cpp: the time of a simulation, its trace, and the       *)
(* services called once per tick.  One service at most is enabled here:    *)
(* they have a server and queues each and share nothing but the time.      *)
(*                                                                         *)
(* Time is counted as it is up to Horizon, and modulo Wrap after it, which *)
(* every period divides.                                                   *)
(***************************************************************************)
EXTENDS JTAGServer, UARTServer, GPIOServer

CONSTANTS
    JtagPeriod, GpioPeriod,     \* ticks between two calls
    Horizon, Wrap               \* bounds of the time

ASSUME PeriodAssumption ==
    /\ {JtagPeriod, GpioPeriod, Wrap} \subseteq Nat \ {0}
    /\ Horizon \in Nat
    /\ Wrap % JtagPeriod = 0 /\ Wrap % GpioPeriod = 0 /\ Wrap % (2 * UartPeriod) = 0

VARIABLES
    service,            \* the one enabled: "none", "jtag", "uart" or "gpio"
    t,
    timeout,            \* 0: none
    fst,                \* options of the trace: is it on, its first tick, its end (0: none)
    fstDumping,         \* not initialised by the constructor
    isOpen,             \* tfp->isOpen ()
    dumped              \* history: ticks in the trace

traceVars == <<fstDumping, isOpen, dumped>>
options == <<service, timeout, fst>>

\* parseOpts, for the options that matter to the trace and the time.
UtilsInit ==
    /\ t = 0
    /\ fstDumping \in BOOLEAN
    /\ isOpen = FALSE
    /\ dumped = {}
    /\ \/ /\ service = "none"
          /\ timeout \in 0..Horizon
          /\ fst \in [on : BOOLEAN, start : 0..Horizon, stop : 0..Horizon, garbage : {fstDumping}]
       \/ /\ service \in {"jtag", "uart", "gpio"}
          /\ timeout = 0
          /\ fst = [on |-> FALSE, start |-> 0, stop |-> 0, garbage |-> fstDumping]
          /\ fstDumping = FALSE

Tick == IF t = Horizon + Wrap THEN Horizon + 1 ELSE t + 1

TimedOut == timeout /= 0 /\ t >= timeout

Stopped == fst.stop /= 0 /\ t >= fst.stop
Started == ~Stopped /\ fst.on /\ t >= fst.start

\* doCycle, first half: open or close the trace, and write this tick to it,
\* which does nothing while no file is open.  $finish closes it after that.
\* Mutant of Dump: the first tick of the trace only opens it.
DumpNext(finish) ==
    LET open == IF Stopped /\ fstDumping THEN FALSE ELSE isOpen \/ (Started /\ ~fstDumping)
    IN  /\ fstDumping' = IF Stopped THEN FALSE ELSE fstDumping \/ Started
        /\ isOpen' = (open /\ ~finish)
        /\ dumped' = IF fstDumping /\ open THEN dumped \cup {t} ELSE dumped
Dump(finish) ==
    LET open == IF Stopped /\ fstDumping THEN FALSE ELSE isOpen \/ (Started /\ ~fstDumping)
    IN  /\ fstDumping' = IF Stopped THEN FALSE ELSE fstDumping \/ Started
        /\ isOpen' = (open /\ ~finish)
        /\ dumped' = IF fstDumping' /\ open THEN dumped \cup {t} ELSE dumped

\* Second half: time passes, unless the timeout is reached or the target
\* called $finish.
DoCycle ==
    /\ ~TimedOut
    /\ Dump(FALSE)
    /\ t' = Tick

DoCycleEnds ==
    /\ \/ TimedOut /\ Dump(FALSE)
       \/ ~TimedOut /\ Dump(TRUE)
    /\ UNCHANGED t

\* The services at time now.  The reset pin, the target's output to the UART
\* and its other outputs are as the target was evaluated.
Serve(now, resetn, tx_pin, outputs) ==
    \/ /\ service = "jtag"
       /\ now % JtagPeriod = 0
       /\ DoJTAGServer(resetn)
       /\ UNCHANGED <<uartVars, gpioVars>>
    \/ /\ service = "uart"
       /\ DoUARTServer(now, tx_pin)
       /\ PORESETn' = resetn
       /\ UNCHANGED <<pins, gpioVars>>
    \/ /\ service = "gpio"
       /\ now % GpioPeriod = 0
       /\ DoGPIOServer(outputs)
       /\ PORESETn' = resetn
       /\ UNCHANGED <<pins, uartVars>>
    \/ /\ \/ service = "none"
          \/ service = "jtag" /\ now % JtagPeriod /= 0
          \/ service = "gpio" /\ now % GpioPeriod /= 0
       /\ PORESETn' = resetn
       /\ UNCHANGED <<tx, rx, simulation, pins, uartVars, gpioVars>>

\* The destructor closes an open trace before it deletes the servers.
CloseTrace ==
    /\ isOpen' = (isOpen /\ ~fstDumping)
    /\ UNCHANGED <<fstDumping, dumped>>

=============================================================================
