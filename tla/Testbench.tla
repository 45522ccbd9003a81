----------------------------- MODULE Testbench -----------------------------
(***************************************************************************)
(* A simulation and its clients: the main loop of cm3_min_soc's tb.cpp,    *)
(* with any one of the services of VerilatorUtils, the thread of that      *)
(* service's server, and a client.                                         *)
(*                                                                         *)
(* The target is external: it answers JTAG with the pins it was evaluated  *)
(* with, its UART sends and receives bytes, its outputs change.            *)
(***************************************************************************)
EXTENDS VerilatorUtils, JTAGClient, GPIOClient

CONSTANTS
    ResetTime,          \* RESET_TIME
    Bytes,              \* what the UARTs carry
    MaxSent,            \* bound: commands a JTAG client sends
    MaxBytes,           \* bound: bytes the two UARTs send together
    MaxChanges,         \* bound: changes of the pins, of the two sides together
    MaxConns,           \* bound: connections of JTAG clients
    Ending              \* bound: services whose simulation may end

ASSUME BoundsAssumption ==
    /\ {ResetTime, MaxSent, MaxBytes, MaxChanges, MaxConns} \subseteq Nat
    /\ ResetTime <= Horizon
ASSUME FrameAssumption == Bytes \subseteq [1..Bits -> {0, 1}]

VARIABLES
    inReset,            \* was the target evaluated in reset?
    line,               \* levels its UART still has to put out, the first one is out
    said,               \* history: bytes its UART began to send
    hearing, bits,      \* its UART's frame: clocks since the start bit, bits sampled
    heard,              \* history: bytes it received
    clean,              \* history: has the server been there for every byte said?
    outputs, changes,   \* its other outputs
    peer,               \* who connects
    conns               \* connections so far

uartTarget == <<line, said, hearing, bits, heard, clean>>
target == <<inReset, tdo, uartTarget, outputs, changes>>
utils == <<t, traceVars>>
peers == <<peer, conns, clientVars, gpioClientVars>>
vars == <<serverVars, pins, PORESETn, uartVars, gpioVars, utils, options, target, peers>>

Init ==
    /\ ServerInit
    /\ UtilsInit
    /\ service = "none" => ~running
    /\ pins = (CHOOSE p \in Pins : TRUE) /\ tdo = pins
    /\ PORESETn = FALSE /\ inReset = TRUE
    /\ UartInit
    /\ line = <<>> /\ said = <<>> /\ hearing = 0 /\ bits = <<>> /\ heard = <<>> /\ clean = TRUE
    /\ output = {} /\ init = FALSE /\ input = {}
    /\ outputs = {} /\ changes = 0
    /\ peer \in CASE service = "jtag" -> {"JTAGClient", "openocd"}
                  [] service = "uart" -> {"host"}
                  [] service = "gpio" -> {"GPIOClient"}
                  [] OTHER -> {"none"}
    /\ conns = 0
    /\ call = "idle" /\ wrote = pins
    /\ c_pins = {} /\ c_output = {} /\ c_init = FALSE /\ c_input = {} /\ snaps = <<>>

-----------------------------------------------------------------------------
\* The target, one evaluation: the clock rises at even times.

\* Start bit, bits and stop bit, each for the clocks of a bit.
Frame(byte) ==
    [k \in 1..((Bits + 2) * UartPeriod) |->
        LET bit == (k - 1) \div UartPeriod
        IN  IF bit = 0 THEN 0 ELSE IF bit <= Bits THEN byte[bit] ELSE 1]

level == IF line = <<>> THEN 1 ELSE Head(line)

Say ==
    \/ /\ line' = IF line = <<>> THEN <<>> ELSE Tail(line)
       /\ UNCHANGED said
    \/ /\ Len(line) <= 1
       /\ Len(said) + Len(sent) < MaxBytes
       /\ \E b \in Bytes : line' = Frame(b) /\ said' = Append(said, b)

\* A receiver that samples in the middle of the bits.
Hear ==
    LET sample == hearing % UartPeriod = UartPeriod \div 2
        bit == hearing \div UartPeriod
    IN  IF hearing = 0
        THEN hearing' = (IF rx_pin = 0 THEN 1 ELSE 0) /\ UNCHANGED <<bits, heard>>
        ELSE IF sample /\ bit = Bits + 1
        THEN /\ hearing' = 0
             /\ bits' = <<>>
             /\ heard' = IF rx_pin = 1 THEN Append(heard, bits) ELSE heard
        ELSE /\ hearing' = hearing + 1
             /\ bits' = IF sample /\ bit \in 1..Bits THEN Append(bits, rx_pin) ELSE bits
             /\ UNCHANGED heard

Eval(now, resetn) ==
    /\ inReset' = ~resetn
    /\ tdo' = pins
    /\ IF service = "uart" /\ now % 2 = 0
       THEN Say /\ Hear /\ clean' = (clean /\ (running \/ line' = <<>>))
       ELSE UNCHANGED uartTarget
    /\ \/ UNCHANGED <<outputs, changes>>
       \/ /\ service = "gpio" /\ changes < MaxChanges
          /\ \E o \in SUBSET (0..(Outputs - 1)) : o /= outputs /\ outputs' = o
          /\ changes' = changes + 1

-----------------------------------------------------------------------------
\* main.  The options are parsed, and the server started, before the loop.

Parsed == service = "none" \/ thread /= "none"

Parse ==
    /\ service /= "none"
    /\ Start
    /\ UNCHANGED <<pins, PORESETn, uartVars, gpioVars, utils, options, target, peers>>

\* The loop.  Nothing in it but the JTAG service would assert the reset, and
\* the next iteration takes it back.
Iterate ==
    /\ process = "runs"
    /\ Parsed
    /\ DoCycle
    /\ LET resetn == t' > ResetTime \/ PORESETn
       IN  /\ Eval(t', resetn)
           /\ Serve(t', resetn, level', outputs')
    /\ UNCHANGED <<running, thread, sockfd, connection, process, clients, options, peers>>

\* Out of the loop: timeout, $finish, or ctrl-c.  Unless EarlyQuit, not before
\* the server listens.
Leave ==
    /\ process = "runs"
    /\ Parsed
    /\ service \in Ending
    /\ EarlyQuit \/ service = "none" \/ sockfd = "listening"
    /\ DoCycle \/ DoCycleEnds
    /\ process' = "quits"
    /\ UNCHANGED <<running, thread, tx, rx, sockfd, connection, simulation, clients,
                   pins, PORESETn, uartVars, gpioVars, options, target, peers>>

\* delete utils, and exit (0).
Delete ==
    /\ \/ Destroy /\ CloseTrace
       \/ Joined /\ UNCHANGED traceVars
    /\ UNCHANGED <<pins, PORESETn, uartVars, gpioVars, t, options, target, peers>>

Exit ==
    /\ process = "deleted"
    /\ process' = "exit 0"
    /\ UNCHANGED <<running, thread, tx, rx, sockfd, connection, simulation, clients,
                   pins, PORESETn, uartVars, gpioVars, utils, options, target, peers>>

Main == Parse \/ Iterate \/ Leave \/ Delete \/ Exit

ServerThread ==
    /\ Listen
    /\ UNCHANGED <<pins, PORESETn, uartVars, gpioVars, utils, options, target, peers>>

-----------------------------------------------------------------------------
\* The clients.

simulationVars == <<pins, PORESETn, uartVars, gpioVars, utils, options, target>>

\* JTAG clients come and go; a GPIO client connects once, when its simulation
\* starts, and the host of the UART is taken to do so too.
Dial ==
    /\ conns < IF service = "jtag" THEN MaxConns ELSE 1
    /\ \/ peer = "JTAGClient" /\ StartClient /\ UNCHANGED gpioClientVars
       \/ peer = "GPIOClient" /\ StartGpio /\ UNCHANGED clientVars
       \/ peer \in {"openocd", "host"} /\ Connect /\ UNCHANGED <<clientVars, gpioClientVars>>
    /\ conns' = conns + 1
    /\ UNCHANGED <<simulationVars, peer>>

MaySend(n) == Len(sent) + n <= MaxSent

JtagPeer ==
    /\ peer = "JTAGClient"
    /\ \/ MaySend(2) /\ \E p \in Pins : WritePins(p)
       \/ WriteQuery
       \/ ReadAnswer
       \/ Fails
       \/ Stop
    /\ UNCHANGED <<simulationVars, peer, conns, gpioClientVars>>

Asked == Queries(sent)

Openocd ==
    /\ peer = "openocd"
    /\ \/ MaySend(1) /\ \E c \in {Query, Reset(TRUE), Reset(FALSE)} : Send(<<c>>)
       \/ MaySend(2) /\ \E p \in Pins : Send(<<SetPins(p), Query>>)
       \/ Receive
       \/ Close(Asked > Len(got))
    /\ UNCHANGED <<simulationVars, peers>>

\* The target may have more to say at any time.
Host ==
    /\ peer = "host"
    /\ \/ Len(said) + Len(sent) < MaxBytes /\ \E b \in Bytes : Send(<<b>>)
       \/ Receive
       \/ Close(TRUE)
    /\ UNCHANGED <<simulationVars, peers>>

GpioPeer ==
    /\ peer = "GPIOClient"
    /\ \/ SendOutputs
       \/ ReadCommand
       \/ StopGpio
    /\ UNCHANGED <<simulationVars, peer, conns, clientVars>>

GpioPeerPins ==
    /\ c_init
    /\ changes < MaxChanges
    /\ changes' = changes + 1
    /\ \E p \in SUBSET (0..(Inputs - 1)) : p /= c_pins /\ c_pins' = p
    /\ UNCHANGED <<serverVars, pins, PORESETn, uartVars, gpioVars, utils, options, inReset, tdo,
                   uartTarget, outputs, peer, conns, clientVars, c_output, c_init, c_input, snaps>>

Client == Dial \/ JtagPeer \/ Openocd \/ Host \/ GpioPeer \/ GpioPeerPins

Next == Main \/ ServerThread \/ Client

\* The threads run, and clients that wait for an answer, or for commands, get
\* on; nothing makes a client connect, or the simulation end.
Spec ==
    /\ Init /\ [][Next]_vars
    /\ WF_vars(Parse \/ Iterate) /\ WF_vars(Delete) /\ WF_vars(Exit)
    /\ WF_vars(ServerThread)
    /\ WF_vars(JtagPeer /\ (WriteQuery \/ ReadAnswer))
    /\ WF_vars(GpioPeer /\ (SendOutputs \/ ReadCommand))

-----------------------------------------------------------------------------
(* Properties.                                                             *)

\* Commands reach the service as they were sent, and answers the client as
\* the service gave them, in order and once, over any number of connections,
\* as long as clients wait for what they asked for.
Conserved ==
    /\ sent = served \o tx \o inbound
    /\ ~rude => answered = got \o outbound \o rx

\* Two simulations coupled over JTAG stay in step: the client gets the
\* target's answer to the pins it has just written, because at least one
\* evaluation lies between two commands.
LockStep == peer = "JTAGClient" /\ ~rude => InStep

\* Nothing a client does ends the simulation, if the client waits for what it
\* asked for: only such a client, or the socket shut at the end, make it fail.
Survives == process = "exit -1" => rude \/ sockfd = "shut"

\* Server.cpp, line 33: "Wait for server to finish".  The thread does not
\* outlive the object it runs on.
JoinedFirst == process = "deleted" => thread \in {"none", "ended"}

\* Both: the simulation ends because it was told to, and leaves no thread behind.
EndsWell == Survives /\ JoinedFirst

InWindow(u) == fst.on /\ u >= fst.start /\ (fst.stop = 0 \/ u < fst.stop)

\* The trace holds the ticks from its start up to its end, unless the flag
\* the constructor forgets was set, and is closed in the end.
TraceWindow ==
    /\ ~fst.garbage /\ t <= Horizon => dumped \ {t} = {u \in 0..(t - 1) : InWindow(u)}
    /\ process = "exit 0" => ~isOpen

IsLag(short, long) == IsPrefix(short, long) /\ Len(long) - Len(short) <= 1

\* The UART carries every byte, in both directions, and delays each by one
\* frame at most, if the server runs when the target sends its first.
UartBytes ==
    service = "uart" =>
        /\ clean => IsLag(answered, said)
        /\ IsLag(heard, served)

Flushes == Len(SelectSeq(served, IsFlush))

\* Outputs sent together are inputs together, for one call of the service at
\* least, in the order they were sent.
GpioBatch ==
    [][service = "gpio" /\ Flushes' /= Flushes =>
         /\ Flushes' = Flushes + 1
         /\ input' \cap 0..(Inputs - 1) = snaps[Flushes']]_vars

\* Once the pins stop changing, both simulations see each other's.
GpioConverges ==
    <>[](peer = "GPIOClient" /\ c_init /\ ~rude /\ process = "runs" =>
            /\ input \cap 0..(Inputs - 1) = c_pins
            /\ c_input \cap 0..(Outputs - 1) = outputs)

\* Who waits for an answer gets it, as long as the simulation runs.
Answered == peer = "JTAGClient" /\ call = "read" ~> call /= "read" \/ rude \/ process /= "runs"

\* A simulation that is to end does.
Quits == process = "quits" ~> process \in {"exit 0", "exit -1"}

=============================================================================
