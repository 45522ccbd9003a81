# Formal models of tinylabs-cores

TLA+ models of the cores that carry commands and data between a host computer,
an AHB3-Lite bus and the debug port of an ARM target, and of the C++ that runs
such a system in simulation and connects it to other programs, with the TLC
runs that check them on small instances and TLAPS proofs for every instance.  References
such as `fifo_arb_rx.sv:93` are to files of the repository.

* [The system](#the-system): parts, state, interactions, what is hard
* [Modules](#modules): which module models what, and how
* [Runs](#runs): what TLC checks, bounds, fairness
* [Proofs](#proofs)
* [Disagreements with comments](#disagreements-with-comments)
* [Limits](#limits): what is assumed, only model-checked, or left out
* [Plan](#plan)

## The system

The cores are synchronous hardware: registers that change together at a clock
edge, and wires that are functions of registers and inputs.  They talk through
FIFOs (a write enable and a full flag, a read enable and an empty flag, read
data a cycle after the read) and through AHB3-Lite
(address phase, then a data phase that lasts until HREADY).

Verilator makes a C++ program of a core, and `verilator_utils` runs it: a main
loop evaluates the target once a tick and calls services, each of which moves
pins of the target to and from a TCP client.  A service has a thread that
accepts clients and reads and writes their socket, and two lock-free queues
between that thread and the loop.

| Component | State it keeps | Operations | Talks to |
|---|---|---|---|
| `host_fifo_pkg` | none | packet format: a command word with SELMASK, CNTMASK, payload words | all host cores |
| `fifo_arb_rx` | selection, payload counter, a client FIFO each | route a word | host FIFO, two clients |
| `fifo_arb_tx` | selection, counter, stored word, back pressure | merge a word | two clients, host FIFO |
| `ahb3lite_host_master` | command, payload buffer, bus registers, answer buffer | collect bytes, one transfer, answer | host FIFO, bus |
| `ahb3lite_host_slave` | request buffer, answer buffer, bus answer | take a transfer, send it, wait for the answer, end it | bus, host FIFO |
| `ahb3lite_default_slave` | a two cycle error | refuse a transfer | bus |
| `cm3_excl_mon` | one reservation: address, countdown, valid | exclusive read, exclusive write, ordinary access, expiry | processor, bus |
| `jtag_adiv5`, `swd_adiv5` | command in progress, retries, IR cache (JTAG), answer | carry out a command by PHY commands, retry, abort | debug bridge (two FIFOs), PHY (two clock crossing FIFOs) |
| `jtag_phy`, `swd_phy` | bit counters, TAP position | one PHY command | target pins |
| `adiv5_mux` | none | select an interface, reset the other | both controllers |
| `ahb3lite_debug_bridge` | caches of TAR, CSW, SELECT; counters of responses; IRQ scan | a bus transfer as ADIv5 commands | bus, `arm_debug`, IRQ FIFO |
| `ahb3lite_remote_bridge`, `ahb3lite_remote_bridge2` | earlier versions of the same | | |
| `ahb3lite_csr`, `ahb3lite_irq_slave` | registers | access with byte lanes, strobes | bus |
| `ahb3lite_mvec` | address, LFSR, pass | write all, verify all | bus |
| `uart_fifo` | byte valid, dropped bytes | send, receive | UART, FIFOs |
| `readerwriterqueue.h`, `atomicops.h` | a ring of blocks, two threads' copies of its indices; a counting semaphore in two parts | enqueue, dequeue, peek, pop, estimate the size; the same and wait, with a timeout | producer and consumer thread |
| `Server` | thread, running flag, listening socket, connection, two queues | start, accept, read, flush, accept again, end | TCP client, kernel, main loop |
| `JTAGServer`, `UARTServer`, `GPIOServer` | pins; frames in progress; pins as last sent | one command, bits of a frame, a batch of pins | `Server`'s queues, target |
| `JTAGClient`, `GPIOClient` | connection, pins as last sent | a round of pins, query and answer; changes of pins | the servers of another simulation |
| `VerilatorUtils`, `tb.cpp` | time, trace, the services | parse options, a cycle, call the services, tear down | target, services |

Interactions: the receive arbiter feeds two clients, typically the bus master
and the bus slave answered by the host, and the transmit arbiter merges their
packets.  The debug bridge is the client of an ADIv5 controller: it writes
commands and counts the answers.  The simulation's loop and a server's thread
share two queues and the running flag, and nothing else; two simulations are
coupled by a client in one and a server in the other.

### What is hard, and what makes each part correct

* **Handshakes one cycle late.**  A FIFO's data comes a cycle after the read,
  full flags are tested a cycle before the write they guard.  Correct: no word
  is read that has nowhere to go, none is missed, none is written to a full
  FIFO (`NoDrop`, `NoByteMissed`, `NoOverRead` in `HostSlave.Inv`,
  `AnswersUntilLoss`, `NoOverflow` in `DebugBridge.Inv`).
* **Packet boundaries** are kept only by counters.  Correct: packets go whole
  to their client and are never mixed (`RoutesPackets`, `MergesUntilCollision`).
* **Two clients at the same edge** (`MergesUntilCollision`: until then).
* **One transfer, one answer**: address, size, lanes, data and status of a
  command or a transfer survive the way (`CarriesOut`, `AnswersUntilLoss`).
* **Several assignments to one register at one edge**, of which the last wins,
  in the exclusive monitor, and a response computed anew in each wait state.
  Correct: what is acknowledged was atomic and in time
  (`AckedIsAtomicUnlessOverlapped`, `AckedInTimeUnlessOverlapped`).
* **Retries, aborts and posted reads** on the debug port.  Correct: a response
  belongs to the transaction it is taken for, values of an AP come through
  RDBUF, a command is answered once (`PairedUndisturbed`, `ServesInOrder`).
* **Caches of remote state**: the TAP's instruction (`ScanFollowsCache` in
  `PairedUndisturbed`), and TAR, CSW and SELECT of the debug bridge: until a
  command fails a transfer reaches the target at its own address and size
  whatever commands the caches spared (`CachesRight`,
  `TransparentUntilFault`), on the responses to its own commands (`Counted`),
  and one of whose commands failed is not reported as done.
* **Stores seen late and out of order** by the other thread, on machines that
  allow it.  Correct: the queue is a queue, and no element or block is touched
  under construction (`ImplementsQueue`, `NoRaceButSize`, `Asserts`,
  `SizeHonestUnlessStrayed`).
* **Timeouts that race a wake-up**: none is lost or left over (`IInv`, `Wakes`).
* **Connections that come and go**, reads and writes in pieces.  Correct:
  nothing is lost, repeated or reordered between a client and the simulation,
  and a client that behaves does not end it (`Conserved`, `EndsWell`).
* **Two simulations in step, or at least in agreement** (`LockStep`,
  `Answered`, `GpioBatch`, `GpioConverges`).
* **Ending** a program whose thread sleeps in the kernel (`Quits`, `EndsWell`;
  `JoinedFirst`, refuted for a program that ends at once).
* **Time** counted in ticks, for frames and for the trace (`UartBytes`,
  `TraceWindow`).
* **Progress** with slow partners (`Forwards`, `Answered`, `Completes`, `Ends`).

## Modules

A step of a hardware module is a clock edge: one action, `Clock`, whose
conjuncts are the registers' next values, so that everything the code does at
an edge happens in the step.  Wires are operators with the name they have in
the code.  FIFOs are sequences; a partner in another clock domain has actions
of its own.

A step of the software is what one thread does up to the next point at which
another can see it, or it another: a load of what the other thread writes, a
read-modify-write of the semaphore, a system call, an iteration of the main
loop.  The flag, the two queues and the socket are all that the loop and the
thread share, and an iteration uses the flag and one operation of each queue;
the queues themselves are proved or checked apart, down to their fences, so
that here they are sequences.

Operators marked "Mutant of ..." are not part of the model: each
one is a plausible wrong version of the definition below it, used to make sure
that the properties depend on it.

| Module | Models | State and actions |
|---|---|---|
| `HostFifoPkg` | `host_fifo_pkg.sv` and the core `fifo` | the link's constants, `fifo_payload`, words as records, what a FIFO holds after an edge |
| `PacketRouter` | abstract | words move one at a time from the source to the client of their packet |
| `FifoArbRx` | `fifo_arb_rx.sv` | `rx_data_valid`, `rx_psel`, `rx_dcnt` and the client FIFOs `toClient`; `RxClock` with writes of the host and reads of the clients; as in `FifoArbTx`, registers both arbiters have are told apart by `rx_` and `tx_` |
| `PacketMerger` | abstract | words of one client's packet until it is complete |
| `FifoArbTx` | `fifo_arb_tx.sv` | `prden`, `tx_psel`, `tx_data_valid`, `tx_dcnt`, `store`, `backpressure`; `TxClock` likewise; history `collided` |
| `BusCommander` | abstract | a command is issued as one transfer and answered by one packet |
| `HostMaster` | `ahb3lite_host_master.sv` | states IDLE, ADDR, WAIT, DATA as the actions `Collect`, `Idle`, `StartAddr`, `LatchAddr`, `WaitReady`, `TransferEnds`; the answer registers beside them |
| `RemoteSlave` | abstract | a transfer is sent as one packet and ends with the host's answer |
| `HostSlave` | `ahb3lite_host_slave.sv` | states IDLE, WAITDATA, WAITRESP, AHBRESP, ERRDELAY as `Idle`, `Take`, `WaitData`, `WaitResp`, `AhbResp`, `ErrDelay`; contains `DefaultSlave` |
| `DefaultSlave` | `ahb3lite_default_slave.sv` | its three registers, one action |
| `ExclMon` | `cm3_excl_mon.sv` | `exaddr`, `delay`, `valid`, `EXRESP`; the bus accepts or holds the address phase, and a data phase may end in any cycle; history: `acc`, the transfer in its data phase, `overlapped`, and `lock`, `age`, which say what the processor did |
| `AdiServer` | abstract | commands answered once, in order |
| `JtagAdiv5` | `jtag_adiv5.sv` | one action for each state, states that only send a PHY command in `Access`; `PhyExec` is the PHY with the target's TAP |
| `SwdAdiv5` | `swd_adiv5.sv` | likewise; states that only send a line sequence in `Sequence` |
| `Adiv5Mux` | `adiv5_mux.sv` | both controllers by INSTANCE over shared variables; `JTAGnSWD` says whose they are |
| `RemoteMemory` | abstract | until a fault each transfer is performed once on the target, as it stands on the bus, and succeeds; after it every transfer ends with an error |
| `DebugBridge` | `ahb3lite_debug_bridge.sv` without IRQ scan | one action for each state, in `Step`; responses, latching of transfers and the FIFOs beside it; `Serve` and `Fault` are the controller and the target's access port, where a failed command has no effect and those behind it are carried out; contains `DefaultSlave` |
| `WeakMemory` | `atomicops.h`: `weak_atomic`, `fence` | a log of each thread's writes; what each thread must have seen of the other's, and has read of each location; loads choose among the writes allowed |
| `SpscQueue` | abstract | elements sent and taken, and what either thread knows of the other; an operation may fail only if its caller does not know better |
| `ReaderWriterQueue` | `readerwriterqueue.h`: `ReaderWriterQueue` | for each operation one action up to each load of the other thread's variables: `EnqueueStart` ... `EnqueueReadNextFront`, `DequeueStart` ... `DequeueReadNextTail`, walks of `size_approx` |
| `BlockingQueue` | `BlockingReaderWriterQueue`, `LightweightSemaphore`, `Semaphore` | the counter, the POSIX semaphore; signal in two steps, a wait in up to eight |
| `Server` | `Server.cpp` | `running`, `thread` (where `Listen` is), queues, listening socket, connection, `process`; the kernel's end and the client's (`Connect`, `Send`, `Receive`, `Close`) |
| `JTAGServer`, `UARTServer`, `GPIOServer` | the services | what a call takes from the queue, answers, and does to the pins; time is a parameter |
| `JTAGClient`, `GPIOClient` | the clients | `call` (where `doJTAGClient` is); pins sent and received |
| `VerilatorUtils` | `verilator_utils.cpp` | `t`, trace, the service enabled; `DoCycle`, `DoCycleEnds`, `Serve`, `CloseTrace` |
| `Testbench` | `tb.cpp`, composing all of these | `Parse`, `Iterate`, `Leave`, `Delete`, `Exit` are `main`; `ServerThread`; `Client` |

Data is kept to what the properties tell apart.  Words of the link are their
three fields, of which the data is a tag.  Bytes of the bus master and slave
are digits base `B`; 256 is the hardware, 2 the instance TLC checks, so that an
address has four digits and wraps at 16 and lanes are told apart by value.
PHY commands are their operation; acknowledges and data of the target are
chosen anywhere in the set.

The detailed modules implement the abstract ones by `INSTANCE ... WITH`:
`FifoArbRx` maps the word in flight to the head of the source, `FifoArbTx` the
stored or arriving word to the end of the stream, `HostMaster` the bytes of the
answer not yet written to the end of the answers, `HostSlave` the registered
byte and those behind it to the end of the request, and the controllers the
command in progress to the head of the commands.  `DebugBridge` needs no
mapping: `performed`, what the target did for the transfer on the bus, and
`faulted` are histories of it.

`ReaderWriterQueue` implements `SpscQueue` with what each thread knows taken
from how much of the other's log it must have seen, and `BlockingQueue` is
built on `SpscQueue`'s actions and implements it again, with what it tells its
callers: so the two fit together.  What `Server` then assumes, that a queue
keeps what is put into it in order, is what `SpscQueue` promises.

The `MC` modules give the constants values that a `.cfg` cannot write.

## Runs

| Run | Configuration | Properties | What it shows |
|---|---|---|---|
| `arb_rx` | payloads of 0, 1, 2 words; FIFOs of 2 | `NoDrop` `IInv` `RoutesPackets` `Forwards` | whole packets to the right client although payload looks like commands, without loss at full FIFOs |
| `arb_tx` | same, host FIFO of 1 | `Inv` `MergesUntilCollision` | packets are merged whole and survive a host FIFO that fills in the middle, until both clients start at the same edge |
| `host_master` | 16 addresses, four commands, two waiting, answer FIFO of 1 | `NoByteMissed` `AnswerSafe` `IInv` `Answered` `CarriesOut` | back to back commands, reads and writes, autoincrement over the end of the address space |
| `host_slave` | reads of 1, 2, 4 bytes, writes of 2 and 4, FIFO to the host of 2 | `Inv` `TwoCycleError` `AnswersUntilLoss` `Ends` | transfers back to back and apart, slow host, errors, the slave disabled in between |
| `excl_mon` | two addresses, delay of 3 | `AckedIsAtomicUnlessOverlapped` `AckedInTimeUnlessOverlapped` `Reserved` | acknowledged means atomic, with wait states, halts and expiry at any edge, unless a wait state acknowledges the next access |
| `adiv5` | a command of each kind, FIFOs of 2; JTAG with one retry, serial wire with two and up to two bad responses to a command | `PairedUndisturbed` `ServesInOrder` `Completes` | either interface: any acknowledges, retries of either transaction of an AP read, running out of them, aborts; over JTAG also resets of an idle controller |
| `debug_bridge` | a word to read, two to write, a byte to write at the address read; one of the words in another bank, next to the other; command FIFO of 2, counters modulo 4; one command that fails and one more transfer until the bridge is enabled anew; 0 or 7 read from a CSW in vain | `Inv` `TransparentUntilFault` `Ends` | every way from one transfer to the next through the caches, with a command that fails while those behind it are carried out, autoincrement switched, the bridge disabled and enabled |
| `debug_bridge_seq` | same, with reads while autoincrement is on | `AtOwnAddress` refuted | a word polled with autoincrement is read at the next address |
| `rwq` | queues constructed for 1 and for 4 elements, blocks of at most 2 (so: one block that is doubled, and a ring of several), 6 elements, up to 5 blocks, one `size_approx` by either thread | `NoRaceButSize` `Asserts` `SizeHonestUnlessStrayed` `ImplementsQueue` | wrapping around, filling and draining blocks, stepping over a free one, allocating one, with every value a load may return |
| `blocking` | a queue of 1 element, 6 elements | `IInv` `ImplementsQueue` `Wakes` | tries, waits and timed waits against a producer that signals at any point of them |
| `testbench` | two values of the JTAG pins; bytes, reads, writes and sockets of 2; bits 2, clocks a bit 2; words of 4 pins of which 2 in and 1 out, ints of 3 bits; periods of 2; 3 commands, 2 bytes, 2 changes of pins, 2 connections | `Conserved` `LockStep` `EndsWell` `TraceWindow` `UartBytes` `GpioBatch` `GpioConverges` `Answered` `Quits` | the loop, the thread and a client of each service, over reconnections, up to the end of the program |
| `early_quit` | same, the program may end at once | `JoinedFirst` refuted | the object is deleted under a thread that has not run yet |

**Why the bounds are enough.**  The cores have no state beyond the packet,
command or transfer in progress, so two in a row reach every way in which one
can disturb the next; FIFOs of one or two entries are full and empty in every
state of the machines behind them, which longer ones are more rarely.  Packets
of three words have a first, a middle and a last word; longer ones repeat the
middle (the proofs have no such bound).  The delay of the monitor must
only be longer than a read and a write.
One retry of JTAG has the first, the last and the aborted attempt; serial wire
has two so that both transactions of an AP read can fail and be repeated.
The debug bridge has both its FIFO (4) and its counters (8) halved, so that
issuing is held back, which with the sizes of the code never happens: its
longest sequence is of five commands, one of which the controller holds.
`TransparentUntilFault` and `NoOverflow` hold with those sizes as well; a FIFO
of 3 with counters of 8 would lose a command.  One failure (`Repeated`), and
one transfer begun after it was seen (`MaxLate`), meet every state of the
bridge; more of either are covered by the proof.  What a failed read of the
CSW returns (`Garbage`) only sets the cached CSW, with the smallest and the
largest width and increment.
The queue behaves in a way of its own when a block wraps around, when the next
block is free, when it is the front block, and when it has just been allocated;
six elements through blocks of two reach all of these, in the order of either
thread's choice, and elements that follow meet the same blocks again.  A ring
of one block and one of several are both there.  One walk of `size_approx` by
either thread suffices, since it writes nothing.  `BlockingQueue` needs its
bound only to be finite; its proofs have none.
Of the test bench, commands need only be more than one read, answers more than
one write, bits more than one; the periods are the smallest that have a tick
between two calls; two changes of pins are one of each side or two of one; two
connections are one after the other.  Time runs on modulo `Wrap`, which all
periods divide, once it is past the trace, the timeout and the reset.
The bits of an int are more than the pins served, as they are in the code.
`MaxTodo`, `MaxBad` and the depth of FIFOs that the outside writes are bounds
of the environment, in its guards; `age` and `oks` are histories that stop at
their bound.

**Fairness**, and why the code justifies it.  Clocks tick: weak fairness of
`Clock` and of `PhyExec`, which has a clock of its own.  FIFO words arrive, and
clients and the host read what is there for them and answer: a client that
never reads stops the arbiter for both by design (`fifo_arb_rx.sv:93`), so
`Forwards` is about clients that read.  The bus ends each transfer, as
AHB3-Lite slaves must.  Nothing is assumed of the target: it may answer WAIT
for ever, and `Completes` rests on the limit of the retries.  On that limit
rests in turn the fairness of `Serve` and `Fault` in `DebugBridge`: the
controller answers every command.

In `BlockingQueue` the producer finishes a signal it has begun and the
consumer a wait, if the semaphore lets it; that the producer enqueues at all,
and that a timeout strikes, is not assumed.  In `Testbench` the main loop and
the server's thread run (the operating system's scheduler), and a client that
waits for an answer, or for commands, takes them when they are there; that
clients connect, or that the simulation ends, is not assumed.

**Deadlock** is checked in the runs of the hardware: clocks never stop.  The
threads do stop: the queues have a bound of elements, and the simulation exits.

## Proofs

TLAPS checks these for every value of the constants, under the named
assumptions on them (`DepthAssumption` and the like: sizes are positive
numbers, sets of words are sets of words; `CommandsAssumption` of the bus
master: data to write has the bytes its size says; `TransfersAssumption` of the
debug bridge: aligned, and outside the last 16 bytes; `RoomAssumption`: the
command FIFO has the code's 4 words, or the counters stop a sequence in time;
`ReqAssumption` of the ADIv5 controllers: commands have the fields of a command;
`FrameAssumption` of the test bench: a byte is as many bits as the UART's
frames have).

* `FifoArbProofs`, of both arbiters.  `RxInvariance`: `RxSpec => []IInv`.
  `NoDrop` alone is not inductive: that the word in flight can be written
  depends on neither client FIFO having been full an edge earlier, and that its
  client is the right one on `rx_psel` repeating the SELMASK bit of the last
  command word; `IInv` adds both to the types.  `NothingDropped` follows.
  `Routing`: the receive arbiter implements `PacketRouter`: `RxInit` maps to
  `Init`, an edge at which a word is in flight to `Route`, every other to
  `Wait`.  `TxInvariance`: `Inv` is inductive.  Besides the types it says where
  a word can be between the FIFOs (`OneInFlight`: arriving or stored for a full
  host FIFO, never both) and who is selected while a packet is open
  (`SelectionHeld`).  `Merging`: until both clients are read at the same edge
  each one writes the next word of an open packet, or the first of another, to
  `PacketMerger`'s stream; the first part of `Inv` gives the stream, the second
  the packet's owner.
* `HostMasterProofs`.  `NoByteMissed` and `AnswerSafe` need each other: a byte
  is fetched only when no answer is on its way, and an answer is made only
  when no byte was fetched; a third conjunct of `IInv` says that outside IDLE
  nothing is left of payload and answer.  `EveryByteSeen` and `OneAtATime`
  follow.  That is enough to say where the input stands (`Collected`: what was
  sent and not looked at is the packets of the commands not completed, less the
  bytes of the first one that are in `cmd` and at the end of `dati`) and for
  whom the bus is driven (`Driven`).  `CarryingOut`: the bus master implements
  `BusCommander`; the address phase maps to `Issue`, the end of the transfer to
  `Complete`, every other edge to `Idle`.  Its lemmas about digits say that a
  number is the value of its digits and that bytes are the digits of their
  value, those about lanes that a replicated word has the bytes to write
  wherever a transfer of that size looks for them.
* `HostSlaveProofs`.  `Invariance`: `Inv` is inductive.  What the host has
  heard and what is on the way to it is at most one request, and its header is
  never lost (`Asked`); what is in `dati` and still to come is the answer to it
  (`Heeded`), so that the count that trails the FIFO by a cycle reads no byte
  too many (`NoOverRead`).  `TwoCycle`: errors take two
  cycles, the default slave's included.  `AnswersWhileHeard`: until a byte is
  lost the slave implements `RemoteSlave`.
* `DebugBridgeProofs`, for masters that do not read while the target's address
  autoincrements (`SeqReads = FALSE`; with such reads the run
  `debug_bridge_seq` refutes it).  `Invariance`: `Inv` is inductive.  Its core,
  `CachesRight`, says of TAR, CSW and SELECT what the target's port will hold
  once the commands under way are carried out: an edge that issues a command
  appends to them, the target takes the oldest away, and neither changes what
  the port ends up with other than as the caches say.  That the oldest command
  finds the port prepared is `Prepared`, that the response counted is that of
  the last command issued `Counted`, that there is room for the longest
  sequence of commands `Short`.  After a failure the target may do anything
  with the commands that follow (`StrayInv`): `Inv` then keeps the counters, and
  that the failure is seen before the transfer ends (`Failing`, `Performed`).
  `Transparency`: the bridge implements `RemoteMemory`, every step being one of
  it or a stutter, with any number of failures.
* `Adiv5MuxProofs`.  `Invariance`: `PairedUndisturbed`, for either controller
  with what makes it inductive.  Over JTAG: one response is to come while the controller
  waits for one, its scan being the last command of the PHY, and none in any
  other state (`OneResponse`); the PHY command offered is that of the state and
  finds room (`OfferTaken`); and the cached instruction is the one the commands
  still under way will leave in the TAP, or they leave it disturbed
  (`CacheFollowed`): a command offered is appended to them, the PHY takes the
  oldest away, and each scan among them finds its instruction.
  `NoResponseLeft`: that a response is only under way while the controller waits
  for it needs no condition.  Over serial wire, as long as no command ran out of
  retries: one transaction is under way while the controller waits
  (`OneTransaction`), and good responses are counted as the register in hand
  says (`OksCounted`).  Over both, the answers given,
  being made and still owed are those the client counts on (`AnswersCounted`),
  so that the answer FIFO never overflows.  `Refinement`: an edge that
  completes a command is `Serve`, the client's steps and a reset are their
  namesakes, every other step a stutter; what the two interfaces share
  (`ClientEdge`) is proved once for both.
* `ExclMonProofs`.  `Reserved` ties the monitor's registers to what the
  processor did: the reserved address was read exclusively and not accessed
  since, and `age + delay` never exceeds the limit, which carries the
  countdown through renewals at any edge.  `Atomicity` and `Timeliness` follow
  one edge later, when the data phase begins (`AckedAtStart`), and are kept
  while it is stretched, since `EXRESP` falls only for an access that is
  acknowledged itself (`AckedInWait`), which `overlapped` tells.
* `BlockingQueueProofs`.  `Invariance`: the counter is what was signalled less
  what was dequeued or is being so (`CountRight`); the POSIX semaphore, with a
  post about to be made, holds one token exactly when a consumer that announced
  its sleep has been answered (`TokenRight`), which carries the argument
  through a timeout's repair; and what the consumer knows of the queue covers
  what the counter entitles it to (`KnowledgeRight`).  Each needs the other
  two.  `Asserted`: the asserts never fail.  `Refinement`: the blocking queue
  implements `SpscQueue`, every step a step of its own or a stutter.
* `TestbenchProofs`, for any number of commands and connections, of clients
  that come, go and fail as they like.  `ServerInvariant`: `ServerInv` is
  inductive.  To the types it adds where the thread may be, with which socket
  and which connection (`ThreadFollowed`), and what is owed (`Owed`): each
  query served has been answered once, and a client that has left without being
  rude has left nothing unanswered.  `Conserved` needs that: a client
  that leaves when it is owed nothing leaves nothing on the way, so that
  nothing is lost with the connection; and so does `Survives`, since a write
  fails only towards a client that did not wait for it.  `CommandsConserved`.
  `SimulationEndsWell`, if the program does not end before the server listens:
  then the destructor joins the thread (`QuitsListening`).  `CoupledLockStep`:
  once the command that set the pins has been served, the pins are those the
  client wrote, and are so when the query behind it is, because no call serves
  both (`PinsFollowed`).  `TraceHoldsWindow`: what has been dumped are the
  window's ticks so far, and dumping is on exactly if the last tick was in the
  window (`TraceFollowed`).  `BytesCarried`: two state machines that count
  ticks and clocks, and a receiver that samples in the middle of the bits,
  agree on where they are: on either line there is a byte, a bit `n` of its
  frame and a clock `r` of that bit, such that the phase of the server's timer
  is `2 * r` ticks, and one more at odd times, and the levels still on the
  line, or the bits shifted in and out so far, are the parts of the byte after
  or before bit `n` (`TxBusy`, `RxBusy`, `Hearing`).  A clock takes this to the
  next, the time's wrap-around included, since that is by whole bits; a frame
  begins at the earliest in the clock after the one before has ended.

Only model-checked: liveness (`Forwards`, `Answered`, `Ends`, `Completes`,
`Wakes`, `GpioConverges`, `Quits`), which is beyond the provers at hand; the
lock-free queue (`NoRaceButSize`, `Asserts`, `SizeHonestUnlessStrayed`, and that
it implements `SpscQueue`); and `GpioBatch`, which counts the flushes in a sequence, by
a recursion whose value for every sequence would need induction over data.

## Disagreements with comments

Shown by runs:

* `ahb3lite_debug_bridge.sv:784`: the cached address follows the target's
  autoincrement after writes only; a second read of an address reads the next
  one (`debug_bridge_seq`).
* `Server.cpp:34`: "Wait for server to finish" (line 33) waits only if the
  thread has already set `running`; a simulation that ends before, by a
  timeout or ctrl-c, deletes the object under the thread (`early_quit`).

Reached by the models of the passing runs, where the wrong case is left out of a
property and its name or comment says so; without that condition TLC refutes the
property:

* `fifo_arb_tx.sv:102`: two clients that become ready in the same cycle are
  both selected and read; one word is lost.  `MergesUntilCollision` stops there.
* `cm3_excl_mon.sv:60`: `EXRESP` is computed from the address phase presented,
  in every cycle, and the monitor has no HREADY (`cm3_core.sv:130`).  If an
  exclusive write is stretched by a wait state while the next exclusive access,
  to the address then reserved, is in its address phase, the write's data phase
  ends with that access's response: a suppressed write is reported as done.
  `AckedIsAtomicUnlessOverlapped` and `AckedInTimeUnlessOverlapped` stop there.
* `jtag_adiv5.sv:210`: the IR cache (line 126) outlives a TAP reset, a switch of
  protocol and an abort, all of which change the TAP's instruction; the next
  access is then scanned into the wrong register.  `ScanFollowsCache`, in
  `PairedUndisturbed`, says when the cache is right.
* `jtag_adiv5.sv:298`: OK at the last retry (line 301 "Response OK - return")
  goes through the abort without copying the data; the answer is OK with older
  data.  `DataOfResponse`, in `PairedUndisturbed`, excepts the last retry.
* `swd_adiv5.sv:232`: PHY_WREN stays up until the ABORT (line 230 "Retries
  exceeded - Issue ABORT") is answered; an ABORT is sent in every cycle until
  then, and later commands take their responses for their own.
  `PairedUndisturbed` is about commands before that (`gaveUp`).
* `ahb3lite_debug_bridge.sv:315`: a failure is remembered, and the cached address
  given up ("Assume TAR is no longer valid if autoinc in case it was a failed
  write", lines 316-317), but the access (lines 774-790) is issued right behind
  the writes of CSW, SELECT and TAR (lines 874-883), without waiting for their
  responses: if one of them fails and the access succeeds, the target is written
  at the address, or in the size, that the port was left with.  The transfer
  ends with an error; `TransparentUntilFault` leaves open what the target
  performs from the failure on.
* `ahb3lite_host_slave.sv:126`: WRFULL is tested a cycle before the write, so
  a byte is lost when the FIFO has one free place; the transfer never ends.
  `AnswersUntilLoss` and `Ends` are stated up to that loss.
* `readerwriterqueue.h:478`: `size_approx` is "Safe to call from both the
  producer and consumer threads".  The producer links a new block (line 608)
  before the fence that publishes its construction (line 616), and the
  consumer's walk loads the link: it may enter a block it need not see
  constructed (`Server.cpp:154` and the services call it so).  Such a walk is
  marked `strayed` and ends with any result; `NoRaceButSize` and
  `SizeHonestUnlessStrayed` are about everything else.
* `verilator_utils.cpp:98`: `fstDumping` is not initialised; if it is not zero the
  trace that was asked for ("Enable and save FST to FILE", line 175) is never
  opened.  `TraceWindow` is stated for the flag clear.

Seen while modelling:

* `cm3_excl_mon.sv:76`: a write that uses the reservation ends it, so that
  `EXRESP` rises in the second cycle of its data phase: with a wait state a
  write that was performed is reported as failed.
* `cm3_excl_mon.sv:39`: an exclusive write to another address than the reserved
  one is let through and reported as failed, though line 2 says "If conditions
  are not met then prevent write and signal to processor."
* `ahb3lite_debug_bridge.sv:260`: the case statement below overrides the
  assignment of DISABLED.  Disabled while it reads the CSW (or while it updates
  it), the bridge goes on to IDLE, takes up a transfer that the default slave
  refuses at the same time, and performs it on the target.  `Switch` is
  limited to IDLE; without that limit `TransparentUntilFault` is refuted.
* `cm3_excl_mon.sv:51` says an exclusive read resets the delay; while a
  reservation is alive, the countdown at line 82 overrides it.  `Reserved`
  holds nevertheless, since the old count is the shorter one.
* `cm3_excl_mon.sv:62` says reads are acknowledged too; the read that makes a
  reservation is not, `EXRESP` being computed from the state before it.
* `jtag_adiv5.sv:189` says IDLE clears busy; nothing but the end of a command
  does, not even the reset at line 161.
* `swd_adiv5.sv:231`: a good response at the last retry is answered FAULT; and
  if the PHY FIFO is full in the only cycle in which the response is valid, no
  ABORT is sent and the controller waits for ever.
* `ahb3lite_host_slave.sv:104`: WREN is not among the registers reset.
* `readerwriterqueue.h:881`: the blocking queue's `peek` returns "the one that
  would be removed next by a call to `try_dequeue` or `pop`"; it looks past the
  semaphore, so between an enqueue and its signal `peek` finds an element and
  `pop` returns false.
* `JTAGServer.cpp:28` handles the system reset, but the pin it sets is set
  again by the main loop (`tb.cpp:87`) before the target is next evaluated: a
  reset by openocd never reaches the target.
* `Server.cpp:24`: the constructor leaves `running` as memory was.  All five
  services are constructed and destroyed whether enabled or not, so that the
  destructor may join a thread that was never made.
* `Server.cpp:112`: the accept that the destructor interrupts is an error, on
  which the thread ends the process with exit status -1 (`err.h`): a simulation
  ended properly, with no client there, usually reports failure.
* `Server.cpp:133`: what was answered to a client that left is kept in the
  queue and sent to the next one.  `Server.cpp:66`: a write that is short loses
  the rest, and one that finds no room or no client ends the simulation (the
  latter by SIGPIPE).  `Conserved` and `EndsWell` are about clients that wait
  for what they asked for.
* `GPIOServer.cpp:26`, also lines 82 and 84 and `GPIOClient.cpp:58`: pins are
  tested and set with `1 << i`, an int, in words of 64: pin 31 takes those
  above it along, and pins beyond wrap around.  With `Inputs = 3` and
  `IntBits = 2` TLC refutes `GpioBatch`.
* `GPIOServer.cpp:57`: the outputs are sent in full once, to the first client
  or to nobody; a client that connects later learns only of changes.
* `GPIOClient.cpp:28` makes its socket non-blocking before it connects, which
  then may fail with EINPROGRESS.
* `UARTServer.cpp:4` says it works only if "HOST_FREQ/BAUD == 32"; the server is
  constructed for 4 clocks a bit (`verilator_utils.cpp:24`), which is what
  `uart_fifo.sv:59` gives the UARTs.  `UartPeriod` stands for either.
* `UARTServer.cpp:48`: data bits are sampled where they begin, not in their
  middle; `UartBytes` holds for a target whose clock is the simulation's own.
* `verilator_utils.cpp:201`: the results of `loadElf` and `loadBin` are not
  looked at; the simulation runs with nothing loaded.

## Limits

Assumed of the outside: `fifo` and `dual_clock_fifo` (cores the repository
depends on) keep order and report full and empty by occupancy; the bus accepts
the address phase of the bus master at once; the host sends well-formed
commands, and answers the bus slave in full length also on errors; the slave's
EN changes between transfers only; a client of an ADIv5 controller never has
more commands under way than the FIFO holds answers; `jtag_adiv5` is reset only
with nothing under way; a serial wire transaction is longer than two cycles of
the controller.  The debug bridge is disabled in IDLE and enabled when nothing is
under way; its SEQ changes when nothing is under way (changes in a row would
overflow the command FIFO); a target's access port has its autoincrement off or
single, as software has configured it, and increments after reads as after
writes; a command that fails changes nothing, and those behind it are carried
out; of what the target reads after a failure only a CSW is looked at; the last
16 bytes of the address space, of which the bridge's mark for an unknown address
is one, are not accessed.  `swd_adiv5` is not reset.
HBURST, HPROT and the interface bit of packets, which nothing
depends on, are left out.  The mux's selection is fixed in a behaviour.

Of the software: loads are in program order and see what C++ allows relaxed
atomics and fences, each location having one writer; two loads of one variable
by its own writer, or of a block's fields before the same fence, are one step.
Elements and constructors do not throw.  malloc fails beyond `MaxBlocks`, and
may fail before.  sem_wait, sem_post and the thread functions do not fail
otherwise than by time.  The kernel holds one connection at a time, unlimited
commands and `SockBytes` answers; one client is there at a time, which may have
closed before it is accepted, and the next connects only when the server has
closed; socket, bind and listen succeed.
`running` is a plain flag read and written by two threads, and taken to be
read at each test of it.  One service is enabled in a behaviour: each has its
own server, and they share nothing but the time.  `tb.cpp` of `cm3_min_soc`
calls the JTAG and the GPIO service; the UART service is called in the same
place here.  With the UART and the GPIO service the program does not end
(`Ending`), the end being no different from the JTAG service's.  The targets'
JTAG port, UART and outputs are external: they answer with the pins they were
evaluated with, send and receive frames, and change.

Not modelled: cores that only connect others (`cm3_core`, `cm3_min_soc`,
`fifo_arb`, `intercon_test`); generators and vendor scripts;
`xil_dsp48_div`, whose counting is done by a vendor primitive; third party
cores (processor, interconnect, memory, APB, UART).  `fifo_arb` wires the two
arbiters to the same clients and has no state.  The queue's move and
destruction (which must not be concurrent with its use), `max_capacity`, the
debug guard against re-entrance, and the semaphores of other systems; loading
of programs, which is I/O; the benches of `ahb3lite_remote_bridge2`, which are
tests of fixed sequences, and that of `ahb3lite_intercon_test`, which calls an
interface that is gone.

## Plan

Done, in this order: `FifoArbRx` with `PacketRouter`; `FifoArbTx` with
`PacketMerger`; `HostMaster` with `BusCommander`; `ExclMon`; `JtagAdiv5` and
`SwdAdiv5` with `AdiServer`, composed in `Adiv5Mux`; `HostSlave` with
`DefaultSlave` and `RemoteSlave`; `DebugBridge` with `RemoteMemory`, without
the IRQ scan; `ReaderWriterQueue` and `BlockingQueue` with `SpscQueue` over
`WeakMemory`; `Server`, the services and clients, and `Testbench`.

Left:

1. Proofs: that `NoRaceButSize` follows from what the threads have seen of each other.
2. The IRQ scan of `DebugBridge`: IRQs are told once until acknowledged, and a
   transfer interrupts the scan and is served.
3. `JtagPhy`, `SwdPhy`: the TAP walk and the bit counters, to replace `PhyExec`.
4. `Csr` and `IrqSlave`, `Mvec`, `UartFifo`.
5. `HostLink`: the arbiters, the bus master and the bus slave composed from
   their abstract specifications.
