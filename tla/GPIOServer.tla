----------------------------- MODULE GPIOServer -----------------------------
(***************************************************************************)
(* GPIOServer.cpp: pins of the target as commands.  A word of pins is the  *)
(* set of those that are 1; a command is <<pin, value>>, or Flush.  The    *)
(* pin's mask is an int, sign extended to the word: the sign bit selects   *)
(* all the pins above it too, and a shift by more wraps around.            *)
(***************************************************************************)
EXTENDS Integers, Server

CONSTANTS
    WordBits,           \* bits of a word of pins: 64
    IntBits,            \* bits of an int: 32
    Inputs, Outputs     \* pins served: input_cnt, output_cnt

ASSUME GpioAssumption == {WordBits, IntBits} \subseteq Nat \ {0} /\ {Inputs, Outputs} \subseteq 0..WordBits

VARIABLES
    output,             \* outputs as last sent
    init,               \* were they ever?
    input               \* input pins of the target

gpioVars == <<output, init, input>>

Word == 0..(WordBits - 1)
FlushCommand == <<"flush">>
IsFlush(c) == c = FlushCommand

\* 1 << i
Mask(i) == IF i % IntBits = IntBits - 1 THEN (IntBits - 1)..(WordBits - 1) ELSE {i % IntBits}

\* Pins in the order of their numbers.
Ordered(S) == SetToSortSeq(S, <)

\* SendOutputs: the commands for the outputs that differ from those sent.
\* Mutant of Changes: only those that are 1 now.
ChangesUp(old, new, count) ==
    LET changed == {i \in 0..(count - 1) : Mask(i) \cap old = {} /\ Mask(i) \cap new /= {}}
    IN  [k \in 1..Cardinality(changed) |-> <<Ordered(changed)[k], TRUE>>]
Changes(old, new, count) ==
    LET changed == {i \in 0..(count - 1) : Mask(i) \cap old /= Mask(i) \cap new}
    IN  [k \in 1..Cardinality(changed) |->
           LET i == Ordered(changed)[k]
           IN  <<i, Mask(i) \cap new /= {}>>]

\* One command to the pins of word.
Apply(word, cmd, count) ==
    IF IsFlush(cmd) \/ cmd[1] >= count THEN word
    ELSE IF cmd[2] THEN word \cup Mask(cmd[1]) ELSE word \ Mask(cmd[1])

Applied(word, cmds) == FoldLeft(LAMBDA w, cmd : Apply(w, cmd, Inputs), word, cmds)

\* Commands are taken up to a flush: those that no flush comes before.
\* Mutant of Batch: the flush does not end the loop.
BatchAll == Len(tx)
Batch == Cardinality({k \in 1..Len(tx) : \A j \in 1..(k - 1) : ~IsFlush(tx[j])})

\* doGPIOServer.  The first time, every output is sent.
DoGPIOServer(outputs) ==
    IF ~running THEN UNCHANGED <<tx, rx, simulation, gpioVars>>
    ELSE /\ Exchange(Batch, Changes(IF init THEN output ELSE Word \ outputs, outputs, Outputs))
         /\ output' = outputs
         /\ init' = TRUE
         /\ input' = Applied(input, SubSeq(tx, 1, Batch))

=============================================================================
