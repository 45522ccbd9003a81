----------------------------- MODULE UARTServer -----------------------------
(***************************************************************************)
(* UARTServer.cpp: frames between the queues and the two pins of a UART.   *)
(* tx_pin is the target's output, rx_pin its input; a byte is the sequence *)
(* of its bits, the first on the line first.  As in the code, tx_state and *)
(* rx_state are named after the target's pins, the queues after the        *)
(* server's: bytes from tx_pin go to rx and bytes of tx to rx_pin.         *)
(***************************************************************************)
EXTENDS Server

CONSTANTS
    UartPeriod,         \* clocks per bit: period of the server
    Bits                \* bits of a byte

ASSUME UartAssumption == UartPeriod \in Nat \ {0, 1} /\ Bits \in Nat \ {0}

VARIABLES
    tx_state, tx_start, \* frame on tx_pin: state, tick of its start (0: none)
    rxc,                \* bits seen of it
    rx_state, rx_start, \* frame on rx_pin
    txc,                \* bits still to be sent of it
    rx_pin

uartVars == <<tx_state, tx_start, rxc, rx_state, rx_start, txc, rx_pin>>

UartInit ==
    /\ tx_state = "IDLE" /\ tx_start = 0 /\ rxc = <<>>
    /\ rx_state = "IDLE" /\ rx_start = 0 /\ txc = <<>>
    /\ rx_pin = 1

\* A bit lasts two ticks per clock; without a frame every even tick counts.
\* Mutant of BitDue: a bit lasts one tick less.
BitDueShort(start, now) == start = 0 \/ (now - start) % (2 * UartPeriod - 2) = 0
BitDue(start, now) == start = 0 \/ (now - start) % (2 * UartPeriod) = 0

\* The TX state machine; it queues a byte when Queued.
Queued(now) == tx_state = "STOP" /\ BitDue(tx_start, now)

TxIdle(now, tx_pin) ==
    /\ tx_state = "IDLE"
    /\ IF tx_pin = 0 THEN tx_state' = "DATA" /\ tx_start' = now
       ELSE UNCHANGED <<tx_state, tx_start>>
    /\ UNCHANGED rxc

TxData(tx_pin) ==
    /\ tx_state = "DATA"
    /\ rxc' = Append(rxc, tx_pin)
    /\ tx_state' = IF Len(rxc') = Bits THEN "STOP" ELSE "DATA"
    /\ UNCHANGED tx_start

TxStop ==
    /\ tx_state = "STOP"
    /\ tx_state' = "IDLE"
    /\ rxc' = <<>>
    /\ tx_start' = 0

Transmit(now, tx_pin) ==
    IF BitDue(tx_start, now)
    THEN TxIdle(now, tx_pin) \/ TxData(tx_pin) \/ TxStop
    ELSE UNCHANGED <<tx_state, tx_start, rxc>>

\* The receive state machine; it takes a byte when Taking.
Taking(now) == rx_state = "IDLE" /\ BitDue(rx_start, now) /\ tx /= <<>>

RxIdle(now) ==
    /\ rx_state = "IDLE"
    /\ IF tx /= <<>> THEN rx_pin' = 0 /\ rx_state' = "DATA" /\ rx_start' = now /\ txc' = Head(tx)
       ELSE UNCHANGED <<rx_pin, rx_state, rx_start, txc>>

RxData ==
    /\ rx_state = "DATA"
    /\ rx_pin' = Head(txc)
    /\ txc' = Tail(txc)
    /\ rx_state' = IF txc' = <<>> THEN "STOP" ELSE "DATA"
    /\ UNCHANGED rx_start

RxStop ==
    /\ rx_state = "STOP"
    /\ rx_pin' = 1
    /\ rx_state' = "DONE"
    /\ UNCHANGED <<rx_start, txc>>

\* Back to IDLE at the last even tick of the stop bit.
RxDone(now) ==
    /\ rx_state = "DONE"
    /\ IF (now - rx_start) % (2 * UartPeriod) = 2 * UartPeriod - 2
       THEN rx_state' = "IDLE" /\ rx_start' = 0
       ELSE UNCHANGED <<rx_state, rx_start>>
    /\ UNCHANGED <<txc, rx_pin>>

ReceiveBits(now) ==
    IF rx_state = "DONE" THEN RxDone(now)
    ELSE IF BitDue(rx_start, now)
    THEN RxIdle(now) \/ RxData \/ RxStop
    ELSE UNCHANGED <<rx_state, rx_start, txc, rx_pin>>

\* doUARTServer: nothing before the server runs, nor at odd ticks.
DoUARTServer(now, tx_pin) ==
    IF ~running \/ now % 2 = 1
    THEN UNCHANGED <<tx, rx, simulation, uartVars>>
    ELSE /\ Transmit(now, tx_pin)
         /\ ReceiveBits(now)
         /\ Exchange(IF Taking(now) THEN 1 ELSE 0, IF Queued(now) THEN <<rxc>> ELSE <<>>)

=============================================================================
