-------------------------------- MODULE Uart --------------------------------
(***************************************************************************)
(* The UART of the Amber system (uart.v), clock by clock: the transmitter  *)
(* of one and the receiver of another, their line and the flow control     *)
(* between them, with _outbyte filling the one and _inbyte emptying the    *)
(* other through the bus.  Both run from the same clock, with the FIFOs    *)
(* on; interrupts are off, as in the boot loaders.                         *)
(***************************************************************************)
EXTENDS Integers, Sequences

CONSTANTS
    BitPulse,   \* TX_BITPULSE_COUNT: 43 at 40 MHz and 921600 baud
    BitAdjust,  \* TX_BITADJUST_COUNT: 48
    Depth,      \* entries of a FIFO: 16
    Traffic,    \* bound: the bytes sent, each a sequence of eight bits
    MaxBytes    \* bound: how many

VARIABLES
    tx,       \* registers of the transmitter
    rx,       \* registers of the receiver
    bus,      \* the receiver's bus: a read is acked in this clock; the flags showed a byte
    written,  \* history: bytes written by _outbyte
    gotten    \* history: bytes returned by _inbyte

uartVars == <<tx, rx, bus, written, gotten>>

\* States of txd_state: start, data and stop bits follow each other.
TXD_IDLE  == 0
TXD_START == 1
TXD_DATA  == 2 .. 9
TXD_STOP2 == 11
TXD_STOP3 == 12

\* States of rxd_state.
RXD_IDLE  == 0
RXD_START == 1
RXD_START_MID  == 2
RXD_START_MID1 == 3
RXD_DATA == 4 .. 11
RXD_STOP == 12

RxBitPulse == BitPulse - 2
RxHalfPulse == BitPulse \div 2 - 4

Idle ==
    /\ tx = [fifo |-> <<>>, state |-> TXD_IDLE, txd |-> 1, pulse |-> FALSE, count |-> 0,
             cts |-> <<1, 1, 1, 1>>]
    /\ rx = [fifo |-> <<>>, empty |-> TRUE, full |-> FALSE, state |-> RXD_IDLE, byte |-> <<>>,
             en |-> FALSE, count |-> 0, restart |-> FALSE, d |-> <<1, 1, 1, 1, 1>>]
    /\ bus = [ack |-> FALSE, polled |-> FALSE]
    /\ written = <<>> /\ gotten = <<>>
-----------------------------------------------------------------------------
(* The transmitter.                                                        *)

\* The pulse generator: the second stop bit makes up for the rounding.
PulseEnd == tx.count = (IF tx.state = TXD_STOP2 THEN BitAdjust ELSE BitPulse) - 1

TxPop == tx.state = TXD_STOP3 /\ tx.pulse /\ tx.fifo # <<>>

\* Three clocks of clear to send let a byte go out.
NextState ==
    CASE tx.state = TXD_IDLE ->
             IF Tail(tx.cts) = <<0, 0, 0>> /\ tx.fifo # <<>> THEN TXD_START ELSE TXD_IDLE
      [] tx.state = TXD_STOP3 -> TXD_IDLE
      [] OTHER -> tx.state + 1
NextTxd ==
    CASE tx.state = TXD_START -> 0
      [] tx.state \in TXD_DATA -> Head(tx.fifo)[tx.state - 1]
      [] OTHER -> 1

Transmitter(push) ==
    [fifo  |-> (IF TxPop THEN Tail(tx.fifo) ELSE tx.fifo) \o push,
     state |-> IF tx.pulse THEN NextState ELSE tx.state,
     txd   |-> IF tx.pulse THEN NextTxd ELSE tx.txd,
     pulse |-> PulseEnd,
     count |-> IF PulseEnd THEN 0 ELSE tx.count + 1,
     cts   |-> <<IF rx.en THEN 0 ELSE 1>> \o SubSeq(tx.cts, 1, 3)]  \* o_uart_rts_n = ~rxen
-----------------------------------------------------------------------------
(* The receiver.                                                           *)

\* A start bit: two clocks low after two clocks high, a glitch in between.
rx_start == rx.d[5] = 1 /\ rx.d[4] = 1 /\ rx.d[2] = 0 /\ rx.d[1] = 0

Sampled == rx.count = RxBitPulse

RxPush == rx.state = RXD_STOP /\ rx.count = 0 /\ ~rx.full

\* Mutation: a full FIFO does not stop the other end.
RxdIdleNever(r) == [r EXCEPT !.state = RXD_START, !.en = TRUE, !.restart = TRUE, !.byte = <<>>]

\* A new byte is only waited for while there is room.
RxdIdle(r) ==
    IF rx.full THEN [r EXCEPT !.en = FALSE]
    ELSE [r EXCEPT !.state = RXD_START, !.en = TRUE, !.restart = TRUE, !.byte = <<>>]

\* One clock of the state machine.  The counter is only looked at after a
\* restart, so that it stands still while a start bit is awaited.
Machine(r) ==
    CASE rx.state = RXD_IDLE -> RxdIdle(r)
      [] rx.state = RXD_START ->
             IF rx_start THEN [r EXCEPT !.state = RXD_START_MID1, !.restart = TRUE]
             ELSE [r EXCEPT !.restart = FALSE, !.count = 0]
      [] rx.state = RXD_START_MID1 -> [r EXCEPT !.state = RXD_START_MID]
      [] rx.state = RXD_START_MID -> [r EXCEPT !.restart = rx.count = RxHalfPulse,
             !.state = IF rx.count = RxHalfPulse THEN 4 ELSE @]
      [] rx.state \in RXD_DATA -> [r EXCEPT !.restart = Sampled,
             !.state = IF Sampled THEN @ + 1 ELSE @,
             !.byte = IF Sampled THEN Append(@, tx.txd) ELSE @]
      [] rx.state = RXD_STOP -> [r EXCEPT !.restart = Sampled,
             !.state = IF Sampled THEN RXD_IDLE ELSE @]

\* The flags are registers: they show the FIFO of a clock before.
Receiver(op) ==
    Machine([rx EXCEPT
        !.fifo  = (IF op = "DR" /\ ~rx.empty /\ @ # <<>> THEN Tail(@) ELSE @)
                  \o IF RxPush THEN <<rx.byte>> ELSE <<>>,
        !.full  = Len(rx.fifo) = Depth,
        !.empty = rx.fifo = <<>>,
        !.count = IF rx.restart THEN 0 ELSE @ + 1,
        !.d     = <<tx.txd>> \o SubSeq(@, 1, 4)])
-----------------------------------------------------------------------------
(* A clock.  _outbyte writes DR when FR said that there is room, and       *)
(* _inbyte reads DR when FR said that there is a byte; a read is acked in  *)
(* the clock after it, and no other can start then.                        *)

Clock(push, op) ==
    /\ push # <<>> => Len(tx.fifo) < Depth /\ Len(written) < MaxBytes
    /\ op # "none" => ~bus.ack
    /\ op = "DR" => bus.polled
    /\ tx' = Transmitter(push)
    /\ rx' = Receiver(op)
    /\ bus' = [ack |-> op # "none",
               polled |-> (op = "FR" /\ ~rx.empty) \/ (op = "none" /\ bus.polled)]
    /\ written' = written \o push
    /\ gotten' = IF op = "DR" THEN Append(gotten, IF rx.fifo = <<>> THEN <<>> ELSE Head(rx.fifo))
                 ELSE gotten

UartNext == \E push \in {<<>>} \cup {<<b>> : b \in Traffic}, op \in {"none", "FR", "DR"} :
                Clock(push, op)
-----------------------------------------------------------------------------
\* s is a prefix of t.
Begins(s, t) == Len(s) <= Len(t) /\ s = SubSeq(t, 1, Len(s))

(* What _inbyte returns is what _outbyte wrote, bit by bit and in order:   *)
(* flow control loses nothing however slowly the bytes are taken out, the  *)
(* late flags never show a byte that is not there, and when the sender has *)
(* nothing left, every byte has been received.                             *)
BytesArrive ==
    /\ Len(rx.fifo) <= Depth
    /\ Begins(gotten \o rx.fifo, written)
    /\ tx.fifo = <<>> /\ tx.state = TXD_IDLE => gotten \o rx.fifo = written
=============================================================================
