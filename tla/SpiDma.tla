------------------------------- MODULE SpiDma -------------------------------
(***************************************************************************)
(* spi_exchange_dma of src/spi.c: the thread, the two DMA streams and their *)
(* interrupts.                                                             *)
(*                                                                         *)
(* The streams move bytes whenever they can.  An interrupt is handled      *)
(* before the thread takes another step, and the two have the same         *)
(* priority, so that neither interrupts the other and the thread does not  *)
(* run between them: the NVIC tail-chains.  Each handler touches its own   *)
(* stream only, which has stopped by then, and is one step.                *)
(***************************************************************************)
EXTENDS Integers, Sequences

CONSTANTS
  CountSpace,   \* the values of the count of a stream, 2^16
  MaxErrors     \* bound: the transfer errors of the DMA

ASSUME SpiAssumption == CountSpace \in Nat \ {0} /\ MaxErrors \in Nat

VARIABLES
  at,           \* the step of spi_exchange_dma the thread is at, or "out"
  rx, tx,       \* DMA1 streams 3 and 4
  rxcomplete, txcomplete,
  sending,      \* what is left of the bytes to send
  received,     \* the bytes the exchange has put into its buffer
  size,         \* the number of bytes of the exchange
  line,         \* the bytes that have come back and wait in the SPI
  errors        \* how many transfer errors there have been

streams == <<rx, tx, line, errors>>
flags == <<rxcomplete, txcomplete>>
buffers == <<sending, received, size>>
spi == <<at, streams, flags, buffers>>

Steps == {"out", "rx setup", "tx setup", "start rx", "start tx",
          "tx wait", "tx clear", "rx wait", "rx clear"}

Stream == [ en : BOOLEAN,                       \* enabled
            count : 0 .. CountSpace - 1,        \* bytes left
            tc : BOOLEAN, te : BOOLEAN,         \* complete; error
            tcie : BOOLEAN, teie : BOOLEAN ]    \* the interrupts on them enabled

\* dma_stream_reset of libopencm3: nothing of an earlier transfer is left.
Reset == [en |-> FALSE, count |-> 0, tc |-> FALSE, te |-> FALSE, tcie |-> FALSE, teie |-> FALSE]

SpiInit ==
  /\ at = "out"
  /\ rx = Reset /\ tx = Reset
  /\ rxcomplete = 0 /\ txcomplete = 0
  /\ sending = <<>> /\ received = <<>> /\ size = 0
  /\ line = <<>> /\ errors = 0

-----------------------------------------------------------------------------
\* The streams

\* The interrupt of a stream stays raised while what raises it does.
Irq(stream) == (stream.tc /\ stream.tcie) \/ (stream.te /\ stream.teie)

\* A stream moves one byte; behind the last it stops.  A count of zero moves
\* nothing.
Moves(stream) == stream.en /\ stream.count > 0
Moved(stream) ==
  [stream EXCEPT !.count = @ - 1, !.en = stream.count > 1, !.tc = stream.count = 1]

\* The next byte leaves, and the device answers it with a byte of its own.
TxMove(answer) ==
  /\ Moves(tx) /\ Len(line) < 2
  /\ tx' = Moved(tx)
  /\ sending' = Tail(sending)
  /\ line' = Append(line, answer)
  /\ UNCHANGED <<at, rx, errors, flags, received, size>>

RxMove ==
  /\ Moves(rx) /\ line # <<>>
  /\ rx' = Moved(rx)
  /\ received' = Append(received, Head(line))
  /\ line' = Tail(line)
  /\ UNCHANGED <<at, tx, errors, flags, sending, size>>

\* A byte that comes while the one before it still waits is lost.
Overrun ==
  /\ Len(line) = 2 /\ ~Moves(rx)
  /\ line' = <<Head(line)>>
  /\ UNCHANGED <<at, rx, tx, errors, flags, buffers>>

\* An access of the DMA to the memory fails, as where the buffer is not DMA
\* capable (spi.c:108): the stream stops.
Broken(stream) == [stream EXCEPT !.en = FALSE, !.te = TRUE]
TransferError ==
  /\ errors < MaxErrors
  /\ \/ Moves(rx) /\ rx' = Broken(rx) /\ UNCHANGED tx
     \/ Moves(tx) /\ tx' = Broken(tx) /\ UNCHANGED rx
  /\ errors' = errors + 1
  /\ UNCHANGED <<at, line, flags, buffers>>

-----------------------------------------------------------------------------
\* The interrupts

\* dma1_stream3_isr: it clears neither flag, and only the interrupt on
\* completion is disabled, so that an error raises it again for ever.
RxIsr ==
  /\ Irq(rx)
  /\ rx' = [rx EXCEPT !.tcie = FALSE, !.en = FALSE]
  /\ rxcomplete' = 1
  /\ UNCHANGED <<at, tx, line, errors, txcomplete, buffers>>

\* dma1_stream4_isr
TxIsr ==
  /\ Irq(tx)
  /\ tx' = Reset
  /\ txcomplete' = 1
  /\ UNCHANGED <<at, rx, line, errors, rxcomplete, buffers>>

\* When the thread can take a step.
Thread == ~Irq(rx) /\ ~Irq(tx)

-----------------------------------------------------------------------------
\* The thread

\* The call, with the bytes to send: 0xFF over and over where there are none.
Exchange(bytes) ==
  /\ Thread /\ at = "out"
  /\ at' = "rx setup"
  /\ sending' = bytes /\ received' = <<>> /\ size' = Len(bytes)
  /\ UNCHANGED <<streams, flags>>

At(from, to) == Thread /\ at = from /\ at' = to

\* A wrong count, of more than sixteen bits.
SetUp_Wide == [Reset EXCEPT !.count = size]

\* __dma_rx_setup and __dma_tx_setup; the count of the stream has sixteen bits.
SetUp == [Reset EXCEPT !.count = size % CountSpace]

RxSetup == At("rx setup", "tx setup") /\ rx' = SetUp /\ UNCHANGED <<tx, line, errors, flags, buffers>>
TxSetup == At("tx setup", "start rx") /\ tx' = SetUp /\ UNCHANGED <<rx, line, errors, flags, buffers>>

\* __spi_dma_start
Started(stream) == [stream EXCEPT !.en = TRUE, !.tcie = TRUE, !.teie = TRUE]

StartRx == At("start rx", "start tx") /\ rx' = Started(rx) /\ UNCHANGED <<tx, line, errors, flags, buffers>>
StartTx == At("start tx", "tx wait") /\ tx' = Started(tx) /\ UNCHANGED <<rx, line, errors, flags, buffers>>

\* __dma_tx_wait: for want of a semicolon the loop clears txcomplete, and leaves
\* as soon as it reads it clear.
TxWait ==
  /\ At("tx wait", IF txcomplete # 0 THEN "tx clear" ELSE "rx wait")
  /\ UNCHANGED <<streams, flags, buffers>>
\* A wrong one that clears both flags.
TxClear_Both ==
  /\ At("tx clear", "tx wait")
  /\ txcomplete' = 0 /\ rxcomplete' = 0
  /\ UNCHANGED <<streams, buffers>>

TxClear ==
  /\ At("tx clear", "tx wait")
  /\ txcomplete' = 0
  /\ UNCHANGED <<streams, rxcomplete, buffers>>

\* A wrong __dma_rx_wait that waits for the transmission.
RxWait_Tx ==
  /\ At("rx wait", "rx clear")
  /\ txcomplete = 1
  /\ UNCHANGED <<streams, flags, buffers>>

\* __dma_rx_wait
RxWait ==
  /\ At("rx wait", "rx clear")
  /\ rxcomplete = 1
  /\ UNCHANGED <<streams, flags, buffers>>

\* A wrong __dma_rx_wait that leaves rxcomplete for the next exchange to find.
RxClear_Keeps == At("rx clear", "out") /\ UNCHANGED <<streams, flags, buffers>>

RxClear ==
  /\ At("rx clear", "out")
  /\ rxcomplete' = 0
  /\ UNCHANGED <<streams, txcomplete, buffers>>

SetsUp == RxSetup \/ TxSetup \/ StartRx \/ StartTx
Waits == TxWait \/ TxClear \/ RxWait \/ RxClear

-----------------------------------------------------------------------------
\* The exchange by itself, for a caller that sends any bytes and a device that
\* answers with any; 256 stands for what no device has put on the line.
SpiNext ==
  \/ sending' \in Seq(0 .. 255) /\ Exchange(sending')
  \/ SetsUp \/ Waits
  \/ \E answer \in 0 .. 256 : TxMove(answer)
  \/ RxMove \/ Overrun \/ TransferError
  \/ RxIsr \/ TxIsr

SpiSpec == SpiInit /\ [][SpiNext]_spi

-----------------------------------------------------------------------------
\* Properties

SpiTypeOK ==
  /\ at \in Steps
  /\ rx \in Stream /\ tx \in Stream
  /\ rxcomplete \in {0, 1} /\ txcomplete \in {0, 1}
  /\ size \in Nat /\ errors \in 0 .. MaxErrors

\* Between two exchanges the streams are at rest: both are off, nothing waits in
\* the SPI and no interrupt is to come that would stop or complete the next one,
\* although the thread never waits for the transmission (spi.c:193-197) and
\* although the interrupt of an error does not say that it is one
\* (spi.c:226-245).
AtRest ==
  at \in {"out", "rx setup"} =>
    /\ ~rx.en /\ ~tx.en /\ line = <<>>
    /\ Thread
    /\ rxcomplete = 0

\* An exchange is over only when every byte has come back that its count could
\* name (spi.c:109-122).
WholeExchange == at = "out" => Len(received) = size % CountSpace

=============================================================================
