---------------------------- MODULE At45dbProofs ----------------------------
(***************************************************************************)
(* Proofs about SpiDma and At45db.                                         *)
(*                                                                         *)
(* Of an exchange, for any number of bytes, any width of the count and any *)
(* number of transfer errors: type correctness, that the streams are at    *)
(* rest between two exchanges, and that an exchange is whole.  Then of the *)
(* driver over it, for any calls and any chip whose bytes an address of    *)
(* three bytes can name: that its exchanges are those of SpiDma, that it   *)
(* is the store of pages of BlockStore, and that nothing but the           *)
(* reprogramming of the page size is left under way when a call returns.   *)
(***************************************************************************)
EXTENDS At45db, SequenceTheorems, TLAPS

-----------------------------------------------------------------------------
\* The inductive invariant of the exchange

Byte == 0 .. 256

LineTypeOK == line \in Seq(Byte) /\ received \in Seq(Byte)

\* What an exchange of size bytes can count.
Wanted == size % CountSpace

\* Both streams are off and none of them has anything to tell.
Quiet == ~rx.en /\ ~tx.en /\ line = <<>> /\ Thread
Fresh == rxcomplete = 0 /\ received = <<>>

Running == {"tx wait", "tx clear", "rx wait"}

\* The receiving stream has failed: its interrupt stays raised, and the thread
\* never gets on.
Stuck == at \in Running \cup {"start tx"} /\ rx.te /\ rx.teie /\ ~rx.en

\* The receiving stream waits for more, or it has all and its interrupt is yet
\* to be taken or has been.
Live == rx.en /\ ~rx.tc /\ rxcomplete = 0 /\ (rx.count = 0 => Wanted = 0)
Done == ~rx.en /\ rx.tc /\ rx.count = 0 /\ Wanted # 0 /\ (rxcomplete = 1 => ~rx.tcie)

\* No byte comes back that was not sent, and none is lost.
Flow ==
  /\ ~rx.te /\ rx.teie
  /\ rx.count + Len(received) = Wanted
  /\ tx.count + Len(line) <= rx.count
  /\ tx.en /\ tx.count = 0 => Wanted = 0
  /\ Live \/ Done

\* The steps before the streams run.
SettingUp ==
  /\ at = "rx setup" => Quiet /\ Fresh
  /\ at = "tx setup" => rx = SetUp /\ ~tx.en /\ ~Irq(tx) /\ line = <<>> /\ Fresh
  /\ at = "start rx" => rx = SetUp /\ tx = SetUp /\ line = <<>> /\ Fresh
  /\ at = "start tx" => Stuck \/ (rx = Started(SetUp) /\ tx = SetUp /\ line = <<>> /\ Fresh)

\* The steps behind them.
Over ==
  /\ at = "rx clear" => Quiet /\ Len(received) = Wanted /\ Wanted # 0
  /\ at = "out" => Quiet /\ rxcomplete = 0 /\ Len(received) = Wanted

\* The inductive invariant.
IInv ==
  /\ SpiTypeOK /\ LineTypeOK
  /\ SettingUp
  /\ at \in Running => Stuck \/ Flow
  /\ Over

-----------------------------------------------------------------------------
\* Types

LEMMA WantedFact ==
  ASSUME size \in Nat
  PROVE  Wanted \in 0 .. CountSpace - 1
BY SpiAssumption DEF Wanted

LEMMA ResetFact == Reset \in Stream
BY SpiAssumption DEF Reset, Stream

LEMMA SetUpFact ==
  ASSUME size \in Nat
  PROVE  /\ SetUp \in Stream /\ Started(SetUp) \in Stream
         /\ ~SetUp.en /\ SetUp.count = Wanted /\ ~SetUp.tc /\ ~SetUp.te
         /\ ~SetUp.tcie /\ ~SetUp.teie
         /\ Started(SetUp).en /\ Started(SetUp).count = Wanted
         /\ ~Started(SetUp).tc /\ ~Started(SetUp).te
         /\ Started(SetUp).tcie /\ Started(SetUp).teie
BY WantedFact, SpiAssumption DEF SetUp, Started, Reset, Stream, Wanted

\* Records with fields of several kinds, for any set of counts.
LEMMA StreamExcept ==
  ASSUME NEW S,
         NEW s \in [en : BOOLEAN, count : S, tc : BOOLEAN, te : BOOLEAN, tcie : BOOLEAN, teie : BOOLEAN],
         NEW n \in S, NEW e \in BOOLEAN, NEW c \in BOOLEAN,
         NEW m, m = [s EXCEPT !.count = n, !.en = e, !.tc = c]
  PROVE  /\ m \in [en : BOOLEAN, count : S, tc : BOOLEAN, te : BOOLEAN, tcie : BOOLEAN, teie : BOOLEAN]
         /\ m.count = n /\ m.en = e /\ m.tc = c
         /\ m.te = s.te /\ m.tcie = s.tcie /\ m.teie = s.teie
BY Zenon

LEMMA MovedFact ==
  ASSUME NEW s \in Stream, Moves(s)
  PROVE  /\ Moved(s) \in Stream
         /\ Moved(s).count = s.count - 1
         /\ Moved(s).en = (s.count > 1) /\ Moved(s).tc = (s.count = 1)
         /\ Moved(s).te = s.te /\ Moved(s).tcie = s.tcie /\ Moved(s).teie = s.teie
<1>1. s.count \in 0 .. CountSpace - 1 /\ s.count > 0
  BY DEF Moves, Stream
<1>2. s.count - 1 \in 0 .. CountSpace - 1
  BY <1>1, SpiAssumption
<1>3. (s.count > 1) \in BOOLEAN /\ (s.count = 1) \in BOOLEAN
  OBVIOUS
<1>4. QED
  BY <1>2, <1>3, StreamExcept, Zenon DEF Moved, Stream

LEMMA BrokenFact ==
  ASSUME NEW s \in Stream
  PROVE  /\ Broken(s) \in Stream
         /\ Broken(s).count = s.count /\ ~Broken(s).en /\ Broken(s).tc = s.tc
         /\ Broken(s).te /\ Broken(s).tcie = s.tcie /\ Broken(s).teie = s.teie
BY DEF Broken, Stream

LEMMA AnsweredFact ==
  ASSUME NEW s \in Stream, NEW m, m = [s EXCEPT !.tcie = FALSE, !.en = FALSE]
  PROVE  /\ m \in Stream
         /\ m.count = s.count /\ ~m.en /\ m.tc = s.tc /\ m.te = s.te
         /\ ~m.tcie /\ m.teie = s.teie
BY Zenon DEF Stream

LEMMA ResetFields ==
  /\ ~Reset.en /\ Reset.count = 0 /\ ~Reset.tc /\ ~Reset.te /\ ~Reset.tcie /\ ~Reset.teie
BY DEF Reset

LEMMA InitIInv == SpiInit => IInv
<1> SUFFICES ASSUME SpiInit PROVE IInv
  OBVIOUS
<1>1. SpiTypeOK /\ LineTypeOK
  BY ResetFact, SpiAssumption DEF SpiInit, SpiTypeOK, LineTypeOK, Steps, Byte
<1>2. Wanted = 0
  BY SpiAssumption DEF SpiInit, Wanted
<1>3. Over
  BY <1>2 DEF SpiInit, Over, Quiet, Thread, Irq, Reset
<1>4. QED
  BY <1>1, <1>3 DEF SpiInit, IInv, SettingUp, Running

-----------------------------------------------------------------------------
\* The steps

\* The thread.
LEMMA ThreadKeepsIInv ==
  IInv /\ ((sending' \in Seq(0 .. 255) /\ Exchange(sending')) \/ SetsUp \/ Waits) => IInv'
<1>a. SUFFICES ASSUME IInv,
                     (sending' \in Seq(0 .. 255) /\ Exchange(sending')) \/ SetsUp \/ Waits
              PROVE  IInv'
  OBVIOUS
<1>b. SpiTypeOK /\ LineTypeOK /\ SettingUp /\ (at \in Running => Stuck \/ Flow) /\ Over
  BY <1>a DEF IInv
<1>1. CASE sending' \in Seq(0 .. 255) /\ Exchange(sending')
  <2>1. size' \in Nat /\ received' = <<>> /\ at = "out" /\ at' = "rx setup"
        /\ UNCHANGED <<rx, tx, line, errors, rxcomplete, txcomplete>>
    BY <1>b, <1>1, LenProperties DEF streams, flags, buffers, Exchange
  <2>2. SpiTypeOK' /\ LineTypeOK'
    <3>1. <<>> \in Seq(Byte) /\ at' \in Steps
      BY <2>1, EmptySeq DEF Steps
    <3>2. QED
      BY <1>b, <2>1, <3>1, Zenon DEF SpiTypeOK, LineTypeOK
  <2>3. Quiet' /\ Fresh'
    BY <1>b, <2>1 DEF Over, Quiet, Fresh, Thread
  <2>4. QED
    BY <1>b, <2>1, <2>2, <2>3 DEF SettingUp, Over, Running, IInv
<1>2. CASE RxSetup
  <2>1. /\ at = "rx setup" /\ at' = "tx setup" /\ rx' = SetUp
        /\ UNCHANGED <<tx, line, errors, rxcomplete, txcomplete, received, size>>
    BY <1>b, <1>2 DEF streams, flags, buffers, RxSetup, At
  <2>2. SpiTypeOK' /\ LineTypeOK'
    BY <1>b, <2>1, SetUpFact DEF SpiTypeOK, LineTypeOK, Steps
  <2>3. (rx = SetUp /\ ~tx.en /\ ~Irq(tx) /\ line = <<>> /\ Fresh)'
    BY <1>b, <2>1 DEF SettingUp, Quiet, Fresh, Thread, SetUp, Irq
  <2>4. QED
    BY <1>b, <2>1, <2>2, <2>3 DEF SettingUp, Over, Running, IInv
<1>3. CASE TxSetup
  <2>1. /\ at = "tx setup" /\ at' = "start rx" /\ tx' = SetUp
        /\ UNCHANGED <<rx, line, errors, rxcomplete, txcomplete, received, size>>
    BY <1>b, <1>3 DEF streams, flags, buffers, TxSetup, At
  <2>2. SpiTypeOK' /\ LineTypeOK'
    BY <1>b, <2>1, SetUpFact DEF SpiTypeOK, LineTypeOK, Steps
  <2>3. (rx = SetUp /\ tx = SetUp /\ line = <<>> /\ Fresh)'
    BY <1>b, <2>1 DEF SettingUp, Fresh, SetUp
  <2>4. QED
    BY <1>b, <2>1, <2>2, <2>3 DEF SettingUp, Over, Running, IInv
<1>4. CASE StartRx
  <2>1. /\ at = "start rx" /\ at' = "start tx" /\ rx' = Started(rx) /\ rx = SetUp
        /\ UNCHANGED <<tx, line, errors, rxcomplete, txcomplete, received, size>>
    BY <1>b, <1>4 DEF streams, flags, buffers, StartRx, At, SettingUp
  <2>2. SpiTypeOK' /\ LineTypeOK'
    BY <1>b, <2>1, SetUpFact DEF SpiTypeOK, LineTypeOK, Steps
  <2>3. (rx = Started(SetUp) /\ tx = SetUp /\ line = <<>> /\ Fresh)'
    BY <1>b, <2>1 DEF SettingUp, Fresh, SetUp
  <2>4. QED
    BY <1>b, <2>1, <2>2, <2>3 DEF SettingUp, Over, Running, IInv
<1>5. CASE StartTx
  <2>1. /\ at = "start tx" /\ at' = "tx wait" /\ tx' = Started(tx)
        /\ UNCHANGED <<rx, line, errors, rxcomplete, txcomplete, received, size>> /\ ~Irq(rx)
    BY <1>b, <1>5 DEF streams, flags, buffers, StartTx, At, Thread
  <2>2. rx = Started(SetUp) /\ tx' = Started(SetUp) /\ line = <<>> /\ Fresh
    BY <1>b, <2>1 DEF SettingUp, Stuck, Irq
  <2>3. SpiTypeOK' /\ LineTypeOK' /\ Wanted' = Wanted
    BY <1>b, <2>1, <2>2, SetUpFact DEF SpiTypeOK, LineTypeOK, Steps, Wanted
  <2>4. Flow'
    <3>1. rx' = Started(SetUp) /\ tx' = Started(SetUp) /\ line' = <<>> /\ received' = <<>>
          /\ rxcomplete' = 0 /\ size \in Nat
      BY <1>b, <2>1, <2>2 DEF Fresh, SpiTypeOK
    <3>2. Live' /\ ~rx'.te /\ rx'.teie
      BY <3>1, <2>3, SetUpFact, Zenon DEF Live
    <3>3. rx'.count = Wanted' /\ tx'.count = Wanted' /\ Wanted' \in Nat
      BY <3>1, <2>3, SetUpFact, WantedFact
    <3>4. Len(received') = 0 /\ Len(line') = 0
      BY <3>1, EmptySeq
    <3>5. rx'.count + Len(received') = Wanted' /\ tx'.count + Len(line') <= rx'.count
      <4>1. ASSUME NEW n \in Nat PROVE n + 0 = n /\ n + 0 <= n
        OBVIOUS
      <4>2. QED
        BY <3>3, <3>4, <4>1, Zenon
    <3>6. QED
      BY <3>2, <3>3, <3>5, Zenon DEF Flow
  <2>5. QED
    BY <1>b, <2>1, <2>3, <2>4 DEF SettingUp, Over, Running, IInv
<1>6. CASE TxWait \/ TxClear
  <2>1. /\ at \in {"tx wait", "tx clear"} /\ at' \in Running /\ txcomplete' \in {0, 1}
        /\ UNCHANGED <<rx, tx, line, errors, rxcomplete, received, size>>
    BY <1>b, <1>6 DEF streams, flags, buffers, TxWait, TxClear, At, Running, SpiTypeOK
  <2>2. SpiTypeOK' /\ LineTypeOK' /\ Wanted' = Wanted
    BY <1>b, <2>1 DEF SpiTypeOK, LineTypeOK, Steps, Running, Wanted
  <2>3. (Stuck \/ Flow)'
    BY <1>b, <2>1, <2>2 DEF Running, Stuck, Flow, Live, Done
  <2>4. QED
    BY <1>b, <2>1, <2>2, <2>3 DEF SettingUp, Over, Running, IInv
<1>7. CASE RxWait
  <2>1. /\ at = "rx wait" /\ at' = "rx clear" /\ rxcomplete = 1 /\ Thread
        /\ UNCHANGED <<rx, tx, line, errors, rxcomplete, txcomplete, received, size>>
    BY <1>b, <1>7 DEF streams, flags, buffers, RxWait, At
  <2>2. SpiTypeOK' /\ LineTypeOK' /\ Wanted' = Wanted /\ Thread'
    BY <1>b, <2>1 DEF SpiTypeOK, LineTypeOK, Steps, Wanted, Thread
  <2>3. Flow
    BY <1>b, <2>1 DEF Running, Stuck, Thread, Irq
  <2>4. ~rx.en /\ rx.count = 0 /\ Wanted # 0
    <3>1. rxcomplete = 1
      BY <2>1, Zenon
    <3>2. rxcomplete # 0
      BY <3>1
    <3>3. QED
      BY <3>2, <2>3, Zenon DEF Flow, Live, Done
  <2>5. ~tx.en /\ Len(line) = 0 /\ Len(received) = Wanted
    BY <1>b, <2>3, <2>4, LenProperties DEF Flow, SpiTypeOK, LineTypeOK, Stream
  <2>6. line = <<>>
    BY <1>b, <2>5, EmptySeq DEF LineTypeOK
  <2>7. QED
    BY <1>b, <2>1, <2>2, <2>4, <2>5, <2>6 DEF SettingUp, Over, Running, Quiet, IInv
<1>8. CASE RxClear
  <2>1. /\ at = "rx clear" /\ at' = "out" /\ rxcomplete' = 0
        /\ UNCHANGED <<rx, tx, line, errors, txcomplete, received, size>>
    BY <1>b, <1>8 DEF streams, flags, buffers, RxClear, At
  <2>2. SpiTypeOK' /\ LineTypeOK' /\ Wanted' = Wanted
    BY <1>b, <2>1 DEF SpiTypeOK, LineTypeOK, Steps, Wanted
  <2>3. QED
    BY <1>b, <2>1, <2>2 DEF SettingUp, Over, Running, Quiet, Thread, IInv
<1>9. QED
  BY <1>a, <1>1, <1>2, <1>3, <1>4, <1>5, <1>6, <1>7, <1>8 DEF SetsUp, Waits

\* The handlers.
LEMMA HandlersKeepIInv == IInv /\ (RxIsr \/ TxIsr) => IInv'
<1>a. SUFFICES ASSUME IInv, RxIsr \/ TxIsr PROVE IInv'
  OBVIOUS
<1>b. SpiTypeOK /\ LineTypeOK /\ SettingUp /\ (at \in Running => Stuck \/ Flow) /\ Over
  BY <1>a DEF IInv
<1>c. at \in Steps /\ rx \in Stream /\ tx \in Stream
  BY <1>b DEF SpiTypeOK
<1>1. CASE RxIsr
  <2>1. /\ Irq(rx) /\ rx' = [rx EXCEPT !.tcie = FALSE, !.en = FALSE] /\ rxcomplete' = 1
        /\ UNCHANGED <<at, tx, line, errors, txcomplete, received, size>>
    BY <1>1 DEF RxIsr, buffers
  <2>2. /\ rx' \in Stream
        /\ rx'.count = rx.count /\ ~rx'.en /\ rx'.tc = rx.tc /\ rx'.te = rx.te
        /\ ~rx'.tcie /\ rx'.teie = rx.teie
    BY <1>c, <2>1, AnsweredFact, Zenon
  <2>3. SpiTypeOK' /\ LineTypeOK' /\ Wanted' = Wanted
    BY <1>b, <2>1, <2>2 DEF SpiTypeOK, LineTypeOK, Wanted
  <2>4. at \in Running \cup {"start tx"} /\ (at = "start tx" => Stuck)
    <3>1. ~Irq(SetUp) /\ ~Irq(Started(SetUp))
      BY <1>b, SetUpFact DEF Irq, SpiTypeOK
    <3>2. QED
      BY <1>b, <1>c, <2>1, <3>1 DEF SettingUp, Over, Quiet, Thread, Steps, Running
  <2>5. CASE Stuck
    BY <2>1, <2>2, <2>3, <2>5 DEF IInv, Stuck, SettingUp, Running, Over
  <2>6. CASE Flow /\ at \in Running
    <3>1. rx.tc /\ Done
      BY <2>1, <2>6, Zenon DEF Flow, Live, Done, Irq
    <3>2. Flow'
      BY <2>1, <2>2, <2>3, <2>6, <3>1, Zenon DEF Flow, Done
    <3>3. QED
      BY <2>1, <2>3, <2>6, <3>2 DEF IInv, SettingUp, Running, Over
  <2>7. QED
    BY <1>b, <2>4, <2>5, <2>6 DEF Running
<1>2. CASE TxIsr
  <2>1. /\ Irq(tx) /\ tx' = Reset
        /\ UNCHANGED <<at, rx, line, errors, rxcomplete, received, size>> /\ txcomplete' = 1
    BY <1>2 DEF TxIsr, buffers
  <2>2. SpiTypeOK' /\ LineTypeOK' /\ Wanted' = Wanted
    BY <1>b, <2>1, ResetFact DEF SpiTypeOK, LineTypeOK, Wanted
  <2>3. at \in Running \cup {"start tx"} /\ (at = "start tx" => Stuck)
    <3>1. ~Irq(SetUp)
      BY <1>b, SetUpFact DEF Irq, SpiTypeOK
    <3>2. QED
      BY <1>b, <1>c, <2>1, <3>1 DEF SettingUp, Over, Quiet, Thread, Steps, Running
  <2>4. CASE Stuck
    BY <2>1, <2>2, <2>4 DEF IInv, Stuck, SettingUp, Running, Over
  <2>5. CASE Flow /\ at \in Running
    <3>1. tx.count \in Nat /\ rx.count \in Nat /\ Len(line) \in Nat
      BY <1>b, <1>c, LenProperties, SpiAssumption DEF LineTypeOK, Stream
    <3>2. Len(line) <= rx.count
      BY <2>5, <3>1 DEF Flow
    <3>3. tx'.count + Len(line) <= rx.count /\ ~tx'.en
      BY <2>1, <3>1, <3>2, ResetFields
    <3>4. Flow'
      BY <2>1, <2>2, <2>5, <3>3, Zenon DEF Flow, Live, Done
    <3>5. QED
      BY <2>1, <2>2, <2>5, <3>4 DEF IInv, SettingUp, Running, Over
  <2>6. QED
    BY <1>b, <2>3, <2>4, <2>5 DEF Running
<1>3. QED
  BY <1>a, <1>1, <1>2

\* A stream moves a byte or fails only where it has been started.
LEMMA WhereItRuns ==
  ASSUME IInv
  PROVE  /\ Moves(tx) => at \in Running \/ Stuck
         /\ Moves(rx) => (at \in Running /\ Flow) \/ (at = "start tx" /\ rx = Started(SetUp))
         /\ line # <<>> => at \in Running \/ Stuck
<1>1. /\ SpiTypeOK /\ SettingUp /\ (at \in Running => Stuck \/ Flow) /\ Over
      /\ at \in Steps /\ size \in Nat
  BY DEF IInv, SpiTypeOK
<1>2. ~SetUp.en
  BY <1>1, SetUpFact
<1>3. CASE at \in {"out", "rx setup", "rx clear"}
  BY <1>1, <1>3 DEF SettingUp, Over, Quiet, Moves
<1>4. CASE at \in {"tx setup", "start rx"}
  BY <1>1, <1>2, <1>4, Zenon DEF SettingUp, Moves
<1>5. CASE at = "start tx"
  BY <1>1, <1>2, <1>5, Zenon DEF SettingUp, Moves, Stuck
<1>6. CASE at \in Running
  BY <1>1, <1>6, Zenon DEF Moves, Stuck
<1>7. QED
  BY <1>1, <1>3, <1>4, <1>5, <1>6 DEF Steps, Running

\* What is left to show of a step of the streams in Flow.
LEMMA InFlow ==
  ASSUME SpiTypeOK', LineTypeOK', at' \in Running, (Stuck \/ Flow)'
  PROVE  IInv'
BY DEF IInv, SettingUp, Running, Over

\* Nothing but a reset gets the program out of it.
LEMMA StaysStuck ==
  ASSUME SpiTypeOK', LineTypeOK', Stuck'
  PROVE  IInv'
BY DEF IInv, SettingUp, Running, Over, Stuck

LEMMA TxMoveKeepsIInv ==
  ASSUME IInv, NEW said \in Byte, TxMove(said)
  PROVE  IInv'
<1>1. /\ SpiTypeOK /\ LineTypeOK /\ (at \in Running => Stuck \/ Flow)
      /\ rx \in Stream /\ tx \in Stream /\ line \in Seq(Byte)
  BY DEF IInv, SpiTypeOK, LineTypeOK
<1>2. /\ Moves(tx) /\ tx' = Moved(tx) /\ line' = Append(line, said)
      /\ UNCHANGED <<at, rx, errors, rxcomplete, txcomplete, received, size>>
  BY DEF TxMove, flags
<1>3. tx' \in Stream /\ tx'.count = tx.count - 1 /\ tx'.en = (tx.count > 1)
  BY <1>1, <1>2, MovedFact, Zenon
<1>4. line' \in Seq(Byte) /\ Len(line') = Len(line) + 1
  BY <1>1, <1>2, AppendProperties
<1>5. SpiTypeOK' /\ LineTypeOK' /\ Wanted' = Wanted
  BY <1>1, <1>2, <1>3, <1>4 DEF SpiTypeOK, LineTypeOK, Wanted
<1>6. CASE Stuck
  BY <1>2, <1>5, <1>6, StaysStuck DEF Stuck
<1>7. CASE at \in Running /\ Flow
  <2>1. tx.count \in Nat /\ rx.count \in Nat /\ Len(line) \in Nat
    BY <1>1, LenProperties, SpiAssumption DEF Stream
  <2>2. tx.count + Len(line) <= rx.count
    BY <1>7, Zenon DEF Flow
  <2>3. tx'.count + Len(line') <= rx.count /\ ~(tx'.en /\ tx'.count = 0)
    <3>1. ASSUME NEW t \in Nat, NEW l \in Nat, NEW c \in Nat, t + l <= c
          PROVE  (t - 1) + (l + 1) <= c /\ ~(t > 1 /\ t - 1 = 0)
      BY <3>1
    <3>2. (tx.count - 1) + (Len(line) + 1) <= rx.count /\ ~(tx.count > 1 /\ tx.count - 1 = 0)
      BY <2>1, <2>2, <3>1, Zenon
    <3>3. QED
      BY <1>3, <1>4, <3>2, Zenon
  <2>4. (Live \/ Done)'
    BY <1>2, <1>5, <1>7, Zenon DEF Flow, Live, Done
  <2>5. ~rx'.te /\ rx'.teie /\ rx'.count + Len(received') = Wanted'
    BY <1>2, <1>5, <1>7, Zenon DEF Flow
  <2>6. tx'.count + Len(line') <= rx'.count
    BY <1>2, <2>3, Zenon
  <2>7. Flow'
    BY <2>3, <2>4, <2>5, <2>6, Zenon DEF Flow
  <2>8. QED
    BY <1>2, <1>5, <1>7, <2>7, InFlow
<1>8. QED
  BY <1>1, <1>2, <1>6, <1>7, WhereItRuns

LEMMA RxMoveKeepsIInv ==
  ASSUME IInv, RxMove
  PROVE  IInv'
<1>1. /\ SpiTypeOK /\ LineTypeOK /\ SettingUp
      /\ rx \in Stream /\ tx \in Stream /\ line \in Seq(Byte) /\ received \in Seq(Byte)
  BY DEF IInv, SpiTypeOK, LineTypeOK
<1>2. /\ Moves(rx) /\ line # <<>> /\ rx' = Moved(rx)
      /\ received' = Append(received, Head(line)) /\ line' = Tail(line)
      /\ UNCHANGED <<at, tx, errors, rxcomplete, txcomplete, size>>
  BY DEF RxMove, flags
<1>3. /\ rx' \in Stream /\ rx'.count = rx.count - 1
      /\ rx'.en = (rx.count > 1) /\ rx'.tc = (rx.count = 1)
      /\ rx'.te = rx.te /\ rx'.teie = rx.teie
  BY <1>1, <1>2, MovedFact, Zenon
<1>4. /\ received' \in Seq(Byte) /\ Len(received') = Len(received) + 1
      /\ line' \in Seq(Byte) /\ Len(line') = Len(line) - 1
  <2>1. Head(line) \in Byte /\ Tail(line) \in Seq(Byte) /\ Len(Tail(line)) = Len(line) - 1
    BY <1>1, <1>2, HeadTailProperties
  <2>2. QED
    BY <1>1, <1>2, <2>1, AppendProperties
<1>5. SpiTypeOK' /\ LineTypeOK' /\ Wanted' = Wanted
  BY <1>1, <1>2, <1>3, <1>4 DEF SpiTypeOK, LineTypeOK, Wanted
<1>6. at \in Running /\ Flow /\ Live
  <2>1. at # "start tx"
    BY <1>1, <1>2, WhereItRuns DEF Stuck, Running, Moves
  <2>2. at \in Running /\ Flow
    BY <1>2, <2>1, WhereItRuns
  <2>3. QED
    BY <1>2, <2>2, Zenon DEF Flow, Done, Moves
<1>7. /\ tx.count \in Nat /\ rx.count \in Nat \ {0} /\ Len(line) \in Nat /\ Len(received) \in Nat
  BY <1>1, <1>2, LenProperties, SpiAssumption DEF Stream, Moves
<1>8. rx.count + Len(received) = Wanted /\ tx.count + Len(line) <= rx.count
  BY <1>6, Zenon DEF Flow
<1>9. rx'.count + Len(received') = Wanted /\ tx.count + Len(line') <= rx'.count
  <2>1. ASSUME NEW c \in Nat \ {0}, NEW r \in Nat PROVE (c - 1) + (r + 1) = c + r
    OBVIOUS
  <2>2. (rx.count - 1) + (Len(received) + 1) = Wanted
    BY <1>7, <1>8, <2>1, Zenon
  <2>3. ASSUME NEW c \in Nat \ {0}, NEW t \in Nat, NEW l \in Nat, t + l <= c
        PROVE  t + (l - 1) <= c - 1
    BY <2>3
  <2>4. tx.count + (Len(line) - 1) <= rx.count - 1
    BY <1>7, <1>8, <2>3, Zenon
  <2>5. QED
    BY <1>3, <1>4, <2>2, <2>4, Zenon
<1>10. (Live \/ Done)'
  <2>1. CASE rx.count = 1
    <3>a. ASSUME NEW r \in Nat, NEW w, 1 + r = w PROVE w # 0
      BY <3>a
    <3>1. Wanted # 0
      BY <1>7, <1>8, <2>1, <3>a, Zenon
    <3>b. ~(1 > 1) /\ 1 - 1 = 0 /\ 0 # 1
      OBVIOUS
    <3>2. ~rx'.en /\ rx'.tc /\ rx'.count = 0 /\ rxcomplete' # 1
      BY <1>2, <1>3, <1>6, <2>1, <3>b, Zenon DEF Live
    <3>3. QED
      BY <1>5, <3>1, <3>2, Zenon DEF Done
  <2>2. CASE rx.count # 1
    <3>a. ASSUME NEW c \in Nat \ {0}, c # 1 PROVE c > 1 /\ c - 1 # 0
      BY <3>a
    <3>1. rx'.en /\ ~rx'.tc /\ rx'.count # 0 /\ rxcomplete' = 0
      BY <1>2, <1>3, <1>6, <1>7, <2>2, <3>a, Zenon DEF Live
    <3>2. QED
      BY <3>1, Zenon DEF Live
  <2>3. QED
    BY <2>1, <2>2
<1>11. Flow'
  BY <1>2, <1>3, <1>5, <1>6, <1>9, <1>10, Zenon DEF Flow
<1>12. QED
  BY <1>2, <1>5, <1>6, <1>11, InFlow

\* A byte is lost only where the thread never gets on.
LEMMA OverrunKeepsIInv ==
  ASSUME IInv, Overrun
  PROVE  IInv'
<1>1. /\ SpiTypeOK /\ LineTypeOK /\ (at \in Running => Stuck \/ Flow)
      /\ rx \in Stream /\ tx \in Stream /\ line \in Seq(Byte)
  BY DEF IInv, SpiTypeOK, LineTypeOK
<1>2. /\ Len(line) = 2 /\ ~Moves(rx) /\ line' = <<Head(line)>>
      /\ UNCHANGED <<at, rx, tx, errors, rxcomplete, txcomplete, received, size>>
  BY DEF Overrun, flags, buffers
<1>3. line # <<>>
  BY <1>2, EmptySeq
<1>4. line' \in Seq(Byte)
  BY <1>1, <1>2, <1>3, HeadTailProperties
<1>5. SpiTypeOK' /\ LineTypeOK'
  BY <1>1, <1>2, <1>4 DEF SpiTypeOK, LineTypeOK
<1>6. ~Flow
  <2>1. SUFFICES ASSUME Flow PROVE FALSE
    OBVIOUS
  <2>2. tx.count \in Nat /\ rx.count \in Nat
    BY <1>1, SpiAssumption DEF Stream
  <2>3. tx.count + 2 <= rx.count
    BY <1>2, <2>1, Zenon DEF Flow
  <2>4. rx.count > 0 /\ rx.count # 0
    BY <2>2, <2>3
  <2>5. QED
    BY <1>2, <2>1, <2>4, Zenon DEF Flow, Live, Done, Moves
<1>7. Stuck
  BY <1>1, <1>3, <1>6, WhereItRuns
<1>8. QED
  BY <1>2, <1>5, <1>7, StaysStuck DEF Stuck

LEMMA TransferErrorKeepsIInv ==
  ASSUME IInv, TransferError
  PROVE  IInv'
<1>1. /\ SpiTypeOK /\ LineTypeOK /\ (at \in Running => Stuck \/ Flow) /\ size \in Nat
      /\ rx \in Stream /\ tx \in Stream
  BY DEF IInv, SpiTypeOK
<1>2. /\ errors < MaxErrors /\ errors' = errors + 1
      /\ UNCHANGED <<at, line, rxcomplete, txcomplete, received, size>>
  BY DEF TransferError, flags, buffers
<1>3. errors' \in 0 .. MaxErrors
  BY <1>1, <1>2, SpiAssumption DEF SpiTypeOK
<1>4. CASE Moves(rx) /\ rx' = Broken(rx) /\ UNCHANGED tx
  <2>1. /\ rx' \in Stream /\ ~rx'.en /\ rx'.te /\ rx'.teie = rx.teie
    BY <1>1, <1>4, BrokenFact, Zenon
  <2>2. SpiTypeOK' /\ LineTypeOK'
    BY <1>1, <1>2, <1>3, <1>4, <2>1 DEF SpiTypeOK, LineTypeOK
  <2>3. at \in Running \cup {"start tx"} /\ rx.teie
    <3>1. Started(SetUp).teie
      BY <1>1, SetUpFact
    <3>2. Flow => rx.teie
      BY Zenon DEF Flow
    <3>3. QED
      BY <1>4, <3>1, <3>2, WhereItRuns
  <2>4. Stuck'
    BY <1>2, <2>1, <2>3 DEF Stuck, Running
  <2>5. QED
    BY <2>2, <2>4, StaysStuck
<1>5. CASE Moves(tx) /\ tx' = Broken(tx) /\ UNCHANGED rx
  <2>1. /\ tx' \in Stream /\ tx'.count = tx.count /\ ~tx'.en
    BY <1>1, <1>5, BrokenFact, Zenon
  <2>2. SpiTypeOK' /\ LineTypeOK' /\ Wanted' = Wanted
    BY <1>1, <1>2, <1>3, <1>5, <2>1 DEF SpiTypeOK, LineTypeOK, Wanted
  <2>3. CASE Stuck
    BY <1>2, <1>5, <2>2, <2>3, StaysStuck DEF Stuck
  <2>4. CASE at \in Running /\ Flow
    <3>1. Flow'
      BY <1>2, <1>5, <2>1, <2>2, <2>4, Zenon DEF Flow, Live, Done
    <3>2. QED
      BY <1>2, <2>2, <2>4, <3>1, InFlow
  <2>5. QED
    BY <1>1, <1>5, <2>3, <2>4, WhereItRuns
<1>6. QED
  BY <1>4, <1>5 DEF TransferError

LEMMA NextIInv == IInv /\ [SpiNext]_spi => IInv'
<1> SUFFICES ASSUME IInv, [SpiNext]_spi PROVE IInv'
  OBVIOUS
<1>1. CASE (sending' \in Seq(0 .. 255) /\ Exchange(sending')) \/ SetsUp \/ Waits
  BY <1>1, ThreadKeepsIInv
<1>2. CASE \E said \in 0 .. 256 : TxMove(said)
  BY <1>2, TxMoveKeepsIInv DEF Byte
<1>3. CASE RxMove
  BY <1>3, RxMoveKeepsIInv
<1>4. CASE Overrun
  BY <1>4, OverrunKeepsIInv
<1>5. CASE TransferError
  BY <1>5, TransferErrorKeepsIInv
<1>6. CASE RxIsr \/ TxIsr
  BY <1>6, HandlersKeepIInv
<1>7. CASE UNCHANGED spi
  BY <1>7
  DEF spi, streams, flags, buffers, IInv, SpiTypeOK, LineTypeOK, SettingUp, Over, Stuck, Flow,
      Live, Done, Quiet, Fresh, Thread, Irq, SetUp, Started, Wanted
<1>8. QED
  BY <1>1, <1>2, <1>3, <1>4, <1>5, <1>6, <1>7 DEF SpiNext

-----------------------------------------------------------------------------
\* What is left to send

\* A byte that has not come back waits in the SPI or has yet to be sent.
Supply ==
  /\ sending \in Seq(0 .. 255)
  /\ at \in {"rx setup", "tx setup", "start rx", "start tx"} => Stuck \/ size = Len(sending)
  /\ at \in {"start rx", "start tx"} \cup Running => tx.count <= Len(sending)
  /\ at \in Running => Stuck \/ Len(sending) + Len(line) + Len(received) = size
  /\ at = "rx clear" => Len(sending) + Len(received) = size

LEMMA InitSupply == SpiInit => Supply
BY EmptySeq DEF SpiInit, Supply, Running

\* A byte is lost only where the thread never gets on.
LEMMA OverrunIsStuck ==
  ASSUME IInv, Overrun
  PROVE  Stuck
<1>1. /\ SpiTypeOK /\ LineTypeOK /\ (at \in Running => Stuck \/ Flow)
      /\ rx \in Stream /\ tx \in Stream /\ line \in Seq(Byte)
  BY DEF IInv, SpiTypeOK, LineTypeOK
<1>2. Len(line) = 2 /\ ~Moves(rx)
  BY DEF Overrun
<1>3. line # <<>>
  BY <1>2, EmptySeq
<1>4. ~Flow
  <2>1. SUFFICES ASSUME Flow PROVE FALSE
    OBVIOUS
  <2>2. tx.count \in Nat /\ rx.count \in Nat
    BY <1>1, SpiAssumption DEF Stream
  <2>3. tx.count + 2 <= rx.count
    BY <1>2, <2>1, Zenon DEF Flow
  <2>4. rx.count > 0 /\ rx.count # 0
    BY <2>2, <2>3
  <2>5. QED
    BY <1>2, <2>1, <2>4, Zenon DEF Flow, Live, Done, Moves
<1>5. QED
  BY <1>1, <1>3, <1>4, WhereItRuns

LEMMA ThreadKeepsSupply ==
  IInv /\ Supply /\ ((sending' \in Seq(0 .. 255) /\ Exchange(sending')) \/ SetsUp \/ Waits)
    => Supply'
<1> SUFFICES ASSUME IInv, Supply,
                    (sending' \in Seq(0 .. 255) /\ Exchange(sending')) \/ SetsUp \/ Waits
             PROVE  Supply'
  OBVIOUS
<1>1. /\ SpiTypeOK /\ LineTypeOK /\ SettingUp /\ (at \in Running => Stuck \/ Flow) /\ Over
      /\ size \in Nat /\ Len(sending) \in Nat
  BY LenProperties DEF IInv, SpiTypeOK, Supply
<1>2. CASE sending' \in Seq(0 .. 255) /\ Exchange(sending')
  <2>1. size' = Len(sending') /\ at' = "rx setup"
    BY <1>2 DEF Exchange
  <2>2. QED
    BY <1>2, <2>1 DEF Supply, Running
<1>3. CASE RxSetup
  <2>1. at = "rx setup" /\ at' = "tx setup" /\ UNCHANGED <<sending, size>>
    BY <1>3 DEF RxSetup, At, buffers
  <2>2. QED
    BY <2>1 DEF Supply, Running, Stuck
<1>4. CASE TxSetup
  <2>1. at = "tx setup" /\ at' = "start rx" /\ tx' = SetUp /\ UNCHANGED <<sending, size>>
    BY <1>4 DEF TxSetup, At, buffers
  <2>2. size = Len(sending)
    BY <2>1 DEF Supply, Running, Stuck
  <2>3. SetUp.count = Wanted /\ Wanted <= size
    <3>1. SetUp.count = Wanted
      BY <1>1, SetUpFact
    <3>2. ASSUME NEW n \in Nat, NEW d \in Nat \ {0} PROVE n % d <= n
      OBVIOUS
    <3>3. QED
      BY <1>1, <3>1, <3>2, SpiAssumption DEF Wanted
  <2>4. tx'.count <= Len(sending') /\ size' = Len(sending') /\ sending' \in Seq(0 .. 255)
    BY <2>1, <2>2, <2>3 DEF Supply
  <2>5. QED
    BY <2>1, <2>4 DEF Supply, Running
<1>5. CASE StartRx
  <2>1. at = "start rx" /\ at' = "start tx" /\ UNCHANGED <<tx, sending, size>>
    BY <1>5 DEF StartRx, At, buffers
  <2>2. QED
    BY <2>1 DEF Supply, Running, Stuck
<1>6. CASE StartTx
  <2>1. /\ at = "start tx" /\ at' = "tx wait" /\ tx' = Started(tx) /\ ~Irq(rx)
        /\ UNCHANGED <<sending, size, line, received>>
    BY <1>6 DEF StartTx, At, buffers, Thread
  <2>2. ~Stuck
    BY <2>1 DEF Stuck, Irq
  <2>3. tx = SetUp /\ line = <<>> /\ received = <<>> /\ size = Len(sending)
    BY <1>1, <2>1, <2>2 DEF SettingUp, Fresh, Supply
  <2>4. tx'.count = SetUp.count
    BY <1>1, <2>1, <2>3, SetUpFact
  <2>5. tx'.count <= Len(sending')
    BY <2>1, <2>3, <2>4 DEF Supply
  <2>6. Len(sending') + Len(line') + Len(received') = size'
    <3>1. line' = <<>> /\ received' = <<>> /\ size' = Len(sending') /\ Len(sending') \in Nat
      BY <1>1, <2>1, <2>3
    <3>2. ASSUME NEW n \in Nat PROVE n + Len(<<>>) + Len(<<>>) = n
      OBVIOUS
    <3>3. QED
      BY <3>1, <3>2, Zenon
  <2>7. QED
    BY <2>1, <2>5, <2>6 DEF Supply, Running
<1>7. CASE TxWait \/ TxClear
  <2>1. /\ at \in Running /\ at' \in Running
        /\ UNCHANGED <<rx, tx, sending, size, line, received>>
    BY <1>7 DEF TxWait, TxClear, At, streams, buffers, Running
  <2>2. Stuck => Stuck'
    BY <2>1 DEF Stuck
  <2>3. QED
    BY <2>1, <2>2 DEF Supply, Running
<1>8. CASE RxWait
  <2>1. /\ at = "rx wait" /\ at' = "rx clear" /\ Thread
        /\ UNCHANGED <<rx, sending, size, line, received>>
    BY <1>8 DEF RxWait, At, streams, buffers
  <2>2. ~Stuck
    BY <2>1 DEF Stuck, Thread, Irq
  <2>3. IInv'
    BY <1>8, ThreadKeepsIInv DEF Waits
  <2>4. line = <<>>
    BY <2>1, <2>3 DEF IInv, Over, Quiet
  <2>5. Len(received) \in Nat
    BY <1>1, LenProperties DEF LineTypeOK
  <2>6. Len(sending) + Len(line) + Len(received) = size
    BY <2>1, <2>2 DEF Supply, Running
  <2>7. Len(sending) + Len(received) = size
    BY <1>1, <2>4, <2>5, <2>6, EmptySeq
  <2>8. QED
    BY <2>1, <2>7 DEF Supply, Running
<1>9. CASE RxClear
  <2>1. at' = "out" /\ UNCHANGED sending
    BY <1>9 DEF RxClear, At, buffers
  <2>2. QED
    BY <2>1 DEF Supply, Running
<1>10. QED
  BY <1>2, <1>3, <1>4, <1>5, <1>6, <1>7, <1>8, <1>9 DEF SetsUp, Waits

LEMMA TxMoveKeepsSupply ==
  ASSUME IInv, Supply, NEW said \in Byte, TxMove(said)
  PROVE  Supply' /\ sending # <<>> /\ Head(sending) \in 0 .. 255 /\ sending \in Seq(0 .. 255)
<1>1. /\ Moves(tx) /\ tx' = Moved(tx) /\ line' = Append(line, said) /\ sending' = Tail(sending)
      /\ UNCHANGED <<at, rx, received, size>>
  BY DEF TxMove
<1>2. /\ tx \in Stream /\ tx.count \in Nat /\ tx.count > 0 /\ line \in Seq(Byte)
      /\ received \in Seq(Byte) /\ size \in Nat /\ sending \in Seq(0 .. 255)
  <2>1. /\ tx \in Stream /\ line \in Seq(Byte) /\ received \in Seq(Byte) /\ size \in Nat
        /\ sending \in Seq(0 .. 255)
    BY DEF IInv, SpiTypeOK, LineTypeOK, Supply
  <2>2. tx.count \in Nat
    BY <2>1, SpiAssumption DEF Stream
  <2>3. tx.count > 0
    BY <1>1, Zenon DEF Moves
  <2>4. QED
    BY <2>1, <2>2, <2>3
<1>3. tx'.count = tx.count - 1
  BY <1>1, <1>2, MovedFact, Zenon
<1>4. at \in Running \cup {"start tx"} /\ (at = "start tx" => Stuck)
  BY <1>1, WhereItRuns DEF Stuck, Running
<1>5. tx.count <= Len(sending)
  BY <1>4 DEF Supply
<1>6. sending # <<>> /\ Len(sending) \in Nat /\ Len(line) \in Nat /\ Len(received) \in Nat
  BY <1>2, <1>5, EmptySeq, LenProperties
<1>7. Tail(sending) \in Seq(0 .. 255) /\ Len(Tail(sending)) = Len(sending) - 1 /\ Head(sending) \in 0 .. 255
  BY <1>2, <1>6, HeadTailProperties
<1>8. Len(line') = Len(line) + 1
  BY <1>1, <1>2, AppendProperties
<1>9. tx'.count <= Len(sending')
  BY <1>1, <1>2, <1>3, <1>5, <1>6, <1>7
<1>10. Stuck => Stuck'
  BY <1>1 DEF Stuck
<1>11. at \in Running /\ ~Stuck => Len(sending') + Len(line') + Len(received') = size'
  <2> SUFFICES ASSUME at \in Running, ~Stuck
               PROVE  Len(sending') + Len(line') + Len(received') = size'
    OBVIOUS
  <2>1. Len(sending) + Len(line) + Len(received) = size
    BY DEF Supply
  <2>2. (Len(sending) - 1) + (Len(line) + 1) + Len(received) = size
    BY <1>2, <1>6, <2>1
  <2>3. QED
    BY <1>1, <1>7, <1>8, <2>2
<1>12. Supply'
  BY <1>1, <1>4, <1>7, <1>9, <1>10, <1>11 DEF Supply, Running
<1>13. QED
  BY <1>2, <1>6, <1>7, <1>12

LEMMA OthersKeepSupply ==
  IInv /\ Supply /\ (RxMove \/ Overrun \/ TransferError \/ RxIsr \/ TxIsr) => Supply'
<1> SUFFICES ASSUME IInv, Supply, RxMove \/ Overrun \/ TransferError \/ RxIsr \/ TxIsr
             PROVE  Supply'
  OBVIOUS
<1>1. /\ rx \in Stream /\ tx \in Stream /\ line \in Seq(Byte) /\ received \in Seq(Byte)
      /\ size \in Nat /\ sending \in Seq(0 .. 255) /\ Len(sending) \in Nat
      /\ Len(line) \in Nat /\ Len(received) \in Nat
  BY LenProperties DEF IInv, SpiTypeOK, LineTypeOK, Supply
<1>2. CASE RxMove
  <2>1. /\ Moves(rx) /\ line # <<>> /\ received' = Append(received, Head(line))
        /\ line' = Tail(line) /\ UNCHANGED <<at, tx, sending, size>>
    BY <1>2 DEF RxMove
  <2>2. at \in Running /\ ~Stuck
    BY <2>1, WhereItRuns DEF Stuck, Moves, Running, IInv, SettingUp
  <2>3. Head(line) \in Byte /\ Len(line') = Len(line) - 1
    BY <1>1, <2>1, HeadTailProperties
  <2>4. Len(received') = Len(received) + 1
    BY <1>1, <2>1, <2>3, AppendProperties
  <2>5. Len(sending) + Len(line) + Len(received) = size
    BY <2>2 DEF Supply
  <2>6. Len(sending') + Len(line') + Len(received') = size'
    BY <1>1, <2>1, <2>3, <2>4, <2>5
  <2>7. QED
    BY <2>1, <2>2, <2>6 DEF Supply, Running
<1>3. CASE Overrun
  <2>1. Stuck /\ UNCHANGED <<at, rx, tx, sending, size>>
    BY <1>3, OverrunIsStuck DEF Overrun, buffers
  <2>2. Stuck'
    BY <2>1 DEF Stuck
  <2>3. QED
    BY <2>1, <2>2 DEF Supply, Running, Stuck
<1>4. CASE TransferError /\ Moves(rx) /\ rx' = Broken(rx) /\ UNCHANGED tx
  <2>1. UNCHANGED <<at, tx, sending, size>>
    BY <1>4 DEF TransferError, buffers
  <2>2. /\ ~rx'.en /\ rx'.te /\ rx'.teie = rx.teie
    BY <1>1, <1>4, BrokenFact, Zenon
  <2>3. at \in Running \cup {"start tx"} /\ rx.teie
    <3>1. Started(SetUp).teie
      BY <1>1, SetUpFact
    <3>2. Flow => rx.teie
      BY Zenon DEF Flow
    <3>3. QED
      BY <1>4, <3>1, <3>2, WhereItRuns
  <2>4. Stuck'
    BY <2>1, <2>2, <2>3 DEF Stuck, Running
  <2>5. QED
    BY <2>1, <2>3, <2>4 DEF Supply, Running
<1>5. CASE TransferError /\ Moves(tx) /\ tx' = Broken(tx) /\ UNCHANGED rx
  <2>1. UNCHANGED <<at, rx, sending, size, line, received>>
    BY <1>5 DEF TransferError, buffers
  <2>2. tx'.count = tx.count
    BY <1>1, <1>5, BrokenFact, Zenon
  <2>3. Stuck => Stuck'
    BY <2>1 DEF Stuck
  <2>4. QED
    BY <2>1, <2>2, <2>3 DEF Supply
<1>6. CASE RxIsr
  <2>1. /\ rx' = [rx EXCEPT !.tcie = FALSE, !.en = FALSE]
        /\ UNCHANGED <<at, tx, sending, size, line, received>>
    BY <1>6 DEF RxIsr, buffers
  <2>2. ~rx'.en /\ rx'.te = rx.te /\ rx'.teie = rx.teie
    BY <1>1, <2>1, AnsweredFact, Zenon
  <2>3. Stuck => Stuck'
    BY <2>1, <2>2 DEF Stuck
  <2>4. QED
    BY <2>1, <2>3 DEF Supply
<1>7. CASE TxIsr
  <2>1. tx' = Reset /\ UNCHANGED <<at, rx, sending, size, line, received>>
    BY <1>7 DEF TxIsr, buffers
  <2>2. tx'.count <= Len(sending')
    BY <1>1, <2>1, ResetFields
  <2>3. Stuck => Stuck'
    BY <2>1 DEF Stuck
  <2>4. QED
    BY <2>1, <2>2, <2>3 DEF Supply
<1>8. QED
  BY <1>2, <1>3, <1>4, <1>5, <1>6, <1>7 DEF TransferError

LEMMA NextSupply == IInv /\ Supply /\ [SpiNext]_spi => Supply'
<1> SUFFICES ASSUME IInv, Supply, [SpiNext]_spi PROVE Supply'
  OBVIOUS
<1>1. CASE (sending' \in Seq(0 .. 255) /\ Exchange(sending')) \/ SetsUp \/ Waits
  BY <1>1, ThreadKeepsSupply
<1>2. CASE \E said \in 0 .. 256 : TxMove(said)
  BY <1>2, TxMoveKeepsSupply DEF Byte
<1>3. CASE RxMove \/ Overrun \/ TransferError \/ RxIsr \/ TxIsr
  BY <1>3, OthersKeepSupply
<1>4. CASE UNCHANGED spi
  BY <1>4 DEF spi, streams, buffers, Supply, Stuck
<1>5. QED
  BY <1>1, <1>2, <1>3, <1>4 DEF SpiNext

-----------------------------------------------------------------------------
\* The theorems

\* The inductive invariant holds of every exchange, however many bytes it has
\* and wherever a transfer fails.
THEOREM ExchangeInvariance == SpiSpec => []IInv
<1>1. SpiInit => IInv
  BY InitIInv
<1>2. IInv /\ [SpiNext]_spi => IInv'
  BY NextIInv
<1>3. QED
  BY <1>1, <1>2, PTL DEF SpiSpec

\* The type invariant of the exchange.
THEOREM ExchangeTypeCorrect == SpiSpec => []SpiTypeOK
<1>1. IInv => SpiTypeOK
  BY DEF IInv
<1>2. QED
  BY <1>1, ExchangeInvariance, PTL

\* Between two exchanges nothing of the first is left, although the thread
\* never waits for the transmission (spi.c:109-122, 187-197, 226-245).
THEOREM AlwaysAtRest == SpiSpec => []AtRest
<1>1. IInv => AtRest
  BY DEF IInv, SettingUp, Over, Quiet, Fresh, AtRest
<1>2. QED
  BY <1>1, ExchangeInvariance, PTL

\* An exchange that returns has all the bytes its count could name
\* (spi.c:109-122, 208).
THEOREM ExchangesAreWhole == SpiSpec => []WholeExchange
<1>1. IInv => WholeExchange
  BY DEF IInv, Over, Wanted, WholeExchange
<1>2. QED
  BY <1>1, ExchangeInvariance, PTL

-----------------------------------------------------------------------------
\* The scripts

Octet == 0 .. 255

\* What a step of a script does to what the chip has got: an exchange goes on
\* from it, and its first byte is not the command that reads the status.
StepOK(x, before, after) ==
  /\ x.op \in {"select", "deselect", "xfer", "exchange"}
  /\ before \in Seq(Octet)
  /\ x.op \in {"select", "deselect"} => after = <<>>
  /\ x.op = "xfer" => x.byte \in Octet /\ after = Append(before, x.byte)
  /\ x.op = "exchange" =>
       /\ x.bytes \in Seq(Octet) /\ Len(x.bytes) <= CountSpace
       /\ after = before \o x.bytes
       /\ after = <<>> \/ after[1] # RDSR

LEMMA Sizes ==
  /\ Pages \in Nat \ {0} /\ Block \in Nat \ {0} /\ Pages * Block \in Nat \ {0}
  /\ CountSpace \in Nat /\ Block < CountSpace /\ 5 < CountSpace
<1>1. Pages \in Nat \ {0} /\ Block \in Nat \ {0}
      /\ Block < CountSpace /\ 5 < CountSpace /\ CountSpace \in Nat
  BY ChipAssumption, SpiAssumption
<1>2. ASSUME NEW m \in Nat \ {0}, NEW n \in Nat \ {0} PROVE m * n \in Nat \ {0}
  OBVIOUS
<1>3. Pages * Block \in Nat \ {0}
  BY <1>1, <1>2
<1>4. QED
  BY <1>1, <1>3

LEMMA InChip == Pages \in Nat \ {0} /\ Block \in Nat \ {0} /\ CountSpace \in Nat /\ Block < CountSpace
BY Sizes

LEMMA OctetFacts ==
  /\ RESUME \in Octet /\ RDDEVID \in Octet /\ RDSR \in Octet /\ RDARRAYHF \in Octet
  /\ PGERASE \in Octet /\ MNTHRUBF1 \in Octet /\ 255 \in Octet /\ 0 \in Octet /\ Octet \subseteq Nat
  /\ RESUME # RDSR /\ RDDEVID # RDSR /\ RDARRAYHF # RDSR /\ PGERASE # RDSR /\ MNTHRUBF1 # RDSR
  /\ PGSIZE \in Seq(Octet) /\ Len(PGSIZE) = 4 /\ PGSIZE[1] # RDSR
  /\ CHIPERASE \in Seq(Octet) /\ Len(CHIPERASE) = 4 /\ CHIPERASE[1] # RDSR
BY DEF RESUME, RDDEVID, RDSR, RDARRAYHF, PGERASE, MNTHRUBF1, Octet, PGSIZE, CHIPERASE

\* What the driver begins its longer commands with; none of them asks for the status.
LEMMA CodeFacts ==
  /\ RDARRAYHF \in Octet /\ PGERASE \in Octet /\ MNTHRUBF1 \in Octet
  /\ RDARRAYHF # RDSR /\ PGERASE # RDSR /\ MNTHRUBF1 # RDSR
BY OctetFacts, Zenon

LEMMA DivModFact ==
  ASSUME NEW d \in Nat \ {0}, NEW x \in Nat
  PROVE  /\ x \div d \in Nat /\ x % d \in 0 .. d - 1
         /\ x = (x \div d) * d + (x % d)
OBVIOUS

\* The bytes of an address make it up again.
LEMMA BytesOfAddress ==
  ASSUME NEW b \in Nat \ {0}, NEW off \in Nat, off < b * b * b
  PROVE  /\ (off \div (b * b)) % b = off \div (b * b)
         /\ ((off \div (b * b)) * b + ((off \div b) % b)) * b + (off % b) = off
<1> DEFINE q == off \div b
           r == off % b
           h == q \div b
           m == q % b
<1>1. q \in Nat /\ r \in 0 .. b - 1 /\ off = q * b + r
  BY DivModFact
<1>2. h \in Nat /\ m \in 0 .. b - 1 /\ q = h * b + m
  BY <1>1, DivModFact
<1> HIDE DEF q, r, h, m
<1> DEFINE s == b * b
           t == m * b + r
<1>3. s \in Nat \ {0} /\ t \in 0 .. s - 1 /\ off = h * s + t
  <2>1. m * b <= (b - 1) * b
    BY <1>2
  <2>2. (b - 1) * b = b * b - b /\ b * b \in Nat \ {0} /\ m * b \in Nat
    BY <1>2
  <2>3. off = h * (b * b) + (m * b + r)
    BY <1>1, <1>2
  <2>4. QED
    BY <1>1, <2>1, <2>2, <2>3
<1>4. h < b
  <2>1. SUFFICES ASSUME h >= b PROVE FALSE
    BY <1>2
  <2>2. h * s >= b * s
    BY <1>2, <1>3, <2>1
  <2>3. b * s = b * b * b
    OBVIOUS
  <2> HIDE DEF t
  <2>4. h * s \in Nat
    BY <1>2, <1>3
  <2>5. QED
    BY <1>3, <2>2, <2>3, <2>4
<1> HIDE DEF s, t
<1>5. off \div s = h
  BY <1>2, <1>3
<1>6. h % b = h
  BY <1>2, <1>4
<1>7. (off \div s) % b = off \div s /\ ((off \div s) * b + m) * b + r = off
  BY <1>1, <1>2, <1>5, <1>6, Zenon
<1>8. QED
  BY <1>7, Zenon DEF q, r, m, s

\* The bytes an address is taken apart into.
LEMMA OffsetFact ==
  ASSUME NEW off \in Nat, off < ByteSpace * ByteSpace * ByteSpace
  PROVE  /\ High(off) \in Octet /\ Middle(off) \in Octet /\ Low(off) \in Octet
         /\ (High(off) * ByteSpace + Middle(off)) * ByteSpace + Low(off) = off
<1>1. ByteSpace \in Nat \ {0} /\ 0 .. ByteSpace - 1 = Octet
  BY DEF ByteSpace, Octet
<1>2. /\ (off \div (ByteSpace * ByteSpace)) % ByteSpace = off \div (ByteSpace * ByteSpace)
      /\ ((off \div (ByteSpace * ByteSpace)) * ByteSpace + ((off \div ByteSpace) % ByteSpace)) * ByteSpace
           + (off % ByteSpace) = off
  BY <1>1, BytesOfAddress
<1>3. off \div ByteSpace \in Nat /\ off \div (ByteSpace * ByteSpace) \in Nat
  <2>1. ByteSpace * ByteSpace \in Nat \ {0}
    BY <1>1
  <2>2. QED
    BY <1>1, <2>1, DivModFact
<1>4. High(off) \in Octet /\ Middle(off) \in Octet /\ Low(off) \in Octet
  BY <1>1, <1>3, DivModFact, Zenon DEF High, Middle, Low
<1>5. QED
  BY <1>2, <1>4, Zenon DEF High, Middle, Low

\* A function on 1 .. n is a sequence.
LEMMA FunctionIsSeq ==
  ASSUME NEW S, NEW n \in Nat, NEW f \in [1 .. n -> S]
  PROVE  f \in Seq(S) /\ Len(f) = n
<1>1. f \in Seq(S)
  BY SeqDef
<1>2. DOMAIN f = 1 .. n /\ DOMAIN f = 1 .. Len(f) /\ Len(f) \in Nat
  BY <1>1, LenProperties
<1>3. QED
  BY <1>1, <1>2

LEMMA FillFact ==
  ASSUME NEW n \in Nat
  PROVE  /\ [k \in 1 .. n |-> 255] \in Seq(Octet) /\ Len([k \in 1 .. n |-> 255]) = n
         /\ \A i \in 1 .. n : [k \in 1 .. n |-> 255][i] = 255
<1>1. [k \in 1 .. n |-> 255] \in [1 .. n -> Octet]
  BY OctetFacts
<1>2. QED
  BY <1>1, FunctionIsSeq

LEMMA ContentFact ==
  ASSUME NEW content \in Page
  PROVE  content \in Seq(Octet) /\ Len(content) = Block
<1>1. content \in [1 .. Block -> Octet]
  BY DEF Page, Octet, Blank
<1>2. QED
  BY <1>1, Sizes, FunctionIsSeq

LEMMA SelectOK ==
  ASSUME NEW before \in Seq(Octet)
  PROVE  StepOK(Select, before, <<>>) /\ StepOK(Deselect, before, <<>>)
BY DEF StepOK, Select, Deselect

LEMMA XferOK ==
  ASSUME NEW before \in Seq(Octet), NEW byte \in Octet, NEW after, after = Append(before, byte)
  PROVE  StepOK(Xfer(byte), before, after)
BY DEF StepOK, Xfer

LEMMA FirstOfConcat ==
  ASSUME NEW S, NEW s \in Seq(S), NEW t \in Seq(S), Len(s) > 0
  PROVE  (s \o t)[1] = s[1]
<1>1. Len(s) \in Nat /\ Len(t) \in Nat
  BY LenProperties
<1>2. 1 \in 1 .. Len(s) + Len(t) /\ 1 <= Len(s)
  BY <1>1
<1>3. QED
  BY <1>2, ConcatProperties

\* An exchange that begins a command, and one that goes on with it.
LEMMA SendOK ==
  ASSUME NEW bytes \in Seq(Octet), Len(bytes) <= CountSpace, bytes = <<>> \/ bytes[1] # RDSR
  PROVE  StepOK(Send(bytes), <<>>, bytes)
<1>1. <<>> \in Seq(Octet) /\ bytes = <<>> \o bytes
  BY EmptySeq, ConcatEmptySeq
<1>2. QED
  BY <1>1 DEF StepOK, Send

LEMMA GoOnOK ==
  ASSUME NEW before \in Seq(Octet), Len(before) > 0, before[1] # RDSR,
         NEW x, x.op = "exchange", x.bytes \in Seq(Octet), Len(x.bytes) <= CountSpace,
         NEW after, after = before \o x.bytes
  PROVE  StepOK(x, before, after)
<1>1. after[1] = before[1]
  BY FirstOfConcat
<1>2. QED
  BY <1>1 DEF StepOK

\* The address of a page is one of the chip.
LEMMA AddressFact ==
  ASSUME NEW pg \in 0 .. Pages - 1
  PROVE  pg * Block \in 0 .. Pages * Block - 1 /\ (pg * Block) \div Block = pg
<1>1. Pages \in Nat /\ Block \in Nat \ {0}
  BY InChip
<1>2. ASSUME NEW n \in Nat, NEW b \in Nat \ {0}, NEW i \in 0 .. n - 1
      PROVE  i * b \in 0 .. n * b - 1
  <2>1. i * b <= (n - 1) * b
    BY <1>2
  <2>2. (n - 1) * b = n * b - b
    BY <1>2
  <2>3. i * b \in Nat
    BY <1>2
  <2>4. QED
    BY <2>1, <2>2, <2>3
<1>3. pg * Block \in 0 .. Pages * Block - 1
  BY <1>1, <1>2
<1>4. ASSUME NEW b \in Nat \ {0}, NEW i \in Nat PROVE (i * b) \div b = i
  BY <1>4
<1>5. QED
  BY <1>1, <1>3, <1>4

\* What an address of the chip is sent as.
LEMMA InAddresses ==
  ASSUME NEW off \in 0 .. Pages * Block - 1
  PROVE  /\ High(off) \in Octet /\ Middle(off) \in Octet /\ Low(off) \in Octet
         /\ (High(off) * ByteSpace + Middle(off)) * ByteSpace + Low(off) = off
<1>1. Pages * Block \in Nat /\ Pages * Block <= ByteSpace * ByteSpace * ByteSpace
  BY ChipAssumption, Sizes
<1>2. ByteSpace * ByteSpace * ByteSpace \in Nat
  <2>1. ByteSpace \in Nat
    BY DEF ByteSpace
  <2>2. QED
    BY <2>1
<1>3. off \in Nat /\ off < ByteSpace * ByteSpace * ByteSpace
  BY <1>1, <1>2
<1>4. QED
  BY <1>3, OffsetFact

\* The address that bytes name.
Names(bytes, off) == (bytes[2] * ByteSpace + bytes[3]) * ByteSpace + bytes[4] = off

LEMMA AtPageFact ==
  ASSUME NEW code \in Octet, NEW pg \in 0 .. Pages - 1
  PROVE  /\ AtPage(code, pg) \in Seq(Octet) /\ Len(AtPage(code, pg)) = 4
         /\ AtPage(code, pg)[1] = code /\ Names(AtPage(code, pg), pg * Block)
         /\ Len(AtPage(code, pg)) <= CountSpace
<1> DEFINE off == pg * Block
<1>1. off \in 0 .. Pages * Block - 1
  BY AddressFact
<1>2. /\ High(off) \in Octet /\ Middle(off) \in Octet /\ Low(off) \in Octet
      /\ (High(off) * ByteSpace + Middle(off)) * ByteSpace + Low(off) = off
  BY <1>1, InAddresses
<1> DEFINE b == <<code, High(off), Middle(off), Low(off)>>
<1>3. b \in Seq(Octet) /\ Len(b) = 4 /\ Len(b) <= CountSpace
  BY <1>2, Sizes
<1>4. b[1] = code /\ b[2] = High(off) /\ b[3] = Middle(off) /\ b[4] = Low(off)
  OBVIOUS
<1>5. AtPage(code, pg) = b
  BY DEF AtPage
<1> HIDE DEF b
<1>6. Names(b, off)
  BY <1>2, <1>4 DEF Names
<1>7. QED
  BY <1>3, <1>4, <1>5, <1>6, Zenon

LEMMA AtByteFact ==
  ASSUME NEW code \in Octet, NEW off \in 0 .. Pages * Block - 1
  PROVE  /\ AtByte(code, off) \in Seq(Octet) /\ Len(AtByte(code, off)) = 5
         /\ AtByte(code, off)[1] = code /\ Names(AtByte(code, off), off)
         /\ Len(AtByte(code, off)) <= CountSpace
<1>2. /\ High(off) \in Octet /\ Middle(off) \in Octet /\ Low(off) \in Octet
      /\ (High(off) * ByteSpace + Middle(off)) * ByteSpace + Low(off) = off
  BY InAddresses
<1> DEFINE b == <<code, High(off), Middle(off), Low(off), 0>>
<1>3. b \in Seq(Octet) /\ Len(b) = 5 /\ Len(b) <= CountSpace
  BY <1>2, Sizes, OctetFacts
<1>4. b[1] = code /\ b[2] = High(off) /\ b[3] = Middle(off) /\ b[4] = Low(off)
  OBVIOUS
<1>5. AtByte(code, off) = b
  BY DEF AtByte
<1> HIDE DEF b
<1>6. Names(b, off)
  BY <1>2, <1>4 DEF Names
<1>7. QED
  BY <1>3, <1>4, <1>5, <1>6, Zenon

\* What the chip has got before each step of a script, and behind the last.
Heard(p, c, pg) ==
  CASE p = "identify" -> << <<>>, <<>>, <<>>, <<RESUME>>, <<>>, <<>>, <<RDDEVID>>,
                            <<RDDEVID, 255, 255, 255>>, <<>> >>
    [] p = "bsy" -> << <<>>, <<>>, <<RDSR>>, <<RDSR, 255>>, <<>> >>
    [] p = "reprogram" -> << <<>>, <<>>, PGSIZE, <<>> >>
    [] p = "read" -> << <<>>, <<>>, AtByte(RDARRAYHF, c.off),
                        AtByte(RDARRAYHF, c.off) \o [k \in 1 .. c.n |-> 255], <<>> >>
    [] p = "chip erase" -> << <<>>, <<>>, CHIPERASE, <<>> >>
    [] p = "page erase" -> << <<>>, <<>>, AtPage(PGERASE, pg), <<>> >>
    [] p = "page write" -> << <<>>, <<>>, AtPage(MNTHRUBF1, pg),
                              AtPage(MNTHRUBF1, pg) \o c.content, <<>> >>
    [] OTHER -> << <<>> >>

HeardNow == Heard(part, call, page)

\* A script with what it makes the chip hear.
ScriptOK(s, h) ==
  /\ Len(s) \in Nat /\ DOMAIN s = 1 .. Len(s)
  /\ h[1] = <<>> /\ h[Len(s) + 1] = <<>>
  /\ \A k \in 1 .. Len(s) : StepOK(s[k], h[k], h[k + 1])

LEMMA SelectsFirst ==
  <<>> \in Seq(Octet) /\ StepOK(Select, <<>>, <<>>) /\ StepOK(Deselect, <<>>, <<>>)
BY SelectOK, EmptySeq

LEMMA OneByte ==
  ASSUME NEW byte \in Octet
  PROVE  /\ <<byte>> \in Seq(Octet) /\ <<byte>> = Append(<<>>, byte)
         /\ StepOK(Xfer(byte), <<>>, <<byte>>) /\ StepOK(Deselect, <<byte>>, <<>>)
<1>1. <<byte>> \in Seq(Octet) /\ <<byte>> = Append(<<>>, byte)
  OBVIOUS
<1>2. QED
  BY <1>1, SelectsFirst, XferOK, SelectOK

\* A script of three steps and one of four: a command by itself, and with data.
LEMMA CommandScript ==
  ASSUME NEW bytes \in Seq(Octet), Len(bytes) <= CountSpace, bytes = <<>> \/ bytes[1] # RDSR
  PROVE  ScriptOK(<<Select, Send(bytes), Deselect>>, << <<>>, <<>>, bytes, <<>> >>)
<1>1. StepOK(Select, <<>>, <<>>) /\ StepOK(Send(bytes), <<>>, bytes) /\ StepOK(Deselect, bytes, <<>>)
  BY SelectsFirst, SendOK, SelectOK
<1>2. QED
  BY <1>1 DEF ScriptOK

LEMMA DataScript ==
  ASSUME NEW bytes \in Seq(Octet), Len(bytes) <= CountSpace, Len(bytes) > 0, bytes[1] # RDSR,
         NEW x, x.op = "exchange", x.bytes \in Seq(Octet), Len(x.bytes) <= CountSpace
  PROVE  ScriptOK(<<Select, Send(bytes), x, Deselect>>,
                  << <<>>, <<>>, bytes, bytes \o x.bytes, <<>> >>)
<1>1. StepOK(Select, <<>>, <<>>) /\ StepOK(Send(bytes), <<>>, bytes)
  BY SelectsFirst, SendOK
<1>2. bytes \o x.bytes \in Seq(Octet)
  BY ConcatProperties
<1>3. StepOK(x, bytes, bytes \o x.bytes) /\ StepOK(Deselect, bytes \o x.bytes, <<>>)
  BY <1>2, GoOnOK, SelectOK
<1> DEFINE all == bytes \o x.bytes
<1> HIDE DEF all
<1>4. StepOK(x, bytes, all) /\ StepOK(Deselect, all, <<>>)
  BY <1>3 DEF all
<1>5. ScriptOK(<<Select, Send(bytes), x, Deselect>>, << <<>>, <<>>, bytes, all, <<>> >>)
  BY <1>1, <1>4 DEF ScriptOK
<1>6. QED
  BY <1>5 DEF all

LEMMA RdsrScript == ScriptOK(Rdsr, << <<>>, <<>>, <<RDSR>>, <<RDSR, 255>>, <<>> >>)
<1>1. StepOK(Select, <<>>, <<>>) /\ StepOK(Xfer(RDSR), <<>>, <<RDSR>>) /\ <<RDSR>> \in Seq(Octet)
  BY SelectsFirst, OneByte, OctetFacts
<1>2. <<RDSR, 255>> = Append(<<RDSR>>, 255) /\ <<RDSR, 255>> \in Seq(Octet)
  BY OctetFacts
<1>3. StepOK(Xfer(255), <<RDSR>>, <<RDSR, 255>>) /\ StepOK(Deselect, <<RDSR, 255>>, <<>>)
  BY <1>1, <1>2, XferOK, SelectOK, OctetFacts
<1>4. QED
  BY <1>1, <1>3 DEF ScriptOK, Rdsr

LEMMA IdentifyScript ==
  ScriptOK(Identify, << <<>>, <<>>, <<>>, <<RESUME>>, <<>>, <<>>, <<RDDEVID>>,
                        <<RDDEVID, 255, 255, 255>>, <<>> >>)
<1>1. /\ StepOK(Deselect, <<>>, <<>>) /\ StepOK(Select, <<>>, <<>>)
      /\ StepOK(Xfer(RESUME), <<>>, <<RESUME>>) /\ StepOK(Deselect, <<RESUME>>, <<>>)
      /\ StepOK(Xfer(RDDEVID), <<>>, <<RDDEVID>>) /\ <<RDDEVID>> \in Seq(Octet)
  BY SelectsFirst, OneByte, OctetFacts
<1>2. /\ Receive(3).op = "exchange" /\ Receive(3).bytes = [k \in 1 .. 3 |-> 255]
      /\ Receive(3).bytes \in Seq(Octet) /\ Len(Receive(3).bytes) <= CountSpace
  BY FillFact, Sizes DEF Receive
<1>3. <<RDDEVID, 255, 255, 255>> \in Seq(Octet)
  BY OctetFacts
<1>4. <<RDDEVID, 255, 255, 255>> = <<RDDEVID>> \o Receive(3).bytes
  <2> DEFINE a == <<RDDEVID>>
             b == Receive(3).bytes
             s == a \o b
             t == <<RDDEVID, 255, 255, 255>>
  <2>1. Len(a) = 1 /\ Len(b) = 3
    BY <1>2, FillFact
  <2> HIDE DEF a, b
  <2>2. /\ s \in Seq(Octet) /\ Len(s) = 4
        /\ \A i \in 1 .. 4 : s[i] = IF i <= 1 THEN a[i] ELSE b[i - 1]
    <3>1. a \in Seq(Octet) /\ b \in Seq(Octet)
      BY <1>1, <1>2 DEF a, b
    <3>2. /\ s \in Seq(Octet) /\ Len(s) = Len(a) + Len(b)
          /\ \A i \in 1 .. Len(a) + Len(b) : s[i] = IF i <= Len(a) THEN a[i] ELSE b[i - Len(a)]
      BY <3>1, ConcatProperties
    <3> HIDE DEF s
    <3>3. QED
      BY <2>1, <3>2
  <2>3. Len(t) = 4 /\ t[1] = RDDEVID /\ t[2] = 255 /\ t[3] = 255 /\ t[4] = 255
    OBVIOUS
  <2>4. b[1] = 255 /\ b[2] = 255 /\ b[3] = 255 /\ a[1] = RDDEVID
    BY <1>2, FillFact DEF a, b
  <2> HIDE DEF s, t
  <2>5. \A i \in 1 .. 4 : s[i] = t[i]
    <3>1. s[1] = t[1] /\ s[2] = t[2] /\ s[3] = t[3] /\ s[4] = t[4]
      BY <2>2, <2>3, <2>4
    <3>2. QED
      BY <3>1
  <2>6. QED
    BY <1>3, <2>2, <2>3, <2>5, SeqEqual DEF s, t, a, b
<1>5. <<RDDEVID>>[1] # RDSR /\ Len(<<RDDEVID>>) > 0
  BY OctetFacts
<1>6. /\ StepOK(Receive(3), <<RDDEVID>>, <<RDDEVID, 255, 255, 255>>)
      /\ StepOK(Deselect, <<RDDEVID, 255, 255, 255>>, <<>>)
  BY <1>1, <1>2, <1>3, <1>4, <1>5, GoOnOK, SelectOK
<1>7. QED
  BY <1>1, <1>6 DEF ScriptOK, Identify

LEMMA FourBytes ==
  /\ PGSIZE \in Seq(Octet) /\ Len(PGSIZE) <= CountSpace /\ PGSIZE[1] # RDSR
  /\ CHIPERASE \in Seq(Octet) /\ Len(CHIPERASE) <= CountSpace /\ CHIPERASE[1] # RDSR
BY OctetFacts, Sizes

LEMMA NoScript == ScriptOK(<<>>, << <<>> >>)
<1>1. Len(<<>>) = 0
  OBVIOUS
<1>2. DOMAIN <<>> = 1 .. 0
  OBVIOUS
<1>3. << <<>> >>[1] = <<>>
  OBVIOUS
<1>4. 0 \in Nat /\ 0 + 1 = 1 /\ (\A k \in 1 .. 0 : FALSE)
  OBVIOUS
<1>5. QED
  BY <1>1, <1>2, <1>3, <1>4, Zenon DEF ScriptOK

\* What a part is run for.
RunsFor(p, c, pg) ==
  /\ p = "read" => Reads(c)
  /\ p = "page write" => Writes(c)
  /\ p \in {"page erase", "page write"} => pg \in 0 .. Pages - 1

\* Every part has a script the chip can follow.
LEMMA ScriptFact ==
  ASSUME NEW p \in Parts, NEW c, NEW pg, RunsFor(p, c, pg)
  PROVE  ScriptOK(ScriptOf(p, c, pg), Heard(p, c, pg))
<1>1. CASE p = "identify"
  BY <1>1, IdentifyScript DEF ScriptOf, Heard
<1>2. CASE p = "bsy"
  BY <1>2, RdsrScript DEF ScriptOf, Heard
<1>3. CASE p = "reprogram"
  <2>1. ScriptOf(p, c, pg) = <<Select, Send(PGSIZE), Deselect>> /\ Heard(p, c, pg) = << <<>>, <<>>, PGSIZE, <<>> >>
    BY <1>3 DEF ScriptOf, Heard, Reprogram
  <2>2. QED
    BY <2>1, CommandScript, FourBytes, Zenon
<1>4. CASE p = "chip erase"
  <2>1. ScriptOf(p, c, pg) = <<Select, Send(CHIPERASE), Deselect>> /\ Heard(p, c, pg) = << <<>>, <<>>, CHIPERASE, <<>> >>
    BY <1>4 DEF ScriptOf, Heard, ChipErase
  <2>2. QED
    BY <2>1, CommandScript, FourBytes, Zenon
<1>5. CASE p = "page erase"
  <2> DEFINE b == AtPage(PGERASE, pg)
  <2>1. ScriptOf(p, c, pg) = <<Select, Send(b), Deselect>> /\ Heard(p, c, pg) = << <<>>, <<>>, b, <<>> >>
    BY <1>5 DEF ScriptOf, Heard, PageErase
  <2>2. pg \in 0 .. Pages - 1
    BY <1>5, Zenon DEF RunsFor
  <2>3. b \in Seq(Octet) /\ Len(b) <= CountSpace /\ b[1] # RDSR
    <3>1. PGERASE \in Octet /\ PGERASE # RDSR
      BY CodeFacts, Zenon
    <3>2. b \in Seq(Octet) /\ Len(b) <= CountSpace /\ b[1] = PGERASE
      BY <2>2, <3>1, AtPageFact, Zenon
    <3> HIDE DEF b
    <3>3. QED
      BY <3>1, <3>2, Zenon
  <2> HIDE DEF b
  <2>4. QED
    BY <2>1, <2>3, CommandScript, Zenon
<1>6. CASE p = "page write"
  <2> DEFINE b == AtPage(MNTHRUBF1, pg)
  <2>1. /\ ScriptOf(p, c, pg) = <<Select, Send(b), Send(c.content), Deselect>>
        /\ Heard(p, c, pg) = << <<>>, <<>>, b, b \o c.content, <<>> >>
    BY <1>6 DEF ScriptOf, Heard, PageWrite
  <2>2. pg \in 0 .. Pages - 1
    BY <1>6, Zenon DEF RunsFor
  <2>3. b \in Seq(Octet) /\ Len(b) <= CountSpace /\ Len(b) > 0 /\ b[1] # RDSR
    <3>1. MNTHRUBF1 \in Octet /\ MNTHRUBF1 # RDSR
      BY CodeFacts, Zenon
    <3>2. b \in Seq(Octet) /\ Len(b) <= CountSpace /\ Len(b) = 4 /\ b[1] = MNTHRUBF1
      BY <2>2, <3>1, AtPageFact, Zenon
    <3> HIDE DEF b
    <3>3. QED
      BY <3>1, <3>2
  <2>4. c.content \in Seq(Octet) /\ Len(c.content) <= CountSpace
    <3>1. c.content \in Page
      <4>1. Writes(c)
        BY <1>6, Zenon DEF RunsFor
      <4>2. QED
        BY <4>1 DEF Writes
    <3>2. QED
      BY <3>1, ContentFact, InChip
  <2>5. Send(c.content).op = "exchange" /\ Send(c.content).bytes = c.content
    BY DEF Send
  <2> HIDE DEF b
  <2>6. QED
    BY <2>1, <2>3, <2>4, <2>5, DataScript, Zenon
<1>7. CASE p = "read"
  <2> DEFINE b == AtByte(RDARRAYHF, c.off)
  <2>1. /\ ScriptOf(p, c, pg) = <<Select, Send(b), Receive(c.n), Deselect>>
        /\ Heard(p, c, pg) = << <<>>, <<>>, b, b \o [k \in 1 .. c.n |-> 255], <<>> >>
    BY <1>7 DEF ScriptOf, Heard, Read
  <2>2. c.off \in 0 .. Pages * Block - 1 /\ c.n \in Nat /\ c.n <= CountSpace
    BY <1>7, Sizes DEF Reads, RunsFor
  <2>3. b \in Seq(Octet) /\ Len(b) <= CountSpace /\ Len(b) > 0 /\ b[1] # RDSR
    <3>1. b \in Seq(Octet) /\ Len(b) <= CountSpace /\ Len(b) = 5 /\ b[1] # RDSR
      BY <2>2, AtByteFact, CodeFacts, Zenon
    <3> HIDE DEF b
    <3>2. QED
      BY <3>1
  <2>4. Receive(c.n).op = "exchange" /\ Receive(c.n).bytes = [k \in 1 .. c.n |-> 255]
    BY DEF Receive
  <2>5. Receive(c.n).bytes \in Seq(Octet) /\ Len(Receive(c.n).bytes) <= CountSpace
    <3> DEFINE fill == [k \in 1 .. c.n |-> 255]
    <3>1. fill \in Seq(Octet) /\ Len(fill) = c.n
      BY <2>2, FillFact
    <3> HIDE DEF fill
    <3>2. Receive(c.n).bytes = fill
      BY <2>4 DEF fill
    <3>3. QED
      BY <2>2, <3>1, <3>2
  <2>6. Heard(p, c, pg) = << <<>>, <<>>, b, b \o Receive(c.n).bytes, <<>> >>
    BY <2>1, <2>4, Zenon
  <2> HIDE DEF b
  <2>7. ScriptOK(<<Select, Send(b), Receive(c.n), Deselect>>,
                 << <<>>, <<>>, b, b \o Receive(c.n).bytes, <<>> >>)
    <3> DEFINE x == Receive(c.n)
    <3>1. x.op = "exchange" /\ x.bytes \in Seq(Octet) /\ Len(x.bytes) <= CountSpace
      BY <2>4, <2>5
    <3> HIDE DEF x
    <3>2. ScriptOK(<<Select, Send(b), x, Deselect>>, << <<>>, <<>>, b, b \o x.bytes, <<>> >>)
      BY <2>3, <3>1, DataScript
    <3>3. QED
      BY <3>2 DEF x
  <2>8. QED
    BY <2>1, <2>6, <2>7, Zenon
<1>8. CASE p \in {"none", "rounds"}
  <2>1. ScriptOf(p, c, pg) = <<>> /\ Heard(p, c, pg) = << <<>> >>
    BY <1>8 DEF ScriptOf, Heard
  <2>2. QED
    BY <2>1, NoScript, Zenon
<1>9. QED
  BY <1>1, <1>2, <1>3, <1>4, <1>5, <1>6, <1>7, <1>8 DEF Parts, Commands

-----------------------------------------------------------------------------
\* The inductive invariant of the driver

Asked(c) == c = [fn |-> "start"] \/ Reads(c) \/ Erases(c) \/ Writes(c)

\* The page the loop is at is in hand: begun and not done.
InHand(p) == IF p \in {"bsy", "page erase", "page write"} THEN 1 ELSE 0

\* Which part runs for which call, and where the loop over the pages is.
CourseOf(p, c, pg, l, r) ==
  /\ p \in Parts /\ Asked(c)
  /\ p \in {"identify", "reprogram"} => c.fn = "start"
  /\ p = "read" <=> p # "none" /\ c.fn = "read"
  /\ p = "chip erase" => c.fn = "erase" /\ c.whole
  /\ p = "page erase" => c.fn = "erase" /\ ~c.whole
  /\ p = "page write" => c.fn = "write"
  /\ p = "rounds" => Looped(c)
  /\ pg \in Nat /\ l \in Nat
  /\ Looped(c) =>
       /\ pg >= c.page
       /\ pg + l + InHand(p) = c.page + c.n
  /\ ~Looped(c) => pg = 0 /\ l = 0
  /\ p # "none" /\ c.fn # "start" => r # -1

Course == CourseOf(part, call, page, left, ret)

Control == Course /\ step \in 1 .. Len(Script) + 1

\* What the chip has got, and is yet to get from the exchange in progress.
OnBus ==
  /\ got \in Seq(Octet)
  /\ at = "out" => got = HeardNow[step]
  /\ at # "out" =>
       /\ step \in DOMAIN Script /\ Script[step].op = "exchange"
       /\ got \o sending = HeardNow[step] \o Script[step].bytes
       /\ Len(HeardNow[step]) <= Len(got)
       /\ size = Len(Script[step].bytes)
  /\ part # "identify" \/ step = 9 => (selected <=> step \in 2 .. Len(Script))

\* A command of this call has been begun, or is waited for.
Waiting == part = "bsy" \/ (part \in Commands /\ step = Len(Script) + 1)

AsAsked ==
  IF Looped(call) THEN [mem EXCEPT ![page] = call.content] ELSE [p \in 0 .. Pages - 1 |-> Erased]

\* What is under way in the chip has been begun by this call, which waits for it,
\* or is the reprogramming of the page size.
Ours ==
  /\ Waiting /\ call.fn \in {"erase", "write"}
  /\ job.binary = binary /\ job.mem = AsAsked
Reprogramming == job.mem = mem /\ job.binary /\ ~binary

Mem == [0 .. Pages - 1 -> Page]

ChipOK ==
  /\ mem \in Mem /\ binary \in BOOLEAN /\ fitted \in BOOLEAN
  /\ selected \in BOOLEAN /\ sure \in BOOLEAN
  /\ Busy => job \in [mem : Mem, binary : BOOLEAN] /\ (Ours \/ Reprogramming)

\* The driver knows the chip, and its pages have a power of two of bytes or will.
Known == fitted /\ (binary \/ (Busy /\ job.binary))

Status ==
  /\ part = "bsy" /\ step \in {4, 5} =>
       /\ status[1] \in BOOLEAN /\ status[2] \in BOOLEAN
       /\ status[1] => ~Busy /\ status[2] = binary
  /\ part = "reprogram" => (IF step = 4 THEN Known ELSE ~Busy /\ ~binary)
  /\ call.fn = "start" /\ part \in {"bsy", "reprogram"} => fitted
  /\ ret # -1 => Known

\* A chip the driver does not know gives another identification.
Identified ==
  part = "identify" /\ ~fitted =>
    /\ at # "out" /\ step = 7 => received \in Seq({Noise}) /\ line \in Seq({Noise})
    /\ step \in {8, 9} => answer # DevId

ByteAt(n) == mem[n \div Block][1 + (n % Block)]

ReadBytes(n) == [k \in 1 .. n |-> ByteAt(call.off + k - 1)]

\* What has come back of a read.
Fetched ==
  sure /\ part = "read" =>
    /\ ~Busy
    /\ at # "out" /\ step = 3 /\ ~Stuck => received \o line = ReadBytes(Len(got) - 5)
    /\ step \in {4, 5} => answer = ReadBytes(call.n)

\* What has become of the pages.
Progress ==
  sure /\ call.fn \in {"erase", "write"} =>
    /\ part \in Commands \cup {"rounds"} /\ ~Waiting => ~Busy
    /\ Waiting => (Busy /\ Ours) \/ mem = AsAsked
    /\ Looped(call) => \A p \in call.page .. page - 1 : mem[p] = call.content

DriverInv ==
  /\ Control /\ OnBus /\ ChipOK /\ Status /\ Identified /\ Fetched /\ Progress

-----------------------------------------------------------------------------
\* Where the driver is

LEMMA AskedFact ==
  ASSUME NEW c, Asked(c)
  PROVE  /\ c.fn \in {"start", "read", "erase", "write"}
         /\ c.fn = "read" => Reads(c)
         /\ c.fn = "erase" => Erases(c)
         /\ c.fn = "write" => Writes(c)
<1>1. CASE c = [fn |-> "start"]
  BY <1>1
<1>2. CASE Reads(c)
  <2>1. c.fn = "read"
    BY <1>2 DEF Reads
  <2>2. QED
    BY <1>2, <2>1
<1>3. CASE Erases(c)
  <2>1. c.fn = "erase"
    BY <1>3 DEF Erases
  <2>2. QED
    BY <1>3, <2>1
<1>4. CASE Writes(c)
  <2>1. c.fn = "write"
    BY <1>4 DEF Writes
  <2>2. QED
    BY <1>4, <2>1
<1>5. QED
  BY <1>1, <1>2, <1>3, <1>4 DEF Asked

\* What a call of the loop over the pages names.
LEMMA LoopedFact ==
  ASSUME NEW c, Asked(c), c.fn \in {"erase", "write"}
  PROVE  /\ c.page \in Nat /\ c.n \in Nat /\ c.page + c.n <= Pages /\ c.content \in Page
         /\ c.fn = "erase" => c.whole \in BOOLEAN /\ c.content = Erased
<1>1. CASE c.fn = "erase"
  <2>1. Erases(c)
    BY <1>1, AskedFact
  <2>2. c.page \in Nat /\ c.n \in Nat /\ c.page + c.n <= Pages
    BY <2>1 DEF Erases
  <2>3. c.whole \in BOOLEAN /\ c.content = Erased
    BY <2>1 DEF Erases
  <2>4. Erased \in Page
    BY DEF Erased, Page, Blank
  <2>5. QED
    BY <2>2, <2>3, <2>4
<1>2. CASE c.fn = "write"
  <2>1. Writes(c)
    BY <1>2, AskedFact
  <2>2. c.page \in Nat /\ c.n \in Nat /\ c.page + c.n <= Pages
    BY <2>1 DEF Writes
  <2>3. c.content \in Page
    BY <2>1 DEF Writes
  <2>4. QED
    BY <1>2, <2>2, <2>3
<1>3. QED
  BY <1>1, <1>2

LEMMA CourseRuns ==
  ASSUME NEW p, NEW c, NEW pg, NEW l, NEW r, CourseOf(p, c, pg, l, r)
  PROVE  p \in Parts /\ RunsFor(p, c, pg)
<1>1. p \in Parts /\ Asked(c)
  BY DEF CourseOf
<1>2. p = "read" => Reads(c)
  BY <1>1, AskedFact DEF CourseOf
<1>3. p = "page write" => Writes(c)
  BY <1>1, AskedFact DEF CourseOf
<1>4. ASSUME p \in {"page erase", "page write"} PROVE pg \in 0 .. Pages - 1
  <2>1. Looped(c) /\ c.fn \in {"erase", "write"}
    BY <1>4 DEF CourseOf, Looped
  <2>2. c.page \in Nat /\ c.n \in Nat /\ c.page + c.n <= Pages
    BY <1>1, <2>1, LoopedFact
  <2>3. InHand(p) = 1
    BY <1>4 DEF InHand
  <2>4. pg \in Nat /\ l \in Nat /\ pg + l + 1 = c.page + c.n
    BY <2>1, <2>3, Zenon DEF CourseOf
  <2>5. QED
    BY <2>2, <2>4, InChip
<1>5. QED
  BY <1>1, <1>2, <1>3, <1>4 DEF RunsFor

LEMMA ScriptNow ==
  ASSUME Course
  PROVE  ScriptOK(Script, HeardNow)
BY CourseRuns, ScriptFact, Zenon DEF Course, Script, HeardNow

LEMMA ScriptNext ==
  ASSUME Course'
  PROVE  ScriptOK(Script, HeardNow)'
BY CourseRuns, ScriptFact, Zenon DEF Course, Script, HeardNow

\* A part that has a script selects the chip in the first step of it and deselects
\* it in the last, but the identification.
LEMMA Framed ==
  ASSUME NEW p \in Parts \ {"identify"}, NEW c, NEW pg, NEW k \in DOMAIN ScriptOf(p, c, pg)
  PROVE  /\ ScriptOf(p, c, pg)[k].op = "select" <=> k = 1
         /\ ScriptOf(p, c, pg)[k].op = "deselect" <=> k = Len(ScriptOf(p, c, pg))
         /\ Len(ScriptOf(p, c, pg)) \in {3, 4}
<1> DEFINE s == ScriptOf(p, c, pg)
           Goal == /\ s[k].op = "select" <=> k = 1
                   /\ s[k].op = "deselect" <=> k = Len(s)
                   /\ Len(s) \in {3, 4}
<1>1. ASSUME NEW x, x.op \notin {"select", "deselect"}, s = <<Select, x, Deselect>>
      PROVE  Goal
  <2>1. k \in 1 .. 3 /\ Len(s) = 3
    BY <1>1
  <2>2. s[1].op = "select" /\ s[2].op \notin {"select", "deselect"} /\ s[3].op = "deselect"
    BY <1>1 DEF Select, Deselect
  <2> HIDE DEF s
  <2>3. QED
    BY <2>1, <2>2
<1>2. ASSUME NEW x, NEW y, x.op \notin {"select", "deselect"}, y.op \notin {"select", "deselect"},
             s = <<Select, x, y, Deselect>>
      PROVE  Goal
  <2>1. k \in 1 .. 4 /\ Len(s) = 4
    BY <1>2
  <2>2. /\ s[1].op = "select" /\ s[2].op \notin {"select", "deselect"}
        /\ s[3].op \notin {"select", "deselect"} /\ s[4].op = "deselect"
    BY <1>2 DEF Select, Deselect
  <2> HIDE DEF s
  <2>3. QED
    BY <2>1, <2>2
<1>3. \A b : /\ Xfer(b).op \notin {"select", "deselect"}
             /\ Send(b).op \notin {"select", "deselect"}
             /\ Receive(b).op \notin {"select", "deselect"}
  BY DEF Xfer, Send, Receive
<1>4. CASE p = "bsy"
  <2>1. s = <<Select, Xfer(RDSR), Xfer(255), Deselect>>
    BY <1>4 DEF ScriptOf, Rdsr
  <2> DEFINE x == Xfer(RDSR)
             y == Xfer(255)
  <2>2. x.op \notin {"select", "deselect"} /\ y.op \notin {"select", "deselect"}
    BY <1>3
  <2>3. s = <<Select, x, y, Deselect>>
    BY <2>1
  <2> HIDE DEF x, y
  <2>4. QED
    BY <1>2, <2>2, <2>3, Zenon
<1>5. CASE p = "read"
  <2>1. s = <<Select, Send(AtByte(RDARRAYHF, c.off)), Receive(c.n), Deselect>>
    BY <1>5 DEF ScriptOf, Read
  <2>2. QED
    BY <1>2, <1>3, <2>1, Zenon
<1>6. CASE p = "page write"
  <2>1. s = <<Select, Send(AtPage(MNTHRUBF1, pg)), Send(c.content), Deselect>>
    BY <1>6 DEF ScriptOf, PageWrite
  <2>2. QED
    BY <1>2, <1>3, <2>1, Zenon
<1>7. CASE p \in {"reprogram", "chip erase", "page erase"}
  <2>1. \E b : s = <<Select, Send(b), Deselect>>
    BY <1>7 DEF ScriptOf, Reprogram, ChipErase, PageErase
  <2>2. QED
    BY <1>1, <1>3, <2>1, Zenon
<1>8. CASE p \in {"none", "rounds"}
  <2>1. s = <<>>
    BY <1>8 DEF ScriptOf
  <2>2. DOMAIN <<>> = 1 .. 0
    OBVIOUS
  <2>3. \A i \in 1 .. 0 : FALSE
    OBVIOUS
  <2>4. k \in 1 .. 0
    BY <2>1, <2>2, Zenon
  <2>5. QED
    BY <2>3, <2>4, Zenon
<1>9. QED
  BY <1>4, <1>5, <1>6, <1>7, <1>8, Zenon DEF Parts, Commands

-----------------------------------------------------------------------------
\* The chip on the bus

\* A byte of the chip lies in a page.
LEMMA InStore ==
  ASSUME NEW n \in 0 .. Pages * Block - 1
  PROVE  n \div Block \in 0 .. Pages - 1 /\ 1 + (n % Block) \in 1 .. Block
<1>1. ASSUME NEW b \in Nat \ {0}, NEW p \in Nat, NEW m \in Nat, m < p * b
      PROVE  m \div b \in 0 .. p - 1 /\ 1 + (m % b) \in 1 .. b
  <2>1. m \div b \in Nat /\ m % b \in 0 .. b - 1
    BY <1>1
  <2>2. ASSUME NEW q \in Nat, q * b <= m PROVE q <= p - 1
    <3>1. SUFFICES ASSUME q >= p PROVE FALSE
      BY <2>2
    <3>2. q * b >= p * b
      BY <3>1
    <3>3. QED
      BY <1>1, <2>2, <3>2
  <2>3. (m \div b) * b <= m
    BY <1>1
  <2>4. QED
    BY <2>1, <2>2, <2>3
<1>2. n \in Nat /\ n < Pages * Block
  BY Sizes
<1>3. Block \in Nat \ {0} /\ Pages \in Nat
  BY InChip
<1>4. QED
  BY <1>1, <1>2, <1>3, Zenon

LEMMA ByteFact ==
  ASSUME NEW m \in Mem, NEW n \in 0 .. Pages * Block - 1
  PROVE  m[n \div Block][1 + (n % Block)] \in Octet
BY InStore DEF Mem, Page, Octet, Blank

\* A device that answers the bytes of an exchange says a byte, or nothing.
LEMMA AnswerFact ==
  ASSUME mem \in Mem, got \in Seq(Octet), got = <<>> \/ got[1] # RDSR
  PROVE  Answer \in Byte
<1> DEFINE n == Len(got)
           byte == (Addressed + n - 5) % (Pages * Block)
<1>1. n \in Nat /\ (n # 0 => got[1] # RDSR)
  BY LenProperties, EmptySeq
<1>2. Noise \in Byte /\ Octet \subseteq Byte
  BY DEF Noise, Byte, Octet
<1>3. \A k \in 1 .. 3 : DevId[k] \in Byte
  <2>1. DevId[1] \in Byte /\ DevId[2] \in Byte /\ DevId[3] \in Byte
    BY DEF DevId, Byte
  <2>2. QED
    BY <2>1
<1>4. ASSUME n >= 5 PROVE mem[byte \div Block][1 + (byte % Block)] \in Byte
  <2>1. Addressed \in Nat
    <3>1. 2 \in 1 .. Len(got) /\ 3 \in 1 .. Len(got) /\ 4 \in 1 .. Len(got)
      BY <1>1, <1>4
    <3>2. got[2] \in Nat /\ got[3] \in Nat /\ got[4] \in Nat
      BY <3>1, ElementOfSeq, OctetFacts
    <3>3. ByteSpace \in Nat
      BY DEF ByteSpace
    <3>4. \A a, b, c, d \in Nat : (a * d + b) * d + c \in Nat
      OBVIOUS
    <3>5. QED
      BY <3>2, <3>3, <3>4, Zenon DEF Addressed
  <2>2. Addressed + n - 5 \in Nat
    BY <1>1, <1>4, <2>1
  <2>3. Pages * Block \in Nat \ {0}
    BY Sizes
  <2>4. byte \in 0 .. Pages * Block - 1
    BY <2>2, <2>3
  <2> HIDE DEF byte
  <2>5. QED
    BY <1>2, <2>4, ByteFact
<1>5. \A k \in Nat : k = 0 \/ k <= 3 => k = 0 \/ k \in 1 .. 3
  OBVIOUS
<1> HIDE DEF byte
<1>6. QED
  BY <1>1, <1>2, <1>3, <1>4, <1>5, Zenon DEF Answer, byte

\* The exchange in progress.
LEMMA InExchangeFact ==
  ASSUME Course, OnBus, Supply, at # "out"
  PROVE  /\ step \in DOMAIN Script /\ Script[step].op = "exchange"
         /\ HeardNow[step] \in Seq(Octet) /\ Script[step].bytes \in Seq(Octet)
         /\ got \in Seq(Octet) /\ sending \in Seq(Octet)
         /\ got \o sending = HeardNow[step] \o Script[step].bytes
         /\ HeardNow[step + 1] = got \o sending
         /\ Len(HeardNow[step]) <= Len(got)
         /\ size = Len(Script[step].bytes) /\ size <= CountSpace
         /\ got = <<>> \/ got[1] # RDSR
<1>1. /\ step \in DOMAIN Script /\ Script[step].op = "exchange"
      /\ got \o sending = HeardNow[step] \o Script[step].bytes
      /\ size = Len(Script[step].bytes) /\ Len(HeardNow[step]) <= Len(got)
      /\ got \in Seq(Octet)
  BY DEF OnBus
<1>2. sending \in Seq(Octet)
  BY DEF Supply, Octet
<1>3. StepOK(Script[step], HeardNow[step], HeardNow[step + 1])
  BY <1>1, ScriptNow DEF ScriptOK
<1>4. /\ HeardNow[step] \in Seq(Octet) /\ Script[step].bytes \in Seq(Octet)
      /\ Len(Script[step].bytes) <= CountSpace
      /\ HeardNow[step + 1] = HeardNow[step] \o Script[step].bytes
      /\ HeardNow[step + 1] = <<>> \/ HeardNow[step + 1][1] # RDSR
  BY <1>1, <1>3 DEF StepOK
<1>5. ASSUME got # <<>> PROVE got[1] # RDSR
  <2>1. Len(got) > 0
    BY <1>1, <1>5, EmptySeq, LenProperties
  <2>2. (got \o sending)[1] = got[1]
    BY <1>1, <1>2, <2>1, FirstOfConcat
  <2>3. got \o sending # <<>>
    <3>1. Len(got \o sending) = Len(got) + Len(sending) /\ Len(sending) \in Nat /\ Len(got) \in Nat
      BY <1>1, <1>2, ConcatProperties, LenProperties
    <3> DEFINE s == got \o sending
    <3> HIDE DEF s
    <3>2. Len(s) # 0
      BY <2>1, <3>1 DEF s
    <3>3. s # <<>>
      BY <3>2
    <3>4. QED
      BY <3>3 DEF s
  <2>4. QED
    BY <1>1, <1>4, <2>2, <2>3, Zenon
<1>6. QED
  BY <1>1, <1>2, <1>4, <1>5, Zenon

-----------------------------------------------------------------------------
\* The exchanges under the driver are those of SpiDma

\* Where a stream runs the thread is inside the exchange.
LEMMA InsideFact ==
  ASSUME IInv
  PROVE  /\ Moves(tx) \/ Moves(rx) \/ line # <<>> => at # "out"
         /\ Stuck => at # "out"
BY WhereItRuns DEF Stuck, Running

LEMMA StepIsExchange ==
  ASSUME IInv, Supply, Control, OnBus, ChipOK, [Next]_vars
  PROVE  [SpiNext]_spi
<1>0. Course /\ mem \in Mem
  BY DEF Control, ChipOK
<1>1. CASE UNCHANGED spi
  BY <1>1
<1>2. CASE DoExchange
  <2>1. step \in DOMAIN Script /\ Script[step].op = "exchange" /\ Exchange(Script[step].bytes)
    BY <1>2 DEF DoExchange, Does
  <2>2. StepOK(Script[step], HeardNow[step], HeardNow[step + 1])
    BY <1>0, <2>1, ScriptNow DEF ScriptOK
  <2>3. Script[step].bytes \in Seq(Octet) /\ sending' = Script[step].bytes
    BY <2>1, <2>2 DEF StepOK, Exchange
  <2>4. sending' \in Seq(0 .. 255) /\ Exchange(sending')
    BY <2>1, <2>3, Zenon DEF Octet
  <2>5. QED
    BY <2>4 DEF SpiNext
<1>3. CASE Shift
  <2>1. TxMove(Answer) /\ Moves(tx)
    BY <1>3 DEF Shift, TxMove
  <2>2. at # "out"
    BY <2>1, InsideFact
  <2>3. got \in Seq(Octet) /\ (got = <<>> \/ got[1] # RDSR)
    BY <1>0, <2>2, InExchangeFact
  <2>4. Answer \in 0 .. 256
    BY <1>0, <2>3, AnswerFact DEF Byte
  <2>5. QED
    BY <2>1, <2>4 DEF SpiNext
<1>4. CASE DoReturnExchange
  BY <1>4 DEF DoReturnExchange, SpiNext, Waits
<1>5. CASE DoRest(InExchange)
  BY <1>5 DEF DoRest, InExchange, SpiNext, Waits
<1>6. CASE DoRest(RxMove) \/ DoRest(Overrun) \/ Isr \/ DoRest(TransferError)
  BY <1>6 DEF DoRest, Isr, SpiNext
<1>7. CASE \E c \in Call : Ask(c)
  BY <1>7, <1>1 DEF Ask
<1>8. CASE DoSelect \/ DoDeselect \/ DoXfer
  BY <1>8, <1>1 DEF DoSelect, DoDeselect, DoXfer
<1>9. CASE Between
  <2>1. UNCHANGED spi
    BY <1>9 DEF Between, IsKnown, IsBusy, IsReady, IsBinary, StartReturns, Commanded, ChipEraseReturns,
       PageDone, NextPage, LoopReturns, ReadReturns, Leaves
  <2>2. QED
    BY <1>1, <2>1
<1>10. CASE ChipReady
  BY <1>10, <1>1 DEF ChipReady
<1>11. CASE UNCHANGED vars
  BY <1>11, <1>1 DEF vars
<1>12. QED
  BY <1>2, <1>3, <1>4, <1>5, <1>6, <1>7, <1>8, <1>9, <1>10, <1>11
  DEF Next, ThreadStep, OnTheBus, Streams

-----------------------------------------------------------------------------
\* The course of a call

LEMMA AskKeepsCourse ==
  ASSUME Course, NEW c \in Call, Ask(c)
  PROVE  Course'
<1>1. /\ Asked(c) /\ call' = c /\ ret' = ret /\ (c.fn # "start" => ret # -1)
      /\ part' = (CASE c.fn = "start" -> "identify"
                    [] c.fn = "read" -> "read"
                    [] Looped(c) -> "rounds"
                    [] OTHER -> "chip erase")
      /\ page' = (IF Looped(c) THEN c.page ELSE 0)
      /\ left' = (IF Looped(c) THEN c.n ELSE 0)
  BY CallAssumption DEF Ask, To, Asked
<1>0. Asked(c) /\ call' = c /\ ret' = ret /\ (c.fn # "start" => ret # -1) /\ 0 \in Nat
  BY <1>1
<1>2. CASE c.fn = "start"
  <2>1. ~Looped(c) /\ part' = "identify" /\ page' = 0 /\ left' = 0
    BY <1>1, <1>2 DEF Looped
  <2>2. QED
    BY <1>0, <1>2, <2>1, Zenon DEF Course, CourseOf, Parts
<1>3. CASE c.fn = "read"
  <2>1. ~Looped(c) /\ part' = "read" /\ page' = 0 /\ left' = 0
    BY <1>1, <1>3 DEF Looped
  <2>2. QED
    BY <1>0, <1>3, <2>1 DEF Course, CourseOf, Parts
<1>4. CASE Looped(c)
  <2>1. c.fn \in {"erase", "write"} /\ (c.fn = "erase" => ~c.whole)
    BY <1>4 DEF Looped
  <2>2. part' = "rounds" /\ page' = c.page /\ left' = c.n
    BY <1>1, <1>4, <2>1
  <2>3. c.page \in Nat /\ c.n \in Nat
    BY <1>1, <2>1, LoopedFact
  <2>4. page' + left' + 0 = c.page + c.n /\ page' >= c.page /\ page' \in Nat /\ left' \in Nat
    BY <2>2, <2>3
  <2>5. InHand(part') = 0
    BY <2>2 DEF InHand
  <2>6. QED
    BY <1>1, <1>4, <2>1, <2>2, <2>4, <2>5 DEF Course, CourseOf, Parts
<1>5. CASE c.fn = "erase" /\ c.whole
  <2>1. ~Looped(c) /\ part' = "chip erase" /\ page' = 0 /\ left' = 0
    BY <1>1, <1>5 DEF Looped
  <2>2. QED
    BY <1>0, <1>5, <2>1 DEF Course, CourseOf, Parts, Commands
<1>6. QED
  BY <1>1, <1>2, <1>3, <1>4, <1>5, AskedFact DEF Looped

LEMMA BetweenKeepsCourse ==
  ASSUME Course, Between
  PROVE  Course'
<1>1. CourseOf(part, call, page, left, ret) /\ call' = call /\ page \in Nat /\ left \in Nat
  BY DEF Course, CourseOf, Between, IsKnown, IsBusy, IsReady, IsBinary, StartReturns, Commanded,
     ChipEraseReturns, PageDone, NextPage, LoopReturns, ReadReturns, Leaves
<1>2. ASSUME part \in {"identify", "bsy", "reprogram"}, call.fn = "start",
             UNCHANGED <<page, left>>, part' \in {"none", "bsy", "reprogram"}
      PROVE  Course'
  BY <1>1, <1>2 DEF Course, CourseOf, Parts, Looped
<1>3. CASE IsKnown \/ IsBinary \/ StartReturns
  <2>1. part \in {"identify", "bsy", "reprogram"} /\ call.fn = "start"
    BY <1>1, <1>3 DEF IsKnown, IsBinary, StartReturns, IsReady, Leaves, CourseOf
  <2>2. UNCHANGED <<page, left>> /\ part' \in {"none", "bsy", "reprogram"}
    BY <1>3 DEF IsKnown, IsBinary, StartReturns, GoTo, Returns, To
  <2>3. QED
    BY <1>2, <2>1, <2>2
<1>4. CASE IsBusy
  BY <1>1, <1>4 DEF IsBusy, GoTo, To, Leaves, Course
<1>5. CASE Commanded
  <2>1. part \in Commands /\ part' = "bsy" /\ UNCHANGED <<page, left, ret>>
    BY <1>5 DEF Commanded, GoTo, To, Leaves
  <2>2. CASE part = "chip erase"
    BY <1>1, <2>1, <2>2 DEF Course, CourseOf, Parts, Looped
  <2>3. CASE part \in {"page erase", "page write"}
    <3>1. InHand(part)
          = InHand(part')
      BY <2>1, <2>3 DEF InHand
    <3>2. QED
      BY <1>1, <2>1, <2>3, <3>1 DEF Course, CourseOf, Parts, Looped
  <2>4. QED
    BY <2>1, <2>2, <2>3 DEF Commands
<1>6. CASE ChipEraseReturns
  <2>1. part = "bsy" /\ ~Looped(call) /\ part' = "none" /\ UNCHANGED <<page, left>>
    BY <1>6 DEF ChipEraseReturns, IsReady, Leaves, Returns, To, Looped
  <2>2. QED
    BY <1>1, <2>1 DEF Course, CourseOf, Parts
<1>7. CASE LoopReturns
  <2>1. part = "rounds" /\ part' = "none" /\ UNCHANGED <<page, left>>
    BY <1>7 DEF LoopReturns, Leaves, Returns, To
  <2>2. InHand(part) = InHand(part')
    BY <2>1 DEF InHand
  <2>3. QED
    BY <1>1, <2>1, <2>2 DEF Course, CourseOf, Parts
<1>8. CASE ReadReturns
  <2>1. part = "read" /\ ~Looped(call) /\ part' = "none" /\ UNCHANGED <<page, left>>
    BY <1>1, <1>8 DEF ReadReturns, Leaves, Returns, To, Looped, CourseOf
  <2>2. QED
    BY <1>1, <2>1 DEF Course, CourseOf, Parts
<1>9. CASE PageDone
  <2>1. part = "bsy" /\ Looped(call) /\ part' = "rounds" /\ page' = page + 1 /\ UNCHANGED <<left, ret>>
    BY <1>9 DEF PageDone, IsReady, Leaves, To
  <2>2. page >= call.page /\ page + left + 1 = call.page + call.n /\ call.page \in Nat
    <3>1. InHand(part) = 1
      BY <2>1 DEF InHand
    <3>2. Asked(call) /\ call.fn \in {"erase", "write"}
      BY <1>1, <2>1 DEF CourseOf, Looped
    <3>3. QED
      BY <1>1, <2>1, <3>1, <3>2, LoopedFact, Zenon DEF CourseOf
  <2>3. page' >= call.page /\ page' + left + 0 = call.page + call.n /\ page' \in Nat
    BY <1>1, <2>1, <2>2
  <2>4. InHand(part') = 0
    BY <2>1 DEF InHand
  <2>5. QED
    BY <1>1, <2>1, <2>3, <2>4 DEF Course, CourseOf, Parts
<1>10. CASE NextPage
  <2>1. /\ part = "rounds" /\ left > 0 /\ left' = left - 1 /\ UNCHANGED <<page, ret>>
        /\ part' = (IF call.fn = "write" THEN "page write" ELSE "page erase")
    BY <1>10 DEF NextPage, Leaves, To
  <2>2. Looped(call) /\ page >= call.page /\ page + left + 0 = call.page + call.n
    <3>1. InHand(part) = 0
      BY <2>1 DEF InHand
    <3>2. QED
      BY <1>1, <2>1, <3>1, Zenon DEF CourseOf
  <2>3. page + left' + 1 = call.page + call.n /\ left' \in Nat
    <3>1. ASSUME NEW m \in Nat, NEW l \in Nat, l > 0 PROVE m + (l - 1) + 1 = m + l + 0 /\ l - 1 \in Nat
      BY <3>1
    <3>2. QED
      BY <1>1, <2>1, <2>2, <3>1, Zenon
  <2>4. InHand(part') = 1
    BY <2>1 DEF InHand
  <2>5. (part' = "page write" => call.fn = "write") /\ (part' = "page erase" => call.fn = "erase" /\ ~call.whole)
        /\ call.fn # "read" /\ call.fn # "start" /\ part' \in {"page write", "page erase"}
    BY <2>1, <2>2 DEF Looped
  <2>6. QED
    BY <1>1, <2>1, <2>2, <2>3, <2>4, <2>5 DEF Course, CourseOf, Parts, Commands
<1>11. QED
  BY <1>3, <1>4, <1>5, <1>6, <1>7, <1>8, <1>9, <1>10 DEF Between

-----------------------------------------------------------------------------
\* The place on the bus

LEMMA SameScript ==
  ASSUME UNCHANGED <<part, page, left, call>>
  PROVE  /\ Script' = Script /\ HeardNow' = HeardNow
         /\ Course /\ UNCHANGED ret => Course'
BY DEF Script, HeardNow, Course

LEMMA LenScript ==
  ASSUME Course
  PROVE  /\ Len(Script) \in Nat /\ DOMAIN Script = 1 .. Len(Script)
         /\ HeardNow[1] = <<>> /\ HeardNow[Len(Script) + 1] = <<>>
         /\ \A k \in DOMAIN Script : StepOK(Script[k], HeardNow[k], HeardNow[k + 1])
BY ScriptNow, Zenon DEF ScriptOK

\* Where NSS changes in a script.
LEMMA FramedNow ==
  ASSUME Course, step \in DOMAIN Script
  PROVE  /\ part # "identify" =>
              /\ Script[step].op = "select" <=> step = 1
              /\ Script[step].op = "deselect" <=> step = Len(Script)
              /\ Len(Script) \in {3, 4}
         /\ part = "identify" => Len(Script) = 8 /\ (step = 8 => Script[step].op = "deselect")
<1>1. part \in Parts
  BY DEF Course, CourseOf
<1>2. CASE part # "identify"
  BY <1>1, <1>2, Framed DEF Script
<1>3. CASE part = "identify"
  <2>1. Script = Identify
    BY <1>3 DEF Script, ScriptOf
  <2>2. Len(Identify) = 8 /\ Identify[8].op = "deselect"
    BY DEF Identify, Deselect
  <2>3. QED
    BY <1>3, <2>1, <2>2
<1>4. QED
  BY <1>2, <1>3

\* A step of a script is done, and the chip has got what it is to have got.
LEMMA StepKeepsPlace ==
  ASSUME Control, OnBus, step \in DOMAIN Script, Advance, UNCHANGED <<call, ret>>, at' = "out",
         got' = HeardNow[step + 1],
         Script[step].op = "select" => selected',
         Script[step].op = "deselect" => ~selected',
         Script[step].op \notin {"select", "deselect"} => (selected' <=> selected)
  PROVE  Control' /\ OnBus'
<1>1. Course /\ step' = step + 1 /\ UNCHANGED <<part, page, left, call, ret>>
  BY DEF Control, Advance
<1>2. Script' = Script /\ HeardNow' = HeardNow /\ Course'
  BY <1>1, SameScript
<1>3. Len(Script) \in Nat /\ step \in 1 .. Len(Script)
  BY <1>1, LenScript
<1>4. Control'
  BY <1>1, <1>2, <1>3 DEF Control
<1>5. got' \in Seq(Octet)
  <2>1. StepOK(Script[step], HeardNow[step], HeardNow[step + 1])
    BY <1>1, LenScript
  <2>2. Script[step].op \in {"select", "deselect", "xfer", "exchange"} /\ HeardNow[step] \in Seq(Octet)
    BY <2>1 DEF StepOK
  <2>3. CASE Script[step].op \in {"select", "deselect"}
    BY <2>1, <2>3, SelectsFirst DEF StepOK
  <2>4. CASE Script[step].op = "xfer"
    BY <2>1, <2>2, <2>4, AppendProperties DEF StepOK
  <2>5. CASE Script[step].op = "exchange"
    BY <2>1, <2>2, <2>5, ConcatProperties DEF StepOK
  <2>6. QED
    BY <2>2, <2>3, <2>4, <2>5
<1>6. (selected' <=> step' \in 2 .. Len(Script)) \/ (part = "identify" /\ step' # 9)
  <2>1. CASE part # "identify"
    <3>1. /\ Script[step].op = "select" <=> step = 1
          /\ Script[step].op = "deselect" <=> step = Len(Script)
          /\ Len(Script) \in {3, 4}
      BY <1>1, <2>1, FramedNow
    <3>2. selected <=> step \in 2 .. Len(Script)
      BY <2>1 DEF OnBus
    <3>3. CASE step = 1
      <4>1. selected'
        BY <3>1, <3>3
      <4>2. step' \in 2 .. Len(Script)
        BY <1>1, <3>1, <3>3
      <4>3. QED
        BY <4>1, <4>2
    <3>4. CASE step = Len(Script)
      <4>1. ~selected'
        BY <3>1, <3>4
      <4>2. ~(step' \in 2 .. Len(Script))
        BY <1>1, <3>1, <3>4
      <4>3. QED
        BY <2>1, <4>1, <4>2
    <3>5. CASE step # 1 /\ step # Len(Script)
      <4>1. step \in 2 .. Len(Script) /\ step' \in 2 .. Len(Script)
        BY <1>1, <1>3, <3>5
      <4>2. selected' <=> selected
        BY <3>1, <3>5
      <4>3. QED
        BY <3>2, <4>1, <4>2
    <3>6. QED
      BY <3>3, <3>4, <3>5
  <2>2. CASE part = "identify"
    <3>1. Len(Script) = 8 /\ (step = 8 => Script[step].op = "deselect")
      BY <1>1, <2>2, FramedNow
    <3>2. CASE step = 8
      <4>1. ~selected'
        BY <3>1, <3>2
      <4>2. ~(step' \in 2 .. Len(Script)) /\ ~(step' # 9)
        BY <1>1, <3>1, <3>2
      <4>3. QED
        BY <4>1, <4>2
    <3>3. CASE step # 8
      <4>1. step' # 9
        BY <1>1, <1>3, <3>3
      <4>2. QED
        BY <2>2, <4>1
    <3>4. QED
      BY <3>2, <3>3
  <2>3. QED
    BY <2>1, <2>2
<1>7. OnBus'
  <2>1. got' = HeardNow'[step']
    BY <1>1, <1>2
  <2>2. part' # "identify" \/ step' = 9 => (selected' <=> step' \in 2 .. Len(Script'))
    BY <1>1, <1>2, <1>6
  <2>3. QED
    BY <1>5, <2>1, <2>2 DEF OnBus
<1>8. QED
  BY <1>4, <1>7

LEMMA BusKeepsPlace ==
  ASSUME Control, OnBus, DoSelect \/ DoDeselect \/ DoXfer
  PROVE  Control' /\ OnBus'
<1>1. /\ step \in DOMAIN Script /\ Advance /\ UNCHANGED <<call, ret>> /\ at = "out" /\ at' = "out"
  BY DEF DoSelect, DoDeselect, DoXfer, Does, spi
<1>2. StepOK(Script[step], HeardNow[step], HeardNow[step + 1]) /\ got = HeardNow[step]
  BY <1>1, LenScript DEF Control, OnBus
<1>3. CASE DoSelect
  BY <1>1, <1>2, <1>3, StepKeepsPlace DEF DoSelect, Does, StepOK
<1>4. CASE DoDeselect
  BY <1>1, <1>2, <1>4, StepKeepsPlace DEF DoDeselect, Does, StepOK
<1>5. CASE DoXfer
  BY <1>1, <1>2, <1>5, StepKeepsPlace DEF DoXfer, Does, StepOK
<1>6. QED
  BY <1>3, <1>4, <1>5

LEMMA BeginKeepsPlace ==
  ASSUME Control, OnBus, DoExchange
  PROVE  Control' /\ OnBus'
<1>1. /\ step \in DOMAIN Script /\ Script[step].op = "exchange" /\ at = "out"
      /\ Exchange(Script[step].bytes) /\ UNCHANGED <<got, selected, part, step, page, left, call, ret>>
  BY DEF DoExchange, Does, chip, driver, control
<1>2. at' # "out" /\ sending' = Script[step].bytes /\ size' = Len(Script[step].bytes)
  BY <1>1 DEF Exchange
<1>3. Course /\ Script' = Script /\ HeardNow' = HeardNow /\ Course'
  BY <1>1, SameScript DEF Control
<1>4. got = HeardNow[step] /\ Len(HeardNow[step]) \in Nat
  <2>1. got = HeardNow[step] /\ got \in Seq(Octet)
    BY <1>1 DEF OnBus
  <2>2. QED
    BY <2>1, LenProperties
<1>5. QED
  BY <1>1, <1>2, <1>3, <1>4 DEF Control, OnBus

LEMMA SmallMod ==
  ASSUME NEW n \in Nat, NEW d \in Nat \ {0}, n <= d, n % d # 0
  PROVE  n % d = n /\ n > 0
<1>1. \A e \in Nat \ {0} : e % e = 0
  OBVIOUS
<1>2. n # d
  BY <1>1, Zenon
<1>3. ASSUME NEW m \in Nat, NEW e \in Nat \ {0}, m < e PROVE m % e = m
  BY <1>3
<1>4. n < d
  BY <1>2
<1>5. n % d = n
  BY <1>3, <1>4, Zenon
<1>6. n > 0
  BY <1>5
<1>7. QED
  BY <1>5, <1>6

\* An exchange that returns has sent everything.
LEMMA AllSent ==
  ASSUME IInv, Supply, Course, OnBus
  PROVE  at = "rx clear" => sending = <<>> /\ Len(received) = size /\ size > 0 /\ line = <<>>
<1>a. SUFFICES ASSUME at = "rx clear"
               PROVE  sending = <<>> /\ Len(received) = size /\ size > 0 /\ line = <<>>
  OBVIOUS
<1>1. size \in Nat /\ sending \in Seq(0 .. 255) /\ received \in Seq(Byte)
  BY DEF IInv, SpiTypeOK, LineTypeOK, Supply
<1>2. Len(sending) \in Nat /\ Len(received) \in Nat
  BY <1>1, LenProperties
<1>3. Len(received) = size % CountSpace /\ size % CountSpace # 0 /\ line = <<>>
  BY <1>a DEF IInv, Over, Wanted, Quiet
<1>4. Len(sending) + Len(received) = size
  BY <1>a DEF Supply
<1>5. size <= CountSpace
  BY <1>a, InExchangeFact
<1>6. size % CountSpace = size /\ size > 0
  <2>1. CountSpace \in Nat \ {0}
    BY SpiAssumption
  <2>2. QED
    BY <1>1, <1>3, <1>5, <2>1, SmallMod, Zenon
<1>7. Len(received) = size
  BY <1>3, <1>6, Zenon
<1>8. Len(sending) = 0
  <2>1. \A m \in Nat, n \in Nat : m + n = n => m = 0
    OBVIOUS
  <2>2. Len(sending) + Len(received) = Len(received)
    BY <1>4, <1>7, Zenon
  <2>3. QED
    BY <1>2, <2>1, <2>2, Zenon
<1>9. QED
  BY <1>1, <1>3, <1>6, <1>7, <1>8, EmptySeq, Zenon

LEMMA ReturnKeepsPlace ==
  ASSUME IInv, Supply, Control, OnBus, DoReturnExchange
  PROVE  Control' /\ OnBus'
<1>1. /\ at = "rx clear" /\ at' = "out" /\ Advance /\ UNCHANGED <<got, selected, call, ret>>
  BY DEF DoReturnExchange, RxClear, At, chip
<1>2. Course /\ sending = <<>>
  BY <1>1, AllSent DEF Control
<1>3. /\ step \in DOMAIN Script /\ Script[step].op = "exchange" /\ got \in Seq(Octet)
      /\ HeardNow[step + 1] = got \o sending
  BY <1>1, <1>2, InExchangeFact
<1>4. got \o sending = got
  BY <1>2, <1>3, ConcatEmptySeq
<1>5. QED
  BY <1>1, <1>3, <1>4, StepKeepsPlace

\* Steps that leave the place as it is.
LEMMA SamePlace ==
  ASSUME Control, OnBus, UNCHANGED <<sending, size, got, selected, part, step, page, left, call, ret>>,
         at = "out" <=> at' = "out"
  PROVE  Control' /\ OnBus'
<1>1. Script' = Script /\ HeardNow' = HeardNow /\ Course'
  BY SameScript DEF Control
<1>2. QED
  BY <1>1 DEF Control, OnBus

LEMMA FirstToLast ==
  ASSUME NEW S, NEW s \in Seq(S), NEW t \in Seq(S), t # <<>>
  PROVE  /\ Append(s, Head(t)) \o Tail(t) = s \o t
         /\ Append(s, Head(t)) \in Seq(S) /\ Len(Append(s, Head(t))) = Len(s) + 1
         /\ Head(t) \in S /\ Tail(t) \in Seq(S)
<1>1. /\ Head(t) \in S /\ Tail(t) \in Seq(S) /\ Head(t) = t[1]
      /\ Len(Tail(t)) = Len(t) - 1 /\ \A i \in 1 .. Len(Tail(t)) : Tail(t)[i] = t[i + 1]
  BY HeadTailProperties
<1>2. /\ Len(s) \in Nat /\ Len(t) \in Nat \ {0}
  BY LenProperties, EmptySeq
<1> DEFINE a == Append(s, Head(t))
           u == Tail(t)
<1>3. /\ a \in Seq(S) /\ Len(a) = Len(s) + 1 /\ a[Len(s) + 1] = t[1]
      /\ \A i \in 1 .. Len(s) : a[i] = s[i]
  BY <1>1, AppendProperties
<1>4. u \in Seq(S) /\ Len(u) = Len(t) - 1 /\ \A i \in 1 .. Len(t) - 1 : u[i] = t[i + 1]
  BY <1>1
<1> HIDE DEF a, u
<1>5. /\ a \o u \in Seq(S) /\ Len(a \o u) = Len(a) + Len(u)
      /\ \A i \in 1 .. Len(a) + Len(u) : (a \o u)[i] = IF i <= Len(a) THEN a[i] ELSE u[i - Len(a)]
  BY <1>3, <1>4, ConcatProperties
<1>6. /\ s \o t \in Seq(S) /\ Len(s \o t) = Len(s) + Len(t)
      /\ \A i \in 1 .. Len(s) + Len(t) : (s \o t)[i] = IF i <= Len(s) THEN s[i] ELSE t[i - Len(s)]
  BY ConcatProperties
<1> DEFINE x == a \o u
           y == s \o t
<1> HIDE DEF x, y
<1>7. Len(x) = Len(s) + Len(t) /\ Len(y) = Len(s) + Len(t)
  BY <1>2, <1>3, <1>4, <1>5, <1>6 DEF x, y
<1>8. ASSUME NEW i \in 1 .. Len(s) + Len(t) PROVE x[i] = y[i]
  <2>1. x[i] = IF i <= Len(s) + 1 THEN a[i] ELSE u[i - (Len(s) + 1)]
    BY <1>2, <1>3, <1>4, <1>5 DEF x
  <2>2. y[i] = IF i <= Len(s) THEN s[i] ELSE t[i - Len(s)]
    BY <1>6 DEF y
  <2>3. CASE i <= Len(s)
    BY <1>2, <1>3, <2>1, <2>2, <2>3
  <2>4. CASE i = Len(s) + 1
    BY <1>2, <1>3, <2>1, <2>2, <2>4
  <2>5. CASE i > Len(s) + 1
    <3>1. i - (Len(s) + 1) \in 1 .. Len(t) - 1 /\ (i - (Len(s) + 1)) + 1 = i - Len(s)
      BY <1>2, <2>5
    <3>2. x[i] = u[i - (Len(s) + 1)] /\ y[i] = t[i - Len(s)]
      BY <1>2, <2>1, <2>2, <2>5
    <3>3. QED
      BY <1>4, <3>1, <3>2
  <2>6. QED
    BY <1>2, <2>3, <2>4, <2>5
<1>9. x = y
  BY <1>5, <1>6, <1>7, <1>8, SeqEqual DEF x, y
<1>10. QED
  BY <1>1, <1>3, <1>9 DEF x, y, a, u

LEMMA ShiftKeepsPlace ==
  ASSUME IInv, Supply, Control, OnBus, ChipOK, Shift
  PROVE  Control' /\ OnBus'
<1>1. /\ TxMove(Answer) /\ Moves(tx) /\ at' = at /\ size' = size /\ sending' = Tail(sending)
      /\ got' = Append(got, Head(sending)) /\ UNCHANGED <<selected, part, step, page, left, call, ret>>
  BY DEF Shift, TxMove, driver, control
<1>2. at # "out" /\ Course
  BY <1>1, InsideFact DEF Control
<1>3. got \in Seq(Octet) /\ sending \in Seq(Octet) /\ (got = <<>> \/ got[1] # RDSR)
  BY <1>2, InExchangeFact
<1>4. sending # <<>>
  <2>1. Answer \in Byte
    BY <1>3, AnswerFact DEF ChipOK
  <2>2. QED
    BY <1>1, <2>1, TxMoveKeepsSupply
<1>5. /\ got' \o sending' = got \o sending /\ got' \in Seq(Octet) /\ Len(got') = Len(got) + 1
  <2>1. /\ Append(got, Head(sending)) \o Tail(sending) = got \o sending
        /\ Append(got, Head(sending)) \in Seq(Octet) /\ Len(Append(got, Head(sending))) = Len(got) + 1
    BY <1>3, <1>4, FirstToLast
  <2>2. QED
    BY <1>1, <2>1, Zenon
<1>6. Script' = Script /\ HeardNow' = HeardNow /\ Course'
  BY <1>1, <1>2, SameScript
<1>7. Len(HeardNow[step]) <= Len(got')
  <2>1. Len(HeardNow[step]) <= Len(got) /\ Len(HeardNow[step]) \in Nat /\ Len(got) \in Nat
    BY <1>2, InExchangeFact, LenProperties
  <2>2. QED
    BY <1>5, <2>1
<1>8. OnBus'
  BY <1>1, <1>2, <1>5, <1>6, <1>7 DEF OnBus
<1>9. Control'
  BY <1>1, <1>6 DEF Control
<1>10. QED
  BY <1>8, <1>9

\* A part begins where another has ended.
LEMMA FirstStep ==
  ASSUME Course', step' = 1, at' = "out", got' = <<>>, ~selected'
  PROVE  Control' /\ OnBus'
<1>1. Len(Script') \in Nat /\ HeardNow'[1] = <<>>
  BY ScriptNext DEF ScriptOK
<1>2. Control'
  BY <1>1 DEF Control
<1>3. OnBus'
  <2>1. got' \in Seq(Octet) /\ got' = HeardNow'[step']
    BY <1>1, SelectsFirst
  <2>2. ~(step' \in 2 .. Len(Script'))
    BY <1>1
  <2>3. selected' <=> step' \in 2 .. Len(Script')
    BY <2>2
  <2>4. QED
    BY <2>1, <2>3 DEF OnBus
<1>4. QED
  BY <1>2, <1>3

\* Behind its last step a script leaves the bus as it has found it.
LEMMA BehindScript ==
  ASSUME Control, OnBus, step \notin DOMAIN Script
  PROVE  step = Len(Script) + 1 /\ at = "out" /\ got = <<>> /\ ~selected
<1>1. Course /\ step \in 1 .. Len(Script) + 1
  BY DEF Control
<1>2. Len(Script) \in Nat /\ DOMAIN Script = 1 .. Len(Script) /\ HeardNow[Len(Script) + 1] = <<>>
  BY <1>1, LenScript
<1>3. step = Len(Script) + 1
  BY <1>1, <1>2
<1>4. at = "out"
  BY DEF OnBus
<1>5. got = <<>>
  BY <1>2, <1>3, <1>4 DEF OnBus
<1>6. part = "identify" => step = 9
  <2>1. ASSUME part = "identify" PROVE Len(Script) = 8
    <3>1. Script = Identify
      BY <2>1 DEF Script, ScriptOf
    <3>2. Len(Identify) = 8
      BY DEF Identify
    <3>3. QED
      BY <3>1, <3>2
  <2>2. QED
    <3>1. 8 + 1 = 9
      OBVIOUS
    <3>2. QED
      BY <1>3, <2>1, <3>1, Zenon
<1>7. selected <=> step \in 2 .. Len(Script)
  BY <1>6 DEF OnBus
<1>8. ~(step \in 2 .. Len(Script))
  BY <1>2, <1>3
<1>9. ~selected
  BY <1>7, <1>8
<1>10. QED
  BY <1>3, <1>4, <1>5, <1>9

LEMMA BetweenKeepsPlace ==
  ASSUME Control, OnBus, Between \/ \E c \in Call : Ask(c)
  PROVE  Control' /\ OnBus'
<1>1. Course
  BY DEF Control
<1>2. CASE Between
  <2>1. step \notin DOMAIN Script /\ step' = 1 /\ UNCHANGED <<at, got, selected>>
    BY <1>2 DEF Between, IsKnown, IsBusy, IsReady, IsBinary, StartReturns, Commanded,
     ChipEraseReturns, PageDone, NextPage, LoopReturns, ReadReturns, Leaves, GoTo, Returns, To, spi, chip
  <2>2. QED
    BY <1>1, <1>2, <2>1, BetweenKeepsCourse, BehindScript, FirstStep
<1>3. CASE \E c \in Call : Ask(c)
  <2>1. part = "none" /\ step' = 1 /\ UNCHANGED <<at, got, selected>>
    BY <1>3 DEF Ask, To, spi, chip
  <2>2. Course'
    BY <1>1, <1>3, AskKeepsCourse
  <2>3. step \notin DOMAIN Script
    <3>1. Script = <<>>
      BY <2>1 DEF Script, ScriptOf
    <3>2. DOMAIN <<>> = 1 .. 0
      OBVIOUS
    <3>3. \A k : k \notin 1 .. 0
      OBVIOUS
    <3>4. QED
      BY <3>1, <3>2, <3>3, Zenon
  <2>4. QED
    BY <2>1, <2>2, <2>3, BehindScript, FirstStep
<1>4. QED
  BY <1>2, <1>3

\* Every step keeps the place.
LEMMA NextKeepsPlace ==
  ASSUME IInv, Supply, Control, OnBus, ChipOK, [Next]_vars
  PROVE  Control' /\ OnBus'
<1>1. CASE DoSelect \/ DoDeselect \/ DoXfer
  BY <1>1, BusKeepsPlace
<1>2. CASE DoExchange
  BY <1>2, BeginKeepsPlace
<1>3. CASE DoReturnExchange
  BY <1>3, ReturnKeepsPlace
<1>4. CASE DoRest(InExchange)
  <2>1. at # "out" /\ at' # "out" /\ UNCHANGED <<sending, size>>
    BY <1>4 DEF DoRest, InExchange, SetsUp, RxSetup, TxSetup, StartRx, StartTx, TxWait, TxClear, RxWait, At, buffers
  <2>2. QED
    BY <1>4, <2>1, SamePlace DEF DoRest, chip, driver, control
<1>5. CASE DoRest(RxMove) \/ DoRest(Overrun) \/ Isr \/ DoRest(TransferError)
  <2>1. UNCHANGED <<at, sending, size>>
    BY <1>5 DEF DoRest, Isr, RxMove, Overrun, RxIsr, TxIsr, TransferError, buffers
  <2>2. QED
    BY <1>5, <2>1, SamePlace DEF DoRest, Isr, chip, driver, control
<1>6. CASE Shift
  BY <1>6, ShiftKeepsPlace
<1>7. CASE Between \/ \E c \in Call : Ask(c)
  BY <1>7, BetweenKeepsPlace
<1>8. CASE ChipReady
  BY <1>8, SamePlace DEF ChipReady, spi, buffers, driver, control
<1>9. CASE UNCHANGED vars
  BY <1>9, SamePlace DEF vars, spi, buffers, chip, driver, control
<1>10. QED
  BY <1>1, <1>2, <1>3, <1>4, <1>5, <1>6, <1>7, <1>8, <1>9 DEF Next, ThreadStep, OnTheBus, Streams

-----------------------------------------------------------------------------
\* The commands

LEMMA CommandBytes ==
  /\ PGSIZE[1] = 61 /\ CHIPERASE[1] = 199 /\ PGERASE = 129 /\ MNTHRUBF1 = 130
  /\ RDARRAYHF = 11 /\ RDSR = 215 /\ RDDEVID = 159 /\ RESUME = 171
  /\ Len(PGSIZE) = 4 /\ Len(CHIPERASE) = 4
BY DEF PGSIZE, CHIPERASE, PGERASE, MNTHRUBF1, RDARRAYHF, RDSR, RDDEVID, RESUME

\* What is no command the chip begins nothing for.
LEMMA NothingOrdered ==
  ASSUME got \in Seq(Octet), Len(got) < 4 \/ got[1] \in {RDARRAYHF, RDSR, RDDEVID}
  PROVE  Ordered = NoJob
<1>1. Len(got) \in Nat /\ Block \in Nat \ {0}
  BY InChip, LenProperties
<1>2. got # PGSIZE /\ got # CHIPERASE
  <2>1. CASE Len(got) < 4
    <3>1. \A k \in Nat : k < 4 => k # 4
      OBVIOUS
    <3>2. Len(got) # 4
      BY <1>1, <2>1, <3>1, Zenon
    <3>3. QED
      BY <3>2, CommandBytes, Zenon
  <2>2. CASE got[1] \in {RDARRAYHF, RDSR, RDDEVID}
    BY <2>2, CommandBytes
  <2>3. QED
    BY <2>1, <2>2
<1>3. ~(Len(got) = 4 /\ got[1] = PGERASE)
  <2>1. CASE Len(got) < 4
    BY <1>1, <2>1
  <2>2. CASE got[1] \in {RDARRAYHF, RDSR, RDDEVID}
    BY <2>2, CommandBytes
  <2>3. QED
    BY <2>1, <2>2
<1>4. ~(Len(got) = 4 + Block /\ got[1] = MNTHRUBF1)
  <2>1. CASE Len(got) < 4
    BY <1>1, <2>1
  <2>2. CASE got[1] \in {RDARRAYHF, RDSR, RDDEVID}
    BY <2>2, CommandBytes
  <2>3. QED
    BY <2>1, <2>2
<1>5. QED
  BY <1>2, <1>3, <1>4, Zenon DEF Ordered

LEMMA EraseOrdered ==
  ASSUME NEW pg \in 0 .. Pages - 1, got = AtPage(PGERASE, pg)
  PROVE  Ordered = [mem |-> [mem EXCEPT ![pg] = Erased], binary |-> binary]
<1>1. Len(got) = 4 /\ got[1] = PGERASE /\ Names(got, pg * Block)
  BY AtPageFact, CodeFacts, Zenon
<1>2. got # PGSIZE /\ got # CHIPERASE
  BY <1>1, CommandBytes
<1>3. Addressed \div Block = pg
  BY <1>1, AddressFact, Zenon DEF Addressed, Names
<1>4. QED
  BY <1>1, <1>2, <1>3, Zenon DEF Ordered

LEMMA WriteOrdered ==
  ASSUME NEW pg \in 0 .. Pages - 1, NEW content \in Page, got = AtPage(MNTHRUBF1, pg) \o content
  PROVE  Ordered = [mem |-> [mem EXCEPT ![pg] = content], binary |-> binary]
<1> DEFINE head == AtPage(MNTHRUBF1, pg)
<1>1. head \in Seq(Octet) /\ Len(head) = 4 /\ head[1] = MNTHRUBF1 /\ Names(head, pg * Block)
  BY AtPageFact, CodeFacts, Zenon
<1>2. content \in Seq(Octet) /\ Len(content) = Block /\ Block \in Nat \ {0}
  BY ContentFact, InChip
<1> HIDE DEF head
<1>3. /\ got \in Seq(Octet) /\ Len(got) = 4 + Block
      /\ \A i \in 1 .. 4 + Block : got[i] = IF i <= 4 THEN head[i] ELSE content[i - 4]
  <2>1. got = head \o content
    BY DEF head
  <2>2. /\ head \o content \in Seq(Octet) /\ Len(head \o content) = Len(head) + Len(content)
        /\ \A i \in 1 .. Len(head) + Len(content) :
             (head \o content)[i] = IF i <= Len(head) THEN head[i] ELSE content[i - Len(head)]
    BY <1>1, <1>2, ConcatProperties
  <2>3. QED
    BY <1>1, <1>2, <2>1, <2>2, Zenon
<1>4. got[1] = MNTHRUBF1 /\ Names(got, pg * Block)
  <2>1. got[1] = head[1] /\ got[2] = head[2] /\ got[3] = head[3] /\ got[4] = head[4]
    BY <1>2, <1>3
  <2>2. QED
    BY <1>1, <2>1, Zenon DEF Names
<1>5. got # PGSIZE /\ got # CHIPERASE /\ Len(got) # 4
  BY <1>2, <1>3, <1>4, CommandBytes
<1>6. Addressed \div Block = pg
  BY <1>4, AddressFact, Zenon DEF Addressed, Names
<1>7. SubSeq(got, 5, 4 + Block) = content
  <2> DEFINE t == SubSeq(got, 5, 4 + Block)
  <2>1. /\ t \in Seq(Octet) /\ Len(t) = Block
        /\ \A i \in 1 .. Block : t[i] = got[4 + i]
    <3>1. \A i \in 5 .. 4 + Block : i \in 1 .. Len(got)
      BY <1>2, <1>3
    <3>2. /\ t \in Seq(Octet) /\ Len(t) = IF 5 <= 4 + Block THEN 4 + Block - 5 + 1 ELSE 0
          /\ \A i \in 1 .. 4 + Block - 5 + 1 : t[i] = got[5 + i - 1]
      BY <1>2, <1>3, <3>1, SubSeqProperties
    <3> HIDE DEF t
    <3>3. /\ 4 + Block - 5 + 1 = Block /\ 5 <= 4 + Block
          /\ \A i \in 1 .. Block : 5 + i - 1 = 4 + i
      BY <1>2
    <3>4. QED
      BY <3>2, <3>3, Zenon
  <2> HIDE DEF t
  <2>2. \A i \in 1 .. Block : t[i] = content[i]
    <3>1. \A i \in 1 .. Block : 4 + i \in 1 .. 4 + Block /\ ~(4 + i <= 4) /\ 4 + i - 4 = i
      BY <1>2
    <3>2. ASSUME NEW i \in 1 .. Block PROVE t[i] = content[i]
      <4>1. PICK k \in 1 .. 4 + Block : k = 4 + i /\ ~(k <= 4) /\ k - 4 = i
        BY <3>1
      <4>2. got[k] = content[k - 4]
        BY <1>3, <4>1, Zenon
      <4>3. t[i] = got[k]
        BY <2>1, <4>1, Zenon
      <4>4. QED
        BY <4>1, <4>2, <4>3, Zenon
    <3>3. QED
      BY <3>2
  <2>3. QED
    BY <1>2, <2>1, <2>2, SeqEqual DEF t
<1>8. QED
  BY <1>3, <1>4, <1>5, <1>6, <1>7, Zenon DEF Ordered

LEMMA PageInHand ==
  ASSUME Course, Looped(call), InHand(part) = 1
  PROVE  /\ page \in 0 .. Pages - 1 /\ page \in call.page .. call.page + call.n - 1
         /\ call.content \in Page /\ page + 1 + left = call.page + call.n
<1>2. /\ page \in Nat /\ left \in Nat /\ page >= call.page /\ Asked(call)
      /\ page + left + InHand(part) = call.page + call.n
  BY Zenon DEF Course, CourseOf
<1>3. /\ call.page \in Nat /\ call.n \in Nat /\ call.page + call.n <= Pages /\ call.content \in Page
      /\ call.fn \in {"erase", "write"}
  <2>1. call.fn \in {"erase", "write"}
    BY DEF Looped
  <2>2. QED
    BY <1>2, <2>1, LoopedFact
<1>4. page + left + 1 = call.page + call.n
  BY <1>2, Zenon
<1>5. /\ page \in 0 .. Pages - 1 /\ page \in call.page .. call.page + call.n - 1
      /\ page + 1 + left = call.page + call.n
  <2>1. page \in Nat /\ left \in Nat /\ page >= call.page
    BY <1>2
  <2>2. call.page \in Nat /\ call.n \in Nat /\ call.page + call.n <= Pages
    BY <1>3
  <2> DEFINE p == call.page
             n == call.n
  <2> HIDE DEF p, n
  <2>3. /\ page \in Nat /\ left \in Nat /\ p \in Nat /\ n \in Nat
        /\ page + left + 1 = p + n /\ page >= p /\ p + n <= Pages
    BY <1>4, <2>1, <2>2, Zenon DEF p, n
  <2>4. page \in 0 .. Pages - 1 /\ page \in p .. p + n - 1 /\ page + 1 + left = p + n
    BY <2>3, InChip
  <2>5. QED
    BY <2>4 DEF p, n
<1>6. QED
  BY <1>3, <1>5

\* What the chip begins for where a script deselects it.
LEMMA OrderedFact ==
  ASSUME Control, OnBus, at = "out", step \in DOMAIN Script, Script[step].op = "deselect", mem \in Mem
  PROVE  /\ part = "reprogram" => Ordered = [mem |-> mem, binary |-> TRUE]
         /\ part \in Commands => Ordered = [mem |-> AsAsked, binary |-> binary]
         /\ part \notin Commands \cup {"reprogram"} => Ordered = NoJob
<1>1. Course /\ got \in Seq(Octet) /\ got = HeardNow[step] /\ part \in Parts
  BY DEF OnBus, Control, Course, CourseOf
<1>2. CASE part = "identify"
  <2>1. Script = Identify /\ DOMAIN Identify = 1 .. 8 /\ step \in 1 .. 8
    BY <1>2 DEF Script, ScriptOf, Identify
  <2>2. step \in {1, 4, 8}
    <3>1. /\ Identify[2].op # "deselect" /\ Identify[3].op # "deselect" /\ Identify[5].op # "deselect"
          /\ Identify[6].op # "deselect" /\ Identify[7].op # "deselect"
      BY DEF Identify, Select, Xfer, Receive
    <3>2. QED
      BY <2>1, <3>1
  <2>3. got \in {<<>>, <<RESUME>>, <<RDDEVID, 255, 255, 255>>}
    <3>1. HeardNow = << <<>>, <<>>, <<>>, <<RESUME>>, <<>>, <<>>, <<RDDEVID>>,
                        <<RDDEVID, 255, 255, 255>>, <<>> >>
      BY <1>2 DEF HeardNow, Heard
    <3>2. QED
      BY <1>1, <2>2, <3>1
  <2>4. Len(got) < 2 \/ got[1] = RDDEVID
    <3>1. CASE got = <<>>
      BY <3>1
    <3>2. CASE got = <<RESUME>>
      BY <3>2
    <3>3. CASE got = <<RDDEVID, 255, 255, 255>>
      BY <3>3
    <3>4. QED
      BY <2>3, <3>1, <3>2, <3>3
  <2>5. QED
    BY <1>1, <1>2, <2>4, NothingOrdered DEF Commands
<1>3. ASSUME part # "identify" PROVE step = Len(Script)
  BY <1>1, <1>3, FramedNow
<1>4. CASE part = "bsy"
  <2>1. step = 4
    BY <1>3, <1>4 DEF Script, ScriptOf, Rdsr
  <2>2. HeardNow[4] = <<RDSR, 255>>
    BY <1>4 DEF HeardNow, Heard
  <2>3. got[1] = RDSR
    BY <1>1, <2>1, <2>2
  <2>4. QED
    BY <1>1, <1>4, <2>3, NothingOrdered DEF Commands
<1>5. CASE part = "read"
  <2>1. step = 4
    BY <1>3, <1>5 DEF Script, ScriptOf, Read
  <2>2. HeardNow[4] = AtByte(RDARRAYHF, call.off) \o [k \in 1 .. call.n |-> 255]
    BY <1>5 DEF HeardNow, Heard
  <2>3. got[1] = RDARRAYHF
    <3>1. Reads(call)
      BY <1>1, <1>5, CourseRuns, Zenon DEF RunsFor, Course
    <3>2. call.off \in 0 .. Pages * Block - 1 /\ call.n \in Nat
      BY <3>1, Sizes DEF Reads
    <3> DEFINE a == AtByte(RDARRAYHF, call.off)
               b == [k \in 1 .. call.n |-> 255]
    <3>3. a \in Seq(Octet) /\ a[1] = RDARRAYHF /\ Len(a) > 0 /\ b \in Seq(Octet)
      <4>1. a \in Seq(Octet) /\ Len(a) = 5 /\ a[1] = RDARRAYHF
        BY <3>2, AtByteFact, CodeFacts, Zenon
      <4>2. Len(a) > 0
        <5> HIDE DEF a
        <5>1. QED
          BY <4>1
      <4>3. b \in Seq(Octet)
        <5>1. \A n \in Nat : [k \in 1 .. n |-> 255] \in Seq(Octet)
          BY FillFact
        <5>2. QED
          BY <3>2, <5>1, Zenon
      <4>4. QED
        BY <4>1, <4>2, <4>3
    <3>4. got = a \o b
      BY <1>1, <2>1, <2>2
    <3> HIDE DEF a, b
    <3>5. QED
      BY <3>3, <3>4, FirstOfConcat
  <2>4. QED
    BY <1>1, <1>5, <2>3, NothingOrdered DEF Commands
<1>6. CASE part = "reprogram"
  <2>1. step = 3
    BY <1>3, <1>6 DEF Script, ScriptOf, Reprogram
  <2>2. HeardNow[3] = PGSIZE
    BY <1>6 DEF HeardNow, Heard
  <2>3. got = PGSIZE
    BY <1>1, <2>1, <2>2
  <2>4. QED
    BY <1>6, <2>3, Zenon DEF Ordered, Commands
<1>7. CASE part = "chip erase"
  <2>1. step = 3
    BY <1>3, <1>7 DEF Script, ScriptOf, ChipErase
  <2>2. HeardNow[3] = CHIPERASE
    BY <1>7 DEF HeardNow, Heard
  <2>3. got = CHIPERASE /\ got # PGSIZE
    BY <1>1, <2>1, <2>2, CommandBytes
  <2>4. Ordered = [mem |-> [p \in DOMAIN mem |-> Erased], binary |-> binary]
    BY <2>3, Zenon DEF Ordered
  <2>5. ~Looped(call) /\ DOMAIN mem = 0 .. Pages - 1
    BY <1>1, <1>7 DEF Course, CourseOf, Looped, Mem
  <2>6. Ordered = [mem |-> AsAsked, binary |-> binary]
    BY <2>4, <2>5, Zenon DEF AsAsked
  <2>7. QED
    BY <1>7, <2>6 DEF Commands
<1>8. CASE part = "page erase"
  <2>1. step = 3
    BY <1>3, <1>8 DEF Script, ScriptOf, PageErase
  <2>2. HeardNow[3] = AtPage(PGERASE, page)
    BY <1>8 DEF HeardNow, Heard
  <2>3. got = AtPage(PGERASE, page)
    BY <1>1, <2>1, <2>2
  <2>4. page \in 0 .. Pages - 1 /\ Looped(call)
    <3>1. Looped(call) /\ InHand(part) = 1
      BY <1>1, <1>8 DEF Course, CourseOf, Looped, InHand
    <3>2. QED
      BY <1>1, <3>1, PageInHand
  <2>5. call.content = Erased
    BY <1>1, <1>8, LoopedFact DEF Course, CourseOf
  <2>6. Ordered = [mem |-> [mem EXCEPT ![page] = Erased], binary |-> binary]
    BY <2>3, <2>4, EraseOrdered
  <2>7. Ordered = [mem |-> AsAsked, binary |-> binary]
    BY <2>4, <2>5, <2>6, Zenon DEF AsAsked
  <2>8. QED
    BY <1>8, <2>7 DEF Commands
<1>9. CASE part = "page write"
  <2>1. step = 4
    BY <1>3, <1>9 DEF Script, ScriptOf, PageWrite
  <2>2. HeardNow[4] = AtPage(MNTHRUBF1, page) \o call.content
    BY <1>9 DEF HeardNow, Heard
  <2>3. got = AtPage(MNTHRUBF1, page) \o call.content
    BY <1>1, <2>1, <2>2, Zenon
  <2>4. page \in 0 .. Pages - 1 /\ Looped(call) /\ call.content \in Page
    <3>1. Looped(call) /\ InHand(part) = 1
      BY <1>1, <1>9 DEF Course, CourseOf, Looped, InHand
    <3>2. QED
      BY <1>1, <3>1, PageInHand
  <2>5. Ordered = [mem |-> [mem EXCEPT ![page] = call.content], binary |-> binary]
    BY <2>3, <2>4, WriteOrdered
  <2>6. Ordered = [mem |-> AsAsked, binary |-> binary]
    BY <2>4, <2>5, Zenon DEF AsAsked
  <2>7. QED
    BY <1>9, <2>6 DEF Commands
<1>10. CASE part \in {"none", "rounds"}
  <2>1. Script = <<>>
    BY <1>10 DEF Script, ScriptOf
  <2>2. DOMAIN <<>> = 1 .. 0
    OBVIOUS
  <2>3. \A k : k \notin 1 .. 0
    OBVIOUS
  <2>4. FALSE
    BY <2>1, <2>2, <2>3, Zenon
  <2>5. QED
    BY <2>4
<1>11. QED
  BY <1>1, <1>2, <1>4, <1>5, <1>6, <1>7, <1>8, <1>9, <1>10 DEF Parts, Commands

-----------------------------------------------------------------------------
\* The chip

\* The chip changes where it is deselected and where it gets ready.
LEMMA ChipSteps ==
  ASSUME [Next]_vars
  PROVE  fitted' = fitted /\ (DoDeselect \/ ChipReady \/ UNCHANGED <<mem, binary, job>>)
<1>1. CASE DoSelect \/ DoDeselect \/ DoXfer \/ ChipReady \/ (\E c \in Call : Ask(c)) \/ UNCHANGED vars
  BY <1>1 DEF DoSelect, DoDeselect, DoXfer, ChipReady, Ask, vars, chip
<1>2. CASE DoExchange \/ DoReturnExchange \/ DoRest(InExchange) \/ Streams \/ Isr \/ DoRest(TransferError)
  BY <1>2 DEF DoExchange, DoReturnExchange, DoRest, Streams, Isr, Shift, chip
<1>3. CASE Between
  BY <1>3 DEF Between, IsKnown, IsBusy, IsReady, IsBinary, StartReturns, Commanded,
     ChipEraseReturns, PageDone, NextPage, LoopReturns, ReadReturns, Leaves, chip
<1>4. QED
  BY <1>1, <1>2, <1>3 DEF Next, ThreadStep, OnTheBus

\* Where the driver is on its way, and where it has been on it.
LEMMA DriverSteps ==
  ASSUME [Next]_vars
  PROVE  \/ Between
         \/ \E c \in Call : Ask(c)
         \/ /\ DoSelect \/ DoDeselect \/ DoXfer \/ DoReturnExchange
            /\ Advance /\ UNCHANGED <<call, ret, sure>>
         \/ UNCHANGED <<driver>>
<1>1. CASE DoSelect \/ DoDeselect \/ DoXfer \/ DoReturnExchange
  BY <1>1 DEF DoSelect, DoDeselect, DoXfer, DoReturnExchange
<1>2. CASE ChipReady \/ UNCHANGED vars
  BY <1>2 DEF ChipReady, vars
<1>3. CASE DoExchange \/ DoRest(InExchange) \/ Streams \/ Isr \/ DoRest(TransferError)
  BY <1>3 DEF DoExchange, DoRest, Streams, Isr, Shift
<1>4. QED
  BY <1>1, <1>2, <1>3 DEF Next, ThreadStep, OnTheBus

\* A script that goes on is not behind its last step.
LEMMA GoingOn ==
  ASSUME Control, OnBus, DoSelect \/ DoDeselect \/ DoXfer \/ DoReturnExchange
  PROVE  /\ step \in DOMAIN Script /\ step # Len(Script) + 1
         /\ DoSelect => Script[step].op = "select"
         /\ DoDeselect => Script[step].op = "deselect" /\ at = "out"
         /\ DoXfer => Script[step].op = "xfer" /\ at = "out"
         /\ DoReturnExchange => Script[step].op = "exchange" /\ at = "rx clear"
<1>a. Len(Script) \in Nat /\ DOMAIN Script = 1 .. Len(Script)
  BY LenScript DEF Control
<1>b. step \in DOMAIN Script => step # Len(Script) + 1
  BY <1>a
<1>1. CASE DoSelect \/ DoDeselect \/ DoXfer
  <2>1. step \in DOMAIN Script
    BY <1>1 DEF DoSelect, DoDeselect, DoXfer, Does
  <2>2. ~DoReturnExchange
    BY <1>1 DEF DoSelect, DoDeselect, DoXfer, DoReturnExchange, RxClear, At, Does
  <2>3. QED
    BY <1>1, <1>b, <2>1, <2>2 DEF DoSelect, DoDeselect, DoXfer, Does
<1>2. CASE DoReturnExchange
  <2>1. at = "rx clear"
    BY <1>2 DEF DoReturnExchange, RxClear, At
  <2>2. step \in DOMAIN Script /\ Script[step].op = "exchange"
    BY <2>1 DEF OnBus
  <2>3. ~DoSelect /\ ~DoDeselect /\ ~DoXfer
    BY <2>1 DEF DoSelect, DoDeselect, DoXfer, Does
  <2>4. QED
    BY <1>b, <2>1, <2>2, <2>3
<1>3. QED
  BY <1>1, <1>2

\* What the status says when the driver goes on with a chip that is ready.
LEMMA ReadyFact ==
  ASSUME Control, OnBus, Status, IsReady
  PROVE  part = "bsy" /\ ~Busy /\ status[2] = binary
<1>1. part = "bsy" /\ step \notin DOMAIN Script /\ status[1]
  BY DEF IsReady, Leaves
<1>2. step = Len(Script) + 1
  BY <1>1, BehindScript
<1>3. step = 5
  <2>1. Script = Rdsr
    BY <1>1 DEF Script, ScriptOf
  <2>2. Len(Rdsr) = 4
    BY DEF Rdsr
  <2>3. QED
    BY <1>2, <2>1, <2>2
<1>4. QED
  BY <1>1, <1>3 DEF Status

\* A call that waits for the chip does so until the chip is ready.
LEMMA WaitingStays ==
  ASSUME Control, OnBus, Status, Busy, Waiting, [Next]_vars
  PROVE  Waiting' /\ UNCHANGED <<call, page>>
<1>1. CASE Between
  <2>1. ~IsReady
    BY ReadyFact
  <2>2. part = "bsy" \/ part \in Commands
    BY DEF Waiting
  <2>3. IsBusy \/ Commanded
    BY <1>1, <2>1, <2>2 DEF Between, IsKnown, IsBinary, StartReturns, ChipEraseReturns, PageDone,
       NextPage, LoopReturns, ReadReturns, Leaves, Commands
  <2>4. part' = "bsy" /\ UNCHANGED <<call, page>>
    BY <2>3 DEF IsBusy, Commanded, Leaves, GoTo, To
  <2>5. QED
    BY <2>4 DEF Waiting
<1>2. CASE \E c \in Call : Ask(c)
  <2>1. part = "none"
    BY <1>2 DEF Ask
  <2>2. QED
    BY <2>1 DEF Waiting, Commands
<1>3. CASE /\ DoSelect \/ DoDeselect \/ DoXfer \/ DoReturnExchange
           /\ Advance /\ UNCHANGED <<call, ret, sure>>
  <2>1. step # Len(Script) + 1
    BY <1>3, GoingOn
  <2>2. part = "bsy"
    BY <2>1 DEF Waiting
  <2>3. QED
    BY <1>3, <2>2 DEF Waiting, Advance
<1>4. CASE UNCHANGED driver
  BY <1>4, SameScript DEF driver, control, Waiting
<1>5. QED
  BY <1>1, <1>2, <1>3, <1>4, DriverSteps

LEMMA AsAskedFact ==
  ASSUME Course, mem \in Mem, call.fn \in {"erase", "write"}
  PROVE  AsAsked \in Mem
<1>1. call.content \in Page
  BY LoopedFact DEF Course, CourseOf
<1>2. [mem EXCEPT ![page] = call.content] \in Mem
  BY <1>1 DEF Mem
<1>3. Erased \in Page
  BY DEF Erased, Page, Blank
<1>4. [p \in 0 .. Pages - 1 |-> Erased] \in Mem
  BY <1>3 DEF Mem
<1>5. QED
  BY <1>2, <1>4, Zenon DEF AsAsked

LEMMA JobFact ==
  ASSUME NEW m \in Mem, NEW b \in BOOLEAN, NEW j, j = [mem |-> m, binary |-> b]
  PROVE  /\ j \in [mem : Mem, binary : BOOLEAN] /\ j.mem = m /\ j.binary = b /\ j # NoJob
<1>1. j # NoJob
  BY DEF NoJob
<1>2. QED
  BY <1>1, Zenon

\* What a command of the driver makes the chip begin.
LEMMA BegunFact ==
  ASSUME Control, OnBus, ChipOK, Status, DoDeselect
  PROVE  \/ job' = job
         \/ job' = NoJob
         \/ /\ job' = [mem |-> mem, binary |-> TRUE] /\ part = "reprogram" /\ ~binary
            /\ fitted /\ step' = 4
         \/ /\ job' = [mem |-> AsAsked, binary |-> binary] /\ part \in Commands
            /\ step' = Len(Script) + 1 /\ call.fn \in {"erase", "write"}
<1>1. /\ step \in DOMAIN Script /\ Script[step].op = "deselect" /\ at = "out"
      /\ part' = part /\ step' = step + 1 /\ mem \in Mem /\ Course
      /\ job' = IF selected /\ ~Busy /\ fitted THEN Ordered ELSE job
  BY GoingOn DEF DoDeselect, Advance, ChipOK, Control
<1>2. CASE ~(selected /\ ~Busy /\ fitted)
  BY <1>1, <1>2
<1>3. CASE selected /\ ~Busy /\ fitted
  <2>1. job' = Ordered
    BY <1>1, <1>3
  <2>2. part \in {"reprogram"} \cup Commands => step = Len(Script)
    BY <1>1, FramedNow DEF Commands
  <2>3. CASE part = "reprogram"
    <3>1. step = 3
      BY <2>2, <2>3 DEF Script, ScriptOf, Reprogram
    <3>2. ~binary
      BY <2>3, <3>1 DEF Status
    <3>3. Ordered = [mem |-> mem, binary |-> TRUE]
      BY <1>1, <2>3, OrderedFact
    <3>4. QED
      BY <1>1, <1>3, <2>1, <2>3, <3>1, <3>2, <3>3
  <2>4. CASE part \in Commands
    <3>1. call.fn \in {"erase", "write"}
      BY <1>1, <2>4 DEF Course, CourseOf, Commands
    <3>2. Ordered = [mem |-> AsAsked, binary |-> binary]
      BY <1>1, <2>4, OrderedFact
    <3>3. QED
      BY <1>1, <2>1, <2>2, <2>4, <3>1, <3>2
  <2>5. CASE part \notin {"reprogram"} \cup Commands
    <3>1. Ordered = NoJob
      BY <1>1, <2>5, OrderedFact
    <3>2. QED
      BY <2>1, <3>1
  <2>6. QED
    BY <2>3, <2>4, <2>5
<1>4. QED
  BY <1>2, <1>3

LEMMA ChipKept ==
  ASSUME Control, OnBus, ChipOK, Status, [Next]_vars, UNCHANGED <<mem, binary, job>>
  PROVE  Busy' => job' \in [mem : Mem, binary : BOOLEAN] /\ (Ours \/ Reprogramming)'
<1> SUFFICES ASSUME Busy'
             PROVE  job' \in [mem : Mem, binary : BOOLEAN] /\ (Ours \/ Reprogramming)'
  OBVIOUS
<1>1. Busy
  BY DEF Busy
<1>2. job \in [mem : Mem, binary : BOOLEAN] /\ (Ours \/ Reprogramming)
  BY <1>1 DEF ChipOK
<1>3. CASE Ours
  <2>1. Waiting' /\ UNCHANGED <<call, page>>
    BY <1>1, <1>3, WaitingStays DEF Ours
  <2>2. AsAsked' = AsAsked
    BY <2>1 DEF AsAsked, Looped
  <2>3. Ours'
    BY <1>3, <2>1, <2>2 DEF Ours
  <2>4. QED
    BY <1>2, <2>3
<1>4. CASE Reprogramming
  <2>1. Reprogramming'
    BY <1>4 DEF Reprogramming
  <2>2. QED
    BY <1>2, <2>1
<1>5. QED
  BY <1>2, <1>3, <1>4

LEMMA FlagsStayBoolean ==
  ASSUME ChipOK, [Next]_vars
  PROVE  selected' \in BOOLEAN /\ sure' \in BOOLEAN
<1>1. selected' \in BOOLEAN
  <2>1. CASE DoSelect \/ DoDeselect
    BY <2>1 DEF DoSelect, DoDeselect
  <2>2. CASE DoXfer \/ ChipReady \/ (\E c \in Call : Ask(c)) \/ UNCHANGED vars
    BY <2>2 DEF DoXfer, ChipReady, Ask, vars, chip, ChipOK
  <2>3. CASE DoExchange \/ DoReturnExchange \/ DoRest(InExchange) \/ Streams \/ Isr \/ DoRest(TransferError)
    BY <2>3 DEF DoExchange, DoReturnExchange, DoRest, Streams, Isr, Shift, chip, ChipOK, driver, control
  <2>4. CASE Between
    BY <2>4 DEF Between, IsKnown, IsBusy, IsReady, IsBinary, StartReturns, Commanded,
       ChipEraseReturns, PageDone, NextPage, LoopReturns, ReadReturns, Leaves, chip, ChipOK
  <2>5. QED
    BY <2>1, <2>2, <2>3, <2>4 DEF Next, ThreadStep, OnTheBus
<1>2. sure' \in BOOLEAN
  <2>1. CASE Between
    BY <2>1 DEF Between, IsKnown, IsBusy, IsReady, IsBinary, StartReturns, Commanded,
       ChipEraseReturns, PageDone, NextPage, LoopReturns, ReadReturns, Leaves, ChipOK
  <2>2. CASE \E c \in Call : Ask(c)
    BY <2>2 DEF Ask, Busy
  <2>3. CASE UNCHANGED sure
    BY <2>3 DEF ChipOK
  <2>4. QED
    BY <2>1, <2>2, <2>3, DriverSteps DEF driver
<1>3. QED
  BY <1>1, <1>2

LEMMA NextKeepsChip ==
  ASSUME Control, OnBus, ChipOK, Status, [Next]_vars
  PROVE  ChipOK'
<1>1. /\ mem \in Mem /\ binary \in BOOLEAN /\ fitted \in BOOLEAN /\ fitted' = fitted
      /\ selected' \in BOOLEAN /\ sure' \in BOOLEAN
  BY ChipSteps, FlagsStayBoolean DEF ChipOK
<1>2. CASE UNCHANGED <<mem, binary, job>>
  <2>1. Busy' => job' \in [mem : Mem, binary : BOOLEAN] /\ (Ours \/ Reprogramming)'
    BY <1>2, ChipKept
  <2>2. QED
    BY <1>1, <1>2, <2>1 DEF ChipOK
<1>3. CASE ChipReady
  <2>1. Busy /\ mem' = job.mem /\ binary' = job.binary /\ job' = NoJob
    BY <1>3 DEF ChipReady
  <2>2. job \in [mem : Mem, binary : BOOLEAN]
    BY <2>1 DEF ChipOK
  <2>3. mem' \in Mem /\ binary' \in BOOLEAN
    BY <2>1, <2>2, Zenon
  <2>4. QED
    BY <1>1, <2>1, <2>3 DEF ChipOK, Busy
<1>4. CASE DoDeselect
  <2>1. /\ UNCHANGED <<mem, binary, call>> /\ part' = part /\ page' = page
    BY <1>4 DEF DoDeselect, Advance
  <2>2. Course /\ Script' = Script /\ AsAsked' = AsAsked
    BY <2>1 DEF Control, Script, AsAsked, Looped
  <2>3. CASE job' = job
    BY <1>2, <2>1, <2>3
  <2>4. CASE job' = NoJob
    BY <1>1, <2>1, <2>4 DEF ChipOK, Busy
  <2>5. CASE job' = [mem |-> mem, binary |-> TRUE] /\ part = "reprogram" /\ ~binary /\ fitted /\ step' = 4
    <3>1. /\ job' \in [mem : Mem, binary : BOOLEAN] /\ job'.mem = mem /\ job'.binary = TRUE
      BY <1>1, <2>5, JobFact
    <3>2. Reprogramming'
      BY <2>1, <2>5, <3>1 DEF Reprogramming
    <3>3. QED
      BY <1>1, <2>1, <3>1, <3>2 DEF ChipOK
  <2>6. CASE /\ job' = [mem |-> AsAsked, binary |-> binary] /\ part \in Commands
             /\ step' = Len(Script) + 1 /\ call.fn \in {"erase", "write"}
    <3>1. AsAsked \in Mem
      BY <1>1, <2>2, <2>6, AsAskedFact
    <3>2. /\ job' \in [mem : Mem, binary : BOOLEAN] /\ job'.mem = AsAsked /\ job'.binary = binary
      BY <1>1, <2>6, <3>1, JobFact
    <3>3. Ours'
      BY <2>1, <2>2, <2>6, <3>2 DEF Ours, Waiting
    <3>4. QED
      BY <1>1, <2>1, <3>2, <3>3 DEF ChipOK
  <2>7. QED
    BY <1>4, <2>3, <2>4, <2>5, <2>6, BegunFact
<1>5. QED
  BY <1>2, <1>3, <1>4, ChipSteps

\* What the driver knows of the chip stays true.
LEMMA StaysKnown ==
  ASSUME ChipOK, Known, [Next]_vars
  PROVE  Known'
<1>1. fitted /\ fitted' = fitted /\ (binary \/ (Busy /\ job.binary))
  BY ChipSteps DEF Known
<1>2. CASE UNCHANGED <<mem, binary, job>>
  BY <1>1, <1>2 DEF Known, Busy
<1>3. CASE ChipReady
  <2>1. Busy /\ binary' = job.binary
    BY <1>3 DEF ChipReady
  <2>2. job.binary = binary \/ job.binary
    BY <2>1 DEF ChipOK, Ours, Reprogramming
  <2>3. binary'
    BY <1>1, <2>1, <2>2, Zenon
  <2>4. QED
    BY <1>1, <2>3 DEF Known
<1>4. CASE DoDeselect
  <2>1. binary' = binary /\ (Busy => job' = job)
    BY <1>4 DEF DoDeselect
  <2>2. QED
    BY <1>1, <2>1 DEF Known, Busy
<1>5. QED
  BY <1>2, <1>3, <1>4, ChipSteps

-----------------------------------------------------------------------------
\* The status, and what the driver knows

LEMMA NewScript ==
  ASSUME Between \/ \E c \in Call : Ask(c)
  PROVE  step' = 1 /\ UNCHANGED <<spi, chip, status, answer>>
<1>1. CASE Between
  BY <1>1 DEF Between, IsKnown, IsBusy, IsReady, IsBinary, StartReturns, Commanded,
     ChipEraseReturns, PageDone, NextPage, LoopReturns, ReadReturns, Leaves, GoTo, Returns, To
<1>2. CASE \E c \in Call : Ask(c)
  BY <1>2 DEF Ask, To
<1>3. QED
  BY <1>1, <1>2

LEMMA StepIsNat ==
  ASSUME Control
  PROVE  step \in Nat \ {0}
BY LenScript DEF Control

\* While the driver stays where it is the chip gets ready or stays as it is.
LEMMA ChipWhileDriverStays ==
  ASSUME Control, [Next]_vars, UNCHANGED driver
  PROVE  /\ UNCHANGED <<part, step, page, left, call, answer, status, ret, sure, fitted>>
         /\ ChipReady \/ UNCHANGED <<mem, binary, job>>
<1>1. UNCHANGED <<part, step, page, left, call, answer, status, ret, sure>>
  BY DEF driver, control
<1>2. ~DoDeselect
  BY <1>1, StepIsNat DEF DoDeselect, Advance
<1>3. QED
  BY <1>1, <1>2, ChipSteps

LEMMA RdsrSteps ==
  ASSUME part = "bsy"
  PROVE  /\ Script[1].op = "select" /\ Script[2].op = "xfer" /\ Script[3].op = "xfer"
         /\ Script[4].op = "deselect" /\ Len(Script) = 4
         /\ HeardNow[3] = <<RDSR>>
<1>1. Script = Rdsr
  BY DEF Script, ScriptOf
<1>2. HeardNow = << <<>>, <<>>, <<RDSR>>, <<RDSR, 255>>, <<>> >>
  BY DEF HeardNow, Heard
<1>3. HeardNow[3] = <<RDSR>>
  BY <1>2
<1>4. /\ Rdsr[1].op = "select" /\ Rdsr[2].op = "xfer" /\ Rdsr[3].op = "xfer"
      /\ Rdsr[4].op = "deselect" /\ Len(Rdsr) = 4
  BY DEF Rdsr, Select, Deselect, Xfer
<1>5. QED
  BY <1>1, <1>3, <1>4

StatusRead ==
  part = "bsy" /\ step \in {4, 5} =>
    /\ status[1] \in BOOLEAN /\ status[2] \in BOOLEAN
    /\ status[1] => ~Busy /\ status[2] = binary

LEMMA NextKeepsStatusRead ==
  ASSUME Control, OnBus, ChipOK, StatusRead, [Next]_vars
  PROVE  StatusRead'
<1>1. CASE Between \/ \E c \in Call : Ask(c)
  BY <1>1, NewScript DEF StatusRead
<1>2. CASE /\ DoSelect \/ DoDeselect \/ DoXfer \/ DoReturnExchange
           /\ Advance /\ UNCHANGED <<call, ret, sure>>
  <2>1. part' = part /\ step' = step + 1 /\ step \in Nat
    BY <1>2, StepIsNat DEF Advance
  <2> SUFFICES ASSUME part = "bsy", step \in {3, 4} PROVE StatusRead'
    BY <2>1 DEF StatusRead
  <2>2. /\ Script[3].op = "xfer" /\ Script[4].op = "deselect" /\ HeardNow[3] = <<RDSR>>
    BY RdsrSteps
  <2>3. CASE step = 3
    <3>1. DoXfer /\ at = "out"
      BY <1>2, <2>2, <2>3, GoingOn
    <3>2. got = <<RDSR>>
      BY <2>2, <2>3, <3>1 DEF OnBus
    <3>3. status' = Answer /\ UNCHANGED <<binary, job>>
      BY <3>1 DEF DoXfer
    <3>4. Len(<<RDSR>>) = 1 /\ <<RDSR>>[1] = RDSR /\ 1 # 0
      OBVIOUS
    <3>5. Answer = <<~Busy, binary>>
      BY <3>2, <3>4, Zenon DEF Answer
    <3>6. status'[1] = ~Busy /\ status'[2] = binary
      BY <3>3, <3>5
    <3>7. Busy' = Busy /\ binary' = binary /\ binary \in BOOLEAN
      BY <3>3 DEF Busy, ChipOK
    <3>8. (~Busy) \in BOOLEAN
      OBVIOUS
    <3>9. QED
      BY <3>6, <3>7, <3>8, Zenon DEF StatusRead
  <2>4. CASE step = 4
    <3>1. DoDeselect /\ at = "out"
      BY <1>2, <2>2, <2>4, GoingOn
    <3>2. status' = status /\ binary' = binary /\ (job' = IF selected /\ ~Busy /\ fitted THEN Ordered ELSE job)
      BY <3>1 DEF DoDeselect
    <3>3. Ordered = NoJob
      BY <2>2, <2>4, <3>1, OrderedFact, GoingOn DEF ChipOK, Commands
    <3>4. ~Busy => ~Busy'
      BY <3>2, <3>3 DEF Busy
    <3>5. /\ status[1] \in BOOLEAN /\ status[2] \in BOOLEAN
          /\ status[1] => ~Busy /\ status[2] = binary
      BY <2>4 DEF StatusRead
    <3>6. QED
      BY <3>2, <3>4, <3>5, Zenon DEF StatusRead
  <2>5. QED
    BY <2>3, <2>4
<1>3. CASE UNCHANGED driver
  <2>1. /\ UNCHANGED <<part, step, status>>
        /\ ChipReady \/ UNCHANGED <<mem, binary, job>>
    BY <1>3, ChipWhileDriverStays
  <2>2. CASE UNCHANGED <<mem, binary, job>>
    BY <2>1, <2>2, Zenon DEF StatusRead, Busy
  <2>3. CASE ChipReady
    <3>1. Busy
      BY <2>3 DEF ChipReady
    <3>2. QED
      BY <2>1, <3>1, Zenon DEF StatusRead
  <2>4. QED
    BY <2>1, <2>2, <2>3
<1>4. QED
  BY <1>1, <1>2, <1>3, DriverSteps

ToReprogram == part = "reprogram" => IF step = 4 THEN Known ELSE ~Busy /\ ~binary
StartsKnown == call.fn = "start" /\ part \in {"bsy", "reprogram"} => fitted
SaysKnown == ret # -1 => Known

LEMMA StatusParts == Status <=> StatusRead /\ ToReprogram /\ StartsKnown /\ SaysKnown
BY DEF Status, StatusRead, ToReprogram, StartsKnown, SaysKnown

LEMMA StatusPartsNext == (Status <=> StatusRead /\ ToReprogram /\ StartsKnown /\ SaysKnown)'
BY DEF Status, StatusRead, ToReprogram, StartsKnown, SaysKnown

LEMMA NextKeepsToReprogram ==
  ASSUME Control, OnBus, ChipOK, Status, [Next]_vars
  PROVE  ToReprogram'
<1>a. StatusRead /\ ToReprogram /\ StartsKnown /\ SaysKnown /\ Course
  BY StatusParts DEF Control
<1>1. CASE Between \/ \E c \in Call : Ask(c)
  <2> SUFFICES ASSUME part' = "reprogram" PROVE ToReprogram'
    BY DEF ToReprogram
  <2>1. IsBinary /\ ~status[2]
    <3>1. CASE Between
      BY <3>1 DEF Between, IsKnown, IsBusy, IsBinary, StartReturns, Commanded,
         ChipEraseReturns, PageDone, NextPage, LoopReturns, ReadReturns, GoTo, Returns, To
    <3>2. CASE \E c \in Call : Ask(c)
      BY <3>2 DEF Ask, To
    <3>3. QED
      BY <1>1, <3>1, <3>2
  <2>2. ~Busy /\ status[2] = binary
    BY <2>1, ReadyFact DEF IsBinary
  <2>3. step' = 1 /\ UNCHANGED <<job, binary>>
    BY <1>1, NewScript DEF chip
  <2>4. ~binary
    BY <2>1, <2>2, Zenon
  <2>5. QED
    BY <2>2, <2>3, <2>4 DEF ToReprogram, Busy
<1>2. CASE /\ DoSelect \/ DoDeselect \/ DoXfer \/ DoReturnExchange
           /\ Advance /\ UNCHANGED <<call, ret, sure>>
  <2>1. part' = part /\ step' = step + 1 /\ step \in Nat /\ step \in DOMAIN Script
    BY <1>2, StepIsNat, GoingOn DEF Advance
  <2> SUFFICES ASSUME part = "reprogram" PROVE ToReprogram'
    BY <2>1 DEF ToReprogram
  <2>2. Len(Script) = 3
    <3>1. Script = Reprogram
      BY DEF Script, ScriptOf
    <3>2. Len(Reprogram) = 3
      BY DEF Reprogram
    <3>3. QED
      BY <3>1, <3>2
  <2>3. (Script[step].op = "deselect" <=> step = 3) /\ step \in 1 .. 3
    BY <1>a, <2>1, <2>2, FramedNow, LenScript
  <2>4. ~Busy /\ ~binary
    BY <1>a, <2>3 DEF ToReprogram
  <2>5. CASE step = 3
    <3>1. DoDeselect /\ at = "out"
      BY <1>2, <2>3, <2>5, GoingOn
    <3>2. selected
      BY <2>2, <2>5 DEF OnBus
    <3>3. fitted
      BY <1>a DEF StartsKnown, Course, CourseOf
    <3>4. Ordered = [mem |-> mem, binary |-> TRUE]
      BY <2>1, <2>3, <2>5, <3>1, OrderedFact DEF ChipOK
    <3>5. job' = [mem |-> mem, binary |-> TRUE] /\ fitted'
      BY <2>4, <3>1, <3>2, <3>3, <3>4 DEF DoDeselect
    <3>6. job' # NoJob /\ job'.binary
      BY <3>5, JobFact DEF ChipOK
    <3>7. Known'
      BY <3>5, <3>6 DEF Known, Busy
    <3>8. QED
      BY <2>1, <2>5, <3>7 DEF ToReprogram
  <2>6. CASE step # 3
    <3>1. UNCHANGED <<binary, job>>
      <4>1. ~DoDeselect
        BY <2>3, <2>6, GoingOn
      <4>2. QED
        BY <1>2, <4>1 DEF DoSelect, DoXfer, DoReturnExchange, chip
    <3>2. step' # 4
      BY <2>1, <2>6
    <3>3. QED
      BY <2>4, <3>1, <3>2 DEF ToReprogram, Busy
  <2>7. QED
    BY <2>5, <2>6
<1>3. CASE UNCHANGED driver
  <2>1. /\ UNCHANGED <<part, step>>
        /\ ChipReady \/ UNCHANGED <<mem, binary, job>>
    BY <1>3, ChipWhileDriverStays
  <2>2. Known => Known'
    BY StaysKnown
  <2>3. CASE UNCHANGED <<mem, binary, job>>
    BY <1>a, <2>1, <2>2, <2>3 DEF ToReprogram, Busy
  <2>4. CASE ChipReady
    <3>1. Busy
      BY <2>4 DEF ChipReady
    <3>2. QED
      BY <1>a, <2>1, <2>2, <3>1 DEF ToReprogram
  <2>5. QED
    BY <2>1, <2>3, <2>4
<1>4. QED
  BY <1>1, <1>2, <1>3, DriverSteps

LEMMA NextKeepsStarted ==
  ASSUME Control, OnBus, StartsKnown, Identified, [Next]_vars
  PROVE  StartsKnown'
<1>a. Course /\ fitted' = fitted
  BY ChipSteps DEF Control
<1> SUFFICES ASSUME call'.fn = "start", part' \in {"bsy", "reprogram"}, ~fitted PROVE FALSE
  BY <1>a DEF StartsKnown
<1>1. CASE Between
  <2>1. IsKnown \/ IsBusy \/ IsBinary \/ Commanded
    BY <1>1 DEF Between, StartReturns, ChipEraseReturns, PageDone, NextPage, LoopReturns, ReadReturns,
       GoTo, Returns, To
  <2>2. call' = call
    BY <2>1 DEF IsKnown, IsBusy, IsReady, IsBinary, Commanded, Leaves
  <2>3. CASE IsKnown
    <3>1. part = "identify" /\ step \notin DOMAIN Script /\ answer = DevId
      BY <2>3 DEF IsKnown, Leaves, GoTo, Returns, To
    <3>2. step = 9
      <4>1. step = Len(Script) + 1
        BY <3>1, BehindScript
      <4>2. Script = Identify
        BY <3>1 DEF Script, ScriptOf
      <4>3. Len(Identify) = 8
        BY DEF Identify
      <4>4. 8 + 1 = 9
        OBVIOUS
      <4>5. QED
        BY <4>1, <4>2, <4>3, <4>4, Zenon
    <3>3. QED
      BY <3>1, <3>2 DEF Identified
  <2>4. CASE IsBusy \/ IsBinary
    BY <2>2, <2>4 DEF IsBusy, IsBinary, IsReady, Leaves, StartsKnown
  <2>5. CASE Commanded
    BY <1>a, <2>2, <2>5 DEF Commanded, Leaves, Course, CourseOf, Commands
  <2>6. QED
    BY <2>1, <2>3, <2>4, <2>5
<1>2. CASE \E c \in Call : Ask(c)
  BY <1>2 DEF Ask, To
<1>3. CASE UNCHANGED <<part, call>>
  BY <1>3 DEF StartsKnown
<1>4. QED
  BY <1>1, <1>2, <1>3, DriverSteps DEF driver, control, Advance

LEMMA NextKeepsSaysKnown ==
  ASSUME Control, OnBus, ChipOK, Status, [Next]_vars
  PROVE  SaysKnown'
<1>a. StatusRead /\ ToReprogram /\ StartsKnown /\ SaysKnown /\ Course /\ (Known => Known')
  BY StatusParts, StaysKnown DEF Control
<1>1. SUFFICES ASSUME ret' # ret, ret' # -1 PROVE Known
  BY <1>a DEF SaysKnown
<1>2. Between
  BY <1>1, DriverSteps DEF Ask, driver
<1>3. CASE IsBinary
  <2>1. ~Busy /\ status[2] = binary /\ part = "bsy" /\ call.fn = "start"
    BY <1>3, ReadyFact DEF IsBinary
  <2>2. status[2]
    BY <1>1, <1>3 DEF IsBinary, GoTo
  <2>3. binary /\ fitted
    BY <1>a, <2>1, <2>2 DEF StartsKnown
  <2>4. QED
    BY <2>3 DEF Known
<1>4. CASE StartReturns
  <2>1. part = "reprogram" /\ step \notin DOMAIN Script
    BY <1>4 DEF StartReturns, Leaves
  <2>2. step = 4
    <3>1. step = Len(Script) + 1
      BY <2>1, BehindScript
    <3>2. Script = Reprogram
      BY <2>1 DEF Script, ScriptOf
    <3>3. Len(Reprogram) = 3 /\ 3 + 1 = 4
      BY DEF Reprogram
    <3>4. QED
      BY <3>1, <3>2, <3>3, Zenon
  <2>3. QED
    BY <1>a, <2>1, <2>2 DEF ToReprogram
<1>5. CASE ChipEraseReturns \/ LoopReturns \/ ReadReturns
  <2>1. part # "none"
    BY <1>5 DEF ChipEraseReturns, IsReady, LoopReturns, ReadReturns, Leaves
  <2>2. call.fn # "start"
    BY <1>a, <1>5 DEF ChipEraseReturns, LoopReturns, ReadReturns, Leaves, Course, CourseOf, Looped
  <2>3. ret # -1
    BY <1>a, <2>1, <2>2, Zenon DEF Course, CourseOf
  <2>4. QED
    BY <1>a, <2>3 DEF SaysKnown
<1>6. ~IsKnown /\ ~IsBusy /\ ~Commanded /\ ~PageDone /\ ~NextPage
  BY <1>1 DEF IsKnown, IsBusy, Commanded, PageDone, NextPage, GoTo, Returns
<1>7. QED
  BY <1>2, <1>3, <1>4, <1>5, <1>6 DEF Between

LEMMA NextKeepsStatus ==
  ASSUME Control, OnBus, ChipOK, Status, Identified, [Next]_vars
  PROVE  Status'
BY StatusParts, StatusPartsNext, NextKeepsStatusRead, NextKeepsToReprogram, NextKeepsStarted, NextKeepsSaysKnown

-----------------------------------------------------------------------------
\* What comes back

\* What a step of the streams makes of the bytes that come back.
LEMMA BytesSteps ==
  ASSUME Control, [Next]_vars, UNCHANGED driver
  PROVE  \/ DoExchange
         \/ Shift
         \/ RxMove /\ UNCHANGED chip
         \/ Overrun /\ UNCHANGED chip
         \/ /\ UNCHANGED <<line, received>> /\ (at = "out" <=> at' = "out")
            /\ UNCHANGED got /\ (Stuck => Stuck' \/ RxIsr)
<1>1. ~DoSelect /\ ~DoDeselect /\ ~DoXfer /\ ~DoReturnExchange
  BY StepIsNat DEF DoSelect, DoDeselect, DoXfer, DoReturnExchange, Advance, driver, control
<1>2. CASE \E c \in Call : Ask(c)
  BY <1>2 DEF Ask, spi, streams, buffers, chip, Stuck
<1>3. CASE Between
  <2>1. UNCHANGED <<spi, chip>>
    BY <1>3, NewScript
  <2>2. QED
    BY <2>1 DEF spi, streams, buffers, chip, Stuck
<1>4. CASE ChipReady \/ UNCHANGED vars
  BY <1>4 DEF ChipReady, vars, spi, streams, buffers, chip, Stuck
<1>5. CASE DoRest(InExchange)
  <2>1. UNCHANGED <<line, received, got>> /\ at # "out" /\ at' # "out"
    BY <1>5 DEF DoRest, InExchange, SetsUp, RxSetup, TxSetup, StartRx, StartTx, TxWait, TxClear, RxWait, At,
       streams, buffers, chip
  <2>2. Stuck => Stuck'
    <3>1. ASSUME Stuck PROVE TxWait \/ TxClear
      BY <1>5, <3>1 DEF DoRest, InExchange, SetsUp, RxSetup, TxSetup, StartRx, StartTx, RxWait, At,
         Stuck, Running, Thread, Irq
    <3>2. ASSUME TxWait \/ TxClear, Stuck PROVE Stuck'
      BY <3>2 DEF TxWait, TxClear, At, streams, Stuck, Running
    <3>3. QED
      BY <3>1, <3>2
  <2>3. QED
    BY <2>1, <2>2
<1>6. CASE DoRest(RxMove) \/ DoRest(Overrun)
  BY <1>6 DEF DoRest
<1>7. CASE Isr
  BY <1>7 DEF Isr, DoRest, RxIsr, TxIsr, chip, buffers, Stuck
<1>8. CASE DoRest(TransferError)
  <2>1. UNCHANGED <<at, line, received, got>>
    BY <1>8 DEF DoRest, TransferError, chip, buffers
  <2>2. Stuck => Stuck'
    BY <1>8, <2>1, Zenon DEF DoRest, TransferError, Moves, Stuck
  <2>3. QED
    BY <2>1, <2>2
<1>9. QED
  BY <1>1, <1>2, <1>3, <1>4, <1>5, <1>6, <1>7, <1>8 DEF Next, ThreadStep, OnTheBus, Streams

\* The interrupt of a stream that has failed.
LEMMA RxIsrStaysStuck ==
  ASSUME IInv, RxIsr, Stuck
  PROVE  Stuck'
<1>1. rx \in Stream /\ rx' = [rx EXCEPT !.tcie = FALSE, !.en = FALSE] /\ at' = at
  BY DEF IInv, SpiTypeOK, RxIsr
<1>2. ~rx'.en /\ rx'.te = rx.te /\ rx'.teie = rx.teie
  BY <1>1, AnsweredFact, Zenon
<1>3. QED
  BY <1>1, <1>2 DEF Stuck

\* The first byte of a command.
LEMMA FirstHeard ==
  ASSUME Course, OnBus, Supply, at # "out", Len(HeardNow[step]) > 0
  PROVE  Len(got) > 0 /\ got[1] = HeardNow[step][1] /\ got \in Seq(Octet)
<1>1. /\ HeardNow[step] \in Seq(Octet) /\ Script[step].bytes \in Seq(Octet)
      /\ got \in Seq(Octet) /\ sending \in Seq(Octet)
      /\ got \o sending = HeardNow[step] \o Script[step].bytes
      /\ Len(HeardNow[step]) <= Len(got)
  BY InExchangeFact
<1>2. Len(got) > 0
  BY <1>1, LenProperties
<1>3. (got \o sending)[1] = got[1]
  BY <1>1, <1>2, FirstOfConcat
<1>4. (HeardNow[step] \o Script[step].bytes)[1] = HeardNow[step][1]
  BY <1>1, FirstOfConcat
<1>5. QED
  BY <1>1, <1>2, <1>3, <1>4, Zenon

LEMMA IdentifySteps ==
  ASSUME part = "identify"
  PROVE  /\ Script[7].op = "exchange" /\ Script[7].into = "answer" /\ Script[8].op = "deselect"
         /\ Script[8].op # "exchange"
         /\ HeardNow[7] = <<RDDEVID>>
<1>1. Script = Identify
  BY DEF Script, ScriptOf
<1>2. Identify[7].op = "exchange" /\ Identify[7].into = "answer" /\ Identify[8].op = "deselect"
  BY DEF Identify, Deselect, Receive
<1>3. HeardNow = << <<>>, <<>>, <<>>, <<RESUME>>, <<>>, <<>>, <<RDDEVID>>,
                            <<RDDEVID, 255, 255, 255>>, <<>> >>
  BY DEF HeardNow, Heard
<1>4. HeardNow[7] = <<RDDEVID>>
  BY <1>3
<1>5. QED
  BY <1>1, <1>2, <1>4

\* A chip the driver does not know says nothing when it is asked what it is.
LEMMA UnknownSaysNothing ==
  ASSUME Course, OnBus, Supply, at # "out", part = "identify", step = 7, ~fitted
  PROVE  Answer = Noise
<1>1. HeardNow[step] = <<RDDEVID>>
  BY IdentifySteps
<1>2. Len(<<RDDEVID>>) > 0 /\ <<RDDEVID>>[1] = RDDEVID
  OBVIOUS
<1>3. Len(got) > 0 /\ got[1] = RDDEVID /\ got \in Seq(Octet)
  BY <1>1, <1>2, FirstHeard
<1>4. Len(got) # 0 /\ RDDEVID # RDSR
  BY <1>3, OctetFacts
<1>5. QED
  BY <1>3, <1>4, Zenon DEF Answer

LEMMA NoiseSteps ==
  /\ <<>> \in Seq({Noise})
  /\ \A s \in Seq({Noise}) : Append(s, Noise) \in Seq({Noise})
  /\ \A s, t \in Seq({Noise}) : t # <<>> =>
       /\ Append(s, Head(t)) \in Seq({Noise}) /\ Tail(t) \in Seq({Noise})
       /\ <<Head(t)>> \in Seq({Noise})
<1>1. ASSUME NEW s \in Seq({Noise}), NEW t \in Seq({Noise}), t # <<>>
      PROVE  /\ Append(s, Head(t)) \in Seq({Noise}) /\ Tail(t) \in Seq({Noise})
             /\ <<Head(t)>> \in Seq({Noise})
  <2>1. Head(t) \in {Noise} /\ Tail(t) \in Seq({Noise})
    BY <1>1, HeadTailProperties
  <2>2. QED
    BY <2>1, AppendProperties
<1>2. QED
  BY <1>1, EmptySeq, AppendProperties

LEMMA NextKeepsIdentified ==
  ASSUME IInv, Supply, Control, OnBus, Identified, [Next]_vars
  PROVE  Identified'
<1>a. Course /\ fitted' = fitted
  BY ChipSteps DEF Control
<1>1. CASE Between \/ \E c \in Call : Ask(c)
  BY <1>1, NewScript DEF Identified
<1>2. CASE /\ DoSelect \/ DoDeselect \/ DoXfer \/ DoReturnExchange
           /\ Advance /\ UNCHANGED <<call, ret, sure>>
  <2>1. part' = part /\ step' = step + 1 /\ step \in Nat /\ at' = "out"
    BY <1>2, StepIsNat DEF Advance, DoSelect, DoDeselect, DoXfer, DoReturnExchange, RxClear, At, Does, spi
  <2> SUFFICES ASSUME part = "identify", ~fitted, step \in {7, 8} PROVE answer' # DevId
    BY <1>a, <2>1 DEF Identified
  <2>2. CASE step = 7
    <3>1. DoReturnExchange /\ at = "rx clear" /\ Script[step].into = "answer"
      BY <1>2, <2>2, GoingOn, IdentifySteps
    <3>2. answer' = received
      BY <3>1 DEF DoReturnExchange
    <3>3. received \in Seq({Noise}) /\ Len(received) > 0
      <4>1. received \in Seq({Noise})
        BY <2>2, <3>1 DEF Identified
      <4>2. Len(received) = size /\ size > 0
        BY <1>a, <3>1, AllSent
      <4>3. QED
        BY <4>1, <4>2
    <3>4. received[1] = Noise
      <4>1. 1 \in 1 .. Len(received)
        BY <3>3, LenProperties
      <4>2. QED
        BY <3>3, <4>1, ElementOfSeq
    <3>5. DevId[1] # Noise
      BY DEF DevId, Noise
    <3>6. QED
      BY <3>2, <3>4, <3>5, Zenon
  <2>3. CASE step = 8
    <3>1. DoDeselect
      BY <1>2, <2>3, GoingOn, IdentifySteps
    <3>2. QED
      BY <2>3, <3>1 DEF Identified, DoDeselect
  <2>4. QED
    BY <2>2, <2>3
<1>3. CASE UNCHANGED driver
  <2>1. UNCHANGED <<part, step, answer>>
    BY <1>3 DEF driver, control
  <2>2. SUFFICES ASSUME part = "identify", ~fitted, at' # "out", step = 7
                 PROVE  received' \in Seq({Noise}) /\ line' \in Seq({Noise})
    BY <1>a, <2>1 DEF Identified
  <2>3. ASSUME at # "out" PROVE received \in Seq({Noise}) /\ line \in Seq({Noise})
    BY <2>2, <2>3 DEF Identified
  <2>4. CASE DoExchange
    <3>1. at = "out" /\ received' = <<>> /\ line' = line
      BY <2>4 DEF DoExchange, Does, Exchange, streams
    <3>2. line = <<>>
      BY <3>1 DEF IInv, Over, Quiet
    <3>3. QED
      BY <3>1, <3>2, NoiseSteps
  <2>5. CASE Shift
    <3>1. Moves(tx) /\ line' = Append(line, Answer) /\ received' = received
      BY <2>5 DEF Shift, TxMove
    <3>2. at # "out"
      BY <3>1, InsideFact
    <3>3. Answer = Noise
      BY <1>a, <2>2, <3>2, UnknownSaysNothing
    <3>4. QED
      BY <2>3, <3>1, <3>2, <3>3, NoiseSteps
  <2>6. CASE RxMove
    <3>1. /\ Moves(rx) /\ line # <<>> /\ received' = Append(received, Head(line)) /\ line' = Tail(line)
      BY <2>6 DEF RxMove
    <3>2. at # "out"
      BY <3>1, InsideFact
    <3>3. QED
      BY <2>3, <3>1, <3>2, NoiseSteps, Zenon
  <2>7. CASE Overrun
    <3>1. Len(line) = 2 /\ line' = <<Head(line)>> /\ received' = received
      BY <2>7 DEF Overrun, buffers
    <3>2. line # <<>>
      BY <3>1, EmptySeq
    <3>3. at # "out"
      BY <3>2, InsideFact
    <3>4. QED
      BY <2>3, <3>1, <3>2, <3>3, NoiseSteps, Zenon
  <2>8. CASE UNCHANGED <<line, received>> /\ (at = "out" <=> at' = "out")
    BY <2>2, <2>3, <2>8
  <2>9. QED
    BY <1>3, <2>4, <2>5, <2>6, <2>7, <2>8, BytesSteps
<1>4. QED
  BY <1>1, <1>2, <1>3, DriverSteps

-----------------------------------------------------------------------------
\* What a read delivers

LEMMA ReadSteps ==
  ASSUME part = "read"
  PROVE  /\ Script[3].op = "exchange" /\ Script[3].into = "answer" /\ Script[4].op = "deselect"
         /\ Script[3].bytes = [k \in 1 .. call.n |-> 255]
         /\ HeardNow[3] = AtByte(RDARRAYHF, call.off)
<1>1. Script = Read(call.off, call.n)
  BY DEF Script, ScriptOf
<1>2. /\ Read(call.off, call.n)[3] = Receive(call.n) /\ Read(call.off, call.n)[4] = Deselect
  BY DEF Read
<1>3. /\ Receive(call.n).op = "exchange" /\ Receive(call.n).into = "answer" /\ Deselect.op = "deselect"
      /\ Receive(call.n).bytes = [k \in 1 .. call.n |-> 255]
  BY DEF Receive, Deselect
<1>4. HeardNow = << <<>>, <<>>, AtByte(RDARRAYHF, call.off),
                        AtByte(RDARRAYHF, call.off) \o [k \in 1 .. call.n |-> 255], <<>> >>
  BY DEF HeardNow, Heard
<1>5. HeardNow[3] = AtByte(RDARRAYHF, call.off)
  BY <1>4
<1>6. QED
  BY <1>1, <1>2, <1>3, <1>5, Zenon

LEMMA ReadCall ==
  ASSUME Course, part = "read"
  PROVE  /\ call.off \in Nat /\ call.n \in Nat /\ call.off + call.n <= Pages * Block
         /\ call.off \in 0 .. Pages * Block - 1
<1>1. Reads(call)
  BY CourseRuns, Zenon DEF Course, RunsFor
<1>2. QED
  BY <1>1, Sizes DEF Reads

\* Where a read has got to.
LEMMA InRead ==
  ASSUME Course, OnBus, Supply, at # "out", part = "read", step = 3
  PROVE  /\ got \in Seq(Octet) /\ sending \in Seq(Octet)
         /\ Len(got) >= 5 /\ Len(got) + Len(sending) = 5 + call.n
         /\ got[1] = RDARRAYHF /\ Addressed = call.off
<1> DEFINE head == AtByte(RDARRAYHF, call.off)
           tail == Script[step].bytes
<1>1. head \in Seq(Octet) /\ Len(head) = 5 /\ head[1] = RDARRAYHF /\ Names(head, call.off)
  <2>1. call.off \in 0 .. Pages * Block - 1
    BY ReadCall
  <2>2. QED
    BY <2>1, AtByteFact, CodeFacts, Zenon
<1>2. HeardNow[step] = head /\ tail = [k \in 1 .. call.n |-> 255]
  BY ReadSteps
<1>3. tail \in Seq(Octet) /\ Len(tail) = call.n
  <2> DEFINE fill(n) == [k \in 1 .. n |-> 255]
  <2>1. \A n \in Nat : fill(n) \in Seq(Octet) /\ Len(fill(n)) = n
    BY FillFact
  <2>2. call.n \in Nat
    BY ReadCall
  <2>3. tail = fill(call.n)
    BY <1>2
  <2> HIDE DEF fill, tail
  <2>4. QED
    BY <2>1, <2>2, <2>3
<1>4. /\ got \in Seq(Octet) /\ sending \in Seq(Octet) /\ got \o sending = head \o tail
      /\ Len(head) <= Len(got)
  BY <1>2, InExchangeFact
<1> HIDE DEF head, tail
<1>5. Len(got) \in Nat /\ Len(sending) \in Nat /\ Len(got) >= 5 /\ call.n \in Nat
  BY <1>1, <1>4, ReadCall, LenProperties
<1>6. /\ Len(got \o sending) = Len(got) + Len(sending)
      /\ \A i \in 1 .. Len(got) + Len(sending) :
           (got \o sending)[i] = IF i <= Len(got) THEN got[i] ELSE sending[i - Len(got)]
  BY <1>4, ConcatProperties
<1>7. /\ Len(head \o tail) = Len(head) + Len(tail)
      /\ \A i \in 1 .. Len(head) + Len(tail) :
           (head \o tail)[i] = IF i <= Len(head) THEN head[i] ELSE tail[i - Len(head)]
  BY <1>1, <1>3, ConcatProperties
<1>8. /\ (got \o sending)[1] = got[1] /\ (got \o sending)[2] = got[2]
      /\ (got \o sending)[3] = got[3] /\ (got \o sending)[4] = got[4]
  BY <1>5, <1>6
<1>9. /\ (head \o tail)[1] = head[1] /\ (head \o tail)[2] = head[2]
      /\ (head \o tail)[3] = head[3] /\ (head \o tail)[4] = head[4]
  BY <1>1, <1>3, <1>5, <1>7
<1>10. Len(got) + Len(sending) = 5 + call.n
  BY <1>1, <1>3, <1>4, <1>6, <1>7, Zenon
<1>11. Addressed = call.off
  <2>1. Names(got, call.off)
    BY <1>1, <1>4, <1>8, <1>9, Zenon DEF Names
  <2>2. QED
    BY <2>1, Zenon DEF Names, Addressed
<1>12. QED
  BY <1>1, <1>4, <1>5, <1>8, <1>9, <1>10, <1>11, Zenon

\* Then the chip answers with the byte the read is at.
LEMMA AnswerOfRead ==
  ASSUME Course, OnBus, Supply, at # "out", part = "read", step = 3,
         sending # <<>>, ~Busy, binary
  PROVE  Answer = ByteAt(call.off + (Len(got) - 5)) /\ Len(got) - 5 \in Nat
<1>1. /\ got \in Seq(Octet) /\ sending \in Seq(Octet)
      /\ Len(got) >= 5 /\ Len(got) + Len(sending) = 5 + call.n
      /\ got[1] = RDARRAYHF /\ Addressed = call.off
  BY InRead
<1>2. /\ Len(got) \in Nat /\ Len(sending) \in Nat /\ Len(sending) # 0
      /\ call.off \in Nat /\ call.n \in Nat /\ call.off + call.n <= Pages * Block
  BY <1>1, ReadCall, LenProperties, EmptySeq
<1>3. Len(got) # 0 /\ got[1] # RDSR /\ got[1] # RDDEVID
  BY <1>1, <1>2, CommandBytes
<1> DEFINE byte == (call.off + Len(got) - 5) % (Pages * Block)
<1>4. Answer = mem[byte \div Block][1 + (byte % Block)]
  BY <1>1, <1>3, Zenon DEF Answer
<1>5. byte = call.off + (Len(got) - 5) /\ Len(got) - 5 \in Nat
  <2>1. /\ call.off + Len(got) - 5 = call.off + (Len(got) - 5) /\ Len(got) - 5 \in Nat
        /\ call.off + (Len(got) - 5) \in 0 .. Pages * Block - 1
    <3>1. Pages * Block \in Nat
      BY Sizes
    <3>2. ASSUME NEW o \in Nat, NEW g \in Nat, NEW s \in Nat, NEW n \in Nat, NEW t \in Nat,
                 g >= 5, g + s = 5 + n, s # 0, o + n <= t
          PROVE  o + g - 5 = o + (g - 5) /\ g - 5 \in Nat /\ o + (g - 5) \in 0 .. t - 1
      BY <3>2
    <3>3. QED
      BY <1>1, <1>2, <3>1, <3>2, Zenon
  <2>2. ASSUME NEW t \in Nat, NEW m \in 0 .. t - 1 PROVE m % t = m
    OBVIOUS
  <2>3. Pages * Block \in Nat
    BY Sizes
  <2>4. QED
    BY <2>1, <2>2, <2>3, Zenon
<1>6. QED
  BY <1>4, <1>5, Zenon DEF ByteAt

LEMMA AppendBehind ==
  ASSUME NEW S, NEW s \in Seq(S), NEW t \in Seq(S), NEW e \in S
  PROVE  s \o Append(t, e) = Append(s \o t, e)
<1>1. Append(t, e) = t \o <<e>> /\ <<e>> \in Seq(S)
  BY AppendIsConcat
<1>2. s \o t \in Seq(S)
  BY ConcatProperties
<1>3. Append(s \o t, e) = (s \o t) \o <<e>>
  BY <1>2, AppendIsConcat
<1>4. (s \o t) \o <<e>> = s \o (t \o <<e>>)
  BY <1>1, ConcatAssociative
<1>5. QED
  BY <1>1, <1>3, <1>4, Zenon

LEMMA ReadBytesFact ==
  ASSUME call.off \in Nat
  PROVE
  /\ ReadBytes(0) = <<>>
  /\ \A n \in Nat : ReadBytes(n + 1) = Append(ReadBytes(n), ByteAt(call.off + n))
<1>1. ReadBytes(0) = <<>>
  BY DEF ReadBytes
<1>2. ASSUME NEW n \in Nat PROVE ReadBytes(n + 1) = Append(ReadBytes(n), ByteAt(call.off + n))
  <2> DEFINE at_(k) == ByteAt(call.off + k - 1)
             S == {at_(k) : k \in Int}
             s == [k \in 1 .. n |-> at_(k)]
             t == [k \in 1 .. n + 1 |-> at_(k)]
             last == at_(n + 1)
  <2>1. s \in [1 .. n -> S] /\ t \in [1 .. n + 1 -> S] /\ last \in S
    OBVIOUS
  <2>2. /\ \A k \in 1 .. n : s[k] = at_(k)
        /\ \A k \in 1 .. n + 1 : t[k] = at_(k)
    OBVIOUS
  <2> HIDE DEF at_, S, s, t, last
  <2>3. s \in Seq(S) /\ Len(s) = n /\ t \in Seq(S) /\ Len(t) = n + 1
    BY <2>1, FunctionIsSeq
  <2>4. /\ Append(s, last) \in Seq(S) /\ Len(Append(s, last)) = n + 1
        /\ \A i \in 1 .. n : Append(s, last)[i] = s[i]
        /\ Append(s, last)[n + 1] = last
    BY <2>1, <2>3, AppendProperties
  <2>5. \A i \in 1 .. n + 1 : Append(s, last)[i] = t[i]
    BY <2>2, <2>4 DEF last
  <2>6. t = Append(s, last)
    BY <2>3, <2>4, <2>5, SeqEqual
  <2>7. t = ReadBytes(n + 1) /\ s = ReadBytes(n)
    BY DEF t, s, at_, ReadBytes
  <2>8. last = ByteAt(call.off + (n + 1) - 1)
    BY DEF last, at_
  <2>9. call.off + (n + 1) - 1 = call.off + n
    OBVIOUS
  <2>10. QED
    BY <2>6, <2>7, <2>8, <2>9, Zenon
<1>3. QED
  BY <1>1, <1>2

LEMMA BetweenIsNoRead ==
  ASSUME Between
  PROVE  part' # "read"
BY DEF Between, IsKnown, IsBusy, IsBinary, StartReturns, Commanded, ChipEraseReturns, PageDone, NextPage,
       LoopReturns, ReadReturns, GoTo, Returns, To

\* A read that is sure has a chip whose pages have a power of two of bytes.
LEMMA ReadIsBinary ==
  ASSUME Course, Status, part = "read", ~Busy
  PROVE  binary
<1>1. call.fn = "read"
  BY DEF Course, CourseOf
<1>2. ret # -1
  BY <1>1 DEF Course, CourseOf
<1>3. QED
  BY <1>2 DEF Status, Known

LEMMA NextKeepsFetched ==
  ASSUME IInv, Supply, Control, OnBus, ChipOK, Status, Fetched, [Next]_vars
  PROVE  Fetched'
<1>a. Course
  BY DEF Control
<1>1. CASE Between \/ \E c \in Call : Ask(c)
  <2>1. step' = 1 /\ UNCHANGED <<spi, chip, status, answer>>
    BY <1>1, NewScript
  <2>2. CASE Between
    BY <2>2, BetweenIsNoRead DEF Fetched
  <2>3. CASE \E c \in Call : Ask(c)
    <3>1. sure' <=> ~Busy
      BY <2>3 DEF Ask
    <3>2. Busy' <=> Busy
      BY <2>1 DEF chip, Busy
    <3>3. QED
      BY <2>1, <3>1, <3>2 DEF Fetched
  <2>4. QED
    BY <1>1, <2>2, <2>3
<1>2. CASE /\ DoSelect \/ DoDeselect \/ DoXfer \/ DoReturnExchange
           /\ Advance /\ UNCHANGED <<call, ret, sure>>
  <2>1. part' = part /\ step' = step + 1 /\ step \in Nat /\ at' = "out"
    BY <1>2, StepIsNat DEF Advance, DoSelect, DoDeselect, DoXfer, DoReturnExchange, RxClear, At, Does, spi
  <2>2. SUFFICES ASSUME sure, part = "read"
                 PROVE  ~Busy' /\ (step \in {3, 4} => answer' = ReadBytes(call.n)')
    BY <1>2, <2>1 DEF Fetched
  <2>3. UNCHANGED <<mem, call>>
    BY <1>2 DEF DoSelect, DoDeselect, DoXfer, DoReturnExchange, chip
  <2>4. ReadBytes(call.n)' = ReadBytes(call.n)
    BY <2>3 DEF ReadBytes, ByteAt
  <2>5. ~Busy /\ (step = 4 => answer = ReadBytes(call.n))
    BY <2>2 DEF Fetched
  <2>6. ~Busy'
    <3>1. CASE DoDeselect
      <4>1. step \in DOMAIN Script /\ Script[step].op = "deselect" /\ at = "out"
        BY <3>1, GoingOn
      <4>2. part \notin Commands \cup {"reprogram"} /\ mem \in Mem
        BY <2>2 DEF Commands, ChipOK
      <4>3. Ordered = NoJob
        BY <4>1, <4>2, OrderedFact
      <4>4. QED
        BY <2>5, <3>1, <4>3 DEF DoDeselect, Busy
    <3>2. CASE DoSelect \/ DoXfer \/ DoReturnExchange
      BY <2>5, <3>2 DEF DoSelect, DoXfer, DoReturnExchange, chip, Busy
    <3>3. QED
      BY <1>2, <3>1, <3>2
  <2>7. CASE step = 3
    <3>1. DoReturnExchange /\ at = "rx clear" /\ Script[step].into = "answer"
      BY <1>2, <2>2, <2>7, GoingOn, ReadSteps
    <3>2. answer' = received
      BY <3>1 DEF DoReturnExchange
    <3>3. sending = <<>> /\ line = <<>>
      BY <1>a, <3>1, AllSent
    <3>4. received \o line = ReadBytes(Len(got) - 5)
      <4>1. at # "out" /\ ~Stuck
        BY <3>1 DEF Stuck, Running
      <4>2. QED
        BY <2>2, <2>7, <4>1 DEF Fetched
    <3>5. Len(got) - 5 = call.n
      <4>1. at # "out"
        BY <3>1
      <4>2. got \in Seq(Octet) /\ sending \in Seq(Octet) /\ Len(got) + Len(sending) = 5 + call.n
        BY <1>a, <2>2, <2>7, <4>1, InRead
      <4>3. call.n \in Nat /\ Len(got) \in Nat /\ Len(sending) = 0
        BY <1>a, <2>2, <3>3, <4>2, ReadCall, LenProperties, EmptySeq
      <4>4. QED
        BY <4>2, <4>3
    <3>6. received \o line = received
      <4>1. received \in Seq(Byte)
        BY DEF IInv, LineTypeOK
      <4>2. QED
        BY <3>3, <4>1, ConcatEmptySeq
    <3>7. QED
      BY <2>4, <2>6, <3>2, <3>4, <3>5, <3>6, <2>7, Zenon
  <2>8. CASE step = 4
    <3>1. DoDeselect
      BY <1>2, <2>2, <2>8, GoingOn, ReadSteps
    <3>2. QED
      BY <2>4, <2>5, <2>6, <2>8, <3>1 DEF DoDeselect
  <2>9. QED
    BY <2>6, <2>7, <2>8
<1>3. CASE UNCHANGED driver
  <2>1. UNCHANGED <<part, step, call, answer, sure>>
    BY <1>3 DEF driver, control
  <2>2. SUFFICES ASSUME sure, part = "read" PROVE Fetched'
    BY <2>1 DEF Fetched
  <2>3. ~Busy /\ (step \in {4, 5} => answer = ReadBytes(call.n))
    BY <2>2 DEF Fetched
  <2>4. UNCHANGED <<mem, binary, job>>
    BY <1>3, <2>3, ChipWhileDriverStays DEF ChipReady
  <2>5. /\ ~Busy' /\ (step' \in {4, 5} => answer' = ReadBytes(call.n)')
        /\ \A n : ReadBytes(n)' = ReadBytes(n)
    <3>1. \A n : ReadBytes(n)' = ReadBytes(n)
      BY <2>1, <2>4 DEF ReadBytes, ByteAt
    <3>2. QED
      BY <2>1, <2>3, <2>4, <3>1 DEF Busy
  <2>6. SUFFICES ASSUME at' # "out", step = 3, ~Stuck'
                 PROVE  (received \o line)' = ReadBytes(Len(got') - 5)
    BY <2>1, <2>5 DEF Fetched
  <2>7. ASSUME at # "out", ~Stuck PROVE received \o line = ReadBytes(Len(got) - 5)
    BY <2>2, <2>6, <2>7 DEF Fetched
  <2>8. received \in Seq(Byte) /\ line \in Seq(Byte) /\ call.off \in Nat
    BY <1>a, <2>2, ReadCall DEF IInv, LineTypeOK
  <2>9. CASE DoExchange
    <3>1. at = "out" /\ received' = <<>> /\ line' = line /\ got' = got
      BY <2>9 DEF DoExchange, Does, Exchange, streams, chip
    <3>2. line = <<>>
      BY <3>1 DEF IInv, Over, Quiet
    <3>3. got = AtByte(RDARRAYHF, call.off)
      BY <2>2, <2>6, <3>1, ReadSteps DEF OnBus
    <3>4. Len(got) - 5 = 0
      <4>1. call.off \in 0 .. Pages * Block - 1
        BY <1>a, <2>2, ReadCall
      <4>2. Len(got) = 5
        BY <3>3, <4>1, AtByteFact, CodeFacts, Zenon
      <4>3. QED
        BY <4>2
    <3>5. <<>> \o <<>> = <<>>
      OBVIOUS
    <3>6. QED
      BY <2>8, <3>1, <3>2, <3>4, <3>5, ReadBytesFact, Zenon
  <2>10. CASE Shift
    <3>1. /\ Moves(tx) /\ TxMove(Answer) /\ line' = Append(line, Answer) /\ UNCHANGED <<received, at, rx>>
          /\ got' = Append(got, Head(sending))
      BY <2>10 DEF Shift, TxMove
    <3>2. at # "out" /\ ~Stuck
      BY <2>6, <3>1, InsideFact DEF Stuck
    <3>3. Answer \in Byte
      <4>1. mem \in Mem /\ got \in Seq(Octet) /\ (got = <<>> \/ got[1] # RDSR)
        BY <1>a, <3>2, InExchangeFact DEF ChipOK
      <4>2. QED
        BY <4>1, AnswerFact
    <3>4. sending # <<>> /\ Head(sending) \in Octet
      BY <3>1, <3>3, TxMoveKeepsSupply DEF Octet
    <3>5. binary
      BY <1>a, <2>2, <2>3, ReadIsBinary
    <3>6. Answer = ByteAt(call.off + (Len(got) - 5)) /\ Len(got) - 5 \in Nat
      BY <1>a, <2>2, <2>3, <2>6, <3>2, <3>4, <3>5, AnswerOfRead
    <3>7. got \in Seq(Octet) /\ Len(got) \in Nat
      BY LenProperties DEF OnBus
    <3>8. Len(got') - 5 = (Len(got) - 5) + 1
      <4>1. Len(got') = Len(got) + 1
        BY <3>1, <3>4, <3>7, AppendProperties
      <4>2. QED
        BY <3>7, <4>1
    <3>9. (received \o line)' = Append(received \o line, Answer)
      BY <2>8, <3>1, <3>3, AppendBehind
    <3>10. QED
      BY <2>7, <2>8, <3>2, <3>6, <3>8, <3>9, ReadBytesFact, Zenon
  <2>11. CASE RxMove /\ UNCHANGED chip
    <3>1. /\ Moves(rx) /\ line # <<>> /\ received' = Append(received, Head(line)) /\ line' = Tail(line)
          /\ got' = got
      BY <2>11 DEF RxMove, chip
    <3>2. at # "out" /\ ~Stuck
      BY <3>1, InsideFact DEF Stuck, Moves
    <3>3. (received \o line)' = received \o line
      BY <2>8, <3>1, FirstToLast
    <3>4. QED
      BY <2>7, <3>1, <3>2, <3>3, Zenon
  <2>12. CASE Overrun /\ UNCHANGED chip
    <3>1. Stuck
      BY <2>12, OverrunIsStuck
    <3>2. Stuck'
      BY <2>12, <3>1 DEF Overrun, Stuck
    <3>3. QED
      BY <2>6, <3>2
  <2>13. CASE /\ UNCHANGED <<line, received>> /\ (at = "out" <=> at' = "out")
              /\ UNCHANGED got /\ (Stuck => Stuck' \/ RxIsr)
    <3>1. at # "out" /\ ~Stuck
      BY <2>6, <2>13, RxIsrStaysStuck
    <3>2. QED
      BY <2>7, <2>13, <3>1
  <2>14. QED
    BY <1>3, <2>9, <2>10, <2>11, <2>12, <2>13, BytesSteps
<1>4. QED
  BY <1>1, <1>2, <1>3, DriverSteps

-----------------------------------------------------------------------------
\* What an erase and a write do

LEMMA CommandLength ==
  ASSUME NEW p \in Commands, NEW c, NEW pg
  PROVE  Len(ScriptOf(p, c, pg)) \in {3, 4}
<1>1. CASE p = "chip erase"
  BY <1>1 DEF ScriptOf, ChipErase
<1>2. CASE p = "page erase"
  BY <1>2 DEF ScriptOf, PageErase
<1>3. CASE p = "page write"
  BY <1>3 DEF ScriptOf, PageWrite
<1>4. QED
  BY <1>1, <1>2, <1>3 DEF Commands

\* A command that has yet to be given is not waited for.
LEMMA NotYetWaiting ==
  ASSUME step' = 1, part' # "bsy"
  PROVE  ~Waiting'
<1>1. ASSUME part' \in Commands PROVE Len(Script') \in {3, 4}
  <2>1. Len(ScriptOf(part', call', page')) \in {3, 4}
    BY <1>1, CommandLength
  <2>2. Script' = ScriptOf(part', call', page')
    BY DEF Script
  <2>3. QED
    BY <2>1, <2>2, Zenon
<1>2. QED
  BY <1>1 DEF Waiting

\* Where there is a step of a script there is a script.
LEMMA Scripted ==
  ASSUME step \in DOMAIN Script
  PROVE  part # "none" /\ part # "rounds"
<1>1. ASSUME part = "none" \/ part = "rounds" PROVE FALSE
  <2>1. Script = <<>>
    BY <1>1 DEF Script, ScriptOf
  <2>2. DOMAIN <<>> = 1 .. 0 /\ \A i \in 1 .. 0 : FALSE
    OBVIOUS
  <2>3. QED
    BY <2>1, <2>2, Zenon
<1>2. QED
  BY <1>1

LEMMA AskKeepsProgress ==
  ASSUME NEW c \in Call, Ask(c)
  PROVE  Progress'
<1>1. /\ call' = c /\ (sure' <=> ~Busy) /\ step' = 1 /\ part' # "bsy"
      /\ Looped(c) => page' = c.page
  BY DEF Ask, To
<1>2. Busy' <=> Busy
  BY DEF Ask, chip, Busy
<1>3. ~Waiting'
  BY <1>1, NotYetWaiting
<1>4. ASSUME Looped(c), c.fn \in {"erase", "write"} PROVE c.page .. page' - 1 = {}
  <2>1. Asked(c)
    BY CallAssumption DEF Asked
  <2>2. c.page \in Nat
    BY <1>4, <2>1, LoopedFact
  <2>3. \A n \in Nat : n .. n - 1 = {}
    OBVIOUS
  <2>4. QED
    BY <1>1, <1>4, <2>2, <2>3, Zenon
<1>5. QED
  BY <1>1, <1>2, <1>3, <1>4 DEF Progress

\* The page the loop is at holds what it is to hold.
LEMMA PageAsAsked ==
  ASSUME Course, mem \in Mem, Looped(call), InHand(part) = 1, mem = AsAsked,
         \A p \in call.page .. page - 1 : mem[p] = call.content
  PROVE  \A p \in call.page .. (page + 1) - 1 : mem[p] = call.content
<1>1. page \in 0 .. Pages - 1 /\ page \in call.page .. call.page + call.n - 1
  BY PageInHand
<1>2. mem[page] = call.content
  <2>1. mem = [mem EXCEPT ![page] = call.content] /\ page \in DOMAIN mem
    BY <1>1 DEF AsAsked, Mem
  <2>2. QED
    BY <2>1, Zenon
<1>3. page \in Int
  BY <1>1
<1>4. call.page \in Int
  <2>1. call.fn \in {"erase", "write"} /\ Asked(call)
    BY DEF Looped, Course, CourseOf
  <2>2. QED
    BY <2>1, LoopedFact
<1>5. \A p \in call.page .. (page + 1) - 1 : p = page \/ p \in call.page .. page - 1
  BY <1>3, <1>4
<1>6. QED
  BY <1>2, <1>5, Zenon

LEMMA BetweenKeepsProgress ==
  ASSUME Control, OnBus, ChipOK, Status, Progress, Between
  PROVE  Progress'
<1>a. Course /\ mem \in Mem
  BY DEF Control, ChipOK
<1>b. step' = 1 /\ UNCHANGED <<mem, job, binary>>
  BY NewScript DEF chip
<1>c. UNCHANGED <<call, sure>>
  BY DEF Between, IsKnown, IsBusy, IsBinary, StartReturns, Commanded, ChipEraseReturns, PageDone, NextPage,
         LoopReturns, ReadReturns, IsReady, Leaves
<1> SUFFICES ASSUME sure, call.fn \in {"erase", "write"}
             PROVE  Progress'
  BY <1>c DEF Progress
<1>d. Busy' <=> Busy
  BY <1>b DEF Busy
<1>e. UNCHANGED page => AsAsked' = AsAsked
  BY <1>b, <1>c DEF AsAsked, Looped
<1>1. CASE IsBusy \/ Commanded
  <2>1. Waiting
    <3>1. CASE IsBusy
      BY <3>1 DEF IsBusy, Leaves, Waiting
    <3>2. CASE Commanded
      <4>1. part \in Commands /\ step \notin DOMAIN Script
        BY <3>2 DEF Commanded, Leaves
      <4>2. QED
        BY <4>1, BehindScript DEF Waiting
    <3>3. QED
      BY <1>1, <3>1, <3>2
  <2>2. part' = "bsy" /\ page' = page
    BY <1>1 DEF IsBusy, Commanded, GoTo, To
  <2>3. part' \notin Commands \cup {"rounds"} /\ Waiting'
    BY <2>2 DEF Commands, Waiting
  <2>4. Busy /\ Ours => (Busy /\ Ours)'
    BY <1>b, <1>c, <1>d, <1>e, <2>2, <2>3 DEF Ours
  <2>5. mem = AsAsked => (mem = AsAsked)'
    BY <1>b, <1>e, <2>2
  <2>6. QED
    BY <1>b, <1>c, <2>1, <2>2, <2>3, <2>4, <2>5 DEF Progress, Looped
<1>2. CASE PageDone
  <2>1. IsReady /\ Looped(call) /\ part' = "rounds" /\ page' = page + 1
    BY <1>2 DEF PageDone, To
  <2>2. part = "bsy" /\ ~Busy
    BY <2>1, ReadyFact
  <2>3. mem = AsAsked
    BY <2>2 DEF Progress, Waiting
  <2>4. InHand(part) = 1
    BY <2>2 DEF InHand
  <2>5. \A p \in call.page .. (page + 1) - 1 : mem[p] = call.content
    BY <1>a, <2>1, <2>3, <2>4, PageAsAsked DEF Progress
  <2>6. ~Waiting'
    BY <1>b, <2>1, NotYetWaiting
  <2>7. QED
    BY <1>b, <1>c, <1>d, <2>1, <2>2, <2>5, <2>6 DEF Progress
<1>3. CASE NextPage
  <2>1. part = "rounds" /\ page' = page /\ part' # "bsy"
    BY <1>3 DEF NextPage, Leaves, To
  <2>2. ~Waiting /\ ~Waiting'
    BY <1>b, <2>1, NotYetWaiting DEF Waiting, Commands
  <2>3. ~Busy
    BY <2>1, <2>2 DEF Progress
  <2>4. QED
    BY <1>b, <1>c, <1>d, <2>1, <2>2, <2>3 DEF Progress, Looped
<1>4. CASE ChipEraseReturns \/ LoopReturns
  <2>1. part' = "none" /\ page' = page
    BY <1>4 DEF ChipEraseReturns, LoopReturns, Returns, To
  <2>2. ~Waiting' /\ part' \notin Commands \cup {"rounds"}
    BY <2>1 DEF Waiting, Commands
  <2>3. QED
    BY <1>b, <1>c, <2>1, <2>2 DEF Progress, Looped
<1>5. ~(IsKnown \/ IsBinary \/ StartReturns \/ ReadReturns)
  <2>1. part \notin {"identify", "reprogram", "read"} /\ call.fn # "start"
    BY <1>a DEF Course, CourseOf
  <2>2. QED
    BY <2>1 DEF IsKnown, IsBinary, StartReturns, ReadReturns, Leaves
<1>6. QED
  BY <1>1, <1>2, <1>3, <1>4, <1>5 DEF Between

LEMMA BusKeepsProgress ==
  ASSUME Control, OnBus, ChipOK, Status, Progress,
         DoSelect \/ DoDeselect \/ DoXfer \/ DoReturnExchange
  PROVE  Progress'
<1>a. Course /\ mem \in Mem
  BY DEF Control, ChipOK
<1>b. /\ UNCHANGED <<mem, binary, fitted, part, page, left, call, ret, sure>>
      /\ step' = step + 1 /\ (~DoDeselect => job' = job)
  BY DEF DoSelect, DoDeselect, DoXfer, DoReturnExchange, Advance, chip
<1>c. step \in Nat /\ step \in DOMAIN Script /\ step # Len(Script) + 1 /\ Script' = Script
  BY <1>a, <1>b, GoingOn, StepIsNat, SameScript
<1> SUFFICES ASSUME sure, call.fn \in {"erase", "write"}
             PROVE  Progress'
  BY <1>b DEF Progress
<1>d. AsAsked' = AsAsked
  BY <1>b DEF AsAsked, Looped
<1>e. Looped(call) => (\A p \in call.page .. page - 1 : mem[p] = call.content)
  BY DEF Progress
<1>f. (Looped(call) => (\A p \in call.page .. page - 1 : mem[p] = call.content))'
  BY <1>b, <1>e DEF Looped
<1>g. part # "none" /\ part # "identify" /\ ret # -1 /\ fitted
  <2>1. part # "none" /\ part # "identify"
    <3>1. part # "none"
      BY <1>c, Scripted
    <3>2. QED
      BY <1>a, <3>1 DEF Course, CourseOf
  <2>2. ret # -1
    BY <1>a, <2>1 DEF Course, CourseOf
  <2>3. QED
    BY <2>1, <2>2 DEF Status, Known
<1>1. CASE part = "bsy"
  <2>1. job' = job
    <3>1. CASE DoDeselect
      <4>1. Script[step].op = "deselect" /\ at = "out" /\ part \notin Commands \cup {"reprogram"}
        BY <1>1, <3>1, GoingOn DEF Commands
      <4>2. Ordered = NoJob
        BY <1>a, <1>c, <4>1, OrderedFact
      <4>3. QED
        BY <3>1, <4>2 DEF DoDeselect, Busy
    <3>2. QED
      BY <1>b, <3>1
  <2>2. Waiting /\ Waiting' /\ (part \notin Commands \cup {"rounds"})'
    BY <1>1, <1>b DEF Waiting, Commands
  <2>3. Busy /\ Ours => (Busy /\ Ours)'
    BY <1>b, <1>d, <2>1, <2>2 DEF Ours, Busy
  <2>4. mem = AsAsked => (mem = AsAsked)'
    BY <1>b, <1>d
  <2>5. QED
    BY <1>f, <2>2, <2>3, <2>4 DEF Progress
<1>2. CASE part \in Commands
  <2>1. ~Waiting
    BY <1>2, <1>c DEF Waiting, Commands
  <2>2. ~Busy
    BY <1>2, <2>1 DEF Progress
  <2>3. CASE DoDeselect
    <3>1. Script[step].op = "deselect" /\ at = "out"
      BY <2>3, GoingOn
    <3>2. step = Len(Script) /\ Len(Script) \in {3, 4}
      BY <1>a, <1>c, <1>g, <3>1, FramedNow
    <3>3. selected
      BY <1>g, <3>2 DEF OnBus
    <3>4. job' = [mem |-> AsAsked, binary |-> binary]
      BY <1>2, <1>a, <1>c, <1>g, <2>2, <2>3, <3>1, <3>3, OrderedFact DEF DoDeselect
    <3>5. job' # NoJob /\ job'.mem = AsAsked /\ job'.binary = binary
      <4>1. AsAsked \in Mem /\ binary \in BOOLEAN
        BY <1>a, AsAskedFact DEF ChipOK
      <4>2. QED
        BY <3>4, <4>1, JobFact, Zenon
    <3>6. Waiting'
      BY <1>2, <1>b, <1>c, <3>2 DEF Waiting
    <3>7. (Busy /\ Ours)'
      BY <1>b, <1>d, <3>5, <3>6 DEF Busy, Ours
    <3>8. QED
      BY <1>f, <3>6, <3>7 DEF Progress
  <2>4. CASE ~DoDeselect
    <3>1. Script[step].op # "deselect"
      <4>1. CASE DoSelect
        BY <4>1, GoingOn
      <4>2. CASE DoXfer
        BY <4>2, GoingOn
      <4>3. CASE DoReturnExchange
        BY <4>3, GoingOn
      <4>4. QED
        BY <2>4, <4>1, <4>2, <4>3
    <3>2. step # Len(Script) /\ Len(Script) \in {3, 4}
      BY <1>a, <1>c, <1>g, <3>1, FramedNow
    <3>3. step + 1 # Len(Script) + 1
      BY <1>c, <3>2
    <3>4. ~Waiting'
      BY <1>2, <1>b, <1>c, <3>3 DEF Waiting, Commands
    <3>5. ~Busy'
      BY <1>b, <2>2, <2>4 DEF Busy
    <3>6. QED
      BY <1>f, <3>4, <3>5 DEF Progress
  <2>5. QED
    BY <2>3, <2>4
<1>3. CASE part \notin Commands \cup {"bsy"}
  <2>1. part # "rounds"
    BY <1>c, Scripted
  <2>2. ~Waiting' /\ (part \notin Commands \cup {"rounds"})'
    BY <1>3, <1>b, <2>1 DEF Waiting
  <2>3. QED
    BY <1>f, <2>2 DEF Progress
<1>4. QED
  BY <1>1, <1>2, <1>3

\* The pages behind the loop stay as they are when the page it is at changes.
LEMMA BehindTheLoop ==
  ASSUME Course, mem \in Mem, Looped(call),
         NEW p \in call.page .. page - 1
  PROVE  p \in 0 .. Pages - 1 /\ p # page /\ AsAsked[p] = mem[p]
<1>1. call.fn \in {"erase", "write"} /\ Asked(call)
  BY DEF Looped, Course, CourseOf
<1>2. call.page \in Nat /\ call.n \in Nat /\ call.page + call.n <= Pages
  BY <1>1, LoopedFact
<1>3. page \in Nat /\ left \in Nat /\ page + left + InHand(part) = call.page + call.n
  BY Zenon DEF Course, CourseOf
<1>4. InHand(part) \in {0, 1}
  BY DEF InHand
<1>5. p \in 0 .. Pages - 1 /\ p # page
  BY <1>2, <1>3, <1>4, InChip
<1>6. QED
  BY <1>5 DEF AsAsked, Mem

LEMMA ReadyKeepsProgress ==
  ASSUME Control, ChipOK, Progress, ChipReady
  PROVE  Progress'
<1>a. Course /\ mem \in Mem
  BY DEF Control, ChipOK
<1>b. /\ UNCHANGED <<part, step, page, left, call, ret, sure>>
      /\ Busy /\ mem' = job.mem /\ job' = NoJob
  BY DEF ChipReady, driver, control
<1> SUFFICES ASSUME sure, call.fn \in {"erase", "write"}
             PROVE  Progress'
  BY <1>b DEF Progress
<1>c. ~Busy' /\ (Waiting' <=> Waiting)
  BY <1>b DEF Busy, Waiting, Script
<1>1. CASE Ours
  <2>1. mem' = AsAsked
    BY <1>1, <1>b DEF Ours
  <2>2. AsAsked' = AsAsked
    <3>1. CASE Looped(call)
      <4>1. AsAsked = [mem EXCEPT ![page] = call.content]
            /\ AsAsked' = [AsAsked EXCEPT ![page] = call.content]
        BY <1>b, <2>1, <3>1 DEF AsAsked, Looped
      <4>2. [[mem EXCEPT ![page] = call.content] EXCEPT ![page] = call.content] = [mem EXCEPT ![page] = call.content]
        BY <1>a DEF Mem
      <4>3. QED
        BY <4>1, <4>2, Zenon
    <3>2. CASE ~Looped(call)
      BY <1>b, <3>2 DEF AsAsked, Looped
    <3>3. QED
      BY <3>1, <3>2
  <2>3. (Looped(call) => (\A p \in call.page .. page - 1 : mem[p] = call.content))'
    <3>1. SUFFICES ASSUME Looped(call), NEW p \in call.page .. page - 1
                   PROVE  AsAsked[p] = call.content
      BY <1>b, <2>1 DEF Looped
    <3>2. AsAsked[p] = mem[p]
      BY <1>a, <3>1, BehindTheLoop
    <3>3. mem[p] = call.content
      BY <3>1 DEF Progress
    <3>4. QED
      BY <3>2, <3>3
  <2>4. QED
    BY <1>c, <2>1, <2>2, <2>3 DEF Progress
<1>2. CASE ~Ours
  <2>1. mem' = mem
    BY <1>2, <1>b DEF ChipOK, Reprogramming
  <2>2. Waiting => mem = AsAsked
    BY <1>2 DEF Progress
  <2>3. AsAsked' = AsAsked
    BY <1>b, <2>1 DEF AsAsked, Looped
  <2>4. Looped(call) => (\A p \in call.page .. page - 1 : mem[p] = call.content)
    BY DEF Progress
  <2>5. (Looped(call) => (\A p \in call.page .. page - 1 : mem[p] = call.content))'
    BY <1>b, <2>1, <2>4 DEF Looped
  <2>6. QED
    BY <1>c, <2>1, <2>2, <2>3, <2>5 DEF Progress
<1>3. QED
  BY <1>1, <1>2

LEMMA NextKeepsProgress ==
  ASSUME Control, OnBus, ChipOK, Status, Progress, [Next]_vars
  PROVE  Progress'
<1>1. CASE UNCHANGED driver
  <2>1. UNCHANGED <<part, step, page, left, call, sure>>
    BY <1>1 DEF driver, control
  <2>2. CASE ChipReady
    BY <2>2, ReadyKeepsProgress
  <2>3. CASE UNCHANGED <<mem, binary, job>>
    BY <2>1, <2>3 DEF Progress, Waiting, Busy, Ours, AsAsked, Looped, Script
  <2>4. QED
    BY <1>1, <2>2, <2>3, ChipWhileDriverStays
<1>2. QED
  BY <1>1, AskKeepsProgress, BetweenKeepsProgress, BusKeepsProgress, DriverSteps

-----------------------------------------------------------------------------
\* The invariant

LEMMA InitDriver == Init => DriverInv
<1> SUFFICES ASSUME Init PROVE DriverInv
  OBVIOUS
<1>1. /\ part = "none" /\ step = 1 /\ page = 0 /\ left = 0 /\ call = [fn |-> "start"] /\ ret = -1
      /\ sure = TRUE /\ selected = FALSE /\ got = <<>> /\ job = NoJob /\ at = "out"
      /\ fitted \in BOOLEAN /\ binary \in BOOLEAN /\ mem \in Contents
  BY DEF Init, SpiInit
<1>2. call.fn = "start" /\ ~Looped(call)
  BY <1>1 DEF Looped
<1>3. Script = <<>> /\ HeardNow = << <<>> >>
  BY <1>1 DEF Script, ScriptOf, HeardNow, Heard
<1>4. Len(<<>>) = 0 /\ << <<>> >>[1] = <<>> /\ 1 \in 1 .. 0 + 1
  OBVIOUS
<1>5. Control
  <2>1. Asked(call) /\ part \in Parts
    BY <1>1 DEF Asked, Parts
  <2>2. Course
    BY <1>1, <1>2, <2>1 DEF Course, CourseOf
  <2>3. step \in 1 .. Len(Script) + 1
    BY <1>1, <1>3, <1>4, Zenon
  <2>4. QED
    BY <2>2, <2>3 DEF Control
<1>6. OnBus
  <2>1. got = HeardNow[step] /\ got \in Seq(Octet)
    BY <1>1, <1>3, <1>4, EmptySeq, Zenon
  <2>2. selected <=> step \in 2 .. Len(Script)
    <3>1. 1 \notin 2 .. 0
      OBVIOUS
    <3>2. QED
      BY <1>1, <1>3, <1>4, <3>1, Zenon
  <2>3. QED
    BY <1>1, <2>1, <2>2 DEF OnBus
<1>7. ChipOK
  <2>1. mem \in Mem
    BY <1>1, ChipAssumption DEF Mem
  <2>2. QED
    BY <1>1, <2>1 DEF ChipOK, Busy
<1>8. Status /\ Identified /\ Fetched /\ Progress
  BY <1>1, <1>2 DEF Status, Identified, Fetched, Progress
<1>9. QED
  BY <1>5, <1>6, <1>7, <1>8 DEF DriverInv

LEMMA NextDriver ==
  ASSUME IInv, Supply, DriverInv, [Next]_vars
  PROVE  IInv' /\ Supply' /\ DriverInv'
<1>1. Control /\ OnBus /\ ChipOK /\ Status /\ Identified /\ Fetched /\ Progress
  BY DEF DriverInv
<1>2. [SpiNext]_spi
  BY <1>1, StepIsExchange
<1>3. IInv' /\ Supply'
  BY <1>2, NextIInv, NextSupply
<1>4. Control' /\ OnBus'
  BY <1>1, NextKeepsPlace
<1>5. ChipOK'
  BY <1>1, NextKeepsChip
<1>6. Status' /\ Identified'
  BY <1>1, NextKeepsStatus, NextKeepsIdentified
<1>7. Fetched' /\ Progress'
  BY <1>1, NextKeepsFetched, NextKeepsProgress
<1>8. QED
  BY <1>3, <1>4, <1>5, <1>6, <1>7 DEF DriverInv

DriverIInv == IInv /\ Supply /\ DriverInv

\* What the driver, the chip and the streams keep to at every step: the inductive
\* invariant the other theorems follow from.
THEOREM DriverInvariance == Spec => []DriverIInv
<1>1. Init => DriverIInv
  BY InitDriver, InitIInv, InitSupply DEF Init, DriverIInv
<1>2. DriverIInv /\ [Next]_vars => DriverIInv'
  BY NextDriver DEF DriverIInv
<1>3. QED
  BY <1>1, <1>2, PTL DEF Spec

-----------------------------------------------------------------------------
\* What follows from it

LEMMA TypesFollow == DriverIInv => TypeOK
<1> SUFFICES ASSUME DriverIInv PROVE TypeOK
  OBVIOUS
<1>1. SpiTypeOK /\ Control /\ ChipOK
  BY DEF DriverIInv, IInv, DriverInv
<1>2. Course /\ step \in 1 .. Len(Script) + 1 /\ part \in Parts
  BY <1>1 DEF Control, Course, CourseOf
<1>3. page \in 0 .. Pages /\ left \in 0 .. Pages
  <2>1. page \in Nat /\ left \in Nat
    BY <1>2 DEF Course, CourseOf
  <2>2. CASE Looped(call)
    <3>1. call.page \in Nat /\ call.n \in Nat /\ call.page + call.n <= Pages
      BY <1>2, <2>2, LoopedFact DEF Course, CourseOf, Looped
    <3>2. page + left + InHand(part) = call.page + call.n
      BY <1>2, <2>2, Zenon DEF Course, CourseOf
    <3>3. InHand(part) \in {0, 1}
      BY DEF InHand
    <3>4. QED
      BY <2>1, <3>1, <3>2, <3>3, InChip
  <2>3. CASE ~Looped(call)
    <3>1. page = 0 /\ left = 0
      BY <1>2, <2>3 DEF Course, CourseOf
    <3>2. QED
      BY <3>1, InChip
  <2>4. QED
    BY <2>2, <2>3
<1>4. QED
  BY <1>1, <1>2, <1>3, Zenon DEF TypeOK, ChipOK, Mem

\* The type invariant of the driver.
THEOREM TypeCorrect == Spec => []TypeOK
BY DriverInvariance, TypesFollow, PTL

\* A call that has returned has left nothing under way in the chip but the
\* reprogramming of the page size, which at45db_start does not wait for
\* (at45db.c:80-85, 113, 213, 232).
THEOREM OnlyReprogrammingIsNotWaitedFor == Spec => []OnlyReprogrammingGoesOn
<1>1. DriverIInv => OnlyReprogrammingGoesOn
  <2> SUFFICES ASSUME ChipOK, part = "none", Busy PROVE job.binary # binary
    BY DEF DriverIInv, DriverInv, OnlyReprogrammingGoesOn
  <2>1. ~Ours
    BY DEF Ours, Waiting, Commands
  <2>2. job.binary /\ ~binary
    BY <2>1 DEF ChipOK, Reprogramming
  <2>3. QED
    BY <2>2, Zenon
<1>2. QED
  BY <1>1, DriverInvariance, PTL

\* Under any caller of the driver the exchanges are those of SpiDma, whose actions
\* the driver's are built from, so that all that is proved of SpiSpec holds of them.
LEMMA DriverImplementsExchange == Spec => SpiSpec
<1>1. Init => SpiInit
  BY DEF Init
<1>2. DriverIInv /\ [Next]_vars => [SpiNext]_spi
  BY StepIsExchange DEF DriverIInv, DriverInv
<1>3. QED
  BY <1>1, <1>2, DriverInvariance, PTL DEF Spec, SpiSpec

\* Under the driver too the streams are at rest between two exchanges, and an
\* exchange that returns is whole (at45db.c:51-194, spi.c:99-122, 187-197).
THEOREM AtRestUnderTheDriver == Spec => []AtRest /\ []WholeExchange
BY DriverImplementsExchange, AlwaysAtRest, ExchangesAreWhole, PTL

-----------------------------------------------------------------------------
\* The store

\* Steps the caller does not see.
LEMMA Unseen ==
  ASSUME UNCHANGED <<mem, call, sure, answer>>, part' # "none" <=> part # "none"
  PROVE  UNCHANGED Store!blockstore
<1>1. (part' # "none") = (part # "none")
  OBVIOUS
<1>2. QED
  BY <1>1, Zenon DEF Store!blockstore

LEMMA AskIsAsk ==
  ASSUME ChipOK, NEW c \in Call, Ask(c)
  PROVE  Store!Ask(c)
<1>1. part = "none" /\ call' = c /\ sure' = ~Busy /\ UNCHANGED <<mem, answer>>
  BY DEF Ask, chip
<1>2. part' # "none"
  BY DEF Ask, To
<1>3. (part' # "none") = TRUE
  BY <1>2
<1>4. sure' \in BOOLEAN
  BY <1>1
<1>5. QED
  BY <1>1, <1>3, <1>4, Zenon DEF Store!Ask

\* What the chip does for a call is a change the call asks for.
LEMMA ReadyIsChange ==
  ASSUME Control, ChipOK, ChipReady
  PROVE  Store!Change \/ UNCHANGED Store!blockstore
<1>a. Course /\ mem \in Mem /\ Busy /\ mem' = job.mem
      /\ UNCHANGED <<part, call, sure, answer, page>>
  BY DEF Control, ChipOK, ChipReady, driver, control
<1>1. CASE Ours
  <2>1. Waiting /\ call.fn \in {"erase", "write"} /\ mem' = AsAsked
    BY <1>1, <1>a DEF Ours
  <2>2. part # "none"
    BY <2>1 DEF Waiting, Commands
  <2>3. \E pages \in SUBSET Store!Named(call) :
          mem' = [p \in DOMAIN mem |-> IF p \in pages THEN call.content ELSE mem[p]]
    <3>1. CASE Looped(call)
      <4>1. InHand(part) = 1
        BY <1>a, <2>1, <3>1, Zenon DEF Waiting, Commands, InHand, Course, CourseOf, Looped
      <4>2. page \in Store!Named(call)
        BY <1>a, <3>1, <4>1, PageInHand DEF Store!Named
      <4>3. mem' = [p \in DOMAIN mem |-> IF p \in {page} THEN call.content ELSE mem[p]]
        BY <2>1, <3>1 DEF AsAsked
      <4>4. QED
        BY <4>2, <4>3
    <3>2. CASE ~Looped(call)
      <4>1. Asked(call)
        BY <1>a DEF Course, CourseOf
      <4>2. Erases(call) /\ call.whole
        BY <2>1, <3>2, <4>1, AskedFact DEF Looped
      <4>3. call.page = 0 /\ call.n = Pages /\ call.content = Erased
        BY <4>2 DEF Erases
      <4>4. Store!Named(call) = 0 .. Pages - 1
        BY <4>3, InChip DEF Store!Named
      <4>5. DOMAIN mem = 0 .. Pages - 1
        BY <1>a DEF Mem
      <4>6. mem' = [p \in DOMAIN mem |-> IF p \in Store!Named(call) THEN call.content ELSE mem[p]]
        BY <2>1, <3>2, <4>3, <4>4, <4>5 DEF AsAsked
      <4>7. QED
        BY <4>6
    <3>3. QED
      BY <3>1, <3>2
  <2>4. (part' # "none") = (part # "none")
    BY <1>a
  <2>5. QED
    BY <1>a, <2>1, <2>2, <2>3, <2>4, Zenon DEF Store!Change
<1>2. CASE Reprogramming
  BY <1>2, <1>a, Unseen DEF Reprogramming
<1>3. QED
  BY <1>1, <1>2, <1>a DEF ChipOK

LEMMA BusIsFetch ==
  ASSUME Control, OnBus, DoSelect \/ DoDeselect \/ DoXfer \/ DoReturnExchange
  PROVE  Store!Fetch \/ UNCHANGED Store!blockstore
<1>1. UNCHANGED <<mem, call, part, sure>>
  BY DEF DoSelect, DoDeselect, DoXfer, DoReturnExchange, Advance, chip
<1>2. part # "none"
  BY GoingOn, Scripted
<1>3. (part' # "none") = (part # "none")
  BY <1>1
<1>4. QED
  BY <1>1, <1>2, <1>3, Zenon DEF Store!Fetch

\* A call that returns has done what it was asked for.
LEMMA DoneAsAsked ==
  ASSUME Control, OnBus, ChipOK, Status, Fetched, Progress, Between, part' = "none", sure
  PROVE  /\ call.fn = "read" => answer = [k \in 1 .. call.n |-> Store!Byte(call.off + k - 1)]
         /\ call.fn \in {"erase", "write"} => \A p \in Store!Named(call) : mem[p] = call.content
<1>a. Course /\ Asked(call)
  BY DEF Control, Course, CourseOf
<1>1. ASSUME call.fn = "read"
      PROVE  answer = [k \in 1 .. call.n |-> Store!Byte(call.off + k - 1)]
  <2>1. part # "none" /\ step \notin DOMAIN Script
    BY DEF Between, IsKnown, IsBusy, IsBinary, StartReturns, Commanded, ChipEraseReturns, PageDone, NextPage,
         LoopReturns, ReadReturns, IsReady, Leaves, Commands
  <2>2. part = "read"
    BY <1>1, <1>a, <2>1 DEF Course, CourseOf
  <2>3. step = Len(Script) + 1
    BY <2>1, BehindScript
  <2>4. Len(Script) = 4
    BY <2>2 DEF Script, ScriptOf, Read
  <2>5. step = 5
    BY <2>3, <2>4
  <2>6. answer = ReadBytes(call.n)
    BY <2>2, <2>5 DEF Fetched
  <2>7. QED
    BY <2>6 DEF ReadBytes, ByteAt, Store!Byte
<1>2. ASSUME call.fn \in {"erase", "write"}
      PROVE  \A p \in Store!Named(call) : mem[p] = call.content
  <2>1. call.page \in Nat /\ call.n \in Nat
    BY <1>2, <1>a, LoopedFact
  <2>2. ChipEraseReturns \/ LoopReturns
    <3>1. part # "read" /\ part # "identify" /\ part # "reprogram"
      BY <1>2, <1>a DEF Course, CourseOf
    <3>2. ~(IsKnown \/ IsBinary \/ StartReturns \/ ReadReturns)
      BY <1>2, <3>1 DEF IsKnown, IsBinary, StartReturns, ReadReturns, Leaves
    <3>3. ~(IsBusy \/ Commanded \/ PageDone \/ NextPage)
      BY DEF IsBusy, Commanded, PageDone, NextPage, GoTo, To
    <3>4. QED
      BY <3>2, <3>3 DEF Between
  <2>3. CASE ChipEraseReturns
    <3>1. IsReady /\ call.fn = "erase" /\ call.whole
      BY <2>3 DEF ChipEraseReturns
    <3>2. part = "bsy" /\ ~Busy
      BY <3>1, ReadyFact
    <3>3. mem = AsAsked
      BY <1>2, <3>2 DEF Progress, Waiting
    <3>4. Erases(call) /\ ~Looped(call)
      BY <1>a, <3>1, AskedFact DEF Looped
    <3>5. call.page = 0 /\ call.n = Pages /\ call.content = Erased
      BY <3>1, <3>4 DEF Erases
    <3>6. Store!Named(call) = 0 .. Pages - 1
      BY <3>5, InChip DEF Store!Named
    <3>7. mem = [p \in 0 .. Pages - 1 |-> Erased]
      BY <3>3, <3>4 DEF AsAsked
    <3>8. QED
      BY <3>5, <3>6, <3>7, Zenon
  <2>4. CASE LoopReturns
    <3>1. part = "rounds" /\ left = 0
      BY <2>4 DEF LoopReturns, Leaves
    <3>2. Looped(call)
      BY <1>a, <3>1 DEF Course, CourseOf
    <3>3. page \in Nat /\ page + left + InHand(part) = call.page + call.n
      BY <1>a, <3>2, Zenon DEF Course, CourseOf
    <3>4. InHand(part) = 0
      BY <3>1 DEF InHand
    <3>5. page = call.page + call.n
      BY <2>1, <3>1, <3>3, <3>4
    <3>6. Store!Named(call) = call.page .. page - 1
      <4>1. \A p : p \in Store!Named(call) <=> p \in call.page .. page - 1
        BY <2>1, <3>5 DEF Store!Named
      <4>2. QED
        BY <4>1 DEF Store!Named
    <3>7. \A p \in call.page .. page - 1 : mem[p] = call.content
      BY <1>2, <3>2 DEF Progress
    <3>8. QED
      BY <3>6, <3>7, Zenon
  <2>5. QED
    BY <2>2, <2>3, <2>4
<1>3. QED
  BY <1>1, <1>2

LEMMA BetweenIsReturn ==
  ASSUME Control, OnBus, ChipOK, Status, Fetched, Progress, Between
  PROVE  Store!Return \/ UNCHANGED Store!blockstore
<1>1. part # "none" /\ UNCHANGED <<mem, call, sure, answer>>
  BY DEF Between, IsKnown, IsBusy, IsBinary, StartReturns, Commanded, ChipEraseReturns, PageDone, NextPage,
         LoopReturns, ReadReturns, IsReady, Leaves, Commands, chip
<1>2. CASE part' = "none"
  <2>1. ~(part' # "none")
    BY <1>2
  <2>2. (part' # "none") = FALSE
    BY <2>1
  <2>3. /\ sure /\ call.fn = "read" => answer = [k \in 1 .. call.n |-> Store!Byte(call.off + k - 1)]
        /\ sure /\ call.fn \in {"erase", "write"} => \A p \in Store!Named(call) : mem[p] = call.content
    BY <1>2, DoneAsAsked
  <2>4. QED
    BY <1>1, <2>2, <2>3, Zenon DEF Store!Return
<1>3. CASE part' # "none"
  BY <1>1, <1>3, Unseen
<1>4. QED
  BY <1>2, <1>3

LEMMA StepIsStore ==
  ASSUME DriverIInv, [Next]_vars
  PROVE  [Store!StoreNext]_Store!blockstore
<1>a. Control /\ OnBus /\ ChipOK /\ Status /\ Fetched /\ Progress
  BY DEF DriverIInv, DriverInv
<1>1. CASE Between
  BY <1>1, <1>a, BetweenIsReturn DEF Store!StoreNext
<1>2. CASE \E c \in Call : Ask(c)
  BY <1>2, <1>a, AskIsAsk DEF Store!StoreNext
<1>3. CASE DoSelect \/ DoDeselect \/ DoXfer \/ DoReturnExchange
  BY <1>3, <1>a, BusIsFetch DEF Store!StoreNext
<1>4. CASE UNCHANGED driver
  <2>1. UNCHANGED <<part, call, answer, sure>>
    BY <1>4 DEF driver, control
  <2>2. CASE ChipReady
    BY <2>2, <1>a, ReadyIsChange DEF Store!StoreNext
  <2>3. CASE UNCHANGED mem
    BY <2>1, <2>3, Unseen
  <2>4. QED
    BY <1>4, <1>a, <2>2, <2>3, ChipWhileDriverStays
<1>5. QED
  BY <1>1, <1>2, <1>3, <1>4, DriverSteps

\* The driver, over the streams and their interrupts, is a store of pages: a read
\* delivers what is stored, an erase and a write are done when they return, and
\* no page changes that the call does not name (at45db.c:100-172, 196-233).
THEOREM DriverImplementsBlockStore == Spec => ImplementsBlockStore
<1>1. Init => Store!StoreInit
  <2>1. Init => part = "none"
    BY DEF Init
  <2>2. part = "none" => (part # "none") = FALSE
    OBVIOUS
  <2>3. QED
    BY <2>1, <2>2, Zenon DEF Store!StoreInit
<1>2. DriverIInv /\ [Next]_vars => [Store!StoreNext]_Store!blockstore
  BY StepIsStore
<1>3. QED
  BY <1>1, <1>2, DriverInvariance, PTL DEF Spec, Store!StoreSpec, ImplementsBlockStore

=============================================================================
