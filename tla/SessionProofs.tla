--------------------------- MODULE SessionProofs ---------------------------
(***************************************************************************)
(* Proofs about the framing and the timers, for every timeout, ring, frame  *)
(* length and packet: silence brings the program back to where it reads a   *)
(* command, and ends its session.                                          *)
(***************************************************************************)
EXTENDS AnyBytes, SequenceTheorems, TLAPS

\* What is being read belongs to a command, and what is carried out or answered
\* has been read.
ReadsCommand ==
  /\ Busy => phase # "command"
  /\ phase = "body" => cmd \in Command
  /\ phase \in {"size", "payload", "tail"} => cmd = "FLASH_DATA"

\* The timers run down from their timeouts, and time does not pass a get_byte
\* whose timer has run out by.
TimersRun ==
  /\ timer.IO <= IO_TIMEOUT /\ timer.BL <= BL_TIMEOUT
  /\ polled = 2 => timer.IO > 0

\* Bytes in the ring are read before the second tick after they arrived.
RingDrains ==
  /\ quiet >= 2 => ring = <<>>
  /\ quiet >= 1 /\ polled >= 1 => ring = <<>>

\* How long the silence can have lasted, with what the timer still has: one
\* timeout inside a frame, two at its end.
FrameWaits ==
  /\ phase \in {"body", "size", "payload"} => quiet + timer.IO <= IO_TIMEOUT + 1
  /\ phase = "tail" => quiet + timer.IO <= 2 * IO_TIMEOUT + 1

\* The inactivity timer runs out with the silence, and what is waited for
\* then is the last byte of the session.
SessionWaits ==
  /\ timer.BL > 0 => quiet + timer.BL <= BL_TIMEOUT + 1
  /\ state = "SESSION" /\ phase = "command" =>
       quiet + timer.IO <= BL_TIMEOUT + IO_TIMEOUT + 1

IInv == TypeOK /\ ReadsCommand /\ TimersRun /\ RingDrains /\ FrameWaits /\ SessionWaits

-----------------------------------------------------------------------------
\* Constants, clocks and bytes

LEMMA ConstantFact ==
  /\ IO_TIMEOUT \in Nat /\ IO_TIMEOUT > 0
  /\ BL_TIMEOUT \in Nat /\ 2 * IO_TIMEOUT <= BL_TIMEOUT
  /\ RingSize \in Nat
  /\ QuietMax \in Nat /\ QuietMax = BL_TIMEOUT + IO_TIMEOUT + 2
  /\ \A c \in Command : FrameLength[c] \in Nat /\ FrameLength[c] >= 2
  /\ FrameLength["FLASH_DATA"] - 4 \in PayloadSize
  /\ \A n \in PayloadSize : n \in Nat \ {0}
BY SessionAssumption DEF QuietMax

LEMMA CommandFact ==
  /\ "HANDSHAKE" \in Command /\ "EOS" \in Command /\ "FLASH_DATA" \in Command
  /\ Expected \subseteq Command
BY DEF Command, Expected

\* The clocks as numbers.
LEMMA ClockFact ==
  ASSUME TypeOK
  PROVE  timer.IO \in Nat /\ timer.BL \in Nat /\ quiet \in Nat /\ polled \in 0 .. 2
BY ConstantFact DEF TypeOK

\* Setting the timers.
LEMMA TimerSet ==
  ASSUME NEW a \in Nat, NEW b \in Nat,
         NEW f, f = [IO |-> a, BL |-> b]
  PROVE  f \in [{"IO", "BL"} -> Nat] /\ f.IO = a /\ f.BL = b
OBVIOUS

LEMMA TimerRearmed ==
  ASSUME NEW f \in [{"IO", "BL"} -> Nat], NEW a \in Nat,
         NEW g, g = [f EXCEPT !.IO = a]
  PROVE  g \in [{"IO", "BL"} -> Nat] /\ g.IO = a /\ g.BL = f.BL
OBVIOUS

LEMMA TimerTicks ==
  ASSUME NEW f \in [{"IO", "BL"} -> Nat],
         NEW g, g = [t \in DOMAIN f |-> IF f[t] > 0 THEN f[t] - 1 ELSE 0]
  PROVE  /\ g \in [{"IO", "BL"} -> Nat]
         /\ g.IO = IF f.IO > 0 THEN f.IO - 1 ELSE 0
         /\ g.BL = IF f.BL > 0 THEN f.BL - 1 ELSE 0
OBVIOUS

\* What the ring holds after a packet, and after a byte was read.
LEMMA RingTakes ==
  ASSUME NEW S, NEW r \in Seq(S), NEW p \in Seq(S), NEW n \in Nat, Len(r) <= n,
         NEW m, m = IF Len(p) < n - Len(r) THEN Len(p) ELSE n - Len(r)
  PROVE  r \o SubSeq(p, 1, m) \in Seq(S) /\ Len(r \o SubSeq(p, 1, m)) <= n
<1>1. Len(r) \in Nat /\ Len(p) \in Nat
  BY LenProperties
<1>2. m \in 0 .. Len(p) /\ Len(r) + m <= n
  BY <1>1
<1>3. SubSeq(p, 1, m) \in Seq(S) /\ Len(SubSeq(p, 1, m)) = m
  <2>1. CASE m = 0
    <3>1. SubSeq(p, 1, m) = <<>>
      BY <2>1, SubSeqProperties
    <3> QED BY <2>1, <3>1, EmptySeq
  <2>2. CASE m > 0
    <3>1. 1 \in 1 .. Len(p) /\ m \in 1 - 1 .. Len(p)
      BY <1>1, <1>2, <2>2
    <3> QED BY <1>1, <1>2, <2>2, <3>1, SubSeqProperties
  <2> QED BY <1>2, <2>1, <2>2
<1> QED BY <1>1, <1>2, <1>3, ConcatProperties

LEMMA RingGives ==
  ASSUME NEW S, NEW r \in Seq(S), r # <<>>, NEW n \in Nat, Len(r) <= n
  PROVE  Tail(r) \in Seq(S) /\ Len(Tail(r)) <= n
BY HeadTailProperties, LenProperties

-----------------------------------------------------------------------------
\* The invariant holds at first, and the interrupts preserve it

LEMMA InitIInv == Init => IInv
<1> SUFFICES ASSUME Init PROVE IInv
  OBVIOUS
<1>1. timer \in [{"IO", "BL"} -> Nat] /\ timer.IO = IO_TIMEOUT /\ timer.BL = 0
  BY ConstantFact, TimerSet DEF Init
<1>2. ring \in Seq(Byte) /\ Len(ring) <= RingSize
  BY ConstantFact, EmptySeq DEF Init
<1>3. whole \in BOOLEAN
  BY Zenon DEF Init
<1>4. TypeOK
  BY <1>1, <1>2, <1>3, ConstantFact DEF Init, TypeOK, PC, Phase, NoReply
<1> QED BY <1>1, <1>4, ConstantFact
  DEF Init, IInv, ReadsCommand, Busy, TimersRun, RingDrains, FrameWaits, SessionWaits

LEMMA ArriveIInv ==
  ASSUME IInv, NEW p \in Packet, Arrive(p)
  PROVE  IInv'
<1>1. /\ TypeOK /\ quiet' = 0
      /\ UNCHANGED <<timer, polled, pc, phase, need, cmd, whole, state, endpoint, message>>
  BY DEF IInv, Arrive, reading
<1>2. ring' \in Seq(Byte) /\ Len(ring') <= RingSize
  <2>1. p \in Seq(Byte) /\ ring \in Seq(Byte) /\ Len(ring) <= RingSize
    BY <1>1, PacketAssumption DEF TypeOK
  <2> DEFINE room == RingSize - Len(ring)
             m == IF Len(p) < room THEN Len(p) ELSE room
  <2>2. ring' = ring \o SubSeq(p, 1, m)
    BY DEF Arrive
  <2> HIDE DEF m
  <2>3. m = IF Len(p) < RingSize - Len(ring) THEN Len(p) ELSE RingSize - Len(ring)
    BY DEF m
  <2> QED BY <2>1, <2>2, <2>3, RingTakes, ConstantFact
<1>3. whole' \in BOOLEAN
  BY <1>1, Zenon DEF TypeOK
<1>4. TypeOK'
  BY <1>1, <1>2, <1>3, ConstantFact DEF TypeOK
<1> QED BY <1>1, <1>4, ClockFact, ConstantFact
  DEF IInv, ReadsCommand, Busy, TimersRun, RingDrains, FrameWaits, SessionWaits

LEMMA TickIInv == IInv /\ Tick => IInv'
<1> SUFFICES ASSUME IInv, Tick PROVE IInv'
  OBVIOUS
<1>1. /\ TypeOK /\ polled' = 0
      /\ UNCHANGED <<ring, pc, phase, need, cmd, whole, state, endpoint, message>>
      /\ quiet' = IF Busy THEN 0 ELSE IF quiet < QuietMax THEN quiet + 1 ELSE quiet
      /\ Busy \/ polled = 2
  BY DEF IInv, Tick, reading
<1>2. /\ timer' \in [{"IO", "BL"} -> Nat]
      /\ timer'.IO = IF timer.IO > 0 THEN timer.IO - 1 ELSE 0
      /\ timer'.BL = IF timer.BL > 0 THEN timer.BL - 1 ELSE 0
  <2>1. timer \in [{"IO", "BL"} -> Nat] /\ timer' = [t \in DOMAIN timer |-> IF timer[t] > 0 THEN timer[t] - 1 ELSE 0]
    BY <1>1 DEF TypeOK, Tick
  <2> QED BY <2>1, TimerTicks
<1>3. /\ timer.IO \in Nat /\ timer.BL \in Nat /\ quiet \in Nat /\ polled \in 0 .. 2
      /\ quiet <= QuietMax /\ quiet' \in 0 .. QuietMax
      /\ quiet' = 0 \/ (quiet' <= quiet + 1 /\ polled = 2 /\ timer.IO > 0)
  BY <1>1, ClockFact, ConstantFact DEF TypeOK, IInv, TimersRun
<1>4. whole' \in BOOLEAN
  BY <1>1, Zenon DEF TypeOK
<1>5. TypeOK'
  BY <1>1, <1>2, <1>3, <1>4 DEF TypeOK
<1>6. ReadsCommand'
  BY <1>1 DEF IInv, ReadsCommand, Busy
<1>7. TimersRun' /\ RingDrains'
  <2>1. /\ timer'.IO <= timer.IO /\ timer'.BL <= timer.BL
        /\ timer'.IO \in Nat /\ timer'.BL \in Nat
    BY <1>2, <1>3
  <2>2. TimersRun'
    BY <1>1, <1>3, <2>1, ConstantFact DEF IInv, TimersRun
  <2>3. quiet' >= 1 => polled = 2 /\ (quiet' >= 2 => quiet >= 1)
    BY <1>3
  <2> QED BY <1>1, <2>2, <2>3 DEF IInv, RingDrains
<1>8. FrameWaits'
  BY <1>1, <1>2, <1>3, ConstantFact DEF IInv, TimersRun, FrameWaits
<1>9. SessionWaits'
  BY <1>1, <1>2, <1>3, ConstantFact DEF IInv, TimersRun, SessionWaits
<1> QED BY <1>5, <1>6, <1>7, <1>8, <1>9 DEF IInv

LEMMA TakeIInv == IInv /\ Take => IInv'
<1> SUFFICES ASSUME IInv, Take PROVE IInv'
  OBVIOUS
<1>1. /\ UNCHANGED <<ring, timer, polled, quiet, pc, phase, need, cmd, whole, state, message>>
      /\ endpoint' = NoReply
  BY DEF Take, clock, reading
<1>2. whole' \in BOOLEAN
  BY <1>1, Zenon DEF IInv, TypeOK
<1>3. TypeOK'
  BY <1>1, <1>2 DEF IInv, TypeOK, NoReply
<1> QED BY <1>1, <1>3
  DEF IInv, ReadsCommand, Busy, TimersRun, RingDrains, FrameWaits, SessionWaits

-----------------------------------------------------------------------------
\* A byte is read

\* The program waits for a further byte, with the timer set anew.
Waits ==
  /\ pc' = "poll" /\ phase' \in Phase /\ need' \in Nat \ {0}
  /\ timer'.IO = IO_TIMEOUT /\ timer'.BL \in {timer.BL, BL_TIMEOUT}
  /\ timer' \in [{"IO", "BL"} -> Nat]
  /\ cmd' \in Command \cup {"NONE"} /\ ReadsCommand'
  /\ message' = message

\* It has read what it wanted, or refuses it.
Ends ==
  /\ pc' \in {"work", "send"} /\ phase # "command"
  /\ UNCHANGED <<timer, phase, need, cmd>>
  /\ message' = message \/ message'.to = cmd

LEMMA AwaitFact ==
  ASSUME TypeOK, NEW what \in Phase, NEW n \in Nat \ {0}, Await(what, n),
         cmd' \in Command \cup {"NONE"}, message' = message,
         what = "body" => cmd' \in Command,
         what \in {"size", "payload", "tail"} => cmd' = "FLASH_DATA"
  PROVE  Waits /\ timer'.BL = timer.BL
<1>1. timer \in [{"IO", "BL"} -> Nat] /\ timer' = [timer EXCEPT !.IO = IO_TIMEOUT]
  BY DEF TypeOK, Await
<1>2. timer' \in [{"IO", "BL"} -> Nat] /\ timer'.IO = IO_TIMEOUT /\ timer'.BL = timer.BL
  BY <1>1, TimerRearmed, ConstantFact
<1>3. pc' = "poll" /\ phase' = what /\ need' = n
  BY DEF Await
<1> QED BY <1>2, <1>3 DEF Waits, ReadsCommand, Busy

LEMMA ResumeFact ==
  ASSUME TypeOK, Resume, message' = message
  PROVE  Waits /\ phase' = "command" /\ timer'.BL = timer.BL
<1>1. Await("command", 1) /\ cmd' = "NONE" /\ "command" \in Phase
  BY DEF Resume, Phase
<1>2. phase' = "command"
  BY <1>1 DEF Await
<1> QED BY <1>1, <1>2, AwaitFact

LEMMA AnswerFact ==
  ASSUME phase # "command", NEW status, Answer(status)
  PROVE  Ends
BY DEF Answer, Reply, Ends

LEMMA RefuseFact ==
  ASSUME TypeOK, phase # "command", NEW status, Refuse(status)
  PROVE  Ends \/ (Waits /\ phase' = "command" /\ cmd = "HANDSHAKE" /\ timer'.BL = timer.BL)
<1>1. CASE cmd = "HANDSHAKE"
  <2>1. Resume /\ message' = message
    BY <1>1 DEF Refuse
  <2> QED BY <1>1, <2>1, ResumeFact
<1>2. CASE cmd # "HANDSHAKE"
  <2>1. Answer(status)
    BY <1>2 DEF Refuse
  <2> QED BY <2>1, AnswerFact
<1> QED BY <1>1, <1>2

LEMMA ReadCommandFact ==
  ASSUME TypeOK, NEW byte, ReadCommand(byte)
  PROVE  Waits
<1>1. timer' = [IO |-> IO_TIMEOUT, BL |-> BL_TIMEOUT] /\ pc' = "poll" /\ message' = message
  BY DEF ReadCommand
<1>2. /\ timer' \in [{"IO", "BL"} -> Nat] /\ timer'.IO = IO_TIMEOUT /\ timer'.BL = BL_TIMEOUT
  BY <1>1, TimerSet, ConstantFact
<1>3. CASE phase' = "command" /\ need' = 1 /\ cmd' = "NONE"
  BY <1>1, <1>2, <1>3 DEF Waits, Phase, ReadsCommand, Busy
<1>4. CASE \E c \in Meaning(byte) \cap Expected :
             /\ cmd' = c
             /\ \/ c = "FLASH_DATA" /\ phase' = "size" /\ need' = 1
                \/ c # "FLASH_DATA" /\ phase' = "body" /\ need' = FrameLength[c] - 1
  <2>1. PICK c \in Command :
          /\ cmd' = c
          /\ \/ c = "FLASH_DATA" /\ phase' = "size" /\ need' = 1
             \/ c # "FLASH_DATA" /\ phase' = "body" /\ need' = FrameLength[c] - 1
    BY <1>4, CommandFact
  <2>2. need' \in Nat \ {0}
    BY <2>1, ConstantFact
  <2> QED BY <1>1, <1>2, <2>1, <2>2 DEF Waits, Phase, ReadsCommand, Busy
<1> QED BY <1>3, <1>4 DEF ReadCommand

LEMMA ReadCheckedFact ==
  ASSUME IInv, phase \in {"body", "tail"}, NEW byte, ReadChecked(byte)
  PROVE  Waits \/ Ends
<1>1. TypeOK /\ need \in Nat \ {0} /\ phase \in Phase /\ cmd \in Command
      /\ (phase = "tail" => cmd = "FLASH_DATA")
  BY CommandFact DEF IInv, TypeOK, ReadsCommand
<1>2. CASE need > 1 /\ Await(phase, need - 1) /\ cmd' = cmd /\ message' = message
  <2>1. need - 1 \in Nat \ {0}
    BY <1>1, <1>2
  <2> QED BY <1>1, <1>2, <2>1, AwaitFact
<1>3. CASE Accept
  BY <1>3 DEF Accept, Ends
<1>4. CASE Refuse("CRCERR")
  BY <1>1, <1>4, RefuseFact
<1> QED BY <1>2, <1>3, <1>4 DEF ReadChecked

LEMMA ReadSizeFact ==
  ASSUME IInv, phase = "size", NEW byte, ReadSize(byte)
  PROVE  Waits \/ Ends
<1>1. TypeOK /\ cmd = "FLASH_DATA" /\ "payload" \in Phase
  BY DEF IInv, ReadsCommand, Busy, Phase
<1>2. CASE \E n \in PayloadSize : Await("payload", n) /\ cmd' = cmd /\ message' = message
  <2>1. PICK n \in Nat \ {0} : Await("payload", n) /\ cmd' = cmd /\ message' = message
    BY <1>2, ConstantFact
  <2> QED BY <1>1, <2>1, AwaitFact, CommandFact
<1>3. CASE Answer("ARGERR")
  BY <1>3, AnswerFact
<1>4. FrameLength[cmd] - 4 \in PayloadSize
  BY <1>1, ConstantFact
<1> QED BY <1>2, <1>3, <1>4 DEF ReadSize

LEMMA ReadPayloadFact ==
  ASSUME IInv, phase = "payload", ReadPayload
  PROVE  Waits
<1>1. /\ TypeOK /\ cmd = "FLASH_DATA" /\ need \in Nat \ {0}
      /\ "payload" \in Phase /\ "tail" \in Phase /\ cmd' = cmd /\ message' = message
  BY DEF IInv, TypeOK, ReadsCommand, Phase, ReadPayload
<1>2. CASE need > 1 /\ Await("payload", need - 1)
  <2>1. need - 1 \in Nat \ {0}
    BY <1>1, <1>2
  <2> QED BY <1>1, <1>2, <2>1, AwaitFact, CommandFact
<1>3. CASE Await("tail", 2)
  <2>1. 2 \in Nat \ {0}
    OBVIOUS
  <2> QED BY <1>1, <1>3, <2>1, AwaitFact, CommandFact
<1> QED BY <1>2, <1>3 DEF ReadPayload

\* Whatever is read, the program still knows whether it was one frame.
LEMMA GetByteWhole ==
  ASSUME IInv, GetByte
  PROVE  whole' \in BOOLEAN
<1>1. whole \in BOOLEAN
  BY DEF IInv, TypeOK
<1>2. ASSUME NEW byte, NEW k PROVE Continues(byte, k) \in BOOLEAN
  BY Zenon DEF Continues
<1>3. ASSUME NEW status PROVE Refuse(status) => whole' \in BOOLEAN
  BY <1>1, Zenon DEF Refuse, Resume, Answer
<1>4. ASSUME NEW byte PROVE ReadCommand(byte) => whole' \in BOOLEAN
  BY Zenon DEF ReadCommand
<1>5. ASSUME NEW byte PROVE ReadChecked(byte) => whole' \in BOOLEAN
  BY <1>2, <1>3, Zenon DEF ReadChecked, Accept
<1>6. ASSUME NEW byte PROVE ReadSize(byte) => whole' \in BOOLEAN
  BY <1>2, Zenon DEF ReadSize, Answer
<1>7. ReadPayload => whole' \in BOOLEAN
  BY <1>1, Zenon DEF ReadPayload
<1> QED BY <1>4, <1>5, <1>6, <1>7, Zenon DEF GetByte

LEMMA GetByteIInv == IInv /\ GetByte => IInv'
<1> SUFFICES ASSUME IInv, GetByte PROVE IInv'
  OBVIOUS
<1>1. /\ TypeOK /\ pc = "poll" /\ ring # <<>> /\ ring' = Tail(ring) /\ phase \in Phase
      /\ UNCHANGED <<polled, quiet, state, endpoint>>
  BY DEF IInv, TypeOK, GetByte
<1>2. Waits \/ Ends
  BY <1>1, ReadCommandFact, ReadCheckedFact, ReadSizeFact, ReadPayloadFact DEF GetByte
<1>3. /\ timer.IO \in Nat /\ timer.BL \in Nat /\ quiet \in Nat /\ polled \in 0 .. 2
      /\ quiet <= 1
  BY <1>1, ClockFact DEF IInv, RingDrains
<1>4. ring' \in Seq(Byte) /\ Len(ring') <= RingSize
  BY <1>1, RingGives, ConstantFact DEF TypeOK
<1>5. /\ pc' \in PC /\ phase' \in Phase /\ need' \in Nat \ {0} /\ cmd' \in Command \cup {"NONE"}
      /\ timer' \in [{"IO", "BL"} -> Nat] /\ message'.to \in Command \cup {"NONE"}
  BY <1>1, <1>2 DEF Waits, Ends, TypeOK, PC
<1>6. TypeOK'
  BY <1>1, <1>4, <1>5, GetByteWhole DEF TypeOK
<1>7. ReadsCommand'
  BY <1>2 DEF Waits, Ends, IInv, ReadsCommand, Busy
<1>8. RingDrains'
  BY <1>1, <1>3 DEF IInv, RingDrains
<1>9. CASE Waits
  <2>1. timer'.IO = IO_TIMEOUT /\ (timer'.BL = timer.BL \/ timer'.BL = BL_TIMEOUT)
    BY <1>9 DEF Waits
  <2>2. TimersRun' /\ FrameWaits' /\ SessionWaits'
    BY <1>1, <1>3, <2>1, ConstantFact DEF IInv, TimersRun, FrameWaits, SessionWaits
  <2> QED BY <1>6, <1>7, <1>8, <2>2 DEF IInv
<1>10. CASE Ends
  <2>1. TimersRun' /\ FrameWaits' /\ SessionWaits'
    BY <1>1, <1>10 DEF Ends, IInv, TimersRun, FrameWaits, SessionWaits
  <2> QED BY <1>6, <1>7, <1>8, <2>1 DEF IInv
<1> QED BY <1>2, <1>9, <1>10

-----------------------------------------------------------------------------
\* No byte is there

LEMMA GetNothingIInv == IInv /\ GetNothing => IInv'
<1> SUFFICES ASSUME IInv, GetNothing PROVE IInv'
  OBVIOUS
<1>1. /\ TypeOK /\ ring = <<>> /\ pc' = "check" /\ polled' = IF polled = 0 THEN 1 ELSE polled
      /\ UNCHANGED <<ring, timer, quiet, phase, need, cmd, whole, state, endpoint, message>>
  BY DEF IInv, GetNothing, reading
<1>2. polled \in 0 .. 2 /\ polled' \in 0 .. 2 /\ (polled' = 2 => polled = 2)
  BY <1>1 DEF TypeOK
<1>3. whole' \in BOOLEAN
  BY <1>1, Zenon DEF TypeOK
<1>4. TypeOK'
  BY <1>1, <1>2, <1>3 DEF TypeOK, PC
<1> QED BY <1>1, <1>2, <1>4
  DEF IInv, ReadsCommand, Busy, TimersRun, RingDrains, FrameWaits, SessionWaits

LEMMA GiveUpWhole ==
  ASSUME IInv, GiveUp
  PROVE  whole' \in BOOLEAN
<1>1. whole \in BOOLEAN
  BY DEF IInv, TypeOK
<1> QED BY <1>1, Zenon DEF GiveUp, reading, Refuse, Resume, Answer

\* A get_byte gives up with its timer at zero: a payload's is followed by one
\* for the two bytes behind it, all others leave the frame.
LEMMA GiveUpFact ==
  ASSUME IInv, GiveUp
  PROVE  \/ pc' = "inactive" /\ UNCHANGED <<timer, phase, need, cmd, message>>
         \/ Waits /\ phase' = "command" /\ phase = "body" /\ timer'.BL = timer.BL
         \/ Waits /\ phase' = "tail" /\ phase = "payload" /\ timer'.BL = timer.BL
         \/ Ends
<1>1. TypeOK /\ cmd \in Command \cup {"NONE"}
  BY DEF IInv, TypeOK
<1>2. CASE phase = "command" /\ pc' = "inactive" /\ UNCHANGED <<timer, reading, message>>
  BY <1>2 DEF reading
<1>3. CASE phase = "body" /\ Refuse("IOERR")
  BY <1>1, <1>3, RefuseFact
<1>4. CASE phase = "size" /\ Refuse("READERR")
  <2>1. cmd # "HANDSHAKE"
    BY <1>4 DEF IInv, ReadsCommand, Busy
  <2> QED BY <1>1, <1>4, <2>1, RefuseFact
<1>5. CASE phase = "payload" /\ Await("tail", 2) /\ UNCHANGED <<cmd, whole, message>>
  <2>1. cmd' = "FLASH_DATA" /\ "tail" \in Phase /\ 2 \in Nat \ {0} /\ phase' = "tail"
    BY <1>5 DEF IInv, ReadsCommand, Busy, Phase, Await
  <2> QED BY <1>1, <1>5, <2>1, AwaitFact, CommandFact
<1>6. CASE phase = "tail" /\ Refuse("CRCERR")
  <2>1. cmd # "HANDSHAKE"
    BY <1>6 DEF IInv, ReadsCommand, Busy
  <2> QED BY <1>1, <1>6, <2>1, RefuseFact
<1> QED BY <1>2, <1>3, <1>4, <1>5, <1>6 DEF GiveUp

LEMMA CheckTimerIInv == IInv /\ CheckTimer => IInv'
<1> SUFFICES ASSUME IInv, CheckTimer PROVE IInv'
  OBVIOUS
<1>1. TypeOK /\ UNCHANGED <<ring, quiet, state, endpoint>>
  BY DEF IInv, CheckTimer
<1>2. timer.IO \in Nat /\ timer.BL \in Nat /\ quiet \in Nat /\ polled \in 0 .. 2
  BY <1>1, ClockFact
<1>3. CASE /\ timer.IO > 0
           /\ pc' = "poll" /\ polled' = IF polled = 0 THEN 0 ELSE 2
           /\ UNCHANGED <<timer, reading, message>>
  <2>1. UNCHANGED <<phase, need, cmd, whole>> /\ polled' \in 0 .. 2 /\ (polled' >= 1 => polled >= 1)
    BY <1>2, <1>3 DEF reading
  <2>2. whole' \in BOOLEAN
    BY <1>1, <2>1, Zenon DEF TypeOK
  <2>3. TypeOK'
    BY <1>1, <1>3, <2>1, <2>2 DEF TypeOK, PC
  <2> QED BY <1>1, <1>2, <1>3, <2>1, <2>3
    DEF IInv, ReadsCommand, Busy, TimersRun, RingDrains, FrameWaits, SessionWaits
<1>4. CASE timer.IO = 0 /\ GiveUp /\ polled' = polled
  <2>1. \/ pc' = "inactive" /\ UNCHANGED <<timer, phase, need, cmd, message>>
        \/ Waits /\ phase' = "command" /\ phase = "body" /\ timer'.BL = timer.BL
        \/ Waits /\ phase' = "tail" /\ phase = "payload" /\ timer'.BL = timer.BL
        \/ Ends
    BY <1>4, GiveUpFact
  <2>2. /\ pc' \in PC /\ phase' \in Phase /\ need' \in Nat \ {0} /\ cmd' \in Command \cup {"NONE"}
        /\ timer' \in [{"IO", "BL"} -> Nat] /\ message'.to \in Command \cup {"NONE"}
    BY <1>1, <2>1 DEF Waits, Ends, TypeOK, PC
  <2>3. TypeOK'
    BY <1>1, <1>4, <2>2, GiveUpWhole DEF TypeOK
  <2>4. ReadsCommand'
    BY <2>1 DEF Waits, Ends, IInv, ReadsCommand, Busy
  <2>5. RingDrains'
    BY <1>1, <1>4 DEF IInv, RingDrains
  <2>6. CASE UNCHANGED <<timer, phase>>
    <3>1. TimersRun' /\ FrameWaits' /\ SessionWaits'
      BY <1>1, <1>4, <2>6 DEF IInv, TimersRun, FrameWaits, SessionWaits
    <3> QED BY <2>3, <2>4, <2>5, <3>1 DEF IInv
  <2>7. CASE Waits /\ timer'.BL = timer.BL /\ phase \in {"body", "payload"}
             /\ (phase' = "command" \/ phase' = "tail")
    <3>1. timer'.IO = IO_TIMEOUT /\ quiet <= IO_TIMEOUT + 1
      BY <1>2, <1>4, <2>7, ConstantFact DEF Waits, IInv, FrameWaits
    <3>2. TimersRun' /\ FrameWaits' /\ SessionWaits'
      BY <1>1, <1>2, <2>7, <3>1, ConstantFact DEF IInv, TimersRun, FrameWaits, SessionWaits
    <3> QED BY <2>3, <2>4, <2>5, <3>2 DEF IInv
  <2> QED BY <2>1, <2>6, <2>7 DEF Ends
<1> QED BY <1>3, <1>4 DEF CheckTimer

-----------------------------------------------------------------------------
\* The rest of the loop

LEMMA InactiveIInv == IInv /\ Inactive => IInv'
<1> SUFFICES ASSUME IInv, Inactive PROVE IInv'
  OBVIOUS
<1>1. /\ TypeOK /\ Resume /\ UNCHANGED <<ring, polled, quiet, endpoint, message>>
      /\ state' = IF timer.BL = 0 THEN "NONE" ELSE state
  BY DEF IInv, Inactive
<1>2. Waits /\ phase' = "command" /\ timer'.BL = timer.BL
  BY <1>1, ResumeFact
<1>3. timer.IO \in Nat /\ timer.BL \in Nat /\ quiet \in Nat /\ polled \in 0 .. 2
  BY <1>1, ClockFact
<1>4. whole' \in BOOLEAN
  BY <1>1, Zenon DEF Resume
<1>5. TypeOK' /\ ReadsCommand'
  BY <1>1, <1>2, <1>4 DEF Waits, TypeOK, PC
<1>6. timer'.IO = IO_TIMEOUT
  BY <1>2 DEF Waits
<1>7. TimersRun' /\ RingDrains' /\ FrameWaits'
  BY <1>1, <1>2, <1>3, <1>6, ConstantFact DEF IInv, TimersRun, RingDrains, FrameWaits
<1>8. SessionWaits'
  BY <1>1, <1>2, <1>3, <1>6, ConstantFact DEF IInv, SessionWaits
<1> QED BY <1>5, <1>7, <1>8 DEF IInv

LEMMA WorkIInv == IInv /\ Work => IInv'
<1> SUFFICES ASSUME IInv, Work PROVE IInv'
  OBVIOUS
<1>1. /\ TypeOK /\ Answer("OK") /\ UNCHANGED <<ring, polled, quiet, state, endpoint>>
      /\ pc = "work" /\ pc' = "send" /\ UNCHANGED <<timer, phase, need, cmd>> /\ message'.to = cmd
  BY DEF IInv, Work, Answer, Reply
<1>2. whole' \in BOOLEAN
  BY <1>1, Zenon DEF Answer
<1>3. TypeOK'
  BY <1>1, <1>2 DEF TypeOK, PC
<1> QED BY <1>1, <1>3
  DEF IInv, ReadsCommand, Busy, TimersRun, RingDrains, FrameWaits, SessionWaits

LEMMA SendIInv == IInv /\ Send => IInv'
<1> SUFFICES ASSUME IInv, Send PROVE IInv'
  OBVIOUS
<1>1. /\ TypeOK /\ Resume /\ UNCHANGED <<ring, polled, quiet>>
      /\ endpoint' = message /\ message' = NoReply /\ state' \in {"SESSION", "NONE", state}
  BY DEF IInv, Send
<1>2. /\ timer \in [{"IO", "BL"} -> Nat] /\ timer' = [timer EXCEPT !.IO = IO_TIMEOUT]
      /\ pc' = "poll" /\ phase' = "command" /\ need' = 1 /\ cmd' = "NONE"
  BY <1>1 DEF TypeOK, Resume, Await
<1>3. timer' \in [{"IO", "BL"} -> Nat] /\ timer'.IO = IO_TIMEOUT /\ timer'.BL = timer.BL
  BY <1>2, TimerRearmed, ConstantFact
<1>4. timer.IO \in Nat /\ timer.BL \in Nat /\ quiet \in Nat /\ polled \in 0 .. 2
  BY <1>1, ClockFact
<1>5. whole' \in BOOLEAN
  BY <1>1, Zenon DEF Resume
<1>6. TypeOK'
  BY <1>1, <1>2, <1>3, <1>5 DEF TypeOK, PC, Phase, NoReply
<1>7. ReadsCommand' /\ TimersRun' /\ RingDrains' /\ FrameWaits'
  BY <1>1, <1>2, <1>3, <1>4, ConstantFact
  DEF IInv, ReadsCommand, Busy, TimersRun, RingDrains, FrameWaits
<1>8. SessionWaits'
  <2>1. phase \in {"body", "size", "payload", "tail"}
    BY DEF IInv, TypeOK, Phase, ReadsCommand, Busy, Send
  <2>2. quiet <= 2 * IO_TIMEOUT + 1
    BY <1>4, <2>1, ConstantFact DEF IInv, FrameWaits
  <2> QED BY <1>1, <1>2, <1>3, <1>4, <2>2, ConstantFact DEF IInv, SessionWaits
<1> QED BY <1>6, <1>7, <1>8 DEF IInv

LEMMA NextIInv == IInv /\ [Next]_vars => IInv'
<1> SUFFICES ASSUME IInv, [Next]_vars PROVE IInv'
  OBVIOUS
<1>1. CASE UNCHANGED vars
  <2>1. UNCHANGED <<ring, timer, polled, quiet, pc, phase, need, cmd, whole, state, endpoint, message>>
    BY <1>1 DEF vars, clock, reading
  <2>2. whole' \in BOOLEAN
    BY <2>1, Zenon DEF IInv, TypeOK
  <2>3. TypeOK'
    BY <2>1, <2>2 DEF IInv, TypeOK
  <2> QED BY <2>1, <2>3
    DEF IInv, ReadsCommand, Busy, TimersRun, RingDrains, FrameWaits, SessionWaits
<1> QED
  BY <1>1, ArriveIInv, TickIInv, TakeIInv, GetByteIInv, GetNothingIInv, CheckTimerIInv,
     InactiveIInv, WorkIInv, SendIInv
  DEF Next, Listen

-----------------------------------------------------------------------------
\* The theorems

THEOREM SessionInvariance == Spec => []IInv
BY InitIInv, NextIInv, PTL DEF Spec

\* The framing and the timers have their types, whatever bytes arrive: the ring
\* never holds more than it can (usb.c:209-229) and no count of bytes to read
\* falls below one (bl.c:120-260).
THEOREM SessionTypeCorrect == Spec => []TypeOK
BY SessionInvariance, PTL DEF IInv

\* Two timeouts of silence, and the tick under way, bring the program back to
\* where it reads a command, whatever came before (bl.c:165-178, usb.c:231-254).
THEOREM SilenceAlwaysRealigns == Spec => []SilenceRealigns
<1>1. IInv => SilenceRealigns
  <2> SUFFICES ASSUME IInv, quiet > 2 * IO_TIMEOUT + 1 PROVE phase = "command" /\ ring = <<>>
    BY DEF SilenceRealigns
  <2>1. timer.IO \in Nat /\ quiet \in Nat /\ phase \in Phase
    BY ClockFact DEF IInv, TypeOK
  <2>2. ring = <<>>
    BY <2>1, ConstantFact DEF IInv, RingDrains
  <2>3. phase \notin {"body", "size", "payload", "tail"}
    BY <2>1, ConstantFact DEF IInv, FrameWaits
  <2> QED BY <2>1, <2>2, <2>3 DEF Phase
<1> QED BY <1>1, SessionInvariance, PTL

\* A session outlives the last byte by the inactivity timeout and one get_byte
\* at the most (bl.c:83-88, timer.c).
THEOREM SilenceAlwaysEndsSession == Spec => []SilenceEndsSession
<1>1. IInv => SilenceEndsSession
  <2> SUFFICES ASSUME IInv, state = "SESSION", quiet > BL_TIMEOUT + IO_TIMEOUT + 1 PROVE FALSE
    BY DEF SilenceEndsSession, IInv, TypeOK
  <2>1. timer.IO \in Nat /\ quiet \in Nat /\ phase \in Phase
    BY ClockFact DEF IInv, TypeOK
  <2>2. phase = "command"
    BY <2>1, ConstantFact DEF IInv, FrameWaits, Phase
  <2> QED BY <2>1, <2>2, ConstantFact DEF IInv, SessionWaits
<1> QED BY <1>1, SessionInvariance, PTL

=============================================================================
