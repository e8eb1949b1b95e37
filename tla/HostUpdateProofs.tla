-------------------------- MODULE HostUpdateProofs --------------------------
(***************************************************************************)
(* Proofs about the command loop, for every image, every flash and every    *)
(* table of sectors.                                                       *)
(*                                                                         *)
(* First under AnyHost, for every set of commands: type correctness, that a *)
(* session starts clean, that the flash is locked again, and that nothing   *)
(* behind BL_FLASH_SECTORS is erased.  Then of a whole update, for any      *)
(* number of disturbances: what is booted is the image, what is             *)
(* acknowledged is in place, nothing but the image is changed, and the      *)
(* update keeps the promise of Updater.  The second part takes from the     *)
(* first what the steps of the loop preserve whatever command comes; the    *)
(* constants of AnyHost, the commands of another host, mean nothing to it   *)
(* and may be empty sets.                                                  *)
(***************************************************************************)
EXTENDS HostUpdate, AnyHost, FlashLayoutProofs

-----------------------------------------------------------------------------
\* The command loop under any host

\* A loop that writes belongs to a session: only inside one do its registers
\* hold addresses.
WritesInSession == pc \in {"erase", "program"} => state = "SESSION"

\* The inductive invariant.
IInv == TypeOK /\ SessionStartsClean /\ UnlockedOnlyWhileWriting /\ WritesInSession

USE DEF device, registers, loop

-----------------------------------------------------------------------------
LEMMA ZeroAddress == 0 \in Address
BY LayoutAssumption DEF Address

LEMMA InitIInv == Init => IInv
BY ZeroAddress
DEF Init, IInv, TypeOK, PC, NoCommand, NoReply, Status,
    SessionStartsClean, UnlockedOnlyWhileWriting, WritesInSession

LEMMA HandshakeIInv == IInv /\ Handshake => IInv'
BY DEF IInv, TypeOK, SessionStartsClean, UnlockedOnlyWhileWriting, WritesInSession,
       Handshake, Listening, Reply, Command, Status

LEMMA KillSessionIInv == IInv /\ KillSession => IInv'
BY ZeroAddress
DEF IInv, TypeOK, SessionStartsClean, UnlockedOnlyWhileWriting, WritesInSession,
    KillSession, Forget, InSession, Listening

LEMMA EosIInv == IInv /\ Eos => IInv'
BY ZeroAddress
DEF IInv, TypeOK, SessionStartsClean, UnlockedOnlyWhileWriting, WritesInSession,
    Eos, Forget, InSession, Listening, Reply, Command, Status

LEMMA RefusedIInv ==
  ASSUME IInv, NEW command \in Command, NEW status \in Status, Refused(command, status)
  PROVE  IInv'
BY DEF IInv, TypeOK, SessionStartsClean, UnlockedOnlyWhileWriting, WritesInSession,
       Refused, InSession, Listening, Reply

LEMMA BootRefusedIInv ==
  ASSUME IInv, NEW status \in Status, BootRefused(status)
  PROVE  IInv'
BY DEF IInv, TypeOK, SessionStartsClean, UnlockedOnlyWhileWriting, WritesInSession,
       BootRefused, InSession, Listening, Reply, Command, Status

LEMMA EraseIInv ==
  ASSUME IInv, NEW sector \in Nat, Erase(sector)
  PROVE  IInv'
BY DEF IInv, TypeOK, SessionStartsClean, UnlockedOnlyWhileWriting, WritesInSession,
    Erase, StartErase, InSession, Listening, PC, Command

LEMMA FlashIInv ==
  ASSUME IInv, NEW address \in Address, NEW size \in Address, Flash(address, size)
  PROVE  IInv'
<1>1. /\ daddr \in Address /\ dsz \in Address /\ pc = "listen" /\ state = "SESSION"
      /\ address \in Address /\ size \in Address
  BY DEF IInv, TypeOK, Flash, InSession, Listening
<1>2. BitOr(daddr, address) \in Address /\ BitOr(dsz, size) \in Address
  BY <1>1, OrAssumption
<1>3. daddr' \in Address /\ dsz' \in Address
  <2>1. BitOr(daddr, address) - Base \in Int
    BY <1>2, BootloaderAssumption, LayoutAssumption DEF Address
  <2> QED BY <1>2, <2>1, WrapFact DEF Flash
<1>4. PICK num \in bl_flash_get_sector_num(daddr', dsz') :
        \/ /\ Accepts(daddr', dsz', num)
           /\ StartErase("FLASH", num.e, num.s)
           /\ UNCHANGED <<flash, reply>>
        \/ /\ ~Accepts(daddr', dsz', num)
           /\ reply' = Reply("FLASH", "ARGERR")
           /\ UNCHANGED <<device, pc, cmd, i, last>>
  BY DEF Flash
<1>5. num.found => num.s \in Nat /\ num.e \in Nat
  BY <1>3, SectorNumFact
<1>6. UNCHANGED <<state, addr, dbuf>>
  BY DEF Flash
<1>7. CASE /\ Accepts(daddr', dsz', num)
           /\ StartErase("FLASH", num.e, num.s)
           /\ UNCHANGED <<flash, reply>>
  BY <1>1, <1>3, <1>5, <1>6, <1>7
  DEF IInv, TypeOK, SessionStartsClean, UnlockedOnlyWhileWriting, WritesInSession,
      StartErase, Accepts, PC, Command
<1>8. CASE /\ reply' = Reply("FLASH", "ARGERR")
           /\ UNCHANGED <<device, pc, cmd, i, last>>
  BY <1>1, <1>3, <1>6, <1>8
  DEF IInv, TypeOK, SessionStartsClean, UnlockedOnlyWhileWriting, WritesInSession,
      Reply, Command, Status
<1> QED BY <1>4, <1>7, <1>8

LEMMA FlashDataIInv ==
  ASSUME IInv, NEW payload \in Payload, FlashData(payload)
  PROVE  IInv'
BY DEF IInv, TypeOK, SessionStartsClean, UnlockedOnlyWhileWriting, WritesInSession,
       FlashData, InSession, Listening, PC, Command

LEMMA DataCrcIInv ==
  ASSUME IInv, NEW address \in Address, NEW size \in Address, DataCrc(address, size)
  PROVE  IInv'
<1> DEFINE start == (address - Base) % AddressSpace
           at == [n \in 1 .. size \div WordSize |-> (start + (n - 1) * WordSize) % AddressSpace]
           end == (start + Len(at) * WordSize) % AddressSpace
<1>1. start \in Address
  <2>1. address - Base \in Int
    BY BootloaderAssumption, LayoutAssumption DEF Address
  <2> QED BY <2>1, WrapFact
<1>2. end \in Address
  <2>1. Len(at) \in Nat
    <3>1. size \div WordSize \in Nat
      BY BootloaderAssumption, LayoutAssumption DEF Address
    <3> QED BY <3>1
  <2>2. start + Len(at) * WordSize \in Int
    <3> HIDE DEF start, at
    <3> QED BY <1>1, <2>1, BootloaderAssumption DEF Address
  <2> HIDE DEF start, at
  <2> QED BY <2>2, WrapFact
<1>3. /\ pc = "listen" /\ state = "SESSION" /\ locked = TRUE
      /\ UNCHANGED <<device, state, daddr, dsz, loop>>
  BY DEF DataCrc, InSession, Listening, IInv, TypeOK, UnlockedOnlyWhileWriting
<1>4. \/ addr' = start /\ reply' = Reply("DATA_CRC", "ARGERR") /\ pc' = pc
      \/ /\ addr' = end /\ pc' = pc
         /\ \E crc : reply' = [Reply("DATA_CRC", "OK") EXCEPT !.crc = crc]
      \/ addr' = addr /\ reply' = reply /\ pc' = "astray"
  BY DEF DataCrc
<1> HIDE DEF start, at, end
<1>5. addr' \in Address /\ pc' \in {"listen", "astray"}
  BY <1>1, <1>2, <1>3, <1>4 DEF IInv, TypeOK
<1>6. reply'.to \in Command \cup {NoCommand} /\ reply'.status \in Status
  BY <1>4 DEF IInv, TypeOK, Reply, Command, Status
<1> QED BY <1>3, <1>5, <1>6
  DEF IInv, TypeOK, SessionStartsClean, UnlockedOnlyWhileWriting, WritesInSession, PC

LEMMA BootIInv ==
  ASSUME IInv, NEW address \in Address, Boot(address)
  PROVE  IInv'
BY DEF IInv, TypeOK, SessionStartsClean, UnlockedOnlyWhileWriting, WritesInSession,
    Boot, InSession, Listening, Reply, PC, Command, Status

LEMMA EraseSectorIInv == IInv /\ EraseSector => IInv'
<1> SUFFICES ASSUME IInv, EraseSector PROVE IInv'
  OBVIOUS
<1>1. flash' \in [Word -> Value]
  BY DEF IInv, TypeOK, EraseSector, Erased, Value
<1>2. i' \in Nat /\ pc = "erase" /\ pc' \in {"erase", "astray"}
  BY DEF IInv, TypeOK, EraseSector
<1> QED BY <1>1, <1>2
  DEF IInv, TypeOK, SessionStartsClean, UnlockedOnlyWhileWriting, WritesInSession,
      EraseSector, PC

LEMMA EraseEndIInv == IInv /\ EraseEnd => IInv'
BY DEF IInv, TypeOK, SessionStartsClean, UnlockedOnlyWhileWriting, WritesInSession,
       EraseEnd, Idle, Reply, PC, Command, Status

LEMMA ProgramWordIInv == IInv /\ ProgramWord => IInv'
<1> SUFFICES ASSUME IInv, ProgramWord PROVE IInv'
  OBVIOUS
<1>1. pc = "program" /\ state = "SESSION" /\ UNCHANGED <<state, dsz, addr>>
  BY DEF IInv, WritesInSession, ProgramWord
<1>2. flash' \in [Word -> Value]
  <2>1. flash \in [Word -> Value]
    BY DEF IInv, TypeOK
  <2>2. \/ flash' = flash
        \/ \E v \in Programmed(WordAt(daddr), dbuf[i + 1]) :
             flash' = [flash EXCEPT ![WordAt(daddr)] = v]
    BY DEF ProgramWord
  <2>3. Aligned(daddr) => WordAt(daddr) \in Word
    BY DEF ProgramWord, InFlash, WordAt
  <2>4. CASE flash' # flash
    <3>1. WordAt(daddr) \in Word
      BY <2>3, <2>4 DEF ProgramWord
    <3>2. flash[WordAt(daddr)] \in SUBSET Bits
      BY <2>1, <3>1 DEF Value
    <3>3. Programmed(WordAt(daddr), dbuf[i + 1]) \subseteq Value
      BY <3>2 DEF Programmed, Value
    <3> QED BY <2>1, <2>2, <2>4, <3>3
  <2> QED BY <2>1, <2>4
<1>3. (daddr + WordSize) % AddressSpace \in Address
  <2>1. daddr + WordSize \in Int
    BY BootloaderAssumption, LayoutAssumption DEF IInv, TypeOK, Address
  <2> QED BY <2>1, WrapFact
<1>4. \/ pc' = "astray" /\ UNCHANGED <<locked, daddr, loop, reply>>
      \/ /\ daddr' = (daddr + WordSize) % AddressSpace /\ i' = i + 1
         /\ UNCHANGED <<locked, pc, cmd, last, dbuf, reply>>
      \/ EndProgram /\ UNCHANGED daddr
  BY DEF ProgramWord
<1>5. CASE pc' = "astray" /\ UNCHANGED <<locked, daddr, loop, reply>>
  BY <1>1, <1>2, <1>5
  DEF IInv, TypeOK, SessionStartsClean, UnlockedOnlyWhileWriting, WritesInSession, PC
<1>6. CASE /\ daddr' = (daddr + WordSize) % AddressSpace /\ i' = i + 1
           /\ UNCHANGED <<locked, pc, cmd, last, dbuf, reply>>
  BY <1>1, <1>2, <1>3, <1>6
  DEF IInv, TypeOK, SessionStartsClean, UnlockedOnlyWhileWriting, WritesInSession
<1>7. CASE EndProgram /\ UNCHANGED daddr
  BY <1>1, <1>2, <1>7
  DEF IInv, TypeOK, SessionStartsClean, UnlockedOnlyWhileWriting, WritesInSession,
      EndProgram, Idle, Reply, PC, Command, Status
<1> QED BY <1>4, <1>5, <1>6, <1>7

LEMMA ProgramOutsideIInv == IInv /\ ProgramOutside => IInv'
BY DEF IInv, TypeOK, SessionStartsClean, UnlockedOnlyWhileWriting, WritesInSession,
       ProgramOutside, PC

LEMMA ProgramEndIInv == IInv /\ ProgramEnd => IInv'
BY DEF IInv, TypeOK, SessionStartsClean, UnlockedOnlyWhileWriting, WritesInSession,
       ProgramEnd, EndProgram, Idle, Reply, PC, Command, Status

\* What power loss leaves is a flash.
LEMMA TornType == TypeOK => Torn \subseteq [Word -> Value]
<1> SUFFICES ASSUME TypeOK PROVE Torn \subseteq [Word -> Value]
  OBVIOUS
<1>1. flash \in [Word -> Value]
  BY DEF TypeOK
<1>2. CASE pc = "erase" /\ i <= last /\ i < FlashSectors /\ \E w \in WordsOf(i) : flash[w] # Erased
  <2>1. \A torn \in [WordsOf(i) -> Value] :
          [w \in Word |-> IF w \in WordsOf(i) THEN torn[w] ELSE flash[w]] \in [Word -> Value]
    BY <1>1
  <2>2. Torn = {[w \in Word |-> IF w \in WordsOf(i) THEN torn[w] ELSE flash[w]] :
                  torn \in [WordsOf(i) -> Value]}
    BY <1>2 DEF Torn
  <2> QED BY <2>1, <2>2
<1>3. CASE pc = "program" /\ i < Len(dbuf) /\ Aligned(daddr) /\ InFlash(daddr)
  <2>1. WordAt(daddr) \in Word
    BY <1>3 DEF InFlash, WordAt
  <2>2. \A v \in SUBSET flash[WordAt(daddr)] : [flash EXCEPT ![WordAt(daddr)] = v] \in [Word -> Value]
    <3>1. flash[WordAt(daddr)] \in SUBSET Bits
      BY <1>1, <2>1 DEF Value
    <3> QED BY <1>1, <3>1 DEF Value
  <2> QED BY <1>3, <2>2 DEF Torn
<1>4. CASE /\ ~ (pc = "erase" /\ i <= last /\ i < FlashSectors /\ \E w \in WordsOf(i) : flash[w] # Erased)
           /\ ~ (pc = "program" /\ i < Len(dbuf) /\ Aligned(daddr) /\ InFlash(daddr))
  BY <1>1, <1>4 DEF Torn
<1> QED BY <1>2, <1>3, <1>4

LEMMA ResetIInv == IInv /\ Reset => IInv'
BY TornType, ZeroAddress
DEF IInv, TypeOK, SessionStartsClean, UnlockedOnlyWhileWriting, WritesInSession,
    Reset, Idle, Forget, NoReply, PC, Status

LEMMA NextIInv == IInv /\ [Next]_vars => IInv'
<1> SUFFICES ASSUME IInv, [Next]_vars PROVE IInv'
  OBVIOUS
<1>1. CASE Session
  BY <1>1, HandshakeIInv, KillSessionIInv, EosIInv DEF Session
<1>2. CASE Refusal
  BY <1>2, RefusedIInv, BootRefusedIInv DEF Refusal
<1>3. CASE Request
  BY <1>3, CommandAssumption, EraseIInv, FlashIInv, FlashDataIInv, DataCrcIInv, BootIInv DEF Request
<1>4. CASE Work
  BY <1>4, EraseSectorIInv, EraseEndIInv, ProgramWordIInv, ProgramOutsideIInv, ProgramEndIInv
  DEF Work
<1>5. CASE Reset
  BY <1>5, ResetIInv
<1>6. CASE UNCHANGED vars
  BY <1>6
  DEF vars, IInv, TypeOK, SessionStartsClean, UnlockedOnlyWhileWriting, WritesInSession
<1> QED BY <1>1, <1>2, <1>3, <1>4, <1>5, <1>6 DEF Next

\* The command loop keeps to IInv whatever is sent and whenever power fails.
THEOREM LoopInvariance == Spec => []IInv
BY InitIInv, NextIInv, PTL DEF Spec

\* Every variable of the loop keeps to its type: the registers stay 32-bit
\* addresses and the flash words, whatever commands come.
THEOREM LoopTypeCorrect == Spec => []TypeOK
BY LoopInvariance, PTL DEF IInv

\* Every session starts from cleared registers, however the one before it
\* ended (bl.c:79-81, 87-88, 250-257).
THEOREM EverySessionStartsClean == Spec => []SessionStartsClean
BY LoopInvariance, PTL DEF IInv

\* The flash controller is locked whenever the loop awaits a command and when
\* it has started an application (bl.c:113-115, 142-146, 180-192).
THEOREM AlwaysLockedAgain == Spec => []UnlockedOnlyWhileWriting
BY LoopInvariance, PTL DEF IInv

-----------------------------------------------------------------------------
\* What lies beyond BL_FLASH_SECTORS

\* A sector the program erases shares no word with one that it does not.
LEMMA SectorsApart ==
  ASSUME NEW s \in FlashSectors .. ChipSectors - 1, NEW t \in Nat, t < FlashSectors,
         NEW w \in WordsOf(s)
  PROVE  w \notin WordsOf(t)
<1>1. s \in 0 .. TableSectors /\ t + 1 \in 0 .. TableSectors /\ t + 1 <= s
  BY BootloaderAssumption, LayoutAssumption
<1>2. /\ SectorBase[t + 1] <= SectorBase[s]
      /\ SectorBase[t + 1] \in Nat /\ SectorBase[s] \in Nat
  BY <1>1, SectorsInOrder, BaseType
<1>3. w * WordSize \in Int
  <2>1. SectorBase[ChipSectors] \in Nat
    BY BaseType, BootloaderAssumption, LayoutAssumption
  <2>2. w \in Int
    BY <2>1, BootloaderAssumption DEF WordsOf, Word
  <2> QED BY <2>2, BootloaderAssumption
<1>4. SectorBase[s] <= w * WordSize
  BY DEF WordsOf
<1>5. ~ (w * WordSize < SectorBase[t + 1])
  BY <1>2, <1>3, <1>4
<1> QED BY <1>5 DEF WordsOf

\* Clearing bits of one word sets none in any.
LEMMA ClearingSetsNothing ==
  ASSUME flash \in [Word -> Value], NEW w \in Word, NEW v \in SUBSET flash[w],
         NEW u \in Word
  PROVE  [flash EXCEPT ![w] = v][u] \subseteq flash[u]
OBVIOUS

LEMMA EraseSectorKeeps ==
  ASSUME IInv, EraseSector,
         NEW s \in FlashSectors .. ChipSectors - 1, NEW w \in WordsOf(s)
  PROVE  flash'[w] = flash[w]
<1>1. i \in Nat /\ w \in Word
  BY DEF IInv, TypeOK, WordsOf
<1>2. i < FlashSectors => w \notin WordsOf(i)
  BY <1>1, SectorsApart
<1> QED BY <1>1, <1>2 DEF EraseSector

LEMMA ProgramWordClears ==
  ASSUME IInv, ProgramWord, NEW u \in Word
  PROVE  flash'[u] \subseteq flash[u]
<1>1. flash \in [Word -> Value]
  BY DEF IInv, TypeOK
<1>2. CASE flash' = flash
  BY <1>2
<1>3. CASE flash' # flash
  <2>1. Aligned(daddr) /\ WordAt(daddr) \in Word
    BY <1>3 DEF ProgramWord, InFlash, WordAt
  <2>2. PICK v \in Programmed(WordAt(daddr), dbuf[i + 1]) :
          flash' = [flash EXCEPT ![WordAt(daddr)] = v]
    BY <2>1 DEF ProgramWord
  <2>3. v \in SUBSET flash[WordAt(daddr)]
    BY DEF Programmed
  <2> QED BY <1>1, <2>1, <2>2, <2>3, ClearingSetsNothing
<1> QED BY <1>2, <1>3

LEMMA ResetClears ==
  ASSUME IInv, Reset,
         NEW s \in FlashSectors .. ChipSectors - 1, NEW u \in WordsOf(s)
  PROVE  flash'[u] \subseteq flash[u]
<1>1. flash \in [Word -> Value] /\ i \in Nat /\ u \in Word /\ flash' \in Torn
  BY DEF IInv, TypeOK, WordsOf, Reset
<1>2. CASE pc = "erase" /\ i <= last /\ i < FlashSectors /\ \E w \in WordsOf(i) : flash[w] # Erased
  <2>1. PICK torn \in [WordsOf(i) -> Value] :
          flash' = [w \in Word |-> IF w \in WordsOf(i) THEN torn[w] ELSE flash[w]]
    BY <1>1, <1>2 DEF Torn
  <2>2. u \notin WordsOf(i)
    BY <1>1, <1>2, SectorsApart
  <2> QED BY <1>1, <2>1, <2>2
<1>3. CASE pc = "program" /\ i < Len(dbuf) /\ Aligned(daddr) /\ InFlash(daddr)
  <2>1. WordAt(daddr) \in Word
    BY <1>3 DEF InFlash, WordAt
  <2>2. PICK v \in SUBSET flash[WordAt(daddr)] : flash' = [flash EXCEPT ![WordAt(daddr)] = v]
    BY <1>1, <1>3 DEF Torn
  <2> QED BY <1>1, <2>1, <2>2, ClearingSetsNothing
<1>4. CASE /\ ~ (pc = "erase" /\ i <= last /\ i < FlashSectors /\ \E w \in WordsOf(i) : flash[w] # Erased)
           /\ ~ (pc = "program" /\ i < Len(dbuf) /\ Aligned(daddr) /\ InFlash(daddr))
  BY <1>1, <1>4 DEF Torn
<1> QED BY <1>2, <1>3, <1>4

\* The steps that change the flash at all.
LEMMA OthersKeepFlash ==
  ASSUME [Next]_vars, ~EraseSector, ~ProgramWord, ~Reset
  PROVE  flash' = flash
BY DEF Next, Session, Refusal, Request, Work, vars,
       Handshake, KillSession, Eos, Refused, BootRefused, Erase, Flash, FlashData,
       DataCrc, Boot, EraseEnd, ProgramOutside, ProgramEnd

LEMMA NextClearsBeyond ==
  IInv /\ [Next]_vars =>
    \A s \in FlashSectors .. ChipSectors - 1 : \A w \in WordsOf(s) : flash'[w] \subseteq flash[w]
<1> SUFFICES ASSUME IInv, [Next]_vars,
                    NEW s \in FlashSectors .. ChipSectors - 1, NEW w \in WordsOf(s)
             PROVE  flash'[w] \subseteq flash[w]
  OBVIOUS
<1>1. CASE EraseSector
  BY <1>1, EraseSectorKeeps
<1>2. CASE ProgramWord
  BY <1>2, ProgramWordClears DEF WordsOf
<1>3. CASE Reset
  BY <1>3, ResetClears
<1>4. CASE ~EraseSector /\ ~ProgramWord /\ ~Reset
  BY <1>4, OthersKeepFlash
<1> QED BY <1>1, <1>2, <1>3, <1>4

\* No command sequence and no power failure sets a bit again in the sectors
\* from BL_FLASH_SECTORS on (flash.c:64, bl.c:136).
THEOREM BeyondStaysCleared == Spec => BeyondIsWriteOnce
<1>1. IInv /\ [Next]_vars =>
        [\A s \in FlashSectors .. ChipSectors - 1 :
           \A w \in WordsOf(s) : flash'[w] \subseteq flash[w]]_vars
  BY NextClearsBeyond
<1> QED BY <1>1, LoopInvariance, PTL DEF Spec, BeyondIsWriteOnce

-----------------------------------------------------------------------------
\* A whole update

HostTypeOK ==
  /\ stage \in Stage
  /\ waiting \in BOOLEAN
  /\ sent \in 0 .. Len(Image)
  /\ sound \in BOOLEAN

Writing == pc \in {"erase", "program"}
Answered == waiting /\ reply # NoReply
Acknowledged == Answered /\ reply.status = "OK"

\* What the host and the loop can be at, at the same time: the loop works at
\* the command the host waits for, unless the host has given up.
Conversation ==
  /\ waiting => stage \in Command
  /\ ~waiting /\ stage # "silent" => reply = NoReply /\ ~Writing
  /\ pc = "erase" => stage \in {"FLASH", "silent"}
  /\ pc = "program" => stage \in {"FLASH_DATA", "silent"} /\ cmd = "FLASH_DATA"
  /\ pc = "jumped" => stage \in {"BOOT", "done", "silent"}
  /\ Answered => state = "SESSION" /\ pc \in {"listen", "jumped"}

\* How far the host has come in each of its stages.
Progress ==
  /\ stage \in {"HANDSHAKE", "FLASH", "silent"} => sent = 0
  /\ stage = "FLASH_DATA" => sent < Len(Image)

\* From a good answer to DATA_CRC on the image is there.
Verified ==
  /\ stage = "DATA_CRC" /\ Acknowledged /\ reply.crc = Image => ImageInPlace
  /\ stage \in {"BOOT", "done"} \/ pc = "jumped" => ImageInPlace

-----------------------------------------------------------------------------
\* Where the loop writes

\* The address behind the first k words of the image.
Offset(k) == ImageOffset + k * WordSize

\* How many words the loop has gone through.
Reached ==
  IF pc = "program" THEN sent + i
  ELSE IF Acknowledged THEN sent + Len(Chunk)
  ELSE sent

\* The registers follow the commands of the session: clear up to FLASH, then
\* the start of the image, then at most the word that has been reached.
RegistersFollow ==
  /\ stage = "HANDSHAKE" \/ (stage = "FLASH" /\ ~waiting) => daddr = 0 /\ dsz = 0
  /\ stage = "FLASH" /\ (pc = "erase" \/ Acknowledged) => daddr = Offset(0)
  /\ stage = "FLASH_DATA" /\ state = "SESSION" /\ pc # "astray" =>
       \E j \in 0 .. Reached : daddr = Offset(j)

\* What is left of the payload has room in what is left of the image.
ProgramStays ==
  pc = "program" =>
    /\ i <= Len(dbuf)
    /\ stage = "FLASH_DATA" => Len(dbuf) = Len(Chunk)
    /\ \E j \in 0 .. Len(Image) : daddr = Offset(j) /\ j + Len(dbuf) - i <= Len(Image)

\* The only sector that is still to be erased is the one the image begins in.
Begins(s) == SectorBase[s] <= ImageOffset /\ ImageOffset < SectorBase[s + 1]
EraseStays == pc = "erase" => \A s \in i .. last : s < FlashSectors => Begins(s)

-----------------------------------------------------------------------------
\* What is in the flash

\* FLASH erases the image's words only where the image lies in one sector,
\* ends before it does, and the sector is one of BL_FLASH_SECTORS.
Encloses(s) == SectorBase[s] <= ImageOffset /\ ImageOffset + ImageSize < SectorBase[s + 1]
Erasable == \E s \in 0 .. FlashSectors - 1 : Encloses(s)

ErasedFrom(n) == \A k \in n .. Len(Image) : flash[ImageWord(k)] = Erased

ErasesImage ==
  /\ stage = "FLASH" /\ pc = "erase" =>
       \A s \in 0 .. FlashSectors - 1 :
         Encloses(s) => last = s /\ i \in {s, s + 1} /\ (i = s + 1 => ErasedFrom(1))
  /\ Erasable /\ stage = "FLASH" /\ Acknowledged => ErasedFrom(1)

\* In a session that has lost nothing the words reached are in place, and those
\* to come are erased.
SoundSession ==
  Erasable /\ sound /\ stage = "FLASH_DATA" /\ state = "SESSION" /\ pc # "astray" =>
    /\ daddr = Offset(Reached)
    /\ \A k \in 1 .. Reached : InPlace(k)
    /\ ErasedFrom(Reached + 1)
    /\ pc = "program" => dbuf = Chunk

\* The inductive invariant.
HostInv ==
  /\ IInv
  /\ HostTypeOK /\ Conversation /\ Progress /\ Verified
  /\ RegistersFollow /\ ProgramStays /\ EraseStays
  /\ ErasesImage /\ SoundSession /\ (Erasable => AcknowledgedIsInPlace)

-----------------------------------------------------------------------------
\* Where the words of the image are

LEMMA ConstantFact ==
  /\ WordSize \in Nat /\ WordSize > 0
  /\ AddressSpace \in Nat /\ AddressSpace > 0
  /\ ImageOffset \in Nat
  /\ Len(Image) \in Nat /\ Len(Image) > 0
  /\ DOMAIN Image = 1 .. Len(Image)
  /\ \A k \in 1 .. Len(Image) : Image[k] \in Value
  /\ SectorBase[ChipSectors] \in Nat
<1>1. SectorBase[ChipSectors] \in Nat
  BY BaseType, BootloaderAssumption, LayoutAssumption
<1>2. WordSize \in Nat /\ WordSize > 0 /\ AddressSpace \in Nat /\ AddressSpace > 0
  BY BootloaderAssumption, LayoutAssumption
<1> QED BY <1>1, <1>2, HostAssumption, ImageAssumption

LEMMA ImageOffsetFact ==
  /\ WordAt(ImageOffset) \in Nat
  /\ ImageOffset = WordAt(ImageOffset) * WordSize
<1>1. ASSUME NEW x \in Nat, NEW d \in Nat, d > 0, x % d = 0
      PROVE  x \div d \in Nat /\ x = (x \div d) * d
  BY <1>1
<1> QED BY <1>1, ConstantFact, ImageAssumption DEF Aligned, WordAt

\* The word behind the first k words of the image is at Offset(k).
LEMMA OffsetFact ==
  ASSUME NEW k \in Nat
  PROVE  /\ Offset(k) \in Nat
         /\ Aligned(Offset(k))
         /\ WordAt(Offset(k)) = ImageWord(k + 1)
         /\ Offset(k + 1) = Offset(k) + WordSize
<1> DEFINE q == WordAt(ImageOffset)
<1>1. /\ ImageOffset \in Nat /\ WordSize \in Nat /\ WordSize > 0 /\ q \in Nat
      /\ ImageOffset = q * WordSize
  BY ConstantFact, ImageOffsetFact
<1> HIDE DEF q
<1>2. /\ q + k \in Nat
      /\ ImageOffset + k * WordSize = (q + k) * WordSize
      /\ ImageOffset + (k + 1) * WordSize = ImageOffset + k * WordSize + WordSize
  BY <1>1
<1>3. (q + k) * WordSize \in Nat /\ ((q + k) * WordSize) % WordSize = 0
  BY <1>1, <1>2
<1>4. ((q + k) * WordSize) \div WordSize = q + k
  BY <1>1, <1>2
<1>5. ImageWord(k + 1) = q + k
  BY <1>1 DEF ImageWord, q
<1> QED BY <1>2, <1>3, <1>4, <1>5 DEF Offset, Aligned, WordAt

\* The image has no end that wraps.
LEMMA OffsetBound ==
  ASSUME NEW k \in 0 .. Len(Image)
  PROVE  /\ Offset(k) < AddressSpace /\ Offset(k) \in Address
         /\ Offset(k) <= Offset(Len(Image))
         /\ Offset(Len(Image)) = ImageOffset + ImageSize
         /\ Offset(Len(Image)) <= SectorBase[ChipSectors]
<1>1. ASSUME NEW a \in Nat, NEW b \in Nat, a <= b, NEW d \in Nat
      PROVE  a * d <= b * d
  BY <1>1
<1>2. k * WordSize <= Len(Image) * WordSize
  BY <1>1, ConstantFact
<1>3. Offset(k) \in Nat /\ Offset(Len(Image)) \in Nat
  BY OffsetFact, ConstantFact
<1>4. k * WordSize \in Nat /\ Len(Image) * WordSize \in Nat
  BY ConstantFact
<1>5. Offset(k) <= Offset(Len(Image))
  BY <1>2, <1>4, ConstantFact DEF Offset
<1>6. Offset(Len(Image)) = ImageOffset + ImageSize
  BY DEF Offset, ImageSize
<1>7. Offset(Len(Image)) <= SectorBase[ChipSectors]
  BY <1>6, ImageAssumption
<1>8. Offset(k) < AddressSpace
  BY <1>3, <1>5, <1>7, FlashAssumption, ConstantFact
<1> QED BY <1>3, <1>5, <1>6, <1>7, <1>8, ConstantFact DEF Address

LEMMA OffsetZero == Offset(0) = ImageOffset
BY ConstantFact DEF Offset

LEMMA OffsetStep ==
  ASSUME NEW k \in Nat, k < Len(Image)
  PROVE  (Offset(k) + WordSize) % AddressSpace = Offset(k + 1)
<1>1. k + 1 \in 0 .. Len(Image)
  BY ConstantFact
<1>2. Offset(k + 1) \in Nat /\ Offset(k + 1) < AddressSpace
  BY <1>1, OffsetFact, OffsetBound
<1> QED BY <1>2, OffsetFact, NoWrapFact

LEMMA ImageWordFact ==
  /\ \A k \in DOMAIN Image : ImageWord(k) \in Word /\ ImageWord(k) \in Nat
  /\ \A j, k \in DOMAIN Image : ImageWord(j) = ImageWord(k) => j = k
<1>1. ASSUME NEW k \in DOMAIN Image PROVE ImageWord(k) \in Word /\ ImageWord(k) \in Nat
  <2>1. k \in 1 .. Len(Image) /\ k - 1 \in Nat
    BY ConstantFact
  <2> DEFINE w == ImageWord(k)
             end == SectorBase[ChipSectors]
  <2>2. w \in Nat
    BY <2>1, ImageOffsetFact DEF ImageWord
  <2>3. Offset(k) = (w + 1) * WordSize
    <3>1. ASSUME NEW q \in Nat, NEW d \in Nat PROVE q * d + k * d = (q + k - 1 + 1) * d
      BY <2>1
    <3> QED BY <3>1, ConstantFact, ImageOffsetFact DEF Offset, ImageWord
  <2>4. (w + 1) * WordSize <= end
    <3>1. k \in 0 .. Len(Image) /\ Len(Image) \in Nat
      BY <2>1, ConstantFact
    <3>2. Offset(k) <= Offset(Len(Image)) /\ Offset(Len(Image)) <= end
      BY <3>1, OffsetBound
    <3>3. Offset(k) \in Nat /\ Offset(Len(Image)) \in Nat /\ end \in Nat
      BY <3>1, OffsetFact, ConstantFact
    <3> QED BY <2>3, <3>2, <3>3
  <2>5. ASSUME NEW x \in Nat, NEW e \in Nat, NEW d \in Nat, d > 0, (x + 1) * d <= e
        PROVE  x \in 0 .. (e \div d) - 1
    <3>1. e \div d \in Nat /\ e < (e \div d) * d + d
      BY <2>5
    <3>2. ASSUME NEW a \in Nat, NEW b \in Nat, a * d < b * d PROVE a < b
      BY <2>5, <3>2
    <3>3. (x + 1) * d < ((e \div d) + 1) * d
      BY <2>5, <3>1
    <3>4. x + 1 < (e \div d) + 1
      BY <3>1, <3>2, <3>3
    <3> QED BY <3>1, <3>4
  <2> HIDE DEF w, end
  <2>6. w \in 0 .. (end \div WordSize) - 1
    BY <2>2, <2>4, <2>5, ConstantFact DEF end
  <2> QED BY <2>2, <2>6 DEF w, end, Word
<1>2. ASSUME NEW j \in DOMAIN Image, NEW k \in DOMAIN Image, ImageWord(j) = ImageWord(k)
      PROVE  j = k
  BY <1>2, ConstantFact, ImageOffsetFact DEF ImageWord
<1> QED BY <1>1, <1>2

-----------------------------------------------------------------------------
\* Payloads

LEMMA PayloadFact ==
  ASSUME NEW payload \in Payload
  PROVE  /\ Len(payload) \in 1 .. MaxPayload
         /\ payload \in [1 .. Len(payload) -> Value]
<1>1. PICK n \in 1 .. MaxPayload : payload \in [1 .. n -> Value]
  BY DEF Payload
<1>2. Len(payload) = n
  BY <1>1, BootloaderAssumption
<1> QED BY <1>1, <1>2

LEMMA ChunkFact ==
  ASSUME HostTypeOK, sent < Len(Image)
  PROVE  /\ Len(Chunk) \in 1 .. ChunkWords /\ sent + Len(Chunk) \in 1 .. Len(Image)
         /\ Chunk \in [1 .. Len(Chunk) -> Value]
         /\ \A k \in 1 .. Len(Chunk) : Chunk[k] = Image[sent + k]
         /\ Chunk \in Payload
<1> DEFINE m == IF sent + ChunkWords < Len(Image) THEN sent + ChunkWords ELSE Len(Image)
<1>1. sent \in Nat /\ ChunkWords \in 1 .. MaxPayload /\ MaxPayload \in Nat
  BY HostAssumption, BootloaderAssumption DEF HostTypeOK
<1>2. m \in sent + 1 .. Len(Image) /\ m - sent \in 1 .. ChunkWords /\ m \in Nat
  BY <1>1, ConstantFact
<1>3. Chunk = SubSeq(Image, sent + 1, m)
  BY DEF Chunk
<1> HIDE DEF m
<1>4. /\ Len(Chunk) = m - sent
      /\ Chunk = [k \in 1 .. m - sent |-> Image[sent + k]]
  <2>1. SubSeq(Image, sent + 1, m) = [k \in 1 .. (m - (sent + 1) + 1) |-> Image[k + (sent + 1) - 1]]
    BY <1>1, <1>2, ConstantFact
  <2>2. (m - (sent + 1) + 1) = m - sent
    BY <1>1, <1>2
  <2>3. \A k \in 1 .. m - sent : k + (sent + 1) - 1 = sent + k
    BY <1>1, <1>2
  <2>4. Chunk = [k \in 1 .. m - sent |-> Image[sent + k]]
    BY <1>3, <2>1, <2>2, <2>3
  <2> QED BY <1>2, <2>4
<1>5. \A k \in 1 .. m - sent : sent + k \in 1 .. Len(Image)
  BY <1>1, <1>2, ConstantFact
<1>6. Chunk \in [1 .. m - sent -> Value]
  BY <1>4, <1>5, ConstantFact
<1>7. m - sent \in 1 .. MaxPayload
  BY <1>1, <1>2
<1>8. Chunk \in Payload
  BY <1>6, <1>7 DEF Payload
<1>9. Len(Chunk) \in 1 .. ChunkWords /\ sent + Len(Chunk) \in 1 .. Len(Image)
  BY <1>1, <1>2, <1>4, ConstantFact
<1>10. \A k \in 1 .. Len(Chunk) : Chunk[k] = Image[sent + k]
  BY <1>4
<1> QED BY <1>4, <1>6, <1>8, <1>9, <1>10

LEMMA CutFact ==
  ASSUME HostTypeOK, sent < Len(Image), NEW n \in Nat
  PROVE  Cut(Chunk, n) \in Payload /\ Len(Cut(Chunk, n)) = Len(Chunk)
<1> DEFINE m == Len(Chunk)
           c == Chunk
<1>1. m \in 1 .. MaxPayload /\ c \in [1 .. m -> Value] /\ MaxPayload \in Nat
  BY ChunkFact, HostAssumption, BootloaderAssumption
<1>2. Cut(c, n) = [k \in 1 .. m |-> IF k <= n THEN c[k] ELSE {}]
  BY <1>1 DEF Cut
<1> HIDE DEF m, c
<1>3. Cut(c, n) \in [1 .. m -> Value]
  BY <1>1, <1>2 DEF Value
<1>4. Len(Cut(c, n)) = m
  BY <1>1, <1>2
<1> QED BY <1>1, <1>3, <1>4 DEF m, c, Payload

-----------------------------------------------------------------------------
\* Steps that leave the flash alone

LEMMA SameFlash ==
  ASSUME flash' = flash
  PROVE  /\ ImageInPlace' <=> ImageInPlace
         /\ \A k : InPlace(k)' <=> InPlace(k)
         /\ \A n : ErasedFrom(n)' <=> ErasedFrom(n)
BY DEF ImageInPlace, InPlace, ErasedFrom

LEMMA NoneSent == 0 \in 0 .. Len(Image)
BY ConstantFact

LEMMA InitHostInv == HostInit => HostInv
<1> SUFFICES ASSUME HostInit PROVE HostInv
  OBVIOUS
<1>1. IInv
  BY InitIInv DEF HostInit
<1>2. HostTypeOK /\ Progress
  BY NoneSent, Zenon DEF HostInit, HostTypeOK, Stage, Progress
<1>3. Conversation
  BY DEF HostInit, Init, Conversation, Writing, Answered
<1>4. Verified /\ RegistersFollow /\ ProgramStays /\ EraseStays /\ ErasesImage /\ SoundSession
      /\ AcknowledgedIsInPlace
  BY ConstantFact
  DEF HostInit, Init, Verified, RegistersFollow, ProgramStays, EraseStays, ErasesImage,
      SoundSession, AcknowledgedIsInPlace, Answered, Acknowledged
<1> QED BY <1>1, <1>2, <1>3, <1>4 DEF HostInv

\* A step of the host alone, after which it is silent.
LEMMA GoSilentInv ==
  ASSUME HostInv, GoSilent, UNCHANGED <<device, pc, state, registers, loop>>,
         reply' = reply \/ reply' = NoReply
  PROVE  HostInv'
<1>1. IInv'
  BY DEF HostInv, IInv, TypeOK, SessionStartsClean, UnlockedOnlyWhileWriting, WritesInSession,
         NoReply, Status
<1>2. HostTypeOK' /\ Progress'
  BY NoneSent, Zenon DEF HostInv, GoSilent, HostTypeOK, Stage, Progress
<1>3. Conversation'
  BY DEF HostInv, GoSilent, Conversation, Writing, Answered
<1>4. Verified'
  BY SameFlash DEF HostInv, GoSilent, Verified, Answered, Acknowledged
<1>5. RegistersFollow' /\ EraseStays' /\ ErasesImage' /\ SoundSession' /\ AcknowledgedIsInPlace'
  BY DEF HostInv, GoSilent, RegistersFollow, EraseStays, ErasesImage, SoundSession,
         AcknowledgedIsInPlace
<1>6. ProgramStays'
  BY DEF HostInv, GoSilent, ProgramStays
<1> QED BY <1>1, <1>2, <1>3, <1>4, <1>5, <1>6 DEF HostInv

\* No reply is pending for a host that does not wait.
LEMMA NotWaiting ==
  ASSUME HostInv, ~waiting, stage # "silent"
  PROVE  reply = NoReply /\ pc \notin {"erase", "program"}
BY DEF HostInv, Conversation, Writing

LEMMA SendUnheardInv == HostInv /\ SendUnheard => HostInv'
<1> SUFFICES ASSUME HostInv, SendUnheard PROVE HostInv'
  OBVIOUS
<1>1. /\ stage \in Command \ {"HANDSHAKE"} /\ pc = "listen" /\ state = "NONE"
      /\ ~waiting /\ waiting' = TRUE /\ UNCHANGED <<stage, sent, sound>> /\ UNCHANGED vars
  BY DEF SendUnheard, Sends, Listening
<1>2. reply = NoReply
  BY <1>1, NotWaiting DEF Command
<1>3. IInv'
  BY <1>1
  DEF HostInv, vars, IInv, TypeOK, SessionStartsClean, UnlockedOnlyWhileWriting, WritesInSession
<1>4. HostTypeOK' /\ Progress'
  BY <1>1, Zenon DEF HostInv, HostTypeOK, Progress
<1>5. Conversation'
  BY <1>1, <1>2 DEF vars, HostInv, Conversation, Writing, Answered
<1>6. Verified' /\ (AcknowledgedIsInPlace' <=> AcknowledgedIsInPlace)
  BY <1>1, <1>2, SameFlash DEF HostInv, vars, Verified, Answered, Acknowledged, AcknowledgedIsInPlace
<1>7. RegistersFollow' /\ ErasesImage' /\ SoundSession'
  BY <1>1, <1>2
  DEF HostInv, vars, RegistersFollow, ErasesImage, SoundSession, Answered, Acknowledged
<1>8. ProgramStays' /\ EraseStays'
  BY <1>1 DEF vars, ProgramStays, EraseStays
<1> QED BY <1>3, <1>4, <1>5, <1>6, <1>7, <1>8 DEF HostInv

LEMMA HostRestartInv == HostInv /\ HostRestart => HostInv'
<1> SUFFICES ASSUME HostInv, HostRestart PROVE HostInv'
  OBVIOUS
<1>1. /\ stage = "silent" /\ stage' = "HANDSHAKE" /\ pc = "listen" /\ state = "NONE"
      /\ reply' = NoReply
      /\ UNCHANGED <<device, pc, state, registers, loop, waiting, sent>>
  BY DEF HostRestart, Listening
<1>2. daddr' = 0 /\ dsz' = 0 /\ ~waiting /\ sent = 0
  BY <1>1 DEF HostInv, IInv, SessionStartsClean, Conversation, Progress, Command
<1>3. IInv'
  BY <1>1
  DEF HostInv, IInv, TypeOK, SessionStartsClean, UnlockedOnlyWhileWriting, WritesInSession,
      NoReply, Status
<1>4. HostTypeOK' /\ Progress'
  BY <1>1, <1>2, Zenon DEF HostInv, HostRestart, HostTypeOK, Progress, Stage
<1>5. Conversation'
  BY <1>1, <1>2 DEF Conversation, Writing, Answered
<1>6. Verified' /\ RegistersFollow' /\ ErasesImage' /\ SoundSession' /\ AcknowledgedIsInPlace'
  BY <1>1, <1>2
  DEF Verified, RegistersFollow, ErasesImage, SoundSession, AcknowledgedIsInPlace, Answered, Acknowledged
<1>7. ProgramStays' /\ EraseStays'
  BY <1>1 DEF ProgramStays, EraseStays
<1> QED BY <1>3, <1>4, <1>5, <1>6, <1>7 DEF HostInv

LEMMA InactivityInv == HostInv /\ Inactivity => HostInv'
<1> SUFFICES ASSUME HostInv, Inactivity PROVE HostInv'
  OBVIOUS
<1>1. /\ ~waiting /\ pc = "listen" /\ state' = "NONE" /\ daddr' = 0 /\ dsz' = 0
      /\ UNCHANGED <<device, pc, loop, reply>> /\ UNCHANGED host
  BY DEF Inactivity, KillSession, Forget, InSession, Listening
<1>2. IInv'
  BY KillSessionIInv DEF HostInv, Inactivity
<1>3. HostTypeOK' /\ Progress'
  BY <1>1, Zenon DEF HostInv, host, HostTypeOK, Progress
<1>4. Conversation'
  BY <1>1 DEF HostInv, host, Conversation, Writing, Answered
<1>5. Verified' /\ (AcknowledgedIsInPlace' <=> AcknowledgedIsInPlace)
  BY <1>1, SameFlash DEF HostInv, host, Verified, Answered, Acknowledged, AcknowledgedIsInPlace
<1>6. RegistersFollow' /\ ErasesImage' /\ SoundSession'
  BY <1>1 DEF host, RegistersFollow, ErasesImage, SoundSession, Answered, Acknowledged
<1>7. ProgramStays' /\ EraseStays'
  BY <1>1 DEF ProgramStays, EraseStays
<1> QED BY <1>2, <1>3, <1>4, <1>5, <1>6, <1>7 DEF HostInv

LEMMA ReceiveGoodInv ==
  ASSUME HostInv, HostReceive, ~GoSilent
  PROVE  HostInv'
<1>1. /\ Acknowledged /\ ~waiting' /\ reply' = NoReply
      /\ sent' = (IF stage = "FLASH_DATA" THEN sent + Len(Chunk) ELSE sent)
      /\ stage' = NextStage
      /\ stage = "DATA_CRC" => reply.crc = Image
      /\ UNCHANGED <<device, pc, state, registers, loop, sound>>
  BY DEF HostReceive, Good, Answered, Acknowledged
<1>2. waiting' \in BOOLEAN /\ sound' \in BOOLEAN
  <2>1. waiting' = FALSE
    BY Zenon DEF HostReceive
  <2>2. sound' = sound
    BY <1>1
  <2> QED BY <2>1, <2>2, Zenon DEF HostInv, HostTypeOK
<1>3. pc \notin {"erase", "program", "astray"} /\ state = "SESSION" /\ stage \in Command
  BY <1>1 DEF HostInv, Conversation, Acknowledged, Answered, Writing
<1>4. IInv'
  BY <1>1
  DEF HostInv, IInv, TypeOK, SessionStartsClean, UnlockedOnlyWhileWriting, WritesInSession,
      NoReply, Status
<1>5. Reached' = sent'
  BY <1>1, <1>3 DEF Reached, Acknowledged, Answered
<1>6. ProgramStays' /\ EraseStays'
  BY <1>1, <1>3 DEF ProgramStays, EraseStays
<1>7. stage \in {"HANDSHAKE", "FLASH", "FLASH_DATA", "DATA_CRC", "BOOT"}
  BY <1>3 DEF HostInv, HostTypeOK, Stage, Command
<1>8. ErasesImage'
  BY <1>1, <1>3 DEF ErasesImage, Acknowledged, Answered
<1>9. Verified' /\ Conversation'
  <2>1. stage \in {"DATA_CRC", "BOOT"} \/ pc = "jumped" => ImageInPlace'
    BY <1>1, SameFlash DEF HostInv, Verified
  <2>2. stage' \in {"BOOT", "done"} => stage \in {"DATA_CRC", "BOOT"}
    BY <1>1, <1>7 DEF NextStage
  <2>3. pc = "jumped" => stage = "BOOT"
    BY <1>3 DEF HostInv, Conversation, Command
  <2>4. stage = "BOOT" => stage' = "done"
    BY <1>1 DEF NextStage
  <2> QED BY <1>1, <1>3, <2>1, <2>2, <2>3, <2>4
    DEF Verified, Conversation, Acknowledged, Answered, Writing
<1>10. CASE stage = "HANDSHAKE"
  <2>1. stage' = "FLASH" /\ sent' = sent /\ sent = 0 /\ daddr' = 0 /\ dsz' = 0
    BY <1>1, <1>10 DEF NextStage, HostInv, Progress, RegistersFollow
  <2>2. HostTypeOK' /\ Progress'
    BY <1>2, <2>1, NoneSent, Zenon DEF HostInv, HostTypeOK, Progress, Stage
  <2>3. RegistersFollow' /\ SoundSession' /\ AcknowledgedIsInPlace'
    BY <1>1, <1>3, <2>1
    DEF RegistersFollow, SoundSession, AcknowledgedIsInPlace, Acknowledged, Answered
  <2> QED BY <1>4, <1>6, <1>8, <1>9, <2>2, <2>3 DEF HostInv
<1>11. CASE stage = "FLASH"
  <2>1. /\ stage' = "FLASH_DATA" /\ sent' = sent /\ sent = 0 /\ daddr' = Offset(0)
        /\ Reached' = 0
    BY <1>1, <1>5, <1>11 DEF NextStage, HostInv, Progress, RegistersFollow
  <2>2. HostTypeOK' /\ Progress'
    <3>1. 0 < Len(Image)
      BY ConstantFact
    <3> QED BY <1>2, <2>1, <3>1, NoneSent, Zenon DEF HostInv, HostTypeOK, Progress, Stage
  <2>3. RegistersFollow'
    <3>1. 0 \in 0 .. Reached'
      BY <2>1
    <3> QED BY <2>1, <3>1, Zenon DEF RegistersFollow
  <2>4. SoundSession' /\ AcknowledgedIsInPlace'
    <3>1. Erasable => ErasedFrom(1)'
      BY <1>1, <1>11, SameFlash DEF HostInv, ErasesImage
    <3>2. 1 .. 0 = {} /\ 0 + 1 = 1
      OBVIOUS
    <3> QED BY <1>1, <1>3, <2>1, <3>1, <3>2 DEF SoundSession, AcknowledgedIsInPlace
  <2> QED BY <1>4, <1>6, <1>8, <1>9, <2>2, <2>3, <2>4 DEF HostInv
<1>12. CASE stage = "FLASH_DATA"
  <2>1. /\ stage' = IF sent' < Len(Image) THEN "FLASH_DATA" ELSE "DATA_CRC"
        /\ sent' = sent + Len(Chunk) /\ Reached' = Reached /\ Reached = sent'
    BY <1>1, <1>3, <1>5, <1>12 DEF NextStage, Reached
  <2>2. sent' \in 0 .. Len(Image)
    <3>1. HostTypeOK /\ sent < Len(Image)
      BY <1>12 DEF HostInv, Progress
    <3> QED BY <2>1, <3>1, ChunkFact, ConstantFact
  <2>3. HostTypeOK' /\ Progress'
    <3>1. stage' \in {"FLASH_DATA", "DATA_CRC"} /\ (stage' = "FLASH_DATA" => sent' < Len(Image))
      BY <2>1
    <3> QED BY <1>2, <2>2, <3>1, Zenon DEF HostTypeOK, Progress, Stage
  <2>4. RegistersFollow'
    BY <1>1, <1>3, <1>12, <2>1 DEF HostInv, RegistersFollow, Acknowledged, Answered, Offset
  <2>5. SoundSession' /\ (Erasable => AcknowledgedIsInPlace')
    <3>1. \A k : InPlace(k)' <=> InPlace(k)
      BY <1>1, SameFlash
    <3>2. ErasedFrom(Reached + 1)' <=> ErasedFrom(Reached + 1)
      BY <1>1, <2>1 DEF ErasedFrom
    <3>3. Erasable /\ sound => /\ daddr' = Offset(Reached')
                               /\ \A k \in 1 .. Reached' : InPlace(k)'
                               /\ ErasedFrom(Reached + 1)'
      BY <1>1, <1>3, <1>12, <2>1, <3>1, <3>2 DEF HostInv, SoundSession, Offset
    <3> QED BY <1>1, <1>3, <2>1, <3>3 DEF SoundSession, AcknowledgedIsInPlace
  <2> QED BY <1>4, <1>6, <1>8, <1>9, <2>3, <2>4, <2>5 DEF HostInv
<1>13. CASE stage \in {"DATA_CRC", "BOOT"}
  <2>1. stage' \in {"BOOT", "done"} /\ sent' = sent
    BY <1>1, <1>13 DEF NextStage
  <2>2. HostTypeOK' /\ Progress'
    BY <1>2, <2>1, Zenon DEF HostInv, HostTypeOK, Progress, Stage
  <2>3. RegistersFollow' /\ SoundSession' /\ AcknowledgedIsInPlace'
    BY <2>1 DEF RegistersFollow, SoundSession, AcknowledgedIsInPlace
  <2> QED BY <1>4, <1>6, <1>8, <1>9, <2>2, <2>3 DEF HostInv
<1> QED BY <1>7, <1>10, <1>11, <1>12, <1>13

\* The host takes a reply, or gives up waiting for it.
LEMMA HostReceiveInv == HostInv /\ HostReceive => HostInv'
BY GoSilentInv, ReceiveGoodInv DEF HostReceive

LEMMA HostTimeoutInv == HostInv /\ (HostTimeout \/ HostGiveUp) => HostInv'
BY GoSilentInv DEF HostTimeout, HostGiveUp, vars

-----------------------------------------------------------------------------
\* The host sends

LEMMA ImageSizeFact == ImageSize \in Address /\ ImageAddress \in Address
<1>1. 0 \in 0 .. Len(Image) /\ Len(Image) \in 0 .. Len(Image)
  BY ConstantFact
<1>2. ImageOffset + ImageSize < AddressSpace
  BY <1>1, OffsetBound
<1>3. ImageSize \in Nat
  BY ConstantFact DEF ImageSize
<1> QED BY <1>2, <1>3, ConstantFact, HostAssumption DEF Address

\* What every command of the host has in common: it is sent in its stage to a
\* loop that has nothing else to do.
LEMMA SendsFact ==
  ASSUME HostInv, stage # "silent", ~waiting
  PROVE  reply = NoReply /\ ~Answered /\ ~Acknowledged /\ (pc # "program" => Reached = sent)
BY NotWaiting DEF Answered, Acknowledged, Reached

LEMMA SendHandshakeInv == HostInv /\ SendHandshake => HostInv'
<1> SUFFICES ASSUME HostInv, SendHandshake PROVE HostInv'
  OBVIOUS
<1>1. /\ stage = "HANDSHAKE" /\ waiting' /\ UNCHANGED <<stage, sent, sound>>
      /\ pc = "listen" /\ state' = "SESSION" /\ UNCHANGED <<device, pc, registers, loop>>
  BY DEF SendHandshake, Sends, Handshake, Listening
<1>2. IInv'
  BY HandshakeIInv DEF HostInv, SendHandshake
<1>3. HostTypeOK' /\ Progress'
  <2>1. waiting' \in BOOLEAN
    BY Zenon DEF SendHandshake, Sends
  <2> QED BY <1>1, <2>1, Zenon DEF HostInv, HostTypeOK, Progress
<1>4. Conversation' /\ ProgramStays' /\ EraseStays'
  BY <1>1 DEF Conversation, Writing, Answered, Command, ProgramStays, EraseStays
<1>5. Verified' /\ RegistersFollow' /\ ErasesImage' /\ SoundSession' /\ AcknowledgedIsInPlace'
  BY <1>1
  DEF HostInv, Verified, RegistersFollow, ErasesImage, SoundSession, AcknowledgedIsInPlace
<1> QED BY <1>2, <1>3, <1>4, <1>5 DEF HostInv

\* The end of a command that was damaged on the way: no good reply.
LEMMA SendDamagedInv == HostInv /\ SendDamaged => HostInv'
<1> SUFFICES ASSUME HostInv, SendDamaged PROVE HostInv'
  OBVIOUS
<1>1. PICK status \in Status : Refused(stage, status) \/ (stage = "BOOT" /\ BootRefused(status))
  BY DEF SendDamaged
<1>2. /\ ~waiting /\ waiting' /\ UNCHANGED <<stage, sent, sound>>
      /\ stage \in Command \ {"HANDSHAKE"} /\ pc = "listen" /\ state = "SESSION"
      /\ reply'.status # "OK"
      /\ UNCHANGED <<device, pc, state, registers, loop>>
  <2>1. ~waiting /\ waiting' /\ UNCHANGED <<stage, sent, sound>>
    BY DEF SendDamaged, Sends
  <2>2. CASE Refused(stage, status)
    BY <2>1, <2>2 DEF Refused, InSession, Listening, Reply, Command
  <2>3. CASE stage = "BOOT" /\ BootRefused(status)
    BY <2>1, <2>3 DEF BootRefused, InSession, Listening, Reply, Command
  <2> QED BY <1>1, <2>2, <2>3
<1>3. IInv'
  <2>1. stage \in Command
    BY <1>2
  <2> QED BY <1>1, <2>1, RefusedIInv, BootRefusedIInv DEF HostInv
<1>4. ~Acknowledged /\ ~Acknowledged' /\ Reached' = Reached
  BY <1>2, SendsFact DEF Acknowledged, Reached, Command
<1>5. HostTypeOK' /\ Progress'
  <2>1. waiting' \in BOOLEAN
    BY Zenon DEF SendDamaged, Sends
  <2> QED BY <1>2, <2>1, Zenon DEF HostInv, HostTypeOK, Progress
<1>6. Conversation' /\ ProgramStays' /\ EraseStays'
  BY <1>2 DEF Conversation, Writing, Answered, ProgramStays, EraseStays
<1>7. Verified' /\ (AcknowledgedIsInPlace' <=> AcknowledgedIsInPlace)
  BY <1>2, <1>4, SameFlash DEF HostInv, Verified, AcknowledgedIsInPlace
<1>8. RegistersFollow' /\ ErasesImage'
  BY <1>2, <1>4 DEF HostInv, RegistersFollow, ErasesImage, Offset
<1>9. SoundSession'
  <2>1. ErasedFrom(Reached + 1)' <=> ErasedFrom(Reached + 1)
    BY <1>2, <1>4 DEF ErasedFrom
  <2> QED BY <1>2, <1>4, <2>1, SameFlash DEF HostInv, SoundSession, Offset
<1> QED BY <1>3, <1>5, <1>6, <1>7, <1>8, <1>9 DEF HostInv

\* BOOT is sent when the image is verified, and the jump leaves it alone.
LEMMA SendBootInv == HostInv /\ SendBoot => HostInv'
<1> SUFFICES ASSUME HostInv, SendBoot PROVE HostInv'
  OBVIOUS
<1>1. /\ stage = "BOOT" /\ ~waiting /\ waiting' /\ UNCHANGED <<stage, sent, sound>>
      /\ pc = "listen" /\ pc' \in {"listen", "jumped"} /\ state = "SESSION"
      /\ UNCHANGED <<device, state, daddr, dsz, loop>>
  BY DEF SendBoot, Sends, Boot, InSession, Listening
<1>2. IInv'
  BY BootIInv, ImageSizeFact DEF HostInv, SendBoot
<1>3. HostTypeOK' /\ Progress'
  <2>1. waiting' \in BOOLEAN
    BY Zenon DEF SendBoot, Sends
  <2> QED BY <1>1, <2>1, Zenon DEF HostInv, HostTypeOK, Progress
<1>4. Conversation' /\ ProgramStays' /\ EraseStays'
  BY <1>1 DEF Conversation, Writing, Answered, Command, ProgramStays, EraseStays
<1>5. Verified'
  BY <1>1, SameFlash DEF HostInv, Verified
<1>6. RegistersFollow' /\ ErasesImage' /\ SoundSession' /\ AcknowledgedIsInPlace'
  BY <1>1 DEF RegistersFollow, ErasesImage, SoundSession, AcknowledgedIsInPlace
<1> QED BY <1>2, <1>3, <1>4, <1>5, <1>6 DEF HostInv

\* The sectors FLASH finds for the image: it erases at most the one the image
\* begins in, and exactly that where it encloses the image.
LEMMA FlashFindsImage ==
  ASSUME NEW num \in bl_flash_get_sector_num(ImageOffset, ImageSize), num.found
  PROVE  /\ \A s \in num.e .. num.s : s < FlashSectors => Begins(s)
         /\ \A s \in 0 .. FlashSectors - 1 : Encloses(s) => num.s = s /\ num.e = s
<1> DEFINE x == ImageOffset + ImageSize
<1>1. /\ ImageOffset \in Address /\ ImageOffset \in Nat /\ ImageSize \in Address
      /\ x \in Nat /\ x % AddressSpace = x
  <2>1. 0 \in 0 .. Len(Image) /\ Len(Image) \in 0 .. Len(Image)
    BY ConstantFact
  <2>2. Offset(0) \in Address /\ x < AddressSpace
    BY <2>1, OffsetBound
  <2>3. x \in Nat
    BY ConstantFact, ImageSizeFact DEF Address
  <2> QED BY <2>2, <2>3, OffsetZero, ImageSizeFact, NoWrapFact, ConstantFact
<1> HIDE DEF x
<1>2. /\ num.s \in Nat /\ num.e \in Nat
      /\ \/ /\ num.s \in EndsAfter(ImageOffset, 0)
            /\ \A j \in EndsAfter(ImageOffset, 0) : num.s <= j
            /\ num.e \in EndsAfter(x, num.s)
            /\ \A j \in EndsAfter(x, num.s) : num.e <= j
         \/ /\ num.e = TableSectors
            /\ \/ EndsAfter(ImageOffset, 0) = {}
               \/ /\ num.s \in EndsAfter(ImageOffset, 0)
                  /\ \A j \in EndsAfter(ImageOffset, 0) : num.s <= j
                  /\ EndsAfter(x, num.s) = {}
  BY <1>1, SectorNumFact DEF x
<1>3. /\ TableSectors \in Nat /\ FlashSectors \in 1 .. TableSectors
      /\ \A j \in 0 .. TableSectors : SectorBase[j] \in Nat
      /\ SectorBase[0] = 0
  BY LayoutAssumption, BaseType, BaseStep
<1>4. ASSUME NEW s \in num.e .. num.s, s < FlashSectors
      PROVE  Begins(s)
  <2>1. /\ num.s \in EndsAfter(ImageOffset, 0)
        /\ \A j \in EndsAfter(ImageOffset, 0) : num.s <= j
        /\ num.e \in EndsAfter(x, num.s)
    BY <1>2, <1>3, <1>4
  <2>2. s = num.s /\ s \in 0 .. TableSectors - 1 /\ ImageOffset < SectorBase[s + 1]
    BY <1>2, <1>3, <1>4, <2>1 DEF EndsAfter
  <2>3. CASE s = 0
    BY <1>1, <1>3, <2>2, <2>3 DEF Begins
  <2>4. CASE s # 0
    <3>1. s - 1 \in 0 .. TableSectors - 1 /\ (s - 1) + 1 = s /\ ~ (s <= s - 1)
      BY <1>3, <2>2, <2>4
    <3>2. ~ (ImageOffset < SectorBase[s])
      BY <2>1, <2>2, <3>1 DEF EndsAfter
    <3>3. SectorBase[s] \in Nat
      BY <1>3, <2>2
    <3> QED BY <1>1, <2>2, <3>2, <3>3 DEF Begins
  <2> QED BY <2>3, <2>4
<1>5. ASSUME NEW s \in 0 .. FlashSectors - 1, Encloses(s)
      PROVE  num.s = s /\ num.e = s
  <2>1. /\ s \in 0 .. TableSectors - 1 /\ s \in Nat
        /\ SectorBase[s] \in Nat /\ SectorBase[s + 1] \in Nat
    BY <1>3
  <2>2. SectorBase[s] <= ImageOffset /\ x < SectorBase[s + 1] /\ ImageOffset <= x
    <3>1. ImageSize \in Nat
      BY <1>1 DEF Address
    <3> QED BY <1>1, <1>5, <3>1 DEF Encloses, x
  <2>3. s \in EndsAfter(ImageOffset, 0) /\ s \in EndsAfter(x, s)
    BY <1>1, <2>1, <2>2 DEF EndsAfter
  <2>4. num.s \in EndsAfter(ImageOffset, 0)
    BY <1>2, <2>3
  <2>5. num.s \in 0 .. TableSectors - 1 /\ ImageOffset < SectorBase[num.s + 1]
    BY <2>4 DEF EndsAfter
  <2>6. ~ (num.s < s)
    <3>1. SUFFICES ASSUME num.s < s PROVE FALSE
      OBVIOUS
    <3>2. num.s + 1 \in 0 .. TableSectors /\ s \in 0 .. TableSectors /\ num.s + 1 <= s
      BY <1>2, <1>3, <2>1, <2>5, <3>1
    <3>3. SectorBase[num.s + 1] <= SectorBase[s] /\ SectorBase[num.s + 1] \in Nat
      BY <1>3, <3>2, SectorsInOrder
    <3> QED BY <1>1, <2>1, <2>2, <2>5, <3>3
  <2>7. num.s = s /\ num.e \in EndsAfter(x, s) /\ \A j \in EndsAfter(x, s) : num.e <= j
    <3>1. num.s <= s
      BY <1>2, <2>3
    <3>2. num.s = s
      BY <1>2, <2>1, <2>6, <3>1
    <3> QED BY <1>2, <2>3, <3>2
  <2>8. num.e \in s .. TableSectors - 1 /\ num.e <= s
    BY <2>3, <2>7 DEF EndsAfter
  <2> QED BY <1>2, <2>1, <2>7, <2>8
<1> QED BY <1>4, <1>5

\* FLASH comes to clear registers, so that they hold the image's range.
LEMMA SendFlashInv == HostInv /\ SendFlash => HostInv'
<1> SUFFICES ASSUME HostInv, SendFlash PROVE HostInv'
  OBVIOUS
<1>1. /\ stage = "FLASH" /\ ~waiting /\ waiting' /\ UNCHANGED <<stage, sent, sound>>
      /\ pc = "listen" /\ state = "SESSION" /\ UNCHANGED <<flash, state, addr, dbuf>>
  BY DEF SendFlash, Sends, Flash, InSession, Listening, StartErase
<1>2. IInv'
  BY FlashIInv, ImageSizeFact DEF HostInv, SendFlash
<1>3. HostTypeOK' /\ Progress'
  <2>1. waiting' \in BOOLEAN
    BY Zenon DEF SendFlash, Sends
  <2> QED BY <1>1, <2>1, Zenon DEF HostInv, HostTypeOK, Progress
<1>4. daddr' = ImageOffset /\ dsz' = ImageSize
  <2>1. daddr = 0 /\ dsz = 0
    BY <1>1 DEF HostInv, RegistersFollow
  <2>2. BitOr(0, ImageAddress) = ImageAddress /\ BitOr(0, ImageSize) = ImageSize
    BY ImageSizeFact, OrAssumption
  <2>3. ImageOffset % AddressSpace = ImageOffset
    <3>1. 0 \in 0 .. Len(Image)
      BY ConstantFact
    <3>2. ImageOffset < AddressSpace
      BY <3>1, OffsetBound, OffsetZero
    <3> QED BY <3>2, ConstantFact, NoWrapFact
  <2>4. daddr' = (BitOr(daddr, ImageAddress) - Base) % AddressSpace /\ dsz' = BitOr(dsz, ImageSize)
    BY DEF SendFlash, Flash
  <2> QED BY <2>1, <2>2, <2>3, <2>4 DEF ImageOffset
<1>5. PICK num \in bl_flash_get_sector_num(ImageOffset, ImageSize) :
        \/ /\ num.found
           /\ StartErase("FLASH", num.e, num.s)
           /\ UNCHANGED reply
        \/ /\ reply' = Reply("FLASH", "ARGERR")
           /\ UNCHANGED pc
  BY <1>4 DEF SendFlash, Flash, Accepts
<1>6. Verified' /\ SoundSession' /\ AcknowledgedIsInPlace' /\ ProgramStays'
  BY <1>1, <1>5
  DEF Verified, SoundSession, AcknowledgedIsInPlace, ProgramStays, StartErase
<1>7. CASE num.found /\ StartErase("FLASH", num.e, num.s) /\ UNCHANGED reply
  <2>1. pc' = "erase" /\ i' = num.e /\ last' = num.s /\ ~Answered'
    BY <1>1, <1>7, SendsFact DEF StartErase, Answered
  <2>2. Conversation'
    BY <1>1, <2>1 DEF Conversation, Writing, Command
  <2>3. RegistersFollow'
    BY <1>1, <1>4, OffsetZero DEF RegistersFollow, Offset
  <2>4. EraseStays'
    BY <1>7, <2>1, FlashFindsImage DEF EraseStays
  <2>5. ErasesImage'
    <3>1. \A s \in 0 .. FlashSectors - 1 : Encloses(s) => num.s = s /\ num.e = s
      BY <1>7, FlashFindsImage
    <3>2. \A s \in 0 .. FlashSectors - 1 : s \in {s, s + 1} /\ s # s + 1
      BY LayoutAssumption
    <3> QED BY <2>1, <3>1, <3>2 DEF ErasesImage, Acknowledged
  <2> QED BY <1>2, <1>3, <1>6, <2>2, <2>3, <2>4, <2>5 DEF HostInv
<1>8. CASE reply' = Reply("FLASH", "ARGERR") /\ UNCHANGED pc
  <2>1. ~Acknowledged' /\ pc' = "listen"
    BY <1>1, <1>8 DEF Acknowledged, Reply
  <2>2. Conversation' /\ RegistersFollow' /\ EraseStays' /\ ErasesImage'
    BY <1>1, <2>1
    DEF Conversation, Writing, Answered, Command, RegistersFollow, EraseStays, ErasesImage
  <2> QED BY <1>2, <1>3, <1>6, <2>2 DEF HostInv
<1> QED BY <1>5, <1>7, <1>8

\* FLASH_DATA, whole or not.
LEMMA FlashDataInv ==
  ASSUME HostInv, NEW payload \in Payload, FlashData(payload), Len(payload) = Len(Chunk),
         stage = "FLASH_DATA", ~waiting, waiting' = TRUE, UNCHANGED <<stage, sent>>,
         sound' \in BOOLEAN, sound' => sound /\ payload = Chunk
  PROVE  HostInv'
<1>1. /\ pc = "listen" /\ state = "SESSION" /\ pc' = "program" /\ cmd' = "FLASH_DATA"
      /\ i' = 0 /\ dbuf' = payload
      /\ UNCHANGED <<flash, state, registers, reply>>
  BY DEF FlashData, InSession, Listening
<1>2. IInv'
  BY FlashDataIInv DEF HostInv
<1>3. HostTypeOK' /\ Progress'
  BY Zenon DEF HostInv, HostTypeOK, Progress
<1>4. ~Answered' /\ Reached = sent /\ Reached' = sent /\ Chunk' = Chunk
  <2>1. sent + 0 = sent
    BY DEF HostInv, HostTypeOK
  <2> QED BY <1>1, <2>1, SendsFact DEF Answered, Reached, Chunk
<1>5. Conversation'
  BY <1>1, <1>4 DEF Conversation, Writing, Command
<1>6. Verified' /\ EraseStays' /\ ErasesImage'
  BY <1>1 DEF Verified, EraseStays, ErasesImage
<1>7. \E j \in 0 .. sent : daddr = Offset(j)
  BY <1>1, <1>4 DEF HostInv, RegistersFollow
<1>8. RegistersFollow'
  BY <1>1, <1>4, <1>7 DEF RegistersFollow, Offset
<1>9. ProgramStays'
  <2>1. /\ sent \in Nat /\ Len(Image) \in Nat /\ Len(payload) \in Nat
        /\ sent + Len(payload) <= Len(Image)
    BY ChunkFact, ConstantFact, PayloadFact DEF HostInv, HostTypeOK, Progress
  <2>2. PICK j \in 0 .. sent : daddr = Offset(j)
    BY <1>7
  <2>3. j \in 0 .. Len(Image) /\ j + Len(payload) - 0 <= Len(Image) /\ 0 <= Len(payload)
    BY <2>1, <2>2
  <2>4. daddr' = Offset(j)' /\ Offset(j)' = Offset(j)
    BY <1>1, <2>2 DEF Offset
  <2> QED BY <1>1, <1>4, <2>3, <2>4 DEF ProgramStays
<1>10. AcknowledgedIsInPlace => AcknowledgedIsInPlace'
  BY <1>1, SameFlash DEF AcknowledgedIsInPlace
<1>11. SoundSession'
  <2>1. ErasedFrom(Reached + 1)' <=> ErasedFrom(Reached + 1)
    BY <1>1, <1>4 DEF ErasedFrom
  <2>2. \A k : InPlace(k)' <=> InPlace(k)
    BY <1>1, SameFlash
  <2> QED BY <1>1, <1>4, <2>1, <2>2 DEF HostInv, SoundSession, Offset
<1> QED BY <1>2, <1>3, <1>5, <1>6, <1>8, <1>9, <1>10, <1>11 DEF HostInv

LEMMA SendDataInv == HostInv /\ (SendData \/ SendCutData) => HostInv'
<1> SUFFICES ASSUME HostInv, SendData \/ SendCutData PROVE HostInv'
  OBVIOUS
<1>1. /\ stage = "FLASH_DATA" /\ ~waiting /\ waiting' = TRUE /\ UNCHANGED <<stage, sent>>
  BY Zenon DEF SendData, SendCutData, Sends
<1>2. HostTypeOK /\ sent < Len(Image)
  BY <1>1 DEF HostInv, Progress
<1>3. CASE SendData
  <2>1. FlashData(Chunk) /\ sound' = sound /\ sound \in BOOLEAN
    BY <1>2, <1>3, Zenon DEF SendData, Sends, HostTypeOK
  <2>2. Chunk \in Payload
    BY <1>2, ChunkFact
  <2> QED BY <1>1, <2>1, <2>2, FlashDataInv, Zenon
<1>4. CASE SendCutData
  <2>1. PICK n \in 0 .. Len(Chunk) - 1 : FlashData(Cut(Chunk, n))
    BY <1>4 DEF SendCutData
  <2>2. n \in Nat
    BY <1>2, ChunkFact
  <2>3. Cut(Chunk, n) \in Payload /\ Len(Cut(Chunk, n)) = Len(Chunk)
    BY <1>2, <2>2, CutFact
  <2>4. sound' = FALSE
    BY <1>4, Zenon DEF SendCutData
  <2> QED BY <1>1, <2>1, <2>3, <2>4, FlashDataInv, Zenon
<1> QED BY <1>3, <1>4

\* The CRC that DATA_CRC computes over the range of the image is that of the
\* image only if the image is there.
LEMMA CrcFact ==
  ASSUME DataCrc(ImageAddress, ImageSize), reply'.status = "OK", reply' # reply,
         reply'.crc = Image
  PROVE  ImageInPlace
<1> DEFINE start == (ImageAddress - Base) % AddressSpace
           count == ImageSize \div WordSize
           at == [n \in 1 .. count |-> (start + (n - 1) * WordSize) % AddressSpace]
           crc == [n \in DOMAIN at |-> IF Aligned(at[n]) THEN flash[WordAt(at[n])] ELSE {}]
<1>1. start = ImageOffset
  <2>1. 0 \in 0 .. Len(Image)
    BY ConstantFact
  <2>2. ImageOffset < AddressSpace
    BY <2>1, OffsetBound, OffsetZero
  <2> QED BY <2>2, ConstantFact, NoWrapFact DEF ImageOffset
<1>2. count = Len(Image)
  <2>1. Len(Image) \in Nat /\ WordSize \in Nat /\ WordSize > 0
    BY ConstantFact
  <2> QED BY <2>1 DEF ImageSize
<1>3. reply' = [Reply("DATA_CRC", "OK") EXCEPT !.crc = crc]
  <2>1. Reply("DATA_CRC", "ARGERR").status # "OK"
    BY DEF Reply
  <2> QED BY <2>1, Zenon DEF DataCrc
<1>4. crc = Image
  <2> HIDE DEF crc
  <2>1. reply'.crc = crc
    BY <1>3 DEF Reply
  <2> QED BY <2>1
<1>5. ASSUME NEW k \in DOMAIN Image PROVE InPlace(k)
  <2>1. k \in 1 .. Len(Image) /\ k - 1 \in Nat /\ k - 1 \in 0 .. Len(Image) /\ (k - 1) + 1 = k
    BY ConstantFact
  <2>2. /\ Offset(k - 1) \in Nat /\ Offset(k - 1) < AddressSpace
        /\ Aligned(Offset(k - 1)) /\ WordAt(Offset(k - 1)) = ImageWord(k)
    BY <2>1, OffsetFact, OffsetBound
  <2>3. at[k] = (ImageOffset + (k - 1) * WordSize) % AddressSpace
    BY <1>1, <1>2, <2>1
  <2>4. at[k] = Offset(k - 1)
    BY <2>2, <2>3, NoWrapFact DEF Offset
  <2>5. k \in DOMAIN at
    BY <1>2, <2>1
  <2> HIDE DEF at
  <2>6. crc[k] = flash[ImageWord(k)]
    BY <2>2, <2>4, <2>5
  <2> QED BY <1>4, <2>6 DEF InPlace
<1> QED BY <1>5 DEF ImageInPlace

LEMMA SendCrcInv == HostInv /\ SendCrc => HostInv'
<1> SUFFICES ASSUME HostInv, SendCrc PROVE HostInv'
  OBVIOUS
<1>1. /\ stage = "DATA_CRC" /\ ~waiting /\ waiting' /\ UNCHANGED <<stage, sent, sound>>
      /\ pc = "listen" /\ state = "SESSION" /\ UNCHANGED <<device, state, daddr, dsz, loop>>
      /\ DataCrc(ImageAddress, ImageSize)
  BY DEF SendCrc, Sends, DataCrc, InSession, Listening
<1>2. reply = NoReply
  BY <1>1, SendsFact
<1>3. pc' = "listen" \/ (pc' = "astray" /\ reply' = reply)
  BY <1>1 DEF DataCrc
<1>4. IInv'
  BY <1>1, DataCrcIInv, ImageSizeFact DEF HostInv
<1>5. HostTypeOK' /\ Progress'
  <2>1. waiting' \in BOOLEAN
    BY Zenon DEF SendCrc, Sends
  <2> QED BY <1>1, <2>1, Zenon DEF HostInv, HostTypeOK, Progress
<1>6. Conversation' /\ ProgramStays' /\ EraseStays'
  BY <1>1, <1>2, <1>3
  DEF Conversation, Writing, Answered, Command, ProgramStays, EraseStays
<1>7. Verified'
  <2>1. Acknowledged' /\ reply'.crc = Image => ImageInPlace
    BY <1>1, <1>2, CrcFact DEF Acknowledged, Answered, NoReply
  <2> QED BY <1>1, <1>3, <2>1, SameFlash DEF Verified
<1>8. RegistersFollow' /\ ErasesImage' /\ SoundSession'
  BY <1>1 DEF RegistersFollow, ErasesImage, SoundSession
<1>9. AcknowledgedIsInPlace' <=> AcknowledgedIsInPlace
  BY <1>1, SameFlash DEF AcknowledgedIsInPlace
<1> QED BY <1>4, <1>5, <1>6, <1>7, <1>8, <1>9 DEF HostInv

-----------------------------------------------------------------------------
\* The loop works

\* The words of the image lie in the sector that encloses it.
LEMMA EnclosedFact ==
  ASSUME NEW s \in 0 .. FlashSectors - 1, Encloses(s), NEW k \in DOMAIN Image
  PROVE  ImageWord(k) \in WordsOf(s)
<1>1. /\ k - 1 \in Nat /\ k - 1 \in 0 .. Len(Image) /\ k \in 0 .. Len(Image) /\ (k - 1) + 1 = k
      /\ 0 \in 0 .. Len(Image)
  BY ConstantFact
<1>2. ImageWord(k) * WordSize = Offset(k - 1)
  <2>1. /\ Offset(k - 1) % WordSize = 0 /\ Offset(k - 1) \div WordSize = ImageWord(k)
        /\ Offset(k - 1) \in Nat /\ WordSize \in Nat /\ WordSize > 0
    BY <1>1, OffsetFact, ConstantFact DEF Aligned, WordAt
  <2>2. ASSUME NEW x \in Nat, NEW d \in Nat, d > 0, x % d = 0
        PROVE  (x \div d) * d = x
    BY <2>2
  <2> QED BY <2>1, <2>2
<1>3. ImageOffset <= Offset(k - 1) /\ Offset(k - 1) < ImageOffset + ImageSize
  <2>1. /\ Offset(k) = Offset(k - 1) + WordSize /\ Offset(k - 1) \in Nat /\ Offset(k) \in Nat
        /\ Offset(k) <= ImageOffset + ImageSize
        /\ ImageSize \in Nat /\ WordSize \in Nat /\ WordSize > 0 /\ ImageOffset \in Nat
    <3>1. Offset((k - 1) + 1) = Offset(k - 1) + WordSize /\ Offset((k - 1) + 1) = Offset(k)
      BY <1>1, OffsetFact
    <3>2. Offset(k - 1) \in Nat /\ Offset(k) \in Nat /\ Offset(k) <= ImageOffset + ImageSize
      <4>1. k \in Nat
        BY <1>1
      <4>2. Offset(k) <= Offset(Len(Image)) /\ Offset(Len(Image)) = ImageOffset + ImageSize
        BY <1>1, OffsetBound
      <4> QED BY <1>1, <4>1, <4>2, OffsetFact
    <3> QED BY <3>1, <3>2, ImageSizeFact, ConstantFact DEF Address
  <2>2. (k - 1) * WordSize \in Nat
    BY <1>1, ConstantFact
  <2> QED BY <2>1, <2>2 DEF Offset
<1>4. /\ SectorBase[s] <= ImageOffset /\ ImageOffset + ImageSize < SectorBase[s + 1]
      /\ SectorBase[s] \in Nat /\ SectorBase[s + 1] \in Nat
      /\ Offset(k - 1) \in Nat /\ ImageOffset \in Nat /\ ImageSize \in Nat
  <2>1. s \in 0 .. TableSectors /\ s + 1 \in 0 .. TableSectors
    BY LayoutAssumption
  <2>2. SectorBase[s] \in Nat /\ SectorBase[s + 1] \in Nat
    BY <2>1, BaseType
  <2>3. SectorBase[s] <= ImageOffset /\ ImageOffset + ImageSize < SectorBase[s + 1]
    BY <1>1 DEF Encloses
  <2>4. Offset(k - 1) \in Nat /\ ImageOffset \in Nat /\ ImageSize \in Nat
    BY <1>1, OffsetFact, ConstantFact, ImageSizeFact DEF Address
  <2> QED BY <2>2, <2>3, <2>4
<1>5. SectorBase[s] <= Offset(k - 1) /\ Offset(k - 1) < SectorBase[s + 1]
  BY <1>3, <1>4
<1> QED BY <1>2, <1>5, ImageWordFact DEF WordsOf

\* Writing one word of the image leaves the others alone.
LEMMA OneWordFact ==
  ASSUME NEW f \in [Word -> Value], NEW n \in DOMAIN Image, NEW v,
         NEW g, g = [f EXCEPT ![ImageWord(n)] = v]
  PROVE  /\ g[ImageWord(n)] = v
         /\ \A k \in DOMAIN Image : k # n => g[ImageWord(k)] = f[ImageWord(k)]
         /\ \A w \in Word : w # ImageWord(n) => g[w] = f[w]
BY ImageWordFact

\* What no step of the loop changes but the reach of the loop.
LEMMA LoopTypeFact ==
  ASSUME HostInv, LoopStep
  PROVE  /\ HostTypeOK' /\ Progress'
         /\ UNCHANGED <<stage, waiting, sent>>
         /\ (sound' => sound /\ ~WordRefuses)
         /\ Chunk' = Chunk
<1>1. UNCHANGED <<stage, waiting, sent>>
  BY DEF LoopStep
<1>2. sound' \in BOOLEAN /\ (sound' => sound /\ ~WordRefuses)
  <2>1. \/ ~WordRefuses /\ sound' = sound
        \/ WordRefuses /\ sound' = FALSE
    BY DEF LoopStep
  <2>2. sound \in BOOLEAN
    BY DEF HostInv, HostTypeOK
  <2>3. sound' \in BOOLEAN
    BY <2>1, <2>2, Zenon
  <2>4. sound' => sound /\ ~WordRefuses
    BY <2>1
  <2> QED BY <2>3, <2>4
<1>3. Chunk' = Chunk
  BY <1>1 DEF Chunk
<1> QED BY <1>1, <1>2, <1>3, Zenon DEF HostInv, HostTypeOK, Progress

LEMMA EraseSectorInv ==
  ASSUME HostInv, LoopStep, EraseSector
  PROVE  HostInv'
<1>1. /\ pc = "erase" /\ i <= last /\ i \in Nat /\ last \in Nat /\ i' = i + 1
      /\ pc' \in {"erase", "astray"} /\ UNCHANGED <<state, registers, cmd, last, dbuf, reply>>
  BY DEF EraseSector, HostInv, IInv, TypeOK
<1>2. /\ stage \in {"FLASH", "silent"} /\ UNCHANGED <<stage, waiting, sent>>
      /\ HostTypeOK' /\ Progress' /\ ~Answered
  BY <1>1, LoopTypeFact DEF HostInv, Conversation
<1>3. IInv'
  BY EraseSectorIInv DEF HostInv
<1>4. Conversation'
  BY <1>1, <1>2 DEF HostInv, Conversation, Writing, Answered
<1>5. Verified' /\ SoundSession' /\ AcknowledgedIsInPlace' /\ ProgramStays'
  BY <1>1, <1>2 DEF Verified, SoundSession, AcknowledgedIsInPlace, ProgramStays
<1>6. RegistersFollow'
  BY <1>1, <1>2 DEF HostInv, RegistersFollow, Acknowledged, Answered, Offset
<1>7. EraseStays'
  BY <1>1 DEF HostInv, EraseStays
<1>8. ErasesImage'
  <2>1. ASSUME NEW s \in 0 .. FlashSectors - 1, Encloses(s), stage = "FLASH"
        PROVE  last' = s /\ i' = s + 1 /\ ErasedFrom(1)'
    <3>1. last = s /\ i = s
      BY <1>1, <2>1 DEF HostInv, ErasesImage
    <3>2. i < FlashSectors
      BY <3>1, LayoutAssumption
    <3>3. \A k \in 1 .. Len(Image) : flash'[ImageWord(k)] = Erased
      BY <2>1, <3>1, <3>2, EnclosedFact, ImageWordFact, ConstantFact DEF EraseSector
    <3> QED BY <1>1, <3>1, <3>3 DEF ErasedFrom
  <2>2. ~Acknowledged'
    BY <1>1, <1>2 DEF Acknowledged, Answered
  <2> QED BY <1>2, <2>1, <2>2 DEF ErasesImage
<1> QED BY <1>2, <1>3, <1>4, <1>5, <1>6, <1>7, <1>8 DEF HostInv

LEMMA EraseEndInv ==
  ASSUME HostInv, LoopStep, EraseEnd
  PROVE  HostInv'
<1>1. /\ pc = "erase" /\ i > last /\ i \in Nat /\ last \in Nat /\ pc' = "listen"
      /\ UNCHANGED <<flash, state, registers>>
  BY DEF EraseEnd, Idle, HostInv, IInv, TypeOK
<1>2. /\ stage \in {"FLASH", "silent"} /\ UNCHANGED <<stage, waiting, sent>>
      /\ HostTypeOK' /\ Progress'
  BY <1>1, LoopTypeFact DEF HostInv, Conversation
<1>3. IInv'
  BY EraseEndIInv DEF HostInv
<1>4. Conversation'
  BY <1>1, <1>2 DEF HostInv, IInv, WritesInSession, Conversation, Writing, Answered
<1>5. Verified' /\ SoundSession' /\ AcknowledgedIsInPlace' /\ ProgramStays' /\ EraseStays'
  BY <1>1, <1>2 DEF Verified, SoundSession, AcknowledgedIsInPlace, ProgramStays, EraseStays
<1>6. RegistersFollow'
  BY <1>1, <1>2 DEF HostInv, RegistersFollow, Conversation, Writing, Offset
<1>7. ErasesImage'
  <2>1. ASSUME NEW s \in 0 .. FlashSectors - 1, Encloses(s), stage = "FLASH"
        PROVE  ErasedFrom(1)'
    <3>1. ErasedFrom(1)
      BY <1>1, <2>1 DEF HostInv, ErasesImage
    <3> QED BY <1>1, <3>1, SameFlash
  <2> QED BY <1>1, <1>2, <2>1 DEF ErasesImage, Erasable
<1> QED BY <1>2, <1>3, <1>4, <1>5, <1>6, <1>7 DEF HostInv

\* The word the loop is at is one of the image: position j of the session.
LEMMA ProgramPosition ==
  ASSUME HostInv, pc = "program", i < Len(dbuf)
  PROVE  \E j \in Nat :
           /\ j + 1 \in DOMAIN Image /\ j + Len(dbuf) - i <= Len(Image)
           /\ daddr = Offset(j) /\ Aligned(daddr) /\ WordAt(daddr) = ImageWord(j + 1)
           /\ InFlash(daddr)
           /\ (daddr + WordSize) % AddressSpace = Offset(j + 1)
<1>1. PICK j \in 0 .. Len(Image) : daddr = Offset(j) /\ j + Len(dbuf) - i <= Len(Image)
  BY DEF HostInv, ProgramStays
<1>2. i \in Nat /\ Len(dbuf) \in Nat /\ Len(Image) \in Nat
  <2>1. dbuf = <<>> \/ dbuf \in Payload
    BY DEF HostInv, IInv, TypeOK
  <2>2. Len(dbuf) \in Nat
    BY <2>1, PayloadFact, BootloaderAssumption
  <2> QED BY <2>2, ConstantFact DEF HostInv, IInv, TypeOK
<1>3. j \in Nat /\ j < Len(Image) /\ j + 1 \in 1 .. Len(Image)
  BY <1>1, <1>2
<1>4. Aligned(daddr) /\ WordAt(daddr) = ImageWord(j + 1) /\ ImageWord(j + 1) \in Word
  BY <1>1, <1>3, OffsetFact, ImageWordFact, ConstantFact
<1>5. InFlash(daddr)
  BY <1>4 DEF InFlash, WordAt
<1>6. (daddr + WordSize) % AddressSpace = Offset(j + 1)
  BY <1>1, <1>3, OffsetStep
<1> QED BY <1>1, <1>3, <1>4, <1>5, <1>6, ConstantFact

\* In a sound session the loop is at the word behind those reached, which is
\* erased, and has the image's next word for it.
LEMMA SoundPosition ==
  ASSUME HostInv, Erasable, sound, stage = "FLASH_DATA", pc = "program", i < Len(dbuf)
  PROVE  /\ Reached = sent + i /\ Reached \in Nat /\ Reached + 1 \in DOMAIN Image
         /\ daddr = Offset(Reached) /\ Aligned(daddr) /\ InFlash(daddr)
         /\ WordAt(daddr) = ImageWord(Reached + 1)
         /\ (daddr + WordSize) % AddressSpace = Offset(Reached + 1)
         /\ flash[ImageWord(Reached + 1)] = Erased
         /\ dbuf[i + 1] = Image[Reached + 1]
<1>1. /\ state = "SESSION" /\ Reached = sent + i /\ HostTypeOK /\ sent < Len(Image)
      /\ i \in Nat /\ sent \in Nat
  BY DEF HostInv, IInv, TypeOK, WritesInSession, Reached, HostTypeOK, Progress
<1>2. daddr = Offset(Reached) /\ ErasedFrom(Reached + 1) /\ dbuf = Chunk
  BY <1>1 DEF HostInv, SoundSession
<1>3. /\ Len(Chunk) \in Nat /\ sent + Len(Chunk) <= Len(Image) /\ Len(Image) \in Nat
      /\ i + 1 \in 1 .. Len(Chunk) /\ Chunk[i + 1] = Image[sent + (i + 1)]
  <2>1. Len(Chunk) \in Nat /\ sent + Len(Chunk) <= Len(Image) /\ Len(Image) \in Nat
    BY <1>1, ChunkFact, ConstantFact, HostAssumption
  <2>2. i + 1 \in 1 .. Len(Chunk)
    BY <1>1, <1>2, <2>1
  <2> QED BY <1>1, <2>1, <2>2, ChunkFact
<1>4. /\ Reached \in Nat /\ Reached < Len(Image) /\ Reached + 1 \in Reached + 1 .. Len(Image)
      /\ Reached + 1 \in 1 .. Len(Image) /\ sent + (i + 1) = Reached + 1
  BY <1>1, <1>2, <1>3
<1>5. Aligned(daddr) /\ WordAt(daddr) = ImageWord(Reached + 1) /\ ImageWord(Reached + 1) \in Word
  BY <1>2, <1>4, OffsetFact, ImageWordFact, ConstantFact
<1>6. InFlash(daddr)
  BY <1>5 DEF InFlash, WordAt
<1>7. (daddr + WordSize) % AddressSpace = Offset(Reached + 1)
  BY <1>2, <1>4, OffsetStep
<1>8. flash[ImageWord(Reached + 1)] = Erased
  BY <1>2, <1>4 DEF ErasedFrom
<1>9. dbuf[i + 1] = Image[Reached + 1]
  BY <1>2, <1>3, <1>4
<1> QED BY <1>1, <1>2, <1>4, <1>5, <1>6, <1>7, <1>8, <1>9, ConstantFact

\* Whatever becomes of the word the loop is at, the words before it stay in
\* place and those behind it erased.
LEMMA SoundWord ==
  ASSUME HostInv, Erasable, sound, stage = "FLASH_DATA", pc = "program", i < Len(dbuf),
         NEW v, flash' = [flash EXCEPT ![WordAt(daddr)] = v]
  PROVE  /\ \A k \in 1 .. Reached : InPlace(k)'
         /\ flash'[ImageWord(Reached + 1)] = v
         /\ \A k \in Reached + 2 .. Len(Image) : flash'[ImageWord(k)] = Erased
<1> DEFINE r == Reached
<1>1. r \in Nat /\ r + 1 \in DOMAIN Image /\ flash' = [flash EXCEPT ![ImageWord(r + 1)] = v]
  BY SoundPosition
<1>2. /\ \A k \in 1 .. r : InPlace(k)
      /\ \A k \in r + 1 .. Len(Image) : flash[ImageWord(k)] = Erased
  <2>1. state = "SESSION"
    BY DEF HostInv, IInv, WritesInSession
  <2> QED BY <2>1 DEF HostInv, SoundSession, ErasedFrom
<1>3. flash \in [Word -> Value] /\ Len(Image) \in Nat /\ DOMAIN Image = 1 .. Len(Image)
  BY ConstantFact DEF HostInv, IInv, TypeOK
<1> HIDE DEF r
<1>4. /\ flash'[ImageWord(r + 1)] = v
      /\ \A k \in DOMAIN Image : k # r + 1 => flash'[ImageWord(k)] = flash[ImageWord(k)]
  <2>1. r + 1 \in DOMAIN Image /\ flash \in [Word -> Value]
    BY <1>1, <1>3
  <2> DEFINE n == r + 1
  <2> HIDE DEF n
  <2>2. n \in DOMAIN Image /\ flash' = [flash EXCEPT ![ImageWord(n)] = v]
    BY <1>1, <2>1 DEF n
  <2>3. /\ flash'[ImageWord(n)] = v
        /\ \A k \in DOMAIN Image : k # n => flash'[ImageWord(k)] = flash[ImageWord(k)]
    BY <2>1, <2>2, ImageWordFact
  <2> QED BY <2>3 DEF n
<1>5. ASSUME NEW k \in 1 .. r PROVE InPlace(k)'
  <2>1. k \in DOMAIN Image /\ k # r + 1
    BY <1>1, <1>3
  <2> QED BY <1>2, <1>4, <2>1 DEF InPlace
<1>6. ASSUME NEW k \in r + 2 .. Len(Image) PROVE flash'[ImageWord(k)] = Erased
  <2>1. k \in DOMAIN Image /\ k # r + 1 /\ k \in r + 1 .. Len(Image)
    BY <1>1, <1>3
  <2> QED BY <1>2, <1>4, <2>1
<1> QED BY <1>4, <1>5, <1>6 DEF r

\* ProgramWord writes the word at daddr, and nothing else.
LEMMA ProgramWordWrites ==
  ASSUME HostInv, ProgramWord
  PROVE  /\ Aligned(daddr) /\ InFlash(daddr)
         /\ \E v \in Programmed(WordAt(daddr), dbuf[i + 1]) :
              flash' = [flash EXCEPT ![WordAt(daddr)] = v]
<1>1. pc = "program" /\ i < Len(dbuf)
  BY DEF ProgramWord
<1>2. Aligned(daddr) /\ InFlash(daddr)
  BY <1>1, ProgramPosition
<1> QED BY <1>2 DEF ProgramWord

\* In a session that stays sound the word becomes the image's.
LEMMA SoundWordIsProgrammed ==
  ASSUME HostInv, ProgramWord, ~WordRefuses, Erasable, sound, stage = "FLASH_DATA"
  PROVE  /\ flash'[ImageWord(Reached + 1)] = Image[Reached + 1]
         /\ flash'[WordAt(daddr)] = dbuf[i + 1]
<1>1. pc = "program" /\ i < Len(dbuf)
  BY DEF ProgramWord
<1>2. flash'[WordAt(daddr)] = flash[WordAt(daddr)] \cap dbuf[i + 1]
  BY <1>1, ProgramWordWrites DEF WordRefuses
<1>3. /\ WordAt(daddr) = ImageWord(Reached + 1) /\ flash[ImageWord(Reached + 1)] = Erased
      /\ dbuf[i + 1] = Image[Reached + 1] /\ Reached + 1 \in DOMAIN Image
  BY <1>1, SoundPosition
<1>4. Image[Reached + 1] \subseteq Bits
  BY <1>3, ConstantFact DEF Value
<1> QED BY <1>2, <1>3, <1>4 DEF Erased

LEMMA ProgramWordInv ==
  ASSUME HostInv, LoopStep, ProgramWord
  PROVE  HostInv'
<1>1. /\ pc = "program" /\ i < Len(dbuf) /\ i \in Nat /\ UNCHANGED <<state, dsz>>
      /\ state = "SESSION" /\ stage \in {"FLASH_DATA", "silent"} /\ cmd = "FLASH_DATA"
      /\ ~Answered
  BY DEF ProgramWord, HostInv, IInv, TypeOK, WritesInSession, Conversation
<1>2. /\ UNCHANGED <<stage, waiting, sent>> /\ (sound' => sound /\ ~WordRefuses)
      /\ HostTypeOK' /\ Progress' /\ Chunk' = Chunk
  BY LoopTypeFact
<1>3. IInv'
  BY ProgramWordIInv DEF HostInv
<1>4. PICK v : flash' = [flash EXCEPT ![WordAt(daddr)] = v]
  BY ProgramWordWrites
<1>5. \/ pc' = "astray" /\ UNCHANGED <<daddr, loop, reply>>
      \/ /\ daddr' = (daddr + WordSize) % AddressSpace /\ i' = i + 1
         /\ UNCHANGED <<pc, cmd, last, dbuf, reply>>
      \/ /\ pc' = "listen" /\ reply' = Reply(cmd, "OK") /\ UNCHANGED daddr
         /\ flash'[WordAt(daddr)] # dbuf[i + 1]
  <2>1. Aligned(daddr)
    BY ProgramWordWrites
  <2> QED BY <2>1 DEF ProgramWord, EndProgram, Idle
<1>6. stage # "silent" => waiting
  BY <1>1 DEF HostInv, Conversation, Writing
<1>7. Conversation'
  BY <1>1, <1>2, <1>5 DEF HostInv, Conversation, Writing, Answered, Command
<1>8. Verified' /\ EraseStays' /\ ErasesImage'
  BY <1>1, <1>2, <1>5 DEF Verified, EraseStays, ErasesImage
<1>9. ProgramStays'
  <2>1. CASE pc' = "program"
    <3>1. daddr' = (daddr + WordSize) % AddressSpace /\ i' = i + 1 /\ dbuf' = dbuf
      BY <1>5, <2>1
    <3>2. PICK j \in Nat : /\ j + 1 \in DOMAIN Image /\ j + Len(dbuf) - i <= Len(Image)
                           /\ (daddr + WordSize) % AddressSpace = Offset(j + 1)
      BY <1>1, ProgramPosition
    <3>3. Len(dbuf) \in Nat
      <4>1. dbuf = <<>> \/ dbuf \in Payload
        BY DEF HostInv, IInv, TypeOK
      <4> QED BY <4>1, PayloadFact, BootloaderAssumption
    <3>4. j + 1 \in 0 .. Len(Image) /\ (j + 1) + Len(dbuf) - (i + 1) <= Len(Image) /\ i + 1 <= Len(dbuf)
      BY <1>1, <3>2, <3>3, ConstantFact
    <3>5. stage' = "FLASH_DATA" => Len(dbuf') = Len(Chunk')
      BY <1>1, <1>2, <3>1 DEF HostInv, ProgramStays
    <3>6. daddr' = Offset(j + 1)'
      BY <3>1, <3>2 DEF Offset
    <3> QED BY <3>1, <3>4, <3>5, <3>6 DEF ProgramStays
  <2> QED BY <2>1 DEF ProgramStays
<1>10. ASSUME stage = "FLASH_DATA"
       PROVE  /\ sent \in Nat /\ Reached = sent + i /\ Len(dbuf) = Len(Chunk) /\ Len(Chunk) \in Nat
              /\ sent + Len(Chunk) <= Len(Image) /\ Len(Image) \in Nat
  <2>1. HostTypeOK /\ sent < Len(Image)
    BY <1>10 DEF HostInv, Progress
  <2> QED BY <1>1, <1>10, <2>1, ChunkFact, ConstantFact, HostAssumption
    DEF Reached, HostInv, HostTypeOK, ProgramStays
<1>11. RegistersFollow'
  <2>1. SUFFICES ASSUME stage = "FLASH_DATA", pc' # "astray"
                 PROVE  \E j \in 0 .. Reached' : daddr' = Offset(j)
    BY <1>1, <1>2 DEF RegistersFollow, Offset
  <2>2. PICK j \in 0 .. Reached : daddr = Offset(j)
    BY <1>1, <2>1 DEF HostInv, RegistersFollow
  <2>3. Reached' = IF pc' = "program" THEN sent + i' ELSE sent + Len(Chunk)
    BY <1>1, <1>2, <1>5, <1>6, <2>1 DEF Reached, Acknowledged, Answered, Reply, NoReply, NoCommand
  <2>4. CASE pc' = "program"
    <3>1. daddr' = (daddr + WordSize) % AddressSpace /\ i' = i + 1
      BY <1>5, <2>4
    <3>2. j \in Nat /\ j < Len(Image) /\ j + 1 \in 0 .. Reached'
      BY <1>1, <1>10, <2>1, <2>2, <2>3, <2>4, <3>1
    <3>3. daddr' = Offset(j + 1)
      BY <2>2, <3>1, <3>2, OffsetStep
    <3> QED BY <3>2, <3>3
  <2>5. CASE pc' # "program"
    <3>1. daddr' = daddr
      BY <1>1, <1>5, <2>5
    <3>2. j \in 0 .. Reached'
      BY <1>1, <1>10, <2>1, <2>2, <2>3, <2>5
    <3> QED BY <2>2, <3>1, <3>2
  <2> QED BY <2>4, <2>5
<1>12. SoundSession'
  <2>1. SUFFICES ASSUME Erasable, sound', stage = "FLASH_DATA", pc' # "astray"
                 PROVE  /\ daddr' = Offset(Reached') /\ pc' = "program" /\ dbuf' = Chunk
                        /\ \A k \in 1 .. Reached' : InPlace(k)'
                        /\ \A k \in Reached' + 1 .. Len(Image) : flash'[ImageWord(k)] = Erased
    BY <1>1, <1>2 DEF SoundSession, ErasedFrom, Offset
  <2>2. sound /\ ~WordRefuses
    BY <1>2, <2>1
  <2>3. /\ flash'[ImageWord(Reached + 1)] = Image[Reached + 1]
        /\ flash'[WordAt(daddr)] = dbuf[i + 1]
    BY <2>1, <2>2, SoundWordIsProgrammed
  <2>4. daddr' = (daddr + WordSize) % AddressSpace /\ i' = i + 1 /\ pc' = "program" /\ dbuf' = dbuf
    BY <1>1, <1>5, <2>1, <2>3
  <2>5. Reached' = Reached + 1 /\ Reached \in Nat
    BY <1>1, <1>2, <1>10, <2>1, <2>4 DEF Reached
  <2>6. daddr' = Offset(Reached + 1)
    BY <1>1, <2>1, <2>2, <2>4, SoundPosition
  <2>7. dbuf = Chunk
    BY <1>1, <2>1, <2>2 DEF HostInv, SoundSession
  <2>8. /\ \A k \in 1 .. Reached : InPlace(k)'
        /\ \A k \in Reached + 2 .. Len(Image) : flash'[ImageWord(k)] = Erased
    BY <1>1, <1>4, <2>1, <2>2, SoundWord
  <2>9. ASSUME NEW k \in 1 .. Reached + 1 PROVE InPlace(k)'
    <3>1. k \in 1 .. Reached \/ k = Reached + 1
      BY <2>5
    <3> QED BY <2>3, <2>8, <3>1 DEF InPlace
  <2>10. \A k \in (Reached + 1) + 1 .. Len(Image) : flash'[ImageWord(k)] = Erased
    BY <2>5, <2>8
  <2> QED BY <2>4, <2>5, <2>6, <2>7, <2>9, <2>10
<1>13. Erasable => AcknowledgedIsInPlace'
  <2>1. SUFFICES ASSUME Erasable, sound', stage = "FLASH_DATA", NEW k \in 1 .. sent
                 PROVE  InPlace(k)'
    BY <1>1, <1>2 DEF AcknowledgedIsInPlace
  <2>2. k \in 1 .. Reached
    BY <1>1, <1>10, <2>1
  <2> QED BY <1>1, <1>2, <1>4, <2>1, <2>2, SoundWord
<1> QED BY <1>2, <1>3, <1>7, <1>8, <1>9, <1>11, <1>12, <1>13 DEF HostInv

\* The loop never leaves the flash: it writes only where the image goes.
LEMMA NeverOutside ==
  ASSUME HostInv
  PROVE  ~ProgramOutside
<1> SUFFICES ASSUME ProgramOutside PROVE FALSE
  OBVIOUS
<1>1. pc = "program" /\ i < Len(dbuf) /\ ~InFlash(daddr)
  BY DEF ProgramOutside
<1> QED BY <1>1, ProgramPosition

LEMMA ProgramEndInv ==
  ASSUME HostInv, LoopStep, ProgramEnd
  PROVE  HostInv'
<1>1. /\ pc = "program" /\ i = Len(dbuf) /\ i \in Nat /\ UNCHANGED <<flash, state, registers>>
      /\ state = "SESSION" /\ stage \in {"FLASH_DATA", "silent"} /\ cmd = "FLASH_DATA"
      /\ pc' = "listen" /\ reply' = Reply("FLASH_DATA", "OK")
  BY DEF ProgramEnd, EndProgram, Idle, HostInv, IInv, TypeOK, WritesInSession, Conversation
<1>2. /\ UNCHANGED <<stage, waiting, sent>> /\ (sound' => sound)
      /\ HostTypeOK' /\ Progress' /\ Chunk' = Chunk
  BY LoopTypeFact
<1>3. IInv'
  BY ProgramEndIInv DEF HostInv
<1>4. stage # "silent" => waiting
  BY <1>1 DEF HostInv, Conversation, Writing
<1>5. Conversation'
  BY <1>1, <1>2, <1>4 DEF HostInv, Conversation, Writing, Answered, Command
<1>6. Verified' /\ EraseStays' /\ ErasesImage' /\ ProgramStays'
  BY <1>1, <1>2 DEF Verified, EraseStays, ErasesImage, ProgramStays
<1>7. ASSUME stage = "FLASH_DATA"
      PROVE  Reached = sent + i /\ Reached' = sent + i
  <2>1. Reached = sent + i /\ Len(Chunk) = i
    BY <1>1, <1>7 DEF Reached, HostInv, ProgramStays
  <2>2. Reached' = sent + Len(Chunk)
    BY <1>1, <1>2, <1>4, <1>7
    DEF Reached, Acknowledged, Answered, Reply, NoReply, NoCommand
  <2> QED BY <2>1, <2>2
<1>8. RegistersFollow'
  <2>1. SUFFICES ASSUME stage = "FLASH_DATA"
                 PROVE  \E j \in 0 .. Reached' : daddr = Offset(j)
    BY <1>1, <1>2 DEF RegistersFollow, Offset
  <2> QED BY <1>1, <1>7, <2>1 DEF HostInv, RegistersFollow
<1>9. SoundSession'
  <2>1. SUFFICES ASSUME Erasable, sound, stage = "FLASH_DATA"
                 PROVE  /\ daddr = Offset(Reached')
                        /\ \A k \in 1 .. Reached' : InPlace(k)'
                        /\ \A k \in Reached' + 1 .. Len(Image) : flash[ImageWord(k)] = Erased
    BY <1>1, <1>2 DEF SoundSession, ErasedFrom, Offset
  <2>2. daddr = Offset(Reached) /\ (\A k \in 1 .. Reached : InPlace(k)) /\ ErasedFrom(Reached + 1)
    BY <1>1, <2>1 DEF HostInv, SoundSession
  <2>3. Reached' = Reached
    BY <1>7, <2>1
  <2>4. \A k : InPlace(k)' <=> InPlace(k)
    BY <1>1, SameFlash
  <2> QED BY <2>2, <2>3, <2>4 DEF ErasedFrom
<1>10. Erasable => AcknowledgedIsInPlace'
  BY <1>1, <1>2, SameFlash DEF HostInv, AcknowledgedIsInPlace
<1> QED BY <1>2, <1>3, <1>5, <1>6, <1>8, <1>9, <1>10 DEF HostInv

LEMMA LoopStepInv == HostInv /\ LoopStep => HostInv'
BY EraseSectorInv, EraseEndInv, ProgramWordInv, NeverOutside, ProgramEndInv DEF LoopStep, Work

\* Where nothing is being written, power loss leaves the flash as it was.
LEMMA TornOnlyWhileWriting ==
  ASSUME Reset, ~Writing
  PROVE  flash' = flash
<1>1. Torn = {flash}
  BY DEF Torn, Writing
<1> QED BY <1>1 DEF Reset

\* Power lost while a word is programmed tears that word and no other.
LEMMA TornWord ==
  ASSUME HostInv, Reset, pc = "program"
  PROVE  \/ flash' = flash
         \/ i < Len(dbuf) /\ \E v : flash' = [flash EXCEPT ![WordAt(daddr)] = v]
<1>1. CASE i < Len(dbuf)
  <2>1. Aligned(daddr) /\ InFlash(daddr)
    BY <1>1, ProgramPosition
  <2>2. \E v : flash' = [flash EXCEPT ![WordAt(daddr)] = v]
    BY <1>1, <2>1 DEF Reset, Torn
  <2> QED BY <1>1, <2>2
<1>2. CASE ~ (i < Len(dbuf))
  <2>1. Torn = {flash}
    BY <1>2 DEF Torn
  <2> QED BY <2>1 DEF Reset
<1> QED BY <1>1, <1>2

LEMMA PowerFailureInv == HostInv /\ PowerFailure => HostInv'
<1> SUFFICES ASSUME HostInv, PowerFailure PROVE HostInv'
  OBVIOUS
<1>1. /\ Reset /\ pc' = "listen" /\ state' = "NONE" /\ daddr' = 0 /\ dsz' = 0
      /\ reply' = NoReply /\ UNCHANGED <<stage, waiting, sent, sound>>
  BY DEF PowerFailure, Reset, Idle, Forget, host
<1>2. IInv'
  BY <1>1, ResetIInv DEF HostInv
<1>3. HostTypeOK' /\ Progress'
  BY <1>1, Zenon DEF HostInv, HostTypeOK, Progress
<1>4. ~Answered' /\ ~Acknowledged'
  BY <1>1 DEF Answered, Acknowledged
<1>5. Conversation'
  BY <1>1, <1>4 DEF HostInv, Conversation, Writing
<1>6. RegistersFollow' /\ ProgramStays' /\ EraseStays' /\ ErasesImage' /\ SoundSession'
  BY <1>1, <1>4 DEF RegistersFollow, ProgramStays, EraseStays, ErasesImage, SoundSession
<1>7. Verified'
  <2>1. SUFFICES ASSUME stage \in {"BOOT", "done"} PROVE ImageInPlace'
    BY <1>1, <1>4 DEF Verified
  <2>2. flash' = flash
    BY <1>1, <2>1, TornOnlyWhileWriting DEF HostInv, Conversation, Writing
  <2> QED BY <2>1, <2>2, SameFlash DEF HostInv, Verified
<1>8. Erasable => AcknowledgedIsInPlace'
  <2>1. SUFFICES ASSUME Erasable, sound, stage \in {"FLASH_DATA", "DATA_CRC"}, NEW k \in 1 .. sent
                 PROVE  InPlace(k)'
    BY <1>1 DEF AcknowledgedIsInPlace
  <2>2. InPlace(k)
    BY <2>1 DEF HostInv, AcknowledgedIsInPlace
  <2>3. CASE flash' = flash
    BY <2>2, <2>3, SameFlash
  <2>4. CASE flash' # flash
    <3>1. pc = "program" /\ stage = "FLASH_DATA"
      BY <1>1, <2>1, <2>4, TornOnlyWhileWriting DEF HostInv, Conversation, Writing
    <3>2. i < Len(dbuf) /\ \E v : flash' = [flash EXCEPT ![WordAt(daddr)] = v]
      BY <1>1, <2>4, <3>1, TornWord
    <3>3. k \in 1 .. Reached
      BY <2>1, <3>1 DEF Reached, HostInv, HostTypeOK, IInv, TypeOK
    <3> QED BY <2>1, <3>1, <3>2, <3>3, SoundWord
  <2> QED BY <2>3, <2>4
<1> QED BY <1>2, <1>3, <1>5, <1>6, <1>7, <1>8 DEF HostInv

LEMMA HostStuttersInv == HostInv /\ UNCHANGED allvars => HostInv'
<1> SUFFICES ASSUME HostInv, UNCHANGED allvars PROVE HostInv'
  OBVIOUS
<1>1. UNCHANGED <<flash, locked, pc, state, daddr, dsz, addr, cmd, i, last, dbuf, reply>>
      /\ UNCHANGED <<stage, waiting, sent, sound>>
  BY DEF allvars, vars, host
<1>2. IInv'
  BY <1>1, NextIInv DEF HostInv, vars
<1>3. HostTypeOK' /\ Progress'
  BY <1>1, Zenon DEF HostInv, HostTypeOK, Progress
<1>4. Conversation' /\ Verified' /\ RegistersFollow' /\ ProgramStays' /\ EraseStays'
  BY <1>1
  DEF HostInv, Conversation, Writing, Answered, Acknowledged, Verified, ImageInPlace, InPlace,
      RegistersFollow, Reached, Chunk, Offset, ProgramStays, EraseStays
<1>5. ErasesImage' /\ SoundSession' /\ (Erasable => AcknowledgedIsInPlace')
  BY <1>1
  DEF HostInv, ErasesImage, ErasedFrom, SoundSession, Reached, Acknowledged, Answered, Chunk,
      Offset, InPlace, AcknowledgedIsInPlace
<1> QED BY <1>2, <1>3, <1>4, <1>5 DEF HostInv

LEMMA NextHostInv == HostInv /\ [HostNext]_allvars => HostInv'
BY SendHandshakeInv, SendFlashInv, SendDataInv, SendCrcInv, SendBootInv, SendDamagedInv,
   SendUnheardInv, HostReceiveInv, HostTimeoutInv, HostRestartInv, InactivityInv,
   LoopStepInv, PowerFailureInv, HostStuttersInv
DEF HostNext, HostStep, HostSend

THEOREM HostInvariance == HostSpec => []HostInv
BY InitHostInv, NextHostInv, PTL DEF HostSpec

\* What the host boots is the image, whatever the disturbances and however many
\* (bl.c:202-252).
THEOREM BootedIsTheImage == HostSpec => []BootedIsImage
<1>1. HostInv => BootedIsImage
  BY DEF HostInv, Verified, BootedIsImage
<1> QED BY <1>1, HostInvariance, PTL

\* Every word acknowledged in a session that has lost none is in place, if the
\* image lies where FLASH erases it: inside one sector, ending before it does
\* (bl.c:120-201).
THEOREM AcknowledgedIsWritten == Erasable => (HostSpec => []AcknowledgedIsInPlace)
<1>1. Erasable /\ HostInv => AcknowledgedIsInPlace
  BY DEF HostInv
<1>2. CASE Erasable
  <2>1. HostInv => AcknowledgedIsInPlace
    BY <1>1, <1>2
  <2> QED BY <2>1, HostInvariance, PTL
<1>3. CASE ~Erasable
  BY <1>3
<1> QED BY <1>2, <1>3

-----------------------------------------------------------------------------
\* What a step writes

\* The steps that leave the flash as it is.
LEMMA QuietSteps ==
  ASSUME [HostNext]_allvars, ~LoopStep, ~PowerFailure
  PROVE  flash' = flash
BY DEF HostNext, HostStep, HostSend, SendHandshake, SendFlash, SendData, SendCrc, SendBoot,
       SendCutData, SendDamaged, SendUnheard, HostReceive, HostTimeout, HostRestart,
       HostGiveUp, Inactivity, allvars, vars, KillSession, Handshake, Flash,
       FlashData, DataCrc, Boot, Refused, BootRefused

\* A step that changes the flash erases words of the sector the loop is at, or
\* writes the word at daddr.
LEMMA Changes ==
  ASSUME HostInv, [HostNext]_allvars, flash' # flash
  PROVE  \/ /\ pc = "erase" /\ i <= last /\ i < FlashSectors
            /\ \A w \in Word \ WordsOf(i) : flash'[w] = flash[w]
         \/ /\ pc = "program" /\ i < Len(dbuf)
            /\ \E v : flash' = [flash EXCEPT ![WordAt(daddr)] = v]
<1>1. flash \in [Word -> Value]
  BY DEF HostInv, IInv, TypeOK
<1>2. CASE EraseSector
  <2>1. i < FlashSectors
    BY <1>1, <1>2 DEF EraseSector
  <2> QED BY <1>2, <2>1 DEF EraseSector
<1>3. CASE ProgramWord
  BY <1>3, ProgramWordWrites DEF ProgramWord
<1>4. CASE PowerFailure
  <2>1. Reset
    BY <1>4 DEF PowerFailure
  <2>2. CASE pc = "program"
    BY <2>1, <2>2, TornWord
  <2>3. CASE pc = "erase"
    <3>1. /\ i <= last /\ i < FlashSectors
          /\ \E torn \in [WordsOf(i) -> Value] :
               flash' = [w \in Word |-> IF w \in WordsOf(i) THEN torn[w] ELSE flash[w]]
      BY <2>1, <2>3 DEF Reset, Torn
    <3> QED BY <2>3, <3>1
  <2>4. CASE pc \notin {"program", "erase"}
    BY <2>1, <2>4, TornOnlyWhileWriting DEF Writing
  <2> QED BY <2>2, <2>3, <2>4
<1>5. EraseSector \/ ProgramWord \/ PowerFailure
  BY QuietSteps DEF LoopStep, Work, EraseEnd, ProgramOutside, ProgramEnd
<1> QED BY <1>2, <1>3, <1>4, <1>5

\* The sector that the loop erases is one that the image lies in.
LEMMA ErasedSectorIsImages ==
  ASSUME HostInv, pc = "erase", i <= last, i < FlashSectors
  PROVE  i \in ImageSectors
<1>1. i \in Nat /\ last \in Nat /\ i \in i .. last
  BY DEF HostInv, IInv, TypeOK
<1>2. Begins(i)
  BY <1>1 DEF HostInv, EraseStays
<1>3. 1 \in DOMAIN Image /\ ImageWord(1) = WordAt(ImageOffset)
  BY ConstantFact, ImageOffsetFact DEF ImageWord
<1>4. ImageWord(1) * WordSize = ImageOffset
  BY <1>3, ImageOffsetFact
<1>5. ImageWord(1) \in WordsOf(i)
  BY <1>2, <1>3, <1>4, ImageWordFact DEF WordsOf, Begins
<1>6. i \in 0 .. ChipSectors - 1
  BY <1>1, BootloaderAssumption, LayoutAssumption
<1> QED BY <1>3, <1>5, <1>6 DEF ImageSectors, ImageWords

LEMMA NextChangesImage ==
  HostInv /\ [HostNext]_allvars =>
    \A w \in Word \ ImageWords :
      flash'[w] # flash[w] => pc = "erase" /\ \E s \in ImageSectors : w \in WordsOf(s)
<1> SUFFICES ASSUME HostInv, [HostNext]_allvars,
                    NEW w \in Word \ ImageWords, flash'[w] # flash[w]
             PROVE  pc = "erase" /\ \E s \in ImageSectors : w \in WordsOf(s)
  OBVIOUS
<1>1. CASE pc = "erase" /\ i <= last /\ i < FlashSectors
           /\ \A u \in Word \ WordsOf(i) : flash'[u] = flash[u]
  <2>1. w \in WordsOf(i)
    BY <1>1
  <2> QED BY <1>1, <2>1, ErasedSectorIsImages
<1>2. ~ (pc = "program" /\ i < Len(dbuf) /\ \E v : flash' = [flash EXCEPT ![WordAt(daddr)] = v])
  <2> SUFFICES ASSUME pc = "program", i < Len(dbuf),
                      NEW v, flash' = [flash EXCEPT ![WordAt(daddr)] = v]
               PROVE  FALSE
    OBVIOUS
  <2>1. PICK j \in Nat : j + 1 \in DOMAIN Image /\ WordAt(daddr) = ImageWord(j + 1)
    BY ProgramPosition
  <2>2. w # WordAt(daddr)
    BY <2>1 DEF ImageWords
  <2> QED BY <2>2 DEF HostInv, IInv, TypeOK
<1> QED BY <1>1, <1>2, Changes

\* Nothing but the image is written, and nothing erased but the sectors it lies
\* in, whatever the disturbances (bl.c:120-201).
THEOREM OnlyTheImageChanges == HostSpec => OnlyImageChanges
<1>1. HostInv /\ [HostNext]_allvars =>
        [\A w \in Word \ ImageWords :
           flash'[w] # flash[w] => pc = "erase" /\ \E s \in ImageSectors : w \in WordsOf(s)]_allvars
  BY NextChangesImage
<1> QED BY <1>1, HostInvariance, PTL DEF HostSpec, OnlyImageChanges

-----------------------------------------------------------------------------
\* The update implements Updater

\* What stands for area and phase in the instance Board.
Area == [k \in DOMAIN Image |-> flash[ImageWord(k)]]
Phase ==
  IF pc = "jumped" THEN "running" ELSE IF stage \in {"BOOT", "done"} THEN "verified" ELSE "open"

LEMMA AreaType == TypeOK => Area \in [DOMAIN Image -> Value]
BY ImageWordFact DEF TypeOK, Area

LEMMA AreaInPlace == ImageInPlace => Area = Image
<1>1. Image = [k \in DOMAIN Image |-> Image[k]]
  BY HostAssumption
<1> QED BY <1>1 DEF ImageInPlace, InPlace, Area

LEMMA RefineInit == HostInit => Board!UpdaterInit
<1> SUFFICES ASSUME HostInit PROVE Board!UpdaterInit
  OBVIOUS
<1>1. TypeOK
  BY InitIInv DEF HostInit, IInv
<1>2. Area \in [DOMAIN Image -> Value]
  BY <1>1, AreaType
<1>3. Phase = "open"
  BY DEF HostInit, Init, Phase
<1> QED BY <1>2, <1>3 DEF Board!UpdaterInit, Area, Phase

\* A step that writes is made while the update is open.
LEMMA WritesWhileOpen ==
  ASSUME HostInv, HostInv', [HostNext]_allvars, flash' # flash
  PROVE  Phase = "open" /\ Phase' = "open"
<1>1. Writing /\ Phase = "open"
  BY Changes DEF HostInv, Conversation, Writing, Phase
<1>2. stage' = stage /\ pc' # "jumped"
  <2>1. CASE LoopStep
    BY <1>1, <2>1
    DEF LoopStep, Work, EraseSector, EraseEnd, ProgramWord, ProgramOutside, ProgramEnd,
        EndProgram, Idle, Writing
  <2>2. CASE PowerFailure
    BY <2>2 DEF PowerFailure, Reset, Idle, host
  <2> QED BY <2>1, <2>2, QuietSteps
<1> QED BY <1>1, <1>2 DEF Phase

\* What the host's and the loop's steps that write nothing do to the phase.
LEMMA PhaseSteps ==
  ASSUME HostInv, HostInv', [HostNext]_allvars, flash' = flash
  PROVE  \/ Phase' = Phase
         \/ Phase = "open" /\ ImageInPlace /\ Phase' = "verified"
         \/ Phase = "verified" /\ Phase' \in {"open", "running"}
         \/ Phase = "running" /\ Phase' \in {"verified", "open"}
<1>1. ASSUME Phase = "open", Phase' # "open" PROVE ImageInPlace /\ Phase' = "verified"
  <2>1. ImageInPlace'
    BY <1>1 DEF HostInv, Verified, Phase
  <2>2. ImageInPlace
    BY <2>1, SameFlash
  <2>3. pc # "jumped" /\ stage \notin {"BOOT", "done"}
    BY <1>1 DEF Phase
  <2>4. pc' # "jumped"
    BY <2>3
    DEF HostNext, HostStep, HostSend, SendHandshake, SendFlash, SendData, SendCrc, SendBoot,
        SendCutData, SendDamaged, SendUnheard, Sends, HostReceive, HostTimeout, HostRestart,
        HostGiveUp, LoopStep, Inactivity, PowerFailure, Reset, Idle, Work, allvars, vars,
        KillSession, Handshake, Flash, StartErase, FlashData, DataCrc, Refused, BootRefused,
        EraseSector, EraseEnd, ProgramWord, ProgramOutside, ProgramEnd, EndProgram,
        InSession, Listening
  <2> QED BY <1>1, <2>2, <2>4 DEF Phase
<1> QED BY <1>1 DEF Phase

LEMMA RefineNext ==
  HostInv /\ HostInv' /\ [HostNext]_allvars => [Board!UpdaterNext]_(Board!updater)
<1> SUFFICES ASSUME HostInv, HostInv', [HostNext]_allvars
             PROVE  [Board!UpdaterNext]_(Board!updater)
  OBVIOUS
<1>1. CASE flash' # flash
  <2>1. Phase = "open" /\ Phase' = "open"
    BY <1>1, WritesWhileOpen
  <2>2. Area' \in [DOMAIN Image -> Value]
    BY ImageWordFact DEF HostInv, IInv, TypeOK, Area
  <2>3. Board!Store
    BY <2>1, <2>2 DEF Board!Store, Area, Phase
  <2> QED BY <2>3 DEF Board!UpdaterNext
<1>2. CASE flash' = flash
  <2>1. Area' = Area
    BY <1>2 DEF Area
  <2>2. CASE Phase' = Phase
    BY <2>1, <2>2 DEF Board!updater, Area, Phase
  <2>3. CASE Phase = "open" /\ ImageInPlace /\ Phase' = "verified"
    <3>1. Board!Verify
      BY <2>1, <2>3, AreaInPlace DEF Board!Verify, Area, Phase
    <3> QED BY <3>1 DEF Board!UpdaterNext
  <2>4. CASE Phase = "verified" /\ Phase' \in {"open", "running"}
    <3>1. Board!GiveUp \/ Board!Run
      BY <2>1, <2>4 DEF Board!GiveUp, Board!Run, Area, Phase
    <3> QED BY <3>1 DEF Board!UpdaterNext
  <2>5. CASE Phase = "running" /\ Phase' \in {"verified", "open"}
    <3>1. Board!PowerCycle
      BY <2>1, <2>5 DEF Board!PowerCycle, Area, Phase
    <3> QED BY <3>1 DEF Board!UpdaterNext
  <2> QED BY <1>2, <2>2, <2>3, <2>4, <2>5, PhaseSteps
<1> QED BY <1>1, <1>2

\* The update keeps the promise of Updater: the image is verified only while
\* it is there, nothing writes it from then on, and only a verified image is
\* started (bl.c:202-252).
THEOREM UpdateImplementsUpdater == HostSpec => ImplementsUpdater
<1>1. HostInit => Board!UpdaterInit
  BY RefineInit
<1>2. HostInv /\ HostInv' /\ [HostNext]_allvars => [Board!UpdaterNext]_(Board!updater)
  BY RefineNext
<1> QED BY <1>1, <1>2, HostInvariance, PTL DEF HostSpec, Board!UpdaterSpec, ImplementsUpdater

=============================================================================
