----------------------------- MODULE Bootloader -----------------------------
(***************************************************************************)
(* The command loop bl_listen of src/bl.c over the internal flash, driven   *)
(* by any host.                                                            *)
(*                                                                         *)
(* A command arrives with its arguments or fails to arrive; what its bytes *)
(* look like is left out.  Erasing a sector and programming a word are      *)
(* steps of their own, between which power can fail.  A word of the flash  *)
(* is the set of its bits that are 1: erasing sets them all, programming    *)
(* can only clear some.  The CRC of DATA_CRC is the sequence of the words  *)
(* it is computed from: two ranges have the same CRC only if they are the  *)
(* same.                                                                   *)
(***************************************************************************)
EXTENDS FlashLayout, Sequences

CONSTANTS
  ChipSectors,    \* the sectors the chip has; the table has more
  WordSize,       \* sizeof(uint32_t)
  Base,           \* STM32_BASE_ADDR
  Bits,           \* the bits of a word
  BootCode,       \* the words of the bootloader's own sector
  WornWords,      \* the words of a worn flash, which do not always program
  MaxPayload,     \* the words of the longest FLASH_DATA, 64 in the code
  BitOr(_, _)        \* the operator | of C

Word == 0 .. (SectorBase[ChipSectors] \div WordSize) - 1
Value == SUBSET Bits
Erased == Bits

ASSUME BootloaderAssumption ==
  /\ ChipSectors \in FlashSectors .. TableSectors
  /\ WordSize \in Nat \ {0}
  /\ Base \in Address
  /\ BootCode \in Value
  /\ WornWords \subseteq Word
  /\ MaxPayload \in Nat \ {0}

\* What the code relies on: registers are closed under |, and 0 is neutral.
ASSUME OrAssumption ==
  /\ \A x, y \in Address : BitOr(x, y) \in Address
  /\ \A x \in Address : BitOr(0, x) = x

\* The flash is a whole number of words and lies in the address space.
ASSUME FlashAssumption ==
  /\ SectorBase[ChipSectors] % WordSize = 0
  /\ SectorBase[ChipSectors] < AddressSpace

VARIABLES
  flash,          \* the contents of the internal flash
  locked,         \* whether the flash controller is locked
  pc,             \* what the program is doing, see PC
  state,          \* state of bl_listen: "NONE" or "SESSION"
  daddr, dsz,     \* the registers of FLASH and FLASH_DATA
  addr,           \* the register of DATA_CRC and BOOT
  cmd,            \* the command in progress, NoCommand while listening
  i, last,        \* its loop variable and the last value the loop takes
  dbuf,           \* the payload of the FLASH_DATA in progress
  reply           \* the reply the host has not taken yet, or NoReply

device == <<flash, locked>>
registers == <<daddr, dsz, addr>>
loop == <<cmd, i, last, dbuf>>
vars == <<device, pc, state, registers, loop, reply>>

\* "astray": the program has left the flash or lost its own code, and what it
\* does then is not modelled.  "jumped": the application at addr runs.
PC == {"listen", "erase", "program", "jumped", "astray"}

Status == {"OK", "IOERR", "ARGERR", "CRCERR", "READERR"}
Command == {"HANDSHAKE", "ERASE", "FLASH", "FLASH_DATA", "DATA_CRC", "BOOT", "EOS"}

NoCommand == "NONE"
NoReply == [to |-> NoCommand, status |-> "OK", crc |-> <<>>]
Reply(command, status) == [to |-> command, status |-> status, crc |-> <<>>]

WordsOf(s) == {w \in Word : SectorBase[s] <= w * WordSize /\ w * WordSize < SectorBase[s + 1]}
OwnWords == WordsOf(0)
OwnCodeIn(f) == \A w \in OwnWords : f[w] = BootCode

Aligned(x) == x % WordSize = 0
InFlash(x) == x \div WordSize \in Word
WordAt(x) == x \div WordSize

-----------------------------------------------------------------------------
\* Power-on and session

\* The bootloader is in its sector; the rest of the flash holds anything.
Init ==
  /\ flash \in [Word -> Value]
  /\ OwnCodeIn(flash)
  /\ locked = TRUE
  /\ pc = "listen"
  /\ state = "NONE"
  /\ daddr = 0 /\ dsz = 0 /\ addr = 0
  /\ cmd = NoCommand /\ i = 0 /\ last = 0 /\ dbuf = <<>>
  /\ reply = NoReply

\* The program is back at the top of its loop, with no command in progress.
Idle == pc' = "listen" /\ cmd' = NoCommand /\ i' = 0 /\ last' = 0 /\ dbuf' = <<>>

\* A wrong end of a session, which keeps daddr, and one which keeps dsz.
Forget_KeepsAddress == state' = "NONE" /\ UNCHANGED daddr /\ dsz' = 0 /\ addr' = 0
Forget_KeepsSize == state' = "NONE" /\ daddr' = 0 /\ UNCHANGED dsz /\ addr' = 0

\* The registers and the state a session starts from.
Forget == state' = "NONE" /\ daddr' = 0 /\ dsz' = 0 /\ addr' = 0

\* What power loss leaves of the sector being erased or the word being
\* programmed: of the former anything, of the latter some of the bits to clear.
Torn ==
  CASE pc = "erase" /\ i <= last /\ i < FlashSectors /\ \E w \in WordsOf(i) : flash[w] # Erased ->
         {[w \in Word |-> IF w \in WordsOf(i) THEN torn[w] ELSE flash[w]] : torn \in [WordsOf(i) -> Value]}
    [] pc = "program" /\ i < Len(dbuf) /\ Aligned(daddr) /\ InFlash(daddr) ->
         {[flash EXCEPT ![WordAt(daddr)] = v] :
            v \in {v \in SUBSET flash[WordAt(daddr)] :
                      flash[WordAt(daddr)] \cap dbuf[i + 1] \subseteq v}}
    [] OTHER -> {flash}

\* Power is lost and comes back, with the host still attached.
Reset ==
  /\ flash' \in Torn
  /\ OwnCodeIn(flash')
  /\ locked' = TRUE
  /\ Idle
  /\ Forget
  /\ reply' = NoReply

Listening == pc = "listen"
InSession == Listening /\ state = "SESSION"

Handshake ==
  /\ Listening /\ state = "NONE"
  /\ state' = "SESSION"
  /\ reply' = Reply("HANDSHAKE", "OK")
  /\ UNCHANGED <<device, pc, registers, loop>>

\* The inactivity timer kills the session.
KillSession ==
  /\ InSession
  /\ Forget
  /\ UNCHANGED <<device, pc, loop, reply>>

Eos ==
  /\ InSession
  /\ Forget
  /\ reply' = Reply("EOS", "OK")
  /\ UNCHANGED <<device, pc, loop>>

\* A command whose bytes do not all arrive or do not check.
Refused(command, status) ==
  /\ InSession
  /\ \/ command \in {"ERASE", "FLASH", "DATA_CRC", "EOS"} /\ status \in {"IOERR", "CRCERR"}
     \/ command = "FLASH_DATA" /\ status \in {"READERR", "ARGERR", "CRCERR"}
  /\ reply' = Reply(command, status)
  /\ UNCHANGED <<device, pc, state, registers, loop>>
-----------------------------------------------------------------------------
\* Erasing: ERASE and FLASH

StartErase(command, from, to) ==
  /\ pc' = "erase"
  /\ cmd' = command
  /\ i' = from /\ last' = to
  /\ locked' = FALSE

Erase(sector) ==
  /\ InSession
  /\ StartErase("ERASE", sector, sector)
  /\ UNCHANGED <<flash, state, registers, dbuf, reply>>

\* A wrong loop of FLASH that begins at the first sector, and a FLASH whose
\* subtraction does not wrap.
Flash_FromZero(address, size) ==
  /\ InSession
  /\ daddr' = (BitOr(daddr, address) - Base) % AddressSpace
  /\ dsz' = BitOr(dsz, size)
  /\ \E num \in bl_flash_get_sector_num(daddr', dsz') :
       \/ /\ Accepts(daddr', dsz', num)
          /\ StartErase("FLASH", 0, num.s)
          /\ UNCHANGED <<flash, reply>>
       \/ /\ ~Accepts(daddr', dsz', num)
          /\ reply' = Reply("FLASH", "ARGERR")
          /\ UNCHANGED <<device, pc, cmd, i, last>>
  /\ UNCHANGED <<state, addr, dbuf>>

Flash_Signed(address, size) ==
  /\ InSession
  /\ daddr' = BitOr(daddr, address) - Base
  /\ dsz' = BitOr(dsz, size)
  /\ reply' = Reply("FLASH", "ARGERR")
  /\ UNCHANGED <<device, pc, loop, state, addr>>

\* The address and the size are or-ed into registers that only the end of a
\* session clears.
Flash(address, size) ==
  /\ InSession
  /\ daddr' = (BitOr(daddr, address) - Base) % AddressSpace
  /\ dsz' = BitOr(dsz, size)
  /\ \E num \in bl_flash_get_sector_num(daddr', dsz') :
       \/ /\ Accepts(daddr', dsz', num)
          /\ StartErase("FLASH", num.e, num.s)
          /\ UNCHANGED <<flash, reply>>
       \/ /\ ~Accepts(daddr', dsz', num)
          /\ reply' = Reply("FLASH", "ARGERR")
          /\ UNCHANGED <<device, pc, cmd, i, last>>
  /\ UNCHANGED <<state, addr, dbuf>>

\* A wrong bl_flash_erase_sector that erases the sector FlashSectors too, and
\* one whose loop takes a sector for blank when the last word is.
EraseSector_OneMore ==
  /\ pc = "erase" /\ i <= last
  /\ flash' = [w \in Word |-> IF i <= FlashSectors /\ w \in WordsOf(i) THEN Erased ELSE flash[w]]
  /\ i' = i + 1
  /\ pc' = IF OwnCodeIn(flash') THEN pc ELSE "astray"
  /\ UNCHANGED <<locked, state, registers, cmd, last, dbuf, reply>>

EraseSector_LastWordOnly ==
  /\ pc = "erase" /\ i <= last
  /\ flash' = [w \in Word |->
                 IF /\ i < FlashSectors /\ w \in WordsOf(i)
                    /\ flash[SectorBase[i + 1] \div WordSize - 1] # Erased
                 THEN Erased ELSE flash[w]]
  /\ i' = i + 1
  /\ pc' = IF OwnCodeIn(flash') THEN pc ELSE "astray"
  /\ UNCHANGED <<locked, state, registers, cmd, last, dbuf, reply>>

\* bl_flash_erase_sector: nothing from FlashSectors on, and nothing where the
\* sector is blank.
EraseSector ==
  /\ pc = "erase" /\ i <= last
  /\ flash' = [w \in Word |-> IF i < FlashSectors /\ w \in WordsOf(i) THEN Erased ELSE flash[w]]
  /\ i' = i + 1
  /\ pc' = IF OwnCodeIn(flash') THEN pc ELSE "astray"
  /\ UNCHANGED <<locked, state, registers, cmd, last, dbuf, reply>>

EraseEnd ==
  /\ pc = "erase" /\ i > last
  /\ locked' = TRUE
  /\ reply' = Reply(cmd, "OK")
  /\ Idle
  /\ UNCHANGED <<flash, state, registers>>

-----------------------------------------------------------------------------
\* Programming: FLASH_DATA

FlashData(payload) ==
  /\ InSession
  /\ pc' = "program"
  /\ cmd' = "FLASH_DATA"
  /\ i' = 0
  /\ dbuf' = payload
  /\ locked' = FALSE
  /\ UNCHANGED <<flash, state, registers, last, reply>>

\* A wrong end of FLASH_DATA that leaves the controller unlocked.
EndProgram_Unlocked ==
  /\ reply' = Reply(cmd, "OK")
  /\ Idle
  /\ UNCHANGED locked

\* flash_lock and the reply.  Where the loop was left because a word did not
\* read back, IOERR is overwritten before it is sent.
EndProgram ==
  /\ locked' = TRUE
  /\ reply' = Reply(cmd, "OK")
  /\ Idle

\* What the word holds once it has been programmed: a worn one may refuse.
Programmed(w, value) ==
  {flash[w] \cap value} \cup (IF w \in WornWords THEN {flash[w]} ELSE {})

\* The word at daddr is programmed and read back.  The controller ignores an
\* unaligned write, and an unaligned read gives 0.
ProgramWord ==
  /\ pc = "program" /\ i < Len(dbuf)
  /\ Aligned(daddr) => InFlash(daddr)
  /\ flash' \in IF Aligned(daddr)
                THEN {[flash EXCEPT ![WordAt(daddr)] = v] :
                        v \in Programmed(WordAt(daddr), dbuf[i + 1])}
                ELSE {flash}
  /\ LET read == IF Aligned(daddr) THEN flash'[WordAt(daddr)] ELSE {}
     IN \/ /\ ~OwnCodeIn(flash')
           /\ pc' = "astray"
           /\ UNCHANGED <<locked, daddr, loop, reply>>
        \/ /\ OwnCodeIn(flash') /\ read = dbuf[i + 1]
           /\ daddr' = (daddr + WordSize) % AddressSpace
           /\ i' = i + 1
           /\ UNCHANGED <<locked, pc, cmd, last, dbuf, reply>>
        \/ /\ OwnCodeIn(flash') /\ read # dbuf[i + 1]
           /\ EndProgram
           /\ UNCHANGED daddr
  /\ UNCHANGED <<state, dsz, addr>>

ProgramOutside ==
  /\ pc = "program" /\ i < Len(dbuf)
  /\ Aligned(daddr) /\ ~InFlash(daddr)
  /\ pc' = "astray"
  /\ UNCHANGED <<device, state, registers, loop, reply>>

ProgramEnd ==
  /\ pc = "program" /\ i = Len(dbuf)
  /\ EndProgram
  /\ UNCHANGED <<flash, state, registers>>

-----------------------------------------------------------------------------
\* Checking and booting: DATA_CRC and BOOT

\* A wrong DATA_CRC that reads the first word again and again.
DataCrc_SameWord(address, size) ==
  LET start == (address - Base) % AddressSpace
  IN
  /\ InSession
  /\ Aligned(start) /\ InFlash(start)
  /\ addr' = start
  /\ reply' = [Reply("DATA_CRC", "OK") EXCEPT !.crc =
                [n \in 1 .. size \div WordSize |-> flash[WordAt(start)]]]
  /\ UNCHANGED <<device, pc, state, daddr, dsz, loop>>

DataCrc(address, size) ==
  LET start == (address - Base) % AddressSpace
      at == [n \in 1 .. size \div WordSize |-> (start + (n - 1) * WordSize) % AddressSpace]
  IN
  /\ InSession
  /\ \/ /\ (start + size) % AddressSpace > AppSizeMax
        /\ addr' = start
        /\ reply' = Reply("DATA_CRC", "ARGERR")
        /\ UNCHANGED pc
     \/ /\ (start + size) % AddressSpace <= AppSizeMax
        /\ \A n \in DOMAIN at : Aligned(at[n]) => InFlash(at[n])
        /\ addr' = (start + Len(at) * WordSize) % AddressSpace
        /\ reply' = [Reply("DATA_CRC", "OK") EXCEPT !.crc =
                       [n \in DOMAIN at |-> IF Aligned(at[n]) THEN flash[WordAt(at[n])] ELSE {}]]
        /\ UNCHANGED pc
     \/ /\ (start + size) % AddressSpace <= AppSizeMax
        /\ \E n \in DOMAIN at : Aligned(at[n]) /\ ~InFlash(at[n])
        /\ pc' = "astray"
        /\ UNCHANGED <<addr, reply>>
  /\ UNCHANGED <<device, state, daddr, dsz, loop>>

\* What a read at an absolute address can give; the flash is also mapped at 0.
\* Elsewhere there may be anything; that there may be nothing to read, which is
\* a fault, is left out.
AbsoluteRead(x) ==
  LET offset == (x - Base) % AddressSpace
  IN  IF ~Aligned(x) THEN Value
      ELSE IF InFlash(offset) THEN {flash[WordAt(offset)]}
      ELSE IF InFlash(x) THEN {flash[WordAt(x)]}
      ELSE Value

\* BOOT jumps unless the first word at the address is blank.
Boot(address) ==
  /\ InSession
  /\ addr' = address
  /\ \E first \in AbsoluteRead(address) :
       \/ /\ first = Erased
          /\ reply' = Reply("BOOT", "ARGERR")
          /\ UNCHANGED pc
       \/ /\ first # Erased
          /\ reply' = Reply("BOOT", "OK")
          /\ pc' = "jumped"
  /\ UNCHANGED <<device, state, daddr, dsz, loop>>

\* Where BOOT does not arrive whole, the word that is looked at is the one at
\* the address an earlier command left in addr.
BootRefused(status) ==
  /\ InSession
  /\ status \in {"IOERR", "CRCERR"}
  /\ \E first \in AbsoluteRead(addr) :
       reply' = Reply("BOOT", IF first = Erased THEN "ARGERR" ELSE status)
  /\ UNCHANGED <<device, pc, state, registers, loop>>

-----------------------------------------------------------------------------
\* What the program does of its own once a command has arrived.
Work == EraseSector \/ EraseEnd \/ ProgramWord \/ ProgramOutside \/ ProgramEnd

=============================================================================
