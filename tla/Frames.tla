------------------------------- MODULE Frames -------------------------------
(***************************************************************************)
(* The first FLASH of a session as the bytes that carry it, and DATA_CRC of *)
(* what it names: the CRC8 of the frame, the range that bl_listen puts     *)
(* together from its bytes, and the CRC32 of the words in the flash.       *)
(*                                                                         *)
(* addr and sz of FlashRange are the range the host means.  The line may   *)
(* damage a frame behind its first byte; damage to that byte makes it      *)
(* another command, which Session has.  The unit is the word.              *)
(***************************************************************************)
EXTENDS FlashRange, Checksum

LOCAL INSTANCE SequencesExt

CONSTANTS
  Base,       \* STM32_BASE_ADDR, in words
  Damage,     \* the sets of bits that may be inverted on the way
  Struck,     \* the ranges to whose frames that happens
  Image       \* for each word of a range, what the flash may hold there, as pairs of 16
              \* bits; no CRC32 is taken of a longer range

VARIABLES
  frame,      \* buf: the bytes that arrived
  hurt,       \* observed: the bits that the line inverted
  status,     \* what __read_and_check returned
  daddr, dsz, \* the registers
  read,       \* observed: the words DATA_CRC has read
  data_crc

command == <<frame, hurt, status, daddr, dsz>>
crc == <<read, data_crc>>
frameVars == <<vars, command, crc>>

FLASH == 178    \* BL_PROTO_CMD_FLASH
EOM == 192      \* BL_PROTO_EOM

\* The four bytes of a register that holds x words, the lowest first, and back.
ToBytes(x) == << 4 * (x % 64), (x \div 64) % 256, (x \div 16384) % 256, x \div 4194304 >>
FromBytes(b) == (b[1] \div 4) + 64 * b[2] + 16384 * b[3] + 4194304 * b[4]

\* The frame the host makes, with the CRC8 it should have.
Request(a, s) ==
  LET body == <<FLASH>> \o ToBytes((a + Base) % AddressSpace) \o ToBytes(s) \o <<EOM>>
  IN  Append(body, Remainder8(body))

\* Bit n of a frame is bit n % 8 of its byte n \div 8, counted from 0.
Inverted(bytes, bits) ==
  [ k \in DOMAIN bytes |->
      FoldLeft(LAMBDA byte, b : IF 8 * (k - 1) + b \in bits THEN byte ^^ (2 ^ b) ELSE byte,
               bytes[k], <<0, 1, 2, 3, 4, 5, 6, 7>>) ]

FramesInit ==
  /\ Init
  /\ frame = <<>> /\ hurt = {}
  /\ status = "NONE"
  /\ daddr = 0 /\ dsz = 0
  /\ read = <<>> /\ data_crc = <<0, 0>>

Arrive ==
  /\ frame = <<>>
  /\ hurt' \in IF <<addr, sz>> \in Struck THEN Damage ELSE {{}}
  /\ frame' = Inverted(Request(addr, sz), hurt')
  /\ UNCHANGED <<vars, status, daddr, dsz, crc>>

\* A wrong __read_and_check that only waits for the bytes.
ReadAndCheck_Unchecked ==
  /\ frame # <<>> /\ status = "NONE"
  /\ status' = "OK"
  /\ UNCHANGED <<vars, frame, hurt, daddr, dsz, crc>>

\* __read_and_check, all bytes of the frame having come.
ReadAndCheck ==
  /\ frame # <<>> /\ status = "NONE"
  /\ status' = IF crc8(SubSeq(frame, 1, 10)) # frame[11] THEN "CRCERR" ELSE "OK"
  /\ UNCHANGED <<vars, frame, hurt, daddr, dsz, crc>>

\* FLASH takes its range and looks for its sectors.
TakeRange ==
  /\ status = "OK" /\ num = NoAnswer
  /\ daddr' = (FromBytes(SubSeq(frame, 2, 5)) - Base) % AddressSpace
  /\ dsz' = FromBytes(SubSeq(frame, 6, 9))
  /\ num' \in bl_flash_get_sector_num(daddr', dsz')
  /\ UNCHANGED <<addr, sz, frame, hurt, status, crc>>

\* The bytes of a word, in the order the memory has them.
BytesOf(w) == << w[2] % 256, w[2] \div 256, w[1] % 256, w[1] \div 256 >>

\* DATA_CRC of the same range: a round of its loop.
CrcWord ==
  /\ num # NoAnswer /\ Accepts(daddr, dsz, num)
  /\ Len(read) < dsz /\ dsz <= Len(Image)
  /\ \E w \in Image[Len(read) + 1] :
       /\ read' = Append(read, w)
       /\ data_crc' = crc32(BytesOf(w), data_crc)
  /\ UNCHANGED <<vars, command>>

FramesNext == Arrive \/ ReadAndCheck \/ TakeRange \/ CrcWord

FramesSpec == FramesInit /\ [][FramesNext]_frameVars

-----------------------------------------------------------------------------
\* The range FLASH works on is the one the host meant, whatever the line did to
\* its frame: a frame with two bits inverted, or any within eight in a row, does
\* not pass the CRC8 (bl.c:120-137, 273-291, utils.c:88-99).
ImplementsFlashRange == Spec

\* A frame that arrives as it was sent passes: the table of crc8 is that of the
\* polynomial the host divides by (utils.c:6-39).
OnlyDamageIsRefused == status = "CRCERR" => hurt # {}

\* What DATA_CRC answers is the remainder of all it has read, taken word by
\* word from a table, of which every entry is that of the polynomial
\* (bl.c:219-223, utils.c:41-86, 101-111).
DataCrcIsRemainder ==
  data_crc = Remainder32(FoldLeft(LAMBDA bytes, w : bytes \o BytesOf(w), <<>>, read))

=============================================================================
