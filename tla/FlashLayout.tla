---------------------------- MODULE FlashLayout ----------------------------
(***************************************************************************)
(* The geometry of the internal flash as src/flash.c sees it, and the      *)
(* arithmetic the FLASH command of src/bl.c does with it.  Addresses are   *)
(* offsets from STM32_BASE_ADDR and unsigned: they wrap at AddressSpace.   *)
(* The unit (a byte, a word) is left to the instance.                      *)
(***************************************************************************)
EXTENDS Integers, FiniteSets

CONSTANTS
  TableSectors,   \* the entries of __sector_size
  SectorSize,     \* __sector_size
  FlashSectors,   \* BL_FLASH_SECTORS: the sectors the program will erase
  AppSizeMax,     \* APP_SIZE_MAX
  AddressSpace    \* 2^32 bytes

ASSUME LayoutAssumption ==
  /\ TableSectors \in Nat \ {0}
  /\ SectorSize \in [0 .. TableSectors - 1 -> Nat \ {0}]
  /\ FlashSectors \in 1 .. TableSectors
  /\ AppSizeMax \in Nat
  /\ AddressSpace \in Nat \ {0}

Sector == 0 .. TableSectors - 1
Address == 0 .. AddressSpace - 1

\* The offset at which sector i begins; at TableSectors, the end of the table.
SectorBase[i \in 0 .. TableSectors] ==
  IF i = 0 THEN 0 ELSE SectorBase[i - 1] + SectorSize[i - 1]

bl_flash_sector_size(sector) ==
  IF sector < FlashSectors THEN SectorSize[sector] ELSE 0

\* A wrong comparison in the loops of bl_flash_get_sector_num.
EndsAfter_OrAt(x, from) == {i \in from .. TableSectors - 1 : x <= SectorBase[i + 1]}

\* The sectors from that end after offset x, and the first of them.
EndsAfter(x, from) == {i \in from .. TableSectors - 1 : x < SectorBase[i + 1]}
First(S) == CHOOSE i \in S : \A j \in S : i <= j

\* What bl_flash_get_sector_num can answer: a set, because its loops are
\* bounded by sizeof(__sector_size) and not by its number of entries.  Beyond
\* the table they add what memory holds behind it, and either stop at some
\* sector the chip does not have or give up.
NoSectors == [found |-> FALSE, s |-> 0, e |-> 0]
bl_flash_get_sector_num(addr, sz) ==
  LET starts == EndsAfter(addr, 0)
      ends == EndsAfter((addr + sz) % AddressSpace, First(starts))
      beyond == {NoSectors} \cup
        { [found |-> TRUE, s |-> s, e |-> TableSectors]
            : s \in IF starts = {} THEN {TableSectors} ELSE {First(starts)} }
  IN  IF starts # {} /\ ends # {}
      THEN {[found |-> TRUE, s |-> First(starts), e |-> First(ends)]}
      ELSE beyond

\* The condition under which FLASH accepts a range once its sectors are known.
Accepts(addr, sz, num) ==
  (addr + sz) % AddressSpace <= AppSizeMax /\ num.found

\* The loop of FLASH from the start to the end, which also erases the sector
\* behind an image that ends where its sector does.
ErasedBy_StartToEnd(num) == {i \in num.s .. num.e : i < FlashSectors}

\* The sectors the loop of FLASH erases.  ss is the sector of the start of the
\* range and es the one of its end, and the loop runs from es up to ss;
\* bl_flash_erase_sector refuses the sectors from FlashSectors on.
ErasedBy(num) == {i \in num.e .. num.s : i < FlashSectors}

=============================================================================
