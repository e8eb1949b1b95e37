----------------------------- MODULE FlashRange -----------------------------
(***************************************************************************)
(* One FLASH command and what the arithmetic of FlashLayout makes of its    *)
(* range: the sectors that are found, whether the range is accepted, and    *)
(* what is erased of it.                                                   *)
(***************************************************************************)
EXTENDS FlashLayout

CONSTANT Probe    \* the addresses at which ranges begin and end

ASSUME ProbeAssumption == Probe \subseteq Address

\* The table reaches beyond the largest application: it is that of a chip with
\* two banks.
ASSUME TableAssumption == AppSizeMax < SectorBase[TableSectors]

VARIABLES
  addr,     \* the range of the command: its address, an offset from Base
  sz,       \* ... and its size
  num       \* what bl_flash_get_sector_num answered, or NoAnswer

vars == <<addr, sz, num>>

NoAnswer == [found |-> FALSE, s |-> TableSectors, e |-> TableSectors]

Init ==
  /\ addr \in Probe
  /\ \E end \in Probe : sz = (end - addr) % AddressSpace
  /\ num = NoAnswer

Locate ==
  /\ num = NoAnswer
  /\ num' \in bl_flash_get_sector_num(addr, sz)
  /\ UNCHANGED <<addr, sz>>

Spec == Init /\ [][Locate]_vars

-----------------------------------------------------------------------------
Wraps == addr + sz >= AddressSpace
Holds(i, x) == SectorBase[i] <= x /\ x < SectorBase[i + 1]
Accepted == Accepts(addr, sz, num)

\* An accepted range that does not wrap lies in the table: its sectors are the
\* one of its first word and the one of the word behind its last, and the
\* loops never ran beyond the table (flash.c:89-106, bl.c:136).
AcceptedIsInTable ==
  Accepted /\ ~Wraps => /\ num.s \in Sector /\ Holds(num.s, addr)
                        /\ num.e \in Sector /\ Holds(num.e, addr + sz)

\* What FLASH erases holds a part of the image: no neighbour of the image is
\* lost, not even when the image ends where a sector does (bl.c:138-145).
ErasesOnlyImage ==
  Accepted /\ sz > 0 =>
    \A i \in ErasedBy(num) :
      \E x \in {addr, addr + sz - 1} : Holds(i, x)

=============================================================================
