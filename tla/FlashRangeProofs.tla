-------------------------- MODULE FlashRangeProofs --------------------------
(***************************************************************************)
(* Proofs about FlashRange for every table of sectors, every limit below    *)
(* its end and every range: what is accepted lies in the table, and what is *)
(* erased is a part of the range.                                          *)
(***************************************************************************)
EXTENDS FlashRange, FlashLayoutProofs

\* The inductive invariant: what the answer was computed from does not change.
IInv ==
  /\ addr \in Address /\ sz \in Address
  /\ num = NoAnswer \/ num \in bl_flash_get_sector_num(addr, sz)

LEMMA InitIInv == Init => IInv
<1> SUFFICES ASSUME Init PROVE IInv
  OBVIOUS
<1>1. PICK end \in Probe : sz = (end - addr) % AddressSpace
  BY DEF Init
<1>2. addr \in Address /\ end \in Address
  BY ProbeAssumption DEF Init
<1>3. end - addr \in Int
  BY <1>2, LayoutAssumption DEF Address
<1>4. sz \in Address
  BY <1>1, <1>3, WrapFact
<1> QED BY <1>2, <1>4 DEF Init, IInv

LEMMA NextIInv == IInv /\ [Locate]_vars => IInv'
BY DEF IInv, Locate, vars

LEMMA Invariance == Spec => []IInv
BY InitIInv, NextIInv, PTL DEF Spec

-----------------------------------------------------------------------------
\* The first sector from a sector on that ends behind an offset holds it,
\* where that sector does not begin behind it.
LEMMA HoldsFact ==
  ASSUME NEW x \in Nat, NEW from \in Sector, SectorBase[from] <= x,
         NEW i \in EndsAfter(x, from), \A j \in EndsAfter(x, from) : i <= j
  PROVE  i \in Sector /\ Holds(i, x)
<1>1. i \in from .. TableSectors - 1 /\ from \in Nat /\ x < SectorBase[i + 1]
  BY LayoutAssumption DEF EndsAfter, Sector
<1>2. i \in Sector
  BY <1>1, LayoutAssumption DEF Sector
<1>3. CASE i = from
  BY <1>1, <1>2, <1>3 DEF Holds
<1>4. CASE i # from
  <2>1. i - 1 \in from .. TableSectors - 1 /\ (i - 1) + 1 = i /\ ~ (i <= i - 1)
    BY <1>1, <1>4, LayoutAssumption
  <2>2. i - 1 \notin EndsAfter(x, from)
    BY <2>1
  <2>3. ~ (x < SectorBase[i])
    BY <2>1, <2>2 DEF EndsAfter
  <2>4. SectorBase[i] \in Nat
    BY <1>2, BaseType, LayoutAssumption DEF Sector
  <2> QED BY <1>1, <1>2, <2>3, <2>4 DEF Holds
<1> QED BY <1>3, <1>4

\* An answer from the table: the start is the sector that holds the start of
\* the range, the end is no sector before it.
LEMMA AnswerFact ==
  ASSUME IInv, num.found
  PROVE  \/ /\ num.s \in Sector /\ Holds(num.s, addr)
            /\ num.e \in EndsAfter((addr + sz) % AddressSpace, num.s)
            /\ \A j \in EndsAfter((addr + sz) % AddressSpace, num.s) : num.e <= j
         \/ /\ num.e = TableSectors
            /\ \/ EndsAfter(addr, 0) = {}
               \/ /\ num.s \in EndsAfter(addr, 0)
                  /\ EndsAfter((addr + sz) % AddressSpace, num.s) = {}
<1>1. num \in bl_flash_get_sector_num(addr, sz) /\ addr \in Address /\ sz \in Address
  BY DEF IInv, NoAnswer
<1>2. 0 \in Sector /\ SectorBase[0] <= addr /\ addr \in Nat
  BY <1>1, BaseStep, LayoutAssumption DEF Sector, Address
<1>3. CASE /\ num.s \in EndsAfter(addr, 0)
           /\ \A j \in EndsAfter(addr, 0) : num.s <= j
           /\ num.e \in EndsAfter((addr + sz) % AddressSpace, num.s)
           /\ \A j \in EndsAfter((addr + sz) % AddressSpace, num.s) : num.e <= j
  <2>1. num.s \in Sector /\ Holds(num.s, addr)
    BY <1>2, <1>3, HoldsFact
  <2> QED BY <1>3, <2>1
<1>4. CASE /\ num.e = TableSectors
           /\ \/ EndsAfter(addr, 0) = {}
              \/ /\ num.s \in EndsAfter(addr, 0)
                 /\ EndsAfter((addr + sz) % AddressSpace, num.s) = {}
  BY <1>4
<1> QED BY <1>1, <1>3, <1>4, SectorNumFact

\* The last sector of the table ends behind every offset the check lets pass.
LEMMA LastSector ==
  ASSUME NEW x \in Nat, x <= AppSizeMax, NEW from \in Sector
  PROVE  TableSectors - 1 \in EndsAfter(x, from)
<1>1. TableSectors - 1 \in from .. TableSectors - 1 /\ (TableSectors - 1) + 1 = TableSectors
  BY LayoutAssumption DEF Sector
<1>2. SectorBase[TableSectors] \in Nat
  BY BaseType, LayoutAssumption
<1>3. x < SectorBase[TableSectors]
  BY <1>2, TableAssumption, LayoutAssumption
<1> QED BY <1>1, <1>3 DEF EndsAfter

LEMMA IInvInTable == IInv => AcceptedIsInTable
<1> SUFFICES ASSUME IInv, Accepted, ~Wraps
             PROVE  /\ num.s \in Sector /\ Holds(num.s, addr)
                    /\ num.e \in Sector /\ Holds(num.e, addr + sz)
  BY DEF AcceptedIsInTable
<1>1. addr \in Nat /\ sz \in Nat
  BY LayoutAssumption DEF IInv, Address
<1>2. (addr + sz) % AddressSpace = addr + sz
  <2>1. addr + sz \in Nat /\ addr + sz < AddressSpace
    BY <1>1, LayoutAssumption DEF Wraps
  <2> QED BY <2>1, NoWrapFact
<1>3. num.found /\ addr + sz <= AppSizeMax /\ addr <= AppSizeMax
  BY <1>1, <1>2, LayoutAssumption DEF Accepted, Accepts
<1>4. 0 \in Sector
  BY LayoutAssumption DEF Sector
<1>5. EndsAfter(addr, 0) # {}
  BY <1>1, <1>3, <1>4, LastSector
<1>6. num.s \in EndsAfter(addr, 0) => EndsAfter(addr + sz, num.s) # {}
  <2> SUFFICES ASSUME num.s \in EndsAfter(addr, 0) PROVE EndsAfter(addr + sz, num.s) # {}
    OBVIOUS
  <2>1. num.s \in Sector /\ addr + sz \in Nat
    BY <1>1 DEF EndsAfter, Sector
  <2> QED BY <1>3, <2>1, LastSector
<1>7. /\ num.s \in Sector /\ Holds(num.s, addr)
      /\ num.e \in EndsAfter(addr + sz, num.s)
      /\ \A j \in EndsAfter(addr + sz, num.s) : num.e <= j
  BY <1>2, <1>3, <1>5, <1>6, AnswerFact
<1>8. addr + sz \in Nat /\ SectorBase[num.s] <= addr + sz
  <2>1. SectorBase[num.s] \in Nat
    BY <1>7, BaseType, LayoutAssumption DEF Sector
  <2> QED BY <1>1, <1>7, <2>1 DEF Holds
<1> QED BY <1>7, <1>8, HoldsFact

LEMMA IInvErases == IInv => ErasesOnlyImage
<1> SUFFICES ASSUME IInv, Accepted, NEW i \in ErasedBy(num)
             PROVE  Holds(i, addr)
  BY DEF ErasesOnlyImage
<1>1. num.found /\ i \in num.e .. num.s /\ i < FlashSectors
  BY DEF Accepted, Accepts, ErasedBy
<1>2. CASE /\ num.s \in Sector /\ Holds(num.s, addr)
           /\ num.e \in EndsAfter((addr + sz) % AddressSpace, num.s)
  <2>1. num.e \in num.s .. TableSectors - 1
    BY <1>2 DEF EndsAfter
  <2>2. i = num.s
    BY <1>1, <1>2, <2>1, LayoutAssumption DEF Sector
  <2> QED BY <1>2, <2>2
<1>3. CASE num.e = TableSectors
  BY <1>1, <1>3, LayoutAssumption
<1> QED BY <1>1, <1>2, <1>3, AnswerFact

\* A range that FLASH accepts, and that does not wrap, lies in the table for
\* every table that ends behind APP_SIZE_MAX: the loops of
\* bl_flash_get_sector_num stop before they leave it (flash.c:89-106).
THEOREM AcceptedRangeIsInTable == Spec => []AcceptedIsInTable
BY Invariance, IInvInTable, PTL

\* Every sector that FLASH erases holds a part of its range, for any range,
\* table and limit (bl.c:138-145); it is the one that holds its start.
THEOREM NeighboursAreKept == Spec => []ErasesOnlyImage
BY Invariance, IInvErases, PTL

=============================================================================
