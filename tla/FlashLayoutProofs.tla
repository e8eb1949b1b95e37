------------------------- MODULE FlashLayoutProofs -------------------------
(***************************************************************************)
(* Facts about FlashLayout for every table of sectors: SectorBase is what   *)
(* its recursive definition says, the sectors lie behind each other, and    *)
(* bl_flash_get_sector_num answers with sectors.                            *)
(***************************************************************************)
EXTENDS FlashLayout, WellFoundedInduction, TLAPS

\* A set of naturals that is not empty has a least element.  This stands for
\* induction: a set of counterexamples is shown to have no least one.
LEMMA LeastNat ==
  ASSUME NEW S \in SUBSET Nat, S # {}
  PROVE  \E m \in S : \A k \in S : m <= k
<1> DEFINE R == OpToRel(<, Nat)
<1>1. IsWellFoundedOn(R, Nat)
  BY NatLessThanWellFounded
<1>2. \A x \in Nat, y \in Nat : x < y => <<x, y>> \in R
  BY Zenon DEF OpToRel
<1> HIDE DEF R
<1>3. PICK x \in S : \A y \in S : ~ (<<y, x>> \in R)
  BY <1>1, WFMin
<1>4. ASSUME NEW k \in S PROVE x <= k
  <2>1. ~ (<<k, x>> \in R) /\ k \in Nat /\ x \in Nat
    BY <1>3
  <2>2. ~ (k < x)
    BY <1>2, <2>1
  <2> QED BY <2>1, <2>2
<1> QED BY <1>3, <1>4

LEMMA FirstFact ==
  ASSUME NEW S \in SUBSET Nat, S # {}
  PROVE  First(S) \in S /\ \A j \in S : First(S) <= j
BY LeastNat DEF First

LEMMA WrapFact ==
  ASSUME NEW x \in Int
  PROVE  x % AddressSpace \in Address
BY LayoutAssumption DEF Address

LEMMA NoWrapFact ==
  ASSUME NEW x \in Nat, x < AddressSpace
  PROVE  x % AddressSpace = x
<1>1. AddressSpace \in Nat \ {0}
  BY LayoutAssumption
<1> QED BY <1>1

-----------------------------------------------------------------------------
\* SectorBase

\* A function that follows the definition of SectorBase up to n.
IsBase(g, n) ==
  g = [i \in 0 .. n |-> IF i = 0 THEN 0 ELSE g[i - 1] + SectorSize[i - 1]]

\* There is such a function up to any n, hence up to TableSectors.
LEMMA BaseExists == \A n \in 0 .. TableSectors : \E g : IsBase(g, n)
<1> DEFINE Bad == {n \in 0 .. TableSectors : ~ \E g : IsBase(g, n)}
<1>1. SUFFICES ASSUME Bad # {} PROVE FALSE
  OBVIOUS
<1>2. Bad \in SUBSET Nat
  BY LayoutAssumption
<1>3. PICK n \in Bad : \A k \in Bad : n <= k
  BY <1>1, <1>2, LeastNat
<1>4. n \in 0 .. TableSectors /\ n \in Nat /\ ~ \E g : IsBase(g, n)
  BY <1>2, <1>3
<1>5. CASE n = 0
  <2>1. IsBase([i \in 0 .. 0 |-> 0], 0)
    BY DEF IsBase
  <2> QED BY <1>4, <1>5, <2>1
<1>6. CASE n # 0
  <2>1. n - 1 \in 0 .. TableSectors /\ ~ (n <= n - 1)
    BY <1>4, <1>6, LayoutAssumption
  <2>2. n - 1 \notin Bad
    BY <1>3, <2>1
  <2>3. PICK g : IsBase(g, n - 1)
    BY <2>1, <2>2
  <2> DEFINE h == [i \in 0 .. n |-> IF i = n THEN g[n - 1] + SectorSize[n - 1] ELSE g[i]]
  <2>4. \A i \in 0 .. n - 1 : g[i] = IF i = 0 THEN 0 ELSE g[i - 1] + SectorSize[i - 1]
    BY <2>3 DEF IsBase
  <2>5. ASSUME NEW i \in 0 .. n
        PROVE  h[i] = IF i = 0 THEN 0 ELSE h[i - 1] + SectorSize[i - 1]
    <3>1. CASE i = n
      <4>1. h[n - 1] = g[n - 1]
        BY <1>4, <1>6
      <4> QED BY <1>4, <1>6, <3>1, <4>1
    <3>2. CASE i # n
      <4>1. i \in 0 .. n - 1 /\ h[i] = g[i]
        BY <1>4, <3>2
      <4>2. i # 0 => h[i - 1] = g[i - 1]
        BY <1>4, <4>1
      <4> QED BY <2>4, <4>1, <4>2
    <3> QED BY <3>1, <3>2
  <2>6. h = [i \in 0 .. n |-> IF i = 0 THEN 0 ELSE h[i - 1] + SectorSize[i - 1]]
    <3> DEFINE r == [i \in 0 .. n |-> IF i = 0 THEN 0 ELSE h[i - 1] + SectorSize[i - 1]]
    <3>1. \A i \in 0 .. n : h[i] = r[i]
      <4> HIDE DEF h
      <4> QED BY <2>5
    <3> QED BY <3>1
  <2>7. IsBase(h, n)
    <3> HIDE DEF h
    <3> QED BY <2>6 DEF IsBase
  <2> QED BY <1>4, <2>7
<1> QED BY <1>5, <1>6

LEMMA BaseDefined == IsBase(SectorBase, TableSectors)
<1>1. \E g : IsBase(g, TableSectors)
  BY BaseExists, LayoutAssumption
<1>2. SectorBase = CHOOSE g : IsBase(g, TableSectors)
  BY DEF SectorBase, IsBase
<1> QED BY <1>1, <1>2

LEMMA BaseStep ==
  /\ SectorBase[0] = 0
  /\ \A i \in Sector : SectorBase[i + 1] = SectorBase[i] + SectorSize[i]
<1>1. \A i \in 0 .. TableSectors :
         SectorBase[i] = IF i = 0 THEN 0 ELSE SectorBase[i - 1] + SectorSize[i - 1]
  BY BaseDefined DEF IsBase
<1>2. SectorBase[0] = 0
  BY <1>1, LayoutAssumption
<1>3. ASSUME NEW i \in Sector PROVE SectorBase[i + 1] = SectorBase[i] + SectorSize[i]
  <2>1. i + 1 \in 0 .. TableSectors /\ i + 1 # 0 /\ (i + 1) - 1 = i
    BY LayoutAssumption DEF Sector
  <2> QED BY <1>1, <2>1
<1> QED BY <1>2, <1>3

LEMMA BaseType == \A i \in 0 .. TableSectors : SectorBase[i] \in Nat
<1> DEFINE Bad == {i \in 0 .. TableSectors : SectorBase[i] \notin Nat}
<1>1. SUFFICES ASSUME Bad # {} PROVE FALSE
  OBVIOUS
<1>2. Bad \in SUBSET Nat
  BY LayoutAssumption
<1>3. PICK n \in Bad : \A k \in Bad : n <= k
  BY <1>1, <1>2, LeastNat
<1>4. n \in 0 .. TableSectors /\ n \in Nat /\ SectorBase[n] \notin Nat
  BY <1>2, <1>3
<1>5. n # 0
  BY <1>4, BaseStep
<1>6. n - 1 \in Sector /\ n - 1 \in 0 .. TableSectors /\ (n - 1) + 1 = n /\ ~ (n <= n - 1)
  BY <1>4, <1>5, LayoutAssumption DEF Sector
<1>7. SectorBase[n - 1] \in Nat
  BY <1>3, <1>6
<1>8. SectorSize[n - 1] \in Nat
  BY <1>6, LayoutAssumption DEF Sector
<1>9. SectorBase[n] = SectorBase[n - 1] + SectorSize[n - 1]
  BY <1>6, BaseStep
<1> QED BY <1>4, <1>7, <1>8, <1>9

\* The sectors lie behind each other in the order of the table: one begins at
\* the earliest where one before it ends (flash.c:11-36).
THEOREM SectorsInOrder ==
  \A i, j \in 0 .. TableSectors : i <= j => SectorBase[i] <= SectorBase[j]
<1> SUFFICES ASSUME NEW i \in 0 .. TableSectors
             PROVE  \A j \in 0 .. TableSectors : i <= j => SectorBase[i] <= SectorBase[j]
  OBVIOUS
<1> DEFINE Bad == {j \in 0 .. TableSectors : i <= j /\ ~ (SectorBase[i] <= SectorBase[j])}
<1>1. SUFFICES ASSUME Bad # {} PROVE FALSE
  OBVIOUS
<1>2. Bad \in SUBSET Nat
  BY LayoutAssumption
<1>3. PICK n \in Bad : \A k \in Bad : n <= k
  BY <1>1, <1>2, LeastNat
<1>4. n \in 0 .. TableSectors /\ n \in Nat /\ i <= n /\ ~ (SectorBase[i] <= SectorBase[n])
  BY <1>2, <1>3
<1>5. SectorBase[i] \in Nat /\ SectorBase[n] \in Nat
  BY <1>4, BaseType
<1>6. i # n
  BY <1>4, <1>5
<1>7. /\ n - 1 \in Sector /\ n - 1 \in 0 .. TableSectors
      /\ (n - 1) + 1 = n /\ ~ (n <= n - 1) /\ i <= n - 1
  BY <1>4, <1>6, LayoutAssumption DEF Sector
<1>8. SectorBase[i] <= SectorBase[n - 1]
  BY <1>3, <1>7
<1>9. SectorBase[n] = SectorBase[n - 1] + SectorSize[n - 1] /\ SectorSize[n - 1] \in Nat
  BY <1>7, BaseStep, LayoutAssumption DEF Sector
<1>10. SectorBase[n - 1] \in Nat
  BY <1>7, BaseType
<1> QED BY <1>4, <1>5, <1>8, <1>9, <1>10

-----------------------------------------------------------------------------
\* bl_flash_get_sector_num

LEMMA EndsAfterType ==
  ASSUME NEW x, NEW from \in Nat
  PROVE  EndsAfter(x, from) \in SUBSET Nat
BY LayoutAssumption DEF EndsAfter

\* An answer is the first sector that ends behind the start of the range and
\* the first from there on that ends behind its end, or has run out of the
\* table (flash.c:80-112).
LEMMA SectorNumFact ==
  ASSUME NEW a \in Address, NEW sz \in Address,
         NEW num \in bl_flash_get_sector_num(a, sz), num.found
  PROVE  /\ num.s \in Nat /\ num.e \in Nat
         /\ \/ /\ num.s \in EndsAfter(a, 0)
               /\ \A j \in EndsAfter(a, 0) : num.s <= j
               /\ num.e \in EndsAfter((a + sz) % AddressSpace, num.s)
               /\ \A j \in EndsAfter((a + sz) % AddressSpace, num.s) : num.e <= j
            \/ /\ num.e = TableSectors
               /\ \/ EndsAfter(a, 0) = {}
                  \/ /\ num.s \in EndsAfter(a, 0)
                     /\ \A j \in EndsAfter(a, 0) : num.s <= j
                     /\ EndsAfter((a + sz) % AddressSpace, num.s) = {}
<1> DEFINE x == (a + sz) % AddressSpace
           starts == EndsAfter(a, 0)
           ends == EndsAfter(x, First(starts))
<1>1. starts # {} => /\ First(starts) \in Nat
                     /\ First(starts) \in starts
                     /\ \A j \in starts : First(starts) <= j
  <2>1. starts \in SUBSET Nat
    BY EndsAfterType
  <2> HIDE DEF starts
  <2> QED BY <2>1, FirstFact
<1>2. starts # {} /\ ends # {} => /\ First(ends) \in Nat
                                  /\ First(ends) \in ends
                                  /\ \A j \in ends : First(ends) <= j
  <2> SUFFICES ASSUME starts # {}, ends # {}
               PROVE  /\ First(ends) \in Nat
                      /\ First(ends) \in ends
                      /\ \A j \in ends : First(ends) <= j
    OBVIOUS
  <2>1. First(starts) \in Nat
    BY <1>1
  <2>2. ends \in SUBSET Nat
    <3> HIDE DEF starts
    <3> QED BY <2>1, EndsAfterType
  <2> HIDE DEF ends
  <2> QED BY <2>2, FirstFact
<1>3. \/ /\ starts # {} /\ ends # {}
         /\ num = [found |-> TRUE, s |-> First(starts), e |-> First(ends)]
      \/ /\ starts = {} \/ ends = {}
         /\ num = [found |-> TRUE, e |-> TableSectors,
                   s |-> IF starts = {} THEN TableSectors ELSE First(starts)]
  <2> HIDE DEF starts, ends
  <2>1. \/ /\ starts # {} /\ ends # {}
           /\ num = [found |-> TRUE, s |-> First(starts), e |-> First(ends)]
        \/ /\ starts = {} \/ ends = {}
           /\ \/ num = NoSectors
              \/ \E s \in IF starts = {} THEN {TableSectors} ELSE {First(starts)} :
                   num = [found |-> TRUE, s |-> s, e |-> TableSectors]
    BY DEF bl_flash_get_sector_num, starts, ends, x
  <2> QED BY <2>1 DEF NoSectors
<1>4. TableSectors \in Nat
  BY LayoutAssumption
<1>5. starts # {} => ends = EndsAfter(x, First(starts))
  OBVIOUS
<1> HIDE DEF starts, ends, x
<1>6. CASE starts # {} /\ ends # {}
  <2>1. num.s = First(starts) /\ num.e = First(ends)
    BY <1>3, <1>6
  <2> QED BY <1>1, <1>2, <1>5, <1>6, <2>1 DEF starts, x
<1>7. CASE starts = {}
  <2>1. num.s = TableSectors /\ num.e = TableSectors
    BY <1>3, <1>7
  <2> QED BY <1>4, <1>7, <2>1 DEF starts
<1>8. CASE starts # {} /\ ends = {}
  <2>1. num.s = First(starts) /\ num.e = TableSectors
    BY <1>3, <1>8
  <2> QED BY <1>1, <1>4, <1>5, <1>8, <2>1 DEF starts, x
<1> QED BY <1>6, <1>7, <1>8
=============================================================================
