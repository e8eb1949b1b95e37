---------------------------- MODULE FatFsProofs ----------------------------
(***************************************************************************)
(* Proofs about the FAT driver for every volume, every size of sectors and *)
(* clusters, and reads of any sizes one after another: type correctness,   *)
(* that what is mounted fits, that the cursor is that of the position, that *)
(* reads deliver the file, where they fail, and that they stop where a      *)
(* chain is broken; and, for every path and any lengths of a name, that it *)
(* opens the entry it names.                                               *)
(***************************************************************************)
EXTENDS FatFs, WellFoundedInduction, SequenceTheorems, TLAPS

\* What belongs to a file that is open.
OfOpen ==
  opened # Nothing =>
    /\ \E k \in DOMAIN volume.dir : opened = volume.dir[k]
    /\ file.size = opened.size

\* A read in progress has been asked for no more than the file has left.
InRead ==
  pc = "reading" =>
    /\ opened # Nothing /\ ret = 0
    /\ left <= file.size - file.pos
    /\ file.pos = from + Len(out)

\* The cached sector is the one the position is in, the count of sectors that
\* of what the cluster has from there.
SectorInCluster == (file.pos \div SectorSize) % SectPerClust
Placed ==
  /\ file.currsect = SectOfClust(file.currclust) + SectorInCluster
  /\ file.sectsinclust = SectPerClust - SectorInCluster
OnChain == file.currclust = ChainCluster(file.pos \div ClusterBytes)

\* A read that has not begun may find the sector still to be looked for.
Cursor ==
  opened # Nothing /\ file.pos < file.size /\ ~failed =>
    /\ OnChain
    /\ pc = "reading" \/ file.currsect # 0 => Placed

\* A read of a good file that has failed stays at the entry it has failed at.
Stopped ==
  failed /\ GoodFile => Entry(volume.fat, file.currclust) \in ClustNum .. ClustNum + 1

\* A read that has more of the file before it has come into its cluster along a
\* chain that is sound so far.
Passed ==
  opened # Nothing /\ file.pos < file.size /\ ~failed =>
    SoundUpTo(file.pos \div ClusterBytes)

\* The inductive invariant.
IInv ==
  /\ TypeOK /\ MountedFits /\ OfOpen /\ InRead
  /\ Cursor /\ DeliversFile /\ Stopped /\ FailsOnlyAtTheEnd
  /\ Passed /\ StopsAtBreak

-----------------------------------------------------------------------------
\* Numbers

\* A set of naturals that is not empty has a least element.  This stands for
\* induction: a set of counterexamples is shown to have no least one.
LEMMA LeastNat ==
  ASSUME NEW S \in SUBSET Nat, S # {}
  PROVE  \E m \in S : \A k \in S : m <= k
<1> DEFINE R == OpToRel(<, Nat)
<1>1. IsWellFoundedOn(R, Nat)
  BY NatLessThanWellFounded
<1>2. \A x \in Nat, y \in Nat : x < y => <<x, y>> \in R
  BY Zenon DEF OpToRel
<1> HIDE DEF R
<1>3. PICK x \in S : \A y \in S : ~ (<<y, x>> \in R)
  BY <1>1, WFMin
<1>4. ASSUME NEW k \in S PROVE x <= k
  <2>1. ~ (<<k, x>> \in R) /\ k \in Nat /\ x \in Nat
    BY <1>3
  <2>2. ~ (k < x)
    BY <1>2, <2>1
  <2> QED BY <2>1, <2>2
<1> QED BY <1>3, <1>4

LEMMA DivModFact ==
  ASSUME NEW d \in Nat \ {0}, NEW x \in Nat
  PROVE  /\ x \div d \in Nat /\ x % d \in 0 .. d - 1
         /\ x = (x \div d) * d + (x % d)
OBVIOUS

LEMMA DivMul ==
  ASSUME NEW d \in Nat \ {0}, NEW x \in Nat
  PROVE  x \div d \in Nat /\ (x \div d) * d \in Nat /\ (x \div d) * d <= x
<1> DEFINE q == x \div d
           r == x % d
           p == q * d
<1>1. q \in Nat /\ r \in Nat /\ x = p + r
  BY DivModFact
<1>2. p \in Nat
  BY <1>1
<1> HIDE DEF q, r, p
<1>3. p <= x
  BY <1>1, <1>2
<1> QED BY <1>1, <1>2, <1>3 DEF p, q

\* Dividing by a product is dividing twice.
LEMMA DivTwice ==
  ASSUME NEW S \in Nat \ {0}, NEW K \in Nat \ {0}, NEW x \in Nat
  PROVE  /\ x \div (K * S) = (x \div S) \div K
         /\ (x % (K * S)) \div S = (x \div S) % K
<1> DEFINE q == x \div S
           r == x % S
           a == q \div K
           b == q % K
           P == K * S
<1>1. q \in Nat /\ r \in 0 .. S - 1 /\ x = q * S + r
  BY DivModFact
<1>2. a \in Nat /\ b \in 0 .. K - 1 /\ q = a * K + b
  BY <1>1, DivModFact
<1> HIDE DEF q, r, a, b
<1>3. P \in Nat \ {0}
  OBVIOUS
<1> DEFINE t == b * S + r
<1>4. x = a * P + t
  BY <1>1, <1>2
<1>5. t \in 0 .. P - 1
  <2>1. b * S <= (K - 1) * S
    BY <1>2
  <2>2. (K - 1) * S = K * S - S
    OBVIOUS
  <2> QED BY <1>1, <1>2, <2>1, <2>2
<1>6. t \div S = b
  BY <1>1, <1>2
<1> HIDE DEF P, t
<1>7. x \div P = a /\ x % P = t
  BY <1>2, <1>3, <1>4, <1>5
<1> QED BY <1>6, <1>7 DEF q, a, b, P

\* Going on inside a unit, and to the beginning of the next.
LEMMA DivModNext ==
  ASSUME NEW d \in Nat \ {0}, NEW x \in Nat, NEW n \in Nat, n <= d - (x % d)
  PROVE  /\ n < d - (x % d) => (x + n) \div d = x \div d /\ (x + n) % d = (x % d) + n
         /\ n = d - (x % d) => (x + n) \div d = (x \div d) + 1 /\ (x + n) % d = 0
<1> DEFINE q == x \div d
           r == x % d
<1>1. q \in Nat /\ r \in 0 .. d - 1 /\ x = q * d + r
  BY DivModFact
<1> HIDE DEF q, r
<1>2. CASE n < d - r
  <2> DEFINE y == x + n
             t == r + n
  <2>1. y = q * d + t /\ t \in 0 .. d - 1
    BY <1>1, <1>2
  <2> HIDE DEF y, t
  <2>2. y \div d = q /\ y % d = t
    BY <1>1, <2>1
  <2> USE DEF y, t
  <2> QED BY <1>1, <1>2, <2>2 DEF q, r
<1>3. CASE n = d - r
  <2> DEFINE y == x + n
             t == q + 1
  <2>1. y = t * d /\ t \in Int
    BY <1>1, <1>3
  <2> HIDE DEF y, t
  <2>2. y \div d = t /\ y % d = 0
    BY <2>1
  <2> USE DEF y, t
  <2> QED BY <1>1, <1>3, <2>2 DEF q, r
<1> QED BY <1>1, <1>2, <1>3 DEF q, r

-----------------------------------------------------------------------------
\* Constants and volumes

LEMMA ConstantFact ==
  /\ SectorSize \in Nat \ {0} /\ DirentSize \in Nat \ {0}
  /\ MaxClust \in Nat /\ WordSpace \in Nat \ {0}
  /\ PerSector \in Nat
  /\ \A sz \in Request : sz \in Nat
BY FatFsAssumption DEF PerSector

LEMMA WidthFact ==
  /\ \A x \in Half : x \in Nat /\ x < 65536
  /\ \A x \in Nat : x < 65536 => x \in Half
  /\ \A x \in Byte : x \in Nat /\ x < 256
BY DEF Unsigned, Half, Byte

LEMMA EntryRange ==
  ASSUME NEW c, volume \in Volumes
  PROVE  Entry(volume.fat, c) \in Nat /\ Entry(volume.fat, c) < 4096
<1>1. volume \in [bpb : Bpb, fat : Seq(Unsigned(4096)), dir : Seq(Dirent)]
  BY VolumeAssumption
<1>2. volume.fat \in Seq(Unsigned(4096)) /\ 0 \in Unsigned(4096)
  BY <1>1 DEF Unsigned
<1>3. Entry(volume.fat, c) \in Unsigned(4096)
  BY <1>2 DEF Entry
<1> QED BY <1>3 DEF Unsigned

LEMMA VolumeFact ==
  ASSUME volume \in Volumes
  PROVE  /\ volume.bpb.rsvdsect \in Nat /\ volume.bpb.fat_num \in Nat
         /\ volume.bpb.fatsect \in Nat /\ volume.bpb.rootent \in Nat
         /\ volume.bpb.fattotsect \in Nat
         /\ SectPerClust \in Nat /\ SectPerClust <= 255
         /\ volume.dir \in Seq(Dirent)
         /\ volume.dir # <<>> => SectPerClust > 0
<1>1. volume \in [bpb : Bpb, fat : Seq(Unsigned(4096)), dir : Seq(Dirent)]
  BY VolumeAssumption
<1>2. volume.dir # <<>> => volume.bpb.sectperclust > 0
  BY VolumeAssumption
<1>3. volume.bpb \in Bpb /\ volume.fat \in Seq(Unsigned(4096)) /\ volume.dir \in Seq(Dirent)
  BY <1>1
<1>5. /\ volume.bpb.rsvdsect \in Half /\ volume.bpb.fat_num \in Byte
      /\ volume.bpb.fatsect \in Half /\ volume.bpb.rootent \in Half
      /\ volume.bpb.fattotsect \in Half /\ volume.bpb.sectperclust \in Byte
  BY <1>3 DEF Bpb
<1>6. SectPerClust \in Byte /\ (volume.dir # <<>> => SectPerClust > 0)
  BY <1>2, <1>5 DEF SectPerClust
<1>7. SectPerClust \in Nat /\ SectPerClust <= 255
  <2>1. SectPerClust \in Nat /\ SectPerClust < 256
    BY <1>6, WidthFact
  <2> QED BY <2>1
<1>8. /\ volume.bpb.rsvdsect \in Nat /\ volume.bpb.fat_num \in Nat
      /\ volume.bpb.fatsect \in Nat /\ volume.bpb.rootent \in Nat
      /\ volume.bpb.fattotsect \in Nat
  <2>1. (\A x \in Half : x \in Nat) /\ (\A x \in Byte : x \in Nat)
    BY WidthFact
  <2> QED BY <1>5, <2>1, Zenon
<1> QED BY <1>3, <1>6, <1>7, <1>8

LEMMA GeometryFact ==
  ASSUME volume \in Volumes
  PROVE  /\ RootDirSect \in Nat /\ FatSectNum \in Nat /\ FatOff \in Nat
         /\ DataOff \in Nat /\ DataSectNum \in 0 .. WordSpace - 1 /\ ClustNum \in Nat
         /\ \A c \in Int : SectOfClust(c) \in Int
<1>1. /\ volume.bpb.rsvdsect \in Nat /\ volume.bpb.fat_num \in Nat
      /\ volume.bpb.fatsect \in Nat /\ volume.bpb.rootent \in Nat
      /\ volume.bpb.fattotsect \in Nat
      /\ SectPerClust \in Nat /\ SectPerClust <= 255
  BY VolumeFact
<1>2. RootDirSect \in Nat
  BY <1>1, ConstantFact DEF RootDirSect
<1>3. FatSectNum \in Nat /\ FatOff \in Nat /\ DataOff \in Nat
  BY <1>1, <1>2 DEF FatSectNum, FatOff, RootDirOff, DataOff
<1>4. DataSectNum \in 0 .. WordSpace - 1
  BY <1>1, <1>3, ConstantFact DEF DataSectNum
<1>5. ClustNum \in Nat
  BY <1>1, <1>4, ConstantFact DEF ClustNum
<1> QED BY <1>1, <1>2, <1>3, <1>4, <1>5 DEF SectOfClust

-----------------------------------------------------------------------------
\* Chains of clusters

\* A function that follows a chain up to its n-th cluster.
IsChain(g, t, c, n) == g = [i \in 0 .. n |-> IF i = 0 THEN c ELSE Entry(t, g[i - 1])]

LEMMA ChainValues ==
  ASSUME NEW g, NEW t, NEW c, NEW n \in Nat, IsChain(g, t, c, n)
  PROVE  g[0] = c /\ \A i \in 0 .. n : i > 0 => g[i] = Entry(t, g[i - 1])
<1>1. \A i \in 0 .. n : g[i] = IF i = 0 THEN c ELSE Entry(t, g[i - 1])
  BY DEF IsChain
<1> QED BY <1>1

\* There is such a function for every chain and every n.
LEMMA ChainExists == \A t, c : \A n \in Nat : \E g : IsChain(g, t, c, n)
<1> TAKE t, c
<1> DEFINE Bad == {n \in Nat : ~ \E g : IsChain(g, t, c, n)}
<1>1. SUFFICES ASSUME Bad # {} PROVE FALSE
  OBVIOUS
<1>2. PICK n \in Bad : \A k \in Bad : n <= k
  BY <1>1, LeastNat
<1>3. n \in Nat /\ ~ \E g : IsChain(g, t, c, n)
  BY <1>2
<1>4. CASE n = 0
  <2>1. IsChain([i \in 0 .. 0 |-> c], t, c, 0)
    BY DEF IsChain
  <2> QED BY <1>3, <1>4, <2>1
<1>5. CASE n # 0
  <2>1. n - 1 \in Nat /\ ~ (n <= n - 1)
    BY <1>3, <1>5
  <2>2. PICK g : IsChain(g, t, c, n - 1)
    BY <1>2, <2>1
  <2> DEFINE h == [i \in 0 .. n |-> IF i = n THEN Entry(t, g[n - 1]) ELSE g[i]]
  <2>3. \A i \in 0 .. n - 1 : g[i] = IF i = 0 THEN c ELSE Entry(t, g[i - 1])
    BY <2>1, <2>2 DEF IsChain
  <2>4. ASSUME NEW i \in 0 .. n
        PROVE  h[i] = IF i = 0 THEN c ELSE Entry(t, h[i - 1])
    <3>1. CASE i = n
      <4>1. h[n - 1] = g[n - 1]
        BY <1>3, <1>5
      <4> QED BY <1>3, <1>5, <3>1, <4>1
    <3>2. CASE i # n
      <4>1. i \in 0 .. n - 1 /\ h[i] = g[i]
        BY <1>3, <3>2
      <4>2. i # 0 => h[i - 1] = g[i - 1]
        BY <1>3, <4>1
      <4> QED BY <2>3, <4>1, <4>2
    <3> QED BY <3>1, <3>2
  <2>5. h = [i \in 0 .. n |-> IF i = 0 THEN c ELSE Entry(t, h[i - 1])]
    <3> DEFINE r == [i \in 0 .. n |-> IF i = 0 THEN c ELSE Entry(t, h[i - 1])]
    <3>1. \A i \in 0 .. n : h[i] = r[i]
      <4> HIDE DEF h
      <4> QED BY <2>4
    <3> QED BY <3>1
  <2>6. IsChain(h, t, c, n)
    <3> HIDE DEF h
    <3> QED BY <2>5 DEF IsChain
  <2> QED BY <1>3, <2>6
<1> QED BY <1>4, <1>5

\* Two of them agree as far as both go.
LEMMA ChainsAgree ==
  ASSUME NEW t, NEW c, NEW m \in Nat, NEW n \in Nat, NEW g, NEW h, IsChain(g, t, c, m), IsChain(h, t, c, n)
  PROVE  \A k \in Nat : k <= m /\ k <= n => g[k] = h[k]
<1> DEFINE Bad == {k \in Nat : k <= m /\ k <= n /\ g[k] # h[k]}
<1>1. SUFFICES ASSUME Bad # {} PROVE FALSE
  OBVIOUS
<1>2. PICK k \in Bad : \A j \in Bad : k <= j
  BY <1>1, LeastNat
<1>3. k \in Nat /\ k <= m /\ k <= n /\ g[k] # h[k]
  BY <1>2
<1>4. k # 0
  BY <1>3, ChainValues
<1>5. k - 1 \in Nat /\ ~ (k <= k - 1) /\ k - 1 <= m /\ k - 1 <= n
  BY <1>3, <1>4
<1>6. g[k - 1] = h[k - 1]
  BY <1>2, <1>5
<1>7. k \in 0 .. m /\ k \in 0 .. n /\ k > 0
  BY <1>3, <1>4
<1>8. g[k] = Entry(t, g[k - 1]) /\ h[k] = Entry(t, h[k - 1])
  BY <1>7, ChainValues
<1> QED BY <1>3, <1>6, <1>8

LEMMA FollowDefined ==
  ASSUME NEW t, NEW c, NEW k \in Nat
  PROVE  \E g : IsChain(g, t, c, k) /\ Follow(t, c, k) = g[k]
<1> DEFINE g == CHOOSE f : IsChain(f, t, c, k)
<1>1. IsChain(g, t, c, k)
  BY ChainExists
<1>2. Follow(t, c, k) = g[k]
  BY DEF Follow, IsChain
<1> QED BY <1>1, <1>2

\* What the recursion of the reference says.
LEMMA FollowFact ==
  ASSUME NEW t, NEW c
  PROVE  Follow(t, c, 0) = c /\ \A k \in Nat : Follow(t, c, k + 1) = Entry(t, Follow(t, c, k))
<1>1. Follow(t, c, 0) = c
  <2>1. PICK g : IsChain(g, t, c, 0) /\ Follow(t, c, 0) = g[0]
    BY FollowDefined
  <2> QED BY <2>1, ChainValues
<1>2. ASSUME NEW k \in Nat PROVE Follow(t, c, k + 1) = Entry(t, Follow(t, c, k))
  <2>1. PICK g : IsChain(g, t, c, k) /\ Follow(t, c, k) = g[k]
    BY FollowDefined
  <2>2. k + 1 \in Nat /\ k + 1 \in 0 .. k + 1 /\ k + 1 > 0 /\ (k + 1) - 1 = k /\ k <= k + 1
    OBVIOUS
  <2>3. PICK h : IsChain(h, t, c, k + 1) /\ Follow(t, c, k + 1) = h[k + 1]
    BY <2>2, FollowDefined
  <2>4. h[k + 1] = Entry(t, h[k])
    BY <2>2, <2>3, ChainValues
  <2>5. g[k] = h[k]
    BY <2>1, <2>2, <2>3, ChainsAgree
  <2> QED BY <2>1, <2>3, <2>4, <2>5
<1> QED BY <1>1, <1>2

-----------------------------------------------------------------------------
\* The FAT is read as it is meant

LEMMA ByteOfFat ==
  ASSUME NEW f \in Nat, FatOff \in Nat
  PROVE  FatByte(FatOff + f \div SectorSize, f % SectorSize) = Nibble(2 * f) + 16 * Nibble(2 * f + 1)
<1> DEFINE q == f \div SectorSize
           r == f % SectorSize
<1>1. q \in Nat /\ r \in Nat /\ f = q * SectorSize + r
  BY ConstantFact, DivModFact
<1> HIDE DEF q, r
<1>2. ((FatOff + q) - FatOff) * SectorSize + r = f
  BY <1>1, ConstantFact
<1>3. FatByte(FatOff + q, r) = Nibble(2 * f) + 16 * Nibble(2 * f + 1)
  BY <1>2 DEF FatByte
<1> QED BY <1>3 DEF q, r

\* The three nibbles of an entry.
LEMMA NibblesOfEntry ==
  ASSUME NEW c \in Nat, Entry(volume.fat, c) \in Nat, Entry(volume.fat, c) < 4096
  PROVE  /\ Nibble(3 * c) = Entry(volume.fat, c) % 16
         /\ Nibble(3 * c + 1) = (Entry(volume.fat, c) \div 16) % 16
         /\ Nibble(3 * c + 2) = (Entry(volume.fat, c) \div 256) % 16
<1>1. /\ (3 * c) \div 3 = c /\ (3 * c) % 3 = 0
      /\ (3 * c + 1) \div 3 = c /\ (3 * c + 1) % 3 = 1
      /\ (3 * c + 2) \div 3 = c /\ (3 * c + 2) % 3 = 2
  OBVIOUS
<1>2. /\ << 1, 16, 256 >>[1 + 0] = 1
      /\ << 1, 16, 256 >>[1 + 1] = 16
      /\ << 1, 16, 256 >>[1 + 2] = 256
  OBVIOUS
<1>3. Entry(volume.fat, c) \div 1 = Entry(volume.fat, c)
  OBVIOUS
<1>4. Nibble(3 * c) = Entry(volume.fat, c) % 16
  BY <1>1, <1>2, <1>3 DEF Nibble
<1>5. Nibble(3 * c + 1) = (Entry(volume.fat, c) \div 16) % 16
  BY <1>1, <1>2 DEF Nibble
<1>6. Nibble(3 * c + 2) = (Entry(volume.fat, c) \div 256) % 16
  BY <1>1, <1>2 DEF Nibble
<1> QED BY <1>4, <1>5, <1>6

LEMMA NibbleRange ==
  ASSUME NEW n \in Nat, volume \in Volumes
  PROVE  Nibble(n) \in 0 .. 15
<1>1. n \div 3 \in Nat /\ 1 + (n % 3) \in 1 .. 3
  OBVIOUS
<1>2. << 1, 16, 256 >>[1 + (n % 3)] \in {1, 16, 256}
  BY <1>1
<1>3. Entry(volume.fat, n \div 3) \in Nat
  BY EntryRange
<1>4. Entry(volume.fat, n \div 3) \div << 1, 16, 256 >>[1 + (n % 3)] \in Nat
  BY <1>2, <1>3
<1> QED BY <1>4 DEF Nibble

\* __fatfs_get_cluster returns the entry, wherever it lies in its two bytes and
\* whether or not the bytes are in one sector; the numbers 0 and 1, which are no
\* clusters, it refuses, unless the volume has so few that they pass its test.
LEMMA EntryIsRead ==
  ASSUME NEW c \in Nat, volume \in Volumes
  PROVE  FatfsGetCluster(c) =
           IF c < 2 /\ c < ClustNum THEN EINVAL ELSE Entry(volume.fat, c)
<1> DEFINE e == Entry(volume.fat, c)
           f == (c * 3) \div 2
           word == FatWord(c)
           a == Nibble(2 * f)
           b == Nibble(2 * f + 1)
           g == Nibble(2 * f + 2)
           h == Nibble(2 * f + 3)
<1>1. e \in Nat /\ e < 4096
  BY EntryRange
<1>2. f \in Nat
  OBVIOUS
<1>3. a \in 0 .. 15 /\ b \in 0 .. 15 /\ g \in 0 .. 15 /\ h \in 0 .. 15
  <2>1. 2 * f \in Nat /\ 2 * f + 1 \in Nat /\ 2 * f + 2 \in Nat /\ 2 * f + 3 \in Nat
    BY <1>2
  <2> QED BY <2>1, NibbleRange
<1>4. word = a + 16 * b + 256 * g + 4096 * h
  <2>1. FatOff \in Nat /\ f + 1 \in Nat
    BY <1>2, GeometryFact
  <2>2. FatByte(FatOff + f \div SectorSize, f % SectorSize) = a + 16 * b
    BY <1>2, <2>1, ByteOfFat
  <2>3. FatByte(FatOff + (f + 1) \div SectorSize, (f + 1) % SectorSize)
          = Nibble(2 * (f + 1)) + 16 * Nibble(2 * (f + 1) + 1)
    BY <2>1, ByteOfFat
  <2>4. 2 * (f + 1) = 2 * f + 2 /\ 2 * (f + 1) + 1 = 2 * f + 3
    BY <1>2
  <2>5. FatByte(FatOff + (f + 1) \div SectorSize, (f + 1) % SectorSize) = g + 16 * h
    BY <2>3, <2>4
  <2>6. word = FatByte(FatOff + f \div SectorSize, f % SectorSize) + 256 *
               FatByte(FatOff + (f + 1) \div SectorSize, (f + 1) % SectorSize)
    BY Zenon DEF FatWord
  <2> HIDE DEF f, a, b, g, h, word
  <2> QED BY <1>3, <2>2, <2>5, <2>6
<1>5. /\ Nibble(3 * c) = e % 16 /\ Nibble(3 * c + 1) = (e \div 16) % 16
      /\ Nibble(3 * c + 2) = (e \div 256) % 16
  BY <1>1, NibblesOfEntry
<1>6. FatfsGetCluster(c) =
        IF c < 2 /\ c < ClustNum THEN EINVAL
        ELSE IF c % 2 = 0 THEN word % 4096 ELSE word \div 16
  BY Zenon DEF FatfsGetCluster
<1>7. c % 2 = 0 => word % 4096 = e
  <2> SUFFICES ASSUME c % 2 = 0 PROVE word % 4096 = e
    OBVIOUS
  <2>1. 2 * f = 3 * c /\ 2 * f + 1 = 3 * c + 1 /\ 2 * f + 2 = 3 * c + 2
    OBVIOUS
  <2>2. a = e % 16 /\ b = (e \div 16) % 16 /\ g = (e \div 256) % 16
    BY <1>5, <2>1
  <2> HIDE DEF e, f, a, b, g, h, word
  <2>3. word % 4096 = a + 16 * b + 256 * g
    BY <1>3, <1>4
  <2>4. a + 16 * b + 256 * g = e
    BY <1>1, <2>2
  <2> QED BY <2>3, <2>4
<1>8. c % 2 # 0 => word \div 16 = e
  <2> SUFFICES ASSUME c % 2 # 0 PROVE word \div 16 = e
    OBVIOUS
  <2>1. 2 * f + 1 = 3 * c /\ 2 * f + 2 = 3 * c + 1 /\ 2 * f + 3 = 3 * c + 2
    OBVIOUS
  <2>2. b = e % 16 /\ g = (e \div 16) % 16 /\ h = (e \div 256) % 16
    BY <1>5, <2>1
  <2> HIDE DEF e, f, a, b, g, h, word
  <2>3. word \div 16 = b + 16 * g + 256 * h
    BY <1>3, <1>4
  <2>4. b + 16 * g + 256 * h = e
    BY <1>1, <2>2
  <2> QED BY <2>3, <2>4
<1> HIDE DEF e, f, word
<1>9. (IF c % 2 = 0 THEN word % 4096 ELSE word \div 16) = e
  BY <1>7, <1>8
<1>10. CASE c < 2 /\ c < ClustNum
  BY <1>6, <1>10, Zenon
<1>11. CASE ~(c < 2 /\ c < ClustNum)
  <2>1. FatfsGetCluster(c) = IF c % 2 = 0 THEN word % 4096 ELSE word \div 16
    BY <1>6, <1>11, Zenon
  <2>2. FatfsGetCluster(c) = e
    BY <1>9, <2>1, Zenon
  <2> QED BY <1>11, <2>2, Zenon DEF e
<1> QED BY <1>10, <1>11

-----------------------------------------------------------------------------
\* Where the bytes of a file are, and what a piece is of them

LEMMA FileByteFact ==
  ASSUME SectPerClust \in Nat \ {0}, NEW n \in Nat
  PROVE  /\ n \div ClusterBytes = (n \div SectorSize) \div SectPerClust
         /\ FileByte(n) = <<SectOfClust(ChainCluster((n \div SectorSize) \div SectPerClust))
                              + ((n \div SectorSize) % SectPerClust), n % SectorSize>>
<1>1. /\ n \div ClusterBytes = (n \div SectorSize) \div SectPerClust
      /\ (n % ClusterBytes) \div SectorSize = (n \div SectorSize) % SectPerClust
  BY ConstantFact, DivTwice DEF ClusterBytes
<1>2. FileByte(n) = <<SectOfClust(ChainCluster(n \div ClusterBytes))
                        + ((n % ClusterBytes) \div SectorSize), n % SectorSize>>
  BY Zenon DEF FileByte
<1> QED BY <1>1, <1>2

\* n more bytes from a position are n more from the beginning of its sector.
LEMMA FromSector ==
  ASSUME NEW d \in Nat \ {0}, NEW x \in Nat, NEW n \in Nat
  PROVE  /\ (x + n) \div d = (x \div d) + ((x % d) + n) \div d
         /\ (x + n) % d = ((x % d) + n) % d
<1> DEFINE q == x \div d
           t == (x % d) + n
           u == t \div d
           v == t % d
           y == x + n
           w == q + u
<1>1. q \in Nat /\ t \in Nat /\ x + n = q * d + t
  BY DivModFact
<1>2. u \in Nat /\ v \in 0 .. d - 1 /\ t = u * d + v
  BY <1>1, DivModFact
<1> HIDE DEF q, t, u, v, y
<1>3. y = w * d + v /\ w \in Int
  BY <1>1, <1>2 DEF y
<1> HIDE DEF w
<1>4. y \div d = w /\ y % d = v
  BY <1>2, <1>3
<1> QED BY <1>4 DEF q, t, u, v, y, w

LEMMA PieceBound ==
  ASSUME file.pos \in Nat, left \in Nat, file.sectsinclust \in Nat
  PROVE  Piece.bytes \in 0 .. left /\ Piece.sectors \in Nat
<1> DEFINE l == left \div SectorSize
<1>1. l \in Nat /\ l * SectorSize <= left
  BY ConstantFact, DivMul
<1>2. file.pos % SectorSize \in 0 .. SectorSize - 1
  BY ConstantFact, DivModFact
<1> HIDE DEF l
<1>3. CASE WholeSectors
  <2>1. Sectors \in Nat /\ Sectors <= l
    BY <1>1 DEF Sectors, l
  <2>2. Sectors * SectorSize \in Nat /\ Sectors * SectorSize <= l * SectorSize
    BY <1>1, <2>1, ConstantFact
  <2>3. Piece.bytes = Sectors * SectorSize /\ Piece.sectors = Sectors
    BY <1>3 DEF Piece
  <2>4. l * SectorSize \in Nat
    BY <1>1, ConstantFact
  <2> DEFINE p == Sectors * SectorSize
             r == l * SectorSize
  <2> HIDE DEF p, r
  <2>5. p \in 0 .. left
    BY <1>1, <2>2, <2>4 DEF p, r
  <2> QED BY <2>1, <2>3, <2>5 DEF p
<1>4. CASE ~WholeSectors
  <2>1. SectorRest \in Nat
    BY <1>2, ConstantFact DEF SectorRest
  <2> QED BY <1>4, <2>1 DEF Piece
<1> QED BY <1>3, <1>4

\* A piece ends in the sector that its count says, and no byte of it lies behind
\* the cluster.
LEMMA PieceFact ==
  ASSUME file.pos \in Nat, left \in Nat, file.sectsinclust \in Nat \ {0}
  PROVE  /\ Piece.sectors \in 0 .. file.sectsinclust
         /\ (file.pos + Piece.bytes) \div SectorSize = (file.pos \div SectorSize) + Piece.sectors
         /\ \A n \in Nat : n < Piece.bytes =>
              ((file.pos % SectorSize) + n) \div SectorSize \in 0 .. file.sectsinclust - 1
<1> DEFINE r == file.pos % SectorSize
           q == file.pos \div SectorSize
           l == left \div SectorSize
           x == file.pos
<1>0. SectorSize \in Nat \ {0}
  BY ConstantFact
<1>1. q \in Nat /\ r \in 0 .. SectorSize - 1 /\ x = q * SectorSize + r
  BY <1>0, DivModFact
<1>2. l \in Nat
  BY <1>0, DivModFact
<1>3. CASE WholeSectors
  <2>1. r = 0 /\ l > 0
    BY <1>3 DEF WholeSectors
  <2>2. Sectors \in 0 .. file.sectsinclust /\ Sectors \in Nat
    BY <1>2 DEF Sectors
  <2>3. Piece.bytes = Sectors * SectorSize /\ Piece.sectors = Sectors
    BY <1>3 DEF Piece
  <2> HIDE DEF r, q, l, x
  <2>4. (x + Sectors * SectorSize) \div SectorSize = q + Sectors
    <3> DEFINE y == x + Sectors * SectorSize
               w == q + Sectors
    <3>1. y = w * SectorSize /\ w \in Nat
      BY <1>0, <1>1, <2>1, <2>2
    <3> HIDE DEF y, w
    <3>2. y \div SectorSize = w
      BY <1>0, <3>1
    <3> QED BY <3>2 DEF y, w
  <2>5. ASSUME NEW n \in Nat, n < Sectors * SectorSize
        PROVE  (r + n) \div SectorSize \in 0 .. file.sectsinclust - 1
    <3> DEFINE m == n \div SectorSize
               p == m * SectorSize
    <3>1. m \in Nat /\ p <= n /\ p \in Nat
      BY <1>0, DivMul
    <3> HIDE DEF m
    <3>2. m < Sectors
      <4>1. SUFFICES ASSUME Sectors <= m PROVE FALSE
        BY <2>2, <3>1
      <4>2. Sectors * SectorSize <= m * SectorSize
        BY <1>0, <2>2, <3>1, <4>1
      <4> HIDE DEF p
      <4>3. Sectors * SectorSize \in Nat
        BY <1>0, <2>2
      <4> QED BY <2>5, <3>1, <4>2, <4>3 DEF p
    <3>3. r + n = n
      BY <2>1
    <3> QED BY <2>2, <3>1, <3>2, <3>3 DEF m
  <2> QED BY <2>2, <2>3, <2>4, <2>5 DEF r, q, x
<1>4. CASE ~WholeSectors
  <2>1. SectorRest = SectorSize - r /\ SectorRest \in 1 .. SectorSize
    BY <1>0, <1>1 DEF SectorRest
  <2>2. ASSUME NEW n \in Nat, r + n < SectorSize
        PROVE  (r + n) \div SectorSize \in 0 .. file.sectsinclust - 1
    <3> DEFINE t == r + n
    <3> HIDE DEF r
    <3>1. t \in 0 .. SectorSize - 1
      BY <1>0, <1>1, <2>2
    <3> HIDE DEF t
    <3>2. t \div SectorSize = 0
      BY <1>0, <3>1
    <3> QED BY <3>2 DEF t
  <2>3. CASE SectorRest > left
    <3>1. Piece.bytes = left /\ Piece.sectors = 0
      BY <1>4, <2>3 DEF Piece
    <3>2. left < SectorSize - r /\ left <= SectorSize - r
      BY <1>0, <1>1, <2>1, <2>3
    <3>3. (x + left) \div SectorSize = q
      BY <1>0, <3>2, DivModNext
    <3>4. \A n \in Nat : n < left => r + n < SectorSize
      BY <1>0, <1>1, <3>2
    <3> QED BY <1>1, <2>2, <3>1, <3>3, <3>4
  <2>4. CASE ~(SectorRest > left)
    <3>1. Piece.bytes = SectorRest /\ Piece.sectors = 1
      BY <1>4, <2>4 DEF Piece
    <3>2. SectorRest \in Nat /\ SectorRest = SectorSize - r /\ SectorRest <= SectorSize - r
      BY <2>1
    <3>3. (x + SectorRest) \div SectorSize = q + 1
      BY <1>0, <3>2, DivModNext
    <3>4. \A n \in Nat : n < SectorRest => r + n < SectorSize
      BY <1>0, <1>1, <3>2
    <3> QED BY <1>1, <2>2, <3>1, <3>3, <3>4
  <2> QED BY <2>3, <2>4
<1> QED BY <1>3, <1>4

-----------------------------------------------------------------------------
\* What a step leaves as it is

LEMMA SameVolume ==
  ASSUME volume' = volume
  PROVE  /\ SectPerClust' = SectPerClust /\ DataOff' = DataOff
         /\ ClustNum' = ClustNum /\ ClusterBytes' = ClusterBytes
         /\ \A c : SectOfClust(c)' = SectOfClust(c)
<1>1. SectPerClust' = SectPerClust /\ DataOff' = DataOff
  BY DEF SectPerClust, DataOff, RootDirOff, FatOff, FatSectNum, RootDirSect
<1>2. ClustNum' = ClustNum
  BY <1>1 DEF ClustNum, DataSectNum
<1>3. \A c : SectOfClust(c)' = SectOfClust(c)
  BY <1>1 DEF SectOfClust
<1> QED BY <1>1, <1>2, <1>3 DEF ClusterBytes

LEMMA SameFile ==
  ASSUME volume' = volume, opened' = opened
  PROVE  /\ \A n : ChainCluster(n)' = ChainCluster(n)
         /\ \A n : FileByte(n)' = FileByte(n)
         /\ GoodFile' => GoodFile
         /\ \A n : SoundUpTo(n)' <=> SoundUpTo(n)
<1>1. \A n : ChainCluster(n)' = ChainCluster(n)
  BY DEF ChainCluster
<1>2. \A n : FileByte(n)' = FileByte(n)
  BY <1>1, SameVolume DEF FileByte
<1>3. GoodFile' => GoodFile
  BY <1>1, SameVolume DEF GoodFile
<1>4. \A n : SoundUpTo(n)' <=> SoundUpTo(n)
  BY <1>1, SameVolume DEF SoundUpTo
<1> QED BY <1>1, <1>2, <1>3, <1>4

\* What a chain has led through stays what it was while the position does.
LEMMA SamePlace ==
  ASSUME Passed, StopsAtBreak, volume' = volume, opened' = opened, failed' = failed,
         file'.pos = file.pos, file'.size = file.size
  PROVE  Passed' /\ StopsAtBreak'
BY SameVolume, SameFile DEF Passed, StopsAtBreak

LEMMA SameFits ==
  ASSUME MountedFits, volume' = volume, mounted' = mounted
  PROVE  MountedFits'
BY SameVolume DEF MountedFits

-----------------------------------------------------------------------------
\* What the invariant says of a state

FileType ==
  [ currclust : Nat, pos : Nat, size : Nat, currsect : Int, sectsinclust : Half ]

LEMMA TypeFact ==
  ASSUME TypeOK
  PROVE  /\ volume \in Volumes /\ opened \in Dirent
         /\ file \in FileType
         /\ file.currclust \in Nat /\ file.pos \in Nat /\ file.size \in Nat
         /\ file.currsect \in Int /\ file.sectsinclust \in Nat /\ file.sectsinclust \in Half
         /\ file.pos <= file.size
         /\ left \in Nat /\ from \in Nat /\ out \in Seq(Int \X Nat)
<1>1. file \in FileType
  BY DEF TypeOK, FileType
<1>2. /\ file.currclust \in Nat /\ file.pos \in Nat /\ file.size \in Nat
      /\ file.currsect \in Int /\ file.sectsinclust \in Half
  BY <1>1 DEF FileType
<1> QED BY <1>1, <1>2, WidthFact DEF TypeOK

\* A record is of the type of fs->file when its fields are.
LEMMA FileFields ==
  ASSUME NEW c \in Nat, NEW p \in Nat, NEW z \in Nat, NEW s \in Int, NEW n \in Half,
         NEW f, f = [currclust |-> c, pos |-> p, size |-> z, currsect |-> s, sectsinclust |-> n]
  PROVE  /\ f \in FileType
         /\ f.currclust = c /\ f.pos = p /\ f.size = z /\ f.currsect = s /\ f.sectsinclust = n
BY DEF FileType

LEMMA FileRecord ==
  ASSUME NEW f \in FileType
  PROVE  f = [ currclust |-> f.currclust, pos |-> f.pos, size |-> f.size,
               currsect |-> f.currsect, sectsinclust |-> f.sectsinclust ]
BY DEF FileType

LEMMA OpenFact ==
  ASSUME TypeOK, OfOpen, opened # Nothing
  PROVE  SectPerClust \in Nat \ {0} /\ SectPerClust <= 255
<1>1. volume \in Volumes
  BY TypeFact
<1>2. PICK k \in DOMAIN volume.dir : opened = volume.dir[k]
  BY DEF OfOpen
<1>3. volume.dir # <<>>
  BY <1>2
<1>4. SectPerClust \in Nat /\ SectPerClust <= 255 /\ SectPerClust > 0
  BY <1>1, <1>3, VolumeFact
<1> QED BY <1>4

\* fatfs_mount refuses what does not fit.
LEMMA SoundVolumeFits ==
  ASSUME volume \in Volumes, GetBpb = 0, SectPerClust # 0
  PROVE  DataOff <= volume.bpb.fattotsect /\ SectOfClust(ClustNum + 2) <= volume.bpb.fattotsect
<1> DEFINE T == volume.bpb.fattotsect
           D == DataOff
           d == SectPerClust
           a == volume.bpb.rsvdsect
           b == volume.bpb.fat_num * volume.bpb.fatsect
           e == volume.bpb.rootent * DirentSize
           m == (MaxClust + 1) * d
           n == DataSectNum
           c == ClustNum
           p == c * d
<1>1. /\ a \in Nat /\ b \in Nat /\ e \in Nat /\ T \in Nat /\ d \in Nat \ {0} /\ m \in Nat
      /\ D \in Nat /\ n \in Nat /\ c \in Nat /\ p \in Nat
  <2>1. a \in Nat /\ b \in Nat /\ e \in Nat /\ T \in Nat /\ d \in Nat \ {0}
    <3>1. /\ volume.bpb.rsvdsect \in Nat /\ volume.bpb.fat_num \in Nat
          /\ volume.bpb.fatsect \in Nat /\ volume.bpb.rootent \in Nat
          /\ volume.bpb.fattotsect \in Nat /\ SectPerClust \in Nat
      BY VolumeFact
    <3> QED BY <3>1, ConstantFact
  <2>2. D \in Nat /\ n \in Nat /\ c \in Nat
    BY GeometryFact
  <2> HIDE DEF d, c
  <2>3. m \in Nat /\ p \in Nat
    BY <2>1, <2>2, ConstantFact
  <2> QED BY <2>1, <2>2, <2>3
<1>2. a + b + e + SectorSize + m <= WordSpace
  BY WidthAssumption DEF SectPerClust
<1>3. RootDirSect <= e + SectorSize
  <2> DEFINE x == e + SectorSize - 1
  <2>1. x \in Nat
    BY <1>1, ConstantFact
  <2> HIDE DEF x
  <2>2. x \div SectorSize <= x
    BY <2>1, ConstantFact
  <2>3. RootDirSect = x \div SectorSize
    BY DEF RootDirSect, x
  <2> HIDE DEF e
  <2> QED BY <1>1, <2>1, <2>2, <2>3, ConstantFact DEF x
<1>4. D = a + b + RootDirSect /\ RootDirSect \in Nat
  BY GeometryFact DEF DataOff, RootDirOff, FatOff, FatSectNum
<1>5. n = (T - D) % WordSpace
  BY DEF DataSectNum
<1>6. c = n \div d
  BY <1>1 DEF ClustNum
<1>7. c <= MaxClust
  BY <1>1, ConstantFact DEF GetBpb
<1>8. SectOfClust(c + 2) = p + D
  BY <1>1 DEF SectOfClust
<1>9. p <= n
  BY <1>1, <1>6, DivMul
<1>10. n < m
  <2>1. n % d \in 0 .. d - 1 /\ n = (n \div d) * d + (n % d)
    BY <1>1, DivModFact
  <2>2. (c + 1) * d <= (MaxClust + 1) * d
    BY <1>1, <1>7, ConstantFact
  <2>3. (c + 1) * d = p + d
    BY <1>1
  <2> HIDE DEF n, d, p, c, m
  <2>4. n < p + d
    BY <1>1, <1>6, <2>1 DEF p
  <2> QED BY <1>1, <2>2, <2>3, <2>4 DEF m
<1> HIDE DEF T, D, d, a, b, e, m, n, c, p
<1>11. D + m <= WordSpace
  BY <1>1, <1>2, <1>3, <1>4, ConstantFact
<1>12. D <= T
  <2>1. SUFFICES ASSUME T < D PROVE FALSE
    BY <1>1
  <2>2. (T - D) + WordSpace \in 0 .. WordSpace - 1
    BY <1>1, <1>11, <2>1, ConstantFact
  <2>3. (T - D) % WordSpace = (T - D) + WordSpace
    BY <1>1, <2>2, ConstantFact
  <2> QED BY <1>1, <1>5, <1>10, <1>11, <2>3, ConstantFact
<1>13. n <= T - D
  BY <1>1, <1>5, <1>12, ConstantFact
<1>14. p + D <= T
  BY <1>1, <1>9, <1>13
<1> QED BY <1>8, <1>12, <1>14 DEF T, D, c

-----------------------------------------------------------------------------
\* The invariant holds at the start and after every step

LEMMA NothingIsDirent == Nothing \in Dirent
BY DEF Nothing, Dirent

LEMMA ClosedIsFile ==
  Closed \in FileType /\ Closed.pos = 0 /\ Closed.size = 0 /\ Closed.currclust = 0
BY WidthFact DEF Closed, FileType

LEMMA InitIInv == Init => IInv
<1> SUFFICES ASSUME Init PROVE IInv
  OBVIOUS
<1> USE DEF Init
<1>1. TypeOK
  <2>1. Closed \in FileType /\ Closed.pos <= Closed.size
    BY ClosedIsFile
  <2>2. <<>> \in Seq(Int \X Nat)
    OBVIOUS
  <2> QED BY <2>1, <2>2, NothingIsDirent DEF TypeOK, FileType
<1>2. MountedFits
  BY DEF MountedFits
<1>3. OfOpen /\ InRead /\ Cursor
  BY DEF OfOpen, InRead, Cursor
<1>4. DeliversFile
  BY DEF DeliversFile
<1>5. Stopped /\ FailsOnlyAtTheEnd /\ Passed /\ StopsAtBreak
  BY DEF Stopped, FailsOnlyAtTheEnd, Passed, StopsAtBreak, EINVAL
<1> QED BY <1>1, <1>2, <1>3, <1>4, <1>5 DEF IInv

LEMMA MountStep ==
  ASSUME IInv, Mount
  PROVE  IInv'
<1> USE DEF IInv, Mount
<1>0. volume \in Volumes
  BY TypeFact
<1>1. GetBpb \in {0, 1, 2}
  BY Zenon DEF GetBpb
<1>2. TypeOK'
  <2>1. mounted' \in BOOLEAN
    BY Zenon
  <2>2. ret' \in Nat
    BY <1>1
  <2> QED BY <2>1, <2>2 DEF TypeOK
<1>3. MountedFits'
  <2>1. mounted' /\ SectPerClust # 0 =>
          DataOff <= volume.bpb.fattotsect /\ SectOfClust(ClustNum + 2) <= volume.bpb.fattotsect
    BY <1>0, SoundVolumeFits
  <2> QED BY <2>1, SameVolume DEF MountedFits
<1>4. OfOpen' /\ InRead'
  BY DEF OfOpen, InRead
<1>5. Cursor'
  BY SameVolume, SameFile DEF Cursor, OnChain, Placed, SectorInCluster
<1>6. DeliversFile'
  BY SameFile DEF DeliversFile
<1>7. Stopped'
  BY SameVolume, SameFile DEF Stopped
<1>8. FailsOnlyAtTheEnd'
  BY <1>1 DEF FailsOnlyAtTheEnd, EINVAL
<1>9. Passed' /\ StopsAtBreak'
  BY SamePlace
<1> QED BY <1>2, <1>3, <1>4, <1>5, <1>6, <1>7, <1>8, <1>9

LEMMA CloseStep ==
  ASSUME IInv, Close
  PROVE  IInv'
<1> USE DEF IInv, Close
<1>1. TypeOK'
  <2>1. Closed \in FileType /\ Closed.pos <= Closed.size
    BY ClosedIsFile
  <2>2. <<>> \in Seq(Int \X Nat)
    OBVIOUS
  <2> QED BY <2>1, <2>2, NothingIsDirent DEF TypeOK, FileType
<1>2. MountedFits'
  BY SameFits
<1>3. OfOpen' /\ InRead' /\ Cursor'
  BY DEF OfOpen, InRead, Cursor
<1>4. DeliversFile'
  BY DEF DeliversFile
<1>5. Stopped' /\ FailsOnlyAtTheEnd' /\ Passed' /\ StopsAtBreak'
  BY DEF Stopped, FailsOnlyAtTheEnd, Passed, StopsAtBreak, EINVAL
<1> QED BY <1>1, <1>2, <1>3, <1>4, <1>5

\* The entry fatfs_open takes is one of the directory.
LEMMA FoundFact ==
  ASSUME volume \in Volumes, NEW name, name # <<>>, Found(name) # {},
         NEW entry, entry = Slot(CHOOSE k \in Found(name) : \A j \in Found(name) : k <= j)
  PROVE  entry # Nothing /\ entry \in Dirent /\ \E k \in DOMAIN volume.dir : entry = volume.dir[k]
<1>1. Found(name) \in SUBSET Nat
  BY ConstantFact DEF Found, Scanned
<1>2. \E k \in Found(name) : \A j \in Found(name) : k <= j
  BY <1>1, LeastNat
<1> DEFINE k == CHOOSE x \in Found(name) : \A j \in Found(name) : x <= j
<1>3. k \in Found(name)
  BY <1>2
<1>4. entry = Slot(k)
  OBVIOUS
<1> HIDE DEF k
<1>5. k \in Nat /\ entry.name = name
  BY <1>1, <1>3, <1>4 DEF Found
<1>6. Nothing.name = <<>>
  BY DEF Nothing
<1>7. entry # Nothing
  BY <1>5, <1>6
<1>8. k < Len(volume.dir) /\ entry = volume.dir[k + 1]
  BY <1>4, <1>7 DEF Slot
<1>9. volume.dir \in Seq(Dirent)
  BY VolumeFact
<1>10. k + 1 \in DOMAIN volume.dir
  BY <1>5, <1>8, <1>9
<1>11. entry \in Dirent
  BY <1>8, <1>9, <1>10
<1> QED BY <1>7, <1>8, <1>10, <1>11, Zenon

LEMMA OpenStep ==
  ASSUME IInv, NEW path, Open(path)
  PROVE  IInv'
<1> USE DEF IInv
<1> DEFINE name == Path2dirent(path)
           entry == Slot(CHOOSE k \in Found(name) : \A j \in Found(name) : k <= j)
<1>1. /\ volume' = volume /\ mounted' = mounted /\ pc' = pc /\ left' = left
      /\ out' = <<>> /\ from' = 0 /\ pc = "ready"
  BY DEF Open
<1>2. MountedFits' /\ InRead'
  BY <1>1, SameFits DEF InRead
<1>3. DeliversFile'
  BY <1>1 DEF DeliversFile
<1>4. <<>> \in Seq(Int \X Nat)
  OBVIOUS
<1>5. CASE /\ name # <<>> /\ Found(name) # {}
           /\ opened' = entry
           /\ file' = [file EXCEPT !.currclust = entry.clust, !.size = entry.size,
                                   !.pos = 0, !.currsect = 0]
           /\ ret' = 0 /\ failed' = FALSE
  <2>1. /\ entry # Nothing /\ entry \in Dirent
        /\ \E k \in DOMAIN volume.dir : entry = volume.dir[k]
    <3>1. volume \in Volumes
      BY TypeFact
    <3> HIDE DEF name
    <3> QED BY <1>5, <3>1, FoundFact
  <2> HIDE DEF entry, name
  <2>2. entry.clust \in Nat /\ entry.size \in Nat
    BY <2>1 DEF Dirent
  <2>3. /\ file' \in FileType /\ file'.pos = 0 /\ file'.size = entry.size
        /\ file'.currclust = entry.clust /\ file'.currsect = 0
    <3>1. file' = [file EXCEPT !.currclust = entry.clust, !.size = entry.size,
                               !.pos = 0, !.currsect = 0]
      BY <1>5
    <3>2. file \in FileType
      BY TypeFact
    <3>3. file.sectsinclust \in Half
      BY <3>2 DEF FileType
    <3>4. file' = [ currclust |-> entry.clust, pos |-> 0, size |-> entry.size,
                    currsect |-> 0, sectsinclust |-> file.sectsinclust ]
      BY <3>1, <3>2 DEF FileType
    <3> QED BY <2>2, <3>3, <3>4, FileFields
  <2>4. TypeOK'
    <3>1. opened' \in Dirent /\ ret' \in Nat /\ failed' \in BOOLEAN
      BY <1>5, <2>1
    <3> QED BY <1>1, <1>4, <2>2, <2>3, <3>1 DEF TypeOK, FileType
  <2>5. OfOpen'
    BY <1>1, <1>5, <2>1, <2>3 DEF OfOpen
  <2>6. Cursor' /\ Passed' /\ StopsAtBreak'
    <3>1. SectPerClust' = SectPerClust /\ ClusterBytes' = ClusterBytes
      BY <1>1, SameVolume
    <3>2. SectPerClust \in Nat
      BY TypeFact, VolumeFact
    <3>3. ClusterBytes \in Nat
      BY <3>2, ConstantFact DEF ClusterBytes
    <3>4. OfOpen' /\ TypeOK'
      BY <2>4, <2>5
    <3>5. SectPerClust > 0
      <4>1. volume.dir # <<>> /\ volume \in Volumes
        BY <2>1, TypeFact
      <4> QED BY <4>1, VolumeFact
    <3>6. ClusterBytes \in Nat \ {0}
      BY <3>2, <3>5, ConstantFact DEF ClusterBytes
    <3>7. 0 \div ClusterBytes = 0
      <4> HIDE DEF ClusterBytes
      <4> QED BY <3>6
    <3>8. file'.pos \div ClusterBytes' = 0
      BY <2>3, <3>1, <3>7
    <3>9. ChainCluster(0)' = entry.clust
      BY <1>5, FollowFact DEF ChainCluster
    <3>10. OnChain'
      BY <2>3, <3>8, <3>9 DEF OnChain
    <3>11. Cursor'
      BY <1>1, <2>3, <3>10 DEF Cursor
    <3>12. Passed'
      <4>1. SoundUpTo(0)'
        BY DEF SoundUpTo
      <4> QED BY <3>8, <4>1 DEF Passed
    <3>13. StopsAtBreak'
      BY <2>3 DEF StopsAtBreak
    <3> QED BY <3>11, <3>12, <3>13
  <2>7. Stopped' /\ FailsOnlyAtTheEnd'
    BY <1>5 DEF Stopped, FailsOnlyAtTheEnd, EINVAL
  <2> QED BY <1>2, <1>3, <2>4, <2>5, <2>6, <2>7
<1>6. CASE ret' \in {ENOENT, -1} /\ UNCHANGED <<file, opened, failed>>
  <2>1. TypeOK'
    BY <1>1, <1>4, <1>6 DEF TypeOK
  <2>2. OfOpen'
    BY <1>1, <1>6 DEF OfOpen
  <2>3. Cursor'
    BY <1>1, <1>6, SameVolume, SameFile DEF Cursor, OnChain, Placed, SectorInCluster
  <2>4. Stopped'
    BY <1>1, <1>6, SameVolume, SameFile DEF Stopped
  <2>5. FailsOnlyAtTheEnd'
    BY <1>6 DEF FailsOnlyAtTheEnd, EINVAL, ENOENT
  <2>6. Passed' /\ StopsAtBreak'
    BY <1>1, <1>6, SamePlace
  <2> QED BY <1>2, <1>3, <2>1, <2>2, <2>3, <2>4, <2>5, <2>6
<1> QED BY <1>5, <1>6 DEF Open

\* What fatfs_read finds before its loop: the cached sector, or that of the position.
LEMMA LocatedFact ==
  ASSUME TypeOK, SectPerClust \in Nat \ {0}, SectPerClust <= 255
  PROVE  /\ Located \in FileType /\ Located.currclust = file.currclust
         /\ Located.pos = file.pos /\ Located.size = file.size
         /\ file.currsect # 0 =>
              Located.currsect = file.currsect /\ Located.sectsinclust = file.sectsinclust
         /\ file.currsect = 0 =>
              /\ Located.currsect = SectOfClust(file.currclust) + SectorInCluster
              /\ Located.sectsinclust = SectPerClust - SectorInCluster
<1>1. /\ file \in FileType /\ file.currclust \in Nat /\ file.pos \in Nat /\ file.size \in Nat
      /\ volume \in Volumes
  BY TypeFact
<1>2. SectorInCluster \in 0 .. SectPerClust - 1
  <2>1. file.pos \div SectorSize \in Nat
    BY <1>1, ConstantFact
  <2> QED BY <2>1 DEF SectorInCluster
<1>3. SectOfClust(file.currclust) \in Int
  BY <1>1, GeometryFact
<1>4. CASE file.currsect # 0
  BY <1>1, <1>4 DEF Located
<1>5. CASE file.currsect = 0
  <2> DEFINE s == SectorInCluster + SectOfClust(file.currclust)
             n == SectPerClust - SectorInCluster
  <2>1. s \in Int /\ s = SectOfClust(file.currclust) + SectorInCluster
    BY <1>2, <1>3
  <2>2. n \in Half
    BY <1>2, WidthFact
  <2>3. Located = [file EXCEPT !.currsect = s, !.sectsinclust = n]
    BY <1>5, Zenon DEF Located, SectorInCluster
  <2> HIDE DEF s, n
  <2>4. Located = [ currclust |-> file.currclust, pos |-> file.pos, size |-> file.size,
                    currsect |-> s, sectsinclust |-> n ]
    BY <1>1, <2>3 DEF FileType
  <2>5. /\ Located \in FileType /\ Located.currclust = file.currclust
        /\ Located.pos = file.pos /\ Located.size = file.size
        /\ Located.currsect = s /\ Located.sectsinclust = n
    BY <1>1, <2>1, <2>2, <2>4, FileFields
  <2> QED BY <1>5, <2>1, <2>5 DEF n
<1> QED BY <1>4, <1>5

LEMMA ReadStep ==
  ASSUME IInv, NEW sz \in Request, Read(sz)
  PROVE  IInv'
<1> USE DEF IInv
<1>1. /\ volume' = volume /\ mounted' = mounted /\ opened' = opened /\ failed' = failed
      /\ pc' = "reading" /\ out' = <<>> /\ from' = file.pos /\ ret' = 0
      /\ opened # Nothing /\ file' = Located
      /\ left' = IF sz > file.size - file.pos THEN file.size - file.pos ELSE sz
  BY DEF Read
<1>2. SectPerClust \in Nat \ {0} /\ SectPerClust <= 255
  BY <1>1, OpenFact
<1>3. /\ Located \in FileType /\ Located.currclust = file.currclust
      /\ Located.pos = file.pos /\ Located.size = file.size
      /\ file.currsect # 0 =>
           Located.currsect = file.currsect /\ Located.sectsinclust = file.sectsinclust
      /\ file.currsect = 0 =>
           /\ Located.currsect = SectOfClust(file.currclust) + SectorInCluster
           /\ Located.sectsinclust = SectPerClust - SectorInCluster
  BY <1>2, LocatedFact
<1>4. file.pos \in Nat /\ file.size \in Nat /\ file.pos <= file.size /\ sz \in Nat
  BY TypeFact, ConstantFact
<1>5. left' \in Nat /\ left' <= file.size - file.pos
  BY <1>1, <1>4
<1>6. TypeOK'
  <2>1. <<>> \in Seq(Int \X Nat)
    OBVIOUS
  <2>2. file' \in FileType /\ file'.pos <= file'.size
    BY <1>1, <1>3, <1>4
  <2> QED BY <1>1, <1>4, <1>5, <2>1, <2>2 DEF TypeOK, FileType
<1>7. MountedFits'
  BY <1>1, SameFits
<1>8. OfOpen'
  BY <1>1, <1>3 DEF OfOpen
<1>9. InRead'
  <2>1. Len(<<>>) = 0
    OBVIOUS
  <2> QED BY <1>1, <1>3, <1>4, <1>5, <2>1 DEF InRead
<1>10. Cursor'
  <2>1. SUFFICES ASSUME file.pos < file.size, ~failed PROVE OnChain' /\ Placed'
    BY <1>1, <1>3 DEF Cursor
  <2>2. OnChain /\ (file.currsect # 0 => Placed)
    BY <1>1, <2>1 DEF Cursor
  <2>3. OnChain'
    BY <1>1, <1>3, <2>2, SameVolume, SameFile DEF OnChain
  <2>4. SectorInCluster' = SectorInCluster
    BY <1>1, <1>3, SameVolume DEF SectorInCluster
  <2>5. /\ file'.currsect = SectOfClust(file.currclust) + SectorInCluster
        /\ file'.sectsinclust = SectPerClust - SectorInCluster
    BY <1>1, <1>3, <2>2 DEF Placed
  <2>6. Placed'
    BY <1>1, <1>3, <2>4, <2>5, SameVolume DEF Placed
  <2> QED BY <2>3, <2>6
<1>11. DeliversFile'
  BY <1>1 DEF DeliversFile
<1>12. Stopped'
  BY <1>1, <1>3, SameVolume, SameFile DEF Stopped
<1>13. FailsOnlyAtTheEnd'
  BY <1>1 DEF FailsOnlyAtTheEnd, EINVAL
<1>14. Passed' /\ StopsAtBreak'
  BY <1>1, <1>3, SamePlace
<1> QED BY <1>6, <1>7, <1>8, <1>9, <1>10, <1>11, <1>12, <1>13, <1>14

LEMMA EndStep ==
  ASSUME IInv, ReadEnd
  PROVE  IInv'
<1> USE DEF IInv, ReadEnd
<1>1. ret' \in Nat
  <2>1. out \in Seq(Int \X Nat)
    BY TypeFact
  <2> QED BY <2>1
<1>2. TypeOK'
  BY <1>1 DEF TypeOK
<1>3. MountedFits' /\ OfOpen' /\ InRead'
  BY SameFits DEF OfOpen, InRead
<1>4. Cursor'
  BY SameVolume, SameFile DEF Cursor, OnChain, Placed, SectorInCluster
<1>5. DeliversFile'
  BY SameFile DEF DeliversFile
<1>6. Stopped'
  BY SameVolume, SameFile DEF Stopped
<1>7. FailsOnlyAtTheEnd'
  BY <1>1 DEF FailsOnlyAtTheEnd, EINVAL
<1>8. Passed' /\ StopsAtBreak'
  BY SamePlace
<1> QED BY <1>2, <1>3, <1>4, <1>5, <1>6, <1>7, <1>8

-----------------------------------------------------------------------------
\* A round of the loop

Bytes == Piece.bytes
Finished == Piece.sectors
AtSector == file.pos \div SectorSize
Link == Entry(volume.fat, file.currclust)
Delivered == [n \in 1 .. Bytes |-> Source(n - 1)]

\* A round of the loop.  The bytes of the piece are those the file has from the
\* position on, because all of them lie in the cluster of the position; and a
\* cluster that is used up is followed by the one its entry names.
LEMMA PieceStep ==
  ASSUME IInv, ReadPiece
  PROVE  IInv'
<1> USE DEF IInv
<1>1. /\ volume \in Volumes /\ file \in FileType
      /\ file.currclust \in Nat /\ file.pos \in Nat /\ file.size \in Nat /\ file.currsect \in Int
      /\ file.sectsinclust \in Nat /\ file.sectsinclust \in Half
      /\ left \in Nat /\ from \in Nat /\ out \in Seq(Int \X Nat)
  BY TypeFact
<1>2. /\ volume' = volume /\ mounted' = mounted /\ opened' = opened /\ from' = from
      /\ out' = out \o Delivered /\ left' = left - Bytes
      /\ left > 0 /\ Bytes > 0 /\ pc = "reading"
  BY DEF ReadPiece, Bytes, Delivered
<1>3. opened # Nothing /\ left <= file.size - file.pos /\ file.pos = from + Len(out) /\ ret = 0
  BY <1>2 DEF InRead
<1>4. SectPerClust \in Nat \ {0} /\ SectPerClust <= 255
  BY <1>3, OpenFact
<1>5. Bytes \in 1 .. left /\ Finished \in Nat
  BY <1>1, <1>2, PieceBound DEF Bytes, Finished
<1>6. Rest \in Nat /\ Rest \in Half
  BY <1>1, <1>5 DEF Rest, Finished, Half, Unsigned
<1>7. /\ NextClust \in Int /\ NextClust \in {Link, EINVAL}
      /\ file.currclust >= 2 => NextClust = Link
      /\ NextClust \in 2 .. ClustNum - 1 => NextClust = Link /\ file.currclust >= 2
  <2>1. NextClust = IF file.currclust < 2 /\ file.currclust < ClustNum THEN EINVAL ELSE Link
    BY <1>1, EntryIsRead DEF NextClust, Link
  <2>2. Link \in Nat /\ ClustNum \in Nat
    <3>1. Entry(volume.fat, file.currclust) \in Nat
      BY <1>1, EntryRange
    <3>2. ClustNum \in Nat
      BY <1>1, GeometryFact
    <3> QED BY <3>1, <3>2 DEF Link
  <2>3. EINVAL \in Int /\ EINVAL \notin 2 .. ClustNum - 1
    BY <2>2 DEF EINVAL
  <2>4. CASE file.currclust < 2 /\ file.currclust < ClustNum
    <3>1. NextClust = EINVAL /\ ~(file.currclust >= 2)
      BY <1>1, <2>1, <2>4
    <3> QED BY <2>3, <3>1
  <2>5. CASE ~(file.currclust < 2 /\ file.currclust < ClustNum)
    <3>1. NextClust = Link
      BY <2>1, <2>5, Zenon
    <3>2. Link \in 2 .. ClustNum - 1 => file.currclust >= 2
      BY <1>1, <2>2, <2>5
    <3> QED BY <2>2, <3>1, <3>2
  <2> QED BY <2>4, <2>5
<1>8. Moved = [ currclust |-> file.currclust, pos |-> file.pos + Bytes, size |-> file.size,
                currsect |-> file.currsect + Finished, sectsinclust |-> Rest ]
  <2> DEFINE p == file.pos + Bytes
             s == file.currsect + Finished
  <2>1. Moved = [file EXCEPT !.pos = p, !.currsect = s, !.sectsinclust = Rest]
    BY DEF Moved, Bytes, Finished
  <2> HIDE DEF p, s
  <2>2. Moved = [ currclust |-> file.currclust, pos |-> p, size |-> file.size,
                  currsect |-> s, sectsinclust |-> Rest ]
    BY <1>1, <2>1 DEF FileType
  <2> QED BY <2>2 DEF p, s
<1>9. \/ /\ Rest >= 1 /\ file' = Moved
         /\ pc' = pc /\ ret' = ret /\ failed' = failed
      \/ /\ Rest < 1 /\ NextClust \in 2 .. ClustNum - 1
         /\ file' = [Moved EXCEPT !.currclust = NextClust, !.currsect = SectOfClust(NextClust),
                                  !.sectsinclust = SectPerClust]
         /\ pc' = pc /\ ret' = ret /\ failed' = failed
      \/ /\ Rest < 1 /\ NextClust \notin 2 .. ClustNum - 1
         /\ file' = Moved
         /\ pc' = "ready" /\ ret' = EINVAL
         /\ failed' = (failed \/ Moved.pos < Moved.size)
  <2>1. UsedUp(Rest) \/ Rest >= 1
    BY <1>6 DEF UsedUp
  <2>2. UsedUp(Rest) => Rest < 1
    BY DEF UsedUp
  <2>3. \/ ~UsedUp(Rest) /\ file' = Moved /\ UNCHANGED <<pc, ret, failed>>
        \/ /\ UsedUp(Rest) /\ NextClust \in 2 .. ClustNum - 1
           /\ file' = [Moved EXCEPT !.currclust = NextClust, !.currsect = SectOfClust(NextClust),
                                    !.sectsinclust = SectPerClust]
           /\ UNCHANGED <<pc, ret, failed>>
        \/ /\ UsedUp(Rest) /\ NextClust \notin 2 .. ClustNum - 1
           /\ file' = Moved
           /\ pc' = "ready" /\ ret' = EINVAL
           /\ failed' = (failed \/ Moved.pos < Moved.size)
    BY Zenon DEF ReadPiece
  <2>4. UNCHANGED <<pc, ret, failed>> => pc' = pc /\ ret' = ret /\ failed' = failed
    OBVIOUS
  <2> QED BY <2>1, <2>2, <2>3, <2>4, Zenon
<1>10. SectOfClust(NextClust) \in Int /\ SectOfClust(file.currclust) \in Int
  <2>1. \A c \in Int : SectOfClust(c) \in Int
    BY <1>1, GeometryFact
  <2>2. NextClust \in Int /\ file.currclust \in Int
    BY <1>1, <1>7
  <2> QED BY <2>1, <2>2
<1>11. Moved \in FileType /\ Moved.pos = file.pos + Bytes /\ Moved.size = file.size
       /\ Moved.currclust = file.currclust /\ Moved.currsect = file.currsect + Finished
       /\ Moved.sectsinclust = Rest
  <2> DEFINE p == file.pos + Bytes
             s == file.currsect + Finished
  <2>1. p \in Nat /\ s \in Int
    BY <1>1, <1>5
  <2>2. file.currclust \in Nat /\ file.size \in Nat
    BY <1>1
  <2>3. Moved = [ currclust |-> file.currclust, pos |-> p, size |-> file.size,
                  currsect |-> s, sectsinclust |-> Rest ]
    BY <1>8
  <2> HIDE DEF p, s
  <2>4. /\ Moved \in FileType
        /\ Moved.currclust = file.currclust /\ Moved.pos = p /\ Moved.size = file.size
        /\ Moved.currsect = s /\ Moved.sectsinclust = Rest
    BY <1>6, <2>1, <2>2, <2>3, FileFields
  <2> QED BY <2>4 DEF p, s
<1>12. \/ /\ Rest >= 1 /\ file' \in FileType
          /\ file'.pos = file.pos + Bytes /\ file'.size = file.size /\ file'.currclust = file.currclust
          /\ file'.currsect = file.currsect + Finished /\ file'.sectsinclust = Rest
          /\ pc' = pc /\ ret' = ret /\ failed' = failed
       \/ /\ Rest < 1 /\ NextClust \in 2 .. ClustNum - 1 /\ file' \in FileType
          /\ file'.pos = file.pos + Bytes /\ file'.size = file.size /\ file'.currclust = NextClust
          /\ file'.currsect = SectOfClust(NextClust) /\ file'.sectsinclust = SectPerClust
          /\ pc' = pc /\ ret' = ret /\ failed' = failed
       \/ /\ Rest < 1 /\ NextClust \notin 2 .. ClustNum - 1 /\ file' \in FileType
          /\ file'.pos = file.pos + Bytes /\ file'.size = file.size /\ file'.currclust = file.currclust
          /\ pc' = "ready" /\ ret' = EINVAL
          /\ failed' = (failed \/ file.pos + Bytes < file.size)
  <2>1. ASSUME NextClust \in 2 .. ClustNum - 1,
               file' = [Moved EXCEPT !.currclust = NextClust, !.currsect = SectOfClust(NextClust),
                                     !.sectsinclust = SectPerClust]
        PROVE  /\ file' \in FileType /\ file'.pos = file.pos + Bytes /\ file'.size = file.size
               /\ file'.currclust = NextClust /\ file'.currsect = SectOfClust(NextClust)
               /\ file'.sectsinclust = SectPerClust
    <3>1. SectPerClust \in Half
      BY <1>4, WidthFact
    <3>2. file' = [ currclust |-> NextClust, pos |-> file.pos + Bytes, size |-> file.size,
                    currsect |-> SectOfClust(NextClust), sectsinclust |-> SectPerClust ]
      BY <1>11, <2>1 DEF FileType
    <3>3. file.pos + Bytes \in Nat /\ NextClust \in Nat
      BY <1>1, <1>5, <2>1
    <3> QED BY <1>1, <1>10, <3>1, <3>2, <3>3, FileFields
  <2> QED BY <1>9, <1>11, <2>1, Zenon
<1>13. /\ file' \in FileType /\ file'.pos = file.pos + Bytes /\ file'.size = file.size
  BY <1>12, Zenon
<1>14. \A n \in Nat : Source(n) \in Int \X Nat
  <2> TAKE n \in Nat
  <2> DEFINE at == (file.pos % SectorSize) + n
  <2>1. at \in Nat
    BY <1>1, ConstantFact
  <2> HIDE DEF at
  <2>2. at \div SectorSize \in Nat /\ at % SectorSize \in Nat
    BY <2>1, ConstantFact
  <2> QED BY <1>1, <2>2 DEF Source, at
<1>15. /\ Delivered \in Seq(Int \X Nat) /\ Len(Delivered) = Bytes
       /\ \A n \in 1 .. Bytes : Delivered[n] = Source(n - 1)
  <2>1. \A n \in 1 .. Bytes : Source(n - 1) \in Int \X Nat
    BY <1>5, <1>14
  <2> QED BY <1>5, <2>1 DEF Delivered
<1>16. /\ out' \in Seq(Int \X Nat) /\ Len(out') = Len(out) + Bytes
       /\ \A n \in 1 .. Len(out) : out'[n] = out[n]
       /\ \A n \in Len(out) + 1 .. Len(out) + Bytes : out'[n] = Delivered[n - Len(out)]
  <2>1. /\ out \o Delivered \in Seq(Int \X Nat)
        /\ Len(out \o Delivered) = Len(out) + Len(Delivered)
        /\ \A i \in 1 .. Len(out) + Len(Delivered) :
             (out \o Delivered)[i] = IF i <= Len(out) THEN out[i] ELSE Delivered[i - Len(out)]
    BY <1>1, <1>15, ConcatProperties
  <2>2. out' = out \o Delivered /\ Len(Delivered) = Bytes /\ Len(out) \in Nat /\ Bytes \in Nat
    BY <1>1, <1>2, <1>5, <1>15
  <2>3. /\ out' \in Seq(Int \X Nat) /\ Len(out') = Len(out) + Bytes
        /\ \A i \in 1 .. Len(out) + Bytes :
             out'[i] = IF i <= Len(out) THEN out[i] ELSE Delivered[i - Len(out)]
    BY <2>1, <2>2
  <2>4. /\ \A n \in 1 .. Len(out) : n \in 1 .. Len(out) + Bytes /\ n <= Len(out)
        /\ \A n \in Len(out) + 1 .. Len(out) + Bytes :
             n \in 1 .. Len(out) + Bytes /\ ~(n <= Len(out))
    BY <2>2
  <2> QED BY <2>3, <2>4
<1>17. TypeOK'
  <2>1. file'.pos <= file'.size
    BY <1>1, <1>3, <1>5, <1>13
  <2>2. left' \in Nat
    BY <1>1, <1>2, <1>5
  <2>3. ret' \in Nat \cup {EINVAL, ENOENT, -1} /\ pc' \in {"ready", "reading"}
    BY <1>2, <1>3, <1>12
  <2>4. failed' \in BOOLEAN
    <3>1. failed \in BOOLEAN
      BY DEF TypeOK
    <3> QED BY <1>12, <3>1, Zenon
  <2> QED BY <1>2, <1>13, <1>16, <2>1, <2>2, <2>3, <2>4 DEF TypeOK, FileType
<1>18. MountedFits'
  BY <1>2, SameFits
<1>19. OfOpen'
  BY <1>2, <1>13 DEF OfOpen
<1>20. InRead'
  <2>1. file.pos + Bytes = from + (Len(out) + Bytes) /\ left - Bytes <= file.size - (file.pos + Bytes)
    BY <1>1, <1>3, <1>5
  <2>2. pc' = "reading" => ret' = ret
    BY <1>12
  <2> QED BY <1>2, <1>3, <1>13, <1>16, <2>1, <2>2 DEF InRead
<1>21. ASSUME ~failed
       PROVE  /\ file.currclust = ChainCluster(AtSector \div SectPerClust)
              /\ file.currsect = SectOfClust(file.currclust) + (AtSector % SectPerClust)
              /\ file.sectsinclust = SectPerClust - (AtSector % SectPerClust)
              /\ file.sectsinclust > 0
  <2>1. file.pos < file.size
    BY <1>1, <1>2, <1>3
  <2>2. OnChain /\ Placed
    BY <1>2, <1>3, <1>21, <2>1 DEF Cursor
  <2>3. file.pos \div ClusterBytes = AtSector \div SectPerClust
    BY <1>1, <1>4, FileByteFact DEF AtSector
  <2>4. AtSector \in Nat
    BY <1>1, ConstantFact DEF AtSector
  <2>5. AtSector % SectPerClust \in 0 .. SectPerClust - 1
    BY <1>4, <2>4
  <2>6. SectorInCluster = AtSector % SectPerClust
    BY DEF SectorInCluster, AtSector
  <2>7. /\ file.currclust = ChainCluster(AtSector \div SectPerClust)
        /\ file.currsect = SectOfClust(file.currclust) + (AtSector % SectPerClust)
        /\ file.sectsinclust = SectPerClust - (AtSector % SectPerClust)
    BY <2>2, <2>3, <2>6 DEF OnChain, Placed
  <2> QED BY <1>4, <2>5, <2>7
<1>22. AtSector \in Nat /\ AtSector % SectPerClust \in 0 .. SectPerClust - 1 /\ AtSector \div SectPerClust \in Nat
  <2>1. AtSector \in Nat
    BY <1>1, ConstantFact DEF AtSector
  <2> QED BY <1>4, <2>1
\* The cluster and the sector of the position after the piece.
<1>23. ASSUME ~failed
       PROVE  /\ (file.pos + Bytes) \div SectorSize = AtSector + Finished
              /\ Finished \in 0 .. file.sectsinclust /\ Rest = file.sectsinclust - Finished
              /\ Rest >= 1 => (AtSector + Finished) \div SectPerClust = AtSector \div SectPerClust
                              /\ (AtSector + Finished) % SectPerClust = (AtSector % SectPerClust) + Finished
              /\ Rest < 1 => (AtSector + Finished) \div SectPerClust = (AtSector \div SectPerClust) + 1
                             /\ (AtSector + Finished) % SectPerClust = 0
  <2>1. file.sectsinclust = SectPerClust - (AtSector % SectPerClust) /\ file.sectsinclust > 0
    BY <1>21, <1>23
  <2>2. (file.pos + Bytes) \div SectorSize = AtSector + Finished /\ Finished \in 0 .. file.sectsinclust
    BY <1>1, <2>1, PieceFact DEF Bytes, Finished, AtSector
  <2>3. Rest = file.sectsinclust - Finished
    <3> DEFINE x == file.sectsinclust - Finished
    <3>1. x \in Nat /\ x <= 255
      BY <1>1, <1>4, <1>5, <1>22, <2>1, <2>2
    <3>2. Rest = x % 65536
      BY DEF Rest, Finished
    <3> HIDE DEF x
    <3>3. x % 65536 = x
      BY <3>1
    <3> QED BY <3>2, <3>3 DEF x
  <2>4. Finished <= SectPerClust - (AtSector % SectPerClust)
    BY <1>1, <1>4, <1>22, <2>1, <2>2
  <2>5. Rest >= 1 => Finished < SectPerClust - (AtSector % SectPerClust)
    BY <1>1, <1>4, <1>22, <2>1, <2>2, <2>3
  <2>6. Rest < 1 => Finished = SectPerClust - (AtSector % SectPerClust)
    BY <1>1, <1>4, <1>22, <2>1, <2>2, <2>3
  <2>7. /\ Finished < SectPerClust - (AtSector % SectPerClust) =>
             (AtSector + Finished) \div SectPerClust = AtSector \div SectPerClust
               /\ (AtSector + Finished) % SectPerClust = (AtSector % SectPerClust) + Finished
        /\ Finished = SectPerClust - (AtSector % SectPerClust) =>
             (AtSector + Finished) \div SectPerClust = (AtSector \div SectPerClust) + 1 /\ (AtSector + Finished) % SectPerClust = 0
    BY <1>4, <1>5, <1>22, <2>4, DivModNext
  <2> QED BY <2>2, <2>3, <2>5, <2>6, <2>7
\* The next cluster of the chain.
<1>24. ASSUME ~failed
       PROVE  ChainCluster((AtSector \div SectPerClust) + 1) = Link
  <2> DEFINE k == AtSector \div SectPerClust
  <2>1. file.currclust = Follow(volume.fat, opened.clust, k)
    BY <1>21, <1>24 DEF ChainCluster
  <2>2. k \in Nat
    BY <1>22
  <2> HIDE DEF k
  <2>3. Follow(volume.fat, opened.clust, k + 1)
          = Entry(volume.fat, Follow(volume.fat, opened.clust, k))
    BY <2>2, FollowFact
  <2>4. ChainCluster(k + 1) = Link
    BY <2>1, <2>3 DEF ChainCluster, Link
  <2> QED BY <2>4 DEF k
<1>25. Cursor'
  <2>1. SUFFICES ASSUME file'.pos < file'.size, ~failed'
                 PROVE  OnChain' /\ Placed'
    BY DEF Cursor
  <2>2. ~failed
    BY <1>12, <2>1, Zenon
  <2>3. file'.pos \div SectorSize = AtSector + Finished
    BY <1>13, <1>23, <2>2
  <2>4. SectorInCluster' = (AtSector + Finished) % SectPerClust
    BY <1>2, <2>3, SameVolume DEF SectorInCluster
  <2>5. file'.pos \div ClusterBytes' = (AtSector + Finished) \div SectPerClust
    <3>1. file.pos + Bytes \in Nat
      BY <1>1, <1>5
    <3>2. (file.pos + Bytes) \div ClusterBytes = ((file.pos + Bytes) \div SectorSize) \div SectPerClust
      BY <1>4, <3>1, FileByteFact
    <3> QED BY <1>2, <1>13, <2>3, <3>2, SameVolume
  <2>6. OnChain' <=> file'.currclust = ChainCluster((AtSector + Finished) \div SectPerClust)
    <3> QED BY <1>2, <2>5, SameFile DEF OnChain
  <2>7. Placed' <=> /\ file'.currsect = SectOfClust(file'.currclust) + ((AtSector + Finished) % SectPerClust)
                    /\ file'.sectsinclust = SectPerClust - ((AtSector + Finished) % SectPerClust)
    <3> QED BY <1>2, <2>4, SameVolume DEF Placed
  <2>8. SectOfClust(file.currclust) \in Int
    BY <1>10
  <2>9. CASE Rest >= 1
    <3>1. /\ file'.currclust = file.currclust /\ file'.currsect = file.currsect + Finished
          /\ file'.sectsinclust = Rest
      BY <1>6, <1>12, <2>9
    <3>2. /\ (AtSector + Finished) \div SectPerClust = AtSector \div SectPerClust
          /\ (AtSector + Finished) % SectPerClust = (AtSector % SectPerClust) + Finished
          /\ Rest = file.sectsinclust - Finished
      BY <1>23, <2>2, <2>9
    <3>3. OnChain'
      BY <1>21, <2>2, <2>6, <3>1, <3>2
    <3>4. Placed'
      <4>1. /\ file.currsect = SectOfClust(file.currclust) + (AtSector % SectPerClust)
            /\ file.sectsinclust = SectPerClust - (AtSector % SectPerClust)
        BY <1>21, <2>2
      <4>2. SectOfClust(file'.currclust) = SectOfClust(file.currclust)
        BY <3>1
      <4>3. file'.currsect = SectOfClust(file'.currclust) + ((AtSector % SectPerClust) + Finished)
        BY <1>5, <1>22, <2>8, <3>1, <4>1, <4>2
      <4>4. file'.sectsinclust = SectPerClust - ((AtSector % SectPerClust) + Finished)
        BY <1>4, <1>5, <1>22, <3>1, <3>2, <4>1
      <4> QED BY <2>7, <3>2, <4>3, <4>4
    <3> QED BY <3>3, <3>4
  <2>10. CASE Rest < 1
    <3>1. /\ (AtSector + Finished) \div SectPerClust = (AtSector \div SectPerClust) + 1
          /\ (AtSector + Finished) % SectPerClust = 0
      BY <1>23, <2>2, <2>10
    <3>2. /\ file'.currclust = NextClust /\ file'.currsect = SectOfClust(NextClust)
          /\ file'.sectsinclust = SectPerClust /\ NextClust \in 2 .. ClustNum - 1
      <4>1. CASE NextClust \in 2 .. ClustNum - 1
        BY <1>6, <1>12, <2>10, <4>1
      <4>2. CASE NextClust \notin 2 .. ClustNum - 1
        <5>1. failed' = (failed \/ file.pos + Bytes < file.size)
          BY <1>6, <1>12, <2>10, <4>2
        <5>2. ~(file.pos + Bytes < file.size)
          BY <2>1, <5>1, Zenon
        <5> QED BY <1>13, <2>1, <5>2
      <4> QED BY <4>1, <4>2
    <3>3. OnChain'
      BY <1>7, <1>24, <2>2, <2>6, <3>1, <3>2
    <3>4. Placed'
      BY <1>4, <1>10, <2>7, <3>1, <3>2
    <3> QED BY <3>3, <3>4
  <2> QED BY <1>6, <2>9, <2>10
<1>26. DeliversFile'
  <2>1. SUFFICES ASSUME ~failed', NEW n \in 1 .. Len(out')
                 PROVE  out'[n] = FileByte(from + n - 1)
    BY <1>2, SameFile DEF DeliversFile
  <2>2. ~failed
    BY <1>12, <2>1, Zenon
  <2>3. CASE n <= Len(out)
    BY <1>1, <1>16, <2>1, <2>2, <2>3 DEF DeliversFile
  <2>4. CASE n > Len(out)
    <3> DEFINE k == n - Len(out) - 1
               m == ((file.pos % SectorSize) + k) \div SectorSize
               w == ((file.pos % SectorSize) + k) % SectorSize
    <3>1. k \in Nat /\ k < Bytes /\ n - Len(out) = k + 1 /\ from + n - 1 = file.pos + k
          /\ n \in Len(out) + 1 .. Len(out) + Bytes
      <4>1. Len(out) \in Nat /\ Bytes \in Nat /\ from \in Nat
        BY <1>1, <1>5
      <4>2. n \in Nat /\ n <= Len(out) + Bytes
        BY <1>16, <2>1, <4>1
      <4>3. from + n - 1 = file.pos + k
        BY <1>3, <4>1, <4>2
      <4> QED BY <2>4, <4>1, <4>2, <4>3
    <3>2. out'[n] = Source(k)
      <4>1. k + 1 \in 1 .. Bytes /\ (k + 1) - 1 = k
        BY <1>5, <3>1
      <4> HIDE DEF k
      <4>2. out'[n] = Delivered[k + 1]
        BY <1>16, <3>1
      <4> QED BY <1>15, <4>1, <4>2
    <3> HIDE DEF k
    <3>3. Source(k) = <<file.currsect + m, w>>
      BY DEF Source
    <3>4. file.sectsinclust \in Nat \ {0}
      BY <1>1, <1>21, <2>2
    <3>5. m \in 0 .. file.sectsinclust - 1
      BY <1>1, <3>1, <3>4, PieceFact DEF Bytes
    <3>6. (file.pos + k) \div SectorSize = AtSector + m /\ (file.pos + k) % SectorSize = w
      BY <1>1, <3>1, ConstantFact, FromSector DEF AtSector
    <3>7. FileByte(file.pos + k) = <<SectOfClust(ChainCluster(((file.pos + k) \div SectorSize) \div SectPerClust))
                                  + (((file.pos + k) \div SectorSize) % SectPerClust),
                                (file.pos + k) % SectorSize>>
      <4>1. file.pos + k \in Nat
        BY <1>1, <3>1
      <4> QED BY <1>4, <4>1, FileByteFact
    <3> HIDE DEF m, w
    <3>8. (AtSector + m) \div SectPerClust = AtSector \div SectPerClust
          /\ (AtSector + m) % SectPerClust = (AtSector % SectPerClust) + m
      <4>1. m \in Nat /\ m <= SectPerClust - (AtSector % SectPerClust) /\ m < SectPerClust - (AtSector % SectPerClust)
        BY <1>1, <1>4, <1>21, <1>22, <2>2, <3>5
      <4> QED BY <1>4, <1>22, <4>1, DivModNext
    <3>9. FileByte(file.pos + k) = <<SectOfClust(file.currclust) + ((AtSector % SectPerClust) + m), w>>
      BY <1>21, <2>2, <3>6, <3>7, <3>8
    <3>10. SectOfClust(file.currclust) + ((AtSector % SectPerClust) + m) = file.currsect + m
      <4>1. SectOfClust(file.currclust) \in Int
        BY <1>10
      <4> QED BY <1>1, <1>4, <1>21, <1>22, <2>2, <3>5, <4>1
    <3> QED BY <3>1, <3>2, <3>3, <3>9, <3>10
  <2> QED BY <1>1, <1>16, <2>1, <2>3, <2>4
\* A read of a good file that fails with bytes to come has met a cluster that
\* the code takes for none.
<1>27. ASSUME GoodFile, ~failed, file.pos + Bytes < file.size, Rest < 1, NextClust \notin 2 .. ClustNum - 1
       PROVE  Link \in ClustNum .. ClustNum + 1
  <2> DEFINE n == (AtSector \div SectPerClust) + 1
             p == n * ClusterBytes
  <2>1. n \in Nat /\ n >= 1
    BY <1>22
  <2>2. (file.pos + Bytes) \div ClusterBytes = n
    <3>1. file.pos + Bytes \in Nat
      BY <1>1, <1>5
    <3>2. (file.pos + Bytes) \div ClusterBytes = ((file.pos + Bytes) \div SectorSize) \div SectPerClust
      BY <1>4, <3>1, FileByteFact
    <3> QED BY <1>23, <1>27, <3>2
  <2>3. ClusterBytes \in Nat \ {0}
    BY <1>4, ConstantFact DEF ClusterBytes
  <2>4. p <= file.pos + Bytes /\ p \in Nat
    <3> DEFINE x == file.pos + Bytes
    <3>1. x \in Nat
      BY <1>1, <1>5
    <3> HIDE DEF x
    <3>2. (x \div ClusterBytes) * ClusterBytes <= x /\ (x \div ClusterBytes) * ClusterBytes \in Nat
      BY <2>3, <3>1, DivMul
    <3> USE DEF x
    <3> QED BY <2>2, <3>2
  <2>5. n <= p
    <3> HIDE DEF n
    <3> QED BY <2>1, <2>3
  <2>6. opened.size = file.size
    BY <1>3 DEF OfOpen
  <2> HIDE DEF n, p
  <2>7. p < opened.size /\ n \in 0 .. opened.size
    BY <1>1, <1>5, <1>27, <2>1, <2>4, <2>5, <2>6
  <2>8. ChainCluster(n) \in 2 .. ClustNum + 1
    BY <1>27, <2>7 DEF GoodFile, p
  <2>9. ChainCluster(n) = Link
    BY <1>24, <1>27 DEF n
  <2>10. ClustNum \in Nat
    BY <1>1, GeometryFact
  <2>11. file.currclust >= 2
    <3> DEFINE m == AtSector \div SectPerClust
               q == m * ClusterBytes
    <3>1. m \in Nat /\ m = file.pos \div ClusterBytes /\ file.currclust = ChainCluster(m)
      BY <1>1, <1>4, <1>21, <1>22, <1>27, FileByteFact DEF AtSector
    <3> HIDE DEF m
    <3>2. q \in Nat /\ q <= file.pos /\ m <= q
      <4>1. q \in Nat /\ q <= file.pos
        BY <1>1, <2>3, <3>1, DivMul
      <4>2. m <= q
        BY <2>3, <3>1
      <4> QED BY <4>1, <4>2
    <3> HIDE DEF q
    <3>3. q < opened.size /\ m \in 0 .. opened.size
      BY <1>1, <1>5, <1>27, <2>6, <3>1, <3>2
    <3>4. ChainCluster(m) \in 2 .. ClustNum + 1
      BY <1>27, <3>3 DEF GoodFile, q
    <3> QED BY <2>10, <3>1, <3>4
  <2> QED BY <1>7, <1>27, <2>8, <2>9, <2>10, <2>11
<1>28. ASSUME GoodFile, failed'
       PROVE  Link \in ClustNum .. ClustNum + 1 /\ file'.currclust = file.currclust
  <2>1. CASE failed
    <3>1. Link \in ClustNum .. ClustNum + 1
      BY <1>28, <2>1 DEF Stopped, Link
    <3>2. NextClust \notin 2 .. ClustNum - 1
      <4>1. ClustNum \in Nat
        BY <1>1, GeometryFact
      <4> QED BY <1>7, <3>1, <4>1 DEF EINVAL
    <3>3. file'.currclust = file.currclust
      BY <1>12, <3>2
    <3> QED BY <3>1, <3>3
  <2>2. CASE ~failed
    <3>1. /\ Rest < 1 /\ NextClust \notin 2 .. ClustNum - 1 /\ file'.currclust = file.currclust
          /\ failed' = (failed \/ file.pos + Bytes < file.size)
      BY <1>12, <1>28, <2>2, Zenon
    <3>2. file.pos + Bytes < file.size
      BY <1>28, <2>2, <3>1, Zenon
    <3> QED BY <1>27, <1>28, <2>2, <3>1, <3>2
  <2> QED BY <2>1, <2>2
<1>29. Stopped'
  <2>1. SUFFICES ASSUME failed', GoodFile
                 PROVE  Entry(volume.fat, file'.currclust) \in ClustNum .. ClustNum + 1
    BY <1>2, SameVolume, SameFile DEF Stopped
  <2> QED BY <1>28, <2>1 DEF Link
<1>30. FailsOnlyAtTheEnd'
  <2>1. SUFFICES ASSUME ret' = EINVAL, GoodFile,
                        ~(left' = 0 /\ file'.pos = file'.size)
                 PROVE  Entry(volume.fat, file'.currclust) \in ClustNum .. ClustNum + 1
    BY <1>2, SameVolume, SameFile DEF FailsOnlyAtTheEnd
  <2>2. failed'
    <3>1. ret' # ret
      BY <1>3, <2>1 DEF EINVAL
    <3>2. failed' = (failed \/ file.pos + Bytes < file.size)
      BY <1>12, <3>1
    <3>3. file.pos + Bytes < file.size
      <4>1. ~(left - Bytes = 0 /\ file.pos + Bytes = file.size)
        BY <1>2, <1>13, <2>1
      <4>2. left \in Nat /\ file.size \in Nat /\ file.pos \in Nat /\ Bytes \in 1 .. left
        BY <1>1, <1>5
      <4>3. left <= file.size - file.pos
        BY <1>3
      <4> QED BY <4>1, <4>2, <4>3
    <3> QED BY <3>2, <3>3, Zenon
  <2> QED BY <1>28, <2>1, <2>2 DEF Link
\* The chain is sound up to the cluster the piece lies in.
<1>31. ASSUME ~failed
       PROVE  SoundUpTo(AtSector \div SectPerClust)
  <2>1. file.pos < file.size
    BY <1>1, <1>2, <1>3
  <2>2. file.pos \div ClusterBytes = AtSector \div SectPerClust
    BY <1>1, <1>4, FileByteFact DEF AtSector
  <2> QED BY <1>3, <1>31, <2>1, <2>2 DEF Passed
<1>32. Passed'
  <2>1. SUFFICES ASSUME file'.pos < file'.size, ~failed'
                 PROVE  SoundUpTo((AtSector + Finished) \div SectPerClust)
    <3>1. file.pos + Bytes \in Nat
      BY <1>1, <1>5
    <3>2. (file.pos + Bytes) \div ClusterBytes = ((file.pos + Bytes) \div SectorSize) \div SectPerClust
      BY <1>4, <3>1, FileByteFact
    <3>3. ~failed' => ~failed
      BY <1>12, Zenon
    <3>4. ~failed' => file'.pos \div ClusterBytes' = (AtSector + Finished) \div SectPerClust
      BY <1>2, <1>13, <1>23, <3>2, <3>3, SameVolume
    <3> QED BY <1>2, <3>4, SameFile DEF Passed
  <2>2. ~failed
    BY <1>12, <2>1, Zenon
  <2>3. CASE Rest >= 1
    BY <1>23, <1>31, <2>2, <2>3
  <2>4. CASE Rest < 1
    <3> DEFINE q == AtSector \div SectPerClust
    <3>1. q \in Nat /\ (AtSector + Finished) \div SectPerClust = q + 1
      BY <1>22, <1>23, <2>2, <2>4
    <3>2. NextClust \in 2 .. ClustNum - 1
      <4>1. SUFFICES ASSUME NextClust \notin 2 .. ClustNum - 1 PROVE FALSE
        OBVIOUS
      <4>2. failed' = (failed \/ file.pos + Bytes < file.size)
        BY <1>6, <1>12, <2>4, <4>1
      <4>3. ~(file.pos + Bytes < file.size)
        BY <2>1, <4>2, Zenon
      <4> QED BY <1>13, <2>1, <4>3
    <3>3. NextClust = Link /\ file.currclust >= 2
      BY <1>7, <3>2
    <3>4. ChainCluster(q + 1) \in 2 .. ClustNum - 1
      BY <1>24, <2>2, <3>2, <3>3
    <3>5. file.currclust = ChainCluster(q) /\ SoundUpTo(q)
      BY <1>21, <1>31, <2>2
    <3> HIDE DEF q
    <3>6. opened.clust >= 2
      <4>1. CASE q = 0
        <5>1. ChainCluster(0) = opened.clust
          BY FollowFact DEF ChainCluster
        <5> QED BY <3>3, <3>5, <4>1, <5>1
      <4>2. CASE q # 0
        <5>1. 1 \in 1 .. q
          BY <3>1, <4>2
        <5> QED BY <3>5, <5>1 DEF SoundUpTo
      <4> QED BY <4>1, <4>2
    <3>7. SoundUpTo(q + 1)
      <4>1. \A k \in 1 .. q + 1 : k \in 1 .. q \/ k = q + 1
        BY <3>1
      <4> QED BY <3>4, <3>5, <3>6, <4>1 DEF SoundUpTo
    <3> QED BY <3>1, <3>7
  <2> QED BY <1>6, <2>3, <2>4
\* The last byte of the piece lies in the cluster the read was in.
<1>33. ASSUME ~failed
       PROVE  (file.pos + Bytes - 1) \div ClusterBytes = AtSector \div SectPerClust
  <2> DEFINE k == Bytes - 1
             m == ((file.pos % SectorSize) + k) \div SectorSize
  <2>1. k \in Nat /\ k < Bytes /\ file.pos + Bytes - 1 = file.pos + k /\ file.pos + k \in Nat
    BY <1>1, <1>5
  <2>2. file.sectsinclust \in Nat \ {0}
    BY <1>1, <1>21, <1>33
  <2> HIDE DEF k
  <2>3. m \in 0 .. file.sectsinclust - 1
    BY <1>1, <2>1, <2>2, PieceFact DEF Bytes
  <2>4. (file.pos + k) \div SectorSize = AtSector + m
    BY <1>1, <2>1, ConstantFact, FromSector DEF AtSector
  <2>5. (file.pos + k) \div ClusterBytes = ((file.pos + k) \div SectorSize) \div SectPerClust
    BY <1>4, <2>1, FileByteFact
  <2> HIDE DEF m
  <2>6. (AtSector + m) \div SectPerClust = AtSector \div SectPerClust
    <3>1. m \in Nat /\ m <= SectPerClust - (AtSector % SectPerClust) /\ m < SectPerClust - (AtSector % SectPerClust)
      BY <1>1, <1>4, <1>21, <1>22, <1>33, <2>3
    <3> QED BY <1>4, <1>22, <3>1, DivModNext
  <2> QED BY <2>1, <2>4, <2>5, <2>6
<1>34. StopsAtBreak'
  <2>1. SUFFICES ASSUME ~failed' PROVE SoundUpTo((file.pos + Bytes - 1) \div ClusterBytes)
    <3>1. (file'.pos - 1) \div ClusterBytes' = (file.pos + Bytes - 1) \div ClusterBytes
      <4>1. ClusterBytes' = ClusterBytes
        BY <1>2, SameVolume
      <4>2. file'.pos - 1 = file.pos + Bytes - 1
        BY <1>1, <1>5, <1>13
      <4> QED BY <4>1, <4>2
    <3>2. SoundUpTo((file.pos - 1) \div ClusterBytes)' <=> SoundUpTo((file.pos + Bytes - 1) \div ClusterBytes)
      BY <1>2, <3>1, SameVolume, SameFile DEF SoundUpTo
    <3> QED BY <3>2 DEF StopsAtBreak
  <2>2. ~failed
    BY <1>12, <2>1, Zenon
  <2> QED BY <1>31, <1>33, <2>2
<1> QED BY <1>17, <1>18, <1>19, <1>20, <1>25, <1>26, <1>29, <1>30, <1>32, <1>34

LEMMA Stutter ==
  ASSUME IInv, UNCHANGED vars
  PROVE  IInv'
<1> USE DEF IInv, vars
<1>1. TypeOK'
  BY DEF TypeOK
<1>2. MountedFits' /\ OfOpen' /\ InRead'
  BY SameFits DEF OfOpen, InRead
<1>3. Cursor'
  BY SameVolume, SameFile DEF Cursor, OnChain, Placed, SectorInCluster
<1>4. DeliversFile'
  BY SameFile DEF DeliversFile
<1>5. Stopped' /\ FailsOnlyAtTheEnd'
  BY SameVolume, SameFile DEF Stopped, FailsOnlyAtTheEnd
<1>6. Passed' /\ StopsAtBreak'
  BY SamePlace
<1> QED BY <1>1, <1>2, <1>3, <1>4, <1>5, <1>6

LEMMA NextIInv == IInv /\ [Next]_vars => IInv'
<1>1. SUFFICES ASSUME IInv, [Next]_vars PROVE IInv'
  OBVIOUS
<1>2. CASE Mount
  BY <1>1, <1>2, MountStep
<1>3. CASE \E path \in Asked : Open(path)
  BY <1>1, <1>3, OpenStep
<1>4. CASE \E sz \in Request : Read(sz)
  BY <1>1, <1>4, ReadStep
<1>5. CASE ReadPiece
  BY <1>1, <1>5, PieceStep
<1>6. CASE ReadEnd
  BY <1>1, <1>6, EndStep
<1>7. CASE Close
  BY <1>1, <1>7, CloseStep
<1>8. CASE UNCHANGED vars
  BY <1>1, <1>8, Stutter
<1> QED BY <1>1, <1>2, <1>3, <1>4, <1>5, <1>6, <1>7, <1>8 DEF Next

-----------------------------------------------------------------------------
\* The theorems

\* The inductive invariant, of mounting, opening, reading and closing in any
\* order (fatfs.c:53-176, 178-251, 307-351).
THEOREM FatInvariance == Spec => []IInv
BY InitIInv, NextIInv, PTL DEF Spec

\* No position lies behind the end of its file, and every count of sectors has
\* its sixteen bits, on every volume.
THEOREM FatTypeCorrect == Spec => []TypeOK
<1>1. IInv => TypeOK
  BY DEF IInv
<1> QED BY <1>1, FatInvariance, PTL

\* A volume that is mounted lies inside the flash it names, whatever its boot
\* sector says (fatfs.c:204-251).
THEOREM MountedAlwaysFits == Spec => []MountedFits
<1>1. IInv => MountedFits
  BY DEF IInv
<1> QED BY <1>1, FatInvariance, PTL

\* The bytes a read delivers are those of the file from the position on, for
\* every chain of clusters and every division of the file into reads
\* (fatfs.c:105-176, 307-351).
THEOREM ReadsDeliverFile == Spec => []DeliversFile
<1>1. IInv => DeliversFile
  BY DEF IInv
<1> QED BY <1>1, FatInvariance, PTL

\* The cached sector and the count of those left in the cluster are those of the
\* position (fatfs.c:121-169).
THEOREM CursorAlwaysPosition == Spec => []CursorIsPosition
<1>1. IInv => CursorIsPosition
  <2>1. SUFFICES ASSUME IInv, opened # Nothing, file.currsect # 0, file.pos < file.size, ~failed
                 PROVE  /\ file.currclust = ChainCluster(file.pos \div ClusterBytes)
                        /\ file.currsect = FileByte(file.pos)[1]
                        /\ file.sectsinclust
                             = SectPerClust - ((file.pos \div SectorSize) % SectPerClust)
    BY DEF CursorIsPosition
  <2>2. OnChain /\ Placed
    BY <2>1 DEF IInv, Cursor
  <2>3. SectPerClust \in Nat \ {0} /\ file.pos \in Nat
    BY <2>1, OpenFact, TypeFact DEF IInv
  <2>4. /\ file.pos \div ClusterBytes = (file.pos \div SectorSize) \div SectPerClust
        /\ FileByte(file.pos) =
             <<SectOfClust(ChainCluster((file.pos \div SectorSize) \div SectPerClust))
                 + ((file.pos \div SectorSize) % SectPerClust), file.pos % SectorSize>>
    BY <2>3, FileByteFact
  <2> QED BY <2>2, <2>4 DEF OnChain, Placed, SectorInCluster
<1> QED BY <1>1, FatInvariance, PTL

\* A read of a file whose directory entry and chain name clusters of the volume
\* fails only behind the last byte of the file, or where it goes on in one of the
\* last two clusters of the volume (fatfs.c:162-167, 312-313).
THEOREM FailsAtTheEnd == Spec => []FailsOnlyAtTheEnd
<1>1. IInv => FailsOnlyAtTheEnd
  BY DEF IInv
<1> QED BY <1>1, FatInvariance, PTL

\* No read of a file gets past a cluster behind which its chain is broken, or past
\* the first where its directory entry names none (fatfs.c:90, 162-167, 312-313).
THEOREM AlwaysStopsAtBreak == Spec => []StopsAtBreak
<1>1. IInv => StopsAtBreak
  BY DEF IInv
<1> QED BY <1>1, FatInvariance, PTL

-----------------------------------------------------------------------------
\* Paths

\* A function that follows the loop of __path2dirent up to its n-th character.
IsScan(g, t, n) == g = [k \in 0 .. n |-> IF k = 0 THEN Scan ELSE Round(g[k - 1], t[k])]

LEMMA ScanValues ==
  ASSUME NEW g, NEW t, NEW n \in Nat, IsScan(g, t, n)
  PROVE  g[0] = Scan /\ \A i \in 0 .. n : i > 0 => g[i] = Round(g[i - 1], t[i])
<1>1. \A i \in 0 .. n : g[i] = IF i = 0 THEN Scan ELSE Round(g[i - 1], t[i])
  BY DEF IsScan
<1> QED BY <1>1

\* There is such a function for every path and every n.
LEMMA ScanExists == \A t : \A n \in Nat : \E g : IsScan(g, t, n)
<1> TAKE t
<1> DEFINE Bad == {n \in Nat : ~ \E g : IsScan(g, t, n)}
<1>1. SUFFICES ASSUME Bad # {} PROVE FALSE
  OBVIOUS
<1>2. PICK n \in Bad : \A k \in Bad : n <= k
  BY <1>1, LeastNat
<1>3. n \in Nat /\ ~ \E g : IsScan(g, t, n)
  BY <1>2
<1>4. CASE n = 0
  <2>1. IsScan([i \in 0 .. 0 |-> Scan], t, 0)
    BY DEF IsScan
  <2> QED BY <1>3, <1>4, <2>1
<1>5. CASE n # 0
  <2>1. n - 1 \in Nat /\ ~ (n <= n - 1)
    BY <1>3, <1>5
  <2>2. PICK g : IsScan(g, t, n - 1)
    BY <1>2, <2>1
  <2> DEFINE h == [i \in 0 .. n |-> IF i = n THEN Round(g[n - 1], t[n]) ELSE g[i]]
  <2>3. \A i \in 0 .. n - 1 : g[i] = IF i = 0 THEN Scan ELSE Round(g[i - 1], t[i])
    BY <2>1, <2>2 DEF IsScan
  <2>4. ASSUME NEW i \in 0 .. n
        PROVE  h[i] = IF i = 0 THEN Scan ELSE Round(h[i - 1], t[i])
    <3>1. CASE i = n
      <4>1. h[n - 1] = g[n - 1]
        BY <1>3, <1>5
      <4> QED BY <1>3, <1>5, <3>1, <4>1
    <3>2. CASE i # n
      <4>1. i \in 0 .. n - 1 /\ h[i] = g[i]
        BY <1>3, <3>2
      <4>2. i # 0 => h[i - 1] = g[i - 1]
        BY <1>3, <4>1
      <4> QED BY <2>3, <4>1, <4>2
    <3> QED BY <3>1, <3>2
  <2>5. h = [i \in 0 .. n |-> IF i = 0 THEN Scan ELSE Round(h[i - 1], t[i])]
    <3> DEFINE r == [i \in 0 .. n |-> IF i = 0 THEN Scan ELSE Round(h[i - 1], t[i])]
    <3>1. \A i \in 0 .. n : h[i] = r[i]
      <4> HIDE DEF h
      <4> QED BY <2>4
    <3> QED BY <3>1
  <2>6. IsScan(h, t, n)
    <3> HIDE DEF h
    <3> QED BY <2>5 DEF IsScan
  <2> QED BY <1>3, <2>6
<1> QED BY <1>4, <1>5

\* Two of them agree as far as both go.
LEMMA ScansAgree ==
  ASSUME NEW t, NEW m \in Nat, NEW n \in Nat, NEW g, NEW h, IsScan(g, t, m), IsScan(h, t, n)
  PROVE  \A k \in Nat : k <= m /\ k <= n => g[k] = h[k]
<1> DEFINE Bad == {k \in Nat : k <= m /\ k <= n /\ g[k] # h[k]}
<1>1. SUFFICES ASSUME Bad # {} PROVE FALSE
  OBVIOUS
<1>2. PICK k \in Bad : \A j \in Bad : k <= j
  BY <1>1, LeastNat
<1>3. k \in Nat /\ k <= m /\ k <= n /\ g[k] # h[k]
  BY <1>2
<1>4. k # 0
  BY <1>3, ScanValues
<1>5. k - 1 \in Nat /\ ~ (k <= k - 1) /\ k - 1 <= m /\ k - 1 <= n
  BY <1>3, <1>4
<1>6. g[k - 1] = h[k - 1]
  BY <1>2, <1>5
<1>7. k \in 0 .. m /\ k \in 0 .. n /\ k > 0
  BY <1>3, <1>4
<1>8. g[k] = Round(g[k - 1], t[k]) /\ h[k] = Round(h[k - 1], t[k])
  BY <1>7, ScanValues
<1> QED BY <1>3, <1>6, <1>8

LEMMA ScanningDefined ==
  ASSUME NEW t, NEW k \in Nat
  PROVE  \E g : IsScan(g, t, k) /\ Scanning(t, k) = g[k]
<1> DEFINE g == CHOOSE f : IsScan(f, t, k)
<1>1. IsScan(g, t, k)
  BY ScanExists
<1>2. Scanning(t, k) = g[k]
  BY DEF Scanning, IsScan
<1> QED BY <1>1, <1>2

\* What the loop does with a character more.
LEMMA ScanningFact ==
  ASSUME NEW t
  PROVE  Scanning(t, 0) = Scan /\ \A k \in Nat : Scanning(t, k + 1) = Round(Scanning(t, k), t[k + 1])
<1>1. Scanning(t, 0) = Scan
  <2>1. PICK g : IsScan(g, t, 0) /\ Scanning(t, 0) = g[0]
    BY ScanningDefined
  <2> QED BY <2>1, ScanValues
<1>2. ASSUME NEW k \in Nat PROVE Scanning(t, k + 1) = Round(Scanning(t, k), t[k + 1])
  <2>1. PICK g : IsScan(g, t, k) /\ Scanning(t, k) = g[k]
    BY ScanningDefined
  <2>2. k + 1 \in Nat /\ k + 1 \in 0 .. k + 1 /\ k + 1 > 0 /\ (k + 1) - 1 = k /\ k <= k + 1
    OBVIOUS
  <2>3. PICK h : IsScan(h, t, k + 1) /\ Scanning(t, k + 1) = h[k + 1]
    BY <2>2, ScanningDefined
  <2>4. h[k + 1] = Round(h[k], t[k + 1])
    BY <2>2, <2>3, ScanValues
  <2>5. g[k] = h[k]
    BY <2>1, <2>2, <2>3, ScansAgree
  <2> QED BY <2>1, <2>3, <2>4, <2>5
<1> QED BY <1>1, <1>2

LEMMA UptoFact ==
  ASSUME NEW C, NEW path \in Seq(C), NEW ch
  PROVE  /\ Upto(path, ch) \in Seq(C) /\ Len(Upto(path, ch)) <= Len(path)
         /\ \A k \in 1 .. Len(Upto(path, ch)) : Upto(path, ch)[k] = path[k] /\ path[k] # ch
         /\ Len(Upto(path, ch)) < Len(path) => path[Len(Upto(path, ch)) + 1] = ch
<1> DEFINE ends == {k \in DOMAIN path : path[k] = ch}
           u == Upto(path, ch)
<1>1. Len(path) \in Nat /\ DOMAIN path = 1 .. Len(path)
  BY LenProperties
<1>2. CASE ends = {}
  <2>1. u = path
    BY <1>2 DEF Upto
  <2>2. \A k \in 1 .. Len(path) : path[k] # ch
    BY <1>1, <1>2
  <2> HIDE DEF u
  <2>3. QED
    BY <1>1, <2>1, <2>2 DEF u
<1>3. CASE ends # {}
  <2> DEFINE e == CHOOSE k \in ends : \A j \in ends : k <= j
  <2>1. ends \in SUBSET Nat
    BY <1>1
  <2>2. \E k \in ends : \A j \in ends : k <= j
    BY <1>3, <2>1, LeastNat
  <2>3. e \in ends /\ \A j \in ends : e <= j
    BY <2>2
  <2>4. u = SubSeq(path, 1, e - 1)
    BY <1>3 DEF Upto
  <2> HIDE DEF e
  <2>5. e \in 1 .. Len(path) /\ path[e] = ch
    BY <1>1, <2>3
  <2>6. \A k \in 1 .. e - 1 : k \in DOMAIN path /\ path[k] # ch
    BY <1>1, <2>3, <2>5
  <2>7. /\ u \in Seq(C) /\ Len(u) = IF 1 <= e - 1 THEN e - 1 - 1 + 1 ELSE 0
        /\ \A i \in 1 .. e - 1 - 1 + 1 : u[i] = path[1 + i - 1]
    <3> HIDE DEF u, ends
    <3>1. \A i \in 1 .. e - 1 : i \in 1 .. Len(path)
      BY <1>1, <2>5
    <3>2. QED
      BY <1>1, <2>4, <2>5, <3>1, SubSeqProperties
  <2> HIDE DEF u, ends
  <2>8. Len(u) = e - 1 /\ \A i \in 1 .. e - 1 : u[i] = path[i]
    BY <2>5, <2>7
  <2>9. QED
    BY <1>1, <2>5, <2>6, <2>7, <2>8 DEF u
<1>4. QED
  BY <1>2, <1>3

\* The parts of a path as Name83 has them.
First(path) == Upto(path, "/")
BaseOf(path) == Upto(First(path), ".")
ExtOf(path) == SubSeq(First(path), Len(BaseOf(path)) + 2, Len(First(path)))

\* The first m characters of chars are a name whose first part ends after b.
Splits(chars, b, m) ==
  /\ b \in Nat /\ m \in Nat /\ b <= m
  /\ \A k \in 1 .. m : chars[k] # "/" /\ chars[k] # End
  /\ \A k \in 1 .. b : chars[k] # "."
  /\ b < m => chars[b + 1] = "."
  /\ chars[m + 1] = "/" \/ chars[m + 1] = End

LEMMA SplitFact ==
  ASSUME NEW path \in Seq(STRING \ {End})
  PROVE  LET chars == Append(path, End)
             b == Len(BaseOf(path))
             m == Len(First(path))
         IN  /\ Splits(chars, b, m) /\ m <= Len(path) /\ Len(path) \in Nat
             /\ m < Len(path) => chars[m + 1] = "/"
             /\ \A k \in 1 .. b : BaseOf(path)[k] = chars[k]
             /\ Len(ExtOf(path)) = IF b < m THEN m - b - 1 ELSE 0
             /\ \A k \in 1 .. m - b - 1 : ExtOf(path)[k] = chars[b + 1 + k]
<1> DEFINE C == STRING \ {End}
           chars == Append(path, End)
           n == Len(path)
           first == First(path)
           base == BaseOf(path)
           ext == ExtOf(path)
           b == Len(base)
           m == Len(first)
<1>1. n \in Nat /\ chars[n + 1] = End /\ \A k \in 1 .. n : chars[k] = path[k] /\ path[k] # End
  BY AppendProperties, LenProperties
<1>2. /\ first \in Seq(C) /\ m <= n
      /\ \A k \in 1 .. m : first[k] = path[k] /\ path[k] # "/"
      /\ m < n => path[m + 1] = "/"
  BY UptoFact DEF First
<1>3. m \in Nat
  BY <1>2, LenProperties
<1>4. /\ base \in Seq(C) /\ b <= m
      /\ \A k \in 1 .. b : base[k] = first[k] /\ first[k] # "."
      /\ b < m => first[b + 1] = "."
  <2> HIDE DEF first, C
  <2> QED
    BY <1>2, UptoFact DEF BaseOf, first
<1>5. b \in Nat
  BY <1>4, LenProperties
<1>6. ext = SubSeq(first, b + 2, m)
  BY DEF ExtOf
<1> HIDE DEF chars, n, first, base, b, m, ext, C
<1>7. /\ Len(ext) = IF b + 2 <= m THEN m - (b + 2) + 1 ELSE 0
      /\ \A i \in 1 .. m - (b + 2) + 1 : ext[i] = first[b + 2 + i - 1]
  <2>1. \A i \in b + 2 .. m : i \in 1 .. Len(first)
    BY <1>3, <1>5 DEF m
  <2>2. QED
    BY <1>2, <1>3, <1>5, <1>6, <2>1, SubSeqProperties
<1>8. /\ Len(ext) = IF b < m THEN m - b - 1 ELSE 0
      /\ \A i \in 1 .. m - b - 1 : ext[i] = first[b + 1 + i]
  <2>1. /\ m - (b + 2) + 1 = m - b - 1 /\ (b < m /\ ~(b + 2 <= m) => m - b - 1 = 0)
        /\ (b + 2 <= m => b < m) /\ \A i \in 1 .. m - b - 1 : b + 2 + i - 1 = b + 1 + i
    BY <1>3, <1>5
  <2>2. QED
    BY <1>3, <1>5, <1>7, <2>1
<1>9. \A k \in 1 .. m : chars[k] = first[k] /\ chars[k] # "/" /\ chars[k] # End
  BY <1>1, <1>2, <1>3
<1>10. m < n => chars[m + 1] = "/"
  BY <1>1, <1>2, <1>3
<1>11. chars[m + 1] = "/" \/ chars[m + 1] = End
  <2>1. m < n \/ m + 1 = n + 1
    BY <1>1, <1>2, <1>3
  <2>2. QED
    BY <1>1, <1>10, <2>1
<1>12. \A k \in 1 .. b : base[k] = chars[k] /\ chars[k] # "."
  BY <1>3, <1>4, <1>5, <1>9
<1>13. b < m => chars[b + 1] = "."
  BY <1>3, <1>4, <1>5, <1>9
<1>14. \A k \in 1 .. m - b - 1 : ext[k] = chars[b + 1 + k]
  BY <1>3, <1>4, <1>5, <1>8, <1>9
<1>15. Splits(chars, b, m)
  BY <1>3, <1>4, <1>5, <1>9, <1>11, <1>12, <1>13, Zenon DEF Splits
<1>16. QED
  BY <1>1, <1>2, <1>8, <1>10, <1>12, <1>14, <1>15 DEF chars, n, first, base, b, m, ext

\* What the loop has made of the first j characters, if it can make a name of them.
Name(chars, b, j) ==
  [i \in 1 .. NameLen |->
     IF i <= BaseLen THEN IF i <= j /\ i <= b THEN ToUpper(chars[i]) ELSE " "
     ELSE IF b + 1 + i - BaseLen <= j THEN ToUpper(chars[b + 1 + i - BaseLen]) ELSE " "]
After(chars, b, j) ==
  [name |-> Name(chars, b, j), ndx |-> IF j <= b THEN j ELSE BaseLen + j - b - 1,
   endndx |-> IF j <= b THEN BaseLen ELSE NameLen, is |-> "open"]
Plain(chars, b, j) == \A k \in 1 .. j : k = b + 1 \/ chars[k] \notin Refused
Short(b, j) == IF j <= b THEN j <= BaseLen ELSE b <= BaseLen /\ j - b - 1 <= ExtLen
Fits(chars, b, j) == Plain(chars, b, j) /\ Short(b, j)

LEMMA LengthFact ==
  BaseLen \in Nat \ {0} /\ ExtLen \in Nat \ {0} /\ NameLen = BaseLen + ExtLen /\ NameLen # BaseLen
BY FatFsAssumption DEF NameLen

\* A round of the loop, by what it finds.
LEMMA RoundFact ==
  ASSUME NEW s, NEW ch
  PROVE  /\ s.is # "open" => Round(s, ch) = s
         /\ s.is = "open" /\ s.ndx # 0 /\ (ch = "/" \/ ch = End) => Round(s, ch) = [s EXCEPT !.is = "found"]
         /\ s.is = "open" /\ s.ndx = 0 /\ ch = "/" => Round(s, ch) = [s EXCEPT !.is = "refused"]
         /\ s.is = "open" /\ ch = "." /\ s.endndx = BaseLen =>
              Round(s, ch) = [s EXCEPT !.ndx = BaseLen, !.endndx = NameLen]
         /\ s.is = "open" /\ ch # "/" /\ ch # End /\ ~(ch = "." /\ s.endndx = BaseLen) =>
              Round(s, ch) = IF ch \in Refused \/ s.ndx >= s.endndx THEN [s EXCEPT !.is = "refused"]
                             ELSE [s EXCEPT !.name[s.ndx + 1] = ToUpper(ch), !.ndx = @ + 1]
<1>1. "/" # "." /\ "." # End /\ "/" # End /\ "/" \in Refused
  BY DEF End, Refused
<1>2. QED
  BY <1>1, Zenon DEF Round

\* A character more of the base, the dot, a character more of the extension.
LEMMA NameGrows ==
  ASSUME NEW chars, NEW b \in Nat, NEW j \in Nat, j # b,
         NEW place, place = IF j < b THEN j + 1 ELSE BaseLen + j - b,
         IF j < b THEN j < BaseLen ELSE j - b <= ExtLen
  PROVE  Name(chars, b, j + 1) = [Name(chars, b, j) EXCEPT ![place] = ToUpper(chars[j + 1])]
<1> DEFINE base(i, l) == i <= l /\ i <= b
           at(i) == b + 1 + i - BaseLen
           ext(i, l) == at(i) <= l
           col(i, l) ==
             IF i <= BaseLen THEN IF base(i, l) THEN ToUpper(chars[i]) ELSE " "
             ELSE IF ext(i, l) THEN ToUpper(chars[at(i)]) ELSE " "
<1>1. \A l : Name(chars, b, l) = [i \in 1 .. NameLen |-> col(i, l)]
  BY DEF Name
<1>2. ASSUME NEW i \in 1 .. NameLen
      PROVE  col(i, j + 1) = IF i = place THEN ToUpper(chars[j + 1]) ELSE col(i, j)
  <2>1. CASE j < b
    <3>1. /\ i = place => i = j + 1 /\ i <= BaseLen /\ base(i, j + 1)
          /\ i # place => (base(i, j + 1) <=> base(i, j))
          /\ ~(i <= BaseLen) => ~ext(i, j + 1) /\ ~ext(i, j)
      BY <2>1, LengthFact
    <3> HIDE DEF base, ext, at
    <3>2. QED
      BY <3>1, Zenon
  <2>2. CASE ~(j < b)
    <3>1. /\ i = place => ~(i <= BaseLen) /\ ext(i, j + 1) /\ at(i) = j + 1
          /\ ~(i <= BaseLen) /\ i # place => (ext(i, j + 1) <=> ext(i, j))
          /\ base(i, j + 1) <=> base(i, j)
      BY <2>2, LengthFact
    <3> HIDE DEF base, ext, at
    <3>2. QED
      BY <3>1, Zenon
  <2>3. QED
    BY <2>1, <2>2
<1> HIDE DEF col
<1>3. Name(chars, b, j + 1) = [i \in 1 .. NameLen |-> col(i, j + 1)]
  BY <1>1
<1>4. Name(chars, b, j) = [i \in 1 .. NameLen |-> col(i, j)]
  BY <1>1
<1>5. QED
  BY <1>2, <1>3, <1>4

LEMMA NameAtDot ==
  ASSUME NEW chars, NEW b \in Nat
  PROVE  Name(chars, b, b + 1) = Name(chars, b, b)
<1> DEFINE base(i, l) == i <= l /\ i <= b
           at(i) == b + 1 + i - BaseLen
           ext(i, l) == at(i) <= l
           col(i, l) ==
             IF i <= BaseLen THEN IF base(i, l) THEN ToUpper(chars[i]) ELSE " "
             ELSE IF ext(i, l) THEN ToUpper(chars[at(i)]) ELSE " "
<1>1. \A l : Name(chars, b, l) = [i \in 1 .. NameLen |-> col(i, l)]
  BY DEF Name
<1>2. ASSUME NEW i \in 1 .. NameLen PROVE col(i, b + 1) = col(i, b)
  <2>1. (base(i, b + 1) <=> base(i, b)) /\ (~(i <= BaseLen) => ~ext(i, b + 1) /\ ~ext(i, b))
    BY LengthFact
  <2> HIDE DEF base, ext, at
  <2>2. QED
    BY <2>1, Zenon
<1> HIDE DEF col
<1>3. Name(chars, b, b + 1) = [i \in 1 .. NameLen |-> col(i, b + 1)]
  BY <1>1
<1>4. Name(chars, b, b) = [i \in 1 .. NameLen |-> col(i, b)]
  BY <1>1
<1>5. QED
  BY <1>2, <1>3, <1>4

\* The loop at the j-th character of its first m.
Reached(chars, b, j) ==
  IF Fits(chars, b, j) THEN Scanning(chars, j) = After(chars, b, j)
  ELSE Scanning(chars, j).is = "refused"

LEMMA ScanStarts ==
  ASSUME NEW chars, NEW b \in Nat
  PROVE  Reached(chars, b, 0)
<1>1. Fits(chars, b, 0)
  BY LengthFact DEF Fits, Plain, Short
<1>2. Name(chars, b, 0) = Blanks
  <2>1. \A i \in 1 .. NameLen : ~(i <= 0 /\ i <= b) /\ (~(i <= BaseLen) => ~(b + 1 + i - BaseLen <= 0))
    BY LengthFact
  <2>2. QED
    BY <2>1 DEF Name, Blanks
<1>3. After(chars, b, 0) = Scan
  BY <1>2 DEF After, Scan
<1>4. QED
  BY <1>1, <1>3, ScanningFact DEF Reached

LEMMA AfterFields ==
  ASSUME NEW chars, NEW b, NEW j
  PROVE  /\ After(chars, b, j).is = "open" /\ After(chars, b, j).name = Name(chars, b, j)
         /\ After(chars, b, j).ndx = IF j <= b THEN j ELSE BaseLen + j - b - 1
         /\ After(chars, b, j).endndx = IF j <= b THEN BaseLen ELSE NameLen
BY DEF After

LEMMA ScanGoesOn ==
  ASSUME NEW chars, NEW b, NEW m, Splits(chars, b, m), NEW j \in Nat, j < m, Reached(chars, b, j)
  PROVE  Reached(chars, b, j + 1)
<1> DEFINE s == Scanning(chars, j)
           ch == chars[j + 1]
           t == Scanning(chars, j + 1)
<1>1. t = Round(s, ch)
  BY ScanningFact
<1>2. /\ b \in Nat /\ m \in Nat /\ b <= m /\ j + 1 \in 1 .. m
      /\ ch # "/" /\ ch # End /\ (j < b => ch # ".") /\ (j = b => ch = ".")
  BY DEF Splits
<1>3. "refused" # "open" /\ "." \in Refused
  BY DEF Refused
<1>4. CASE ~Fits(chars, b, j)
  <2>1. s.is = "refused"
    BY <1>4 DEF Reached
  <2>2. t = s
    BY <1>1, <1>3, <2>1, RoundFact
  <2>3. ~Fits(chars, b, j + 1)
    <3>1. SUFFICES ASSUME Fits(chars, b, j + 1) PROVE Fits(chars, b, j)
      BY <1>4
    <3>2. Plain(chars, b, j)
      BY <3>1 DEF Fits, Plain
    <3>3. Short(b, j + 1)
      BY <3>1 DEF Fits
    <3>4. Short(b, j)
      BY <1>2, <3>3, LengthFact DEF Short
    <3>5. QED
      BY <3>2, <3>4 DEF Fits
  <2>4. QED
    BY <2>1, <2>2, <2>3 DEF Reached
<1>5. CASE Fits(chars, b, j)
  <2>1. s = After(chars, b, j) /\ s.is = "open"
    BY <1>5, AfterFields DEF Reached
  <2>2. /\ s.ndx = IF j <= b THEN j ELSE BaseLen + j - b - 1
        /\ s.endndx = IF j <= b THEN BaseLen ELSE NameLen
        /\ s.name = Name(chars, b, j)
    BY <2>1, AfterFields
  <2>3. Plain(chars, b, j) /\ Short(b, j)
    BY <1>5 DEF Fits
  <2>4. CASE j = b
    <3>1. t = [s EXCEPT !.ndx = BaseLen, !.endndx = NameLen]
      <4>1. s.endndx = BaseLen /\ ch = "."
        BY <1>2, <2>2, <2>4
      <4>2. Round(s, ch) = [s EXCEPT !.ndx = BaseLen, !.endndx = NameLen]
        <5> HIDE DEF s, ch
        <5>1. QED
          BY <2>1, <4>1, RoundFact, Zenon
      <4>3. QED
        BY <1>1, <4>2, Zenon
    <3>2. Name(chars, b, j + 1) = Name(chars, b, j)
      BY <1>2, <2>4, NameAtDot
    <3>3. t = After(chars, b, j + 1)
      <4>1. ~(j + 1 <= b) /\ BaseLen + (j + 1) - b - 1 = BaseLen
        BY <1>2, <2>4, LengthFact
      <4>2. s = [name |-> s.name, ndx |-> s.ndx, endndx |-> s.endndx, is |-> "open"]
        BY <2>1, Zenon DEF After
      <4>3. t = [name |-> s.name, ndx |-> BaseLen, endndx |-> NameLen, is |-> "open"]
        <5> HIDE DEF s, t
        <5>1. t = [[s EXCEPT !.ndx = BaseLen] EXCEPT !.endndx = NameLen]
          BY <3>1
        <5>2. [s EXCEPT !.ndx = BaseLen]
                = [name |-> s.name, ndx |-> BaseLen, endndx |-> s.endndx, is |-> "open"]
          BY <4>2
        <5>3. QED
          BY <5>1, <5>2
      <4>4. QED
        BY <2>2, <3>2, <4>1, <4>3, Zenon DEF After
    <3>4. Fits(chars, b, j + 1)
      <4>1. Plain(chars, b, j + 1)
        BY <1>2, <2>3, <2>4 DEF Plain
      <4>2. Short(b, j + 1)
        BY <1>2, <2>3, <2>4, LengthFact DEF Short
      <4>3. QED
        BY <4>1, <4>2 DEF Fits
    <3>5. QED
      BY <3>3, <3>4 DEF Reached
  <2>5. CASE j # b
    <3>1. ~(ch = "." /\ s.endndx = BaseLen)
      BY <1>2, <2>2, <2>5, LengthFact
    <3>2. t = IF ch \in Refused \/ s.ndx >= s.endndx THEN [s EXCEPT !.is = "refused"]
              ELSE [s EXCEPT !.name[s.ndx + 1] = ToUpper(ch), !.ndx = @ + 1]
      BY <1>1, <1>2, <2>1, <3>1, RoundFact
    <3>3. s.ndx < s.endndx <=> IF j < b THEN j + 1 <= BaseLen ELSE j + 1 - b - 1 <= ExtLen
      BY <1>2, <2>2, <2>5, LengthFact
    <3>4. ~(s.ndx < s.endndx) <=> s.ndx >= s.endndx
      BY <1>2, <2>2, LengthFact
    <3>5. Fits(chars, b, j + 1) <=> ch \notin Refused /\ s.ndx < s.endndx
      <4>1. Plain(chars, b, j + 1) <=> ch \notin Refused
        BY <1>2, <2>3, <2>5 DEF Plain
      <4>2. Short(b, j + 1) <=> IF j < b THEN j + 1 <= BaseLen ELSE j + 1 - b - 1 <= ExtLen
        BY <1>2, <2>3, <2>5, LengthFact DEF Short
      <4>3. QED
        BY <3>3, <4>1, <4>2, Zenon DEF Fits
    <3>6. CASE ch \in Refused \/ s.ndx >= s.endndx
      <4>1. t.is = "refused"
        BY <2>1, <3>2, <3>6 DEF After
      <4>2. QED
        BY <3>4, <3>5, <3>6, <4>1, Zenon DEF Reached
    <3>7. CASE ~(ch \in Refused \/ s.ndx >= s.endndx)
      <4>1. t = [s EXCEPT !.name[s.ndx + 1] = ToUpper(ch), !.ndx = @ + 1]
        BY <3>2, <3>7
      <4>2. Name(chars, b, j + 1) = [s.name EXCEPT ![s.ndx + 1] = ToUpper(ch)]
        <5>1. j + 1 \in Nat /\ s.ndx + 1 = IF j < b THEN j + 1 ELSE BaseLen + j - b
          BY <1>2, <2>2, <2>5, LengthFact
        <5>2. IF j < b THEN j < BaseLen ELSE j - b <= ExtLen
          BY <1>2, <2>5, <3>3, <3>4, <3>7, LengthFact
        <5> HIDE DEF s
        <5>3. Name(chars, b, j + 1) = [Name(chars, b, j) EXCEPT ![s.ndx + 1] = ToUpper(chars[j + 1])]
          BY <1>2, <2>5, <5>1, <5>2, NameGrows
        <5>4. QED
          BY <2>2, <5>3
      <4>3. /\ s.ndx + 1 = IF j + 1 <= b THEN j + 1 ELSE BaseLen + (j + 1) - b - 1
            /\ s.endndx = IF j + 1 <= b THEN BaseLen ELSE NameLen
        BY <1>2, <2>2, <2>5, LengthFact
      <4>4. t = After(chars, b, j + 1)
        BY <2>1, <4>1, <4>2, <4>3 DEF After
      <4>5. QED
        BY <3>4, <3>5, <3>7, <4>4, Zenon DEF Reached
    <3>8. QED
      BY <3>6, <3>7
  <2>6. QED
    BY <2>4, <2>5
<1>6. QED
  BY <1>4, <1>5

LEMMA ScanReaches ==
  ASSUME NEW chars, NEW b, NEW m, Splits(chars, b, m)
  PROVE  \A j \in 0 .. m : Reached(chars, b, j)
<1> DEFINE Bad == {j \in 0 .. m : ~Reached(chars, b, j)}
<1>1. b \in Nat /\ m \in Nat
  BY DEF Splits
<1>2. SUFFICES ASSUME Bad # {} PROVE FALSE
  OBVIOUS
<1>3. Bad \in SUBSET Nat
  BY <1>1
<1>4. PICK j \in Bad : \A k \in Bad : j <= k
  BY <1>2, <1>3, LeastNat
<1>5. j \in 0 .. m /\ ~Reached(chars, b, j)
  BY <1>4
<1>6. j # 0
  BY <1>1, <1>5, ScanStarts
<1>7. j - 1 \in Nat /\ j - 1 \in 0 .. m /\ ~(j <= j - 1) /\ j - 1 < m /\ j - 1 + 1 = j
  BY <1>1, <1>5, <1>6
<1>8. Reached(chars, b, j - 1)
  BY <1>4, <1>7
<1>9. Reached(chars, b, j - 1 + 1)
  BY <1>7, <1>8, ScanGoesOn
<1>10. QED
  BY <1>5, <1>7, <1>9

\* Once it has returned the loop does nothing more.
LEMMA ScanReturned ==
  ASSUME NEW chars, NEW l \in Nat, Scanning(chars, l).is # "open"
  PROVE  \A j \in Nat : l <= j => Scanning(chars, j) = Scanning(chars, l)
<1> DEFINE Bad == {j \in Nat : l <= j /\ Scanning(chars, j) # Scanning(chars, l)}
<1>1. SUFFICES ASSUME Bad # {} PROVE FALSE
  OBVIOUS
<1>2. PICK j \in Bad : \A k \in Bad : j <= k
  BY <1>1, LeastNat
<1>3. j \in Nat /\ l <= j /\ Scanning(chars, j) # Scanning(chars, l)
  BY <1>2
<1>4. j - 1 \in Nat /\ l <= j - 1 /\ ~(j <= j - 1) /\ j - 1 + 1 = j
  <2>1. j # l
    BY <1>3
  <2>2. QED
    BY <1>3, <2>1
<1>5. Scanning(chars, j - 1) = Scanning(chars, l)
  BY <1>2, <1>4
<1>6. Scanning(chars, j - 1 + 1) = Round(Scanning(chars, j - 1), chars[j - 1 + 1])
  BY <1>4, ScanningFact
<1>7. Round(Scanning(chars, j - 1), chars[j - 1 + 1]) = Scanning(chars, l)
  BY <1>5, RoundFact, Zenon
<1>8. QED
  BY <1>3, <1>4, <1>6, <1>7

\* What the loop makes of a path, one character after another.
LEMMA PathScanned ==
  ASSUME NEW path \in Seq(STRING \ {End})
  PROVE  LET chars == Append(path, End)
             b == Len(BaseOf(path))
             m == Len(First(path))
         IN  Path2dirent(path) = IF m > 0 /\ Fits(chars, b, m) THEN Name(chars, b, m) ELSE <<>>
<1> DEFINE chars == Append(path, End)
           n == Len(path)
           b == Len(BaseOf(path))
           m == Len(First(path))
           s == Scanning(chars, m)
           t == Scanning(chars, m + 1)
           ch == chars[m + 1]
           z == Scanning(chars, n + 1)
<1>1. Splits(chars, b, m) /\ m <= n /\ n \in Nat /\ (m < n => ch = "/")
  BY SplitFact
<1>2. Path2dirent(path) = IF z.is = "found" THEN z.name ELSE <<>>
  BY DEF Path2dirent
<1> HIDE DEF chars, n, b, m
<1>3. b \in Nat /\ m \in Nat /\ b <= m /\ (ch = "/" \/ ch = End) /\ m + 1 \in Nat /\ n + 1 \in Nat /\ m + 1 <= n + 1
  BY <1>1 DEF Splits
<1>4. t = Round(s, ch)
  BY <1>3, ScanningFact
<1>5. Reached(chars, b, m)
  <2>1. m \in 0 .. m
    BY <1>3
  <2>2. QED
    BY <1>1, <2>1, ScanReaches
<1>6. t.is # "open" => z = t
  BY <1>3, ScanReturned
<1>7. CASE ~Fits(chars, b, m)
  <2>1. s.is = "refused"
    BY <1>5, <1>7 DEF Reached
  <2>2. t = s
    BY <1>4, <2>1, RoundFact
  <2>3. z.is # "found"
    BY <1>6, <2>1, <2>2
  <2>4. QED
    BY <1>2, <1>7, <2>3 DEF chars, b, m
<1>8. CASE Fits(chars, b, m)
  <2>1. s = After(chars, b, m)
    BY <1>5, <1>8 DEF Reached
  <2>2. /\ s.is = "open" /\ s.name = Name(chars, b, m)
        /\ s.ndx = IF m <= b THEN m ELSE BaseLen + m - b - 1
    BY <2>1, AfterFields
  <2>3. s.ndx = 0 <=> m = 0
    BY <1>3, <2>2, LengthFact
  <2>4. CASE m > 0
    <3>1. t = [s EXCEPT !.is = "found"]
      <4>1. s.ndx # 0
        BY <1>3, <2>3, <2>4
      <4>2. Round(s, ch) = [s EXCEPT !.is = "found"]
        <5> HIDE DEF s, ch
        <5>1. QED
          BY <1>3, <2>2, <4>1, RoundFact, Zenon
      <4>3. QED
        BY <1>4, <4>2
    <3>2. t.is = "found" /\ t.name = Name(chars, b, m)
      BY <2>1, <3>1 DEF After
    <3>3. z = t
      BY <1>6, <3>2
    <3>4. QED
      BY <1>2, <1>8, <2>4, <3>2, <3>3 DEF chars, b, m
  <2>5. CASE ~(m > 0)
    <3>1. m = 0 /\ s.ndx = 0
      BY <1>3, <2>3, <2>5
    <3>2. CASE ch = "/"
      <4>1. t = [s EXCEPT !.is = "refused"]
        <5> HIDE DEF s, ch
        <5>1. Round(s, ch) = [s EXCEPT !.is = "refused"]
          BY <2>2, <3>1, <3>2, RoundFact, Zenon
        <5>2. QED
          BY <1>4, <5>1
      <4>2. t.is = "refused"
        BY <2>1, <4>1 DEF After
      <4>3. z.is # "found"
        BY <1>6, <4>2
      <4>4. QED
        BY <1>2, <2>5, <4>3 DEF chars, b, m
    <3>3. CASE ch # "/"
      <4>1. m = n /\ ch = End /\ z = t
        BY <1>1, <1>3, <3>3
      <4>2. t.is = "open"
        <5>1. ~(ch = "." /\ s.endndx = BaseLen) /\ ch \notin Refused /\ ~(s.ndx # 0) /\ ~(s.ndx >= s.endndx)
          <6>1. s.endndx = BaseLen
            BY <2>1, <3>1, <1>3, AfterFields
          <6>2. "\\0" \notin {"*", ".", "/"}
            OBVIOUS
          <6>3. ch # "." /\ ch \notin Refused
            BY <4>1, <6>2 DEF End, Refused
          <6>4. QED
            BY <3>1, <6>1, <6>3, LengthFact
        <5>2. Round(s, ch) = [s EXCEPT !.name[s.ndx + 1] = ToUpper(ch), !.ndx = @ + 1]
          <6> HIDE DEF s, ch
          <6>1. QED
            BY <2>2, <5>1, Zenon DEF Round
        <5>3. Round(s, ch).is = s.is
          BY <2>1, <5>2 DEF After
        <5>4. QED
          BY <1>4, <2>2, <5>3
      <4>3. QED
        BY <1>2, <2>5, <4>1, <4>2 DEF chars, b, m
    <3>4. QED
      BY <3>2, <3>3
  <2>6. QED
    BY <2>4, <2>5
<1>9. QED
  BY <1>7, <1>8

\* The loop of __path2dirent finds the name the path is split into.
LEMMA NamesAgree ==
  ASSUME NEW path \in Seq(STRING \ {End})
  PROVE  Path2dirent(path) = Name83(path)
<1> DEFINE chars == Append(path, End)
           base == BaseOf(path)
           ext == ExtOf(path)
           first == First(path)
           b == Len(base)
           m == Len(first)
           e == Len(ext)
           fine == /\ \A k \in DOMAIN base : base[k] \notin Refused
                   /\ \A k \in DOMAIN ext : ext[k] \notin Refused
                   /\ b <= BaseLen /\ e <= ExtLen
           name == Padded(base, BaseLen) \o Padded(ext, ExtLen)
<1>1. Path2dirent(path) = IF m > 0 /\ Fits(chars, b, m) THEN Name(chars, b, m) ELSE <<>>
  BY PathScanned
<1>2. Name83(path) = IF first # <<>> /\ fine THEN name ELSE <<>>
  BY Zenon DEF Name83, First, BaseOf, ExtOf
<1>3. /\ Splits(chars, b, m)
      /\ \A k \in 1 .. b : base[k] = chars[k]
      /\ e = IF b < m THEN m - b - 1 ELSE 0
      /\ \A k \in 1 .. m - b - 1 : ext[k] = chars[b + 1 + k]
  BY SplitFact
<1>4. /\ first \in Seq(STRING \ {End}) /\ base \in Seq(STRING \ {End})
      /\ ext \in Seq(STRING \ {End})
  <2>1. first \in Seq(STRING \ {End})
    BY UptoFact DEF First
  <2>2. base \in Seq(STRING \ {End})
    BY <2>1, UptoFact DEF BaseOf
  <2>3. ext \in Seq(STRING \ {End})
    <3> HIDE DEF base, first
    <3>1. \A i \in b + 2 .. m : i \in 1 .. m
      BY <2>1, <2>2, LenProperties
    <3>2. ext = SubSeq(first, b + 2, m) /\ b + 2 \in Int /\ m \in Int
      BY <2>1, <2>2, LenProperties DEF ExtOf, base, first
    <3>3. QED
      BY <2>1, <3>1, <3>2, SubSeqProperties
  <2>4. QED
    BY <2>1, <2>2, <2>3
<1>5. /\ m > 0 <=> first # <<>>
      /\ DOMAIN base = 1 .. b /\ DOMAIN ext = 1 .. e
  BY <1>4, LenProperties, EmptySeq
<1> HIDE DEF chars, base, ext, first
<1>6. b \in Nat /\ m \in Nat /\ b <= m /\ e \in Nat
  BY <1>3 DEF Splits
<1>7. Short(b, m) <=> b <= BaseLen /\ e <= ExtLen
  BY <1>3, <1>6, LengthFact DEF Short
<1>8. Plain(chars, b, m) <=>
        (\A k \in 1 .. b : base[k] \notin Refused) /\ (\A k \in 1 .. e : ext[k] \notin Refused)
  <2>1. ASSUME Plain(chars, b, m), NEW k \in 1 .. b PROVE base[k] \notin Refused
    <3>1. k \in 1 .. m /\ k # b + 1
      BY <1>6
    <3>2. QED
      BY <1>3, <2>1, <3>1 DEF Plain
  <2>2. ASSUME Plain(chars, b, m), NEW k \in 1 .. e PROVE ext[k] \notin Refused
    <3>1. b + 1 + k \in 1 .. m /\ b + 1 + k # b + 1 /\ k \in 1 .. m - b - 1
      BY <1>3, <1>6
    <3>2. QED
      BY <1>3, <2>2, <3>1 DEF Plain
  <2>3. ASSUME \A k \in 1 .. b : base[k] \notin Refused, \A k \in 1 .. e : ext[k] \notin Refused,
               NEW k \in 1 .. m, k # b + 1
        PROVE  chars[k] \notin Refused
    <3>1. CASE k <= b
      <4>1. k \in 1 .. b
        BY <1>6, <3>1
      <4>2. QED
        BY <1>3, <2>3, <4>1
    <3>2. CASE ~(k <= b)
      <4>1. PICK i \in 1 .. e : b + 1 + i = k /\ i \in 1 .. m - b - 1
        <5>1. k - b - 1 \in 1 .. e /\ b + 1 + (k - b - 1) = k /\ k - b - 1 \in 1 .. m - b - 1
          BY <1>3, <1>6, <2>3, <3>2
        <5>2. QED
          BY <5>1
      <4>2. QED
        BY <1>3, <2>3, <4>1
    <3>3. QED
      BY <3>1, <3>2
  <2>4. QED
    BY <2>1, <2>2, <2>3 DEF Plain
<1>9. Fits(chars, b, m) <=> fine
  BY <1>5, <1>7, <1>8, Zenon DEF Fits
<1>10. ASSUME fine PROVE Name(chars, b, m) = name
  <2> DEFINE p == Padded(base, BaseLen)
             q == Padded(ext, ExtLen)
             T == {p[i] : i \in 1 .. BaseLen} \cup {q[i] : i \in 1 .. ExtLen}
  <2>1. p \in Seq(T) /\ Len(p) = BaseLen /\ \A i \in 1 .. BaseLen : p[i] = IF i <= b THEN ToUpper(base[i]) ELSE " "
    <3>1. p = [i \in 1 .. BaseLen |-> IF i <= b THEN ToUpper(base[i]) ELSE " "]
      BY DEF Padded
    <3> HIDE DEF p
    <3>2. p = [i \in 1 .. BaseLen |-> p[i]]
      BY <3>1
    <3>3. \A i \in 1 .. BaseLen : p[i] \in T
      OBVIOUS
    <3>4. p \in [1 .. BaseLen -> T]
      <4> HIDE DEF T
      <4>1. QED
        BY <3>2, <3>3
    <3>5. p \in Seq(T) /\ Len(p) = BaseLen
      <4> HIDE DEF T
      <4>1. QED
        BY <3>4, LengthFact
    <3>6. QED
      BY <3>1, <3>5
  <2>2. q \in Seq(T) /\ Len(q) = ExtLen /\ \A i \in 1 .. ExtLen : q[i] = IF i <= e THEN ToUpper(ext[i]) ELSE " "
    <3>1. q = [i \in 1 .. ExtLen |-> IF i <= e THEN ToUpper(ext[i]) ELSE " "]
      BY DEF Padded
    <3> HIDE DEF q
    <3>2. q = [i \in 1 .. ExtLen |-> q[i]]
      BY <3>1
    <3>3. \A i \in 1 .. ExtLen : q[i] \in T
      OBVIOUS
    <3>4. q \in [1 .. ExtLen -> T]
      <4> HIDE DEF T
      <4>1. QED
        BY <3>2, <3>3
    <3>5. q \in Seq(T) /\ Len(q) = ExtLen
      <4> HIDE DEF T
      <4>1. QED
        BY <3>4, LengthFact
    <3>6. QED
      BY <3>1, <3>5
  <2>3. name = p \o q
    OBVIOUS
  <2> HIDE DEF p, q, T, name
  <2>4. /\ p \o q \in Seq(T) /\ Len(p \o q) = BaseLen + ExtLen
        /\ \A i \in 1 .. BaseLen + ExtLen : (p \o q)[i] = IF i <= BaseLen THEN p[i] ELSE q[i - BaseLen]
    BY <2>1, <2>2, ConcatProperties
  <2>5. name \in Seq(T) /\ Len(name) = NameLen
    BY <2>3, <2>4, LengthFact
  <2>6. ASSUME NEW i \in 1 .. NameLen
        PROVE  name[i] = IF i <= BaseLen THEN IF i <= m /\ i <= b THEN ToUpper(chars[i]) ELSE " "
                         ELSE IF b + 1 + i - BaseLen <= m THEN ToUpper(chars[b + 1 + i - BaseLen]) ELSE " "
    <3>1. name[i] = IF i <= BaseLen THEN p[i] ELSE q[i - BaseLen]
      BY <2>3, <2>4, LengthFact
    <3>2. CASE i <= BaseLen
      <4>1. i \in 1 .. BaseLen /\ (i <= m /\ i <= b <=> i <= b) /\ (i <= b => i \in 1 .. b)
        BY <1>6, <3>2, LengthFact
      <4>2. name[i] = IF i <= b THEN ToUpper(base[i]) ELSE " "
        BY <2>1, <3>1, <3>2, <4>1
      <4>3. i <= b => base[i] = chars[i]
        BY <1>3, <4>1
      <4>4. QED
        BY <3>2, <4>1, <4>2, <4>3, Zenon
    <3>3. CASE ~(i <= BaseLen)
      <4>1. PICK c \in 1 .. ExtLen : c = i - BaseLen /\ (c <= e <=> b + 1 + i - BaseLen <= m)
              /\ (c <= e => c \in 1 .. m - b - 1) /\ b + 1 + c = b + 1 + i - BaseLen
        <5>1. i - BaseLen \in 1 .. ExtLen
          BY <3>3, LengthFact
        <5>2. /\ i - BaseLen <= e <=> b + 1 + i - BaseLen <= m
              /\ i - BaseLen <= e => i - BaseLen \in 1 .. m - b - 1
              /\ b + 1 + (i - BaseLen) = b + 1 + i - BaseLen
          BY <1>3, <1>6, <3>3, LengthFact
        <5>3. QED
          BY <5>1, <5>2
      <4>2. name[i] = IF c <= e THEN ToUpper(ext[c]) ELSE " "
        BY <2>2, <3>1, <3>3, <4>1
      <4>3. c <= e => ext[c] = chars[b + 1 + i - BaseLen]
        BY <1>3, <4>1
      <4>4. QED
        BY <3>3, <4>1, <4>2, <4>3
    <3>4. QED
      BY <3>2, <3>3
  <2>7. DOMAIN name = 1 .. NameLen /\ name = [i \in 1 .. NameLen |-> name[i]]
    BY <2>5, LenProperties
  <2>8. QED
    BY <2>6, <2>7 DEF Name
<1>11. QED
  BY <1>1, <1>2, <1>5, <1>9, <1>10, Zenon


\* The slots of the first sector are looked at, and no others; where the root
\* directory has no sector it has no entry.
LEMMA FoundByName ==
  ASSUME volume \in Volumes, NEW name, name # <<>>
  PROVE  Found(name) = {k \in 0 .. PerSector - 1 : Slot(k).name = name}
<1>1. RootDirSect \in Nat
  BY GeometryFact
<1>2. CASE RootDirSect # 0
  <2>1. 0 \in 0 .. RootDirSect - 1
    BY <1>1, <1>2
  <2>2. UNION {Scanned(i) : i \in 0 .. RootDirSect - 1} = 0 .. PerSector - 1
    BY <2>1, Zenon DEF Scanned
  <2>3. QED
    BY <2>2 DEF Found
<1>3. CASE RootDirSect = 0
  <2>1. volume.bpb.rootent = 0
    <3> DEFINE r == volume.bpb.rootent
               x == r * DirentSize + SectorSize - 1
    <3>1. r \in Nat /\ x \in Nat /\ SectorSize \in Nat \ {0} /\ DirentSize \in Nat \ {0}
      <4>1. r \in Nat /\ SectorSize \in Nat \ {0} /\ DirentSize \in Nat \ {0}
        BY VolumeFact, ConstantFact
      <4> HIDE DEF r
      <4>2. r * DirentSize \in Nat
        BY <4>1
      <4>3. QED
        BY <4>1, <4>2
    <3>2. x \div SectorSize = 0
      BY <1>3 DEF RootDirSect
    <3>3. x < SectorSize
      <4> HIDE DEF x
      <4>1. x = (x \div SectorSize) * SectorSize + (x % SectorSize) /\ x % SectorSize < SectorSize
        BY <3>1, DivModFact
      <4>2. QED
        BY <3>1, <3>2, <4>1
    <3>4. r >= 1 => r * DirentSize >= DirentSize
      BY <3>1
    <3>5. QED
      BY <3>1, <3>3, <3>4
  <2>2. volume.dir = <<>>
    BY <2>1, VolumeAssumption
  <2>3. \A k \in 0 .. PerSector - 1 : Slot(k).name = <<>>
    <3>1. \A k \in 0 .. PerSector - 1 : ~(k < Len(volume.dir))
      BY <2>2, ConstantFact
    <3>2. QED
      BY <3>1 DEF Slot, Nothing
  <2>4. Found(name) = {}
    BY <1>3 DEF Found
  <2>5. QED
    BY <2>3, <2>4
<1>4. QED
  BY <1>2, <1>3

\* For every length of the names and every path, __path2dirent finds the name
\* that the path stands for, and fatfs_open looks for it in the first sector of the
\* root directory and nowhere else (fatfs.c:67-99, 253-290).
THEOREM PathsOpenByName == Spec => []OpensByName
<1>1. IInv => OpensByName
  <2> SUFFICES ASSUME volume \in Volumes, NEW path \in Paths
      PROVE  IF Name83(path) = <<>> THEN Path2dirent(path) = <<>>
             ELSE Found(Path2dirent(path)) = {k \in 0 .. PerSector - 1 : Slot(k).name = Name83(path)}
    BY DEF IInv, TypeOK, OpensByName
  <2>1. path \in Seq(STRING \ {End})
    BY PathAssumption
  <2>2. Path2dirent(path) = Name83(path)
    BY <2>1, NamesAgree
  <2>3. QED
    BY <2>2, FoundByName
<1>2. QED
  BY <1>1, FatInvariance, PTL

=============================================================================
