------------------------------- MODULE FatFs -------------------------------
(***************************************************************************)
(* The read-only FAT driver of src/fatfs/fatfs.c over the external flash:   *)
(* mounting a volume, opening a file of its root directory by its path and *)
(* reading the file in pieces.                                             *)
(*                                                                         *)
(* A byte of a data cluster is known by its sector and its place there; a   *)
(* name is the sequence of its characters.  The bytes of the FAT are        *)
(* numbers, because they are computed with.  The flash answers every read  *)
(* (at45db.c:116-132) but that of no sector, which At45db shows never to    *)
(* return.                                                                 *)
(***************************************************************************)
EXTENDS Integers, Sequences

CONSTANTS
  SectorSize,     \* 1 << SECTOR_PGSHIFT, a power of 2
  DirentSize,     \* the 32 bytes of a directory entry
  BaseLen,        \* the characters of a name before the dot, 8
  ExtLen,         \* ... and behind it, 3
  MaxClust,       \* FAT16_MAXCLUST
  WordSpace,      \* 2^32
  Volumes,        \* what the flash can hold: a boot sector, a FAT, a root directory
  Paths,          \* the paths a caller may have
  Asked,          \* those of them that it opens
  Request         \* the sizes a caller asks fatfs_read for

ASSUME FatFsAssumption ==
  /\ SectorSize \in Nat \ {0} /\ DirentSize \in Nat \ {0}
  /\ SectorSize % DirentSize = 0
  /\ BaseLen \in Nat \ {0} /\ ExtLen \in Nat \ {0}
  /\ MaxClust \in Nat /\ WordSpace \in Nat \ {0}
  /\ Asked \subseteq Paths
  /\ Request \subseteq Nat

Unsigned(n) == {x \in Nat : x < n}
Byte == Unsigned(256)
Half == Unsigned(65536)
Dirent == [name : Seq(STRING), clust : Nat, size : Nat]
Bpb == [ sig : STRING, bpersect : Half, rootent : Half, fatsect : Half, fattotsect : Half,
         rsvdsect : Half, fat_num : Byte, sectperclust : Byte ]

\* The widths of what the flash holds.  A volume with files has clusters of some
\* sectors and a root directory of some entries.
ASSUME VolumeAssumption ==
  /\ Volumes \subseteq [bpb : Bpb, fat : Seq(Unsigned(4096)), dir : Seq(Dirent)]
  /\ \A v \in Volumes : v.dir # <<>> => v.bpb.sectperclust > 0 /\ v.bpb.rootent > 0

\* What is computed from numbers of these widths stays far below WordSpace.
ASSUME WidthAssumption ==
  \A v \in Volumes :
    v.bpb.rsvdsect + v.bpb.fat_num * v.bpb.fatsect + v.bpb.rootent * DirentSize + SectorSize
      + (MaxClust + 1) * v.bpb.sectperclust <= WordSpace

\* The character that ends a string is in none.
End == "\\0"
ASSUME PathAssumption == Paths \subseteq Seq(STRING \ {End})

EINVAL == -22
ENOENT == -2

VARIABLES
  volume,     \* the contents of the flash
  mounted,    \* whether fatfs_mount has returned 0
  file,       \* fs->file
  pc,         \* "ready", or "reading" inside the loop of fatfs_read
  left,       \* sz: the bytes the loop has yet to read
  out,        \* the bytes it has put into the caller's buffer
  ret,        \* what the last call returned
  opened,     \* observed: the directory entry of the file, or Nothing
  from,       \* observed: the position at which the last fatfs_read began
  failed      \* observed: whether a read of the file has failed with bytes to come

vars == <<volume, mounted, file, pc, left, out, ret, opened, from, failed>>

Closed == [currclust |-> 0, pos |-> 0, size |-> 0, currsect |-> 0, sectsinclust |-> 0]
Nothing == [name |-> <<>>, clust |-> 0, size |-> 0]

Init ==
  /\ volume \in Volumes
  /\ mounted = FALSE
  /\ file = Closed
  /\ pc = "ready" /\ left = 0 /\ out = <<>> /\ ret = 0
  /\ opened = Nothing /\ from = 0 /\ failed = FALSE

-----------------------------------------------------------------------------
\* fatfs_mount and __get_bpb

SectPerClust == volume.bpb.sectperclust
RootDirSect == (volume.bpb.rootent * DirentSize + SectorSize - 1) \div SectorSize
FatSectNum == volume.bpb.fat_num * volume.bpb.fatsect
FatOff == volume.bpb.rsvdsect
RootDirOff == FatOff + FatSectNum
DataOff == RootDirOff + RootDirSect

\* A wrong difference, of signed numbers.
DataSectNum_Signed == volume.bpb.fattotsect - DataOff

\* The difference is unsigned, and the division of the processor gives 0 for a
\* divisor of 0.
DataSectNum == (volume.bpb.fattotsect - DataOff) % WordSpace
ClustNum == IF SectPerClust = 0 THEN 0 ELSE DataSectNum \div SectPerClust

GetBpb ==
  IF volume.bpb.sig # "55AA" \/ volume.bpb.bpersect # SectorSize THEN 1
  ELSE IF volume.bpb.fatsect = 0 \/ volume.bpb.fattotsect = 0 THEN 2
  ELSE IF ClustNum > MaxClust THEN 2
  ELSE 0

\* What the flash's own start returns is ignored.
Mount ==
  /\ pc = "ready" /\ ~mounted
  /\ ret' = GetBpb
  /\ mounted' = (GetBpb = 0)
  /\ UNCHANGED <<volume, file, pc, left, out, opened, from, failed>>

SectOfClust(c) == (c - 2) * SectPerClust + DataOff

-----------------------------------------------------------------------------
\* The FAT

\* The entry of a cluster as a FAT means it; 0 for clusters it does not have.
Entry(fat, c) == IF c + 1 \in DOMAIN fat THEN fat[c + 1] ELSE 0

\* The n-th nibble of the FAT: an entry is three of them, the low one first.
Nibble(n) == (Entry(volume.fat, n \div 3) \div << 1, 16, 256 >>[1 + (n % 3)]) % 16

\* What the flash holds at a byte of a sector of the FAT.
FatByte(sector, ind) ==
  LET k == (sector - FatOff) * SectorSize + ind
  IN  Nibble(2 * k) + 16 * Nibble(2 * k + 1)

\* The two bytes in which the entry of a cluster lies, with half of another.
FatWord(clust) ==
  LET fatoff == (clust * 3) \div 2
  IN  FatByte(FatOff + fatoff \div SectorSize, fatoff % SectorSize) + 256 *
      FatByte(FatOff + (fatoff + 1) \div SectorSize, (fatoff + 1) % SectorSize)

\* A wrong form: the shift of the odd entries on the even ones.
FatfsGetCluster_Swapped(clust) ==
  IF clust < 2 /\ clust < ClustNum THEN EINVAL
  ELSE IF clust % 2 = 0 THEN FatWord(clust) \div 16 ELSE FatWord(clust) % 4096

\* A wrong form, which looks the entry up of what is no cluster.
FatfsGetCluster_Unchecked(clust) ==
  IF clust % 2 = 0 THEN FatWord(clust) % 4096 ELSE FatWord(clust) \div 16

\* __fatfs_get_cluster: the entries are taken to have twelve bits, as those of
\* the volumes here do.  Its EINVAL is to fatfs_read a number above that of any
\* cluster.
FatfsGetCluster(clust) ==
  IF clust < 2 /\ clust < ClustNum THEN EINVAL
  ELSE IF clust % 2 = 0 THEN FatWord(clust) % 4096 ELSE FatWord(clust) \div 16

-----------------------------------------------------------------------------
\* __path2dirent

NameLen == BaseLen + ExtLen
Blanks == [k \in 1 .. NameLen |-> " "]
Refused == {"*", ".", "/"}      \* stands for the characters no name can have
ToUpper(ch) == IF ch = "a" THEN "A" ELSE ch

\* The loop's state: the name so far, where the next character goes and where
\* the part it belongs to ends; "found" and "refused" are its two returns.
Scan == [name |-> Blanks, ndx |-> 0, endndx |-> BaseLen, is |-> "open"]

\* A wrong round of the loop, where the dot does not move the index.
Round_KeepsIndex(s, ch) ==
  IF s.is # "open" THEN s
  ELSE IF ch \in {End, "/"} /\ s.ndx # 0 THEN [s EXCEPT !.is = "found"]
  ELSE IF ch = "." /\ s.endndx = BaseLen THEN [s EXCEPT !.endndx = NameLen]
  ELSE IF ch \in Refused \/ s.ndx >= s.endndx THEN [s EXCEPT !.is = "refused"]
  ELSE [s EXCEPT !.name[s.ndx + 1] = ToUpper(ch), !.ndx = @ + 1]

Round(s, ch) ==
  IF s.is # "open" THEN s
  ELSE IF ch \in {End, "/"} /\ s.ndx # 0 THEN [s EXCEPT !.is = "found"]
  ELSE IF ch = "." /\ s.endndx = BaseLen THEN [s EXCEPT !.ndx = BaseLen, !.endndx = NameLen]
  ELSE IF ch \in Refused \/ s.ndx >= s.endndx THEN [s EXCEPT !.is = "refused"]
  ELSE [s EXCEPT !.name[s.ndx + 1] = ToUpper(ch), !.ndx = @ + 1]

\* The state of the loop after n characters.
Scanning(chars, n) ==
  LET scan[k \in 0 .. n] == IF k = 0 THEN Scan ELSE Round(scan[k - 1], chars[k])
  IN  scan[n]

\* The name in a directory entry that a path stands for, or <<>>.
Path2dirent(path) ==
  LET s == Scanning(Append(path, End), Len(path) + 1)
  IN  IF s.is = "found" THEN s.name ELSE <<>>

-----------------------------------------------------------------------------
\* fatfs_open and fatfs_close

PerSector == SectorSize \div DirentSize
Slot(k) == IF k < Len(volume.dir) THEN volume.dir[k + 1] ELSE Nothing

\* The slots fatfs_open looks at in the i-th sector of the root directory: its
\* offset is not reset, so that there are none but in the first.
Scanned(i) == IF i = 0 THEN 0 .. PerSector - 1 ELSE {}

Found(name) ==
  {k \in UNION {Scanned(i) : i \in 0 .. RootDirSect - 1} : Slot(k).name = name}

Open(path) ==
  /\ pc = "ready" /\ mounted
  /\ LET name == Path2dirent(path)
     IN  \/ /\ name # <<>> /\ Found(name) # {}
            /\ LET entry == Slot(CHOOSE k \in Found(name) : \A j \in Found(name) : k <= j)
               IN  /\ opened' = entry
                   /\ file' = [file EXCEPT !.currclust = entry.clust, !.size = entry.size,
                                           !.pos = 0, !.currsect = 0]
            /\ ret' = 0 /\ failed' = FALSE
         \/ /\ name # <<>> /\ Found(name) = {}
            /\ ret' = ENOENT
            /\ UNCHANGED <<file, opened, failed>>
         \/ /\ name = <<>>
            /\ ret' = -1
            /\ UNCHANGED <<file, opened, failed>>
  /\ out' = <<>> /\ from' = 0
  /\ UNCHANGED <<volume, mounted, pc, left>>

Close ==
  /\ pc = "ready" /\ opened # Nothing
  /\ file' = Closed /\ opened' = Nothing
  /\ out' = <<>> /\ from' = 0 /\ ret' = 0 /\ failed' = FALSE
  /\ UNCHANGED <<volume, mounted, pc, left>>

-----------------------------------------------------------------------------
\* fatfs_read

\* The first read after fatfs_open finds the sector: __get_curr_sector.
Located ==
  LET sect_off == (file.pos \div SectorSize) % SectPerClust
  IN  IF file.currsect # 0 THEN file
      ELSE [file EXCEPT !.currsect = sect_off + SectOfClust(file.currclust),
                        !.sectsinclust = SectPerClust - sect_off]

\* A wrong fatfs_read that reads on behind the end of the file.
Read_Unclamped(sz) ==
  /\ pc = "ready" /\ opened # Nothing
  /\ left' = sz
  /\ file' = Located
  /\ pc' = "reading"
  /\ out' = <<>> /\ from' = file.pos /\ ret' = 0
  /\ UNCHANGED <<volume, mounted, opened, failed>>

\* fatfs_read begins.
Read(sz) ==
  /\ pc = "ready" /\ opened # Nothing
  /\ left' = IF sz > file.size - file.pos THEN file.size - file.pos ELSE sz
  /\ file' = Located
  /\ pc' = "reading"
  /\ out' = <<>> /\ from' = file.pos /\ ret' = 0
  /\ UNCHANGED <<volume, mounted, opened, failed>>

\* A wrong number of sectors, which runs on behind the cluster.
Sectors_BeyondCluster == left \div SectorSize

\* What the loop reads next: as many whole sectors as the cluster has left, or a
\* part of the one sector.
WholeSectors == left \div SectorSize > 0 /\ file.pos % SectorSize = 0
Sectors ==
  IF left \div SectorSize > file.sectsinclust THEN file.sectsinclust ELSE left \div SectorSize
SectorRest == SectorSize - (file.pos % SectorSize)

\* A wrong test in the loop: a piece that ends where its sector ends does not
\* finish the sector.
Piece_KeepsSector ==
  IF WholeSectors
  THEN [bytes |-> Sectors * SectorSize, sectors |-> Sectors]
  ELSE IF SectorRest >= left THEN [bytes |-> left, sectors |-> 0]
  ELSE [bytes |-> SectorRest, sectors |-> 1]

\* The bytes of the next piece and the sectors they finish.
Piece ==
  IF WholeSectors
  THEN [bytes |-> Sectors * SectorSize, sectors |-> Sectors]
  ELSE IF SectorRest > left THEN [bytes |-> left, sectors |-> 0]
  ELSE [bytes |-> SectorRest, sectors |-> 1]

\* Where the n-th byte from the current position is read from.
Source(n) ==
  LET at == (file.pos % SectorSize) + n
  IN  <<file.currsect + at \div SectorSize, at % SectorSize>>

\* A wrong test, of an unsigned number.
UsedUp_Below(sectors) == sectors < 0

UsedUp(sectors) == sectors < 1

\* What a piece leaves: sectsinclust has sixteen bits.
Rest == (file.sectsinclust - Piece.sectors) % 65536
Moved ==
  [file EXCEPT !.pos = @ + Piece.bytes, !.currsect = @ + Piece.sectors, !.sectsinclust = Rest]

\* The cluster behind the current one.
NextClust == FatfsGetCluster(file.currclust)

\* One round of the loop.  When a cluster is used up the next is looked for at
\* once, though nothing may be left to read.
ReadPiece ==
  /\ pc = "reading" /\ left > 0
  /\ Piece.bytes > 0
  /\ out' = out \o [n \in 1 .. Piece.bytes |-> Source(n - 1)]
  /\ left' = left - Piece.bytes
  /\ \/ /\ ~UsedUp(Rest)
        /\ file' = Moved
        /\ UNCHANGED <<pc, ret, failed>>
     \/ /\ UsedUp(Rest) /\ NextClust \in 2 .. ClustNum - 1
        /\ file' = [Moved EXCEPT !.currclust = NextClust, !.currsect = SectOfClust(NextClust),
                                 !.sectsinclust = SectPerClust]
        /\ UNCHANGED <<pc, ret, failed>>
     \/ /\ UsedUp(Rest) /\ NextClust \notin 2 .. ClustNum - 1
        /\ file' = Moved
        /\ pc' = "ready" /\ ret' = EINVAL
        /\ failed' = (failed \/ Moved.pos < Moved.size)
  /\ UNCHANGED <<volume, mounted, opened, from>>

ReadEnd ==
  /\ pc = "reading" /\ left = 0
  /\ pc' = "ready" /\ ret' = Len(out)
  /\ UNCHANGED <<volume, mounted, file, left, out, opened, from, failed>>

Next ==
  \/ Mount
  \/ \E path \in Asked : Open(path)
  \/ \E sz \in Request : Read(sz)
  \/ ReadPiece \/ ReadEnd \/ Close

Spec == Init /\ [][Next]_vars

\* The loop of fatfs_read goes on: the flash answers what it is asked for.
FairSpec == Spec /\ WF_vars(ReadPiece \/ ReadEnd)

-----------------------------------------------------------------------------
\* The reference: a file is the clusters that its chain names, one after another.

ClusterBytes == SectPerClust * SectorSize

\* The k-th cluster behind clust, and of the file that is open.
Follow(fat, clust, k) ==
  LET chain[n \in 0 .. k] == IF n = 0 THEN clust ELSE Entry(fat, chain[n - 1])
  IN  chain[k]
ChainCluster(k) == Follow(volume.fat, opened.clust, k)

\* Where the n-th byte of the file is.
FileByte(n) ==
  <<SectOfClust(ChainCluster(n \div ClusterBytes)) + (n % ClusterBytes) \div SectorSize,
    n % SectorSize>>

\* The name that a path stands for: that of its first component, split at its
\* first dot, in capitals and padded; <<>> where there is none.
Upto(path, ch) ==
  LET ends == {k \in DOMAIN path : path[k] = ch}
  IN  IF ends = {} THEN path
      ELSE SubSeq(path, 1, (CHOOSE k \in ends : \A j \in ends : k <= j) - 1)
Padded(part, n) == [k \in 1 .. n |-> IF k <= Len(part) THEN ToUpper(part[k]) ELSE " "]
Name83(path) ==
  LET first == Upto(path, "/")
      base == Upto(first, ".")
      ext == SubSeq(first, Len(base) + 2, Len(first))
      plain == \A k \in DOMAIN base : base[k] \notin Refused
  IN  IF /\ first # <<>> /\ plain /\ \A k \in DOMAIN ext : ext[k] \notin Refused
         /\ Len(base) <= BaseLen /\ Len(ext) <= ExtLen
      THEN Padded(base, BaseLen) \o Padded(ext, ExtLen) ELSE <<>>

TypeOK ==
  /\ volume \in Volumes /\ mounted \in BOOLEAN /\ failed \in BOOLEAN
  /\ opened \in Dirent
  /\ file \in [ currclust : Nat, pos : Nat, size : Nat, currsect : Int, sectsinclust : Half ]
  /\ file.pos <= file.size
  /\ pc \in {"ready", "reading"}
  /\ left \in Nat /\ from \in Nat /\ out \in Seq(Int \X Nat)
  /\ ret \in Nat \cup {EINVAL, ENOENT, -1}

\* A volume that is mounted lies inside the flash it names: its FATs, its root
\* directory and its clusters end where it does, because a difference below
\* zero wraps to more clusters than a FAT can have (fatfs.c:204-251).  Only a
\* volume of clusters of no sectors passes whatever else it says.
MountedFits ==
  mounted /\ SectPerClust # 0 =>
    DataOff <= volume.bpb.fattotsect /\ SectOfClust(ClustNum + 2) <= volume.bpb.fattotsect

\* On a volume just mounted a path finds the entry of the name it stands for and
\* no other, as far as the first sector of the root directory goes: none is found
\* behind it, because the offset is not reset (fatfs.c:76-84).  A path that
\* stands for no name is refused (fatfs.c:253-290).
OpensByName ==
  mounted /\ opened = Nothing /\ ret = 0 =>
    \A path \in Paths :
      IF Name83(path) = <<>> THEN Path2dirent(path) = <<>>
      ELSE Found(Path2dirent(path)) = {k \in 0 .. PerSector - 1 : Slot(k).name = Name83(path)}

\* The bytes a read delivers, in however many pieces and from however many
\* clusters, are those of the file from the position on, unless a read of the
\* file has failed before (fatfs.c:105-176, 307-351).
DeliversFile == ~failed => \A n \in 1 .. Len(out) : out[n] = FileByte(from + n - 1)

\* The cached sector and the sectors left in the cluster are those of the
\* position, whatever reads led there; only behind the last cluster of a chain
\* they are not (fatfs.c:121-169).
CursorIsPosition ==
  opened # Nothing /\ file.currsect # 0 /\ file.pos < file.size /\ ~failed =>
    /\ file.currclust = ChainCluster(file.pos \div ClusterBytes)
    /\ file.currsect = FileByte(file.pos)[1]
    /\ file.sectsinclust = SectPerClust - ((file.pos \div SectorSize) % SectPerClust)

\* The directory entry of the open file and its chain name clusters of the volume
\* as far as its size goes.
GoodFile ==
  \A n \in 0 .. opened.size :
    n * ClusterBytes < opened.size => ChainCluster(n) \in 2 .. ClustNum + 1

\* A read of a good file fails only after it has delivered all it was asked for,
\* or where the file goes on in one of the last two clusters of the volume, which
\* the code takes for none: the clusters are numbered from 2 (fatfs.c:162-167).
FailsOnlyAtTheEnd ==
  ret = EINVAL /\ GoodFile =>
    \/ left = 0 /\ file.pos = file.size
    \/ Entry(volume.fat, file.currclust) \in ClustNum .. ClustNum + 1

\* Where a chain is broken no byte behind the break is delivered, however the file
\* is read: the position gets past a cluster only if the entry behind it names one
\* that the code takes for a cluster.  A directory entry that names cluster 0 or 1,
\* which fatfs_open does not look at, has no second cluster, whatever the FAT has
\* in those places (fatfs.c:90, 162-167, 312-313).
SoundUpTo(n) ==
  \A k \in 1 .. n : opened.clust >= 2 /\ ChainCluster(k) \in 2 .. ClustNum - 1
StopsAtBreak ==
  opened # Nothing /\ ~failed /\ file.pos > 0 => SoundUpTo((file.pos - 1) \div ClusterBytes)

\* A read returns, unless one of the file has failed before: the cluster is then
\* used up, and what the next read asks the flash for is no sector at all
\* (fatfs.c:128-133), which it never answers.
ReadsReturn == pc = "reading" ~> (pc = "ready" \/ failed)

=============================================================================
