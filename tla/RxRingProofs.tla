---------------------------- MODULE RxRingProofs ----------------------------
(***************************************************************************)
(* Proofs about RxRing for a ring of any size, any bytes and any packets:  *)
(* type correctness, the two safety invariants, and that the ring          *)
(* implements the first-in first-out queue of PacketFifo.                  *)
(***************************************************************************)
EXTENDS RxRing, SequenceTheorems, TLAPS

\* What the steps of a buf_get in progress know of slot and tail.
SlotInv ==
  /\ pc \in {"load first", "store first"} => slot = tail /\ head # tail
  /\ pc = "load last" => tail = NextSlot(slot)

\* The inductive invariant.
IInv == TypeOK /\ RetIsOldest /\ SlotInv

-----------------------------------------------------------------------------
\* Arithmetic modulo Size

LEMMA NextSlotFact ==
  ASSUME NEW i \in Slot
  PROVE  /\ NextSlot(i) \in Slot
         /\ NextSlot(i) = IF i = Size - 1 THEN 0 ELSE i + 1
BY SizeAssumption DEF Slot, NextSlot

\* The distance from slot j forward to slot i.
LEMMA DistanceFact ==
  ASSUME NEW i \in Slot, NEW j \in Slot
  PROVE  /\ Distance(j, i) \in Slot
         /\ Distance(j, i) = IF j <= i THEN i - j ELSE i - j + Size
BY SizeAssumption DEF Slot, Distance

\* The slot d places after slot i.
LEMMA OffsetFact ==
  ASSUME NEW i \in Slot, NEW d \in Slot
  PROVE  /\ Ahead(i, d) \in Slot
         /\ Ahead(i, d) = IF i + d < Size THEN i + d ELSE i + d - Size
BY SizeAssumption DEF Slot, Ahead

-----------------------------------------------------------------------------
\* The inductive invariant

LEMMA InitIInv == Init => IInv
BY SizeAssumption, ByteAssumption
DEF Init, IInv, TypeOK, RetIsOldest, SlotInv, Slot

LEMMA NextIInv == IInv /\ [Next]_vars => IInv'
<1> SUFFICES ASSUME IInv, [Next]_vars PROVE IInv'
  OBVIOUS
<1> USE SizeAssumption, ByteAssumption, PacketAssumption
<1>1. NextSlot(head) \in Slot /\ NextSlot(slot) \in Slot /\ NextSlot(tail) \in Slot
  BY NextSlotFact DEF IInv, TypeOK
<1>. packet # <<>> => Head(packet) \in Byte /\ Tail(packet) \in Seq(Byte)
  BY HeadTailProperties DEF IInv, TypeOK
<1>2. CASE \E p \in Packet : RxInterrupt(p)
  BY <1>2 DEF IInv, TypeOK, RetIsOldest, SlotInv, RxInterrupt, ring, main
<1>3. CASE BufPutStore
  <2>1. TypeOK'
    BY <1>1, <1>3 DEF IInv, TypeOK, BufPutStore, main
  <2>2. RetIsOldest'
    BY <1>1, <1>3 DEF IInv, TypeOK, RetIsOldest, BufPutStore, main
  <2>3. SlotInv'
    BY <1>1, <1>3 DEF IInv, TypeOK, SlotInv, BufPutStore, main
  <2> QED BY <2>1, <2>2, <2>3 DEF IInv
<1>4. CASE BufPutDrop
  BY <1>4 DEF IInv, TypeOK, RetIsOldest, SlotInv, BufPutDrop, ring, main
<1>5. CASE BufGetEmpty
  BY <1>5 DEF IInv, TypeOK, RetIsOldest, SlotInv, BufGetEmpty, ring, Running
<1>6. CASE BufGetFound
  BY <1>6 DEF IInv, TypeOK, RetIsOldest, SlotInv, BufGetFound, ring, Running
<1>7. CASE LoadFirst
  BY <1>7 DEF IInv, TypeOK, RetIsOldest, SlotInv, LoadFirst, ring, Running
<1>8. CASE StoreLast
  BY <1>1, <1>8 DEF IInv, TypeOK, RetIsOldest, SlotInv, StoreLast, Running
<1>9. CASE StoreFirst
  BY <1>1, <1>9 DEF IInv, TypeOK, RetIsOldest, SlotInv, StoreFirst, Running
<1>10. CASE LoadLast
  BY <1>10 DEF IInv, TypeOK, RetIsOldest, SlotInv, LoadLast, ring, Running
<1>11. CASE UNCHANGED vars
  BY <1>11 DEF IInv, TypeOK, RetIsOldest, SlotInv, NextSlot, vars, ring, main
<1> QED
  BY <1>2, <1>3, <1>4, <1>5, <1>6, <1>7, <1>8, <1>9, <1>10, <1>11
  DEF Next, Interrupt, BufGet

\* The ring keeps to IInv whatever arrives and whenever it arrives.
THEOREM Invariance == Spec => []IInv
BY InitIInv, NextIInv, PTL DEF Spec

\* The indices of buf_put and buf_get stay inside __usb_rx, and the ring holds
\* bytes (usb.c:209-229).
THEOREM TypeCorrect == Spec => []TypeOK
BY Invariance, PTL DEF IInv

\* A byte that buf_get has loaded is still the oldest of the ring when it
\* stores tail, whatever the interrupt put in between (usb.c:223-226).
THEOREM LoadedByteIsOldest == Spec => []RetIsOldest
BY Invariance, PTL DEF IInv

\* From head to the oldest byte of a ring that is not empty, or to the slot
\* before it, the interrupt has no slot it may write.
LEMMA ReachFact ==
  ASSUME NEW h \in Slot, NEW t \in Slot, NEW i \in Slot,
         (i = t /\ h # t) \/ t = NextSlot(i)
  PROVE  ~ (Distance(h, i) < Size - 1 - Distance(t, h))
<1>1. /\ Distance(t, h) = IF t <= h THEN h - t ELSE h - t + Size
      /\ Distance(h, i) = IF h <= i THEN i - h ELSE i - h + Size
  BY DistanceFact
<1>2. NextSlot(i) = IF i = Size - 1 THEN 0 ELSE i + 1
  BY NextSlotFact
<1> QED BY <1>1, <1>2, SizeAssumption DEF Slot

LEMMA IInvSlotIsSafe == IInv => SlotIsSafe
<1> SUFFICES ASSUME IInv, pc \in {"load first", "store first", "load last"}
             PROVE  ~ (Distance(head, slot) < Size - 1 - Used)
  BY DEF SlotIsSafe, Writable
<1>1. head \in Slot /\ tail \in Slot /\ slot \in Slot
  BY DEF IInv, TypeOK
<1>2. (slot = tail /\ head # tail) \/ tail = NextSlot(slot)
  BY DEF IInv, SlotInv
<1> QED BY <1>1, <1>2, ReachFact DEF Used

\* The interrupt never overwrites the slot a buf_get has yet to load, in
\* either order of the load and the store of tail (usb.c:209-229).
THEOREM SlotAlwaysSafe == Spec => []SlotIsSafe
BY Invariance, IInvSlotIsSafe, PTL

-----------------------------------------------------------------------------
\* The queue that the ring implements

\* A byte put at slot h of a ring that is not full is the last one.
LEMMA PutFact ==
  ASSUME NEW h \in Slot, NEW t \in Slot, NextSlot(h) # t
  PROVE  /\ Distance(t, NextSlot(h)) = Distance(t, h) + 1
         /\ Distance(t, h) \in 0 .. Size - 2
         /\ Ahead(t, Distance(t, h)) = h
         /\ \A d \in 0 .. Distance(t, h) - 1 : Ahead(t, d) # h
<1> USE SizeAssumption DEF Slot
<1>1. /\ Distance(t, h) = IF t <= h THEN h - t ELSE h - t + Size
      /\ NextSlot(h) \in Slot
      /\ NextSlot(h) = IF h = Size - 1 THEN 0 ELSE h + 1
  BY DistanceFact, NextSlotFact
<1>2. Distance(t, NextSlot(h)) = IF t <= NextSlot(h) THEN NextSlot(h) - t
                                 ELSE NextSlot(h) - t + Size
  BY <1>1, DistanceFact
<1>3. \A d \in Slot : Ahead(t, d) = IF t + d < Size THEN t + d ELSE t + d - Size
  BY OffsetFact
<1>4. Distance(t, h) \in 0 .. Size - 2
  BY <1>1
<1>5. Ahead(t, Distance(t, h)) = h
  BY <1>1, <1>3, <1>4
<1>6. ASSUME NEW d \in 0 .. Distance(t, h) - 1 PROVE Ahead(t, d) # h
  BY <1>1, <1>3, <1>4
<1> QED BY <1>1, <1>2, <1>4, <1>5, <1>6

\* Taking the byte at slot t moves every other one up by a place.
LEMMA TakeFact ==
  ASSUME NEW h \in Slot, NEW t \in Slot, h # t
  PROVE  /\ Distance(NextSlot(t), h) = Distance(t, h) - 1
         /\ Distance(t, h) \in 1 .. Size - 1
         /\ Ahead(t, 0) = t
         /\ \A d \in 0 .. Distance(t, h) - 2 : Ahead(NextSlot(t), d) = Ahead(t, d + 1)
<1> USE SizeAssumption DEF Slot
<1>1. /\ Distance(t, h) = IF t <= h THEN h - t ELSE h - t + Size
      /\ NextSlot(t) \in Slot
      /\ NextSlot(t) = IF t = Size - 1 THEN 0 ELSE t + 1
  BY DistanceFact, NextSlotFact
<1>2. Distance(NextSlot(t), h) = IF NextSlot(t) <= h THEN h - NextSlot(t)
                                 ELSE h - NextSlot(t) + Size
  BY <1>1, DistanceFact
<1>3. \A i, d \in Slot : Ahead(i, d) = IF i + d < Size THEN i + d ELSE i + d - Size
  BY OffsetFact
<1>4. Distance(t, h) \in 1 .. Size - 1
  BY <1>1
<1>5. Ahead(t, 0) = t
  BY <1>3
<1>6. ASSUME NEW d \in 0 .. Distance(t, h) - 2
      PROVE  Ahead(NextSlot(t), d) = Ahead(t, d + 1)
  BY <1>1, <1>3, <1>4
<1> QED BY <1>1, <1>2, <1>4, <1>5, <1>6

\* A full ring has no room.
LEMMA FullFact ==
  ASSUME NEW h \in Slot, NEW t \in Slot, NextSlot(h) = t
  PROVE  Distance(t, h) = Size - 1
<1>1. /\ Distance(t, h) = IF t <= h THEN h - t ELSE h - t + Size
      /\ NextSlot(h) = IF h = Size - 1 THEN 0 ELSE h + 1
  BY DistanceFact, NextSlotFact
<1> QED BY <1>1, SizeAssumption DEF Slot

\* What the ring stores.
StoredFacts ==
  /\ Used \in Slot
  /\ Stored \in Seq(Byte)
  /\ Len(Stored) = Used
  /\ \A i \in 1 .. Used : Stored[i] = usb_rx[Ahead(tail, i - 1)]

LEMMA StoredType == TypeOK => StoredFacts
<1> SUFFICES ASSUME TypeOK PROVE StoredFacts
  OBVIOUS
<1>1. Used \in Slot
  BY DistanceFact DEF TypeOK, Used
<1>2. ASSUME NEW i \in 1 .. Used PROVE usb_rx[Ahead(tail, i - 1)] \in Byte
  <2>1. i - 1 \in Slot
    BY <1>1, SizeAssumption DEF Slot
  <2>2. Ahead(tail, i - 1) \in Slot
    BY <2>1, OffsetFact DEF TypeOK
  <2> QED BY <2>2 DEF TypeOK
<1>3. Stored \in [1 .. Used -> Byte]
  BY <1>2 DEF Stored
<1>4. Stored \in Seq(Byte)
  BY <1>1, <1>3, SeqDef, SizeAssumption DEF Slot
<1>5. Len(Stored) = Used
  BY <1>1, <1>3, <1>4, LenProperties, SizeAssumption DEF Slot
<1> QED BY <1>1, <1>4, <1>5 DEF StoredFacts, Stored

Lesser(a, b) == IF a < b THEN a ELSE b

\* The longest prefix of p that fits in n more bytes.
LEMMA FittingFact ==
  ASSUME NEW p \in Seq(Byte), NEW n \in Nat
  PROVE  /\ Fifo!Fitting(p, n) \in Seq(Byte)
         /\ Len(Fifo!Fitting(p, n)) = Lesser(Len(p), n)
         /\ \A i \in 1 .. Len(Fifo!Fitting(p, n)) : Fifo!Fitting(p, n)[i] = p[i]
<1> DEFINE m == IF Len(p) < n THEN Len(p) ELSE n
<1>1. Len(p) \in Nat /\ m \in Nat /\ m <= Len(p)
  BY LenProperties
<1>2. \A i \in 1 .. m : p[i] \in Byte
  BY <1>1, ElementOfSeq
<1> HIDE DEF m
<1>3. /\ SubSeq(p, 1, m) \in Seq(Byte)
      /\ Len(SubSeq(p, 1, m)) = IF 1 <= m THEN m - 1 + 1 ELSE 0
      /\ \A i \in 1 .. m - 1 + 1 : SubSeq(p, 1, m)[i] = p[1 + i - 1]
  BY <1>1, <1>2, SubSeqProperties
<1>4. Fifo!Fitting(p, n) = SubSeq(p, 1, m)
  BY DEF Fifo!Fitting, m
<1> QED BY <1>1, <1>3, <1>4 DEF m, Lesser

LEMMA LesserFact ==
  ASSUME NEW a \in Nat \ {0}, NEW n \in Nat \ {0}
  PROVE  /\ Lesser(a, n) = Lesser(a - 1, n - 1) + 1
         /\ Lesser(a - 1, n - 1) \in Nat
         /\ Lesser(a - 1, n - 1) <= a - 1
BY DEF Lesser

\* Putting the first byte of a packet at the end of the queue leaves the
\* queue with its packet as it was.
LEMMA PutKeepsQueue ==
  ASSUME NEW s \in Seq(Byte), NEW t \in Seq(Byte),
         NEW p \in Seq(Byte), NEW n \in Nat \ {0},
         p # <<>>,
         Len(t) = Len(s) + 1,
         \A i \in 1 .. Len(s) : t[i] = s[i],
         t[Len(s) + 1] = Head(p)
  PROVE  t \o Fifo!Fitting(Tail(p), n - 1) = s \o Fifo!Fitting(p, n)
<1> DEFINE f == Fifo!Fitting(p, n)
           g == Fifo!Fitting(Tail(p), n - 1)
<1>1. /\ Tail(p) \in Seq(Byte)
      /\ Len(p) \in Nat \ {0}
      /\ Len(Tail(p)) = Len(p) - 1
      /\ \A i \in 1 .. Len(Tail(p)) : Tail(p)[i] = p[i + 1]
      /\ Head(p) = p[1]
  BY HeadTailProperties, EmptySeq
<1>2. /\ f \in Seq(Byte)
      /\ Len(f) = Lesser(Len(p), n)
      /\ \A i \in 1 .. Len(f) : f[i] = p[i]
  BY FittingFact
<1>3. /\ g \in Seq(Byte)
      /\ Len(g) = Lesser(Len(Tail(p)), n - 1)
      /\ \A i \in 1 .. Len(g) : g[i] = Tail(p)[i]
  <2>1. n - 1 \in Nat
    OBVIOUS
  <2> QED BY <1>1, <2>1, FittingFact
<1>4. Len(s) \in Nat
  BY LenProperties
<1> HIDE DEF f, g
<1>5. /\ s \o f \in Seq(Byte)
      /\ Len(s \o f) = Len(s) + Len(f)
      /\ \A i \in 1 .. Len(s) + Len(f) :
            (s \o f)[i] = IF i <= Len(s) THEN s[i] ELSE f[i - Len(s)]
  BY <1>2, ConcatProperties
<1>6. /\ t \o g \in Seq(Byte)
      /\ Len(t \o g) = Len(t) + Len(g)
      /\ \A i \in 1 .. Len(t) + Len(g) :
            (t \o g)[i] = IF i <= Len(t) THEN t[i] ELSE g[i - Len(t)]
  BY <1>3, ConcatProperties
<1>7. /\ Len(f) = Len(g) + 1
      /\ Len(g) \in Nat
      /\ Len(g) <= Len(Tail(p))
  <2>1. /\ Len(p) \in Nat \ {0}
        /\ Len(Tail(p)) = Len(p) - 1
    BY <1>1
  <2>2. /\ Len(f) = Lesser(Len(p), n)
        /\ Len(g) = Lesser(Len(Tail(p)), n - 1)
    BY <1>2, <1>3
  <2> QED BY <2>1, <2>2, LesserFact
<1>8. Len(t \o g) = Len(s \o f)
  BY <1>4, <1>5, <1>6, <1>7
<1>9. ASSUME NEW i \in 1 .. Len(t \o g) PROVE (t \o g)[i] = (s \o f)[i]
  <2>1. i \in 1 .. Len(s) + 1 + Len(g)
    BY <1>4, <1>6, <1>7
  <2>2. CASE i <= Len(s)
    BY <1>4, <1>5, <1>6, <1>7, <2>1, <2>2
  <2>3. CASE i = Len(s) + 1
    <3>1. (t \o g)[i] = t[i] /\ (s \o f)[i] = f[1]
      BY <1>4, <1>5, <1>6, <1>7, <2>3
    <3>2. f[1] = p[1]
      BY <1>2, <1>7
    <3> QED BY <1>1, <2>3, <3>1, <3>2
  <2>4. CASE i > Len(s) + 1
    <3> DEFINE j == i - Len(s) - 1
    <3>1. j \in 1 .. Len(g)
      BY <1>4, <1>7, <2>1, <2>4
    <3>2. (t \o g)[i] = g[j] /\ (s \o f)[i] = f[j + 1]
      BY <1>4, <1>5, <1>6, <1>7, <2>1, <2>4
    <3> HIDE DEF j
    <3>3. Len(Tail(p)) \in Nat
      BY <1>1
    <3>4. j + 1 \in 1 .. Len(f) /\ j \in 1 .. Len(Tail(p))
      BY <1>7, <3>1, <3>3
    <3>5. g[j] = p[j + 1] /\ f[j + 1] = p[j + 1]
      BY <1>1, <1>2, <1>3, <3>1, <3>4
    <3> QED BY <3>2, <3>5
  <2>5. i \in Int /\ Len(s) \in Int
    BY <1>4, <1>7, <2>1
  <2>6. i <= Len(s) \/ i = Len(s) + 1 \/ i > Len(s) + 1
    BY <2>5
  <2> QED BY <2>2, <2>3, <2>4, <2>6
<1>10. t \o g = s \o f
  BY <1>5, <1>6, <1>8, <1>9, SeqEqual
<1> QED BY <1>10 DEF f, g

\* Where the interrupt is not running, the queue is what the ring stores.
LEMMA QuietQueue == TypeOK /\ packet = <<>> => Stored \o Kept = Stored
<1> SUFFICES ASSUME TypeOK, packet = <<>> PROVE Stored \o Kept = Stored
  OBVIOUS
<1>1. Used \in Slot /\ Stored \in Seq(Byte)
  BY StoredType DEF StoredFacts
<1>2. Kept = <<>>
  BY <1>1, SizeAssumption, SubSeqEmpty DEF Kept, Room, Slot
<1> QED BY <1>1, <1>2, ConcatEmptySeq

LEMMA KeptIsFitting == TypeOK => Kept = Fifo!Fitting(packet, Room) /\ Room \in Nat
<1> SUFFICES ASSUME TypeOK PROVE Kept = Fifo!Fitting(packet, Room) /\ Room \in Nat
  OBVIOUS
<1>1. Used \in Slot
  BY StoredType DEF StoredFacts
<1> QED BY <1>1, SizeAssumption DEF Kept, Fifo!Fitting, Room, Slot

LEMMA RefineInit == Init => Fifo!Init
<1> SUFFICES ASSUME Init PROVE Fifo!Init
  OBVIOUS
<1>1. TypeOK
  BY InitIInv DEF IInv
<1>2. Used = 0
  <2>1. head \in Slot /\ tail \in Slot /\ head = 0 /\ tail = 0
    BY <1>1 DEF Init, TypeOK
  <2> QED BY <2>1, DistanceFact DEF Used
<1>3. Stored = <<>>
  <2>1. Stored \in Seq(Byte) /\ Len(Stored) = 0
    BY <1>1, <1>2, StoredType DEF StoredFacts
  <2> QED BY <2>1, EmptySeq
<1>4. Stored \o Kept = <<>>
  BY <1>1, <1>3, QuietQueue DEF Init
<1> QED BY <1>4 DEF Fifo!Init, Init

\* The interrupt with a packet in the endpoint is one Deliver.
LEMMA RefineInterrupt ==
  ASSUME IInv, IInv', NEW p \in Packet, RxInterrupt(p)
  PROVE  Fifo!Deliver(p)
<1>1. TypeOK /\ TypeOK' /\ packet = <<>> /\ packet' = p /\ UNCHANGED <<ring, main>>
  BY DEF IInv, RxInterrupt
<1>2. Stored \o Kept = Stored /\ Len(Stored) = Used
  BY <1>1, QuietQueue, StoredType DEF StoredFacts
<1>3. Used' = Used /\ Room' = Room /\ Stored' = Stored
  BY <1>1 DEF Used, Room, Stored, ring
<1>4. Kept' = Fifo!Fitting(p, Room)
  BY <1>1, <1>3 DEF Kept, Fifo!Fitting
<1>5. Room = Size - 1 - Len(Stored)
  BY <1>2 DEF Room
<1>6. UNCHANGED <<usb_rx, pc, slot, got>>
  BY <1>1 DEF ring, main
<1>7. (Stored \o Kept)' = Stored \o Kept \o Fifo!Fitting(p, Size - 1 - Len(Stored \o Kept))
  BY <1>2, <1>3, <1>4, <1>5
<1> QED BY <1>6, <1>7 DEF Fifo!Deliver

\* buf_put changes neither the queue nor the answer.
LEMMA RefineStore ==
  ASSUME IInv, IInv', BufPutStore
  PROVE  UNCHANGED Fifo!vars
<1>1. /\ TypeOK /\ TypeOK'
      /\ head \in Slot /\ tail \in Slot
      /\ packet \in Seq(Byte) /\ packet # <<>>
      /\ NextSlot(head) # tail
      /\ usb_rx \in [Slot -> Byte]
  BY DEF IInv, TypeOK, BufPutStore
<1>2. /\ usb_rx' = [usb_rx EXCEPT ![head] = Head(packet)]
      /\ head' = NextSlot(head) /\ tail' = tail
      /\ packet' = Tail(packet)
      /\ pc' = pc /\ slot' = slot /\ got' = got
  BY DEF BufPutStore, main
<1>3. Used' = Used + 1 /\ Used \in 0 .. Size - 2 /\ Ahead(tail, Used) = head
  BY <1>1, <1>2, PutFact DEF Used
<1>4. \A d \in 0 .. Used - 1 : Ahead(tail, d) # head /\ Ahead(tail, d) \in Slot
  <2>1. \A d \in 0 .. Used - 1 : d \in Slot
    BY <1>3, SizeAssumption DEF Slot
  <2> QED BY <1>1, <2>1, PutFact, OffsetFact DEF Used
<1>5. /\ Stored \in Seq(Byte) /\ Len(Stored) = Used
      /\ \A i \in 1 .. Used : Stored[i] = usb_rx[Ahead(tail, i - 1)]
  BY <1>1, StoredType DEF StoredFacts
<1>6. /\ Stored' \in Seq(Byte) /\ Len(Stored') = Used + 1
      /\ \A i \in 1 .. Used + 1 : Stored'[i] = usb_rx'[Ahead(tail, i - 1)]
  <2>1. (TypeOK => StoredFacts)'
    BY StoredType, PTL
  <2>2. StoredFacts'
    BY <1>1, <2>1
  <2> QED BY <1>2, <1>3, <2>2 DEF StoredFacts
<1>7. ASSUME NEW i \in 1 .. Used PROVE Stored'[i] = Stored[i]
  <2>1. i - 1 \in 0 .. Used - 1 /\ i \in 1 .. Used + 1
    BY <1>3
  <2>2. usb_rx'[Ahead(tail, i - 1)] = usb_rx[Ahead(tail, i - 1)]
    BY <1>1, <1>2, <1>4, <2>1
  <2>3. Stored'[i] = usb_rx'[Ahead(tail, i - 1)]
    BY <1>6, <2>1
  <2> QED BY <1>5, <2>2, <2>3
<1>8. Stored'[Used + 1] = Head(packet)
  <2>1. Used + 1 \in 1 .. Used + 1 /\ (Used + 1) - 1 = Used
    BY <1>3
  <2>2. Stored'[Used + 1] = usb_rx'[Ahead(tail, (Used + 1) - 1)]
    BY <1>6, <2>1
  <2> QED BY <1>1, <1>2, <1>3, <2>1, <2>2
<1>9. /\ Room \in Nat \ {0} /\ Room' = Room - 1
  BY <1>2, <1>3, SizeAssumption DEF Room
<1>10. /\ Kept = Fifo!Fitting(packet, Room)
       /\ Kept' = Fifo!Fitting(Tail(packet), Room - 1)
  BY <1>2, <1>9 DEF Kept, Fifo!Fitting
<1>11. (Stored \o Kept)' = Stored \o Kept
  BY <1>1, <1>5, <1>6, <1>7, <1>8, <1>9, <1>10, PutKeepsQueue
<1>12. (IF pc = "load last" THEN usb_rx[slot] ELSE got)' =
       (IF pc = "load last" THEN usb_rx[slot] ELSE got)
  <2>1. pc = "load last" => slot # head
    <3>1. pc = "load last" => tail = NextSlot(slot)
      BY DEF IInv, SlotInv
    <3> QED BY <1>1, <3>1
  <2> QED BY <1>1, <1>2, <2>1 DEF IInv, TypeOK
<1> QED BY <1>11, <1>12 DEF Fifo!vars

\* A byte that buf_put drops was not in the queue.
LEMMA RefineDrop ==
  ASSUME IInv, IInv', BufPutDrop
  PROVE  UNCHANGED Fifo!vars
<1>1. /\ TypeOK /\ TypeOK'
      /\ head \in Slot /\ tail \in Slot /\ NextSlot(head) = tail
      /\ packet' = Tail(packet)
      /\ UNCHANGED <<usb_rx, head, tail, pc, slot, got>>
  BY DEF IInv, TypeOK, BufPutDrop, ring, main
<1>2. Used = Size - 1 /\ Used' = Used /\ Stored' = Stored
  BY <1>1, FullFact DEF Used, Stored
<1>3. Room = 0 /\ Room' = 0
  BY <1>2, SizeAssumption DEF Room
<1>4. Len(packet) \in Nat /\ Len(packet') \in Nat
  BY <1>1, LenProperties DEF TypeOK
<1>5. Kept = <<>> /\ Kept' = <<>>
  BY <1>3, <1>4, SubSeqEmpty DEF Kept
<1> QED BY <1>1, <1>2, <1>5 DEF Fifo!vars

\* A step of buf_get that moves no index leaves the queue as it was.
LEMMA SameQueue ==
  ASSUME UNCHANGED <<ring, packet>>
  PROVE  UNCHANGED (Stored \o Kept)
BY DEF ring, Stored, Kept, Room, Used

\* Storing tail takes the oldest byte from the queue.
LEMMA TailLeavesQueue ==
  ASSUME IInv, IInv', Running, slot = tail, head # tail,
         tail' = NextSlot(slot), UNCHANGED <<usb_rx, head, packet>>
  PROVE  /\ Stored \o Kept # <<>>
         /\ Head(Stored \o Kept) = usb_rx[tail]
         /\ (Stored \o Kept)' = Tail(Stored \o Kept)
<1>1. /\ TypeOK /\ TypeOK' /\ packet = <<>>
      /\ head \in Slot /\ tail \in Slot
  BY DEF IInv, TypeOK, Running
<1>2. /\ Used' = Used - 1 /\ Used \in 1 .. Size - 1 /\ Ahead(tail, 0) = tail
      /\ \A d \in 0 .. Used - 2 : Ahead(tail', d) = Ahead(tail, d + 1)
  BY <1>1, TakeFact DEF Used
<1>3. /\ Stored \in Seq(Byte) /\ Len(Stored) = Used
      /\ \A i \in 1 .. Used : Stored[i] = usb_rx[Ahead(tail, i - 1)]
  BY <1>1, StoredType DEF StoredFacts
<1>4. /\ Stored' \in Seq(Byte) /\ Len(Stored') = Used - 1
      /\ \A i \in 1 .. Used - 1 : Stored'[i] = usb_rx[Ahead(tail', i - 1)]
  <2>1. (TypeOK => StoredFacts)'
    BY StoredType, PTL
  <2>2. StoredFacts'
    BY <1>1, <2>1
  <2> QED BY <1>2, <2>2 DEF StoredFacts
<1>5. /\ Stored # <<>>
      /\ Head(Stored) = Stored[1]
      /\ Tail(Stored) \in Seq(Byte) /\ Len(Tail(Stored)) = Used - 1
      /\ \A i \in 1 .. Used - 1 : Tail(Stored)[i] = Stored[i + 1]
  <2>1. Stored # <<>>
    BY <1>2, <1>3, EmptySeq
  <2> QED BY <1>3, <2>1, HeadTailProperties
<1>6. ASSUME NEW i \in 1 .. Used - 1 PROVE Stored'[i] = Tail(Stored)[i]
  <2>1. i - 1 \in 0 .. Used - 2 /\ i + 1 \in 1 .. Used /\ (i - 1) + 1 = (i + 1) - 1
    BY <1>2
  <2>2. Stored'[i] = usb_rx[Ahead(tail', i - 1)]
    BY <1>4
  <2>3. Tail(Stored)[i] = usb_rx[Ahead(tail, (i + 1) - 1)]
    BY <1>3, <1>5, <2>1
  <2> QED BY <1>2, <2>1, <2>2, <2>3
<1>7. Stored' = Tail(Stored)
  <2>1. Len(Stored') = Len(Tail(Stored)) /\ \A i \in 1 .. Len(Stored') : Stored'[i] = Tail(Stored)[i]
    BY <1>4, <1>5, <1>6
  <2> QED BY <1>4, <1>5, <2>1, SeqEqual
<1>8. Head(Stored) = usb_rx[tail]
  <2>1. 1 \in 1 .. Used /\ 1 - 1 = 0
    BY <1>2
  <2> QED BY <1>2, <1>3, <1>5, <2>1
<1>9. Stored \o Kept = Stored
  BY <1>1, QuietQueue
<1>10. (Stored \o Kept)' = Stored'
  <2>1. (TypeOK /\ packet = <<>> => Stored \o Kept = Stored)'
    BY QuietQueue, PTL
  <2> QED BY <1>1, <2>1
<1> QED BY <1>5, <1>7, <1>8, <1>9, <1>10

LEMMA RefineNext == IInv /\ IInv' /\ [Next]_vars => [Fifo!Next]_(Fifo!vars)
<1> SUFFICES ASSUME IInv, IInv', [Next]_vars
             PROVE  Fifo!Next \/ UNCHANGED Fifo!vars
  OBVIOUS
<1> USE DEF Fifo!vars, Fifo!Next
<1>1. CASE \E p \in Packet : RxInterrupt(p)
  BY <1>1, RefineInterrupt
<1>2. CASE BufPutStore
  BY <1>2, RefineStore
<1>3. CASE BufPutDrop
  BY <1>3, RefineDrop
<1>4. CASE BufGetEmpty
  <2>1. Stored \o Kept = <<>>
    <3>1. /\ TypeOK /\ packet = <<>> /\ head = tail
          /\ head \in Slot /\ tail \in Slot
      BY <1>4 DEF IInv, TypeOK, BufGetEmpty, Running
    <3>2. Used = 0
      <4>1. Used = head - tail
        BY <3>1, DistanceFact, SizeAssumption DEF Used, Slot
      <4> QED BY <3>1, <4>1, SizeAssumption DEF Slot
    <3>3. Stored \in Seq(Byte) /\ Len(Stored) = 0
      BY <3>1, <3>2, StoredType DEF StoredFacts
    <3> QED BY <3>1, <3>3, EmptySeq, QuietQueue
  <2>2. UNCHANGED (Stored \o Kept)
    BY <1>4, SameQueue DEF BufGetEmpty
  <2>3. pc = "test" /\ pc' = "test" /\ got' = NoByte
    BY <1>4 DEF BufGetEmpty
  <2> QED BY <2>1, <2>2, <2>3 DEF Fifo!Miss
<1>5. CASE BufGetFound
  <2>1. UNCHANGED (Stored \o Kept)
    BY <1>5, SameQueue DEF BufGetFound
  <2>2. pc # "load last" /\ pc' # "load last" /\ got' = got
    BY <1>5 DEF BufGetFound
  <2> QED BY <2>1, <2>2
<1>6. CASE LoadFirst
  <2>1. UNCHANGED (Stored \o Kept)
    BY <1>6, SameQueue DEF LoadFirst
  <2>2. pc # "load last" /\ pc' # "load last" /\ got' = got
    BY <1>6 DEF LoadFirst
  <2> QED BY <2>1, <2>2
<1>7. CASE StoreLast
  <2>1. slot = tail /\ head # tail /\ ret = usb_rx[tail]
    BY <1>7 DEF StoreLast, IInv, RetIsOldest
  <2>2. /\ Stored \o Kept # <<>>
        /\ Head(Stored \o Kept) = usb_rx[tail]
        /\ (Stored \o Kept)' = Tail(Stored \o Kept)
    BY <1>7, <2>1, TailLeavesQueue DEF StoreLast
  <2>3. pc' # "load last" /\ got' = ret
    BY <1>7 DEF StoreLast
  <2> QED BY <2>1, <2>2, <2>3 DEF Fifo!Take
<1>8. CASE StoreFirst
  <2>1. slot = tail /\ head # tail
    BY <1>8 DEF StoreFirst, IInv, SlotInv
  <2>2. /\ Stored \o Kept # <<>>
        /\ Head(Stored \o Kept) = usb_rx[tail]
        /\ (Stored \o Kept)' = Tail(Stored \o Kept)
    BY <1>8, <2>1, TailLeavesQueue DEF StoreFirst
  <2>3. pc' = "load last" /\ usb_rx' = usb_rx /\ slot' = slot
    BY <1>8 DEF StoreFirst
  <2> QED BY <2>1, <2>2, <2>3 DEF Fifo!Take
<1>9. CASE LoadLast
  <2>1. UNCHANGED (Stored \o Kept)
    BY <1>9, SameQueue DEF LoadLast
  <2>2. pc = "load last" /\ pc' # "load last" /\ got' = usb_rx[slot]
    BY <1>9 DEF LoadLast
  <2> QED BY <2>1, <2>2
<1>10. CASE UNCHANGED vars
  <2>1. UNCHANGED (Stored \o Kept)
    BY <1>10, SameQueue DEF vars
  <2> QED BY <1>10, <2>1 DEF vars, ring, main
<1> QED
  BY <1>1, <1>2, <1>3, <1>4, <1>5, <1>6, <1>7, <1>8, <1>9, <1>10
  DEF Next, Interrupt, BufGet

\* What the command loop reads is a first-in first-out queue of Size - 1 bytes:
\* no byte is duplicated, altered or reordered, and the only ones lost are
\* those at the end of a packet that does not fit (usb.c:209-229, 317-326).
THEOREM RingImplementsFifo == Spec => ImplementsFifo
<1>1. Init => Fifo!Init
  BY RefineInit
<1>2. IInv /\ IInv' /\ [Next]_vars => [Fifo!Next]_(Fifo!vars)
  BY RefineNext
<1> QED BY <1>1, <1>2, Invariance, PTL DEF Spec, Fifo!Spec, ImplementsFifo

=============================================================================
