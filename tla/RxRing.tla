------------------------------- MODULE RxRing -------------------------------
(***************************************************************************)
(* The receive ring of src/usb.c: otg_fs_isr, in which the callback        *)
(* __cdcacm_data_rx_cb calls buf_put once per byte of a packet, preempts   *)
(* the main program, which empties the ring through buf_get.               *)
(*                                                                         *)
(* The interrupt handler runs to completion, so the main program takes no  *)
(* step while packet is not empty; it can itself be interrupted between    *)
(* any two of its accesses to memory.  head, tail and __usb_rx are not     *)
(* volatile: the two accesses of buf_get after its test, the load of the   *)
(* slot and the store of tail, are independent, and the compiler may emit  *)
(* them in either order.  Both orders are modelled, and the choice is made *)
(* anew at each call.                                                      *)
(***************************************************************************)
EXTENDS Integers, Sequences

CONSTANTS
  Size,       \* sizeof(__usb_rx), 512 in the code
  Byte,       \* the values a byte can take
  Zero,       \* the byte that fills the ring at power-on
  NoByte,     \* the -1 that buf_get returns when the ring is empty
  Packet      \* the packets an interrupt can carry, at most 64 bytes each

ASSUME SizeAssumption   == Size \in Nat \ {0, 1}
ASSUME ByteAssumption   == Zero \in Byte /\ NoByte \notin Byte
ASSUME PacketAssumption == Packet \subseteq Seq(Byte)

VARIABLES
  usb_rx,     \* __usb_rx
  head,       \* the slot the next buf_put fills
  tail,       \* the slot the next buf_get empties
  packet,     \* the bytes of the packet that the interrupt has yet to put
  pc,         \* where the main program is inside buf_get
  slot,       \* the value of tail that the running buf_get has in a register
  ret,        \* the local variable ret of buf_get
  got         \* what the last call of buf_get returned

ring == <<usb_rx, head, tail>>
main == <<pc, slot, ret, got>>
vars == <<ring, packet, main>>

Slot == 0 .. Size - 1

\* A wrong NextSlot, one slot too long.
NextSlot_Long(i) == (i + 1) % (Size + 1)

\* (i + 1) % sizeof(__usb_rx)
NextSlot(i) == (i + 1) % Size

Init ==
  /\ usb_rx = [i \in Slot |-> Zero]
  /\ head = 0
  /\ tail = 0
  /\ packet = <<>>
  /\ pc = "test"
  /\ slot = 0
  /\ ret = NoByte
  /\ got = NoByte

-----------------------------------------------------------------------------
\* The interrupt: __cdcacm_data_rx_cb and its calls of buf_put

\* The interrupt preempts the main program with packet p in the endpoint.
RxInterrupt(p) ==
  /\ packet = <<>>
  /\ packet' = p
  /\ UNCHANGED <<ring, main>>

\* A wrong buf_put that fills the last slot too, and one that moves head
\* before it stores.
BufPutStore_Full ==
  /\ packet # <<>>
  /\ usb_rx' = [usb_rx EXCEPT ![head] = Head(packet)]
  /\ head' = NextSlot(head)
  /\ packet' = Tail(packet)
  /\ UNCHANGED <<tail, main>>

BufPutStore_HeadFirst ==
  /\ packet # <<>>
  /\ NextSlot(head) # tail
  /\ usb_rx' = [usb_rx EXCEPT ![NextSlot(head)] = Head(packet)]
  /\ head' = NextSlot(head)
  /\ packet' = Tail(packet)
  /\ UNCHANGED <<tail, main>>

\* buf_put stores the byte; one slot always stays empty.
BufPutStore ==
  /\ packet # <<>>
  /\ NextSlot(head) # tail
  /\ usb_rx' = [usb_rx EXCEPT ![head] = Head(packet)]
  /\ head' = NextSlot(head)
  /\ packet' = Tail(packet)
  /\ UNCHANGED <<tail, main>>

\* A wrong buf_put that makes room by dropping the oldest byte.
BufPutDrop_Oldest ==
  /\ packet # <<>>
  /\ NextSlot(head) = tail
  /\ usb_rx' = [usb_rx EXCEPT ![head] = Head(packet)]
  /\ head' = NextSlot(head)
  /\ tail' = NextSlot(tail)
  /\ packet' = Tail(packet)
  /\ UNCHANGED main

\* buf_put drops the byte: the ring is full.
BufPutDrop ==
  /\ packet # <<>>
  /\ NextSlot(head) = tail
  /\ packet' = Tail(packet)
  /\ UNCHANGED <<ring, main>>

-----------------------------------------------------------------------------
\* The main program: one call of buf_get

Running == packet = <<>>

BufGetEmpty ==
  /\ Running /\ pc = "test"
  /\ tail = head
  /\ ret' = NoByte
  /\ got' = NoByte
  /\ UNCHANGED <<ring, packet, pc, slot>>

BufGetFound ==
  /\ Running /\ pc = "test"
  /\ tail # head
  /\ slot' = tail
  /\ pc' \in {"load first", "store first"}
  /\ ret' = NoByte
  /\ UNCHANGED <<ring, packet, got>>

LoadFirst ==
  /\ Running /\ pc = "load first"
  /\ ret' = usb_rx[slot]
  /\ pc' = "store last"
  /\ UNCHANGED <<ring, packet, slot, got>>

StoreLast ==
  /\ Running /\ pc = "store last"
  /\ tail' = NextSlot(slot)
  /\ got' = ret
  /\ pc' = "test"
  /\ UNCHANGED <<usb_rx, head, packet, slot, ret>>

StoreFirst ==
  /\ Running /\ pc = "store first"
  /\ tail' = NextSlot(slot)
  /\ pc' = "load last"
  /\ UNCHANGED <<usb_rx, head, packet, slot, ret, got>>

LoadLast ==
  /\ Running /\ pc = "load last"
  /\ ret' = usb_rx[slot]
  /\ got' = usb_rx[slot]
  /\ pc' = "test"
  /\ UNCHANGED <<ring, packet, slot>>

Interrupt == (\E p \in Packet : RxInterrupt(p)) \/ BufPutStore \/ BufPutDrop
BufGet == BufGetEmpty \/ BufGetFound \/ LoadFirst \/ StoreLast \/ StoreFirst \/ LoadLast

Next == Interrupt \/ BufGet

Spec == Init /\ [][Next]_vars

-----------------------------------------------------------------------------
\* Properties

\* Every variable keeps to the values its C declaration and the ring allow.
TypeOK ==
  /\ usb_rx \in [Slot -> Byte]
  /\ head \in Slot
  /\ tail \in Slot
  /\ packet \in Seq(Byte)
  /\ pc \in {"test", "load first", "store last", "store first", "load last"}
  /\ slot \in Slot
  /\ ret \in Byte \cup {NoByte}
  /\ got \in Byte \cup {NoByte}

\* How many slots lie from slot i, inclusive, to slot j, going forward, and
\* the slot d places after slot i.
Distance(i, j) == (j - i) % Size
Ahead(i, d) == (i + d) % Size

\* The number of bytes in the ring, and the bytes themselves, oldest first.
Used == Distance(tail, head)
Stored == [i \in 1 .. Used |-> usb_rx[Ahead(tail, i - 1)]]

\* What the interrupt can still write: the slots from head to the one before
\* the slot that stays empty.
Writable == {i \in Slot : Distance(head, i) < Size - 1 - Used}

\* The slot that a buf_get in progress has yet to load is out of the reach of
\* the interrupt, in whichever order the compiler emits its two accesses
\* (usb.c:209-229): the slot that buf_put leaves empty is what protects it
\* once tail has moved on.
SlotIsSafe ==
  pc \in {"load first", "store first", "load last"} => slot \notin Writable

\* A byte loaded and not yet returned is still the oldest one of the ring.
RetIsOldest ==
  pc = "store last" => /\ slot = tail
                       /\ head # tail
                       /\ ret = usb_rx[tail]

\* How many more bytes the ring takes, and the bytes of the packet in the
\* interrupt that will find a place.
Room == Size - 1 - Used
Kept == SubSeq(packet, 1, IF Len(packet) < Room THEN Len(packet) ELSE Room)

\* What the main program sees of the ring: the interrupt is over before it
\* looks again, and a byte leaves when tail moves on.
Fifo == INSTANCE PacketFifo WITH
  Capacity <- Size - 1,
  queue <- Stored \o Kept,
  got <- IF pc = "load last" THEN usb_rx[slot] ELSE got

\* The ring implements the queue: bytes come out once each, unchanged and in
\* the order they arrived, an interrupt adds a packet as if in one step, and
\* what is lost of a packet that does not fit is its end (usb.c:209-229, 317).
ImplementsFifo == Fifo!Spec

=============================================================================
