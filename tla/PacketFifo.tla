----------------------------- MODULE PacketFifo -----------------------------
(***************************************************************************)
(* What the receive path of usb.c promises the command loop: a first-in    *)
(* first-out queue of at most Capacity bytes.  A USB packet enters it in   *)
(* one step; when it does not fit, its longest prefix that does is kept    *)
(* and the rest is lost.  A read takes the oldest byte, or reports that    *)
(* there is none.  RxRing is shown to implement this module.               *)
(***************************************************************************)
EXTENDS Integers, Sequences

CONSTANTS
  Byte,       \* the values a byte can take
  NoByte,     \* the answer of a read that finds nothing
  Packet,     \* the packets that can arrive
  Capacity    \* how many bytes the queue holds at most

VARIABLES
  queue,      \* the bytes received and not read yet, oldest first
  got         \* the answer of the last read

vars == <<queue, got>>

\* The longest prefix of packet p that fits in `free' more bytes.
Fitting(p, free) == SubSeq(p, 1, IF Len(p) < free THEN Len(p) ELSE free)

Init ==
  /\ queue = <<>>
  /\ got = NoByte

Deliver(p) ==
  /\ queue' = queue \o Fitting(p, Capacity - Len(queue))
  /\ UNCHANGED got

Take ==
  /\ queue # <<>>
  /\ got' = Head(queue)
  /\ queue' = Tail(queue)

Miss ==
  /\ queue = <<>>
  /\ got' = NoByte
  /\ UNCHANGED queue

Next ==
  \/ \E p \in Packet : Deliver(p)
  \/ Take
  \/ Miss

Spec == Init /\ [][Next]_vars

=============================================================================
