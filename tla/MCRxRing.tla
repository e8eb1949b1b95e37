------------------------------ MODULE MCRxRing ------------------------------
(***************************************************************************)
(* RxRing on a small instance: a ring of four slots, so three bytes, two   *)
(* byte values and packets of one to four bytes, the longest of which      *)
(* does not fit even in an empty ring.                                     *)
(***************************************************************************)
EXTENDS RxRing

CONSTANT MaxPacket

MCPacket == UNION {[1 .. n -> Byte] : n \in 1 .. MaxPacket}
=============================================================================
