------------------------------ MODULE AnyBytes ------------------------------
(***************************************************************************)
(* Session under a line that delivers any bytes at any time: whole frames,  *)
(* parts of frames, with gaps, and more than the ring holds; and a host     *)
(* that takes replies when it likes.                                       *)
(***************************************************************************)
EXTENDS Session

CONSTANT Packet    \* what one packet of the line can be

ASSUME PacketAssumption == Packet \subseteq Seq(Byte)

Next == Listen \/ Tick \/ Take \/ \E p \in Packet : Arrive(p)
Spec == Init /\ [][Next]_vars

=============================================================================
