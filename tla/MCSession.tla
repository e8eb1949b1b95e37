----------------------------- MODULE MCSession -----------------------------
(***************************************************************************)
(* AnyBytes with packets that are stretches of frames.                     *)
(***************************************************************************)
EXTENDS AnyBytes, TLC

CONSTANT Burst    \* the most bytes that arrive in one packet

MCFrameLength == "HANDSHAKE" :> 3 @@ "EOS" :> 2 @@ "FLASH_DATA" :> 5

\* A packet is a stretch of a frame.
Stretch == {q \in Command \X (1 .. 5) \X (1 .. 5) :
              q[2] <= q[3] /\ q[3] <= FrameLength[q[1]] /\ q[3] - q[2] < Burst}
MCPacket == {SubSeq(FrameOf(q[1]), q[2], q[3]) : q \in Stretch}
=============================================================================
