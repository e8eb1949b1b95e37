------------------------------ MODULE MCFrames ------------------------------
(***************************************************************************)
(* Frames with the real table of flash.c and one word as the unit, probed   *)
(* with the ranges whose two ends lie next to a sector boundary, next to    *)
(* the limit of the check in bl.c:136, or next to the end of the address    *)
(* space.  The frame of one of them is damaged in every two bits and in     *)
(* every pattern of up to eight bits in a row.  The CRC32 begins with every *)
(* byte there is, each of which looks its own entry of the table up.        *)
(***************************************************************************)
EXTENDS Frames

KWord == 256      \* the words of a kilobyte
Bank == << 16, 16, 16, 16, 64, 128, 128, 128, 128, 128, 128, 128 >>
MCSectorSize == [i \in 0 .. 23 |-> KWord * Bank[(i % 12) + 1]]
MCAppSizeMax == KWord * (1024 - 16)
MCAddressSpace == 2 ^ 30
MCBase == 2 ^ 25

Near(x) == {y \in {x - 1, x, x + 1} : y \in Address}
MCProbe == UNION { Near(x) : x \in {SectorBase[i] : i \in 0 .. TableSectors}
                                 \cup {AppSizeMax, AddressSpace - 1} }

\* Bits behind the first byte of the eleven.
FrameBits == 8 .. 87
MCDamage ==
  {{m, n} : m, n \in FrameBits}
    \cup {{m} \cup {m + k : k \in S} : m \in 8 .. 80, S \in SUBSET (1 .. 7)}
MCStruck == {<<SectorBase[5], 1>>}

Words == {<<0, 0>>, <<0, 1>>, <<\h8000, 0>>, <<\h1234, \hABCD>>, <<\hFFFF, \hFFFF>>}
MCImage == << Words \cup {<<0, byte>> : byte \in 0 .. 255}, Words >>
=============================================================================
