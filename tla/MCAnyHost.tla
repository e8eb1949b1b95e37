----------------------------- MODULE MCAnyHost -----------------------------
(***************************************************************************)
(* AnyHost on a flash of four words of two bytes: the bootloader's sector,  *)
(* an application sector of one word and a last sector of two words that    *)
(* BL_FLASH_SECTORS leaves out and the check of bl.c:136 lets half in.  The *)
(* table has one sector more than the chip, as in the code.  Of the host's  *)
(* addresses one is that of the application and one is below the flash and  *)
(* unaligned.                                                               *)
(***************************************************************************)
EXTENDS AnyHost, Bitwise, TLC

MCSectorSize == 0 :> 2 @@ 1 :> 2 @@ 2 :> 4 @@ 3 :> 2
MCOr(x, y) == x | y
=============================================================================
