---------------------------- MODULE MCHostUpdate ----------------------------
(***************************************************************************)
(* HostUpdate on a flash of five words of two bits: the bootloader's        *)
(* sector, an application sector of three words, the second of them worn,  *)
(* and a last sector of one word that BL_FLASH_SECTORS leaves out.  The     *)
(* image has two words, so that it ends inside its sector, and goes in two *)
(* chunks; the words are equal, so that a check that confuses them shows.  *)
(***************************************************************************)
EXTENDS HostUpdate, Bitwise, TLC

MCSectorSize == 0 :> 2 @@ 1 :> 6 @@ 2 :> 2 @@ 3 :> 2
MCOr(x, y) == x | y
MCImage == << {0}, {0} >>
=============================================================================
