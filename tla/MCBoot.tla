------------------------------- MODULE MCBoot -------------------------------
(***************************************************************************)
(* Boot with waits of two ticks, so that other interrupts come in between,  *)
(* and up to three interrupts of the USB device.                           *)
(***************************************************************************)
EXTENDS Boot
=============================================================================
