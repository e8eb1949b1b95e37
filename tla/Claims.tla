------------------------------- MODULE Claims -------------------------------
(***************************************************************************)
(* What the protocol description, the notes and the comments of the         *)
(* repository say of the command loop, and the code does not do.  Each     *)
(* property has a run of its own, in which TLC shows the steps that break  *)
(* it.                                                                     *)
(***************************************************************************)
EXTENDS AnyHost

\* The board erases before it says yes: when FLASH is answered OK the range it
\* names is blank ("Check if availible, erase, reply yes/no", TODO.org:24).
FlashErasesItsRange ==
  [][pc = "erase" /\ cmd = "FLASH" /\ reply'.to = "FLASH" =>
       \A w \in Word :
         daddr <= w * WordSize /\ w * WordSize < daddr + dsz => flash'[w] = Erased]_vars

\* A word that does not read back ends FLASH_DATA with an I/O error ("I/O
\* error", bl.c:185).
WriteErrorIsReported ==
  [][pc = "program" /\ i < Len(dbuf) /\ reply'.to = "FLASH_DATA" /\ pc' = "listen" =>
       reply'.status = "IOERR"]_vars

=============================================================================
