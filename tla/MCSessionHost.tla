--------------------------- MODULE MCSessionHost ---------------------------
(***************************************************************************)
(* SessionHost with a ring that holds the longest frame.  RetryPeriod is    *)
(* longer than an inactivity timeout and what may pass before it is seen,  *)
(* or shorter.                                                             *)
(***************************************************************************)
EXTENDS SessionHost, TLC

MCFrameLength == "HANDSHAKE" :> 3 @@ "EOS" :> 3 @@ "FLASH_DATA" :> 6 @@ "ERASE" :> 4
=============================================================================
