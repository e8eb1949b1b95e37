------------------------------ MODULE MCClaims ------------------------------
(***************************************************************************)
(* Claims on a flash of five words of two bytes, each cfg with the commands  *)
(* that matter for the one property it checks.                              *)
(***************************************************************************)
EXTENDS Claims, Bitwise, TLC

MCSectorSize == 0 :> 2 @@ 1 :> 4 @@ 2 :> 4 @@ 3 :> 2
MCOr(x, y) == x | y
=============================================================================
