------------------------------ MODULE MCHwInit ------------------------------
(***************************************************************************)
(* Model checking of HwInit with registers of two hexadecimal digits, all  *)
(* 256 contents of them.                                                   *)
(***************************************************************************)
EXTENDS HwInit

MCWord == [1 .. Digits -> 0 .. 15]
=============================================================================
