--------------------------- MODULE MCHostSession ---------------------------
(***************************************************************************)
(* Model checking of HostSession.                                          *)
(***************************************************************************)
EXTENDS HostSession
=============================================================================
