--------------------------- MODULE MCDebugfsCache ---------------------------
(***************************************************************************)
(* Model checking of DebugfsCache: a small and a full router.              *)
(***************************************************************************)
EXTENDS DebugfsCache

CONSTANTS small, full

MCPorts == [d \in Device |-> IF d = small THEN 1 ELSE MaxAdp]
MCRouter == 1 .. 3
MCDecimal == {1, 3}
=============================================================================
