------------------------------ MODULE MCTxRing ------------------------------
(***************************************************************************)
(* Model checking of TxRing.                                               *)
(***************************************************************************)
EXTENDS TxRing

\* The channel refined with the same requests, over the pages of the model.
MCPages == 0 .. MaxSessions * (TX_SIZE + RX_SIZE) + MaxRequests
=============================================================================
