------------------------------- MODULE MCLocalTx ------------------------------
(***************************************************************************)
(* Concurrent calls of Do for TLC.                                          *)
(***************************************************************************)
EXTENDS LocalTx

CONSTANTS c1, c2, c3

MCCallers   == {c1, c2, c3}
MCAllFaults == AllTxFaults
===============================================================================
