------------------------------- MODULE MCRedisTx ------------------------------
(***************************************************************************)
(* One call of Do for TLC.                                                  *)
(***************************************************************************)
EXTENDS RedisTx

MCTxFaults  == AllTxFaults
===============================================================================
