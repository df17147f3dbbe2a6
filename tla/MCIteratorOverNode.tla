--------------------------- MODULE MCIteratorOverNode -------------------------
(***************************************************************************)
(* The iterator over the client for TLC.                                    *)
(***************************************************************************)
EXTENDS IteratorOverNode

MCAllAnswers    == AllAnswers
===============================================================================
