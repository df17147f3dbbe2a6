---------------------------- MODULE MCBlocksIterator --------------------------
(***************************************************************************)
(* Instances of BlocksIterator for TLC: more blocks than there are slots    *)
(* and places in both channels together, so that every wait happens.        *)
(***************************************************************************)
EXTENDS BlocksIterator
===============================================================================
