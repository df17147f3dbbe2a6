------------------------------- MODULE MCReaders ------------------------------
(***************************************************************************)
(* The queries over the chain of MCUTXOStore.                               *)
(***************************************************************************)
EXTENDS Readers, MCUTXOStore

LostReplies  == {"smembers", "mget"}
Cuts         == {"cancel", "exec", "crash"}

FreshOrTwo == {FreshStore, MigratedStore(2)}
===============================================================================
