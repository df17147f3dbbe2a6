---------------------------- MODULE MCInMemoryStore ---------------------------
(***************************************************************************)
(* The in-memory store for TLC.                                             *)
(***************************************************************************)
EXTENDS InMemoryStore, TLC

CONSTANTS c1, c2, k1, k2, v1

MCCallers   == {c1, c2}
MCKeys      == {k1, k2}
MCOneValue  == {v1}
MCRoles     == (c1 :> {"list", "get", "delete"}) @@ (c2 :> {"set", "flush"})
===============================================================================
