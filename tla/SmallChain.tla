------------------------------ MODULE SmallChain ------------------------------
(***************************************************************************)
(* A chain of five blocks for TLC.  It has a transaction that pays one      *)
(* address twice, an output nobody can spend, an output that pays two       *)
(* addresses and one that pays none, transactions spent in part, in full    *)
(* and over several blocks, and an output spent in the block it was         *)
(* created in (which leaves its reference in the index).                    *)
(***************************************************************************)
EXTENDS Integers, Sequences

To(as) == [spendable |-> TRUE,  addrs |-> as]
Data   == [spendable |-> FALSE, addrs |-> {}]

Tx(id, ins, outs) == [id |-> id, ins |-> ins, outs |-> outs]

MCTxID == {"g", "c1", "c2", "c3", "c4", "p", "q", "r"}
MCAddr == {"a", "b"}
MCHash == {"h0", "h1", "h2", "h3", "h4"}

MCBlocks ==
  << [hash |-> "h0", txs |-> <<Tx("g", {}, <<To({"a"})>>)>>],
     [hash |-> "h1", txs |-> <<Tx("c1", {}, <<To({"a"}), To({"a"}), Data>>)>>],
     [hash |-> "h2", txs |-> <<Tx("c2", {}, <<To({})>>),
                               Tx("p", {<<"c1", 1>>}, <<To({"a", "b"}), To({"a"})>>)>>],
     [hash |-> "h3", txs |-> <<Tx("c3", {}, <<To({})>>),
                               Tx("q", {<<"c1", 2>>, <<"p", 1>>}, <<To({"b"}), To({"a"})>>),
                               Tx("r", {<<"q", 1>>}, <<To({"a"})>>)>>],
     [hash |-> "h4", txs |-> <<Tx("c4", {<<"q", 2>>, <<"p", 2>>, <<"c2", 1>>}, <<Data>>)>>] >>

MCMaxHeight == 4
MCChain == [h \in 0..MCMaxHeight |-> MCBlocks[h + 1]]
===============================================================================
