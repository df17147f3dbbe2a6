------------------------------ MODULE MCMigration -----------------------------
(***************************************************************************)
(* The migration of the small chain.  Its transactions come in an order of  *)
(* their own, and output 2 before output 1 (as 16512 and 128 do in the      *)
(* chainstate, whose numbers are of variable length).                       *)
(***************************************************************************)
EXTENDS Migration, SmallChain

TxOrder   == <<"q", "c1", "p", "c3", "r", "g", "c2", "c4">>
VoutOrder == <<3, 2, 1>>

MCTxsAt ==
  [h \in Heights |->
     LET ids == {u[1] : u \in UTXOSet(h)} IN SelectSeq(TxOrder, LAMBDA t : t \in ids)]
MCVoutsAt ==
  [h \in Heights |-> [t \in TxID |->
     LET vouts == {u[2] : u \in {w \in UTXOSet(h) : w[1] = t}}
     IN  SelectSeq(VoutOrder, LAMBDA v : v \in vouts)]]

TwoOrOne == {1, 2}
Two      == {2}

CrashAndRedis == {"crash", "refused", "lost"}
CrashAndMove  == {"crash", "moved"}
===============================================================================
