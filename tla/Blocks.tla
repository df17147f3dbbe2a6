-------------------------------- MODULE Blocks --------------------------------
(***************************************************************************)
(* The chain the node serves, as the indexer reads it.  A script is         *)
(* abstracted to the set of addresses it pays, and the amount is left out.  *)
(* Outputs are numbered from 1 (from 0 in the code).                        *)
(***************************************************************************)
EXTENDS Integers, Sequences, FiniteSets

CONSTANTS
  TxID,        \* transaction ids
  Addr,        \* script addresses (hex)
  Hash,        \* block hashes
  NoHash,      \* "the block hash key is absent", PrevBlock == nil
  Absent,      \* "the transaction key is absent", "not in the map"
  Spent,       \* a nil *TransactionOutput: spent, or never spendable
  MaxHeight,   \* height of the last block the node has
  Chain        \* Chain[h] is the block at height h

Outpoint   == TxID \X (Nat \ {0})
NodeOutput == [spendable : BOOLEAN, addrs : SUBSET Addr]
NodeTx     == [id : TxID, ins : SUBSET Outpoint, outs : Seq(NodeOutput)]
Block      == [hash : Hash, txs : Seq(NodeTx)]
Heights    == 0..MaxHeight

\* A stored transaction: the height of its block, and per output the addresses
\* it pays or Spent.
Entry == [height : Nat, outs : Seq({Spent} \union SUBSET Addr)]

Unspent(entry) == {v \in DOMAIN entry.outs : entry.outs[v] /= Spent}

-----------------------------------------------------------------------------
TxNos(h) == DOMAIN Chain[h].txs
TxAt(h, i) == Chain[h].txs[i]

\* The ids of the first i transactions of block h, and of all of them.
IdsUpTo(h, i) == {TxAt(h, j).id : j \in {k \in TxNos(h) : k <= i}}
BlockIds(h)   == {TxAt(h, i).id : i \in TxNos(h)}

\* <<i, o>>: transaction i of block h spends the outpoint o.
Inputs(h)  == UNION {{<<i, o>> : o \in TxAt(h, i).ins} : i \in TxNos(h)}
SpentBy(h) == UNION {TxAt(h, i).ins : i \in TxNos(h)}

\* The spendable outputs of a transaction, nil for the others:
\* an unspendable output is stored "as already spent".
getAllSpendableOutputs(tx) ==
  [v \in DOMAIN tx.outs |->
     IF tx.outs[v].spendable THEN tx.outs[v].addrs ELSE Spent]

\* The spendable outputs block h creates, as <<id, vout, addresses, height>>.
CreatedBy(h) ==
  UNION {{<<TxAt(h, i).id, v, TxAt(h, i).outs[v].addrs, h>> :
            v \in {w \in DOMAIN TxAt(h, i).outs : TxAt(h, i).outs[w].spendable}}
         : i \in TxNos(h)}

\* The outputs created by the blocks 1..h and not spent by them.  The outputs
\* of the genesis block are not part of the set.
UTXOSet(h) ==
  {u \in UNION {CreatedBy(k) : k \in 1..h} :
     \A k \in 1..h : <<u[1], u[2]>> \notin SpentBy(k)}

Paying(outputs, a) == {u \in outputs : a \in u[3]}

-----------------------------------------------------------------------------
ASSUME ChainType ==
  /\ MaxHeight \in Nat
  /\ Chain \in [Heights -> Block]
  /\ NoHash \notin Hash
  /\ Absent \notin Entry
  /\ \A A \in SUBSET Addr : A /= Spent

\* What Bitcoin's consensus rules give the indexer: block hashes and
\* transaction ids are unique, an input spends a spendable output of an earlier
\* transaction (never of the genesis block), and nothing is spent twice.
ASSUME ValidChain ==
  /\ \A g, h \in Heights : Chain[g].hash = Chain[h].hash => g = h
  /\ \A g, h \in Heights : \A i \in TxNos(g), j \in TxNos(h) :
       TxAt(g, i).id = TxAt(h, j).id => g = h /\ i = j
  /\ \A h \in Heights : \A i \in TxNos(h) : \A o \in TxAt(h, i).ins :
       \E g \in 1..h : \E j \in TxNos(g) :
         /\ g = h => j < i
         /\ TxAt(g, j).id = o[1]
         /\ o[2] \in DOMAIN TxAt(g, j).outs
         /\ TxAt(g, j).outs[o[2]].spendable
  /\ \A g, h \in Heights : \A i \in TxNos(g), j \in TxNos(h) :
       TxAt(g, i).ins \intersect TxAt(h, j).ins /= {} => g = h /\ i = j
===============================================================================
