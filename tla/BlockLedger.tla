------------------------------ MODULE BlockLedger -----------------------------
(***************************************************************************)
(* What the indexer promises: a ledger of the unspent outputs that takes    *)
(* one whole block at a time, in the order of the chain, and answers for    *)
(* every address with exactly the unspent outputs that pay it.              *)
(***************************************************************************)
EXTENDS Blocks

VARIABLES
  tip,       \* hash of the last block in the ledger, NoHash before the first
  height,    \* its height
  utxo,      \* the unspent outputs: <<id, vout, addresses, height>>
  byAddress  \* byAddress[a]: what a query for a finds

ledgerVars == <<tip, height, utxo, byAddress>>

At(h) ==
  /\ tip = Chain[h].hash
  /\ height = h
  /\ utxo = UTXOSet(h)

\* The ledger starts empty, or with a snapshot of some height (the chainstate
\* a migration has read).
Init ==
  /\ \/ tip = NoHash /\ height = 0 /\ utxo = {}
     \/ \E h \in Heights : At(h)
  /\ byAddress = [a \in Addr |-> Paying(utxo, a)]

AddGenesisBlock ==
  /\ tip = NoHash
  /\ tip' = Chain[0].hash
  /\ UNCHANGED <<height, utxo, byAddress>>

AddNextBlock ==
  /\ tip /= NoHash
  /\ height < MaxHeight
  /\ height' = height + 1
  /\ tip' = Chain[height + 1].hash
  /\ utxo' = {u \in utxo \union CreatedBy(height + 1) :
                <<u[1], u[2]>> \notin SpentBy(height + 1)}
  /\ byAddress' = [a \in Addr |-> Paying(utxo', a)]

Next == AddGenesisBlock \/ AddNextBlock

Spec == Init /\ [][Next]_ledgerVars
===============================================================================
