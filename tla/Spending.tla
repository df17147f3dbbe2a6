------------------------------- MODULE Spending -------------------------------
(***************************************************************************)
(* utxospending: the checkpoint with which the next block is added to the   *)
(* store.  A Go map is a total function here: Absent, or the empty set of   *)
(* ids, where the map has no key.                                           *)
(***************************************************************************)
EXTENDS Blocks

\* What Redis keeps under one database version: the two block keys, the
\* transactions and the address index.
Db == [hash   : Hash \union {NoHash},
       height : Heights,
       txs    : [TxID -> Entry \union {Absent}],
       idx    : [Addr -> SUBSET TxID]]

\* UTXOSpendingCheckpoint: the block before and the block after, the stored
\* transactions before and after, the references removed and added.
Checkpoint ==
  [prevHash : Hash \union {NoHash}, prevHeight : Heights,
   newHash  : Hash,                 newHeight  : Heights,
   before   : [TxID -> Entry \union {Absent}],
   newOuts  : [TxID -> Entry \union {Absent}],
   deref    : [Addr -> SUBSET TxID],
   newRefs  : [Addr -> SUBSET TxID]]

NoTxs  == [t \in TxID |-> Absent]
NoRefs == [a \in Addr |-> {}]

-----------------------------------------------------------------------------
\* The stored transactions that block h spends from.
extractSpendingOutputsFromBlock(db, h) ==
  [t \in TxID |-> IF \E o \in SpentBy(h) : o[1] = t THEN db.txs[t] ELSE Absent]

\* It fails on an input whose transaction is neither stored nor seen so far in
\* the block.
spendingOutputsMissing(db, h) ==
  \E in \in Inputs(h) :
    db.txs[in[2][1]] = Absent /\ in[2][1] \notin IdsUpTo(h, in[1])

\* The inputs derefAddresses looks at: those of transactions stored before h.
storedInputs(h) == {in \in Inputs(h) : in[2][1] \notin IdsUpTo(h, in[1])}

\* ErrSpendingOutputNotFound for a vout out of range, a nil dereference for an
\* output that is spent already.
spentOutputMissing(spending, h) ==
  \E in \in storedInputs(h) :
    \/ spending[in[2][1]] = Absent
    \/ in[2][2] \notin Unspent(spending[in[2][1]])

\* spendAllOutputs rejects a vout out of range in a transaction of the block
\* itself too.
blockOutputMissing(h) ==
  \E in \in Inputs(h) \ storedInputs(h) : \A j \in TxNos(h) :
    TxAt(h, j).id = in[2][1] => in[2][2] \notin DOMAIN TxAt(h, j).outs

\* countAddressOutputs: the unspent outputs of transaction t that pay addr.
payingOutputs(spending, addr, t) ==
  {v \in Unspent(spending[t]) : addr \in spending[t].outs[v]}

\* An address loses its reference to t when the block spends as many outputs of
\* t that pay it as there were.
derefAddresses(spending, h) ==
  [a \in Addr |->
    {t \in TxID :
       /\ spending[t] /= Absent
       /\ payingOutputs(spending, a, t) /= {}
       /\ Cardinality({in \in storedInputs(h) :
                         in[2][1] = t /\ in[2][2] \in payingOutputs(spending, a, t)})
            = Cardinality(payingOutputs(spending, a, t))}]

\* Every transaction the block creates or spends from, with the outputs the
\* block spends set to nil.
withSpent(entry, t, h) ==
  [height |-> entry.height,
   outs   |-> [v \in DOMAIN entry.outs |->
                 IF <<t, v>> \in SpentBy(h) THEN Spent ELSE entry.outs[v]]]

createdEntry(h, t) ==
  [height |-> h,
   outs   |-> getAllSpendableOutputs(
                TxAt(h, CHOOSE i \in TxNos(h) : TxAt(h, i).id = t))]

spendAllOutputs(spending, h) ==
  [t \in TxID |->
     IF t \in BlockIds(h)       THEN withSpent(createdEntry(h, t), t, h)
     ELSE IF spending[t] /= Absent THEN withSpent(spending[t], t, h)
     ELSE Absent]

\* The references of every spendable output of the block, those the block
\* spends itself included.
extractAddressReferencesFromOutputs(h) ==
  [a \in Addr |-> {c[1] : c \in {d \in CreatedBy(h) : a \in d[3]}}]

-----------------------------------------------------------------------------
\* The outcomes of NewCheckpointFromNextBlock.  With no stored block the new one
\* is taken for the genesis block, of which nothing can be spent.
isNoDiff(db, h)  == db.hash /= NoHash /\ h = db.height
isTooFar(db, h)  == db.hash /= NoHash /\ h /= db.height /\ h /= db.height + 1
isMissing(db, h) ==
  /\ db.hash /= NoHash
  /\ h = db.height + 1
  /\ \/ spendingOutputsMissing(db, h)
     \/ spentOutputMissing(extractSpendingOutputsFromBlock(db, h), h)
     \/ blockOutputMissing(h)

NewCheckpointFromNextBlock(db, h) ==
  LET spending == extractSpendingOutputsFromBlock(db, h)
      genesis  == db.hash = NoHash
  IN  [prevHash   |-> db.hash,
       prevHeight |-> IF genesis THEN 0 ELSE db.height,
       newHash    |-> Chain[h].hash,
       newHeight  |-> h,
       before     |-> IF genesis THEN NoTxs  ELSE spending,
       deref      |-> IF genesis THEN NoRefs ELSE derefAddresses(spending, h),
       newOuts    |-> IF genesis THEN NoTxs  ELSE spendAllOutputs(spending, h),
       newRefs    |-> IF genesis THEN NoRefs
                                 ELSE extractAddressReferencesFromOutputs(h)]

-----------------------------------------------------------------------------
(* The store with the next block in it. *)

\* (mutant: only the first output is looked at)
firstSpent(entry) == 1 \notin Unspent(entry)
allSpent(entry) == Unspent(entry) = {}

\* A transaction without unspent outputs is deleted.
stored(entry) == IF allSpent(entry) THEN Absent ELSE entry

\* The effect of all the commands of a checkpoint.
Committed(d, c) ==
  [hash   |-> c.newHash,
   height |-> c.newHeight,
   txs    |-> [t \in TxID |-> IF c.newOuts[t] = Absent THEN d.txs[t]
                             ELSE stored(c.newOuts[t])],
   idx    |-> [a \in Addr |-> (d.idx[a] \union c.newRefs[a]) \ c.deref[a]]]

-----------------------------------------------------------------------------
(* What the store holds, as its readers see it. *)

Utxos(d) ==
  UNION {{<<t, v, d.txs[t].outs[v], d.txs[t].height>> : v \in Unspent(d.txs[t])}
         : t \in {u \in TxID : d.txs[u] /= Absent}}

\* getUnspentOutputsByAddress: the index names the transactions, of which the
\* outputs that pay the address are kept.
getUnspentOutputsByAddress(d, a) ==
  {u \in Utxos(d) : u[1] \in d.idx[a] /\ a \in u[3]}

\* The store is the chain's UTXO set at the stored block, with every reference
\* its readers need.
AtBlock(d) ==
  /\ d.hash /= NoHash => /\ d.height \in Heights
                         /\ d.hash = Chain[d.height].hash
  /\ Utxos(d) = UTXOSet(d.height)
  /\ \A a \in Addr : getUnspentOutputsByAddress(d, a)
                       = Paying(UTXOSet(d.height), a)

\* Besides, it keeps no transaction without an unspent output, and refers to no
\* transaction of a later block.
SoundStore(d) ==
  /\ AtBlock(d)
  /\ d.hash = NoHash => d.height = 0 /\ d.txs = NoTxs /\ d.idx = NoRefs
  /\ \A t \in TxID : d.txs[t] /= Absent => Unspent(d.txs[t]) /= {}
  /\ \A a \in Addr : \A t \in d.idx[a] :
       \A h \in (d.height + 1)..MaxHeight : t \notin BlockIds(h)
===============================================================================
