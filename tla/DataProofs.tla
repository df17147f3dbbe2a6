------------------------------- MODULE DataProofs -----------------------------
(***************************************************************************)
(* Proofs about what has no state: for every chain, what the checkpoint of  *)
(* the next block is on a sound store, and the store with that block in it. *)
(***************************************************************************)
EXTENDS Spending, FiniteSetTheorems, FunctionTheorems, TLAPS

-----------------------------------------------------------------------------
(* Types. *)

\* Spending some outputs of an entry gives an entry.
LEMMA WithSpentType ==
  ASSUME NEW e \in Entry, NEW t \in TxID, NEW h \in Heights
  PROVE  /\ withSpent(e, t, h) \in Entry
         /\ withSpent(e, t, h).height = e.height
         /\ DOMAIN withSpent(e, t, h).outs = DOMAIN e.outs
         /\ \A v \in DOMAIN e.outs :
              withSpent(e, t, h).outs[v] =
                IF <<t, v>> \in SpentBy(h) THEN Spent ELSE e.outs[v]
<1> DEFINE outs == [v \in DOMAIN e.outs |->
                      IF <<t, v>> \in SpentBy(h) THEN Spent ELSE e.outs[v]]
<1>1. e.outs \in Seq({Spent} \union SUBSET Addr) /\ e.height \in Nat
  BY DEF Entry
<1>2. DOMAIN e.outs = 1..Len(e.outs) /\ Len(e.outs) \in Nat
  BY <1>1
<1>3. outs \in Seq({Spent} \union SUBSET Addr)
  <2>1. outs \in [1..Len(e.outs) -> {Spent} \union SUBSET Addr]
    BY <1>1, <1>2
  <2> QED BY <2>1, <1>2
<1>4. withSpent(e, t, h) = [height |-> e.height, outs |-> outs]
  BY DEF withSpent, Entry
<1> QED BY <1>1, <1>2, <1>3, <1>4 DEF Entry

\* Block h and its transactions have their types.
LEMMA BlockType ==
  ASSUME NEW h \in Heights
  PROVE  /\ Chain[h] \in Block
         /\ TxNos(h) = 1..Len(Chain[h].txs) /\ Len(Chain[h].txs) \in Nat
         /\ IsFiniteSet(TxNos(h))
         /\ \A i \in TxNos(h) : /\ TxAt(h, i) \in NodeTx
                               /\ TxAt(h, i).id \in TxID
                               /\ TxAt(h, i).ins \subseteq Outpoint
                               /\ TxAt(h, i).outs \in Seq(NodeOutput)
<1>1. Chain[h] \in Block
  BY ChainType
<1>2. Chain[h].txs \in Seq(NodeTx)
  BY <1>1 DEF Block
<1>3. TxNos(h) = 1..Len(Chain[h].txs) /\ Len(Chain[h].txs) \in Nat
  BY <1>2 DEF TxNos
<1>4. IsFiniteSet(TxNos(h))
  BY <1>3, FS_Interval
<1>5. \A i \in TxNos(h) : TxAt(h, i) \in NodeTx
  BY <1>2, <1>3 DEF TxAt
<1> QED BY <1>1, <1>3, <1>4, <1>5 DEF NodeTx

\* The spendable outputs of a transaction form the outputs of an entry.
LEMMA CreatedEntryType ==
  ASSUME NEW h \in Heights, NEW i \in TxNos(h)
  PROVE  LET t == TxAt(h, i).id
         IN  /\ createdEntry(h, t) =
                  [height |-> h, outs |-> getAllSpendableOutputs(TxAt(h, i))]
             /\ createdEntry(h, t) \in Entry
<1> DEFINE t == TxAt(h, i).id
           j == CHOOSE k \in TxNos(h) : TxAt(h, k).id = t
           tx == TxAt(h, i)
<1>1. j \in TxNos(h) /\ TxAt(h, j).id = t
  OBVIOUS
<1>2. j = i
  BY <1>1, ValidChain
<1>3. tx.outs \in Seq(NodeOutput)
  BY BlockType
<1>4. getAllSpendableOutputs(tx) \in Seq({Spent} \union SUBSET Addr)
  <2>1. DOMAIN tx.outs = 1..Len(tx.outs) /\ Len(tx.outs) \in Nat
    BY <1>3
  <2>2. \A v \in DOMAIN tx.outs : tx.outs[v] \in NodeOutput
    BY <1>3, <2>1
  <2>3. getAllSpendableOutputs(tx) \in [1..Len(tx.outs) -> {Spent} \union SUBSET Addr]
    BY <2>1, <2>2 DEF getAllSpendableOutputs, NodeOutput
  <2> QED BY <2>1, <2>3
<1>5. h \in Nat
  BY ChainType DEF Heights
<1>6. createdEntry(h, t) = [height |-> h, outs |-> getAllSpendableOutputs(tx)]
  BY <1>2 DEF createdEntry
<1> QED BY <1>4, <1>5, <1>6 DEF Entry

LEMMA CreatedByType ==
  ASSUME NEW h \in Heights, NEW c \in CreatedBy(h)
  PROVE  \E i \in TxNos(h) : \E v \in DOMAIN TxAt(h, i).outs :
           /\ TxAt(h, i).outs[v].spendable
           /\ c = <<TxAt(h, i).id, v, TxAt(h, i).outs[v].addrs, h>>
           /\ c[1] = TxAt(h, i).id /\ c[1] \in TxID
           /\ c[2] = v /\ c[3] = TxAt(h, i).outs[v].addrs /\ c[4] = h
<1>1. PICK i \in TxNos(h) :
        \E v \in {w \in DOMAIN TxAt(h, i).outs : TxAt(h, i).outs[w].spendable} :
          c = <<TxAt(h, i).id, v, TxAt(h, i).outs[v].addrs, h>>
  BY DEF CreatedBy
<1>2. PICK v \in DOMAIN TxAt(h, i).outs :
        /\ TxAt(h, i).outs[v].spendable
        /\ c = <<TxAt(h, i).id, v, TxAt(h, i).outs[v].addrs, h>>
  BY <1>1
<1>3. TxAt(h, i).id \in TxID
  BY BlockType
<1> QED BY <1>2, <1>3

\* The checkpoint of a block is a checkpoint, whatever the store.
LEMMA NewCheckpointType ==
  ASSUME NEW d \in Db, NEW h \in Heights
  PROVE  NewCheckpointFromNextBlock(d, h) \in Checkpoint
<1> DEFINE spending == extractSpendingOutputsFromBlock(d, h)
<1>1. d.hash \in Hash \union {NoHash} /\ d.height \in Heights
      /\ d.txs \in [TxID -> Entry \union {Absent}]
  BY DEF Db
<1>2. Chain[h].hash \in Hash
  BY BlockType DEF Block
<1>3. 0 \in Heights
  BY ChainType DEF Heights
<1>4. spending \in [TxID -> Entry \union {Absent}]
  BY <1>1 DEF extractSpendingOutputsFromBlock
<1>5. derefAddresses(spending, h) \in [Addr -> SUBSET TxID]
  BY DEF derefAddresses
<1>6. spendAllOutputs(spending, h) \in [TxID -> Entry \union {Absent}]
  <2> SUFFICES ASSUME NEW t \in TxID
               PROVE  spendAllOutputs(spending, h)[t] \in Entry \union {Absent}
    BY DEF spendAllOutputs
  <2>1. CASE t \in BlockIds(h)
    <3>1. createdEntry(h, t) \in Entry
      BY <2>1, CreatedEntryType DEF BlockIds
    <3> QED BY <2>1, <3>1, WithSpentType DEF spendAllOutputs
  <2>2. CASE t \notin BlockIds(h) /\ spending[t] /= Absent
    <3>1. spending[t] \in Entry
      BY <1>4, <2>2
    <3> QED BY <2>2, <3>1, WithSpentType DEF spendAllOutputs
  <2>3. CASE t \notin BlockIds(h) /\ spending[t] = Absent
    BY <2>3 DEF spendAllOutputs
  <2> QED BY <2>1, <2>2, <2>3
<1>7. extractAddressReferencesFromOutputs(h) \in [Addr -> SUBSET TxID]
  BY CreatedByType DEF extractAddressReferencesFromOutputs
<1>8. NoTxs \in [TxID -> Entry \union {Absent}] /\ NoRefs \in [Addr -> SUBSET TxID]
  BY DEF NoTxs, NoRefs
<1> HIDE DEF spending
<1>9. NewCheckpointFromNextBlock(d, h) =
       [prevHash   |-> d.hash,
        prevHeight |-> IF d.hash = NoHash THEN 0 ELSE d.height,
        newHash    |-> Chain[h].hash,
        newHeight  |-> h,
        before     |-> IF d.hash = NoHash THEN NoTxs  ELSE spending,
        deref      |-> IF d.hash = NoHash THEN NoRefs ELSE derefAddresses(spending, h),
        newOuts    |-> IF d.hash = NoHash THEN NoTxs  ELSE spendAllOutputs(spending, h),
        newRefs    |-> IF d.hash = NoHash THEN NoRefs
                       ELSE extractAddressReferencesFromOutputs(h)]
  BY DEF NewCheckpointFromNextBlock, spending
<1> QED BY <1>1, <1>2, <1>3, <1>4, <1>5, <1>6, <1>7, <1>8, <1>9 DEF Checkpoint

\* Two stores are equal when their fields are.
LEMMA DbEqual ==
  ASSUME NEW d \in Db, NEW e \in Db,
         d.hash = e.hash, d.height = e.height,
         \A t \in TxID : d.txs[t] = e.txs[t],
         \A a \in Addr : d.idx[a] = e.idx[a]
  PROVE  d = e
<1>1. d.txs \in [TxID -> Entry \union {Absent}] /\ e.txs \in [TxID -> Entry \union {Absent}]
  BY DEF Db
<1>2. d.idx \in [Addr -> SUBSET TxID] /\ e.idx \in [Addr -> SUBSET TxID]
  BY DEF Db
<1>3. d.txs = e.txs
  BY <1>1
<1>4. d.idx = e.idx
  BY <1>2
<1>5. /\ d = [hash |-> d.hash, height |-> d.height, txs |-> d.txs, idx |-> d.idx]
      /\ e = [hash |-> e.hash, height |-> e.height, txs |-> e.txs, idx |-> e.idx]
  BY DEF Db
<1> QED BY <1>3, <1>4, <1>5

LEMMA CommittedType ==
  ASSUME NEW d \in Db, NEW c \in Checkpoint
  PROVE  Committed(d, c) \in Db
<1>1. /\ d.txs \in [TxID -> Entry \union {Absent}]
      /\ d.idx \in [Addr -> SUBSET TxID]
  BY DEF Db
<1>2. /\ c.newHash \in Hash /\ c.newHeight \in Heights
      /\ c.newOuts \in [TxID -> Entry \union {Absent}]
      /\ c.deref \in [Addr -> SUBSET TxID]
      /\ c.newRefs \in [Addr -> SUBSET TxID]
  BY DEF Checkpoint
<1> QED BY <1>1, <1>2 DEF Committed, stored, Db

\* Readers do not look at the block hash.
LEMMA UtxosOfSameTxs ==
  ASSUME NEW d \in Db, NEW e \in Db, d.txs = e.txs, d.idx = e.idx
  PROVE  /\ Utxos(d) = Utxos(e)
         /\ \A a \in Addr : getUnspentOutputsByAddress(d, a) = getUnspentOutputsByAddress(e, a)
<1>1. Utxos(d) = Utxos(e)
  BY DEF Utxos
<1> QED BY <1>1 DEF getUnspentOutputsByAddress

-----------------------------------------------------------------------------
(* The chain's UTXO set. *)

\* A transaction id belongs to one block.
LEMMA UniqueIds ==
  ASSUME NEW g \in Heights, NEW h \in Heights, NEW t,
         t \in BlockIds(g), t \in BlockIds(h)
  PROVE  g = h
BY ValidChain DEF BlockIds

\* And to one transaction of it.
LEMMA UniqueTx ==
  ASSUME NEW h \in Heights, NEW i \in TxNos(h), NEW j \in TxNos(h),
         TxAt(h, i).id = TxAt(h, j).id
  PROVE  i = j
BY ValidChain

LEMMA CreatedMembers ==
  ASSUME NEW h \in Heights, NEW u \in CreatedBy(h)
  PROVE  u[1] \in BlockIds(h) /\ u[1] \in TxID /\ u[4] = h /\ u = <<u[1], u[2], u[3], u[4]>>
BY CreatedByType DEF BlockIds

\* An input spends a spendable output of the same or an earlier block.
LEMMA SpentOrigin ==
  ASSUME NEW h \in Heights, NEW o \in SpentBy(h)
  PROVE  /\ o = <<o[1], o[2]>> /\ o[1] \in TxID /\ o[2] \in Nat
         /\ \E g \in 1..h : \E A :
              o[1] \in BlockIds(g) /\ <<o[1], o[2], A, g>> \in CreatedBy(g)
<1>1. PICK i \in TxNos(h) : o \in TxAt(h, i).ins
  BY DEF SpentBy
<1>2. o \in Outpoint
  BY <1>1, BlockType
<1>3. PICK g \in 1..h : \E j \in TxNos(g) :
        /\ TxAt(g, j).id = o[1]
        /\ o[2] \in DOMAIN TxAt(g, j).outs
        /\ TxAt(g, j).outs[o[2]].spendable
  BY <1>1, ValidChain
<1>4. PICK j \in TxNos(g) :
        /\ TxAt(g, j).id = o[1]
        /\ o[2] \in DOMAIN TxAt(g, j).outs
        /\ TxAt(g, j).outs[o[2]].spendable
  BY <1>3
<1>5. <<o[1], o[2], TxAt(g, j).outs[o[2]].addrs, g>> \in CreatedBy(g)
  BY <1>4 DEF CreatedBy
<1>6. o[1] \in BlockIds(g)
  BY <1>4 DEF BlockIds
<1>7. o = <<o[1], o[2]>> /\ o[1] \in TxID /\ o[2] \in Nat
  BY <1>2 DEF Outpoint
<1>8. \E A : o[1] \in BlockIds(g) /\ <<o[1], o[2], A, g>> \in CreatedBy(g)
  BY <1>5, <1>6
<1> QED BY <1>7, <1>8

\* An unspent output of height h was created by a block of 1..h.
LEMMA UTXOSetOrigin ==
  ASSUME NEW h \in Heights, NEW u \in UTXOSet(h)
  PROVE  \E k \in 1..h : /\ k \in Heights /\ u \in CreatedBy(k)
                         /\ u[1] \in BlockIds(k) /\ u[4] = k
<1>1. PICK k \in 1..h : u \in CreatedBy(k)
  BY DEF UTXOSet
<1>2. k \in Heights
  BY ChainType DEF Heights
<1> QED BY <1>1, <1>2, CreatedMembers

\* The next block adds what it creates and removes what it spends.
LEMMA UTXOSetStep ==
  ASSUME NEW g \in Heights, NEW h \in Heights, h = g + 1
  PROVE  UTXOSet(h) = {u \in UTXOSet(g) \union CreatedBy(h) :
                         <<u[1], u[2]>> \notin SpentBy(h)}
<1>0. g \in Nat /\ h \in Nat /\ 1..h = (1..g) \union {h}
  BY ChainType DEF Heights
<1>1. ASSUME NEW u \in CreatedBy(h), NEW k \in 1..g
      PROVE  <<u[1], u[2]>> \notin SpentBy(k)
  <2> DEFINE o == <<u[1], u[2]>>
  <2> SUFFICES ASSUME o \in SpentBy(k) PROVE FALSE
    OBVIOUS
  <2>1. k \in Heights
    BY <1>0, ChainType DEF Heights
  <2>2. PICK j \in 1..k : u[1] \in BlockIds(j)
    BY <2>1, SpentOrigin
  <2>3. j \in Heights /\ j /= h
    BY <1>0, <2>1, ChainType DEF Heights
  <2>4. u[1] \in BlockIds(h)
    BY CreatedMembers
  <2> QED BY <2>2, <2>3, <2>4, UniqueIds
<1>2. ASSUME NEW u
      PROVE  u \in UTXOSet(h) <=> /\ u \in UTXOSet(g) \union CreatedBy(h)
                                 /\ <<u[1], u[2]>> \notin SpentBy(h)
  BY <1>0, <1>1 DEF UTXOSet
<1> QED BY <1>2

\* Before the first block nothing is unspent.
LEMMA UTXOSetEmpty == UTXOSet(0) = {}
BY DEF UTXOSet

LEMMA UtxosMembers ==
  ASSUME NEW d \in Db
  PROVE  \A u : u \in Utxos(d) <=>
           \E t \in TxID : /\ d.txs[t] /= Absent
                          /\ \E v \in Unspent(d.txs[t]) :
                               u = <<t, v, d.txs[t].outs[v], d.txs[t].height>>
BY DEF Utxos

-----------------------------------------------------------------------------
(* The checkpoint of the next block on a sound store. *)

\* What is unspent in a sound store comes from the stored blocks.
LEMMA SoundUtxos ==
  ASSUME NEW b \in Db, SoundStore(b), NEW t \in TxID, b.txs[t] /= Absent,
         NEW v \in Unspent(b.txs[t])
  PROVE  /\ <<t, v, b.txs[t].outs[v], b.txs[t].height>> \in UTXOSet(b.height)
         /\ \A a \in Addr : a \in b.txs[t].outs[v] => t \in b.idx[a]
<1> DEFINE u == <<t, v, b.txs[t].outs[v], b.txs[t].height>>
<1>1. u \in Utxos(b)
  BY UtxosMembers
<1>2. u \in UTXOSet(b.height)
  BY <1>1 DEF SoundStore, AtBlock
<1>3. ASSUME NEW a \in Addr, a \in b.txs[t].outs[v] PROVE t \in b.idx[a]
  <2>1. u \in Paying(UTXOSet(b.height), a)
    BY <1>2, <1>3 DEF Paying
  <2>2. u \in getUnspentOutputsByAddress(b, a)
    BY <2>1 DEF SoundStore, AtBlock
  <2> QED BY <2>2 DEF getUnspentOutputsByAddress
<1> QED BY <1>2, <1>3

\* It holds nothing of a later block.
LEMMA SoundStoreHasNoLaterTx ==
  ASSUME NEW b \in Db, SoundStore(b), NEW h \in Heights, b.height < h,
         NEW t \in TxID, t \in BlockIds(h)
  PROVE  b.txs[t] = Absent /\ \A a \in Addr : t \notin b.idx[a]
<1>0. b.height \in Heights /\ h \in (b.height + 1)..MaxHeight
  BY ChainType DEF Db, Heights
<1>1. \A a \in Addr : t \notin b.idx[a]
  BY <1>0 DEF SoundStore
<1>2. ASSUME b.txs[t] /= Absent PROVE FALSE
  <2>1. PICK v \in Unspent(b.txs[t]) : TRUE
    BY <1>2 DEF SoundStore
  <2> DEFINE u == <<t, v, b.txs[t].outs[v], b.txs[t].height>>
  <2>2. u \in UTXOSet(b.height)
    BY <1>2, SoundUtxos
  <2>3. PICK k \in 1..b.height : k \in Heights /\ u[1] \in BlockIds(k)
    BY <1>0, <2>2, UTXOSetOrigin
  <2>4. k = h
    BY <2>3, UniqueIds
  <2> QED BY <2>3, <2>4, <1>0, ChainType DEF Heights
<1> QED BY <1>1, <1>2

\* The checkpoint of a block other than the first, field by field.
LEMMA NextCheckpointFields ==
  ASSUME NEW b \in Db, b.hash /= NoHash, NEW h \in Heights
  PROVE  LET c == NewCheckpointFromNextBlock(b, h)
             spending == extractSpendingOutputsFromBlock(b, h)
         IN  /\ c.prevHash = b.hash /\ c.prevHeight = b.height
             /\ c.newHash = Chain[h].hash /\ c.newHeight = h
             /\ \A t \in TxID : c.before[t] =
                  IF \E o \in SpentBy(h) : o[1] = t THEN b.txs[t] ELSE Absent
             /\ \A t \in TxID : c.newOuts[t] =
                  IF t \in BlockIds(h)       THEN withSpent(createdEntry(h, t), t, h)
                  ELSE IF c.before[t] /= Absent THEN withSpent(b.txs[t], t, h)
                  ELSE Absent
             /\ c.before = spending
             /\ c.deref = derefAddresses(spending, h)
             /\ \A a \in Addr : c.newRefs[a] = {e[1] : e \in {d \in CreatedBy(h) : a \in d[3]}}
BY DEF NewCheckpointFromNextBlock, extractSpendingOutputsFromBlock, spendAllOutputs,
       extractAddressReferencesFromOutputs

\* What makes a checkpoint c of the store b reversible: it saves every
\* transaction it touches, adds references b does not have and removes
\* references b has.
Reversible(b, c) ==
  /\ c.prevHash = b.hash /\ c.prevHeight = b.height
  /\ \A a \in Addr : c.newRefs[a] \intersect b.idx[a] = {}
  /\ \A a \in Addr : c.deref[a] \subseteq b.idx[a]
  /\ \A t \in TxID : c.before[t] /= Absent => /\ c.before[t] = b.txs[t]
                                             /\ c.newOuts[t] /= Absent
  /\ \A t \in TxID : c.newOuts[t] /= Absent /\ c.before[t] = Absent
                       => b.txs[t] = Absent

LEMMA SoundStoreReversible ==
  ASSUME NEW b \in Db, SoundStore(b), b.hash /= NoHash, b.height < MaxHeight
  PROVE  /\ b.height + 1 \in Heights
         /\ Reversible(b, NewCheckpointFromNextBlock(b, b.height + 1))
<1> DEFINE h == b.height + 1
           c == NewCheckpointFromNextBlock(b, h)
           spending == extractSpendingOutputsFromBlock(b, h)
<1>1. b.height \in Nat /\ h \in Heights /\ b.height < h
  BY ChainType DEF Db, Heights
<1>2. /\ c.prevHash = b.hash /\ c.prevHeight = b.height
      /\ \A t \in TxID : c.before[t] =
           IF \E o \in SpentBy(h) : o[1] = t THEN b.txs[t] ELSE Absent
      /\ \A t \in TxID : c.newOuts[t] =
           IF t \in BlockIds(h)       THEN withSpent(createdEntry(h, t), t, h)
           ELSE IF c.before[t] /= Absent THEN withSpent(b.txs[t], t, h)
           ELSE Absent
      /\ c.before = spending
      /\ c.deref = derefAddresses(spending, h)
      /\ \A a \in Addr : c.newRefs[a] = {e[1] : e \in {d \in CreatedBy(h) : a \in d[3]}}
  BY <1>1, NextCheckpointFields
<1> HIDE DEF c
<1>3. ASSUME NEW a \in Addr PROVE c.newRefs[a] \intersect b.idx[a] = {}
  <2>1. \A t \in c.newRefs[a] : t \in TxID /\ t \in BlockIds(h)
    BY <1>1, <1>2, CreatedMembers
  <2> QED BY <2>1, <1>1, SoundStoreHasNoLaterTx
<1>4. ASSUME NEW a \in Addr PROVE c.deref[a] \subseteq b.idx[a]
  <2> SUFFICES ASSUME NEW t \in c.deref[a] PROVE t \in b.idx[a]
    OBVIOUS
  <2>1. t \in TxID /\ spending[t] /= Absent /\ payingOutputs(spending, a, t) /= {}
    BY <1>2 DEF derefAddresses
  <2>2. spending[t] = b.txs[t]
    BY <2>1, <1>2
  <2>3. PICK v \in Unspent(b.txs[t]) : a \in b.txs[t].outs[v]
    BY <2>1, <2>2 DEF payingOutputs
  <2> QED BY <2>1, <2>2, <2>3, SoundUtxos
<1>5. ASSUME NEW t \in TxID, c.before[t] /= Absent
      PROVE  c.before[t] = b.txs[t] /\ c.newOuts[t] /= Absent
  <2>1. c.before[t] = b.txs[t]
    BY <1>2, <1>5
  <2>2. b.txs[t] \in Entry
    BY <2>1, <1>5 DEF Db
  <2>3. t \in BlockIds(h) => createdEntry(h, t) \in Entry
    BY <1>1, CreatedEntryType DEF BlockIds
  <2>4. c.newOuts[t] \in Entry
    BY <1>1, <1>2, <1>5, <2>2, <2>3, WithSpentType
  <2> QED BY <2>1, <2>4, ChainType
<1>6. ASSUME NEW t \in TxID, c.newOuts[t] /= Absent, c.before[t] = Absent
      PROVE  b.txs[t] = Absent
  <2>1. t \in BlockIds(h)
    BY <1>2, <1>6
  <2> QED BY <2>1, <1>1, SoundStoreHasNoLaterTx
<1>7. Reversible(b, c)
  BY <1>2, <1>3, <1>4, <1>5, <1>6 DEF Reversible
<1> QED BY <1>1, <1>7 DEF c

-----------------------------------------------------------------------------
(* Committing the next block on a sound store gives a sound store. *)

\* The unspent outputs of one stored transaction.
UtxosOf(t, e) ==
  IF e = Absent THEN {} ELSE {<<t, v, e.outs[v], e.height>> : v \in Unspent(e)}

LEMMA UtxosByTx ==
  ASSUME NEW d \in Db
  PROVE  \A u : u \in Utxos(d) <=> \E t \in TxID : u \in UtxosOf(t, d.txs[t])
BY UtxosMembers DEF UtxosOf

LEMMA UtxosOfId ==
  ASSUME NEW t, NEW e, NEW u \in UtxosOf(t, e)
  PROVE  u[1] = t /\ e /= Absent
BY DEF UtxosOf

\* An entry stored with its spent outputs removed.
LEMMA UtxosOfSpent ==
  ASSUME NEW t \in TxID, NEW e \in Entry, NEW h \in Heights
  PROVE  /\ \A u : u \in UtxosOf(t, stored(withSpent(e, t, h))) <=>
                     u \in UtxosOf(t, e) /\ <<u[1], u[2]>> \notin SpentBy(h)
         /\ stored(withSpent(e, t, h)) /= Absent =>
               Unspent(stored(withSpent(e, t, h))) /= {}
<1> DEFINE w == withSpent(e, t, h)
<1>1. /\ w \in Entry /\ w.height = e.height /\ DOMAIN w.outs = DOMAIN e.outs
      /\ \A v \in DOMAIN e.outs :
           w.outs[v] = IF <<t, v>> \in SpentBy(h) THEN Spent ELSE e.outs[v]
  BY WithSpentType
<1>2. w /= Absent /\ e /= Absent
  BY <1>1, ChainType
<1> HIDE DEF w
<1>3. Unspent(w) = {v \in Unspent(e) : <<t, v>> \notin SpentBy(h)}
  BY <1>1 DEF Unspent
<1>4. \A v \in Unspent(w) : w.outs[v] = e.outs[v]
  BY <1>1, <1>3 DEF Unspent
<1>5. ASSUME NEW u
      PROVE  u \in UtxosOf(t, stored(w)) <=>
               u \in UtxosOf(t, e) /\ <<u[1], u[2]>> \notin SpentBy(h)
  <2>1. u \in UtxosOf(t, stored(w)) <=> \E v \in Unspent(w) : u = <<t, v, w.outs[v], w.height>>
    BY <1>2 DEF UtxosOf, stored, allSpent
  <2>2. u \in UtxosOf(t, e) <=> \E v \in Unspent(e) : u = <<t, v, e.outs[v], e.height>>
    BY <1>2 DEF UtxosOf
  <2>3. ASSUME u \in UtxosOf(t, stored(w))
        PROVE  u \in UtxosOf(t, e) /\ <<u[1], u[2]>> \notin SpentBy(h)
    <3>1. PICK v \in Unspent(w) : u = <<t, v, w.outs[v], w.height>>
      BY <2>1, <2>3
    <3>2. v \in Unspent(e) /\ <<t, v>> \notin SpentBy(h) /\ w.outs[v] = e.outs[v]
      BY <1>3, <1>4
    <3>3. u = <<t, v, e.outs[v], e.height>> /\ u[1] = t /\ u[2] = v
      BY <3>1, <3>2, <1>1
    <3> QED BY <3>2, <3>3, <2>2
  <2>4. ASSUME u \in UtxosOf(t, e), <<u[1], u[2]>> \notin SpentBy(h)
        PROVE  u \in UtxosOf(t, stored(w))
    <3>1. PICK v \in Unspent(e) : u = <<t, v, e.outs[v], e.height>>
      BY <2>2, <2>4
    <3>2. u[1] = t /\ u[2] = v
      BY <3>1
    <3>3. v \in Unspent(w) /\ w.outs[v] = e.outs[v]
      BY <1>3, <1>4, <2>4, <3>2
    <3> QED BY <3>1, <3>3, <2>1, <1>1
  <2> QED BY <2>3, <2>4
<1>6. stored(w) /= Absent => Unspent(stored(w)) /= {}
  BY DEF stored, allSpent
<1> QED BY <1>5, <1>6 DEF w

\* The entry a block creates for one of its transactions.
LEMMA UtxosOfCreated ==
  ASSUME NEW h \in Heights, NEW t \in BlockIds(h)
  PROVE  /\ t \in TxID /\ createdEntry(h, t) \in Entry
         /\ \A u : u \in UtxosOf(t, createdEntry(h, t)) <=> u \in CreatedBy(h) /\ u[1] = t
<1>1. PICK i \in TxNos(h) : TxAt(h, i).id = t
  BY DEF BlockIds
<1> DEFINE tx == TxAt(h, i)
           e  == createdEntry(h, t)
<1>2. e = [height |-> h, outs |-> getAllSpendableOutputs(tx)] /\ e \in Entry /\ t \in TxID
  BY <1>1, CreatedEntryType, BlockType
<1>3. e /= Absent
  BY <1>2, ChainType
<1>4. \A v \in DOMAIN tx.outs : tx.outs[v].addrs \in SUBSET Addr
  <2>1. tx.outs \in Seq(NodeOutput)
    BY BlockType
  <2>2. \A v \in DOMAIN tx.outs : tx.outs[v] \in NodeOutput
    BY <2>1
  <2> QED BY <2>2 DEF NodeOutput
<1>5. /\ DOMAIN e.outs = DOMAIN tx.outs /\ e.height = h
      /\ \A v \in DOMAIN tx.outs :
           e.outs[v] = IF tx.outs[v].spendable THEN tx.outs[v].addrs ELSE Spent
  BY <1>2 DEF getAllSpendableOutputs
<1> HIDE DEF e
<1>6. Unspent(e) = {v \in DOMAIN tx.outs : tx.outs[v].spendable}
  BY <1>4, <1>5, ChainType DEF Unspent
<1>7. ASSUME NEW u PROVE u \in UtxosOf(t, e) <=> u \in CreatedBy(h) /\ u[1] = t
  <2>1. u \in UtxosOf(t, e) <=> \E v \in Unspent(e) : u = <<t, v, e.outs[v], e.height>>
    BY <1>3 DEF UtxosOf
  <2>2. ASSUME u \in UtxosOf(t, e) PROVE u \in CreatedBy(h) /\ u[1] = t
    <3>1. PICK v \in DOMAIN tx.outs :
            tx.outs[v].spendable /\ u = <<t, v, tx.outs[v].addrs, h>>
      BY <2>1, <2>2, <1>5, <1>6
    <3> QED BY <3>1, <1>1 DEF CreatedBy
  <2>3. ASSUME u \in CreatedBy(h), u[1] = t PROVE u \in UtxosOf(t, e)
    <3>1. PICK j \in TxNos(h) : \E v \in DOMAIN TxAt(h, j).outs :
            /\ TxAt(h, j).outs[v].spendable
            /\ u = <<TxAt(h, j).id, v, TxAt(h, j).outs[v].addrs, h>>
            /\ u[1] = TxAt(h, j).id
      BY <2>3, CreatedByType
    <3>2. TxAt(h, j).id = TxAt(h, i).id
      BY <3>1, <1>1, <2>3
    <3>3. j = i
      BY <3>2, UniqueTx
    <3>4. PICK v \in DOMAIN tx.outs :
            /\ tx.outs[v].spendable
            /\ u = <<tx.id, v, tx.outs[v].addrs, h>>
      BY <3>1, <3>3
    <3>5. v \in Unspent(e) /\ e.outs[v] = tx.outs[v].addrs /\ e.height = h
      BY <3>4, <1>5, <1>6
    <3> QED BY <3>4, <3>5, <2>1, <1>1
  <2> QED BY <2>2, <2>3
<1> QED BY <1>2, <1>7 DEF e

\* An outpoint is spent by one input of the chain.
LEMMA SpentOnce ==
  ASSUME NEW h \in Heights, NEW in1 \in Inputs(h), NEW in2 \in Inputs(h), in1[2] = in2[2]
  PROVE  in1 = in2
<1>1. PICK i \in TxNos(h) : \E o \in TxAt(h, i).ins : in1 = <<i, o>>
  BY DEF Inputs
<1>2. PICK j \in TxNos(h) : \E o \in TxAt(h, j).ins : in2 = <<j, o>>
  BY DEF Inputs
<1>3. TxAt(h, i).ins \intersect TxAt(h, j).ins /= {}
  BY <1>1, <1>2
<1>4. i = j
  BY <1>3, ValidChain
<1> QED BY <1>1, <1>2, <1>4

\* derefAddresses counts right: an address that loses its reference to a
\* transaction has no output left in it, because as many inputs as outputs
\* means that every one of the outputs is spent.
LEMMA DereferencedIsSpent ==
  ASSUME NEW b \in Db, NEW h \in Heights, NEW a \in Addr,
         NEW t \in derefAddresses(extractSpendingOutputsFromBlock(b, h), h)[a],
         NEW v \in Unspent(b.txs[t]), a \in b.txs[t].outs[v]
  PROVE  <<t, v>> \in SpentBy(h)
<1> DEFINE spending == extractSpendingOutputsFromBlock(b, h)
           P == payingOutputs(spending, a, t)
           I == {in \in storedInputs(h) : in[2][1] = t /\ in[2][2] \in P}
           f == [in \in I |-> in[2][2]]
<1>1. t \in TxID /\ spending[t] /= Absent /\ Cardinality(I) = Cardinality(P)
  BY DEF derefAddresses
<1>2. spending[t] = b.txs[t] /\ b.txs[t] \in Entry
  BY <1>1 DEF extractSpendingOutputsFromBlock, Db
<1>3. IsFiniteSet(P)
  <2>1. b.txs[t].outs \in Seq({Spent} \union SUBSET Addr)
    BY <1>2 DEF Entry
  <2>2. DOMAIN b.txs[t].outs = 1..Len(b.txs[t].outs) /\ Len(b.txs[t].outs) \in Nat
    BY <2>1
  <2>3. IsFiniteSet(1..Len(b.txs[t].outs))
    <3>1. ASSUME NEW n \in Nat PROVE IsFiniteSet(1..n)
      BY ONLY n \in Nat, FS_Interval
    <3> QED BY <2>2, <3>1
  <2>4. P \subseteq 1..Len(b.txs[t].outs)
    BY <1>2, <2>2 DEF payingOutputs, Unspent
  <2> QED BY <2>3, <2>4, FS_Subset
<1>4. I \subseteq Inputs(h)
  BY DEF storedInputs
<1>5. \A in \in Inputs(h) : in[2] \in SpentBy(h) /\ in[2] = <<in[2][1], in[2][2]>>
  <2> SUFFICES ASSUME NEW in \in Inputs(h)
               PROVE  in[2] \in SpentBy(h) /\ in[2] = <<in[2][1], in[2][2]>>
    OBVIOUS
  <2>1. PICK i \in TxNos(h) : \E o \in TxAt(h, i).ins : in = <<i, o>>
    BY DEF Inputs
  <2>2. in[2] \in TxAt(h, i).ins
    BY <2>1
  <2>3. in[2] \in SpentBy(h)
    BY <2>1, <2>2 DEF SpentBy
  <2> QED BY <2>3, SpentOrigin
<1>6. v \in P
  BY <1>2 DEF payingOutputs
<1> HIDE DEF P
<1>7. f \in [I -> P]
  OBVIOUS
<1>8. \A x, y \in I : f[x] = f[y] => x = y
  <2> SUFFICES ASSUME NEW x \in I, NEW y \in I, x[2][2] = y[2][2]
               PROVE  x = y
    OBVIOUS
  <2>1. x[2][1] = t /\ y[2][1] = t
    OBVIOUS
  <2>2. x[2] = y[2]
    BY <2>1, <1>4, <1>5
  <2> QED BY <2>2, <1>4, SpentOnce
<1> HIDE DEF f
<1>9. f \in Injection(I, P)
  BY <1>7, <1>8, Fun_IsInj
<1>10. f \in Surjection(I, P)
  BY <1>1, <1>3, <1>9, FS_Injection
<1>11. PICK in \in I : f[in] = v
  BY <1>6, <1>10, Fun_SurjectionProperties
<1>12. in[2][1] = t /\ in[2][2] = v
  BY <1>11 DEF f
<1> QED BY <1>4, <1>5, <1>12

\* Committing the next block adds to the unspent outputs what the block creates
\* and removes what it spends.
LEMMA CommittedUtxos ==
  ASSUME NEW b \in Db, SoundStore(b), b.hash /= NoHash, b.height < MaxHeight
  PROVE  LET h == b.height + 1
             c == NewCheckpointFromNextBlock(b, h)
             d == Committed(b, c)
         IN  /\ \A u : u \in Utxos(d) <=> /\ u \in Utxos(b) \union CreatedBy(h)
                                          /\ <<u[1], u[2]>> \notin SpentBy(h)
             /\ \A t \in TxID : d.txs[t] /= Absent => Unspent(d.txs[t]) /= {}
<1> DEFINE h == b.height + 1
           c == NewCheckpointFromNextBlock(b, h)
           d == Committed(b, c)
<1>1. b.height \in Nat /\ h \in Heights /\ b.height < h
  BY ChainType DEF Db, Heights
<1>2. /\ \A t \in TxID : c.before[t] =
           IF \E o \in SpentBy(h) : o[1] = t THEN b.txs[t] ELSE Absent
      /\ \A t \in TxID : c.newOuts[t] =
           IF t \in BlockIds(h)       THEN withSpent(createdEntry(h, t), t, h)
           ELSE IF c.before[t] /= Absent THEN withSpent(b.txs[t], t, h)
           ELSE Absent
  BY <1>1, NextCheckpointFields
<1>3. c \in Checkpoint /\ d \in Db
  BY <1>1, NewCheckpointType, CommittedType
<1>4. \A t \in TxID : d.txs[t] = IF c.newOuts[t] = Absent THEN b.txs[t]
                                 ELSE stored(c.newOuts[t])
  BY DEF Committed
<1> HIDE DEF d, c
<1>5. ASSUME NEW t \in TxID
      PROVE  /\ \A u : u \in UtxosOf(t, d.txs[t]) <=>
                      /\ u \in UtxosOf(t, b.txs[t]) \union CreatedBy(h)
                      /\ u[1] = t
                      /\ <<u[1], u[2]>> \notin SpentBy(h)
             /\ d.txs[t] /= Absent => Unspent(d.txs[t]) /= {}
  <2>1. CASE t \in BlockIds(h)
    <3> DEFINE e == createdEntry(h, t)
    <3>1. e \in Entry /\ \A u : u \in UtxosOf(t, e) <=> u \in CreatedBy(h) /\ u[1] = t
      BY <1>1, <2>1, UtxosOfCreated
    <3>2. withSpent(e, t, h) /= Absent
      BY <1>1, <3>1, WithSpentType, ChainType
    <3>3. d.txs[t] = stored(withSpent(e, t, h))
      BY <1>2, <1>4, <2>1, <3>2
    <3>4. UtxosOf(t, b.txs[t]) = {}
      BY <1>1, <2>1, SoundStoreHasNoLaterTx DEF UtxosOf
    <3> HIDE DEF e
    <3> QED BY <1>1, <3>1, <3>3, <3>4, UtxosOfSpent
  <2>2. CASE t \notin BlockIds(h) /\ c.before[t] /= Absent
    <3>1. b.txs[t] \in Entry
      BY <1>2, <2>2 DEF Db
    <3>2. withSpent(b.txs[t], t, h) /= Absent
      BY <1>1, <3>1, WithSpentType, ChainType
    <3>3. d.txs[t] = stored(withSpent(b.txs[t], t, h))
      BY <1>2, <1>4, <2>2, <3>2
    <3>4. \A u \in CreatedBy(h) : u[1] /= t
      BY <1>1, <2>2, CreatedMembers
    <3>5. \A u \in UtxosOf(t, b.txs[t]) : u[1] = t
      BY UtxosOfId
    <3> QED BY <1>1, <3>1, <3>3, <3>4, <3>5, UtxosOfSpent
  <2>3. CASE t \notin BlockIds(h) /\ c.before[t] = Absent
    <3>1. d.txs[t] = b.txs[t]
      BY <1>2, <1>4, <2>3
    <3>2. \A u \in CreatedBy(h) : u[1] /= t
      BY <1>1, <2>3, CreatedMembers
    <3>3. \A u \in UtxosOf(t, b.txs[t]) : u[1] = t /\ b.txs[t] /= Absent
      BY UtxosOfId
    <3>4. \A u \in UtxosOf(t, b.txs[t]) : <<u[1], u[2]>> \notin SpentBy(h)
      <4> SUFFICES ASSUME NEW u \in UtxosOf(t, b.txs[t]), <<u[1], u[2]>> \in SpentBy(h)
                   PROVE  FALSE
        OBVIOUS
      <4>1. \E o \in SpentBy(h) : o[1] = t
        BY <3>3
      <4> QED BY <4>1, <3>3, <1>2, <2>3
    <3> QED BY <3>1, <3>2, <3>3, <3>4 DEF SoundStore
  <2> QED BY <2>1, <2>2, <2>3
<1>6. ASSUME NEW u
      PROVE  u \in Utxos(d) <=> /\ u \in Utxos(b) \union CreatedBy(h)
                               /\ <<u[1], u[2]>> \notin SpentBy(h)
  <2>1. u \in Utxos(d) <=> \E t \in TxID : u \in UtxosOf(t, d.txs[t])
    BY <1>3, UtxosByTx
  <2>2. u \in Utxos(b) <=> \E t \in TxID : u \in UtxosOf(t, b.txs[t])
    BY UtxosByTx
  <2>3. \A t \in TxID : u \in UtxosOf(t, b.txs[t]) => u[1] = t
    BY UtxosOfId
  <2>4. u \in CreatedBy(h) => u[1] \in TxID
    BY <1>1, CreatedMembers
  <2> QED BY <1>5, <2>1, <2>2, <2>3, <2>4
<1> QED BY <1>5, <1>6 DEF d, c

LEMMA CommittedIsSound ==
  ASSUME NEW b \in Db, SoundStore(b), b.hash /= NoHash, b.height < MaxHeight
  PROVE  LET c == NewCheckpointFromNextBlock(b, b.height + 1)
             d == Committed(b, c)
         IN  SoundStore(d) /\ d.hash /= NoHash /\ d.height = b.height + 1
<1> DEFINE h == b.height + 1
           c == NewCheckpointFromNextBlock(b, h)
           d == Committed(b, c)
           spending == extractSpendingOutputsFromBlock(b, h)
<1>1. b.height \in Nat /\ b.height \in Heights /\ h \in Heights /\ b.height < h
  BY ChainType DEF Db, Heights
<1>2. /\ c.newHash = Chain[h].hash /\ c.newHeight = h
      /\ c.deref = derefAddresses(spending, h)
      /\ \A a \in Addr : c.newRefs[a] = {e[1] : e \in {x \in CreatedBy(h) : a \in x[3]}}
  BY <1>1, NextCheckpointFields
<1>3. c \in Checkpoint /\ d \in Db /\ Reversible(b, c)
  BY <1>1, NewCheckpointType, CommittedType, SoundStoreReversible
<1>4. /\ d.hash = c.newHash /\ d.height = c.newHeight
      /\ \A a \in Addr : d.idx[a] = (b.idx[a] \union c.newRefs[a]) \ c.deref[a]
  BY DEF Committed
<1>5. /\ \A u : u \in Utxos(d) <=> /\ u \in Utxos(b) \union CreatedBy(h)
                                   /\ <<u[1], u[2]>> \notin SpentBy(h)
      /\ \A t \in TxID : d.txs[t] /= Absent => Unspent(d.txs[t]) /= {}
  BY CommittedUtxos
<1> HIDE DEF d, c
<1>6. d.hash \in Hash /\ d.hash = Chain[h].hash /\ d.height = h /\ d.hash /= NoHash
  BY <1>2, <1>3, <1>4, ChainType DEF Checkpoint
<1>7. Utxos(d) = UTXOSet(h)
  <2>1. Utxos(b) = UTXOSet(b.height)
    BY DEF SoundStore, AtBlock
  <2>2. UTXOSet(h) = {u \in UTXOSet(b.height) \union CreatedBy(h) :
                        <<u[1], u[2]>> \notin SpentBy(h)}
    BY <1>1, UTXOSetStep
  <2> QED BY <1>5, <2>1, <2>2
<1>8. ASSUME NEW a \in Addr, NEW u \in Utxos(d), a \in u[3]
      PROVE  u[1] \in d.idx[a]
  <2>1. c.newRefs[a] \intersect b.idx[a] = {} /\ c.deref[a] \subseteq b.idx[a]
    BY <1>3 DEF Reversible
  <2>2. CASE u \in CreatedBy(h)
    <3>1. u[1] \in c.newRefs[a]
      BY <1>2, <1>8, <2>2
    <3> QED BY <1>4, <2>1, <3>1
  <2>3. CASE u \in Utxos(b)
    <3>1. PICK t \in TxID : b.txs[t] /= Absent /\ \E v \in Unspent(b.txs[t]) :
                               u = <<t, v, b.txs[t].outs[v], b.txs[t].height>>
      BY <2>3, UtxosMembers
    <3>2. PICK v \in Unspent(b.txs[t]) : u = <<t, v, b.txs[t].outs[v], b.txs[t].height>>
      BY <3>1
    <3>3. u[1] = t /\ u[2] = v /\ a \in b.txs[t].outs[v]
      BY <3>2, <1>8
    <3>4. t \in b.idx[a]
      BY <3>1, <3>3, SoundUtxos
    <3>5. <<t, v>> \notin SpentBy(h)
      BY <1>5, <1>8, <3>3
    <3>6. t \notin c.deref[a]
      <4> SUFFICES ASSUME t \in c.deref[a] PROVE FALSE
        OBVIOUS
      <4>1. t \in derefAddresses(extractSpendingOutputsFromBlock(b, h), h)[a]
        BY <1>2
      <4> QED BY <1>1, <3>3, <3>5, <4>1, DereferencedIsSpent
    <3> QED BY <1>4, <3>3, <3>4, <3>6
  <2> QED BY <1>5, <1>8, <2>2, <2>3
<1>9. ASSUME NEW a \in Addr
      PROVE  getUnspentOutputsByAddress(d, a) = Paying(UTXOSet(d.height), a)
  BY <1>6, <1>7, <1>8 DEF getUnspentOutputsByAddress, Paying
<1>10. ASSUME NEW a \in Addr, NEW t \in d.idx[a], NEW k \in (d.height + 1)..MaxHeight
       PROVE  t \notin BlockIds(k)
  <2>1. k \in Heights /\ k /= h /\ k \in (b.height + 1)..MaxHeight
    BY <1>1, <1>6, ChainType DEF Heights
  <2>2. CASE t \in b.idx[a]
    BY <2>1, <2>2 DEF SoundStore
  <2>3. CASE t \in c.newRefs[a]
    <3>1. t \in BlockIds(h)
      BY <1>1, <1>2, <2>3, CreatedMembers
    <3> QED BY <3>1, <1>1, <2>1, UniqueIds
  <2> QED BY <1>4, <2>2, <2>3
<1>11. AtBlock(d)
  BY <1>1, <1>6, <1>7, <1>9 DEF AtBlock
<1>12. SoundStore(d)
  BY <1>5, <1>6, <1>10, <1>11 DEF SoundStore
<1> QED BY <1>6, <1>12 DEF d, c

\* The first block changes the block keys only.
LEMMA FirstCommittedIsSound ==
  ASSUME NEW b \in Db, SoundStore(b), b.hash = NoHash
  PROVE  LET d == Committed(b, NewCheckpointFromNextBlock(b, 0))
         IN  SoundStore(d) /\ d.hash /= NoHash /\ d.height = 0
<1> DEFINE c == NewCheckpointFromNextBlock(b, 0)
           d == Committed(b, c)
<1>1. 0 \in Heights /\ Chain[0].hash \in Hash /\ Chain[0].hash /= NoHash
  BY BlockType, ChainType DEF Heights, Block
<1>2. /\ c.newHash = Chain[0].hash /\ c.newHeight = 0
      /\ c.newOuts = NoTxs /\ c.newRefs = NoRefs /\ c.deref = NoRefs
  BY DEF NewCheckpointFromNextBlock
<1>3. d \in Db
  BY <1>1, NewCheckpointType, CommittedType
<1>4. /\ d.hash = Chain[0].hash /\ d.height = 0
      /\ \A t \in TxID : d.txs[t] = b.txs[t]
      /\ \A a \in Addr : d.idx[a] = b.idx[a]
  BY <1>2 DEF Committed, NoTxs, NoRefs
<1> HIDE DEF d
<1>5. d.txs = b.txs /\ d.idx = b.idx /\ b.height = 0
  BY <1>3, <1>4 DEF Db, SoundStore
<1>6. AtBlock(d)
  BY <1>1, <1>3, <1>4, <1>5, UtxosOfSameTxs DEF SoundStore, AtBlock
<1>7. SoundStore(d)
  BY <1>1, <1>4, <1>5, <1>6 DEF SoundStore
<1> QED BY <1>1, <1>4, <1>7 DEF d
===============================================================================
