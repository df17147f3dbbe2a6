------------------------------- MODULE Migration ------------------------------
(***************************************************************************)
(* What main does before it serves: it fills a new database version from a  *)
(* copy of the node's chainstate when that is ahead of the store, makes the *)
(* version known, and deletes the older versions.                           *)
(*                                                                          *)
(* Redis outlives the process, which may die anywhere and starts again from *)
(* the beginning; the migration then has to find how far the one before it  *)
(* has come.                                                                *)
(***************************************************************************)
EXTENDS Spending, SequencesExt

CONSTANTS
  TxsAt,       \* TxsAt[h]: the transactions of a chainstate at block h, and
  VoutsAt,     \* VoutsAt[h][t]: the outputs of t in it, in the order of its keys
  BatchSizes,  \* the values chainstateMigration.batchSize may be given
  FaultKinds,  \* the faults that may happen, a subset of AllFaults
  MaxFaults,   \* how many of them in one behaviour (a bound of the model)
  MaxVersion   \* the last database version (a bound of the model)

\* crash    the process dies
\* refused  Redis refuses the EXEC of a batch, or never gets it
\* lost     Redis runs the EXEC of a batch and the reply is lost
\* moved    the node has gone on since the migration that was cut short
AllFaults == {"crash", "refused", "lost", "moved"}

Versions == 1..MaxVersion

ASSUME MigrationConstants ==
  /\ \A h \in Heights :
       /\ TxsAt[h] \in Seq(TxID) /\ IsInjective(TxsAt[h])
       /\ ToSet(TxsAt[h]) = {u[1] : u \in UTXOSet(h)}
       /\ \A t \in ToSet(TxsAt[h]) :
            /\ VoutsAt[h][t] \in Seq(Nat \ {0})
            /\ ToSet(VoutsAt[h][t]) = {u[2] : u \in {w \in UTXOSet(h) : w[1] = t}}
  /\ BatchSizes \subseteq Nat \ {0}
  /\ FaultKinds \subseteq AllFaults
  /\ MaxFaults \in Nat
  /\ MaxVersion \in Nat \ {0}

VARIABLES
  versions,  \* the set migration_versions:<name>
  dbs,       \* Redis, under each database version
  cs,        \* height of the block of the chainstate
  pc,        \* what the process is doing
  batchSize, \* Migrator.batchSize
  pos,       \* how many of the chainstate's transactions are dealt with
  restored,  \* Migrator.restoredLastSavedTxID
  served,    \* height of the last block served so far (history)
  faults     \* the faults so far (a bound of the model)

vars == <<versions, dbs, cs, pc, batchSize, pos, restored, served, faults>>

\* down       no process, or one before runChainstateMigration
\* migrating  in the loop of Migrate
\* hashed     the block hash of the chainstate is stored
\* migrated   so is its height
\* deleting   in deleteOldVersionsData
\* serving    the servers and the scanner run
PCs == {"down", "migrating", "hashed", "migrated", "deleting", "serving"}

Fault(kind) ==
  /\ kind \in FaultKinds
  /\ faults < MaxFaults
  /\ faults' = faults + 1

EmptyDb == [hash |-> NoHash, height |-> 0, txs |-> NoTxs, idx |-> NoRefs]

-----------------------------------------------------------------------------
(* The chainstate, transaction by transaction. *)

Coins(t) == {u \in UTXOSet(cs) : u[1] = t}
TxsOfChainstate == TxsAt[cs]

\* (mutant: an output goes to the end of the list)
PushToEnd(list, element, placeIdx) == Append(list, element)

\* The list grows to the place of the output, with nil in between.
PushElementToPlace(list, element, placeIdx) ==
  [v \in 1..Max({Len(list), placeIdx}) |->
     IF v = placeIdx THEN element ELSE IF v <= Len(list) THEN list[v] ELSE Spent]

\* The outputs of t come in the order of their keys, which is not that of their
\* numbers; the height is that of the last of them.
ConvertUTXOlistToTransactionOutputList(t) ==
  LET vouts   == VoutsAt[cs][t]
      coin(v) == CHOOSE u \in Coins(t) : u[2] = v
      list[n \in 0..Len(vouts)] ==
        IF n = 0 THEN <<>>
        ELSE PushElementToPlace(list[n - 1], coin(vouts[n])[3], vouts[n])
  IN  list[Len(vouts)]

txOutputsEntry(t) ==
  [height |-> (CHOOSE u \in Coins(t) : TRUE)[4],
   outs   |-> ConvertUTXOlistToTransactionOutputList(t)]

\* A batch is stored when the first output of the transaction after it is seen;
\* what is left at the end of the chainstate is the last batch.
isFull == pos + batchSize < Len(TxsOfChainstate)
utxoBatch ==
  SubSeq(TxsOfChainstate, pos + 1, Min({pos + batchSize, Len(TxsOfChainstate)}))

\* addTransactionOutputs for every transaction of the batch, in one MULTI/EXEC.
AddTransactionOutputsBatch(d, batch) ==
  [d EXCEPT
     !.txs = [t \in TxID |-> IF t \in ToSet(batch) THEN txOutputsEntry(t)
                             ELSE d.txs[t]],
     !.idx = [a \in Addr |-> d.idx[a] \union
                {t \in ToSet(batch) :
                   LET e == txOutputsEntry(t)
                   IN  \E v \in Unspent(e) : a \in e.outs[v]}]]

-----------------------------------------------------------------------------
(* The version in use, and the version that is being filled. *)

\* (mutant: the last member)
getNewestVersion == Max(versions)

\* SMEMBERS gives a small set of integers in ascending order.
getOldestVersion == Min(versions)
target == getOldestVersion + 1

Init ==
  /\ versions = {}
  /\ dbs = [v \in Versions |-> EmptyDb]
  /\ cs \in Heights
  /\ pc = "down"
  /\ batchSize \in BatchSizes
  /\ pos = 0
  /\ restored = FALSE
  /\ served = 0
  /\ faults = 0

Initialize ==
  /\ pc = "down"
  /\ versions = {}
  /\ versions' = {1}
  /\ UNCHANGED <<dbs, cs, pc, batchSize, pos, restored, served, faults>>

\* The node is stopped while the chainstate is read, and goes on while the
\* indexer is down.  A migration that was cut short leaves keys in its target.
NodeSyncs ==
  /\ pc = "down"
  /\ versions /= {}
  /\ target \in Versions
  /\ cs < MaxHeight
  /\ cs' = cs + 1
  /\ IF dbs[target] = EmptyDb THEN UNCHANGED faults ELSE Fault("moved")
  /\ UNCHANGED <<versions, dbs, pc, batchSize, pos, restored, served>>

SkipMigration ==
  /\ pc = "down"
  /\ versions /= {}
  /\ cs <= dbs[getOldestVersion].height
  /\ pc' = "deleting"
  /\ UNCHANGED <<versions, dbs, cs, batchSize, pos, restored, served, faults>>

\* (mutant: an older chainstate is migrated too)
BeginMigrationAlways ==
  /\ pc = "down"
  /\ versions /= {}
  /\ target \in Versions
  /\ cs /= dbs[getOldestVersion].height
  /\ batchSize' \in BatchSizes
  /\ pos' = 0
  /\ restored' = FALSE
  /\ pc' = "migrating"
  /\ UNCHANGED <<versions, dbs, cs, served, faults>>

BeginMigration ==
  /\ pc = "down"
  /\ versions /= {}
  /\ target \in Versions
  /\ cs > dbs[getOldestVersion].height
  /\ batchSize' \in BatchSizes
  /\ pos' = 0
  /\ restored' = FALSE
  /\ pc' = "migrating"
  /\ UNCHANGED <<versions, dbs, cs, served, faults>>

-----------------------------------------------------------------------------
(* Migrate: batch after batch, then the block. *)

\* (mutant: the first transaction of the batch is looked up)
isFirstStored == dbs[target].txs[Head(utxoBatch)] /= Absent
isStored == dbs[target].txs[Last(utxoBatch)] /= Absent

\* Until the last transaction of a batch is not found, batches are skipped.
SkipBatch ==
  /\ pc = "migrating"
  /\ pos < Len(TxsOfChainstate)
  /\ ~restored
  /\ isStored
  /\ pos' = pos + Len(utxoBatch)
  /\ UNCHANGED <<versions, dbs, cs, pc, batchSize, restored, served, faults>>

CanStore ==
  /\ pc = "migrating"
  /\ pos < Len(TxsOfChainstate)
  /\ ~restored => ~isStored

\* (mutant: the batch is not started anew)
StoreBatchAgain ==
  /\ CanStore
  /\ restored' = TRUE
  /\ dbs' = [dbs EXCEPT ![target] = AddTransactionOutputsBatch(@, utxoBatch)]
  /\ UNCHANGED <<versions, cs, pc, batchSize, pos, served, faults>>

StoreBatch ==
  /\ CanStore
  /\ restored' = TRUE
  /\ dbs' = [dbs EXCEPT ![target] = AddTransactionOutputsBatch(@, utxoBatch)]
  /\ pos' = pos + Len(utxoBatch)
  /\ UNCHANGED <<versions, cs, pc, batchSize, served, faults>>

\* A full batch is tried again after a pause; when the last one fails, Migrate
\* does and the process exits.
StoreBatchFails ==
  /\ CanStore
  /\ restored' = TRUE
  /\ \/ Fault("refused") /\ UNCHANGED dbs
     \/ /\ Fault("lost")
        /\ dbs' = [dbs EXCEPT ![target] = AddTransactionOutputsBatch(@, utxoBatch)]
  /\ pc' = IF isFull THEN pc ELSE "down"
  /\ UNCHANGED <<versions, cs, batchSize, pos, served>>

SetBlockHash ==
  /\ pc = "migrating"
  /\ pos = Len(TxsOfChainstate)
  /\ dbs' = [dbs EXCEPT ![target].hash = Chain[cs].hash]
  /\ pc' = "hashed"
  /\ UNCHANGED <<versions, cs, batchSize, pos, restored, served, faults>>

SetBlockHeight ==
  /\ pc = "hashed"
  /\ dbs' = [dbs EXCEPT ![target].height = cs]
  /\ pc' = "migrated"
  /\ UNCHANGED <<versions, cs, batchSize, pos, restored, served, faults>>

UpdateVersion ==
  /\ pc = "migrated"
  /\ versions' = versions \union {target}
  /\ pc' = "deleting"
  /\ UNCHANGED <<dbs, cs, batchSize, pos, restored, served, faults>>

-----------------------------------------------------------------------------
(* deleteOldVersionsData, and serving. *)

\* Flush deletes the keys of the oldest version one by one.
FlushKey ==
  /\ pc = "deleting"
  /\ Cardinality(versions) > 1
  /\ LET d == dbs[getOldestVersion]
         without(e) == dbs' = [dbs EXCEPT ![getOldestVersion] = e]
     IN  \/ d.hash /= NoHash /\ without([d EXCEPT !.hash = NoHash])
         \/ d.height /= 0 /\ without([d EXCEPT !.height = 0])
         \/ \E t \in TxID : d.txs[t] /= Absent /\ without([d EXCEPT !.txs[t] = Absent])
         \/ \E a \in Addr : d.idx[a] /= {} /\ without([d EXCEPT !.idx[a] = {}])
  /\ UNCHANGED <<versions, cs, pc, batchSize, pos, restored, served, faults>>

DeleteVersion ==
  /\ pc = "deleting"
  /\ Cardinality(versions) > 1
  /\ dbs[getOldestVersion] = EmptyDb
  /\ versions' = versions \ {getOldestVersion}
  /\ UNCHANGED <<dbs, cs, pc, batchSize, pos, restored, served, faults>>

\* The readers and the scanner use the store of the version that is left.
Serve ==
  /\ pc = "deleting"
  /\ Cardinality(versions) <= 1
  /\ pc' = "serving"
  /\ served' = Max({served, dbs[getOldestVersion].height})
  /\ UNCHANGED <<versions, dbs, cs, batchSize, pos, restored, faults>>

\* The scanner stores the next block.  Module UTXOStore has the steps of this.
AddBlock ==
  /\ pc = "serving"
  /\ LET d == dbs[getOldestVersion]
         h == IF d.hash = NoHash THEN 0 ELSE d.height + 1
     IN  /\ h <= MaxHeight
         /\ dbs' = [dbs EXCEPT ![getOldestVersion] =
                      Committed(d, NewCheckpointFromNextBlock(d, h))]
         /\ served' = Max({served, h})
  /\ UNCHANGED <<versions, cs, pc, batchSize, pos, restored, faults>>

Stop ==
  /\ pc = "serving"
  /\ pc' = "down"
  /\ UNCHANGED <<versions, dbs, cs, batchSize, pos, restored, served, faults>>

Crash ==
  /\ pc \notin {"down", "serving"}
  /\ Fault("crash")
  /\ pc' = "down"
  /\ UNCHANGED <<versions, dbs, cs, batchSize, pos, restored, served>>

-----------------------------------------------------------------------------
Migrate == \/ Initialize \/ SkipMigration \/ BeginMigration \/ SkipBatch
           \/ StoreBatch \/ SetBlockHash \/ SetBlockHeight \/ UpdateVersion
           \/ FlushKey \/ DeleteVersion \/ Serve

Next == Migrate \/ NodeSyncs \/ StoreBatchFails \/ AddBlock \/ Stop \/ Crash

Spec == Init /\ [][Next]_vars

\* The process goes on, and is started again when it is down.
FairSpec == Spec /\ WF_vars(Migrate)

-----------------------------------------------------------------------------
(* Properties. *)

TypeOK ==
  /\ versions \subseteq Versions
  /\ dbs \in [Versions -> Db]
  /\ cs \in Heights
  /\ pc \in PCs
  /\ batchSize \in BatchSizes
  /\ pos \in Nat
  /\ restored \in BOOLEAN
  /\ served \in Heights
  /\ faults \in 0..MaxFaults

\* What main goes on to serve is one version, and the UTXO set of a block of the
\* chain with its index: whatever batch, block key or deletion a crash has cut
\* short, in whatever batches the migration was resumed.
ServedStoreIsSound ==
  pc = "serving" =>
    /\ Cardinality(versions) = 1
    /\ SoundStore(dbs[getOldestVersion])
    /\ \A v \in Versions : v < getOldestVersion => dbs[v] = EmptyDb

\* There is always a version to go back to: the newest one known is complete,
\* while the one to be filled and the one being deleted may not be.
NewestVersionSound == versions /= {} => SoundStore(dbs[getNewestVersion])

\* Neither a migration nor a deletion takes the served store back to an earlier
\* block (runChainstateMigration compares the heights).
ServedHeightNeverFalls == pc = "serving" => dbs[getOldestVersion].height = served

\* Every transaction that is counted as dealt with, those skipped after a restart
\* included, is stored with all its outputs at their places, and in the index.
DealtWithIsStored ==
  /\ TypeOK
  /\ pc = "migrating" =>
    \A t \in ToSet(SubSeq(TxsOfChainstate, 1, pos)) :
      LET e == dbs[target].txs[t]
      IN  /\ e /= Absent
          /\ {<<t, v, e.outs[v], e.height>> : v \in Unspent(e)} = Coins(t)
          /\ \A u \in Coins(t) : \A a \in u[3] : t \in dbs[target].idx[a]

\* The indexer gets to serve, after any crash or failed batch.
GetsToServe == (pc = "down") ~> (pc = "serving")

-----------------------------------------------------------------------------
(* What the repository says and the code does not do. *)

\* migration.go:63: "When the migration process fails, it tries to recover and
\* continue migration after".  The check for "not found" cannot tell what it
\* has stored from a chainstate of an earlier block: when the node has gone on
\* in between, spent outputs stay in the part that is skipped.
RecoveredMigrationIsSound == ServedStoreIsSound
===============================================================================
