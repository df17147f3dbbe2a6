------------------------------- MODULE UTXOStore ------------------------------
(***************************************************************************)
(* One indexer process over Redis and the checkpoint file: utxostore.Store, *)
(* checkpointstore and the scanner's handler that adds block after block.   *)
(*                                                                          *)
(* A block is added by CommitCheckpoint: the checkpoint is written to the   *)
(* file, all the changes go to Redis in one MULTI/EXEC, the file is         *)
(* removed.  Redis and the file outlive the process.  When the process      *)
(* starts, New compares them and, when the store does not match the file,   *)
(* takes the store back to the block before, one Redis command at a time.   *)
(***************************************************************************)
EXTENDS Spending

CONSTANTS
  NoFile,      \* there is no checkpoint file
  Torn,        \* the file exists and does not decode
  FaultKinds,  \* the faults that may happen, a subset of AllFaults
  MaxFaults,   \* how many of them in one behaviour (a bound of the model)
  InitialStores \* the stores the indexer may be started on

\* crash    the process dies
\* torn     it dies (or New is reached) while the file is not fully written
\* save     os.WriteFile fails half way
\* exec     Redis refuses or never gets the EXEC (WATCH, lost connection)
\* lost     Redis runs the EXEC and the reply is lost
\* cancel   the context is cancelled while the handler queues its commands
\* remove   os.Remove of the checkpoint file fails
AllFaults == {"crash", "torn", "save", "exec", "lost", "cancel", "remove"}

ASSUME FaultType ==
  /\ FaultKinds \subseteq AllFaults
  /\ MaxFaults \in Nat
  /\ InitialStores \subseteq Db
  /\ NoFile /= Torn
  /\ NoFile \notin Checkpoint
  /\ Torn \notin Checkpoint

VARIABLES
  db,        \* Redis, under the database version in use
  file,      \* the checkpoint file
  pc,        \* what the process is doing
  isConsist, \* Store.isConsist
  cp,        \* the checkpoint being committed, or rolled back; NoFile if none
  todo,      \* the commands of downCheckpoint that are still to be sent
  next,      \* height of the block the scanner hands to the handler
  mistaken,  \* history: Do has returned nil for a part of a block
  faults     \* the faults so far (a bound of the model)

vars == <<db, file, pc, isConsist, cp, todo, next, faults, mistaken>>

\* down       no process, or one before New
\* rollback   in downCheckpoint
\* booted     New has returned a store; main has not used it yet
\* refused    New has returned an error
\* ready      the scanner's loop, between two calls of the handler
\* saving     in SaveCheckpoint: the file is truncated
\* executing  the commands are being queued and EXEC sent
\* removing   EXEC has succeeded, the file is about to be removed
\* closing    the same, with the context cancelled and a part of the block run
\* stopping   the context is cancelled
PCs == {"down", "rollback", "booted", "refused", "ready", "saving",
        "executing", "removing", "closing", "stopping"}

Fault(kind) ==
  /\ kind \in FaultKinds
  /\ faults < MaxFaults
  /\ faults' = faults + 1

-----------------------------------------------------------------------------
(* The commands of a checkpoint, forward and backward. *)

HashCmd   == <<"hash">>
HeightCmd == <<"height">>

TxCmds(c)    == {<<"tx", t>> : t \in {u \in TxID : c.newOuts[u] /= Absent}}
RefCmds(c)   == {<<"ref", a>> : a \in {b \in Addr : c.newRefs[b] /= {}}}
DerefCmds(c) == {<<"deref", a>> : a \in {b \in Addr : c.deref[b] /= {}}}

\* The commands in the order they are queued; the maps are ranged over in any
\* order, so the commands of one group may come in any order.
RefsFirst(c) == \* (mutant: the references before the transactions)
  <<{HashCmd}, {HeightCmd}, RefCmds(c), TxCmds(c), DerefCmds(c)>>
Groups(c) == <<{HashCmd}, {HeightCmd}, TxCmds(c), RefCmds(c), DerefCmds(c)>>
AllCmds(c) == UNION {Groups(c)[i] : i \in DOMAIN Groups(c)}

\* The sets of commands that can have been queued at some moment.
Queues(c) ==
  UNION {{(UNION {Groups(c)[j] : j \in 1..(i - 1)}) \union part :
            part \in SUBSET Groups(c)[i]} : i \in DOMAIN Groups(c)}

\* (mutant: a transaction without unspent outputs is written, not deleted)
ApplyKeepingSpent(d, c, S) ==
  [hash   |-> IF HashCmd \in S THEN c.newHash ELSE d.hash,
   height |-> IF HeightCmd \in S THEN c.newHeight ELSE d.height,
   txs    |-> [t \in TxID |->
                 IF <<"tx", t>> \in S THEN c.newOuts[t] ELSE d.txs[t]],
   idx    |-> [a \in Addr |->
                 (d.idx[a] \union (IF <<"ref", a>> \in S THEN c.newRefs[a] ELSE {}))
                   \ (IF <<"deref", a>> \in S THEN c.deref[a] ELSE {})]]

\* spendOutputsWithNewBlockInfo: the effect of the queued commands S.
Apply(d, c, S) ==
  [hash   |-> IF HashCmd \in S THEN c.newHash ELSE d.hash,
   height |-> IF HeightCmd \in S THEN c.newHeight ELSE d.height,
   txs    |-> [t \in TxID |->
                 IF <<"tx", t>> \notin S THEN d.txs[t]
                 ELSE IF allSpent(c.newOuts[t]) THEN Absent
                 ELSE c.newOuts[t]],
   idx    |-> [a \in Addr |->
                 (d.idx[a] \union (IF <<"ref", a>> \in S THEN c.newRefs[a] ELSE {}))
                   \ (IF <<"deref", a>> \in S THEN c.deref[a] ELSE {})]]

\* downCheckpoint sends the same groups of commands, each on its own: the block
\* keys, the references, the transactions that were not stored before, and
\* then those that were.
NewTxsKept(c) == {} \* (mutant: new transactions are not removed)
NewTxCmds(c) == {cmd \in TxCmds(c) : c.before[cmd[2]] = Absent}
OldTxCmds(c) == {<<"tx", t>> : t \in {u \in TxID : c.before[u] /= Absent}}
DownGroups(c) == <<{HashCmd}, {HeightCmd}, RefCmds(c), DerefCmds(c),
                   NewTxCmds(c), OldTxCmds(c)>>
DownCmds(c) == UNION {DownGroups(c)[i] : i \in DOMAIN DownGroups(c)}

\* The commands that may be the next one of downCheckpoint.
NextDown(c, S) ==
  {cmd \in S : \E i \in DOMAIN DownGroups(c) :
     /\ cmd \in DownGroups(c)[i]
     /\ \A j \in 1..(i - 1) : DownGroups(c)[j] \intersect S = {}}

\* (mutant: the removed references do not come back)
downWithoutDerefs(d, c, S) ==
  [hash   |-> IF HashCmd \in S THEN c.prevHash ELSE d.hash,
   height |-> IF HeightCmd \in S THEN c.prevHeight ELSE d.height,
   txs    |-> [t \in TxID |->
                 IF <<"tx", t>> \in S THEN c.before[t] ELSE d.txs[t]],
   idx    |-> [a \in Addr |->
                 d.idx[a] \ (IF <<"ref", a>> \in S THEN c.newRefs[a] ELSE {})]]

\* The effect of the commands S of downCheckpoint.
downCheckpoint(d, c, S) ==
  [hash   |-> IF HashCmd \in S THEN c.prevHash ELSE d.hash,
   height |-> IF HeightCmd \in S THEN c.prevHeight ELSE d.height,
   txs    |-> [t \in TxID |->
                 IF <<"tx", t>> \in S THEN c.before[t] ELSE d.txs[t]],
   idx    |-> [a \in Addr |->
                 (d.idx[a] \ (IF <<"ref", a>> \in S THEN c.newRefs[a] ELSE {}))
                   \union (IF <<"deref", a>> \in S THEN c.deref[a] ELSE {})]]

\* isConsistenceWithCheckpoint compares the block keys, then the references,
\* then the transactions, and stops at the first difference.  A new transaction
\* that is missing is an error to it, not a difference, and so is a store
\* without a block hash; which transaction it meets first is up to the map.
keysMatch(d, c) ==
  /\ d.hash = c.newHash
  /\ d.height = c.newHeight
  /\ \A a \in Addr : c.newRefs[a] \subseteq d.idx[a]
  /\ \A a \in Addr : c.deref[a] \intersect d.idx[a] = {}

differingTxs(d, c) ==
  {t \in TxID : c.newOuts[t] /= Absent /\ d.txs[t] /= stored(c.newOuts[t])}
missingTxs(d, c) == {t \in differingTxs(d, c) : d.txs[t] = Absent}

isConsistenceWithCheckpoint(d, c) == keysMatch(d, c) /\ differingTxs(d, c) = {}

checkFails(d, c) ==
  \/ d.hash = NoHash
  \/ keysMatch(d, c) /\ missingTxs(d, c) /= {}

\* (mutant: a store without a block hash differs like any other)
differsWithoutHash(d, c) == keysMatch(d, c) => differingTxs(d, c) /= missingTxs(d, c)

checkFindsDifference(d, c) ==
  /\ d.hash /= NoHash
  /\ keysMatch(d, c) => differingTxs(d, c) /= missingTxs(d, c)

-----------------------------------------------------------------------------
Init ==
  /\ db \in InitialStores
  /\ file = NoFile
  /\ pc = "down"
  /\ isConsist = FALSE
  /\ cp = NoFile
  /\ todo = {}
  /\ next = 0
  /\ faults = 0
  /\ mistaken = FALSE

-----------------------------------------------------------------------------
(* New: checkConsistencyAndTryToFix, and what main does with the store. *)

NewWithoutCheckpoint ==
  /\ pc = "down"
  /\ file = NoFile
  /\ isConsist' = TRUE
  /\ pc' = "booted"
  /\ UNCHANGED <<db, file, cp, todo, next, faults, mistaken>>

NewConsistent ==
  /\ pc = "down"
  /\ file \notin {NoFile, Torn}
  /\ isConsistenceWithCheckpoint(db, file)
  /\ file' = NoFile
  /\ isConsist' = TRUE
  /\ pc' = "booted"
  /\ UNCHANGED <<db, cp, todo, next, faults, mistaken>>

\* The file does not decode, the check ends in an error, or the file cannot be
\* removed: New returns an error and the process exits.
NewTorn ==
  /\ pc = "down"
  /\ file = Torn
  /\ pc' = "refused"
  /\ UNCHANGED <<db, file, isConsist, cp, todo, next, faults, mistaken>>

NewCheckFails ==
  /\ pc = "down"
  /\ file \notin {NoFile, Torn}
  /\ checkFails(db, file)
  /\ pc' = "refused"
  /\ UNCHANGED <<db, file, isConsist, cp, todo, next, faults, mistaken>>

NewRemoveFails ==
  /\ \/ pc = "down" /\ file \notin {NoFile, Torn} /\ isConsistenceWithCheckpoint(db, file)
     \/ pc = "rollback" /\ todo = {}
  /\ Fault("remove")
  /\ pc' = "refused"
  /\ cp' = NoFile
  /\ UNCHANGED <<db, file, isConsist, todo, next, mistaken>>

\* (mutant: the checkpoint is removed before the rollback)
RollbackBeginWithoutFile ==
  /\ pc = "down"
  /\ file \notin {NoFile, Torn}
  /\ checkFindsDifference(db, file)
  /\ file.prevHash /= NoHash
  /\ file' = NoFile
  /\ cp' = file
  /\ todo' = DownCmds(file)
  /\ pc' = "rollback"
  /\ UNCHANGED <<db, isConsist, next, faults, mistaken>>

\* Without a previous block downCheckpoint would dereference nil.
RollbackBegin ==
  /\ pc = "down"
  /\ file \notin {NoFile, Torn}
  /\ checkFindsDifference(db, file)
  /\ file.prevHash /= NoHash
  /\ cp' = file
  /\ todo' = DownCmds(file)
  /\ pc' = "rollback"
  /\ UNCHANGED <<db, file, isConsist, next, faults, mistaken>>

RollbackStep ==
  /\ pc = "rollback"
  /\ \E cmd \in NextDown(cp, todo) :
       /\ db' = downCheckpoint(db, cp, {cmd})
       /\ todo' = todo \ {cmd}
  /\ UNCHANGED <<file, pc, isConsist, cp, next, faults, mistaken>>

\* (mutant: the checkpoint stays behind)
RollbackEndKeepingFile ==
  /\ pc = "rollback"
  /\ todo = {}
  /\ cp' = NoFile
  /\ pc' = "booted"
  /\ UNCHANGED <<db, file, isConsist, todo, next, faults, mistaken>>

\* The file is removed and New returns the store, with isConsist still false.
RollbackEnd ==
  /\ pc = "rollback"
  /\ todo = {}
  /\ file' = NoFile
  /\ cp' = NoFile
  /\ pc' = "booted"
  /\ UNCHANGED <<db, isConsist, todo, next, faults, mistaken>>

\* runChainstateMigration asks the store for its height before anything else;
\* ErrInconsistenceState ends the process.
BootInconsistent ==
  /\ pc = "booted"
  /\ ~isConsist
  /\ pc' = "down"
  /\ UNCHANGED <<db, file, isConsist, cp, todo, next, faults, mistaken>>

\* (mutant: one block too early)
ScannerStartEarly ==
  /\ pc = "booted"
  /\ isConsist
  /\ next' = db.height - 1
  /\ pc' = "ready"
  /\ UNCHANGED <<db, file, isConsist, cp, todo, faults, mistaken>>

\* The scanner starts from the stored block, or from the genesis block.
ScannerStart ==
  /\ pc = "booted"
  /\ isConsist
  /\ next' = db.height
  /\ pc' = "ready"
  /\ UNCHANGED <<db, file, isConsist, cp, todo, faults, mistaken>>

Exit ==
  /\ pc \in {"refused", "stopping"}
  /\ pc' = "down"
  /\ isConsist' = FALSE
  /\ cp' = NoFile
  /\ UNCHANGED <<db, file, todo, next, faults, mistaken>>

-----------------------------------------------------------------------------
(* The scanner's handler: AddFromBlock and CommitCheckpoint. *)

\* ErrBlockAlreadyStored: the handler goes on to the next block.
AlreadyStored ==
  /\ pc = "ready"
  /\ isConsist
  /\ next <= MaxHeight
  /\ isNoDiff(db, next)
  /\ next' = next + 1
  /\ UNCHANGED <<db, file, pc, isConsist, cp, todo, faults, mistaken>>

\* Any other error of NewCheckpointFromNextBlock changes nothing, and the
\* scanner calls the handler with the same block again.
SaveBegin ==
  /\ pc = "ready"
  /\ isConsist
  /\ next <= MaxHeight
  /\ ~isNoDiff(db, next)
  /\ ~isTooFar(db, next)
  /\ ~isMissing(db, next)
  /\ cp' = NewCheckpointFromNextBlock(db, next)
  /\ file' = Torn
  /\ pc' = "saving"
  /\ UNCHANGED <<db, isConsist, todo, next, faults, mistaken>>

SaveEnd ==
  /\ pc = "saving"
  /\ file' = cp
  /\ pc' = "executing"
  /\ UNCHANGED <<db, isConsist, cp, todo, next, faults, mistaken>>

SaveFails ==
  /\ pc = "saving"
  /\ Fault("save")
  /\ cp' = NoFile
  /\ pc' = "ready"
  /\ UNCHANGED <<db, file, isConsist, todo, next, mistaken>>

Exec ==
  /\ pc = "executing"
  /\ db' = Apply(db, cp, AllCmds(cp))
  /\ pc' = "removing"
  /\ UNCHANGED <<file, isConsist, cp, todo, next, faults, mistaken>>

\* txManager.Do returns an error: isConsist becomes false, and nothing but a new
\* process makes it true again.
ExecRefused ==
  /\ pc = "executing"
  /\ Fault("exec")
  /\ isConsist' = FALSE
  /\ cp' = NoFile
  /\ pc' = "ready"
  /\ UNCHANGED <<db, file, todo, next, mistaken>>

ExecReplyLost ==
  /\ pc = "executing"
  /\ Fault("lost")
  /\ db' = Apply(db, cp, AllCmds(cp))
  /\ isConsist' = FALSE
  /\ cp' = NoFile
  /\ pc' = "ready"
  /\ UNCHANGED <<file, todo, next, mistaken>>

\* (mutant: isConsist is left alone)
ExecCancelledGateOpen ==
  /\ pc = "executing"
  /\ Fault("cancel")
  /\ \E S \in Queues(cp) \ {AllCmds(cp)} : db' = Apply(db, cp, S)
  /\ cp' = NoFile
  /\ pc' = "stopping"
  /\ UNCHANGED <<file, isConsist, todo, next, mistaken>>

\* On ctx.Done awaitDone closes the closure without a cause: the pipeline's
\* callback returns nil and what has been queued so far is executed.  A Commit
\* that finds the transaction closed, and the rest of the commands in the
\* pipeliner, gets an error from Exec.
ExecCancelled ==
  /\ pc = "executing"
  /\ Fault("cancel")
  /\ \E S \in Queues(cp) \ {AllCmds(cp)} : db' = Apply(db, cp, S)
  /\ isConsist' = FALSE
  /\ cp' = NoFile
  /\ pc' = "stopping"
  /\ UNCHANGED <<file, todo, next, mistaken>>

\* A Commit that comes while that EXEC is still in flight waits for it and
\* returns its result, which is nil: Do returns nil for a part of the block, and
\* CommitCheckpoint goes on as if all of it were stored.
ExecCutUnnoticed ==
  /\ pc = "executing"
  /\ Fault("cancel")
  /\ \E S \in Queues(cp) \ {AllCmds(cp)} : db' = Apply(db, cp, S)
  /\ mistaken' = TRUE
  /\ pc' = "closing"
  /\ UNCHANGED <<file, isConsist, cp, todo, next>>

\* The next call of the handler finds the context cancelled, if it was.
afterRemoving == IF pc = "closing" THEN "stopping" ELSE "ready"

RemoveCheckpoint ==
  /\ pc \in {"removing", "closing"}
  /\ file' = NoFile
  /\ cp' = NoFile
  /\ pc' = afterRemoving
  /\ next' = next + 1
  /\ UNCHANGED <<db, isConsist, todo, faults, mistaken>>

\* CommitCheckpoint fails although the block is stored; the retry finds it so.
RemoveCheckpointFails ==
  /\ pc \in {"removing", "closing"}
  /\ Fault("remove")
  /\ cp' = NoFile
  /\ pc' = afterRemoving
  /\ UNCHANGED <<db, file, isConsist, todo, next, mistaken>>

\* The process dies.  A Redis error inside New ends the process in the same way.
Crash ==
  /\ pc /= "down"
  /\ Fault(IF file = Torn THEN "torn" ELSE "crash")
  /\ pc' = "down"
  /\ isConsist' = FALSE
  /\ cp' = NoFile
  /\ todo' = {}
  /\ UNCHANGED <<db, file, next, mistaken>>

-----------------------------------------------------------------------------
Startup == \/ NewWithoutCheckpoint \/ NewConsistent \/ NewTorn \/ NewCheckFails
           \/ RollbackBegin \/ RollbackStep \/ RollbackEnd
           \/ BootInconsistent \/ ScannerStart \/ Exit

Handler == \/ AlreadyStored \/ SaveBegin \/ SaveEnd \/ Exec \/ RemoveCheckpoint

Faults  == \/ NewRemoveFails \/ SaveFails \/ ExecRefused \/ ExecReplyLost
           \/ ExecCancelled \/ ExecCutUnnoticed \/ RemoveCheckpointFails \/ Crash

Next == Startup \/ Handler \/ Faults

Spec == Init /\ [][Next]_vars

\* The process goes on with what it is doing, and is started again when it has
\* exited; faults are never bound to happen.
FairSpec == Spec /\ WF_vars(Startup) /\ WF_vars(Handler)

-----------------------------------------------------------------------------
(* The store, seen through the checkpoint file. *)

\* The store as of the last block that is completely in it.
Settled ==
  IF file \in {NoFile, Torn} THEN db
  ELSE IF file.prevHash = NoHash THEN db
  ELSE IF isConsistenceWithCheckpoint(db, file) THEN db
  ELSE downCheckpoint(db, file, DownCmds(file))

Ledger == INSTANCE BlockLedger WITH
  tip       <- Settled.hash,
  height    <- Settled.height,
  utxo      <- Utxos(Settled),
  byAddress <- [a \in Addr |-> getUnspentOutputsByAddress(Settled, a)]

\* What a migration leaves behind.
ASSUME InitiallySound == \A d \in InitialStores : SoundStore(d)

-----------------------------------------------------------------------------
(* Properties.  A commit that was cut short and taken for a whole one leaves  *)
(* the store in the middle of a block with nothing to tell (mistaken, which    *)
(* CancelledCommitIsRolledBack finds); the others say what holds as long as    *)
(* that has not happened.                                                      *)

TypeOK ==
  /\ db \in Db
  /\ file \in Checkpoint \union {NoFile, Torn}
  /\ pc \in PCs
  /\ isConsist \in BOOLEAN
  /\ cp \in Checkpoint \union {NoFile}
  /\ todo \subseteq UNION {{HashCmd, HeightCmd}, {"tx"} \X TxID,
                           {"ref", "deref"} \X Addr}
  /\ next \in 0..(MaxHeight + 1)
  /\ faults \in 0..MaxFaults
  /\ mistaken \in BOOLEAN

\* When the context is cancelled, "Rollback will be called by context.Err()"
\* (transaction.go:82): a process that is stopped leaves whole blocks, or a
\* checkpoint that leads back.  Do may return nil for a part of a block instead,
\* and CommitCheckpoint removes the checkpoint.
CancelledCommitIsRolledBack ==
  pc = "stopping" /\ file \in {NoFile, Torn} => AtBlock(db)

\* While isConsist lets readers in, they see the UTXO set of a block of the
\* chain, whatever the commit in progress, a lost reply, a cancellation that Do
\* has reported or an earlier rollback has done to Redis
\* (GetUnspentOutputsByAddress is guarded by isConsist only).
ConsistentStoreServesTheChain == isConsist /\ ~mistaken => AtBlock(db)

\* A store that is part of the way through a block always has a checkpoint that
\* can be read: the file is written before the first command and removed after
\* the last, in CommitCheckpoint and in the recovery.
NeverStrandedMidBlock == file \in {NoFile, Torn} /\ ~mistaken => AtBlock(db)

\* The checkpoint in the file was computed on the store it leads back to, and
\* that store is sound: the rollback of New is exact from wherever the commit,
\* an earlier rollback, or a crash in the middle of either has left Redis.
FileLeadsBack ==
  file \notin {NoFile, Torn} =>
    IF file.prevHash = NoHash
    THEN SoundStore(db) /\ db.height = 0 /\ file.newHeight = 0
         /\ file = NewCheckpointFromNextBlock([db EXCEPT !.hash = NoHash], 0)
    ELSE LET base == downCheckpoint(db, file, DownCmds(file))
         IN  /\ SoundStore(base)
             /\ base.hash /= NoHash
             /\ base.height < MaxHeight
             /\ file = NewCheckpointFromNextBlock(base, base.height + 1)

\* The handler's progress through a commit.
CommitInProgress ==
  /\ pc /= "closing"
  /\ pc \in {"saving", "executing"} =>
       /\ isConsist
       /\ next = IF db.hash = NoHash THEN 0 ELSE db.height + 1
       /\ next <= MaxHeight
       /\ cp = NewCheckpointFromNextBlock(db, next)
  /\ pc = "saving" => file = Torn
  /\ pc \in {"executing", "rollback", "removing"} => cp = file
  /\ pc = "removing" => isConsist /\ next = db.height /\ db.hash /= NoHash
  /\ pc = "down" => ~isConsist
  /\ pc = "ready" /\ isConsist =>
       next \in (IF db.hash = NoHash THEN {0} ELSE {db.height, db.height + 1})

\* The rest of a rollback completes it.
RollbackInProgress ==
  pc = "rollback" =>
    /\ file \notin {NoFile, Torn}
    /\ file.prevHash /= NoHash
    /\ ~isConsist
    /\ todo \subseteq DownCmds(cp)
    /\ downCheckpoint(db, cp, todo) = downCheckpoint(db, cp, DownCmds(cp))

\* What holds between blocks and in the middle of one.
WholeBlocks ==
  /\ TypeOK
  /\ isConsist => SoundStore(db)
  /\ file \in {NoFile, Torn} => SoundStore(db)
  /\ FileLeadsBack
  /\ CommitInProgress
  /\ RollbackInProgress

\* Also in a store that is past help a checkpoint in hand is one of a block of
\* the chain.
CheckpointInHand ==
  /\ pc \in {"saving", "executing", "removing", "closing"} =>
       cp /= NoFile /\ next <= MaxHeight
  /\ pc = "rollback" => cp /= NoFile
  /\ pc = "closing" => mistaken

StoreInvariant ==
  /\ TypeOK
  /\ CheckpointInHand
  /\ ~mistaken => WholeBlocks

\* Whoever is let in by isConsist sees the settled store; a rollback that has
\* begun can no longer be taken for a commit (it takes the block hash back
\* first), so a start in the middle of it goes on with it.
SettledIsSeen ==
  /\ isConsist => Settled = db
  /\ pc = "rollback" =>
       /\ ~isConsistenceWithCheckpoint(db, cp)
       /\ HashCmd \notin todo => db.hash = cp.prevHash

SettledInvariant == ~mistaken => SettledIsSeen

\* The next block of the chain is never refused: no input whose output the store
\* has lost (ErrSpendingOutputNotFound, or the nil dereference of
\* derefAddresses), no gap in the heights.  The scanner would retry it forever.
NextBlockAccepted ==
  (pc = "ready" /\ isConsist /\ next <= MaxHeight /\ ~mistaken) =>
    ~isTooFar(db, next) /\ ~isMissing(db, next)

\* Recovery never needs the previous block of the checkpoint of the first block,
\* which has none (GetPreviousBlockHash would dereference nil).
FirstBlockNeverRolledBack ==
  (pc = "down" /\ file \notin {NoFile, Torn}) =>
    (checkFindsDifference(db, file) => file.prevHash /= NoHash)

\* A block that creates outputs creates one that pays an address.
BlocksPayAddresses ==
  \A h \in 1..MaxHeight : CreatedBy(h) /= {} => \E u \in CreatedBy(h) : u[3] /= {}

\* A start can tell whether the block of the checkpoint is stored, wherever the
\* commit or an earlier rollback was cut short: a new transaction that is missing,
\* which the check takes for an error and New for a reason never to start again
\* (utxostore.go:238), always comes with a block key or a reference that is
\* looked at before and differs.  (A store before its first block cannot tell, nor
\* one at a block that pays no address at all; BlocksPayAddresses says that the
\* chain has none of these.)
StartDecides ==
  (pc = "down" /\ file \notin {NoFile, Torn}) =>
    (checkFails(db, file) => db.hash = NoHash /\ file.prevHash = NoHash)

\* The store, seen through the rollback that the checkpoint file promises, adds
\* whole blocks in the order of the chain and answers queries from them alone:
\* no fault, retry or interrupted rollback is visible.
ImplementsLedger == Ledger!Init /\ [][mistaken' \/ Ledger!Next]_(Ledger!ledgerVars)

\* All the blocks get stored and served, or the indexer is stuck in one of four
\* ways: a checkpoint that does not decode, or that of the first block over a
\* store without a hash, which every start refuses; a gate that stays shut, in a
\* process that goes on retrying, after a transaction that failed; a part of a
\* block taken for the whole.
AllBlocksStored ==
  \/ <>[](pc = "ready" /\ isConsist /\ next = MaxHeight + 1 /\ db.height = MaxHeight)
  \/ <>[](file = Torn /\ pc \in {"down", "refused"})
  \/ <>[](file \notin {NoFile, Torn} /\ db.hash = NoHash /\ pc \in {"down", "refused"})
  \/ <>[](pc = "ready" /\ ~isConsist)
  \/ <>mistaken
===============================================================================
