---------------------------- MODULE UTXOStoreProofs ---------------------------
(***************************************************************************)
(* Proofs about UTXOStore, and about the queries of Readers, for every      *)
(* chain, set of faults, initial stores and node that satisfy the           *)
(* assumptions of Blocks, UTXOStore and Readers.                            *)
(***************************************************************************)
EXTENDS Readers, DataProofs

-----------------------------------------------------------------------------
(* Types. *)

\* Sending commands of a checkpoint, forward or backward, keeps the store's type.
LEMMA CommandsType ==
  ASSUME NEW d \in Db, NEW c \in Checkpoint, NEW S
  PROVE  Apply(d, c, S) \in Db /\ downCheckpoint(d, c, S) \in Db
<1>1. /\ d.hash \in Hash \union {NoHash} /\ d.height \in Heights
      /\ d.txs \in [TxID -> Entry \union {Absent}]
      /\ d.idx \in [Addr -> SUBSET TxID]
  BY DEF Db
<1>2. /\ c.prevHash \in Hash \union {NoHash} /\ c.prevHeight \in Heights
      /\ c.newHash \in Hash /\ c.newHeight \in Heights
      /\ c.before \in [TxID -> Entry \union {Absent}]
      /\ c.newOuts \in [TxID -> Entry \union {Absent}]
      /\ c.deref \in [Addr -> SUBSET TxID]
      /\ c.newRefs \in [Addr -> SUBSET TxID]
  BY DEF Checkpoint
<1>3. Apply(d, c, S) \in Db
  BY <1>1, <1>2 DEF Apply, Db
<1>4. downCheckpoint(d, c, S) \in Db
  BY <1>1, <1>2 DEF downCheckpoint, Db
<1> QED BY <1>3, <1>4

\* The commands of a rollback.
LEMMA DownCmdsType ==
  ASSUME NEW c
  PROVE  /\ DownCmds(c) = {HashCmd, HeightCmd} \union RefCmds(c) \union DerefCmds(c)
                            \union NewTxCmds(c) \union OldTxCmds(c)
         /\ DownCmds(c) \subseteq UNION {{HashCmd, HeightCmd}, {"tx"} \X TxID,
                                         {"ref", "deref"} \X Addr}
<1>1. DOMAIN DownGroups(c) = 1..6
  BY DEF DownGroups
<1>2. /\ DownGroups(c)[1] = {HashCmd} /\ DownGroups(c)[2] = {HeightCmd}
      /\ DownGroups(c)[3] = RefCmds(c) /\ DownGroups(c)[4] = DerefCmds(c)
      /\ DownGroups(c)[5] = NewTxCmds(c) /\ DownGroups(c)[6] = OldTxCmds(c)
  BY DEF DownGroups
<1>3. DownCmds(c) = {HashCmd, HeightCmd} \union RefCmds(c) \union DerefCmds(c)
                     \union NewTxCmds(c) \union OldTxCmds(c)
  BY <1>1, <1>2 DEF DownCmds
<1>4. /\ RefCmds(c) \union DerefCmds(c) \subseteq {"ref", "deref"} \X Addr
      /\ NewTxCmds(c) \union OldTxCmds(c) \subseteq {"tx"} \X TxID
  BY DEF RefCmds, DerefCmds, NewTxCmds, OldTxCmds, TxCmds
<1> QED BY <1>3, <1>4

-----------------------------------------------------------------------------
(* Undoing a checkpoint. *)

RolledBack(d, c) == downCheckpoint(d, c, DownCmds(c))

\* The effect of a whole rollback.
LEMMA RolledBackFields ==
  ASSUME NEW d \in Db, NEW c \in Checkpoint
  PROVE  /\ RolledBack(d, c).hash = c.prevHash
         /\ RolledBack(d, c).height = c.prevHeight
         /\ \A t \in TxID : RolledBack(d, c).txs[t] =
              IF c.before[t] /= Absent \/ c.newOuts[t] /= Absent
              THEN c.before[t] ELSE d.txs[t]
         /\ \A a \in Addr : RolledBack(d, c).idx[a] =
              (d.idx[a] \ c.newRefs[a]) \union c.deref[a]
<1> DEFINE S == DownCmds(c)
<1>1. HashCmd \in S /\ HeightCmd \in S
  BY DownCmdsType
<1>2. \A t \in TxID : <<"tx", t>> \in S <=> c.before[t] /= Absent \/ c.newOuts[t] /= Absent
  BY DownCmdsType DEF HashCmd, HeightCmd, RefCmds, DerefCmds, NewTxCmds, OldTxCmds, TxCmds
<1>3. \A a \in Addr : <<"ref", a>> \in S <=> c.newRefs[a] /= {}
  BY DownCmdsType DEF HashCmd, HeightCmd, RefCmds, DerefCmds, NewTxCmds, OldTxCmds, TxCmds
<1>4. \A a \in Addr : <<"deref", a>> \in S <=> c.deref[a] /= {}
  BY DownCmdsType DEF HashCmd, HeightCmd, RefCmds, DerefCmds, NewTxCmds, OldTxCmds, TxCmds
<1> HIDE DEF S
<1>5. downCheckpoint(d, c, S).hash = c.prevHash /\ downCheckpoint(d, c, S).height = c.prevHeight
  BY <1>1 DEF downCheckpoint
<1>6. \A t \in TxID : downCheckpoint(d, c, S).txs[t] =
              IF c.before[t] /= Absent \/ c.newOuts[t] /= Absent
              THEN c.before[t] ELSE d.txs[t]
  BY <1>2 DEF downCheckpoint
<1>7. \A a \in Addr : downCheckpoint(d, c, S).idx[a] =
              (d.idx[a] \ c.newRefs[a]) \union c.deref[a]
  BY <1>3, <1>4 DEF downCheckpoint
<1> QED BY <1>5, <1>6, <1>7 DEF RolledBack, S

\* The commands of a commit, and the effect of all of them.
LEMMA AllCmdsMembers ==
  ASSUME NEW c
  PROVE  /\ HashCmd \in AllCmds(c) /\ HeightCmd \in AllCmds(c)
         /\ \A t \in TxID : <<"tx", t>> \in AllCmds(c) <=> c.newOuts[t] /= Absent
         /\ \A a \in Addr : <<"ref", a>> \in AllCmds(c) <=> c.newRefs[a] /= {}
         /\ \A a \in Addr : <<"deref", a>> \in AllCmds(c) <=> c.deref[a] /= {}
<1>1. DOMAIN Groups(c) = 1..5
  BY DEF Groups
<1>2. /\ Groups(c)[1] = {HashCmd} /\ Groups(c)[2] = {HeightCmd}
      /\ Groups(c)[3] = TxCmds(c) /\ Groups(c)[4] = RefCmds(c)
      /\ Groups(c)[5] = DerefCmds(c)
  BY DEF Groups
<1>3. AllCmds(c) = {HashCmd, HeightCmd} \union TxCmds(c) \union RefCmds(c)
                     \union DerefCmds(c)
  BY <1>1, <1>2 DEF AllCmds
<1>4. HashCmd \in AllCmds(c) /\ HeightCmd \in AllCmds(c)
  BY <1>3
<1>5. \A t \in TxID : <<"tx", t>> \in AllCmds(c) <=> c.newOuts[t] /= Absent
  BY <1>3 DEF HashCmd, HeightCmd, RefCmds, DerefCmds, TxCmds
<1>6. \A a \in Addr : <<"ref", a>> \in AllCmds(c) <=> c.newRefs[a] /= {}
  BY <1>3 DEF HashCmd, HeightCmd, RefCmds, DerefCmds, TxCmds
<1>7. \A a \in Addr : <<"deref", a>> \in AllCmds(c) <=> c.deref[a] /= {}
  BY <1>3 DEF HashCmd, HeightCmd, RefCmds, DerefCmds, TxCmds
<1> QED BY <1>4, <1>5, <1>6, <1>7

LEMMA CommittedFields ==
  ASSUME NEW d \in Db, NEW c \in Checkpoint
  PROVE  LET e == Apply(d, c, AllCmds(c))
         IN  /\ e.hash = c.newHash
             /\ e.height = c.newHeight
             /\ \A t \in TxID : e.txs[t] = IF c.newOuts[t] = Absent THEN d.txs[t]
                                           ELSE stored(c.newOuts[t])
             /\ \A a \in Addr : e.idx[a] =
                                   (d.idx[a] \union c.newRefs[a]) \ c.deref[a]
<1> DEFINE S == AllCmds(c)
<1>1. /\ HashCmd \in S /\ HeightCmd \in S
      /\ \A t \in TxID : <<"tx", t>> \in S <=> c.newOuts[t] /= Absent
      /\ \A a \in Addr : <<"ref", a>> \in S <=> c.newRefs[a] /= {}
      /\ \A a \in Addr : <<"deref", a>> \in S <=> c.deref[a] /= {}
  BY AllCmdsMembers
<1> HIDE DEF S
<1>2. \A t \in TxID : Apply(d, c, S).txs[t] = IF c.newOuts[t] = Absent THEN d.txs[t]
                                              ELSE stored(c.newOuts[t])
  BY <1>1 DEF Apply, stored
<1>3. \A a \in Addr : Apply(d, c, S).idx[a] =
                        (d.idx[a] \union c.newRefs[a]) \ c.deref[a]
  BY <1>1 DEF Apply
<1> QED BY <1>1, <1>2, <1>3 DEF Apply, S

\* All the commands of a commit together.
LEMMA AllIsCommitted ==
  ASSUME NEW d \in Db, NEW c \in Checkpoint
  PROVE  Apply(d, c, AllCmds(c)) = Committed(d, c)
<1>1. Apply(d, c, AllCmds(c)) \in Db /\ Committed(d, c) \in Db
  BY CommandsType, CommittedType
<1>2. /\ Committed(d, c).hash = c.newHash
      /\ Committed(d, c).height = c.newHeight
      /\ \A t \in TxID : Committed(d, c).txs[t] =
           IF c.newOuts[t] = Absent THEN d.txs[t] ELSE stored(c.newOuts[t])
      /\ \A a \in Addr : Committed(d, c).idx[a] =
           (d.idx[a] \union c.newRefs[a]) \ c.deref[a]
  BY DEF Committed
<1> DEFINE e == Apply(d, c, AllCmds(c))
<1>3. /\ e.hash = Committed(d, c).hash /\ e.height = Committed(d, c).height
      /\ \A t \in TxID : e.txs[t] = Committed(d, c).txs[t]
      /\ \A a \in Addr : e.idx[a] = Committed(d, c).idx[a]
  BY <1>2, CommittedFields
<1> HIDE DEF e
<1>4. e = Committed(d, c)
  BY <1>1, <1>3, DbEqual DEF e
<1> QED BY <1>4 DEF e

\* Wherever the commit of a reversible checkpoint has stopped, its rollback
\* leads back to the store the checkpoint was computed on.
LEMMA RollbackUndoesCommit ==
  ASSUME NEW b \in Db, NEW c \in Checkpoint, Reversible(b, c),
         NEW S \in SUBSET AllCmds(c)
  PROVE  RolledBack(Apply(b, c, S), c) = b
<1> DEFINE d == Apply(b, c, S)
           r == RolledBack(d, c)
<1>1. d \in Db /\ r \in Db
  BY CommandsType DEF RolledBack
<1>a. /\ \A t \in TxID : <<"tx", t>> \notin S => d.txs[t] = b.txs[t]
      /\ \A a \in Addr : d.idx[a] =
           (b.idx[a] \union (IF <<"ref", a>> \in S THEN c.newRefs[a] ELSE {}))
             \ (IF <<"deref", a>> \in S THEN c.deref[a] ELSE {})
  BY DEF Apply
<1> HIDE DEF d
<1>b. /\ r.hash = c.prevHash /\ r.height = c.prevHeight
      /\ \A t \in TxID : r.txs[t] = IF c.before[t] /= Absent \/ c.newOuts[t] /= Absent
                                    THEN c.before[t] ELSE d.txs[t]
      /\ \A a \in Addr : r.idx[a] = (d.idx[a] \ c.newRefs[a]) \union c.deref[a]
  BY <1>1, RolledBackFields
<1> HIDE DEF r
<1>2. r.hash = b.hash /\ r.height = b.height
  BY <1>b DEF Reversible
<1>3. ASSUME NEW t \in TxID PROVE r.txs[t] = b.txs[t]
  <2>1. r.txs[t] = IF c.before[t] /= Absent \/ c.newOuts[t] /= Absent
                   THEN c.before[t] ELSE d.txs[t]
    BY <1>b
  <2>2. CASE c.before[t] /= Absent \/ c.newOuts[t] /= Absent
    BY <2>1, <2>2 DEF Reversible
  <2>3. CASE c.newOuts[t] = Absent /\ c.before[t] = Absent
    <3>1. <<"tx", t>> \notin S
      BY <2>3, AllCmdsMembers
    <3>2. d.txs[t] = b.txs[t]
      BY <3>1, <1>a
    <3> QED BY <2>1, <2>3, <3>2
  <2> QED BY <2>2, <2>3
<1>4. ASSUME NEW a \in Addr PROVE r.idx[a] = b.idx[a]
  <2>1. r.idx[a] = (d.idx[a] \ c.newRefs[a]) \union c.deref[a]
    BY <1>b
  <2>2. d.idx[a] = (b.idx[a] \union (IF <<"ref", a>> \in S THEN c.newRefs[a] ELSE {}))
                     \ (IF <<"deref", a>> \in S THEN c.deref[a] ELSE {})
    BY <1>a
  <2>3. c.newRefs[a] \intersect b.idx[a] = {} /\ c.deref[a] \subseteq b.idx[a]
    BY DEF Reversible
  <2> QED BY <2>1, <2>2, <2>3
<1>5. r = b
  BY <1>1, <1>2, <1>3, <1>4, DbEqual
<1> QED BY <1>5 DEF r, d

\* A store that has not been touched is its own rollback.
LEMMA RollbackOfUntouched ==
  ASSUME NEW b \in Db, NEW c \in Checkpoint, Reversible(b, c)
  PROVE  RolledBack(b, c) = b
<1>1. Apply(b, c, {}) \in Db
  BY CommandsType
<1>2. b.txs \in [TxID -> Entry \union {Absent}] /\ b.idx \in [Addr -> SUBSET TxID]
  BY DEF Db
<1>3. /\ Apply(b, c, {}).hash = b.hash
      /\ Apply(b, c, {}).height = b.height
      /\ \A t \in TxID : Apply(b, c, {}).txs[t] = b.txs[t]
      /\ \A a \in Addr : Apply(b, c, {}).idx[a] = b.idx[a]
  BY <1>2 DEF Apply
<1>4. Apply(b, c, {}) = b
  BY <1>1, <1>3, DbEqual
<1> QED BY <1>4, RollbackUndoesCommit

\* Commands of one rollback, sent in two parts, have the effect of all of them.
LEMMA RollbackInParts ==
  ASSUME NEW d \in Db, NEW c \in Checkpoint, NEW S, NEW T,
         \A a \in Addr : c.newRefs[a] \intersect c.deref[a] = {}
  PROVE  downCheckpoint(downCheckpoint(d, c, S), c, T) = downCheckpoint(d, c, S \union T)
<1> DEFINE e == downCheckpoint(d, c, S)
           f == downCheckpoint(e, c, T)
           g == downCheckpoint(d, c, S \union T)
<1>1. e \in Db /\ f \in Db /\ g \in Db
  BY CommandsType
<1>2. f.hash = g.hash /\ f.height = g.height
  BY DEF downCheckpoint
<1>3. ASSUME NEW t \in TxID PROVE f.txs[t] = g.txs[t]
  BY DEF downCheckpoint
<1>4. ASSUME NEW a \in Addr PROVE f.idx[a] = g.idx[a]
  <2> DEFINE R(X) == IF <<"ref", a>> \in X THEN c.newRefs[a] ELSE {}
             D(X) == IF <<"deref", a>> \in X THEN c.deref[a] ELSE {}
  <2>1. /\ e.idx[a] = (d.idx[a] \ R(S)) \union D(S)
        /\ f.idx[a] = (e.idx[a] \ R(T)) \union D(T)
        /\ g.idx[a] = (d.idx[a] \ R(S \union T)) \union D(S \union T)
    BY DEF downCheckpoint
  <2>2. /\ R(S \union T) = R(S) \union R(T)
        /\ D(S \union T) = D(S) \union D(T)
        /\ R(T) \intersect D(S) = {}
    OBVIOUS
  <2> HIDE DEF R, D, e, f, g
  <2> QED BY <2>1, <2>2
<1> HIDE DEF e, f, g
<1>5. f = g
  BY <1>1, <1>2, <1>3, <1>4, DbEqual
<1> QED BY <1>5 DEF e, f, g

\* A store that the check takes for the committed one is the committed one.
LEMMA ConsistentIsCommitted ==
  ASSUME NEW d \in Db, NEW c \in Checkpoint, Reversible(RolledBack(d, c), c),
         isConsistenceWithCheckpoint(d, c)
  PROVE  d = Apply(RolledBack(d, c), c, AllCmds(c))
<1> DEFINE b == RolledBack(d, c)
           e == Apply(b, c, AllCmds(c))
<1>1. b \in Db /\ e \in Db
  BY CommandsType DEF RolledBack
<1>a. /\ \A t \in TxID : b.txs[t] = IF c.before[t] /= Absent \/ c.newOuts[t] /= Absent
                                    THEN c.before[t] ELSE d.txs[t]
      /\ \A a \in Addr : b.idx[a] = (d.idx[a] \ c.newRefs[a]) \union c.deref[a]
  BY RolledBackFields
<1>b. Reversible(b, c)
  OBVIOUS
<1> HIDE DEF b
<1>c. /\ e.hash = c.newHash /\ e.height = c.newHeight
      /\ \A t \in TxID : e.txs[t] = IF c.newOuts[t] = Absent THEN b.txs[t]
                                    ELSE stored(c.newOuts[t])
      /\ \A a \in Addr : e.idx[a] = (b.idx[a] \union c.newRefs[a]) \ c.deref[a]
  BY <1>1, CommittedFields
<1> HIDE DEF e
<1>2. e.hash = d.hash /\ e.height = d.height
  BY <1>c DEF isConsistenceWithCheckpoint, keysMatch
<1>3. ASSUME NEW t \in TxID PROVE e.txs[t] = d.txs[t]
  <2>1. e.txs[t] = IF c.newOuts[t] = Absent THEN b.txs[t] ELSE stored(c.newOuts[t])
    BY <1>c
  <2>2. CASE c.newOuts[t] /= Absent
    <3>1. t \notin differingTxs(d, c)
      BY DEF isConsistenceWithCheckpoint
    <3> QED BY <2>1, <2>2, <3>1 DEF differingTxs
  <2>3. CASE c.newOuts[t] = Absent
    <3>1. c.before[t] = Absent
      BY <2>3, <1>b DEF Reversible
    <3>2. b.txs[t] = d.txs[t]
      BY <2>3, <3>1, <1>a
    <3> QED BY <2>1, <2>3, <3>2
  <2> QED BY <2>2, <2>3
<1>4. ASSUME NEW a \in Addr PROVE e.idx[a] = d.idx[a]
  <2>1. e.idx[a] = (b.idx[a] \union c.newRefs[a]) \ c.deref[a]
    BY <1>c
  <2>2. b.idx[a] = (d.idx[a] \ c.newRefs[a]) \union c.deref[a]
    BY <1>a
  <2>3. c.newRefs[a] \subseteq d.idx[a] /\ c.deref[a] \intersect d.idx[a] = {}
    BY DEF isConsistenceWithCheckpoint, keysMatch
  <2>4. c.newRefs[a] \intersect b.idx[a] = {}
    BY <1>b DEF Reversible
  <2> QED BY <2>1, <2>2, <2>3, <2>4
<1>5. d = e
  BY <1>1, <1>2, <1>3, <1>4, DbEqual
<1> QED BY <1>5 DEF b, e

-----------------------------------------------------------------------------
(* The checkpoint file, from the first block on. *)

\* FileLeadsBack, for any store and checkpoint.
LeadsBack(d, c) ==
  IF c.prevHash = NoHash
  THEN SoundStore(d) /\ d.height = 0 /\ c.newHeight = 0
       /\ c = NewCheckpointFromNextBlock([d EXCEPT !.hash = NoHash], 0)
  ELSE /\ SoundStore(RolledBack(d, c))
       /\ RolledBack(d, c).hash /= NoHash
       /\ RolledBack(d, c).height < MaxHeight
       /\ c = NewCheckpointFromNextBlock(RolledBack(d, c), RolledBack(d, c).height + 1)

LEMMA FileLeadsBackDef ==
  FileLeadsBack <=> (file \notin {NoFile, Torn} => LeadsBack(db, file))
BY DEF FileLeadsBack, LeadsBack, RolledBack

\* The checkpoint of the first block changes the block keys only, and in any
\* part of its commands the store stays sound.
LEMMA FirstBlock ==
  ASSUME NEW b \in Db, SoundStore(b), b.height = 0,
         NEW c, c = NewCheckpointFromNextBlock([b EXCEPT !.hash = NoHash], 0),
         NEW S \in SUBSET AllCmds(c)
  PROVE  LET d == Apply(b, c, S)
         IN  /\ c \in Checkpoint /\ c.prevHash = NoHash /\ c.newHeight = 0
             /\ LeadsBack(d, c)
             /\ d.height = 0
             /\ d.hash = IF HashCmd \in S THEN Chain[0].hash ELSE b.hash
<1> DEFINE n == [b EXCEPT !.hash = NoHash]
           d == Apply(b, c, S)
<1>0. 0 \in Heights /\ Chain[0].hash \in Hash /\ Chain[0].hash /= NoHash
  BY BlockType, ChainType DEF Heights, Block
<1>1. n \in Db /\ n.hash = NoHash
  BY DEF Db
<1>2. c \in Checkpoint
  BY <1>0, <1>1, NewCheckpointType
<1>3. /\ c.prevHash = NoHash /\ c.newHash = Chain[0].hash /\ c.newHeight = 0
      /\ c.newOuts = NoTxs /\ c.newRefs = NoRefs /\ c.deref = NoRefs
  BY <1>1 DEF NewCheckpointFromNextBlock
<1>4. /\ \A t \in TxID : <<"tx", t>> \notin S
      /\ \A a \in Addr : <<"ref", a>> \notin S /\ <<"deref", a>> \notin S
  BY <1>3, AllCmdsMembers DEF NoTxs, NoRefs
<1>5. d \in Db
  BY <1>2, CommandsType
<1>6. /\ d.hash = IF HashCmd \in S THEN Chain[0].hash ELSE b.hash
      /\ d.height = 0
      /\ d.txs = b.txs
      /\ d.idx = b.idx
  <2>1. /\ b.txs \in [TxID -> Entry \union {Absent}] /\ b.idx \in [Addr -> SUBSET TxID]
        /\ d.txs \in [TxID -> Entry \union {Absent}] /\ d.idx \in [Addr -> SUBSET TxID]
    BY <1>5 DEF Db
  <2>2. \A t \in TxID : d.txs[t] = b.txs[t]
    BY <1>4 DEF Apply
  <2>3. ASSUME NEW a \in Addr PROVE d.idx[a] = b.idx[a]
    <3>1. d.idx[a] = (b.idx[a] \union (IF <<"ref", a>> \in S THEN c.newRefs[a] ELSE {}))
                       \ (IF <<"deref", a>> \in S THEN c.deref[a] ELSE {})
      BY DEF Apply
    <3>2. d.idx[a] = (b.idx[a] \union {}) \ {}
      BY <1>4, <3>1
    <3> QED BY <3>2
  <2>4. d.txs = b.txs
    BY <2>1, <2>2
  <2>5. d.idx = b.idx
    BY <2>1, <2>3
  <2>6. d.height = 0 /\ d.hash = IF HashCmd \in S THEN Chain[0].hash ELSE b.hash
    BY <1>3 DEF Apply
  <2> QED BY <2>4, <2>5, <2>6
<1> HIDE DEF d
<1>7. [d EXCEPT !.hash = NoHash] = n
  <2> DEFINE m == [d EXCEPT !.hash = NoHash]
  <2>1. m \in Db /\ m.hash = NoHash /\ m.height = d.height /\ m.txs = d.txs /\ m.idx = d.idx
    BY <1>5 DEF Db
  <2>2. n.height = b.height /\ n.txs = b.txs /\ n.idx = b.idx
    BY DEF Db
  <2> HIDE DEF m, n
  <2>3. m = n
    BY <1>1, <1>6, <2>1, <2>2, DbEqual
  <2> QED BY <2>3 DEF m
<1>8. AtBlock(d)
  BY <1>0, <1>5, <1>6, UtxosOfSameTxs DEF SoundStore, AtBlock
<1>9. SoundStore(d)
  BY <1>0, <1>6, <1>8 DEF SoundStore
<1> QED BY <1>2, <1>3, <1>6, <1>7, <1>9 DEF LeadsBack, d

\* The checkpoint that the handler computes on a sound store leads back to it
\* from wherever its commit stops, and the whole commit gives a sound store.
LEMMA CommitLeadsBack ==
  ASSUME NEW b \in Db, SoundStore(b),
         NEW n, n = (IF b.hash = NoHash THEN 0 ELSE b.height + 1), n <= MaxHeight,
         NEW c, c = NewCheckpointFromNextBlock(b, n)
  PROVE  /\ c \in Checkpoint
         /\ LeadsBack(b, c)
         /\ \A S \in SUBSET AllCmds(c) : LeadsBack(Apply(b, c, S), c)
         /\ SoundStore(Apply(b, c, AllCmds(c)))
         /\ Apply(b, c, AllCmds(c)).height = n
         /\ Apply(b, c, AllCmds(c)).hash /= NoHash
<1>1. CASE b.hash = NoHash
  <2>1. b.height = 0 /\ n = 0
    BY <1>1 DEF SoundStore
  <2>2. [b EXCEPT !.hash = NoHash] = b
    BY <1>1 DEF Db
  <2>3. \A S \in SUBSET AllCmds(c) :
          /\ c \in Checkpoint /\ c.prevHash = NoHash /\ c.newHeight = 0
          /\ LeadsBack(Apply(b, c, S), c)
          /\ Apply(b, c, S).height = 0
          /\ Apply(b, c, S).hash = IF HashCmd \in S THEN Chain[0].hash ELSE b.hash
    BY <2>1, <2>2, FirstBlock
  <2>4. HashCmd \in AllCmds(c)
    BY AllCmdsMembers
  <2>5. Chain[0].hash /= NoHash
    BY BlockType, ChainType DEF Heights, Block
  <2>6. c \in Checkpoint /\ c.prevHash = NoHash /\ c.newHeight = 0
    BY <2>3
  <2>7. LeadsBack(b, c)
    BY <2>1, <2>2, <2>6 DEF LeadsBack
  <2>8. SoundStore(Apply(b, c, AllCmds(c)))
    <3>1. LeadsBack(Apply(b, c, AllCmds(c)), c)
      BY <2>3
    <3> QED BY <3>1, <2>6 DEF LeadsBack
  <2> QED BY <2>1, <2>3, <2>4, <2>5, <2>7, <2>8
<1>2. CASE b.hash /= NoHash
  <2>1. n = b.height + 1 /\ b.height \in Nat /\ b.height < MaxHeight /\ n \in Heights
    BY <1>2, ChainType DEF Db, Heights
  <2>2. c \in Checkpoint /\ Reversible(b, c)
    BY <1>2, <2>1, NewCheckpointType, SoundStoreReversible
  <2>3. c.prevHash = b.hash
    BY <2>2 DEF Reversible
  <2>4. ASSUME NEW d \in Db, RolledBack(d, c) = b PROVE LeadsBack(d, c)
    BY <1>2, <2>1, <2>3, <2>4 DEF LeadsBack
  <2>5. LeadsBack(b, c)
    BY <2>2, <2>4, RollbackOfUntouched
  <2>6. \A S \in SUBSET AllCmds(c) : LeadsBack(Apply(b, c, S), c)
    BY <2>2, <2>4, RollbackUndoesCommit, CommandsType
  <2>7. /\ SoundStore(Apply(b, c, AllCmds(c)))
        /\ Apply(b, c, AllCmds(c)).height = n
        /\ Apply(b, c, AllCmds(c)).hash /= NoHash
    BY <1>2, <2>1, <2>2, AllIsCommitted, CommittedIsSound
  <2> QED BY <2>2, <2>5, <2>6, <2>7
<1> QED BY <1>1, <1>2

\* The check of New takes no other store for the committed one.
LEMMA ConsistentIsSound ==
  ASSUME NEW d \in Db, NEW c \in Checkpoint, LeadsBack(d, c),
         isConsistenceWithCheckpoint(d, c)
  PROVE  SoundStore(d)
<1>1. CASE c.prevHash = NoHash
  BY <1>1 DEF LeadsBack
<1>2. CASE c.prevHash /= NoHash
  <2> DEFINE b == RolledBack(d, c)
  <2>1. b \in Db
    BY CommandsType DEF RolledBack
  <2>2. /\ SoundStore(b) /\ b.hash /= NoHash /\ b.height < MaxHeight
        /\ c = NewCheckpointFromNextBlock(b, b.height + 1)
    BY <1>2 DEF LeadsBack
  <2>3. Reversible(b, c)
    BY <2>1, <2>2, SoundStoreReversible
  <2>4. d = Committed(b, c)
    BY <2>1, <2>3, ConsistentIsCommitted, AllIsCommitted
  <2> HIDE DEF b
  <2> QED BY <2>1, <2>2, <2>4, CommittedIsSound
<1> QED BY <1>1, <1>2

\* A rollback may be stopped after any of its commands.
LEMMA RollbackContinues ==
  ASSUME NEW d \in Db, NEW c \in Checkpoint, LeadsBack(d, c), c.prevHash /= NoHash,
         NEW S \in SUBSET DownCmds(c), downCheckpoint(d, c, S) = RolledBack(d, c),
         NEW cmd \in S
  PROVE  LET e == downCheckpoint(d, c, {cmd})
         IN  /\ RolledBack(e, c) = RolledBack(d, c)
             /\ LeadsBack(e, c)
             /\ downCheckpoint(e, c, S \ {cmd}) = RolledBack(e, c)
<1> DEFINE b == RolledBack(d, c)
           e == downCheckpoint(d, c, {cmd})
<1>1. b \in Db
  BY CommandsType DEF RolledBack
<1>2. /\ SoundStore(b) /\ b.hash /= NoHash /\ b.height < MaxHeight
      /\ c = NewCheckpointFromNextBlock(b, b.height + 1)
  BY DEF LeadsBack
<1>3. Reversible(b, c)
  BY <1>1, <1>2, SoundStoreReversible
<1>4. \A a \in Addr : c.newRefs[a] \intersect c.deref[a] = {}
  BY <1>3 DEF Reversible
<1>5. RolledBack(e, c) = b
  <2>1. {cmd} \union DownCmds(c) = DownCmds(c)
    OBVIOUS
  <2>2. downCheckpoint(e, c, DownCmds(c)) = downCheckpoint(d, c, {cmd} \union DownCmds(c))
    BY <1>4, RollbackInParts
  <2> QED BY <2>1, <2>2 DEF RolledBack
<1>6. downCheckpoint(e, c, S \ {cmd}) = b
  <2>1. {cmd} \union (S \ {cmd}) = S
    OBVIOUS
  <2>2. downCheckpoint(e, c, S \ {cmd}) = downCheckpoint(d, c, {cmd} \union (S \ {cmd}))
    BY <1>4, RollbackInParts
  <2> QED BY <2>1, <2>2
<1>7. LeadsBack(e, c)
  BY <1>2, <1>5 DEF LeadsBack
<1> QED BY <1>5, <1>6, <1>7

\* With no command left the rollback is complete.
LEMMA RollbackIsOver ==
  ASSUME NEW d \in Db, NEW c \in Checkpoint,
         downCheckpoint(d, c, {}) = RolledBack(d, c)
  PROVE  RolledBack(d, c) = d
<1>1. downCheckpoint(d, c, {}) \in Db
  BY CommandsType
<1>2. d.txs \in [TxID -> Entry \union {Absent}] /\ d.idx \in [Addr -> SUBSET TxID]
  BY DEF Db
<1>3. downCheckpoint(d, c, {}) = d
  <2> DEFINE e == downCheckpoint(d, c, {})
  <2>1. /\ e.hash = d.hash /\ e.height = d.height
        /\ \A t \in TxID : e.txs[t] = d.txs[t]
        /\ \A a \in Addr : e.idx[a] = d.idx[a]
    BY <1>2 DEF downCheckpoint
  <2> QED BY <1>1, <2>1, DbEqual
<1> QED BY <1>3

\* What has been queued of a commit is part of its commands.
LEMMA QueuesAreCommands ==
  ASSUME NEW c, NEW S \in Queues(c)
  PROVE  S \subseteq AllCmds(c)
<1>1. PICK i \in DOMAIN Groups(c) : \E part \in SUBSET Groups(c)[i] :
        S = (UNION {Groups(c)[j] : j \in 1..(i - 1)}) \union part
  BY DEF Queues
<1>2. DOMAIN Groups(c) = 1..5
  BY DEF Groups
<1>3. 1..(i - 1) \subseteq DOMAIN Groups(c)
  BY <1>2
<1>4. \A j \in DOMAIN Groups(c) : Groups(c)[j] \subseteq AllCmds(c)
  BY DEF AllCmds
<1> HIDE DEF Groups
<1> QED BY <1>1, <1>3, <1>4

-----------------------------------------------------------------------------
(* The invariant of the store. *)

\* WholeBlocks with the file's conjunct in terms of LeadsBack.
LEMMA WholeBlocksDef ==
  WholeBlocks <=>
    /\ TypeOK
    /\ isConsist => SoundStore(db)
    /\ file \in {NoFile, Torn} => SoundStore(db)
    /\ file \notin {NoFile, Torn} => LeadsBack(db, file)
    /\ CommitInProgress
    /\ RollbackInProgress
BY FileLeadsBackDef DEF WholeBlocks

LEMMA WholeBlocksInitially == Init => WholeBlocks
<1> SUFFICES ASSUME Init PROVE WholeBlocks
  OBVIOUS
<1>1. TypeOK
  <2>1. db \in Db
    BY FaultType DEF Init
  <2>2. 0 \in 0..MaxHeight + 1 /\ 0 \in 0..MaxFaults
    BY FaultType, ChainType
  <2> QED BY <2>1, <2>2 DEF Init, TypeOK, PCs
<1>2. SoundStore(db)
  BY InitiallySound DEF Init
<1>3. CommitInProgress /\ RollbackInProgress
  BY DEF Init, CommitInProgress, RollbackInProgress
<1> QED BY <1>1, <1>2, <1>3, WholeBlocksDef DEF Init

\* A fault is counted up to the bound.
LEMMA FaultCounted ==
  ASSUME TypeOK, NEW kind, Fault(kind)
  PROVE  faults' \in 0..MaxFaults
BY FaultType DEF TypeOK, Fault

\* New: every way a start may go.
LEMMA StartupKeepsWholeBlocks == WholeBlocks /\ (Startup \/ NewRemoveFails) => WholeBlocks'
<1> SUFFICES ASSUME WholeBlocks, Startup \/ NewRemoveFails
             PROVE  WholeBlocks'
  OBVIOUS
<1> USE FaultType
<1>1. /\ TypeOK
      /\ isConsist => SoundStore(db)
      /\ file \in {NoFile, Torn} => SoundStore(db)
      /\ file \notin {NoFile, Torn} => file \in Checkpoint /\ LeadsBack(db, file)
      /\ CommitInProgress
      /\ RollbackInProgress
  BY WholeBlocksDef DEF TypeOK
<1>2. db \in Db /\ cp \in Checkpoint \union {NoFile}
  BY <1>1 DEF TypeOK
<1>3. SUFFICES /\ TypeOK'
               /\ isConsist' => SoundStore(db')
               /\ file' \in {NoFile, Torn} => SoundStore(db')
               /\ file' \notin {NoFile, Torn} => LeadsBack(db', file')
               /\ CommitInProgress'
               /\ RollbackInProgress'
  BY DEF WholeBlocks, FileLeadsBack, LeadsBack, RolledBack
<1>4. CASE NewWithoutCheckpoint
  BY <1>1, <1>4 DEF NewWithoutCheckpoint, TypeOK, PCs, CommitInProgress, RollbackInProgress
<1>5. CASE NewConsistent
  <2>1. SoundStore(db)
    BY <1>1, <1>2, <1>5, ConsistentIsSound DEF NewConsistent
  <2> QED BY <1>1, <1>5, <2>1 DEF NewConsistent, TypeOK, PCs, CommitInProgress, RollbackInProgress
<1>6. CASE NewTorn \/ NewCheckFails
  BY <1>1, <1>6 DEF NewTorn, NewCheckFails, TypeOK, PCs, CommitInProgress, RollbackInProgress
<1>7. CASE NewRemoveFails
  BY <1>1, <1>7 DEF NewRemoveFails, Fault, TypeOK, PCs, CommitInProgress, RollbackInProgress
<1>8. CASE RollbackBegin
  <2>1. TypeOK'
    BY <1>1, <1>8, DownCmdsType DEF RollbackBegin, TypeOK, PCs
  <2> QED BY <1>1, <1>8, <2>1 DEF RollbackBegin, CommitInProgress, RollbackInProgress
<1>9. CASE RollbackStep
  <2>1. PICK cmd \in NextDown(cp, todo) :
          db' = downCheckpoint(db, cp, {cmd}) /\ todo' = todo \ {cmd}
    BY <1>9 DEF RollbackStep
  <2>2. cmd \in todo /\ todo \in SUBSET DownCmds(cp)
    BY <1>1, <1>9, <2>1 DEF RollbackStep, RollbackInProgress, NextDown
  <2>3. /\ cp = file /\ file \notin {NoFile, Torn} /\ file.prevHash /= NoHash
        /\ ~isConsist /\ downCheckpoint(db, cp, todo) = RolledBack(db, cp)
    BY <1>1, <1>9 DEF RollbackStep, CommitInProgress, RollbackInProgress, RolledBack
  <2>4. cp \in Checkpoint /\ LeadsBack(db, cp)
    BY <1>1, <2>3
  <2>5. /\ LeadsBack(db', cp)
        /\ downCheckpoint(db', cp, todo') = RolledBack(db', cp)
    BY <1>2, <2>1, <2>2, <2>3, <2>4, RollbackContinues
  <2>6. TypeOK'
    BY <1>1, <1>9, <2>1, <2>4, CommandsType DEF RollbackStep, TypeOK, PCs
  <2>7. CommitInProgress'
    BY <1>1, <1>9 DEF RollbackStep, CommitInProgress
  <2>8. RollbackInProgress'
    BY <1>9, <2>1, <2>2, <2>3, <2>5 DEF RollbackStep, RollbackInProgress, RolledBack
  <2> QED BY <1>1, <1>9, <2>3, <2>5, <2>6, <2>7, <2>8 DEF RollbackStep
<1>10. CASE RollbackEnd
  <2>1. /\ cp = file /\ file \notin {NoFile, Torn} /\ file.prevHash /= NoHash
        /\ ~isConsist /\ downCheckpoint(db, cp, {}) = RolledBack(db, cp)
    BY <1>1, <1>10 DEF RollbackEnd, CommitInProgress, RollbackInProgress, RolledBack
  <2>2. cp \in Checkpoint /\ LeadsBack(db, cp)
    BY <1>1, <2>1
  <2>3. RolledBack(db, cp) = db
    BY <1>2, <2>1, <2>2, RollbackIsOver
  <2>4. SoundStore(db)
    BY <2>1, <2>2, <2>3 DEF LeadsBack
  <2> QED BY <1>1, <1>10, <2>1, <2>4 DEF RollbackEnd, TypeOK, PCs, CommitInProgress, RollbackInProgress
<1>11. CASE BootInconsistent
  BY <1>1, <1>11 DEF BootInconsistent, TypeOK, PCs, CommitInProgress, RollbackInProgress
<1>12. CASE ScannerStart
  <2>1. db.height \in 0..(MaxHeight + 1)
    BY <1>2, ChainType DEF Db, Heights
  <2>2. db.hash = NoHash => db.height = 0
    BY <1>1, <1>12 DEF ScannerStart, SoundStore
  <2> QED BY <1>1, <1>12, <2>1, <2>2
          DEF ScannerStart, TypeOK, PCs, CommitInProgress, RollbackInProgress
<1>13. CASE Exit
  BY <1>1, <1>13 DEF Exit, TypeOK, PCs, CommitInProgress, RollbackInProgress
<1> QED BY <1>4, <1>5, <1>6, <1>7, <1>8, <1>9, <1>10, <1>11, <1>12, <1>13 DEF Startup

\* The handler: every step of a commit and every way it may stop.
LEMMA HandlerKeepsWholeBlocks ==
  WholeBlocks /\ (Handler \/ (Faults /\ ~NewRemoveFails)) /\ ~mistaken' => WholeBlocks'
<1> SUFFICES ASSUME WholeBlocks, Handler \/ (Faults /\ ~NewRemoveFails), ~mistaken'
             PROVE  WholeBlocks'
  OBVIOUS
<1> USE FaultType
<1>1. /\ TypeOK
      /\ isConsist => SoundStore(db)
      /\ file \in {NoFile, Torn} => SoundStore(db)
      /\ file \notin {NoFile, Torn} => file \in Checkpoint /\ LeadsBack(db, file)
      /\ CommitInProgress
      /\ RollbackInProgress
  BY WholeBlocksDef DEF TypeOK
<1>2. db \in Db /\ cp \in Checkpoint \union {NoFile} /\ MaxHeight \in Nat
      /\ db.height \in 0..MaxHeight
  BY <1>1, ChainType DEF TypeOK, Db, Heights
<1>3. SUFFICES /\ TypeOK'
               /\ isConsist' => SoundStore(db')
               /\ file' \in {NoFile, Torn} => SoundStore(db')
               /\ file' \notin {NoFile, Torn} => LeadsBack(db', file')
               /\ CommitInProgress'
               /\ RollbackInProgress'
  BY DEF WholeBlocks, FileLeadsBack, LeadsBack, RolledBack
<1>c. ASSUME pc \in {"saving", "executing"}
      PROVE  /\ isConsist /\ SoundStore(db)
             /\ next \in Heights
             /\ cp \in Checkpoint
             /\ LeadsBack(db, cp)
             /\ \A S \in SUBSET AllCmds(cp) : Apply(db, cp, S) \in Db
                                              /\ LeadsBack(Apply(db, cp, S), cp)
             /\ SoundStore(Apply(db, cp, AllCmds(cp)))
             /\ Apply(db, cp, AllCmds(cp)).height = next
             /\ Apply(db, cp, AllCmds(cp)).hash /= NoHash
  <2>1. /\ isConsist /\ SoundStore(db)
        /\ next = IF db.hash = NoHash THEN 0 ELSE db.height + 1
        /\ next <= MaxHeight
        /\ cp = NewCheckpointFromNextBlock(db, next)
    BY <1>1, <1>c DEF CommitInProgress
  <2>2. next \in Heights
    BY <1>2, <2>1 DEF Heights
  <2> QED BY <1>2, <2>1, <2>2, CommitLeadsBack, CommandsType
<1>4. CASE AlreadyStored
  BY <1>1, <1>2, <1>4
     DEF AlreadyStored, isNoDiff, TypeOK, PCs, CommitInProgress, RollbackInProgress
<1>5. CASE SaveBegin
  <2>1. next = IF db.hash = NoHash THEN 0 ELSE db.height + 1
    BY <1>1, <1>5 DEF SaveBegin, isNoDiff, CommitInProgress
  <2>2. next \in Heights
    BY <1>2, <1>5, <2>1 DEF SaveBegin, Heights
  <2>3. cp' \in Checkpoint
    BY <1>2, <1>5, <2>2, NewCheckpointType DEF SaveBegin
  <2>4. TypeOK'
    BY <1>1, <1>5, <2>3 DEF SaveBegin, TypeOK, PCs
  <2>5. CommitInProgress'
    BY <1>1, <1>5, <2>1 DEF SaveBegin, CommitInProgress
  <2> QED BY <1>1, <1>5, <2>4, <2>5 DEF SaveBegin, RollbackInProgress
<1>6. CASE SaveEnd
  <2>1. cp \in Checkpoint /\ LeadsBack(db, cp)
    BY <1>c, <1>6 DEF SaveEnd
  <2>2. TypeOK'
    BY <1>1, <1>6, <2>1 DEF SaveEnd, TypeOK, PCs
  <2>3. CommitInProgress'
    BY <1>1, <1>6 DEF SaveEnd, CommitInProgress
  <2> QED BY <1>1, <1>6, <2>1, <2>2, <2>3 DEF SaveEnd, RollbackInProgress
<1>7. CASE SaveFails
  <2>1. TypeOK'
    BY <1>1, <1>7, FaultCounted DEF SaveFails, TypeOK, PCs
  <2>2. CommitInProgress'
    BY <1>1, <1>7 DEF SaveFails, CommitInProgress
  <2> QED BY <1>1, <1>7, <2>1, <2>2 DEF SaveFails, RollbackInProgress
<1>8. CASE Exec \/ ExecReplyLost
  <2>1. /\ pc = "executing"
        /\ db' = Apply(db, cp, AllCmds(cp))
        /\ UNCHANGED <<file, todo, next>>
        /\ cp = file
    BY <1>1, <1>8 DEF Exec, ExecReplyLost, CommitInProgress
  <2>2. /\ db' \in Db /\ LeadsBack(db', cp) /\ SoundStore(db')
        /\ db'.height = next /\ db'.hash /= NoHash /\ isConsist
    BY <1>c, <2>1
  <2>3. TypeOK'
    BY <1>1, <1>8, <2>2, FaultCounted DEF Exec, ExecReplyLost, TypeOK, PCs
  <2>4. CommitInProgress'
    BY <1>1, <1>8, <2>1, <2>2 DEF Exec, ExecReplyLost, CommitInProgress
  <2>5. RollbackInProgress'
    BY <1>8 DEF Exec, ExecReplyLost, RollbackInProgress
  <2> QED BY <2>1, <2>2, <2>3, <2>4, <2>5
<1>9. CASE ExecRefused
  <2>1. TypeOK'
    BY <1>1, <1>9, FaultCounted DEF ExecRefused, TypeOK, PCs
  <2> QED BY <1>1, <1>9, <2>1 DEF ExecRefused, CommitInProgress, RollbackInProgress
<1>10. CASE ExecCancelled
  <2>1. PICK S \in Queues(cp) : db' = Apply(db, cp, S)
    BY <1>10 DEF ExecCancelled
  <2>2. S \in SUBSET AllCmds(cp)
    BY <2>1, QueuesAreCommands
  <2>3. /\ pc = "executing" /\ cp = file /\ cp \in Checkpoint
        /\ db' \in Db /\ LeadsBack(db', cp)
    BY <1>1, <1>c, <1>10, <2>1, <2>2 DEF ExecCancelled, CommitInProgress
  <2>4. TypeOK'
    BY <1>1, <1>10, <2>3, FaultCounted DEF ExecCancelled, TypeOK, PCs
  <2>5. CommitInProgress' /\ RollbackInProgress'
    BY <1>10 DEF ExecCancelled, CommitInProgress, RollbackInProgress
  <2> QED BY <1>10, <2>3, <2>4, <2>5 DEF ExecCancelled
<1>11. CASE RemoveCheckpoint
  <2>1. /\ isConsist /\ SoundStore(db) /\ next = db.height /\ db.hash /= NoHash
        /\ pc' = "ready"
    BY <1>1, <1>11 DEF RemoveCheckpoint, afterRemoving, CommitInProgress
  <2>2. TypeOK'
    BY <1>1, <1>2, <1>11, <2>1 DEF RemoveCheckpoint, TypeOK, PCs
  <2> QED BY <1>1, <1>2, <1>11, <2>1, <2>2
          DEF RemoveCheckpoint, CommitInProgress, RollbackInProgress
<1>12. CASE RemoveCheckpointFails
  <2>1. pc' = "ready" /\ pc = "removing"
    BY <1>1, <1>12 DEF RemoveCheckpointFails, afterRemoving, CommitInProgress
  <2>2. TypeOK'
    BY <1>1, <1>12, <2>1, FaultCounted DEF RemoveCheckpointFails, TypeOK, PCs
  <2> QED BY <1>1, <1>12, <2>1, <2>2
          DEF RemoveCheckpointFails, CommitInProgress, RollbackInProgress
<1>13. CASE Crash
  <2>1. TypeOK'
    BY <1>1, <1>13, FaultCounted DEF Crash, TypeOK, PCs
  <2> QED BY <1>1, <1>13, <2>1 DEF Crash, CommitInProgress, RollbackInProgress
<1>14. ~ExecCutUnnoticed
  BY DEF ExecCutUnnoticed
<1> QED BY <1>4, <1>5, <1>6, <1>7, <1>8, <1>9, <1>10, <1>11, <1>12, <1>13, <1>14
        DEF Handler, Faults

\* Types, and the checkpoint in hand: every step keeps them, also over a store
\* that is past help.
LEMMA TypesKept ==
  ASSUME TypeOK, CheckpointInHand, [Next]_vars
  PROVE  TypeOK' /\ CheckpointInHand'
<1> USE FaultType
<1>1. /\ db \in Db /\ MaxHeight \in Nat /\ db.height \in 0..MaxHeight
      /\ file \in Checkpoint \union {NoFile, Torn} /\ cp \in Checkpoint \union {NoFile}
      /\ next \in 0..(MaxHeight + 1)
  BY ChainType DEF TypeOK, Db, Heights
<1>2. CASE NewWithoutCheckpoint \/ NewConsistent \/ NewTorn \/ NewCheckFails \/ BootInconsistent
  BY <1>2
  DEF NewWithoutCheckpoint, NewConsistent, NewTorn, NewCheckFails, BootInconsistent,
      TypeOK, PCs, CheckpointInHand
<1>10. CASE NewRemoveFails
  BY <1>10, FaultCounted DEF NewRemoveFails, TypeOK, PCs, CheckpointInHand
<1>11. CASE RollbackEnd \/ Exit
  BY <1>11 DEF RollbackEnd, Exit, TypeOK, PCs, CheckpointInHand
<1>12. CASE ScannerStart
  BY <1>1, <1>12 DEF ScannerStart, TypeOK, PCs, CheckpointInHand
<1>13. CASE UNCHANGED vars
  BY <1>13 DEF vars, TypeOK, CheckpointInHand
<1>3. CASE RollbackBegin
  <2>1. file \in Checkpoint /\ cp' = file /\ todo' = DownCmds(file)
    BY <1>1, <1>3 DEF RollbackBegin
  <2>2. TypeOK'
    BY <1>3, <2>1, DownCmdsType DEF RollbackBegin, TypeOK, PCs
  <2> QED BY <1>3, <2>1, <2>2 DEF RollbackBegin, CheckpointInHand
<1>4. CASE RollbackStep
  <2>1. PICK cmd \in NextDown(cp, todo) :
          db' = downCheckpoint(db, cp, {cmd}) /\ todo' = todo \ {cmd}
    BY <1>4 DEF RollbackStep
  <2>2. cp \in Checkpoint
    BY <1>1, <1>4 DEF RollbackStep, CheckpointInHand
  <2>3. db' \in Db
    BY <1>1, <2>1, <2>2, CommandsType
  <2> QED BY <1>4, <2>1, <2>3 DEF RollbackStep, TypeOK, CheckpointInHand
<1>5. CASE AlreadyStored
  BY <1>1, <1>5 DEF AlreadyStored, TypeOK, PCs, CheckpointInHand
<1>14. CASE SaveFails \/ ExecRefused
  BY <1>14, FaultCounted DEF SaveFails, ExecRefused, TypeOK, PCs, CheckpointInHand
<1>15. CASE Crash
  BY <1>15, FaultCounted DEF Crash, TypeOK, PCs, CheckpointInHand
<1>6. CASE SaveBegin
  <2>1. next \in Heights
    BY <1>1, <1>6 DEF SaveBegin, Heights
  <2>2. cp' \in Checkpoint
    BY <1>1, <1>6, <2>1, NewCheckpointType DEF SaveBegin
  <2> QED BY <1>6, <2>2 DEF SaveBegin, TypeOK, PCs, CheckpointInHand
<1>7. CASE SaveEnd
  BY <1>1, <1>7 DEF SaveEnd, TypeOK, PCs, CheckpointInHand
<1>8. CASE Exec \/ ExecReplyLost \/ ExecCancelled \/ ExecCutUnnoticed
  <2>1. PICK S : db' = Apply(db, cp, S)
    BY <1>8 DEF Exec, ExecReplyLost, ExecCancelled, ExecCutUnnoticed
  <2>2. cp \in Checkpoint
    BY <1>1, <1>8 DEF Exec, ExecReplyLost, ExecCancelled, ExecCutUnnoticed, CheckpointInHand
  <2>3. db' \in Db
    BY <1>1, <2>1, <2>2, CommandsType
  <2> QED BY <1>8, <2>3, FaultCounted
          DEF Exec, ExecReplyLost, ExecCancelled, ExecCutUnnoticed, TypeOK, PCs, CheckpointInHand
<1>9. CASE RemoveCheckpoint \/ RemoveCheckpointFails
  <2>1. pc' \in {"ready", "stopping"}
    BY <1>9 DEF RemoveCheckpoint, RemoveCheckpointFails, afterRemoving
  <2>2. TypeOK'
    BY <1>1, <1>9, <2>1, FaultCounted
    DEF RemoveCheckpoint, RemoveCheckpointFails, TypeOK, PCs, CheckpointInHand
  <2> QED BY <2>1, <2>2 DEF CheckpointInHand
<1> QED BY <1>2, <1>3, <1>4, <1>5, <1>6, <1>7, <1>8, <1>9, <1>10, <1>11, <1>12,
            <1>13, <1>14, <1>15 DEF Next, Startup, Handler, Faults

\* Nothing tells a store that is past help from another.
LEMMA MistakenForGood ==
  ASSUME [Next]_vars, mistaken
  PROVE  mistaken'
BY DEF Next, Startup, Handler, Faults, NewWithoutCheckpoint, NewConsistent, NewTorn,
       NewCheckFails, RollbackBegin, RollbackStep, RollbackEnd, BootInconsistent, ScannerStart,
       Exit, AlreadyStored, SaveBegin, SaveEnd, Exec, RemoveCheckpoint, NewRemoveFails,
       SaveFails, ExecRefused, ExecReplyLost, ExecCancelled, ExecCutUnnoticed,
       RemoveCheckpointFails, Crash, vars

\* The inductive invariant holds: as long as Do has not returned nil for a part of
\* a block, a checkpoint in the file always leads back to the sound store it was
\* computed on, and what readers may see is sound.
THEOREM InvariantHolds == Spec => []StoreInvariant
<1>1. Init => StoreInvariant
  <2>1. Init => CheckpointInHand
    BY DEF Init, CheckpointInHand
  <2> QED BY <2>1, WholeBlocksInitially DEF StoreInvariant, WholeBlocks
<1>2. StoreInvariant /\ [Next]_vars => StoreInvariant'
  <2> SUFFICES ASSUME StoreInvariant, [Next]_vars PROVE StoreInvariant'
    OBVIOUS
  <2>1. TypeOK' /\ CheckpointInHand'
    BY TypesKept DEF StoreInvariant
  <2>2. ASSUME ~mistaken' PROVE WholeBlocks'
    <3>1. WholeBlocks
      BY <2>2, MistakenForGood DEF StoreInvariant
    <3>2. CASE Startup \/ NewRemoveFails
      BY <3>1, <3>2, StartupKeepsWholeBlocks
    <3>3. CASE Handler \/ (Faults /\ ~NewRemoveFails)
      BY <2>2, <3>1, <3>3, HandlerKeepsWholeBlocks
    <3>4. CASE UNCHANGED vars
      BY <3>1, <3>4
      DEF vars, WholeBlocks, TypeOK, FileLeadsBack, CommitInProgress, RollbackInProgress
    <3> QED BY <3>2, <3>3, <3>4 DEF Next, Faults
  <2> QED BY <2>1, <2>2 DEF StoreInvariant
<1> QED BY <1>1, <1>2, PTL DEF Spec

\* Every variable has its type, for every chain and any number of faults, also
\* over a store that is past help.
THEOREM TypeCorrect == Spec => []TypeOK
<1>1. StoreInvariant => TypeOK
  BY DEF StoreInvariant
<1> QED BY <1>1, InvariantHolds, PTL

\* While isConsist lets readers in, they are served the UTXO set of a block of
\* the chain, whatever commits, crashes and rollbacks came before, as long as Do
\* has not returned nil for a part of a block.
THEOREM ReadersAreServedTheChain == Spec => []ConsistentStoreServesTheChain
<1>1. StoreInvariant => ConsistentStoreServesTheChain
  BY DEF StoreInvariant, WholeBlocks, ConsistentStoreServesTheChain, SoundStore
<1> QED BY <1>1, InvariantHolds, PTL

\* Without a checkpoint that can be read, Redis holds a whole number of blocks,
\* as long as Do has not returned nil for a part of one.
THEOREM CheckpointGuardsTheStore == Spec => []NeverStrandedMidBlock
<1>1. StoreInvariant => NeverStrandedMidBlock
  BY DEF StoreInvariant, WholeBlocks, NeverStrandedMidBlock, SoundStore
<1> QED BY <1>1, InvariantHolds, PTL

\* The checkpoint of the first block changes the block keys only.
OfFirstBlock(c) ==
  /\ c.newHash = Chain[0].hash /\ c.newHeight = 0
  /\ c.newOuts = NoTxs /\ c.newRefs = NoRefs /\ c.deref = NoRefs

\* A checkpoint without a previous block is that of the first block, and the store
\* is at it or before it; this also holds past a commit that was cut short.
FirstBlockInvariant ==
  /\ db.hash = NoHash => db.height = 0
  /\ pc \in {"ready", "saving", "executing"} /\ isConsist /\ db.hash = NoHash => next = 0
  /\ pc \in {"saving", "executing"} => isConsist /\ cp.prevHash = db.hash
  /\ pc \in {"saving", "executing"} /\ cp.prevHash = NoHash => OfFirstBlock(cp)
  /\ pc \in {"executing", "removing", "closing", "rollback"} => cp = file
  /\ pc = "removing" => db.hash /= NoHash
  /\ pc = "rollback" => file.prevHash /= NoHash /\ db.hash /= NoHash
  /\ file \notin {NoFile, Torn} /\ file.prevHash = NoHash =>
       OfFirstBlock(file) /\ db.height = 0 /\ db.hash \in {NoHash, Chain[0].hash}

LEMMA FirstBlockInvariantKept ==
  ASSUME StoreInvariant, FirstBlockInvariant, [Next]_vars
  PROVE  FirstBlockInvariant'
<1> USE FaultType
<1>1. /\ cp \in Checkpoint \union {NoFile} /\ file \in Checkpoint \union {NoFile, Torn}
      /\ pc \in {"saving", "executing", "removing", "closing", "rollback"} => cp \in Checkpoint
  BY DEF StoreInvariant, TypeOK, CheckpointInHand
<1>2. CASE \/ NewWithoutCheckpoint \/ NewConsistent \/ NewTorn \/ NewCheckFails \/ NewRemoveFails
           \/ RollbackEnd \/ BootInconsistent \/ Exit \/ Crash \/ UNCHANGED vars
  BY <1>2
  DEF NewWithoutCheckpoint, NewConsistent, NewTorn, NewCheckFails, NewRemoveFails, RollbackEnd,
      BootInconsistent, Exit, Crash, vars, FirstBlockInvariant
<1>3. CASE RollbackBegin
  BY <1>3 DEF RollbackBegin, checkFindsDifference, FirstBlockInvariant
<1>4. CASE RollbackStep
  <2>1. db'.hash \in {db.hash, cp.prevHash} /\ cp = file /\ file.prevHash /= NoHash
        /\ db.hash /= NoHash
    BY <1>4 DEF RollbackStep, downCheckpoint, FirstBlockInvariant
  <2> QED BY <1>4, <2>1 DEF RollbackStep, FirstBlockInvariant
<1>5. CASE ScannerStart \/ AlreadyStored
  BY <1>5 DEF ScannerStart, AlreadyStored, isNoDiff, FirstBlockInvariant
<1>6. CASE SaveBegin
  <2>1. cp' = NewCheckpointFromNextBlock(db, next) /\ cp'.prevHash = db.hash
    BY <1>6 DEF SaveBegin, NewCheckpointFromNextBlock
  <2>2. db.hash = NoHash => OfFirstBlock(cp')
    BY <1>6, <2>1 DEF SaveBegin, NewCheckpointFromNextBlock, OfFirstBlock, FirstBlockInvariant
  <2>3. UNCHANGED <<db, isConsist, next>> /\ file' = Torn /\ pc' = "saving" /\ pc = "ready"
        /\ isConsist
    BY <1>6 DEF SaveBegin
  <2> HIDE DEF OfFirstBlock
  <2> QED BY <2>1, <2>2, <2>3 DEF FirstBlockInvariant
<1>7. CASE SaveEnd \/ SaveFails \/ ExecRefused
  BY <1>1, <1>7 DEF SaveEnd, SaveFails, ExecRefused, FirstBlockInvariant
<1>8. CASE Exec \/ ExecReplyLost \/ ExecCancelled \/ ExecCutUnnoticed
  <2>1. PICK S : db' = Apply(db, cp, S) /\ (Exec => S = AllCmds(cp))
    BY <1>8 DEF Exec, ExecReplyLost, ExecCancelled, ExecCutUnnoticed
  <2>2. /\ db'.hash = IF HashCmd \in S THEN cp.newHash ELSE db.hash
        /\ db'.height = IF HeightCmd \in S THEN cp.newHeight ELSE db.height
    BY <2>1 DEF Apply
  <2>3. /\ pc = "executing" /\ cp = file /\ cp \in Checkpoint /\ cp.prevHash = db.hash
        /\ cp.newHash /= NoHash /\ isConsist
        /\ cp.prevHash = NoHash => OfFirstBlock(cp) /\ db.height = 0
    BY <1>1, <1>8, ChainType
    DEF Exec, ExecReplyLost, ExecCancelled, ExecCutUnnoticed, FirstBlockInvariant, Checkpoint
  <2>4. cp.prevHash = NoHash => db'.height = 0 /\ db'.hash \in {NoHash, Chain[0].hash}
    BY <2>2, <2>3 DEF OfFirstBlock
  <2>5. db'.hash = NoHash => db.hash = NoHash
    BY <2>2, <2>3
  <2>6. Exec => db'.hash /= NoHash
    BY <2>1, <2>2, <2>3, AllCmdsMembers
  <2>7. /\ UNCHANGED <<file, next>>
        /\ pc' \in {"removing", "ready", "stopping", "closing"}
        /\ pc' = "removing" => Exec
        /\ pc' = "ready" => ~isConsist'
        /\ pc' \in {"removing", "closing"} => cp' = cp
    BY <1>8 DEF Exec, ExecReplyLost, ExecCancelled, ExecCutUnnoticed
  <2> QED BY <2>3, <2>4, <2>5, <2>6, <2>7 DEF FirstBlockInvariant
<1>9. CASE RemoveCheckpoint \/ RemoveCheckpointFails
  BY <1>9 DEF RemoveCheckpoint, RemoveCheckpointFails, afterRemoving, FirstBlockInvariant
<1> QED
  BY <1>2, <1>3, <1>4, <1>5, <1>6, <1>7, <1>8, <1>9 DEF Next, Startup, Handler, Faults

\* The recovery never asks the checkpoint of the first block for the block
\* before it: its commit changes the block keys only, and the check accepts both
\* what it leaves behind and (with an error) a store without a block hash, also
\* when that commit was cut short and taken for a whole one.
THEOREM FirstBlockIsNotUndone == Spec => []FirstBlockNeverRolledBack
<1>1. Init => FirstBlockInvariant
  <2>1. Init => SoundStore(db)
    BY InitiallySound DEF Init
  <2> QED BY <2>1 DEF Init, SoundStore, FirstBlockInvariant
<1>2. StoreInvariant /\ FirstBlockInvariant /\ [Next]_vars => FirstBlockInvariant'
  BY FirstBlockInvariantKept
<1>3. FirstBlockInvariant => FirstBlockNeverRolledBack
  <2> SUFFICES ASSUME FirstBlockInvariant, file \notin {NoFile, Torn},
                      file.prevHash = NoHash, checkFindsDifference(db, file)
               PROVE  FALSE
    BY DEF FirstBlockNeverRolledBack
  <2>1. OfFirstBlock(file) /\ db.height = 0 /\ db.hash = Chain[0].hash
    BY DEF FirstBlockInvariant, checkFindsDifference
  <2>2. keysMatch(db, file)
    BY <2>1 DEF keysMatch, OfFirstBlock, NoRefs
  <2>3. differingTxs(db, file) = {} /\ missingTxs(db, file) = {}
    BY <2>1 DEF OfFirstBlock, differingTxs, missingTxs, NoTxs
  <2> QED BY <2>2, <2>3 DEF checkFindsDifference
<1> QED BY <1>1, <1>2, <1>3, InvariantHolds, PTL DEF Spec

\* An input of the next block spends an output of the block itself, or one that
\* a sound store has.
LEMMA InputAvailable ==
  ASSUME NEW b \in Db, SoundStore(b), NEW h \in Heights, h = b.height + 1,
         NEW i \in TxNos(h), NEW o \in TxAt(h, i).ins, o[1] \notin IdsUpTo(h, i)
  PROVE  b.txs[o[1]] /= Absent /\ o[2] \in Unspent(b.txs[o[1]])
<1>1. b.height \in Nat /\ h \in Nat
  BY ChainType DEF Db, Heights
<1>2. PICK g \in 1..h : \E j \in TxNos(g) :
        /\ g = h => j < i
        /\ TxAt(g, j).id = o[1]
        /\ o[2] \in DOMAIN TxAt(g, j).outs
        /\ TxAt(g, j).outs[o[2]].spendable
  BY ValidChain
<1>3. PICK j \in TxNos(g) :
        /\ g = h => j < i
        /\ TxAt(g, j).id = o[1]
        /\ o[2] \in DOMAIN TxAt(g, j).outs
        /\ TxAt(g, j).outs[o[2]].spendable
  BY <1>2
<1>4. g \in 1..b.height
  <2>1. g /= h
    <3> SUFFICES ASSUME g = h PROVE FALSE
      OBVIOUS
    <3>1. j \in TxNos(h) /\ j <= i /\ TxAt(h, j).id = o[1]
      BY <1>3, BlockType
    <3> QED BY <3>1 DEF IdsUpTo
  <2> QED BY <1>1, <2>1
<1> DEFINE u == <<o[1], o[2], TxAt(g, j).outs[o[2]].addrs, g>>
<1>5. u \in CreatedBy(g)
  BY <1>3 DEF CreatedBy
<1>6. ASSUME NEW k \in 1..b.height PROVE <<u[1], u[2]>> \notin SpentBy(k)
  <2> SUFFICES ASSUME <<u[1], u[2]>> \in SpentBy(k) PROVE FALSE
    OBVIOUS
  <2>1. k \in Heights /\ k /= h
    BY <1>1, ChainType DEF Heights
  <2>2. o \in SpentBy(h)
    BY DEF SpentBy
  <2>3. o = <<u[1], u[2]>>
    BY <2>2, SpentOrigin
  <2>4. PICK m \in TxNos(k) : o \in TxAt(k, m).ins
    BY <2>3 DEF SpentBy
  <2>5. TxAt(k, m).ins \intersect TxAt(h, i).ins /= {}
    BY <2>4
  <2> QED BY <2>1, <2>5, ValidChain
<1>7. u \in Utxos(b)
  BY <1>4, <1>5, <1>6 DEF SoundStore, AtBlock, UTXOSet
<1>8. PICK t \in TxID : /\ b.txs[t] /= Absent
                        /\ \E v \in Unspent(b.txs[t]) :
                             u = <<t, v, b.txs[t].outs[v], b.txs[t].height>>
  BY <1>7, UtxosMembers
<1>9. PICK v \in Unspent(b.txs[t]) : u = <<t, v, b.txs[t].outs[v], b.txs[t].height>>
  BY <1>8
<1>10. t = o[1] /\ v = o[2]
  BY <1>9
<1> QED BY <1>8, <1>10

\* The scanner is never stuck on a block of the chain: the store has every
\* output the next block spends, and no height is skipped.
THEOREM NextBlockIsAccepted == Spec => []NextBlockAccepted
<1>1. StoreInvariant => NextBlockAccepted
  <2> SUFFICES ASSUME WholeBlocks, pc = "ready", isConsist, next <= MaxHeight
               PROVE  ~isTooFar(db, next) /\ ~isMissing(db, next)
    BY DEF NextBlockAccepted, StoreInvariant
  <2>1. /\ db \in Db /\ SoundStore(db)
        /\ next \in IF db.hash = NoHash THEN {0} ELSE {db.height, db.height + 1}
    BY DEF WholeBlocks, TypeOK, CommitInProgress
  <2>2. ~isTooFar(db, next)
    BY <2>1 DEF isTooFar
  <2>3. ASSUME db.hash /= NoHash, next = db.height + 1
        PROVE  /\ ~spendingOutputsMissing(db, next)
               /\ ~spentOutputMissing(extractSpendingOutputsFromBlock(db, next), next)
               /\ ~blockOutputMissing(next)
    <3>1. next \in Heights
      BY <2>1, <2>3, ChainType DEF Db, Heights
    <3>2. ASSUME NEW in \in Inputs(next)
          PROVE  /\ in[1] \in TxNos(next) /\ in[2] \in TxAt(next, in[1]).ins
                 /\ in[2] \in SpentBy(next) /\ in[2][1] \in TxID
                 /\ in[2][1] \notin IdsUpTo(next, in[1]) =>
                      db.txs[in[2][1]] /= Absent /\ in[2][2] \in Unspent(db.txs[in[2][1]])
      <4>1. in[1] \in TxNos(next) /\ in[2] \in TxAt(next, in[1]).ins
        BY DEF Inputs
      <4>2. in[2] \in SpentBy(next)
        BY <4>1 DEF SpentBy
      <4> QED BY <2>1, <2>3, <3>1, <4>1, <4>2, InputAvailable, SpentOrigin
    <3>3. ~spendingOutputsMissing(db, next)
      BY <3>2 DEF spendingOutputsMissing
    <3>4. ~spentOutputMissing(extractSpendingOutputsFromBlock(db, next), next)
      <4> SUFFICES ASSUME NEW in \in storedInputs(next)
                   PROVE  LET e == extractSpendingOutputsFromBlock(db, next)[in[2][1]]
                          IN  e /= Absent /\ in[2][2] \in Unspent(e)
        BY DEF spentOutputMissing
      <4>1. in \in Inputs(next) /\ in[2][1] \notin IdsUpTo(next, in[1])
        BY DEF storedInputs
      <4>2. extractSpendingOutputsFromBlock(db, next)[in[2][1]] = db.txs[in[2][1]]
        BY <3>2, <4>1 DEF extractSpendingOutputsFromBlock
      <4> QED BY <3>2, <4>1, <4>2
    <3>5. ~blockOutputMissing(next)
      <4> SUFFICES ASSUME NEW in \in Inputs(next), in \notin storedInputs(next)
                   PROVE  \E j \in TxNos(next) : /\ TxAt(next, j).id = in[2][1]
                                                /\ in[2][2] \in DOMAIN TxAt(next, j).outs
        BY DEF blockOutputMissing
      <4>1. in[1] \in TxNos(next) /\ in[2] \in TxAt(next, in[1]).ins
            /\ in[2][1] \in IdsUpTo(next, in[1])
        BY <3>2 DEF storedInputs
      <4>2. in[2][1] \in BlockIds(next)
        BY <4>1 DEF IdsUpTo, BlockIds
      <4>3. PICK g \in 1..next : \E j \in TxNos(g) :
              /\ TxAt(g, j).id = in[2][1]
              /\ in[2][2] \in DOMAIN TxAt(g, j).outs
        BY <3>1, <4>1, ValidChain
      <4>4. PICK j \in TxNos(g) : /\ TxAt(g, j).id = in[2][1]
                                  /\ in[2][2] \in DOMAIN TxAt(g, j).outs
        BY <4>3
      <4>5. g \in Heights /\ in[2][1] \in BlockIds(g)
        BY <3>1, <4>4, ChainType DEF Heights, BlockIds
      <4>6. g = next
        BY <3>1, <4>2, <4>5, UniqueIds
      <4> QED BY <4>4, <4>6
    <3> QED BY <3>3, <3>4, <3>5
  <2> QED BY <2>2, <2>3 DEF isMissing
<1> QED BY <1>1, InvariantHolds, PTL

-----------------------------------------------------------------------------
(* The store implements the ledger, which is read off the settled store. *)

\* A step of the ledger, from a store b to a store d.
LedgerStep(b, d) ==
  \/ /\ b.hash = NoHash
     /\ d.hash = Chain[0].hash
     /\ d.height = b.height
     /\ Utxos(d) = Utxos(b)
     /\ \A a \in Addr : getUnspentOutputsByAddress(d, a) = getUnspentOutputsByAddress(b, a)
  \/ /\ b.hash /= NoHash
     /\ b.height < MaxHeight
     /\ d.height = b.height + 1
     /\ d.hash = Chain[b.height + 1].hash
     /\ Utxos(d) = {u \in Utxos(b) \union CreatedBy(b.height + 1) :
                      <<u[1], u[2]>> \notin SpentBy(b.height + 1)}
     /\ \A a \in Addr : getUnspentOutputsByAddress(d, a) = Paying(Utxos(d), a)

LEMMA LedgerStepIsNext ==
  ASSUME LedgerStep(Settled, Settled')
  PROVE  Ledger!Next
<1>1. CASE Settled.hash = NoHash
  BY <1>1 DEF LedgerStep, Ledger!Next, Ledger!AddGenesisBlock
<1>2. CASE Settled.hash /= NoHash
  BY <1>2 DEF LedgerStep, Ledger!Next, Ledger!AddNextBlock, Ledger!CreatedBy, Ledger!SpentBy,
     Ledger!Paying, Ledger!TxAt, Ledger!TxNos, CreatedBy, SpentBy, Paying, TxAt, TxNos
<1> QED BY <1>1, <1>2

LEMMA SettledUnchanged ==
  ASSUME Settled' = Settled
  PROVE  UNCHANGED Ledger!ledgerVars
BY DEF Ledger!ledgerVars

-----------------------------------------------------------------------------
(* The settled store. *)

LEMMA SettledDef ==
  Settled = IF file \in {NoFile, Torn} \/ file.prevHash = NoHash
               \/ isConsistenceWithCheckpoint(db, file)
            THEN db ELSE RolledBack(db, file)
BY DEF Settled, RolledBack

\* A commit that stopped somewhere is seen as the whole commit or as nothing.
LEMMA CommitIsLedgerStep ==
  ASSUME NEW b \in Db, SoundStore(b),
         NEW n, n = (IF b.hash = NoHash THEN 0 ELSE b.height + 1), n <= MaxHeight,
         NEW c, c = NewCheckpointFromNextBlock(b, n),
         NEW S \in SUBSET AllCmds(c),
         NEW e, e = (IF c.prevHash = NoHash \/ isConsistenceWithCheckpoint(Apply(b, c, S), c)
                     THEN Apply(b, c, S) ELSE RolledBack(Apply(b, c, S), c))
  PROVE  e = b \/ LedgerStep(b, e)
<1> DEFINE d == Apply(b, c, S)
<1>1. CASE b.hash = NoHash
  <2>1. b.height = 0 /\ n = 0 /\ [b EXCEPT !.hash = NoHash] = b
    BY <1>1 DEF SoundStore, Db
  <2>2. /\ c \in Checkpoint /\ c.prevHash = NoHash
        /\ LeadsBack(d, c) /\ d.height = 0
        /\ d.hash = IF HashCmd \in S THEN Chain[0].hash ELSE b.hash
    BY <2>1, FirstBlock
  <2>3. e = d /\ d \in Db
    BY <2>2, CommandsType
  <2>4. SoundStore(d)
    BY <2>2 DEF LeadsBack
  <2> HIDE DEF d
  <2>5. /\ Utxos(d) = Utxos(b)
        /\ \A a \in Addr : getUnspentOutputsByAddress(d, a) = getUnspentOutputsByAddress(b, a)
    BY <2>1, <2>2, <2>4 DEF SoundStore, AtBlock
  <2>6. CASE HashCmd \in S
    BY <1>1, <2>1, <2>2, <2>3, <2>5, <2>6 DEF LedgerStep
  <2>7. CASE HashCmd \notin S
    <3>1. /\ d.hash = b.hash /\ d.height = b.height
          /\ d.txs = b.txs /\ d.idx = b.idx
      BY <1>1, <2>1, <2>2, <2>4, <2>7 DEF SoundStore
    <3>2. d = b
      BY <2>3, <3>1, DbEqual
    <3> QED BY <2>3, <3>2
  <2> QED BY <2>6, <2>7
<1>2. CASE b.hash /= NoHash
  <2>1. n = b.height + 1 /\ b.height < MaxHeight /\ b.height \in Heights /\ n \in Heights
    BY <1>2, ChainType DEF Db, Heights
  <2>2. c \in Checkpoint /\ Reversible(b, c) /\ c.prevHash /= NoHash
    BY <1>2, <2>1, NewCheckpointType, SoundStoreReversible DEF Reversible
  <2>3. RolledBack(d, c) = b /\ d \in Db
    BY <2>2, RollbackUndoesCommit, CommandsType
  <2>4. CASE ~isConsistenceWithCheckpoint(d, c)
    BY <2>2, <2>3, <2>4
  <2>5. CASE isConsistenceWithCheckpoint(d, c)
    <3> DEFINE f == Apply(b, c, AllCmds(c))
    <3> HIDE DEF d
    <3>1. d = f
      BY <2>2, <2>3, <2>5, ConsistentIsCommitted
    <3>2. SoundStore(f) /\ f.hash /= NoHash /\ f.height = n
      BY <1>2, <2>1, <2>2, AllIsCommitted, CommittedIsSound
    <3>3. e = f
      BY <2>5, <3>1 DEF d
    <3>4. \A u : u \in Utxos(f) <=> /\ u \in Utxos(b) \union CreatedBy(n)
                                   /\ <<u[1], u[2]>> \notin SpentBy(n)
      BY <1>2, <2>1, <2>2, AllIsCommitted, CommittedUtxos
    <3> HIDE DEF f
    <3>5. Utxos(f) = {u \in Utxos(b) \union CreatedBy(b.height + 1) :
                        <<u[1], u[2]>> \notin SpentBy(b.height + 1)}
      BY <2>1, <3>4
    <3>6. /\ f.hash = Chain[n].hash
          /\ \A a \in Addr : getUnspentOutputsByAddress(f, a) = Paying(Utxos(f), a)
      BY <3>2 DEF SoundStore, AtBlock
    <3> QED BY <1>2, <2>1, <3>2, <3>3, <3>5, <3>6 DEF LedgerStep
  <2> QED BY <2>4, <2>5
<1> QED BY <1>1, <1>2

\* A whole commit is consistent with its checkpoint.
LEMMA CommittedIsConsistent ==
  ASSUME NEW d \in Db, NEW c \in Checkpoint,
         \A a \in Addr : c.newRefs[a] \intersect c.deref[a] = {}
  PROVE  isConsistenceWithCheckpoint(Apply(d, c, AllCmds(c)), c)
<1> DEFINE e == Apply(d, c, AllCmds(c))
<1>1. /\ e.hash = c.newHash
      /\ e.height = c.newHeight
      /\ \A t \in TxID : e.txs[t] = IF c.newOuts[t] = Absent THEN d.txs[t]
                                    ELSE stored(c.newOuts[t])
      /\ \A a \in Addr : e.idx[a] = (d.idx[a] \union c.newRefs[a]) \ c.deref[a]
  BY CommittedFields
<1> HIDE DEF e
<1>2. keysMatch(e, c)
  BY <1>1 DEF keysMatch
<1>3. differingTxs(e, c) = {}
  BY <1>1 DEF differingTxs
<1>4. isConsistenceWithCheckpoint(e, c)
  BY <1>2, <1>3 DEF isConsistenceWithCheckpoint
<1> QED BY <1>4 DEF e

\* A rollback that has taken the block hash back is not taken for a commit.
LEMMA PreviousHashDiffers ==
  ASSUME NEW d \in Db, NEW c \in Checkpoint, LeadsBack(d, c), c.prevHash /= NoHash
  PROVE  c.prevHash /= c.newHash
<1> DEFINE b == RolledBack(d, c)
<1>1. b \in Db
  BY CommandsType DEF RolledBack
<1>2. /\ SoundStore(b) /\ b.hash /= NoHash /\ b.height < MaxHeight
      /\ c = NewCheckpointFromNextBlock(b, b.height + 1)
  BY DEF LeadsBack
<1> HIDE DEF b
<1>3. b.height \in Heights /\ b.height + 1 \in Heights /\ b.height /= b.height + 1
  BY <1>1, <1>2, ChainType DEF Db, Heights
<1>4. c.prevHash = Chain[b.height].hash /\ c.newHash = Chain[b.height + 1].hash
  BY <1>1, <1>2, <1>3, NextCheckpointFields DEF SoundStore, AtBlock
<1> QED BY <1>3, <1>4, ValidChain

-----------------------------------------------------------------------------
(* Every step of the store is a step of the ledger, or none. *)

LEMMA StepRefines ==
  WholeBlocks /\ SettledIsSeen /\ [Next]_vars /\ ~mistaken' =>
    SettledIsSeen' /\ (Settled' = Settled \/ LedgerStep(Settled, Settled'))
<1> SUFFICES ASSUME WholeBlocks, SettledIsSeen, [Next]_vars, ~mistaken'
             PROVE  /\ SettledIsSeen'
                    /\ Settled' = Settled \/ LedgerStep(Settled, Settled')
  OBVIOUS
<1> USE FaultType
<1>1. /\ db \in Db /\ cp \in Checkpoint \union {NoFile}
      /\ isConsist => SoundStore(db)
      /\ file \notin {NoFile, Torn} => file \in Checkpoint /\ LeadsBack(db, file)
      /\ CommitInProgress
      /\ RollbackInProgress
  BY WholeBlocksDef DEF TypeOK
<1>2. /\ isConsist => Settled = db
      /\ pc = "rollback" => /\ ~isConsistenceWithCheckpoint(db, cp)
                            /\ HashCmd \notin todo => db.hash = cp.prevHash
  BY DEF SettledIsSeen
<1>3. Settled' = IF file' \in {NoFile, Torn} \/ file'.prevHash = NoHash
                    \/ isConsistenceWithCheckpoint(db', file')
                 THEN db' ELSE RolledBack(db', file')
  BY DEF Settled, RolledBack
<1>4. SUFFICES /\ isConsist' => Settled' = db'
               /\ pc' = "rollback" =>
                    /\ ~isConsistenceWithCheckpoint(db', cp')
                    /\ HashCmd \notin todo' => db'.hash = cp'.prevHash
               /\ Settled' = Settled \/ LedgerStep(Settled, Settled')
  BY DEF SettledIsSeen
<1>5. UNCHANGED <<db, file>> => Settled' = Settled
  BY <1>3, SettledDef
<1>6. CASE NewWithoutCheckpoint
  BY <1>3, <1>5, <1>6 DEF NewWithoutCheckpoint
<1>7. CASE NewConsistent
  BY <1>3, <1>7, SettledDef DEF NewConsistent
<1>8. CASE \/ NewTorn \/ NewCheckFails \/ NewRemoveFails \/ BootInconsistent
           \/ ScannerStart \/ Exit \/ AlreadyStored \/ SaveFails \/ ExecRefused
           \/ RemoveCheckpointFails \/ Crash \/ UNCHANGED vars
  BY <1>2, <1>5, <1>8 DEF NewTorn, NewCheckFails, NewRemoveFails, BootInconsistent,
     ScannerStart, Exit, AlreadyStored, SaveFails, ExecRefused, RemoveCheckpointFails,
     afterRemoving, Crash, vars
<1>9. CASE RollbackBegin
  <2>1. ~isConsistenceWithCheckpoint(db, file)
    BY <1>9 DEF RollbackBegin, checkFindsDifference, isConsistenceWithCheckpoint, missingTxs
  <2>2. HashCmd \in DownCmds(file)
    BY DownCmdsType
  <2> QED BY <1>1, <1>2, <1>5, <1>9, <2>1, <2>2 DEF RollbackBegin, CommitInProgress
<1>10. CASE RollbackStep
  <2>1. PICK cmd \in NextDown(cp, todo) :
          db' = downCheckpoint(db, cp, {cmd}) /\ todo' = todo \ {cmd}
    BY <1>10 DEF RollbackStep
  <2>2. cmd \in todo /\ todo \in SUBSET DownCmds(cp)
    BY <1>1, <1>10, <2>1 DEF RollbackStep, RollbackInProgress, NextDown
  <2>3. /\ cp = file /\ file \notin {NoFile, Torn} /\ file.prevHash /= NoHash
        /\ ~isConsist /\ downCheckpoint(db, cp, todo) = RolledBack(db, cp)
        /\ UNCHANGED <<file, pc, isConsist, cp>> /\ pc = "rollback"
    BY <1>1, <1>10 DEF RollbackStep, CommitInProgress, RollbackInProgress, RolledBack
  <2>4. cp \in Checkpoint /\ LeadsBack(db, cp)
    BY <1>1, <2>3
  <2>5. RolledBack(db', cp) = RolledBack(db, cp)
    BY <1>1, <2>1, <2>2, <2>3, <2>4, RollbackContinues
  <2>6. db'.hash = cp.prevHash
    <3>1. CASE cmd = HashCmd
      BY <2>1, <3>1 DEF downCheckpoint
    <3>2. CASE cmd /= HashCmd
      <4>1. DownGroups(cp)[1] = {HashCmd} /\ DOMAIN DownGroups(cp) = 1..6
        BY DEF DownGroups
      <4>2. PICK i \in 1..6 : /\ cmd \in DownGroups(cp)[i]
                              /\ \A j \in 1..(i - 1) : DownGroups(cp)[j] \intersect todo = {}
        BY <2>1, <4>1 DEF NextDown
      <4>3. i /= 1
        BY <3>2, <4>1, <4>2
      <4>4. HashCmd \notin todo
        BY <4>1, <4>2, <4>3
      <4>5. db.hash = cp.prevHash
        BY <1>2, <2>3, <4>4
      <4> QED BY <2>1, <4>5 DEF downCheckpoint
    <3> QED BY <3>1, <3>2
  <2>7. ~isConsistenceWithCheckpoint(db', cp)
    BY <1>1, <2>3, <2>4, <2>6, PreviousHashDiffers
       DEF isConsistenceWithCheckpoint, keysMatch
  <2>8. Settled = RolledBack(db, cp) /\ Settled' = RolledBack(db', cp)
    BY <1>2, <1>3, <2>3, <2>7, SettledDef
  <2> QED BY <2>3, <2>5, <2>6, <2>7, <2>8
<1>11. CASE RollbackEnd
  <2>1. /\ cp = file /\ file \notin {NoFile, Torn} /\ file.prevHash /= NoHash
        /\ ~isConsist /\ downCheckpoint(db, cp, {}) = RolledBack(db, cp)
        /\ ~isConsistenceWithCheckpoint(db, cp)
    BY <1>1, <1>2, <1>11 DEF RollbackEnd, CommitInProgress, RollbackInProgress, RolledBack
  <2>2. RolledBack(db, cp) = db
    BY <1>1, <2>1, RollbackIsOver
  <2> QED BY <1>3, <1>11, <2>1, <2>2, SettledDef DEF RollbackEnd
<1>12. CASE SaveBegin
  BY <1>2, <1>3, <1>12 DEF SaveBegin
<1>c. ASSUME pc \in {"saving", "executing"}
      PROVE  /\ Settled = db /\ SoundStore(db) /\ cp \in Checkpoint
             /\ next = (IF db.hash = NoHash THEN 0 ELSE db.height + 1)
             /\ next <= MaxHeight
             /\ cp = NewCheckpointFromNextBlock(db, next)
             /\ cp.prevHash = db.hash
             /\ cp.prevHash /= NoHash => Reversible(db, cp)
  <2>1. /\ isConsist
        /\ next = (IF db.hash = NoHash THEN 0 ELSE db.height + 1)
        /\ next <= MaxHeight
        /\ cp = NewCheckpointFromNextBlock(db, next)
    BY <1>1, <1>c DEF CommitInProgress
  <2>2. cp \in Checkpoint /\ SoundStore(db)
    BY <1>1, <2>1, CommitLeadsBack
  <2>3. cp.prevHash = db.hash
    BY <2>1 DEF NewCheckpointFromNextBlock
  <2>4. ASSUME db.hash /= NoHash PROVE Reversible(db, cp)
    <3>1. db.height < MaxHeight
      BY <1>1, <2>1, <2>4, ChainType DEF Db, Heights
    <3> QED BY <1>1, <2>1, <2>2, <2>4, <3>1, SoundStoreReversible
  <2> QED BY <1>2, <2>1, <2>2, <2>3, <2>4
<1>13. CASE SaveEnd
  <2>1. cp.prevHash /= NoHash => RolledBack(db, cp) = db
    BY <1>1, <1>c, <1>13, RollbackOfUntouched DEF SaveEnd
  <2> QED BY <1>3, <1>c, <1>13, <2>1 DEF SaveEnd
<1>14. CASE Exec \/ ExecReplyLost \/ ExecCancelled
  <2>1. PICK S \in SUBSET AllCmds(cp) :
          /\ db' = Apply(db, cp, S)
          /\ Exec => S = AllCmds(cp)
    BY <1>14, QueuesAreCommands DEF Exec, ExecReplyLost, ExecCancelled
  <2>2. /\ pc = "executing" /\ cp = file /\ file' = file /\ pc' /= "rollback"
        /\ ~Exec => ~isConsist'
    BY <1>1, <1>14 DEF Exec, ExecReplyLost, ExecCancelled, CommitInProgress
  <2>3. file \notin {NoFile, Torn}
    BY <1>c, <2>2
  <2>4. Settled' = IF cp.prevHash = NoHash \/ isConsistenceWithCheckpoint(Apply(db, cp, S), cp)
                   THEN Apply(db, cp, S) ELSE RolledBack(Apply(db, cp, S), cp)
    BY <1>3, <2>1, <2>2, <2>3
  <2>5. Settled' = db \/ LedgerStep(db, Settled')
    BY <1>1, <1>c, <2>2, <2>4, CommitIsLedgerStep
  <2>6. isConsist' => Settled' = db'
    <3> SUFFICES ASSUME isConsist', cp.prevHash /= NoHash
                 PROVE  isConsistenceWithCheckpoint(db', cp)
      BY <2>1, <2>4
    <3>1. S = AllCmds(cp)
      BY <2>1, <2>2
    <3>2. \A a \in Addr : cp.newRefs[a] \intersect cp.deref[a] = {}
      BY <1>c, <2>2 DEF Reversible
    <3> QED BY <1>1, <1>c, <2>1, <2>2, <3>1, <3>2, CommittedIsConsistent
  <2> QED BY <1>c, <2>2, <2>5, <2>6
<1>15. CASE RemoveCheckpoint
  <2>1. isConsist
    BY <1>1, <1>15 DEF RemoveCheckpoint, CommitInProgress
  <2> QED BY <1>2, <1>3, <1>15, <2>1 DEF RemoveCheckpoint, afterRemoving
<1>16. ~ExecCutUnnoticed
  BY DEF ExecCutUnnoticed
<1> QED BY <1>6, <1>7, <1>8, <1>9, <1>10, <1>11, <1>12, <1>13, <1>14, <1>15, <1>16
        DEF Next, Startup, Handler, Faults

LEMMA InitRefines == Init => SettledIsSeen /\ Ledger!Init
<1> SUFFICES ASSUME Init PROVE SettledIsSeen /\ Ledger!Init
  OBVIOUS
<1>1. Settled = db
  BY SettledDef DEF Init
<1>2. SoundStore(db) /\ db \in Db
  BY InitiallySound, FaultType DEF Init
<1>3. SettledIsSeen
  BY <1>1 DEF Init, SettledIsSeen
<1>4. [a \in Addr |-> getUnspentOutputsByAddress(db, a)] = [a \in Addr |-> Paying(Utxos(db), a)]
  BY <1>2 DEF SoundStore, AtBlock
<1>5. \/ db.hash = NoHash /\ db.height = 0 /\ Utxos(db) = {}
      \/ \E h \in Heights : db.hash = Chain[h].hash /\ db.height = h /\ Utxos(db) = UTXOSet(h)
  BY <1>2, UTXOSetEmpty DEF SoundStore, AtBlock
<1>6. Ledger!Init
  BY <1>1, <1>4, <1>5 DEF Ledger!Init, Ledger!At, Ledger!UTXOSet, Ledger!Paying, Ledger!Heights,
     Ledger!CreatedBy, Ledger!SpentBy, Ledger!TxAt, Ledger!TxNos,
     UTXOSet, Paying, Heights, CreatedBy, SpentBy, TxAt, TxNos
<1> QED BY <1>3, <1>6

\* Who is let in by isConsist sees the settled store, and an interrupted rollback
\* is never taken for a commit.
THEOREM SettledInvariantHolds == Spec => []SettledInvariant
<1>1. Init => SettledInvariant
  BY InitRefines DEF SettledInvariant
<1>2. StoreInvariant /\ SettledInvariant /\ [Next]_vars => SettledInvariant'
  BY StepRefines, MistakenForGood DEF StoreInvariant, SettledInvariant
<1> QED BY <1>1, <1>2, InvariantHolds, PTL DEF Spec

\* The store implements the ledger: whole blocks, in the order of the chain,
\* whatever fails, dies or is retried on the way, until Do returns nil for a part
\* of a block.
THEOREM StoreImplementsLedger == Spec => ImplementsLedger
<1>1. Init => Ledger!Init
  BY InitRefines
<1>2. StoreInvariant /\ SettledInvariant /\ [Next]_vars
        => [mistaken' \/ Ledger!Next]_(Ledger!ledgerVars)
  <2> SUFFICES ASSUME StoreInvariant, SettledInvariant, [Next]_vars, ~mistaken'
               PROVE  Ledger!Next \/ UNCHANGED Ledger!ledgerVars
    OBVIOUS
  <2>1. WholeBlocks /\ SettledIsSeen
    BY MistakenForGood DEF StoreInvariant, SettledInvariant
  <2> QED BY <2>1, StepRefines, LedgerStepIsNext, SettledUnchanged
<1> QED BY <1>1, <1>2, InvariantHolds, SettledInvariantHolds, PTL DEF Spec, ImplementsLedger

-----------------------------------------------------------------------------
(* The check of New can tell. *)

\* The first command of a rollback takes the block hash back.
LEMMA HashGoesBackFirst ==
  ASSUME NEW d \in Db, NEW c \in Checkpoint, NEW S, NEW cmd \in NextDown(c, S),
         HashCmd \notin S => d.hash = c.prevHash
  PROVE  downCheckpoint(d, c, {cmd}).hash = c.prevHash
<1>1. CASE cmd = HashCmd
  BY <1>1 DEF downCheckpoint
<1>2. CASE cmd /= HashCmd
  <2>1. DownGroups(c)[1] = {HashCmd} /\ DOMAIN DownGroups(c) = 1..6
    BY DEF DownGroups
  <2>2. PICK i \in 1..6 : /\ cmd \in DownGroups(c)[i]
                          /\ \A j \in 1..(i - 1) : DownGroups(c)[j] \intersect S = {}
    BY <2>1 DEF NextDown
  <2>3. HashCmd \notin S
    BY <1>2, <2>1, <2>2
  <2> QED BY <1>2, <2>3 DEF downCheckpoint
<1> QED BY <1>1, <1>2

\* The block keys of a checkpoint differ from those of the store it is for.
LEMMA NextHashDiffers ==
  ASSUME NEW b \in Db, SoundStore(b), b.hash /= NoHash, b.height < MaxHeight
  PROVE  NewCheckpointFromNextBlock(b, b.height + 1).newHash /= b.hash
<1>1. b.height \in Heights /\ b.height + 1 \in Heights /\ b.height + 1 /= b.height
  BY ChainType DEF Db, Heights
<1>2. b.hash = Chain[b.height].hash
  BY DEF SoundStore, AtBlock
<1> QED BY <1>1, <1>2, ValidChain DEF NewCheckpointFromNextBlock

\* Transactions are queued before references.
LEMMA NoReferenceBeforeItsTransaction ==
  ASSUME NEW c, NEW S \in Queues(c), NEW t \in TxID, c.newOuts[t] /= Absent, <<"tx", t>> \notin S
  PROVE  \A a \in Addr : <<"ref", a>> \notin S /\ <<"deref", a>> \notin S
<1>1. DOMAIN Groups(c) = 1..5
  BY DEF Groups
<1>2. /\ Groups(c)[1] = {HashCmd} /\ Groups(c)[2] = {HeightCmd}
      /\ Groups(c)[3] = TxCmds(c) /\ Groups(c)[4] = RefCmds(c)
      /\ Groups(c)[5] = DerefCmds(c)
  BY DEF Groups
<1>3. PICK i \in 1..5 : \E part \in SUBSET Groups(c)[i] :
        S = (UNION {Groups(c)[j] : j \in 1..(i - 1)}) \union part
  BY <1>1 DEF Queues
<1>4. <<"tx", t>> \in Groups(c)[3]
  BY <1>2 DEF TxCmds
<1>5. i \in 1..3
  <2> SUFFICES ASSUME i \in 4..5 PROVE FALSE
    BY <1>3
  <2>1. 3 \in 1..(i - 1)
    OBVIOUS
  <2> HIDE DEF Groups
  <2> QED BY <1>3, <1>4, <2>1
<1>6. S \subseteq Groups(c)[1] \union Groups(c)[2] \union Groups(c)[3]
  <2>1. \A j \in 1..(i - 1) : j \in {1, 2}
    BY <1>5
  <2> QED BY <1>3, <1>5, <2>1
<1> QED BY <1>2, <1>6 DEF HashCmd, HeightCmd, TxCmds

\* Where a commit has stopped, a new transaction that is missing comes with a
\* reference that is missing.
LEMMA MissingIsNoticed ==
  ASSUME BlocksPayAddresses,
         NEW b \in Db, SoundStore(b), b.hash /= NoHash, b.height < MaxHeight,
         NEW c, c = NewCheckpointFromNextBlock(b, b.height + 1),
         NEW S \in SUBSET AllCmds(c), S = AllCmds(c) \/ S \in Queues(c),
         keysMatch(Apply(b, c, S), c)
  PROVE  missingTxs(Apply(b, c, S), c) = {}
<1> DEFINE h == b.height + 1
           d == Apply(b, c, S)
<1> SUFFICES ASSUME NEW t \in missingTxs(d, c) PROVE FALSE
  OBVIOUS
<1>1. b.height \in Nat /\ h \in Heights /\ h \in 1..MaxHeight /\ b.height < h
  BY ChainType DEF Db, Heights
<1>2. c \in Checkpoint /\ Reversible(b, c)
  BY <1>1, NewCheckpointType, SoundStoreReversible
<1>3. /\ t \in TxID /\ c.newOuts[t] /= Absent /\ d.txs[t] = Absent
      /\ stored(c.newOuts[t]) /= Absent
  BY DEF missingTxs, differingTxs
<1>4. <<"tx", t>> \notin S
  BY <1>3 DEF Apply, stored
<1>5. S \in Queues(c)
  BY <1>3, <1>4, AllCmdsMembers
<1>6. \A a \in Addr : <<"ref", a>> \notin S /\ <<"deref", a>> \notin S
  BY <1>3, <1>4, <1>5, NoReferenceBeforeItsTransaction
<1>7. \A a \in Addr : c.newRefs[a] = {}
  <2> SUFFICES ASSUME NEW a \in Addr PROVE c.newRefs[a] = {}
    OBVIOUS
  <2>1. c.newRefs[a] \subseteq d.idx[a]
    BY DEF keysMatch
  <2>2. d.idx[a] = b.idx[a]
    BY <1>6 DEF Apply
  <2> QED BY <2>1, <2>2, <1>2 DEF Reversible
<1>8. b.txs[t] = Absent
  BY <1>3, <1>4 DEF Apply
<1>9. /\ c.newOuts[t] = withSpent(createdEntry(h, t), t, h)
      /\ t \in BlockIds(h)
      /\ \A a \in Addr : c.newRefs[a] = {e[1] : e \in {x \in CreatedBy(h) : a \in x[3]}}
  BY <1>1, <1>3, <1>8, NextCheckpointFields
<1>10. CreatedBy(h) /= {}
  <2> DEFINE e == createdEntry(h, t)
             w == stored(withSpent(e, t, h))
  <2>1. e \in Entry /\ \A u : u \in UtxosOf(t, e) => u \in CreatedBy(h)
    BY <1>1, <1>9, UtxosOfCreated
  <2>2. w = stored(c.newOuts[t]) /\ w /= Absent
    BY <1>3, <1>9
  <2> HIDE DEF e
  <2>3. /\ \A u : u \in UtxosOf(t, w) => u \in UtxosOf(t, e)
        /\ w /= Absent => Unspent(w) /= {}
    BY <1>1, <1>3, <2>1, UtxosOfSpent
  <2> HIDE DEF w
  <2>4. PICK v \in Unspent(w) : TRUE
    BY <2>2, <2>3
  <2>5. \E u : u \in UtxosOf(t, w)
    BY <2>2, <2>4 DEF UtxosOf
  <2> QED BY <2>1, <2>3, <2>5
<1>11. PICK u \in CreatedBy(h) : u[3] /= {}
  BY <1>1, <1>10 DEF BlocksPayAddresses
<1>12. u[3] \in SUBSET Addr
  <2>1. PICK i \in TxNos(h) : \E v \in DOMAIN TxAt(h, i).outs : u[3] = TxAt(h, i).outs[v].addrs
    BY <1>1, CreatedByType
  <2>2. PICK v \in DOMAIN TxAt(h, i).outs : u[3] = TxAt(h, i).outs[v].addrs
    BY <2>1
  <2>3. TxAt(h, i).outs \in Seq(NodeOutput)
    BY <1>1, BlockType
  <2>4. TxAt(h, i).outs[v] \in NodeOutput
    BY <2>2, <2>3
  <2> QED BY <2>2, <2>4 DEF NodeOutput
<1>13. PICK a \in Addr : a \in u[3]
  BY <1>11, <1>12
<1>14. u[1] \in c.newRefs[a]
  BY <1>9, <1>13
<1> QED BY <1>7, <1>14

\* What a checkpoint of a block other than the first says of the store.
KeysTell ==
  file \notin {NoFile, Torn} /\ file.prevHash /= NoHash =>
    /\ db.hash /= NoHash
    /\ keysMatch(db, file) => missingTxs(db, file) = {}

LEMMA StepKeepsKeysTell ==
  ASSUME BlocksPayAddresses
  PROVE  WholeBlocks /\ SettledIsSeen /\ KeysTell /\ [Next]_vars /\ ~mistaken' => KeysTell'
<1> SUFFICES ASSUME WholeBlocks, SettledIsSeen, KeysTell, [Next]_vars, ~mistaken',
                    file' \notin {NoFile, Torn}, file'.prevHash /= NoHash
             PROVE  /\ db'.hash /= NoHash
                    /\ keysMatch(db', file') => missingTxs(db', file') = {}
  BY DEF KeysTell
<1> USE FaultType
<1>1. /\ db \in Db /\ cp \in Checkpoint \union {NoFile}
      /\ isConsist => SoundStore(db)
      /\ file \notin {NoFile, Torn} => file \in Checkpoint /\ LeadsBack(db, file)
      /\ CommitInProgress
      /\ RollbackInProgress
  BY WholeBlocksDef DEF TypeOK
<1>2. CASE UNCHANGED <<db, file>>
  BY <1>2 DEF KeysTell
<1>3. CASE \/ NewWithoutCheckpoint \/ NewTorn \/ NewCheckFails \/ NewRemoveFails \/ RollbackBegin
           \/ BootInconsistent \/ ScannerStart \/ Exit \/ AlreadyStored \/ SaveFails
           \/ ExecRefused \/ RemoveCheckpointFails \/ Crash \/ UNCHANGED vars
  BY <1>2, <1>3 DEF NewWithoutCheckpoint, NewTorn, NewCheckFails, NewRemoveFails,
     RollbackBegin, BootInconsistent, ScannerStart, Exit, AlreadyStored, SaveFails,
     ExecRefused, RemoveCheckpointFails, Crash, vars
<1>4. CASE NewConsistent \/ RollbackEnd \/ SaveBegin \/ RemoveCheckpoint
  BY <1>4 DEF NewConsistent, RollbackEnd, SaveBegin, RemoveCheckpoint
<1>5. CASE RollbackStep
  <2>1. PICK cmd \in NextDown(cp, todo) : db' = downCheckpoint(db, cp, {cmd})
    BY <1>5 DEF RollbackStep
  <2>2. /\ cp = file /\ file' = file /\ pc = "rollback" /\ file \in Checkpoint
        /\ cp.prevHash /= NoHash /\ LeadsBack(db, cp)
    BY <1>1, <1>5 DEF RollbackStep, CommitInProgress, RollbackInProgress
  <2>3. db'.hash = cp.prevHash
    BY <1>1, <2>1, <2>2, HashGoesBackFirst DEF SettledIsSeen
  <2>4. cp.newHash /= cp.prevHash
    <3> DEFINE b == RolledBack(db, cp)
    <3>1. b \in Db
      BY <1>1, <2>2, CommandsType DEF RolledBack
    <3>2. /\ SoundStore(b) /\ b.hash /= NoHash /\ b.height < MaxHeight
          /\ cp = NewCheckpointFromNextBlock(b, b.height + 1)
      BY <2>2 DEF LeadsBack
    <3>3. b.hash = cp.prevHash
      BY <1>1, <2>2, RolledBackFields
    <3> HIDE DEF b
    <3> QED BY <3>1, <3>2, <3>3, NextHashDiffers
  <2> QED BY <2>2, <2>3, <2>4 DEF keysMatch
<1>6. ASSUME pc \in {"saving", "executing"}, cp.prevHash /= NoHash
      PROVE  /\ SoundStore(db) /\ db.hash /= NoHash /\ db.height < MaxHeight
             /\ cp = NewCheckpointFromNextBlock(db, db.height + 1) /\ cp \in Checkpoint
  <2>1. /\ isConsist
        /\ next = (IF db.hash = NoHash THEN 0 ELSE db.height + 1)
        /\ next <= MaxHeight
        /\ cp = NewCheckpointFromNextBlock(db, next)
    BY <1>1, <1>6 DEF CommitInProgress
  <2>2. cp \in Checkpoint /\ SoundStore(db)
    BY <1>1, <2>1, CommitLeadsBack
  <2>3. db.hash /= NoHash
    BY <1>6, <2>1 DEF NewCheckpointFromNextBlock
  <2> QED BY <1>1, <2>1, <2>2, <2>3, ChainType DEF Db, Heights
<1>7. CASE SaveEnd
  <2>1. pc = "saving" /\ file' = cp /\ db' = db
    BY <1>7 DEF SaveEnd
  <2>2. cp.newHash /= db.hash
    BY <1>1, <1>6, <2>1, NextHashDiffers
  <2> QED BY <1>6, <2>1, <2>2 DEF keysMatch
<1>8. CASE Exec \/ ExecReplyLost \/ ExecCancelled
  <2>1. PICK S \in SUBSET AllCmds(cp) :
          /\ db' = Apply(db, cp, S)
          /\ S = AllCmds(cp) \/ S \in Queues(cp)
    BY <1>8, QueuesAreCommands DEF Exec, ExecReplyLost, ExecCancelled
  <2>2. pc = "executing" /\ cp = file /\ file' = file
    BY <1>1, <1>8 DEF Exec, ExecReplyLost, ExecCancelled, CommitInProgress
  <2>3. db'.hash /= NoHash
    <3>1. cp.newHash /= NoHash
      BY <1>6, <2>2, ChainType DEF Checkpoint
    <3> QED BY <1>6, <2>1, <2>2, <3>1 DEF Apply
  <2> QED BY <1>1, <1>6, <2>1, <2>2, <2>3, MissingIsNoticed
<1>9. ~ExecCutUnnoticed
  BY DEF ExecCutUnnoticed
<1> QED BY <1>3, <1>4, <1>5, <1>7, <1>8, <1>9 DEF Next, Startup, Handler, Faults

\* A start can tell whether the block of the checkpoint is stored, and never ends
\* with the error for a missing transaction, from which there is no way out
\* (utxostore.go:238), when every block that creates outputs pays an address.
THEOREM StartsDecide ==
  ASSUME BlocksPayAddresses
  PROVE  Spec => [](~mistaken => StartDecides)
<1> DEFINE Tells == ~mistaken => KeysTell
<1>1. Init => Tells
  BY DEF Init, KeysTell
<1>2. StoreInvariant /\ SettledInvariant /\ Tells /\ [Next]_vars => Tells'
  BY StepKeepsKeysTell, MistakenForGood DEF StoreInvariant, SettledInvariant
<1>3. StoreInvariant /\ Tells => (~mistaken => StartDecides)
  <2> SUFFICES ASSUME WholeBlocks, KeysTell, file \notin {NoFile, Torn}, checkFails(db, file)
               PROVE  db.hash = NoHash /\ file.prevHash = NoHash
    BY DEF StartDecides, StoreInvariant
  <2>1. file.prevHash = NoHash
    BY DEF KeysTell, checkFails
  <2>2. LeadsBack(db, file) /\ db \in Db
    BY WholeBlocksDef DEF TypeOK
  <2>3. [db EXCEPT !.hash = NoHash].hash = NoHash
    BY <2>2 DEF Db
  <2>4. file.newOuts = NoTxs
    BY <2>1, <2>2, <2>3 DEF LeadsBack, NewCheckpointFromNextBlock
  <2>5. missingTxs(db, file) = {}
    BY <2>4 DEF missingTxs, differingTxs, NoTxs
  <2> QED BY <2>1, <2>5 DEF checkFails
<1> QED BY <1>1, <1>2, <1>3, InvariantHolds, SettledInvariantHolds, PTL DEF Spec

-----------------------------------------------------------------------------
(* What a step of the indexer does to the store its readers look at. *)

\* The block hash is the first command.
LEMMA HashFirst ==
  ASSUME NEW c, NEW S \in Queues(c), HeightCmd \in S
  PROVE  HashCmd \in S
<1>1. PICK i \in DOMAIN Groups(c) : \E part \in SUBSET Groups(c)[i] :
        S = (UNION {Groups(c)[j] : j \in 1..(i - 1)}) \union part
  BY DEF Queues
<1>2. DOMAIN Groups(c) = 1..5 /\ Groups(c)[1] = {HashCmd}
  BY DEF Groups
<1>3. HeightCmd /= HashCmd
  BY DEF HeightCmd, HashCmd
<1> HIDE DEF Groups
<1>4. CASE i = 1
  BY <1>1, <1>2, <1>3, <1>4
<1>5. CASE i /= 1
  <2>1. 1 \in 1..(i - 1)
    BY <1>2, <1>5
  <2> QED BY <1>1, <1>2, <2>1
<1> QED BY <1>4, <1>5

\* Commands of a commit take the height up, and the hash no less far.
LEMMA CommitAdvances ==
  ASSUME WholeBlocks, ReadersTypeOK, BlocksKnown, pc = "executing",
         NEW S \in Queues(cp) \union {AllCmds(cp)}
  PROVE  LET d == Apply(db, cp, S)
         IN  /\ d.height \in db.height..node.blocks
             /\ d.hash /= NoHash =>
                  \E g \in d.height..node.blocks : d.hash = Chain[g].hash
<1> DEFINE d == Apply(db, cp, S)
<1>1. /\ isConsist /\ SoundStore(db) /\ db \in Db
      /\ cp \in Checkpoint
      /\ next = IF db.hash = NoHash THEN 0 ELSE db.height + 1
      /\ next <= MaxHeight
      /\ cp = NewCheckpointFromNextBlock(db, next)
  <2>1. cp = NewCheckpointFromNextBlock(db, next) /\ isConsist /\ next <= MaxHeight
        /\ next = IF db.hash = NoHash THEN 0 ELSE db.height + 1
    BY DEF WholeBlocks, CommitInProgress
  <2>2. db \in Db /\ SoundStore(db)
    BY <2>1 DEF WholeBlocks, TypeOK
  <2>3. next \in Heights
    BY <2>1, <2>2, ChainType DEF Db, Heights
  <2> QED BY <2>1, <2>2, <2>3, NewCheckpointType
<1>2. /\ db.height \in Heights /\ MaxHeight \in Nat
      /\ db.hash /= NoHash => db.hash = Chain[db.height].hash
      /\ db.hash = NoHash => db.height = 0
  BY <1>1, ChainType DEF Db, SoundStore, AtBlock
<1>3. cp.newHash = Chain[next].hash /\ cp.newHeight = next
  BY <1>1 DEF NewCheckpointFromNextBlock
<1>4. cp \in {cp, file} \ {NoFile, Torn}
  BY <1>1, FaultType
<1>5. next <= node.blocks /\ db.height <= node.blocks
  BY <1>3, <1>4 DEF BlocksKnown
<1>6. node.blocks \in Int /\ next \in Int /\ db.height \in Int /\ db.height <= next
  BY <1>1, <1>2 DEF Heights, ReadersTypeOK, NodeAnswer
<1>7. d.height = IF HeightCmd \in S THEN next ELSE db.height
  BY <1>3 DEF Apply
<1>8. d.hash = IF HashCmd \in S THEN Chain[next].hash ELSE db.hash
  BY <1>3 DEF Apply
<1>9. HeightCmd \in S => HashCmd \in S
  BY HashFirst, AllCmdsMembers
<1> HIDE DEF d
<1>10. d.height \in db.height..node.blocks
  BY <1>5, <1>6, <1>7
<1>11. ASSUME d.hash /= NoHash PROVE \E g \in d.height..node.blocks : d.hash = Chain[g].hash
  <2>1. CASE HashCmd \in S
    <3>1. next \in d.height..node.blocks /\ d.hash = Chain[next].hash
      BY <1>5, <1>6, <1>7, <1>8, <2>1
    <3> QED BY <3>1
  <2>2. CASE HashCmd \notin S
    <3>1. db.height \in d.height..node.blocks /\ d.hash = Chain[db.height].hash
      BY <1>2, <1>5, <1>6, <1>7, <1>8, <1>9, <1>11, <2>2
    <3> QED BY <3>1
  <2> QED BY <2>1, <2>2
<1> QED BY <1>10, <1>11 DEF d

\* While the servers are up the stored height never falls, and the gate does not
\* open again once it is shut.
LEMMA ServedStoreAdvances ==
  ASSUME WholeBlocks, ReadersTypeOK, BlocksKnown, HashAhead, Next, ~mistaken', Serving,
         pc' /= "down"
  PROVE  /\ Serving'
         /\ isConsist' => isConsist
         /\ db'.height \in db.height..node.blocks
         /\ db'.hash /= NoHash =>
              \E g \in db'.height..node.blocks : db'.hash = Chain[g].hash
<1>1. db \in Db /\ db.height \in db.height..node.blocks
  BY ChainType DEF WholeBlocks, TypeOK, BlocksKnown, ReadersTypeOK, NodeAnswer, Db, Heights
<1>2. ASSUME UNCHANGED db
      PROVE  /\ db'.height \in db.height..node.blocks
             /\ db'.hash /= NoHash =>
                  \E g \in db'.height..node.blocks : db'.hash = Chain[g].hash
  BY <1>1, <1>2 DEF HashAhead
<1>3. CASE AlreadyStored \/ SaveBegin \/ SaveEnd \/ SaveFails \/ ExecRefused
           \/ RemoveCheckpoint \/ RemoveCheckpointFails
  <2>1. UNCHANGED db /\ Serving' /\ (isConsist' => isConsist)
    BY <1>3 DEF AlreadyStored, SaveBegin, SaveEnd, SaveFails, ExecRefused,
                RemoveCheckpoint, RemoveCheckpointFails, afterRemoving, Serving
  <2> QED BY <1>2, <2>1
<1>4. CASE Exec \/ ExecReplyLost \/ ExecCancelled
  <2>1. PICK S \in Queues(cp) \union {AllCmds(cp)} : db' = Apply(db, cp, S)
    BY <1>4 DEF Exec, ExecReplyLost, ExecCancelled
  <2>2. pc = "executing" /\ Serving' /\ (isConsist' => isConsist)
    BY <1>4 DEF Exec, ExecReplyLost, ExecCancelled, Serving
  <2> QED BY <2>1, <2>2, CommitAdvances
<1>5. ~(Startup \/ NewRemoveFails \/ Crash \/ ExecCutUnnoticed)
  BY DEF Startup, NewRemoveFails, Crash, ExecCutUnnoticed, NewWithoutCheckpoint, NewConsistent, NewTorn,
         NewCheckFails, RollbackBegin, RollbackStep, RollbackEnd, BootInconsistent,
         ScannerStart, Exit, Serving
<1> QED BY <1>3, <1>4, <1>5 DEF Next, Handler, Faults

\* The indexer stores no block that the node does not have.
LEMMA StoreKeepsBlocksKnown ==
  ASSUME WholeBlocks, ReadersTypeOK, BlocksKnown, HashAhead, StoreStep, ~mistaken'
  PROVE  BlocksKnown' /\ HashAhead'
<1>1. /\ db \in Db /\ db.height \in Int /\ 0 <= db.height
      /\ node.blocks \in Int /\ db.height <= node.blocks
  BY ChainType DEF WholeBlocks, TypeOK, BlocksKnown, ReadersTypeOK, NodeAnswer, Db, Heights
<1>2. Next /\ UNCHANGED <<node, info>> /\ ~ExecCutUnnoticed
  BY DEF StoreStep, ExecCutUnnoticed
<1>3. db'.height <= node.blocks
  <2>1. CASE UNCHANGED db
    BY <1>1, <2>1
  <2>2. CASE Exec \/ ExecReplyLost \/ ExecCancelled
    <3>1. Serving /\ pc' /= "down"
      BY <2>2 DEF Exec, ExecReplyLost, ExecCancelled, Serving
    <3>2. db'.height \in db.height..node.blocks
      BY <1>2, <3>1, ServedStoreAdvances
    <3> QED BY <1>1, <3>2
  <2>3. CASE RollbackStep
    <3>1. cp = file /\ file \notin {NoFile, Torn}
      BY <2>3 DEF RollbackStep, WholeBlocks, CommitInProgress, RollbackInProgress
    <3>2. db'.height \in {db.height, cp.prevHeight}
      BY <2>3 DEF RollbackStep, downCheckpoint
    <3> QED BY <1>1, <3>1, <3>2 DEF BlocksKnown
  <2> QED
    BY <1>2, <2>1, <2>2, <2>3
    DEF Next, Startup, Handler, Faults, NewWithoutCheckpoint, NewConsistent, NewTorn,
        NewCheckFails, RollbackBegin, RollbackEnd, BootInconsistent, ScannerStart,
        Exit, AlreadyStored, SaveBegin, SaveEnd, RemoveCheckpoint, NewRemoveFails,
        SaveFails, ExecRefused, RemoveCheckpointFails, Crash
<1>4. ASSUME NEW c \in {cp', file'} \ {NoFile, Torn}
      PROVE  c.prevHeight <= node.blocks /\ c.newHeight <= node.blocks
  <2>1. CASE SaveBegin
    <3>1. next <= node.blocks
      BY <2>1 DEF StoreStep, SaveBegin
    <3>2. c = NewCheckpointFromNextBlock(db, next)
      BY <2>1 DEF SaveBegin
    <3>3. c.newHeight = next /\ c.prevHeight \in {0, db.height}
      BY <3>2 DEF NewCheckpointFromNextBlock
    <3> QED BY <1>1, <3>1, <3>3
  <2>2. CASE ~SaveBegin
    <3>1. {cp', file'} \ {NoFile, Torn} \subseteq {cp, file} \ {NoFile, Torn}
      BY <1>2, <2>2
      DEF Next, Startup, Handler, Faults, NewWithoutCheckpoint, NewConsistent, NewTorn,
          NewCheckFails, RollbackBegin, RollbackStep, RollbackEnd, BootInconsistent,
          ScannerStart, Exit, AlreadyStored, SaveEnd, RemoveCheckpoint,
          NewRemoveFails, SaveFails, Exec, ExecRefused, ExecReplyLost, ExecCancelled,
          RemoveCheckpointFails, Crash
    <3> QED BY <3>1 DEF BlocksKnown
  <2> QED BY <2>1, <2>2
<1>5. BlocksKnown'
  BY <1>2, <1>3, <1>4 DEF BlocksKnown
<1>6. HashAhead'
  <2> SUFFICES ASSUME Serving', db'.hash /= NoHash
               PROVE  \E g \in db'.height..node.blocks : db'.hash = Chain[g].hash
    BY <1>2 DEF HashAhead
  <2>1. CASE Serving
    <3>1. pc' /= "down"
      BY DEF Serving
    <3> QED BY <1>2, <2>1, <3>1, ServedStoreAdvances
  <2>2. CASE ~Serving
    <3>1. ScannerStart
      BY <1>2, <2>2
      DEF Next, Startup, Handler, Faults, NewWithoutCheckpoint, NewConsistent, NewTorn,
          NewCheckFails, RollbackBegin, RollbackStep, RollbackEnd, BootInconsistent,
          Exit, AlreadyStored, SaveBegin, SaveEnd, RemoveCheckpoint, NewRemoveFails,
          SaveFails, Exec, ExecRefused, ExecReplyLost, ExecCancelled,
          RemoveCheckpointFails, afterRemoving, Crash, Serving
    <3>2. db' = db /\ SoundStore(db)
      BY <3>1 DEF ScannerStart, WholeBlocks
    <3>3. db.hash = Chain[db.height].hash
      BY <3>2 DEF SoundStore, AtBlock
    <3>4. db.height \in db.height..node.blocks
      BY <1>1
    <3> QED BY <3>2, <3>3, <3>4
  <2> QED BY <2>1, <2>2
<1> QED BY <1>5, <1>6

-----------------------------------------------------------------------------
(* What a query reads. *)

\* Types of what the reads give.
LEMMA ReadTypes ==
  ASSUME WholeBlocks
  PROVE  /\ db.height \in Heights /\ Heights \subseteq Int
         /\ db.hash \in Hash \union {NoHash}
         /\ \A a \in Addr : db.idx[a] \subseteq TxID
         /\ Utxos(db) \subseteq TxID \X (Nat \ {0}) \X (SUBSET Addr) \X Nat
         /\ NoHeight \notin Heights
<1>1. db \in Db
  BY DEF WholeBlocks, TypeOK
<1>2. ASSUME NEW u \in Utxos(db) PROVE u \in TxID \X (Nat \ {0}) \X (SUBSET Addr) \X Nat
  <2>1. PICK t \in TxID : /\ db.txs[t] /= Absent
                          /\ \E v \in Unspent(db.txs[t]) :
                               u = <<t, v, db.txs[t].outs[v], db.txs[t].height>>
    BY <1>1, <1>2, UtxosMembers
  <2>2. PICK v \in Unspent(db.txs[t]) : u = <<t, v, db.txs[t].outs[v], db.txs[t].height>>
    BY <2>1
  <2>3. db.txs[t] \in Entry
    BY <1>1, <2>1 DEF Db
  <2>4. db.txs[t].height \in Nat /\ db.txs[t].outs \in Seq({Spent} \union SUBSET Addr)
    BY <2>3 DEF Entry
  <2>5. v \in Nat \ {0} /\ db.txs[t].outs[v] \in SUBSET Addr
    BY <2>2, <2>4 DEF Unspent
  <2> QED BY <2>2, <2>4, <2>5
<1> QED BY <1>1, <1>2, ChainType, QueriesType DEF Db, Heights

\* While the gate is open, the index leads to every output that pays an address.
LEMMA OpenGateReads ==
  ASSUME WholeBlocks, isConsist, NEW a \in Addr
  PROVE  /\ Utxos(db) = UTXOSet(db.height)
         /\ \A u \in Paying(UTXOSet(db.height), a) : u[1] \in db.idx[a]
BY DEF WholeBlocks, SoundStore, AtBlock, getUnspentOutputsByAddress

-----------------------------------------------------------------------------
(* The invariant. *)

LEMMA ReadersInvariantInitially == ReadersInit => QueriesOverWholeBlocks
<1> SUFFICES ASSUME ReadersInit PROVE QueriesOverWholeBlocks
  OBVIOUS
<1>1. ReadersTypeOK
  BY QueriesType, ChainType
  DEF ReadersInit, ReadersTypeOK, NodeAnswer, Steps, NothingRead, NoReply, Replies, Heights
<1>2. db.height <= NodeStart /\ cp = NoFile /\ file = NoFile /\ pc = "down"
  BY QueriesType DEF ReadersInit, Init
<1>3. NodeStart \in Int
  BY QueriesType, ChainType DEF Heights
<1>4. BlocksKnown
  BY <1>2, <1>3 DEF ReadersInit, BlocksKnown
<1>5. HashAhead
  BY <1>2 DEF HashAhead, Serving
<1>6. QueryInProgress
  BY DEF ReadersInit, QueryInProgress
<1>7. AnswerBetweenBlocks /\ HashNotOlderThanHeight
  BY DEF ReadersInit, AnswerBetweenBlocks, HashNotOlderThanHeight, NoReply
<1> QED BY <1>1, <1>4, <1>5, <1>6, <1>7 DEF QueriesOverWholeBlocks

\* The rest of the system goes on while a query waits.
LEMMA StoreStepKeepsReaders ==
  ASSUME WholeBlocks, QueriesOverWholeBlocks, StoreStep, ~mistaken, ~mistaken'
  PROVE  QueriesOverWholeBlocks'
<1>0. Next /\ UNCHANGED <<node, info, addr>>
  BY DEF StoreStep, readVars
<1>1. BlocksKnown' /\ HashAhead'
  BY StoreKeepsBlocksKnown DEF QueriesOverWholeBlocks
<1>2. CASE pc' = "down"
  <2>1. /\ query' = "none" /\ at' = "idle" /\ got' = NothingRead
        /\ reply' = NoReply /\ idsAt' = NoHeight /\ txsAt' = NoHeight
    BY <1>2 DEF StoreStep
  <2>2. ReadersTypeOK'
    BY <1>0, <2>1, ChainType
    DEF QueriesOverWholeBlocks, ReadersTypeOK, NodeAnswer, Steps, NothingRead, NoReply, Replies, Heights
  <2>3. QueryInProgress'
    BY <2>1 DEF QueryInProgress
  <2>4. AnswerBetweenBlocks' /\ HashNotOlderThanHeight'
    BY <2>1 DEF AnswerBetweenBlocks, HashNotOlderThanHeight, NoReply
  <2> QED BY <1>1, <2>2, <2>3, <2>4 DEF QueriesOverWholeBlocks
<1>3. CASE pc' /= "down"
  <2>1. UNCHANGED <<query, addr, at, got, reply, idsAt, txsAt>>
    BY <1>3 DEF StoreStep, readVars
  <2>2. ReadersTypeOK'
    BY <1>0, <2>1 DEF QueriesOverWholeBlocks, ReadersTypeOK
  <2>3. AnswerBetweenBlocks' /\ HashNotOlderThanHeight'
    BY <1>0, <2>1 DEF QueriesOverWholeBlocks, AnswerBetweenBlocks, HashNotOlderThanHeight
  <2>4. QueryInProgress'
    <3>1. CASE at = "idle"
      BY <2>1, <3>1 DEF QueryInProgress
    <3>2. CASE at /= "idle"
      <4>1. Serving /\ Serving' /\ (isConsist' => isConsist)
            /\ db'.height \in db.height..node.blocks
        BY <1>0, <1>3, <3>2, ServedStoreAdvances DEF QueriesOverWholeBlocks, QueryInProgress
      <4>2. /\ db.height \in Int /\ got.height \in Int /\ db'.height >= db.height
            /\ idsAt /= NoHeight => idsAt \in Int
            /\ db'.height \in Int
        BY <4>1, ReadTypes DEF QueriesOverWholeBlocks, ReadersTypeOK
      <4>3. idsAt /= NoHeight /\ idsAt <= db.height => idsAt <= db'.height
        BY <4>2
      <4>4. got.height <= db.height => got.height <= db'.height
        BY <4>2
      <4> QED BY <1>0, <2>1, <4>1, <4>3, <4>4 DEF QueriesOverWholeBlocks, QueryInProgress
    <3> QED BY <3>1, <3>2
  <2> QED BY <1>1, <2>2, <2>3, <2>4 DEF QueriesOverWholeBlocks
<1> QED BY <1>2, <1>3

\* The node and the copy of its answer go forward only.
LEMMA NodeGoesForward ==
  ASSUME ReadersTypeOK, BlocksKnown, NodeStep \/ InfoStep
  PROVE  /\ node' \in NodeAnswer /\ info' \in NodeAnswer
         /\ node.blocks \in Int /\ node'.blocks \in Int
         /\ info.blocks \in Int /\ info'.blocks \in Int
         /\ node'.blocks >= node.blocks /\ info'.blocks >= info.blocks
         /\ node'.blocks <= node'.headers /\ info'.blocks <= info'.headers
         /\ info'.blocks <= node'.blocks /\ info'.headers <= node'.headers
<1>1. /\ node.blocks \in Heights /\ node.headers \in Heights
      /\ info.blocks \in Heights /\ info.headers \in Heights
      /\ node = [blocks |-> node.blocks, headers |-> node.headers]
      /\ node.blocks <= node.headers /\ info.blocks <= info.headers
      /\ info.blocks <= node.blocks /\ info.headers <= node.headers
  BY DEF ReadersTypeOK, NodeAnswer, BlocksKnown
<1>2. MaxHeight \in Nat /\ Heights = 0..MaxHeight
  BY ChainType DEF Heights
<1>3. CASE InfoStep
  BY <1>1, <1>2, <1>3 DEF InfoStep, ReadersTypeOK, NodeAnswer
<1>4. CASE NodeStep
  <2>1. info' = info
    BY <1>4 DEF NodeStep
  <2>2. CASE node' = [node EXCEPT !.headers = @ + 1] /\ node.headers < MaxHeight
    <3>1. node' = [blocks |-> node.blocks, headers |-> node.headers + 1]
      BY <1>1, <2>2
    <3> QED BY <1>1, <1>2, <2>1, <2>2, <3>1 DEF ReadersTypeOK, NodeAnswer
  <2>3. CASE node' = [node EXCEPT !.blocks = @ + 1] /\ node.blocks < node.headers
    <3>1. node' = [blocks |-> node.blocks + 1, headers |-> node.headers]
      BY <1>1, <2>3
    <3> QED BY <1>1, <1>2, <2>1, <2>3, <3>1 DEF ReadersTypeOK, NodeAnswer
  <2> QED BY <1>4, <2>2, <2>3 DEF NodeStep
<1> QED BY <1>3, <1>4

LEMMA NodeKeepsReaders ==
  ASSUME WholeBlocks, QueriesOverWholeBlocks, NodeStep \/ InfoStep, ~mistaken
  PROVE  QueriesOverWholeBlocks'
<1>1. UNCHANGED <<db, file, pc, isConsist, cp, query, addr, at, got, reply, idsAt, txsAt>>
  BY DEF NodeStep, InfoStep, vars, readVars
<1>2. /\ node' \in NodeAnswer /\ info' \in NodeAnswer
      /\ node.blocks \in Int /\ node'.blocks \in Int
      /\ info.blocks \in Int /\ info'.blocks \in Int
      /\ node'.blocks >= node.blocks /\ info'.blocks >= info.blocks
      /\ node'.blocks <= node'.headers /\ info'.blocks <= info'.headers
      /\ info'.blocks <= node'.blocks /\ info'.headers <= node'.headers
  BY NodeGoesForward DEF QueriesOverWholeBlocks
<1>3. ReadersTypeOK'
  BY <1>1, <1>2 DEF QueriesOverWholeBlocks, ReadersTypeOK
<1>4. BlocksKnown'
  <2>1. /\ db.height \in Int
        /\ \A c \in {cp, file} \ {NoFile, Torn} : c.prevHeight \in Int /\ c.newHeight \in Int
    BY ReadTypes DEF WholeBlocks, TypeOK, Checkpoint
  <2>2. db.height <= node'.blocks
    BY <1>2, <2>1 DEF QueriesOverWholeBlocks, BlocksKnown
  <2>3. \A c \in {cp, file} \ {NoFile, Torn} :
          c.prevHeight <= node'.blocks /\ c.newHeight <= node'.blocks
    BY <1>2, <2>1 DEF QueriesOverWholeBlocks, BlocksKnown
  <2> QED BY <1>1, <1>2, <2>2, <2>3 DEF BlocksKnown
<1>5. \A a : \A g \in a..node.blocks : g \in a..node'.blocks
  BY <1>2
<1>6. HashAhead'
  BY <1>1, <1>5 DEF QueriesOverWholeBlocks, HashAhead, Serving
<1>7. AnswerBetweenBlocks' /\ HashNotOlderThanHeight'
  BY <1>1, <1>5 DEF QueriesOverWholeBlocks, AnswerBetweenBlocks, HashNotOlderThanHeight
<1>8. QueryInProgress'
  <2>1. at = "headers" => got.blocks <= info'.blocks
    BY <1>2, ReadTypes DEF QueriesOverWholeBlocks, QueryInProgress, ReadersTypeOK
  <2>2. (at \in {"blocks", "headers"} /\ query = "info") =>
          \E g \in got.height..node'.blocks : got.hash = Chain[g].hash
    BY <1>5 DEF QueriesOverWholeBlocks, QueryInProgress
  <2> QED BY <1>1, <2>1, <2>2 DEF QueriesOverWholeBlocks, QueryInProgress, Serving
<1> QED BY <1>3, <1>4, <1>6, <1>7, <1>8 DEF QueriesOverWholeBlocks

\* The steps of an address query.
LEMMA AddressQueryKeepsReaders ==
  ASSUME WholeBlocks, QueriesOverWholeBlocks, AddressQuery, ~mistaken
  PROVE  QueriesOverWholeBlocks'
<1>1. UNCHANGED <<db, file, pc, isConsist, cp, node, info>>
  BY DEF AddressQuery, BeginOutputs, ReadIds, ReadTxs, vars
<1>2. BlocksKnown' /\ HashAhead'
  BY <1>1 DEF QueriesOverWholeBlocks, BlocksKnown, HashAhead, Serving
<1>3. CASE BeginOutputs
  <2>1. ReadersTypeOK'
    BY <1>1, <1>3, ReadTypes, ChainType
    DEF BeginOutputs, Answer, QueriesOverWholeBlocks, ReadersTypeOK, Steps, NothingRead,
        NoReply, Failed, Replies, Heights
  <2>2. QueryInProgress'
    BY <1>1, <1>3
    DEF BeginOutputs, Answer, QueriesOverWholeBlocks, QueryInProgress, Serving
  <2>3. AnswerBetweenBlocks' /\ HashNotOlderThanHeight'
    BY <1>3 DEF BeginOutputs, Answer, NoReply, Failed, AnswerBetweenBlocks, HashNotOlderThanHeight
  <2> QED BY <1>2, <2>1, <2>2, <2>3 DEF QueriesOverWholeBlocks
<1>4. CASE ReadIds
  <2>0. at = "smembers" /\ Serving /\ query = "outputs" /\ reply = NoReply /\ txsAt = NoHeight
    BY <1>4 DEF ReadIds, QueriesOverWholeBlocks, QueryInProgress
  <2>1. ReadersTypeOK'
    BY <1>1, <1>4, ReadTypes
    DEF ReadIds, Answer, Failed, Outputs, QueriesOverWholeBlocks, ReadersTypeOK, Steps, Replies, StoredBlock
  <2>2. StoredBlock /= NoHeight =>
          /\ isConsist /\ StoredBlock = db.height
          /\ \A u \in Paying(UTXOSet(StoredBlock), addr) : u[1] \in db.idx[addr]
    BY OpenGateReads DEF StoredBlock, QueriesOverWholeBlocks, ReadersTypeOK
  <2>3. db.height <= db.height
    BY ReadTypes
  <2>4. QueryInProgress'
    <3>1. CASE at' = "replied"
      BY <1>1, <1>4, <2>0, <3>1 DEF ReadIds, QueryInProgress, Serving
    <3>2. CASE at' /= "replied"
      <4>1. /\ at' = "mget" /\ got'.ids = db.idx[addr] /\ idsAt' = StoredBlock
            /\ UNCHANGED <<query, addr, reply, txsAt>>
        BY <1>4, <3>2 DEF ReadIds, Answer, QueriesOverWholeBlocks, ReadersTypeOK
      <4> QED BY <1>1, <2>0, <2>2, <2>3, <4>1 DEF QueryInProgress, Serving
    <3> QED BY <3>1, <3>2
  <2>5. HashNotOlderThanHeight'
    BY <1>4, <2>0
    DEF ReadIds, Answer, Failed, Outputs, NoReply, HashNotOlderThanHeight
  <2>6. AnswerBetweenBlocks'
    <3>1. CASE reply' = Outputs({}) /\ idsAt' = StoredBlock /\ txsAt' = StoredBlock
               /\ addr' = addr /\ db.idx[addr] = {}
      <4>1. StoredBlock /= NoHeight => Paying(UTXOSet(StoredBlock), addr) = {}
        BY <2>2, <3>1
      <4>2. StoredBlock /= NoHeight => StoredBlock <= StoredBlock
        BY <2>2, <2>3
      <4> QED BY <3>1, <4>1, <4>2 DEF AnswerBetweenBlocks, Outputs
    <3>2. CASE reply' \in {NoReply, Failed}
      BY <3>2 DEF AnswerBetweenBlocks, NoReply, Failed
    <3> QED BY <1>4, <2>0, <3>1, <3>2 DEF ReadIds, Answer
  <2> QED BY <1>2, <2>1, <2>4, <2>5, <2>6 DEF QueriesOverWholeBlocks
<1>5. CASE ReadTxs
  <2>0. /\ at = "mget" /\ Serving /\ query = "outputs" /\ txsAt = NoHeight
        /\ idsAt /= NoHeight =>
             /\ \A u \in Paying(UTXOSet(idsAt), addr) : u[1] \in got.ids
             /\ isConsist => idsAt <= db.height
    BY <1>5 DEF ReadTxs, QueriesOverWholeBlocks, QueryInProgress
  <2>1. PICK O \in SUBSET Utxos(db) : reply' = Outputs(O)
    BY <1>5 DEF ReadTxs, Answer
  <2>2. at' = "replied" /\ UNCHANGED <<query, addr, got, idsAt>>
        /\ txsAt' \in {txsAt, StoredBlock}
    BY <1>5 DEF ReadTxs, Answer
  <2>3. ReadersTypeOK'
    <3>1. reply'.kind = "outputs"
          /\ reply'.outputs \subseteq TxID \X (Nat \ {0}) \X (SUBSET Addr) \X Nat
      BY <2>1, ReadTypes DEF Outputs
    <3>2. txsAt' \in Heights \union {NoHeight}
      BY <2>2, ReadTypes DEF StoredBlock, QueriesOverWholeBlocks, ReadersTypeOK
    <3> QED BY <1>1, <2>2, <3>1, <3>2 DEF QueriesOverWholeBlocks, ReadersTypeOK, Steps
  <2>4. QueryInProgress'
    BY <1>1, <2>0, <2>2 DEF QueryInProgress, Serving
  <2>5. HashNotOlderThanHeight'
    BY <2>1 DEF Outputs, HashNotOlderThanHeight
  <2>6. AnswerBetweenBlocks'
    <3> SUFFICES ASSUME idsAt /= NoHeight, txsAt' /= NoHeight
                 PROVE  /\ idsAt <= txsAt'
                        /\ reply'.outputs \subseteq Paying(UTXOSet(txsAt'), addr)
                        /\ Paying(UTXOSet(idsAt), addr) \intersect Paying(UTXOSet(txsAt'), addr)
                             \subseteq reply'.outputs
      BY <2>2 DEF AnswerBetweenBlocks
    <3>1. reply' = Outputs({u \in Utxos(db) : u[1] \in got.ids /\ addr \in u[3]})
          /\ txsAt' = db.height /\ isConsist
      BY <1>5, <2>0 DEF ReadTxs, Answer, StoredBlock
    <3>2. Utxos(db) = UTXOSet(txsAt')
      BY <3>1, OpenGateReads DEF QueriesOverWholeBlocks, ReadersTypeOK
    <3>3. reply'.outputs = {u \in UTXOSet(txsAt') : u[1] \in got.ids /\ addr \in u[3]}
      BY <3>1, <3>2 DEF Outputs
    <3>4. idsAt <= txsAt'
      BY <2>0, <3>1
    <3> QED BY <2>0, <3>3, <3>4 DEF Paying
  <2> QED BY <1>2, <2>3, <2>4, <2>5, <2>6 DEF QueriesOverWholeBlocks
<1> QED BY <1>3, <1>4, <1>5 DEF AddressQuery

\* The steps of GetInfo and of the health check.
LEMMA InfoQueryKeepsReaders ==
  ASSUME WholeBlocks, QueriesOverWholeBlocks, InfoQuery \/ HealthQuery, ~mistaken
  PROVE  QueriesOverWholeBlocks'
<1>1. UNCHANGED <<db, file, pc, isConsist, cp, node, info, addr, idsAt, txsAt>>
  BY DEF InfoQuery, HealthQuery, BeginInfo, ReadHeight, HashGate, ReadHash, ReadBlocks,
         ReadHeaders, BeginHealth, HealthGate, HealthHeight, vars
<1>2. BlocksKnown' /\ HashAhead'
  BY <1>1 DEF QueriesOverWholeBlocks, BlocksKnown, HashAhead, Serving
<1>3. /\ db.height \in Int /\ db.height <= db.height
      /\ info.blocks \in Int /\ info.blocks <= info.blocks
  BY ReadTypes DEF QueriesOverWholeBlocks, ReadersTypeOK, NodeAnswer
<1>4. ReadersTypeOK'
  <2>1. \A k \in BOOLEAN : Health(k) \in Replies
    BY DEF Replies, Health
  <2>2. \A h \in Heights, g \in Hash, k \in BOOLEAN : Info(h, g, k) \in Replies
    BY DEF Replies, Info
  <2>3. Failed \in Replies /\ NoReply \in Replies
    BY DEF Replies
  <2>t. /\ db.height \in Heights /\ info.blocks \in Heights
        /\ db.hash \in Hash \union {NoHash}
        /\ got = [ids |-> got.ids, height |-> got.height, hash |-> got.hash, blocks |-> got.blocks]
        /\ got.ids \in SUBSET TxID /\ got.height \in Heights
        /\ got.hash \in Hash \union {NoHash} /\ got.blocks \in Heights
    BY ReadTypes DEF QueriesOverWholeBlocks, ReadersTypeOK, NodeAnswer
  <2>4. reply' = reply \/ reply' \in Replies
    <3>1. CASE ReadHeaders
      <4>1. got.hash \in Hash
        <5>1. PICK g \in got.height..node.blocks : got.hash = Chain[g].hash
          BY <3>1 DEF ReadHeaders, QueriesOverWholeBlocks, QueryInProgress
        <5>2. g \in Heights
          BY <2>t, ChainType DEF QueriesOverWholeBlocks, ReadersTypeOK, NodeAnswer, Heights
        <5> QED BY <5>1, <5>2, ChainType DEF Block
      <4> DEFINE synced == got.blocks = got.height /\ info.headers = got.blocks
      <4>2. synced \in BOOLEAN /\ reply' = Info(got.height, got.hash, synced)
        BY <3>1 DEF ReadHeaders, Answer
      <4> HIDE DEF synced
      <4> QED BY <2>2, <2>t, <4>1, <4>2
    <3>2. CASE HealthGate
      BY <2>1, <3>2 DEF HealthGate, Answer
    <3>3. CASE HealthHeight
      <4> DEFINE serving == got.blocks = db.height
      <4>1. serving \in BOOLEAN /\ reply' = Health(serving)
        BY <3>3 DEF HealthHeight, Answer
      <4> HIDE DEF serving
      <4> QED BY <2>1, <4>1
    <3>4. CASE BeginInfo \/ ReadHeight \/ HashGate \/ ReadHash \/ ReadBlocks \/ BeginHealth
      BY <2>3, <3>4
      DEF BeginInfo, ReadHeight, HashGate, ReadHash, ReadBlocks, BeginHealth, Answer
    <3> QED BY <3>1, <3>2, <3>3, <3>4 DEF InfoQuery, HealthQuery
  <2>5. got' \in [ids : SUBSET TxID, height : Heights,
                  hash : Hash \union {NoHash}, blocks : Heights]
    <3>1. CASE BeginInfo \/ BeginHealth
      BY <3>1, ChainType DEF BeginInfo, BeginHealth, NothingRead, Heights
    <3>2. CASE ReadHeight
      BY <2>t, <3>2 DEF ReadHeight
    <3>3. CASE ReadHash
      BY <2>t, <3>3 DEF ReadHash
    <3>4. CASE ReadBlocks
      BY <2>t, <3>4 DEF ReadBlocks
    <3>5. CASE HashGate \/ ReadHeaders \/ HealthGate \/ HealthHeight
      BY <3>5 DEF HashGate, ReadHeaders, HealthGate, HealthHeight, QueriesOverWholeBlocks, ReadersTypeOK
    <3> QED BY <3>1, <3>2, <3>3, <3>4, <3>5 DEF InfoQuery, HealthQuery
  <2>6. at' \in Steps /\ query' \in Queries \union {"none"}
    BY DEF InfoQuery, HealthQuery, BeginInfo, ReadHeight, HashGate, ReadHash, ReadBlocks,
           ReadHeaders, BeginHealth, HealthGate, HealthHeight, Answer, Steps,
           QueriesOverWholeBlocks, ReadersTypeOK
  <2>7. UNCHANGED reply =>
          \/ reply' \in Replies
          \/ reply'.kind = "outputs"
             /\ reply'.outputs \subseteq TxID \X (Nat \ {0}) \X (SUBSET Addr) \X Nat
    BY DEF QueriesOverWholeBlocks, ReadersTypeOK
  <2> QED BY <1>1, <2>4, <2>5, <2>6, <2>7 DEF QueriesOverWholeBlocks, ReadersTypeOK
<1>5. AnswerBetweenBlocks'
  <2>1. UNCHANGED reply \/ reply'.kind /= "outputs"
    BY DEF InfoQuery, HealthQuery, BeginInfo, ReadHeight, HashGate, ReadHash, ReadBlocks,
           ReadHeaders, BeginHealth, HealthGate, HealthHeight, Answer, Failed, NoReply,
           Info, Health
  <2> QED BY <1>1, <2>1 DEF QueriesOverWholeBlocks, AnswerBetweenBlocks
<1>t. got = [ids |-> got.ids, height |-> got.height, hash |-> got.hash, blocks |-> got.blocks]
  BY DEF QueriesOverWholeBlocks, ReadersTypeOK
<1>6. QueryInProgress'
  <2>1. CASE BeginInfo \/ BeginHealth
    BY <1>1, <2>1 DEF BeginInfo, BeginHealth, Answer, QueryInProgress, Serving
  <2>2. CASE ReadHeight
    <3>1. got'.height = db.height
      BY <1>t, <2>2 DEF ReadHeight
    <3> QED BY <1>1, <1>3, <2>2, <3>1 DEF ReadHeight, QueriesOverWholeBlocks, QueryInProgress, Serving
  <2>3. CASE HashGate
    BY <1>1, <2>3 DEF HashGate, Answer, QueriesOverWholeBlocks, QueryInProgress, Serving
  <2>4. CASE ReadHash
    <3>1. CASE db.hash = NoHash
      BY <1>1, <2>4, <3>1 DEF ReadHash, Answer, QueriesOverWholeBlocks, QueryInProgress, Serving
    <3>2. CASE db.hash /= NoHash
      <4>1. got'.hash = db.hash /\ got'.height = got.height /\ got.height <= db.height
        BY <1>t, <2>4, <3>2 DEF ReadHash, QueriesOverWholeBlocks, QueryInProgress
      <4>2. PICK g \in db.height..node.blocks : db.hash = Chain[g].hash
        BY <2>4, <3>2 DEF ReadHash, QueriesOverWholeBlocks, QueryInProgress, HashAhead
      <4>3. g \in got.height..node.blocks
        BY <1>3, <4>1, <4>2, ReadTypes DEF QueriesOverWholeBlocks, ReadersTypeOK, NodeAnswer
      <4> QED
        BY <1>1, <2>4, <3>2, <4>1, <4>2, <4>3
        DEF ReadHash, QueriesOverWholeBlocks, QueryInProgress, Serving
    <3> QED BY <3>1, <3>2
  <2>5. CASE ReadBlocks
    <3>1. got'.blocks = info.blocks /\ got'.height = got.height /\ got'.hash = got.hash
      BY <1>t, <2>5 DEF ReadBlocks
    <3> QED BY <1>1, <1>3, <2>5, <3>1 DEF ReadBlocks, QueriesOverWholeBlocks, QueryInProgress, Serving
  <2>6. CASE ReadHeaders
    BY <1>1, <2>6 DEF ReadHeaders, Answer, QueriesOverWholeBlocks, QueryInProgress, Serving
  <2>7. CASE HealthGate \/ HealthHeight
    BY <1>1, <2>7 DEF HealthGate, HealthHeight, Answer, QueriesOverWholeBlocks, QueryInProgress, Serving
  <2> QED BY <2>1, <2>2, <2>3, <2>4, <2>5, <2>6, <2>7 DEF InfoQuery, HealthQuery
<1>7. HashNotOlderThanHeight'
  <2>1. CASE ReadHeaders
    <3>1. \E g \in got.height..node.blocks : got.hash = Chain[g].hash
      BY <2>1 DEF ReadHeaders, QueriesOverWholeBlocks, QueryInProgress
    <3>2. reply'.height = got.height /\ reply'.hash = got.hash
      BY <2>1 DEF ReadHeaders, Answer, Info
    <3> QED BY <1>1, <3>1, <3>2 DEF HashNotOlderThanHeight
  <2>2. CASE ~ReadHeaders
    <3>1. UNCHANGED reply \/ reply'.kind /= "info"
      BY <2>2
      DEF InfoQuery, HealthQuery, BeginInfo, ReadHeight, HashGate, ReadHash, ReadBlocks,
          BeginHealth, HealthGate, HealthHeight, Answer, Failed, NoReply, Health
    <3> QED BY <1>1, <3>1 DEF QueriesOverWholeBlocks, HashNotOlderThanHeight
  <2> QED BY <2>1, <2>2
<1> QED BY <1>2, <1>4, <1>5, <1>6, <1>7 DEF QueriesOverWholeBlocks

-----------------------------------------------------------------------------
(* Commits that a cancellation cuts short. *)

\* Nothing refers to a new transaction before all transactions are written.
LEMMA ReferencesComeLater ==
  ASSUME NEW c, NEW S \in Queues(c), NEW a \in Addr, <<"ref", a>> \in S
  PROVE  TxCmds(c) \subseteq S
<1>1. PICK i \in DOMAIN Groups(c) : \E part \in SUBSET Groups(c)[i] :
        S = (UNION {Groups(c)[j] : j \in 1..(i - 1)}) \union part
  BY DEF Queues
<1>2. /\ DOMAIN Groups(c) = 1..5
      /\ Groups(c)[1] = {HashCmd} /\ Groups(c)[2] = {HeightCmd}
      /\ Groups(c)[3] = TxCmds(c)
  BY DEF Groups
<1>3. \A j \in 1..3 : <<"ref", a>> \notin Groups(c)[j]
  BY <1>2 DEF HashCmd, HeightCmd, TxCmds
<1> HIDE DEF Groups
<1>4. i > 3
  <2>1. ASSUME i <= 3 PROVE FALSE
    <3>1. i \in 1..3 /\ 1..(i - 1) \subseteq 1..3
      BY <1>2, <2>1
    <3> QED BY <1>1, <1>3, <3>1
  <2> QED BY <1>2, <2>1
<1>5. 3 \in 1..(i - 1)
  BY <1>2, <1>4
<1> QED BY <1>1, <1>2, <1>5

\* What a part of the commands of the next block can leave behind.
LEMMA CutShort ==
  ASSUME NEW b \in Db, SoundStore(b),
         NEW n, n = (IF b.hash = NoHash THEN 0 ELSE b.height + 1), n <= MaxHeight,
         NEW c, c = NewCheckpointFromNextBlock(b, n), NEW S \in Queues(c)
  PROVE  LET d == Apply(b, c, S)
         IN  \/ \E h \in Heights : Utxos(d) = UTXOSet(h)
             \/ /\ n = b.height + 1
                /\ \A u \in Utxos(d) : u[1] \notin BlockIds(n) => u \in UTXOSet(b.height)
                /\ \A a \in Addr : d.idx[a] \intersect BlockIds(n) = {}
<1> DEFINE d == Apply(b, c, S)
           e == Apply(b, c, AllCmds(c))
<1>1. /\ c \in Checkpoint /\ SoundStore(e) /\ e.height = n
      /\ S \subseteq AllCmds(c) /\ b.height \in Heights /\ n \in Heights
  <2>1. c \in Checkpoint /\ SoundStore(e) /\ e.height = n
    BY CommitLeadsBack
  <2>2. b.height \in Heights /\ n \in Heights
    BY ChainType DEF Db, Heights
  <2> QED BY <2>1, <2>2, QueuesAreCommands
<1>2. d \in Db /\ e \in Db
  BY <1>1, CommandsType
<1>3. \A t \in TxID : <<"tx", t>> \in S => c.newOuts[t] /= Absent
  BY <1>1, AllCmdsMembers
<1>4. \A t \in TxID : d.txs[t] = IF <<"tx", t>> \notin S THEN b.txs[t] ELSE stored(c.newOuts[t])
  BY DEF Apply, stored
<1>5. \A t \in TxID : e.txs[t] = IF c.newOuts[t] = Absent THEN b.txs[t] ELSE stored(c.newOuts[t])
  BY <1>1, CommittedFields
<1>6. Utxos(b) = UTXOSet(b.height) /\ Utxos(e) = UTXOSet(n)
  BY <1>1 DEF SoundStore, AtBlock
<1> HIDE DEF d, e
<1>7. CASE \E a \in Addr : <<"ref", a>> \in S
  <2>1. TxCmds(c) \subseteq S
    BY <1>7, ReferencesComeLater
  <2>2. \A t \in TxID : c.newOuts[t] /= Absent => <<"tx", t>> \in S
    BY <2>1 DEF TxCmds
  <2>3. \A t \in TxID : d.txs[t] = e.txs[t]
    BY <1>3, <1>4, <1>5, <2>2
  <2>4. Utxos(d) = Utxos(e)
    BY <1>2, <2>3, UtxosByTx
  <2> QED BY <1>1, <1>6, <2>4 DEF d
<1>8. CASE b.hash = NoHash
  <2>1. \A t \in TxID : c.newOuts[t] = Absent
    BY <1>8 DEF NewCheckpointFromNextBlock, NoTxs
  <2>2. \A t \in TxID : d.txs[t] = b.txs[t]
    BY <1>3, <1>4, <2>1
  <2>3. Utxos(d) = Utxos(b)
    BY <1>2, <2>2, UtxosByTx
  <2> QED BY <1>1, <1>6, <2>3 DEF d
<1>9. CASE b.hash /= NoHash /\ ~\E a \in Addr : <<"ref", a>> \in S
  <2>1. n = b.height + 1 /\ b.height < n
    BY <1>1, <1>9, ChainType DEF Heights
  <2>2. \A a \in Addr : d.idx[a] \intersect BlockIds(n) = {}
    <3> TAKE a \in Addr
    <3>1. d.idx[a] \subseteq b.idx[a]
      BY <1>9 DEF d, Apply
    <3>2. n \in (b.height + 1)..MaxHeight
      BY <1>1, <2>1, ChainType DEF Heights
    <3> QED BY <3>1, <3>2, <2>1 DEF SoundStore
  <2>3. ASSUME NEW u \in Utxos(d), u[1] \notin BlockIds(n) PROVE u \in UTXOSet(b.height)
    <3>1. PICK t \in TxID : u \in UtxosOf(t, d.txs[t])
      BY <1>2, <2>3, UtxosByTx
    <3>2. u[1] = t
      BY <3>1, UtxosOfId
    <3>3. CASE <<"tx", t>> \notin S
      <4>1. u \in Utxos(b)
        BY <1>4, <3>1, <3>3, UtxosByTx
      <4> QED BY <1>6, <4>1
    <3>4. CASE <<"tx", t>> \in S
      <4>1. c.newOuts[t] = withSpent(b.txs[t], t, n) /\ b.txs[t] \in Entry
        <5>1. c.newOuts[t] /= Absent
          BY <1>3, <3>4
        <5>2. c.before[t] /= Absent /\ c.newOuts[t] = withSpent(b.txs[t], t, n)
          BY <1>1, <1>9, <2>3, <3>2, <5>1, NextCheckpointFields
        <5>3. b.txs[t] = c.before[t]
          BY <1>1, <1>9, <5>2, NextCheckpointFields
        <5> QED BY <5>2, <5>3 DEF Db
      <4>2. u \in UtxosOf(t, stored(withSpent(b.txs[t], t, n)))
        BY <1>4, <3>1, <3>4, <4>1
      <4>3. u \in UtxosOf(t, b.txs[t])
        BY <1>1, <4>1, <4>2, UtxosOfSpent
      <4>4. u \in Utxos(b)
        BY <4>3, UtxosByTx
      <4> QED BY <1>6, <4>4
    <3> QED BY <3>3, <3>4
  <2> QED BY <2>1, <2>2, <2>3 DEF d
<1> QED BY <1>7, <1>8, <1>9

-----------------------------------------------------------------------------
(* Theorems. *)

\* A query leaves the store alone.
LEMMA QueriesLeaveTheStore ==
  ASSUME [ReadersNext]_allVars
  PROVE  [Next]_vars
<1>1. CASE StoreStep
  BY <1>1 DEF StoreStep
<1>2. CASE ~StoreStep
  BY <1>2
  DEF ReadersNext, NodeStep, InfoStep, AddressQuery, BeginOutputs, ReadIds, ReadTxs,
      InfoQuery, BeginInfo, ReadHeight, HashGate, ReadHash, ReadBlocks, ReadHeaders,
      HealthQuery, BeginHealth, HealthGate, HealthHeight, vars, allVars
<1> QED BY <1>1, <1>2

LEMMA StepKeepsReadersInvariant ==
  ASSUME WholeBlocks, QueriesOverWholeBlocks, [ReadersNext]_allVars, ~mistaken, ~mistaken'
  PROVE  QueriesOverWholeBlocks'
<1>1. CASE UNCHANGED allVars
  BY <1>1
  DEF allVars, QueriesOverWholeBlocks, ReadersTypeOK, BlocksKnown, HashAhead, Serving,
      QueryInProgress, AnswerBetweenBlocks, HashNotOlderThanHeight
<1> QED
  BY <1>1, StoreStepKeepsReaders, NodeKeepsReaders, AddressQueryKeepsReaders,
     InfoQueryKeepsReaders
  DEF ReadersNext

\* utxostore.go, seen by the queries: they leave the store alone, so what is
\* proved of it holds while they go on.
THEOREM StoreInvariantAmidQueries == ReadersSpec => []StoreInvariant
<1>1. ReadersInit => Init
  BY DEF ReadersInit
<1>2. [ReadersNext]_allVars => [Next]_vars
  BY QueriesLeaveTheStore
<1> QED BY <1>1, <1>2, InvariantHolds, PTL DEF ReadersSpec, Spec

\* What the queries carry from one read to the next is right, and every
\* variable has its type, for every chain, node, faults and failing reads, as
\* long as Do has not returned nil for a part of a block.
THEOREM ReadersInvariantHolds == ReadersSpec => []ReadersInvariant
<1>1. ReadersInit => ReadersInvariant
  BY ReadersInvariantInitially DEF ReadersInvariant
<1>2. StoreInvariant /\ ReadersInvariant /\ [ReadersNext]_allVars => ReadersInvariant'
  <2> SUFFICES ASSUME StoreInvariant, ReadersInvariant, [ReadersNext]_allVars, ~mistaken'
               PROVE  QueriesOverWholeBlocks'
    BY DEF ReadersInvariant
  <2>1. ~mistaken
    BY QueriesLeaveTheStore, MistakenForGood
  <2>2. WholeBlocks /\ QueriesOverWholeBlocks
    BY <2>1 DEF StoreInvariant, ReadersInvariant
  <2> QED BY <2>1, <2>2, StepKeepsReadersInvariant
<1> QED BY <1>1, <1>2, StoreInvariantAmidQueries, PTL DEF ReadersSpec

\* utxostore.go:401, the address query: its answer lies between the blocks at
\* which it read the index and the transactions.
THEOREM AnswersLieBetweenBlocks == ReadersSpec => []AnswerBetweenBlocks
<1>1. ReadersInvariant => AnswerBetweenBlocks
  BY DEF ReadersInvariant, QueriesOverWholeBlocks, AnswerBetweenBlocks
<1> QED BY <1>1, ReadersInvariantHolds, PTL

\* blockchain_handlers.go:52, GetInfo: the hash is of the block at the height it
\* answers or of a later one, also past a commit that was cut short and reported.
THEOREM HashIsNotOlder == ReadersSpec => [](~mistaken => HashNotOlderThanHeight)
<1>1. ReadersInvariant => (~mistaken => HashNotOlderThanHeight)
  BY DEF ReadersInvariant, QueriesOverWholeBlocks
<1> QED BY <1>1, ReadersInvariantHolds, PTL

\* The copy of the node's answer, and what GetInfo has read of it; this does not
\* depend on the store.
CopyInvariant ==
  /\ node \in NodeAnswer /\ info \in NodeAnswer
  /\ node.blocks <= node.headers /\ info.blocks <= info.headers
  /\ info.blocks <= node.blocks /\ info.headers <= node.headers
  /\ got = [ids |-> got.ids, height |-> got.height, hash |-> got.hash, blocks |-> got.blocks]
  /\ at = "headers" => got.blocks \in Heights /\ got.blocks <= info.blocks

\* The node and the copy go forward only.
LEMMA CopyGoesForward ==
  ASSUME CopyInvariant, NodeStep \/ InfoStep
  PROVE  CopyInvariant'
<1>1. /\ node.blocks \in Heights /\ node.headers \in Heights
      /\ info.blocks \in Heights /\ info.headers \in Heights
      /\ node = [blocks |-> node.blocks, headers |-> node.headers]
      /\ node.blocks <= node.headers /\ info.blocks <= info.headers
      /\ info.blocks <= node.blocks /\ info.headers <= node.headers
  BY DEF CopyInvariant, NodeAnswer
<1>2. MaxHeight \in Nat /\ Heights = 0..MaxHeight
  BY ChainType DEF Heights
<1>3. UNCHANGED <<at, got>>
  BY DEF NodeStep, InfoStep, readVars
<1>4. CASE InfoStep
  BY <1>1, <1>2, <1>3, <1>4 DEF InfoStep, CopyInvariant, NodeAnswer
<1>5. CASE NodeStep
  <2>1. info' = info
    BY <1>5 DEF NodeStep
  <2>2. CASE node' = [node EXCEPT !.headers = @ + 1] /\ node.headers < MaxHeight
    <3>1. node' = [blocks |-> node.blocks, headers |-> node.headers + 1]
      BY <1>1, <2>2
    <3> QED BY <1>1, <1>2, <1>3, <2>1, <2>2, <3>1 DEF CopyInvariant, NodeAnswer
  <2>3. CASE node' = [node EXCEPT !.blocks = @ + 1] /\ node.blocks < node.headers
    <3>1. node' = [blocks |-> node.blocks + 1, headers |-> node.headers]
      BY <1>1, <2>3
    <3> QED BY <1>1, <1>2, <1>3, <2>1, <2>3, <3>1 DEF CopyInvariant, NodeAnswer
  <2> QED BY <1>5, <2>2, <2>3 DEF NodeStep
<1> QED BY <1>4, <1>5

LEMMA CopyInvariantKept ==
  ASSUME CopyInvariant, [ReadersNext]_allVars
  PROVE  CopyInvariant'
<1>1. CASE NodeStep \/ InfoStep
  BY <1>1, CopyGoesForward
<1>2. CASE ~(NodeStep \/ InfoStep)
  <2>1. UNCHANGED <<node, info>>
    BY <1>2
    DEF ReadersNext, StoreStep, AddressQuery, BeginOutputs, ReadIds, ReadTxs, InfoQuery,
        BeginInfo, ReadHeight, HashGate, ReadHash, ReadBlocks, ReadHeaders, HealthQuery,
        BeginHealth, HealthGate, HealthHeight, allVars
  <2>2. (got = [ids |-> got.ids, height |-> got.height, hash |-> got.hash,
                blocks |-> got.blocks])'
    <3>1. \/ got' \in {got, NothingRead}
          \/ \E v : got' \in {[got EXCEPT !.ids = v], [got EXCEPT !.height = v],
                               [got EXCEPT !.hash = v], [got EXCEPT !.blocks = v]}
      BY <1>2
      DEF ReadersNext, StoreStep, AddressQuery, BeginOutputs, ReadIds, ReadTxs, InfoQuery,
          BeginInfo, ReadHeight, HashGate, ReadHash, ReadBlocks, ReadHeaders, HealthQuery,
          BeginHealth, HealthGate, HealthHeight, allVars, readVars
    <3> QED BY <3>1 DEF CopyInvariant, NothingRead
  <2>3. at' = "headers" => UNCHANGED <<at, got>> \/ ReadBlocks
    BY <1>2
    DEF ReadersNext, StoreStep, AddressQuery, BeginOutputs, ReadIds, ReadTxs, InfoQuery,
        BeginInfo, ReadHeight, HashGate, ReadHash, ReadHeaders, HealthQuery,
        BeginHealth, HealthGate, HealthHeight, Answer, allVars, readVars
  <2>4. ReadBlocks => got'.blocks = info.blocks
    BY DEF ReadBlocks, CopyInvariant
  <2>5. info.blocks \in Heights /\ info.blocks <= info.blocks
    BY ChainType DEF CopyInvariant, NodeAnswer, Heights
  <2> QED BY <2>1, <2>2, <2>3, <2>4, <2>5 DEF CopyInvariant
<1> QED BY <1>1, <1>2

\* blockchain_handlers.go, GetInfo: "synced" holds of the last copy of the node's
\* answer it read, although it reads two of them.
THEOREM SyncedHoldsOfOneCopy == ReadersSpec => SyncedIsOfOneCopy
<1> DEFINE Step == (at = "headers" /\ at' = "replied" /\ reply'.synced) =>
                     info.blocks = reply'.height /\ info.headers = reply'.height
<1>1. ReadersInit => CopyInvariant
  BY QueriesType, ChainType DEF ReadersInit, CopyInvariant, NodeAnswer, NothingRead, Heights
<1>2. CopyInvariant /\ [ReadersNext]_allVars => CopyInvariant'
  BY CopyInvariantKept
<1>3. CopyInvariant /\ [ReadersNext]_allVars => [Step]_allVars
  <2> SUFFICES ASSUME CopyInvariant, ReadersNext,
                      at = "headers", at' = "replied", reply'.synced
               PROVE  info.blocks = reply'.height /\ info.headers = reply'.height
    OBVIOUS
  <2>1. ReadHeaders
    BY DEF ReadersNext, StoreStep, readVars, NodeStep, InfoStep, AddressQuery, BeginOutputs,
           ReadIds, ReadTxs, InfoQuery, BeginInfo, ReadHeight, HashGate, ReadHash,
           ReadBlocks, HealthQuery, BeginHealth, HealthGate, HealthHeight
  <2>2. /\ reply'.height = got.height
        /\ got.blocks = got.height /\ info.headers = got.blocks
    BY <2>1 DEF ReadHeaders, Answer, Info
  <2>3. got.blocks <= info.blocks /\ info.blocks <= info.headers
    BY DEF CopyInvariant
  <2>4. got.blocks \in Int /\ info.blocks \in Int /\ info.headers \in Int
    BY ChainType DEF CopyInvariant, NodeAnswer, Heights
  <2> QED BY <2>2, <2>3, <2>4
<1> QED BY <1>1, <1>2, <1>3, PTL DEF ReadersSpec, SyncedIsOfOneCopy

-----------------------------------------------------------------------------
(* Answers are of one block. *)

LEMMA StoreStepKeepsUnmixed ==
  ASSUME WholeBlocks, QueriesOverWholeBlocks, UnmixedInvariant, StoreStep,
         ~mistaken, ~mistaken'
  PROVE  UnmixedInvariant'
<1>0. Next /\ UNCHANGED addr /\ ~ExecCutUnnoticed
  BY DEF StoreStep, readVars, ExecCutUnnoticed
<1>1. CASE pc' = "down"
  BY <1>1 DEF StoreStep, UnmixedInvariant, IdsNotAhead, NoMixtureReferred, Serving,
              AnswerNeverMixesBlocks, NoReply
<1>2. CASE pc' /= "down"
  <2>1. UNCHANGED <<query, at, got, reply>>
    BY <1>2 DEF StoreStep, readVars
  <2>2. AnswerNeverMixesBlocks'
    BY <1>0, <2>1 DEF UnmixedInvariant, AnswerNeverMixesBlocks
  <2>3. db \in Db /\ db.height \in Heights /\ MaxHeight \in Nat /\ Heights = 0..MaxHeight
    BY ChainType DEF WholeBlocks, TypeOK, Db, Heights
  <2>4. IdsNotAhead'
    <3> SUFFICES ASSUME at = "mget", isConsist', NEW h \in (db'.height + 1)..MaxHeight
                 PROVE  got.ids \intersect BlockIds(h) = {}
      BY <2>1 DEF IdsNotAhead
    <3>1. Serving
      BY DEF QueriesOverWholeBlocks, QueryInProgress
    <3>2. isConsist /\ db'.height \in db.height..node.blocks
      BY <1>0, <1>2, <3>1, ServedStoreAdvances DEF QueriesOverWholeBlocks
    <3>3. h \in (db.height + 1)..MaxHeight
      BY <2>3, <3>2
    <3> QED BY <3>2, <3>3 DEF UnmixedInvariant, IdsNotAhead
  <2>5. NoMixtureReferred'
    <3>1. CASE ~Serving'
      BY <3>1 DEF NoMixtureReferred
    <3>2. CASE ScannerStart
      <4>1. SoundStore(db) /\ db' = db
        BY <3>2 DEF ScannerStart, WholeBlocks
      <4>2. Utxos(db') \subseteq UTXOSet(db.height)
        BY <4>1 DEF SoundStore, AtBlock
      <4> QED BY <2>3, <4>2 DEF NoMixtureReferred
    <3>3. CASE Exec \/ ExecReplyLost \/ ExecCancelled
      <4>1. /\ pc = "executing" /\ isConsist /\ SoundStore(db)
            /\ next = (IF db.hash = NoHash THEN 0 ELSE db.height + 1) /\ next <= MaxHeight
            /\ cp = NewCheckpointFromNextBlock(db, next)
        BY <3>3 DEF Exec, ExecReplyLost, ExecCancelled, WholeBlocks, CommitInProgress
      <4>2. CASE db' = Apply(db, cp, AllCmds(cp))
        <5>1. SoundStore(db') /\ db'.height = next /\ next \in Heights
          BY <2>3, <4>1, <4>2, CommitLeadsBack
        <5>2. Utxos(db') \subseteq UTXOSet(next)
          BY <5>1 DEF SoundStore, AtBlock
        <5> QED BY <5>1, <5>2 DEF NoMixtureReferred
      <4>3. CASE ExecCancelled
        <5>1. PICK S \in Queues(cp) : db' = Apply(db, cp, S)
          BY <4>3 DEF ExecCancelled
        <5>2. ~isConsist'
          BY <4>3 DEF ExecCancelled
        <5>3. \/ \E h \in Heights : Utxos(db') = UTXOSet(h)
              \/ /\ next = db.height + 1
                 /\ \A u \in Utxos(db') : u[1] \notin BlockIds(next) => u \in UTXOSet(db.height)
                 /\ \A a \in Addr : db'.idx[a] \intersect BlockIds(next) = {}
          <6> DEFINE d == Apply(db, cp, S)
          <6>1. \/ \E h \in Heights : Utxos(d) = UTXOSet(h)
                \/ /\ next = db.height + 1
                   /\ \A u \in Utxos(d) : u[1] \notin BlockIds(next) => u \in UTXOSet(db.height)
                   /\ \A a \in Addr : d.idx[a] \intersect BlockIds(next) = {}
            BY <2>3, <4>1, CutShort, ZenonT(40)
          <6> HIDE DEF d
          <6>2. db' = d
            BY <5>1 DEF d
          <6> QED BY <6>1, <6>2
        <5>4. ASSUME next = db.height + 1, at = "mget"
              PROVE  got.ids \intersect BlockIds(next) = {}
          <6>1. next \in (db.height + 1)..MaxHeight
            BY <2>3, <4>1, <5>4
          <6> QED BY <4>1, <5>4, <6>1 DEF UnmixedInvariant, IdsNotAhead
        <5>5. next = db.height + 1 => db.height \in 0..(MaxHeight - 1)
          BY <2>3, <4>1
        <5> QED BY <2>1, <5>2, <5>3, <5>4, <5>5 DEF NoMixtureReferred
      <4> QED BY <3>3, <4>2, <4>3 DEF Exec, ExecReplyLost
    <3>4. CASE Serving' /\ ~ScannerStart /\ ~(Exec \/ ExecReplyLost \/ ExecCancelled)
      <4>1. Serving /\ UNCHANGED db /\ (isConsist' => isConsist)
        BY <1>0, <3>4
        DEF Next, Startup, Handler, Faults, NewWithoutCheckpoint, NewConsistent, NewTorn,
            NewCheckFails, RollbackBegin, RollbackStep, RollbackEnd, BootInconsistent,
            Exit, AlreadyStored, SaveBegin, SaveEnd, RemoveCheckpoint, NewRemoveFails,
            SaveFails, ExecRefused, RemoveCheckpointFails, afterRemoving, Crash, Serving
      <4> QED BY <2>1, <4>1 DEF UnmixedInvariant, NoMixtureReferred
    <3> QED BY <3>1, <3>2, <3>3, <3>4
  <2> QED BY <2>2, <2>4, <2>5 DEF UnmixedInvariant
<1> QED BY <1>1, <1>2

LEMMA AddressQueryKeepsUnmixed ==
  ASSUME WholeBlocks, QueriesOverWholeBlocks, UnmixedInvariant, AddressQuery, ~mistaken
  PROVE  UnmixedInvariant'
<1>1. UNCHANGED <<db, pc, isConsist>>
  BY DEF AddressQuery, BeginOutputs, ReadIds, ReadTxs, vars
<1>2. addr \in Addr /\ 0 \in Heights
  BY ChainType DEF QueriesOverWholeBlocks, ReadersTypeOK, Heights
<1>3. CASE BeginOutputs
  BY <1>1, <1>3
  DEF BeginOutputs, Answer, UnmixedInvariant, IdsNotAhead, NoMixtureReferred, Serving,
      AnswerNeverMixesBlocks, NoReply, Failed
<1>4. CASE ReadIds
  <2>0. reply = NoReply /\ Serving /\ addr' = addr
    BY <1>4 DEF ReadIds, QueriesOverWholeBlocks, QueryInProgress
  <2>1. reply' = NoReply \/ reply' = Failed \/ reply' = Outputs({})
    BY <1>4, <2>0 DEF ReadIds, Answer
  <2>2. AnswerNeverMixesBlocks'
    BY <1>2, <2>1 DEF AnswerNeverMixesBlocks, NoReply, Failed, Outputs
  <2>3. at' = "mget" => got'.ids = db.idx[addr]
    BY <1>4 DEF ReadIds, Answer, QueriesOverWholeBlocks, ReadersTypeOK
  <2>4. IdsNotAhead'
    BY <1>1, <1>2, <2>3 DEF IdsNotAhead, WholeBlocks, SoundStore
  <2>5. NoMixtureReferred'
    BY <1>1, <1>2, <2>0, <2>3 DEF UnmixedInvariant, NoMixtureReferred
  <2> QED BY <2>2, <2>4, <2>5 DEF UnmixedInvariant
<1>5. CASE ReadTxs
  <2>1. at = "mget" /\ at' = "replied" /\ Serving /\ UNCHANGED addr
    BY <1>5 DEF ReadTxs, Answer, QueriesOverWholeBlocks, QueryInProgress
  <2>2. reply' = Outputs({}) \/ reply' = Outputs({u \in Utxos(db) : u[1] \in got.ids /\ addr \in u[3]})
    BY <1>5 DEF ReadTxs, Answer
  <2>3. \E h \in Heights : {u \in Utxos(db) : u[1] \in got.ids /\ addr \in u[3]}
                             \subseteq Paying(UTXOSet(h), addr)
    <3>1. CASE \E h \in Heights : Utxos(db) \subseteq UTXOSet(h)
      BY <3>1 DEF Paying
    <3>2. CASE \E h \in 0..(MaxHeight - 1) :
                 /\ \A u \in Utxos(db) : u[1] \notin BlockIds(h + 1) => u \in UTXOSet(h)
                 /\ got.ids \intersect BlockIds(h + 1) = {}
      <4>1. PICK h \in 0..(MaxHeight - 1) :
                 /\ \A u \in Utxos(db) : u[1] \notin BlockIds(h + 1) => u \in UTXOSet(h)
                 /\ got.ids \intersect BlockIds(h + 1) = {}
        BY <3>2
      <4>2. h \in Heights
        BY ChainType DEF Heights
      <4> QED BY <4>1, <4>2 DEF Paying
    <3> QED BY <2>1, <3>1, <3>2 DEF UnmixedInvariant, NoMixtureReferred
  <2>4. AnswerNeverMixesBlocks'
    BY <1>2, <2>1, <2>2, <2>3 DEF AnswerNeverMixesBlocks, Outputs
  <2>5. IdsNotAhead' /\ NoMixtureReferred'
    BY <1>1, <2>1 DEF UnmixedInvariant, IdsNotAhead, NoMixtureReferred, Serving
  <2> QED BY <2>4, <2>5 DEF UnmixedInvariant
<1> QED BY <1>3, <1>4, <1>5 DEF AddressQuery

LEMMA OtherStepKeepsUnmixed ==
  ASSUME UnmixedInvariant, ~mistaken,
         NodeStep \/ InfoStep \/ InfoQuery \/ HealthQuery \/ UNCHANGED allVars
  PROVE  UnmixedInvariant'
<1>1. /\ UNCHANGED <<db, pc, isConsist, addr>>
      /\ UNCHANGED reply \/ reply'.kind /= "outputs"
      /\ at' = "mget" => UNCHANGED <<at, got>>
  BY DEF NodeStep, InfoStep, InfoQuery, HealthQuery, BeginInfo, ReadHeight, HashGate,
         ReadHash, ReadBlocks, ReadHeaders, BeginHealth, HealthGate, HealthHeight, Answer,
         Failed, NoReply, Info, Health, vars, readVars, allVars
<1> QED
  BY <1>1
  DEF UnmixedInvariant, IdsNotAhead, NoMixtureReferred, Serving, AnswerNeverMixesBlocks

\* utxostore.go:401 over a commit that a cancellation cuts short: while Do has
\* reported every such commit, no answer has an output together with the one it was
\* spent for, for every chain and every order in which the commands of a group are
\* queued.
THEOREM AnswersAreNotMixed == ReadersSpec => []AnswerNeverMixesBlocks
<1> DEFINE Unmixed == ~mistaken => UnmixedInvariant
<1>1. ReadersInit => Unmixed
  BY DEF ReadersInit, Init, UnmixedInvariant, IdsNotAhead, NoMixtureReferred, Serving,
         AnswerNeverMixesBlocks, NoReply
<1>2. StoreInvariant /\ ReadersInvariant /\ Unmixed /\ [ReadersNext]_allVars => Unmixed'
  <2> SUFFICES ASSUME StoreInvariant, ReadersInvariant, Unmixed, [ReadersNext]_allVars,
                      ~mistaken'
               PROVE  UnmixedInvariant'
    OBVIOUS
  <2>1. ~mistaken
    BY QueriesLeaveTheStore, MistakenForGood
  <2>2. WholeBlocks /\ QueriesOverWholeBlocks /\ UnmixedInvariant
    BY <2>1 DEF StoreInvariant, ReadersInvariant
  <2> HIDE DEF Unmixed
  <2> QED
    BY <2>1, <2>2, StoreStepKeepsUnmixed, AddressQueryKeepsUnmixed, OtherStepKeepsUnmixed
    DEF ReadersNext
<1>3. Unmixed => AnswerNeverMixesBlocks
  BY DEF UnmixedInvariant, AnswerNeverMixesBlocks
<1> HIDE DEF Unmixed
<1> QED
  BY <1>1, <1>2, <1>3, StoreInvariantAmidQueries, ReadersInvariantHolds, PTL
  DEF ReadersSpec
===============================================================================
