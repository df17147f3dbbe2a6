-------------------------------- MODULE Readers -------------------------------
(***************************************************************************)
(* The gRPC handlers over the store: address queries (GetBalance and        *)
(* GetUnspentOutputs), GetInfo and the health check.  A query looks at the  *)
(* gate isConsist and then sends one Redis command after the other, while   *)
(* the scanner goes on adding blocks and blockchaininfo replaces its copy   *)
(* of the node's answer.  Queries change nothing, so one at a time is       *)
(* enough to see what any of them can be answered.                          *)
(***************************************************************************)
EXTENDS UTXOStore

CONSTANTS
  Queries,    \* the queries asked, a subset of AllQueries
  ReadFaults, \* the reads that may fail, a subset of {"smembers", "mget"}
  NodeStart,  \* the number of blocks the node has at first
  NoHeight    \* "not read", or "read while the gate was shut"

AllQueries == {"outputs", "info", "health"}

ASSUME QueriesType ==
  /\ Queries \subseteq AllQueries
  /\ ReadFaults \subseteq {"smembers", "mget"}
  /\ NodeStart \in Heights
  /\ NoHeight \notin Int
  /\ \A d \in InitialStores : d.height <= NodeStart

VARIABLES
  node,    \* what the node would answer: its blocks and headers
  info,    \* BlockchainInfo.latestBlockchainInfo
  query,   \* the query in progress, or "none"
  addr,    \* the address asked for
  at,      \* what the handler does next
  got,     \* what it has read
  reply,   \* what it has answered
  idsAt,   \* history: the stored block when the address set was read
  txsAt    \* history: and when the transactions were

readVars == <<query, addr, at, got, reply, idsAt, txsAt>>
allVars  == <<db, file, pc, isConsist, cp, todo, next, faults, mistaken, node, info,
              query, addr, at, got, reply, idsAt, txsAt>>

Steps == {"idle", "smembers", "mget", "height", "hashgate", "hash", "blocks",
          "headers", "healthgate", "healthheight", "replied"}

NothingRead == [ids |-> {}, height |-> 0, hash |-> NoHash, blocks |-> 0]

NoReply     == [kind |-> "none"]
Failed      == [kind |-> "error"]
Outputs(S)  == [kind |-> "outputs", outputs |-> S]
Info(h, hash, synced) ==
  [kind |-> "info", height |-> h, hash |-> hash, synced |-> synced]
Health(serving) == [kind |-> "health", serving |-> serving]

\* The servers are up between the start and the end of the process.
Serving == pc \in {"ready", "saving", "executing", "removing", "closing", "stopping"}

\* The stored block, for a read made while the gate is open.
StoredBlock == IF isConsist THEN db.height ELSE NoHeight

ReadersInit ==
  /\ Init
  /\ node = [blocks |-> NodeStart, headers |-> NodeStart]
  /\ info = node
  /\ query = "none"
  /\ addr \in Addr
  /\ at = "idle"
  /\ got = NothingRead
  /\ reply = NoReply
  /\ idsAt = NoHeight
  /\ txsAt = NoHeight

-----------------------------------------------------------------------------
(* The rest of the system. *)

\* A step of the indexer.  The iterator gets no block that the node does not
\* have; the queries die with the process.
StoreStep ==
  /\ Next
  /\ pc' = "saving" /\ pc /= "saving" => next <= node.blocks
  /\ IF pc' = "down"
     THEN /\ query' = "none" /\ at' = "idle" /\ got' = NothingRead
          /\ reply' = NoReply /\ idsAt' = NoHeight /\ txsAt' = NoHeight
          /\ UNCHANGED addr
     ELSE UNCHANGED readVars
  /\ UNCHANGED <<node, info>>

\* The node hears of a block before it has it, and never goes back.
NodeStep ==
  /\ \/ /\ node.headers < MaxHeight
        /\ node' = [node EXCEPT !.headers = @ + 1]
     \/ /\ node.blocks < node.headers
        /\ node' = [node EXCEPT !.blocks = @ + 1]
  /\ UNCHANGED <<vars, info, readVars>>

\* runSyncing replaces the copy by what the node answers.
InfoStep ==
  /\ info /= node
  /\ info' = node
  /\ UNCHANGED <<vars, node, readVars>>

-----------------------------------------------------------------------------
(* The queries. *)

Answer(r) ==
  /\ reply' = r
  /\ at' = "replied"

\* GetUnspentOutputsByAddress, called for GetBalance and GetUnspentOutputs.
BeginOutputs ==
  /\ "outputs" \in Queries
  /\ Serving
  /\ at \in {"idle", "replied"}
  /\ query' = "outputs"
  /\ \E a \in Addr : addr' = a
  /\ got' = NothingRead
  /\ idsAt' = NoHeight
  /\ txsAt' = NoHeight
  /\ IF isConsist THEN at' = "smembers" /\ reply' = NoReply
                  ELSE Answer(Failed)
  /\ UNCHANGED <<vars, node, info>>

\* (mutant: one page of the address set instead of all of it)
ReadIdsFirstPage ==
  /\ at = "smembers"
  /\ \E page \in SUBSET db.idx[addr] : got' = [got EXCEPT !.ids = page]
  /\ idsAt' = StoredBlock
  /\ at' = "mget"
  /\ UNCHANGED <<vars, node, info, query, addr, reply, txsAt>>

\* SMEMBERS of the address set.  Without transactions there is no second read.
ReadIds ==
  /\ at = "smembers"
  /\ \/ /\ "smembers" \in ReadFaults
        /\ Answer(Failed)
        /\ UNCHANGED <<got, idsAt, txsAt>>
     \/ /\ got' = [got EXCEPT !.ids = db.idx[addr]]
        /\ idsAt' = StoredBlock
        /\ IF db.idx[addr] = {}
           THEN Answer(Outputs({})) /\ txsAt' = StoredBlock
           ELSE at' = "mget" /\ UNCHANGED <<reply, txsAt>>
  /\ UNCHANGED <<vars, node, info, query, addr>>

\* (mutant: outputs that do not pay the address are not filtered out)
ReadTxsUnfiltered ==
  /\ at = "mget"
  /\ Answer(Outputs({u \in Utxos(db) : u[1] \in got.ids}))
  /\ txsAt' = StoredBlock
  /\ UNCHANGED <<vars, node, info, query, addr, got, idsAt>>

\* MGET of the transactions: one that is gone by now has no outputs.  MulGet
\* takes the values of a failed MGET, which are none, and reports no error.
ReadTxs ==
  /\ at = "mget"
  /\ \/ /\ "mget" \in ReadFaults
        /\ Answer(Outputs({}))
        /\ UNCHANGED txsAt
     \/ /\ Answer(Outputs({u \in Utxos(db) : u[1] \in got.ids /\ addr \in u[3]}))
        /\ txsAt' = StoredBlock
  /\ UNCHANGED <<vars, node, info, query, addr, got, idsAt>>

\* GetInfo: the gate and the height, the gate and the hash, then the two
\* counts from the copy of the node's answer.
BeginInfo ==
  /\ "info" \in Queries
  /\ Serving
  /\ at \in {"idle", "replied"}
  /\ query' = "info"
  /\ got' = NothingRead
  /\ IF isConsist THEN at' = "height" /\ reply' = NoReply
                  ELSE Answer(Failed)
  /\ UNCHANGED <<vars, node, info, addr, idsAt, txsAt>>

\* (mutant: the height of the block being committed)
ReadHeightOfCommit ==
  /\ at = "height"
  /\ got' = [got EXCEPT !.height = IF cp = NoFile THEN db.height ELSE cp.newHeight]
  /\ at' = "hashgate"
  /\ UNCHANGED <<vars, node, info, query, addr, reply, idsAt, txsAt>>

ReadHeight ==
  /\ at = "height"
  /\ got' = [got EXCEPT !.height = db.height]
  /\ at' = "hashgate"
  /\ UNCHANGED <<vars, node, info, query, addr, reply, idsAt, txsAt>>

HashGate ==
  /\ at = "hashgate"
  /\ IF isConsist THEN at' = "hash" /\ UNCHANGED reply
                  ELSE Answer(Failed)
  /\ UNCHANGED <<vars, node, info, query, addr, got, idsAt, txsAt>>

\* ErrBlockHashNotFound before the first block.
ReadHash ==
  /\ at = "hash"
  /\ IF db.hash = NoHash
     THEN Answer(Failed) /\ UNCHANGED got
     ELSE /\ got' = [got EXCEPT !.hash = db.hash]
          /\ at' = "blocks"
          /\ UNCHANGED reply
  /\ UNCHANGED <<vars, node, info, query, addr, idsAt, txsAt>>

ReadBlocks ==
  /\ at = "blocks"
  /\ got' = [got EXCEPT !.blocks = info.blocks]
  /\ at' = IF query = "info" THEN "headers" ELSE "healthgate"
  /\ UNCHANGED <<vars, node, info, query, addr, reply, idsAt, txsAt>>

\* (mutant: the node's own progress is not asked about)
ReadHeadersIgnored ==
  /\ at = "headers"
  /\ Answer(Info(got.height, got.hash, got.blocks = got.height))
  /\ UNCHANGED <<vars, node, info, query, addr, got, idsAt, txsAt>>

ReadHeaders ==
  /\ at = "headers"
  /\ Answer(Info(got.height, got.hash,
                 got.blocks = got.height /\ info.headers = got.blocks))
  /\ UNCHANGED <<vars, node, info, query, addr, got, idsAt, txsAt>>

\* Check: the blocks of the copy, then the gate and the stored height.
BeginHealth ==
  /\ "health" \in Queries
  /\ Serving
  /\ at \in {"idle", "replied"}
  /\ query' = "health"
  /\ got' = NothingRead
  /\ at' = "blocks"
  /\ reply' = NoReply
  /\ UNCHANGED <<vars, node, info, addr, idsAt, txsAt>>

HealthGate ==
  /\ at = "healthgate"
  /\ IF isConsist THEN at' = "healthheight" /\ UNCHANGED reply
                  ELSE Answer(Health(FALSE))
  /\ UNCHANGED <<vars, node, info, query, addr, got, idsAt, txsAt>>

HealthHeight ==
  /\ at = "healthheight"
  /\ Answer(Health(got.blocks = db.height))
  /\ UNCHANGED <<vars, node, info, query, addr, got, idsAt, txsAt>>

-----------------------------------------------------------------------------
AddressQuery == BeginOutputs \/ ReadIds \/ ReadTxs
InfoQuery    == BeginInfo \/ ReadHeight \/ HashGate \/ ReadHash \/ ReadBlocks \/ ReadHeaders
HealthQuery  == BeginHealth \/ HealthGate \/ HealthHeight

ReadersNext == \/ StoreStep \/ NodeStep \/ InfoStep
               \/ AddressQuery \/ InfoQuery \/ HealthQuery

ReadersSpec == ReadersInit /\ [][ReadersNext]_allVars

-----------------------------------------------------------------------------
(* Properties. *)

NodeAnswer == [blocks : Heights, headers : Heights]

Replies ==
  {NoReply, Failed}
    \union [kind : {"info"}, height : Heights, hash : Hash, synced : BOOLEAN]
    \union [kind : {"health"}, serving : BOOLEAN]

ReadersTypeOK ==
  /\ node \in NodeAnswer
  /\ info \in NodeAnswer
  /\ query \in Queries \union {"none"}
  /\ addr \in Addr
  /\ at \in Steps
  /\ got \in [ids : SUBSET TxID, height : Heights,
              hash : Hash \union {NoHash}, blocks : Heights]
  /\ \/ reply \in Replies
     \/ reply.kind = "outputs" /\ reply.outputs \subseteq TxID \X (Nat \ {0}) \X (SUBSET Addr) \X Nat
  /\ idsAt \in Heights \union {NoHeight}
  /\ txsAt \in Heights \union {NoHeight}

\* The answer to an address query that read an open store, at one block or at
\* two: every output in it is unspent as of the later block and pays the
\* address, and only outputs that were spent or created in between are missing.
\* getUnspentOutputsByAddress gives no more than that, and no less.  (Once a part
\* of a block has been taken for the whole, an open store is one at no block.)
AnswerBetweenBlocks ==
  (reply.kind = "outputs" /\ idsAt /= NoHeight /\ txsAt /= NoHeight /\ ~mistaken) =>
    /\ idsAt <= txsAt
    /\ reply.outputs \subseteq Paying(UTXOSet(txsAt), addr)
    /\ Paying(UTXOSet(idsAt), addr) \intersect Paying(UTXOSet(txsAt), addr)
         \subseteq reply.outputs

\* An answer never has outputs of two blocks that no block has together, an
\* output and the one it was spent for: not even to a query that was past the
\* gate when a cancellation cut a commit short and Do returned an error.  That is
\* due to the order of the commands: an address refers to a new transaction only
\* after all the spent ones are written.
AnswerNeverMixesBlocks ==
  reply.kind = "outputs" /\ ~mistaken =>
    \E h \in Heights : reply.outputs \subseteq Paying(UTXOSet(h), addr)

\* GetInfo never pairs a height with the hash of an earlier block: it reads the
\* height first, and a commit in progress (or one cut short, which writes the
\* hash first) can only make the hash newer.
HashNotOlderThanHeight ==
  reply.kind = "info" =>
    \E g \in reply.height..node.blocks : reply.hash = Chain[g].hash

\* GetInfo reads the copy of the node's answer twice and the copy may be replaced
\* in between.  When it answers that the indexer is synced, that is true of the
\* copy it read last, blocks and headers, and of the height it answers.
SyncedIsOfOneCopy ==
  [][(at = "headers" /\ at' = "replied" /\ reply'.synced) =>
       info.blocks = reply'.height /\ info.headers = reply'.height]_allVars

\* The blocks in the store, in the checkpoints and in the copy of the node's
\* answer are blocks the node has.
BlocksKnown ==
  /\ node.blocks <= node.headers /\ info.blocks <= info.headers
  /\ info.blocks <= node.blocks /\ info.headers <= node.headers
  /\ db.height <= node.blocks
  /\ \A c \in {cp, file} \ {NoFile, Torn} :
       c.prevHeight <= node.blocks /\ c.newHeight <= node.blocks

\* The stored hash is never that of a block before the stored height, also when
\* a cancellation has cut a commit short.
HashAhead ==
  (Serving /\ db.hash /= NoHash) =>
    \E g \in db.height..node.blocks : db.hash = Chain[g].hash

\* What a query carries from one read to the next.
QueryInProgress ==
  /\ at /= "idle" => Serving /\ query /= "none"
  /\ at = "smembers" => reply = NoReply
  /\ at \in {"smembers", "mget"} => query = "outputs" /\ txsAt = NoHeight
  /\ at = "mget" /\ idsAt /= NoHeight =>
       /\ \A u \in Paying(UTXOSet(idsAt), addr) : u[1] \in got.ids
       /\ isConsist => idsAt <= db.height
  /\ at \in {"height", "hashgate", "hash", "headers"} => query = "info"
  /\ at \in {"hashgate", "hash"} => got.height <= db.height
  /\ at \in {"blocks", "headers"} /\ query = "info" =>
       \E g \in got.height..node.blocks : got.hash = Chain[g].hash
  /\ at = "headers" => got.blocks <= info.blocks

\* An answer of GetInfo is given by blocks the node has; all of it together is
\* inductive (with the invariant of the store).
QueriesOverWholeBlocks ==
  /\ ReadersTypeOK
  /\ BlocksKnown
  /\ HashAhead
  /\ QueryInProgress
  /\ AnswerBetweenBlocks
  /\ HashNotOlderThanHeight

ReadersInvariant == ~mistaken => QueriesOverWholeBlocks

\* A query reads no id of a block that is not stored yet.
IdsNotAhead ==
  (at = "mget" /\ isConsist) =>
    \A h \in (db.height + 1)..MaxHeight : got.ids \intersect BlockIds(h) = {}

\* A store with transactions of a block cut short keeps every other output of the
\* block before, and nothing refers to the new ones.
NoMixtureReferred ==
  Serving =>
    \/ \E h \in Heights : Utxos(db) \subseteq UTXOSet(h)
    \/ /\ ~isConsist
       /\ \E h \in 0..(MaxHeight - 1) :
            /\ \A u \in Utxos(db) : u[1] \notin BlockIds(h + 1) => u \in UTXOSet(h)
            /\ \A a \in Addr : db.idx[a] \intersect BlockIds(h + 1) = {}
            /\ at = "mget" => got.ids \intersect BlockIds(h + 1) = {}

\* Inductive with the invariants of the queries and of the store.
UnmixedInvariant == IdsNotAhead /\ NoMixtureReferred /\ AnswerNeverMixesBlocks
===============================================================================
