# A TLA+ verification of the UTXO indexer

The indexer keeps, in Redis, the unspent transaction outputs of a Bitcoin chain and an index of them by
address, and answers balance and output queries over gRPC. This directory holds its TLA+ specifications, the
TLC configurations that check them and the proofs of their main theorems. Paths below are relative to the
repository; `utxo/…`, `transactionmanager/…` and the like are under `internal/pkg/`.

## The system

| component | state | operations | what makes it correct |
|---|---|---|---|
| `utxo/utxostore` | block hash, block height, transactions, address sets in Redis; `isConsist` in memory | `New` (check and rollback), `CommitCheckpoint`, the getters, the batch setters | readers see the unspent outputs of exactly one block; a half-written store is always recoverable |
| `utxo/utxospending` | none | `NewCheckpointFromNextBlock` | the next block's outputs in, its inputs out, a reference removed only with its last output |
| `utxo/checkpointstore` | one file | save, read, remove | the file outlives the commit it guards, and decodes |
| `utxo/service` | none | `AddFromBlock` and query pass-throughs | one commit per block |
| `transactionmanager` | a pipeline goroutine per transaction | `Do`, commit, rollback on cancellation | all of the commands or none |
| `blockchainscanner` | the last block height | `Start` with a retry loop | each block handled, in order |
| `bitcoinblocksiterator`, `semaphore` | a header goroutine, a dispatcher, one goroutine per download, an ordering map, a bounded channel | `Iterate` | blocks come out once each in height order; bounded downloads; stops when told to |
| `chainstatemigration`, `migrationmanager` | a database version per run, the set of versions | `Migrate`, version bookkeeping | a complete migration, or one resumed or dropped |
| gRPC handlers | none | address, blockchain and health queries | an answer belongs to one block |
| `blockchaininfo` | a cached copy of the node's answer | timer | freshness only |
| `bitcoincore/*` | none | amount compression, variable-length integers, chainstate iteration | decoding what bitcoind wrote |

`main` (`cmd/utxo-indexer/main.go`) builds the store (which runs the recovery), migrates a chainstate if asked
to, starts the gRPC servers and then the scanner. The scanner takes blocks from the iterator's channel and
calls the store's `AddFromBlock`; the gRPC handlers read the store concurrently. The store talks to Redis
(transactions through `transactionmanager`) and to the checkpoint file.

### State and operations, part by part

**The store (`utxo/utxostore`, `utxo/utxospending`, `utxo/checkpointstore`, `transactionmanager`).** Redis holds,
under a database version: the hash and the height of the last block, one entry per transaction (its height and its
outputs, a spent one being nil) and one set of transaction ids per address. `CommitCheckpoint` adds a block in three
steps: the checkpoint (everything the block changes, before and after) is written to a file; one MULTI/EXEC changes
Redis; the file is removed. `New` compares Redis with the file if there is one, and when they differ takes the store
back with one Redis command after the other (`downCheckpoint`), then removes the file. `isConsist` is the gate of all
calls: true only after a clean `New`, false for good after a transaction that failed. The hard part is everything
that can happen between two of these steps: the process dies (in the commit, in the file write, in the rollback, in
the rollback of the rollback), Redis refuses the EXEC or its reply is lost, the context is cancelled while commands
are being queued, the file cannot be removed. Correct means: what a query sees is the unspent outputs of exactly one
block of the chain; a store part of the way through a block always has a checkpoint that leads back; no later block is
ever refused because something was lost. The code keeps this but for one case: a cancellation that meets the EXEC of
a block (`store_cancelled`).

**The scanner and the blocks iterator (`blockchainscanner/scanner`, `bitcoinblocksiterator`, `semaphore`).** One
goroutine sends block hashes to a bounded channel; a dispatcher takes a semaphore slot per hash and spawns a
download; a download that has its block takes a mutex, puts the block into a map and sends, to a second bounded
channel and with the mutex held, all the blocks that are due. The scanner's loop receives them and calls the handler
until it succeeds. The hard part is the interplay of mutex, slots, two channels and the context. Correct means: each
block once, in the order of the heights; nothing due is left behind; no deadlock; it stops when told to.

**The migration (`chainstatemigration`, `migrationmanager`).** Fills a new database version from bitcoind's
chainstate in batches, skips on a restart the batches it finds stored, writes the block keys last, and then adds the
version to a Redis set; older versions are deleted. Hard: a crash between two of these, and the order in which Redis
returns the set.

**The readers (gRPC handlers, `utxo/service`).** Queries of several Redis commands that run while a block is
committed: the address set and then the transactions; the height and then the hash.

**The transaction driver (`transactionmanager/drivers/redis`).** Two goroutines per transaction and a "closure" they
close on commit, rollback or cancellation.

**The node's client (`universalbitcioin/restclient`).** Four calls that share one habit: an answer of 200 that does
not decode is an empty value and no error. Whoever asks has to live with that.

**The formats (`bitcoincore/*`, `binaryutils`).** bitcoind's compressed amounts, scripts, coins and their keys,
written and read by three pieces of code (a writer, a reader of byte slices, a reader of streams), behind an
obfuscation, in the order of their keys. Correct means: what was written is read, nothing follows it into the next
coin.

**The other stores (`inmemorykvstore`, `leveldb`, `drivers/leveldb`).** Provided by `di` and not wired by `main`. The
in-memory store has a read-write lock that a listing gives back around each callback, and a goroutine that writes a
file; LevelDB has one transaction at a time, for which the calls of `Do` wait.

**`blockchaininfo`** keeps a copy of the node's answer that `GetInfo` reads twice. Configuration, logging, shutdown
and counters keep no state that the others depend on.

## The modules

| module | what it is | code |
|---|---|---|
| `Blocks` | the chain as the indexer reads it, the UTXO set of a height, the consensus rules assumed | `universalbitcioin/blockchain`, types of the store |
| `Spending` | `NewCheckpointFromNextBlock` and what it calls, as operators | `utxo/utxospending` |
| `UTXOStore` | the process over Redis and the checkpoint file: start, recovery, commit, retry, faults | `utxo/utxostore`, `utxo/checkpointstore`, `transactionmanager` as seen by the store, `cmd/utxo-indexer` |
| `BlockLedger` | abstract: a ledger that takes whole blocks in order and answers for every address | the promise of the store |
| `Readers` | the queries, read by read, over the `UTXOStore` that goes on underneath them | gRPC handlers, `utxo/service`, the getters of `utxo/utxostore`, `blockchaininfo` |
| `RedisTx` | one call of `Do` over Redis: three goroutines, two channels, a pipeline | `transactionmanager/txmanager`, `drivers/redis` |
| `LocalTx` | concurrent calls of `Do` over LevelDB | `transactionmanager/txmanager`, `drivers/leveldb` |
| `Transaction` | abstract: what a caller of `Do` is promised | the promise of both drivers |
| `Migration` | what `main` does before it serves: fill a version, make it known, delete the older ones | `chainstatemigration`, `migrationmanager`, `cmd/utxo-indexer`, the batch setters of `utxo/utxostore` |
| `Formats` | numbers, scripts and coins, with the `Amounts`, as they are written and as they are read | `bitcoincore/*`, `binaryutils`, `TransactionOutput` |
| `Chainstate` | a copy of bitcoind's database: obfuscation, iterator, questions | `bitcoincore/chainstate`, `cmd/chainstate-cli` |
| `BlocksIterator` | the goroutines of the iterator, both channels, the scanner's loop | `bitcoinblocksiterator`, `semaphore`, `blockchainscanner/scanner` |
| `BlockStream` | abstract: the blocks handled one after the other until the scanner stops | the promise of the scanner |
| `IteratorOverNode` | `BlocksIterator` with the client under it, and the node's answers | `universalbitcioin/restclient` |
| `InMemoryStore` | the in-memory key-value store, its lock, its listings and its file | `inmemorykvstore` |
| `Amounts` | the compressed form of an amount, and back | `compression.go`, `compress.go`, `TransactionOutput` |
| `UTXOStoreProofs`, `RedisTxProofs`, `LocalTxProofs`, `BlocksIteratorProofs`, `MigrationProofs`, `InMemoryStoreProofs`, `ChainstateProofs` | theorems about the module of that name; `UTXOStoreProofs` also those about `Readers`, `BlocksIteratorProofs` about `IteratorOverNode`, `ChainstateProofs` about `Formats` and `Amounts` | |
| `DataProofs` | theorems about what the store computes: `Spending` | |
| `SmallChain` | a chain for TLC | |
| `MC…` | instances for TLC | |

How they fit together:

- `Readers` EXTENDS `UTXOStore`: its steps are the store's and the queries', so a query runs through commits, faults
  and recoveries.
- `UTXOStore` takes one call of `Do` for a single step with the outcomes that `Transaction` allows and `RedisTx`
  implements: all of the commands or none; after a cancellation a beginning of them, with an error (`ExecCancelled`)
  or with nil (`ExecCutUnnoticed`).
- `UTXOStore` starts on a store that a complete migration has left (`InitiallySound`); `Migration` shows
  (`ServedStoreIsSound`) that the store it serves is one.
- `Migration` takes its transactions from the chain's UTXO set in the order of a chainstate; that the iterator
  delivers these, coin by coin and with a transaction's coins together, is `Chainstate` over `Formats`. `Migration`
  assumes that the walk is complete. The iterator does not tell it when it is not: see "Chainstate" under "Where the
  code does less".
- `BlocksIterator` shows that the handler accepts `Start`, `Start + 1`, ... one after the other (`BlockStream`), and
  `UTXOStore` counts its `next` up in the same way, from the stored block. What the handler does with a block,
  including its failures and retries, is `UTXOStore`.
- `IteratorOverNode` EXTENDS `BlocksIterator` and says where its calls of the node succeed and fail. `UTXOStore` is
  handed blocks of the chain; `NothingSentPastEmpty` says that it is, above height 0.

### How `UTXOStore` corresponds to the code

| variable | code |
|---|---|
| `db` | Redis: the block keys, `txs` (transaction keys), `idx` (address sets) |
| `file` | the checkpoint file: none, complete, or `Torn` (does not decode) |
| `isConsist`, `cp`, `todo` | `Store.isConsist`, the checkpoint in hand, the commands of a rollback still to send |
| `pc`, `next` | where the process is; the height the scanner hands over next |
| `mistaken` | history: `Do` has returned nil for a part of a block |

`New…`, `Rollback…` are `checkConsistencyAndTryToFix` and `downCheckpoint`, one action per Redis command;
`BootInconsistent` and `ScannerStart` are what `main` does with the store; `SaveBegin`, `SaveEnd`, `Exec`,
`RemoveCheckpoint` are `CommitCheckpoint`; the actions of `Faults` are its error paths, the cancellation of
`transaction.go` and the death of the process. A cancellation while the commands are queued has two outcomes. Either
`Commit` finds the transaction closed and executes the rest of the commands, which fails: `Do` returns an error, the
gate is shut, the file stays (`ExecCancelled`). Or `Commit` comes while the EXEC of the first commands is in flight,
or finds nothing to execute: `Do` returns nil for a part of the block or for none of it, the gate stays open and the
file is removed (`ExecCutUnnoticed`, then `closing`). MULTI/EXEC is one step, as Redis gives it; a rollback is not in
a transaction in the code and not one step here. Maps are ranged over in any order, so commands of one group come in
any order.

Data is abstracted to what the properties tell apart: a script is the set of addresses it pays, amounts are left out,
outputs are numbered from 1, a Go map is a total function with `Absent` (or the empty set) for a missing key.

### How `BlocksIterator` corresponds to the code

Each goroutine has a program counter (`headersPc`, `dispatchPc`, `downloads[h]`, `scannerPc`) and one action per step
that the others can see: a channel operation, the mutex, the semaphore, a look at the context, a call of the node or
the handler. A channel is a sequence with a capacity; it is closed when the goroutine that defers the close is done.
What a download does with the map it does under the mutex, so taking the mutex and storing the block are one step.
A call of the node or the handler may fail any number of times. A panic ends the process (`panicked`).

### How `Readers` corresponds to the code

A query is a chain of reads, `at` says which comes next, `got` what it has: `AskOutputs`, `ReadIds`, `ReadTxs` are
`getUnspentOutputsByAddress` behind its gate (SMEMBERS, then MGET, of which a failure is not reported); `GetInfo`
reads the height, passes the gate again, reads the hash, then the copy's blocks and its headers; the health check
reads the height. The getters look at `isConsist` once per call, so a query past the gate goes on although a commit
fails under it. Queries change nothing and one at a time is enough to see what any of them is answered. `idsAt` and
`txsAt` are history: the block that was stored when the address set and the transactions were read.

### How `RedisTx` corresponds to the code

`caller` is the goroutine in `Do` (the factory, the function, `Commit` or `Rollback`), `pipeline` the one inside
`client.Watch` and `TxPipelined`, `waiter` is `awaitDone`. `closure` and `closed` are the two channels with the cause
they were closed with. `Append` in Go reads a slice and writes one back, so queueing a command is two steps
(`AppendRead`, `AppendWrite`), as is go-redis taking the commands and clearing the pipeliner (`TakeCommands`,
`ClearCommands`): after a cancellation the two goroutines use the pipeliner at once.

### How `Migration` corresponds to the code

`dbs[v]` is Redis under database version `v`, `versions` the set that `migrationmanager` keeps. `Initialize`,
`SkipMigration` and `BeginMigration` are `runChainstateMigration` with its comparison of heights; `SkipBatch` and
`StoreBatch` the loop of `Migrate`, whose batches end where the next transaction begins; `SetBlockHash`,
`SetBlockHeight`, `UpdateVersion` its end, one Redis command each; `FlushKey` and `DeleteVersion` are
`deleteOldVersionsData`, one key at a time. `StoreBatchFails` (refused, or run without a reply) is retried for a full
batch and ends the process for the last one. `AddBlock` stands for the indexing of blocks between two migrations; the
store it leaves is `Committed`, which is all the commands of a checkpoint (`Spending`) and the same as what the `Exec`
of `UTXOStore` runs. A batch may have another size at every start: it is configuration. `TxsAt` and `VoutsAt` are the
order in which the chainstate's keys give the transactions and the outputs of each; the model asks of it only that
every transaction comes once and every output is there.

### How `Formats` and `Chainstate` correspond to the code

Byte strings are sequences over a byte of `2 * Base` values; `Base` is 128 in the code and a number of its own here,
since nothing in the formats depends on it but where a number gets longer. `Formats` has the writer
(`putCompressedTxOut`, `PutVLQ`), the reader of slices (`decodeCompressedTxOut`), the reader of streams
(`Deserialize`, with its step back over the type of a script that pays a public key) and the store's
`TransactionOutput`. The points of the curve are given as a set, and the exclusive or of two bytes as an operator of
which only what the format rests on is assumed (`XorCancels`). `Chainstate` opens a database (`NewDB`, with its
obfuscation key), walks through it (`NextDelivers` and what else `Next` may meet) and answers the questions of
`chainstate-cli`. LevelDB may fail at any read: a failed Get is an error (`GetFails`), a failed step of its iterator
looks like the end (`NoKeysMore` at any record, `GetOutputs` that stops anywhere).

### How `LocalTx` and `InMemoryStore` correspond to the code

`LocalTx` has one `pc` per caller of `Do`; `handle` is the `tx` of the driver's struct, which a commit sets to nil
even when it fails. `InMemoryStore` has Go's `RWMutex` as three variables, a waiting writer keeping new readers out; a
listing gives the lock back before each callback, and the map it ranges over may change or be replaced meanwhile
(`due` are the keys the range still has to produce, `fresh` those it may). `saved`, `touched` and `stopped` are
history. The file is truncated, filled in order of the map, or left `Torn`.

### How `IteratorOverNode` corresponds to the code

`callRest` gives a response, an error and a value, `Call` is what the four calls make of them. `AskForHash`,
`AskForBlock` and `Store` refine the steps of `BlocksIterator` that ask the node or use its answer: a block that has
come empty is stored under the height it says it has, which is 0 (`heightOf`).

A store without a block starts the scan at the genesis block (`di.go:246`), and then 0 is the height the iterator
waits for: an empty block, asked for as any of the first ones, is sent in its place. The handler stores it, since of
the first block only the hash and the height are used (`utxospending.go:72`): the store has an empty hash until block
1, and a process that starts in between takes the empty hash for none (`di.go:246`) and begins at the genesis block
again, which is height 0 and stored already. `UTXOStore` does not follow this, its blocks are the chain's;
`NothingSentPastEmpty` says that height 0 is the only one at which they may not be. The model has heights and no
contents, and so has `ImplementsStream`: it is about the order in which heights come out.

### Variants

Some definitions are followed or preceded by a variant marked `(mutant: …)`: the same operation with one plausible
mistake (a missing `Release`, a rollback that removes the file first). No specification uses them. `PROJECT.json` says
which property each one violates when it replaces the definition beside it, which shows that the property is not met
by accident.

## What is checked

| run | result | what it shows |
|---|---|---|
| `store_safety` | holds | any two faults of any kind, three initial stores. Until `Do` returns nil for a part of a block: the inductive invariants, readers see one block, a half-written store has its checkpoint, the next start can tell whether the checkpoint's block is stored, no block is refused, and the store implements `BlockLedger`. With that too: types, the first block is never rolled back, and all blocks get stored and served or the indexer is stuck in one of the ways `AllBlocksStored` names |
| `readers` | holds | queries of every kind amid a commit that is cut short, refused or interrupted by a crash, with failing reads: an answer is made of outputs that one block has together, misses only what was spent or created between its two reads, never pairs a height with an older hash, and says "synced" only of one copy of the node's answer |
| `tx_contract` | holds | one call of `Do` over Redis with a cancellation, a conflict, a lost EXEC or reply and a failing function at any point: it implements `Transaction`, and its goroutines end |
| `leveldb_tx` | holds | three concurrent calls over LevelDB, with failures at opening, in the function and in the commit: each implements `Transaction`, the store holds whole transactions only, every call returns |
| `migration_safety` | holds | three versions, two faults, a batch size that changes: what is served is one sound version, there is always a complete one to go back to, the served height never falls, what is counted as done is stored, and the indexer gets to serve |
| `chainstate_coins` | holds | chainstates of up to three coins, and of one with an empty, a long or a too long script, with read errors of LevelDB anywhere: the iterator delivers the coins from the first on, up to one that cannot be decoded or an error it takes for the end; the questions are answered with them; sizes, writer, both readers and the store's form agree, but where the two readers do not (below) |
| `iterator_order` | holds | the invariants of the iterator, the refinement of `BlockStream`, every block handled unless the context ends, and then the scanner's loop returns |
| `node_garbage` | holds | over a client that takes garbage for an empty block, in a scan from the genesis block: above height 0 it is never sent in the place of another, and the heights come out in order |
| `inmemory_store` | holds | locks and unlocks pair up as long as no callback stops its listing; a start finds nothing or the last complete save; the save at Close has everything |
| `store_cancelled` | violated | `transaction.go:82` says a cancelled transaction is rolled back; `Do` may return nil for a part of it, and the checkpoint is removed |
| `migration_moved` | violated | `migration.go:63` says a failed migration is recovered and continued; when the node has gone on in between, spent outputs stay in the part that is skipped |
| `iterator_panic` | violated | a cancellation closes the channel of blocks under a download that is about to send |

A violated run checks one statement of the repository's own (quoted in `PROJECT.json` under "findings") against what
the code does. The initial stores of `UTXOStore` include one with no block yet: `main` hands one over when the
chainstate is no further than the genesis block, because the migration is skipped then.

### Where the code does less than one may expect

Some behaviours are part of the models and seen in their runs, and are the reason why a property is stated no
stronger. They are listed here because the next reader will look for the stronger property.

- *Store, cancelled.* When the context ends during a commit, `Do` may return nil for a part of the block's commands
  (`RedisTx` and `Transaction` allow it, `ExecCutUnnoticed` is that step in the store). The process then removes the
  checkpoint, and nothing tells any later start that the store is half-written: readers see a part of a block, a block
  may be left out, and a later one may be refused for an output that is missing. `store_cancelled` finds such a store,
  and what the store and the queries promise is stated for the time before it (`~mistaken`). Types,
  `FirstBlockNeverRolledBack`, `HashNotOlderThanHeight` and `SyncedIsOfOneCopy` hold all the same in the runs.
- *Store, stuck.* A process that dies while the checkpoint is written leaves a file no start can read (`Torn`; `New`
  fails from then on). Dying between the checkpoint of the very first block and its EXEC makes every later start fail
  (`StartDecides` has that exception). A store that `New` has just rolled back refuses every call until the next
  start; one failed EXEC does the same for the rest of the process, and the scanner goes on retrying against the shut
  gate. `AllBlocksStored` names these ways, and says that there is no other.
- *Queries.* A block between the two reads of an address query can take a spent output out of the answer without its
  change coming in; a failed MGET is an empty answer, which no property tells from a right one; `GetInfo` can pair a
  height with the next block's hash; the comparison with the node may be with an old copy.
- *Redis transaction.* After a cancellation `Do` may return nil though a part or nothing was run, and `Rollback` may
  return nil though a part was. `Transaction` therefore promises nothing about nil once the context is cancelled.
- *Chainstate.* `UTXOIterator.Next` reports the end of the data whenever LevelDB's iterator stops and never asks it
  why (`iterator.go:28`): after a read error a migration takes the first coins for the whole chainstate, sets its hash
  and height and serves it; `GetOutputs` may lack outputs, and a count may be short. `DeliversTheCoins` says what has
  been delivered then, and that is all it can say. A coin with an empty script, or with one of more than
  `MAX_SCRIPT_SIZE` bytes, ends the iteration, and with it the migration; a database without an obfuscation key
  panics.
- *Formats.* The reader of streams refuses a script of more than `MAX_SCRIPT_SIZE` bytes, and an empty one that
  nothing follows; the reader of slices takes both. `decodeCompressedTxOut` (which nothing calls) says that it ensures
  there are enough bytes for the script (`compression.go:576`); a slice that ends after the byte 0x85, with which the
  sizes of scripts of 762 to 889 bytes begin, is an output with an empty script to it. `FormatsAgree` says which coins
  the two readers disagree on and when a cut is noticed, and the run has a coin of every one of these kinds.
- *LevelDB.* A commit that fails is followed by a Rollback on a forgotten transaction: a nil dereference.
- *In-memory store.* A callback that stops its listing makes the deferred unlock fatal (`Exclusion` says "as long as
  none does"); a listing goes on over the map that `Flush` has replaced; `Close` does not wait for the last save. Its
  transactions roll nothing back. A save that is cut short has lost every earlier one, or leaves a file that no start
  decodes; `RecoveredIsSaved` says only that no start goes on with a part of a save.
- *Iterator.* After a cancellation a download may wait forever for room in the channel. A garbage answer for a hash or
  a block stalls the scan at its height (or, at height 0, goes on without the genesis block), which is why liveness is
  checked without the client. An undecoded answer to the very first `GetBlockHeader` (`iterator.go:56`) is not
  modelled: the scan would start at height 0 over a store that is further, whose handler refuses that block for ever.

### Bounds, and why they are enough

- `SmallChain` has five blocks and eight transactions, chosen for their shapes: an address paid twice by one
  transaction, an output that nobody can spend, an output paying two addresses and one paying none, transactions spent
  in part, in full and over several blocks, an output spent in its own block. With these every branch of the spending
  code is taken. `MCUTXOStore`, `MCReaders` and `MCMigration` share it.
- `MaxFaults = 2` gives a fault in the recovery from a fault: a crash in the rollback after a crash in the commit, a
  lost reply and then a crash, a batch refused after a crash in another. Nothing in the recovery counts faults; the
  proofs about the store have no such bound. `store_cancelled` needs one fault. `readers` has one, in two stores:
  with two (ten million states) the same properties were found to hold, and the theorems have no bound.
- `InitialStores`: before any block, and after migrations at heights 1 and 2 (with and without partly spent entries).
- `Readers`: the node is at block 2 at first and goes on to the last, so that its copy can be behind, equal, and
  replaced between two reads; every address and every kind of query.
- `RedisTx`: four commands have a first, a last and two in between; more add nothing to what an `append` can lose, and
  the theorems have no bound.
- `Migration`: three versions allow two migrations one after the other, with the deletion of the first in between;
  batches of two and of one make a resumed migration stop in the middle of an earlier batch. Output 2 comes before
  output 1, as 16512 comes before 128 in the byte order of the keys.
- `Chainstate`: bytes of eight values and a high bit; the numbers lie at both ends of the lengths they take (7, 8, 71
  and 72 stand for 127, 128, 16511 and 16512), so do the compressed amounts; up to three coins of every form give a
  coin one before and one after it. `MaxScript` is 60: the pool has a script of 42 bytes, whose size takes two bytes
  of which the first reads as a size by itself, and one of 61, which is refused. Four values of the obfuscation key,
  one missing, one shorter than a value. The theorems hold for every base, every length and every chainstate.
- `LocalTx`: three callers, so that one waits while another fails; functions of two commands can be cut in the middle.
- `InMemoryStore`: one caller lists, reads and deletes, in and out of its callbacks, the other sets and flushes, the
  saver is the third; two keys, so that one is left when the other goes.
- `BlocksIterator`: four blocks with two slots and a header buffer of one fill the slots and the dispatcher's hand
  with one block in the scanner's; the downloads of two overtake one another and a slow third holds back the map.
  Larger instances (seven blocks) were run while the model was written and add no behaviour; the theorems hold for
  every number of blocks, slots and places. `Tip` is where the node has no further block: the headers' goroutine asks
  again and again.
- Counters bounded in the guards: `faults` by `MaxFaults`, `currentBlockHeight` by `Tip`, `next` by `MaxHeight + 1`,
  the version by `MaxVersion`, the node by `MaxHeight`.

### Fairness

- `UTXOStore`: weak fairness of `Startup` (a supervisor starts the process again; the process goes on with its start)
  and of `Handler` (the scanner's goroutine goes on). No fault is ever bound to happen, and `AllBlocksStored` allows
  for every way in which a fault leaves the indexer stuck: a checkpoint that does not decode; the checkpoint of the
  first block over a store without a hash; a gate shut for the rest of the process by a transaction that failed; a
  part of a block taken for the whole.
- `Migration`: weak fairness of `Migrate`, the same for the time before it serves. A batch that Redis refuses is
  tried again by the code; faults are bounded, so it is not refused for ever.
- `RedisTx`: weak fairness of each of the three goroutines. Redis answers, with success or an error.
- `LocalTx`: weak fairness of each call's next step, failures aside: nothing is bound to fail. A call that waits for
  LevelDB's transaction gets it, because the calls before it take it once each.
- `BlocksIterator`: weak fairness of every goroutine, as the Go scheduler gives it, and strong fairness of the
  successful call of the node and of the handler: asked again and again, they answer in the end. Of the handler that
  is an assumption of this component alone: the store refuses every call after one failed EXEC, until the process is
  started again, and what becomes of the blocks then is `AllBlocksStored` of `UTXOStore`. Go's mutex does not starve a
  waiter; with finitely many downloads weak fairness is enough for that here.

Deadlock is not checked: every one of these systems really stops somewhere (the store at the end of the chain, or
inside a process that has lost its consistency; the iterator after a cancellation or at the tip; a transaction when
`Do` has returned; a chainstate when it has been read; the in-memory store with a file that does not decode). That
nobody waits on everybody before that is what the liveness properties say: `AllBlocksHandled`, `ScannerStops`,
`GoroutinesEnd`, `EveryDoReturns`, `GetsToServe`, `AllBlocksStored`.

## What is proved

All theorems hold for every value of the constants that satisfies the named assumptions: `ChainType` and `ValidChain`
(`Blocks`: types, and what Bitcoin's consensus rules give: unique hashes and transaction ids, inputs that spend
earlier spendable outputs, nothing spent twice), `FaultType` and `InitiallySound` (`UTXOStore`: the store is started
on one that a complete migration has left, or an empty one), `QueriesType` (`Readers`: the node is no further back
than the store), `IteratorConstants` (`BlocksIterator`: at least one slot and one place in the buffer),
`NodeConstants` (`IteratorOverNode`: an empty value is not a height), `TxConstants` and `LocalTxConstants` (at least
one command), `MigrationConstants` (the chainstate has the coins of its block, in some order), `InMemoryConstants`
(names of goroutines and of missing values that are not taken otherwise), `FormatConstants` and `PointsOfTheCurve`
(`Formats`: how many values a byte has and how long hashes, keys and ids are, so that a type and a length byte are one
byte each), `ChainstateConstants` (what the node writes: finitely many coins, one per outpoint, scripts of their
forms, an obfuscation key that is not empty) and `XorCancels` (twice the same exclusive or cancels). TLC evaluates the
assumptions on its instances. Two groups of theorems have a hypothesis besides, given with them below.

**The store.** `InvariantHolds` (`Spec => []StoreInvariant`) is the heart. The properties one wants are not inductive:
that a half-written store has a checkpoint says nothing about where the checkpoint leads. The strengthening is
`FileLeadsBack`: whenever the file decodes, rolling *all* of it back from wherever Redis is gives a sound store, of
which the file's content is exactly the checkpoint of the next block; and `RollbackInProgress`: the commands still to
be sent lead to the same store as all of them. The lemmas under it:

- `RollbackUndoesCommit`: any part of the commit, followed by the whole rollback, gives back the store before it;
- the rollback in parts: commands already sent need not be sent again, and may be;
- a store that the check finds equal to the checkpoint is the committed one;
- `DereferencedIsSpent`: the counting in `derefAddresses` is right, by a bijection between the inputs and the outputs;
- `CommittedIsSound`: the checkpoint of block h + 1 applied to a sound store at h gives a sound store at h + 1.

All of this holds as long as `Do` has not returned nil for a part of a block, and is the part `WholeBlocks` of
`StoreInvariant`; what holds of a store past help is the rest of it, the types and that a checkpoint in hand is one of
a block of the chain. `mistaken` never becomes false again, so each step is shown to keep `WholeBlocks` or to be
`ExecCutUnnoticed`. From it follow `TypeCorrect`, `ReadersAreServedTheChain`, `CheckpointGuardsTheStore` and
`NextBlockIsAccepted`.

`FirstBlockIsNotUndone` needs no such condition: the checkpoint of the first block changes the block keys only, and an
invariant of its own (`FirstBlockInvariant`) says what any part of them, taken for a whole or not, leaves behind.

`StartsDecide` says, under the same condition, that no start ends with the error for a missing transaction, from which
no later start gets out. It needs one more invariant, `KeysTell`: wherever the commit or a rollback was cut short, a
missing new transaction comes with a block key or a reference that the check looks at before and finds different. That
rests on the order of the commands (the hash goes back first, the transactions come before the references to them) and
on a fact about the chain: `BlocksPayAddresses`, a block that creates outputs creates one that pays an address.
Bitcoin's rules do not demand it (a block of nothing but outputs with scripts of no known form is valid), so it is a
hypothesis of the theorem and no assumption on the constants. A block that pays no address leaves the start nothing to
decide by.

**The refinement.** `StoreImplementsLedger` maps the store to the ledger by `Settled`: the store as it is when its
commit is complete, or as the checkpoint's rollback will leave it. `Exec` is then the only visible step (and a lost
reply with it); crashes, rollbacks and cancellations are stutters. `SettledInvariantHolds` is the extra invariant: a
rollback takes the block hash back first, so that it cannot be taken for a commit halfway. The one step that is
visible and no step of the ledger is `ExecCutUnnoticed`, and `ImplementsLedger` excepts it and what comes after it
(`mistaken'`).

**The iterator.** `IteratorInvariantHolds` proves `IteratorInvariant`: what is still to be asked for, the hashes in
the channel, the one in the dispatcher's hand, the downloads, the map, the channel of blocks and the block in the
scanner's hand continue one another without gap or overlap; the semaphore counts the goroutines that run. From it
`IteratorTypeCorrect` (the semaphore is never released too often), `BlocksAreDeliveredInOrder`,
`NoBlockIsLeftBehind` and, with the step-by-step mapping, `IteratorImplementsStream`.

**The iterator over the client.** An empty block is stored at height 0 and so left behind: `NothingLeftBehind` does
not hold there. What does is `Orderly`, the rest of the invariant, which every step of the iterator keeps by itself
and so does the store of an empty block. In a scan from the genesis block the empty block may be in the map before its
own download is there, so `Orderly(Except)` names the heights that need not come from a download: none in the iterator
alone (`InvariantIsOrderly`), height 0 here. `NodeInvariantHolds` adds where an empty answer can be: an empty block
above height 0 is at its store or past it, a hash that came empty belongs to a height already asked for, and neither
is in the map or before the next expected height, which only a member of the map advances. `NothingIsSentPastEmpty`
follows, and `NodeImplementsStream`: the mapping to `BlockStream` needs `Orderly` only.

**The migration.** `MigrationInvariantHolds` and the four theorems after it assume that `"moved"` is not among the
faults: that the node does not go on while a migration is cut short. Without that they are false, and
`migration_moved` shows how; all the other faults are admitted, in any number. The properties a reader wants say what
is served or what was counted as done; neither says what is in a version nobody serves yet. `MigrationInvariant` does:
there is an oldest version `o`, every version but `o` and `o + 1` is empty, and `o + 1` holds exactly a whole number
of the chainstate's transactions, with their references; its hash is there only when all of them are, its height only
after its hash (`Filling`). `o` is a sound store until `o + 1` is known, and then `o + 1` is complete and ahead of
what is left of `o` (`InUse`). Since a crash, a batch without reply and another batch size all leave a whole number of
transactions, a resumed migration may take the last transaction of a batch for the batch. From it `ServedIsSound`,
`NewestIsSound`, `ServedHeightStays` and `SkippedIsStored`. That adding a block keeps the store sound is
`CommittedIsSound` again.

Under these is `ConvertedEntry`: pushing outputs to their places, in whatever order they come, gives an entry with the
transaction's coins. The list is a recursive function, and what it computes for every length is an induction, which
the library's theorems cannot give here. `IntervalInduction` replaces the predicate by a set and the induction by the
least number outside of it, and `RecursionExists` derives from it that the recursion defines a function.

**The queries.** `StoreInvariantAmidQueries` carries the store's invariant over to `Readers`. `ReadersInvariantHolds`
proves `ReadersInvariant`, in which `QueryInProgress` is the strengthening: what a query carries from one read to the
next (while it waits for the transactions, every output of the address at the block of its first read is in one of the
transactions it asks for; the height it has read is not ahead of the store). From it `AnswersLieBetweenBlocks` and
`HashIsNotOlder`, with the store's condition (`~mistaken`); `SyncedHoldsOfOneCopy` needs only that the copy grows.
`AnswersAreNotMixed` needs more, because a commit that was cancelled, and reported, leaves a part of a block behind a
gate that a query has already passed: `UnmixedInvariant` says that whatever was cut off, nothing refers to the new
transactions yet, since the transactions are written before the references to them, and that a query that is past the
gate has not got their ids.

**The Redis transaction.** `TxInvariantHolds` proves that the three program counters, the two channels and the
pipeliner fit together; the contract is not inductive without it, since what EXEC may take is decided by who closed
the closure. The parts that carry the proof: EXEC takes a beginning of the commands; it takes all of them when the
closure was closed without a cancellation; Redis has run nothing as long as the pipeline's goroutine has not ended;
`Do` returns only after that. `DoImplementsTransaction` maps `SendExec` to `Execute` and the returns to `Return`.

**LevelDB.** `LocalTxInvariantHolds`: LevelDB's transaction belongs to the call that is between its factory and the
end of its `Commit` or `Rollback`, and what is in it are that call's commands so far. Since what is appended is then
always a whole function's, `LevelDBHoldsWholeTransactions`, for any number of callers and commands;
`PanicsOnlyAfterFailedCommit` says that the nil dereference has no other cause. `LevelDBImplementsTransactions` is the
refinement, for each caller at once. It needs `CommittedOnly`: the commands of a caller in LevelDB are none until its
commit, and from then on all of its function's. `OwnAmong` takes one caller's commands out of the sequence by a
recursive function; `OwnAfterCommit` shows by induction that a commit of another caller changes nothing in it, and
one's own makes it the commands 1 to `N`. Commit is `Execute`, an answer is `Return`, and a step of anyone else is a
stutter.

**The in-memory store.** `MemoryInvariantHolds` separates what a stopped listing breaks from what it does not.
`WriterAlone` (the writer, and the one that comes next, are the goroutines that say so) does not depend on the count
of the readers; `ReadersCounted` holds until a listing is stopped. From both `WritersExclude`. Since only writers
change the map, what the saver has encoded is a part of the map as it is now (`SaveIsOfOneMoment`), even with a reader
too many: hence `StartsFromASave`, and with `SavedAtClose` (the saver ends after a save that began after `Close`)
`LastSaveIsWhole`. The number of goroutines has no bound, and need not be finite.

**The formats.** What a recursive function computes is shown by induction over sets (`Least`, `Induction`,
`Recursion`), for every base and length. `NumberReadBack`: a stream that begins with a number is read as the number,
whatever follows; `NumberWritten` says that all bytes but the last have the high bit, which is why the reader knows
where to stop, and that `serializeSizeVLQ` is the number of bytes. `AmountRoundTrip`: the compressed form of an amount
gives the amount back, for every natural number (TLC's integers end at 2^31, an amount in satoshi does not);
`StoredAmountIsRead` says the same of what the store keeps. `ScriptRoundTrip` and `TxOutRoundTrip` put these together,
and `CoinDeserialized` says what the reader of streams makes of a record, refused coins included. `CutTxOut` is the
cut value. The proof that every cut is an error did not go through: one byte, `Base + 5`, is a size by itself. That is
what `CutTxOut` and `FormatsAgree` except, and nothing else.

**The chainstate.** `ChainstateInvariant` proves `ChainstateInv`. `DeliversTheCoins` looks at the coins that have been
delivered and is not inductive: it does not say where in the database the iterator is. `DeliveredInOrder` does: the
coins delivered are those of the records passed, no more and no fewer; `KeyIsTheWriters` says that whoever reads has
the key of the writer. Under it are facts about byte strings. `KeysAreOrdered`: the order of the keys is total.
`InKeyOrder`: the database, defined by counting the keys below, has every record once and in that order. `Between`:
what lies between two keys with a common beginning has that beginning too, so a transaction's coins are adjacent and
`GetOutputs` may stop at the first of another. With `XorCancels`, what has been obfuscated with a key is read with it.
From the invariant follow `SpecDeliversTheCoins`, `SpecAnswersAreTheCoins` and `SpecFormatsAgree`. LevelDB may fail at
any read; `broken` remembers it, and only that there is nothing left to deliver, and that an answer has all of a
transaction's coins, depends on its being false.

**Only model-checked:**

- liveness (`AllBlocksStored`, `AllBlocksHandled`, `ScannerStops`, `GoroutinesEnd`, `EveryDoReturns`, `GetsToServe`),
  which rests on fairness and ENABLED, beyond the provers;
- the violations.

## What is not modelled

- Power failure (a file or a Redis write lost after it was acknowledged): Redis and the file are durable here.
- A second indexer on the same Redis; the deployment has one. `RedisTx` has a writer of watched keys, `UTXOStore`
  takes an EXEC refused for any reason as a fault.
- An EXEC of a dead process that arrives after the next process has started.
- Reorganisations of the chain: the code compares heights only, and the node of the model serves one chain.
- The operations of the store that nothing calls (`SpendOutput`, `SpendAllOutputs`, `RemoveAddressTxIDs`,
  `AddTransactionOutputs`), and `LevelDBStore`'s single reads, writes and listing (`main` wires Redis only).
- The transaction of the in-memory store: its `Commit` and `Rollback` do nothing.
- `blockchaininfo`'s timer, its retries and `Stop`; `shutdown`; counters; configuration; logging; the generated gRPC
  code and the gateway; HTTP.
- JSON of the node that decodes in part: an undecoded answer is an empty one. The header with which the scan begins is
  asked for before the iterator's goroutines exist and is taken as proper (`iterator.go:56`); what the handler makes
  of an empty block at height 0 is told above and in no module.
- The addresses of a stored script (`GetAddresses`; in `Blocks` a script is the addresses it pays), opcodes around a
  recognised script, `DecodeVarint` (not called).
- A migration of a part of a chainstate after a read error of LevelDB: `Chainstate` has the error, `Migration` starts
  from a whole walk.
- The data races on `isConsist` and on `latestBlockchainInfo`: reads of them are single steps.
