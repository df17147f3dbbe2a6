----------------------------- MODULE BlocksIterator ---------------------------
(***************************************************************************)
(* bitcoinblocksiterator and the loop of scanner.Start that consumes it.    *)
(*                                                                          *)
(* One goroutine asks the node for the block hashes, height by height, and  *)
(* sends them to a bounded channel.  The dispatcher takes a semaphore slot  *)
(* for each hash and spawns a download.  A download that has its block puts *)
(* it, under a mutex, into a map, and sends to a second bounded channel all *)
(* the blocks that are now due.  The scanner's loop receives them and calls *)
(* the handler until it succeeds.                                           *)
(*                                                                          *)
(* The node serves one chain, so a hash and its block are one height.       *)
(***************************************************************************)
EXTENDS Integers, Sequences, FiniteSets

CONSTANTS
  Start,        \* height of the block the scan starts from
  Tip,          \* height of the last block the node has (a bound of the model)
  Limit,        \* concurrentBlocksDownloadLimit
  HeaderBuffer, \* blockHeadersBufferSize
  MayCancel     \* whether the context may be cancelled

ASSUME IteratorConstants ==
  /\ Start \in Nat
  /\ Tip \in Nat
  /\ Start <= Tip
  /\ Limit \in Nat \ {0}
  /\ HeaderBuffer \in Nat \ {0}
  /\ MayCancel \in BOOLEAN

VARIABLES
  ctxDone,      \* the context is cancelled
  panicked,     \* a goroutine has panicked, and the process is dead
  headersPc,    \* downloadBlockHeaders; its channel is closed when "done"
  currentBlockHeight,  \* the height it asks for next
  blockHashes,  \* the channel of hashes, at most HeaderBuffer
  dispatchPc,   \* the dispatcher; downloadedBlocks is closed when "done"
  blockHash,    \* the last hash it has received
  slots,        \* the slots of the semaphore that are taken
  downloads,    \* downloads[h]: the goroutine that downloads block h
  orderingBlocks,      \* the blocks that wait for the ones before them
  expectedNext,        \* expectedNextBLockHeightToSend
  downloadedBlocks,    \* the channel of blocks, at most Limit
  scannerPc,    \* the loop of scanner.Start
  taken,        \* the last block it has received
  handled       \* the last block the handler has accepted

process  == <<ctxDone, panicked>>
headers  == <<headersPc, currentBlockHeight>>
dispatch == <<dispatchPc, blockHash>>
ordering == <<orderingBlocks, expectedNext>>
scanner  == <<scannerPc, taken, handled>>

\* What is before the downloads, and the downloads with all they share.
source   == <<headers, blockHashes, dispatch>>
delivery == <<slots, downloads, ordering, downloadedBlocks>>

vars == <<process, source, delivery, scanner>>

Served == Start..Tip

\* check    at ctx.Done, before a call of the node (or of the handler)
\* fetch    in the call
\* send     sending the hash
\* recv     receiving from a channel
\* acquire  waiting for a slot of the semaphore
\* lock     waiting for the mutex
\* drain    holding the mutex, in the loop that sends the blocks that are due
\* release  mutex unlocked, the slot is still taken
HeadersPCs  == {"check", "fetch", "send", "done"}
DispatchPCs == {"recv", "acquire", "done"}
DownloadPCs == {"none", "check", "fetch", "lock", "drain", "release", "done"}
ScannerPCs  == {"recv", "check", "handle", "stopped"}

mutexFree == \A h \in Served : downloads[h] /= "drain"

Init ==
  /\ ctxDone = FALSE
  /\ panicked = FALSE
  /\ headersPc = "check"
  /\ currentBlockHeight = Start
  /\ blockHashes = <<>>
  /\ dispatchPc = "recv"
  /\ blockHash = Start - 1
  /\ slots = 0
  /\ downloads = [h \in Served |-> "none"]
  /\ orderingBlocks = {}
  /\ expectedNext = Start
  /\ downloadedBlocks = <<>>
  /\ scannerPc = "recv"
  /\ taken = Start - 1
  /\ handled = Start - 1

Cancel ==
  /\ MayCancel
  /\ ~panicked
  /\ ~ctxDone
  /\ ctxDone' = TRUE
  /\ UNCHANGED <<panicked, source, delivery, scanner>>

-----------------------------------------------------------------------------
(* downloadBlockHeaders.  Its send does not look at the context. *)

\* (mutant: the context is not looked at)
HeadersCheckIgnoringContext ==
  /\ ~panicked
  /\ headersPc = "check"
  /\ headersPc' = "fetch"
  /\ UNCHANGED <<process, currentBlockHeight, blockHashes, dispatch,
                 delivery, scanner>>

HeadersCheck ==
  /\ ~panicked
  /\ headersPc = "check"
  /\ headersPc' = IF ctxDone THEN "done" ELSE "fetch"
  /\ UNCHANGED <<process, currentBlockHeight, blockHashes, dispatch,
                 delivery, scanner>>

HeadersFetch ==
  /\ ~panicked
  /\ headersPc = "fetch"
  /\ currentBlockHeight <= Tip
  /\ currentBlockHeight' = currentBlockHeight + 1
  /\ headersPc' = "send"
  /\ UNCHANGED <<process, blockHashes, dispatch, delivery, scanner>>

\* The node does not answer, or has no block of that height yet.
HeadersFetchFails ==
  /\ ~panicked
  /\ headersPc = "fetch"
  /\ headersPc' = "check"
  /\ UNCHANGED <<process, currentBlockHeight, blockHashes, dispatch,
                 delivery, scanner>>

HeadersSend ==
  /\ ~panicked
  /\ headersPc = "send"
  /\ Len(blockHashes) < HeaderBuffer
  /\ blockHashes' = Append(blockHashes, currentBlockHeight - 1)
  /\ headersPc' = "check"
  /\ UNCHANGED <<process, currentBlockHeight, dispatch, delivery, scanner>>

-----------------------------------------------------------------------------
(* The dispatcher.  It does not look at the context: it ends with the hashes. *)

DispatchReceive ==
  /\ ~panicked
  /\ dispatchPc = "recv"
  /\ blockHashes /= <<>>
  /\ blockHash' = Head(blockHashes)
  /\ blockHashes' = Tail(blockHashes)
  /\ dispatchPc' = "acquire"
  /\ UNCHANGED <<process, headers, delivery, scanner>>

\* (mutant: no slot is taken)
DispatchSpawnUnlimited ==
  /\ ~panicked
  /\ dispatchPc = "acquire"
  /\ downloads' = [downloads EXCEPT ![blockHash] = "check"]
  /\ dispatchPc' = "recv"
  /\ UNCHANGED <<process, headers, blockHashes, blockHash, slots, ordering,
                 downloadedBlocks, scanner>>

DispatchSpawn ==
  /\ ~panicked
  /\ dispatchPc = "acquire"
  /\ slots < Limit
  /\ slots' = slots + 1
  /\ downloads' = [downloads EXCEPT ![blockHash] = "check"]
  /\ dispatchPc' = "recv"
  /\ UNCHANGED <<process, headers, blockHashes, blockHash, ordering,
                 downloadedBlocks, scanner>>

\* The deferred close of downloadedBlocks; it does not wait for the downloads.
DispatchEnd ==
  /\ ~panicked
  /\ dispatchPc = "recv"
  /\ blockHashes = <<>>
  /\ headersPc = "done"
  /\ dispatchPc' = "done"
  /\ UNCHANGED <<process, headers, blockHashes, blockHash, delivery, scanner>>

-----------------------------------------------------------------------------
(* The download of block h. *)

goesOn(h, from, to) ==
  /\ ~panicked
  /\ downloads[h] = from
  /\ downloads' = [downloads EXCEPT ![h] = to]

DownloadCheck(h) ==
  /\ goesOn(h, "check", IF ctxDone THEN "release" ELSE "fetch")
  /\ UNCHANGED <<process, source, slots, ordering, downloadedBlocks, scanner>>

DownloadFetch(h) ==
  /\ goesOn(h, "fetch", "lock")
  /\ UNCHANGED <<process, source, slots, ordering, downloadedBlocks, scanner>>

DownloadFetchFails(h) ==
  /\ goesOn(h, "fetch", "check")
  /\ UNCHANGED <<process, source, slots, ordering, downloadedBlocks, scanner>>

\* The map is touched under the mutex only, so Lock and Store are one step.
DownloadLock(h) ==
  /\ goesOn(h, "lock", "drain")
  /\ mutexFree
  /\ orderingBlocks' = orderingBlocks \union {h}
  /\ UNCHANGED <<process, source, slots, expectedNext, downloadedBlocks,
                 scanner>>

\* The block the loop sends next, if it is there.
dueInAnyOrder == orderingBlocks  \* (mutant: any block of the map is sent)
due == orderingBlocks \intersect {expectedNext}

\* (mutant: one block is sent and no other)
DownloadSendOnce(h) ==
  /\ ~panicked
  /\ downloads[h] = "drain"
  /\ dispatchPc /= "done"
  /\ Len(downloadedBlocks) < Limit
  /\ \E b \in due : /\ downloadedBlocks' = Append(downloadedBlocks, b)
                    /\ orderingBlocks' = orderingBlocks \ {b}
  /\ expectedNext' = expectedNext + 1
  /\ downloads' = [downloads EXCEPT ![h] = "release"]
  /\ UNCHANGED <<process, source, slots, scanner>>

\* One round of the loop, with the mutex held while the channel is full.
DownloadSend(h) ==
  /\ ~panicked
  /\ downloads[h] = "drain"
  /\ dispatchPc /= "done"
  /\ Len(downloadedBlocks) < Limit
  /\ \E b \in due : /\ downloadedBlocks' = Append(downloadedBlocks, b)
                    /\ orderingBlocks' = orderingBlocks \ {b}
  /\ expectedNext' = expectedNext + 1
  /\ UNCHANGED <<process, source, slots, downloads, scanner>>

\* A send on a closed channel.
DownloadSendPanics(h) ==
  /\ ~panicked
  /\ downloads[h] = "drain"
  /\ due /= {}
  /\ dispatchPc = "done"
  /\ panicked' = TRUE
  /\ UNCHANGED <<ctxDone, source, delivery, scanner>>

DownloadUnlock(h) ==
  /\ goesOn(h, "drain", "release")
  /\ due = {}
  /\ UNCHANGED <<process, source, slots, ordering, downloadedBlocks, scanner>>

\* (mutant: the slot is not given back)
DownloadKeepingSlot(h) ==
  /\ goesOn(h, "release", "done")
  /\ UNCHANGED <<process, source, slots, ordering, downloadedBlocks, scanner>>

DownloadRelease(h) ==
  /\ goesOn(h, "release", "done")
  /\ slots' = slots - 1
  /\ UNCHANGED <<process, source, ordering, downloadedBlocks, scanner>>

-----------------------------------------------------------------------------
(* scanner.Start: the context is looked at before each call of the handler. *)

ScannerReceive ==
  /\ ~panicked
  /\ scannerPc = "recv"
  /\ downloadedBlocks /= <<>>
  /\ taken' = Head(downloadedBlocks)
  /\ downloadedBlocks' = Tail(downloadedBlocks)
  /\ scannerPc' = "check"
  /\ UNCHANGED <<process, source, slots, downloads, ordering, handled>>

ScannerEnd ==
  /\ ~panicked
  /\ scannerPc = "recv"
  /\ downloadedBlocks = <<>>
  /\ dispatchPc = "done"
  /\ scannerPc' = "stopped"
  /\ UNCHANGED <<process, source, delivery, taken, handled>>

ScannerCheck ==
  /\ ~panicked
  /\ scannerPc = "check"
  /\ scannerPc' = IF ctxDone THEN "stopped" ELSE "handle"
  /\ UNCHANGED <<process, source, delivery, taken, handled>>

ScannerHandle ==
  /\ ~panicked
  /\ scannerPc = "handle"
  /\ handled' = taken
  /\ scannerPc' = "recv"
  /\ UNCHANGED <<process, source, delivery, taken>>

\* (mutant: the block is given up)
ScannerSkips ==
  /\ ~panicked
  /\ scannerPc = "handle"
  /\ scannerPc' = "recv"
  /\ UNCHANGED <<process, source, delivery, taken, handled>>

\* The handler fails; after a pause it is called with the same block again.
ScannerHandleFails ==
  /\ ~panicked
  /\ scannerPc = "handle"
  /\ scannerPc' = "check"
  /\ UNCHANGED <<process, source, delivery, taken, handled>>

-----------------------------------------------------------------------------
Headers  == HeadersCheck \/ HeadersFetch \/ HeadersFetchFails \/ HeadersSend
Dispatch == DispatchReceive \/ DispatchSpawn \/ DispatchEnd
Download(h) ==
  \/ DownloadCheck(h) \/ DownloadFetch(h) \/ DownloadFetchFails(h)
  \/ DownloadLock(h) \/ DownloadSend(h) \/ DownloadSendPanics(h)
  \/ DownloadUnlock(h) \/ DownloadRelease(h)
Scanner  == \/ ScannerReceive \/ ScannerEnd \/ ScannerCheck
            \/ ScannerHandle \/ ScannerHandleFails

Next == Cancel \/ Headers \/ Dispatch \/ (\E h \in Served : Download(h)) \/ Scanner

Spec == Init /\ [][Next]_vars

\* Every goroutine that can go on does; the node and the handler may fail any
\* number of times, but answer in the end when they are asked again and again.
FairSpec ==
  /\ Spec
  /\ WF_vars(Headers) /\ SF_vars(HeadersFetch)
  /\ WF_vars(Dispatch)
  /\ \A h \in Served : WF_vars(Download(h)) /\ SF_vars(DownloadFetch(h))
  /\ WF_vars(Scanner) /\ SF_vars(ScannerHandle)

-----------------------------------------------------------------------------
(* Properties. *)

TypeOK ==
  /\ ctxDone \in BOOLEAN
  /\ panicked \in BOOLEAN
  /\ headersPc \in HeadersPCs
  /\ currentBlockHeight \in Start..(Tip + 1)
  /\ blockHashes \in Seq(Served)
  /\ dispatchPc \in DispatchPCs
  /\ blockHash \in (Start - 1)..Tip
  /\ slots \in 0..Limit
  /\ downloads \in [Served -> DownloadPCs]
  /\ orderingBlocks \subseteq Served
  /\ expectedNext \in Start..(Tip + 1)
  /\ downloadedBlocks \in Seq(Served)
  /\ scannerPc \in ScannerPCs
  /\ taken \in (Start - 1)..Tip
  /\ handled \in (Start - 1)..Tip

\* iterator.go:93: "the handler will handle whole blockchain in the right order
\* block-by-block", however the downloads overtake one another: what is in the
\* channel continues what the scanner has taken, up to the next expected height.
DeliveredInOrder ==
  /\ expectedNext = taken + Len(downloadedBlocks) + 1
  /\ \A i \in DOMAIN downloadedBlocks : downloadedBlocks[i] = taken + i

\* No lost wake-up: once nobody is in the critical section, no block that is due
\* waits in the map for a later download to send it (there may be none), and no
\* downloaded block has got lost on the way.
NothingLeftBehind ==
  /\ mutexFree => expectedNext \notin orderingBlocks
  /\ \A h \in Served :
       h >= expectedNext /\ downloads[h] \in {"drain", "release", "done"}
         => h \in orderingBlocks \/ ctxDone

\* The goroutines that hold a slot.
running == {h \in Served :
              downloads[h] \in {"check", "fetch", "lock", "drain", "release"}}

\* The hashes come in the order of the heights, up to the last one asked for.
HashesInOrder ==
  /\ currentBlockHeight = blockHash + Len(blockHashes)
                            + (IF headersPc = "send" THEN 2 ELSE 1)
  /\ \A i \in DOMAIN blockHashes : blockHashes[i] = blockHash + i
  /\ dispatchPc = "acquire" => blockHash \in Served

\* One download per hash, one of them in the critical section, a slot for each.
OneDownloadPerHash ==
  /\ \A h \in Served :
       downloads[h] = "none" <=>
         h > blockHash \/ (h = blockHash /\ dispatchPc = "acquire")
  /\ \A g, h \in Served : downloads[g] = "drain" /\ downloads[h] = "drain" => g = h
  /\ slots = Cardinality(running)

\* A block is in the map or sent only when its download has stored it, and only
\* blocks that are still to be sent are in the map.
BlocksComeFromDownloads ==
  /\ \A h \in orderingBlocks : h >= expectedNext
  /\ \A h \in Served : h < expectedNext \/ h \in orderingBlocks
                         => downloads[h] \in {"drain", "release", "done"}

\* The scanner's loop has handled all it has taken, but for the block in hand.
OneBlockInHand ==
  /\ scannerPc = "recv" => handled = taken
  /\ scannerPc \in {"check", "handle"} => handled = taken - 1

IteratorInvariant ==
  /\ TypeOK
  /\ DeliveredInOrder
  /\ NothingLeftBehind
  /\ HashesInOrder
  /\ OneDownloadPerHash
  /\ BlocksComeFromDownloads
  /\ OneBlockInHand

Stream == INSTANCE BlockStream WITH
  stopped <- panicked \/ scannerPc = "stopped"

\* Seen from the handler, the goroutines, the channels, the retries and the
\* cancellation are a loop over the blocks in the order of the chain.
ImplementsStream == Stream!Spec

\* No deadlock of the semaphore, the mutex and the two bounded channels, and no
\* block that is never due: unless there is a cancellation every block is handled.
AllBlocksHandled == <>(handled = Tip \/ ctxDone)

\* scanner.Start returns when the context is cancelled, wherever it and the
\* goroutines behind the channel are (or the process is dead).
ScannerStops == ctxDone ~> (panicked \/ scannerPc = "stopped")

-----------------------------------------------------------------------------
(* What the repository says and the code does not do. *)

\* iterator.go:46: "You can stop the process by closing the context".  The
\* dispatcher closes downloadedBlocks while downloads are still running, and one
\* that has its block by then sends on a closed channel: the program panics.
CancellationIsClean == ~panicked
===============================================================================
