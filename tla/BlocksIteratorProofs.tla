------------------------- MODULE BlocksIteratorProofs -------------------------
(***************************************************************************)
(* Proofs about BlocksIterator, and about IteratorOverNode that extends it, *)
(* for every range of blocks, every limit, every buffer size and every set  *)
(* of answers of the node.                                                  *)
(***************************************************************************)
EXTENDS IteratorOverNode, FiniteSetTheorems, TLAPS

\* Receiving takes the first element and moves the others down by one.
LEMMA Receiving ==
  ASSUME NEW S, NEW s \in Seq(S), s /= <<>>
  PROVE  /\ Head(s) = s[1] /\ Head(s) \in S
         /\ Tail(s) \in Seq(S)
         /\ Len(Tail(s)) = Len(s) - 1
         /\ \A i \in DOMAIN Tail(s) :
              i \in Int /\ i + 1 \in DOMAIN s /\ Tail(s)[i] = s[i + 1]
OBVIOUS

\* Sending puts an element at the end.
LEMMA Sending ==
  ASSUME NEW S, NEW s \in Seq(S), NEW e \in S
  PROVE  /\ Append(s, e) \in Seq(S)
         /\ Len(Append(s, e)) = Len(s) + 1
         /\ \A i \in DOMAIN s : Append(s, e)[i] = s[i]
         /\ \A i \in DOMAIN Append(s, e) :
              i \in DOMAIN s \/ (i = Len(s) + 1 /\ Append(s, e)[i] = e)
OBVIOUS

LEMMA RunningIsFinite == IsFiniteSet(running) /\ Cardinality(running) \in Nat
<1>1. Start \in Int /\ Tip \in Int
  BY IteratorConstants
<1>2. IsFiniteSet(Start..Tip)
  BY <1>1, FS_Interval
<1>3. running \subseteq Start..Tip
  BY DEF running, Served
<1> QED BY <1>2, <1>3, FS_Subset, FS_CardinalityType

LEMMA InitEstablishesInvariant == Init => IteratorInvariant
<1> SUFFICES ASSUME Init PROVE IteratorInvariant
  OBVIOUS
<1> USE IteratorConstants DEF Init
<1>1. TypeOK
  <2>1. <<>> \in Seq(Served)
    OBVIOUS
  <2>2. downloads \in [Served -> DownloadPCs]
    BY DEF DownloadPCs
  <2>3. /\ Start - 1 \in (Start - 1)..Tip
        /\ Start \in Start..(Tip + 1)
        /\ 0 \in 0..Limit
    OBVIOUS
  <2> QED BY <2>1, <2>2, <2>3 DEF TypeOK, HeadersPCs, DispatchPCs, ScannerPCs
<1>2. DeliveredInOrder
  BY DEF DeliveredInOrder
<1>3. NothingLeftBehind
  BY DEF NothingLeftBehind, Served
<1>4. HashesInOrder
  BY DEF HashesInOrder
<1>5. OneDownloadPerHash
  <2>1. running = {}
    BY DEF running, Served
  <2> QED BY <2>1, FS_EmptySet DEF OneDownloadPerHash, Served
<1>6. BlocksComeFromDownloads
  BY DEF BlocksComeFromDownloads, Served
<1>7. OneBlockInHand
  BY DEF OneBlockInHand
<1> QED BY <1>1, <1>2, <1>3, <1>4, <1>5, <1>6, <1>7 DEF IteratorInvariant

\* BlocksComeFromDownloads, but for the heights of Except.
FromDownloads(Except) ==
  /\ \A h \in orderingBlocks \ Except : h >= expectedNext
  /\ \A h \in Served \ Except :
       h < expectedNext \/ h \in orderingBlocks
         => downloads[h] \in {"drain", "release", "done"}

\* The order of the blocks and the bookkeeping: what holds also of an iterator
\* whose blocks may be lost on the way, and where a block that is not of height
\* h may have been stored under a height h of Except.
Orderly(Except) ==
  /\ TypeOK
  /\ DeliveredInOrder
  /\ HashesInOrder
  /\ OneDownloadPerHash
  /\ FromDownloads(Except)
  /\ OneBlockInHand

LEMMA InvariantIsOrderly ==
  IteratorInvariant <=> Orderly({}) /\ NothingLeftBehind
<1>1. FromDownloads({}) <=> BlocksComeFromDownloads
  BY DEF FromDownloads, BlocksComeFromDownloads
<1> QED BY <1>1 DEF IteratorInvariant, Orderly

LEMMA StepKeepsOrder ==
  ASSUME NEW Except, Orderly(Except), [Next]_vars
  PROVE  Orderly(Except)'
<1> USE IteratorConstants DEF Orderly
<1> USE DEF process, headers, dispatch, ordering, scanner, source, delivery, Served
<1>1. CASE Cancel
  <2>1. TypeOK'
    BY <1>1 DEF Cancel, TypeOK, HeadersPCs, DispatchPCs, DownloadPCs, ScannerPCs
  <2>2. /\ DeliveredInOrder'
        /\ HashesInOrder'
        /\ OneDownloadPerHash'
        /\ FromDownloads(Except)'
        /\ OneBlockInHand'
    BY <1>1 DEF Cancel, TypeOK, DeliveredInOrder, HashesInOrder, OneDownloadPerHash,
           running, FromDownloads, OneBlockInHand
  <2> QED BY <2>1, <2>2
<1>2. CASE HeadersCheck
  <2>1. TypeOK'
    BY <1>2 DEF HeadersCheck, TypeOK, HeadersPCs, DispatchPCs, DownloadPCs,
           ScannerPCs
  <2>2. HashesInOrder'
    BY <1>2 DEF HeadersCheck, TypeOK, HashesInOrder
  <2>3. /\ DeliveredInOrder'
        /\ OneDownloadPerHash'
        /\ FromDownloads(Except)'
        /\ OneBlockInHand'
    BY <1>2 DEF HeadersCheck, TypeOK, DeliveredInOrder, OneDownloadPerHash, running,
           FromDownloads, OneBlockInHand
  <2> QED BY <2>1, <2>2, <2>3
<1>3. CASE HeadersFetch
  <2>1. TypeOK'
    BY <1>3 DEF HeadersFetch, TypeOK, HeadersPCs, DispatchPCs, DownloadPCs,
           ScannerPCs
  <2>2. HashesInOrder'
    BY <1>3 DEF HeadersFetch, TypeOK, HashesInOrder
  <2>3. /\ DeliveredInOrder'
        /\ OneDownloadPerHash'
        /\ FromDownloads(Except)'
        /\ OneBlockInHand'
    BY <1>3 DEF HeadersFetch, TypeOK, DeliveredInOrder, OneDownloadPerHash, running,
           FromDownloads, OneBlockInHand
  <2> QED BY <2>1, <2>2, <2>3
<1>4. CASE HeadersFetchFails
  <2>1. TypeOK'
    BY <1>4 DEF HeadersFetchFails, TypeOK, HeadersPCs, DispatchPCs, DownloadPCs,
           ScannerPCs
  <2>2. HashesInOrder'
    BY <1>4 DEF HeadersFetchFails, TypeOK, HashesInOrder
  <2>3. /\ DeliveredInOrder'
        /\ OneDownloadPerHash'
        /\ FromDownloads(Except)'
        /\ OneBlockInHand'
    BY <1>4 DEF HeadersFetchFails, TypeOK, DeliveredInOrder, OneDownloadPerHash,
           running, FromDownloads, OneBlockInHand
  <2> QED BY <2>1, <2>2, <2>3
<1>5. CASE HeadersSend
  <2>1. blockHashes' \in Seq(Served)
    <3>1. currentBlockHeight - 1 \in Served
      BY <1>5 DEF HeadersSend, TypeOK, HashesInOrder
    <3> QED BY <1>5, <3>1, Sending DEF HeadersSend, TypeOK
  <2>2. TypeOK'
    BY <1>5, <2>1 DEF HeadersSend, TypeOK, HeadersPCs, DispatchPCs, DownloadPCs,
           ScannerPCs
  <2>3. HashesInOrder'
    BY <1>5, <2>1 DEF HeadersSend, TypeOK, HashesInOrder
  <2>4. /\ DeliveredInOrder'
        /\ OneDownloadPerHash'
        /\ FromDownloads(Except)'
        /\ OneBlockInHand'
    BY <1>5 DEF HeadersSend, TypeOK, DeliveredInOrder, OneDownloadPerHash, running,
           FromDownloads, OneBlockInHand
  <2> QED BY <2>2, <2>3, <2>4
<1>6. CASE DispatchReceive
  <2>1. /\ blockHash' = blockHash + 1 /\ blockHash' \in Served
        /\ blockHashes' \in Seq(Served) /\ Len(blockHashes') = Len(blockHashes) - 1
        /\ \A i \in DOMAIN blockHashes' : blockHashes'[i] = blockHash' + i
    <3>1. blockHashes \in Seq(Served) /\ blockHashes /= <<>> /\ 1 \in DOMAIN blockHashes
      BY <1>6 DEF DispatchReceive, TypeOK
    <3>2. blockHash' = blockHashes[1] /\ blockHashes' = Tail(blockHashes)
      BY <1>6, <3>1, Receiving DEF DispatchReceive
    <3>3. blockHash' = blockHash + 1 /\ blockHash' \in Served /\ blockHash \in Int
      BY <3>1, <3>2 DEF HashesInOrder, TypeOK
    <3>4. \A i \in DOMAIN blockHashes' :
            i \in Int /\ i + 1 \in DOMAIN blockHashes
              /\ blockHashes'[i] = blockHashes[i + 1]
      BY <3>1, <3>2, Receiving
    <3>5. \A i \in DOMAIN blockHashes' : blockHashes'[i] = blockHash' + i
      <4> TAKE i \in DOMAIN blockHashes'
      <4>1. i \in Int /\ blockHashes'[i] = blockHash + (i + 1)
        BY <3>4 DEF HashesInOrder
      <4> QED BY <4>1, <3>3
    <3> QED BY <3>1, <3>2, <3>3, <3>5, Receiving
  <2>2. TypeOK'
    BY <1>6, <2>1 DEF DispatchReceive, TypeOK, HeadersPCs, DispatchPCs, DownloadPCs,
           ScannerPCs
  <2>3. HashesInOrder'
    <3>1. Len(blockHashes) \in Nat /\ blockHash \in Int /\ currentBlockHeight \in Int
      BY DEF TypeOK
    <3>2. /\ currentBlockHeight' = currentBlockHeight /\ headersPc' = headersPc
          /\ dispatchPc' = "acquire"
      BY <1>6 DEF DispatchReceive
    <3>3. currentBlockHeight' = blockHash' + Len(blockHashes')
                                  + (IF headersPc' = "send" THEN 2 ELSE 1)
      BY <2>1, <3>1, <3>2 DEF HashesInOrder
    <3> QED BY <2>1, <3>2, <3>3 DEF HashesInOrder
  <2>4. OneDownloadPerHash'
    BY <1>6, <2>1 DEF DispatchReceive, TypeOK, OneDownloadPerHash, running
  <2>5. /\ DeliveredInOrder'
        /\ FromDownloads(Except)'
        /\ OneBlockInHand'
    BY <1>6 DEF DispatchReceive, TypeOK, DeliveredInOrder, FromDownloads,
           OneBlockInHand
  <2> QED BY <2>2, <2>3, <2>4, <2>5
<1>7. CASE DispatchSpawn
  <2>1. /\ blockHash \in Served /\ downloads[blockHash] = "none"
        /\ downloads' = [h \in Served |-> IF h = blockHash THEN "check" ELSE downloads[h]]
        /\ dispatchPc = "acquire" /\ dispatchPc' = "recv" /\ slots' = slots + 1
    BY <1>7 DEF DispatchSpawn, TypeOK, HashesInOrder, OneDownloadPerHash
  <2>2. Cardinality(running') = Cardinality(running) + 1
    <3>1. running' = running \union {blockHash} /\ blockHash \notin running
      BY <2>1 DEF running
    <3> QED BY <3>1, RunningIsFinite, FS_AddElement
  <2>3. TypeOK'
    BY <1>7, <2>1, <2>2 DEF DispatchSpawn, TypeOK, HeadersPCs, DispatchPCs,
           DownloadPCs, ScannerPCs
  <2>4. HashesInOrder'
    BY <1>7, <2>1, <2>2 DEF DispatchSpawn, TypeOK, HashesInOrder
  <2>5. OneDownloadPerHash'
    BY <1>7, <2>1, <2>2 DEF DispatchSpawn, TypeOK, OneDownloadPerHash, running
  <2>6. FromDownloads(Except)'
    BY <1>7, <2>1, <2>2 DEF DispatchSpawn, TypeOK, FromDownloads
  <2>7. /\ DeliveredInOrder'
        /\ OneBlockInHand'
    BY <1>7 DEF DispatchSpawn, TypeOK, DeliveredInOrder, OneBlockInHand
  <2> QED BY <2>3, <2>4, <2>5, <2>6, <2>7
<1>8. CASE DispatchEnd
  <2>1. TypeOK'
    BY <1>8 DEF DispatchEnd, TypeOK, HeadersPCs, DispatchPCs, DownloadPCs,
           ScannerPCs
  <2>2. HashesInOrder'
    BY <1>8 DEF DispatchEnd, TypeOK, HashesInOrder
  <2>3. OneDownloadPerHash'
    BY <1>8 DEF DispatchEnd, TypeOK, OneDownloadPerHash, running
  <2>4. /\ DeliveredInOrder'
        /\ FromDownloads(Except)'
        /\ OneBlockInHand'
    BY <1>8 DEF DispatchEnd, TypeOK, DeliveredInOrder, FromDownloads,
           OneBlockInHand
  <2> QED BY <2>1, <2>2, <2>3, <2>4
<1>9. CASE ScannerReceive
  <2>1. /\ taken' = taken + 1 /\ taken' \in Served
        /\ downloadedBlocks' \in Seq(Served)
        /\ Len(downloadedBlocks') = Len(downloadedBlocks) - 1
        /\ \A i \in DOMAIN downloadedBlocks' : downloadedBlocks'[i] = taken' + i
    <3>1. /\ downloadedBlocks \in Seq(Served)
          /\ downloadedBlocks /= <<>> /\ 1 \in DOMAIN downloadedBlocks
      BY <1>9 DEF ScannerReceive, TypeOK
    <3>2. taken' = downloadedBlocks[1] /\ downloadedBlocks' = Tail(downloadedBlocks)
      BY <1>9, <3>1, Receiving DEF ScannerReceive
    <3>3. taken' = taken + 1 /\ taken' \in Served /\ taken \in Int
      BY <3>1, <3>2 DEF DeliveredInOrder, TypeOK
    <3>4. \A i \in DOMAIN downloadedBlocks' :
            i \in Int /\ i + 1 \in DOMAIN downloadedBlocks
              /\ downloadedBlocks'[i] = downloadedBlocks[i + 1]
      BY <3>1, <3>2, Receiving
    <3>5. \A i \in DOMAIN downloadedBlocks' : downloadedBlocks'[i] = taken' + i
      <4> TAKE i \in DOMAIN downloadedBlocks'
      <4>1. i \in Int /\ downloadedBlocks'[i] = taken + (i + 1)
        BY <3>4 DEF DeliveredInOrder
      <4> QED BY <4>1, <3>3
    <3> QED BY <3>1, <3>2, <3>3, <3>5, Receiving
  <2>2. TypeOK'
    BY <1>9, <2>1 DEF ScannerReceive, TypeOK, HeadersPCs, DispatchPCs, DownloadPCs,
           ScannerPCs
  <2>3. DeliveredInOrder'
    BY <1>9, <2>1 DEF ScannerReceive, TypeOK, DeliveredInOrder
  <2>4. OneBlockInHand'
    BY <1>9, <2>1 DEF ScannerReceive, TypeOK, OneBlockInHand
  <2>5. /\ HashesInOrder'
        /\ OneDownloadPerHash'
        /\ FromDownloads(Except)'
    BY <1>9 DEF ScannerReceive, TypeOK, HashesInOrder, OneDownloadPerHash, running,
           FromDownloads
  <2> QED BY <2>2, <2>3, <2>4, <2>5
<1>10. CASE ScannerEnd
  <2>1. TypeOK'
    BY <1>10 DEF ScannerEnd, TypeOK, HeadersPCs, DispatchPCs, DownloadPCs,
           ScannerPCs
  <2>2. OneBlockInHand'
    BY <1>10 DEF ScannerEnd, TypeOK, OneBlockInHand
  <2>3. /\ DeliveredInOrder'
        /\ HashesInOrder'
        /\ OneDownloadPerHash'
        /\ FromDownloads(Except)'
    BY <1>10 DEF ScannerEnd, TypeOK, DeliveredInOrder, HashesInOrder,
           OneDownloadPerHash, running, FromDownloads
  <2> QED BY <2>1, <2>2, <2>3
<1>11. CASE ScannerCheck
  <2>1. TypeOK'
    BY <1>11 DEF ScannerCheck, TypeOK, HeadersPCs, DispatchPCs, DownloadPCs,
           ScannerPCs
  <2>2. OneBlockInHand'
    BY <1>11 DEF ScannerCheck, TypeOK, OneBlockInHand
  <2>3. /\ DeliveredInOrder'
        /\ HashesInOrder'
        /\ OneDownloadPerHash'
        /\ FromDownloads(Except)'
    BY <1>11 DEF ScannerCheck, TypeOK, DeliveredInOrder, HashesInOrder,
           OneDownloadPerHash, running, FromDownloads
  <2> QED BY <2>1, <2>2, <2>3
<1>12. CASE ScannerHandle
  <2>1. TypeOK'
    BY <1>12 DEF ScannerHandle, TypeOK, HeadersPCs, DispatchPCs, DownloadPCs,
           ScannerPCs
  <2>2. OneBlockInHand'
    BY <1>12 DEF ScannerHandle, TypeOK, OneBlockInHand
  <2>3. /\ DeliveredInOrder'
        /\ HashesInOrder'
        /\ OneDownloadPerHash'
        /\ FromDownloads(Except)'
    BY <1>12 DEF ScannerHandle, TypeOK, DeliveredInOrder, HashesInOrder,
           OneDownloadPerHash, running, FromDownloads
  <2> QED BY <2>1, <2>2, <2>3
<1>13. CASE ScannerHandleFails
  <2>1. TypeOK'
    BY <1>13 DEF ScannerHandleFails, TypeOK, HeadersPCs, DispatchPCs, DownloadPCs,
           ScannerPCs
  <2>2. OneBlockInHand'
    BY <1>13 DEF ScannerHandleFails, TypeOK, OneBlockInHand
  <2>3. /\ DeliveredInOrder'
        /\ HashesInOrder'
        /\ OneDownloadPerHash'
        /\ FromDownloads(Except)'
    BY <1>13 DEF ScannerHandleFails, TypeOK, DeliveredInOrder, HashesInOrder,
           OneDownloadPerHash, running, FromDownloads
  <2> QED BY <2>1, <2>2, <2>3
<1>14. ASSUME NEW h \in Served, DownloadCheck(h) PROVE Orderly(Except)'
  <2>1. TypeOK'
    BY <1>14 DEF DownloadCheck, goesOn, due, mutexFree, TypeOK, HeadersPCs,
           DispatchPCs, DownloadPCs, ScannerPCs
  <2>2. OneDownloadPerHash'
    BY <1>14 DEF DownloadCheck, goesOn, due, mutexFree, TypeOK, OneDownloadPerHash,
           running
  <2>3. FromDownloads(Except)'
    BY <1>14 DEF DownloadCheck, goesOn, due, mutexFree, TypeOK,
           FromDownloads
  <2>4. /\ DeliveredInOrder'
        /\ HashesInOrder'
        /\ OneBlockInHand'
    BY <1>14 DEF DownloadCheck, goesOn, TypeOK, DeliveredInOrder, HashesInOrder,
           OneBlockInHand
  <2> QED BY <2>1, <2>2, <2>3, <2>4
<1>15. ASSUME NEW h \in Served, DownloadFetch(h) PROVE Orderly(Except)'
  <2>1. TypeOK'
    BY <1>15 DEF DownloadFetch, goesOn, due, mutexFree, TypeOK, HeadersPCs,
           DispatchPCs, DownloadPCs, ScannerPCs
  <2>2. OneDownloadPerHash'
    BY <1>15 DEF DownloadFetch, goesOn, due, mutexFree, TypeOK, OneDownloadPerHash,
           running
  <2>3. FromDownloads(Except)'
    BY <1>15 DEF DownloadFetch, goesOn, due, mutexFree, TypeOK,
           FromDownloads
  <2>4. /\ DeliveredInOrder'
        /\ HashesInOrder'
        /\ OneBlockInHand'
    BY <1>15 DEF DownloadFetch, goesOn, TypeOK, DeliveredInOrder, HashesInOrder,
           OneBlockInHand
  <2> QED BY <2>1, <2>2, <2>3, <2>4
<1>16. ASSUME NEW h \in Served, DownloadFetchFails(h) PROVE Orderly(Except)'
  <2>1. TypeOK'
    BY <1>16 DEF DownloadFetchFails, goesOn, due, mutexFree, TypeOK, HeadersPCs,
           DispatchPCs, DownloadPCs, ScannerPCs
  <2>2. OneDownloadPerHash'
    BY <1>16 DEF DownloadFetchFails, goesOn, due, mutexFree, TypeOK,
           OneDownloadPerHash, running
  <2>3. FromDownloads(Except)'
    BY <1>16 DEF DownloadFetchFails, goesOn, due, mutexFree, TypeOK,
           FromDownloads
  <2>4. /\ DeliveredInOrder'
        /\ HashesInOrder'
        /\ OneBlockInHand'
    BY <1>16 DEF DownloadFetchFails, goesOn, TypeOK, DeliveredInOrder,
           HashesInOrder, OneBlockInHand
  <2> QED BY <2>1, <2>2, <2>3, <2>4
<1>17. ASSUME NEW h \in Served, DownloadLock(h) PROVE Orderly(Except)'
  <2>1. TypeOK'
    BY <1>17 DEF DownloadLock, goesOn, due, mutexFree, TypeOK, HeadersPCs,
           DispatchPCs, DownloadPCs, ScannerPCs
  <2>2. OneDownloadPerHash'
    BY <1>17 DEF DownloadLock, goesOn, due, mutexFree, TypeOK, OneDownloadPerHash,
           running
  <2>3. FromDownloads(Except)'
    BY <1>17 DEF DownloadLock, goesOn, TypeOK, FromDownloads
  <2>4. /\ DeliveredInOrder'
        /\ HashesInOrder'
        /\ OneBlockInHand'
    BY <1>17 DEF DownloadLock, goesOn, TypeOK, DeliveredInOrder, HashesInOrder,
           OneBlockInHand
  <2> QED BY <2>1, <2>2, <2>3, <2>4
<1>18. ASSUME NEW h \in Served, DownloadSend(h) PROVE Orderly(Except)'
  <2>1. /\ expectedNext \in orderingBlocks /\ expectedNext' = expectedNext + 1
        /\ orderingBlocks' = orderingBlocks \ {expectedNext}
        /\ downloadedBlocks' = Append(downloadedBlocks, expectedNext)
        /\ downloadedBlocks' \in Seq(Served)
        /\ Len(downloadedBlocks') = Len(downloadedBlocks) + 1
    BY <1>18, Sending DEF DownloadSend, due, TypeOK
  <2>2. TypeOK'
    BY <1>18, <2>1 DEF DownloadSend, goesOn, due, mutexFree, TypeOK, HeadersPCs,
           DispatchPCs, DownloadPCs, ScannerPCs
  <2>3. DeliveredInOrder'
    <3>1. taken' = taken
      BY <1>18 DEF DownloadSend
    <3>2. \A i \in DOMAIN downloadedBlocks' :
            \/ i \in DOMAIN downloadedBlocks /\ downloadedBlocks'[i] = downloadedBlocks[i]
            \/ i = Len(downloadedBlocks) + 1 /\ downloadedBlocks'[i] = expectedNext
      BY <2>1, Sending DEF TypeOK
    <3> QED BY <2>1, <3>1, <3>2 DEF TypeOK, DeliveredInOrder
  <2>4. FromDownloads(Except)'
    <3>1. UNCHANGED downloads /\ downloads[h] = "drain"
      BY <1>18 DEF DownloadSend
    <3> QED BY <2>1, <3>1 DEF TypeOK, FromDownloads
  <2>5. /\ HashesInOrder'
        /\ OneDownloadPerHash'
        /\ OneBlockInHand'
    BY <1>18 DEF DownloadSend, goesOn, TypeOK, HashesInOrder, OneDownloadPerHash,
           running, OneBlockInHand
  <2> QED BY <2>2, <2>3, <2>4, <2>5
<1>19. ASSUME NEW h \in Served, DownloadSendPanics(h) PROVE Orderly(Except)'
  <2>1. TypeOK'
    BY <1>19 DEF DownloadSendPanics, goesOn, due, mutexFree, TypeOK, HeadersPCs,
           DispatchPCs, DownloadPCs, ScannerPCs
  <2>2. /\ DeliveredInOrder'
        /\ HashesInOrder'
        /\ OneDownloadPerHash'
        /\ FromDownloads(Except)'
        /\ OneBlockInHand'
    BY <1>19 DEF DownloadSendPanics, goesOn, TypeOK, DeliveredInOrder,
           HashesInOrder, OneDownloadPerHash, running, FromDownloads,
           OneBlockInHand
  <2> QED BY <2>1, <2>2
<1>20. ASSUME NEW h \in Served, DownloadUnlock(h) PROVE Orderly(Except)'
  <2>1. TypeOK'
    BY <1>20 DEF DownloadUnlock, goesOn, due, mutexFree, TypeOK, HeadersPCs,
           DispatchPCs, DownloadPCs, ScannerPCs
  <2>2. OneDownloadPerHash'
    BY <1>20 DEF DownloadUnlock, goesOn, due, mutexFree, TypeOK, OneDownloadPerHash,
           running
  <2>3. FromDownloads(Except)'
    BY <1>20 DEF DownloadUnlock, goesOn, due, mutexFree, TypeOK,
           FromDownloads
  <2>4. /\ DeliveredInOrder'
        /\ HashesInOrder'
        /\ OneBlockInHand'
    BY <1>20 DEF DownloadUnlock, goesOn, TypeOK, DeliveredInOrder, HashesInOrder,
           OneBlockInHand
  <2> QED BY <2>1, <2>2, <2>3, <2>4
<1>21. ASSUME NEW h \in Served, DownloadRelease(h) PROVE Orderly(Except)'
  <2>1. /\ h \in running /\ slots' = slots - 1
        /\ downloads' = [downloads EXCEPT ![h] = "done"]
    BY <1>21 DEF DownloadRelease, goesOn, running
  <2>2. Cardinality(running') = Cardinality(running) - 1 /\ Cardinality(running) > 0
    <3>1. running' = running \ {h}
      BY <2>1 DEF running, TypeOK
    <3>2. running /= {}
      BY <2>1
    <3> QED BY <3>1, <3>2, <2>1, RunningIsFinite, FS_RemoveElement, FS_EmptySet
  <2>3. TypeOK'
    BY <1>21, <2>1, <2>2, RunningIsFinite
       DEF DownloadRelease, TypeOK, OneDownloadPerHash, HeadersPCs, DispatchPCs, DownloadPCs, ScannerPCs
  <2>4. OneDownloadPerHash'
    BY <1>21, <2>1, <2>2 DEF DownloadRelease, goesOn, due, mutexFree, TypeOK,
           OneDownloadPerHash, running
  <2>5. FromDownloads(Except)'
    BY <1>21, <2>1, <2>2 DEF DownloadRelease, goesOn, due, mutexFree, TypeOK,
           FromDownloads
  <2>6. /\ DeliveredInOrder'
        /\ HashesInOrder'
        /\ OneBlockInHand'
    BY <1>21 DEF DownloadRelease, goesOn, TypeOK, DeliveredInOrder, HashesInOrder,
           OneBlockInHand
  <2> QED BY <2>3, <2>4, <2>5, <2>6
<1>22. CASE UNCHANGED vars
  <2>1. /\ TypeOK'
        /\ DeliveredInOrder'
        /\ HashesInOrder'
        /\ OneDownloadPerHash'
        /\ FromDownloads(Except)'
        /\ OneBlockInHand'
    BY <1>22 DEF vars, TypeOK, HeadersPCs, DispatchPCs, DownloadPCs, ScannerPCs,
           DeliveredInOrder, HashesInOrder, OneDownloadPerHash, running,
           FromDownloads, OneBlockInHand
  <2> QED BY <2>1
<1> QED
  BY <1>1, <1>2, <1>3, <1>4, <1>5, <1>6, <1>7, <1>8, <1>9, <1>10, <1>11, <1>12,
     <1>13, <1>14, <1>15, <1>16, <1>17, <1>18, <1>19, <1>20, <1>21, <1>22
     DEF Next, Headers, Dispatch, Download, Scanner

\* What is due is sent before the mutex is free, and the map keeps the rest.
LEMMA StepLeavesNothing ==
  ASSUME IteratorInvariant, [Next]_vars
  PROVE  NothingLeftBehind'
<1> USE DEF IteratorInvariant
<1> USE DEF process, headers, dispatch, ordering, scanner, source, delivery, Served
<1>1. CASE \/ Cancel \/ Headers \/ DispatchReceive \/ DispatchEnd \/ Scanner
           \/ (\E h \in Served : DownloadSendPanics(h)) \/ UNCHANGED vars
  <2>1. UNCHANGED <<downloads, orderingBlocks, expectedNext>> /\ (ctxDone => ctxDone')
    BY <1>1 DEF Cancel, Headers, HeadersCheck, HeadersFetch, HeadersFetchFails, HeadersSend,
         DispatchReceive, DispatchEnd, Scanner, ScannerReceive, ScannerEnd, ScannerCheck,
         ScannerHandle, ScannerHandleFails, DownloadSendPanics, vars
  <2> QED BY <2>1 DEF NothingLeftBehind, mutexFree
<1>2. CASE DispatchSpawn
  <2>1. /\ blockHash \in Served
        /\ downloads' = [h \in Served |-> IF h = blockHash THEN "check" ELSE downloads[h]]
        /\ downloads[blockHash] = "none"
    BY <1>2 DEF DispatchSpawn, TypeOK, HashesInOrder, OneDownloadPerHash
  <2> QED BY <1>2, <2>1 DEF DispatchSpawn, NothingLeftBehind, mutexFree
<1>3. ASSUME NEW h \in Served, DownloadCheck(h) PROVE NothingLeftBehind'
  BY <1>3 DEF DownloadCheck, goesOn, due, mutexFree, TypeOK, NothingLeftBehind
<1>4. ASSUME NEW h \in Served, DownloadFetch(h) PROVE NothingLeftBehind'
  BY <1>4 DEF DownloadFetch, goesOn, due, mutexFree, TypeOK, NothingLeftBehind
<1>5. ASSUME NEW h \in Served, DownloadFetchFails(h) PROVE NothingLeftBehind'
  BY <1>5 DEF DownloadFetchFails, goesOn, due, mutexFree, TypeOK, NothingLeftBehind
<1>6. ASSUME NEW h \in Served, DownloadLock(h) PROVE NothingLeftBehind'
  BY <1>6 DEF DownloadLock, goesOn, due, mutexFree, TypeOK, NothingLeftBehind
<1>7. ASSUME NEW h \in Served, DownloadSend(h) PROVE NothingLeftBehind'
  <2>1. /\ expectedNext \in orderingBlocks /\ expectedNext' = expectedNext + 1
        /\ orderingBlocks' = orderingBlocks \ {expectedNext}
    BY <1>7 DEF DownloadSend, due
  <2> QED BY <1>7, <2>1 DEF DownloadSend, mutexFree, TypeOK, NothingLeftBehind
<1>8. ASSUME NEW h \in Served, DownloadUnlock(h) PROVE NothingLeftBehind'
  BY <1>8 DEF DownloadUnlock, goesOn, due, mutexFree, TypeOK, NothingLeftBehind
<1>9. ASSUME NEW h \in Served, DownloadRelease(h) PROVE NothingLeftBehind'
  BY <1>9 DEF DownloadRelease, goesOn, due, mutexFree, TypeOK, NothingLeftBehind
<1> QED
  BY <1>1, <1>2, <1>3, <1>4, <1>5, <1>6, <1>7, <1>8, <1>9 DEF Next, Dispatch, Download

LEMMA StepKeepsInvariant ==
  ASSUME IteratorInvariant, [Next]_vars
  PROVE  IteratorInvariant'
<1>1. Orderly({})'
  BY StepKeepsOrder, InvariantIsOrderly
<1>2. NothingLeftBehind'
  BY StepLeavesNothing
<1>3. FromDownloads({})' => BlocksComeFromDownloads'
  BY DEF FromDownloads, BlocksComeFromDownloads
<1> QED BY <1>1, <1>2, <1>3 DEF IteratorInvariant, Orderly

\* The order of the blocks, the bookkeeping of the goroutines and of the mutex
\* hold in every state that the iterator and the scanner can reach.
THEOREM IteratorInvariantHolds == Spec => []IteratorInvariant
<1>1. Init => IteratorInvariant
  BY InitEstablishesInvariant
<1>2. IteratorInvariant /\ [Next]_vars => IteratorInvariant'
  BY StepKeepsInvariant
<1> QED BY <1>1, <1>2, PTL DEF Spec

\* Type correctness of the iterator and of the scanner's loop.
THEOREM IteratorTypeCorrect == Spec => []TypeOK
<1>1. IteratorInvariant => TypeOK
  BY DEF IteratorInvariant
<1> QED BY <1>1, IteratorInvariantHolds, PTL

\* However the downloads overtake one another, the channel holds the blocks in
\* the order of the chain, from the one the scanner takes next (iterator.go:150).
THEOREM BlocksAreDeliveredInOrder == Spec => []DeliveredInOrder
<1>1. IteratorInvariant => DeliveredInOrder
  BY DEF IteratorInvariant
<1> QED BY <1>1, IteratorInvariantHolds, PTL

\* No block that is due is left in the map when the mutex is free, and no block
\* that has been downloaded gets lost (iterator.go:145-160).
THEOREM NoBlockIsLeftBehind == Spec => []NothingLeftBehind
<1>1. IteratorInvariant => NothingLeftBehind
  BY DEF IteratorInvariant
<1> QED BY <1>1, IteratorInvariantHolds, PTL

-----------------------------------------------------------------------------
(* The refinement of BlockStream. *)

LEMMA InitMapsToStream == Init => Stream!Init
BY DEF Init, Stream!Init

\* The handler's success is the stream's next block; the return of the scanner
\* and a panic are its end; nothing else is visible.
LEMMA StepMapsToStream ==
  ASSUME NEW Except, Orderly(Except), [Next]_vars
  PROVE  [Stream!Next]_<<handled, panicked \/ scannerPc = "stopped">>
<1> USE IteratorConstants
    DEF process, headers, dispatch, ordering, scanner, source, delivery,
        Orderly
<1> DEFINE over == panicked \/ scannerPc = "stopped"
<1>1. CASE ScannerHandle
  <2>1. ~over /\ handled = taken - 1 /\ handled' = taken /\ ~over'
    BY <1>1 DEF ScannerHandle, OneBlockInHand
  <2>2. handled < Tip /\ handled' = handled + 1
    BY <2>1 DEF TypeOK
  <2> QED BY <2>1, <2>2 DEF Stream!Next, Stream!Handle
<1>2. ASSUME ~over, over', handled' = handled PROVE Stream!Next
  BY <1>2 DEF Stream!Next, Stream!Stop
<1>3. ASSUME NEW h \in Served, DownloadSendPanics(h)
      PROVE  handled' = handled /\ over' /\ ~panicked
  BY <1>3 DEF DownloadSendPanics
<1>4. CASE ScannerEnd \/ (ScannerCheck /\ ctxDone)
  <2>1. handled' = handled /\ over' /\ ~over
    BY <1>4 DEF ScannerEnd, ScannerCheck
  <2> QED BY <2>1, <1>2
<1>5. CASE \/ Cancel \/ Headers \/ Dispatch \/ ScannerReceive
           \/ (ScannerCheck /\ ~ctxDone) \/ ScannerHandleFails
           \/ UNCHANGED vars
  <2>1. handled' = handled /\ (over' <=> over)
    BY <1>5 DEF Cancel, Headers, HeadersCheck, HeadersFetch, HeadersFetchFails,
         HeadersSend, Dispatch, DispatchReceive, DispatchSpawn, DispatchEnd,
         ScannerReceive, ScannerCheck, ScannerHandleFails, vars
  <2> QED BY <2>1
<1>6. ASSUME NEW h \in Served, Download(h), ~DownloadSendPanics(h)
      PROVE  handled' = handled /\ (over' <=> over)
  BY <1>6 DEF Download, DownloadCheck, DownloadFetch, DownloadFetchFails,
       DownloadLock, DownloadSend, DownloadUnlock, DownloadRelease
<1>7. ASSUME NEW h \in Served, Download(h)
      PROVE  [Stream!Next]_<<handled, over>>
  <2>1. CASE DownloadSendPanics(h)
    <3>1. CASE over
      BY <2>1, <3>1, <1>3
    <3>2. CASE ~over
      BY <2>1, <3>2, <1>3, <1>2
    <3> QED BY <3>1, <3>2
  <2>2. CASE ~DownloadSendPanics(h)
    BY <1>7, <2>2, <1>6
  <2> QED BY <2>1, <2>2
<1> QED BY <1>1, <1>4, <1>5, <1>7 DEF Next, Scanner

\* The goroutines, the channels, the retries and the cancellation implement the
\* loop over the blocks that the handler relies on.
THEOREM IteratorImplementsStream == Spec => ImplementsStream
<1>1. Init => Stream!Init
  BY InitMapsToStream
<1>2. IteratorInvariant /\ [Next]_vars
        => [Stream!Next]_<<handled, panicked \/ scannerPc = "stopped">>
  BY StepMapsToStream, InvariantIsOrderly
<1> QED BY <1>1, <1>2, IteratorInvariantHolds, PTL
        DEF Spec, ImplementsStream, Stream!Spec

-----------------------------------------------------------------------------
(* The iterator over the client. *)

\* The block of an empty answer is in its store or past it, but not in the map;
\* what comes before it may be sent and nothing else.  Height 0, which an empty
\* block has itself, is the exception.
EmptyIsNowhere ==
  \A h \in empty :
    /\ h \in Served
    /\ downloads[h] \in {"lock", "drain", "release", "done"}
    /\ h /= 0 => h \notin orderingBlocks /\ h >= expectedNext

\* A lost hash was asked for, and all that its download can get is empty.
LostIsNowhere ==
  \A l \in lost :
    /\ l \in Served
    /\ l < currentBlockHeight
    /\ l /= 0 => l \notin orderingBlocks /\ l >= expectedNext
    /\ downloads[l] = "lock" => l \in empty

\* NothingLeftBehind is not a part of it: an empty block is left behind.
NodeInvariant ==
  /\ Orderly({0})
  /\ handled <= taken
  /\ EmptyIsNowhere
  /\ LostIsNowhere

LEMMA NodeInitEstablishesInvariant == NodeInit => NodeInvariant
<1>1. Init => IteratorInvariant /\ handled <= taken
  BY InitEstablishesInvariant, IteratorConstants DEF Init
<1>2. BlocksComeFromDownloads => FromDownloads({0})
  BY DEF BlocksComeFromDownloads, FromDownloads
<1> QED BY <1>1, <1>2
        DEF NodeInit, NodeInvariant, IteratorInvariant, Orderly, EmptyIsNowhere,
            LostIsNowhere

\* The store of an empty block: the mutex is taken, and what is put in the map is
\* under height 0, if that is in the scan.
StoreEmpty(h) ==
  /\ h \in empty
  /\ mutexFree
  /\ goesOn(h, "lock", "drain")
  /\ orderingBlocks' = orderingBlocks \union ({0} \intersect Served)
  /\ UNCHANGED <<process, source, slots, expectedNext, downloadedBlocks, scanner>>

LEMMA StoreEmptyKeepsOrder ==
  ASSUME Orderly({0}), NEW h \in Served, StoreEmpty(h)
  PROVE  Orderly({0})'
<1> USE IteratorConstants
    DEF process, headers, dispatch, ordering, scanner, source, delivery, Served,
        Orderly
<1>1. TypeOK'
  BY DEF StoreEmpty, goesOn, TypeOK, HeadersPCs, DispatchPCs, DownloadPCs, ScannerPCs
<1>2. OneDownloadPerHash'
  BY DEF StoreEmpty, goesOn, mutexFree, TypeOK, OneDownloadPerHash, running
<1>3. FromDownloads({0})'
  BY DEF StoreEmpty, goesOn, TypeOK, FromDownloads
<1>4. /\ DeliveredInOrder'
      /\ HashesInOrder'
      /\ OneBlockInHand'
  BY DEF StoreEmpty, goesOn, TypeOK, DeliveredInOrder, HashesInOrder, OneBlockInHand
<1> QED BY <1>1, <1>2, <1>3, <1>4

\* Over the client the iterator's steps are its own, and the store of an empty
\* block.
LEMMA NodeStepIsStep ==
  ASSUME [NodeNext]_<<vars, nodeVars>>
  PROVE  \/ [Next]_vars
         \/ \E h \in Served : StoreEmpty(h) /\ UNCHANGED nodeVars
<1>1. CASE HeadersOverNode
  BY <1>1 DEF HeadersOverNode, AskForHash, Next, Headers
<1>2. ASSUME NEW h \in Served, DownloadOverNode(h)
      PROVE  Download(h) \/ (StoreEmpty(h) /\ UNCHANGED nodeVars)
  <2>1. CASE Store(h) /\ h \in empty
    BY <2>1 DEF Store, StoreEmpty, heightOf, nodeVars
  <2>2. CASE Store(h) /\ h \notin empty
    <3>1. {heightOf(h)} \intersect Served = {h}
      BY <2>2 DEF heightOf
    <3> QED BY <2>2, <3>1 DEF Store, DownloadLock, Download
  <2> QED BY <1>2, <2>1, <2>2 DEF DownloadOverNode, AskForBlock, Download
<1> QED BY <1>1, <1>2 DEF NodeNext, Next

LEMMA NodeStepKeepsOrder ==
  ASSUME Orderly({0}), [NodeNext]_<<vars, nodeVars>>
  PROVE  Orderly({0})'
BY NodeStepIsStep, StepKeepsOrder, StoreEmptyKeepsOrder

\* What the scanner has handled it has taken.
LEMMA HandledIsTaken ==
  ASSUME NodeInvariant, [NodeNext]_<<vars, nodeVars>>
  PROVE  handled' <= taken'
<1> USE DEF process, headers, dispatch, ordering, scanner, source, delivery
<1>1. ASSUME NEW h \in Served, StoreEmpty(h) PROVE handled' <= taken'
  BY <1>1 DEF NodeInvariant, StoreEmpty
<1>2. CASE ScannerReceive
  <2>1. downloadedBlocks[1] = taken + 1 /\ taken' = downloadedBlocks[1]
    BY <1>2, Receiving DEF ScannerReceive, NodeInvariant, Orderly, DeliveredInOrder, TypeOK
  <2> QED BY <1>2, <2>1, IteratorConstants
          DEF ScannerReceive, NodeInvariant, Orderly, TypeOK
<1>3. CASE ScannerHandle
  BY <1>3, IteratorConstants DEF ScannerHandle, NodeInvariant, Orderly, TypeOK
<1>4. CASE \/ Cancel \/ Headers \/ Dispatch \/ (\E h \in Served : Download(h))
           \/ ScannerEnd \/ ScannerCheck \/ ScannerHandleFails \/ UNCHANGED vars
  <2>1. UNCHANGED <<taken, handled>>
    BY <1>4 DEF Cancel, Headers, HeadersCheck, HeadersFetch, HeadersFetchFails,
         HeadersSend, Dispatch, DispatchReceive, DispatchSpawn, DispatchEnd, Download,
         DownloadCheck, DownloadFetch, DownloadFetchFails, DownloadLock, DownloadSend,
         DownloadSendPanics, DownloadUnlock, DownloadRelease, ScannerEnd, ScannerCheck,
         ScannerHandleFails, vars
  <2> QED BY <2>1 DEF NodeInvariant
<1> QED BY <1>1, <1>2, <1>3, <1>4, NodeStepIsStep DEF Next, Scanner

LEMMA NodeStepKeepsPlaces ==
  ASSUME NodeInvariant, [NodeNext]_<<vars, nodeVars>>
  PROVE  EmptyIsNowhere' /\ LostIsNowhere'
<1> USE IteratorConstants, NodeConstants
    DEF process, headers, dispatch, ordering, scanner, source, delivery, nodeVars,
        Served, NodeInvariant, Orderly
<1> DEFINE Places == EmptyIsNowhere /\ LostIsNowhere
\* A new lost hash is of a height that has no download yet.
<1>1. CASE AskForHash
  <2>1. UNCHANGED <<downloads, ordering, empty>>
    BY <1>1 DEF AskForHash, HeadersFetch, HeadersFetchFails
  <2>2. PICK a \in AnswersTo(currentBlockHeight <= Tip) :
           LET r == GetBlockHash(a, currentBlockHeight)
           IN  /\ IF r.err THEN HeadersFetchFails ELSE HeadersFetch
               /\ lost' = IF ~r.err /\ r.value = Empty
                          THEN lost \union {currentBlockHeight} ELSE lost
    BY <1>1 DEF AskForHash
  <2>3. CASE HeadersFetchFails /\ lost' = lost
    <3>1. currentBlockHeight' = currentBlockHeight
      BY <2>3 DEF HeadersFetchFails
    <3> QED BY <2>1, <2>3, <3>1 DEF EmptyIsNowhere, LostIsNowhere
  <2>4. CASE HeadersFetch /\ lost' \subseteq lost \union {currentBlockHeight}
    <3>1. /\ currentBlockHeight \in Served
          /\ currentBlockHeight' = currentBlockHeight + 1
      BY <2>4 DEF HeadersFetch, TypeOK
    <3>2. blockHash < currentBlockHeight
      BY <2>4 DEF HeadersFetch, TypeOK, HashesInOrder
    <3>3. downloads[currentBlockHeight] = "none"
      BY <3>1, <3>2 DEF OneDownloadPerHash
    <3>4. currentBlockHeight /= 0
            => /\ currentBlockHeight \notin orderingBlocks
               /\ currentBlockHeight >= expectedNext
      BY <3>1, <3>3 DEF FromDownloads, TypeOK
    <3> QED BY <2>1, <2>4, <3>1, <3>3, <3>4 DEF EmptyIsNowhere, LostIsNowhere, TypeOK
  <2> QED BY <2>2, <2>3, <2>4
\* The steps that send nothing and store nothing.
<1>2. CASE /\ \/ HeadersCheck \/ HeadersSend \/ Cancel \/ Dispatch \/ Scanner
              \/ UNCHANGED vars
           /\ UNCHANGED nodeVars
  <2>1. UNCHANGED <<currentBlockHeight, orderingBlocks, expectedNext>>
    BY <1>2 DEF HeadersCheck, HeadersSend, Cancel, Dispatch, DispatchReceive,
         DispatchSpawn, DispatchEnd, Scanner, ScannerReceive, ScannerEnd,
         ScannerCheck, ScannerHandle, ScannerHandleFails, vars
  <2>2. CASE DispatchSpawn
    <3>1. /\ blockHash \in Served
          /\ downloads' = [h \in Served |-> IF h = blockHash THEN "check" ELSE downloads[h]]
          /\ downloads[blockHash] = "none"
      BY <2>2 DEF DispatchSpawn, TypeOK, HashesInOrder, OneDownloadPerHash
    <3> QED BY <1>2, <2>1, <3>1 DEF EmptyIsNowhere, LostIsNowhere
  <2>3. CASE ~DispatchSpawn
    <3>1. downloads' = downloads
      BY <1>2, <2>3 DEF HeadersCheck, HeadersSend, Cancel, Dispatch, DispatchReceive,
           DispatchEnd, Scanner, ScannerReceive, ScannerEnd, ScannerCheck,
           ScannerHandle, ScannerHandleFails, vars
    <3> QED BY <1>2, <2>1, <3>1 DEF EmptyIsNowhere, LostIsNowhere
  <2> QED BY <2>2, <2>3
\* A new empty block is of a download that has put nothing in the map.
<1>3. ASSUME NEW h \in Served, AskForBlock(h) PROVE Places'
  <2>1. PICK a \in AnswersTo(h \notin lost) :
           LET r == GetBlock(a, h)
           IN  /\ IF r.err THEN DownloadFetchFails(h) ELSE DownloadFetch(h)
               /\ empty' = IF ~r.err /\ r.value = Empty
                           THEN empty \union {h} ELSE empty
    BY <1>3 DEF AskForBlock
  <2>2. downloads[h] = "fetch" /\ lost' = lost
        /\ UNCHANGED <<currentBlockHeight, orderingBlocks, expectedNext>>
    BY <1>3 DEF AskForBlock, DownloadFetch, DownloadFetchFails, goesOn
  <2>3. /\ h /= 0 => h \notin orderingBlocks /\ h >= expectedNext
        /\ h \notin empty
    <3>1. h \notin empty
      BY <2>2 DEF EmptyIsNowhere
    <3>2. expectedNext \in Int /\ h \in Int
      BY DEF TypeOK
    <3>3. h /= 0 => ~(h < expectedNext \/ h \in orderingBlocks)
      BY <2>2 DEF FromDownloads
    <3> QED BY <3>1, <3>2, <3>3
  <2>4. CASE DownloadFetchFails(h) /\ empty' = empty
    <3>1. downloads' = [g \in Served |-> IF g = h THEN "check" ELSE downloads[g]]
      BY <2>4 DEF DownloadFetchFails, goesOn, TypeOK
    <3> QED BY <2>2, <2>3, <2>4, <3>1 DEF EmptyIsNowhere, LostIsNowhere
  <2>5. CASE DownloadFetch(h) /\ empty' = IF GetBlock(a, h).value = Empty
                                          THEN empty \union {h} ELSE empty
    <3>1. downloads' = [g \in Served |-> IF g = h THEN "lock" ELSE downloads[g]]
      BY <2>5 DEF DownloadFetch, goesOn, TypeOK
    <3>2. CASE GetBlock(a, h).value = Empty
      BY <2>2, <2>3, <2>5, <3>1, <3>2 DEF EmptyIsNowhere, LostIsNowhere
    <3>3. CASE GetBlock(a, h).value /= Empty
      <4>1. h \notin lost
        <5>1. h \in lost => a /= "json" /\ a \in AllAnswers
          BY <2>1 DEF AnswersTo
        <5> QED BY <3>3, <5>1 DEF GetBlock, Call, callRest, Error, AllAnswers
      <4> QED BY <2>2, <2>3, <2>5, <3>1, <3>3, <4>1 DEF EmptyIsNowhere, LostIsNowhere
    <3> QED BY <3>2, <3>3
  <2> QED BY <2>1, <2>4, <2>5
\* What is put in the map under its own height is not empty, so its hash was not
\* lost; an empty block can only be put there under height 0.
<1>4. ASSUME NEW h \in Served, Store(h) PROVE Places'
  <2>1. /\ downloads[h] = "lock"
        /\ downloads' = [g \in Served |-> IF g = h THEN "drain" ELSE downloads[g]]
        /\ UNCHANGED <<currentBlockHeight, expectedNext, lost, empty>>
    BY <1>4 DEF Store, goesOn, TypeOK
  <2>2. CASE h \in empty /\ orderingBlocks' \subseteq orderingBlocks \union {0}
    BY <2>1, <2>2 DEF EmptyIsNowhere, LostIsNowhere
  <2>3. CASE h \notin empty /\ orderingBlocks' \subseteq orderingBlocks \union {h}
    <3>1. h \notin lost
      BY <2>1, <2>3 DEF LostIsNowhere
    <3> QED BY <2>1, <2>3, <3>1 DEF EmptyIsNowhere, LostIsNowhere
  <2> QED BY <1>4, <2>2, <2>3 DEF Store, heightOf
\* Only a member of the map advances the next expected height.
<1>5. ASSUME NEW h \in Served, DownloadSend(h), UNCHANGED nodeVars PROVE Places'
  <2>1. /\ expectedNext \in orderingBlocks /\ expectedNext' = expectedNext + 1
        /\ orderingBlocks' = orderingBlocks \ {expectedNext}
        /\ UNCHANGED <<downloads, currentBlockHeight>>
    BY <1>5 DEF DownloadSend, due
  <2> QED BY <1>5, <2>1 DEF EmptyIsNowhere, LostIsNowhere, TypeOK
<1>6. ASSUME NEW h \in Served, UNCHANGED nodeVars,
             \/ DownloadCheck(h) \/ DownloadSendPanics(h)
             \/ DownloadUnlock(h) \/ DownloadRelease(h)
      PROVE  Places'
  <2>1. UNCHANGED <<currentBlockHeight, orderingBlocks, expectedNext, lost, empty>>
    BY <1>6 DEF DownloadCheck, DownloadSendPanics, DownloadUnlock, DownloadRelease
  <2>2. \A g \in Served :
          /\ downloads[g] \in {"lock", "drain", "release", "done"}
               => downloads'[g] \in {"lock", "drain", "release", "done"}
          /\ downloads'[g] = "lock" => downloads[g] = "lock"
    BY <1>6 DEF DownloadCheck, DownloadSendPanics, DownloadUnlock, DownloadRelease,
         goesOn, TypeOK
  <2> QED BY <2>1, <2>2 DEF EmptyIsNowhere, LostIsNowhere
<1> QED
  BY <1>1, <1>2, <1>3, <1>4, <1>5, <1>6
     DEF NodeNext, HeadersOverNode, DownloadOverNode

LEMMA NodeStepKeepsInvariant ==
  ASSUME NodeInvariant, [NodeNext]_<<vars, nodeVars>>
  PROVE  NodeInvariant'
<1>1. Orderly({0})'
  BY NodeStepKeepsOrder DEF NodeInvariant
<1> QED BY <1>1, HandledIsTaken, NodeStepKeepsPlaces DEF NodeInvariant

\* Over the client, whatever the node answers and wherever the scan starts, the
\* iterator keeps the order of its heights and has no block in the map for an
\* empty answer, but for one at height 0, where the empty block itself may be.
THEOREM NodeInvariantHolds == NodeSpec => []NodeInvariant
<1>1. NodeInit => NodeInvariant
  BY NodeInitEstablishesInvariant
<1>2. NodeInvariant /\ [NodeNext]_<<vars, nodeVars>> => NodeInvariant'
  BY NodeStepKeepsInvariant
<1> QED BY <1>1, <1>2, PTL DEF NodeSpec

\* Above height 0 an empty block is never sent in the place of the one that was
\* asked for, and no block after that one either (iterator.go:145-160).
THEOREM NothingIsSentPastEmpty == NodeSpec => []NothingSentPastEmpty
<1>1. NodeInvariant => NothingSentPastEmpty
  <2> SUFFICES ASSUME NodeInvariant, NEW h \in (empty \union lost) \ {0}
               PROVE  h >= expectedNext /\ handled < h
    BY DEF NothingSentPastEmpty
  <2>1. h \in Served /\ h >= expectedNext
    BY DEF NodeInvariant, EmptyIsNowhere, LostIsNowhere
  <2>2. handled <= taken /\ taken < expectedNext
    BY DEF NodeInvariant, Orderly, DeliveredInOrder, TypeOK
  <2> QED BY <2>1, <2>2, IteratorConstants DEF NodeInvariant, Orderly, TypeOK, Served
<1> QED BY <1>1, NodeInvariantHolds, PTL

\* The client's empty values do not change the order of the heights at which the
\* handler is called: one after the other from the first, and an end.  (It says
\* nothing of what is in the block of height 0, which may be an empty one.)
THEOREM NodeImplementsStream == NodeSpec => ImplementsStream
<1>1. NodeInit => Stream!Init
  BY InitMapsToStream DEF NodeInit
<1>2. NodeInvariant /\ [NodeNext]_<<vars, nodeVars>>
        => [Stream!Next]_<<handled, panicked \/ scannerPc = "stopped">>
  <2> SUFFICES ASSUME NodeInvariant, [NodeNext]_<<vars, nodeVars>>
               PROVE  [Stream!Next]_<<handled, panicked \/ scannerPc = "stopped">>
    OBVIOUS
  <2>1. ASSUME NEW h \in Served, StoreEmpty(h)
        PROVE  UNCHANGED <<handled, panicked, scannerPc>>
    BY <2>1 DEF StoreEmpty, process, scanner
  <2>2. CASE [Next]_vars
    BY <2>2, StepMapsToStream DEF NodeInvariant
  <2> QED BY <2>1, <2>2, NodeStepIsStep
<1> QED BY <1>1, <1>2, NodeInvariantHolds, PTL
        DEF NodeSpec, ImplementsStream, Stream!Spec
===============================================================================
