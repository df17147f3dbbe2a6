---------------------------- MODULE IteratorOverNode --------------------------
(***************************************************************************)
(* The blocks iterator over the REST client: what the client makes of the   *)
(* node's answers, and what the iterator makes of that.  An answer of 200   *)
(* that is not JSON, or does not decode, becomes an empty value and no      *)
(* error.  The iterator takes the empty hash for the one it has asked for,  *)
(* and stores the empty block under its height, which is 0: in a scan that  *)
(* starts from the genesis block (di.go:246, a store without a block) that  *)
(* is the height it waits for, and the empty block is sent in its place.    *)
(***************************************************************************)
EXTENDS BlocksIterator

CONSTANTS
  Answers, \* the answers that the node, or what is before it, may give
  Empty    \* a value whose fields json.Unmarshal has not set

\* refused    no response, or a body that cannot be read
\* notfound   404
\* status     another status than 200
\* json       200, and the value
\* undecoded  200, and JSON that does not decode (from its first byte)
\* type       200, and a body of another content type
AllAnswers == {"refused", "notfound", "status", "json", "undecoded", "type"}

ASSUME NodeConstants ==
  /\ Answers \subseteq AllAnswers
  /\ Empty \notin Nat

VARIABLES
  lost, \* the heights whose hash has come empty
  empty \* the hashes whose block has come empty

nodeVars == <<lost, empty>>

-----------------------------------------------------------------------------
(* The client. *)

\* callRest: the response (none, or its status), the error and the value.
callRest(answer, value) ==
  [res   |-> CASE answer = "refused"  -> "none"
               [] answer = "notfound" -> "404"
               [] answer = "status"   -> "500"
               [] OTHER               -> "200",
   err   |-> answer /= "json",
   value |-> IF answer = "json" THEN value ELSE Empty]

Error == [err |-> TRUE, value |-> Empty]

\* What the four calls have in common: an error with a response is no error.
Call(answer, value) ==
  LET r == callRest(answer, value)
  IN  IF (r.err /\ r.res = "none") \/ r.res /= "200" THEN Error
      ELSE [err |-> FALSE, value |-> r.value]

GetBlockHash(answer, height) == Call(answer, height)
GetBlock(answer, hash)       == Call(answer, hash)

\* The node has no value for what it does not know.
AnswersTo(known) == {a \in Answers : a = "json" => known}

-----------------------------------------------------------------------------
(* The iterator. *)

NodeInit == Init /\ lost = {} /\ empty = {}

\* After an empty hash the next height is asked for as after any other.
AskForHash ==
  \E a \in AnswersTo(currentBlockHeight <= Tip) :
    LET r == GetBlockHash(a, currentBlockHeight)
    IN  /\ IF r.err THEN HeadersFetchFails ELSE HeadersFetch
        /\ lost' = IF ~r.err /\ r.value = Empty
                   THEN lost \union {currentBlockHeight} ELSE lost
        /\ UNCHANGED empty

\* The node has no block for an empty hash.
AskForBlock(h) ==
  \E a \in AnswersTo(h \notin lost) :
    LET r == GetBlock(a, h)
    IN  /\ IF r.err THEN DownloadFetchFails(h) ELSE DownloadFetch(h)
        /\ empty' = IF ~r.err /\ r.value = Empty THEN empty \union {h} ELSE empty
        /\ UNCHANGED lost

\* GetHeight of what has come for hash h.
heightOf(h) == IF h \in empty THEN 0 ELSE h

\* (mutant: a block is stored under the height that was asked for)
StoreAsAsked(h) == DownloadLock(h) /\ UNCHANGED nodeVars

\* A height before the start is one nobody waits for.
Store(h) ==
  /\ mutexFree
  /\ goesOn(h, "lock", "drain")
  /\ orderingBlocks' = orderingBlocks \union ({heightOf(h)} \intersect Served)
  /\ UNCHANGED <<process, source, slots, expectedNext, downloadedBlocks, scanner, nodeVars>>

HeadersOverNode == AskForHash \/ ((HeadersCheck \/ HeadersSend) /\ UNCHANGED nodeVars)
DownloadOverNode(h) ==
  \/ AskForBlock(h) \/ Store(h)
  \/ /\ \/ DownloadCheck(h) \/ DownloadSend(h) \/ DownloadSendPanics(h)
        \/ DownloadUnlock(h) \/ DownloadRelease(h)
     /\ UNCHANGED nodeVars

NodeNext ==
  \/ HeadersOverNode
  \/ \E h \in Served : DownloadOverNode(h)
  \/ (Cancel \/ Dispatch \/ Scanner) /\ UNCHANGED nodeVars
NodeSpec == NodeInit /\ [][NodeNext]_<<vars, nodeVars>>

-----------------------------------------------------------------------------
(* What is checked. *)

\* Whatever the node answers, an empty block is never sent in the place of the
\* one that was asked for, and no block after that either: the iterator goes by
\* the height in the block and not by that of the hash (iterator.go:148).  The
\* genesis block is the exception: an empty block, asked for as any other, has its
\* height, and a scan from height 0 sends it and goes on.
NothingSentPastEmpty ==
  \A h \in (empty \union {l \in lost : l < currentBlockHeight}) \ {0} :
    h >= expectedNext /\ handled < h
===============================================================================
