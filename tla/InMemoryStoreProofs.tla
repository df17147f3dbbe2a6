-------------------------- MODULE InMemoryStoreProofs -------------------------
(***************************************************************************)
(* Proofs about InMemoryStore, for any number of goroutines, keys and       *)
(* values, and whatever they do.                                            *)
(***************************************************************************)
EXTENDS InMemoryStore, FiniteSetTheorems, TLAPS

CallerPCs == {"idle", "callback", "wantRead", "reading", "wantWrite", "announced",
              "writing"}
SaverPCs  == {"select", "wantWrite", "announced", "writing", "encoding", "ended"}
Calls     == [op : {"none", "get", "flush", "list"}]
               \union [op : {"delete"}, key : Keys]
               \union [op : {"set"}, key : Keys, value : Values]
Listings  == [over : {"nothing", "store", "flushed"},
              due : SUBSET Keys, fresh : SUBSET Keys]

MemoryTypes ==
  /\ s \in Map
  /\ pc \in [Procs -> PCs]
  /\ \A c \in Callers : pc[c] \in CallerPCs
  /\ pc[Saver] \in SaverPCs
  /\ call \in [Callers -> Calls]
  /\ listing \in [Callers -> Listings]
  /\ readers \in Nat
  /\ stopped \in BOOLEAN
  /\ closed \in BOOLEAN
  /\ saved \in Map
  /\ touched \subseteq Keys

\* The writer, and the one that comes next, are the goroutines that say so, and
\* there is no next one while there is a writer.  This is so whatever becomes of
\* the count of the readers.
WriterAlone ==
  /\ announced \in Procs \union {Nobody} /\ writer \in Procs \union {Nobody}
  /\ \A p \in Procs : HoldsLock(p) <=> writer = p
  /\ \A p \in Procs : pc[p] = "announced" <=> announced = p
  /\ announced /= Nobody => writer = Nobody

\* The count of the readers is right until a listing is stopped.
Reading == {c \in Callers : pc[c] = "reading"}
ReadersCounted ==
  /\ IsFiniteSet(Reading)
  /\ ~stopped => /\ readers = Cardinality(Reading)
                 /\ writer /= Nobody => readers = 0
                 /\ life /= "fatal"

RangesHaveKeys ==
  \A c \in Callers : listing[c].over = "store" =>
    listing[c].due \union listing[c].fresh \subseteq Present(s)

\* What the saver has encoded is a part of the map, which does not change under
\* it; the file is a whole save, or none.
SaveIsOfOneMoment ==
  /\ pc[Saver] = "encoding" =>
       /\ DOMAIN encoded \subseteq Keys
       /\ encoded = [k \in DOMAIN encoded |-> s[k]]
  /\ file \in {EmptyMap, Torn, saved}

\* The saver ends after the last save, and that begins after Close.
SavedAtClose ==
  /\ ~Persistent => ~closed
  /\ Persistent /\ pc[Saver] = "ended" => last
  /\ last => closed
  /\ ~closed => touched = {}
  /\ closed /\ pc[Saver] = "ended" /\ file /= Torn =>
       \A k \in Keys \ touched : file[k] = s[k]

MemoryInvariant ==
  /\ MemoryTypes
  /\ WriterAlone
  /\ ReadersCounted
  /\ RangesHaveKeys
  /\ SaveIsOfOneMoment
  /\ SavedAtClose

-----------------------------------------------------------------------------
LEMMA NoneReading ==
  ASSUME Reading = {} PROVE IsFiniteSet(Reading) /\ Cardinality(Reading) = 0
BY FS_EmptySet

LEMMA InitEstablishesMemoryInvariant == Init => MemoryInvariant
<1> SUFFICES ASSUME Init PROVE MemoryInvariant
  OBVIOUS
<1> USE InMemoryConstants DEF Init, Procs
<1>1. MemoryTypes
  BY DEF MemoryTypes, Map, EmptyMap, PCs, CallerPCs, SaverPCs, Calls, NoCall, Listings,
         NoListing
<1>2. WriterAlone
  BY DEF WriterAlone, HoldsLock
<1>3. ReadersCounted
  <2>1. Reading = {}
    BY DEF Reading
  <2> QED BY <2>1, NoneReading DEF ReadersCounted
<1>4. RangesHaveKeys
  BY DEF RangesHaveKeys, NoListing
<1>5. SaveIsOfOneMoment
  BY DEF SaveIsOfOneMoment
<1>6. SavedAtClose
  BY DEF SavedAtClose
<1> QED BY <1>1, <1>2, <1>3, <1>4, <1>5, <1>6 DEF MemoryInvariant

\* A goroutine comes into the store: a call from outside or from a callback, or
\* the next round of a listing.
Entering(c) ==
  /\ life = "up" /\ pc[c] \in {"idle", "callback"}
  /\ \E op \in Calls : call' = [call EXCEPT ![c] = op]
  /\ \E step \in {"wantRead", "wantWrite"} : pc' = [pc EXCEPT ![c] = step]
  /\ UNCHANGED <<s, listing, lock, disk, touched, stopped, life>>

LEMMA CallsEnter ==
  ASSUME NEW c \in Callers,
         \/ CallGet(c) \/ CallSet(c) \/ CallDelete(c) \/ CallFlush(c)
         \/ CallListKeys(c) \/ Continue(c)
  PROVE  Entering(c)
<1> USE DEF Calls, Goto, Entering
<1>1. CASE CallGet(c) \/ CallFlush(c) \/ CallListKeys(c)
  <2>1. /\ [op |-> "get"] \in Calls /\ [op |-> "flush"] \in Calls
        /\ [op |-> "list"] \in Calls
    OBVIOUS
  <2> QED BY <1>1, <2>1 DEF CallGet, CallFlush, CallListKeys, Enter
<1>2. CASE CallSet(c)
  BY <1>2 DEF CallSet, Enter
<1>3. CASE CallDelete(c)
  BY <1>3 DEF CallDelete, Enter
<1>4. CASE Continue(c)
  <2>1. [op |-> "list"] \in Calls
    OBVIOUS
  <2> QED BY <1>4, <2>1 DEF Continue, At
<1> QED BY <1>1, <1>2, <1>3, <1>4

-----------------------------------------------------------------------------
(* The lock. *)

LEMMA StepKeepsWriterAlone ==
  ASSUME MemoryTypes, WriterAlone, [Next]_vars
  PROVE  WriterAlone'
<1> USE InMemoryConstants
    DEF MemoryTypes, WriterAlone, HoldsLock, Procs, lock, At, Goto
\* The steps of callers that do not write.
<1>1. ASSUME NEW c \in Callers, Entering(c) PROVE WriterAlone'
  BY <1>1 DEF Entering
<1>2. ASSUME NEW c \in Callers, Get(c) \/ NextKey(c) \/ PostLastKey(c) \/ StopListing(c)
      PROVE  WriterAlone'
  <2>1. /\ pc[c] \in {"reading", "callback"}
        /\ UNCHANGED <<announced, writer>>
    BY <1>2 DEF Get, NextKey, PostLastKey, StopListing, EndListing, RUnlock
  <2>2. PICK step \in {"idle", "callback"} : pc' = [pc EXCEPT ![c] = step]
    BY <1>2 DEF Get, NextKey, PostLastKey, StopListing, EndListing, Leave, Home
  <2> QED BY <2>1, <2>2
<1>3. ASSUME NEW c \in Callers, Set(c) \/ Delete(c) \/ Flush(c) PROVE WriterAlone'
  <2>1. /\ pc[c] = "writing" /\ writer' = Nobody /\ announced' = announced
    BY <1>3 DEF Set, Delete, Flush, Write, Unlock
  <2>2. PICK step \in {"idle", "callback"} : pc' = [pc EXCEPT ![c] = step]
    BY <1>3 DEF Set, Delete, Flush, Write, Leave, Home
  <2> QED BY <2>1, <2>2
<1>4. ASSUME NEW p \in Procs, RLock(p) PROVE WriterAlone'
  BY <1>4 DEF RLock
<1>5. ASSUME NEW p \in Procs, Announce(p) PROVE WriterAlone'
  BY <1>5 DEF Announce
<1>6. ASSUME NEW p \in Procs, Lock(p) PROVE WriterAlone'
  BY <1>6 DEF Lock
\* The saver, and the process.
<1>7. CASE Truncate
  BY <1>7 DEF Truncate
<1>8. CASE WriteFile \/ WriteFails
  <2>1. pc[Saver] = "encoding" /\ writer' = Nobody /\ announced' = announced
    BY <1>8 DEF WriteFile, WriteFails, EndSave, Unlock
  <2>2. PICK step \in {"ended", "select"} : pc' = [pc EXCEPT ![Saver] = step]
    BY <1>8 DEF WriteFile, WriteFails, EndSave
  <2> QED BY <2>1, <2>2
<1>9. CASE Tick \/ SeeClosure
  BY <1>9 DEF Tick, SeeClosure
<1>10. CASE EncodeKey \/ Close \/ ProcessEnds \/ UNCHANGED vars
  BY <1>10 DEF EncodeKey, Close, ProcessEnds, vars
<1>11. CASE Load
  BY <1>11 DEF Load, New
<1> QED
  BY <1>1, <1>2, <1>3, <1>4, <1>5, <1>6, <1>7, <1>8, <1>9, <1>10, <1>11, CallsEnter
     DEF Next, Caller, Act, Wait, Save, Process

\* A goroutine that is not reading, and is not going to, does not count.
LEMMA SameReaders ==
  ASSUME MemoryTypes, NEW p \in Procs, NEW step,
         pc[p] /= "reading", step /= "reading",
         pc' = [pc EXCEPT ![p] = step]
  PROVE  Reading' = Reading
BY DEF MemoryTypes, Reading, Procs

\* RUnlock at the end of a read: there is a read lock to give back.
LEMMA ReaderLeaves ==
  ASSUME MemoryTypes, ReadersCounted, NEW c \in Callers, NEW step,
         pc[c] = "reading", step /= "reading",
         pc' = [pc EXCEPT ![c] = step], RUnlock, stopped' = stopped
  PROVE  ReadersCounted'
<1>1. Reading' = Reading \ {c} /\ c \in Reading
  BY DEF MemoryTypes, Reading, Procs
<1>2. IsFiniteSet(Reading') /\ (~stopped => readers = Cardinality(Reading))
  BY <1>1, FS_RemoveElement DEF ReadersCounted
<1>3. /\ Cardinality(Reading) \in Nat
      /\ Cardinality(Reading) > 0
      /\ Cardinality(Reading') = Cardinality(Reading) - 1
  BY <1>1, FS_RemoveElement, FS_CardinalityType, FS_EmptySet DEF ReadersCounted
<1> QED BY <1>2, <1>3 DEF ReadersCounted, RUnlock, MemoryTypes

LEMMA StepKeepsReadersCounted ==
  ASSUME MemoryTypes, WriterAlone, ReadersCounted, [Next]_vars
  PROVE  ReadersCounted'
<1> USE InMemoryConstants DEF At, Goto, lock
\* What leaves the readers and their count alone.
<1> DEFINE Unread == /\ Reading' = Reading
                     /\ UNCHANGED <<readers, stopped>>
                     /\ writer' \in {writer, Nobody}
                     /\ life' \in {life, "down"}
<1>0. Unread => ReadersCounted'
  BY DEF ReadersCounted
<1>1. ASSUME NEW c \in Callers, Entering(c) PROVE ReadersCounted'
  <2>1. Reading' = Reading
    BY <1>1, SameReaders DEF Entering, Procs
  <2> QED BY <1>0, <1>1, <2>1 DEF Entering
<1>2. ASSUME NEW c \in Callers, Get(c) PROVE ReadersCounted'
  <2>1. Home(c) /= "reading"
    BY DEF Home
  <2> QED BY <1>2, <2>1, ReaderLeaves DEF Get, Leave
<1>3. ASSUME NEW c \in Callers, NextKey(c) \/ PostLastKey(c) PROVE ReadersCounted'
  BY <1>3, ReaderLeaves DEF NextKey, PostLastKey, EndListing
<1>4. ASSUME NEW c \in Callers, StopListing(c) PROVE ReadersCounted'
  <2>1. Reading' = Reading
    BY <1>4, SameReaders DEF StopListing, EndListing, Procs
  <2> QED BY <1>4, <2>1 DEF StopListing, ReadersCounted
<1>5. ASSUME NEW c \in Callers, Set(c) \/ Delete(c) \/ Flush(c) PROVE ReadersCounted'
  <2>1. Reading' = Reading
    <3>1. /\ pc[c] = "writing" /\ Home(c) /= "reading"
          /\ pc' = [pc EXCEPT ![c] = Home(c)]
      BY <1>5 DEF Set, Delete, Flush, Write, Leave, Home
    <3> QED BY <3>1, SameReaders DEF Procs
  <2> QED BY <1>0, <1>5, <2>1 DEF Set, Delete, Flush, Write, Unlock
<1>6. ASSUME NEW p \in Procs, RLock(p) PROVE ReadersCounted'
  <2>1. p \in Callers
    BY <1>6 DEF RLock, MemoryTypes, SaverPCs, Procs
  <2>2. Reading' = Reading \union {p} /\ p \notin Reading
    BY <1>6, <2>1 DEF RLock, Reading, MemoryTypes, Procs
  <2>3. IsFiniteSet(Reading') /\ Cardinality(Reading') = Cardinality(Reading) + 1
    BY <2>2, FS_AddElement DEF ReadersCounted
  <2> QED BY <1>6, <2>3 DEF RLock, ReadersCounted
<1>7. ASSUME NEW p \in Procs, Announce(p) PROVE ReadersCounted'
  BY <1>0, <1>7, SameReaders DEF Announce
<1>8. ASSUME NEW p \in Procs, Lock(p) PROVE ReadersCounted'
  <2>1. Reading' = Reading /\ readers = 0
    BY <1>8, SameReaders DEF Lock
  <2> QED BY <1>8, <2>1 DEF Lock, ReadersCounted
<1>9. CASE Truncate \/ Tick \/ SeeClosure
  <2>1. Reading' = Reading
    BY <1>9, SameReaders DEF Truncate, Tick, SeeClosure, Procs
  <2> QED BY <1>0, <1>9, <2>1 DEF Truncate, Tick, SeeClosure
<1>10. CASE WriteFile \/ WriteFails
  <2>1. PICK step \in {"ended", "select"} : pc' = [pc EXCEPT ![Saver] = step]
    BY <1>10 DEF WriteFile, WriteFails, EndSave
  <2>2. Reading' = Reading
    BY <1>10, <2>1, SameReaders DEF WriteFile, WriteFails, EndSave, Procs
  <2> QED BY <1>0, <1>10, <2>2 DEF WriteFile, WriteFails, EndSave, Unlock
<1>11. CASE EncodeKey \/ Close \/ ProcessEnds \/ UNCHANGED vars
  <2>1. Reading' = Reading
    BY <1>11 DEF EncodeKey, Close, ProcessEnds, vars, Reading
  <2> QED BY <1>0, <1>11, <2>1 DEF EncodeKey, Close, ProcessEnds, vars
<1>12. CASE Load
  <2>1. Reading' = {}
    BY <1>12 DEF Load, New, Reading, Procs
  <2>2. IsFiniteSet(Reading') /\ Cardinality(Reading') = 0
    BY <2>1, FS_EmptySet
  <2> QED BY <1>12, <2>2 DEF Load, New, ReadersCounted
<1> QED
  BY <1>1, <1>2, <1>3, <1>4, <1>5, <1>6, <1>7, <1>8, <1>9, <1>10, <1>11, <1>12,
     CallsEnter DEF Next, Caller, Act, Wait, Save, Process

-----------------------------------------------------------------------------
(* Types, and the range loops. *)

\* What a writer does with the arguments of its call.
LEMMA CallTypes ==
  ASSUME NEW op \in Calls
  PROVE  /\ op.op \in {"set", "delete"} => op.key \in Keys
         /\ op.op = "set" => op.value \in Values
BY DEF Calls

LEMMA ListingFields ==
  ASSUME NEW l \in Listings
  PROVE  l = [over |-> l.over, due |-> l.due, fresh |-> l.fresh]
BY DEF Listings

\* A listing from which keys have gone, or to which one has come.
LEMMA ListingTypes ==
  ASSUME NEW l \in Listings, NEW k \in Keys
  PROVE  /\ [l EXCEPT !.due = @ \ {k}, !.fresh = @ \ {k}] \in Listings
         /\ [l EXCEPT !.fresh = @ \union {k}] \in Listings
         /\ [l EXCEPT !.over = "flushed"] \in Listings
         /\ [l EXCEPT !.due = @ \ {k}, !.fresh = @ \ {k}] =
              [over |-> l.over, due |-> l.due \ {k}, fresh |-> l.fresh \ {k}]
         /\ [l EXCEPT !.fresh = @ \union {k}] =
              [over |-> l.over, due |-> l.due, fresh |-> l.fresh \union {k}]
<1>1. /\ l = [over |-> l.over, due |-> l.due, fresh |-> l.fresh]
      /\ l.over \in {"nothing", "store", "flushed"}
      /\ l.due \subseteq Keys /\ l.fresh \subseteq Keys
  BY DEF Listings
<1>2. [l EXCEPT !.due = @ \ {k}, !.fresh = @ \ {k}] =
        [over |-> l.over, due |-> l.due \ {k}, fresh |-> l.fresh \ {k}]
  <2> DEFINE m == [l EXCEPT !.due = @ \ {k}, !.fresh = @ \ {k}]
  <2>1. m \in Listings
    BY DEF Listings
  <2>2. m = [over |-> m.over, due |-> m.due, fresh |-> m.fresh]
    BY <2>1, ListingFields
  <2>3. m.over = l.over /\ m.due = l.due \ {k} /\ m.fresh = l.fresh \ {k}
    BY <1>1
  <2> QED BY <2>2, <2>3
<1>3. [l EXCEPT !.fresh = @ \union {k}] =
        [over |-> l.over, due |-> l.due, fresh |-> l.fresh \union {k}]
  <2> DEFINE m == [l EXCEPT !.fresh = @ \union {k}]
  <2>1. m \in Listings
    BY DEF Listings
  <2>2. m = [over |-> m.over, due |-> m.due, fresh |-> m.fresh]
    BY <2>1, ListingFields
  <2>3. m.over = l.over /\ m.due = l.due /\ m.fresh = l.fresh \union {k}
    BY <1>1
  <2> QED BY <2>2, <2>3
<1>4. [l EXCEPT !.over = "flushed"] \in Listings
  BY DEF Listings
<1> QED BY <1>1, <1>2, <1>3, <1>4 DEF Listings

LEMMA RangePastType ==
  ASSUME MemoryTypes, NEW c \in Callers, NEW k \in Keys
  PROVE  RangePast(c, k) \in Listings
<1>1. listing[c] \in Listings
  BY DEF MemoryTypes
<1>2. [over |-> "store", due |-> Present(s), fresh |-> {}] \in Listings
  BY DEF Listings, Present
<1> QED BY <1>1, <1>2, ListingTypes DEF RangePast

LEMMA RemainingType ==
  ASSUME MemoryTypes, NEW c \in Callers
  PROVE  Remaining(c) \subseteq Keys
BY DEF MemoryTypes, Remaining, Present, Listings

LEMMA NoneTypes == NoCall \in Calls /\ NoListing \in Listings
BY DEF NoCall, NoListing, Calls, Listings

\* The three writes: what becomes of the map, the listings and the keys touched.
LEMMA WriteTypes ==
  ASSUME MemoryTypes, NEW c \in Callers, Set(c) \/ Delete(c) \/ Flush(c)
  PROVE  s' \in Map /\ listing' \in [Callers -> Listings] /\ touched' \subseteq Keys
<1> USE DEF MemoryTypes, Write, At, Goto, Ranges, Touch, Map
<1>1. \A p \in Callers : listing[p] \in Listings
  OBVIOUS
<1>2. CASE Set(c)
  <2>1. call[c].key \in Keys /\ call[c].value \in Values
    BY <1>2, CallTypes DEF Set
  <2>2. \A p \in Callers :
          [listing[p] EXCEPT !.fresh = @ \union {call[c].key}] \in Listings
    BY <1>1, <2>1, ListingTypes
  <2>3. listing' \in [Callers -> Listings]
    BY <1>2, <1>1, <2>2 DEF Set
  <2> QED BY <1>2, <2>1, <2>3 DEF Set
<1>3. CASE Delete(c)
  <2>1. call[c].key \in Keys
    BY <1>3, CallTypes DEF Delete
  <2>2. \A p \in Callers :
          [listing[p] EXCEPT !.due = @ \ {call[c].key}, !.fresh = @ \ {call[c].key}]
            \in Listings
    BY <1>1, <2>1, ListingTypes
  <2>3. listing' \in [Callers -> Listings]
    BY <1>3, <1>1, <2>2 DEF Delete
  <2> QED BY <1>3, <2>1, <2>3 DEF Delete
<1>4. CASE Flush(c)
  <2>1. \A p \in Callers : [listing[p] EXCEPT !.over = "flushed"] \in Listings
    BY <1>1 DEF Listings
  <2>2. listing' \in [Callers -> Listings]
    BY <1>4, <1>1, <2>1 DEF Flush
  <2> QED BY <1>4, <2>2 DEF Flush, EmptyMap
<1> QED BY <1>2, <1>3, <1>4

\* A file that is loaded is a map.
LEMMA LoadedIsMap ==
  ASSUME MemoryTypes, SaveIsOfOneMoment, file /= Torn
  PROVE  file \in Map
BY DEF MemoryTypes, SaveIsOfOneMoment, Map, EmptyMap

LEMMA StepKeepsTypes ==
  ASSUME MemoryTypes, SaveIsOfOneMoment, [Next]_vars
  PROVE  MemoryTypes'
<1> USE InMemoryConstants
    DEF At, Goto, lock, disk, MemoryTypes, Procs, PCs, CallerPCs, SaverPCs
<1>1. ASSUME NEW c \in Callers, Entering(c) PROVE MemoryTypes'
  BY <1>1 DEF Entering
<1>2. ASSUME NEW c \in Callers, Get(c) PROVE MemoryTypes'
  BY <1>2, NoneTypes DEF Get, Leave, Home, RUnlock
<1>3. ASSUME NEW c \in Callers, NextKey(c) PROVE MemoryTypes'
  <2>1. PICK k \in Keys : listing' = [listing EXCEPT ![c] = RangePast(c, k)]
    BY <1>3, RemainingType DEF NextKey
  <2> QED BY <1>3, <2>1, RangePastType DEF NextKey, RUnlock
<1>4. ASSUME NEW c \in Callers, PostLastKey(c) \/ StopListing(c) PROVE MemoryTypes'
  <2>1. EndListing(c) /\ stopped' \in BOOLEAN
    BY <1>4 DEF PostLastKey, StopListing
  <2> QED BY <2>1, NoneTypes DEF EndListing, RUnlock
<1>5. ASSUME NEW c \in Callers, Set(c) \/ Delete(c) \/ Flush(c) PROVE MemoryTypes'
  <2>1. /\ Home(c) \in {"idle", "callback"}
        /\ pc' = [pc EXCEPT ![c] = Home(c)]
        /\ call' = [call EXCEPT ![c] = NoCall]
        /\ UNCHANGED <<readers, stopped, closed, saved>>
    BY <1>5 DEF Set, Delete, Flush, Write, Leave, Unlock, Home
  <2> QED BY <1>5, <2>1, WriteTypes, NoneTypes
<1>6. ASSUME NEW p \in Procs, RLock(p) PROVE MemoryTypes'
  <2>1. p \in Callers
    BY <1>6 DEF RLock
  <2> QED BY <1>6, <2>1 DEF RLock
<1>7. ASSUME NEW p \in Procs, Announce(p) \/ Lock(p) PROVE MemoryTypes'
  BY <1>7 DEF Announce, Lock
<1>8. CASE Truncate \/ Tick \/ SeeClosure
  BY <1>8 DEF Truncate, Tick, SeeClosure
<1>9. CASE WriteFile \/ WriteFails
  <2>1. PICK step \in {"ended", "select"} : pc' = [pc EXCEPT ![Saver] = step]
    BY <1>9 DEF WriteFile, WriteFails, EndSave
  <2> QED BY <1>9, <2>1 DEF WriteFile, WriteFails, EndSave, Unlock
<1>10. CASE EncodeKey \/ Close \/ ProcessEnds \/ UNCHANGED vars
  BY <1>10 DEF EncodeKey, Close, ProcessEnds, vars
<1>11. CASE Load
  <2>1. s' \in Map
    BY <1>11, LoadedIsMap DEF Load, New
  <2> QED BY <1>11, <2>1, NoneTypes DEF Load, New
<1> QED
  BY <1>1, <1>2, <1>3, <1>4, <1>5, <1>6, <1>7, <1>8, <1>9, <1>10, <1>11, CallsEnter
     DEF Next, Caller, Act, Wait, Save, Process

\* A range loop over the live map has keys of the map only: a key that is deleted
\* is taken from the loops, and a map that is replaced is no longer live.
LEMMA StepKeepsRanges ==
  ASSUME MemoryTypes, SaveIsOfOneMoment, RangesHaveKeys, [Next]_vars
  PROVE  RangesHaveKeys'
<1> USE InMemoryConstants DEF MemoryTypes, At, Goto, Map, Present
<1>1. CASE UNCHANGED <<s, listing>>
  BY <1>1 DEF RangesHaveKeys
<1>2. ASSUME NEW c \in Callers, NextKey(c) PROVE RangesHaveKeys'
  <2>1. PICK k \in Keys : listing' = [listing EXCEPT ![c] = RangePast(c, k)]
    BY <1>2, RemainingType DEF NextKey
  <2>2. /\ RangePast(c, k).over = "store" =>
             RangePast(c, k).due \union RangePast(c, k).fresh \subseteq Present(s)
    <3>1. CASE listing[c].over = "nothing"
      BY <3>1 DEF RangePast
    <3>2. CASE listing[c].over /= "nothing"
      <4>1. listing[c] \in Listings
        OBVIOUS
      <4> QED BY <3>2, <4>1 DEF RangePast, RangesHaveKeys, Listings
    <3> QED BY <3>1, <3>2
  <2> QED BY <1>2, <2>1, <2>2 DEF NextKey, RangesHaveKeys
<1>3. ASSUME NEW c \in Callers, EndListing(c) PROVE RangesHaveKeys'
  BY <1>3 DEF EndListing, NoListing, RangesHaveKeys
<1>4. ASSUME NEW c \in Callers, Set(c) PROVE RangesHaveKeys'
  <2>1. call[c].key \in Keys /\ call[c].value \in Values
    BY <1>4, CallTypes DEF Set, Write
  <2>2. Present(s') = Present(s) \union {call[c].key}
    BY <1>4, <2>1 DEF Set
  <2>3. \A p \in Callers :
          [listing[p] EXCEPT !.fresh = @ \union {call[c].key}] =
            [over |-> listing[p].over, due |-> listing[p].due,
             fresh |-> listing[p].fresh \union {call[c].key}]
    BY <2>1, ListingTypes
  <2> QED BY <1>4, <2>1, <2>2, <2>3 DEF Set, Ranges, RangesHaveKeys
<1>5. ASSUME NEW c \in Callers, Delete(c) PROVE RangesHaveKeys'
  <2>1. call[c].key \in Keys
    BY <1>5, CallTypes DEF Delete, Write
  <2>2. Present(s') = Present(s) \ {call[c].key}
    BY <1>5, <2>1 DEF Delete
  <2>3. \A p \in Callers :
          [listing[p] EXCEPT !.due = @ \ {call[c].key}, !.fresh = @ \ {call[c].key}] =
            [over |-> listing[p].over, due |-> listing[p].due \ {call[c].key},
             fresh |-> listing[p].fresh \ {call[c].key}]
    BY <2>1, ListingTypes
  <2>4. \A p \in Callers : listing[p].over = "store" =>
          /\ listing'[p].due = listing[p].due \ {call[c].key}
          /\ listing'[p].fresh = listing[p].fresh \ {call[c].key}
    BY <1>5, <2>3 DEF Delete, Ranges
  <2>5. \A p \in Callers : listing'[p].over = "store" => listing[p].over = "store"
    BY <1>5 DEF Delete, Ranges
  <2> QED BY <2>2, <2>4, <2>5 DEF RangesHaveKeys
<1>6. ASSUME NEW c \in Callers, Flush(c) PROVE RangesHaveKeys'
  <2>1. \A p \in Callers : [listing[p] EXCEPT !.over = "flushed"].over = "flushed"
    BY DEF Listings
  <2> QED BY <1>6, <2>1 DEF Flush, Ranges, RangesHaveKeys
<1>7. CASE Load
  BY <1>7 DEF Load, New, NoListing, RangesHaveKeys
<1>8. ASSUME NEW c \in Callers, Entering(c) \/ Get(c) PROVE UNCHANGED <<s, listing>>
  BY <1>8 DEF Entering, Get
<1>9. CASE Save \/ Close \/ Tick \/ SeeClosure \/ ProcessEnds \/ UNCHANGED vars
  <2>1. UNCHANGED <<s, listing>>
    BY <1>9 DEF Save, Truncate, EncodeKey, WriteFile, WriteFails, EndSave, Close, Tick,
         SeeClosure, ProcessEnds, vars
  <2> QED BY <2>1, <1>1
<1>10. ASSUME NEW p \in Procs, Wait(p) PROVE UNCHANGED <<s, listing>>
  BY <1>10 DEF Wait, RLock, Announce, Lock
<1> QED
  BY <1>1, <1>2, <1>3, <1>4, <1>5, <1>6, <1>7, <1>8, <1>9, <1>10, CallsEnter
     DEF Next, Caller, Act, Process, PostLastKey, StopListing

-----------------------------------------------------------------------------
(* The file. *)

\* The encoder has a key more.
LEMMA EncodedKey ==
  ASSUME NEW D, NEW f, f = [k \in D |-> s[k]], NEW key
  PROVE  [j \in D \union {key} |-> IF j = key THEN s[key] ELSE f[j]]
           = [k \in D \union {key} |-> s[k]]
OBVIOUS

\* While the saver encodes nobody writes to the map.
LEMMA NobodyWrites ==
  ASSUME WriterAlone, pc[Saver] = "encoding", NEW c \in Callers
  PROVE  ~(Set(c) \/ Delete(c) \/ Flush(c))
<1>1. writer = Saver /\ c /= Saver /\ c \in Procs
  BY InMemoryConstants DEF WriterAlone, HoldsLock, Procs
<1> QED BY <1>1 DEF WriterAlone, HoldsLock, Set, Delete, Flush, Write, At

\* Without a step of the saver and without a write, the save and the file stay.
LEMMA StepKeepsSave ==
  ASSUME MemoryTypes, WriterAlone, SaveIsOfOneMoment, [Next]_vars
  PROVE  SaveIsOfOneMoment'
<1> USE InMemoryConstants DEF At, Goto, disk, lock, MemoryTypes, Procs
<1>1. ASSUME UNCHANGED <<encoded, file, saved>>, pc'[Saver] /= "encoding"
      PROVE  SaveIsOfOneMoment'
  BY <1>1 DEF SaveIsOfOneMoment
<1>2. ASSUME UNCHANGED <<encoded, file, saved, s>>, pc'[Saver] = pc[Saver]
      PROVE  SaveIsOfOneMoment'
  BY <1>2 DEF SaveIsOfOneMoment
\* The callers.
<1>3. ASSUME NEW c \in Callers,
             Entering(c) \/ Get(c) \/ NextKey(c) \/ PostLastKey(c) \/ StopListing(c)
      PROVE  SaveIsOfOneMoment'
  <2>1. UNCHANGED <<encoded, file, saved, s>> /\ pc'[Saver] = pc[Saver]
    BY <1>3 DEF Entering, Get, NextKey, PostLastKey, StopListing, EndListing, Leave
  <2> QED BY <2>1, <1>2
<1>4. ASSUME NEW c \in Callers, Set(c) \/ Delete(c) \/ Flush(c)
      PROVE  SaveIsOfOneMoment'
  <2>1. pc[Saver] /= "encoding"
    BY <1>4, NobodyWrites
  <2>2. UNCHANGED <<encoded, file, saved>> /\ pc'[Saver] = pc[Saver]
    BY <1>4 DEF Set, Delete, Flush, Write, Leave
  <2> QED BY <2>1, <2>2, <1>1
<1>5. ASSUME NEW p \in Procs, Wait(p) PROVE SaveIsOfOneMoment'
  <2>1. /\ UNCHANGED <<encoded, file, saved, s>>
        /\ pc'[Saver] = pc[Saver] \/ pc'[Saver] /= "encoding"
    BY <1>5 DEF Wait, RLock, Announce, Lock
  <2> QED BY <2>1, <1>1, <1>2
\* The saver.
<1>6. CASE Truncate
  <2>1. encoded' = <<>> /\ file' = EmptyMap /\ UNCHANGED <<s, saved>>
    BY <1>6 DEF Truncate
  <2>2. DOMAIN encoded' = {} /\ encoded' = [k \in {} |-> s[k]]
    BY <2>1
  <2> QED BY <2>1, <2>2 DEF SaveIsOfOneMoment
<1>7. CASE EncodeKey
  <2>1. PICK k \in Keys \ DOMAIN encoded :
          encoded' = [j \in DOMAIN encoded \union {k} |->
                        IF j = k THEN s[k] ELSE encoded[j]]
    BY <1>7 DEF EncodeKey
  <2>2. /\ DOMAIN encoded \subseteq Keys
        /\ encoded = [j \in DOMAIN encoded |-> s[j]]
        /\ UNCHANGED <<s, pc, file, saved>>
    BY <1>7 DEF EncodeKey, SaveIsOfOneMoment
  <2>3. /\ encoded' = [j \in DOMAIN encoded \union {k} |-> s[j]]
        /\ DOMAIN encoded' = DOMAIN encoded \union {k}
    BY <2>1, <2>2, EncodedKey
  <2> QED BY <2>2, <2>3 DEF SaveIsOfOneMoment
<1>8. CASE WriteFile
  <2>1. /\ encoded = [k \in Keys |-> s[k]] /\ file' = encoded /\ saved' = s
        /\ pc' = [pc EXCEPT ![Saver] = IF last THEN "ended" ELSE "select"]
    BY <1>8 DEF WriteFile, EndSave, SaveIsOfOneMoment
  <2>2. s = [k \in Keys |-> s[k]]
    BY DEF Map
  <2> QED BY <2>1, <2>2 DEF SaveIsOfOneMoment
<1>9. CASE WriteFails
  BY <1>9 DEF WriteFails, EndSave, SaveIsOfOneMoment
\* The process.
<1>10. CASE Tick \/ SeeClosure
  BY <1>10, <1>1 DEF Tick, SeeClosure
<1>11. CASE Close \/ UNCHANGED vars
  BY <1>11, <1>2 DEF Close, vars
<1>12. CASE ProcessEnds
  BY <1>12 DEF ProcessEnds, SaveIsOfOneMoment
<1>13. CASE Load
  BY <1>13 DEF Load, New, SaveIsOfOneMoment
<1> QED
  BY <1>3, <1>4, <1>5, <1>6, <1>7, <1>8, <1>9, <1>10, <1>11, <1>12, <1>13, CallsEnter
     DEF Next, Caller, Act, Save, Process

\* A write changes the keys it touches and no other.
LEMMA WriteTouches ==
  ASSUME MemoryTypes, NEW c \in Callers, Set(c) \/ Delete(c) \/ Flush(c)
  PROVE  /\ touched' = touched \/ closed
         /\ closed => \A k \in Keys \ touched' : k \notin touched /\ s'[k] = s[k]
         /\ UNCHANGED <<file, closed, last>> /\ pc'[Saver] = pc[Saver]
<1> USE InMemoryConstants DEF MemoryTypes, Map, Write, Touch, Procs
<1>1. UNCHANGED <<file, closed, last>> /\ pc'[Saver] = pc[Saver]
  BY DEF Set, Delete, Flush, Leave, Goto, disk
<1>2. CASE Set(c)
  BY <1>1, <1>2 DEF Set
<1>3. CASE Delete(c)
  BY <1>1, <1>3 DEF Delete
<1>4. CASE Flush(c)
  BY <1>1, <1>4 DEF Flush
<1> QED BY <1>1, <1>2, <1>3, <1>4

LEMMA StepKeepsSavedAtClose ==
  ASSUME MemoryTypes, SaveIsOfOneMoment, SavedAtClose, [Next]_vars
  PROVE  SavedAtClose'
<1> USE InMemoryConstants DEF At, Goto, disk, lock, MemoryTypes, Procs
<1>1. ASSUME UNCHANGED <<file, closed, last, touched, s>>,
             pc'[Saver] = pc[Saver] \/ pc'[Saver] /= "ended"
      PROVE  SavedAtClose'
  BY <1>1 DEF SavedAtClose
<1>2. ASSUME NEW c \in Callers,
             Entering(c) \/ Get(c) \/ NextKey(c) \/ PostLastKey(c) \/ StopListing(c)
      PROVE  SavedAtClose'
  <2>1. UNCHANGED <<file, closed, last, touched, s>> /\ pc'[Saver] = pc[Saver]
    BY <1>2 DEF Entering, Get, NextKey, PostLastKey, StopListing, EndListing, Leave
  <2> QED BY <2>1, <1>1
<1>3. ASSUME NEW c \in Callers, Set(c) \/ Delete(c) \/ Flush(c) PROVE SavedAtClose'
  BY <1>3, WriteTouches DEF SavedAtClose
<1>4. ASSUME NEW p \in Procs, Wait(p) PROVE SavedAtClose'
  <2>1. /\ UNCHANGED <<file, closed, last, touched, s>>
        /\ pc'[Saver] = pc[Saver] \/ pc'[Saver] /= "ended"
    BY <1>4 DEF Wait, RLock, Announce, Lock
  <2> QED BY <2>1, <1>1
<1>5. CASE Truncate
  BY <1>5 DEF Truncate, SavedAtClose
<1>6. CASE EncodeKey \/ Tick \/ UNCHANGED vars
  BY <1>6, <1>1 DEF EncodeKey, Tick, vars
<1>7. CASE SeeClosure
  BY <1>7 DEF SeeClosure, SavedAtClose
<1>8. CASE WriteFile
  <2>1. /\ \A k \in Keys : file'[k] = s[k]
        /\ UNCHANGED <<s, closed, last, touched>>
        /\ pc'[Saver] = IF last THEN "ended" ELSE "select"
    BY <1>8 DEF WriteFile, EndSave, SaveIsOfOneMoment
  <2> QED BY <2>1 DEF SavedAtClose
<1>9. CASE WriteFails
  BY <1>9 DEF WriteFails, EndSave, SavedAtClose
<1>10. CASE Close
  BY <1>10 DEF Close, SavedAtClose
<1>11. CASE ProcessEnds
  BY <1>11 DEF ProcessEnds, SavedAtClose
<1>12. CASE Load
  BY <1>12 DEF Load, New, SavedAtClose
<1> QED
  BY <1>2, <1>3, <1>4, <1>5, <1>6, <1>7, <1>8, <1>9, <1>10, <1>11, <1>12, CallsEnter
     DEF Next, Caller, Act, Save, Process

-----------------------------------------------------------------------------
(* The theorems. *)

LEMMA StepKeepsMemoryInvariant ==
  ASSUME MemoryInvariant, [Next]_vars
  PROVE  MemoryInvariant'
BY StepKeepsTypes, StepKeepsWriterAlone, StepKeepsReadersCounted, StepKeepsRanges,
   StepKeepsSave, StepKeepsSavedAtClose DEF MemoryInvariant

\* The lock, the range loops and the file fit together, whatever the goroutines
\* do, and through every end and start of the process.
THEOREM MemoryInvariantHolds == Spec => []MemoryInvariant
<1>1. Init => MemoryInvariant
  BY InitEstablishesMemoryInvariant
<1>2. MemoryInvariant /\ [Next]_vars => MemoryInvariant'
  BY StepKeepsMemoryInvariant
<1> QED BY <1>1, <1>2, PTL DEF Spec

\* As long as no callback stops its listing, nobody is in the map with a writer,
\* and no unlock lacks its lock (inmemory.go:140, :198, :201).
THEOREM WritersExclude == Spec => []Exclusion
<1>1. MemoryInvariant => Exclusion
  BY DEF MemoryInvariant, Exclusion, WriterAlone, ReadersCounted, RangesHaveKeys, Reading
<1> QED BY <1>1, MemoryInvariantHolds, PTL

\* After the last save everything written before Close is in the file, also when
\* a listing was stopped and readers are in the map with a writer
\* (inmemory.go:128-131).
THEOREM LastSaveIsWhole == Spec => []LastSaveHasAll
<1>1. MemoryInvariant => LastSaveHasAll
  BY DEF MemoryInvariant, SavedAtClose, LastSaveHasAll
<1> QED BY <1>1, MemoryInvariantHolds, PTL

\* A start finds nothing, or the whole store of one moment (inmemory.go:108,
\* :139-160).
THEOREM StartsFromASave == Spec => RecoveredIsSaved
<1>1. MemoryInvariant /\ [Next]_vars
        => (life = "down" /\ life' = "up" => s' \in {EmptyMap, saved})
  <2> SUFFICES ASSUME MemoryInvariant, [Next]_vars, life = "down", life' = "up"
               PROVE  s' \in {EmptyMap, saved}
    OBVIOUS
  <2>1. CASE Load
    BY <2>1 DEF Load, New, MemoryInvariant, SaveIsOfOneMoment
  <2>2. CASE ~Load
    <3>1. life' \in {"down", "fatal"}
      BY <2>2, CallsEnter
         DEF Next, Caller, Act, Wait, Save, Process, Entering, Get, Set, Delete, Flush,
             Write, NextKey, PostLastKey, StopListing, RLock, Announce, Lock, Truncate,
             EncodeKey, WriteFile, WriteFails, EndSave, Close, Tick, SeeClosure,
             ProcessEnds, At, vars
    <3> QED BY <3>1
  <2> QED BY <2>1, <2>2
<1> QED BY <1>1, MemoryInvariantHolds, PTL DEF Spec, RecoveredIsSaved
===============================================================================
