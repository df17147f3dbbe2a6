----------------------------- MODULE InMemoryStore ----------------------------
(***************************************************************************)
(* The in-memory key-value store: a map behind a sync.RWMutex, used by      *)
(* several goroutines, listed key by key with a callback, and written to a  *)
(* file by a goroutine of its own.                                          *)
(***************************************************************************)
EXTENDS Integers, FiniteSets

CONSTANTS
  Callers,    \* the goroutines that use the store
  Saver,      \* the goroutine of loadFromFileAndRunPersistence
  Nobody,     \* not a goroutine
  Keys, Values,
  NoValue,    \* a key is not in the map
  Torn,       \* the content of a file that gob cannot decode
  Ops,        \* Ops[c]: the operations caller c uses, a subset of AllOps
  EarlyStops, \* whether a callback may stop the listing, or fail
  Persistent  \* whether the store has a file

AllOps == {"get", "set", "delete", "flush", "list"}
Procs  == Callers \union {Saver}

ASSUME InMemoryConstants ==
  /\ Saver \notin Callers /\ Nobody \notin Procs
  /\ NoValue \notin Values
  /\ Ops \in [Callers -> SUBSET AllOps]
  /\ EarlyStops \in BOOLEAN /\ Persistent \in BOOLEAN

Map      == [Keys -> Values \union {NoValue}]
EmptyMap == [k \in Keys |-> NoValue]
Present(map) == {k \in Keys : map[k] /= NoValue}

VARIABLES
  s,         \* Store.s
  pc,        \* what each goroutine does next
  call,      \* the operation it is in
  listing,   \* the range loop of its ListKeys
  readers,   \* the RWMutex: how many read locks are held,
  announced, \*   the writer that waits for them, who keeps new readers out,
  writer,    \*   and the writer that holds it
  encoded,   \* what saveStore has encoded so far, a part of a map
  file,      \* the file
  closed,    \* Store.closure
  last,      \* the save in progress is the last one
  saved,     \* Store.s at the end of the last complete save (history)
  touched,   \* the keys written since Close (history)
  stopped,   \* a callback has stopped its listing (history)
  life       \* up, fatal (the runtime has ended the process) or down

lock == <<readers, announced, writer>>
disk == <<encoded, file, closed, last, saved>>
vars == <<s, pc, call, listing, lock, disk, touched, stopped, life>>

\* idle      out of the store      callback  in the callback of its ListKeys
\* wantRead  in RLock              reading   holds the read lock
\* wantWrite in Lock               announced the writer that comes next
\* writing   holds the write lock
\* select, encoding, ended: the saver only
PCs == {"idle", "callback", "wantRead", "reading", "wantWrite", "announced",
        "writing", "select", "encoding", "ended"}

NoCall    == [op |-> "none"]
\* over   the map that is ranged over: Store.s, or one that Flush has replaced
\* due    the keys the range has to produce; fresh: those it may produce
NoListing == [over |-> "nothing", due |-> {}, fresh |-> {}]

Init ==
  /\ s = EmptyMap
  /\ pc = [p \in Procs |-> IF p /= Saver THEN "idle"
                           ELSE IF Persistent THEN "select" ELSE "ended"]
  /\ call = [c \in Callers |-> NoCall]
  /\ listing = [c \in Callers |-> NoListing]
  /\ readers = 0 /\ announced = Nobody /\ writer = Nobody
  /\ encoded = <<>>
  /\ file = EmptyMap
  /\ closed = FALSE
  /\ last = FALSE
  /\ saved = EmptyMap
  /\ touched = {}
  /\ stopped = FALSE
  /\ life = "up"

At(p, step) == life = "up" /\ pc[p] = step
Goto(p, step) == pc' = [pc EXCEPT ![p] = step]

-----------------------------------------------------------------------------
(* sync.RWMutex: a waiting writer keeps new readers out. *)

RLock(c) ==
  /\ At(c, "wantRead")
  /\ announced = Nobody /\ writer = Nobody
  /\ readers' = readers + 1
  /\ Goto(c, "reading")
  /\ UNCHANGED <<s, call, listing, announced, writer, disk, touched, stopped, life>>

Announce(p) ==
  /\ At(p, "wantWrite")
  /\ announced = Nobody /\ writer = Nobody
  /\ announced' = p
  /\ Goto(p, "announced")
  /\ UNCHANGED <<s, call, listing, readers, writer, disk, touched, stopped, life>>

Lock(p) ==
  /\ At(p, "announced")
  /\ readers = 0
  /\ announced' = Nobody
  /\ writer' = p
  /\ Goto(p, "writing")
  /\ UNCHANGED <<s, call, listing, readers, disk, touched, stopped, life>>

Unlock == writer' = Nobody /\ UNCHANGED <<readers, announced>>

\* Without a read lock to give back, the runtime ends the process.
RUnlock ==
  /\ readers' = IF readers = 0 THEN 0 ELSE readers - 1
  /\ life' = IF readers = 0 THEN "fatal" ELSE life
  /\ UNCHANGED <<announced, writer>>

-----------------------------------------------------------------------------
(* Get, Set, Delete and Flush, from outside or from a callback. *)

Home(c) == IF listing[c].over = "nothing" THEN "idle" ELSE "callback"

Enter(c, op, step) ==
  /\ life = "up" /\ pc[c] \in {"idle", "callback"} /\ op.op \in Ops[c]
  /\ call' = [call EXCEPT ![c] = op]
  /\ Goto(c, step)
  /\ UNCHANGED <<s, listing, lock, disk, touched, stopped, life>>

CallGet(c)   == Enter(c, [op |-> "get"], "wantRead")
CallFlush(c) == Enter(c, [op |-> "flush"], "wantWrite")
CallDelete(c) ==
  \E k \in Keys : Enter(c, [op |-> "delete", key |-> k], "wantWrite")
CallSet(c) ==
  \E k \in Keys, v \in Values :
    Enter(c, [op |-> "set", key |-> k, value |-> v], "wantWrite")

Leave(c) == Goto(c, Home(c)) /\ call' = [call EXCEPT ![c] = NoCall]

Get(c) ==
  /\ At(c, "reading") /\ call[c].op = "get"
  /\ RUnlock
  /\ Leave(c)
  /\ UNCHANGED <<s, listing, disk, touched, stopped>>

\* What a write does to the range loops: a key that is gone is not produced, a
\* new one may be; a map that is no longer Store.s does not change.
Ranges(changed) ==
  listing' = [c \in Callers |->
                IF listing[c].over = "store" THEN changed[c] ELSE listing[c]]
Touch(keys) == touched' = IF closed THEN touched \union keys ELSE touched

Write(c, op) ==
  /\ At(c, "writing") /\ call[c].op = op
  /\ Unlock
  /\ Leave(c)
  /\ UNCHANGED <<disk, stopped, life>>

Set(c) ==
  /\ Write(c, "set")
  /\ LET k == call[c].key
     IN  /\ s' = [s EXCEPT ![k] = call[c].value]
         /\ Ranges([p \in Callers |-> IF s[k] /= NoValue THEN listing[p]
                                      ELSE [listing[p] EXCEPT !.fresh = @ \union {k}]])
         /\ Touch({k})

Delete(c) ==
  /\ Write(c, "delete")
  /\ LET k == call[c].key
     IN  /\ s' = [s EXCEPT ![k] = NoValue]
         /\ Ranges([p \in Callers |->
                      [listing[p] EXCEPT !.due = @ \ {k}, !.fresh = @ \ {k}]])
         /\ Touch({k})

Flush(c) ==
  /\ Write(c, "flush")
  /\ s' = EmptyMap
  /\ Ranges([p \in Callers |-> [listing[p] EXCEPT !.over = "flushed"]])
  /\ Touch(Keys)

-----------------------------------------------------------------------------
(* ListKeys. *)

CallListKeys(c) == pc[c] = "idle" /\ Enter(c, [op |-> "list"], "wantRead")

Remaining(c) ==
  IF listing[c].over = "nothing" THEN Present(s)
  ELSE listing[c].due \union listing[c].fresh

RangePast(c, k) ==
  LET l == IF listing[c].over = "nothing"
           THEN [over |-> "store", due |-> Present(s), fresh |-> {}] ELSE listing[c]
  IN  [l EXCEPT !.due = @ \ {k}, !.fresh = @ \ {k}]

\* (mutant: the lock is kept while the callback runs)
NextKeyLocked(c) ==
  /\ At(c, "reading") /\ call[c].op = "list"
  /\ \E k \in Remaining(c) : listing' = [listing EXCEPT ![c] = RangePast(c, k)]
  /\ Goto(c, "callback")
  /\ UNCHANGED <<s, call, lock, disk, touched, stopped, life>>

\* The lock is given back before the callback is called.
NextKey(c) ==
  /\ At(c, "reading") /\ call[c].op = "list"
  /\ \E k \in Remaining(c) : listing' = [listing EXCEPT ![c] = RangePast(c, k)]
  /\ RUnlock
  /\ Goto(c, "callback")
  /\ UNCHANGED <<s, call, disk, touched, stopped>>

Continue(c) ==
  /\ At(c, "callback")
  /\ call' = [call EXCEPT ![c] = [op |-> "list"]]
  /\ Goto(c, "wantRead")
  /\ UNCHANGED <<s, listing, lock, disk, touched, stopped, life>>

EndListing(c) ==
  /\ listing' = [listing EXCEPT ![c] = NoListing]
  /\ call' = [call EXCEPT ![c] = NoCall]
  /\ RUnlock
  /\ Goto(c, "idle")
  /\ UNCHANGED <<s, disk, touched>>

\* A key that came during the range may be left out.
PostLastKey(c) ==
  /\ At(c, "reading") /\ call[c].op = "list"
  /\ listing[c].over = "nothing" => Present(s) = {}
  /\ listing[c].due = {}
  /\ EndListing(c)
  /\ UNCHANGED stopped

\* break, or the return of the callback's error; the lock was given back before.
StopListing(c) ==
  /\ At(c, "callback") /\ EarlyStops
  /\ EndListing(c)
  /\ stopped' = TRUE

-----------------------------------------------------------------------------
(* The file. *)

Close ==
  /\ life = "up" /\ Persistent
  /\ ~closed
  /\ closed' = TRUE
  /\ UNCHANGED <<s, pc, call, listing, lock, encoded, file, last, saved, touched, stopped, life>>

Tick ==
  /\ At(Saver, "select")
  /\ Goto(Saver, "wantWrite")
  /\ UNCHANGED <<s, call, listing, lock, disk, touched, stopped, life>>

\* (mutant: the goroutine ends without the last save)
SeeClosureOnly ==
  /\ At(Saver, "select") /\ closed
  /\ Goto(Saver, "ended")
  /\ UNCHANGED <<s, call, listing, lock, disk, touched, stopped, life>>

SeeClosure ==
  /\ At(Saver, "select") /\ closed
  /\ last' = TRUE
  /\ Goto(Saver, "wantWrite")
  /\ UNCHANGED <<s, call, listing, lock, encoded, file, closed, saved, touched, stopped, life>>

Truncate ==
  /\ At(Saver, "writing")
  /\ file' = EmptyMap
  /\ encoded' = <<>>
  /\ Goto(Saver, "encoding")
  /\ UNCHANGED <<s, call, listing, lock, closed, last, saved, touched, stopped, life>>

\* The encoder goes through the map, then writes what it has.
EncodeKey ==
  /\ At(Saver, "encoding")
  /\ \E k \in Keys \ DOMAIN encoded :
       encoded' = [j \in DOMAIN encoded \union {k} |->
                     IF j = k THEN s[k] ELSE encoded[j]]
  /\ UNCHANGED <<s, pc, call, listing, lock, file, closed, last, saved, touched, stopped, life>>

EndSave ==
  /\ At(Saver, "encoding") /\ DOMAIN encoded = Keys
  /\ Unlock
  /\ Goto(Saver, IF last THEN "ended" ELSE "select")
  /\ UNCHANGED <<s, call, listing, encoded, closed, last, touched, stopped, life>>

WriteFile  == EndSave /\ file' = encoded /\ saved' = s
\* The error of saveStore is dropped; the next tick tries again.  (A file that
\* cannot be truncated is left out.)
WriteFails == EndSave /\ file' = Torn /\ UNCHANGED saved

\* A crash, or the end of main after it has called Close.
ProcessEnds ==
  /\ life /= "down" /\ Persistent
  /\ life' = "down"
  /\ file' = file \/ (pc[Saver] = "encoding" /\ file' = Torn)
  /\ UNCHANGED <<s, pc, call, listing, lock, encoded, closed, last, saved, touched, stopped>>

New(content) ==
  /\ life = "down" /\ life' = "up"
  /\ s' = content
  /\ pc' = [p \in Procs |-> IF p = Saver THEN "select" ELSE "idle"]
  /\ call' = [c \in Callers |-> NoCall]
  /\ listing' = [c \in Callers |-> NoListing]
  /\ readers' = 0 /\ announced' = Nobody /\ writer' = Nobody
  /\ encoded' = <<>>
  /\ closed' = FALSE /\ last' = FALSE
  /\ touched' = {} /\ stopped' = FALSE
  /\ UNCHANGED <<file, saved>>

\* (mutant: an error of the decoder leaves what it has read so far)
LoadWhatIsThere == IF file = Torn THEN \E part \in Map : New(part) ELSE New(file)

\* An empty file is an empty store; one that does not decode is refused.
Load == file /= Torn /\ New(file)

-----------------------------------------------------------------------------
Caller(c) ==
  \/ CallGet(c) \/ CallSet(c) \/ CallDelete(c) \/ CallFlush(c)
  \/ CallListKeys(c) \/ StopListing(c)
Wait(p) == RLock(p) \/ Announce(p) \/ Lock(p)
Act(c) ==
  \/ Get(c) \/ Set(c) \/ Delete(c) \/ Flush(c)
  \/ NextKey(c) \/ PostLastKey(c)
Save == Truncate \/ EncodeKey \/ WriteFile \/ WriteFails
Process == Close \/ Tick \/ SeeClosure \/ ProcessEnds \/ Load

Next ==
  \/ \E c \in Callers : Caller(c) \/ Continue(c) \/ Act(c)
  \/ \E p \in Procs : Wait(p)
  \/ Save \/ Process
Spec == Init /\ [][Next]_vars

-----------------------------------------------------------------------------
(* What is checked. *)

\* As long as no callback has stopped its listing, the lock counts its readers, a
\* range loop over the live map only has keys of the map before it, and nobody is
\* in the map with a writer: the unlock in the middle of ListKeys
\* (inmemory.go:201) and the deferred one (:198) make pairs with the locks, and
\* saveStore locks (:140).
HoldsLock(p) == pc[p] \in {"writing", "encoding"}
Exclusion ==
  ~stopped =>
    /\ readers = Cardinality({c \in Callers : pc[c] = "reading"})
    /\ \A p \in Procs : HoldsLock(p) <=> writer = p
    /\ writer /= Nobody => readers = 0
    /\ \A c \in Callers : listing[c].over = "store" =>
         listing[c].due \union listing[c].fresh \subseteq Present(s)
    /\ life /= "fatal"

\* A start finds nothing, or all of the store as it was at one moment: when the
\* last save was complete (inmemory.go:108, :139-160).
RecoveredIsSaved ==
  [][life = "down" /\ life' = "up" => s' \in {EmptyMap, saved}]_vars

\* After the last save everything written before Close is in the file
\* (inmemory.go:128-131).
LastSaveHasAll ==
  life = "up" /\ closed /\ pc[Saver] = "ended" /\ file /= Torn =>
    \A k \in Keys \ touched : file[k] = s[k]

===============================================================================
