------------------------------- MODULE RedisTx --------------------------------
(***************************************************************************)
(* One call of txManager.Do over the Redis driver.  The caller queues the   *)
(* commands of the store's function and commits or rolls back; a second     *)
(* goroutine is inside client.Watch and TxPipelined, whose callback waits   *)
(* until the "closure" is closed and then lets go-redis send MULTI/EXEC; a  *)
(* third one closes the closure when the context is cancelled.              *)
(***************************************************************************)
EXTENDS Integers, Sequences

CONSTANTS
  N,       \* the number of commands the function queues
  TxFaults \* what may go wrong, a subset of AllTxFaults

\* watch     WATCH fails: the transaction does not start
\* conflict  another client writes a watched key
\* refused   EXEC is not run, go-redis reports an error
\* lost      EXEC is run, the reply is lost
\* fn        the function returns an error of its own
AllTxFaults == {"watch", "conflict", "refused", "lost", "fn"}

ASSUME TxConstants ==
  /\ N \in Nat \ {0}
  /\ TxFaults \subseteq AllTxFaults

VARIABLES
  caller,    \* what the goroutine in Do does next
  pipeline,  \* what the goroutine in Watch does next
  waiter,    \* what awaitDone does next
  cmds,      \* the commands in the pipeliner
  slice,     \* the commands an append of the caller has read
  issued,    \* the number of commands the function has issued
  taken,     \* the commands EXEC has taken from the pipeliner
  conflict,  \* a watched key was written since WATCH
  closure,   \* RedisTransaction.closure: open, closed, or closed with ErrRollback
  closed,    \* RedisTransaction.closed: open, or closed with nil or an error
  cancelled, \* the context
  executed,  \* the commands Redis has run
  result     \* what Do has returned

txVars == <<caller, pipeline, waiter, cmds, slice, issued, taken, conflict,
            closure, closed, cancelled, executed, result>>

CallerSteps   == {"factory", "fn", "append", "commit", "committing", "rollback",
                  "rollingback", "returned"}
PipelineSteps == {"watch", "callback", "take", "clear", "send", "ended"}
WaiterSteps   == {"none", "waiting", "ended"}

FirstCommands(k) == [i \in 1..k |-> i]

TxInit ==
  /\ caller = "factory"
  /\ pipeline = "watch"
  /\ waiter = "none"
  /\ cmds = <<>> /\ slice = <<>> /\ issued = 0 /\ taken = <<>>
  /\ conflict = FALSE
  /\ closure = "open"
  /\ closed = "open"
  /\ cancelled = FALSE
  /\ executed = <<>>
  /\ result = "none"

-----------------------------------------------------------------------------
(* The environment. *)

CancelContext ==
  /\ ~cancelled
  /\ cancelled' = TRUE
  /\ UNCHANGED <<caller, pipeline, waiter, cmds, slice, issued, taken, conflict,
                 closure, closed, executed, result>>

WriteWatchedKey ==
  /\ "conflict" \in TxFaults
  /\ pipeline \notin {"watch", "ended"}
  /\ ~conflict
  /\ conflict' = TRUE
  /\ UNCHANGED <<caller, pipeline, waiter, cmds, slice, issued, taken, closure,
                 closed, cancelled, executed, result>>

-----------------------------------------------------------------------------
(* The goroutine in client.Watch. *)

\* Without the callback having run, Watch's error is that of the factory.
WatchFails ==
  /\ pipeline = "watch"
  /\ "watch" \in TxFaults \/ cancelled
  /\ pipeline' = "ended"
  /\ caller' = "returned"
  /\ result' = "error"
  /\ UNCHANGED <<waiter, cmds, slice, issued, taken, conflict, closure, closed,
                 cancelled, executed>>

\* The callback publishes the pipeliner; the factory starts awaitDone and
\* returns, and the function is called.
WatchBegins ==
  /\ pipeline = "watch"
  /\ pipeline' = "callback"
  /\ caller' = "fn"
  /\ waiter' = "waiting"
  /\ UNCHANGED <<cmds, slice, issued, taken, conflict, closure, closed,
                 cancelled, executed, result>>

\* (mutant: the cause of the closure is not returned to go-redis)
CallbackIgnoresCause ==
  /\ pipeline = "callback"
  /\ closure /= "open"
  /\ pipeline' = "take"
  /\ UNCHANGED <<caller, waiter, cmds, slice, issued, taken, conflict, closure,
                 closed, cancelled, executed, result>>

\* The callback returns the cause of the closure: with one, go-redis sends
\* nothing and Watch returns it.
CallbackReturns ==
  /\ pipeline = "callback"
  /\ closure /= "open"
  /\ IF closure = "rollback"
     THEN pipeline' = "ended" /\ closed' = "error"
     ELSE pipeline' = "take" /\ UNCHANGED closed
  /\ UNCHANGED <<caller, waiter, cmds, slice, issued, taken, conflict, closure,
                 cancelled, executed, result>>

\* Exec of the pipeliner takes its commands and empties it.  The two are steps
\* of their own because the caller may be appending at the same time.
TakeCommands ==
  /\ pipeline = "take"
  /\ taken' = cmds
  /\ pipeline' = "clear"
  /\ UNCHANGED <<caller, waiter, cmds, slice, issued, conflict, closure, closed,
                 cancelled, executed, result>>

\* Without commands there is nothing to send, and no error.
ClearCommands ==
  /\ pipeline = "clear"
  /\ cmds' = <<>>
  /\ IF taken = <<>>
     THEN pipeline' = "ended" /\ closed' = "nil"
     ELSE pipeline' = "send" /\ UNCHANGED closed
  /\ UNCHANGED <<caller, waiter, slice, issued, taken, conflict, closure,
                 cancelled, executed, result>>

\* MULTI/EXEC: run as a whole, or not at all when a watched key was written.
SendExec ==
  /\ pipeline = "send"
  /\ \/ ~conflict /\ executed' = taken /\ closed' = "nil"
     \/ conflict /\ UNCHANGED executed /\ closed' = "error"
     \/ "refused" \in TxFaults /\ UNCHANGED executed /\ closed' = "error"
     \/ "lost" \in TxFaults /\ ~conflict /\ executed' = taken /\ closed' = "error"
  /\ pipeline' = "ended"
  /\ UNCHANGED <<caller, waiter, cmds, slice, issued, taken, conflict, closure,
                 cancelled, result>>

-----------------------------------------------------------------------------
(* awaitDone. *)

AwaitDone ==
  /\ waiter = "waiting"
  /\ \/ cancelled /\ closure' = IF closure = "open" THEN "closed" ELSE closure
     \/ closure /= "open" /\ UNCHANGED closure
  /\ waiter' = "ended"
  /\ UNCHANGED <<caller, pipeline, cmds, slice, issued, taken, conflict, closed,
                 cancelled, executed, result>>

-----------------------------------------------------------------------------
(* The goroutine in Do. *)

\* The function queues a command: an append to the pipeliner's slice.
AppendRead ==
  /\ caller = "fn"
  /\ issued < N
  /\ slice' = cmds
  /\ caller' = "append"
  /\ UNCHANGED <<pipeline, waiter, cmds, issued, taken, conflict, closure, closed,
                 cancelled, executed, result>>

AppendWrite ==
  /\ caller = "append"
  /\ cmds' = Append(slice, issued + 1)
  /\ issued' = issued + 1
  /\ slice' = <<>>
  /\ caller' = "fn"
  /\ UNCHANGED <<pipeline, waiter, taken, conflict, closure, closed, cancelled,
                 executed, result>>

FnReturns ==
  /\ caller = "fn"
  /\ \/ issued = N /\ caller' = "commit"
     \/ "fn" \in TxFaults /\ caller' = "rollback"
  /\ UNCHANGED <<pipeline, waiter, cmds, slice, issued, taken, conflict, closure,
                 closed, cancelled, executed, result>>

\* (mutant: Commit waits without closing the closure)
CommitOnlyWaits ==
  /\ caller = "commit"
  /\ IF closed /= "open"
     THEN caller' = "returned" /\ result' = "nil"
     ELSE caller' = "committing" /\ UNCHANGED result
  /\ UNCHANGED <<pipeline, waiter, cmds, slice, issued, taken, conflict, closure,
                 closed, cancelled, executed>>

\* Commit of a transaction that is over runs Exec of the pipeliner again: an
\* error on the closed connection, and nil when the pipeliner is empty.
Commit ==
  /\ caller = "commit"
  /\ IF closed /= "open"
     THEN /\ IF cmds = <<>> THEN caller' = "returned" /\ result' = "nil"
                            ELSE caller' = "rollback" /\ UNCHANGED result
          /\ cmds' = <<>>
          /\ UNCHANGED closure
     ELSE /\ closure' = IF closure = "open" THEN "closed" ELSE closure
          /\ caller' = "committing"
          /\ UNCHANGED <<cmds, result>>
  /\ UNCHANGED <<pipeline, waiter, slice, issued, taken, conflict, closed,
                 cancelled, executed>>

CommitReturns ==
  /\ caller = "committing"
  /\ closed /= "open"
  /\ IF closed = "nil" THEN caller' = "returned" /\ result' = "nil"
                       ELSE caller' = "rollback" /\ UNCHANGED result
  /\ UNCHANGED <<pipeline, waiter, cmds, slice, issued, taken, conflict, closure,
                 closed, cancelled, executed>>

\* (mutant: Rollback does not wait for the goroutine in Watch)
RollbackAtOnce ==
  /\ caller = "rollback"
  /\ closure' = IF closure = "open" THEN "rollback" ELSE closure
  /\ caller' = "returned"
  /\ result' = "error"
  /\ UNCHANGED <<pipeline, waiter, cmds, slice, issued, taken, conflict, closed,
                 cancelled, executed>>

\* Rollback returns nil in every case: Do returns the error it began with.
Rollback ==
  /\ caller = "rollback"
  /\ IF closed /= "open"
     THEN cmds' = <<>> /\ caller' = "returned" /\ result' = "error" /\ UNCHANGED closure
     ELSE /\ closure' = IF closure = "open" THEN "rollback" ELSE closure
          /\ caller' = "rollingback"
          /\ UNCHANGED <<cmds, result>>
  /\ UNCHANGED <<pipeline, waiter, slice, issued, taken, conflict, closed,
                 cancelled, executed>>

RollbackReturns ==
  /\ caller = "rollingback"
  /\ closed /= "open"
  /\ caller' = "returned"
  /\ result' = "error"
  /\ UNCHANGED <<pipeline, waiter, cmds, slice, issued, taken, conflict, closure,
                 closed, cancelled, executed>>

-----------------------------------------------------------------------------
Environment == CancelContext \/ WriteWatchedKey
PipelineNext == \/ WatchFails \/ WatchBegins \/ CallbackReturns \/ TakeCommands
                \/ ClearCommands \/ SendExec
CallerNext == \/ AppendRead \/ AppendWrite \/ FnReturns \/ Commit \/ CommitReturns
              \/ Rollback \/ RollbackReturns

TxNext == Environment \/ PipelineNext \/ AwaitDone \/ CallerNext

TxSpec == TxInit /\ [][TxNext]_txVars

\* The goroutines go on; the context need never be cancelled.
FairTxSpec == /\ TxSpec
              /\ WF_txVars(PipelineNext) /\ WF_txVars(AwaitDone) /\ WF_txVars(CallerNext)

-----------------------------------------------------------------------------
(* Properties. *)

Prefixes == {FirstCommands(k) : k \in 0..N}

TxTypeOK ==
  /\ caller \in CallerSteps
  /\ pipeline \in PipelineSteps
  /\ waiter \in WaiterSteps
  /\ cmds \in Seq(1..N) /\ slice \in Seq(1..N) /\ taken \in Seq(1..N)
  /\ issued \in 0..N
  /\ conflict \in BOOLEAN /\ cancelled \in BOOLEAN
  /\ closure \in {"open", "closed", "rollback"}
  /\ closed \in {"open", "nil", "error"}
  /\ executed \in Seq(1..N)
  /\ result \in {"none", "nil", "error"}

Contract == INSTANCE Transaction

\* Do keeps what the store counts on (see Transaction), with a cancellation, a
\* conflict, a lost EXEC or reply, and a failing function at any point: Redis
\* runs a beginning of the commands once and before Do returns.
ImplementsTransaction == Contract!TransactionSpec

\* Do returns and the three goroutines end, whatever happens to the transaction:
\* nobody waits for a closure or a closed channel that is never closed.
GoroutinesEnd ==
  <>(caller = "returned" /\ pipeline = "ended" /\ waiter \in {"none", "ended"})

\* How the steps of the three goroutines fit together: a closure is closed by a
\* commit, a rollback or a cancellation, EXEC takes a beginning of the commands,
\* and all of them when the closure was not closed by a cancellation.
TxInvariant ==
  /\ TxTypeOK
  /\ taken \in Prefixes /\ executed \in {<<>>, taken}
  /\ (closed = "open") <=> (pipeline /= "ended" \/ waiter = "none")
  /\ waiter = "none" =>
       \/ pipeline = "watch" /\ caller = "factory"
       \/ pipeline = "ended" /\ caller = "returned"
  /\ (pipeline = "watch" \/ caller = "factory") =>
       pipeline = "watch" /\ caller = "factory" /\ waiter = "none"
  /\ (result = "none") <=> (caller /= "returned")
  /\ (pipeline /= "ended" \/ waiter = "none") => executed = <<>>
  /\ caller = "returned" => pipeline = "ended"
  /\ caller = "append" => issued < N
  /\ caller = "commit" => issued = N
  /\ caller \in {"committing", "rollingback"} => closure /= "open"
  /\ closure = "open" => pipeline \in {"watch", "callback"} \/ waiter = "none"
  /\ closure = "rollback" => caller \in {"rollingback", "returned"}
  /\ pipeline \in {"take", "clear", "send"} => closure = "closed"
  /\ pipeline \in {"watch", "callback", "take"} =>
       /\ cmds = FirstCommands(issued)
       /\ caller = "append" => slice = cmds
       /\ taken = <<>>
  /\ pipeline = "send" => taken /= <<>>
  /\ (closure = "closed" /\ ~cancelled) =>
       /\ caller \in {"committing", "rollback", "returned"}
       /\ issued = N
       /\ pipeline \in {"clear", "send"} => taken = FirstCommands(N)
       /\ closed = "open" => caller = "committing"
       /\ closed = "nil" => executed = FirstCommands(N)
===============================================================================
