-------------------------------- MODULE LocalTx -------------------------------
(***************************************************************************)
(* txManager.Do over the driver of LevelDB, which has one transaction at a  *)
(* time.  Several goroutines call Do, each with a function of N commands.   *)
(***************************************************************************)
EXTENDS Integers, Sequences

CONSTANTS
  Callers,  \* the goroutines
  NoCaller, \* not one of them
  N,        \* the number of commands each function issues
  TxFaults  \* what may go wrong, a subset of AllTxFaults

\* open    OpenTransaction fails
\* fn      the function returns an error of its own
\* commit  LevelDB cannot write the transaction
AllTxFaults == {"open", "fn", "commit"}

ASSUME LocalTxConstants ==
  /\ NoCaller \notin Callers
  /\ N \in Nat \ {0}
  /\ TxFaults \subseteq AllTxFaults

VARIABLES
  db,       \* the commands the store has run, a sequence of <<caller, command>>
  pending,  \* the commands of the open transaction of LevelDB
  writer,   \* whose transaction it is; LevelDB has one at a time
  handle,   \* LevelDBTransaction.tx of each caller: nil or not
  issued,   \* the number of commands the function has issued
  pc,       \* what each call of Do does next
  result,   \* what it has returned
  panicked  \* a goroutine has dereferenced nil

vars == <<db, pending, writer, handle, issued, pc, result, panicked>>

Init ==
  /\ db = <<>>
  /\ pending = <<>>
  /\ writer = NoCaller
  /\ handle = [c \in Callers |-> FALSE]
  /\ issued = [c \in Callers |-> 0]
  /\ pc = [c \in Callers |-> "factory"]
  /\ result = [c \in Callers |-> "none"]
  /\ panicked = FALSE

At(c, step) == pc[c] = step /\ ~panicked
Goto(c, step) == pc' = [pc EXCEPT ![c] = step]
Return(c, answer) ==
  /\ Goto(c, "returned")
  /\ result' = [result EXCEPT ![c] = answer]

-----------------------------------------------------------------------------
(* The factory. *)

\* OpenTransaction waits for the transaction before it.
OpenLevelDB(c) ==
  /\ At(c, "factory")
  /\ writer = NoCaller
  /\ writer' = c
  /\ handle' = [handle EXCEPT ![c] = TRUE]
  /\ Goto(c, "fn")
  /\ UNCHANGED <<db, pending, issued, result, panicked>>

OpenFails(c) ==
  /\ At(c, "factory")
  /\ "open" \in TxFaults
  /\ Return(c, "error")
  /\ UNCHANGED <<db, pending, writer, handle, issued, panicked>>

-----------------------------------------------------------------------------
(* The function, over the store that WithTx has made. *)

Issue(c) ==
  /\ At(c, "fn") /\ issued[c] < N
  /\ issued' = [issued EXCEPT ![c] = @ + 1]
  /\ pending' = Append(pending, <<c, issued'[c]>>)
  /\ UNCHANGED <<db, writer, handle, pc, result, panicked>>

FnFails(c) ==
  /\ At(c, "fn")
  /\ "fn" \in TxFaults
  /\ Goto(c, "rollback")
  /\ UNCHANGED <<db, pending, writer, handle, issued, result, panicked>>

FnReturns(c) ==
  /\ At(c, "fn") /\ issued[c] = N
  /\ Goto(c, "commit")
  /\ UNCHANGED <<db, pending, writer, handle, issued, result, panicked>>

-----------------------------------------------------------------------------
(* Commit and Rollback. *)

CommitLevelDB(c) ==
  /\ At(c, "commit")
  /\ db' = db \o pending
  /\ pending' = <<>>
  /\ writer' = NoCaller
  /\ handle' = [handle EXCEPT ![c] = FALSE]
  /\ Goto(c, "committed")
  /\ UNCHANGED <<issued, result, panicked>>

\* The transaction of LevelDB stays open; the deferred close forgets it.
CommitFails(c) ==
  /\ At(c, "commit")
  /\ "commit" \in TxFaults
  /\ handle' = [handle EXCEPT ![c] = FALSE]
  /\ Goto(c, "rollback")
  /\ UNCHANGED <<db, pending, writer, issued, result, panicked>>

ReturnNil(c) ==
  /\ At(c, "committed")
  /\ Return(c, "nil")
  /\ UNCHANGED <<db, pending, writer, handle, issued, panicked>>

\* (mutant: the transaction is forgotten and not discarded)
RollbackForgets(c) ==
  /\ At(c, "rollback")
  /\ handle' = [handle EXCEPT ![c] = FALSE]
  /\ Return(c, "error")
  /\ UNCHANGED <<db, pending, writer, issued, panicked>>

\* (mutant: the function's commands are committed before its error is returned)
RollbackCommits(c) ==
  /\ At(c, "rollback") /\ handle[c]
  /\ db' = db \o pending
  /\ pending' = <<>>
  /\ writer' = NoCaller
  /\ handle' = [handle EXCEPT ![c] = FALSE]
  /\ Return(c, "error")
  /\ UNCHANGED <<issued, panicked>>

\* Discard gives the transaction up.
RollbackLevelDB(c) ==
  /\ At(c, "rollback") /\ handle[c]
  /\ pending' = <<>>
  /\ writer' = NoCaller
  /\ handle' = [handle EXCEPT ![c] = FALSE]
  /\ Return(c, "error")
  /\ UNCHANGED <<db, issued, panicked>>

\* Discard of nil.
RollbackPanics(c) ==
  /\ At(c, "rollback") /\ ~handle[c]
  /\ panicked' = TRUE
  /\ UNCHANGED <<db, pending, writer, handle, issued, pc, result>>

-----------------------------------------------------------------------------
Function(c) == FnFails(c) \/ FnReturns(c)

Do(c) ==
  \/ OpenLevelDB(c) \/ OpenFails(c)
  \/ Issue(c) \/ Function(c)
  \/ CommitLevelDB(c) \/ CommitFails(c) \/ ReturnNil(c)
  \/ RollbackLevelDB(c) \/ RollbackPanics(c)
Next == \E c \in Callers : Do(c)
Spec == Init /\ [][Next]_vars

\* Each goroutine goes on, and nothing is bound to fail; one that waits for the
\* transaction before it gets it in the end, since the others take it once each.
Succeeds(c) == Do(c) /\ ~OpenFails(c) /\ ~FnFails(c) /\ ~CommitFails(c)
FairSpec == Spec /\ \A c \in Callers : WF_vars(Succeeds(c))

-----------------------------------------------------------------------------
(* What is checked. *)

LocalTxTypeOK ==
  /\ db \in Seq(Callers \X (1..N))
  /\ pending \in Seq(Callers \X (1..N))
  /\ writer \in Callers \union {NoCaller}
  /\ handle \in [Callers -> BOOLEAN]
  /\ issued \in [Callers -> 0..N]
  /\ pc \in [Callers -> {"factory", "fn", "commit", "committed", "rollback", "returned"}]
  /\ result \in [Callers -> {"none", "nil", "error"}]
  /\ panicked \in BOOLEAN

\* The commands of c in s, in their order; own[n] are those among the first n.
OwnAmong(c, s) ==
  LET own[n \in 0..Len(s)] ==
        IF n = 0 THEN <<>>
        ELSE IF s[n][1] = c THEN Append(own[n - 1], s[n][2]) ELSE own[n - 1]
  IN  own[Len(s)]
OwnCommands(c) == OwnAmong(c, db)

\* LevelDB's transaction belongs to one call of Do, from its factory to its Commit
\* or Rollback; what is in it are that function's commands so far.  The handle is
\* forgotten before that only by a commit that fails (transaction.go:19, 36 of the
\* driver, manager.go:43-57).
OneTransaction ==
  /\ \A c \in Callers :
       /\ writer = c <=> pc[c] \in {"fn", "commit", "rollback"}
       /\ handle[c] => writer = c
       /\ writer = c /\ ~handle[c] => pc[c] = "rollback" /\ "commit" \in TxFaults
       /\ pc[c] = "factory" => issued[c] = 0
       /\ pc[c] = "commit" => issued[c] = N
  /\ pending = IF writer = NoCaller THEN <<>>
               ELSE [i \in 1..issued[writer] |-> <<writer, i>>]
  /\ panicked => "commit" \in TxFaults

\* Do over LevelDB (transaction.go of the driver, manager.go:33) keeps what the
\* store counts on with every driver: all of the function's commands or none,
\* nothing after Do has returned, and nil only when they were run.
Contract(c) == INSTANCE Transaction
  WITH executed <- OwnCommands(c), cancelled <- FALSE, result <- result[c]
ImplementsTransactions ==
  /\ \A c \in Callers : Contract(c)!TransactionInit
  /\ [][\A c \in Callers :
          [Contract(c)!TransactionNext]_<<OwnCommands(c), result[c]>>]_vars

\* LevelDB holds whole transactions only, one after the other, whatever fails
\* and even when the process dies of it (one Commit, which LevelDB makes atomic,
\* under OpenTransaction's lock, manager.go:52).
WholeTransactions ==
  /\ db /= <<>> => db[1][2] = 1 /\ db[Len(db)][2] = N
  /\ \A i \in 1..(Len(db) - 1) :
       db[i + 1] = IF db[i][2] < N THEN <<db[i][1], db[i][2] + 1>>
                   ELSE <<db[i + 1][1], 1>>

LocalTxInvariant == LocalTxTypeOK /\ OneTransaction /\ WholeTransactions

\* Every call of Do returns, or the process dies of a failed commit: no path
\* through manager.go:33-61 keeps LevelDB's only transaction.
EveryDoReturns == \A c \in Callers : <>(pc[c] = "returned" \/ panicked)

===============================================================================
