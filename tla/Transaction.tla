----------------------------- MODULE Transaction ------------------------------
(***************************************************************************)
(* What the drivers promise to a caller that hands a function with N        *)
(* commands to txManager.Do.  A beginning of the commands is run at one     *)
(* moment, or none; all of them when the context is not cancelled; and none *)
(* after Do has returned.  Without a cancellation, nil means that they were *)
(* run.  After one, nil says nothing of what was run: CommitCheckpoint      *)
(* takes it for success all the same (UTXOStore, ExecCutUnnoticed).         *)
(***************************************************************************)
EXTENDS Integers, Sequences

CONSTANT N \* the number of commands, at least one

VARIABLES
  executed,  \* the commands Redis has run
  cancelled, \* the context
  result     \* what Do has returned: none, nil or error

FirstCommands(k) == [i \in 1..k |-> i]

TransactionInit ==
  /\ executed = <<>>
  /\ cancelled = FALSE
  /\ result = "none"

Cancel ==
  /\ ~cancelled
  /\ cancelled' = TRUE
  /\ UNCHANGED <<executed, result>>

Execute ==
  /\ result = "none"
  /\ executed = <<>>
  /\ \E k \in 1..N : executed' = FirstCommands(k) /\ (~cancelled => k = N)
  /\ UNCHANGED <<cancelled, result>>

Return ==
  /\ result = "none"
  /\ result' \in {"nil", "error"}
  /\ (~cancelled /\ result' = "nil") => executed = FirstCommands(N)
  /\ UNCHANGED <<executed, cancelled>>

TransactionNext == Cancel \/ Execute \/ Return
TransactionSpec ==
  TransactionInit /\ [][TransactionNext]_<<executed, cancelled, result>>
===============================================================================
