----------------------------- MODULE RedisTxProofs ----------------------------
(***************************************************************************)
(* Proofs about one call of Do over the Redis driver, for every number of   *)
(* commands and every set of faults.                                        *)
(***************************************************************************)
EXTENDS RedisTx, TLAPS

-----------------------------------------------------------------------------
(* Beginnings of the commands. *)

LEMMA FirstCommandsSeq ==
  ASSUME NEW k \in 0..N
  PROVE  FirstCommands(k) \in Seq(1..N) /\ Len(FirstCommands(k)) = k
  BY TxConstants DEF FirstCommands

LEMMA NoCommands == FirstCommands(0) = <<>>
<1>1. FirstCommands(0) \in Seq(1..N) /\ Len(FirstCommands(0)) = 0
  BY FirstCommandsSeq, TxConstants
<1> QED BY <1>1

\* The function's next command makes the next beginning.
LEMMA NextCommand ==
  ASSUME NEW k \in 0..N, k < N
  PROVE  Append(FirstCommands(k), k + 1) = FirstCommands(k + 1)
  BY TxConstants DEF FirstCommands

-----------------------------------------------------------------------------
(* The invariant. *)

LEMMA InvariantInitially == TxInit => TxInvariant
<1>1. FirstCommands(0) = <<>> /\ 0 \in 0..N
  BY NoCommands, TxConstants
<1>2. <<>> \in Prefixes
  BY <1>1 DEF Prefixes
<1>3. <<>> \in Seq(1..N)
  OBVIOUS
<1>4. TxInit => TxTypeOK
  <2> SUFFICES ASSUME TxInit PROVE TxTypeOK
    OBVIOUS
  <2>1. conflict \in BOOLEAN /\ cancelled \in BOOLEAN
    BY Zenon DEF TxInit
  <2>2. cmds \in Seq(1..N) /\ slice \in Seq(1..N) /\ taken \in Seq(1..N)
          /\ executed \in Seq(1..N)
    BY <1>3, Zenon DEF TxInit
  <2>3. issued \in 0..N
    BY TxConstants DEF TxInit
  <2> QED
    BY <2>1, <2>2, <2>3 DEF TxInit, TxTypeOK, CallerSteps, PipelineSteps, WaiterSteps
<1> QED
  BY <1>1, <1>2, <1>4 DEF TxInit, TxInvariant

LEMMA StepKeepsInvariant == TxInvariant /\ [TxNext]_txVars => TxInvariant'
<1> SUFFICES ASSUME TxInvariant, [TxNext]_txVars PROVE TxInvariant'
  OBVIOUS
<1> USE TxConstants DEF TxInvariant, TxTypeOK, CallerSteps, PipelineSteps, WaiterSteps
<1>1. CASE CancelContext
  BY <1>1 DEF CancelContext, Prefixes
<1>2. CASE WriteWatchedKey
  BY <1>2 DEF WriteWatchedKey, Prefixes
<1>3. CASE WatchFails
  BY <1>3 DEF WatchFails, Prefixes
<1>4. CASE WatchBegins
  BY <1>4 DEF WatchBegins, Prefixes
<1>5. CASE CallbackReturns
  BY <1>5 DEF CallbackReturns, Prefixes
<1>6. CASE TakeCommands
  BY <1>6 DEF TakeCommands, Prefixes
<1>7. CASE ClearCommands
  BY <1>7 DEF ClearCommands, Prefixes
<1>8. CASE SendExec
  BY <1>8 DEF SendExec, Prefixes
<1>9. CASE AwaitDone
  BY <1>9 DEF AwaitDone, Prefixes
<1>10. CASE AppendRead
  BY <1>10 DEF AppendRead, Prefixes
<1>11. CASE AppendWrite
  <2>1. issued + 1 \in 1..N /\ issued' = issued + 1 /\ cmds' = Append(slice, issued + 1)
    BY <1>11 DEF AppendWrite
  <2>2. cmds' \in Seq(1..N) /\ slice' \in Seq(1..N)
    BY <1>11, <2>1 DEF AppendWrite
  <2>3. TxTypeOK'
    BY <1>11, <2>1, <2>2 DEF AppendWrite
  <2>4. pipeline \in {"watch", "callback", "take"} => cmds' = FirstCommands(issued')
    BY <1>11, <2>1, NextCommand DEF AppendWrite
  <2> QED BY <1>11, <2>1, <2>3, <2>4 DEF AppendWrite, Prefixes
<1>12. CASE FnReturns
  BY <1>12 DEF FnReturns, Prefixes
<1>13. CASE Commit
  <2>1. CASE closed /= "open"
    <3>1. cmds' = <<>> /\ cmds' \in Seq(1..N)
      BY <1>13, <2>1 DEF Commit
    <3> QED BY <1>13, <2>1, <3>1 DEF Commit, Prefixes
  <2>2. CASE closed = "open"
    <3>1. closure' \in {"open", "closed", "rollback"} /\ closure' /= "open"
      BY <1>13, <2>2 DEF Commit
    <3> QED BY <1>13, <2>2, <3>1 DEF Commit, Prefixes
  <2> QED BY <2>1, <2>2
<1>14. CASE CommitReturns
  BY <1>14 DEF CommitReturns, Prefixes
<1>15. CASE Rollback
  <2>1. CASE closed /= "open"
    <3>1. cmds' = <<>> /\ cmds' \in Seq(1..N)
      BY <1>15, <2>1 DEF Rollback
    <3> QED BY <1>15, <2>1, <3>1 DEF Rollback, Prefixes
  <2>2. CASE closed = "open"
    <3>1. closure' \in {"open", "closed", "rollback"} /\ closure' /= "open"
      BY <1>15, <2>2 DEF Rollback
    <3> QED BY <1>15, <2>2, <3>1 DEF Rollback, Prefixes
  <2> QED BY <2>1, <2>2
<1>16. CASE RollbackReturns
  BY <1>16 DEF RollbackReturns, Prefixes
<1>17. CASE UNCHANGED txVars
  BY <1>17 DEF txVars, Prefixes
<1> QED
  BY <1>1, <1>2, <1>3, <1>4, <1>5, <1>6, <1>7, <1>8, <1>9, <1>10, <1>11, <1>12,
     <1>13, <1>14, <1>15, <1>16, <1>17
  DEF TxNext, Environment, PipelineNext, CallerNext

\* transaction.go: how the steps of the caller, of the goroutine in Watch and of
\* awaitDone fit together, for every number of commands and whatever fails.
THEOREM TxInvariantHolds == TxSpec => []TxInvariant
  BY InvariantInitially, StepKeepsInvariant, PTL DEF TxSpec

-----------------------------------------------------------------------------
(* The contract. *)

LEMMA InitMapsToContract == TxInit => Contract!TransactionInit
  BY DEF TxInit, Contract!TransactionInit

\* The only step that changes what Redis has run is a transaction of the contract.
LEMMA ExecIsExecute ==
  ASSUME TxInvariant, SendExec, executed' /= executed
  PROVE  Contract!Execute
<1>1. pipeline = "send" /\ executed' = taken /\ UNCHANGED <<cancelled, result>>
  BY DEF SendExec
<1>2. executed = <<>> /\ result = "none" /\ closure = "closed"
  BY <1>1 DEF TxInvariant
<1>3. PICK k \in 0..N : taken = FirstCommands(k)
  BY DEF TxInvariant, Prefixes
<1>4. k \in 1..N
  <2>1. k /= 0
    BY <1>1, <1>3, NoCommands DEF TxInvariant
  <2> QED BY <2>1, TxConstants
<1>5. ~cancelled => taken = FirstCommands(N) /\ N \in 1..N
  BY <1>1, <1>2, TxConstants DEF TxInvariant
<1>6. FirstCommands(k) = Contract!FirstCommands(k) /\ FirstCommands(N) = Contract!FirstCommands(N)
  BY DEF FirstCommands, Contract!FirstCommands
<1>7. CASE cancelled
  BY <1>1, <1>2, <1>3, <1>4, <1>6, <1>7 DEF Contract!Execute
<1>8. CASE ~cancelled
  BY <1>1, <1>2, <1>5, <1>6, <1>8 DEF Contract!Execute
<1> QED BY <1>7, <1>8

\* Do returns nil without a cancellation only when EXEC has run every command.
LEMMA ReturnIsReturn ==
  ASSUME TxInvariant, result = "none", result' \in {"nil", "error"},
         UNCHANGED <<cancelled, executed>>,
         result' = "nil" => \/ Commit /\ closed /= "open"
                            \/ CommitReturns /\ closed = "nil"
  PROVE  Contract!Return
<1>1. (~cancelled /\ result' = "nil") => executed = FirstCommands(N)
  <2> SUFFICES ASSUME ~cancelled, result' = "nil" PROVE executed = FirstCommands(N)
    OBVIOUS
  <2>1. CASE Commit /\ closed /= "open"
    BY <2>1 DEF Commit, TxInvariant, TxTypeOK
  <2>2. CASE CommitReturns /\ closed = "nil"
    BY <2>2 DEF CommitReturns, TxInvariant, TxTypeOK
  <2> QED BY <2>1, <2>2
<1>2. FirstCommands(N) = Contract!FirstCommands(N)
  BY DEF FirstCommands, Contract!FirstCommands
<1> QED
  BY <1>1, <1>2 DEF Contract!Return

LEMMA StepMapsToContract ==
  TxInvariant /\ [TxNext]_txVars =>
    [Contract!Cancel \/ Contract!Execute \/ Contract!Return]_<<executed, cancelled, result>>
<1> SUFFICES ASSUME TxInvariant, [TxNext]_txVars
             PROVE  \/ Contract!Cancel \/ Contract!Execute \/ Contract!Return
                    \/ UNCHANGED <<executed, cancelled, result>>
  OBVIOUS
<1>1. CASE CancelContext
  BY <1>1 DEF CancelContext, Contract!Cancel
<1>2. CASE WatchFails
  <2>1. result = "none" /\ result' = "error" /\ UNCHANGED <<cancelled, executed>>
    BY <1>2 DEF WatchFails, TxInvariant
  <2> QED BY <2>1, ReturnIsReturn
<1>3. CASE SendExec
  <2>1. UNCHANGED <<cancelled, result>>
    BY <1>3 DEF SendExec
  <2> QED BY <1>3, <2>1, ExecIsExecute
<1>4. CASE Commit
  <2>1. CASE result' /= result
    <3>1. result = "none" /\ result' = "nil" /\ closed /= "open"
            /\ UNCHANGED <<cancelled, executed>>
      BY <1>4, <2>1 DEF Commit, TxInvariant
    <3> QED BY <1>4, <3>1, ReturnIsReturn
  <2>2. CASE result' = result
    BY <1>4, <2>2 DEF Commit
  <2> QED BY <2>1, <2>2
<1>5. CASE CommitReturns
  <2>1. CASE result' /= result
    <3>1. result = "none" /\ result' = "nil" /\ closed = "nil"
            /\ UNCHANGED <<cancelled, executed>>
      BY <1>5, <2>1 DEF CommitReturns, TxInvariant
    <3> QED BY <1>5, <3>1, ReturnIsReturn
  <2>2. CASE result' = result
    BY <1>5, <2>2 DEF CommitReturns
  <2> QED BY <2>1, <2>2
<1>6. CASE Rollback \/ RollbackReturns
  <2>1. CASE result' /= result
    <3>1. result = "none" /\ result' = "error" /\ UNCHANGED <<cancelled, executed>>
      BY <1>6, <2>1 DEF Rollback, RollbackReturns, TxInvariant
    <3> QED BY <3>1, ReturnIsReturn
  <2>2. CASE result' = result
    BY <1>6, <2>2 DEF Rollback, RollbackReturns
  <2> QED BY <2>1, <2>2
<1>7. CASE WriteWatchedKey \/ WatchBegins \/ CallbackReturns \/ TakeCommands
             \/ ClearCommands \/ AwaitDone \/ AppendRead \/ AppendWrite \/ FnReturns
             \/ UNCHANGED txVars
  BY <1>7 DEF WriteWatchedKey, WatchBegins, CallbackReturns, TakeCommands,
              ClearCommands, AwaitDone, AppendRead, AppendWrite, FnReturns, txVars
<1> QED
  BY <1>1, <1>2, <1>3, <1>4, <1>5, <1>6, <1>7
  DEF TxNext, Environment, PipelineNext, CallerNext

\* manager.go Do over the Redis driver: a beginning of the commands is run at one
\* moment, all of them without a cancellation, and none after Do has returned,
\* for every number of commands and whatever fails.
THEOREM DoImplementsTransaction == TxSpec => ImplementsTransaction
<1>1. TxInit => Contract!TransactionInit
  BY InitMapsToContract
<1>2. TxInvariant /\ [TxNext]_txVars =>
        [Contract!Cancel \/ Contract!Execute \/ Contract!Return]_<<executed, cancelled, result>>
  BY StepMapsToContract
<1> QED
  BY <1>1, <1>2, TxInvariantHolds, PTL
  DEF TxSpec, ImplementsTransaction, Contract!TransactionSpec, Contract!TransactionNext
===============================================================================
