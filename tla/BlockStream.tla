------------------------------ MODULE BlockStream -----------------------------
(***************************************************************************)
(* What the scanner promises its handler: the blocks from Start on, one     *)
(* after the other, none twice and none left out, and nothing after it has  *)
(* stopped.  (The store relies on it: UTXOStore counts its next block up.)  *)
(***************************************************************************)
EXTENDS Integers

CONSTANTS
  Start,     \* height of the block the scan starts from
  Tip        \* height of the last block the node has

VARIABLES
  handled,   \* height of the last block the handler has accepted
  stopped    \* the scanner has returned, or the process is dead

Init ==
  /\ handled = Start - 1
  /\ stopped = FALSE

Handle ==
  /\ ~stopped
  /\ handled < Tip
  /\ handled' = handled + 1
  /\ UNCHANGED stopped

Stop ==
  /\ ~stopped
  /\ stopped' = TRUE
  /\ UNCHANGED handled

Next == Handle \/ Stop

Spec == Init /\ [][Next]_<<handled, stopped>>
===============================================================================
