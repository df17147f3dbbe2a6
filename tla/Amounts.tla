-------------------------------- MODULE Amounts -------------------------------
(***************************************************************************)
(* The compressed form of an amount: a power of ten up to the ninth, the    *)
(* last digit and the rest.  The chainstate has it, and so has the store.   *)
(***************************************************************************)
EXTENDS Integers

Pow10 == <<1, 10, 100, 1000, 10000, 100000, 1000000, 10000000, 100000000,
           1000000000>>

\* The exponent found by dividing by ten while that leaves no remainder.
exponentOf(amount) ==
  CHOOSE e \in 0..9 : /\ amount % Pow10[e + 1] = 0
                      /\ e < 9 => amount % Pow10[e + 2] /= 0

CompressTxOutAmount(amount) ==
  IF amount = 0 THEN 0
  ELSE LET e == exponentOf(amount)
           n == amount \div Pow10[e + 1]
       IN  IF e < 9 THEN 1 + 10 * (9 * (n \div 10) + (n % 10) - 1) + e
           ELSE 10 + 10 * (n - 1)

DecompressTxOutAmount(x) ==
  IF x = 0 THEN 0
  ELSE LET e == (x - 1) % 10
           y == (x - 1) \div 10
           n == IF e < 9 THEN (y \div 9) * 10 + (y % 9) + 1 ELSE y + 1
       IN  n * Pow10[e + 1]

\* The amount of an output that the store keeps.
GetAmount(out) == DecompressTxOutAmount(out.CompressedAmount)
===============================================================================
