------------------------------ MODULE MCChainstate ----------------------------
(***************************************************************************)
(* Chainstates of up to three coins for TLC, with bytes of eight values and *)
(* a high bit.  The numbers are at both ends of the lengths they take (7,   *)
(* 8, 71 and 72 here are 127, 128, 16511 and 16512 in the code), the        *)
(* amounts too once compressed, and the scripts of every form.              *)
(***************************************************************************)
EXTENDS Chainstate, Bitwise

MCxor(a, b) == a ^^ b

X1 == <<1, 15>>
X2 == <<3, 0>>
MCValidX == {X1, X2}

A == <<0, 1>>
B == <<1, 0>>
Z == <<15, 15>>

CoinOf(txid, vout, height, coinbase, amount, script) ==
  [txid |-> txid, vout |-> vout, height |-> height, coinbase |-> coinbase,
   amount |-> amount, script |-> script]

Pool == {CoinOf(A, 0,   0,   TRUE,  2000000000, PayTo("pk65", X1, 1)),
         CoinOf(A, 7,   4,   FALSE, 0,          PayTo("pkh", <<1, 9>>, 0)),
         CoinOf(A, 8,   3,   TRUE,  7000,       PayTo("sh", <<0, 0>>, 0)),
         CoinOf(A, 71,  71,  FALSE, 8,          PayTo("pk", X2, 0)),
         CoinOf(A, 72,  35,  TRUE,  80,         PayTo("pk", X1, 1)),
         CoinOf(B, 0,   36,  FALSE, 100000000,  PayTo("pk65", X2, 0)),
         CoinOf(B, 583, 500, FALSE, 1000000000, Other(<<0>>)),
         CoinOf(B, 584, 36,  FALSE, 89750,      Other(<<15, 0>>)),
         CoinOf(Z, 8,   1,   FALSE, 99999999,   Other(<<8, 2, 3>>)),
         CoinOf(Z, 9,   2,   TRUE,  120000000,  Other(<<0, 2, 1, 9>>))}

Unreadable == CoinOf(B, 3, 2, FALSE, 5, NilScript)

\* The size of the script, 42 + 6 in two bytes, begins with 13, which by itself
\* is the size of an empty script (762 to 889 bytes in the code).
Long    == CoinOf(Z, 7, 3, FALSE, 5, Other([i \in 1..42 |-> i % 16]))
TooLong == CoinOf(Z, 7, 3, FALSE, 5, Other([i \in 1..61 |-> 0]))

\* One to three coins of the pool.
UpToThree == {{c, d, e} : c, d, e \in Pool}
MCChainstates ==
  UpToThree \union {{c, d} : c \in Pool, d \in {Unreadable, Long, TooLong}}

MCOtherKeys == {<<14, 0, 1, 1>>, <<4, 0, 1, 0, 0>>, <<KeyC, 0, 1>>}
MCBestBlock == <<1, 2, 3>>

Readable == {<<8, 5, 12>>, <<8, 0>>}
AnyKey   == Readable \union {<<7, 5>>, NoKey}
===============================================================================
