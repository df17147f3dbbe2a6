----------------------------- MODULE LocalTxProofs ----------------------------
(***************************************************************************)
(* Proofs about Do over LevelDB, for any number of goroutines and commands  *)
(* and every set of faults.                                                 *)
(***************************************************************************)
EXTENDS LocalTx, SequenceTheorems, NaturalsInduction, WellFoundedInduction, TLAPS

Commands == Callers \X (1..N)

\* What a function has issued so far.
Issued(c, k) == [i \in 1..k |-> <<c, i>>]

\* The commands of a function are a sequence of commands.
LEMMA IssuedSeq ==
  ASSUME NEW c \in Callers, NEW k \in 0..N
  PROVE  Issued(c, k) \in Seq(Commands) /\ Len(Issued(c, k)) = k
<1>1. \A i \in 1..k : <<c, i>> \in Commands
  BY LocalTxConstants DEF Commands
<1>2. Issued(c, k) \in [1..k -> Commands]
  BY <1>1 DEF Issued
<1> QED
  BY <1>2, LocalTxConstants DEF Issued

\* A function that has not begun has issued nothing.
LEMMA NothingIssued ==
  ASSUME NEW c \in Callers
  PROVE  Issued(c, 0) = <<>>
<1>1. Issued(c, 0) \in Seq(Commands) /\ Len(Issued(c, 0)) = 0
  BY IssuedSeq, LocalTxConstants
<1> QED
  BY <1>1

\* The next command of a function is added at the end.
LEMMA NextIssued ==
  ASSUME NEW c \in Callers, NEW k \in 0..N, k < N
  PROVE  Append(Issued(c, k), <<c, k + 1>>) = Issued(c, k + 1)
<1> DEFINE s == Issued(c, k)
           t == Issued(c, k + 1)
           x == <<c, k + 1>>
<1>1. /\ s \in Seq(Commands) /\ Len(s) = k
      /\ t \in Seq(Commands) /\ Len(t) = k + 1
  BY IssuedSeq, LocalTxConstants
<1>2. x \in Commands
  BY LocalTxConstants DEF Commands
<1>3. /\ \A i \in 1..k : s[i] = <<c, i>>
      /\ \A i \in 1..(k + 1) : t[i] = <<c, i>>
  BY DEF Issued
<1> HIDE DEF s, t
<1>4. /\ Append(s, x) \in Seq(Commands)
      /\ Len(Append(s, x)) = k + 1
      /\ \A i \in 1..k : Append(s, x)[i] = s[i]
      /\ Append(s, x)[k + 1] = x
  BY <1>1, <1>2, AppendProperties
<1>5. ASSUME NEW i \in 1..(k + 1) PROVE Append(s, x)[i] = t[i]
  <2>1. i \in 1..k \/ i = k + 1
    OBVIOUS
  <2> QED
    BY <1>3, <1>4, <2>1
<1>6. Append(s, x) = t
  BY <1>1, <1>4, <1>5, SeqEqual
<1> QED
  BY <1>6 DEF s, t

-----------------------------------------------------------------------------
(* A committed transaction comes after the others as a whole. *)

Whole(s) ==
  /\ s /= <<>> => s[1][2] = 1 /\ s[Len(s)][2] = N
  /\ \A i \in 1..(Len(s) - 1) :
       s[i + 1] = IF s[i][2] < N THEN <<s[i][1], s[i][2] + 1>>
                  ELSE <<s[i + 1][1], 1>>

\* A whole transaction after whole ones.
LEMMA CommitKeepsWhole ==
  ASSUME NEW d \in Seq(Commands), Whole(d), NEW c \in Callers,
         NEW p \in Seq(Commands), Len(p) = N, \A i \in 1..N : p[i] = <<c, i>>,
         NEW e, e = d \o p
  PROVE  e \in Seq(Commands) /\ Whole(e)
<1>0. /\ d /= <<>> => d[1][2] = 1 /\ d[Len(d)][2] = N
      /\ \A i \in 1..(Len(d) - 1) :
           d[i + 1] = IF d[i][2] < N THEN <<d[i][1], d[i][2] + 1>>
                      ELSE <<d[i + 1][1], 1>>
  BY DEF Whole
<1>1. N \in Nat /\ N > 0
  BY LocalTxConstants
<1>2. PICK n \in Nat : n = Len(d) /\ (n = 0 <=> d = <<>>)
  <2>1. Len(d) \in Nat
    OBVIOUS
  <2>2. d /= <<>> => Len(d) /= 0
    OBVIOUS
  <2>3. d = <<>> => Len(d) = 0
    OBVIOUS
  <2> QED
    BY <2>1, <2>2, <2>3
<1>3. /\ e \in Seq(Commands)
      /\ Len(e) = n + N
      /\ \A i \in 1..(n + N) : e[i] = IF i <= n THEN d[i] ELSE p[i - n]
  <2>1. /\ e \in Seq(Commands)
        /\ Len(e) = Len(d) + Len(p)
        /\ \A i \in 1..(Len(d) + Len(p)) :
             e[i] = IF i <= Len(d) THEN d[i] ELSE p[i - Len(d)]
    <3>1. \A s1, s2 \in Seq(Commands) :
            /\ s1 \o s2 \in Seq(Commands)
            /\ Len(s1 \o s2) = Len(s1) + Len(s2)
            /\ \A i \in 1..(Len(s1) + Len(s2)) :
                 (s1 \o s2)[i] = IF i <= Len(s1) THEN s1[i] ELSE s2[i - Len(s1)]
      BY ConcatProperties
    <3> QED
      BY <3>1
  <2> QED
    BY <2>1, <1>2
<1>4. ASSUME NEW i \in 1..n PROVE e[i] = d[i]
  BY <1>1, <1>2, <1>3
<1>5. ASSUME NEW j \in 1..N PROVE e[n + j] = <<c, j>>
  <2>1. /\ n + j \in 1..(n + N) /\ ~(n + j <= n) /\ (n + j) - n = j
    BY <1>1, <1>2
  <2>2. e[n + j] = p[j]
    BY <1>3, <2>1
  <2> QED
    BY <2>2
<1>6. e[1][2] = 1
  <2>1. CASE n = 0
    <3>1. n + 1 = 1 /\ 1 \in 1..N
      BY <2>1, <1>1
    <3>2. e[1] = <<c, 1>>
      BY <3>1, <1>5
    <3> QED
      BY <3>2
  <2>2. CASE n /= 0
    <3>1. 1 \in 1..n /\ d /= <<>>
      BY <2>2, <1>2
    <3> QED
      BY <3>1, <1>0, <1>4
  <2> QED
    BY <2>1, <2>2
<1>7. e[Len(e)][2] = N
  <2>1. N \in 1..N
    BY <1>1
  <2>2. e[Len(e)] = <<c, N>>
    BY <2>1, <1>3, <1>5
  <2> QED
    BY <2>2
<1>8. ASSUME NEW i \in 1..(Len(e) - 1)
      PROVE  e[i + 1] = IF e[i][2] < N THEN <<e[i][1], e[i][2] + 1>>
                        ELSE <<e[i + 1][1], 1>>
  <2>1. i \in Nat /\ 1 <= i /\ i < n + N
    BY <1>1, <1>3
  <2>2. CASE i < n
    <3>1. i \in 1..(n - 1) /\ i \in 1..n /\ i + 1 \in 1..n
      BY <2>1, <2>2, <1>2
    <3>2. e[i] = d[i] /\ e[i + 1] = d[i + 1]
      BY <3>1, <1>4
    <3> QED
      BY <3>1, <3>2, <1>0, <1>2
  <2>3. CASE i = n
    <3>1. n \in 1..n /\ d /= <<>> /\ 1 \in 1..N
      BY <2>1, <2>3, <1>1, <1>2
    <3>2. e[i] = d[n] /\ e[i + 1] = <<c, 1>>
      BY <2>3, <3>1, <1>4, <1>5
    <3>3. e[i][2] = N /\ e[i + 1][1] = c
      BY <3>1, <3>2, <1>0, <1>2
    <3>4. ~(e[i][2] < N)
      BY <3>3, <1>1
    <3> QED
      BY <3>2, <3>3, <3>4
  <2>4. CASE i > n
    <3>1. PICK j \in 1..N : i = n + j /\ j < N
      <4>1. i - n \in 1..N /\ i = n + (i - n) /\ i - n < N
        BY <2>1, <2>4, <1>1, <1>2
      <4> QED
        BY <4>1
    <3>2. j + 1 \in 1..N /\ i + 1 = n + (j + 1)
      BY <3>1, <1>1, <1>2
    <3>3. e[i] = <<c, j>> /\ e[i + 1] = <<c, j + 1>>
      <4>1. e[n + (j + 1)] = <<c, j + 1>>
        BY <3>2, <1>5
      <4> QED
        BY <3>1, <3>2, <4>1, <1>5
    <3>4. e[i][1] = c /\ e[i][2] = j
      BY <3>3
    <3> QED
      BY <3>1, <3>3, <3>4
  <2>5. i < n \/ i = n \/ i > n
    BY <2>1, <1>2
  <2> QED
    BY <2>2, <2>3, <2>4, <2>5
<1> QED
  BY <1>3, <1>6, <1>7, <1>8 DEF Whole

-----------------------------------------------------------------------------
(* The invariant. *)

Pending ==
  pending = IF writer = NoCaller THEN <<>> ELSE Issued(writer, issued[writer])

\* Before the first call LevelDB is empty and has no transaction.
LEMMA InvariantInitially == Init => LocalTxInvariant
<1> SUFFICES ASSUME Init PROVE LocalTxInvariant
  OBVIOUS
<1>1. LocalTxTypeOK
  <2>1. handle \in [Callers -> BOOLEAN] /\ panicked \in BOOLEAN
    BY Zenon DEF Init
  <2>2. <<>> \in Seq(Callers \X (1..N))
    OBVIOUS
  <2> QED
    BY <2>1, <2>2, LocalTxConstants DEF Init, LocalTxTypeOK
<1>2. OneTransaction
  BY LocalTxConstants DEF Init, OneTransaction
<1>3. WholeTransactions
  BY DEF Init, WholeTransactions
<1> QED
  BY <1>1, <1>2, <1>3 DEF LocalTxInvariant

\* Every step keeps the invariant.
LEMMA StepKeepsInvariant == LocalTxInvariant /\ [Next]_vars => LocalTxInvariant'
<1> SUFFICES ASSUME LocalTxInvariant, [Next]_vars PROVE LocalTxInvariant'
  OBVIOUS
<1> USE LocalTxConstants DEF LocalTxInvariant
<1>1. LocalTxTypeOK /\ OneTransaction /\ WholeTransactions /\ Pending
  BY DEF OneTransaction, Pending, Issued
<1>2. CASE UNCHANGED vars
  BY <1>2 DEF vars, LocalTxTypeOK, OneTransaction, WholeTransactions
<1>3. ASSUME NEW c \in Callers, OpenLevelDB(c) PROVE LocalTxInvariant'
  <2> USE <1>3 DEF OpenLevelDB, At, Goto
  <2>1. LocalTxTypeOK'
    BY <1>1 DEF LocalTxTypeOK
  <2>2. issued[c] = 0 /\ pending = <<>> /\ Issued(c, 0) = <<>>
    BY <1>1, NothingIssued DEF OneTransaction
  <2>3. OneTransaction'
    BY <1>1, <2>2 DEF LocalTxTypeOK, OneTransaction, Issued
  <2> QED
    BY <2>1, <2>3 DEF WholeTransactions
<1>4. ASSUME NEW c \in Callers, OpenFails(c) PROVE LocalTxInvariant'
  BY <1>1, <1>4 DEF OpenFails, At, Goto, Return, LocalTxTypeOK, OneTransaction,
                    WholeTransactions
<1>5. ASSUME NEW c \in Callers, Issue(c) PROVE LocalTxInvariant'
  <2> USE <1>5 DEF Issue, At
  <2>1. writer = c /\ issued[c] \in 0..N /\ issued[c] < N /\ issued' [c] = issued[c] + 1
    BY <1>1 DEF LocalTxTypeOK, OneTransaction
  <2>2. pending = Issued(c, issued[c])
    BY <1>1, <2>1 DEF Pending
  <2>3. pending' = Issued(c, issued'[c])
    BY <2>1, <2>2, NextIssued
  <2>4. LocalTxTypeOK'
    <3>1. issued'[c] \in 0..N
      BY <2>1
    <3>2. Issued(c, issued'[c]) \in Seq(Commands)
      BY <3>1, IssuedSeq, Zenon
    <3> QED
      BY <1>1, <2>1, <2>3, <3>2 DEF LocalTxTypeOK, Commands
  <2>5. OneTransaction'
    BY <1>1, <2>1, <2>3 DEF LocalTxTypeOK, OneTransaction, Issued
  <2> QED
    BY <2>4, <2>5 DEF WholeTransactions
<1>6. ASSUME NEW c \in Callers, FnFails(c) PROVE LocalTxInvariant'
  BY <1>1, <1>6 DEF FnFails, At, Goto, LocalTxTypeOK, OneTransaction, WholeTransactions
<1>7. ASSUME NEW c \in Callers, FnReturns(c) PROVE LocalTxInvariant'
  BY <1>1, <1>7 DEF FnReturns, At, Goto, LocalTxTypeOK, OneTransaction, WholeTransactions
<1>8. ASSUME NEW c \in Callers, CommitLevelDB(c) PROVE LocalTxInvariant'
  <2> USE <1>8 DEF CommitLevelDB, At, Goto
  <2>1. writer = c /\ issued[c] = N
    BY <1>1 DEF OneTransaction
  <2>2. db' = db \o Issued(c, N)
    BY <1>1, <2>1 DEF Pending
  <2>3. db' \in Seq(Commands) /\ WholeTransactions'
    <3>1. db \in Seq(Commands)
      BY <1>1 DEF LocalTxTypeOK, Commands
    <3>2. /\ Issued(c, N) \in Seq(Commands) /\ Len(Issued(c, N)) = N
          /\ \A i \in 1..N : Issued(c, N)[i] = <<c, i>>
      <4>1. N \in 0..N
        OBVIOUS
      <4>2. Issued(c, N) \in Seq(Commands) /\ Len(Issued(c, N)) = N
        BY <4>1, IssuedSeq
      <4>3. \A i \in 1..N : Issued(c, N)[i] = <<c, i>>
        BY DEF Issued
      <4> QED
        BY <4>2, <4>3
    <3>3. Whole(db)
      BY <1>1 DEF Whole, WholeTransactions
    <3>4. db' \in Seq(Commands) /\ Whole(db')
      BY <2>2, <3>1, <3>2, <3>3, CommitKeepsWhole
    <3> QED
      BY <3>4 DEF Whole, WholeTransactions
  <2>4. LocalTxTypeOK'
    BY <1>1, <2>3 DEF LocalTxTypeOK, Commands
  <2>5. OneTransaction'
    BY <1>1, <2>1 DEF LocalTxTypeOK, OneTransaction
  <2> QED
    BY <2>3, <2>4, <2>5
<1>9. ASSUME NEW c \in Callers, CommitFails(c) PROVE LocalTxInvariant'
  BY <1>1, <1>9 DEF CommitFails, At, Goto, LocalTxTypeOK, OneTransaction, WholeTransactions
<1>10. ASSUME NEW c \in Callers, ReturnNil(c) PROVE LocalTxInvariant'
  BY <1>1, <1>10 DEF ReturnNil, At, Goto, Return, LocalTxTypeOK, OneTransaction,
                     WholeTransactions
<1>11. ASSUME NEW c \in Callers, RollbackLevelDB(c) PROVE LocalTxInvariant'
  BY <1>1, <1>11 DEF RollbackLevelDB, At, Goto, Return, LocalTxTypeOK, OneTransaction,
                     WholeTransactions
<1>12. ASSUME NEW c \in Callers, RollbackPanics(c) PROVE LocalTxInvariant'
  BY <1>1, <1>12 DEF RollbackPanics, At, LocalTxTypeOK, OneTransaction, WholeTransactions
<1> QED
  BY <1>2, <1>3, <1>4, <1>5, <1>6, <1>7, <1>8, <1>9, <1>10, <1>11, <1>12
  DEF Next, Do, Function

\* For every number of callers and commands and every set of faults, LevelDB's
\* transaction belongs to one call of Do and holds that function's commands
\* (transaction.go of the driver, manager.go:33).
THEOREM LocalTxInvariantHolds == Spec => []LocalTxInvariant
<1>1. Init => LocalTxInvariant
  BY InvariantInitially
<1>2. LocalTxInvariant /\ [Next]_vars => LocalTxInvariant'
  BY StepKeepsInvariant
<1> QED
  BY <1>1, <1>2, PTL DEF Spec

\* What LevelDB holds is whole transactions, one after the other, whatever fails
\* (transaction.go:14-30, manager.go:52).
THEOREM LevelDBHoldsWholeTransactions == Spec => []WholeTransactions
<1>1. LocalTxInvariant => WholeTransactions
  BY DEF LocalTxInvariant
<1> QED
  BY <1>1, LocalTxInvariantHolds, PTL

\* Do does not panic unless LevelDB refuses a commit (transaction.go:36-38).
THEOREM PanicsOnlyAfterFailedCommit ==
  ASSUME "commit" \notin TxFaults
  PROVE  Spec => []~panicked
<1>1. LocalTxInvariant => ~panicked
  BY DEF LocalTxInvariant, OneTransaction
<1> QED
  BY <1>1, LocalTxInvariantHolds, PTL

-----------------------------------------------------------------------------
(* The commands of one caller in LevelDB. *)

\* A set that has every natural number below which it has all, has all.
LEMMA Induction ==
  ASSUME NEW T, \A n \in Nat : (\A k \in 0..(n - 1) : k \in T) => n \in T
  PROVE  \A n \in Nat : n \in T
<1> SUFFICES ASSUME Nat \ T /= {} PROVE FALSE
  OBVIOUS
<1> DEFINE R == OpToRel(<, Nat)
<1>1. IsWellFoundedOn(R, Nat)
  BY NatLessThanWellFounded, Zenon
<1>2. \A y, m \in Nat \ T : y < m => <<y, m>> \in R
  BY Zenon DEF OpToRel
<1> HIDE DEF R
<1>3. PICK m \in Nat \ T : \A y \in Nat \ T : ~ (<<y, m>> \in R)
  BY <1>1, WFMin, Zenon
<1>4. \A k \in Nat \ T : ~(k < m)
  BY <1>2, <1>3
<1>5. \A k \in 0..(m - 1) : k \in T
  BY <1>4
<1> QED
  BY <1>5

\* own[n] are the commands of c among the first n of s.
Among(own, c, s, L) ==
  own = [n \in 0..L |->
           IF n = 0 THEN <<>>
           ELSE IF s[n][1] = c THEN Append(own[n - 1], s[n][2]) ELSE own[n - 1]]

\* The recursive definition of OwnAmong has a solution.
LEMMA AmongExists ==
  ASSUME NEW c, NEW s, NEW L \in Nat
  PROVE  \E own : Among(own, c, s, L)
<1> DEFINE T == {n \in Nat : \E own : Among(own, c, s, n)}
<1>1. ASSUME NEW n \in Nat, \A k \in 0..(n - 1) : k \in T
      PROVE  \E own : Among(own, c, s, n)
  <2>1. CASE n = 0
    <3> DEFINE f == [k \in 0..0 |-> <<>>]
    <3>1. Among(f, c, s, n)
      BY <2>1 DEF Among
    <3> QED
      BY <3>1
  <2>2. CASE n /= 0
    <3>1. n - 1 \in T
      BY <1>1, <2>2
    <3>2. PICK f : Among(f, c, s, n - 1)
      BY <3>1
    <3> DEFINE After(g, k) == IF k = 0 THEN <<>>
                 ELSE IF s[k][1] = c THEN Append(g[k - 1], s[k][2]) ELSE g[k - 1]
    <3>3. f = [k \in 0..(n - 1) |-> After(f, k)]
      BY <3>2 DEF Among
    <3> DEFINE g == [k \in 0..n |-> After(f, k)]
    <3>4. \A k \in 0..(n - 1) : g[k] = f[k]
      <4> HIDE DEF After
      <4>1. \A k \in 0..(n - 1) : f[k] = After(f, k) /\ k \in 0..n
        BY <3>3
      <4> QED
        BY <4>1
    <3>5. \A k \in 0..n : After(g, k) = After(f, k)
      <4>1. \A k \in 0..n : k /= 0 => k - 1 \in 0..(n - 1)
        OBVIOUS
      <4> HIDE DEF g
      <4> QED
        BY <3>4, <4>1
    <3>6. g = [k \in 0..n |-> After(g, k)]
      <4> HIDE DEF After
      <4>1. \A k \in 0..n : After(g, k) = After(f, k)
        BY <3>5
      <4>2. [k \in 0..n |-> After(g, k)] = [k \in 0..n |-> After(f, k)]
        <5> HIDE DEF g
        <5> QED
          BY <4>1
      <4> QED
        BY <4>2
    <3>7. Among(g, c, s, n)
      BY <3>6 DEF Among
    <3> QED
      BY <3>7
  <2> QED
    BY <2>1, <2>2
<1>2. \A n \in Nat : (\A k \in 0..(n - 1) : k \in T) => n \in T
  BY <1>1
<1> HIDE DEF T
<1>3. \A n \in Nat : n \in T
  BY <1>2, Induction
<1> QED
  BY <1>3 DEF T

\* The equations of OwnAmong, for a sequence of length L.
Equations(own, c, s, L) ==
  /\ OwnAmong(c, s) = own[L]
  /\ own[0] = <<>>
  /\ \A n \in 1..L :
       own[n] = IF s[n][1] = c THEN Append(own[n - 1], s[n][2]) ELSE own[n - 1]

\* OwnAmong has its equations.
LEMMA OwnEquations ==
  ASSUME NEW c, NEW s, NEW L \in Nat, L = Len(s)
  PROVE  \E own : Equations(own, c, s, L)
<1> DEFINE own == CHOOSE f : Among(f, c, s, L)
<1>1. Among(own, c, s, L)
  BY AmongExists, Zenon
<1>2. OwnAmong(c, s) = own[L]
  <2>1. OwnAmong(c, s) = (CHOOSE f : Among(f, c, s, Len(s)))[Len(s)]
    BY Zenon DEF OwnAmong, Among
  <2> QED
    BY <2>1
<1> HIDE DEF own
<1>3. \A n \in 0..L :
        own[n] = IF n = 0 THEN <<>>
                 ELSE IF s[n][1] = c THEN Append(own[n - 1], s[n][2]) ELSE own[n - 1]
  BY <1>1, Zenon DEF Among
<1>4. 0 \in 0..L
  OBVIOUS
<1>5. \A n \in 1..L : n \in 0..L /\ n /= 0
  OBVIOUS
<1> QED
  BY <1>2, <1>3, <1>4, <1>5 DEF Equations

\* The commands 1 to k, in their order.
Numbers(k) == [i \in 1..k |-> i]

\* The next command comes after those before it.
LEMMA NextNumber ==
  ASSUME NEW k \in Nat
  PROVE  Append(Numbers(k), k + 1) = Numbers(k + 1)
<1> DEFINE s == Numbers(k)
           t == Numbers(k + 1)
<1>1. /\ s \in Seq(Nat) /\ Len(s) = k /\ \A i \in 1..k : s[i] = i
      /\ t \in Seq(Nat) /\ Len(t) = k + 1 /\ \A i \in 1..(k + 1) : t[i] = i
  <2>1. \A j \in Nat : Numbers(j) \in [1..j -> Nat]
    BY DEF Numbers
  <2> QED
    BY <2>1 DEF Numbers
<1> HIDE DEF s, t
<1>2. /\ Append(s, k + 1) \in Seq(Nat)
      /\ Len(Append(s, k + 1)) = k + 1
      /\ \A i \in 1..k : Append(s, k + 1)[i] = s[i]
      /\ Append(s, k + 1)[k + 1] = k + 1
  BY <1>1, AppendProperties
<1>3. ASSUME NEW i \in 1..(k + 1) PROVE Append(s, k + 1)[i] = t[i]
  <2>1. i \in 1..k \/ i = k + 1
    OBVIOUS
  <2> QED
    BY <1>1, <1>2, <2>1
<1>4. Append(s, k + 1) = t
  BY <1>1, <1>2, <1>3, SeqEqual
<1> QED
  BY <1>4 DEF s, t

\* e is d and then the commands of a function of c.
Commits(c, p, d, e) ==
  /\ d \in Seq(Commands) /\ p \in Seq(Commands) /\ Len(p) = N
  /\ \A i \in 1..N : p[i] = <<c, i>>
  /\ e = d \o p

\* A transaction of another caller adds nothing to one's own commands; one's own
\* transaction, the first, makes them all of the function's commands.
LEMMA OwnAfterCommit ==
  ASSUME NEW c, NEW p, NEW d, NEW e, Commits(c, p, d, e), NEW o
  PROVE  /\ o /= c => OwnAmong(o, e) = OwnAmong(o, d)
         /\ o = c /\ OwnAmong(c, d) = <<>> => OwnAmong(c, e) = Numbers(N)
<1>0. /\ d \in Seq(Commands) /\ p \in Seq(Commands) /\ Len(p) = N
      /\ \A i \in 1..N : p[i] = <<c, i>>
      /\ e = d \o p
  BY DEF Commits
<1>1. N \in Nat /\ N > 0
  BY LocalTxConstants
<1>2. PICK m \in Nat : m = Len(d)
  <2>1. Len(d) \in Nat
    BY <1>0
  <2> QED
    BY <2>1
<1>3. /\ Len(e) = m + N
      /\ \A i \in 1..(m + N) : e[i] = IF i <= m THEN d[i] ELSE p[i - m]
  <2>1. /\ Len(d \o p) = Len(d) + Len(p)
        /\ \A i \in 1..(Len(d) + Len(p)) :
             (d \o p)[i] = IF i <= Len(d) THEN d[i] ELSE p[i - Len(d)]
    BY <1>0, ConcatProperties
  <2>2. Len(d) = m /\ Len(p) = N
    BY <1>0, <1>2
  <2>3. /\ Len(e) = m + N
        /\ \A i \in 1..(m + N) : e[i] = IF i <= m THEN d[i] ELSE p[i - m]
    BY <1>0, <2>1, <2>2, Zenon
  <2> QED
    BY <2>3
<1>4. ASSUME NEW i \in 1..m PROVE e[i] = d[i]
  <2>1. i \in 1..(m + N) /\ i <= m
    BY <1>1
  <2> QED
    BY <2>1, <1>3
<1>5. ASSUME NEW j \in 1..N PROVE e[m + j] = <<c, j>>
  <2>1. /\ m + j \in 1..(m + N) /\ ~(m + j <= m) /\ (m + j) - m = j
    BY <1>1, <1>2
  <2>2. e[m + j] = p[j]
    BY <1>3, <2>1
  <2> QED
    BY <1>0, <2>2
<1>6. PICK f : Equations(f, o, e, m + N)
  <2>1. m + N \in Nat /\ m + N = Len(e)
    BY <1>1, <1>3
  <2> QED
    BY <2>1, OwnEquations, Zenon
<1>7. PICK g : Equations(g, o, d, m)
  BY <1>2, OwnEquations, Zenon
<1>8. f[m] = g[m]
  <2> DEFINE T == {n \in Nat : n <= m => f[n] = g[n]}
  <2>1. ASSUME NEW n \in Nat, \A k \in 0..(n - 1) : k \in T, n <= m
        PROVE  f[n] = g[n]
    <3>1. CASE n = 0
      BY <3>1, <1>6, <1>7 DEF Equations
    <3>2. CASE n /= 0
      <4>1. n - 1 \in T /\ n - 1 <= m /\ n \in 1..m /\ n \in 1..(m + N)
        BY <2>1, <3>2, <1>1
      <4>2. f[n - 1] = g[n - 1]
        BY <4>1
      <4>3. e[n] = d[n]
        BY <4>1, <1>4
      <4>4. /\ f[n] = IF e[n][1] = o THEN Append(f[n - 1], e[n][2]) ELSE f[n - 1]
            /\ g[n] = IF d[n][1] = o THEN Append(g[n - 1], d[n][2]) ELSE g[n - 1]
        BY <4>1, <1>6, <1>7 DEF Equations
      <4> QED
        BY <4>2, <4>3, <4>4
    <3> QED
      BY <3>1, <3>2
  <2>2. \A n \in Nat : (\A k \in 0..(n - 1) : k \in T) => n \in T
    BY <2>1
  <2> HIDE DEF T
  <2>3. \A n \in Nat : n \in T
    BY <2>2, Induction
  <2> QED
    BY <2>3 DEF T
<1>9. \A j \in 1..N :
        f[m + j] = IF c = o THEN Append(f[m + (j - 1)], j) ELSE f[m + (j - 1)]
  <2>1. ASSUME NEW j \in 1..N
        PROVE  f[m + j] = IF c = o THEN Append(f[m + (j - 1)], j) ELSE f[m + (j - 1)]
    <3>1. m + j \in 1..(m + N) /\ (m + j) - 1 = m + (j - 1)
      BY <1>1
    <3>2. e[m + j][1] = c /\ e[m + j][2] = j
      <4>1. <<c, j>>[1] = c /\ <<c, j>>[2] = j
        OBVIOUS
      <4> QED
        BY <1>5, <4>1, Zenon
    <3>3. f[m + j] = IF e[m + j][1] = o THEN Append(f[(m + j) - 1], e[m + j][2])
                     ELSE f[(m + j) - 1]
      BY <3>1, <1>6 DEF Equations
    <3> QED
      BY <3>1, <3>2, <3>3
  <2> QED
    BY <2>1
<1>10. ASSUME o /= c PROVE OwnAmong(o, e) = OwnAmong(o, d)
  <2> DEFINE T == {j \in Nat : j <= N => f[m + j] = f[m]}
  <2>1. ASSUME NEW j \in Nat, \A k \in 0..(j - 1) : k \in T, j <= N
        PROVE  f[m + j] = f[m]
    <3>1. CASE j = 0
      BY <3>1
    <3>2. CASE j /= 0
      <4>1. j - 1 \in T /\ j - 1 <= N /\ j \in 1..N
        BY <2>1, <3>2, <1>1
      <4> QED
        BY <4>1, <1>9, <1>10
    <3> QED
      BY <3>1, <3>2
  <2>2. \A j \in Nat : (\A k \in 0..(j - 1) : k \in T) => j \in T
    BY <2>1
  <2> HIDE DEF T
  <2>3. \A j \in Nat : j \in T
    BY <2>2, Induction
  <2>4. f[m + N] = f[m]
    <3>1. N \in T /\ N <= N
      BY <2>3, <1>1
    <3> QED
      BY <3>1, Zenon DEF T
  <2> QED
    BY <2>4, <1>6, <1>7, <1>8 DEF Equations
<1>11. ASSUME o = c, OwnAmong(c, d) = <<>> PROVE OwnAmong(c, e) = Numbers(N)
  <2> DEFINE T == {j \in Nat : j <= N => f[m + j] = Numbers(j)}
  <2>1. ASSUME NEW j \in Nat, \A k \in 0..(j - 1) : k \in T, j <= N
        PROVE  f[m + j] = Numbers(j)
    <3>1. CASE j = 0
      <4>1. f[m] = <<>> /\ m + 0 = m
        BY <1>7, <1>8, <1>11 DEF Equations
      <4>2. Numbers(0) = <<>>
        BY DEF Numbers
      <4> QED
        BY <3>1, <4>1, <4>2
    <3>2. CASE j /= 0
      <4>1. j - 1 \in T /\ j - 1 <= N /\ j \in 1..N /\ j - 1 \in Nat /\ (j - 1) + 1 = j
        BY <2>1, <3>2, <1>1
      <4>2. f[m + (j - 1)] = Numbers(j - 1)
        BY <4>1
      <4>3. f[m + j] = Append(f[m + (j - 1)], j)
        BY <4>1, <1>9, <1>11
      <4>4. Append(Numbers(j - 1), j) = Numbers(j)
        <5>1. Append(Numbers(j - 1), (j - 1) + 1) = Numbers((j - 1) + 1)
          BY <4>1, NextNumber
        <5> QED
          BY <4>1, <5>1
      <4> QED
        BY <4>2, <4>3, <4>4
    <3> QED
      BY <3>1, <3>2
  <2>2. \A j \in Nat : (\A k \in 0..(j - 1) : k \in T) => j \in T
    BY <2>1
  <2> HIDE DEF T
  <2>3. \A j \in Nat : j \in T
    BY <2>2, Induction
  <2>4. f[m + N] = Numbers(N)
    <3>1. N \in T /\ N <= N
      BY <2>3, <1>1
    <3> QED
      BY <3>1, Zenon DEF T
  <2> QED
    BY <2>4, <1>6, <1>11 DEF Equations
<1> QED
  BY <1>10, <1>11

-----------------------------------------------------------------------------
(* Each call of Do is a transaction. *)

\* Do has returned when it has an answer.  LevelDB holds the commands of those
\* whose commit it has made, all of them, and of no one else.
CommittedOnly ==
  \A c \in Callers :
    /\ pc[c] = "returned" <=> result[c] /= "none"
    /\ OwnCommands(c) = IF pc[c] = "committed" \/ result[c] = "nil"
                        THEN Numbers(N) ELSE <<>>

TransactionsInv == LocalTxInvariant /\ CommittedOnly

\* Nothing is in an empty database.
LEMMA NothingIn ==
  ASSUME NEW c
  PROVE  OwnAmong(c, <<>>) = <<>>
<1>1. Len(<<>>) = 0 /\ 0 \in Nat
  OBVIOUS
<1>2. \E own : Equations(own, c, <<>>, 0)
  BY <1>1, OwnEquations, Zenon
<1> QED
  BY <1>2 DEF Equations

\* A step of c other than a commit.
LEMMA NoCommit ==
  ASSUME TransactionsInv, NEW c \in Callers, db' = db,
         \A o \in Callers : o /= c => pc'[o] = pc[o] /\ result'[o] = result[o],
         pc[c] /= "returned",
         \/ /\ pc'[c] /= "returned" /\ result'[c] = result[c]
            /\ pc'[c] = "committed" <=> pc[c] = "committed"
         \/ /\ pc'[c] = "returned" /\ result'[c] \in {"nil", "error"}
            /\ result'[c] = "nil" <=> pc[c] = "committed"
  PROVE  CommittedOnly'
<1>1. \A o \in Callers : OwnCommands(o)' = OwnCommands(o)
  BY DEF OwnCommands
<1>2. ASSUME NEW o \in Callers
      PROVE /\ pc'[o] = "returned" <=> result'[o] /= "none"
            /\ pc'[o] = "committed" \/ result'[o] = "nil"
                <=> pc[o] = "committed" \/ result[o] = "nil"
  BY DEF TransactionsInv, CommittedOnly
<1> HIDE DEF OwnCommands
<1> QED
  BY <1>1, <1>2 DEF TransactionsInv, CommittedOnly

\* No one has committed yet.
LEMMA TransactionsInitially == Init => TransactionsInv
<1> SUFFICES ASSUME Init PROVE TransactionsInv
  OBVIOUS
<1>1. LocalTxInvariant
  BY InvariantInitially
<1>2. \A c : OwnCommands(c) = <<>>
  BY NothingIn, Zenon DEF Init, OwnCommands
<1> QED
  BY <1>1, <1>2 DEF Init, TransactionsInv, CommittedOnly

\* What a commit adds.
LEMMA CommitAdds ==
  ASSUME TransactionsInv, NEW c \in Callers, CommitLevelDB(c)
  PROVE  /\ \A o \in Callers : o /= c => OwnCommands(o)' = OwnCommands(o)
         /\ OwnCommands(c) = <<>> /\ OwnCommands(c)' = Numbers(N)
         /\ pc[c] = "commit" /\ result[c] = "none" /\ result' = result
         /\ pc' = [pc EXCEPT ![c] = "committed"]
<1> USE LocalTxConstants
<1>0. /\ LocalTxTypeOK /\ OneTransaction /\ CommittedOnly /\ Pending
      /\ N \in 0..N
  BY DEF TransactionsInv, LocalTxInvariant, OneTransaction, Pending, Issued
<1>1. /\ pc[c] = "commit" /\ result[c] = "none" /\ result' = result
      /\ pc' = [pc EXCEPT ![c] = "committed"]
      /\ OwnCommands(c) = <<>>
  BY <1>0 DEF CommitLevelDB, At, Goto, CommittedOnly
<1>2. db' = db \o Issued(c, N)
  BY <1>0, <1>1 DEF CommitLevelDB, OneTransaction, Pending
<1>3. db \in Seq(Commands)
  BY <1>0 DEF LocalTxTypeOK, Commands
<1>4. /\ Issued(c, N) \in Seq(Commands) /\ Len(Issued(c, N)) = N
      /\ \A i \in 1..N : Issued(c, N)[i] = <<c, i>>
  BY <1>0, IssuedSeq DEF Issued
<1>5. \A o : /\ o /= c => OwnAmong(o, db') = OwnAmong(o, db)
             /\ o = c /\ OwnAmong(c, db) = <<>> => OwnAmong(c, db') = Numbers(N)
  <2>1. Commits(c, Issued(c, N), db, db')
    BY <1>2, <1>3, <1>4 DEF Commits
  <2> QED
    BY <2>1, OwnAfterCommit
<1>6. \A o : OwnCommands(o) = OwnAmong(o, db) /\ OwnCommands(o)' = OwnAmong(o, db')
  BY Zenon DEF OwnCommands
<1> QED
  BY <1>1, <1>5, <1>6, Zenon

\* Every step keeps CommittedOnly: only a commit changes the commands of anyone.
LEMMA StepKeepsTransactions == TransactionsInv /\ [Next]_vars => TransactionsInv'
<1> SUFFICES ASSUME TransactionsInv, [Next]_vars PROVE TransactionsInv'
  OBVIOUS
<1>0. LocalTxTypeOK /\ CommittedOnly /\ LocalTxInvariant'
  BY StepKeepsInvariant DEF TransactionsInv, LocalTxInvariant
<1>1. CASE UNCHANGED vars
  BY <1>0, <1>1 DEF vars, TransactionsInv, CommittedOnly, OwnCommands
<1>2. ASSUME NEW c \in Callers, Do(c) PROVE CommittedOnly'
  <2> USE <1>0 DEF LocalTxTypeOK, At, Goto, Return
  <2>1. CASE CommitLevelDB(c)
    <3>1. /\ \A o \in Callers : o /= c => OwnCommands(o)' = OwnCommands(o)
          /\ OwnCommands(c)' = Numbers(N)
          /\ pc[c] = "commit" /\ result[c] = "none" /\ result' = result
          /\ pc' = [pc EXCEPT ![c] = "committed"]
      BY <2>1, CommitAdds
    <3> HIDE DEF OwnCommands
    <3> QED
      BY <3>1 DEF CommittedOnly
  <2>2. CASE OpenLevelDB(c)
    BY <2>2, NoCommit DEF OpenLevelDB
  <2>3. CASE OpenFails(c)
    BY <2>3, NoCommit DEF OpenFails
  <2>4. CASE Issue(c)
    BY <2>4, NoCommit DEF Issue
  <2>5. CASE FnFails(c)
    BY <2>5, NoCommit DEF FnFails
  <2>6. CASE FnReturns(c)
    BY <2>6, NoCommit DEF FnReturns
  <2>7. CASE CommitFails(c)
    BY <2>7, NoCommit DEF CommitFails
  <2>8. CASE ReturnNil(c)
    BY <2>8, NoCommit DEF ReturnNil
  <2>9. CASE RollbackLevelDB(c)
    BY <2>9, NoCommit DEF RollbackLevelDB
  <2>10. CASE RollbackPanics(c)
    BY <2>10, NoCommit DEF RollbackPanics
  <2> QED
    BY <1>2, <2>1, <2>2, <2>3, <2>4, <2>5, <2>6, <2>7, <2>8, <2>9, <2>10 DEF Do, Function
<1> QED
  BY <1>0, <1>1, <1>2 DEF Next, TransactionsInv

-----------------------------------------------------------------------------
(* The refinement. *)

\* A call of Do that has not begun is a transaction that has not.
LEMMA InitMapsToTransactions ==
  ASSUME Init, NEW c \in Callers
  PROVE  Contract(c)!TransactionInit
<1>1. OwnCommands(c) = <<>>
  BY NothingIn, Zenon DEF Init, OwnCommands
<1>2. result[c] = "none"
  BY DEF Init
<1> QED
  BY <1>1, <1>2 DEF Contract!TransactionInit

\* A step of Do(c) is a stutter for the others; for c a commit executes, an
\* answer returns.
LEMMA StepMapsToTransactions ==
  ASSUME TransactionsInv, Next, NEW o \in Callers
  PROVE  [Contract(o)!TransactionNext]_<<OwnCommands(o), result[o]>>
<1>0. CommittedOnly /\ LocalTxTypeOK
  BY DEF TransactionsInv, LocalTxInvariant
<1>1. PICK c \in Callers : Do(c)
  BY DEF Next
<1>2. CASE CommitLevelDB(c)
  <2>1. /\ o /= c => OwnCommands(o)' = OwnCommands(o)
        /\ OwnCommands(c) = <<>> /\ OwnCommands(c)' = Numbers(N)
        /\ result[c] = "none" /\ result' = result
    BY <1>2, CommitAdds
  <2>2. CASE o = c
    <3>1. Contract(o)!FirstCommands(N) = Numbers(N) /\ N \in 1..N
      BY LocalTxConstants DEF Contract!FirstCommands, Numbers
    <3>2. Contract(o)!Execute
      BY <2>1, <2>2, <3>1 DEF Contract!Execute
    <3> QED
      BY <3>2 DEF Contract!TransactionNext
  <2> QED
    BY <2>1, <2>2
<1>3. CASE ~CommitLevelDB(c)
  <2>1. db' = db
    BY <1>1, <1>3 DEF Do, Function, OpenLevelDB, OpenFails, Issue, FnFails, FnReturns,
                      CommitFails, ReturnNil, RollbackLevelDB, RollbackPanics
  <2>2. OwnCommands(o)' = OwnCommands(o)
    BY <2>1 DEF OwnCommands
  <2>3. \/ result'[o] = result[o]
        \/ /\ result[o] = "none" /\ result'[o] \in {"nil", "error"}
           /\ result'[o] = "nil" => pc[o] = "committed"
    BY <1>0, <1>1, <1>3
    DEF Do, Function, OpenLevelDB, OpenFails, Issue, FnFails, FnReturns, CommitFails,
        ReturnNil, RollbackLevelDB, RollbackPanics, At, Goto, Return, LocalTxTypeOK,
        CommittedOnly
  <2>4. CASE result'[o] /= result[o]
    <3>1. Contract(o)!FirstCommands(N) = Numbers(N)
      BY DEF Contract!FirstCommands, Numbers
    <3>2. pc[o] = "committed" => OwnCommands(o) = Numbers(N)
      BY <1>0 DEF CommittedOnly
    <3>3. Contract(o)!Return
      BY <2>2, <2>3, <2>4, <3>1, <3>2 DEF Contract!Return
    <3> QED
      BY <3>3 DEF Contract!TransactionNext
  <2> QED
    BY <2>2, <2>4
<1> QED
  BY <1>2, <1>3

\* For every number of goroutines and of commands and every set of faults, Do over
\* LevelDB gives each of its callers a transaction: all of the commands or none,
\* nothing after it has returned, and nil only when they were run
\* (manager.go:33-61 over transaction.go:14-41 of the driver).
THEOREM LevelDBImplementsTransactions == Spec => ImplementsTransactions
<1>1. Init => TransactionsInv
  BY TransactionsInitially
<1>2. TransactionsInv /\ [Next]_vars => TransactionsInv'
  BY StepKeepsTransactions
<1>3. Init => \A c \in Callers : Contract(c)!TransactionInit
  BY InitMapsToTransactions
<1>4. TransactionsInv /\ [Next]_vars =>
        [\A c \in Callers :
           [Contract(c)!TransactionNext]_<<OwnCommands(c), result[c]>>]_vars
  BY StepMapsToTransactions
<1> QED
  BY <1>1, <1>2, <1>3, <1>4, PTL DEF Spec, ImplementsTransactions
===============================================================================
