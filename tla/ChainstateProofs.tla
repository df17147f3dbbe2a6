---------------------------- MODULE ChainstateProofs --------------------------
(***************************************************************************)
(* Proofs about Formats and Chainstate, for every base, lengths, chainstate *)
(* and obfuscation key: a number, an amount, a script and a coin are read   *)
(* back as they were written, the records come in the order of their keys,  *)
(* and so the iterator delivers the coins, each once.                       *)
(*                                                                          *)
(* What a recursive function computes is shown by induction.  That a set of *)
(* naturals has everything in it is what Induction says; that there is a    *)
(* function with given equations, Recursion.                                *)
(***************************************************************************)
EXTENDS Chainstate, SequenceTheorems, FiniteSetTheorems, TLAPS

-----------------------------------------------------------------------------
(* Induction and recursion. *)

\* A set of naturals that is not empty has a least member.
LEMMA Least ==
  ASSUME NEW T \in SUBSET Nat, T /= {}
  PROVE  \E m \in T : \A k \in T : m <= k
<1> DEFINE R == OpToRel(<, Nat)
<1>1. IsWellFoundedOn(R, Nat)
  BY NatLessThanWellFounded, Zenon
<1>2. \A y, m \in T : y < m => <<y, m>> \in R
  BY Zenon DEF OpToRel
<1> HIDE DEF R
<1>3. PICK m \in T : \A y \in T : ~ (<<y, m>> \in R)
  BY <1>1, WFMin, Zenon
<1>4. \A k \in T : k \in Nat /\ m \in Nat /\ ~(k < m)
  BY <1>2, <1>3
<1>5. \A k \in T : m <= k
  BY <1>4
<1> QED BY <1>5

\* A set that has every natural number below which it has all, has all.
LEMMA Induction ==
  ASSUME NEW T, \A n \in Nat : (\A k \in 0..(n - 1) : k \in T) => n \in T
  PROVE  \A n \in Nat : n \in T
<1> SUFFICES ASSUME Nat \ T /= {} PROVE FALSE
  OBVIOUS
<1>1. PICK m \in Nat \ T : \A k \in Nat \ T : m <= k
  BY Least
<1> QED BY <1>1

\* A definition of n by a smaller one, d[n], from B on.
Recursive(D, B, d, S, base, step) ==
  /\ D \subseteq Nat /\ B \in Nat
  /\ \A n \in D : n < B => base[n] \in S
  /\ \A n \in D : n >= B => d[n] \in D /\ d[n] < n
  /\ \A n \in D : \A v \in S : n >= B => step[n][v] \in S

Solves(f, D, B, d, S, base, step) ==
  /\ f \in [D -> S]
  /\ \A n \in D : f[n] = IF n < B THEN base[n] ELSE step[n][f[d[n]]]

\* There is a function with the equations of a recursive definition.
LEMMA Recursion ==
  ASSUME NEW D, NEW B, NEW d, NEW S, NEW base, NEW step,
         Recursive(D, B, d, S, base, step)
  PROVE  \E f : Solves(f, D, B, d, S, base, step)
<1>a. /\ D \in SUBSET Nat /\ B \in Nat
      /\ \A n \in D : n < B => base[n] \in S
      /\ \A n \in D : n >= B => d[n] \in D /\ d[n] < n
      /\ \A n \in D : \A v \in S : n >= B => step[n][v] \in S
  BY DEF Recursive
<1> DEFINE UpTo(n) == {k \in D : k <= n}
           Is(g, n) == /\ g \in [UpTo(n) -> S]
                       /\ \A k \in UpTo(n) : k < B => g[k] = base[k]
                       /\ \A k \in UpTo(n) : k >= B => g[k] = step[k][g[d[k]]]
           H(n) == CHOOSE g : Is(g, n)
           f == [n \in D |-> H(n)[n]]
<1>0. \A n \in D : n \in Nat
  BY <1>a
<1>1. /\ \A n : UpTo(n) \subseteq D
      /\ \A n \in D : n \in Nat /\ n \in UpTo(n)
      /\ \A n \in Nat : \A k \in UpTo(n) : k <= n /\ (k >= B => d[k] \in UpTo(n))
      /\ \A n \in D : n >= B => d[n] \in D /\ d[n] \in Nat /\ d[n] < n
      /\ \A n, k \in D : k <= n => k \in UpTo(n)
  <2>1. \A n, k : k \in UpTo(n) <=> k \in D /\ k <= n
    OBVIOUS
  <2>2. \A n \in D : n >= B => d[n] \in D /\ d[n] \in Nat /\ d[n] < n
    BY <1>a, <1>0
  <2> HIDE DEF UpTo
  <2>3. ASSUME NEW n \in Nat, NEW k \in UpTo(n)
        PROVE  k <= n /\ (k >= B => d[k] \in UpTo(n))
    <3>1. k \in D /\ k <= n /\ k \in Nat
      BY <1>a, <1>0, <2>1
    <3>2. k >= B => d[k] \in D /\ d[k] <= n
      BY <1>a, <2>2, <3>1
    <3> QED BY <2>1, <3>1, <3>2
  <2> QED BY <1>0, <2>1, <2>2, <2>3
<1> HIDE DEF UpTo, H
<1>2. ASSUME NEW m \in Nat, NEW n \in Nat, NEW g, NEW h, Is(g, m), Is(h, n)
      PROVE  \A k \in UpTo(m) \intersect UpTo(n) : g[k] = h[k]
  <2> DEFINE T == {k \in Nat : k \in UpTo(m) \intersect UpTo(n) => g[k] = h[k]}
  <2>1. ASSUME NEW k \in Nat, \A j \in 0..(k - 1) : j \in T, k \in UpTo(m) \intersect UpTo(n)
        PROVE  g[k] = h[k]
    <3>1. CASE k < B
      BY <1>2, <2>1, <3>1
    <3>2. CASE k >= B
      <4>1. d[k] \in UpTo(m) \intersect UpTo(n) /\ d[k] \in 0..(k - 1)
        BY <1>1, <2>1, <3>2
      <4>2. g[d[k]] = h[d[k]]
        BY <2>1, <4>1
      <4>3. g[k] = step[k][g[d[k]]] /\ h[k] = step[k][h[d[k]]]
        BY <1>a, <1>2, <2>1, <3>2
      <4> QED BY <4>2, <4>3
    <3> QED BY <1>a, <2>1, <3>1, <3>2
  <2>2. \A k \in Nat : (\A j \in 0..(k - 1) : j \in T) => k \in T
    BY <2>1
  <2> HIDE DEF T
  <2>3. \A k \in Nat : k \in T
    BY <2>2, Induction
  <2>4. UpTo(m) \subseteq Nat
    BY <1>1
  <2> QED BY <2>3, <2>4 DEF T
<1>3. \A n \in Nat : n \in D => Is(H(n), n)
  <2> DEFINE T == {n \in Nat : n \in D => Is(H(n), n)}
  <2>1. ASSUME NEW n \in Nat, \A k \in 0..(n - 1) : k \in T, n \in D
        PROVE  Is(H(n), n)
    <3> DEFINE e == [k \in UpTo(n) |-> IF k < n THEN H(k)[k]
                       ELSE IF n < B THEN base[n] ELSE step[n][H(d[n])[d[n]]]]
    <3>1. \A k \in UpTo(n) : k \in D /\ k \in Nat /\ (k < n => Is(H(k), k)) /\ (k >= n => k = n)
      <4>1. \A k \in UpTo(n) : k \in D /\ k \in Nat /\ k <= n
        BY <1>1
      <4> HIDE DEF Is
      <4> QED BY <2>1, <4>1
    <3>2. \A k \in UpTo(n) : k < n => H(k)[k] \in S
      BY <1>1, <3>1
    <3>3. ASSUME NEW k \in UpTo(n), k < n, k >= B
          PROVE  H(k)[k] = step[k][H(d[k])[d[k]]]
      <4>1. d[k] \in UpTo(n) /\ d[k] < k /\ d[k] \in UpTo(k) /\ d[k] \in UpTo(d[k])
        BY <1>1, <3>1, <3>3
      <4>2. d[k] < n /\ d[k] \in Nat
        BY <3>1, <3>3, <4>1
      <4>3. Is(H(k), k) /\ Is(H(d[k]), d[k])
        BY <3>1, <3>3, <4>1, <4>2, Zenon
      <4>4. H(k)[d[k]] = H(d[k])[d[k]]
        <5> HIDE DEF Is
        <5> QED BY <1>2, <3>1, <4>1, <4>2, <4>3
      <4>5. k \in UpTo(k)
        BY <1>1, <3>1
      <4>6. H(k)[k] = step[k][H(k)[d[k]]]
        BY <3>3, <4>3, <4>5
      <4> QED BY <4>4, <4>6
    <3>4. n >= B => d[n] \in UpTo(n) /\ d[n] < n
      BY <1>1, <2>1
    <3>5. n < B => base[n] \in S
      BY <1>a, <2>1
    <3>6. n >= B => step[n][H(d[n])[d[n]]] \in S
      BY <1>a, <2>1, <3>2, <3>4
    <3>7. e \in [UpTo(n) -> S]
      BY <1>a, <3>1, <3>2, <3>5, <3>6
    <3>8. ASSUME NEW k \in UpTo(n), k < B PROVE e[k] = base[k]
      <4>1. CASE k < n
        <5>1. Is(H(k), k) /\ k \in UpTo(k)
          BY <1>1, <3>1, <4>1
        <5>2. H(k)[k] = base[k]
          BY <3>8, <5>1
        <5> QED BY <4>1, <5>2
      <4>2. CASE k = n
        BY <3>8, <4>2
      <4> QED BY <3>1, <4>1, <4>2
    <3>9. ASSUME NEW k \in UpTo(n), k >= B PROVE e[k] = step[k][e[d[k]]]
      <4>1. d[k] \in UpTo(n) /\ d[k] < n
        BY <1>1, <2>1, <3>1, <3>9
      <4>2. e[d[k]] = H(d[k])[d[k]]
        BY <4>1
      <4>3. CASE k < n
        BY <3>3, <3>9, <4>2, <4>3
      <4>4. CASE k = n
        BY <1>a, <3>1, <3>9, <4>2, <4>4
      <4> QED BY <3>1, <4>3, <4>4
    <3> HIDE DEF e
    <3>10. Is(e, n)
      BY <3>7, <3>8, <3>9
    <3> HIDE DEF Is
    <3> QED BY <3>10 DEF H
  <2>2. \A n \in Nat : (\A k \in 0..(n - 1) : k \in T) => n \in T
    <3> HIDE DEF Is
    <3> QED BY <2>1
  <2> HIDE DEF T, Is
  <2>3. \A n \in Nat : n \in T
    BY <2>2, Induction
  <2> QED BY <2>3 DEF T
<1>4. \A n \in D : H(n)[n] \in S
  BY <1>1, <1>3
<1>5. f \in [D -> S] /\ \A n \in D : f[n] = H(n)[n]
  BY <1>4
<1> HIDE DEF f
<1>6. ASSUME NEW n \in D
      PROVE  f[n] = IF n < B THEN base[n] ELSE step[n][f[d[n]]]
  <2>1. Is(H(n), n) /\ n \in UpTo(n) /\ n \in Nat
    <3> HIDE DEF Is
    <3> QED BY <1>1, <1>3
  <2>2. CASE n < B
    BY <1>5, <2>1, <2>2
  <2>3. CASE n >= B
    <3>1. d[n] \in D /\ d[n] \in Nat /\ d[n] < n /\ d[n] \in UpTo(n) /\ d[n] \in UpTo(d[n])
      BY <1>1, <2>1, <2>3
    <3>2. H(n)[d[n]] = H(d[n])[d[n]]
      <4> HIDE DEF Is
      <4>1. Is(H(d[n]), d[n])
        BY <1>3, <3>1
      <4> QED BY <1>2, <2>1, <3>1, <4>1
    <3>3. H(n)[n] = step[n][H(n)[d[n]]]
      BY <1>a, <2>1, <2>3
    <3>4. f[d[n]] = H(d[n])[d[n]] /\ f[n] = H(n)[n]
      BY <1>5, <3>1
    <3>5. ~(n < B)
      BY <1>a, <2>1, <2>3
    <3>6. f[n] = step[n][f[d[n]]]
      BY <3>2, <3>3, <3>4, Zenon
    <3> QED BY <3>5, <3>6, Zenon
  <2> QED BY <1>a, <2>1, <2>2, <2>3
<1> QED BY <1>5, <1>6 DEF Solves
-----------------------------------------------------------------------------
\* A byte has at least the values of the special types.
LEMMA BaseType == Base \in Nat /\ Base >= 6
  BY FormatConstants DEF numSpecialScripts

\* A number of more than one byte: its last group, and what is written before.
LEMMA Groups ==
  ASSUME NEW n \in Nat, n >= Base
  PROVE  /\ (n \div Base) - 1 \in 0..(n - 1)
         /\ n = Base * (n \div Base) + (n % Base)
         /\ n % Base \in 0..(Base - 1)
<1>1. /\ n = Base * (n \div Base) + (n % Base) /\ n % Base \in 0..(Base-1) /\ n \div Base \in Int
  BY BaseType
<1>2. (n \div Base) >= 1
  BY <1>1, BaseType
<1>3. n \div Base <= n
  BY <1>1, <1>2, BaseType
<1> QED BY <1>1, <1>2, <1>3

nextGroup == [n \in Nat |-> (n \div Base) - 1]

\* A definition by groups is recursive.
LEMMA GroupRecursion ==
  ASSUME NEW S, NEW base, NEW step,
         \A n \in Nat : n < Base => base[n] \in S,
         \A n \in Nat : \A v \in S : n >= Base => step[n][v] \in S
  PROVE  Recursive(Nat, Base, nextGroup, S, base, step)
<1>1. \A n \in Nat : n >= Base => nextGroup[n] \in Nat /\ nextGroup[n] < n
  BY Groups DEF nextGroup
<1> QED BY <1>1, BaseType DEF Recursive

\* The equations of a function defined by groups.
LEMMA GroupFunction ==
  ASSUME NEW S, NEW base, NEW step, NEW f,
         Solves(f, Nat, Base, nextGroup, S, base, step)
  PROVE  /\ f \in [Nat -> S]
         /\ \A n \in Nat : /\ n < Base => f[n] = base[n]
                           /\ n >= Base => f[n] = step[n][f[(n \div Base) - 1]]
<1>1. \A n \in Nat : n >= Base => nextGroup[n] = (n \div Base) - 1
  BY Groups DEF nextGroup
<1>2. ASSUME NEW n \in Nat
      PROVE  /\ n < Base => f[n] = base[n]
             /\ n >= Base => f[n] = step[n][f[(n \div Base) - 1]]
  <2>1. f[n] = IF n < Base THEN base[n] ELSE step[n][f[nextGroup[n]]]
    BY Zenon DEF Solves
  <2>2. n >= Base => ~(n < Base)
    BY BaseType
  <2> QED BY <1>1, <2>1, <2>2
<1> QED BY <1>2 DEF Solves

\* The equations of serializeSizeVLQ.
LEMMA SizeOf ==
  ASSUME NEW n \in Nat
  PROVE  /\ n < Base => serializeSizeVLQ(n) = 1
         /\ n >= Base => serializeSizeVLQ(n) = 1 + serializeSizeVLQ((n \div Base) - 1)
<1> DEFINE size == CHOOSE f : f = [m \in Nat |-> IF m < Base THEN 1
                                            ELSE 1 + f[(m \div Base) - 1]]
           base == [m \in Nat |-> 1]
           step == [m \in Nat |-> [v \in Nat |-> 1 + v]]
<1>1. /\ \A m \in Nat : base[m] = 1 /\ \A v \in Nat : step[m][v] = 1 + v
      /\ \A m \in Nat : m < Base => base[m] \in Nat
      /\ \A m \in Nat : \A v \in Nat : m >= Base => step[m][v] \in Nat
  OBVIOUS
<1> HIDE DEF base, step
<1>2. PICK f : Solves(f, Nat, Base, nextGroup, Nat, base, step)
  BY <1>1, GroupRecursion, Recursion
<1>3. /\ f \in [Nat -> Nat]
      /\ \A m \in Nat : /\ m < Base => f[m] = base[m]
                        /\ m >= Base => f[m] = step[m][f[(m \div Base) - 1]]
  BY <1>2, GroupFunction
<1>4. f = [m \in Nat |-> IF m < Base THEN 1 ELSE 1 + f[(m \div Base) - 1]]
  <2>1. ASSUME NEW m \in Nat
        PROVE f[m] = IF m < Base THEN 1 ELSE 1 + f[(m \div Base) - 1]
    <3>1. CASE m < Base
      BY <1>1, <1>3, <3>1
    <3>2. CASE m >= Base
      <4>1. f[(m \div Base) - 1] \in Nat
        BY <1>3, <3>2, Groups
      <4>2. f[m] = step[m][f[(m \div Base) - 1]]
        BY <1>3, <3>2
      <4>3. f[m] = 1 + f[(m \div Base) - 1]
        BY <1>1, <4>1, <4>2
      <4> QED BY <3>2, <4>3, BaseType
    <3> QED BY <3>1, <3>2, BaseType
  <2> QED BY <1>3, <2>1
<1>5. size = [m \in Nat |-> IF m < Base THEN 1 ELSE 1 + size[(m \div Base) - 1]]
  BY <1>4, Zenon
<1>6. \A m \in Nat : serializeSizeVLQ(m) = size[m]
  BY Zenon DEF serializeSizeVLQ
<1> HIDE DEF size
<1>7. size[n] = IF n < Base THEN 1 ELSE 1 + size[(n \div Base) - 1]
  BY <1>5, Zenon
<1>8. n >= Base => ~(n < Base) /\ (n \div Base) - 1 \in Nat
  BY Groups, BaseType
<1> QED BY <1>6, <1>7, <1>8, Zenon

-----------------------------------------------------------------------------
(* Numbers. *)

groupsOf == CHOOSE f : f = [m \in Nat |-> IF m < Base THEN <<m + Base>>
                              ELSE Append(f[(m \div Base) - 1], (m % Base) + Base)]

\* The groups of a number but the last, which all have the high bit.
LEMMA GroupsOf ==
  ASSUME NEW n \in Nat
  PROVE  /\ groupsOf[n] \in Seq(Byte)
         /\ n < Base => groupsOf[n] = <<n + Base>>
         /\ n >= Base => groupsOf[n] = Append(groupsOf[(n \div Base) - 1], (n % Base) + Base)
<1> DEFINE base == [m \in Nat |-> <<m + Base>>]
           step == [m \in Nat |-> [v \in Seq(Byte) |-> Append(v, (m % Base) + Base)]]
<1>1. ASSUME NEW m \in Nat
      PROVE  /\ m < Base => <<m + Base>> \in Seq(Byte)
             /\ (m % Base) + Base \in Byte
  <2>1. m % Base \in 0..(Base - 1)
    BY BaseType
  <2>2. /\ m < Base => m + Base \in Byte
        /\ (m % Base) + Base \in Byte
    BY <2>1, BaseType DEF Byte
  <2> QED BY <2>2
<1>2. /\ \A m \in Nat : base[m] = <<m + Base>>
      /\ \A m \in Nat : \A v \in Seq(Byte) : step[m][v] = Append(v, (m % Base) + Base)
  OBVIOUS
<1> HIDE DEF base, step
<1>3. PICK f : Solves(f, Nat, Base, nextGroup, Seq(Byte), base, step)
  <2>1. \A m \in Nat : m < Base => base[m] \in Seq(Byte)
    BY <1>1, <1>2
  <2>2. ASSUME NEW m \in Nat, NEW v \in Seq(Byte), m >= Base
        PROVE  step[m][v] \in Seq(Byte)
    <3>1. step[m][v] = Append(v, (m % Base) + Base) /\ (m % Base) + Base \in Byte
      BY <1>1, <1>2
    <3> QED BY <3>1, AppendProperties
  <2>3. Recursive(Nat, Base, nextGroup, Seq(Byte), base, step)
    BY <2>1, <2>2, GroupRecursion
  <2> QED BY <2>3, Recursion
<1>4. /\ f \in [Nat -> Seq(Byte)]
      /\ \A m \in Nat : /\ m < Base => f[m] = base[m]
                        /\ m >= Base => f[m] = step[m][f[(m \div Base) - 1]]
  BY <1>3, GroupFunction
<1>5. \A m \in Nat : m >= Base => (m \div Base) - 1 \in Nat /\ ~(m < Base)
  BY Groups, BaseType
<1>6. ASSUME NEW m \in Nat
      PROVE f[m] = IF m < Base THEN <<m + Base>>
                   ELSE Append(f[(m \div Base) - 1], (m % Base) + Base)
  <2>1. CASE m < Base
    BY <1>2, <1>4, <2>1
  <2>2. CASE m >= Base
    <3>1. f[(m \div Base) - 1] \in Seq(Byte)
      BY <1>4, <1>5, <2>2
    <3>2. f[m] = step[m][f[(m \div Base) - 1]]
      BY <1>4, <2>2
    <3>3. f[m] = Append(f[(m \div Base) - 1], (m % Base) + Base)
      BY <1>2, <3>1, <3>2
    <3> QED BY <1>5, <2>2, <3>3
  <2> QED BY <2>1, <2>2, BaseType
<1>7. f = [m \in Nat |-> IF m < Base THEN <<m + Base>>
                         ELSE Append(f[(m \div Base) - 1], (m % Base) + Base)]
  BY <1>4, <1>6
<1>8. groupsOf = [m \in Nat |-> IF m < Base THEN <<m + Base>>
                         ELSE Append(groupsOf[(m \div Base) - 1], (m % Base) + Base)]
  BY <1>7, Zenon DEF groupsOf
<1>9. \A m \in Nat : groupsOf[m] = IF m < Base THEN <<m + Base>>
                         ELSE Append(groupsOf[(m \div Base) - 1], (m % Base) + Base)
  BY <1>8, Zenon
<1>10. \A m \in Nat : groupsOf[m] \in Seq(Byte)
  <2> DEFINE T == {m \in Nat : groupsOf[m] \in Seq(Byte)}
  <2>1. ASSUME NEW m \in Nat, \A k \in 0..(m - 1) : k \in T
        PROVE  groupsOf[m] \in Seq(Byte)
    <3>1. CASE m < Base
      BY <1>1, <1>9, <3>1
    <3>2. CASE m >= Base
      <4>1. (m \div Base) - 1 \in 0..(m - 1)
        BY <3>2, Groups
      <4>2. groupsOf[(m \div Base) - 1] \in Seq(Byte)
        BY <2>1, <4>1
      <4>3. groupsOf[m] = Append(groupsOf[(m \div Base) - 1], (m % Base) + Base)
        BY <1>5, <1>9, <3>2
      <4> QED BY <1>1, <4>2, <4>3
    <3> QED BY <3>1, <3>2, BaseType
  <2>2. \A m \in Nat : (\A k \in 0..(m - 1) : k \in T) => m \in T
    BY <2>1
  <2> HIDE DEF T
  <2>3. \A m \in Nat : m \in T
    BY <2>2, Induction
  <2> QED BY <2>3 DEF T
<1> QED BY <1>5, <1>9, <1>10, Zenon

\* The equations of PutVLQ.
LEMMA PutOf ==
  ASSUME NEW n \in Nat
  PROVE  /\ n < Base => PutVLQ(n) = <<n>>
         /\ n >= Base => PutVLQ(n) = Append(groupsOf[(n \div Base) - 1], n % Base)
<1>1. PutVLQ(n) = IF n < Base THEN <<n>>
                  ELSE Append(groupsOf[(n \div Base) - 1], n % Base)
  BY Zenon DEF PutVLQ, groupsOf
<1>2. n >= Base => ~(n < Base)
  BY BaseType
<1> QED BY <1>1, <1>2, Zenon

\* What the loop of a reader holds after each byte.
Reads(v, s, k) ==
  /\ v \in [0..k -> Nat]
  /\ v[0] = 0
  /\ \A i \in 1..k : v[i] = Base * v[i - 1] + (s[i] % Base)
                            + (IF highBit(s[i]) THEN 1 ELSE 0)

\* A number ends with the first byte without the high bit, or where the bytes end.
LEMMA BytesRead ==
  ASSUME NEW s \in Seq(Byte)
  PROVE  /\ bytesRead(s) \in 0..Len(s)
         /\ s /= <<>> => bytesRead(s) > 0
         /\ \A i \in 1..Len(s) : i < bytesRead(s) => highBit(s[i])
         /\ bytesRead(s) < Len(s) => ~highBit(s[bytesRead(s)])
<1> DEFINE R == {Len(s)} \union {i \in DOMAIN s : ~highBit(s[i])}
<1>1. R \in SUBSET Nat /\ R /= {}
  OBVIOUS
<1>2. \E m \in R : \A k \in R : m <= k
  BY <1>1, Least
<1>3. bytesRead(s) \in R /\ \A k \in R : bytesRead(s) <= k
  BY <1>2 DEF bytesRead, Min
<1> HIDE DEF bytesRead
<1> QED BY <1>3

\* How many bytes are read is told by the high bits.
LEMMA ReadsUpTo ==
  ASSUME NEW s \in Seq(Byte), NEW r \in 1..Len(s), \A i \in 1..(r - 1) : highBit(s[i]),
         r < Len(s) => ~highBit(s[r])
  PROVE  bytesRead(s) = r
<1>1. bytesRead(s) \in 1..Len(s)
  BY BytesRead, EmptySeq
<1>2. ~(bytesRead(s) < r)
  BY <1>1, BytesRead
<1>3. ~(r < bytesRead(s))
  BY <1>1, BytesRead
<1> QED BY <1>1, <1>2, <1>3

\* The number read is what the loop holds after the last byte read.
LEMMA NumberRead ==
  ASSUME NEW s \in Seq(Byte)
  PROVE  \E v : Reads(v, s, bytesRead(s)) /\ DeserializeVLQ(s) = v[bytesRead(s)]
<1> DEFINE k == bytesRead(s)
           digit == [i \in 1..k |-> (s[i] % Base) + (IF highBit(s[i]) THEN 1 ELSE 0)]
           base == [i \in 0..k |-> 0]
           back == [i \in 0..k |-> i - 1]
           step == [i \in 0..k |-> [v \in Nat |->
                      Base * v + (s[i] % Base) + (IF highBit(s[i]) THEN 1 ELSE 0)]]
           number == CHOOSE f : f = [i \in 0..k |-> IF i = 0 THEN 0
                        ELSE Base * f[i - 1] + (s[i] % Base) + (IF highBit(s[i]) THEN 1 ELSE 0)]
<1>1. k \in 0..Len(s)
  BY BytesRead
<1>2. DeserializeVLQ(s) = number[k]
  BY Zenon DEF DeserializeVLQ
<1> HIDE DEF k
<1>3. ASSUME NEW i \in 1..k, NEW v \in Nat
      PROVE  Base * v + (s[i] % Base) + (IF highBit(s[i]) THEN 1 ELSE 0) \in Nat
  <2>1. s[i] \in Byte
    BY <1>1
  <2>2. s[i] % Base \in Nat
    BY <2>1, BaseType DEF Byte
  <2>3. Base * v \in Nat
    BY BaseType
  <2> QED BY <2>2, <2>3
<1>4. /\ \A i \in 0..k : base[i] = 0 /\ back[i] = i - 1
      /\ \A i \in 1..k : \A v \in Nat : step[i][v] =
           Base * v + (s[i] % Base) + (IF highBit(s[i]) THEN 1 ELSE 0)
  OBVIOUS
<1> HIDE DEF base, back, step
<1>5. Recursive(0..k, 1, back, Nat, base, step)
  <2>1. \A i \in 0..k : i >= 1 => i \in 1..k /\ back[i] \in 0..k /\ back[i] < i
    BY <1>1, <1>4
  <2>2. \A i \in 0..k : \A v \in Nat : i >= 1 => step[i][v] \in Nat
    BY <1>3, <1>4, <2>1
  <2>3. \A i \in 0..k : i < 1 => base[i] \in Nat
    BY <1>4
  <2>4. 0..k \subseteq Nat /\ 1 \in Nat
    OBVIOUS
  <2> QED BY <2>1, <2>2, <2>3, <2>4 DEF Recursive
<1>6. PICK f : Solves(f, 0..k, 1, back, Nat, base, step)
  BY <1>5, Recursion
<1>7. /\ f \in [0..k -> Nat]
      /\ \A i \in 0..k : f[i] = IF i < 1 THEN base[i] ELSE step[i][f[back[i]]]
  BY <1>6 DEF Solves
<1>8. f[0] = 0
  <2>1. 0 \in 0..k /\ 0 < 1
    BY <1>1
  <2>2. f[0] = base[0] /\ base[0] = 0
    BY <1>4, <1>7, <2>1
  <2> QED BY <2>2
<1>9. ASSUME NEW i \in 1..k
      PROVE  f[i] = Base * f[i - 1] + (s[i] % Base) + (IF highBit(s[i]) THEN 1 ELSE 0)
  <2>1. i \in 0..k /\ ~(i < 1) /\ i - 1 \in 0..k
    BY <1>1
  <2>2. f[i] = step[i][f[i - 1]] /\ f[i - 1] \in Nat
    BY <1>4, <1>7, <2>1
  <2> QED BY <1>4, <2>2
<1>10. f = [i \in 0..k |-> IF i = 0 THEN 0
              ELSE Base * f[i - 1] + (s[i] % Base) + (IF highBit(s[i]) THEN 1 ELSE 0)]
  <2>1. ASSUME NEW i \in 0..k
        PROVE f[i] = IF i = 0 THEN 0
              ELSE Base * f[i - 1] + (s[i] % Base) + (IF highBit(s[i]) THEN 1 ELSE 0)
    <3>1. CASE i = 0
      BY <1>8, <3>1
    <3>2. CASE i /= 0
      <4>1. i \in 1..k
        BY <1>1, <3>2
      <4> QED BY <1>9, <3>2, <4>1
    <3> QED BY <3>1, <3>2
  <2> QED BY <1>7, <2>1
<1>11. number = [i \in 0..k |-> IF i = 0 THEN 0
           ELSE Base * number[i - 1] + (s[i] % Base) + (IF highBit(s[i]) THEN 1 ELSE 0)]
  BY <1>10, Zenon
<1> HIDE DEF number
<1>12. number = f
  <2> DEFINE T == {i \in Nat : i \in 0..k => number[i] = f[i]}
  <2>1. ASSUME NEW i \in Nat, \A j \in 0..(i - 1) : j \in T, i \in 0..k
        PROVE  number[i] = f[i]
    <3>0. number[i] = IF i = 0 THEN 0
           ELSE Base * number[i - 1] + (s[i] % Base) + (IF highBit(s[i]) THEN 1 ELSE 0)
      BY <1>11, <2>1, Zenon
    <3>1. CASE i = 0
      BY <1>8, <3>0, <3>1
    <3>2. CASE i /= 0
      <4>1. i \in 1..k /\ i - 1 \in 0..(i - 1) /\ i - 1 \in 0..k
        BY <1>1, <2>1, <3>2
      <4>2. number[i - 1] = f[i - 1]
        BY <2>1, <4>1
      <4> QED BY <1>9, <3>0, <3>2, <4>1, <4>2
    <3> QED BY <3>1, <3>2
  <2>2. \A i \in Nat : (\A j \in 0..(i - 1) : j \in T) => i \in T
    BY <2>1
  <2> HIDE DEF T
  <2>3. \A i \in Nat : i \in T
    BY <2>2, Induction
  <2>4. \A i \in 0..k : number[i] = f[i]
    BY <1>1, <2>3 DEF T
  <2>5. DOMAIN number = 0..k /\ number = [i \in 0..k |-> number[i]]
    BY <1>11
  <2> QED BY <1>7, <2>4, <2>5
<1> QED BY <1>2, <1>7, <1>8, <1>9, <1>12 DEF Reads, k

BeginsWith(s, t) == Len(t) <= Len(s) /\ \A i \in 1..Len(t) : s[i] = t[i]

\* The groups before the last: how many they are, and what reading them gives.
LEMMA GroupsRead ==
  ASSUME NEW n \in Nat
  PROVE  /\ Len(groupsOf[n]) = serializeSizeVLQ(n)
         /\ serializeSizeVLQ(n) \in Nat \ {0}
         /\ \A i \in 1..Len(groupsOf[n]) : highBit(groupsOf[n][i])
         /\ \A s \in Seq(Byte) : \A k \in Nat : \A v :
              Reads(v, s, k) /\ Len(groupsOf[n]) <= k /\ BeginsWith(s, groupsOf[n])
                => v[Len(groupsOf[n])] = n + 1
<1> DEFINE Read(m) == /\ Len(groupsOf[m]) = serializeSizeVLQ(m)
                      /\ serializeSizeVLQ(m) \in Nat \ {0}
                      /\ \A i \in 1..Len(groupsOf[m]) : highBit(groupsOf[m][i])
                      /\ \A s \in Seq(Byte) : \A k \in Nat : \A v :
                           Reads(v, s, k) /\ Len(groupsOf[m]) <= k /\ BeginsWith(s, groupsOf[m])
                             => v[Len(groupsOf[m])] = m + 1
           T == {m \in Nat : Read(m)}
<1>1. ASSUME NEW m \in Nat, \A k \in 0..(m - 1) : k \in T PROVE Read(m)
  <2>1. CASE m < Base
    <3>1. groupsOf[m] = <<m + Base>> /\ serializeSizeVLQ(m) = 1
      BY <2>1, GroupsOf, SizeOf
    <3>2. highBit(m + Base) /\ (m + Base) % Base = m
      BY <2>1, BaseType DEF highBit
    <3>3. ASSUME NEW s \in Seq(Byte), NEW k \in Nat, NEW v, Reads(v, s, k), 1 <= k,
                 BeginsWith(s, groupsOf[m])
          PROVE  v[1] = m + 1
      <4>1. s[1] = m + Base /\ 1 \in 1..k /\ v[0] = 0
        BY <3>1, <3>3 DEF BeginsWith, Reads
      <4>2. v[1] = Base * v[1 - 1] + (s[1] % Base) + (IF highBit(s[1]) THEN 1 ELSE 0)
        BY <3>3, <4>1 DEF Reads
      <4>3. v[1 - 1] = 0
        BY <4>1
      <4>4. Base * 0 = 0
        BY BaseType
      <4> QED BY <3>2, <4>1, <4>2, <4>3, <4>4
    <3> QED BY <3>1, <3>2, <3>3
  <2>2. CASE m >= Base
    <3> DEFINE p == (m \div Base) - 1
               r == m % Base
               g == groupsOf[p]
    <3>1. p \in 0..(m - 1) /\ p \in Nat /\ m = Base * (p + 1) + r /\ r \in 0..(Base - 1)
      <4>1. m \div Base = p + 1
        BY BaseType
      <4> QED BY <2>2, Groups, <4>1
    <3>2. Read(p)
      BY <1>1, <3>1
    <3>3. /\ groupsOf[m] = Append(g, r + Base)
          /\ serializeSizeVLQ(m) = 1 + serializeSizeVLQ(p)
      BY <2>2, GroupsOf, SizeOf
    <3>4. g \in Seq(Byte) /\ groupsOf[m] \in Seq(Byte)
      BY <3>1, GroupsOf
    <3> HIDE DEF p, r
    <3>5. highBit(r + Base) /\ (r + Base) % Base = r
      BY <3>1, BaseType DEF highBit
    <3>6. r + Base \in Byte
      BY <3>1, BaseType DEF Byte
    <3>7. /\ Len(groupsOf[m]) = Len(g) + 1
          /\ \A i \in 1..Len(g) : groupsOf[m][i] = g[i]
          /\ groupsOf[m][Len(g) + 1] = r + Base
      BY <3>3, <3>4, <3>6, AppendProperties
    <3>8. Len(groupsOf[m]) = serializeSizeVLQ(m) /\ serializeSizeVLQ(m) \in Nat \ {0}
      BY <3>2, <3>3, <3>7
    <3>9. \A i \in 1..Len(groupsOf[m]) : highBit(groupsOf[m][i])
      <4> TAKE i \in 1..Len(groupsOf[m])
      <4>1. i \in 1..Len(g) \/ i = Len(g) + 1
        BY <3>4, <3>7
      <4> QED BY <3>2, <3>5, <3>7, <4>1
    <3>10. ASSUME NEW s \in Seq(Byte), NEW k \in Nat, NEW v, Reads(v, s, k),
                  Len(groupsOf[m]) <= k, BeginsWith(s, groupsOf[m])
           PROVE  v[Len(groupsOf[m])] = m + 1
      <4> DEFINE l == Len(g)
      <4>0. l \in Nat /\ l + 1 \in 1..k /\ l <= k
        BY <3>4, <3>7, <3>10
      <4>1. BeginsWith(s, g)
        BY <3>4, <3>7, <3>10 DEF BeginsWith
      <4>2. v[l] = p + 1
        BY <3>2, <3>10, <4>0, <4>1
      <4>3. s[l + 1] = r + Base
        BY <3>7, <3>10, <4>0 DEF BeginsWith
      <4> HIDE DEF l
      <4>4. v[l + 1] = Base * v[(l + 1) - 1] + (s[l + 1] % Base)
                         + (IF highBit(s[l + 1]) THEN 1 ELSE 0)
        BY <3>10, <4>0, Zenon DEF Reads
      <4>5. (l + 1) - 1 = l
        BY <4>0
      <4>6. v[l + 1] = Base * (p + 1) + r + 1
        BY <3>5, <4>2, <4>3, <4>4, <4>5
      <4>7. Base * (p + 1) \in Int
        BY <3>1, BaseType
      <4> QED BY <3>1, <3>7, <4>6, <4>7 DEF l
    <3> QED BY <3>8, <3>9, <3>10
  <2> QED BY <2>1, <2>2, BaseType
<1>2. \A m \in Nat : (\A k \in 0..(m - 1) : k \in T) => m \in T
  <2> HIDE DEF Read
  <2> QED BY <1>1
<1> HIDE DEF T
<1>3. \A m \in Nat : m \in T
  BY <1>2, Induction
<1> QED BY <1>3 DEF T

\* PutVLQ writes as many bytes as serializeSizeVLQ says, and only the last of
\* them is without the high bit.
LEMMA NumberWritten ==
  ASSUME NEW n \in Nat
  PROVE  /\ PutVLQ(n) \in Seq(Byte)
         /\ Len(PutVLQ(n)) = serializeSizeVLQ(n)
         /\ serializeSizeVLQ(n) \in Nat \ {0}
         /\ \A i \in 1..(serializeSizeVLQ(n) - 1) : highBit(PutVLQ(n)[i])
         /\ ~highBit(PutVLQ(n)[serializeSizeVLQ(n)])
<1>1. CASE n < Base
  <2>1. PutVLQ(n) = <<n>> /\ serializeSizeVLQ(n) = 1 /\ n \in Byte /\ ~highBit(n)
    BY <1>1, PutOf, SizeOf, BaseType DEF Byte, highBit
  <2> QED BY <2>1
<1>2. CASE n >= Base
  <2> DEFINE g == groupsOf[(n \div Base) - 1]
             l == serializeSizeVLQ((n \div Base) - 1)
             r == n % Base
  <2>1. (n \div Base) - 1 \in Nat
    BY <1>2, Groups
  <2>2. /\ g \in Seq(Byte) /\ Len(g) = l /\ l \in Nat \ {0}
        /\ \A i \in 1..Len(g) : highBit(g[i])
    BY <2>1, GroupsOf, GroupsRead
  <2>3. PutVLQ(n) = Append(g, r) /\ serializeSizeVLQ(n) = 1 + l
    BY <1>2, PutOf, SizeOf
  <2>4. r \in Byte /\ ~highBit(r)
    BY <1>2, Groups, BaseType DEF Byte, highBit
  <2> HIDE DEF g, l, r
  <2>5. /\ PutVLQ(n) \in Seq(Byte) /\ Len(PutVLQ(n)) = l + 1
        /\ \A i \in 1..l : PutVLQ(n)[i] = g[i]
        /\ PutVLQ(n)[l + 1] = r
    BY <2>2, <2>3, <2>4, AppendProperties
  <2> QED BY <2>2, <2>3, <2>4, <2>5
<1> QED BY <1>1, <1>2, BaseType

\* binaryutils and compression.go: what is read of a stream that begins with a
\* number is that number, whatever follows.
THEOREM NumberReadBack ==
  ASSUME NEW n \in Nat, NEW s \in Seq(Byte), BeginsWith(s, PutVLQ(n))
  PROVE  bytesRead(s) = serializeSizeVLQ(n) /\ DeserializeVLQ(s) = n
<1> DEFINE w == serializeSizeVLQ(n)
<1>1. /\ w \in 1..Len(s) /\ w = Len(PutVLQ(n))
      /\ \A i \in 1..w : s[i] = PutVLQ(n)[i]
      /\ \A i \in 1..(w - 1) : highBit(s[i])
      /\ ~highBit(s[w])
  <2>1. /\ PutVLQ(n) \in Seq(Byte) /\ Len(PutVLQ(n)) = w /\ w \in Nat \ {0}
        /\ \A i \in 1..(w - 1) : highBit(PutVLQ(n)[i])
        /\ ~highBit(PutVLQ(n)[w])
    BY NumberWritten
  <2> HIDE DEF w
  <2>2. w \in 1..Len(s) /\ \A i \in 1..w : s[i] = PutVLQ(n)[i]
    BY <2>1 DEF BeginsWith
  <2> QED BY <2>1, <2>2
<1> HIDE DEF w
<1>2. bytesRead(s) = w
  BY <1>1, ReadsUpTo
<1>3. PICK v : Reads(v, s, w) /\ DeserializeVLQ(s) = v[w]
  BY <1>2, NumberRead
<1>4. v[w] = Base * v[w - 1] + (s[w] % Base)
  <2>0. w \in 1..w
    BY <1>1
  <2>1. v[w] = Base * v[w - 1] + (s[w] % Base) + (IF highBit(s[w]) THEN 1 ELSE 0)
    BY <1>3, <2>0, Zenon DEF Reads
  <2>2. v[w - 1] \in Nat /\ s[w] \in Nat
    <3>1. v \in [0..w -> Nat] /\ w - 1 \in 0..w
      BY <1>3, <2>0 DEF Reads
    <3>2. s[w] \in Byte
      BY <1>1, ElementOfSeq
    <3> QED BY <3>1, <3>2, BaseType DEF Byte
  <2>3. Base * v[w - 1] \in Int /\ s[w] % Base \in Int
    BY <2>2, BaseType
  <2> QED BY <1>1, <2>1, <2>3
<1>5. CASE n < Base
  <2>1. w = 1 /\ s[1] = n
    BY <1>1, <1>5, PutOf, SizeOf DEF w
  <2>2. v[0] = 0 /\ Base * 0 = 0 /\ n % Base = n
    BY <1>3, <1>5, BaseType DEF Reads
  <2>3. w - 1 = 0
    BY <2>1
  <2> QED BY <1>2, <1>3, <1>4, <2>1, <2>2, <2>3 DEF w
<1>6. CASE n >= Base
  <2> DEFINE p == (n \div Base) - 1
             r == n % Base
             g == groupsOf[p]
  <2>1. p \in Nat /\ n = Base * (p + 1) + r /\ r \in 0..(Base - 1)
    <3>1. n \div Base = p + 1
      BY BaseType
    <3> QED BY <1>6, Groups, <3>1
  <2>2. /\ PutVLQ(n) = Append(g, r) /\ w = 1 + serializeSizeVLQ(p)
        /\ g \in Seq(Byte) /\ Len(g) = serializeSizeVLQ(p)
    BY <1>6, <2>1, PutOf, SizeOf, GroupsOf, GroupsRead DEF w
  <2> HIDE DEF p, r
  <2>3. r \in Byte /\ r % Base = r
    BY <2>1, BaseType DEF Byte
  <2>4. /\ \A i \in 1..Len(g) : PutVLQ(n)[i] = g[i]
        /\ PutVLQ(n)[Len(g) + 1] = r
    BY <2>2, <2>3, AppendProperties
  <2>5. Len(g) \in Nat /\ w = Len(g) + 1
    BY <2>2
  <2>6. BeginsWith(s, g)
    BY <1>1, <2>4, <2>5 DEF BeginsWith
  <2>7. v[Len(g)] = p + 1
    <3>1. w \in Nat /\ Len(g) <= w
      BY <2>5
    <3>2. \A k \in Nat : \A u : Reads(u, s, k) /\ Len(g) <= k /\ BeginsWith(s, g)
            => u[Len(g)] = p + 1
      BY <2>1, GroupsRead
    <3> QED BY <1>3, <2>6, <3>1, <3>2, Zenon
  <2>8. s[w] = r /\ w - 1 = Len(g)
    BY <1>1, <2>4, <2>5
  <2>9. Base * (p + 1) \in Int
    BY <2>1, BaseType
  <2> QED BY <1>2, <1>3, <1>4, <2>1, <2>3, <2>7, <2>8, <2>9 DEF w
<1> QED BY <1>5, <1>6, BaseType DEF w

\* Reading the number leaves what follows it.
LEMMA AfterNumber ==
  ASSUME NEW n \in Nat, NEW t \in Seq(Byte)
  PROVE  LET s == PutVLQ(n) \o t
         IN  /\ s \in Seq(Byte) /\ Len(s) = serializeSizeVLQ(n) + Len(t)
             /\ bytesRead(s) = serializeSizeVLQ(n)
             /\ DeserializeVLQ(s) = n
             /\ SubSeq(s, serializeSizeVLQ(n) + 1, Len(s)) = t
             /\ afterVLQ(s) = t
<1> DEFINE s == PutVLQ(n) \o t
           w == serializeSizeVLQ(n)
<1>1. PutVLQ(n) \in Seq(Byte) /\ Len(PutVLQ(n)) = w /\ w \in Nat \ {0}
  BY NumberWritten
<1>2. /\ s \in Seq(Byte) /\ Len(s) = w + Len(t)
      /\ \A i \in 1..w : s[i] = PutVLQ(n)[i]
      /\ \A i \in 1..Len(t) : s[w + i] = t[i]
  <2> HIDE DEF w
  <2>1. /\ s \in Seq(Byte) /\ Len(s) = w + Len(t)
        /\ \A i \in 1..(w + Len(t)) : s[i] = IF i <= w THEN PutVLQ(n)[i] ELSE t[i - w]
    BY <1>1, ConcatProperties
  <2> HIDE DEF s
  <2> QED BY <1>1, <2>1
<1>3. BeginsWith(s, PutVLQ(n))
  BY <1>1, <1>2 DEF BeginsWith
<1>4. bytesRead(s) = w /\ DeserializeVLQ(s) = n
  BY <1>2, <1>3, NumberReadBack
<1> HIDE DEF s, w
<1>5. SubSeq(s, w + 1, Len(s)) = t
  <2>1. \A i \in (w + 1)..Len(s) : s[i] \in Byte
    BY <1>1, <1>2
  <2>2. /\ SubSeq(s, w + 1, Len(s)) \in Seq(Byte)
        /\ Len(SubSeq(s, w + 1, Len(s))) = Len(t)
        /\ \A i \in 1..Len(t) : SubSeq(s, w + 1, Len(s))[i] = s[w + i]
    BY <1>1, <1>2, <2>1, SubSeqProperties
  <2> QED BY <1>2, <2>2, SeqEqual
<1> QED BY <1>2, <1>4, <1>5 DEF s, w, afterVLQ

\* Without its high bit.
LEMMA LowBits ==
  ASSUME NEW b \in Byte, highBit(b)
  PROVE  b \in Base..(2 * Base - 1) /\ b % Base = b - Base
<1> DEFINE r == b - Base
<1>1. b = r + Base /\ r \in 0..(Base - 1)
  BY BaseType DEF highBit, Byte
<1> HIDE DEF r
<1>2. (r + Base) % Base = r
  BY <1>1, BaseType
<1> QED BY <1>1, <1>2, BaseType

\* A number of which only the first bytes are left: they all have the high bit,
\* so all are read, and what is read of two bytes or more is more than Base.
LEMMA CutNumber ==
  ASSUME NEW n \in Nat, NEW s \in Seq(Byte), Len(s) \in 1..(serializeSizeVLQ(n) - 1),
         \A i \in 1..Len(s) : s[i] = PutVLQ(n)[i]
  PROVE  /\ bytesRead(s) = Len(s)
         /\ s[1] \in Base..(2 * Base - 1)
         /\ Len(s) = 1 => DeserializeVLQ(s) = s[1] - Base + 1
         /\ Len(s) > 1 => DeserializeVLQ(s) \in Nat /\ DeserializeVLQ(s) > Base
<1> DEFINE k == Len(s)
<1>1. \A i \in 1..k : s[i] \in Byte /\ highBit(s[i])
  <2>1. serializeSizeVLQ(n) \in Nat
    BY NumberWritten
  <2>2. \A i \in 1..k : i \in 1..(serializeSizeVLQ(n) - 1)
    BY <2>1
  <2>3. \A i \in 1..k : s[i] \in Byte
    BY ElementOfSeq
  <2> QED BY <2>2, <2>3, NumberWritten
<1>2. k \in Nat \ {0} /\ k \in 1..Len(s)
  BY NumberWritten
<1>3. bytesRead(s) = k
  BY <1>1, <1>2, ReadsUpTo
<1>4. \A i \in 1..k : s[i] \in Base..(2 * Base - 1) /\ s[i] % Base = s[i] - Base
  BY <1>1, LowBits
<1>5. PICK v : Reads(v, s, k) /\ DeserializeVLQ(s) = v[k]
  BY <1>3, NumberRead
<1> HIDE DEF k
<1>6. /\ v \in [0..k -> Nat] /\ v[0] = 0
      /\ \A i \in 1..k : v[i] = Base * v[i - 1] + (s[i] - Base) + 1
  <2>1. /\ v \in [0..k -> Nat] /\ v[0] = 0
        /\ \A i \in 1..k : v[i] = Base * v[i - 1] + (s[i] % Base)
                                    + (IF highBit(s[i]) THEN 1 ELSE 0)
    BY <1>5, Zenon DEF Reads
  <2>2. ASSUME NEW i \in 1..k PROVE v[i] = Base * v[i - 1] + (s[i] - Base) + 1
    <3>1. v[i] = Base * v[i - 1] + (s[i] % Base) + (IF highBit(s[i]) THEN 1 ELSE 0)
      BY <2>1
    <3>2. highBit(s[i]) /\ s[i] % Base = s[i] - Base
      BY <1>1, <1>4
    <3> QED BY <3>1, <3>2
  <2> QED BY <2>1, <2>2
<1>7. k = 1 => DeserializeVLQ(s) = s[1] - Base + 1
  <2> SUFFICES ASSUME k = 1 PROVE v[1] = s[1] - Base + 1
    BY <1>5
  <2>1. v[1] = Base * v[1 - 1] + (s[1] - Base) + 1 /\ v[1 - 1] = 0
    BY <1>6
  <2>2. Base * 0 = 0 /\ s[1] - Base \in Int
    BY <1>4, BaseType
  <2> QED BY <2>1, <2>2
<1>8. k > 1 => DeserializeVLQ(s) \in Nat /\ DeserializeVLQ(s) > Base
  <2> SUFFICES ASSUME k > 1 PROVE v[k] \in Nat /\ v[k] > Base
    BY <1>5
  <2>0. k \in 1..k /\ k - 1 \in 1..k /\ k \in 0..k /\ k - 1 \in 0..k /\ (k - 1) - 1 \in 0..k
    BY <1>2
  <2>1. /\ v[k - 1] = Base * v[(k - 1) - 1] + (s[k - 1] - Base) + 1
        /\ v[k] = Base * v[k - 1] + (s[k] - Base) + 1
        /\ v[k] \in Nat /\ v[k - 1] \in Nat /\ v[(k - 1) - 1] \in Nat
    BY <1>6, <2>0
  <2>2. s[k] - Base \in Nat /\ s[k - 1] - Base \in Nat
    <3>1. \A b \in Base..(2 * Base - 1) : b - Base \in Nat
      BY BaseType
    <3>2. s[k] \in Base..(2 * Base - 1) /\ s[k - 1] \in Base..(2 * Base - 1)
      BY <1>4, <2>0, Zenon
    <3> QED BY <3>1, <3>2, Zenon
  <2>3. Base * v[(k - 1) - 1] \in Nat
    BY <2>1, BaseType
  <2>4. v[k - 1] >= 1
    BY <2>1, <2>2, <2>3
  <2>5. Base * v[k - 1] >= Base /\ Base * v[k - 1] \in Nat
    BY <2>1, <2>4, BaseType
  <2>6. \A a, b, u \in Nat : a >= Base /\ u = a + b + 1 => u > Base
    BY BaseType
  <2>7. v[k] > Base
    BY <2>1, <2>2, <2>5, <2>6, Zenon
  <2> QED BY <2>1, <2>7
<1> QED BY <1>1, <1>2, <1>3, <1>4, <1>7, <1>8 DEF k

-----------------------------------------------------------------------------
(* Scripts. *)

\* What the first number of a compressed script is.
scriptType(script) == IF script.kind = "other" THEN Len(script.data) + 6
                      ELSE specialType(script)

\* A script of any form is written as its type and its data, and is what the
\* reader makes of these.
LEMMA ScriptForm ==
  ASSUME NEW script \in Script, ofItsForm(script)
  PROVE  LET type == scriptType(script)
         IN  /\ type \in Nat /\ (type \in 0..5 <=> script.kind /= "other")
             /\ script.data \in Seq(Byte)
             /\ Len(script.data) = dataLen(type)
             /\ PutCompressedScript(script) = PutVLQ(type) \o script.data
             /\ compressedScriptSize(script) = serializeSizeVLQ(type) + Len(script.data)
             /\ scriptOf(type, script.data) = script
<1> DEFINE type == scriptType(script)
<1>1. /\ script = [kind |-> script.kind, data |-> script.data, odd |-> script.odd]
      /\ script.kind \in {"pkh", "sh", "pk", "pk65", "other"}
      /\ script.data \in Seq(Byte) /\ script.odd \in 0..1
      /\ Len(script.data) \in Nat
  BY DEF Script
<1>2. \A n \in 0..5 : n < Base /\ PutVLQ(n) = <<n>> /\ serializeSizeVLQ(n) = 1
  BY BaseType, PutOf, SizeOf
<1>3. HashLen \in Nat /\ KeyLen \in Nat
  BY FormatConstants
<1>4. CASE script.kind \in {"pkh", "sh"}
  <2>1. /\ Len(script.data) = HashLen /\ script.odd = 0
        /\ type = IF script.kind = "pkh" THEN 0 ELSE 1
    BY <1>4 DEF ofItsForm, scriptType, specialType, isPubKeyHash, isScriptHash, isPubKey
  <2>2. scriptOf(type, script.data) = script
    <3>1. CASE script.kind = "pkh"
      BY <1>1, <2>1, <3>1 DEF scriptOf, PayTo
    <3>2. CASE script.kind = "sh"
      BY <1>1, <2>1, <3>2 DEF scriptOf, PayTo
    <3> QED BY <1>4, <3>1, <3>2
  <2>3. dataLen(type) = HashLen
    BY <2>1 DEF dataLen
  <2>4. /\ PutCompressedScript(script) = <<type>> \o script.data
        /\ compressedScriptSize(script) = HashLen + 1
    BY <1>4, <2>1 DEF PutCompressedScript, compressedScriptSize, isPubKeyHash, isScriptHash,
         scriptType
  <2>5. type \in 0..5 /\ type \in Nat /\ script.kind /= "other"
    BY <1>4, <2>1
  <2> HIDE DEF type
  <2>6. PutVLQ(type) = <<type>> /\ serializeSizeVLQ(type) = 1
    BY <1>2, <2>5
  <2>7. Len(script.data) = HashLen
    BY <2>1
  <2> QED BY <1>1, <1>3, <2>2, <2>3, <2>4, <2>5, <2>6, <2>7 DEF type
<1>5. CASE script.kind \in {"pk", "pk65"}
  <2>1. /\ script.data \in ValidX
        /\ type = IF script.kind = "pk" THEN 2 + script.odd ELSE 4 + script.odd
    BY <1>5 DEF ofItsForm, scriptType, specialType, isPubKeyHash, isScriptHash, isPubKey
  <2>2. Len(script.data) = KeyLen
    <3>1. script.data \in [1..KeyLen -> Byte]
      BY <2>1, PointsOfTheCurve
    <3> QED BY <1>1, <1>3, <3>1, LenProperties
  <2>3. type \in 2..5 /\ (type \in 2..3 <=> script.kind = "pk")
    BY <1>1, <1>5, <2>1
  <2>4. scriptOf(type, script.data) = script
    <3>1. CASE script.kind = "pk"
      BY <1>1, <2>1, <2>3, <3>1 DEF scriptOf, PayTo
    <3>2. CASE script.kind = "pk65"
      BY <1>1, <2>1, <2>3, <3>2 DEF scriptOf, PayTo
    <3> QED BY <1>5, <3>1, <3>2
  <2>5. dataLen(type) = KeyLen
    BY <2>3 DEF dataLen
  <2>6. /\ PutCompressedScript(script) = <<type>> \o script.data
        /\ compressedScriptSize(script) = KeyLen + 1
    BY <1>5, <2>1 DEF PutCompressedScript, compressedScriptSize, isPubKeyHash, isScriptHash,
         isPubKey, scriptType
  <2>7. type \in 0..5 /\ type \in Nat /\ script.kind /= "other"
    BY <1>5, <2>3
  <2> HIDE DEF type
  <2>8. PutVLQ(type) = <<type>> /\ serializeSizeVLQ(type) = 1
    BY <1>2, <2>7
  <2> QED BY <1>1, <1>3, <2>2, <2>4, <2>5, <2>6, <2>7, <2>8 DEF type
<1>6. CASE script.kind = "other"
  <2>1. type = Len(script.data) + 6 /\ script.odd = 0
    BY <1>6 DEF ofItsForm, scriptType
  <2>2. scriptOf(type, script.data) = script
    BY <1>1, <1>6, <2>1 DEF scriptOf, PayTo, Other
  <2>3. dataLen(type) = Len(script.data)
    BY <1>1, <2>1 DEF dataLen, numSpecialScripts
  <2>4. /\ PutCompressedScript(script) = PutVLQ(type) \o script.data
        /\ compressedScriptSize(script) = serializeSizeVLQ(type) + Len(script.data)
    BY <1>6, <2>1 DEF PutCompressedScript, compressedScriptSize, isPubKeyHash, isScriptHash,
         isPubKey, numSpecialScripts
  <2> QED BY <1>1, <1>6, <2>1, <2>2, <2>3, <2>4
<1> QED BY <1>1, <1>4, <1>5, <1>6

-----------------------------------------------------------------------------
(* Amounts. *)

\* The divisions by ten stop at an exponent.
LEMMA ExponentExists ==
  ASSUME NEW a \in Nat, a /= 0
  PROVE  /\ exponentOf(a) \in 0..9
         /\ a % Pow10[exponentOf(a) + 1] = 0
         /\ exponentOf(a) < 9 => a % Pow10[exponentOf(a) + 2] /= 0
<1>1. \E e \in 0..9 : /\ a % Pow10[e + 1] = 0
                      /\ e < 9 => a % Pow10[e + 2] /= 0
  BY DEF Pow10
<1> QED BY <1>1 DEF exponentOf

\* What is left when an exponent is divided out.
LEMMA DividedOut ==
  ASSUME NEW a \in Nat, a /= 0, NEW e \in 0..9, a % Pow10[e + 1] = 0
  PROVE  LET n == a \div Pow10[e + 1]
         IN  /\ n \in Nat \ {0}
             /\ n * Pow10[e + 1] = a
             /\ (e < 9 /\ a % Pow10[e + 2] /= 0) => n % 10 /= 0
<1>0. CASE e = 0 BY <1>0 DEF Pow10
<1>1. CASE e = 1 BY <1>1 DEF Pow10
<1>2. CASE e = 2 BY <1>2 DEF Pow10
<1>3. CASE e = 3 BY <1>3 DEF Pow10
<1>4. CASE e = 4 BY <1>4 DEF Pow10
<1>5. CASE e = 5 BY <1>5 DEF Pow10
<1>6. CASE e = 6 BY <1>6 DEF Pow10
<1>7. CASE e = 7 BY <1>7 DEF Pow10
<1>8. CASE e = 8 BY <1>8 DEF Pow10
<1>9. CASE e = 9 BY <1>9 DEF Pow10
<1> QED BY <1>0, <1>1, <1>2, <1>3, <1>4, <1>5, <1>6, <1>7, <1>8, <1>9

\* A last digit that is not zero is one of nine, and can be told again.
LEMMA LastDigit ==
  ASSUME NEW n \in Nat, n % 10 /= 0
  PROVE  LET y == 9 * (n \div 10) + (n % 10) - 1
         IN  /\ y \in Nat
             /\ (y \div 9) * 10 + (y % 9) + 1 = n
  OBVIOUS

\* The exponent is the last digit of the compressed amount.
LEMMA ExponentDigit ==
  ASSUME NEW y \in Nat, NEW e \in 0..9
  PROVE  LET x == 1 + 10 * y + e
         IN  x /= 0 /\ (x - 1) % 10 = e /\ (x - 1) \div 10 = y
  OBVIOUS

\* compression.go: decompressing a compressed amount gives the amount, for
\* every amount there is (of whatever size: the integers here have no width).
THEOREM AmountRoundTrip ==
  ASSUME NEW amount \in Nat
  PROVE  DecompressTxOutAmount(CompressTxOutAmount(amount)) = amount
<1>1. CASE amount = 0
  BY <1>1 DEF CompressTxOutAmount, DecompressTxOutAmount
<1>2. CASE amount /= 0
  <2> DEFINE e == exponentOf(amount)
             n == amount \div Pow10[e + 1]
             x == CompressTxOutAmount(amount)
  <2>1. /\ e \in 0..9 /\ amount % Pow10[e + 1] = 0
        /\ e < 9 => amount % Pow10[e + 2] /= 0
    BY <1>2, ExponentExists
  <2>2. n \in Nat \ {0} /\ n * Pow10[e + 1] = amount /\ (e < 9 => n % 10 /= 0)
    BY <1>2, <2>1, DividedOut
  <2>3. CASE e < 9
    <3> DEFINE y == 9 * (n \div 10) + (n % 10) - 1
    <3>1. y \in Nat /\ (y \div 9) * 10 + (y % 9) + 1 = n
      BY <2>2, <2>3, LastDigit
    <3>2. x = 1 + 10 * y + e
      BY <1>2, <2>3 DEF CompressTxOutAmount
    <3> HIDE DEF y, x, e, n
    <3>3. x /= 0 /\ (x - 1) % 10 = e /\ (x - 1) \div 10 = y
      BY <2>1, <3>1, <3>2, ExponentDigit
    <3>4. DecompressTxOutAmount(x) = n * Pow10[e + 1]
      BY <2>3, <3>1, <3>3 DEF DecompressTxOutAmount
    <3> QED BY <2>2, <3>4 DEF x
  <2>4. CASE e = 9
    <3>1. x = 1 + 10 * (n - 1) + 9
      BY <1>2, <2>2, <2>4 DEF CompressTxOutAmount
    <3> HIDE DEF x, e, n
    <3>2. x /= 0 /\ (x - 1) % 10 = 9 /\ (x - 1) \div 10 = n - 1
      BY <2>2, <3>1, ExponentDigit
    <3>3. DecompressTxOutAmount(x) = n * Pow10[e + 1]
      BY <2>2, <2>4, <3>2 DEF DecompressTxOutAmount
    <3> QED BY <2>2, <3>3 DEF x
  <2> QED BY <2>1, <2>3, <2>4
<1> QED BY <1>1, <1>2

\* utxostore/types.go: an amount put into an output of the store is what
\* GetAmount gives a reader, whatever else the output has.
THEOREM StoredAmountIsRead ==
  ASSUME NEW amount \in Nat, NEW stored,
         stored.CompressedAmount = CompressTxOutAmount(amount)
  PROVE  GetAmount(stored) = amount
  BY AmountRoundTrip DEF GetAmount

\* A compressed amount is a natural number.
LEMMA CompressedType ==
  ASSUME NEW amount \in Nat
  PROVE  CompressTxOutAmount(amount) \in Nat
<1>1. CASE amount = 0
  BY <1>1 DEF CompressTxOutAmount
<1>2. CASE amount /= 0
  <2> DEFINE e == exponentOf(amount)
             n == amount \div Pow10[e + 1]
  <2>1. /\ e \in 0..9 /\ amount % Pow10[e + 1] = 0
        /\ e < 9 => amount % Pow10[e + 2] /= 0
    BY <1>2, ExponentExists
  <2>2. n \in Nat \ {0} /\ (e < 9 => n % 10 /= 0)
    BY <1>2, <2>1, DividedOut
  <2>3. /\ e < 9 => CompressTxOutAmount(amount) = 1 + 10 * (9 * (n \div 10) + (n % 10) - 1) + e
        /\ ~(e < 9) => CompressTxOutAmount(amount) = 10 + 10 * (n - 1)
    BY <1>2 DEF CompressTxOutAmount
  <2> HIDE DEF n, e
  <2>4. e < 9 => 9 * (n \div 10) + (n % 10) - 1 \in Nat
    BY <2>2, LastDigit
  <2> QED BY <2>1, <2>2, <2>3, <2>4
<1> QED BY <1>1, <1>2

-----------------------------------------------------------------------------
(* What the writers of the format write and its readers read. *)

\* The size of a compressed script is told by its beginning.
LEMMA ScriptSizeRead ==
  ASSUME NEW type \in Nat, NEW s \in Seq(Byte), BeginsWith(s, PutVLQ(type))
  PROVE  /\ decodeCompressedScriptSize(s) = serializeSizeVLQ(type) + dataLen(type)
         /\ s /= <<>> /\ dataLen(type) \in Nat
<1>1. bytesRead(s) = serializeSizeVLQ(type) /\ DeserializeVLQ(s) = type
  BY NumberReadBack
<1>2. serializeSizeVLQ(type) \in Nat \ {0} /\ Len(PutVLQ(type)) = serializeSizeVLQ(type)
  BY NumberWritten
<1>3. s /= <<>>
  BY <1>2 DEF BeginsWith
<1>4. HashLen \in Nat /\ KeyLen \in Nat
  BY FormatConstants
<1>5. type \in 0..5 => serializeSizeVLQ(type) = 1
  BY BaseType, SizeOf
<1>6. dataLen(type) \in Nat
  BY <1>4 DEF dataLen, numSpecialScripts
<1>7. CASE type \in 0..1
  BY <1>1, <1>3, <1>4, <1>5, <1>7 DEF decodeCompressedScriptSize, dataLen
<1>8. CASE type \in 2..5
  <2>1. decodeCompressedScriptSize(s) = KeyLen + 1
    BY <1>1, <1>3, <1>8 DEF decodeCompressedScriptSize
  <2>2. dataLen(type) = KeyLen
    BY <1>8 DEF dataLen
  <2> QED BY <1>3, <1>4, <1>5, <1>8, <2>1, <2>2
<1>9. CASE type \notin 0..5
  <2>1. decodeCompressedScriptSize(s) = type - numSpecialScripts + bytesRead(s)
    BY <1>1, <1>3, <1>9 DEF decodeCompressedScriptSize
  <2>2. dataLen(type) = type - 6
    BY <1>9 DEF dataLen, numSpecialScripts
  <2> QED BY <1>1, <1>2, <1>3, <1>6, <2>1, <2>2 DEF numSpecialScripts
<1> QED BY <1>3, <1>6, <1>7, <1>8, <1>9

\* What is written of a script.
LEMMA ScriptWritten ==
  ASSUME NEW script \in Script, ofItsForm(script)
  PROVE  /\ PutCompressedScript(script) \in Seq(Byte)
         /\ Len(PutCompressedScript(script)) = compressedScriptSize(script)
         /\ compressedScriptSize(script) \in Nat \ {0}
         /\ BeginsWith(PutCompressedScript(script), PutVLQ(scriptType(script)))
<1> DEFINE type == scriptType(script)
<1>1. /\ type \in Nat /\ script.data \in Seq(Byte) /\ Len(script.data) \in Nat
      /\ PutCompressedScript(script) = PutVLQ(type) \o script.data
      /\ compressedScriptSize(script) = serializeSizeVLQ(type) + Len(script.data)
  BY ScriptForm, LenProperties
<1> HIDE DEF type
<1>2. /\ PutVLQ(type) \in Seq(Byte) /\ Len(PutVLQ(type)) = serializeSizeVLQ(type)
      /\ serializeSizeVLQ(type) \in Nat \ {0}
  BY <1>1, NumberWritten
<1>3. BeginsWith(PutCompressedScript(script), PutVLQ(type))
  BY <1>1, <1>2, ConcatProperties DEF BeginsWith
<1>4. /\ PutCompressedScript(script) \in Seq(Byte)
      /\ Len(PutCompressedScript(script)) = Len(PutVLQ(type)) + Len(script.data)
  BY <1>1, <1>2, ConcatProperties
<1>5. /\ Len(PutCompressedScript(script)) = compressedScriptSize(script)
      /\ compressedScriptSize(script) \in Nat \ {0}
  BY <1>1, <1>2, <1>4
<1> QED BY <1>3, <1>4, <1>5 DEF type

\* compression.go: a script is read back from its compressed form.
THEOREM ScriptRoundTrip ==
  ASSUME NEW script \in Script, ofItsForm(script)
  PROVE  DecompressScript(PutCompressedScript(script)) = script
<1> DEFINE type == scriptType(script)
           s == PutCompressedScript(script)
<1>1. /\ type \in Nat /\ script.data \in Seq(Byte)
      /\ s = PutVLQ(type) \o script.data
      /\ Len(script.data) = dataLen(type)
      /\ scriptOf(type, script.data) = script
  BY ScriptForm
<1>2. s /= <<>>
  BY ScriptWritten
<1> HIDE DEF type, s
<1>3. /\ bytesRead(s) = serializeSizeVLQ(type) /\ DeserializeVLQ(s) = type
      /\ SubSeq(s, serializeSizeVLQ(type) + 1, Len(s)) = script.data
      /\ Len(s) = serializeSizeVLQ(type) + Len(script.data)
  BY <1>1, AfterNumber
<1>4. SubSeq(s, bytesRead(s) + 1, bytesRead(s) + dataLen(type)) = script.data
  BY <1>1, <1>3
<1>5. DecompressScript(s) = scriptOf(type, script.data)
  BY <1>2, <1>3, <1>4 DEF DecompressScript
<1> QED BY <1>1, <1>5 DEF s

\* compression.go: what putCompressedTxOut writes, decodeCompressedTxOut reads,
\* whatever follows, and it is as long as compressedTxOutSize says.
THEOREM TxOutRoundTrip ==
  ASSUME NEW amount \in Nat, NEW script \in Script, ofItsForm(script), NEW junk \in Seq(Byte)
  PROVE  LET s == putCompressedTxOut(amount, script)
         IN  /\ s \in Seq(Byte)
             /\ Len(s) = compressedTxOutSize(amount, script)
             /\ decodeCompressedTxOut(s \o junk)
                  = [ok |-> TRUE, amount |-> amount, script |-> script, size |-> Len(s)]
<1> DEFINE x == CompressTxOutAmount(amount)
           w == serializeSizeVLQ(x)
           c == PutCompressedScript(script)
           type == scriptType(script)
           s == putCompressedTxOut(amount, script)
           all == s \o junk
           rest == SubSeq(all, w + 1, Len(all))
<1>1. x \in Nat
  BY CompressedType
<1>2. /\ c \in Seq(Byte) /\ Len(c) = compressedScriptSize(script) /\ Len(c) \in Nat \ {0}
      /\ BeginsWith(c, PutVLQ(type)) /\ type \in Nat
  BY ScriptWritten, ScriptForm
<1>3. s = PutVLQ(x) \o c /\ compressedTxOutSize(amount, script) = w + compressedScriptSize(script)
  BY DEF putCompressedTxOut, compressedTxOutSize
<1> HIDE DEF c, type, s
<1>4. PutVLQ(x) \in Seq(Byte) /\ Len(PutVLQ(x)) = w /\ w \in Nat \ {0}
  BY <1>1, NumberWritten
<1>5. s \in Seq(Byte) /\ Len(s) = w + Len(c)
  BY <1>2, <1>3, <1>4, ConcatProperties
<1>6. c \o junk \in Seq(Byte) /\ Len(c \o junk) = Len(c) + Len(junk)
  BY <1>2, ConcatProperties
<1>7. all = PutVLQ(x) \o (c \o junk)
  <2> DEFINE p == PutVLQ(x)
  <2>1. p \in Seq(Byte) /\ c \in Seq(Byte) /\ junk \in Seq(Byte) /\ s = p \o c
    BY <1>2, <1>3, <1>4
  <2> HIDE DEF p
  <2>2. (p \o c) \o junk = p \o (c \o junk)
    BY <2>1, ConcatAssociative
  <2>3. s \o junk = p \o (c \o junk)
    BY <2>1, <2>2, Zenon
  <2> QED BY <2>3 DEF p
<1> HIDE DEF all, x
<1>8. /\ bytesRead(all) = w /\ DeserializeVLQ(all) = x
      /\ Len(all) = w + Len(c \o junk)
      /\ rest = c \o junk
  BY <1>1, <1>6, <1>7, AfterNumber
<1> HIDE DEF rest, w
<1>9. BeginsWith(rest, PutVLQ(type))
  <2>1. PutVLQ(type) \in Seq(Byte) /\ Len(PutVLQ(type)) \in Nat
    BY <1>2, NumberWritten
  <2>2. \A i \in 1..Len(c) : rest[i] = c[i]
    BY <1>2, <1>8, ConcatProperties
  <2> QED BY <1>2, <1>6, <1>8, <2>1, <2>2 DEF BeginsWith
<1>10. decodeCompressedScriptSize(rest) = Len(c)
  <2>1. decodeCompressedScriptSize(rest) = serializeSizeVLQ(type) + dataLen(type)
    BY <1>2, <1>6, <1>8, <1>9, ScriptSizeRead
  <2>2. compressedScriptSize(script) = serializeSizeVLQ(type) + dataLen(type)
    BY ScriptForm DEF type
  <2> QED BY <1>2, <2>1, <2>2
<1>11. SubSeq(rest, 1, Len(c)) = c
  <2>1. Len(c) \in 1..Len(c)
    BY <1>2
  <2> QED BY <1>2, <1>8, <2>1, SubSeqOfConcat1, SubSeqFull
<1>12. ~(bytesRead(all) >= Len(all) \/ Len(rest) < Len(c))
  <2>1. Len(junk) \in Nat
    BY LenProperties
  <2> QED BY <1>2, <1>4, <1>6, <1>8, <2>1
<1>13. DecompressScript(c) = script /\ DecompressTxOutAmount(x) = amount
  BY ScriptRoundTrip, AmountRoundTrip DEF c, x
<1>14. rest = SubSeq(all, bytesRead(all) + 1, Len(all))
  BY <1>8 DEF rest
<1>15. decodeCompressedTxOut(all) = [ok |-> TRUE, amount |-> amount, script |-> script,
                                     size |-> w + Len(c)]
  BY <1>8, <1>10, <1>11, <1>12, <1>13, <1>14, Zenon DEF decodeCompressedTxOut
<1> QED BY <1>2, <1>3, <1>5, <1>15 DEF s, all

\* What a slice that ends within a value reads as: an error, but for a byte that
\* begins the size of a long script and reads as the size of an empty one.
LEMMA CutTxOut ==
  ASSUME NEW amount \in Nat, NEW script \in Script, ofItsForm(script),
         NEW n \in 0..(Len(putCompressedTxOut(amount, script)) - 1)
  PROVE  LET s == putCompressedTxOut(amount, script)
         IN  decodeCompressedTxOut(SubSeq(s, 1, n)).ok <=>
               /\ n = serializeSizeVLQ(CompressTxOutAmount(amount)) + 1
               /\ s[n] = Base + numSpecialScripts - 1
<1> DEFINE x == CompressTxOutAmount(amount)
           w == serializeSizeVLQ(x)
           c == PutCompressedScript(script)
           type == scriptType(script)
           k == serializeSizeVLQ(type)
           s == putCompressedTxOut(amount, script)
           cut == SubSeq(s, 1, n)
           rest == SubSeq(cut, w + 1, Len(cut))
<1>1. x \in Nat
  BY CompressedType
<1>2. /\ c \in Seq(Byte) /\ Len(c) = k + dataLen(type) /\ Len(c) \in Nat \ {0}
      /\ BeginsWith(c, PutVLQ(type)) /\ type \in Nat /\ dataLen(type) \in Nat
      /\ c = PutVLQ(type) \o script.data /\ Len(script.data) = dataLen(type)
      /\ script.data \in Seq(Byte)
  BY ScriptWritten, ScriptForm, LenProperties
<1>3. s = PutVLQ(x) \o c
  BY DEF putCompressedTxOut
<1>4. /\ PutVLQ(x) \in Seq(Byte) /\ Len(PutVLQ(x)) = w /\ w \in Nat \ {0}
      /\ PutVLQ(type) \in Seq(Byte) /\ Len(PutVLQ(type)) = k /\ k \in Nat \ {0}
      /\ \A i \in 1..(w - 1) : highBit(PutVLQ(x)[i])
      /\ ~highBit(PutVLQ(x)[w])
  BY <1>1, <1>2, NumberWritten
<1>5. n \in 0..(Len(s) - 1)
  OBVIOUS
<1>h. type \in 0..5 => dataLen(type) \in Nat \ {0} /\ k = 1
  <2>1. HashLen \in Nat \ {0} /\ KeyLen \in Nat \ {0}
    BY FormatConstants
  <2> QED BY <2>1, BaseType, SizeOf DEF dataLen
<1>t. type \notin 0..5 => dataLen(type) = type - 6
  BY DEF dataLen, numSpecialScripts
<1> HIDE DEF c, type, s, x, k, w
<1>6. /\ s \in Seq(Byte) /\ Len(s) = w + Len(c)
      /\ \A i \in 1..w : s[i] = PutVLQ(x)[i]
      /\ \A i \in 1..Len(c) : s[w + i] = c[i]
  <2>1. /\ s \in Seq(Byte) /\ Len(s) = w + Len(c)
        /\ \A i \in 1..(w + Len(c)) : s[i] = IF i <= w THEN PutVLQ(x)[i] ELSE c[i - w]
    <3>1. c \in Seq(Byte) /\ PutVLQ(x) \in Seq(Byte) /\ Len(PutVLQ(x)) = w
      BY <1>2, <1>4
    <3> QED BY <1>3, <3>1, ConcatProperties
  <2>2. w \in Nat /\ Len(c) \in Nat
    BY <1>2, <1>4
  <2>3. ASSUME NEW i \in 1..w PROVE s[i] = PutVLQ(x)[i]
    BY <2>1, <2>2
  <2>4. ASSUME NEW i \in 1..Len(c) PROVE s[w + i] = c[i]
    <3>1. w + i \in 1..(w + Len(c)) /\ ~(w + i <= w) /\ (w + i) - w = i
      BY <2>2
    <3> QED BY <2>1, <3>1
  <2> QED BY <2>1, <2>3, <2>4
<1>7. cut \in Seq(Byte) /\ Len(cut) = n /\ \A i \in 1..n : cut[i] = s[i]
  <2>1. \A i \in 1..n : s[i] \in Byte
    BY <1>2, <1>4, <1>5, <1>6
  <2> QED BY <1>5, <2>1, SubSeqProperties
<1> HIDE DEF cut
<1>8. CASE n <= w
  <2>1. bytesRead(cut) = n
    <3>1. CASE n = 0
      <4>1. bytesRead(cut) \in 0..Len(cut)
        BY <1>7, BytesRead
      <4> QED BY <1>7, <3>1, <4>1
    <3>2. CASE n > 0
      <4>1. \A i \in 1..(n - 1) : i \in 1..w /\ i \in 1..(w - 1) /\ i \in 1..n
        BY <1>4, <1>5, <1>8
      <4>2. \A i \in 1..(n - 1) : highBit(cut[i])
        BY <1>4, <1>6, <1>7, <4>1
      <4> QED BY <1>5, <1>7, <3>2, <4>2, ReadsUpTo
    <3> QED BY <1>5, <3>1, <3>2
  <2>2. bytesRead(cut) >= Len(cut)
    BY <1>5, <1>7, <2>1
  <2>3. decodeCompressedTxOut(cut) = Error
    BY <2>2, Zenon DEF decodeCompressedTxOut
  <2>4. n /= w + 1
    BY <1>4, <1>8
  <2> QED BY <2>3, <2>4 DEF Error, cut, s, w, x
<1>9. CASE n > w
  <2> DEFINE m == n - w
  <2>1. m \in 1..(Len(c) - 1) /\ n = w + m /\ m \in Nat \ {0}
    <3> DEFINE L == Len(c)
               t == Len(s)
    <3>1. w \in Nat /\ L \in Nat
      BY <1>2, <1>4
    <3>2. t = w + L
      BY <1>6
    <3>3. n \in 0..(t - 1)
      BY <1>5
    <3> HIDE DEF L, t
    <3>4. n \in Nat /\ n < w + L
      BY <3>1, <3>2, <3>3
    <3>5. m \in 1..(L - 1) /\ n = w + m /\ m \in Nat \ {0}
      BY <1>9, <3>1, <3>4
    <3> QED BY <3>5 DEF L
  <2> HIDE DEF m
  <2>2. bytesRead(cut) = w
    <3>1. \A i \in 1..w : cut[i] = PutVLQ(x)[i]
      BY <1>4, <1>6, <1>7, <2>1
    <3>2. w \in 1..Len(cut) /\ \A i \in 1..(w - 1) : highBit(cut[i])
      BY <1>4, <1>7, <2>1, <3>1
    <3>3. ~highBit(cut[w])
      BY <1>4, <3>1
    <3> QED BY <1>7, <3>2, <3>3, ReadsUpTo
  <2>3. rest \in Seq(Byte) /\ Len(rest) = m /\ \A i \in 1..m : rest[i] = c[i]
    <3>1. \A i \in (w + 1)..Len(cut) : cut[i] \in Byte
      BY <1>4, <1>7, <2>1
    <3>2. /\ rest \in Seq(Byte) /\ Len(rest) = m
          /\ \A i \in 1..m : rest[i] = cut[w + i]
      <4>1. Len(cut) = w + m /\ w \in Nat
        BY <1>4, <1>7, <2>1
      <4>2. /\ rest \in Seq(Byte)
            /\ Len(rest) = IF w + 1 <= Len(cut) THEN Len(cut) - (w + 1) + 1 ELSE 0
            /\ \A i \in 1..(Len(cut) - (w + 1) + 1) : rest[i] = cut[(w + 1) + i - 1]
        BY <3>1, <4>1, <2>1, SubSeqProperties
      <4> HIDE DEF rest
      <4>3. Len(cut) - (w + 1) + 1 = m /\ w + 1 <= Len(cut)
        BY <2>1, <4>1
      <4>4. \A i \in 1..m : (w + 1) + i - 1 = w + i
        BY <4>1
      <4> QED BY <4>2, <4>3, <4>4
    <3>3. \A i \in 1..m : w + i \in 1..n /\ i \in 1..Len(c)
      BY <1>2, <1>4, <2>1
    <3> QED BY <1>6, <1>7, <3>2, <3>3
  <2>4. rest = SubSeq(cut, bytesRead(cut) + 1, Len(cut))
    BY <2>2
  <2> HIDE DEF rest
  <2>5. decodeCompressedTxOut(cut).ok <=> ~(m < decodeCompressedScriptSize(rest))
    <3>1. ~(bytesRead(cut) >= Len(cut))
      BY <1>4, <1>7, <2>1, <2>2
    <3>2. Len(rest) < decodeCompressedScriptSize(rest) => decodeCompressedTxOut(cut) = Error
      BY <2>4, Zenon DEF decodeCompressedTxOut
    <3>3. ~(Len(rest) < decodeCompressedScriptSize(rest)) =>
            decodeCompressedTxOut(cut) =
              [ok |-> TRUE, amount |-> DecompressTxOutAmount(DeserializeVLQ(cut)),
               script |-> DecompressScript(SubSeq(rest, 1, decodeCompressedScriptSize(rest))),
               size |-> bytesRead(cut) + decodeCompressedScriptSize(rest)]
      BY <2>4, <3>1, Zenon DEF decodeCompressedTxOut
    <3> QED BY <2>3, <3>2, <3>3 DEF Error
  <2>6. s[n] = c[m]
    BY <1>2, <1>6, <2>1
  <2>7. CASE m >= k
    <3>1. BeginsWith(rest, PutVLQ(type))
      <4>1. \A i \in 1..k : rest[i] = c[i] /\ c[i] = PutVLQ(type)[i]
        BY <1>2, <1>4, <2>1, <2>3, <2>7 DEF BeginsWith
      <4> QED BY <1>4, <2>3, <2>7, <4>1 DEF BeginsWith
    <3>2. decodeCompressedScriptSize(rest) = k + dataLen(type)
      BY <1>2, <2>3, <3>1, ScriptSizeRead DEF k
    <3>3. m < decodeCompressedScriptSize(rest)
      BY <1>2, <2>1, <3>2
    <3>4. ASSUME m = 1 PROVE c[1] /= Base + 5
      <4>1. k = 1
        BY <1>4, <2>7, <3>4
      <4>2. c[1] = PutVLQ(type)[1] /\ ~highBit(PutVLQ(type)[1])
        <5>1. ~highBit(PutVLQ(type)[k])
          BY <1>2, NumberWritten DEF k
        <5> QED BY <1>2, <1>4, <4>1, <5>1 DEF BeginsWith
      <4> QED BY <4>2, BaseType DEF highBit
    <3> QED BY <1>4, <2>1, <2>5, <2>6, <3>3, <3>4 DEF cut, s, w, x, numSpecialScripts
  <2>8. CASE m < k
    <3>1. /\ bytesRead(rest) = m
          /\ rest[1] \in Base..(2 * Base - 1)
          /\ m = 1 => DeserializeVLQ(rest) = rest[1] - Base + 1
          /\ m > 1 => DeserializeVLQ(rest) \in Nat /\ DeserializeVLQ(rest) > Base
      <4>1. m \in 1..(serializeSizeVLQ(type) - 1)
        BY <1>4, <2>1, <2>8 DEF k
      <4>2. \A i \in 1..m : rest[i] = PutVLQ(type)[i]
        BY <1>2, <1>4, <2>1, <2>3, <2>8 DEF BeginsWith
      <4> QED BY <1>2, <2>3, <4>1, <4>2, CutNumber
    <3>2. rest /= <<>>
      BY <2>1, <2>3
    <3>3. HashLen \in Nat \ {0} /\ KeyLen \in Nat \ {0}
      BY FormatConstants
    <3>4. CASE m > 1
      <4>1. decodeCompressedScriptSize(rest) = DeserializeVLQ(rest) - 6 + m
        BY <3>1, <3>2, <3>4, BaseType DEF decodeCompressedScriptSize, numSpecialScripts
      <4>2. m < decodeCompressedScriptSize(rest)
        BY <2>1, <3>1, <3>4, <4>1, BaseType
      <4> QED BY <1>4, <2>1, <2>5, <3>4, <4>2 DEF cut, s, w, x
    <3>5. CASE m = 1
      <4> DEFINE b == rest[1] - Base + 1
      <4>1. b = DeserializeVLQ(rest) /\ b \in 1..Base /\ rest[1] = c[1]
        BY <2>1, <2>3, <3>1, <3>5, BaseType
      <4>2. b = 6 <=> c[1] = Base + 5
        BY <3>1, <4>1, BaseType
      <4> HIDE DEF b
      <4>3. CASE b \in 0..1
        <5>1. decodeCompressedScriptSize(rest) = HashLen + 1
          BY <3>2, <4>1, <4>3 DEF decodeCompressedScriptSize
        <5> QED BY <1>4, <2>1, <2>5, <2>6, <3>3, <3>5, <4>2, <4>3, <5>1
              DEF cut, s, w, x, numSpecialScripts
      <4>4. CASE b \in 2..5
        <5>1. decodeCompressedScriptSize(rest) = KeyLen + 1
          BY <3>2, <4>1, <4>4 DEF decodeCompressedScriptSize
        <5> QED BY <1>4, <2>1, <2>5, <2>6, <3>3, <3>5, <4>2, <4>4, <5>1
              DEF cut, s, w, x, numSpecialScripts
      <4>5. CASE b \notin 0..5
        <5>1. decodeCompressedScriptSize(rest) = b - 6 + 1
          BY <3>1, <3>2, <3>5, <4>1, <4>5 DEF decodeCompressedScriptSize, numSpecialScripts
        <5>2. b >= 6
          BY <4>1, <4>5, BaseType
        <5>3. ~(m < decodeCompressedScriptSize(rest)) <=> b = 6
          BY <3>5, <4>1, <5>1, <5>2, BaseType
        <5>4. n = w + 1 /\ s[n] = c[1]
          BY <1>4, <2>1, <2>6, <3>5
        <5> QED BY <2>5, <4>2, <5>3, <5>4, BaseType DEF cut, s, w, x, numSpecialScripts
      <4> QED BY <4>3, <4>4, <4>5
    <3> QED BY <2>1, <3>4, <3>5
  <2> QED BY <1>4, <2>1, <2>7, <2>8
<1> QED BY <1>4, <1>5, <1>8, <1>9

-----------------------------------------------------------------------------
(* Coins. *)

\* What is written after something is what is left behind it.
LEMMA Behind ==
  ASSUME NEW s \in Seq(Byte), NEW t \in Seq(Byte)
  PROVE  /\ s \o t \in Seq(Byte) /\ Len(s \o t) = Len(s) + Len(t)
         /\ \A i \in 1..Len(s) : (s \o t)[i] = s[i]
         /\ SubSeq(s \o t, Len(s) + 1, Len(s \o t)) = t
<1> DEFINE st == s \o t
           u == SubSeq(st, Len(s) + 1, Len(st))
<1>1. /\ st \in Seq(Byte) /\ Len(st) = Len(s) + Len(t)
      /\ \A i \in 1..(Len(s) + Len(t)) : st[i] = IF i <= Len(s) THEN s[i] ELSE t[i - Len(s)]
  BY ConcatProperties
<1>2. Len(s) \in Nat /\ Len(t) \in Nat
  BY LenProperties
<1> HIDE DEF st
<1>3. /\ \A i \in 1..Len(s) : st[i] = s[i]
      /\ \A i \in 1..Len(t) : st[Len(s) + i] = t[i]
  <2>1. ASSUME NEW i \in 1..Len(t) PROVE st[Len(s) + i] = t[i]
    <3>1. /\ Len(s) + i \in 1..(Len(s) + Len(t)) /\ ~(Len(s) + i <= Len(s))
          /\ (Len(s) + i) - Len(s) = i
      BY <1>2
    <3> QED BY <1>1, <3>1
  <2> QED BY <1>1, <1>2, <2>1
<1>4. \A i \in (Len(s) + 1)..Len(st) : st[i] \in Byte
  BY <1>1, <1>2
<1>5. /\ u \in Seq(Byte) /\ Len(u) = Len(t)
      /\ \A i \in 1..Len(t) : u[i] = st[Len(s) + i]
  BY <1>1, <1>2, <1>4, SubSeqProperties
<1>6. u = t
  BY <1>3, <1>5, SeqEqual
<1> QED BY <1>1, <1>3, <1>6 DEF st

\* A reversed sequence of bytes is one, and reversed again it is what it was.
LEMMA ReverseTwice ==
  ASSUME NEW s \in Seq(Byte)
  PROVE  Reverse(s) \in Seq(Byte) /\ Len(Reverse(s)) = Len(s) /\ Reverse(Reverse(s)) = s
<1>1. Len(s) \in Nat /\ s \in [1..Len(s) -> Byte]
  BY LenProperties
<1>2. \A i \in 1..Len(s) : Len(s) - i + 1 \in 1..Len(s)
  BY <1>1
<1>3. Reverse(s) \in [1..Len(s) -> Byte]
  BY <1>1, <1>2 DEF Reverse
<1>4. Reverse(s) \in Seq(Byte) /\ Len(Reverse(s)) = Len(s)
  BY <1>1, <1>3
<1>5. \A i \in 1..Len(s) : Reverse(s)[i] = s[Len(s) - i + 1]
  BY DEF Reverse
<1>6. Reverse(Reverse(s)) = [i \in 1..Len(s) |-> Reverse(s)[Len(s) - i + 1]]
  BY <1>4 DEF Reverse
<1>7. \A i \in 1..Len(s) : Reverse(s)[Len(s) - i + 1] = s[i]
  <2> TAKE i \in 1..Len(s)
  <2>1. Len(s) - (Len(s) - i + 1) + 1 = i
    BY <1>1
  <2> QED BY <1>2, <1>5, <2>1
<1>8. Reverse(Reverse(s)) = [i \in 1..Len(s) |-> s[i]]
  BY <1>6, <1>7
<1> QED BY <1>1, <1>4, <1>8

\* Reading as many bytes as were written.
LEMMA BytesBefore ==
  ASSUME NEW s \in Seq(Byte), NEW t \in Seq(Byte)
  PROVE  readBytes(s \o t, Len(s)) = s
<1>1. Len(s) \in Nat /\ Len(t) \in Nat /\ s = [i \in 1..Len(s) |-> s[i]]
  BY LenProperties
<1>2. \A i \in 1..Len(s) : i <= Len(s \o t) /\ (s \o t)[i] = s[i]
  BY <1>1, Behind
<1>3. readBytes(s \o t, Len(s)) = [i \in 1..Len(s) |-> s[i]]
  BY <1>2 DEF readBytes
<1> QED BY <1>1, <1>3

\* Coin.Deserialize reads the script again from what PutCompressedScript wrote.
LEMMA ScriptDeserialized ==
  ASSUME NEW script \in Script, ofItsForm(script), NEW rest \in Seq(Byte)
  PROVE  LET types == PutCompressedScript(script) \o rest
             type  == scriptType(script)
             isKey == type \in 2..5
             from  == IF isKey THEN types ELSE afterVLQ(types)
             size  == GetScriptSize(type) + (IF isKey THEN 1 ELSE 0)
             bytes == readBytes(from, size)
         IN  /\ DeserializeVLQ(types) = type
             /\ (size > MaxScript \/ from = <<>>) <=> refused(script, rest)
             /\ ~refused(script, rest) =>
                  scriptOf(type, IF isKey THEN Tail(bytes) ELSE bytes) = script
<1> DEFINE types == PutCompressedScript(script) \o rest
           type  == scriptType(script)
           isKey == type \in 2..5
           from  == IF isKey THEN types ELSE afterVLQ(types)
           size  == GetScriptSize(type) + (IF isKey THEN 1 ELSE 0)
           bytes == readBytes(from, size)
           data  == script.data
           put   == PutVLQ(type) \o data
<1>1. /\ type \in Nat /\ (type \in 0..5 <=> script.kind /= "other")
      /\ data \in Seq(Byte) /\ Len(data) \in Nat /\ Len(data) = dataLen(type)
      /\ PutCompressedScript(script) = put
      /\ scriptOf(type, data) = script
  BY ScriptForm, LenProperties
<1>2. /\ HashLen \in Nat \ {0} /\ KeyLen \in Nat \ {0}
      /\ MaxScript \in Nat /\ MaxScript > KeyLen + 1 /\ MaxScript > HashLen
  BY FormatConstants
<1>3. /\ type \in 0..1 => Len(data) = HashLen
      /\ type \in 2..5 => Len(data) = KeyLen
  BY <1>1 DEF dataLen
<1>4. types = put \o rest
  BY <1>1, Zenon
<1>5. PutVLQ(type) \in Seq(Byte)
  BY <1>1, NumberWritten
<1> HIDE DEF types, type, data
<1>6. types = PutVLQ(type) \o (data \o rest) /\ data \o rest \in Seq(Byte)
  <2>1. data \o rest \in Seq(Byte)
    BY <1>1, ConcatProperties, SMTT(20)
  <2>2. (PutVLQ(type) \o data) \o rest = PutVLQ(type) \o (data \o rest)
    BY <1>1, <1>5, ConcatAssociative, SMTT(20)
  <2> QED BY <1>4, <2>1, <2>2, Zenon
<1>7. DeserializeVLQ(types) = type /\ afterVLQ(types) = data \o rest
  BY <1>1, <1>6, AfterNumber
<1>8. GetScriptSize(type) = Len(data)
  BY <1>1 DEF GetScriptSize
<1>9. refused(script, rest)
        <=> type \notin 0..5 /\ (data \o rest = <<>> \/ Len(data) > MaxScript)
  BY <1>1 DEF refused, data
<1>10. CASE isKey
  <2>1. type \in 0..5 /\ ~(type \in 0..1)
    BY <1>1, <1>10
  <2>2. PutVLQ(type) = <<type>> /\ type \in Byte
    <3>1. type \in Nat /\ type < Base
      BY <2>1, BaseType
    <3>2. PutVLQ(type) = <<type>>
      BY <3>1, PutOf
    <3>3. type \in Byte
      BY <3>1, BaseType DEF Byte
    <3> QED BY <3>2, <3>3
  <2>3. put \in Seq(Byte) /\ Len(put) = KeyLen + 1 /\ put /= <<>> /\ Tail(put) = data
    BY <1>1, <1>2, <1>3, <1>10, <2>2
  <2>4. size = KeyLen + 1 /\ from = types
    BY <1>3, <1>8, <1>10
  <2> HIDE DEF put
  <2>5. bytes = put
    BY <1>4, <2>3, <2>4, BytesBefore
  <2>6. from /= <<>>
    <3>1. Len(types) = Len(put) + Len(rest) /\ Len(rest) \in Nat
      BY <1>4, <2>3, Behind, LenProperties
    <3> QED BY <1>2, <2>3, <2>4, <3>1
  <2>7. ~refused(script, rest) /\ ~(size > MaxScript)
    BY <1>2, <1>9, <2>1, <2>4
  <2> QED BY <1>1, <1>7, <1>10, <2>3, <2>5, <2>6, <2>7 DEF types, type
<1>11. CASE ~isKey
  <2>1. size = Len(data) /\ from = data \o rest
    BY <1>1, <1>7, <1>8, <1>11
  <2>2. bytes = data
    BY <1>1, <2>1, BytesBefore
  <2>3. (size > MaxScript \/ from = <<>>) <=> refused(script, rest)
    <3>1. CASE type \in 0..1
      <4>1. Len(data) = HashLen /\ ~(Len(data) > MaxScript)
        BY <1>1, <1>2, <1>3, <3>1
      <4>2. data \o rest /= <<>>
        <5>1. Len(data \o rest) = Len(data) + Len(rest) /\ Len(rest) \in Nat
          BY <1>1, Behind, LenProperties
        <5> QED BY <1>2, <4>1, <5>1
      <4> QED BY <1>9, <2>1, <3>1, <4>1, <4>2
    <3>2. CASE type \notin 0..5
      BY <1>9, <2>1, <3>2
    <3> QED BY <1>1, <1>11, <3>1, <3>2
  <2> QED BY <1>1, <1>7, <1>11, <2>2, <2>3 DEF types, type
<1> QED BY <1>10, <1>11

\* The value of a coin is read from a stream as the node wrote it, whatever
\* follows, or not at all.
LEMMA ValueInStream ==
  ASSUME NEW c \in Coin, ofItsForm(c.script), NEW rest \in Seq(Byte)
  PROVE  /\ valueOf(c) \in Seq(Byte)
         /\ Deserialize(valueOf(c) \o rest)
              = IF refused(c.script, rest) THEN Error
                ELSE [ok |-> TRUE, height |-> c.height, coinbase |-> c.coinbase,
                      amount |-> c.amount, script |-> c.script]
<1> DEFINE code == 2 * c.height + (IF c.coinbase THEN 1 ELSE 0)
           x == CompressTxOutAmount(c.amount)
           put == PutCompressedScript(c.script)
           types == put \o rest
           type == scriptType(c.script)
           s == valueOf(c) \o rest
           amounts == PutVLQ(x) \o types
<1>1. /\ c.height \in Nat /\ c.coinbase \in BOOLEAN /\ c.amount \in Nat /\ c.script \in Script
  BY DEF Coin
<1>2. code \in Nat /\ code \div 2 = c.height /\ (code % 2 = 1) = c.coinbase
  <2>1. \A n \in Nat : /\ 2 * n + 1 \in Nat /\ (2 * n + 1) \div 2 = n /\ (2 * n + 1) % 2 = 1
                       /\ 2 * n + 0 \in Nat /\ (2 * n + 0) \div 2 = n /\ (2 * n + 0) % 2 /= 1
    OBVIOUS
  <2>2. CASE c.coinbase
    <3>1. code = 2 * c.height + 1
      BY <2>2
    <3> HIDE DEF code
    <3> QED BY <1>1, <2>1, <2>2, <3>1, Zenon
  <2>3. CASE ~c.coinbase
    <3>1. code = 2 * c.height + 0
      BY <2>3
    <3> HIDE DEF code
    <3> QED BY <1>1, <2>1, <2>3, <3>1, Zenon
  <2> QED BY <2>2, <2>3
<1>3. x \in Nat /\ DecompressTxOutAmount(x) = c.amount
  BY <1>1, CompressedType, AmountRoundTrip
<1>4. put \in Seq(Byte)
  BY <1>1, ScriptWritten
<1>5. PutVLQ(code) \in Seq(Byte) /\ PutVLQ(x) \in Seq(Byte)
  BY <1>2, <1>3, NumberWritten
<1>6. valueOf(c) = PutVLQ(code) \o (PutVLQ(x) \o put)
  BY Zenon DEF valueOf, putCompressedTxOut
<1> DEFINE isKey == type \in 2..5
           from  == IF isKey THEN types ELSE afterVLQ(types)
           size  == GetScriptSize(type) + (IF isKey THEN 1 ELSE 0)
           bytes == readBytes(from, size)
<1>7. /\ DeserializeVLQ(types) = type
      /\ (size > MaxScript \/ from = <<>>) <=> refused(c.script, rest)
      /\ ~refused(c.script, rest) =>
           scriptOf(type, IF isKey THEN Tail(bytes) ELSE bytes) = c.script
  BY <1>1, ScriptDeserialized
<1> HIDE DEF code, x, put, type
<1>8. /\ types \in Seq(Byte) /\ PutVLQ(x) \o put \in Seq(Byte)
      /\ valueOf(c) \in Seq(Byte)
  BY <1>4, <1>5, <1>6, ConcatProperties
<1>9. s = PutVLQ(code) \o amounts
  <2>1. (PutVLQ(x) \o put) \o rest = PutVLQ(x) \o (put \o rest)
    BY <1>4, <1>5, ConcatAssociative
  <2>2. \A t \in Seq(Byte) : (PutVLQ(code) \o t) \o rest = PutVLQ(code) \o (t \o rest)
    BY <1>5, ConcatAssociative
  <2>3. (PutVLQ(code) \o (PutVLQ(x) \o put)) \o rest
          = PutVLQ(code) \o ((PutVLQ(x) \o put) \o rest)
    BY <1>8, <2>2, Zenon
  <2>4. s = (PutVLQ(code) \o (PutVLQ(x) \o put)) \o rest
    BY <1>6, Zenon
  <2> QED BY <2>1, <2>3, <2>4, Zenon
<1> HIDE DEF types, s
<1>10. /\ amounts \in Seq(Byte) /\ DeserializeVLQ(amounts) = x /\ afterVLQ(amounts) = types
  BY <1>3, <1>8, AfterNumber
<1> HIDE DEF amounts
<1>11. DeserializeVLQ(s) = code /\ afterVLQ(s) = amounts
  BY <1>2, <1>9, <1>10, AfterNumber
<1>12. (size > MaxScript \/ from = <<>>) => Deserialize(s) = Error
  BY <1>7, <1>10, <1>11, Zenon DEF Deserialize
<1>13. ~(size > MaxScript \/ from = <<>>) =>
         Deserialize(s) = [ok |-> TRUE, height |-> code \div 2, coinbase |-> (code % 2 = 1),
                           amount |-> DecompressTxOutAmount(x),
                           script |-> scriptOf(type, IF isKey THEN Tail(bytes) ELSE bytes)]
  BY <1>7, <1>10, <1>11, Zenon DEF Deserialize
<1> HIDE DEF isKey, from, size, bytes
<1> QED BY <1>2, <1>3, <1>7, <1>8, <1>12, <1>13 DEF s

\* The same where nothing follows.
LEMMA ValueDeserialized ==
  ASSUME NEW c \in Coin, ofItsForm(c.script)
  PROVE  /\ valueOf(c) \in Seq(Byte)
         /\ unreadable(c.script) => Deserialize(valueOf(c)) = Error
         /\ ~unreadable(c.script) =>
              Deserialize(valueOf(c)) = [ok |-> TRUE, height |-> c.height, coinbase |-> c.coinbase,
                                         amount |-> c.amount, script |-> c.script]
<1>1. <<>> \in Seq(Byte)
  OBVIOUS
<1>2. valueOf(c) \in Seq(Byte)
  BY <1>1, ValueInStream
<1>3. valueOf(c) \o <<>> = valueOf(c)
  BY <1>2
<1>4. Deserialize(valueOf(c))
        = IF refused(c.script, <<>>) THEN Error
          ELSE [ok |-> TRUE, height |-> c.height, coinbase |-> c.coinbase,
                amount |-> c.amount, script |-> c.script]
  BY <1>1, <1>3, ValueInStream
<1> QED BY <1>2, <1>4 DEF unreadable

\* Its key is read as its outpoint, and what follows it as its value.
LEMMA CoinDeserialized ==
  ASSUME NEW c \in Coin, ofItsForm(c.script)
  PROVE  /\ keyOf(c) \in Seq(Byte) /\ Len(keyOf(c)) = IDLen + serializeSizeVLQ(c.vout)
         /\ \A i \in 1..IDLen : keyOf(c)[i] = Reverse(c.txid)[i]
         /\ SubSeq(keyOf(c), IDLen + 1, Len(keyOf(c))) = PutVLQ(c.vout)
         /\ unreadable(c.script) => DeserializeTxOut(keyOf(c) \o valueOf(c)) = Error
         /\ ~unreadable(c.script) =>
              DeserializeTxOut(keyOf(c) \o valueOf(c)) = [ok |-> TRUE, coin |-> c]
<1> DEFINE id == Reverse(c.txid)
           n == PutVLQ(c.vout)
           v == valueOf(c)
           s == keyOf(c) \o v
           ids == n \o v
<1>0. IDLen \in Nat \ {0}
  BY FormatConstants
<1>1. /\ c.txid \in Seq(Byte) /\ Len(c.txid) = IDLen /\ c.vout \in Nat
      /\ c = [txid |-> c.txid, vout |-> c.vout, height |-> c.height, coinbase |-> c.coinbase,
              amount |-> c.amount, script |-> c.script]
  BY <1>0 DEF Coin
<1>2. id \in Seq(Byte) /\ Len(id) = IDLen /\ Reverse(id) = c.txid
  BY <1>1, ReverseTwice
<1>3. n \in Seq(Byte) /\ Len(n) = serializeSizeVLQ(c.vout) /\ Len(n) \in Nat \ {0}
  BY <1>1, NumberWritten
<1>4. v \in Seq(Byte)
  BY ValueDeserialized
<1>5. ids \in Seq(Byte) /\ DeserializeVLQ(ids) = c.vout /\ afterVLQ(ids) = v
  BY <1>1, <1>4, AfterNumber
<1>6. keyOf(c) = id \o n
  BY DEF keyOf
<1> HIDE DEF id, n, v
<1>7. s = id \o ids
  <2>1. (id \o n) \o v = id \o (n \o v)
    BY <1>2, <1>3, <1>4, ConcatAssociative
  <2> QED BY <1>6, <2>1, Zenon
<1> HIDE DEF ids
<1>8. /\ keyOf(c) \in Seq(Byte) /\ Len(keyOf(c)) = IDLen + Len(n)
      /\ \A i \in 1..IDLen : keyOf(c)[i] = id[i]
      /\ SubSeq(keyOf(c), IDLen + 1, Len(keyOf(c))) = n
  <2>1. /\ id \o n \in Seq(Byte) /\ Len(id \o n) = IDLen + Len(n)
        /\ \A i \in 1..IDLen : (id \o n)[i] = id[i]
        /\ SubSeq(id \o n, IDLen + 1, Len(id \o n)) = n
    BY <1>2, <1>3, Behind
  <2> QED BY <1>6, <2>1
<1>9. /\ s \in Seq(Byte) /\ Len(s) = IDLen + Len(ids)
      /\ \A i \in 1..IDLen : s[i] = id[i]
      /\ SubSeq(s, IDLen + 1, Len(s)) = ids
  BY <1>2, <1>5, <1>7, Behind
<1> HIDE DEF s
<1>10. readBytes(s, IDLen) = id
  <2>1. readBytes(s, IDLen) = [i \in 1..IDLen |-> IF i <= Len(s) THEN s[i] ELSE 0]
    BY DEF readBytes
  <2>2. \A i \in 1..IDLen : i <= Len(s) /\ s[i] = id[i]
    <3>1. Len(ids) \in Nat
      BY <1>5, LenProperties
    <3> QED BY <1>0, <1>9, <3>1
  <2>3. readBytes(s, IDLen) = [i \in 1..IDLen |-> id[i]]
    BY <2>1, <2>2
  <2>4. id = [i \in 1..IDLen |-> id[i]]
    BY <1>0, <1>2, LenProperties
  <2> QED BY <2>3, <2>4
<1>11. s /= <<>>
  BY <1>0, <1>5, <1>9
<1>12. unreadable(c.script) => DeserializeTxOut(s) = Error
  <2> SUFFICES ASSUME unreadable(c.script) PROVE DeserializeTxOut(s) = Error
    OBVIOUS
  <2>1. Deserialize(v) = Error /\ ~Error.ok
    BY ValueDeserialized DEF v, Error
  <2> QED BY <1>5, <1>9, <2>1, Zenon DEF DeserializeTxOut
<1>13. ~unreadable(c.script) => DeserializeTxOut(s) = [ok |-> TRUE, coin |-> c]
  <2> SUFFICES ASSUME ~unreadable(c.script) PROVE DeserializeTxOut(s) = [ok |-> TRUE, coin |-> c]
    OBVIOUS
  <2> DEFINE d == Deserialize(v)
  <2>1. /\ d.ok /\ d.height = c.height /\ d.coinbase = c.coinbase
        /\ d.amount = c.amount /\ d.script = c.script
    <3>1. d = [ok |-> TRUE, height |-> c.height, coinbase |-> c.coinbase,
               amount |-> c.amount, script |-> c.script]
      BY ValueDeserialized DEF v
    <3> HIDE DEF d
    <3> QED BY <3>1
  <2> HIDE DEF d
  <2>2. DeserializeTxOut(s) =
          [ok |-> TRUE, coin |-> [txid |-> Reverse(readBytes(s, IDLen)),
             vout |-> DeserializeVLQ(ids), height |-> d.height, coinbase |-> d.coinbase,
             amount |-> d.amount, script |-> d.script]]
    BY <1>5, <1>9, <1>11, <2>1, Zenon DEF DeserializeTxOut, d
  <2>3. DeserializeTxOut(s) =
          [ok |-> TRUE, coin |-> [txid |-> c.txid, vout |-> c.vout, height |-> c.height,
             coinbase |-> c.coinbase, amount |-> c.amount, script |-> c.script]]
    BY <1>2, <1>5, <1>10, <2>1, <2>2
  <2> QED BY <1>1, <2>3
<1> QED BY <1>3, <1>8, <1>12, <1>13 DEF s, n, id, v

\* The formats agree on every coin a chainstate may have.
LEMMA CoinFormats ==
  ASSUME NEW c \in Coin, ofItsForm(c.script)
  PROVE  LET s == putCompressedTxOut(c.amount, c.script)
             stored == TransactionOutput(c.amount, c.script)
         IN  /\ Len(s) = compressedTxOutSize(c.amount, c.script)
             /\ \A rest \in Rests :
                  /\ decodeCompressedTxOut(s \o rest)
                       = [ok |-> TRUE, amount |-> c.amount, script |-> c.script, size |-> Len(s)]
                  /\ Deserialize(valueOf(c) \o rest)
                       = IF refused(c.script, rest) THEN Error
                         ELSE [ok |-> TRUE, height |-> c.height, coinbase |-> c.coinbase,
                               amount |-> c.amount, script |-> c.script]
             /\ \A n \in 0..(Len(s) - 1) :
                  decodeCompressedTxOut(SubSeq(s, 1, n)).ok <=>
                    /\ n = serializeSizeVLQ(CompressTxOutAmount(c.amount)) + 1
                    /\ s[n] = Base + numSpecialScripts - 1
             /\ GetScriptBytes(stored) = c.script
             /\ GetAmount(stored) = c.amount
<1> DEFINE s == putCompressedTxOut(c.amount, c.script)
           stored == TransactionOutput(c.amount, c.script)
<1>1. c.amount \in Nat /\ c.script \in Script
  BY DEF Coin
<1>2. Len(s) = compressedTxOutSize(c.amount, c.script)
  BY <1>1, EmptySeq, TxOutRoundTrip
<1>3. Rests \subseteq Seq(Byte)
  BY BaseType DEF Byte, Rests
<1>4. \A rest \in Rests :
        decodeCompressedTxOut(s \o rest)
          = [ok |-> TRUE, amount |-> c.amount, script |-> c.script, size |-> Len(s)]
  BY <1>1, <1>3, TxOutRoundTrip
<1>5. \A n \in 0..(Len(s) - 1) :
        decodeCompressedTxOut(SubSeq(s, 1, n)).ok <=>
          /\ n = serializeSizeVLQ(CompressTxOutAmount(c.amount)) + 1
          /\ s[n] = Base + numSpecialScripts - 1
  BY <1>1, CutTxOut
<1>6. GetScriptBytes(stored) = c.script
  <2>1. stored.CompressedScript = PutCompressedScript(c.script)
    BY DEF TransactionOutput
  <2> QED BY <1>1, <2>1, ScriptRoundTrip DEF GetScriptBytes
<1>7. GetAmount(stored) = c.amount
  BY <1>1, StoredAmountIsRead DEF TransactionOutput
<1> HIDE DEF stored, s
<1>8. \A rest \in Rests :
        Deserialize(valueOf(c) \o rest)
          = IF refused(c.script, rest) THEN Error
            ELSE [ok |-> TRUE, height |-> c.height, coinbase |-> c.coinbase,
                  amount |-> c.amount, script |-> c.script]
  BY <1>3, ValueInStream
<1> QED BY <1>2, <1>4, <1>5, <1>6, <1>7, <1>8 DEF s, stored

-----------------------------------------------------------------------------
(* The order of the keys. *)

\* Where a key comes before another.
Before(a, b, i) ==
  /\ i \in 1..Len(b)
  /\ \A j \in 1..(i - 1) : j <= Len(a) /\ a[j] = b[j]
  /\ i <= Len(a) => a[i] < b[i]

\* Bytes are numbers.
LEMMA ByteValues ==
  ASSUME NEW a \in Seq(Byte)
  PROVE  Len(a) \in Nat /\ \A i \in 1..Len(a) : a[i] \in Nat
<1>1. Len(a) \in Nat /\ \A i \in 1..Len(a) : a[i] \in Byte
  BY LenProperties, ElementOfSeq
<1>2. Byte \subseteq Nat
  BY BaseType DEF Byte
<1> QED BY <1>1, <1>2

\* Two keys begin alike when their first bytes are the same.
LEMMA Beginnings ==
  ASSUME NEW a \in Seq(Byte), NEW b \in Seq(Byte), NEW k \in Nat, k <= Len(a), k <= Len(b)
  PROVE  SubSeq(a, 1, k) = SubSeq(b, 1, k) <=> \A j \in 1..k : a[j] = b[j]
<1>1. (\A i \in 1..k : a[i] \in Byte) /\ (\A i \in 1..k : b[i] \in Byte)
  BY LenProperties
<1>2. /\ SubSeq(a, 1, k) \in Seq(Byte) /\ Len(SubSeq(a, 1, k)) = k
      /\ \A i \in 1..k : SubSeq(a, 1, k)[i] = a[i]
  BY <1>1, SubSeqProperties
<1>3. /\ SubSeq(b, 1, k) \in Seq(Byte) /\ Len(SubSeq(b, 1, k)) = k
      /\ \A i \in 1..k : SubSeq(b, 1, k)[i] = b[i]
  BY <1>1, SubSeqProperties
<1>4. (\A j \in 1..k : a[j] = b[j]) => SubSeq(a, 1, k) = SubSeq(b, 1, k)
  BY <1>2, <1>3, SeqEqual
<1> QED BY <1>2, <1>3, <1>4

\* A key is less than another when it comes before it somewhere.
LEMMA KeyLess ==
  ASSUME NEW a \in Seq(Byte), NEW b \in Seq(Byte)
  PROVE  keyLess(a, b) <=> \E i \in 1..Len(b) : Before(a, b, i)
<1> DEFINE m == Min({Len(a), Len(b)})
<1>0. Len(a) \in Nat /\ Len(b) \in Nat
  BY LenProperties
<1>1. m = IF Len(a) <= Len(b) THEN Len(a) ELSE Len(b)
  BY <1>0 DEF Min
<1> HIDE DEF m
<1>2. \A i \in 1..m : SubSeq(a, 1, i - 1) = SubSeq(b, 1, i - 1)
                        <=> \A j \in 1..(i - 1) : a[j] = b[j]
  BY <1>0, <1>1, Beginnings
<1>3. keyLess(a, b) <=> \/ IsStrictPrefix(a, b)
                        \/ \E i \in 1..m : a[i] < b[i] /\ SubSeq(a, 1, i - 1) = SubSeq(b, 1, i - 1)
  BY Zenon DEF keyLess, m
<1>4. IsStrictPrefix(a, b) <=> Len(a) <= Len(b) /\ a /= b /\ \A j \in 1..Len(a) : a[j] = b[j]
  BY <1>0, Beginnings DEF IsStrictPrefix, IsPrefix
<1>5. ASSUME IsStrictPrefix(a, b) PROVE \E i \in 1..Len(b) : Before(a, b, i)
  <2>1. Len(a) /= Len(b)
    BY <1>4, <1>5, SeqEqual
  <2>2. Len(a) + 1 \in 1..Len(b)
    BY <1>0, <1>4, <1>5, <2>1
  <2>3. Before(a, b, Len(a) + 1)
    BY <1>0, <1>4, <1>5, <2>2 DEF Before
  <2> QED BY <2>2, <2>3
<1>6. ASSUME NEW i \in 1..m, a[i] < b[i], SubSeq(a, 1, i - 1) = SubSeq(b, 1, i - 1)
      PROVE  \E j \in 1..Len(b) : Before(a, b, j)
  <2>1. i \in 1..Len(b) /\ i <= Len(a) /\ \A j \in 1..(i - 1) : j <= Len(a)
    BY <1>0, <1>1
  <2> QED BY <1>2, <1>6, <2>1 DEF Before
<1>7. ASSUME NEW i \in 1..Len(b), Before(a, b, i) PROVE keyLess(a, b)
  <2>1. /\ \A j \in 1..(i - 1) : j <= Len(a) /\ a[j] = b[j]
        /\ i <= Len(a) => a[i] < b[i]
    BY <1>7 DEF Before
  <2>2. CASE i <= Len(a)
    <3>1. i \in 1..m
      BY <1>0, <1>1, <2>2
    <3> QED BY <1>2, <1>3, <2>1, <2>2, <3>1
  <2>3. CASE i > Len(a)
    <3>1. Len(a) < Len(b) /\ \A j \in 1..Len(a) : j \in 1..(i - 1)
      BY <1>0, <2>3
    <3> QED BY <1>3, <1>4, <2>1, <3>1
  <2> QED BY <1>0, <2>2, <2>3
<1> QED BY <1>3, <1>5, <1>6, <1>7

\* The order of the keys is strict and total.
LEMMA KeysAreOrdered ==
  /\ \A a \in Seq(Byte) : ~keyLess(a, a)
  /\ \A a, b, c \in Seq(Byte) : keyLess(a, b) /\ keyLess(b, c) => keyLess(a, c)
  /\ \A a, b \in Seq(Byte) : a = b \/ keyLess(a, b) \/ keyLess(b, a)
<1>0. \A a \in Seq(Byte) : Len(a) \in Nat /\ \A i \in 1..Len(a) : a[i] \in Nat
  BY ByteValues
<1>1. ASSUME NEW a \in Seq(Byte), keyLess(a, a) PROVE FALSE
  <2>1. PICK i \in 1..Len(a) : Before(a, a, i)
    BY <1>1, KeyLess
  <2>2. a[i] < a[i] /\ a[i] \in Nat
    BY <1>0, <2>1 DEF Before
  <2> QED BY <2>2
<1>2. ASSUME NEW a \in Seq(Byte), NEW b \in Seq(Byte), NEW c \in Seq(Byte),
             keyLess(a, b), keyLess(b, c)
      PROVE  keyLess(a, c)
  <2>1. PICK i \in 1..Len(b) : Before(a, b, i)
    BY <1>2, KeyLess
  <2>2. PICK j \in 1..Len(c) : Before(b, c, j)
    BY <1>2, KeyLess
  <2>3. CASE i < j
    <3>1. Before(a, c, i)
      BY <1>0, <2>1, <2>2, <2>3 DEF Before
    <3> QED BY <3>1, KeyLess DEF Before
  <2>4. CASE i = j
    <3>1. Before(a, c, i)
      BY <1>0, <2>1, <2>2, <2>4 DEF Before
    <3> QED BY <3>1, KeyLess DEF Before
  <2>5. CASE i > j
    <3>1. Before(a, c, j)
      BY <1>0, <2>1, <2>2, <2>5 DEF Before
    <3> QED BY <3>1, KeyLess DEF Before
  <2> QED BY <1>0, <2>3, <2>4, <2>5
<1>3. ASSUME NEW a \in Seq(Byte), NEW b \in Seq(Byte), a /= b
      PROVE  keyLess(a, b) \/ keyLess(b, a)
  <2> DEFINE T == {i \in 1..(Len(a) + 1) : i \in 1..Len(a) /\ i \in 1..Len(b) => a[i] /= b[i]}
  <2>1. T \subseteq Nat /\ Len(a) + 1 \in T
    BY <1>0
  <2>2. PICK i \in T : \A k \in T : i <= k
    BY <2>1, Least
  <2>3. \A k \in 1..(i - 1) : k <= Len(a) /\ k <= Len(b) /\ a[k] = b[k]
    BY <1>0, <2>2
  <2>4. i \in 1..(Len(a) + 1) /\ (i \in 1..Len(a) /\ i \in 1..Len(b) => a[i] /= b[i])
    OBVIOUS
  <2> HIDE DEF T
  <2>5. CASE i <= Len(a) /\ i <= Len(b)
    <3>1. i \in 1..Len(a) /\ i \in 1..Len(b) /\ a[i] \in Nat /\ b[i] \in Nat /\ a[i] /= b[i]
      BY <1>0, <2>4, <2>5
    <3>2. a[i] < b[i] \/ b[i] < a[i]
      BY <3>1
    <3>3. Before(a, b, i) \/ Before(b, a, i)
      BY <2>3, <3>1, <3>2 DEF Before
    <3> QED BY <3>3, KeyLess DEF Before
  <2>6. CASE i <= Len(a) /\ i > Len(b)
    <3>1. Before(b, a, i)
      BY <1>0, <2>3, <2>4, <2>6 DEF Before
    <3> QED BY <3>1, KeyLess DEF Before
  <2>7. CASE i > Len(a) /\ i <= Len(b)
    <3>1. Before(a, b, i)
      BY <1>0, <2>3, <2>4, <2>7 DEF Before
    <3> QED BY <3>1, KeyLess DEF Before
  <2>8. CASE i > Len(a) /\ i > Len(b)
    <3>1. i = Len(a) + 1
      BY <1>0, <2>4, <2>8
    <3>2. Len(a) <= Len(b)
      BY <1>0, <2>3, <3>1
    <3>3. Len(b) <= Len(a)
      BY <1>0, <2>8, <3>1
    <3>4. Len(a) = Len(b) /\ \A k \in 1..Len(a) : a[k] = b[k]
      BY <1>0, <2>3, <3>1, <3>2, <3>3
    <3> QED BY <1>3, <3>4, SeqEqual
  <2> QED BY <1>0, <2>4, <2>5, <2>6, <2>7, <2>8
<1> QED BY <1>1, <1>2, <1>3

\* What lies between a beginning and something that has it, has it.
LEMMA Between ==
  ASSUME NEW p \in Seq(Byte), NEW b \in Seq(Byte), NEW d \in Seq(Byte),
         BeginsWith(d, p), ~keyLess(b, p), keyLess(b, d)
  PROVE  BeginsWith(b, p)
<1>0. \A a \in Seq(Byte) : Len(a) \in Nat /\ \A i \in 1..Len(a) : a[i] \in Nat
  BY ByteValues
<1>1. CASE b = p
  BY <1>0, <1>1 DEF BeginsWith
<1>2. CASE b /= p
  <2>1. keyLess(p, b)
    BY <1>2, KeysAreOrdered
  <2>2. PICK i \in 1..Len(b) : Before(p, b, i)
    BY <2>1, KeyLess
  <2>3. PICK j \in 1..Len(d) : Before(b, d, j)
    BY KeyLess
  <2>4. CASE i > Len(p)
    BY <1>0, <2>2, <2>4 DEF Before, BeginsWith
  <2>5. CASE i <= Len(p)
    <3>1. /\ i \in 1..Len(p) /\ p[i] < b[i] /\ d[i] = p[i] /\ Len(p) <= Len(d)
          /\ \A k \in 1..(i - 1) : k \in 1..Len(p) /\ k \in 1..Len(b) /\ p[k] = b[k] /\ d[k] = p[k]
          /\ p[i] \in Nat /\ b[i] \in Nat
      BY <1>0, <2>2, <2>5 DEF Before, BeginsWith
    <3>2. CASE j > i
      <4>1. i \in 1..(j - 1)
        BY <2>3, <3>2
      <4>2. b[i] = d[i]
        BY <2>3, <4>1 DEF Before
      <4> QED BY <3>1, <4>2
    <3>3. CASE j = i
      <4>1. b[i] < d[i]
        BY <1>0, <2>3, <3>3 DEF Before
      <4> QED BY <3>1, <4>1
    <3>4. CASE j < i
      <4>1. j \in 1..(i - 1)
        BY <2>3, <3>4
      <4>2. j <= Len(b) /\ b[j] = d[j] /\ b[j] \in Nat
        BY <1>0, <3>1, <4>1
      <4>3. b[j] < d[j]
        BY <2>3, <4>2 DEF Before
      <4> QED BY <4>2, <4>3
    <3> QED BY <2>2, <2>3, <3>2, <3>3, <3>4
  <2> QED BY <1>0, <2>2, <2>4, <2>5
<1> QED BY <1>1, <1>2

\* A beginning comes first.
LEMMA BeginningFirst ==
  ASSUME NEW p \in Seq(Byte), NEW a \in Seq(Byte), BeginsWith(a, p)
  PROVE  ~keyLess(a, p)
<1>0. Len(p) \in Nat /\ Len(a) \in Nat /\ (\A i \in 1..Len(p) : p[i] \in Nat)
  BY ByteValues
<1> SUFFICES ASSUME keyLess(a, p) PROVE FALSE
  OBVIOUS
<1>1. PICK i \in 1..Len(p) : Before(a, p, i)
  BY KeyLess
<1>2. a[i] = p[i] /\ i <= Len(a) /\ p[i] \in Nat
  BY <1>0 DEF BeginsWith
<1>3. a[i] < p[i]
  BY <1>1, <1>2 DEF Before
<1> QED BY <1>2, <1>3

\* A first byte in common does not matter.
LEMMA SameFirstByte ==
  ASSUME NEW a \in Seq(Byte), NEW b \in Seq(Byte), NEW k \in Byte,
         keyLess(<<k>> \o a, <<k>> \o b)
  PROVE  keyLess(a, b)
<1> DEFINE ka == <<k>> \o a
           kb == <<k>> \o b
<1>1. \A s \in Seq(Byte) : /\ <<k>> \o s \in Seq(Byte) /\ Len(<<k>> \o s) = Len(s) + 1
                           /\ (<<k>> \o s)[1] = k
                           /\ \A i \in 1..Len(s) : (<<k>> \o s)[i + 1] = s[i]
  OBVIOUS
<1>2. /\ ka \in Seq(Byte) /\ Len(ka) = Len(a) + 1 /\ ka[1] = k
      /\ \A i \in 1..Len(a) : ka[i + 1] = a[i]
  BY <1>1
<1>3. /\ kb \in Seq(Byte) /\ Len(kb) = Len(b) + 1 /\ kb[1] = k
      /\ \A i \in 1..Len(b) : kb[i + 1] = b[i]
  BY <1>1
<1>4. Len(a) \in Nat /\ Len(b) \in Nat /\ k \in Nat
  BY ByteValues, BaseType DEF Byte
<1>5. keyLess(ka, kb)
  OBVIOUS
<1> HIDE DEF ka, kb
<1>6. PICK i \in 1..Len(kb) : Before(ka, kb, i)
  BY <1>2, <1>3, <1>5, KeyLess
<1>7. /\ \A j \in 1..(i - 1) : j <= Len(ka) /\ ka[j] = kb[j]
      /\ i <= Len(ka) => ka[i] < kb[i]
  BY <1>6 DEF Before
<1>8. i /= 1
  BY <1>2, <1>3, <1>4, <1>7
<1>9. i - 1 \in 1..Len(b) /\ i = (i - 1) + 1
  BY <1>3, <1>4, <1>8
<1>10. ASSUME NEW j \in 1..((i - 1) - 1) PROVE j <= Len(a) /\ a[j] = b[j]
  <2>1. j + 1 \in 1..(i - 1)
    BY <1>9
  <2>2. j + 1 <= Len(ka) /\ ka[j + 1] = kb[j + 1]
    BY <1>7, <2>1
  <2>3. j \in 1..Len(a) /\ j \in 1..Len(b)
    BY <1>2, <1>4, <1>9, <2>2
  <2> QED BY <1>2, <1>3, <2>2, <2>3
<1>11. i - 1 <= Len(a) => a[i - 1] < b[i - 1]
  <2> SUFFICES ASSUME i - 1 <= Len(a) PROVE a[i - 1] < b[i - 1]
    OBVIOUS
  <2>1. i <= Len(ka) /\ i - 1 \in 1..Len(a)
    BY <1>2, <1>4, <1>9
  <2>2. ka[(i - 1) + 1] = a[i - 1] /\ kb[(i - 1) + 1] = b[i - 1]
    BY <1>2, <1>3, <1>9, <2>1
  <2> QED BY <1>7, <1>9, <2>1, <2>2
<1>12. Before(a, b, i - 1)
  BY <1>9, <1>10, <1>11 DEF Before
<1> QED BY <1>9, <1>12, KeyLess

\* Records with keys of their own, in the order of these.
LEMMA InKeyOrder ==
  ASSUME NEW S, IsFiniteSet(S), \A r \in S : r.key \in Seq(Byte),
         \A r, q \in S : r.key = q.key => r = q
  PROVE  LET s == inKeyOrder(S)
         IN  /\ s \in Seq(S)
             /\ \A r \in S : \E i \in 1..Len(s) : s[i] = r
             /\ \A i, j \in 1..Len(s) : i < j => keyLess(s[i].key, s[j].key)
<1> DEFINE n == Cardinality(S)
           below(r) == {q \in S : keyLess(q.key, r.key)}
           f == [r \in S |-> Cardinality(below(r)) + 1]
           s == inKeyOrder(S)
<1>0. n \in Nat
  BY FS_CardinalityType
<1>1. \A r \in S : ~keyLess(r.key, r.key)
  BY KeysAreOrdered
<1>2. ASSUME NEW r \in S
      PROVE  IsFiniteSet(below(r)) /\ Cardinality(below(r)) \in 0..(n - 1)
  <2>1. below(r) \subseteq S \ {r}
    BY <1>1
  <2>2. IsFiniteSet(S \ {r}) /\ Cardinality(S \ {r}) = n - 1
    BY FS_RemoveElement
  <2>3. IsFiniteSet(below(r)) /\ Cardinality(below(r)) <= n - 1
    BY <2>1, <2>2, FS_Subset
  <2>4. Cardinality(below(r)) \in Nat
    BY <2>3, FS_CardinalityType
  <2> QED BY <1>0, <2>3, <2>4
<1>3. ASSUME NEW r \in S, NEW q \in S, keyLess(q.key, r.key)
      PROVE  Cardinality(below(q)) < Cardinality(below(r))
  <2>1. below(q) \subseteq below(r)
    BY <1>3, KeysAreOrdered
  <2>2. q \in below(r) /\ q \notin below(q)
    BY <1>1, <1>3
  <2>3. Cardinality(below(q)) <= Cardinality(below(r))
        /\ (Cardinality(below(q)) = Cardinality(below(r)) => below(q) = below(r))
    BY <1>2, <2>1, FS_Subset
  <2> HIDE DEF below
  <2> QED BY <1>2, <2>2, <2>3
<1>4. \A r, q \in S : r /= q => keyLess(r.key, q.key) \/ keyLess(q.key, r.key)
  BY KeysAreOrdered
<1> HIDE DEF below
<1>5. f \in [S -> 1..n] /\ \A r \in S : f[r] = Cardinality(below(r)) + 1
  BY <1>0, <1>2
<1>6. \A r, q \in S : f[r] = f[q] => r = q
  <2> SUFFICES ASSUME NEW r \in S, NEW q \in S, f[r] = f[q], r /= q PROVE FALSE
    OBVIOUS
  <2>1. Cardinality(below(r)) = Cardinality(below(q))
    BY <1>2, <1>5
  <2> QED BY <1>2, <1>3, <1>4, <2>1
<1> HIDE DEF f
<1>7. f \in Injection(S, 1..n)
  BY <1>5, <1>6 DEF Injection, IsInjective
<1>8. IsFiniteSet(1..n) /\ Cardinality(1..n) = n
  BY <1>0, FS_Interval
<1>9. f \in Surjection(S, 1..n)
  BY <1>7, <1>8, FS_Injection
<1>10. \A i \in 1..n : \E r \in S : f[r] = i
  BY <1>9 DEF Surjection
<1>11. s = [i \in 1..n |-> CHOOSE r \in S : Cardinality(below(r)) = i - 1]
  BY DEF inKeyOrder, below
<1> HIDE DEF s, n
<1>12. ASSUME NEW i \in 1..n
       PROVE  s[i] \in S /\ Cardinality(below(s[i])) = i - 1
  <2>1. \E r \in S : Cardinality(below(r)) = i - 1
    BY <1>2, <1>5, <1>10
  <2>2. s[i] = CHOOSE r \in S : Cardinality(below(r)) = i - 1
    BY <1>11
  <2> QED BY <2>1, <2>2
<1>13. s \in Seq(S) /\ Len(s) = n
  <2>1. s \in [1..n -> S]
    BY <1>11, <1>12
  <2> QED BY <1>0, <2>1 DEF n
<1>14. ASSUME NEW r \in S PROVE \E i \in 1..n : s[i] = r
  <2>1. f[r] \in 1..n
    BY <1>5
  <2>2. Cardinality(below(s[f[r]])) = Cardinality(below(r)) /\ s[f[r]] \in S
    BY <1>2, <1>5, <1>12, <2>1
  <2>3. f[s[f[r]]] = f[r]
    BY <1>5, <2>2
  <2> QED BY <1>6, <2>1, <2>2, <2>3
<1>15. ASSUME NEW i \in 1..n, NEW j \in 1..n, i < j PROVE keyLess(s[i].key, s[j].key)
  <2>1. /\ s[i] \in S /\ Cardinality(below(s[i])) = i - 1
        /\ s[j] \in S /\ Cardinality(below(s[j])) = j - 1
    BY <1>12
  <2>2. s[i] /= s[j]
    BY <1>15, <2>1
  <2>3. ~keyLess(s[j].key, s[i].key)
    <3> SUFFICES ASSUME keyLess(s[j].key, s[i].key) PROVE FALSE
      OBVIOUS
    <3>1. Cardinality(below(s[j])) < Cardinality(below(s[i]))
      BY <1>3, <2>1
    <3> QED BY <1>0, <1>15, <2>1, <3>1 DEF n
  <2> QED BY <1>4, <2>1, <2>2, <2>3
<1> QED BY <1>13, <1>14, <1>15 DEF s

-----------------------------------------------------------------------------
(* The records. *)

\* A value obfuscated twice is what it was.
LEMMA Deobfuscated ==
  ASSUME NEW k \in Seq(Byte), k /= <<>>, NEW v \in Seq(Byte)
  PROVE  /\ deobfuscateValue(k, v) \in Seq(Byte)
         /\ deobfuscateValue(k, deobfuscateValue(k, v)) = v
<1> DEFINE b(i) == k[((i - 1) % Len(k)) + 1]
           d == deobfuscateValue(k, v)
<1>1. Len(v) \in Nat /\ DOMAIN v = 1..Len(v) /\ v = [i \in 1..Len(v) |-> v[i]]
  BY LenProperties
<1>2. Len(k) \in Nat \ {0}
  BY EmptySeq
<1>3. \A i \in 1..Len(v) : b(i) \in Byte /\ v[i] \in Byte
  <2> TAKE i \in 1..Len(v)
  <2>1. (i - 1) % Len(k) \in 0..(Len(k) - 1)
    BY <1>2
  <2>2. ((i - 1) % Len(k)) + 1 \in 1..Len(k)
    BY <1>2, <2>1
  <2> QED BY <2>2, ElementOfSeq
<1>4. \A i \in 1..Len(v) : xor(v[i], b(i)) \in Byte /\ xor(xor(v[i], b(i)), b(i)) = v[i]
  BY <1>3, XorCancels
<1>5. \A u : deobfuscateValue(k, u) = [i \in DOMAIN u |-> xor(u[i], b(i))]
  BY DEF deobfuscateValue
<1> HIDE DEF b, d
<1>6. d = [i \in 1..Len(v) |-> xor(v[i], b(i))]
  BY <1>1, <1>5 DEF d
<1>7. d \in [1..Len(v) -> Byte] /\ DOMAIN d = 1..Len(v)
  BY <1>4, <1>6
<1>8. d \in Seq(Byte)
  BY <1>1, <1>7
<1>9. deobfuscateValue(k, d) = [i \in 1..Len(v) |-> xor(d[i], b(i))]
  BY <1>5, <1>7
<1>10. \A i \in 1..Len(v) : xor(d[i], b(i)) = v[i]
  BY <1>4, <1>6
<1>11. deobfuscateValue(k, d) = [i \in 1..Len(v) |-> v[i]]
  BY <1>9, <1>10
<1> QED BY <1>1, <1>8, <1>11 DEF d

\* The key the values are obfuscated with is not empty.
LEMMA WrittenType ==
  ASSUME obf \in Obfuscation
  PROVE  written \in Seq(Byte) /\ written /= <<>>
<1>1. CASE obf = NoKey
  BY <1>1, BaseType DEF written, Byte
<1>2. CASE obf /= NoKey
  <2>1. obf \in Seq(Byte) /\ Len(obf) > 1
    BY <1>2, ChainstateConstants
  <2>2. obf /= <<>> /\ Len(obf) - 1 > 0
    BY <2>1
  <2>3. Tail(obf) \in Seq(Byte) /\ Len(Tail(obf)) = Len(obf) - 1
    BY <2>1, <2>2, HeadTailProperties
  <2>4. Tail(obf) /= <<>>
    <3> DEFINE t == Tail(obf)
    <3>1. Len(t) > 0
      BY <2>2, <2>3
    <3> HIDE DEF t
    <3>2. t /= <<>>
      BY <3>1
    <3> QED BY <3>2 DEF t
  <2> QED BY <1>2, <2>3, <2>4 DEF written
<1> QED BY <1>1, <1>2

\* What a chainstate is made of.
LEMMA ChainstateCoins ==
  ASSUME coins \in Chainstates
  PROVE  /\ IsFiniteSet(coins)
         /\ \A c \in coins : /\ c \in Coin /\ ofItsForm(c.script)
                             /\ c.txid \in Seq(Byte) /\ Len(c.txid) = IDLen /\ c.vout \in Nat
         /\ \A c, d \in coins : c.txid = d.txid /\ c.vout = d.vout => c = d
<1>1. /\ IsFiniteSet(coins) /\ coins \subseteq Coin
      /\ \A c \in coins : ofItsForm(c.script)
      /\ \A c, d \in coins : c.txid = d.txid /\ c.vout = d.vout => c = d
  BY ChainstateConstants
<1>2. \A c \in Coin : c.txid \in Seq(Byte) /\ Len(c.txid) = IDLen /\ c.vout \in Nat
  BY FormatConstants DEF Coin
<1> QED BY <1>1, <1>2

\* The key of the record of a coin.
LEMMA CoinKey ==
  ASSUME NEW c \in Coin, ofItsForm(c.script)
  PROVE  /\ KeyC \in Byte /\ KeyB \in Byte
         /\ coinRecord(c).key = <<KeyC>> \o keyOf(c)
         /\ coinRecord(c).key \in Seq(Byte)
         /\ isOutpoint(coinRecord(c).key)
         /\ Tail(coinRecord(c).key) = keyOf(c)
         /\ coinRecord(c).key = buildTxIDKey(c.txid) \o PutVLQ(c.vout)
         /\ buildTxIDKey(c.txid) \in Seq(Byte) /\ Len(buildTxIDKey(c.txid)) = IDLen + 1
         /\ BeginsWith(coinRecord(c).key, buildTxIDKey(c.txid))
<1>1. KeyC \in Byte /\ KeyB \in Byte
  BY BaseType DEF KeyC, KeyB, Byte
<1>2. coinRecord(c).key = <<KeyC>> \o keyOf(c)
  BY DEF coinRecord
<1>3. IDLen \in Nat \ {0}
  BY FormatConstants
<1>4. c.txid \in Seq(Byte) /\ Len(c.txid) = IDLen /\ c.vout \in Nat
  BY <1>3 DEF Coin
<1>5. Reverse(c.txid) \in Seq(Byte) /\ Len(Reverse(c.txid)) = IDLen
  BY <1>4, ReverseTwice
<1>6. PutVLQ(c.vout) \in Seq(Byte) /\ Len(PutVLQ(c.vout)) \in Nat \ {0}
  BY <1>4, NumberWritten
<1>7. keyOf(c) \in Seq(Byte) /\ Len(keyOf(c)) = IDLen + Len(PutVLQ(c.vout))
  BY <1>4, CoinDeserialized, NumberWritten
<1>8. <<KeyC>> \in Seq(Byte) /\ Len(<<KeyC>>) = 1
  BY <1>1
<1>9. /\ coinRecord(c).key \in Seq(Byte)
      /\ Len(coinRecord(c).key) = 1 + Len(keyOf(c))
      /\ coinRecord(c).key[1] = KeyC
      /\ Tail(coinRecord(c).key) = keyOf(c)
  BY <1>1, <1>2, <1>7
<1>10. isOutpoint(coinRecord(c).key)
  BY <1>3, <1>6, <1>7, <1>9 DEF isOutpoint
<1>11. buildTxIDKey(c.txid) = <<KeyC>> \o Reverse(c.txid)
  BY DEF buildTxIDKey
<1>12. buildTxIDKey(c.txid) \in Seq(Byte) /\ Len(buildTxIDKey(c.txid)) = IDLen + 1
  BY <1>1, <1>3, <1>5, <1>11
<1>13. coinRecord(c).key = buildTxIDKey(c.txid) \o PutVLQ(c.vout)
  BY <1>2, <1>5, <1>6, <1>8, <1>11, ConcatAssociative DEF keyOf
<1>14. BeginsWith(coinRecord(c).key, buildTxIDKey(c.txid))
  BY <1>6, <1>12, <1>13, Behind DEF BeginsWith
<1> QED BY <1>1, <1>2, <1>9, <1>10, <1>12, <1>13, <1>14

\* Whose key begins with the key of a transaction is a coin of that transaction.
LEMMA KeyOfTransaction ==
  ASSUME NEW c \in Coin, ofItsForm(c.script), NEW id \in [1..IDLen -> Byte],
         BeginsWith(coinRecord(c).key, buildTxIDKey(id))
  PROVE  c.txid = id
<1>0. IDLen \in Nat \ {0}
  BY FormatConstants
<1>1. /\ c.txid \in Seq(Byte) /\ Len(c.txid) = IDLen /\ id \in Seq(Byte) /\ Len(id) = IDLen
  BY <1>0 DEF Coin
<1>2. KeyC \in Byte
  BY CoinKey
<1>3. \A t \in Seq(Byte) : Len(t) = IDLen =>
        /\ buildTxIDKey(t) \in Seq(Byte) /\ Len(buildTxIDKey(t)) = IDLen + 1
        /\ \A i \in 1..IDLen : buildTxIDKey(t)[i + 1] = Reverse(t)[i]
        /\ Reverse(t) \in Seq(Byte) /\ Len(Reverse(t)) = IDLen /\ Reverse(Reverse(t)) = t
  <2> TAKE t \in Seq(Byte)
  <2> HAVE Len(t) = IDLen
  <2>1. Reverse(t) \in Seq(Byte) /\ Len(Reverse(t)) = IDLen /\ Reverse(Reverse(t)) = t
    BY ReverseTwice
  <2> QED BY <1>0, <1>2, <2>1 DEF buildTxIDKey
<1>4. BeginsWith(coinRecord(c).key, buildTxIDKey(c.txid))
  BY CoinKey
<1>5. \A i \in 1..(IDLen + 1) : buildTxIDKey(c.txid)[i] = buildTxIDKey(id)[i]
  BY <1>1, <1>3, <1>4 DEF BeginsWith
<1>6. \A i \in 1..IDLen : Reverse(c.txid)[i] = Reverse(id)[i]
  <2> TAKE i \in 1..IDLen
  <2>1. i + 1 \in 1..(IDLen + 1)
    BY <1>0
  <2> QED BY <1>1, <1>3, <1>5, <2>1
<1>7. Reverse(c.txid) = Reverse(id)
  BY <1>1, <1>3, <1>6, SeqEqual
<1> QED BY <1>1, <1>3, <1>7

\* The keys of two coins with one outpoint only.
LEMMA KeysOfCoins ==
  ASSUME NEW c \in Coin, ofItsForm(c.script), NEW d \in Coin, ofItsForm(d.script),
         coinRecord(c).key = coinRecord(d).key
  PROVE  c.txid = d.txid /\ c.vout = d.vout
<1>0. IDLen \in Nat \ {0} /\ d.txid \in [1..IDLen -> Byte] /\ c.vout \in Nat /\ d.vout \in Nat
  BY FormatConstants DEF Coin
<1>1. c.txid = d.txid
  <2>1. BeginsWith(coinRecord(c).key, buildTxIDKey(d.txid))
    BY CoinKey
  <2> QED BY <1>0, <2>1, KeyOfTransaction
<1>2. keyOf(c) = keyOf(d)
  BY CoinKey
<1>3. PutVLQ(c.vout) = PutVLQ(d.vout)
  BY <1>2, CoinDeserialized
<1>4. \A n \in Nat : DeserializeVLQ(PutVLQ(n)) = n
  <2> TAKE n \in Nat
  <2>1. PutVLQ(n) \in Seq(Byte) /\ Len(PutVLQ(n)) \in Nat
    BY NumberWritten
  <2>2. BeginsWith(PutVLQ(n), PutVLQ(n))
    BY <2>1 DEF BeginsWith
  <2> QED BY <2>1, <2>2, NumberReadBack
<1> QED BY <1>0, <1>1, <1>3, <1>4

\* The records of a chainstate.
LEMMA RecordsOfCoins ==
  ASSUME coins \in Chainstates, obf \in Obfuscation
  PROVE  /\ IsFiniteSet(records)
         /\ \A r \in records : r.key \in Seq(Byte)
         /\ \A r, q \in records : r.key = q.key => r = q
         /\ \A c \in coins : coinRecord(c) \in records
         /\ \A r \in records : isOutpoint(r.key) => \E c \in coins : r = coinRecord(c)
         /\ \A r \in records : r.key = <<KeyB>> =>
              r.value = deobfuscateValue(written, Reverse(BestBlock))
<1> DEFINE P == {coinRecord(c) : c \in coins}
           Q == {[key |-> k, value |-> <<0>>] : k \in OtherKeys}
           b == [key |-> <<KeyB>>, value |-> deobfuscateValue(written, Reverse(BestBlock))]
<1>1. records = P \union Q \union {b}
  BY Zenon DEF records
<1>2. /\ IsFiniteSet(OtherKeys) /\ OtherKeys \subseteq Seq(Byte)
      /\ \A k \in OtherKeys : ~isOutpoint(k) /\ k /= <<KeyB>>
  BY ChainstateConstants
<1>3. IsFiniteSet(P)
  <2> DEFINE f == [c \in coins |-> coinRecord(c)]
  <2>1. f \in Surjection(coins, P)
    <3> HIDE DEF coinRecord
    <3> QED BY DEF Surjection
  <2> QED BY <2>1, ChainstateCoins, FS_Surjection
<1>4. IsFiniteSet(Q)
  <2> DEFINE f == [k \in OtherKeys |-> [key |-> k, value |-> <<0>>]]
  <2>1. f \in Surjection(OtherKeys, Q)
    BY DEF Surjection
  <2> QED BY <1>2, <2>1, FS_Surjection
<1>5. IsFiniteSet(records)
  BY <1>1, <1>3, <1>4, FS_Union, FS_Singleton
<1>6. \A r \in P : \E c \in coins : r = coinRecord(c) /\ c \in Coin /\ ofItsForm(c.script)
  BY ChainstateCoins
<1>7. \A r \in P : r.key \in Seq(Byte) /\ isOutpoint(r.key)
  BY <1>6, CoinKey
<1>8. \A r \in Q : r.key \in OtherKeys /\ r = [key |-> r.key, value |-> <<0>>]
  OBVIOUS
<1>9. b.key = <<KeyB>> /\ b.key \in Seq(Byte) /\ ~isOutpoint(b.key)
  <2>1. KeyB \in Byte /\ IDLen \in Nat
    BY BaseType, FormatConstants DEF KeyB, Byte
  <2>2. Len(<<KeyB>>) = 1 /\ <<KeyB>> \in Seq(Byte)
    BY <2>1
  <2>3. ~isOutpoint(<<KeyB>>)
    BY <2>1, <2>2 DEF isOutpoint
  <2> QED BY <2>2, <2>3
<1>10. b.value = deobfuscateValue(written, Reverse(BestBlock))
  OBVIOUS
<1> HIDE DEF b, Q, P
<1>11. \A r, q \in P : r.key = q.key => r = q
  <2> SUFFICES ASSUME NEW r \in P, NEW q \in P, r.key = q.key PROVE r = q
    OBVIOUS
  <2>1. PICK c \in coins : r = coinRecord(c) /\ c \in Coin /\ ofItsForm(c.script)
    BY <1>6
  <2>2. PICK d \in coins : q = coinRecord(d) /\ d \in Coin /\ ofItsForm(d.script)
    BY <1>6
  <2>3. c.txid = d.txid /\ c.vout = d.vout
    BY <2>1, <2>2, KeysOfCoins
  <2> QED BY <2>1, <2>2, <2>3, ChainstateCoins
<1>12. \A r, q \in Q : r.key = q.key => r = q
  BY <1>8, Zenon
<1>13. \A r, q \in records : r.key = q.key => r = q
  BY <1>1, <1>2, <1>7, <1>8, <1>9, <1>11, <1>12
<1>14. \A c \in coins : coinRecord(c) \in records
  BY <1>1 DEF P
<1>15. \A r \in records : isOutpoint(r.key) => \E c \in coins : r = coinRecord(c)
  BY <1>1, <1>2, <1>6, <1>8, <1>9
<1>16. \A r \in records : r.key = <<KeyB>> => r = b
  BY <1>1, <1>2, <1>7, <1>8, <1>9
<1>17. \A r \in records : r.key \in Seq(Byte)
  BY <1>1, <1>2, <1>7, <1>8, <1>9
<1> QED BY <1>5, <1>10, <1>13, <1>14, <1>15, <1>16, <1>17

\* A record of a coin is read as that coin, once the obfuscation key is known.
LEMMA RecordIsRead ==
  ASSUME coins \in Chainstates, obf \in Obfuscation, key = written, NEW c \in coins
  PROVE  /\ unreadable(c.script) => readRecord(coinRecord(c)) = Error
         /\ ~unreadable(c.script) => readRecord(coinRecord(c)) = [ok |-> TRUE, coin |-> c]
<1>1. c \in Coin /\ ofItsForm(c.script)
  BY ChainstateCoins
<1>2. Tail(coinRecord(c).key) = keyOf(c)
  BY <1>1, CoinKey
<1>3. deobfuscateValue(key, coinRecord(c).value) = valueOf(c)
  <2>1. valueOf(c) \in Seq(Byte)
    BY <1>1, ValueDeserialized
  <2>2. coinRecord(c).value = deobfuscateValue(written, valueOf(c))
    BY DEF coinRecord
  <2> QED BY <2>1, <2>2, WrittenType, Deobfuscated
<1>4. readRecord(coinRecord(c)) = DeserializeTxOut(keyOf(c) \o valueOf(c))
  BY <1>2, <1>3 DEF readRecord
<1> QED BY <1>1, <1>4, CoinDeserialized

-----------------------------------------------------------------------------
(* The inductive invariant. *)

\* What the node has written stays, in the order of the keys.
Written ==
  /\ coins \in Chainstates /\ obf \in Obfuscation
  /\ ldb = inKeyOrder(records)

\* The obfuscation key is the one the values were written with.
KeyIsTheWriters ==
  /\ pc \in PCs
  /\ key \in {<<>>, written}
  /\ pc = "closed" => key = <<>>
  /\ pc \in {"open", "iterating", "done", "answered"} => key = written
  /\ pc = "failed" /\ key /= <<>> /\ ~broken => \E c \in coins : unreadable(c.script)

\* The iterator has delivered the coins of the records it has passed, in the
\* order of their keys.
DeliveredInOrder ==
  /\ at \in 0..Len(ldb) /\ out \in Seq(coins) /\ Len(out) <= at
  /\ \A i \in 1..Len(out) : \E k \in 1..at : ldb[k] = coinRecord(out[i])
  /\ \A c \in coins : (\E k \in 1..at : ldb[k] = coinRecord(c))
                        => \E i \in 1..Len(out) : out[i] = c
  /\ \A i, j \in 1..Len(out) : i < j => keyLess(keyOf(out[i]), keyOf(out[j]))
  /\ pc = "done" /\ ~broken => at = Len(ldb)

ChainstateInv == Written /\ KeyIsTheWriters /\ DeliveredInOrder /\ AnswersAreTheCoins

\* The records, one by one.
LEMMA WrittenRecords ==
  ASSUME Written
  PROVE  /\ Len(ldb) \in Nat /\ DOMAIN ldb = 1..Len(ldb)
         /\ \A i \in 1..Len(ldb) : ldb[i].key \in Seq(Byte)
         /\ \A i, j \in 1..Len(ldb) : i < j => keyLess(ldb[i].key, ldb[j].key)
         /\ \A c \in coins : \E i \in 1..Len(ldb) : ldb[i] = coinRecord(c)
         /\ \A i \in 1..Len(ldb) : isOutpoint(ldb[i].key) => \E c \in coins : ldb[i] = coinRecord(c)
         /\ \A i \in 1..Len(ldb) : ldb[i].key = <<KeyB>> =>
              ldb[i].value = deobfuscateValue(written, Reverse(BestBlock))
<1>1. coins \in Chainstates /\ obf \in Obfuscation /\ ldb = inKeyOrder(records)
  BY DEF Written
<1>2. /\ IsFiniteSet(records)
      /\ \A r \in records : r.key \in Seq(Byte)
      /\ \A r, q \in records : r.key = q.key => r = q
      /\ \A c \in coins : coinRecord(c) \in records
      /\ \A r \in records : isOutpoint(r.key) => \E c \in coins : r = coinRecord(c)
      /\ \A r \in records : r.key = <<KeyB>> =>
           r.value = deobfuscateValue(written, Reverse(BestBlock))
  BY <1>1, RecordsOfCoins
<1>3. /\ ldb \in Seq(records)
      /\ \A r \in records : \E i \in 1..Len(ldb) : ldb[i] = r
      /\ \A i, j \in 1..Len(ldb) : i < j => keyLess(ldb[i].key, ldb[j].key)
  BY <1>1, <1>2, InKeyOrder
<1>4. Len(ldb) \in Nat /\ DOMAIN ldb = 1..Len(ldb) /\ \A i \in 1..Len(ldb) : ldb[i] \in records
  BY <1>3, LenProperties, ElementOfSeq
<1> QED BY <1>2, <1>3, <1>4

\* Of two records the first has the lesser key.
LEMMA OneRecordOfAKey ==
  ASSUME Written, NEW i \in 1..Len(ldb), NEW j \in 1..Len(ldb)
  PROVE  /\ ldb[i].key = ldb[j].key => i = j
         /\ keyLess(ldb[i].key, ldb[j].key) => i < j
<1>1. /\ Len(ldb) \in Nat /\ ldb[i].key \in Seq(Byte) /\ ldb[j].key \in Seq(Byte)
      /\ i < j => keyLess(ldb[i].key, ldb[j].key)
      /\ j < i => keyLess(ldb[j].key, ldb[i].key)
  BY WrittenRecords
<1>2. i < j \/ i = j \/ j < i
  BY <1>1
<1> QED BY <1>1, <1>2, KeysAreOrdered

\* What the code reads of an outpoint's record.
LEMMA OutpointIsRead ==
  ASSUME Written, key = written, NEW i \in 1..Len(ldb), isOutpoint(ldb[i].key)
  PROVE  \E c \in coins :
           /\ ldb[i] = coinRecord(c)
           /\ ~readRecord(ldb[i]).ok => unreadable(c.script)
           /\ readRecord(ldb[i]).ok => readRecord(ldb[i]).coin = c
<1>1. PICK c \in coins : ldb[i] = coinRecord(c)
  BY WrittenRecords
<1>2. /\ unreadable(c.script) => readRecord(ldb[i]) = Error
      /\ ~unreadable(c.script) => readRecord(ldb[i]) = [ok |-> TRUE, coin |-> c]
  BY <1>1, RecordIsRead DEF Written
<1> QED BY <1>1, <1>2 DEF Error

-----------------------------------------------------------------------------
(* It implies the properties. *)

\* The coins of a transaction lie together.
LEMMA CoinsOfATransactionTogether ==
  ASSUME Written, DeliveredInOrder,
         NEW i \in 1..Len(out), NEW j \in 1..Len(out), NEW k \in 1..Len(out),
         i <= k, k <= j, out[i].txid = out[j].txid
  PROVE  out[k].txid = out[i].txid
<1>1. \A n \in 1..Len(out) : /\ out[n] \in coins /\ out[n] \in Coin /\ ofItsForm(out[n].script)
                             /\ out[n].txid \in [1..IDLen -> Byte]
                             /\ keyOf(out[n]) \in Seq(Byte)
  <2> TAKE n \in 1..Len(out)
  <2>1. out[n] \in coins
    BY ElementOfSeq DEF DeliveredInOrder
  <2>2. out[n] \in Coin /\ ofItsForm(out[n].script)
    BY <2>1, ChainstateCoins DEF Written
  <2> QED BY <2>1, <2>2, CoinDeserialized DEF Coin
<1> DEFINE K(n) == coinRecord(out[n]).key
           p == buildTxIDKey(out[i].txid)
<1>2. \A n \in 1..Len(out) : K(n) \in Seq(Byte)
  BY <1>1, CoinKey
<1>3. \A m, n \in 1..Len(out) : m < n => keyLess(K(m), K(n))
  <2> SUFFICES ASSUME NEW m \in 1..Len(out), NEW n \in 1..Len(out), m < n
               PROVE  keyLess(K(m), K(n))
    OBVIOUS
  <2>0. keyLess(keyOf(out[m]), keyOf(out[n])) /\ m /= n
    BY DEF DeliveredInOrder
  <2>1. PICK a \in 1..at : ldb[a] = coinRecord(out[m])
    BY DEF DeliveredInOrder
  <2>2. PICK b \in 1..at : ldb[b] = coinRecord(out[n])
    BY DEF DeliveredInOrder
  <2>3. a \in 1..Len(ldb) /\ b \in 1..Len(ldb)
    <3>1. Len(ldb) \in Nat /\ at \in 0..Len(ldb)
      BY WrittenRecords DEF DeliveredInOrder
    <3> QED BY <3>1
  <2>4. K(m) = K(n) \/ keyLess(K(m), K(n)) \/ keyLess(K(n), K(m))
    BY <1>2, KeysAreOrdered
  <2>5. ~keyLess(K(n), K(m))
    <3> SUFFICES ASSUME keyLess(K(n), K(m)) PROVE FALSE
      OBVIOUS
    <3>1. /\ K(n) = <<KeyC>> \o keyOf(out[n]) /\ K(m) = <<KeyC>> \o keyOf(out[m])
          /\ KeyC \in Byte
      BY <1>1, CoinKey
    <3>2. keyLess(keyOf(out[n]), keyOf(out[m]))
      BY <1>1, <3>1, SameFirstByte
    <3> QED BY <1>1, <2>0, <3>2, KeysAreOrdered
  <2>6. K(m) /= K(n)
    <3> SUFFICES ASSUME K(m) = K(n) PROVE FALSE
      OBVIOUS
    <3>1. keyOf(out[m]) = keyOf(out[n])
      BY <1>1, CoinKey
    <3> QED BY <1>1, <2>0, <3>1, KeysAreOrdered
  <2> QED BY <2>4, <2>5, <2>6
<1>4. CASE k = i
  BY <1>4
<1>5. CASE k = j
  BY <1>5
<1>6. CASE k /= i /\ k /= j
  <2>1. keyLess(K(i), K(k)) /\ keyLess(K(k), K(j))
    BY <1>3, <1>6
  <2>2. p \in Seq(Byte) /\ BeginsWith(K(i), p) /\ BeginsWith(K(j), p)
    BY <1>1, CoinKey
  <2>3. ~keyLess(K(k), p)
    <3> SUFFICES ASSUME keyLess(K(k), p) PROVE FALSE
      OBVIOUS
    <3>1. keyLess(K(i), p)
      BY <1>2, <2>1, <2>2, KeysAreOrdered
    <3> QED BY <1>2, <2>2, <3>1, BeginningFirst
  <2>4. BeginsWith(K(k), p)
    BY <1>2, <2>1, <2>2, <2>3, Between
  <2> QED BY <1>1, <2>4, KeyOfTransaction
<1> QED BY <1>4, <1>5, <1>6

\* DeliversTheCoins, from the invariant.
LEMMA InvDelivers ==
  ASSUME ChainstateInv
  PROVE  DeliversTheCoins
<1>1. Written /\ KeyIsTheWriters /\ DeliveredInOrder
  BY DEF ChainstateInv
<1>2. pc \in PCs /\ at \in 0..Len(ldb) /\ Len(out) <= at
  BY <1>1 DEF KeyIsTheWriters, DeliveredInOrder
<1>3. pc = "failed" /\ key /= <<>> /\ ~broken => \E c \in coins : unreadable(c.script)
  BY <1>1 DEF KeyIsTheWriters
<1>4. DOMAIN out = 1..Len(out) /\ Len(out) \in Nat /\ \A i \in 1..Len(out) : out[i] \in coins
  BY <1>1, LenProperties, ElementOfSeq DEF DeliveredInOrder
<1>5. ToSet(out) \subseteq coins
  BY <1>4 DEF ToSet
<1>6. \A i, j \in DOMAIN out : i < j => keyLess(keyOf(out[i]), keyOf(out[j]))
  BY <1>1, <1>4 DEF DeliveredInOrder
<1>7. pc = "done" /\ ~broken => ToSet(out) = coins
  <2> SUFFICES ASSUME pc = "done", ~broken, NEW c \in coins PROVE c \in ToSet(out)
    BY <1>5
  <2>1. PICK k \in 1..Len(ldb) : ldb[k] = coinRecord(c)
    BY <1>1, WrittenRecords
  <2>2. k \in 1..at
    BY <1>1 DEF DeliveredInOrder
  <2>3. \E i \in 1..Len(out) : out[i] = c
    BY <1>1, <2>1, <2>2 DEF DeliveredInOrder
  <2> QED BY <1>4, <2>3 DEF ToSet
<1>8. \A i, j \in DOMAIN out : out[i].txid = out[j].txid =>
        \A k \in i..j : out[k].txid = out[i].txid
  <2> SUFFICES ASSUME NEW i \in DOMAIN out, NEW j \in DOMAIN out, out[i].txid = out[j].txid,
                      NEW k \in i..j
               PROVE  out[k].txid = out[i].txid
    OBVIOUS
  <2>1. i \in 1..Len(out) /\ j \in 1..Len(out) /\ k \in 1..Len(out) /\ i <= k /\ k <= j
    BY <1>4
  <2> QED BY <1>1, <2>1, CoinsOfATransactionTogether
<1>9. ASSUME NEW i \in DOMAIN out, NEW c \in coins, keyLess(keyOf(c), keyOf(out[i]))
      PROVE  c \in ToSet(out)
  <2>1. /\ c \in Coin /\ ofItsForm(c.script)
        /\ out[i] \in Coin /\ ofItsForm(out[i].script)
    BY <1>1, <1>4, ChainstateCoins DEF Written
  <2>2. PICK k \in 1..at : ldb[k] = coinRecord(out[i])
    BY <1>1, <1>4 DEF DeliveredInOrder
  <2>3. PICK m \in 1..Len(ldb) : ldb[m] = coinRecord(c)
    BY <1>1, WrittenRecords
  <2>4. Len(ldb) \in Nat /\ at \in 0..Len(ldb) /\ k \in 1..Len(ldb)
    BY <1>1, <1>2, WrittenRecords
  <2>5. /\ coinRecord(c).key = <<KeyC>> \o keyOf(c) /\ keyOf(c) \in Seq(Byte)
        /\ coinRecord(out[i]).key = <<KeyC>> \o keyOf(out[i]) /\ keyOf(out[i]) \in Seq(Byte)
        /\ KeyC \in Byte
    BY <2>1, CoinKey, CoinDeserialized
  <2>6. ~(k < m)
    <3> SUFFICES ASSUME k < m PROVE FALSE
      OBVIOUS
    <3>1. keyLess(coinRecord(out[i]).key, coinRecord(c).key)
      BY <1>1, <2>2, <2>3, <2>4, WrittenRecords
    <3>2. keyLess(keyOf(out[i]), keyOf(c))
      BY <2>5, <3>1, SameFirstByte
    <3> QED BY <1>9, <2>5, <3>2, KeysAreOrdered
  <2>7. m \in 1..at
    BY <2>4, <2>6
  <2>8. \E j \in 1..Len(out) : out[j] = c
    BY <1>1, <2>3, <2>7 DEF DeliveredInOrder
  <2> QED BY <1>4, <2>8 DEF ToSet
<1> QED BY <1>2, <1>3, <1>5, <1>6, <1>7, <1>8, <1>9 DEF DeliversTheCoins

\* FormatsAgree, from what the node has written.
LEMMA WrittenFormats ==
  ASSUME Written
  PROVE  FormatsAgree
<1>1. \A c \in coins : c \in Coin /\ ofItsForm(c.script)
  BY ChainstateCoins DEF Written
<1> QED BY <1>1, CoinFormats, Zenon DEF FormatsAgree

-----------------------------------------------------------------------------
(* It holds at first, and every step keeps it. *)

\* A step that leaves what the node has written.
LEMMA StaysWritten ==
  ASSUME Written, UNCHANGED <<coins, obf, ldb>>
  PROVE  /\ Written' /\ written' = written
         /\ \A c : coinRecord(c)' = coinRecord(c)
<1>1. written' = written
  BY DEF written
<1>2. \A c : coinRecord(c)' = coinRecord(c)
  BY <1>1 DEF coinRecord
<1>3. records' = records
  BY <1>1, <1>2 DEF records
<1> QED BY <1>1, <1>2, <1>3 DEF Written

\* The invariant holds at first.
LEMMA InitInv ==
  Init => ChainstateInv
<1> SUFFICES ASSUME Init PROVE ChainstateInv
  OBVIOUS
<1>1. Written
  BY DEF Init, Written
<1>2. KeyIsTheWriters
  BY DEF Init, KeyIsTheWriters, PCs
<1>3. DeliveredInOrder
  <2>1. Len(ldb) \in Nat
    BY <1>1, WrittenRecords
  <2>2. out = <<>> /\ at = 0 /\ pc = "closed" /\ out \in Seq(coins) /\ Len(out) = 0
    BY DEF Init
  <2> QED BY <2>1, <2>2 DEF DeliveredInOrder
<1>4. AnswersAreTheCoins
  BY DEF Init, AnswersAreTheCoins
<1> QED BY <1>1, <1>2, <1>3, <1>4 DEF ChainstateInv

\* The steps that leave the iterator alone, and what they may answer.
LEMMA AnswerKeepsInv ==
  ASSUME ChainstateInv, UNCHANGED <<disk, key, at, out>>, pc = "open",
         pc' \in {"iterating", "answered", "failed"},
         pc' = "failed" /\ ~broken' => \E c \in coins : unreadable(c.script),
         AnswersAreTheCoins'
  PROVE  ChainstateInv'
<1>1. /\ Written' /\ written' = written
      /\ \A c : coinRecord(c)' = coinRecord(c)
  BY StaysWritten DEF ChainstateInv, disk
<1>2. KeyIsTheWriters'
  BY <1>1 DEF ChainstateInv, KeyIsTheWriters, PCs, disk
<1>3. DeliveredInOrder'
  BY <1>1 DEF ChainstateInv, DeliveredInOrder, disk
<1> QED BY <1>1, <1>2, <1>3 DEF ChainstateInv

\* A Get that fails ends the process, or the question.
LEMMA GetFailsKeepsInv ==
  ASSUME ChainstateInv, GetFails
  PROVE  ChainstateInv'
<1>1. /\ pc \in {"closed", "open"} /\ pc' = "failed" /\ broken'
      /\ UNCHANGED <<disk, key, at, out, answer>>
  BY DEF GetFails
<1>2. /\ Written' /\ written' = written
      /\ \A c : coinRecord(c)' = coinRecord(c)
  BY <1>1, StaysWritten DEF ChainstateInv, disk
<1>3. KeyIsTheWriters'
  BY <1>1, <1>2 DEF ChainstateInv, KeyIsTheWriters, PCs, disk
<1>4. DeliveredInOrder'
  BY <1>1, <1>2 DEF ChainstateInv, DeliveredInOrder, disk
<1>5. AnswersAreTheCoins'
  BY <1>1 DEF AnswersAreTheCoins
<1> QED BY <1>2, <1>3, <1>4, <1>5 DEF ChainstateInv

\* newDeobfuscator: the obfuscation key is read, or the process ends.
LEMMA NewDBKeepsInv ==
  ASSUME ChainstateInv, NewDB
  PROVE  ChainstateInv'
<1>1. /\ Written' /\ written' = written
      /\ \A c : coinRecord(c)' = coinRecord(c)
  BY StaysWritten DEF ChainstateInv, NewDB, disk
<1>2. pc = "closed" /\ key = <<>> /\ UNCHANGED <<coins, at, out, answer, broken>>
  BY DEF NewDB, disk, ChainstateInv, KeyIsTheWriters
<1>3. \/ pc' \in {"panicked", "failed"} /\ key' = <<>>
      \/ pc' = "open" /\ key' = written
  BY <1>2 DEF NewDB, written
<1>4. KeyIsTheWriters'
  BY <1>1, <1>2, <1>3 DEF KeyIsTheWriters, PCs
<1>5. DeliveredInOrder'
  BY <1>1, <1>2, <1>3 DEF ChainstateInv, DeliveredInOrder, NewDB, disk
<1>6. AnswersAreTheCoins'
  BY <1>3 DEF AnswersAreTheCoins
<1> QED BY <1>1, <1>4, <1>5, <1>6 DEF ChainstateInv

\* Next passes a record that is no coin.
LEMMA NextIsNoOutpointKeepsInv ==
  ASSUME ChainstateInv, NextIsNoOutpoint
  PROVE  ChainstateInv'
<1>0. Written /\ KeyIsTheWriters /\ DeliveredInOrder
  BY DEF ChainstateInv
<1>1. /\ Written' /\ written' = written
      /\ \A c : coinRecord(c)' = coinRecord(c)
  BY StaysWritten DEF ChainstateInv, NextIsNoOutpoint, disk
<1>2. /\ pc = "iterating" /\ at' = at + 1 /\ at < Len(ldb) /\ ~isOutpoint(ldb[at + 1].key)
      /\ UNCHANGED <<coins, ldb, obf, pc, key, out, answer, broken>>
  BY DEF NextIsNoOutpoint, disk
<1>3. KeyIsTheWriters'
  BY <1>0, <1>1, <1>2 DEF KeyIsTheWriters
<1>4. Len(ldb) \in Nat /\ at \in Nat /\ at \in 0..Len(ldb)
  <2>1. Len(ldb) \in Nat
    BY <1>0, WrittenRecords
  <2>2. at \in 0..Len(ldb)
    BY <1>0 DEF DeliveredInOrder
  <2> QED BY <2>1, <2>2
<1>5. \A k \in 1..(at + 1) : \A c \in coins : ldb[k] = coinRecord(c) => k \in 1..at
  <2> SUFFICES ASSUME NEW k \in 1..(at + 1), NEW c \in coins, ldb[k] = coinRecord(c)
               PROVE  k \in 1..at
    OBVIOUS
  <2>1. isOutpoint(ldb[k].key)
    BY <1>0, ChainstateCoins, CoinKey DEF Written
  <2> QED BY <1>2, <1>4, <2>1
<1>6. DeliveredInOrder'
  <2>1. at' \in 0..Len(ldb) /\ Len(out) <= at'
    BY <1>0, <1>2, <1>4, LenProperties DEF DeliveredInOrder
  <2>2. \A i \in 1..Len(out) : \E k \in 1..at' : ldb[k] = coinRecord(out[i])
    <3> TAKE i \in 1..Len(out)
    <3>1. PICK k \in 1..at : ldb[k] = coinRecord(out[i])
      BY <1>0 DEF DeliveredInOrder
    <3>2. k \in 1..at'
      BY <1>2, <1>4
    <3> QED BY <3>1, <3>2
  <2>3. \A c \in coins : (\E k \in 1..at' : ldb[k] = coinRecord(c))
                           => \E i \in 1..Len(out) : out[i] = c
    BY <1>0, <1>2, <1>5 DEF DeliveredInOrder
  <2> QED BY <1>0, <1>1, <1>2, <2>1, <2>2, <2>3 DEF DeliveredInOrder
<1>7. AnswersAreTheCoins'
  BY <1>2 DEF AnswersAreTheCoins
<1> QED BY <1>1, <1>3, <1>6, <1>7 DEF ChainstateInv

\* Next delivers the coin of the next record, which is none of those before.
LEMMA NextDeliversKeepsInv ==
  ASSUME ChainstateInv, NextDelivers
  PROVE  ChainstateInv'
<1>0. Written /\ KeyIsTheWriters /\ DeliveredInOrder
  BY DEF ChainstateInv
<1>1. /\ Written' /\ written' = written
      /\ \A c : coinRecord(c)' = coinRecord(c)
  BY StaysWritten DEF ChainstateInv, NextDelivers, disk
<1>2. /\ pc = "iterating" /\ at' = at + 1 /\ at < Len(ldb) /\ isOutpoint(ldb[at + 1].key)
      /\ readRecord(ldb[at + 1]).ok /\ out' = Append(out, readRecord(ldb[at + 1]).coin)
      /\ UNCHANGED <<coins, ldb, obf, pc, key, answer, broken>>
  BY DEF NextDelivers, disk
<1>3. KeyIsTheWriters'
  BY <1>0, <1>1, <1>2 DEF KeyIsTheWriters
<1>4. /\ Len(ldb) \in Nat /\ at \in Nat /\ at + 1 \in 1..Len(ldb) /\ key = written
      /\ at \in 0..Len(ldb)
  BY <1>0, <1>2, WrittenRecords DEF DeliveredInOrder, KeyIsTheWriters
<1>5. PICK c \in coins : ldb[at + 1] = coinRecord(c) /\ readRecord(ldb[at + 1]).coin = c
  BY <1>0, <1>2, <1>4, OutpointIsRead
<1>6. out \in Seq(coins) /\ Len(out) \in Nat /\ Len(out) <= at
  BY <1>0, LenProperties DEF DeliveredInOrder
<1>7. /\ out' \in Seq(coins) /\ Len(out') = Len(out) + 1
      /\ \A i \in 1..Len(out) : out'[i] = out[i]
      /\ out'[Len(out) + 1] = c
  BY <1>2, <1>5, <1>6, AppendProperties
<1>8. /\ \A i \in 1..Len(out') : i \in 1..Len(out) \/ i = Len(out) + 1
      /\ \A k \in 1..at' : k \in 1..at \/ k = at + 1
      /\ 1..at \subseteq 1..at' /\ at + 1 \in 1..at'
      /\ 1..Len(out) \subseteq 1..Len(out') /\ Len(out) + 1 \in 1..Len(out')
  BY <1>2, <1>4, <1>6, <1>7
<1>9. at' \in 0..Len(ldb) /\ Len(out') <= at'
  BY <1>2, <1>4, <1>6, <1>7
<1>10. \A i \in 1..Len(out') : \E k \in 1..at' : ldb[k] = coinRecord(out'[i])
  <2> TAKE i \in 1..Len(out')
  <2>1. CASE i \in 1..Len(out)
    <3>1. PICK k \in 1..at : ldb[k] = coinRecord(out[i])
      BY <1>0, <2>1 DEF DeliveredInOrder
    <3> QED BY <1>7, <1>8, <2>1, <3>1
  <2>2. CASE i = Len(out) + 1
    BY <1>5, <1>7, <1>8, <2>2
  <2> QED BY <1>8, <2>1, <2>2
<1>11. \A d \in coins : (\E k \in 1..at' : ldb[k] = coinRecord(d))
                          => \E i \in 1..Len(out') : out'[i] = d
  <2> SUFFICES ASSUME NEW d \in coins, NEW k \in 1..at', ldb[k] = coinRecord(d)
               PROVE  \E i \in 1..Len(out') : out'[i] = d
    OBVIOUS
  <2>1. CASE k \in 1..at
    <3>1. PICK i \in 1..Len(out) : out[i] = d
      BY <1>0, <2>1 DEF DeliveredInOrder
    <3> QED BY <1>7, <1>8, <3>1
  <2>2. CASE k = at + 1
    <3>1. coinRecord(c) = coinRecord(d)
      BY <1>5, <2>2
    <3>2. c = d
      BY <1>0, <3>1, ChainstateCoins, KeysOfCoins DEF Written
    <3> QED BY <1>7, <1>8, <3>2
  <2> QED BY <1>8, <2>1, <2>2
<1>12. ASSUME NEW i \in 1..Len(out'), NEW j \in 1..Len(out'), i < j
       PROVE  keyLess(keyOf(out'[i]), keyOf(out'[j]))
  <2>1. CASE j \in 1..Len(out)
    <3>1. i \in 1..Len(out)
      BY <1>6, <1>8, <1>12, <2>1
    <3> QED BY <1>0, <1>7, <1>12, <2>1, <3>1 DEF DeliveredInOrder
  <2>2. CASE j = Len(out) + 1
    <3>1. i \in 1..Len(out) /\ out'[i] = out[i] /\ out'[j] = c
      BY <1>6, <1>7, <1>8, <1>12, <2>2
    <3>2. PICK k \in 1..at : ldb[k] = coinRecord(out[i])
      BY <1>0, <3>1 DEF DeliveredInOrder
    <3>3. k < at + 1 /\ k \in 1..Len(ldb)
      BY <1>4
    <3>4. keyLess(coinRecord(out[i]).key, coinRecord(c).key)
      BY <1>0, <1>4, <1>5, <3>2, <3>3, WrittenRecords
    <3>5. out[i] \in coins
      BY <1>6, <3>1, ElementOfSeq
    <3>6. /\ out[i] \in Coin /\ ofItsForm(out[i].script) /\ c \in Coin /\ ofItsForm(c.script)
      BY <1>0, <3>5, ChainstateCoins DEF Written
    <3>7. /\ coinRecord(out[i]).key = <<KeyC>> \o keyOf(out[i])
          /\ coinRecord(c).key = <<KeyC>> \o keyOf(c)
          /\ KeyC \in Byte /\ keyOf(out[i]) \in Seq(Byte) /\ keyOf(c) \in Seq(Byte)
      BY <3>6, CoinKey, CoinDeserialized
    <3> QED BY <3>1, <3>4, <3>7, SameFirstByte
  <2> QED BY <1>8, <2>1, <2>2
<1>13. DeliveredInOrder'
  <2>1. \A d : coinRecord(d)' = coinRecord(d)
    BY <1>1
  <2> QED BY <1>1, <1>2, <1>7, <1>9, <1>10, <1>11, <1>12 DEF DeliveredInOrder
<1>14. AnswersAreTheCoins'
  BY <1>2 DEF AnswersAreTheCoins
<1> QED BY <1>1, <1>3, <1>13, <1>14 DEF ChainstateInv

\* Next fails on a coin that cannot be read, or has no more keys.
LEMMA NextEndsKeepsInv ==
  ASSUME ChainstateInv, NextFails \/ NoKeysMore
  PROVE  ChainstateInv'
<1>0. Written /\ KeyIsTheWriters /\ DeliveredInOrder
  BY DEF ChainstateInv
<1>1. UNCHANGED <<coins, obf, ldb, key, at, out, answer>>
  BY DEF NextFails, NoKeysMore, disk
<1>2. /\ Written' /\ written' = written
      /\ \A c : coinRecord(c)' = coinRecord(c)
  BY <1>0, <1>1, StaysWritten
<1>3. CASE NextFails
  <2>1. \E c \in coins : unreadable(c.script)
    <3>1. at + 1 \in 1..Len(ldb) /\ key = written /\ isOutpoint(ldb[at + 1].key)
          /\ ~readRecord(ldb[at + 1]).ok
      BY <1>0, <1>3, WrittenRecords DEF NextFails, DeliveredInOrder, KeyIsTheWriters
    <3> QED BY <1>0, <3>1, OutpointIsRead
  <2>2. pc' = "failed"
    BY <1>3 DEF NextFails
  <2> QED BY <1>0, <1>1, <1>2, <2>1, <2>2
        DEF ChainstateInv, KeyIsTheWriters, DeliveredInOrder, AnswersAreTheCoins, PCs
<1>4. CASE NoKeysMore
  <2>1. pc = "iterating" /\ pc' = "done" /\ (~broken' => at = Len(ldb))
    <3>1. at \in 0..Len(ldb) /\ Len(ldb) \in Nat
      BY <1>0, WrittenRecords DEF DeliveredInOrder
    <3>2. ~(at < Len(ldb)) => at = Len(ldb)
      BY <3>1
    <3> QED BY <1>4, <3>2, Zenon DEF NoKeysMore
  <2> QED BY <1>0, <1>1, <1>2, <2>1
        DEF ChainstateInv, KeyIsTheWriters, DeliveredInOrder, AnswersAreTheCoins, PCs
<1> QED BY <1>3, <1>4

\* The block: its record is the only one with its key.
LEMMA GetBlockHashAnswers ==
  ASSUME ChainstateInv, GetBlockHash
  PROVE  ChainstateInv'
<1>1. Written /\ KeyIsTheWriters
  BY DEF ChainstateInv
<1>2. /\ pc = "open" /\ pc' = "answered" /\ UNCHANGED <<disk, key, at, out>>
      /\ \E i \in DOMAIN ldb :
           /\ ldb[i].key = <<KeyB>>
           /\ answer' = <<"block", Reverse(deobfuscateValue(key, ldb[i].value))>>
  BY DEF GetBlockHash
<1>3. PICK i \in 1..Len(ldb) :
        /\ ldb[i].key = <<KeyB>>
        /\ answer' = <<"block", Reverse(deobfuscateValue(key, ldb[i].value))>>
  BY <1>1, <1>2, WrittenRecords
<1>4. BestBlock \in Seq(Byte)
  BY ChainstateConstants
<1>5. Reverse(deobfuscateValue(key, ldb[i].value)) = BestBlock
  <2>1. ldb[i].value = deobfuscateValue(written, Reverse(BestBlock)) /\ key = written
    BY <1>1, <1>2, <1>3, WrittenRecords DEF KeyIsTheWriters
  <2>2. written \in Seq(Byte) /\ written /= <<>>
    BY <1>1, WrittenType DEF Written
  <2>3. Reverse(BestBlock) \in Seq(Byte) /\ Reverse(Reverse(BestBlock)) = BestBlock
    BY <1>4, ReverseTwice
  <2> QED BY <2>1, <2>2, <2>3, Deobfuscated
<1>6. AnswersAreTheCoins'
  BY <1>3, <1>5 DEF AnswersAreTheCoins
<1> QED BY <1>2, <1>6, AnswerKeepsInv

\* A coin: the key asked for is that of one record.
LEMMA GetOutputAnswers ==
  ASSUME ChainstateInv, NEW txID \in [1..IDLen -> Byte], NEW index \in Nat,
         GetOutput(txID, index)
  PROVE  ChainstateInv'
<1> DEFINE k == buildTxIDKey(txID) \o PutVLQ(index)
           found == {i \in DOMAIN ldb : ldb[i].key = k}
           first == CHOOSE i \in found : TRUE
           read == readRecord(ldb[first])
           those == {c \in coins : c.txid = txID /\ c.vout = index}
<1>1. Written /\ KeyIsTheWriters
  BY DEF ChainstateInv
<1>2. pc = "open" /\ UNCHANGED <<disk, key, at, out>> /\ key = written
  BY <1>1 DEF GetOutput, KeyIsTheWriters
<1>3. /\ found = {} => pc' = "answered" /\ answer' = <<"output", txID, index, {}>>
      /\ found /= {} /\ read.ok => pc' = "answered"
                                   /\ answer' = <<"output", txID, index, {read.coin}>>
      /\ found /= {} /\ ~read.ok => pc' = "failed"
  BY DEF GetOutput
<1>4. DOMAIN ldb = 1..Len(ldb)
  BY <1>1, WrittenRecords
<1>5. \A c \in those : coinRecord(c).key = k
  BY <1>1, ChainstateCoins, CoinKey DEF Written
<1>6. \A c \in those : \E i \in found : ldb[i] = coinRecord(c)
  <2> TAKE c \in those
  <2>1. PICK i \in 1..Len(ldb) : ldb[i] = coinRecord(c)
    BY <1>1, WrittenRecords
  <2> QED BY <1>4, <1>5, <2>1
<1>7. ASSUME NEW i \in found
      PROVE  \E c \in those : /\ ldb[i] = coinRecord(c) /\ i = first
                              /\ ~read.ok => unreadable(c.script)
                              /\ read.ok => read.coin = c
  <2>1. i \in 1..Len(ldb) /\ ldb[i].key = k /\ first \in found /\ first \in 1..Len(ldb)
        /\ ldb[first].key = k
    BY <1>4
  <2>2. i = first
    BY <1>1, <2>1, OneRecordOfAKey
  <2>3. isOutpoint(k)
    <3>1. IDLen \in Nat \ {0} /\ KeyC \in Byte
      BY BaseType, FormatConstants DEF KeyC, Byte
    <3>2. txID \in Seq(Byte) /\ Len(txID) = IDLen
      BY <3>1
    <3>3. Reverse(txID) \in Seq(Byte) /\ Len(Reverse(txID)) = IDLen
      BY <3>2, ReverseTwice
    <3>4. PutVLQ(index) \in Seq(Byte) /\ Len(PutVLQ(index)) \in Nat \ {0}
      BY NumberWritten
    <3>5. /\ buildTxIDKey(txID) \in Seq(Byte) /\ Len(buildTxIDKey(txID)) = IDLen + 1
          /\ buildTxIDKey(txID)[1] = KeyC
      BY <3>1, <3>3 DEF buildTxIDKey
    <3>6. Len(k) = IDLen + 1 + Len(PutVLQ(index)) /\ k[1] = KeyC
      <4>1. /\ Len(k) = Len(buildTxIDKey(txID)) + Len(PutVLQ(index))
            /\ \A j \in 1..Len(buildTxIDKey(txID)) : k[j] = buildTxIDKey(txID)[j]
        BY <3>4, <3>5, Behind
      <4>2. 1 \in 1..Len(buildTxIDKey(txID))
        BY <3>1, <3>5
      <4> QED BY <3>5, <4>1, <4>2
    <3> QED BY <3>1, <3>4, <3>6 DEF isOutpoint
  <2>4. PICK c \in coins : /\ ldb[i] = coinRecord(c)
                           /\ ~readRecord(ldb[i]).ok => unreadable(c.script)
                           /\ readRecord(ldb[i]).ok => readRecord(ldb[i]).coin = c
    BY <1>1, <1>2, <2>1, <2>3, OutpointIsRead
  <2>5. c \in those
    <3>0. c \in Coin /\ ofItsForm(c.script) /\ c.txid \in [1..IDLen -> Byte] /\ c.vout \in Nat
      BY <1>1, ChainstateCoins DEF Written, Coin
    <3> DEFINE d == [c EXCEPT !.txid = txID, !.vout = index]
    <3>1. d \in Coin /\ d.txid = txID /\ d.vout = index /\ d.script = c.script
      BY <3>0 DEF Coin
    <3> HIDE DEF d
    <3>2. coinRecord(d).key = k
      BY <3>0, <3>1, CoinKey
    <3>3. c.txid = d.txid /\ c.vout = d.vout
      BY <2>1, <2>4, <3>0, <3>1, <3>2, KeysOfCoins
    <3> QED BY <3>1, <3>3
  <2> QED BY <2>2, <2>4, <2>5
<1>8. \A c, d \in those : c = d
  BY <1>1, ChainstateCoins DEF Written
<1> HIDE DEF found, first, read, those, k
<1>9. CASE found = {}
  <2>1. those = {}
    BY <1>6, <1>9
  <2>2. pc' = "answered" /\ answer' = <<"output", txID, index, those>>
    BY <1>3, <1>9, <2>1
  <2>3. AnswersAreTheCoins'
    BY <1>2, <2>2 DEF AnswersAreTheCoins, those, disk
  <2> QED BY <1>2, <2>2, <2>3, AnswerKeepsInv
<1>10. CASE found /= {}
  <2>1. PICK c \in those : /\ ~read.ok => unreadable(c.script)
                           /\ read.ok => read.coin = c
    BY <1>7, <1>10
  <2>2. those = {c} /\ c \in coins
    BY <1>8 DEF those
  <2>3. CASE read.ok
    <3>1. pc' = "answered" /\ answer' = <<"output", txID, index, those>>
      BY <1>3, <1>10, <2>1, <2>2, <2>3
    <3>2. AnswersAreTheCoins'
      BY <1>2, <3>1 DEF AnswersAreTheCoins, those, disk
    <3> QED BY <1>2, <3>1, <3>2, AnswerKeepsInv
  <2>4. CASE ~read.ok
    <3>1. pc' = "failed"
      BY <1>3, <1>10, <2>4
    <3>2. AnswersAreTheCoins'
      BY <3>1 DEF AnswersAreTheCoins
    <3> QED BY <1>2, <2>1, <2>2, <2>4, <3>1, <3>2, AnswerKeepsInv
  <2> QED BY <2>3, <2>4
<1> QED BY <1>9, <1>10

\* The coins of a transaction: they come first of what begins at its key, and
\* nothing lies between them.
LEMMA GetOutputsAnswers ==
  ASSUME ChainstateInv, NEW txID \in [1..IDLen -> Byte], GetOutputs(txID)
  PROVE  ChainstateInv'
<1>1. Written /\ KeyIsTheWriters
  BY DEF ChainstateInv
<1>2. pc = "open" /\ UNCHANGED <<disk, key, at, out>> /\ key = written
  BY <1>1 DEF GetOutputs, KeyIsTheWriters
<1> DEFINE p == buildTxIDKey(txID)
           range(stop) == {i \in DOMAIN ldb : /\ i < stop
                                             /\ ~keyLess(ldb[i].key, p)
                                             /\ isOutpoint(ldb[i].key)}
           read(i) == readRecord(ldb[i])
           ending(stop) == {i \in range(stop) : ~read(i).ok \/ read(i).coin.txid /= txID}
           those == {c \in coins : c.txid = txID}
<1>3. PICK stop \in 1..(Len(ldb) + 1) :
        LET last == Min({stop} \union ending(stop))
        IN  IF last /= stop /\ ~read(last).ok
            THEN pc' = "failed" /\ UNCHANGED <<answer, broken>>
            ELSE /\ pc' = "answered"
                 /\ answer' = <<"outputs", txID,
                               {read(i).coin : i \in {j \in range(stop) : j < last}}>>
                 /\ broken' = (last = stop /\ stop <= Len(ldb))
  BY DEF GetOutputs
<1> DEFINE ends == ending(stop)
           last == Min({stop} \union ends)
           got == {read(i).coin : i \in {j \in range(stop) : j < last}}
<1>4. DOMAIN ldb = 1..Len(ldb) /\ Len(ldb) \in Nat /\ stop \in Nat
  BY <1>1, WrittenRecords
<1>5. \A i : i \in range(stop) <=> /\ i \in 1..Len(ldb) /\ i < stop
                                   /\ ~keyLess(ldb[i].key, p) /\ isOutpoint(ldb[i].key)
  BY <1>4
<1>6. \A i : i \in ends <=> i \in range(stop) /\ (~read(i).ok \/ read(i).coin.txid /= txID)
  OBVIOUS
<1>7. /\ last \in {stop} \union ends
      /\ last <= stop /\ \A i \in ends : last <= i
  <2> DEFINE R == {stop} \union ends
  <2>1. R \in SUBSET Nat /\ R /= {}
    BY <1>4
  <2>2. \E m \in R : \A i \in R : m <= i
    BY <2>1, Least
  <2>3. last = Min(R)
    OBVIOUS
  <2> HIDE DEF R, last
  <2>4. last \in R /\ \A i \in R : last <= i
    BY <2>2, <2>3 DEF Min
  <2> QED BY <2>4 DEF R
<1>8. /\ last /= stop /\ ~read(last).ok => pc' = "failed"
      /\ ~(last /= stop /\ ~read(last).ok) =>
           /\ pc' = "answered" /\ answer' = <<"outputs", txID, got>>
           /\ ~broken' => last /= stop \/ stop = Len(ldb) + 1
  <2>1. IF last /= stop /\ ~read(last).ok
        THEN pc' = "failed" /\ UNCHANGED <<answer, broken>>
        ELSE /\ pc' = "answered"
             /\ answer' = <<"outputs", txID, got>>
             /\ broken' = (last = stop /\ stop <= Len(ldb))
    BY <1>3, Zenon
  <2>2. stop <= Len(ldb) \/ stop = Len(ldb) + 1
    BY <1>4
  <2> HIDE DEF last, got, read
  <2> QED BY <2>1, <2>2, Zenon
<1> HIDE DEF range, ending, ends, last
<1>9. ASSUME NEW i \in 1..Len(ldb), isOutpoint(ldb[i].key)
      PROVE  \E c \in coins : /\ ldb[i] = coinRecord(c)
                              /\ ~read(i).ok => unreadable(c.script)
                              /\ read(i).ok => read(i).coin = c
  BY <1>1, <1>2, <1>9, OutpointIsRead
<1>10. p \in Seq(Byte)
  <2>1. IDLen \in Nat /\ KeyC \in Byte
    BY BaseType, FormatConstants DEF KeyC, Byte
  <2>2. txID \in Seq(Byte)
    BY <2>1
  <2> QED BY <2>1, <2>2, ReverseTwice DEF buildTxIDKey
<1>11. \A c \in those : /\ c \in Coin /\ ofItsForm(c.script)
                        /\ coinRecord(c).key \in Seq(Byte) /\ isOutpoint(coinRecord(c).key)
                        /\ BeginsWith(coinRecord(c).key, p)
  BY <1>1, ChainstateCoins, CoinKey DEF Written
<1>12. those' = those
  BY <1>2 DEF disk
<1> HIDE DEF p, read
<1>13. CASE last /= stop /\ ~read(last).ok
  <2>1. \E c \in coins : unreadable(c.script)
    <3>1. last \in 1..Len(ldb) /\ isOutpoint(ldb[last].key)
      BY <1>5, <1>6, <1>7, <1>13
    <3> QED BY <1>9, <1>13, <3>1
  <2>2. pc' = "failed"
    BY <1>8, <1>13
  <2>3. AnswersAreTheCoins'
    BY <2>2 DEF AnswersAreTheCoins
  <2> QED BY <1>2, <2>1, <2>2, <2>3, AnswerKeepsInv
<1>14. CASE ~(last /= stop /\ ~read(last).ok)
  <2>1. \A i \in range(stop) : i < last => read(i).ok /\ read(i).coin.txid = txID
    <3> SUFFICES ASSUME NEW i \in range(stop), i < last, i \in ends PROVE FALSE
      BY <1>6
    <3>1. last <= i /\ i \in Nat /\ last \in Nat
      BY <1>4, <1>5, <1>6, <1>7
    <3> QED BY <3>1
  <2>2. got \subseteq those
    <3>1. ASSUME NEW i \in range(stop), i < last PROVE read(i).coin \in those
      BY <1>5, <1>9, <2>1, <3>1
    <3> QED BY <3>1
  <2>3. ASSUME ~broken', NEW c \in those PROVE c \in got
    <3>1. PICK i \in 1..Len(ldb) : ldb[i] = coinRecord(c)
      BY <1>1, WrittenRecords
    <3>2. ~keyLess(ldb[i].key, p) /\ isOutpoint(ldb[i].key)
      BY <1>10, <1>11, <3>1, BeginningFirst
    <3>3. PICK d \in coins : /\ ldb[i] = coinRecord(d) /\ (read(i).ok => read(i).coin = d)
      BY <1>9, <3>2
    <3>4. d = c
      <4>1. d \in Coin /\ ofItsForm(d.script)
        BY <1>1, ChainstateCoins DEF Written
      <4>2. d.txid = c.txid /\ d.vout = c.vout
        BY <1>11, <3>1, <3>3, <4>1, KeysOfCoins
      <4> QED BY <1>1, <4>2, ChainstateCoins DEF Written
    <3>5. i < last
      <4> SUFFICES ASSUME ~(i < last) PROVE FALSE
        OBVIOUS
      <4>1. last \in ends /\ last \in range(stop) /\ last \in 1..Len(ldb) /\ last <= i
        <5>1. last \in Nat /\ last <= i
          BY <1>4, <1>5, <1>6, <1>7
        <5>2. last /= stop
          BY <1>4, <1>8, <1>14, <2>3, <5>1
        <5> QED BY <1>5, <1>6, <1>7, <5>1, <5>2
      <4>2. read(last).ok /\ read(last).coin.txid /= txID
        <5>1. last /= stop
          BY <1>4, <1>5, <4>1
        <5> QED BY <1>6, <1>14, <4>1, <5>1
      <4>3. PICK e \in coins : ldb[last] = coinRecord(e) /\ read(last).coin = e
        BY <1>5, <1>9, <4>1, <4>2
      <4>4. last /= i
        BY <3>3, <3>4, <4>2
      <4>5. /\ keyLess(ldb[last].key, ldb[i].key) /\ ~keyLess(ldb[last].key, p)
            /\ ldb[last].key \in Seq(Byte) /\ ldb[i].key \in Seq(Byte)
        BY <1>1, <1>4, <1>5, <3>1, <4>1, <4>4, WrittenRecords
      <4>6. BeginsWith(ldb[last].key, p)
        BY <1>10, <1>11, <3>1, <4>5, Between
      <4>7. e \in Coin /\ ofItsForm(e.script)
        BY <1>1, ChainstateCoins DEF Written
      <4> QED BY <4>2, <4>3, <4>6, <4>7, KeyOfTransaction DEF p
    <3>6. i \in range(stop)
      <4>1. i < stop
        BY <1>4, <1>5, <1>6, <1>7, <3>5
      <4> QED BY <1>5, <3>2, <4>1
    <3>7. read(i).ok
      BY <2>1, <3>5, <3>6
    <3> QED BY <3>3, <3>4, <3>5, <3>6, <3>7
  <2>4. got \subseteq those /\ (broken' \/ got = those)
    BY <2>2, <2>3
  <2>5. pc' = "answered" /\ answer' = <<"outputs", txID, got>>
    BY <1>8, <1>14
  <2> HIDE DEF got
  <2>6. AnswersAreTheCoins'
    BY <1>12, <2>4, <2>5 DEF AnswersAreTheCoins, those
  <2> QED BY <1>2, <2>5, <2>6, AnswerKeepsInv
<1> QED BY <1>13, <1>14

\* Every step keeps the invariant.
LEMMA NextKeepsInv ==
  ChainstateInv /\ [Next]_vars => ChainstateInv'
<1> SUFFICES ASSUME ChainstateInv, [Next]_vars PROVE ChainstateInv'
  OBVIOUS
<1>1. CASE NewDB
  BY <1>1, NewDBKeepsInv
<1>2. CASE NewUTXOIterator
  <2>1. /\ pc = "open" /\ pc' = "iterating" /\ UNCHANGED <<disk, key, at, out, answer>>
    BY <1>2 DEF NewUTXOIterator
  <2>2. AnswersAreTheCoins'
    BY <2>1 DEF AnswersAreTheCoins
  <2> QED BY <2>1, <2>2, AnswerKeepsInv
<1>3. CASE NextIsNoOutpoint
  BY <1>3, NextIsNoOutpointKeepsInv
<1>4. CASE NextDelivers
  BY <1>4, NextDeliversKeepsInv
<1>5. CASE NextFails \/ NoKeysMore
  BY <1>5, NextEndsKeepsInv
<1>6. CASE Questions
  <2>1. \A S \in Chainstates : \A c \in S : c.txid \in [1..IDLen -> Byte] /\ c.vout \in Nat
    BY ChainstateConstants DEF Coin
  <2>2. CASE GetBlockHash
    BY <2>2, GetBlockHashAnswers
  <2>3. ASSUME NEW txID \in {c.txid : c \in UNION Chainstates}, GetOutputs(txID)
        PROVE  ChainstateInv'
    BY <2>1, <2>3, GetOutputsAnswers
  <2>4. ASSUME NEW txID \in {c.txid : c \in UNION Chainstates},
               NEW index \in {c.vout : c \in UNION Chainstates}, GetOutput(txID, index)
        PROVE  ChainstateInv'
    BY <2>1, <2>4, GetOutputAnswers
  <2> QED BY <1>6, <2>2, <2>3, <2>4 DEF Questions
<1>7. CASE UNCHANGED vars
  <2>1. /\ Written' /\ written' = written
        /\ \A c : coinRecord(c)' = coinRecord(c)
    BY <1>7, StaysWritten DEF ChainstateInv, vars, disk
  <2> QED BY <1>7, <2>1
        DEF ChainstateInv, KeyIsTheWriters, DeliveredInOrder, AnswersAreTheCoins, vars,
            disk
<1>8. CASE GetFails
  BY <1>8, GetFailsKeepsInv
<1> QED BY <1>1, <1>2, <1>3, <1>4, <1>5, <1>6, <1>7, <1>8 DEF Next

-----------------------------------------------------------------------------
(* The theorems. *)

\* chainstate.DB and its iterator: whatever the process does with the copy of a
\* chainstate, the invariant holds.
THEOREM ChainstateInvariant == Spec => []ChainstateInv
<1>1. Init => ChainstateInv
  BY InitInv
<1>2. ChainstateInv /\ [Next]_vars => ChainstateInv'
  BY NextKeepsInv
<1> QED BY <1>1, <1>2, PTL DEF Spec

\* iterator.go: the migration gets the coins the node has written, from the first
\* in the order of their keys, each once and those of a transaction together; all
\* of them, if LevelDB could read every record.
THEOREM SpecDeliversTheCoins == Spec => []DeliversTheCoins
<1>1. ChainstateInv => DeliversTheCoins
  BY InvDelivers
<1> QED BY <1>1, ChainstateInvariant, PTL

\* db.go: chainstate-cli is answered with the coins and the block the node wrote;
\* with some of a transaction's coins, if LevelDB could not read on.
THEOREM SpecAnswersAreTheCoins == Spec => []AnswersAreTheCoins
<1>1. ChainstateInv => AnswersAreTheCoins
  BY DEF ChainstateInv
<1> QED BY <1>1, ChainstateInvariant, PTL

\* compression.go, Coin and TransactionOutput: what the writer, the sizes, the
\* reader of slices and the reader of streams make of every coin of a chainstate,
\* and on which coins the two readers disagree.
THEOREM SpecFormatsAgree == Spec => []FormatsAgree
<1>1. ChainstateInv => FormatsAgree
  BY WrittenFormats DEF ChainstateInv
<1> QED BY <1>1, ChainstateInvariant, PTL
===============================================================================
