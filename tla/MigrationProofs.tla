---------------------------- MODULE MigrationProofs ----------------------------
(***************************************************************************)
(* Safety of the migration, for every chain, every order of the chainstate's *)
(* keys, every batch size and any number of crashes and failed batches, when *)
(* the node does not go on while a migration is cut short.                  *)
(***************************************************************************)
EXTENDS Migration, DataProofs

-----------------------------------------------------------------------------
(* The inductive invariant. *)

\* The first n transactions of the chainstate of block h, and the coins of t.
First(h, n) == {TxsAt[h][i] : i \in 1..n}
CoinsAt(h, t) == {u \in UTXOSet(h) : u[1] = t}

\* The database d holds them, with their references, and no other.
FilledTo(d, h, n) ==
  /\ \A t \in First(h, n) : d.txs[t] \in Entry /\ UtxosOf(t, d.txs[t]) = CoinsAt(h, t)
  /\ \A t \in TxID \ First(h, n) : d.txs[t] = Absent
  /\ \A a \in Addr :
       d.idx[a] = {t \in First(h, n) : \E u \in CoinsAt(h, t) : a \in u[3]}

Filled(d) == FilledTo(d, cs, Len(TxsAt[cs]))
Complete(d) == Filled(d) /\ d.hash = Chain[cs].hash /\ d.height = cs

\* How far the version o + 1 is: a whole number of transactions, then the hash,
\* then the height; the migration is never ahead of what is stored.
Filling(d) ==
  /\ \E n \in 0..Len(TxsAt[cs]) :
       FilledTo(d, cs, n) /\ (pc = "migrating" => pos <= n)
  /\ d.hash /= NoHash => Filled(d) /\ d.hash = Chain[cs].hash
  /\ d.height /= 0 => d.hash /= NoHash /\ d.height = cs

\* The oldest version o is the one in use until o + 1 is known, which is then
\* complete and ahead of whatever is left of o.
InUse(o) ==
  \/ versions = {o} /\ SoundStore(dbs[o]) /\ served <= dbs[o].height
  \/ /\ versions = {o, o + 1}
     /\ Complete(dbs[o + 1]) /\ served <= cs
     /\ cs > dbs[o].height /\ pc /= "serving"

\* What is in the version o + 1 has been put there by a migration of this very
\* chainstate, and what was in the others is deleted.
TheOthers(o) ==
  /\ \A v \in Versions : v < o \/ v > o + 1 => dbs[v] = EmptyDb
  /\ o + 1 \in Versions =>
       /\ Filling(dbs[o + 1])
       /\ dbs[o + 1] /= EmptyDb =>
            /\ cs > dbs[o].height
            /\ pc /= "serving"
            /\ pc = "deleting" => versions = {o, o + 1}

Progress(o) ==
  /\ pc \in {"migrating", "hashed", "migrated"} =>
       o + 1 \in Versions /\ cs > dbs[o].height
  /\ pc \in {"hashed", "migrated"} => dbs[o + 1].hash = Chain[cs].hash
  /\ pc = "migrated" => dbs[o + 1].height = cs
  /\ pc = "serving" => served = dbs[o].height

Sound(o) == InUse(o) /\ TheOthers(o) /\ Progress(o)

MigrationInvariant ==
  /\ TypeOK
  /\ versions = {} => /\ pc = "down" /\ served = 0
                      /\ \A v \in Versions : dbs[v] = EmptyDb
  /\ versions /= {} => \E o \in Versions : Sound(o)
-----------------------------------------------------------------------------
(* Induction over an interval, with a set in the place of a predicate, and   *)
(* the recursive functions it gives.                                        *)

LEMMA IntervalInduction ==
  ASSUME NEW n \in Nat, NEW T, 0 \in T,
         \A i \in 1..n : i - 1 \in T => i \in T
  PROVE  \A i \in 0..n : i \in T
<1> DEFINE B == {i \in 0..n : i \notin T}
           R == OpToRel(<, Nat)
<1> SUFFICES ASSUME B /= {} PROVE FALSE
  OBVIOUS
<1>1. B \subseteq Nat
  OBVIOUS
<1>2. IsWellFoundedOn(R, Nat)
  BY NatLessThanWellFounded
<1>3. PICK m \in B : \A y \in B : <<y, m>> \notin R
  <2> HIDE DEF R, B
  <2> QED BY <1>1, <1>2, WFMin
<1>4. m \in 1..n /\ m - 1 \in 0..n
  OBVIOUS
<1>5. <<m - 1, m>> \in R
  BY <1>4 DEF OpToRel
<1>6. m - 1 \in T
  BY <1>3, <1>4, <1>5
<1> QED BY <1>4, <1>6

\* A recursive function exists when each of its steps is a function on S.
StepsOn(n, S) == [1..n -> [S -> S]]
IsRun(g, n, base, step) ==
  \A i \in 0..n : g[i] = IF i = 0 THEN base ELSE step[i][g[i - 1]]

LEMMA RecursionExists ==
  ASSUME NEW n \in Nat, NEW S, NEW base \in S, NEW step \in StepsOn(n, S)
  PROVE  \E g \in [0..n -> S] : IsRun(g, n, base, step)
<1>0. step \in [1..n -> [S -> S]]
  BY DEF StepsOn
<1> DEFINE Upto(g, k) ==
             \A i \in 0..k : g[i] = IF i = 0 THEN base ELSE step[i][g[i - 1]]
           Exists(k) == \E g \in [0..k -> S] : Upto(g, k)
           T == {k \in 0..n : Exists(k)}
<1>1. 0 \in T
  <2> DEFINE g == [i \in 0..0 |-> base]
  <2>1. g \in [0..0 -> S] /\ Upto(g, 0)
    OBVIOUS
  <2> HIDE DEF g
  <2>2. Exists(0)
    BY <2>1
  <2> HIDE DEF Exists
  <2> QED BY <2>2
<1>2. ASSUME NEW k \in 1..n, k - 1 \in T PROVE k \in T
  <2>1. PICK g \in [0..(k - 1) -> S] : Upto(g, k - 1)
    BY <1>2
  <2> DEFINE f == [i \in 0..k |-> IF i = k THEN step[k][g[k - 1]] ELSE g[i]]
  <2>2. k - 1 \in 0..(k - 1) /\ g[k - 1] \in S /\ step[k][g[k - 1]] \in S
    BY <1>0
  <2>3. f \in [0..k -> S]
    BY <2>2
  <2>4. ASSUME NEW i \in 0..k
        PROVE  f[i] = IF i = 0 THEN base ELSE step[i][f[i - 1]]
    <3>1. CASE i = k
      <4>1. i /= 0 /\ i - 1 \in 0..k /\ i - 1 /= k
        BY <3>1
      <4>2. f[i - 1] = g[k - 1]
        BY <3>1, <4>1
      <4> QED BY <3>1, <4>1, <4>2
    <3>2. CASE i /= k
      <4>1. i \in 0..(k - 1) /\ f[i] = g[i]
        BY <3>2
      <4>2. i /= 0 => i - 1 \in 0..k /\ i - 1 /= k /\ f[i - 1] = g[i - 1]
        BY <3>2
      <4> QED BY <2>1, <4>1, <4>2
    <3> QED BY <3>1, <3>2
  <2> HIDE DEF f
  <2>5. Exists(k)
    BY <2>3, <2>4
  <2> HIDE DEF Exists
  <2> QED BY <2>5
<1>3. \A k \in 0..n : k \in T
  <2> HIDE DEF T
  <2> QED BY <1>1, <1>2, IntervalInduction
<1>4. n \in T
  BY <1>3
<1> QED BY <1>4 DEF IsRun

-----------------------------------------------------------------------------
(* The conversion of a transaction of the chainstate. *)

\* The coins of a transaction belong to one block and have a number each.
LEMMA CoinsShape ==
  ASSUME NEW h \in Heights, NEW t
  PROVE  /\ \A u \in CoinsAt(h, t) : /\ u = <<t, u[2], u[3], u[4]>>
                                     /\ u[2] \in Nat \ {0} /\ u[3] \in SUBSET Addr
                                     /\ u[4] \in 1..h /\ u[4] \in Heights
                                     /\ t \in BlockIds(u[4]) /\ t \in TxID
         /\ \A u, w \in CoinsAt(h, t) : u[4] = w[4] /\ (u[2] = w[2] => u = w)
<1>1. ASSUME NEW u \in CoinsAt(h, t)
      PROVE  \E k, i, v :
               /\ k \in 1..h /\ i \in TxNos(k) /\ v \in DOMAIN TxAt(k, i).outs
               /\ k \in Heights /\ t \in BlockIds(k) /\ t \in TxID
               /\ TxAt(k, i).id = t
               /\ u = <<t, v, TxAt(k, i).outs[v].addrs, k>>
  <2>1. u \in UTXOSet(h) /\ u[1] = t
    BY DEF CoinsAt
  <2>2. PICK k \in 1..h : k \in Heights /\ u \in CreatedBy(k) /\ u[1] \in BlockIds(k)
    BY <2>1, UTXOSetOrigin
  <2> QED BY <2>1, <2>2, CreatedByType
<1>2. ASSUME NEW k \in Heights, NEW i \in TxNos(k), NEW v \in DOMAIN TxAt(k, i).outs
      PROVE  v \in Nat \ {0} /\ TxAt(k, i).outs[v].addrs \in SUBSET Addr
  <2>1. TxAt(k, i).outs \in Seq(NodeOutput)
    BY BlockType
  <2>2. v \in 1..Len(TxAt(k, i).outs) /\ Len(TxAt(k, i).outs) \in Nat
    BY <2>1
  <2>3. TxAt(k, i).outs[v] \in NodeOutput
    BY <2>1, <2>2
  <2> QED BY <2>2, <2>3 DEF NodeOutput
<1>3. ASSUME NEW u \in CoinsAt(h, t)
      PROVE  /\ u = <<t, u[2], u[3], u[4]>>
             /\ u[2] \in Nat \ {0} /\ u[3] \in SUBSET Addr
             /\ u[4] \in 1..h /\ u[4] \in Heights
             /\ t \in BlockIds(u[4]) /\ t \in TxID
  <2>1. PICK k, i, v :
               /\ k \in 1..h /\ i \in TxNos(k) /\ v \in DOMAIN TxAt(k, i).outs
               /\ k \in Heights /\ t \in BlockIds(k) /\ t \in TxID
               /\ u = <<t, v, TxAt(k, i).outs[v].addrs, k>>
    BY <1>1
  <2> QED BY <2>1, <1>2
<1>4. ASSUME NEW u \in CoinsAt(h, t), NEW w \in CoinsAt(h, t)
      PROVE  u[4] = w[4] /\ (u[2] = w[2] => u = w)
  <2>1. PICK k, i, v :
               /\ k \in 1..h /\ i \in TxNos(k) /\ v \in DOMAIN TxAt(k, i).outs
               /\ k \in Heights /\ t \in BlockIds(k) /\ TxAt(k, i).id = t
               /\ u = <<t, v, TxAt(k, i).outs[v].addrs, k>>
    BY <1>1
  <2>2. PICK g, j, x :
               /\ g \in 1..h /\ j \in TxNos(g) /\ x \in DOMAIN TxAt(g, j).outs
               /\ g \in Heights /\ t \in BlockIds(g) /\ TxAt(g, j).id = t
               /\ w = <<t, x, TxAt(g, j).outs[x].addrs, g>>
    BY <1>1
  <2>3. g = k
    BY <2>1, <2>2, UniqueIds
  <2>4. j = i
    BY <2>1, <2>2, <2>3, UniqueTx
  <2> QED BY <2>1, <2>2, <2>3, <2>4
<1> QED BY <1>3, <1>4

OutputList == Seq({Spent} \union SUBSET Addr)

\* An output goes to its place, and the places the list had keep theirs.
LEMMA PushedElement ==
  ASSUME NEW list \in OutputList, NEW as \in SUBSET Addr, NEW place \in Nat \ {0}
  PROVE  LET l == PushElementToPlace(list, as, place)
         IN  /\ l \in OutputList
             /\ DOMAIN list \subseteq DOMAIN l /\ place \in DOMAIN l
             /\ \A v \in DOMAIN l :
                  l[v] = IF v = place THEN as ELSE IF v \in DOMAIN list THEN list[v] ELSE Spent
<1> DEFINE m == Max({Len(list), place})
           l == [v \in 1..m |->
                   IF v = place THEN as ELSE IF v <= Len(list) THEN list[v] ELSE Spent]
<1>1. Len(list) \in Nat /\ DOMAIN list = 1..Len(list)
      /\ list \in [1..Len(list) -> {Spent} \union SUBSET Addr]
  BY DEF OutputList
<1>2. m \in Nat /\ m >= Len(list) /\ m >= place
  <2>1. \E x \in {Len(list), place} : \A y \in {Len(list), place} : x >= y
    BY <1>1
  <2>2. m \in {Len(list), place} /\ \A y \in {Len(list), place} : m >= y
    BY <2>1 DEF Max
  <2> QED BY <1>1, <2>2
<1> HIDE DEF m
<1>3. l \in [1..m -> {Spent} \union SUBSET Addr] /\ DOMAIN l = 1..m
  <2> DEFINE X == {Spent} \union SUBSET Addr
  <2>1. as \in X /\ Spent \in X /\ \A v \in 1..Len(list) : list[v] \in X
    BY <1>1
  <2> HIDE DEF X
  <2>2. Len(list) \in Nat
    BY <1>1
  <2>3. ASSUME NEW v \in 1..m
        PROVE  (IF v = place THEN as ELSE IF v <= Len(list) THEN list[v] ELSE Spent) \in X
    <3>1. v <= Len(list) => v \in 1..Len(list)
      BY <1>2, <2>2
    <3> QED BY <2>1, <3>1
  <2>4. l \in [1..m -> X]
    BY <2>3
  <2> QED BY <2>4 DEF X
<1>4. l \in OutputList
  <2> HIDE DEF l
  <2> QED BY <1>2, <1>3 DEF OutputList
<1>5. PushElementToPlace(list, as, place) = l
  BY DEF PushElementToPlace, m
<1>6. DOMAIN list \subseteq DOMAIN l /\ place \in DOMAIN l
  BY <1>1, <1>2, <1>3
<1>7. \A v \in DOMAIN l :
        l[v] = IF v = place THEN as ELSE IF v \in DOMAIN list THEN list[v] ELSE Spent
  BY <1>1, <1>3
<1> HIDE DEF l
<1> QED BY <1>4, <1>5, <1>6, <1>7

\* In whatever order the outputs come, the list has each of them at the place of
\* its number, and nil elsewhere.
LEMMA ConvertedOutputs ==
  ASSUME cs \in Heights, NEW t \in ToSet(TxsAt[cs])
  PROVE  LET outs == ConvertUTXOlistToTransactionOutputList(t)
         IN  /\ outs \in OutputList
             /\ \A v \in DOMAIN outs : outs[v] /= Spent => \E u \in CoinsAt(cs, t) : u[2] = v
             /\ \A u \in CoinsAt(cs, t) : u[2] \in DOMAIN outs /\ outs[u[2]] = u[3]
<1> DEFINE vouts   == VoutsAt[cs][t]
           N       == Len(vouts)
           coin(v) == CHOOSE u \in Coins(t) : u[2] = v
           IsList(g) == g = [n \in 0..N |->
                               IF n = 0 THEN <<>>
                               ELSE PushElementToPlace(g[n - 1], coin(vouts[n])[3], vouts[n])]
           list == CHOOSE g : IsList(g)
<1>1. Coins(t) = CoinsAt(cs, t)
  BY DEF Coins, CoinsAt
<1>2. /\ vouts \in Seq(Nat \ {0}) /\ N \in Nat
      /\ \A i \in 1..N : vouts[i] \in Nat \ {0}
      /\ \A i \in 1..N : \E u \in CoinsAt(cs, t) : u[2] = vouts[i]
      /\ \A u \in CoinsAt(cs, t) : \E i \in 1..N : u[2] = vouts[i]
  <2>1. vouts \in Seq(Nat \ {0}) /\ ToSet(vouts) = {u[2] : u \in CoinsAt(cs, t)}
    BY MigrationConstants DEF CoinsAt
  <2>2. N \in Nat /\ DOMAIN vouts = 1..N /\ \A i \in 1..N : vouts[i] \in Nat \ {0}
    BY <2>1
  <2>3. ToSet(vouts) = {vouts[i] : i \in 1..N}
    BY <2>2 DEF ToSet
  <2> QED BY <2>1, <2>2, <2>3
<1>3. ASSUME NEW i \in 1..N
      PROVE  /\ coin(vouts[i]) \in CoinsAt(cs, t) /\ coin(vouts[i])[2] = vouts[i]
             /\ coin(vouts[i])[3] \in SUBSET Addr
  <2>1. coin(vouts[i]) \in CoinsAt(cs, t) /\ coin(vouts[i])[2] = vouts[i]
    BY <1>1, <1>2
  <2> QED BY <2>1, CoinsShape
<1>4. /\ ConvertUTXOlistToTransactionOutputList(t) = list[N]
  BY DEF ConvertUTXOlistToTransactionOutputList
<1> HIDE DEF N, vouts, coin
<1>5. <<>> \in OutputList
  BY DEF OutputList
<1>6. \E g : IsList(g)
  <2> DEFINE step == [i \in 1..N |-> [l \in OutputList |->
                        PushElementToPlace(l, coin(vouts[i])[3], vouts[i])]]
  <2>1. step \in [1..N -> [OutputList -> OutputList]]
    <3>1. ASSUME NEW i \in 1..N, NEW l \in OutputList
          PROVE  PushElementToPlace(l, coin(vouts[i])[3], vouts[i]) \in OutputList
      <4>1. vouts[i] \in Nat \ {0} /\ coin(vouts[i])[3] \in SUBSET Addr
        BY <1>2, <1>3
      <4> QED BY <4>1, PushedElement
    <3> QED BY <3>1
  <2>2. ASSUME NEW i \in 1..N, NEW l \in OutputList
        PROVE  step[i][l] = PushElementToPlace(l, coin(vouts[i])[3], vouts[i])
    OBVIOUS
  <2> HIDE DEF step
  <2>3. PICK g \in [0..N -> OutputList] : IsRun(g, N, <<>>, step)
    <3>1. N \in Nat /\ step \in StepsOn(N, OutputList)
      BY <1>2, <2>1 DEF StepsOn
    <3> QED BY <1>5, <3>1, RecursionExists
  <2>4. ASSUME NEW i \in 0..N
        PROVE  g[i] = IF i = 0 THEN <<>>
                      ELSE PushElementToPlace(g[i - 1], coin(vouts[i])[3], vouts[i])
    <3>1. i /= 0 => i \in 1..N /\ i - 1 \in 0..N /\ g[i - 1] \in OutputList
      BY <1>2
    <3> QED BY <2>2, <2>3, <3>1 DEF IsRun
  <2>5. IsList(g)
    BY <2>4
  <2> HIDE DEF IsList
  <2> QED BY <2>5
<1>7. IsList(list)
  <2> HIDE DEF IsList
  <2> QED BY <1>6
<1>8. list[0] = <<>> /\ \A i \in 1..N :
        list[i] = PushElementToPlace(list[i - 1], coin(vouts[i])[3], vouts[i])
  <2> HIDE DEF list
  <2> QED BY <1>2, <1>7
<1> HIDE DEF list
<1> DEFINE Holds(n) ==
             /\ list[n] \in OutputList
             /\ \A v \in DOMAIN list[n] :
                  list[n][v] /= Spent => \E i \in 1..n : v = vouts[i]
             /\ \A i \in 1..n : /\ vouts[i] \in DOMAIN list[n]
                                /\ list[n][vouts[i]] = coin(vouts[i])[3]
           T == {n \in 0..N : Holds(n)}
<1>9. 0 \in T
  <2>1. Holds(0)
    BY <1>5, <1>8
  <2> HIDE DEF Holds
  <2> QED BY <1>2, <2>1
<1>10. ASSUME NEW n \in 1..N, n - 1 \in T PROVE n \in T
  <2> DEFINE l == list[n - 1]
             x == coin(vouts[n])[3]
  <2>0. Holds(n - 1)
    <3> HIDE DEF Holds
    <3> QED BY <1>10
  <2>1. n \in Nat /\ x \in SUBSET Addr /\ vouts[n] \in Nat \ {0}
    <3>1. n \in Nat /\ vouts[n] \in Nat \ {0}
      BY <1>2
    <3> QED BY <1>3, <3>1
  <2>2. /\ list[n] \in OutputList
        /\ DOMAIN l \subseteq DOMAIN list[n] /\ vouts[n] \in DOMAIN list[n]
        /\ \A v \in DOMAIN list[n] : list[n][v] =
             IF v = vouts[n] THEN x ELSE IF v \in DOMAIN l THEN l[v] ELSE Spent
    <3>1. list[n] = PushElementToPlace(l, x, vouts[n])
      BY <1>8
    <3>2. l \in OutputList
      BY <2>0
    <3> HIDE DEF l, x
    <3> QED BY <2>1, <3>1, <3>2, PushedElement
  <2>3. 1..n = 1..(n - 1) \union {n}
    BY <2>1
  <2>4. ASSUME NEW v \in DOMAIN list[n], list[n][v] /= Spent
        PROVE  \E i \in 1..n : v = vouts[i]
    BY <2>0, <2>2, <2>3, <2>4
  <2>5. ASSUME NEW i \in 1..n
        PROVE  vouts[i] \in DOMAIN list[n] /\ list[n][vouts[i]] = coin(vouts[i])[3]
    <3>1. CASE vouts[i] = vouts[n]
      BY <2>2, <3>1
    <3>2. CASE vouts[i] /= vouts[n]
      <4>1. i \in 1..(n - 1)
        BY <2>3, <3>2
      <4> QED BY <2>0, <2>2, <3>2, <4>1
    <3> QED BY <3>1, <3>2
  <2>6. Holds(n)
    BY <2>2, <2>4, <2>5
  <2> HIDE DEF Holds
  <2> QED BY <2>6
<1>11. Holds(N)
  <2> HIDE DEF T
  <2>1. \A n \in 0..N : n \in T
    BY <1>2, <1>9, <1>10, IntervalInduction
  <2>2. N \in T
    BY <1>2, <2>1
  <2> HIDE DEF Holds
  <2> QED BY <2>2 DEF T
<1>12. \A i \in 1..N : coin(vouts[i]) \in CoinsAt(cs, t) /\ coin(vouts[i])[2] = vouts[i]
  BY <1>3
<1>13. ASSUME NEW u \in CoinsAt(cs, t)
       PROVE  u[2] \in DOMAIN list[N] /\ list[N][u[2]] = u[3]
  <2>1. PICK i \in 1..N : u[2] = vouts[i]
    BY <1>2
  <2>2. coin(vouts[i]) = u
    BY <1>12, <2>1, CoinsShape
  <2> QED BY <1>11, <2>1, <2>2
<1>14. ASSUME NEW v \in DOMAIN list[N], list[N][v] /= Spent
       PROVE  \E u \in CoinsAt(cs, t) : u[2] = v
  BY <1>11, <1>12, <1>14
<1> QED BY <1>4, <1>11, <1>13, <1>14

\* An entry pays an address when one of its coins does.
LEMMA EntryPays ==
  ASSUME NEW t, NEW e, e /= Absent, NEW C, UtxosOf(t, e) = C, NEW a
  PROVE  (\E v \in Unspent(e) : a \in e.outs[v]) <=> (\E u \in C : a \in u[3])
<1>1. C = {<<t, v, e.outs[v], e.height>> : v \in Unspent(e)}
  BY DEF UtxosOf
<1>2. ASSUME NEW v \in Unspent(e), a \in e.outs[v] PROVE \E u \in C : a \in u[3]
  <2>1. <<t, v, e.outs[v], e.height>> \in C
    BY <1>1
  <2>2. <<t, v, e.outs[v], e.height>>[3] = e.outs[v]
    OBVIOUS
  <2> QED BY <1>2, <2>1, <2>2
<1>3. ASSUME NEW u \in C, a \in u[3] PROVE \E v \in Unspent(e) : a \in e.outs[v]
  BY <1>1, <1>3
<1> QED BY <1>2, <1>3

\* So the entry of a transaction is its coins.
LEMMA ConvertedEntry ==
  ASSUME cs \in Heights, NEW t \in ToSet(TxsAt[cs])
  PROVE  /\ txOutputsEntry(t) \in Entry
         /\ UtxosOf(t, txOutputsEntry(t)) = CoinsAt(cs, t)
<1> DEFINE e == txOutputsEntry(t)
           outs == ConvertUTXOlistToTransactionOutputList(t)
           w == CHOOSE u \in Coins(t) : TRUE
<1>1. Coins(t) = CoinsAt(cs, t)
  BY DEF Coins, CoinsAt
<1>2. w \in CoinsAt(cs, t)
  <2>1. \E u \in UTXOSet(cs) : u[1] = t
    BY MigrationConstants
  <2> QED BY <1>1, <2>1 DEF CoinsAt
<1>3. /\ outs \in OutputList
      /\ \A v \in DOMAIN outs : outs[v] /= Spent => \E u \in CoinsAt(cs, t) : u[2] = v
      /\ \A u \in CoinsAt(cs, t) : u[2] \in DOMAIN outs /\ outs[u[2]] = u[3]
  BY ConvertedOutputs
<1>4. e = [height |-> w[4], outs |-> outs]
  BY DEF txOutputsEntry
<1> HIDE DEF w, outs, e
<1>5. \A u \in CoinsAt(cs, t) : /\ u = <<t, u[2], u[3], w[4]>>
                                /\ u[3] /= Spent /\ w[4] \in Nat
  BY <1>2, CoinsShape, ChainType DEF Heights
<1>6. e \in Entry /\ e.height = w[4] /\ e.outs = outs
  BY <1>2, <1>3, <1>4, <1>5 DEF Entry, OutputList
<1>7. UtxosOf(t, e) = {<<t, v, outs[v], w[4]>> : v \in Unspent(e)}
  BY <1>6, ChainType DEF UtxosOf
<1>8. Unspent(e) = {v \in DOMAIN outs : outs[v] /= Spent}
  BY <1>6 DEF Unspent
<1>9. ASSUME NEW v \in Unspent(e) PROVE <<t, v, outs[v], w[4]>> \in CoinsAt(cs, t)
  <2>1. PICK u \in CoinsAt(cs, t) : u[2] = v
    BY <1>3, <1>8
  <2> QED BY <1>3, <1>5, <2>1
<1>10. ASSUME NEW u \in CoinsAt(cs, t)
       PROVE  \E v \in Unspent(e) : u = <<t, v, outs[v], w[4]>>
  <2>1. u[2] \in Unspent(e) /\ outs[u[2]] = u[3]
    BY <1>3, <1>5, <1>8
  <2> QED BY <1>5, <2>1
<1>11. UtxosOf(t, e) = CoinsAt(cs, t)
  BY <1>7, <1>9, <1>10
<1> QED BY <1>6, <1>11 DEF e

-----------------------------------------------------------------------------
(* The database that is being filled. *)

\* The chainstate has every transaction with a coin once.
LEMMA ChainstateTxs ==
  ASSUME NEW h \in Heights
  PROVE  LET n == Len(TxsAt[h])
         IN  /\ n \in Nat /\ TxsAt[h] \in Seq(TxID)
             /\ \A i \in 1..n : TxsAt[h][i] \in TxID /\ TxsAt[h][i] \in ToSet(TxsAt[h])
             /\ First(h, n) = ToSet(TxsAt[h])
             /\ \A u \in UTXOSet(h) : u[1] \in First(h, n)
             /\ \A t \in First(h, n) : t \in TxID /\ CoinsAt(h, t) /= {}
             /\ \A m \in 0..n : First(h, m) \subseteq First(h, n)
             /\ \A i \in 1..n, m \in 0..n : TxsAt[h][i] \in First(h, m) <=> i <= m
<1> DEFINE n == Len(TxsAt[h])
<1>1. /\ TxsAt[h] \in Seq(TxID) /\ IsInjective(TxsAt[h])
      /\ ToSet(TxsAt[h]) = {u[1] : u \in UTXOSet(h)}
  BY MigrationConstants
<1>2. n \in Nat /\ DOMAIN TxsAt[h] = 1..n /\ \A i \in 1..n : TxsAt[h][i] \in TxID
  BY <1>1
<1>3. First(h, n) = ToSet(TxsAt[h])
  BY <1>2 DEF First, ToSet
<1>4. ASSUME NEW i \in 1..n, NEW m \in 0..n
      PROVE  TxsAt[h][i] \in First(h, m) <=> i <= m
  <2>1. ASSUME TxsAt[h][i] \in First(h, m) PROVE i <= m
    <3>1. PICK j \in 1..m : TxsAt[h][i] = TxsAt[h][j]
      BY <2>1 DEF First
    <3>2. i = j
      BY <1>1, <1>2, <3>1 DEF IsInjective
    <3> QED BY <3>1, <3>2
  <2>2. ASSUME i <= m PROVE TxsAt[h][i] \in First(h, m)
    <3>1. i \in 1..m
      BY <2>2
    <3> QED BY <3>1 DEF First
  <2> QED BY <2>1, <2>2
<1>5. \A m \in 0..n : First(h, m) \subseteq First(h, n)
  BY <1>2 DEF First
<1>6. \A t \in First(h, n) : t \in TxID /\ CoinsAt(h, t) /= {}
  BY <1>1, <1>2, <1>3 DEF First, CoinsAt
<1>7. \A u \in UTXOSet(h) : u[1] \in First(h, n)
  BY <1>1, <1>3
<1>8. \A i \in 1..n : TxsAt[h][i] \in ToSet(TxsAt[h])
  BY <1>2 DEF ToSet
<1> HIDE DEF n
<1> QED BY <1>1, <1>2, <1>3, <1>4, <1>5, <1>6, <1>7, <1>8 DEF n

\* The transactions after the first k, up to the m-th.
Slice(h, k, m) == {TxsAt[h][i] : i \in (k + 1)..m}

\* The next batch, whatever its size.
LEMMA NextBatch ==
  ASSUME cs \in Heights, pos \in Nat, pos < Len(TxsOfChainstate), batchSize \in Nat \ {0}
  PROVE  \E m \in (pos + 1)..Len(TxsAt[cs]) :
           /\ pos + Len(utxoBatch) = m
           /\ ToSet(utxoBatch) = Slice(cs, pos, m)
           /\ Last(utxoBatch) = TxsAt[cs][m]
<1> DEFINE n == Len(TxsAt[cs])
           m == Min({pos + batchSize, n})
<1>1. TxsAt[cs] \in Seq(TxID) /\ n \in Nat /\ pos < n
  BY ChainstateTxs DEF TxsOfChainstate
<1>2. m \in (pos + 1)..n
  <2>1. \E x \in {pos + batchSize, n} : \A y \in {pos + batchSize, n} : x <= y
    BY <1>1
  <2>2. m \in {pos + batchSize, n} /\ \A y \in {pos + batchSize, n} : m <= y
    BY <2>1 DEF Min
  <2> QED BY <1>1, <2>2
<1>3. utxoBatch = SubSeq(TxsAt[cs], pos + 1, m)
  BY DEF utxoBatch, TxsOfChainstate
<1> HIDE DEF m
<1>4. /\ Len(utxoBatch) = m - pos
      /\ DOMAIN utxoBatch = 1..(m - pos)
      /\ \A i \in 1..(m - pos) : utxoBatch[i] = TxsAt[cs][pos + i]
  BY <1>1, <1>2, <1>3
<1>5. Last(utxoBatch) = TxsAt[cs][m]
  BY <1>2, <1>4 DEF Last
<1>6. ToSet(utxoBatch) = Slice(cs, pos, m)
  <2>1. ASSUME NEW i \in 1..(m - pos) PROVE pos + i \in (pos + 1)..m
    BY <1>2
  <2>2. ASSUME NEW i \in (pos + 1)..m
        PROVE  i - pos \in 1..(m - pos) /\ utxoBatch[i - pos] = TxsAt[cs][i]
    BY <1>2, <1>4
  <2>3. ToSet(utxoBatch) = {utxoBatch[i] : i \in 1..(m - pos)}
    BY <1>4 DEF ToSet
  <2>4. ToSet(utxoBatch) \subseteq Slice(cs, pos, m)
    BY <1>4, <2>1, <2>3 DEF Slice
  <2>5. Slice(cs, pos, m) \subseteq ToSet(utxoBatch)
    BY <2>2, <2>3 DEF Slice
  <2> QED BY <2>4, <2>5
<1> QED BY <1>2, <1>4, <1>5, <1>6

LEMMA EmptyIsFilled ==
  ASSUME NEW h \in Heights
  PROVE  EmptyDb \in Db /\ FilledTo(EmptyDb, h, 0) /\ SoundStore(EmptyDb)
<1>1. EmptyDb \in Db
  BY ChainType DEF EmptyDb, Db, NoTxs, NoRefs, Heights
<1>2. /\ \A t \in TxID : EmptyDb.txs[t] = Absent
      /\ \A a \in Addr : EmptyDb.idx[a] = {}
      /\ EmptyDb.hash = NoHash /\ EmptyDb.height = 0
      /\ EmptyDb.txs = NoTxs /\ EmptyDb.idx = NoRefs
  BY DEF EmptyDb, NoTxs, NoRefs
<1>3. First(h, 0) = {}
  BY DEF First
<1> HIDE DEF EmptyDb
<1>4. FilledTo(EmptyDb, h, 0)
  BY <1>2, <1>3 DEF FilledTo
<1>5. Utxos(EmptyDb) = {}
  BY <1>1, <1>2, UtxosMembers
<1>6. SoundStore(EmptyDb)
  BY <1>2, <1>5, UTXOSetEmpty
     DEF SoundStore, AtBlock, getUnspentOutputsByAddress, Paying
<1> QED BY <1>1, <1>4, <1>6

\* A batch is added to what is there, be it stored already or in part.
LEMMA BatchStored ==
  ASSUME cs \in Heights, NEW d \in Db, NEW batch,
         NEW n \in 0..Len(TxsAt[cs]), NEW k \in 0..n, NEW m \in (k + 1)..Len(TxsAt[cs]),
         FilledTo(d, cs, n), ToSet(batch) = Slice(cs, k, m)
  PROVE  LET e == AddTransactionOutputsBatch(d, batch)
         IN  /\ e \in Db /\ e.hash = d.hash /\ e.height = d.height
             /\ FilledTo(e, cs, IF m > n THEN m ELSE n)
<1> DEFINE e == AddTransactionOutputsBatch(d, batch)
           N == Len(TxsAt[cs])
           x == IF m > n THEN m ELSE n
           B == ToSet(batch)
<1>1. N \in Nat /\ x \in 0..N
  BY ChainstateTxs
<1>2. First(cs, x) = First(cs, n) \union B
  BY <1>1 DEF First, Slice
<1>3. \A t \in First(cs, x) : t \in TxID /\ t \in ToSet(TxsAt[cs])
  BY <1>1, ChainstateTxs
<1>4. \A t \in B : /\ txOutputsEntry(t) \in Entry /\ txOutputsEntry(t) /= Absent
                   /\ UtxosOf(t, txOutputsEntry(t)) = CoinsAt(cs, t)
  BY <1>2, <1>3, ConvertedEntry, ChainType
<1>5. /\ d.txs \in [TxID -> Entry \union {Absent}]
      /\ d.idx \in [Addr -> SUBSET TxID]
  BY DEF Db
<1>6. /\ e.hash = d.hash /\ e.height = d.height
      /\ e.txs = [t \in TxID |-> IF t \in B THEN txOutputsEntry(t) ELSE d.txs[t]]
      /\ e.idx = [a \in Addr |-> d.idx[a] \union
                   {t \in B : \E v \in Unspent(txOutputsEntry(t)) :
                                 a \in txOutputsEntry(t).outs[v]}]
      /\ e = [hash |-> e.hash, height |-> e.height, txs |-> e.txs, idx |-> e.idx]
  <2> DEFINE txs == [t \in TxID |-> IF t \in B THEN txOutputsEntry(t) ELSE d.txs[t]]
             idx == [a \in Addr |-> d.idx[a] \union
                      {t \in B : \E v \in Unspent(txOutputsEntry(t)) :
                                    a \in txOutputsEntry(t).outs[v]}]
  <2>1. e = [d EXCEPT !.txs = txs, !.idx = idx]
    BY DEF AddTransactionOutputsBatch
  <2> HIDE DEF txs, idx, e
  <2>2. e = [hash |-> d.hash, height |-> d.height, txs |-> txs, idx |-> idx]
    BY <2>1 DEF Db
  <2>3. e.hash = d.hash /\ e.height = d.height /\ e.txs = txs /\ e.idx = idx
    BY <2>2
  <2> QED BY <2>2, <2>3 DEF txs, idx
<1> HIDE DEF e, B, N, x
<1>7. e.txs \in [TxID -> Entry \union {Absent}]
  BY <1>4, <1>5, <1>6
<1>8. B \subseteq TxID
  BY <1>2, <1>3
<1>9. e.idx \in [Addr -> SUBSET TxID]
  <2> SUFFICES ASSUME NEW a \in Addr PROVE e.idx[a] \subseteq TxID
    BY <1>6
  <2> QED BY <1>5, <1>6, <1>8
<1>10. e \in Db
  BY <1>6, <1>7, <1>9 DEF Db
<1>11. ASSUME NEW t \in First(cs, x)
       PROVE  e.txs[t] \in Entry /\ UtxosOf(t, e.txs[t]) = CoinsAt(cs, t)
  <2>1. t \in TxID
    BY <1>3
  <2>2. CASE t \in B
    BY <1>4, <1>6, <2>1, <2>2
  <2>3. CASE t \notin B
    <3>1. t \in First(cs, n) /\ e.txs[t] = d.txs[t]
      BY <1>2, <1>6, <2>1, <2>3
    <3> QED BY <3>1 DEF FilledTo
  <2> QED BY <2>2, <2>3
<1>12. ASSUME NEW t \in TxID \ First(cs, x) PROVE e.txs[t] = Absent
  BY <1>2, <1>6 DEF FilledTo
<1>13. ASSUME NEW a \in Addr
       PROVE  e.idx[a] = {t \in First(cs, x) : \E u \in CoinsAt(cs, t) : a \in u[3]}
  <2>1. d.idx[a] = {t \in First(cs, n) : \E u \in CoinsAt(cs, t) : a \in u[3]}
    BY DEF FilledTo
  <2>2. \A t \in B : (\E v \in Unspent(txOutputsEntry(t)) : a \in txOutputsEntry(t).outs[v])
                       <=> (\E u \in CoinsAt(cs, t) : a \in u[3])
    BY <1>4, EntryPays
  <2> QED BY <1>2, <1>6, <2>1, <2>2
<1>14. FilledTo(e, cs, x)
  BY <1>11, <1>12, <1>13 DEF FilledTo
<1> QED BY <1>6, <1>10, <1>14 DEF e, x

\* With every batch in it, and the block of the chainstate, it is a sound store.
LEMMA CompleteIsSound ==
  ASSUME NEW d \in Db, NEW h \in Heights, FilledTo(d, h, Len(TxsAt[h])),
         d.hash = Chain[h].hash, d.height = h
  PROVE  SoundStore(d)
<1> DEFINE S == First(h, Len(TxsAt[h]))
<1>1. /\ \A u \in UTXOSet(h) : u[1] \in S
      /\ \A t \in S : t \in TxID /\ CoinsAt(h, t) /= {}
  BY ChainstateTxs
<1>2. /\ \A t \in S : d.txs[t] \in Entry /\ UtxosOf(t, d.txs[t]) = CoinsAt(h, t)
      /\ \A t \in TxID \ S : d.txs[t] = Absent
      /\ \A a \in Addr : d.idx[a] = {t \in S : \E u \in CoinsAt(h, t) : a \in u[3]}
  BY DEF FilledTo
<1> HIDE DEF S
<1>3. ASSUME NEW u PROVE u \in Utxos(d) <=> u \in UTXOSet(h)
  <2>1. u \in Utxos(d) <=> \E t \in TxID : u \in UtxosOf(t, d.txs[t])
    BY UtxosByTx
  <2>2. \A t \in TxID \ S : UtxosOf(t, d.txs[t]) = {}
    BY <1>2 DEF UtxosOf
  <2> QED BY <1>1, <1>2, <2>1, <2>2 DEF CoinsAt
<1>4. ASSUME NEW a \in Addr
      PROVE  getUnspentOutputsByAddress(d, a) = Paying(UTXOSet(d.height), a)
  <2>1. \A u \in UTXOSet(h) : a \in u[3] => u[1] \in d.idx[a]
    BY <1>1, <1>2 DEF CoinsAt
  <2> QED BY <1>3, <2>1 DEF getUnspentOutputsByAddress, Paying
<1>5. AtBlock(d)
  <2>1. Utxos(d) = UTXOSet(d.height)
    BY <1>3
  <2> QED BY <1>4, <2>1 DEF AtBlock
<1>6. d.hash /= NoHash
  BY BlockType, ChainType DEF Block
<1>7. ASSUME NEW t \in TxID, d.txs[t] /= Absent PROVE Unspent(d.txs[t]) /= {}
  BY <1>1, <1>2, <1>7 DEF UtxosOf
<1>8. ASSUME NEW a \in Addr, NEW t \in d.idx[a], NEW k \in (d.height + 1)..MaxHeight
      PROVE  t \notin BlockIds(k)
  <2>1. PICK u \in CoinsAt(h, t) : TRUE
    BY <1>2
  <2>2. u[4] \in 1..h /\ u[4] \in Heights /\ t \in BlockIds(u[4])
    BY <2>1, CoinsShape
  <2>3. k \in Heights /\ k /= u[4]
    BY <2>2, ChainType DEF Heights
  <2> QED BY <2>2, <2>3, UniqueIds
<1> QED BY <1>5, <1>6, <1>7, <1>8 DEF SoundStore

-----------------------------------------------------------------------------
(* The steps. *)

LEMMA VersionsInUse ==
  ASSUME NEW o \in Versions, InUse(o)
  PROVE  /\ o \in Nat /\ versions /= {} /\ getOldestVersion = o /\ target = o + 1
         /\ versions = {o} => getNewestVersion = o /\ Cardinality(versions) = 1
         /\ versions /= {o} => /\ versions = {o, o + 1} /\ getNewestVersion = o + 1
                               /\ Cardinality(versions) = 2
<1>1. o \in Nat
  BY MigrationConstants DEF Versions
<1>2. versions = {o} \/ versions = {o, o + 1}
  BY DEF InUse
<1>3. getOldestVersion = o
  <2>1. o \in versions /\ \A y \in versions : o <= y
    BY <1>1, <1>2
  <2>2. \A x \in versions : (\A y \in versions : x <= y) => x = o
    BY <1>1, <1>2
  <2> QED BY <2>1, <2>2 DEF getOldestVersion, Min
<1>4. versions = {o} => getNewestVersion = o
  <2>1. versions = {o} => o \in versions /\ \A y \in versions : o >= y
    BY <1>1
  <2> QED BY <2>1 DEF getNewestVersion, Max
<1>5. versions = {o, o + 1} => getNewestVersion = o + 1
  <2>1. versions = {o, o + 1} =>
          /\ o + 1 \in versions /\ \A y \in versions : o + 1 >= y
          /\ \A x \in versions : (\A y \in versions : x >= y) => x = o + 1
    BY <1>1
  <2> QED BY <2>1 DEF getNewestVersion, Max
<1>6. Cardinality({o}) = 1
  BY FS_Singleton
<1>7. Cardinality({o, o + 1}) = 2
  <2>0. IsFiniteSet({o})
    BY FS_Singleton
  <2>1. {o, o + 1} = {o} \union {o + 1} /\ o + 1 \notin {o}
    BY <1>1
  <2>2. Cardinality({o} \union {o + 1}) = Cardinality({o}) + 1
    BY <2>0, <2>1, FS_AddElement
  <2> QED BY <1>6, <2>1, <2>2
<1> QED BY <1>1, <1>2, <1>3, <1>4, <1>5, <1>6, <1>7 DEF target

\* A step that changes neither the databases nor what is known of them.
LEMMA SameDbs ==
  ASSUME NEW o \in Versions, Sound(o), UNCHANGED <<versions, dbs, cs, served>>,
         pc' = "migrating" =>
           /\ o + 1 \in Versions => \A n \in 0..Len(TxsAt[cs]) :
                (FilledTo(dbs[o + 1], cs, n) /\ (pc = "migrating" => pos <= n)) => pos' <= n
           /\ o + 1 \in Versions /\ cs > dbs[o].height,
         pc' \in {"hashed", "migrated", "serving"} => pc' = pc,
         pc' = "deleting" =>
           versions = {o, o + 1} \/ (o + 1 \in Versions => dbs[o + 1] = EmptyDb)
  PROVE  Sound(o)'
<1>1. InUse(o)'
  BY DEF Sound, InUse, Complete, Filled
<1>2. ASSUME o + 1 \in Versions PROVE Filling(dbs[o + 1])'
  <2>1. PICK n \in 0..Len(TxsAt[cs]) :
          FilledTo(dbs[o + 1], cs, n) /\ (pc = "migrating" => pos <= n)
    BY <1>2 DEF Sound, TheOthers, Filling
  <2>2. pc' = "migrating" => pos' <= n
    BY <1>2, <2>1
  <2>3. \E i \in 0..Len(TxsAt[cs']) :
          FilledTo(dbs'[o + 1], cs', i) /\ (pc' = "migrating" => pos' <= i)
    BY <2>1, <2>2
  <2>4. /\ dbs[o + 1].hash /= NoHash =>
             FilledTo(dbs[o + 1], cs, Len(TxsAt[cs])) /\ dbs[o + 1].hash = Chain[cs].hash
        /\ dbs[o + 1].height /= 0 => dbs[o + 1].hash /= NoHash /\ dbs[o + 1].height = cs
    BY <1>2 DEF Sound, TheOthers, Filling, Filled
  <2> QED BY <2>3, <2>4 DEF Filling, Filled
<1>3. TheOthers(o)'
  BY <1>2 DEF Sound, TheOthers
<1>4. Progress(o)'
  BY DEF Sound, Progress
<1> QED BY <1>1, <1>3, <1>4 DEF Sound

\* A step that changes the version that is being filled only.
LEMMA FillingStep ==
  ASSUME TypeOK, NEW o \in Versions, Sound(o), pc \in {"migrating", "hashed"},
         UNCHANGED <<versions, cs, served>>,
         NEW d \in Db, dbs' = [dbs EXCEPT ![o + 1] = d],
         Filling(d)', versions = {o, o + 1} => Complete(d),
         pc' \in {"down", "migrating", "hashed", "migrated"},
         pc' \in {"hashed", "migrated"} => d.hash = Chain[cs].hash,
         pc' = "migrated" => d.height = cs
  PROVE  dbs' \in [Versions -> Db] /\ Sound(o)'
<1>1. o \in Nat /\ o + 1 /= o /\ o + 1 \in Versions /\ cs > dbs[o].height
  BY MigrationConstants DEF Versions, Sound, Progress
<1>2. /\ dbs' \in [Versions -> Db] /\ dbs'[o + 1] = d
      /\ \A v \in Versions : v /= o + 1 => dbs'[v] = dbs[v]
  BY <1>1 DEF TypeOK
<1>3. dbs'[o] = dbs[o]
  BY <1>1, <1>2
<1>4. InUse(o)'
  BY <1>2, <1>3 DEF Sound, InUse, Complete, Filled
<1>5. TheOthers(o)'
  <2>1. \A v \in Versions : v < o \/ v > o + 1 => dbs'[v] = EmptyDb
    BY <1>1, <1>2 DEF Sound, TheOthers
  <2> QED BY <1>1, <1>2, <1>3, <2>1 DEF TheOthers
<1>6. Progress(o)'
  BY <1>1, <1>2, <1>3 DEF Progress
<1> QED BY <1>2, <1>4, <1>5, <1>6 DEF Sound

\* A batch goes where the migration is, and it stays a filling of this chainstate.
LEMMA StoreBatchKeeps ==
  ASSUME TypeOK, NEW o \in Versions, Sound(o), pc = "migrating",
         pos < Len(TxsOfChainstate), UNCHANGED cs,
         NEW d, d = AddTransactionOutputsBatch(dbs[o + 1], utxoBatch)
  PROVE  /\ o + 1 \in Versions /\ target = o + 1 /\ d \in Db
         /\ versions = {o, o + 1} => Complete(d)
         /\ pc' = "migrating" /\ pos' \in {pos, pos + Len(utxoBatch)} => Filling(d)'
         /\ pc' = "down" => Filling(d)'
<1> DEFINE b == dbs[o + 1]
           N == Len(TxsAt[cs])
<1>1. /\ o + 1 \in Versions /\ target = o + 1 /\ b \in Db /\ Filling(b)
      /\ cs \in Heights /\ pos \in Nat /\ batchSize \in Nat \ {0} /\ N \in Nat
  BY VersionsInUse, ChainstateTxs, MigrationConstants DEF Sound, Progress, TheOthers, TypeOK
<1>2. PICK m \in (pos + 1)..N : /\ pos + Len(utxoBatch) = m
                                /\ ToSet(utxoBatch) = Slice(cs, pos, m)
  BY <1>1, NextBatch
<1>3. ASSUME NEW n \in 0..N, FilledTo(b, cs, n), pos <= n
      PROVE  /\ d \in Db /\ d.hash = b.hash /\ d.height = b.height
             /\ FilledTo(d, cs, IF m > n THEN m ELSE n)
  <2>1. pos \in 0..n /\ d = AddTransactionOutputsBatch(b, utxoBatch)
    BY <1>1, <1>3
  <2> HIDE DEF b, N
  <2>2. n \in 0..Len(TxsAt[cs]) /\ m \in (pos + 1)..Len(TxsAt[cs])
    BY <1>2 DEF N
  <2> QED BY <1>1, <1>2, <1>3, <2>1, <2>2, BatchStored
<1>4. PICK n \in 0..N : FilledTo(b, cs, n) /\ pos <= n
  BY <1>1 DEF Filling
<1>5. d \in Db /\ d.hash = b.hash /\ d.height = b.height
  BY <1>3, <1>4
<1>6. Filled(b) => Filled(d)
  <2>1. N \in 0..N /\ pos <= N /\ (IF m > N THEN m ELSE N) = N
    BY <1>1, <1>2
  <2>2. FilledTo(b, cs, N) => FilledTo(d, cs, N)
    BY <1>3, <2>1
  <2> QED BY <2>2 DEF Filled
<1>7. \E i \in 0..N : /\ FilledTo(d, cs, i) /\ pos <= i /\ pos + Len(utxoBatch) <= i
  <2> DEFINE i == IF m > n THEN m ELSE n
  <2>1. FilledTo(d, cs, i) /\ i \in 0..N /\ pos <= i /\ m <= i
    BY <1>1, <1>2, <1>3, <1>4
  <2> QED BY <1>2, <2>1
<1>8. /\ d.hash /= NoHash => Filled(d) /\ d.hash = Chain[cs].hash
      /\ d.height /= 0 => d.hash /= NoHash /\ d.height = cs
  BY <1>1, <1>5, <1>6 DEF Filling
<1>9. versions = {o, o + 1} => Complete(d)
  <2>1. versions = {o, o + 1} => versions /= {o}
    BY MigrationConstants DEF Versions
  <2>2. InUse(o)
    BY DEF Sound
  <2>3. versions = {o, o + 1} => Complete(b)
    BY <2>1, <2>2 DEF InUse
  <2> QED BY <1>5, <1>6, <2>3 DEF Complete
<1> HIDE DEF b
<1>10. ASSUME \/ pc' = "migrating" /\ pos' \in {pos, pos + Len(utxoBatch)}
              \/ pc' = "down"
       PROVE  Filling(d)'
  <2>1. cs' = cs
    OBVIOUS
  <2>2. \E i \in 0..N : FilledTo(d, cs, i) /\ (pc' = "migrating" => pos' <= i)
    BY <1>7, <1>10
  <2> QED BY <1>8, <2>1, <2>2 DEF Filling, Filled
<1> QED BY <1>1, <1>5, <1>9, <1>10

\* Deletions, and blocks of the scanner, change the version in use only.
LEMMA OldestStep ==
  ASSUME TypeOK, NEW o \in Versions, Sound(o), UNCHANGED <<versions, cs, pos>>,
         pc \in {"deleting", "serving"}, pc' = pc,
         NEW d \in Db, dbs' = [dbs EXCEPT ![o] = d],
         \/ versions = {o, o + 1} /\ d.height \in {0, dbs[o].height} /\ served' = served
         \/ versions = {o} /\ SoundStore(d) /\ pc = "serving" /\ served' = d.height
  PROVE  dbs' \in [Versions -> Db] /\ Sound(o)'
<1>1. o \in Nat /\ o + 1 /= o
  BY MigrationConstants DEF Versions
<1>2. /\ dbs' \in [Versions -> Db] /\ dbs'[o] = d
      /\ \A v \in Versions : v /= o => dbs'[v] = dbs[v]
  BY DEF TypeOK
<1>3. dbs[o].height \in Nat /\ d.height \in Nat /\ cs \in Nat
  BY ChainType DEF TypeOK, Db, Heights
<1>4. CASE versions = {o, o + 1}
  <2>1. /\ o + 1 \in Versions /\ Complete(dbs[o + 1]) /\ served <= cs
        /\ cs > dbs[o].height /\ pc = "deleting" /\ served' = served
        /\ d.height \in {0, dbs[o].height}
    BY <1>1, <1>4 DEF Sound, InUse, TypeOK
  <2>2. cs > d.height /\ dbs'[o + 1] = dbs[o + 1]
    BY <1>1, <1>2, <1>3, <2>1
  <2>3. InUse(o)'
    BY <1>2, <1>4, <2>1, <2>2 DEF InUse, Complete, Filled
  <2>4. Filling(dbs[o + 1])'
    BY <2>1, <2>2 DEF Sound, TheOthers, Filling, Filled
  <2>5. TheOthers(o)'
    BY <1>1, <1>2, <1>4, <2>1, <2>2, <2>4 DEF Sound, TheOthers
  <2>6. Progress(o)'
    BY <2>1 DEF Progress
  <2> QED BY <1>2, <2>3, <2>5, <2>6 DEF Sound
<1>5. CASE versions = {o}
  <2>1. SoundStore(d) /\ pc = "serving" /\ served' = d.height
    BY <1>1, <1>5
  <2>2. InUse(o)'
    BY <1>2, <1>3, <1>5, <2>1 DEF InUse
  <2>3. o + 1 \in Versions => dbs'[o + 1] = EmptyDb /\ dbs[o + 1] = EmptyDb
    BY <1>1, <1>2, <2>1 DEF Sound, TheOthers
  <2>4. o + 1 \in Versions => Filling(dbs[o + 1])'
    BY <2>1, <2>3 DEF Sound, TheOthers, Filling, Filled
  <2>5. TheOthers(o)'
    BY <1>1, <1>2, <2>3, <2>4 DEF Sound, TheOthers
  <2>6. Progress(o)'
    BY <1>2, <2>1 DEF Progress
  <2> QED BY <1>2, <2>2, <2>5, <2>6 DEF Sound
<1> QED BY <1>4, <1>5 DEF Sound, InUse

LEMMA MigrationStep ==
  ASSUME TypeOK, NEW o \in Versions, Sound(o), Next, "moved" \notin FaultKinds
  PROVE  TypeOK' /\ versions' /= {} /\ \E v \in Versions : Sound(v)'
<1>1. /\ o \in Nat /\ versions /= {} /\ getOldestVersion = o /\ target = o + 1
      /\ versions = {o} => Cardinality(versions) = 1
      /\ versions /= {o} => versions = {o, o + 1} /\ Cardinality(versions) = 2
  BY VersionsInUse DEF Sound
<1>2. /\ dbs[o] \in Db /\ dbs[o].height \in Nat /\ cs \in Heights /\ cs \in Nat
      /\ Len(TxsAt[cs]) \in Nat /\ TxsOfChainstate = TxsAt[cs] /\ served \in Nat
  BY ChainstateTxs, ChainType DEF TypeOK, Db, Heights, TxsOfChainstate
<1>3. CASE Initialize
  BY <1>1, <1>3 DEF Initialize
<1>4. CASE SkipMigration
  <2>1. UNCHANGED <<versions, dbs, cs, served>> /\ pc' = "deleting"
    BY <1>4 DEF SkipMigration
  <2>2. cs <= dbs[o].height
    BY <1>1, <1>4 DEF SkipMigration
  <2>3. o + 1 \in Versions => dbs[o + 1] = EmptyDb
    BY <1>2, <2>2 DEF Sound, TheOthers
  <2>4. Sound(o)'
    BY <2>1, <2>3, SameDbs
  <2> QED BY <1>1, <1>4, <2>1, <2>4 DEF SkipMigration, TypeOK, PCs
<1>5. CASE BeginMigration
  <2>1. /\ UNCHANGED <<versions, dbs, cs, served>> /\ pc' = "migrating" /\ pos' = 0
        /\ o + 1 \in Versions /\ cs > dbs[o].height
    BY <1>1, <1>5 DEF BeginMigration
  <2>2. \A n \in 0..Len(TxsAt[cs]) : pos' <= n
    BY <1>2, <2>1
  <2>3. Sound(o)'
    BY <2>1, <2>2, SameDbs
  <2>4. batchSize' \in BatchSizes /\ restored' = FALSE /\ UNCHANGED faults
    BY <1>5 DEF BeginMigration
  <2> QED BY <1>1, <2>1, <2>3, <2>4 DEF TypeOK, PCs
<1>6. CASE SkipBatch
  <2>1. /\ UNCHANGED <<versions, dbs, cs, served>> /\ pc = "migrating" /\ pc' = pc
        /\ pos < Len(TxsOfChainstate) /\ isStored /\ pos' = pos + Len(utxoBatch)
    BY <1>6 DEF SkipBatch
  <2>2. PICK m \in (pos + 1)..Len(TxsAt[cs]) :
          pos + Len(utxoBatch) = m /\ Last(utxoBatch) = TxsAt[cs][m]
    <3>1. pos \in Nat /\ batchSize \in Nat \ {0}
      BY MigrationConstants DEF TypeOK
    <3> QED BY <1>2, <2>1, <3>1, NextBatch
  <2>3. m \in 1..Len(TxsAt[cs]) /\ pos' = m /\ dbs[o + 1].txs[TxsAt[cs][m]] /= Absent
    BY <1>1, <1>2, <2>1, <2>2 DEF isStored, TypeOK
  <2>4. ASSUME NEW n \in 0..Len(TxsAt[cs]), FilledTo(dbs[o + 1], cs, n)
        PROVE  pos' <= n
    <3>1. TxsAt[cs][m] \in First(cs, n)
      BY <1>2, <2>3, <2>4, ChainstateTxs DEF FilledTo
    <3> QED BY <1>2, <2>3, <3>1, ChainstateTxs
  <2>5. o + 1 \in Versions /\ cs > dbs[o].height
    BY <2>1 DEF Sound, Progress
  <2>6. Sound(o)'
    BY <2>1, <2>4, <2>5, SameDbs
  <2> QED BY <1>1, <1>2, <1>6, <2>1, <2>3, <2>6 DEF SkipBatch, TypeOK
<1>7. CASE StoreBatch
  <2> DEFINE d0 == AddTransactionOutputsBatch(dbs[o + 1], utxoBatch)
  <2>1. PICK d : d = d0
    OBVIOUS
  <2>2. /\ UNCHANGED <<versions, cs, pc, batchSize, served, faults>> /\ pc = "migrating"
        /\ pos < Len(TxsOfChainstate) /\ pos' = pos + Len(utxoBatch)
        /\ dbs' = [dbs EXCEPT ![o + 1] = d] /\ restored' = TRUE
    BY <1>1, <1>7, <2>1 DEF StoreBatch, CanStore
  <2> HIDE DEF d0
  <2>3. o + 1 \in Versions /\ d \in Db /\ Filling(d)' /\ (versions = {o, o + 1} => Complete(d))
    BY <2>1, <2>2, StoreBatchKeeps DEF d0
  <2>4. dbs' \in [Versions -> Db] /\ Sound(o)'
    BY <2>2, <2>3, FillingStep
  <2>5. pos' \in Nat
    <3>1. pos \in Nat /\ batchSize \in Nat \ {0}
      BY MigrationConstants DEF TypeOK
    <3> QED BY <1>2, <2>2, <3>1, NextBatch
  <2> QED BY <1>1, <2>2, <2>4, <2>5 DEF TypeOK
<1>8. CASE StoreBatchFails
  <2> DEFINE d0 == AddTransactionOutputsBatch(dbs[o + 1], utxoBatch)
  <2>1. PICK d : d = d0
    OBVIOUS
  <2>2. /\ UNCHANGED <<versions, cs, batchSize, pos, served>> /\ pc = "migrating"
        /\ pos < Len(TxsOfChainstate) /\ pc' \in {"migrating", "down"} /\ restored' = TRUE
        /\ faults' = faults + 1 /\ faults < MaxFaults
        /\ dbs' = dbs \/ dbs' = [dbs EXCEPT ![o + 1] = d]
    BY <1>1, <1>8, <2>1 DEF StoreBatchFails, CanStore, Fault
  <2> HIDE DEF d0
  <2>3. Sound(o)' /\ dbs' \in [Versions -> Db]
    <3>1. CASE dbs' = dbs
      <4>1. UNCHANGED <<versions, dbs, cs, served>> /\ pos' = pos
        BY <2>2, <3>1
      <4>2. o + 1 \in Versions /\ cs > dbs[o].height
        BY <2>2 DEF Sound, Progress
      <4>3. \A n \in 0..Len(TxsAt[cs]) : (pc = "migrating" => pos <= n) => pos' <= n
        BY <2>2, <4>1
      <4>4. Sound(o)'
        BY <2>2, <4>1, <4>2, <4>3, SameDbs
      <4> QED BY <3>1, <4>4 DEF TypeOK
    <3>2. CASE dbs' = [dbs EXCEPT ![o + 1] = d]
      <4>1. o + 1 \in Versions /\ d \in Db /\ Filling(d)' /\ (versions = {o, o + 1} => Complete(d))
        BY <2>1, <2>2, StoreBatchKeeps DEF d0
      <4> QED BY <2>2, <3>2, <4>1, FillingStep
    <3> QED BY <2>2, <3>1, <3>2
  <2>4. faults' \in 0..MaxFaults
    BY <2>2, MigrationConstants DEF TypeOK
  <2> QED BY <1>1, <2>2, <2>3, <2>4 DEF TypeOK, PCs
<1>9. CASE SetBlockHash
  <2>1. /\ UNCHANGED <<versions, cs, batchSize, pos, restored, served, faults>>
        /\ pc = "migrating" /\ pc' = "hashed" /\ pos = Len(TxsAt[cs])
        /\ dbs' = [dbs EXCEPT ![o + 1].hash = Chain[cs].hash]
    BY <1>1, <1>2, <1>9 DEF SetBlockHash
  <2>2. o + 1 \in Versions /\ dbs[o + 1] \in Db /\ Filling(dbs[o + 1])
    BY <2>1 DEF Sound, Progress, TheOthers, TypeOK
  <2>3. PICK d : d = [dbs[o + 1] EXCEPT !.hash = Chain[cs].hash]
    OBVIOUS
  <2>4. /\ d.hash = Chain[cs].hash /\ d.height = dbs[o + 1].height
        /\ d.txs = dbs[o + 1].txs /\ d.idx = dbs[o + 1].idx /\ d \in Db
    BY <1>2, <2>2, <2>3, BlockType DEF Db, Block
  <2>5. Filled(d)
    <3>1. Filled(dbs[o + 1])
      BY <1>2, <2>1, <2>2 DEF Filling, Filled
    <3> QED BY <2>4, <3>1 DEF Filled, FilledTo
  <2>6. d.hash /= NoHash
    BY <1>2, <2>4, BlockType, ChainType DEF Block
  <2>7. Filling(d)'
    <3>1. Len(TxsAt[cs]) \in 0..Len(TxsAt[cs])
      BY <1>2
    <3>2. d.height /= 0 => d.height = cs
      BY <2>2, <2>4 DEF Filling
    <3> QED BY <2>1, <2>4, <2>5, <2>6, <3>1, <3>2 DEF Filling, Filled
  <2>8. versions = {o, o + 1} => Complete(d)
    BY <1>1, <2>4, <2>5 DEF Sound, InUse, Complete
  <2>9. dbs' = [dbs EXCEPT ![o + 1] = d]
    BY <2>1, <2>3
  <2>10. dbs' \in [Versions -> Db] /\ Sound(o)'
    BY <2>1, <2>4, <2>7, <2>8, <2>9, FillingStep
  <2> QED BY <1>1, <2>1, <2>10 DEF TypeOK, PCs
<1>10. CASE SetBlockHeight
  <2>1. /\ UNCHANGED <<versions, cs, batchSize, pos, restored, served, faults>>
        /\ pc = "hashed" /\ pc' = "migrated"
        /\ dbs' = [dbs EXCEPT ![o + 1].height = cs]
    BY <1>1, <1>10 DEF SetBlockHeight
  <2>2. o + 1 \in Versions /\ dbs[o + 1] \in Db /\ Filling(dbs[o + 1])
        /\ dbs[o + 1].hash = Chain[cs].hash
    BY <2>1 DEF Sound, Progress, TheOthers, TypeOK
  <2>3. PICK d : d = [dbs[o + 1] EXCEPT !.height = cs]
    OBVIOUS
  <2>4. /\ d.hash = Chain[cs].hash /\ d.height = cs
        /\ d.txs = dbs[o + 1].txs /\ d.idx = dbs[o + 1].idx /\ d \in Db
    BY <1>2, <2>2, <2>3 DEF Db
  <2>5. d.hash /= NoHash
    BY <1>2, <2>4, BlockType, ChainType DEF Block
  <2>6. Filled(d)
    <3>1. Filled(dbs[o + 1])
      BY <2>2, <2>4, <2>5 DEF Filling
    <3> QED BY <2>4, <3>1 DEF Filled, FilledTo
  <2>7. Filling(d)'
    <3>1. Len(TxsAt[cs]) \in 0..Len(TxsAt[cs])
      BY <1>2
    <3> QED BY <2>1, <2>4, <2>5, <2>6, <3>1 DEF Filling, Filled
  <2>8. Complete(d)
    BY <2>4, <2>6 DEF Complete
  <2>9. dbs' = [dbs EXCEPT ![o + 1] = d]
    BY <2>1, <2>3
  <2>10. dbs' \in [Versions -> Db] /\ Sound(o)'
    BY <2>1, <2>4, <2>7, <2>8, <2>9, FillingStep
  <2> QED BY <1>1, <2>1, <2>10 DEF TypeOK, PCs
<1>11. CASE UpdateVersion
  <2>1. /\ UNCHANGED <<dbs, cs, batchSize, pos, restored, served, faults>>
        /\ pc = "migrated" /\ pc' = "deleting" /\ versions' = versions \union {o + 1}
    BY <1>1, <1>11 DEF UpdateVersion
  <2>2. /\ o + 1 \in Versions /\ Filling(dbs[o + 1]) /\ cs > dbs[o].height
        /\ dbs[o + 1].hash = Chain[cs].hash /\ dbs[o + 1].height = cs
    BY <2>1 DEF Sound, Progress, TheOthers
  <2>3. versions' = {o, o + 1}
    BY <1>1, <2>1
  <2>4. Complete(dbs[o + 1])
    <3>1. dbs[o + 1].hash /= NoHash
      BY <1>2, <2>2, BlockType, ChainType DEF Block
    <3> QED BY <2>2, <3>1 DEF Filling, Complete
  <2>5. served <= cs
    BY <1>2, <2>2 DEF Sound, InUse
  <2>6. InUse(o)'
    BY <2>1, <2>2, <2>3, <2>4, <2>5 DEF InUse, Complete, Filled
  <2>7. Filling(dbs[o + 1])'
    BY <2>1, <2>2 DEF Filling, Filled
  <2>8. TheOthers(o)'
    BY <2>1, <2>2, <2>3, <2>7 DEF Sound, TheOthers
  <2>9. Progress(o)'
    BY <2>1 DEF Progress
  <2> QED BY <2>1, <2>2, <2>3, <2>6, <2>8, <2>9 DEF TypeOK, PCs, Sound
<1>12. CASE FlushKey
  <2> DEFINE b == dbs[o]
  <2>1. /\ UNCHANGED <<versions, cs, pc, batchSize, pos, restored, served, faults>>
        /\ pc = "deleting" /\ versions = {o, o + 1}
    BY <1>1, <1>12 DEF FlushKey
  <2>2. PICK d : /\ dbs' = [dbs EXCEPT ![o] = d]
                 /\ \/ d = [b EXCEPT !.hash = NoHash]
                    \/ d = [b EXCEPT !.height = 0]
                    \/ \E t \in TxID : d = [b EXCEPT !.txs[t] = Absent]
                    \/ \E a \in Addr : d = [b EXCEPT !.idx[a] = {}]
    BY <1>1, <1>12 DEF FlushKey
  <2>3. d \in Db /\ d.height \in {0, b.height}
    <3>1. b \in Db /\ 0 \in Heights
      BY <1>2, ChainType DEF Heights
    <3> HIDE DEF b
    <3>2. CASE d = [b EXCEPT !.hash = NoHash]
      BY <3>1, <3>2 DEF Db
    <3>3. CASE d = [b EXCEPT !.height = 0]
      BY <3>1, <3>3 DEF Db
    <3>4. ASSUME NEW t \in TxID, d = [b EXCEPT !.txs[t] = Absent]
          PROVE  d \in Db /\ d.height \in {0, b.height}
      BY <3>1, <3>4 DEF Db
    <3>5. ASSUME NEW a \in Addr, d = [b EXCEPT !.idx[a] = {}]
          PROVE  d \in Db /\ d.height \in {0, b.height}
      BY <3>1, <3>5 DEF Db
    <3> QED BY <2>2, <3>2, <3>3, <3>4, <3>5
  <2>4. dbs' \in [Versions -> Db] /\ Sound(o)'
    BY <2>1, <2>2, <2>3, OldestStep
  <2> QED BY <1>1, <2>1, <2>4 DEF TypeOK
<1>13. CASE DeleteVersion
  <2>1. /\ UNCHANGED <<dbs, cs, pc, batchSize, pos, restored, served, faults>>
        /\ pc = "deleting" /\ versions = {o, o + 1} /\ dbs[o] = EmptyDb
        /\ versions' = versions \ {o}
    BY <1>1, <1>13 DEF DeleteVersion
  <2>2. /\ o + 1 \in Versions /\ versions' = {o + 1} /\ dbs[o + 1] \in Db
        /\ Complete(dbs[o + 1]) /\ served <= cs
    BY <1>1, <2>1 DEF Sound, InUse, TypeOK
  <2>3. SoundStore(dbs[o + 1]) /\ dbs[o + 1].height = cs
    BY <1>2, <2>2, CompleteIsSound DEF Complete, Filled
  <2>4. InUse(o + 1)'
    BY <2>1, <2>2, <2>3 DEF InUse
  <2>5. \A v \in Versions : v < o + 1 \/ v > o + 1 => dbs[v] = EmptyDb
    BY <1>1, <2>1 DEF Sound, TheOthers, Versions
  <2>6. (o + 1) + 1 \in Versions =>
          dbs'[(o + 1) + 1] = EmptyDb /\ Filling(dbs[(o + 1) + 1])'
    <3> SUFFICES ASSUME (o + 1) + 1 \in Versions
                 PROVE  dbs'[(o + 1) + 1] = EmptyDb /\ Filling(dbs[(o + 1) + 1])'
      OBVIOUS
    <3>1. dbs'[(o + 1) + 1] = EmptyDb
      BY <1>1, <2>1, <2>5
    <3>2. FilledTo(EmptyDb, cs, 0) /\ 0 \in 0..Len(TxsAt[cs])
      BY <1>2, EmptyIsFilled
    <3>3. EmptyDb.hash = NoHash /\ EmptyDb.height = 0
      BY DEF EmptyDb
    <3> HIDE DEF EmptyDb
    <3> QED BY <2>1, <3>1, <3>2, <3>3 DEF Filling
  <2>7. TheOthers(o + 1)'
    BY <1>1, <2>1, <2>5, <2>6 DEF TheOthers, Versions
  <2>8. Progress(o + 1)'
    BY <2>1 DEF Progress
  <2> QED BY <2>1, <2>2, <2>4, <2>7, <2>8 DEF TypeOK, Sound
<1>14. CASE Serve
  <2>1. /\ UNCHANGED <<versions, dbs, cs, batchSize, pos, restored, faults>>
        /\ pc = "deleting" /\ pc' = "serving" /\ versions = {o}
        /\ served' = Max({served, dbs[o].height})
    BY <1>1, <1>14 DEF Serve
  <2>2. SoundStore(dbs[o]) /\ served <= dbs[o].height
    BY <1>1, <2>1 DEF Sound, InUse
  <2>3. served' = dbs[o].height
    <3>1. \A x \in {served, dbs[o].height} :
            (\A y \in {served, dbs[o].height} : x >= y) <=> x = dbs[o].height
      BY <1>2, <2>2
    <3> QED BY <2>1, <3>1 DEF Max
  <2>4. o + 1 \in Versions => dbs[o + 1] = EmptyDb /\ Filling(dbs[o + 1])'
    BY <1>1, <2>1 DEF Sound, TheOthers, Filling, Filled
  <2>5. InUse(o)'
    <3>1. versions' = {o} /\ dbs' = dbs
      BY <2>1
    <3>2. served' <= dbs[o].height
      BY <1>2, <2>3
    <3> QED BY <2>2, <3>1, <3>2 DEF InUse
  <2>6. TheOthers(o)'
    BY <2>1, <2>4 DEF Sound, TheOthers
  <2>7. Progress(o)'
    BY <2>1, <2>3 DEF Progress
  <2> QED BY <1>1, <1>2, <2>1, <2>3, <2>5, <2>6, <2>7 DEF TypeOK, PCs, Sound, Db
<1>15. CASE AddBlock
  <2> DEFINE b == dbs[o]
             h == IF b.hash = NoHash THEN 0 ELSE b.height + 1
  <2>1. PICK d : d = Committed(b, NewCheckpointFromNextBlock(b, h))
    OBVIOUS
  <2>2. /\ UNCHANGED <<versions, cs, pc, batchSize, pos, restored, faults>>
        /\ pc = "serving" /\ h <= MaxHeight /\ served' = Max({served, h})
        /\ dbs' = [dbs EXCEPT ![o] = d]
    BY <1>1, <1>15, <2>1 DEF AddBlock
  <2>3. versions = {o} /\ SoundStore(b) /\ served = b.height
    BY <2>2 DEF Sound, InUse, Progress
  <2>4. /\ h \in Heights /\ h \in Nat /\ served <= h
        /\ b.hash /= NoHash => b.height < MaxHeight
    BY <1>2, <2>2, <2>3, ChainType DEF Heights, SoundStore
  <2>5. SoundStore(d) /\ d.height = h
    BY <1>2, <2>1, <2>3, <2>4, CommittedIsSound, FirstCommittedIsSound
  <2>6. d \in Db
    BY <1>2, <2>1, <2>4, NewCheckpointType, CommittedType
  <2> HIDE DEF h, b
  <2>7. served' = h
    <3>1. \A x \in {served, h} : (\A y \in {served, h} : x >= y) <=> x = h
      BY <1>2, <2>4
    <3> QED BY <2>2, <3>1 DEF Max
  <2>8. dbs' \in [Versions -> Db] /\ Sound(o)'
    BY <2>2, <2>3, <2>5, <2>6, <2>7, OldestStep
  <2> QED BY <1>1, <2>2, <2>4, <2>7, <2>8 DEF TypeOK
<1>16. CASE Stop
  <2>1. UNCHANGED <<versions, dbs, cs, batchSize, pos, restored, served, faults>> /\ pc' = "down"
    BY <1>16 DEF Stop
  <2>2. Sound(o)'
    BY <2>1, SameDbs
  <2> QED BY <1>1, <2>1, <2>2 DEF TypeOK, PCs
<1>17. CASE Crash
  <2>1. /\ UNCHANGED <<versions, dbs, cs, batchSize, pos, restored, served>> /\ pc' = "down"
        /\ faults' = faults + 1 /\ faults < MaxFaults
    BY <1>17 DEF Crash, Fault
  <2>2. Sound(o)'
    BY <2>1, SameDbs
  <2>3. faults' \in 0..MaxFaults
    BY <2>1, MigrationConstants DEF TypeOK
  <2> QED BY <1>1, <2>1, <2>2, <2>3 DEF TypeOK, PCs
<1>18. CASE NodeSyncs
  <2>1. /\ UNCHANGED <<versions, dbs, pc, batchSize, pos, restored, served>>
        /\ pc = "down" /\ cs < MaxHeight /\ cs' = cs + 1 /\ o + 1 \in Versions
    BY <1>1, <1>18 DEF NodeSyncs
  <2>2. dbs[o + 1] = EmptyDb /\ faults' = faults
    BY <1>1, <1>18 DEF NodeSyncs, Fault
  <2>3. cs' \in Heights
    BY <1>2, <2>1, ChainType DEF Heights
  <2>4. versions = {o}
    <3>1. EmptyDb.height = 0
      BY DEF EmptyDb
    <3> QED BY <1>1, <1>2, <2>2, <3>1 DEF Sound, InUse, Complete
  <2>5. InUse(o)'
    BY <1>1, <2>1, <2>4 DEF Sound, InUse
  <2>6. Filling(dbs[o + 1])'
    <3>1. FilledTo(EmptyDb, cs', 0) /\ 0 \in 0..Len(TxsAt[cs'])
      BY <2>3, EmptyIsFilled, ChainstateTxs
    <3>2. EmptyDb.hash = NoHash /\ EmptyDb.height = 0
      BY DEF EmptyDb
    <3> HIDE DEF EmptyDb
    <3> QED BY <2>1, <2>2, <3>1, <3>2 DEF Filling
  <2>7. TheOthers(o)'
    BY <2>1, <2>2, <2>6 DEF Sound, TheOthers
  <2>8. Progress(o)'
    BY <2>1 DEF Progress
  <2> QED BY <1>1, <2>1, <2>2, <2>3, <2>5, <2>7, <2>8 DEF TypeOK, Sound
<1> QED BY <1>3, <1>4, <1>5, <1>6, <1>7, <1>8, <1>9, <1>10, <1>11, <1>12, <1>13,
           <1>14, <1>15, <1>16, <1>17, <1>18 DEF Next, Migrate

-----------------------------------------------------------------------------
(* The theorems.  The hypothesis excludes what MCMigration_moved shows: a    *)
(* node that goes on while a migration is cut short.                        *)

\* What a crash, a batch without a reply, or a restart with another batch size
\* can leave behind in the versions of the database.
THEOREM MigrationInvariantHolds ==
  ASSUME "moved" \notin FaultKinds
  PROVE  Spec => []MigrationInvariant
<1>1. Init => MigrationInvariant
  <2> SUFFICES ASSUME Init PROVE MigrationInvariant
    OBVIOUS
  <2>0. 0 \in Heights /\ 0 \in 0..MaxFaults
    BY ChainType, MigrationConstants DEF Heights
  <2>1. EmptyDb \in Db
    BY <2>0, EmptyIsFilled
  <2> HIDE DEF EmptyDb
  <2> QED BY <2>0, <2>1 DEF Init, MigrationInvariant, TypeOK, PCs
<1>2. MigrationInvariant /\ [Next]_vars => MigrationInvariant'
  <2> SUFFICES ASSUME MigrationInvariant, [Next]_vars PROVE MigrationInvariant'
    OBVIOUS
  <2>1. CASE UNCHANGED vars
    BY <2>1 DEF vars, MigrationInvariant, TypeOK, Sound, InUse, Complete, TheOthers,
                Filling, Filled, Progress
  <2>2. CASE Next /\ versions /= {}
    <3>1. PICK o \in Versions : Sound(o)
      BY <2>2 DEF MigrationInvariant
    <3>2. TypeOK' /\ versions' /= {} /\ \E v \in Versions : Sound(v)'
      BY <2>2, <3>1, MigrationStep DEF MigrationInvariant
    <3> QED BY <3>2 DEF MigrationInvariant
  <2>3. CASE Next /\ versions = {}
    <3>1. pc = "down" /\ served = 0 /\ \A v \in Versions : dbs[v] = EmptyDb
      BY <2>3 DEF MigrationInvariant
    <3>2. Initialize
      BY <2>3, <3>1 DEF Next, Migrate, Initialize, NodeSyncs, SkipMigration, BeginMigration,
           SkipBatch, StoreBatch, StoreBatchFails, CanStore, SetBlockHash, SetBlockHeight,
           UpdateVersion, FlushKey, DeleteVersion, Serve, AddBlock, Stop, Crash
    <3>3. /\ versions' = {1} /\ UNCHANGED <<dbs, cs, pc, batchSize, pos, restored, served, faults>>
      BY <3>2 DEF Initialize
    <3>4. 1 \in Versions /\ cs \in Heights
      BY MigrationConstants DEF Versions, MigrationInvariant, TypeOK
    <3>5. /\ SoundStore(EmptyDb) /\ EmptyDb.height = 0 /\ EmptyDb.hash = NoHash
          /\ FilledTo(EmptyDb, cs, 0) /\ 0 \in 0..Len(TxsAt[cs])
      BY <3>4, EmptyIsFilled, ChainstateTxs DEF EmptyDb
    <3> HIDE DEF EmptyDb
    <3>6. InUse(1)'
      BY <3>1, <3>3, <3>4, <3>5 DEF InUse
    <3>7. 1 + 1 \in Versions => Filling(dbs[1 + 1])'
      BY <3>1, <3>3, <3>5 DEF Filling
    <3>8. TheOthers(1)'
      BY <3>1, <3>3, <3>7 DEF TheOthers
    <3>9. Progress(1)'
      BY <3>1, <3>3 DEF Progress
    <3>10. TypeOK'
      BY <3>3, <3>4 DEF MigrationInvariant, TypeOK
    <3> QED BY <3>3, <3>4, <3>6, <3>8, <3>9, <3>10 DEF MigrationInvariant, Sound
  <2> QED BY <2>1, <2>2, <2>3
<1> QED BY <1>1, <1>2, PTL DEF Spec

\* ServedStoreIsSound: main serves one version, the UTXO set of a block with its
\* index, wherever the migrations and deletions before it were cut short.
THEOREM ServedIsSound ==
  ASSUME "moved" \notin FaultKinds
  PROVE  Spec => []ServedStoreIsSound
<1>1. MigrationInvariant => ServedStoreIsSound
  <2> SUFFICES ASSUME MigrationInvariant, pc = "serving"
               PROVE  /\ Cardinality(versions) = 1
                      /\ SoundStore(dbs[getOldestVersion])
                      /\ \A v \in Versions : v < getOldestVersion => dbs[v] = EmptyDb
    BY DEF ServedStoreIsSound
  <2>1. PICK o \in Versions : Sound(o)
    BY DEF MigrationInvariant
  <2>2. versions = {o} /\ SoundStore(dbs[o])
    BY <2>1 DEF Sound, InUse
  <2>3. getOldestVersion = o /\ Cardinality(versions) = 1
    BY <2>1, <2>2, VersionsInUse DEF Sound
  <2> QED BY <2>1, <2>2, <2>3 DEF Sound, TheOthers
<1> QED BY <1>1, MigrationInvariantHolds, PTL

\* NewestVersionSound: the newest version known is complete at every moment, also
\* while the one before it is deleted key by key.
THEOREM NewestIsSound ==
  ASSUME "moved" \notin FaultKinds
  PROVE  Spec => []NewestVersionSound
<1>1. MigrationInvariant => NewestVersionSound
  <2> SUFFICES ASSUME MigrationInvariant, versions /= {}
               PROVE  SoundStore(dbs[getNewestVersion])
    BY DEF NewestVersionSound
  <2>1. PICK o \in Versions : Sound(o)
    BY DEF MigrationInvariant
  <2>2. CASE versions = {o}
    <3>1. getNewestVersion = o
      BY <2>1, <2>2, VersionsInUse DEF Sound
    <3> QED BY <2>1, <2>2, <3>1, VersionsInUse DEF Sound, InUse
  <2>3. CASE versions /= {o}
    <3>1. getNewestVersion = o + 1 /\ versions = {o, o + 1} /\ Complete(dbs[o + 1])
      BY <2>1, <2>3, VersionsInUse DEF Sound, InUse
    <3>2. o + 1 \in Versions /\ dbs[o + 1] \in Db /\ cs \in Heights
      BY <3>1 DEF MigrationInvariant, TypeOK
    <3> QED BY <3>1, <3>2, CompleteIsSound DEF Complete, Filled
  <2> QED BY <2>2, <2>3
<1> QED BY <1>1, MigrationInvariantHolds, PTL

\* ServedHeightNeverFalls: no migration takes the store back, because one begins
\* only with a chainstate ahead of it.
THEOREM ServedHeightStays ==
  ASSUME "moved" \notin FaultKinds
  PROVE  Spec => []ServedHeightNeverFalls
<1>1. MigrationInvariant => ServedHeightNeverFalls
  <2> SUFFICES ASSUME MigrationInvariant, pc = "serving"
               PROVE  dbs[getOldestVersion].height = served
    BY DEF ServedHeightNeverFalls
  <2>1. PICK o \in Versions : Sound(o)
    BY DEF MigrationInvariant
  <2>2. getOldestVersion = o
    BY <2>1, VersionsInUse DEF Sound
  <2> QED BY <2>1, <2>2 DEF Sound, Progress
<1> QED BY <1>1, MigrationInvariantHolds, PTL

\* DealtWithIsStored: a migration that skips what it finds stored skips no
\* transaction of which an output, or a reference, is missing.
THEOREM SkippedIsStored ==
  ASSUME "moved" \notin FaultKinds
  PROVE  Spec => []DealtWithIsStored
<1>1. MigrationInvariant => DealtWithIsStored
  <2> SUFFICES ASSUME MigrationInvariant, pc = "migrating",
                      NEW t \in ToSet(SubSeq(TxsOfChainstate, 1, pos))
               PROVE  LET e == dbs[target].txs[t]
                      IN  /\ e /= Absent
                          /\ {<<t, v, e.outs[v], e.height>> : v \in Unspent(e)} = Coins(t)
                          /\ \A u \in Coins(t) : \A a \in u[3] : t \in dbs[target].idx[a]
    BY DEF DealtWithIsStored, MigrationInvariant
  <2>1. PICK o \in Versions : Sound(o)
    BY DEF MigrationInvariant
  <2>2. target = o + 1 /\ o + 1 \in Versions /\ Filling(dbs[o + 1]) /\ dbs[o + 1] \in Db
    BY <2>1, VersionsInUse DEF Sound, Progress, TheOthers, MigrationInvariant, TypeOK
  <2>3. PICK n \in 0..Len(TxsAt[cs]) : FilledTo(dbs[o + 1], cs, n) /\ pos <= n
    BY <2>2 DEF Filling
  <2>4. cs \in Heights /\ pos \in Nat /\ TxsAt[cs] \in Seq(TxID) /\ Len(TxsAt[cs]) \in Nat
    BY ChainstateTxs DEF MigrationInvariant, TypeOK
  <2>5. t \in First(cs, n)
    <3>1. /\ DOMAIN SubSeq(TxsAt[cs], 1, pos) = 1..pos
          /\ \A i \in 1..pos : SubSeq(TxsAt[cs], 1, pos)[i] = TxsAt[cs][i]
      BY <2>3, <2>4
    <3>2. PICK i \in 1..pos : t = TxsAt[cs][i]
      BY <3>1 DEF ToSet, TxsOfChainstate
    <3>3. i \in 1..n
      BY <2>3, <2>4, <3>2
    <3> QED BY <3>2, <3>3 DEF First
  <2> DEFINE e == dbs[o + 1].txs[t]
  <2>6. e \in Entry /\ UtxosOf(t, e) = Coins(t) /\ e /= Absent
    BY <2>3, <2>5, ChainType DEF FilledTo, Coins, CoinsAt
  <2>7. {<<t, v, e.outs[v], e.height>> : v \in Unspent(e)} = Coins(t)
    BY <2>6 DEF UtxosOf
  <2>8. ASSUME NEW u \in Coins(t), NEW a \in u[3] PROVE t \in dbs[o + 1].idx[a]
    <3>1. u \in CoinsAt(cs, t)
      BY DEF Coins, CoinsAt
    <3>2. u[3] \in SUBSET Addr
      BY <2>4, <3>1, CoinsShape
    <3> QED BY <2>3, <2>5, <3>1, <3>2 DEF FilledTo
  <2> QED BY <2>2, <2>6, <2>7, <2>8
<1> QED BY <1>1, MigrationInvariantHolds, PTL
===============================================================================
