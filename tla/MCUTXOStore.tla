------------------------------ MODULE MCUTXOStore -----------------------------
(***************************************************************************)
(* The store over the small chain, started empty or after a migration.      *)
(***************************************************************************)
EXTENDS UTXOStore, SmallChain

\* A store before its first block, and one that a chainstate migration has
\* filled at height h: an entry ends with its last unspent output.
FreshStore == [hash |-> NoHash, height |-> 0, txs |-> NoTxs, idx |-> NoRefs]

Snapshot(h) == UTXOSet(h)
LastVout(h, t) ==
  CHOOSE v \in {u[2] : u \in Snapshot(h)} :
    /\ \E u \in Snapshot(h) : u[1] = t /\ u[2] = v
    /\ \A u \in Snapshot(h) : u[1] = t => u[2] <= v

MigratedEntry(h, t) ==
  [height |-> (CHOOSE u \in Snapshot(h) : u[1] = t)[4],
   outs   |-> [v \in 1..LastVout(h, t) |->
                 IF \E u \in Snapshot(h) : u[1] = t /\ u[2] = v
                 THEN (CHOOSE u \in Snapshot(h) : u[1] = t /\ u[2] = v)[3]
                 ELSE Spent]]

MigratedStore(h) ==
  [hash   |-> Chain[h].hash,
   height |-> h,
   txs    |-> [t \in TxID |-> IF \E u \in Snapshot(h) : u[1] = t
                              THEN MigratedEntry(h, t) ELSE Absent],
   idx    |-> [a \in Addr |-> {u[1] : u \in Paying(Snapshot(h), a)}]]

MCStores   == {FreshStore, MigratedStore(1), MigratedStore(2)}

MCSafetyFaults   == AllFaults
===============================================================================
