------------------------------- MODULE Chainstate -----------------------------
(***************************************************************************)
(* chainstate.DB: a copy of the node's chainstate is opened, walked through *)
(* with the iterator (as the migration does), or asked for a coin, for the  *)
(* coins of a transaction or for its block (as chainstate-cli does).        *)
(***************************************************************************)
EXTENDS Formats

CONSTANTS
  Chainstates, \* the sets of coins a chainstate may have
  BestBlock,   \* the bytes of its block hash
  OtherKeys,   \* keys of records that are not coins
  Obfuscation  \* the values its obfuscation key may have; NoKey: there is none
CONSTANTS
  NoKey,
  xor(_, _)    \* the exclusive or of two bytes

\* 0x42, 0x43 and 0x08: the first bytes of the key of the block and of a coin,
\* and of the value of the obfuscation key, which is the length of the rest.
KeyB == 2
KeyC == 3
KeySize == 8

isOutpoint(k) == Len(k) >= IDLen + 2 /\ k[1] = KeyC

Coin == [txid : [1..IDLen -> Byte], vout : Nat, height : Nat, coinbase : BOOLEAN,
         amount : Nat, script : Script]

\* What the node writes: an outpoint has one coin, the key of a record is that of
\* one thing, and the obfuscation key is not empty.
ASSUME ChainstateConstants ==
  /\ \A S \in Chainstates :
       /\ IsFiniteSet(S) /\ S \subseteq Coin
       /\ \A c \in S : ofItsForm(c.script)
       /\ \A c, d \in S : c.txid = d.txid /\ c.vout = d.vout => c = d
  /\ IsFiniteSet(OtherKeys) /\ OtherKeys \subseteq Seq(Byte)
  /\ \A k \in OtherKeys : ~isOutpoint(k) /\ k /= <<KeyB>>
  /\ BestBlock \in Seq(Byte)
  /\ \A k \in Obfuscation \ {NoKey} : k \in Seq(Byte) /\ Len(k) > 1

ASSUME XorCancels ==
  \A a, b \in Byte : xor(a, b) \in Byte /\ xor(xor(a, b), b) = a

VARIABLES
  coins,  \* the coins the node has written
  obf,    \* the value under the obfuscation key
  ldb,    \* the other records, in the order of their keys
  pc,     \* what the process is doing
  key,    \* ChainstateDeobfuscator.obfuscationKey
  at,     \* how many records the iterator has passed
  out,    \* the coins it has delivered
  answer, \* the answer to a question
  broken  \* LevelDB has failed to read a record

disk == <<coins, obf, ldb>>
vars == <<disk, pc, key, at, out, answer, broken>>

\* failed    an error is returned
\* panicked  a slice is indexed out of its range
PCs == {"closed", "open", "iterating", "done", "answered", "failed", "panicked"}

-----------------------------------------------------------------------------
(* What the node has written. *)

keyLess(a, b) ==
  \/ IsStrictPrefix(a, b)
  \/ \E i \in 1..Min({Len(a), Len(b)}) :
       a[i] < b[i] /\ SubSeq(a, 1, i - 1) = SubSeq(b, 1, i - 1)

deobfuscateValue(k, value) ==
  [i \in DOMAIN value |-> xor(value[i], k[((i - 1) % Len(k)) + 1])]

written == IF obf = NoKey THEN <<0>> ELSE Tail(obf)

coinRecord(coin) == [key   |-> <<KeyC>> \o keyOf(coin),
                     value |-> deobfuscateValue(written, valueOf(coin))]

\* The records S, in the order of their keys.
inKeyOrder(S) ==
  [i \in 1..Cardinality(S) |->
     CHOOSE r \in S : Cardinality({q \in S : keyLess(q.key, r.key)}) = i - 1]

records ==
  {coinRecord(c) : c \in coins}
    \union {[key |-> k, value |-> <<0>>] : k \in OtherKeys}
    \union {[key   |-> <<KeyB>>,
             value |-> deobfuscateValue(written, Reverse(BestBlock))]}

\* buildTxOutBytes and TxOut.Deserialize of a record.
readRecord(r) == DeserializeTxOut(Tail(r.key) \o deobfuscateValue(key, r.value))

-----------------------------------------------------------------------------
Init ==
  /\ coins \in Chainstates
  /\ obf \in Obfuscation
  /\ ldb = inKeyOrder(records)
  /\ pc = "closed"
  /\ key = <<>>
  /\ at = 0
  /\ out = <<>>
  /\ answer = <<>>
  /\ broken = FALSE

\* Every Get of LevelDB may fail, and its error is returned.
GetFails ==
  /\ pc \in {"closed", "open"}
  /\ pc' = "failed"
  /\ broken' = TRUE
  /\ UNCHANGED <<disk, key, at, out, answer>>

\* newDeobfuscator tolerates a missing key, and then looks at its first byte.
NewDB ==
  /\ pc = "closed"
  /\ IF obf = NoKey THEN pc' = "panicked" /\ UNCHANGED key
     ELSE IF Head(obf) /= KeySize THEN pc' = "failed" /\ UNCHANGED key
     ELSE pc' = "open" /\ key' = Tail(obf)
  /\ UNCHANGED <<disk, at, out, answer, broken>>

NewUTXOIterator ==
  /\ pc = "open"
  /\ pc' = "iterating"
  /\ UNCHANGED <<disk, key, at, out, answer, broken>>

\* Next goes past the records that are not coins.
NextIsNoOutpoint ==
  /\ pc = "iterating"
  /\ at < Len(ldb)
  /\ ~isOutpoint(ldb[at + 1].key)
  /\ at' = at + 1
  /\ UNCHANGED <<disk, pc, key, out, answer, broken>>

NextDelivers ==
  /\ pc = "iterating"
  /\ at < Len(ldb)
  /\ isOutpoint(ldb[at + 1].key)
  /\ LET read == readRecord(ldb[at + 1])
     IN  /\ read.ok
         /\ out' = Append(out, read.coin)
  /\ at' = at + 1
  /\ UNCHANGED <<disk, pc, key, answer, broken>>

NextFails ==
  /\ pc = "iterating"
  /\ at < Len(ldb)
  /\ isOutpoint(ldb[at + 1].key)
  /\ ~readRecord(ldb[at + 1]).ok
  /\ pc' = "failed"
  /\ UNCHANGED <<disk, key, at, out, answer, broken>>

\* LevelDB's Next is false after the last record, and when it cannot read a
\* record: the iterator never asks it for its Error, and takes both for the end.
NoKeysMore ==
  /\ pc = "iterating"
  /\ pc' = "done"
  /\ broken' = (at < Len(ldb))
  /\ UNCHANGED <<disk, key, at, out, answer>>

-----------------------------------------------------------------------------
GetBlockHash ==
  /\ pc = "open"
  /\ pc' = "answered"
  /\ \E i \in DOMAIN ldb :
       /\ ldb[i].key = <<KeyB>>
       /\ answer' = <<"block", Reverse(deobfuscateValue(key, ldb[i].value))>>
  /\ UNCHANGED <<disk, key, at, out, broken>>

\* (mutant: the bytes of the id are left in their order)
buildTxIDKeyUnreversed(txID) == <<KeyC>> \o txID
buildTxIDKey(txID) == <<KeyC>> \o Reverse(txID)

GetOutput(txID, index) ==
  /\ pc = "open"
  /\ LET found == {i \in DOMAIN ldb : ldb[i].key = buildTxIDKey(txID) \o PutVLQ(index)}
         read  == readRecord(ldb[CHOOSE i \in found : TRUE])
     IN  IF found = {} THEN pc' = "answered" /\ answer' = <<"output", txID, index, {}>>
         ELSE IF read.ok
         THEN pc' = "answered" /\ answer' = <<"output", txID, index, {read.coin}>>
         ELSE pc' = "failed" /\ UNCHANGED answer
  /\ UNCHANGED <<disk, key, at, out, broken>>

\* The iterator starts at the id and stops after its coins, on the first of
\* another transaction; it fails on any of these that cannot be decoded, and
\* takes a record that LevelDB cannot read (stop) for the end.
GetOutputs(txID) ==
  /\ pc = "open"
  /\ \E stop \in 1..(Len(ldb) + 1) :
       LET range == {i \in DOMAIN ldb : /\ i < stop
                                        /\ ~keyLess(ldb[i].key, buildTxIDKey(txID))
                                        /\ isOutpoint(ldb[i].key)}
           read(i) == readRecord(ldb[i])
           last == Min({stop} \union
                       {i \in range : ~read(i).ok \/ read(i).coin.txid /= txID})
       IN  IF last /= stop /\ ~read(last).ok
           THEN pc' = "failed" /\ UNCHANGED <<answer, broken>>
           ELSE /\ pc' = "answered"
                /\ answer' = <<"outputs", txID,
                              {read(i).coin : i \in {j \in range : j < last}}>>
                /\ broken' = (last = stop /\ stop <= Len(ldb))
  /\ UNCHANGED <<disk, key, at, out>>

Questions ==
  LET ids == {c.txid : c \in UNION Chainstates}
  IN  \/ GetBlockHash
      \/ \E txID \in ids : GetOutputs(txID)
      \/ \E txID \in ids, index \in {c.vout : c \in UNION Chainstates} :
           GetOutput(txID, index)

Next == \/ NewDB \/ GetFails \/ NewUTXOIterator \/ NextIsNoOutpoint \/ NextDelivers
        \/ NextFails \/ NoKeysMore \/ Questions

Spec == Init /\ [][Next]_vars

-----------------------------------------------------------------------------
(* Properties. *)

\* A script that the reader of the chainstate refuses, when rest follows it in
\* the stream: nothing follows its size, or more than MaxScript.
refused(script, rest) ==
  /\ script.kind = "other"
  /\ script.data \o rest = <<>> \/ Len(script.data) > MaxScript

\* The script is the last thing in a coin.
unreadable(script) == refused(script, <<>>)

\* What the migration gets is what the node has written: the coins from the first
\* in the order of their keys, each once, with all its fields, those of one
\* transaction together, until it fails on one that cannot be decoded, or has had
\* them all.  It is told of the end also where LevelDB cannot read on (see
\* NoKeysMore): then it has the first coins, and may lack any number of the
\* others.  Migrate groups the outputs of a transaction by their adjacency.
DeliversTheCoins ==
  /\ pc \in PCs /\ at \in 0..Len(ldb) /\ Len(out) <= at
  /\ pc = "failed" /\ key /= <<>> /\ ~broken => \E c \in coins : unreadable(c.script)
  /\ ToSet(out) \subseteq coins
  /\ \A i, j \in DOMAIN out : i < j => keyLess(keyOf(out[i]), keyOf(out[j]))
  /\ \A i \in DOMAIN out : \A c \in coins :
       keyLess(keyOf(c), keyOf(out[i])) => c \in ToSet(out)
  /\ pc = "done" /\ ~broken => ToSet(out) = coins
  /\ \A i, j \in DOMAIN out : out[i].txid = out[j].txid =>
       \A k \in i..j : out[k].txid = out[i].txid

\* A question about the chainstate is answered with its coins and its block; the
\* coins of a transaction may be some of them if LevelDB could not read on.
AnswersAreTheCoins ==
  pc = "answered" =>
    CASE answer[1] = "block"   -> answer[2] = BestBlock
      [] answer[1] = "output"  ->
           answer[4] = {c \in coins : c.txid = answer[2] /\ c.vout = answer[3]}
      [] answer[1] = "outputs" ->
           LET those == {c \in coins : c.txid = answer[2]}
           IN  answer[3] \subseteq those /\ (broken \/ answer[3] = those)

\* What the stream may hold behind a coin.
Rests == {<<>>, <<0>>, <<2 * Base - 1, 1>>}

\* The writer, the sizes and the two readers of the format, whatever follows a
\* coin.  The reader of slices gives back the amount and the script of every coin.
\* The reader of streams gives back the height, the coinbase flag, the amount and
\* the script of every coin but two kinds: one with a script of more than
\* MaxScript bytes, and one with an empty script that nothing follows; on these
\* the two disagree.  A value that is cut short is an error to the reader of
\* slices, unless all that is left of the script is a byte that begins a size and
\* reads as that of an empty script (0x85: the size of a script of 762 to 889
\* bytes), in spite of what compression.go:576 says ("ensure there are enough
\* bytes left").  The store gives back the amount and the script it was given.
FormatsAgree ==
  \A c \in coins :
    LET s == putCompressedTxOut(c.amount, c.script)
        stored == TransactionOutput(c.amount, c.script)
    IN  /\ Len(s) = compressedTxOutSize(c.amount, c.script)
        /\ \A rest \in Rests :
             /\ decodeCompressedTxOut(s \o rest)
                  = [ok |-> TRUE, amount |-> c.amount, script |-> c.script, size |-> Len(s)]
             /\ Deserialize(valueOf(c) \o rest)
                  = IF refused(c.script, rest) THEN Error
                    ELSE [ok |-> TRUE, height |-> c.height, coinbase |-> c.coinbase,
                          amount |-> c.amount, script |-> c.script]
        /\ \A n \in 0..(Len(s) - 1) :
             decodeCompressedTxOut(SubSeq(s, 1, n)).ok <=>
               /\ n = serializeSizeVLQ(CompressTxOutAmount(c.amount)) + 1
               /\ s[n] = Base + numSpecialScripts - 1
        /\ GetScriptBytes(stored) = c.script
        /\ GetAmount(stored) = c.amount
===============================================================================
