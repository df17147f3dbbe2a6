-------------------------------- MODULE Formats -------------------------------
(***************************************************************************)
(* The serialized forms of amounts, scripts and coins: as the node writes   *)
(* them into the chainstate (bitcoincorecompression has the writer), as the *)
(* migration reads them from a stream (binaryutils, utxocompression, Coin), *)
(* and as the store keeps them (TransactionOutput).                         *)
(*                                                                          *)
(* A byte has Base values and a high bit (Base is 128 in the code).  A      *)
(* script of a recognized form is its kind and the hash or key it pays; the *)
(* opcodes around those are left out.  Any other script is its bytes.       *)
(***************************************************************************)
EXTENDS Amounts, SequencesExt

CONSTANTS
  Base,      \* values of a byte without its high bit
  HashLen,   \* bytes of a hash (20)
  KeyLen,    \* bytes of the X of a public key (32)
  IDLen,     \* bytes of a transaction id (32)
  MaxScript, \* MAX_SCRIPT_SIZE
  ValidX     \* the X of the points of the curve

numSpecialScripts == 6

\* Types and the length byte of a program are single bytes.
ASSUME FormatConstants ==
  /\ Base \in Nat /\ Base >= numSpecialScripts
  /\ HashLen \in 1..(Base - 1) /\ KeyLen \in Nat \ {0} /\ IDLen \in Nat \ {0}
  /\ MaxScript \in Nat /\ MaxScript > KeyLen + 1 /\ MaxScript > HashLen

Byte == 0..(2 * Base - 1)
ASSUME PointsOfTheCurve == ValidX \subseteq [1..KeyLen -> Byte]

highBit(b) == b >= Base

-----------------------------------------------------------------------------
(* Variable length quantities: the groups of the number, highest first, each *)
(* but the last with the high bit and one less than it stands for.           *)

\* (mutant: no offset is subtracted)
serializeSizePlain(n) ==
  LET size[m \in Nat] == IF m < Base THEN 1 ELSE 1 + size[m \div Base]
  IN  size[n]

serializeSizeVLQ(n) ==
  LET size[m \in Nat] == IF m < Base THEN 1 ELSE 1 + size[(m \div Base) - 1]
  IN  size[n]

PutVLQ(n) ==
  LET groups[m \in Nat] ==
        IF m < Base THEN <<m + Base>>
        ELSE Append(groups[(m \div Base) - 1], (m % Base) + Base)
  IN  IF n < Base THEN <<n>> ELSE Append(groups[(n \div Base) - 1], n % Base)

\* How many bytes are read: up to the first without the high bit, or, without
\* an error, all that there are.
bytesRead(s) == Min({Len(s)} \union {i \in DOMAIN s : ~highBit(s[i])})

DeserializeVLQ(s) ==
  LET number[i \in 0..bytesRead(s)] ==
        IF i = 0 THEN 0
        ELSE Base * number[i - 1] + (s[i] % Base) + (IF highBit(s[i]) THEN 1 ELSE 0)
  IN  number[bytesRead(s)]

-----------------------------------------------------------------------------
(* Scripts. *)

\* odd is the parity of Y: in the first byte of a compressed key ("pk"), in the
\* last one of an uncompressed key ("pk65").
Script == [kind : {"pkh", "sh", "pk", "pk65", "other"}, data : Seq(Byte), odd : 0..1]

\* Only a point of the curve has a parity to keep.
ofItsForm(script) ==
  CASE script.kind \in {"pkh", "sh"}  -> Len(script.data) = HashLen /\ script.odd = 0
    [] script.kind \in {"pk", "pk65"} -> script.data \in ValidX
    [] script.kind = "other"          -> script.odd = 0

PayTo(kind, data, odd) == [kind |-> kind, data |-> data, odd |-> odd]
Other(data) == PayTo("other", data, 0)
NilScript == Other(<<>>)

isPubKeyHash(script) == script.kind = "pkh"
isScriptHash(script) == script.kind = "sh"
isPubKey(script)     == script.kind \in {"pk", "pk65"} /\ script.data \in ValidX

compressedScriptSize(script) ==
  IF isPubKeyHash(script) \/ isScriptHash(script) THEN HashLen + 1
  ELSE IF isPubKey(script) THEN KeyLen + 1
  ELSE serializeSizeVLQ(Len(script.data) + numSpecialScripts) + Len(script.data)

specialType(script) ==
  CASE isPubKeyHash(script)  -> 0
    [] isScriptHash(script)  -> 1
    [] script.kind = "pk"    -> 2 + script.odd
    [] script.kind = "pk65"  -> 4 + script.odd

PutCompressedScript(script) ==
  IF isPubKeyHash(script) \/ isScriptHash(script) \/ isPubKey(script)
  THEN <<specialType(script)>> \o script.data
  ELSE PutVLQ(Len(script.data) + numSpecialScripts) \o script.data

decodeCompressedScriptSize(s) ==
  LET type == DeserializeVLQ(s)
  IN  CASE s = <<>>      -> 0
        [] s /= <<>> /\ type \in 0..1 -> HashLen + 1
        [] s /= <<>> /\ type \in 2..5 -> KeyLen + 1
        [] OTHER         -> type - numSpecialScripts + bytesRead(s)

\* The script of a type and what follows the type.
scriptOf(type, data) ==
  CASE type = 0     -> PayTo("pkh", data, 0)
    [] type = 1     -> PayTo("sh", data, 0)
    [] type \in 2..3 -> PayTo("pk", data, type - 2)
    [] type \in 4..5 -> IF data \in ValidX THEN PayTo("pk65", data, type - 4)
                        ELSE NilScript
    [] OTHER        -> Other(data)

dataLen(type) == IF type \in 0..1 THEN HashLen
                 ELSE IF type \in 2..5 THEN KeyLen
                 ELSE type - numSpecialScripts

DecompressScript(s) ==
  IF s = <<>> THEN NilScript
  ELSE scriptOf(DeserializeVLQ(s),
                SubSeq(s, bytesRead(s) + 1, bytesRead(s) + dataLen(DeserializeVLQ(s))))

-----------------------------------------------------------------------------
(* Transaction outputs, as the node writes them. *)

Error == [ok |-> FALSE]

compressedTxOutSize(amount, script) ==
  serializeSizeVLQ(CompressTxOutAmount(amount)) + compressedScriptSize(script)

putCompressedTxOut(amount, script) ==
  PutVLQ(CompressTxOutAmount(amount)) \o PutCompressedScript(script)

decodeCompressedTxOut(s) ==
  LET read == bytesRead(s)
      rest == SubSeq(s, read + 1, Len(s))
      size == decodeCompressedScriptSize(rest)
  IN  IF read >= Len(s) \/ Len(rest) < size THEN Error
      ELSE [ok     |-> TRUE,
            amount |-> DecompressTxOutAmount(DeserializeVLQ(s)),
            script |-> DecompressScript(SubSeq(rest, 1, size)),
            size   |-> read + size]

\* A coin of the chainstate: its key is the outpoint, with the bytes of the
\* transaction id in reverse, its value the height, the amount and the script.
keyOf(coin)   == Reverse(coin.txid) \o PutVLQ(coin.vout)
valueOf(coin) == PutVLQ(2 * coin.height + (IF coin.coinbase THEN 1 ELSE 0))
                   \o putCompressedTxOut(coin.amount, coin.script)

-----------------------------------------------------------------------------
(* Reading a coin from a stream of bytes. *)

afterVLQ(s) == SubSeq(s, bytesRead(s) + 1, Len(s))

\* Read fills as much as there is and leaves the rest zero; at the end of the
\* stream it fails, even when nothing is asked for.
readBytes(s, n) == [i \in 1..n |-> IF i <= Len(s) THEN s[i] ELSE 0]

GetScriptSize(type) == dataLen(type)

\* (mutant: the type is not read again with the key, whose first byte is lost)
DeserializeNoUnread(s) ==
  LET amounts == afterVLQ(s)
      types   == afterVLQ(amounts)
      type    == DeserializeVLQ(types)
      isKey   == type \in 2..5
      from    == afterVLQ(types)
      size    == GetScriptSize(type) + (IF isKey THEN 1 ELSE 0)
      bytes   == readBytes(from, size)
  IN  IF size > MaxScript \/ from = <<>> THEN Error
      ELSE [ok       |-> TRUE,
            height   |-> DeserializeVLQ(s) \div 2,
            coinbase |-> DeserializeVLQ(s) % 2 = 1,
            amount   |-> DecompressTxOutAmount(DeserializeVLQ(amounts)),
            script   |-> scriptOf(type, IF isKey THEN Tail(bytes) ELSE bytes)]

\* Coin.Deserialize.  For a key the reader goes back over the type, which is
\* the first byte of the compressed key.
Deserialize(s) ==
  LET amounts == afterVLQ(s)
      types   == afterVLQ(amounts)
      type    == DeserializeVLQ(types)
      isKey   == type \in 2..5
      from    == IF isKey THEN types ELSE afterVLQ(types)
      size    == GetScriptSize(type) + (IF isKey THEN 1 ELSE 0)
      bytes   == readBytes(from, size)
  IN  IF size > MaxScript \/ from = <<>> THEN Error
      ELSE [ok       |-> TRUE,
            height   |-> DeserializeVLQ(s) \div 2,
            coinbase |-> DeserializeVLQ(s) % 2 = 1,
            amount   |-> DecompressTxOutAmount(DeserializeVLQ(amounts)),
            script   |-> scriptOf(type, IF isKey THEN Tail(bytes) ELSE bytes)]

\* TxOut.Deserialize: the key, without its first byte, and the value after it.
DeserializeTxOut(s) ==
  LET ids  == SubSeq(s, IDLen + 1, Len(s))
      coin == Deserialize(afterVLQ(ids))
  IN  IF s = <<>> \/ ~coin.ok THEN Error
      ELSE [ok |-> TRUE,
            coin |-> [txid     |-> Reverse(readBytes(s, IDLen)),
                      vout     |-> DeserializeVLQ(ids),
                      height   |-> coin.height,
                      coinbase |-> coin.coinbase,
                      amount   |-> coin.amount,
                      script   |-> coin.script]]

-----------------------------------------------------------------------------
(* What the store keeps of an output. *)

TransactionOutput(amount, script) ==
  [CompressedScript |-> PutCompressedScript(script),
   CompressedAmount |-> CompressTxOutAmount(amount)]

GetScriptBytes(out) == DecompressScript(out.CompressedScript)
===============================================================================
