------------------------------- MODULE TxData -------------------------------
(***************************************************************************)
(* Serialised transactions as pool/witness.go reads them and               *)
(* pool/coinbase.go completes them.  A transaction is a sequence of        *)
(* tokens: a count, a length or one byte of a script is a token, and so is *)
(* each field of a fixed width (version, outpoint, sequence, value,        *)
(* locktime, a hash).  Lengths count tokens.  A number from CompactLimit   *)
(* (253 in the code) on is written in two tokens, as CompactSize writes it *)
(* behind a prefix.  Sha256d is a free constructor: no collisions.         *)
(***************************************************************************)
EXTENDS Integers, Sequences

CONSTANT CompactLimit

ASSUME CompactAssumption == CompactLimit \in Nat \ {0, 1}

Byte(n) == [byte |-> n]
Field(name) == [field |-> name]
Prefix == Field("prefix")
Sha256d(tokens) == [sha256d |-> tokens]

(* 32 zero bytes: the reserved value, and the wtxid of a coinbase.         *)
Zeros32 == Field("zeros32")
witnessReservedValue == Zeros32

(* Several byte strings one after the other.                               *)
Joined(strings) ==
    LET join[i \in 0 .. Len(strings)] == IF i = 0 THEN << >> ELSE join[i - 1] \o strings[i]
    IN  join[Len(strings)]

CompactSize(n) == IF n < CompactLimit THEN <<Byte(n)>> ELSE <<Prefix, Byte(n)>>

-----------------------------------------------------------------------------
(* Positions are those of the next token to be read; 0 stands for the      *)
(* failures the code returns.                                              *)
Failure == [value |-> 0, next |-> 0]

readVarInt(b, pos) ==
    CASE pos \notin 1 .. Len(b) -> Failure
      [] pos \in 1 .. Len(b) /\ b[pos] # Prefix -> [value |-> b[pos].byte, next |-> pos + 1]
      [] pos \in 1 .. Len(b) - 1 /\ b[pos] = Prefix -> [value |-> b[pos + 1].byte, next |-> pos + 2]
      [] pos = Len(b) /\ b[pos] = Prefix -> Failure

(* Behind n items of before fields, a length, that many bytes, after       *)
(* fields: the inputs, the outputs and the items of a witness stack.       *)
SkipItems(raw, start, n, before, after) ==
    LET skip[i \in 0 .. n] ==
            IF i = 0 THEN start
            ELSE LET len == readVarInt(raw, skip[i - 1] + before)
                     end == len.next + len.value + after
                 IN  IF skip[i - 1] = 0 \/ len.next = 0 \/ end > Len(raw) + 1 THEN 0 ELSE end
    IN  skip[n]

SkipCounted(raw, pos, before, after) ==
    LET count == readVarInt(raw, pos)
    IN  IF count.next = 0 THEN 0 ELSE SkipItems(raw, count.next, count.value, before, after)

SkipStacks(raw, start, n) ==
    LET skip[i \in 0 .. n] ==
            IF i = 0 THEN start
            ELSE IF skip[i - 1] = 0 THEN 0 ELSE SkipCounted(raw, skip[i - 1], 0, 0)
    IN  skip[n]

(* A zero where the count of inputs belongs marks a segregated witness.    *)
Marked(raw) == raw[2] = Byte(0) /\ raw[3] # Byte(0)

TxHasWitness(raw) == Len(raw) >= 3 /\ Marked(raw)

(* Hashes the code may fail to get: the empty set, or the set of the hash. *)
TxWitnessHash(raw) == IF raw = << >> THEN {} ELSE {Sha256d(raw)}

TxidFromData(raw) ==
    IF Len(raw) < 4 THEN {}
    ELSE LET segwit    == Marked(raw)
             bodyStart == IF segwit THEN 4 ELSE 2
             inCount   == readVarInt(raw, bodyStart)
             outsStart == SkipCounted(raw, bodyStart, 1, 1)
             bodyEnd   == SkipCounted(raw, outsStart, 1, 0)
             stacksEnd == SkipStacks(raw, bodyEnd, inCount.value)
         IN  IF \/ inCount.next = 0 \/ outsStart = 0 \/ bodyEnd = 0
                \/ segwit /\ stacksEnd # Len(raw)
             THEN {}
             ELSE {Sha256d(<<raw[1]>> \o SubSeq(raw, bodyStart, bodyEnd - 1) \o <<raw[Len(raw)]>>)}

(* The coinbase with marker, flag and the reserved value as the one item   *)
(* of its one witness stack, before the locktime.                          *)
AddWitnessNonce(tx) ==
    IF Len(tx) < 2 THEN tx
    ELSE <<tx[1], Byte(0), Byte(1)>> \o SubSeq(tx, 2, Len(tx) - 1)
         \o <<Byte(1), Byte(1), witnessReservedValue, tx[Len(tx)]>>
=============================================================================
