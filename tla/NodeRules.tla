------------------------------ MODULE NodeRules -----------------------------
(***************************************************************************)
(* The coin node, external: how it serialises transactions, what it offers *)
(* in a template, and what it demands of a block.  Nothing here uses the   *)
(* pool's own readers and trees, so that a block is judged independently.  *)
(***************************************************************************)
EXTENDS TxData

(* A transaction has ins, outs and stacks (one per input, or none), each   *)
(* script or item being a sequence of tokens; foreign coins append tokens  *)
(* behind the locktime.                                                    *)
Transactions(T) ==
    {tx \in [ins : Seq([from : T, script : Seq(T)]), outs : Seq([value : Int, script : Seq(T)]),
             stacks : Seq(Seq(Seq(T))), foreign : Seq(T)] :
        tx.ins # << >> /\ (tx.stacks = << >> \/ Len(tx.stacks) = Len(tx.ins))}

(* The tokens of which a node makes them.                                  *)
Token == [byte : Nat] \cup [amount : Int] \cup [field : STRING]

VarBytes(s) == CompactSize(Len(s)) \o s

SerialiseParts(tx, marker, stacks) ==
    <<Field("version")>> \o marker
    \o CompactSize(Len(tx.ins))
    \o Joined([i \in 1 .. Len(tx.ins) |-> <<tx.ins[i].from>> \o VarBytes(tx.ins[i].script)
                                         \o <<Field("sequence")>>])
    \o CompactSize(Len(tx.outs))
    \o Joined([i \in 1 .. Len(tx.outs) |-> <<[amount |-> tx.outs[i].value]>> \o VarBytes(tx.outs[i].script)])
    \o stacks \o <<Field("locktime")>> \o tx.foreign

Stack(items) == CompactSize(Len(items)) \o Joined([i \in 1 .. Len(items) |-> VarBytes(items[i])])

Stripped(tx) == SerialiseParts(tx, << >>, << >>)
Serialised(tx) ==
    IF tx.stacks = << >> THEN Stripped(tx)
    ELSE SerialiseParts(tx, <<Byte(0), Byte(1)>>,
                        Joined([i \in 1 .. Len(tx.stacks) |-> Stack(tx.stacks[i])]))

Txid(tx) == Sha256d(Stripped(tx))
Wtxid(tx) == Sha256d(Serialised(tx))

(* The merkle root by its definition: node i of a level stands over the    *)
(* nodes 2i and 2i + 1 of the level below, or twice over the last.         *)
RootOf(leaves) ==
    LET size[l \in 0 .. Len(leaves)] ==
            IF l = 0 THEN Len(leaves) ELSE (size[l - 1] + 1) \div 2
        height == CHOOSE l \in 0 .. Len(leaves) : size[l] = 1 /\ \A k \in 0 .. l - 1 : size[k] # 1
        node[l \in 0 .. Len(leaves)] ==
            [i \in 0 .. size[l] - 1 |->
                IF l = 0 THEN leaves[i + 1]
                ELSE LET right == IF 2 * i + 1 < size[l - 1] THEN 2 * i + 1 ELSE 2 * i
                     IN  Sha256d(<<node[l - 1][2 * i], node[l - 1][right]>>)]
    IN  node[height][0]

(* bytes is the script number of height: its value, a clear high bit, and  *)
(* no byte that could be left out.                                         *)
IsScriptNumber(bytes, height, base) ==
    LET n == Len(bytes)
        value[i \in 0 .. n] == IF i = 0 THEN 0 ELSE value[i - 1] * base + bytes[n + 1 - i]
    IN  /\ n > 0 /\ value[n] = height
        /\ bytes[n] < base \div 2
        /\ n > 1 => bytes[n] # 0 \/ bytes[n - 1] >= base \div 2

(* BIP34, for the heights a number is pushed for; up to 16 there are       *)
(* opcodes.                                                                *)
BeginsWithHeight(script, height, base) ==
    \E n \in 1 .. Len(script) - 1 :
        /\ script[1] = Byte(n)
        /\ \A i \in 2 .. n + 1 : "byte" \in DOMAIN script[i]
        /\ IsScriptNumber([i \in 1 .. n |-> script[i + 1].byte], height, base)

IsCommitment(script) == Len(script) = 2 /\ script[1] = Field("6a24aa21a9ed")

(* BIP141 of a block with coinbase cb and further transactions txs.        *)
WitnessRules(cb, txs) ==
    LET commitments == {i \in 1 .. Len(cb.outs) : IsCommitment(cb.outs[i].script)}
        root == RootOf(<<Zeros32>> \o [i \in 1 .. Len(txs) |-> Wtxid(txs[i])])
    IN  IF commitments = {}
        THEN \A i \in 1 .. Len(txs) : txs[i].stacks = << >>
        ELSE /\ cb.stacks = <<<<<<Zeros32>>>>>>
             /\ \A i \in commitments :
                    cb.outs[i].script[2] = Sha256d(<<root, Zeros32>>)
-----------------------------------------------------------------------------
(* How the node reads a coinbase: the outputs from position pos on, and    *)
(* where they end.                                                         *)
ReadOuts(tokens, pos, count) ==
    LET read[n \in 0 .. count] ==
            IF n = 0 THEN [outs |-> << >>, next |-> pos]
            ELSE LET before == read[n - 1]
                     len    == tokens[before.next + 1].byte
                     script == SubSeq(tokens, before.next + 2, before.next + 1 + len)
                 IN  [outs |-> Append(before.outs,
                                      [value |-> tokens[before.next].amount, script |-> script]),
                      next |-> before.next + 2 + len]
    IN  read[count]

(* The coinbase that is serialised as tokens, or nothing.                  *)
ReadCoinbase(tokens) ==
    LET at     == IF tokens[2] = Byte(0) THEN 4 ELSE 2
        len    == tokens[at + 2].byte
        outs   == ReadOuts(tokens, at + len + 5, tokens[at + len + 4].byte)
        rest   == SubSeq(tokens, outs.next, Len(tokens))
        cb     == [ins |-> <<[from |-> tokens[at + 1], script |-> SubSeq(tokens, at + 3, at + 2 + len)]>>,
                   outs |-> outs.outs, foreign |-> << >>,
                   stacks |-> IF at = 4 /\ Len(rest) > 2 THEN <<<<<<rest[3]>>>>>> ELSE << >>]
    IN  IF Serialised(cb) = tokens THEN {cb} ELSE {}

TotalValue(outs) ==
    LET sum[i \in 0 .. Len(outs)] == IF i = 0 THEN 0 ELSE sum[i - 1] + outs[i].value
    IN  sum[Len(outs)]

(* What the node demands of a block with these txs on the template t, with *)
(* or without witness data.                                                *)
AcceptsBlock(block, t, txs, takesWitness, base) ==
    LET count == CompactSize(1 + Len(txs))
        tail  == Joined([i \in 1 .. Len(txs) |-> Serialised(txs[i])])
        cbTokens == SubSeq(block.body, Len(count) + 1, Len(block.body) - Len(tail))
    IN  /\ block.body = count \o cbTokens \o tail
        /\ \E cb \in ReadCoinbase(cbTokens) :
            /\ cb.ins[1].from = Field("nullOutpoint")
            /\ BeginsWithHeight(cb.ins[1].script, t.height, base)
            /\ \A i \in 1 .. Len(cb.outs) : cb.outs[i].value >= 0
            /\ TotalValue(cb.outs) = t.coinbaseValue
            /\ block.root = RootOf(<<Txid(cb)>> \o [i \in 1 .. Len(txs) |-> Txid(txs[i])])
            /\ IF takesWitness THEN WitnessRules(cb, txs)
               ELSE cb.stacks = << >> /\ \A i \in 1 .. Len(txs) : txs[i].stacks = << >>
=============================================================================
