----------------------------- MODULE MerkleTree -----------------------------
(***************************************************************************)
(* The two merkle trees of a block: that of the txids, of which            *)
(* pool/job.go gives the miner one branch and crypto/sha256.go computes    *)
(* the root again for every coinbase, and that of the wtxids, which        *)
(* pool/witness.go commits to.  An entry of a template has the fields      *)
(* txid, hash and data, each the empty set when the node does not give a   *)
(* usable one; what a field of another length or not in hexadecimal is     *)
(* treated as.                                                             *)
(***************************************************************************)
EXTENDS TxData, FiniteSets

(* What there is in a sequence of sets of one element or none, in order.   *)
Some(set) == CHOOSE x \in set : TRUE
Present(sets) ==
    Joined([i \in 1 .. Len(sets) |-> IF sets[i] = {} THEN << >> ELSE <<Some(sets[i])>>])

(* Mutant: the hash field, which covers the witness, comes before the data. *)
LeafByHashFirst(entry) ==
    IF entry.txid # {} THEN entry.txid ELSE entry.hash

(* The leaf of an entry: its txid, or the one its data gives, or its hash. *)
Leaf(entry) ==
    LET rebuilt == UNION {TxidFromData(d) : d \in entry.data}
    IN  CASE entry.txid # {} -> entry.txid
          [] entry.txid = {} /\ rebuilt # {} -> rebuilt
          [] OTHER -> entry.hash

Leaves(entries) == Present([i \in 1 .. Len(entries) |-> Leaf(entries[i])])

TxsData(entries) == Present([i \in 1 .. Len(entries) |-> entries[i].data])

(* One level of a tree; an odd hash at the end is paired with itself.      *)
Paired(level) ==
    [i \in 1 .. (Len(level) + 1) \div 2 |->
        Sha256d(<<level[2 * i - 1], IF 2 * i <= Len(level) THEN level[2 * i] ELSE level[2 * i - 1]>>)]

(* The first hash of each level is the sibling of the path from the        *)
(* coinbase; the rest is paired.                                           *)
CalculateMerkleBranch(entries) ==
    LET leaves == Leaves(entries)
        level[i \in 0 .. Len(leaves)] ==
            IF i = 0 THEN leaves
            ELSE IF level[i - 1] = << >> THEN << >> ELSE Paired(Tail(level[i - 1]))
        rounds == {i \in 0 .. Len(leaves) : level[i] # << >>}
    IN  [i \in 1 .. Cardinality(rounds) |-> level[i - 1][1]]

CalculateMerkleRoot(coinbaseTxid, merkleBranch) ==
    LET hash[i \in 0 .. Len(merkleBranch)] ==
            IF i = 0 THEN coinbaseTxid ELSE Sha256d(<<hash[i - 1], merkleBranch[i]>>)
    IN  hash[Len(merkleBranch)]

MerkleRoot(hashes) ==
    LET level[i \in 0 .. Len(hashes)] ==
            IF i = 0 THEN hashes
            ELSE IF Len(level[i - 1]) > 1 THEN Paired(level[i - 1]) ELSE level[i - 1]
    IN  IF hashes = << >> THEN Zeros32 ELSE level[Len(hashes)][1]

-----------------------------------------------------------------------------
WitnessCommitmentHeader == Field("6a24aa21a9ed")

WitnessCommitmentScript(txsData) ==
    LET wtxids == Present([i \in 1 .. Len(txsData) |-> TxWitnessHash(txsData[i])])
        root   == MerkleRoot(<<witnessReservedValue>> \o wtxids)
    IN  <<WitnessCommitmentHeader, Sha256d(<<root, witnessReservedValue>>)>>

(* The commitment the coinbase carries, if any: computed, whatever the     *)
(* template says.                                                          *)
EffectiveWitnessCommitment(templateCommitment, txsData) ==
    IF templateCommitment = {} /\ \A i \in 1 .. Len(txsData) : ~TxHasWitness(txsData[i])
    THEN {} ELSE {WitnessCommitmentScript(txsData)}
=============================================================================
