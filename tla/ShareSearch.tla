----------------------------- MODULE ShareSearch ----------------------------
(***************************************************************************)
(* The headers handleSubmit tries for one mining.submit                    *)
(* (stratum/server.go): miners differ in the byte order they report in, so *)
(* every plausible order of each field is combined with every other.  A    *)
(* field is a sequence of bytes, digits to the base ByteBase, the highest  *)
(* first; a version is the set of its bits.                                *)
(***************************************************************************)
EXTENDS Coinbase

LOCAL INSTANCE SequencesExt

CONSTANTS
    BitsPerByte,        \* 8
    NTimeWindow,        \* 5: how far the time is varied
    Extranonce2Size,    \* 4
    VersionMask         \* the bits a miner may roll, 1fffe000

ASSUME SearchAssumption ==
    /\ ByteBase = 2 ^ BitsPerByte
    /\ NTimeWindow \in Nat /\ Extranonce2Size \in Nat
    /\ VersionMask \subseteq 0 .. 4 * BitsPerByte - 1

Value(bytes) == FoldLeft(LAMBDA value, byte : value * ByteBase + byte, 0, bytes)
BytesOf(value) == [i \in 1 .. 4 |-> (value \div ByteBase ^ (4 - i)) % ByteBase]
BitsOf(bytes) ==
    {bit \in 0 .. 4 * BitsPerByte - 1 : (Value(bytes) \div 2 ^ bit) % 2 = 1}

Zeros(n) == [i \in 1 .. n |-> 0]
PadLeft(bytes, n) == Zeros(n - Len(bytes)) \o bytes
PadRight(bytes, n) == bytes \o Zeros(n - Len(bytes))

(* As sent, reversed, words swapped, bytes of the words swapped, and one   *)
(* of these on a part of the four bytes.                                   *)
ByteOrders == {<<1, 2, 3, 4>>, <<4, 3, 2, 1>>, <<3, 4, 1, 2>>, <<2, 1, 4, 3>>,
               <<1, 2, 4, 3>>, <<4, 3, 1, 2>>, <<2, 1, 3, 4>>}

(* Mutant: only the full reverse is tried.                                 *)
getBytePermutationsReverse(bytes) == {bytes, Reverse(bytes)}

getBytePermutations(bytes) ==
    IF Len(bytes) = 4 THEN {[i \in 1 .. 4 |-> bytes[order[i]]] : order \in ByteOrders}
    ELSE {bytes, Reverse(bytes)}

(* Leading zeros may have been left out, or trailing ones.                 *)
getExt2Candidates(ext2) ==
    IF Len(ext2) >= Extranonce2Size THEN getBytePermutations(ext2)
    ELSE getBytePermutations(PadLeft(ext2, Extranonce2Size))
         \cup getBytePermutations(PadRight(ext2, Extranonce2Size))

getNonceCandidates(nonce) ==
    getBytePermutations(IF Len(nonce) < 4 THEN PadLeft(nonce, 4) ELSE nonce)

getNTimeCandidates(nTime, jobNTime) ==
    LET orders == getBytePermutations(nTime)
    IN  orders \cup getBytePermutations(jobNTime)
        \cup {BytesOf((Value(p) + offset) % ByteBase ^ 4) :
                p \in orders, offset \in - NTimeWindow .. NTimeWindow}

(* The version of the job, and with the bits the miner sent, if any, in    *)
(* place of the masked ones, added and exclusive-or.                       *)
getVersionCandidates(jobVersion, versionBits) ==
    {jobVersion} \cup
    UNION {{(jobVersion \ VersionMask) \cup (bits \cap VersionMask),
            jobVersion \cup bits,
            (jobVersion \cup bits) \ (jobVersion \cap bits)} :
           bits \in {BitsOf(p) : p \in UNION {getBytePermutations(b) : b \in versionBits}}}

(* Whether the loop of handleSubmit comes to a header when a miner sent s  *)
(* for a job of that version and time.                                     *)
IsCandidate(header, s, job) ==
    /\ header.ext2 \in getExt2Candidates(s.ext2)
    /\ header.version \in getVersionCandidates(job.version, s.versionBits)
    /\ header.nTime \in getNTimeCandidates(s.nTime, job.nTime)
    /\ header.nonce \in getNonceCandidates(s.nonce)
=============================================================================
