----------------------------- MODULE ShareSubmit ----------------------------
(***************************************************************************)
(* From a template to a block: CreateJob (pool/job.go) and handleSubmit    *)
(* (stratum/server.go) of one session, with the bytes that go into the     *)
(* header and the block.  The other models take a job as a whole and a     *)
(* share as good or bad; this one looks inside.  What submitblock answers  *)
(* and what follows is in BlockSubmission, the difficulty in Shares.       *)
(*                                                                         *)
(* A scenario is what is fixed while one job is mined: the configuration,  *)
(* the template with the node's transactions behind its entries, the two   *)
(* targets, which headers hash low (a hash not named is too high for       *)
(* either target), and the shares the miner may submit.  A share is what   *)
(* the miner hashed, and what it sent.                                     *)
(***************************************************************************)
EXTENDS ShareSearch, NodeRules, ShareDeduper

CONSTANTS Scenario, Share

ASSUME ShareAssumption ==
    /\ \A share \in Share : share.sent \in Key
    /\ \A s \in Scenario : s.shares \subseteq Share

IsString(tokens) == tokens \in Seq({tokens[i] : i \in DOMAIN tokens})

(* A configured address: one of four kinds, with the script it stands for. *)
IsAddress(address) ==
    /\ address # NoAddress
    /\ IsString(address.hex) /\ IsString(address.bech32)
    /\ address.hex # << >> <=> address.kind = "hex"
    /\ \/ address.kind = "hex" /\ address.script = address.hex
       \/ /\ address.kind = "segwit" /\ ReadsAsBech32(address.text)
          /\ address.script = address.bech32
       \/ /\ address.kind = "p2pkh" /\ ReadsAsBase58(address.text)
          /\ address.base58.version \notin P2SHVersions
          /\ address.script = PayToKeyHash(address.base58.hash)
       \/ /\ address.kind = "p2sh" /\ ReadsAsBase58(address.text)
          /\ address.base58.version \in P2SHVersions
          /\ address.script = PayToScriptHash(address.base58.hash)

(* An address that the code takes for another kind than it is.             *)
Misread(address) == address.kind \in {"p2pkh", "p2sh"} /\ ReadsAsBech32(address.text)

(* The reward is at most 2^51 satoshis, more than any coin pays, and the  *)
(* pool does not take its fee to the wallet it pays.                       *)
ASSUME PayoutAssumption ==
    \A s \in Scenario :
        /\ s.template.coinbaseValue \in Nat /\ IsFraction(s.cfg.feePercent)
        /\ 2 * s.template.coinbaseValue <= Significand
        /\ IsAddress(s.cfg.walletAddress)
        /\ s.cfg.feeAddress # NoAddress =>
               /\ IsAddress(s.cfg.feeAddress)
               /\ AddressToScriptPubKey(s.cfg.feeAddress) # s.cfg.walletAddress.script

(* What the node offers: each transaction at the place of its entry, with  *)
(* the right txid and data if any.  The coinbase script and the scripts    *)
(* that are paid are short enough for a length of one byte (at most 252),  *)
(* as are the at most three outputs, and no address stands for a witness   *)
(* commitment.                                                             *)
ASSUME TemplateAssumption ==
    /\ CompactLimit > 3
    /\ \A s \in Scenario :
        LET t == s.template
        IN  /\ s.witnessData \in BOOLEAN
            /\ t.height \in Nat /\ Len(EncodeBip34Height(t.height)) + 2 < CompactLimit
            /\ t.txs \in Seq(Transactions(Token)) /\ Len(t.entries) = Len(t.txs)
            /\ \A i \in 1 .. Len(t.txs) :
                 /\ t.entries[i].txid \in {{}, {Txid(t.txs[i])}}
                 /\ t.entries[i].data \in {{}, {Serialised(t.txs[i])}}
            /\ \A address \in {s.cfg.walletAddress, s.cfg.feeAddress} \ {NoAddress} :
                 /\ Len(AddressToScriptPubKey(address)) < CompactLimit
                 /\ ~IsCommitment(AddressToScriptPubKey(address))

VARIABLES
    scenario,       \* the configuration, the job, and the luck of the miner
    outcome         \* what became of the last mining.submit

submitVars == <<scenario, outcome, dedupVars>>

Template == scenario.template
JobFields == [version |-> Template.version, nTime |-> Template.nTime]

(* The parts of the job and of the coinbase of the session.                *)
JobCommitment == EffectiveWitnessCommitment(Template.commitment, TxsData(Template.entries))

Parts == BuildCoinbaseTransaction(scenario.cfg, Template.height, Template.coinbaseValue, JobCommitment)

CoinbaseTx(ext2) == Parts.coinb1 \o <<Field("extranonce1"), [ext2 |-> ext2]>> \o Parts.coinb2

BuildBlockHeader(candidate) ==
    [candidate |-> candidate,
     root |-> CalculateMerkleRoot(Sha256d(CoinbaseTx(candidate.ext2)),
                                  CalculateMerkleBranch(Template.entries))]

buildFullBlockHex(header, coinbaseTx, hasWitness) ==
    [root |-> header.root,
     body |-> CompactSize(1 + Len(TxsData(Template.entries)))
              \o (IF hasWitness THEN AddWitnessNonce(coinbaseTx) ELSE coinbaseTx)
              \o Joined(TxsData(Template.entries))]

(* The first block of handleSubmit that goes to the node.                  *)
BlockOf(candidate) ==
    buildFullBlockHex(BuildBlockHeader(candidate), CoinbaseTx(candidate.ext2),
                      Parts.hasWitness /\ scenario.witnessData)

-----------------------------------------------------------------------------
(* The luck of the miner is a set of records of a header and its hash.     *)
Meets(target) == {found.header : found \in {f \in scenario.lucky : f.hash <= target}}

SubmitInit ==
    /\ scenario \in Scenario
    /\ outcome = [verdict |-> "none"]
    /\ DedupInit

DuplicateShare(share) ==
    /\ Duplicate(share.sent)
    /\ outcome' = [verdict |-> "duplicate", share |-> share]
    /\ UNCHANGED scenario

(* The headers the loop comes to that meet a target.                       *)
Hits(share, target) ==
    {header \in Meets(target) : IsCandidate(header, share.sent, JobFields)}

(* No candidate meets the target of the session's difficulty.              *)
LowDifficulty(share) ==
    /\ Grow(share.sent) \/ Overwrite(share.sent)
    /\ Hits(share, scenario.minerTarget) = {}
    /\ outcome' = [verdict |-> "low", share |-> share]
    /\ UNCHANGED scenario

(* Mutant: a hash that equals the network's target is not a block.         *)
AcceptLeast(share) ==
    /\ Grow(share.sent) \/ Overwrite(share.sent)
    /\ \E header \in Hits(share, scenario.minerTarget) :
        outcome' = [verdict |-> IF header \in Meets(scenario.networkTarget - 1) THEN "block" ELSE "share",
                    share |-> share, header |-> header]
    /\ UNCHANGED scenario

(* The loop stops at the first candidate that meets it; candidates come in *)
(* the order of a Go map, that is in any.  Only that one is compared with  *)
(* the network's target.                                                   *)
Accept(share) ==
    /\ Grow(share.sent) \/ Overwrite(share.sent)
    /\ \E header \in Hits(share, scenario.minerTarget) :
        outcome' = [verdict |-> IF header \in Meets(scenario.networkTarget) THEN "block" ELSE "share",
                    share |-> share, header |-> header]
    /\ UNCHANGED scenario

SubmitNext == \E share \in scenario.shares : DuplicateShare(share) \/ LowDifficulty(share) \/ Accept(share)

SubmitSpec == SubmitInit /\ [][SubmitNext]_submitVars

-----------------------------------------------------------------------------
(* Types; a verdict is about a share the miner may have submitted.         *)
ShareSubmitTypeOK ==
    /\ DedupTypeOK
    /\ scenario \in Scenario
    /\ outcome \in {[verdict |-> "none"]}
                   \cup [verdict : {"duplicate", "low"}, share : scenario.shares]
                   \cup [verdict : {"share", "block"}, share : scenario.shares,
                         header : {found.header : found \in scenario.lucky}]

(* A miner is not told "low difficulty" of a header that meets the         *)
(* difficulty: whatever byte order it reports in, and with leading zeros   *)
(* left out, the header it hashed is among those handleSubmit tries.       *)
HonestSharesCount ==
    outcome.verdict = "low" => outcome.share.meant \notin Meets(scenario.minerTarget)

(* Cases in which handleSubmit lets a solved header go.  A share must meet *)
(* the session's difficulty first, which on a small chain is above the     *)
(* network's; and another order of the same bytes may meet it by chance    *)
(* and end the loop.                                                       *)
TooEasyForSession(header) ==
    header \in Meets(scenario.networkTarget) \ Meets(scenario.minerTarget)

OtherFoundFirst ==
    /\ outcome.verdict = "share"
    /\ outcome.header \in Hits(outcome.share, scenario.minerTarget) \ {outcome.share.meant}

(* Every other header that solves a block goes to the node (a duplicate    *)
(* was submitted when it was new).                                         *)
SolvedBlocksAreSubmitted ==
    /\ outcome.verdict \in {"low", "share"}
    /\ outcome.share.meant \in Meets(scenario.networkTarget)
    => TooEasyForSession(outcome.share.meant) \/ OtherFoundFirst

(* Templates the pool cannot make a block of: an entry without its data,   *)
(* or without a txid in a format whose txid the pool cannot compute; a     *)
(* height below 17, for which BIP34 has opcodes; a fee above the reward;   *)
(* witness transactions on a chain said to take none.                      *)
Unusable(i) ==
    LET entry == Template.entries[i] tx == Template.txs[i]
    IN  \/ entry.data = {}
        \/ entry.txid = {} /\ tx.foreign # << >>
        \/ tx.stacks # << >> /\ ~scenario.witnessData

OutOfReach ==
    \/ Template.height <= 16
    \/ ~AtMost(scenario.cfg.feePercent, 100)
    \/ \E i \in 1 .. Len(Template.txs) : Unusable(i)

(* The header commits to the coinbase and the transactions of the block,   *)
(* which are complete and in order; the coinbase carries the height, pays  *)
(* out the whole reward, and has the commitment and the reserved value     *)
(* whenever a node asks for them.  Nothing of it may be wrong in a block   *)
(* that took the pool months to find, and the parts come from five         *)
(* functions at three different times.                                     *)
SubmittedBlocksAreValid ==
    outcome.verdict = "block" =>
        \/ OutOfReach
        \/ AcceptsBlock(BlockOf(outcome.header), Template, Template.txs,
                        scenario.witnessData, ByteBase)

(* What the coinbase pays to a script.                                     *)
PaidBy(script) ==
    LET outs == ReadOuts(Parts.coinb2, 3, Parts.coinb2[2].byte).outs
    IN  TotalValue([i \in 1 .. Len(outs) |->
                       [outs[i] EXCEPT !.value = IF outs[i].script = script THEN @ ELSE 0]])

(* The percentage of the reward without its fraction, but for a satoshi    *)
(* more or less: in float64, 29 % of 100 satoshis are 28.                  *)
NearlyExact(fee) ==
    LET percent == scenario.cfg.feePercent
        exact   == (Template.coinbaseValue * percent.num) \div (100 * percent.den)
    IN  exact - 1 <= fee /\ fee <= exact + 1

(* The reward goes to the script of the configured address, less the fee,  *)
(* which is next to the exact one; and what the wallet does not get, the   *)
(* fee address does, to the satoshi.  Not when the code takes an address   *)
(* for another, nor of more than 100 percent.                              *)
RewardIsPaid ==
    LET cfg   == scenario.cfg
        taken == Template.coinbaseValue - PaidBy(cfg.walletAddress.script)
    IN  outcome.verdict = "block" =>
            \/ Misread(cfg.walletAddress) \/ ~AtMost(cfg.feePercent, 100)
            \/ cfg.feeAddress = NoAddress /\ taken = 0
            \/ /\ cfg.feeAddress # NoAddress /\ NearlyExact(taken)
               /\ Misread(cfg.feeAddress) \/ PaidBy(cfg.feeAddress.script) = taken

(* "IsValidAddress reports whether address decodes into a spendable        *)
(* scriptPubKey" (pool/address.go): a wallet address that it passes is the *)
(* one that is paid.                                                       *)
ValidWalletsArePaid ==
    outcome.verdict = "block" /\ IsValidAddress(scenario.cfg.walletAddress) =>
        PaidBy(scenario.cfg.walletAddress.script) > 0
=============================================================================
