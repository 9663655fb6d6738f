------------------------------ MODULE Coinbase ------------------------------
(***************************************************************************)
(* The coinbase transaction of pool/coinbase.go: the height in its input,  *)
(* the reward split and paid to the scripts of the configured addresses,   *)
(* the witness commitment.  It comes in two parts, with room between them  *)
(* for the two extranonces.                                                *)
(*                                                                         *)
(* An address is a text, of which the code looks at the letters: "1" is    *)
(* the separator of bech32 and a digit of base58, "q" stands for the       *)
(* letters of both alphabets, "B" for those of base58 only and "0" for     *)
(* those of bech32 only.  What the two decoders make of the text are its   *)
(* fields base58 and bech32.                                               *)
(***************************************************************************)
EXTENDS MerkleTree, Floats

CONSTANTS
    ByteBase,           \* 256: the digits of a height or a time
    ChecksumLetters     \* 6: the letters at the end of a bech32 address

ASSUME CoinbaseAssumption ==
    /\ ByteBase \in Nat \ {0, 1} /\ ByteBase % 2 = 0
    /\ ChecksumLetters \in Nat

(* The bytes of the height from the lowest on, behind their number; a zero *)
(* byte follows one whose high bit is set.                                 *)
EncodeBip34Height(height) ==
    IF height = 0 THEN <<Byte(1), Byte(0)>>
    ELSE LET temp[i \in 0 .. height] == IF i = 0 THEN height ELSE temp[i - 1] \div ByteBase
             size  == CHOOSE n \in 1 .. height : temp[n] = 0 /\ temp[n - 1] > 0
             digit == [i \in 1 .. size |-> temp[i - 1] % ByteBase]
             bytes == IF digit[size] >= ByteBase \div 2 THEN Append(digit, 0) ELSE digit
         IN  <<Byte(Len(bytes))>> \o [i \in 1 .. Len(bytes) |-> Byte(bytes[i])]

-----------------------------------------------------------------------------
NoAddress == [text |-> << >>]

PayToKeyHash(hash) == <<Field("76a914"), hash, Field("88ac")>>
PayToScriptHash(hash) == <<Field("a914"), hash, Field("87")>>
burnScriptPubKey == PayToKeyHash(Field("zeros20"))

(* Whether bech32DecodeToScriptPubKey takes the text: one "1", and behind  *)
(* it letters of the alphabet, the checksum not looked at.                 *)
ReadsAsBech32(text) ==
    \E at \in 1 .. Len(text) :
        /\ \A i \in 1 .. Len(text) : text[i] = "1" <=> i = at
        /\ Len(text) - at > ChecksumLetters
        /\ \A i \in at + 1 .. Len(text) - ChecksumLetters : text[i] \in {"q", "0"}

ReadsAsBase58(text) == text # << >> /\ \A i \in 1 .. Len(text) : text[i] \in {"1", "q", "B"}

P2SHVersions == {"05", "c4", "3f"}

(* A raw script in hexadecimal, bech32, base58; what is none of them is    *)
(* burned.                                                                 *)
AddressToScriptPubKey(address) ==
    IF address = NoAddress THEN burnScriptPubKey
    ELSE IF address.hex # << >> THEN address.hex
    ELSE IF ReadsAsBech32(address.text) THEN address.bech32
    ELSE IF ~ReadsAsBase58(address.text) THEN burnScriptPubKey
    ELSE IF address.base58.version \in P2SHVersions
    THEN PayToScriptHash(address.base58.hash) ELSE PayToKeyHash(address.base58.hash)

IsValidAddress(address) ==
    address # NoAddress /\ AddressToScriptPubKey(address) # burnScriptPubKey

-----------------------------------------------------------------------------
Output(value, script) == <<[amount |-> value], Byte(Len(script))>> \o script

(* Mutant: the percentage is read as a whole number.                       *)
FeeSatoshisOfWholePercent(cfg, coinbaseValue) ==
    LET percent == cfg.feePercent.num \div cfg.feePercent.den
        part    == Float(percent, 100)
        fee     == Float(coinbaseValue * part.num, part.den)
    IN  IF percent > 0 /\ cfg.feeAddress # NoAddress THEN fee.num \div fee.den ELSE 0

(* cfg.feePercent is the decimal of POOL_FEE_PERCENT, a negative one as    *)
(* zero.  It is rounded when it is read, when it is divided by 100 and     *)
(* when the reward is multiplied with the quotient; the conversion to      *)
(* int64 then cuts the fraction off.                                       *)
FeeSatoshis(cfg, coinbaseValue) ==
    LET percent == Float(cfg.feePercent.num, cfg.feePercent.den)
        part    == Float(percent.num, 100 * percent.den)
        fee     == Float(coinbaseValue * part.num, part.den)
    IN  IF percent.num > 0 /\ cfg.feeAddress # NoAddress THEN fee.num \div fee.den ELSE 0

MinerSatoshis(cfg, coinbaseValue) == coinbaseValue - FeeSatoshis(cfg, coinbaseValue)

(* cfg.PoolFeePercent, PoolFeeAddress and WalletAddress; commitment is the *)
(* result of EffectiveWitnessCommitment.                                   *)
BuildCoinbaseTransaction(cfg, blockHeight, coinbaseValue, commitment) ==
    LET push    == EncodeBip34Height(blockHeight)
        fee     == FeeSatoshis(cfg, coinbaseValue)
        outputs == <<Output(MinerSatoshis(cfg, coinbaseValue), AddressToScriptPubKey(cfg.walletAddress))>>
                   \o (IF fee > 0 THEN <<Output(fee, AddressToScriptPubKey(cfg.feeAddress))>> ELSE << >>)
                   \o (IF commitment # {} THEN <<Output(0, Some(commitment))>> ELSE << >>)
    IN  [coinb1     |-> <<Field("version"), Byte(1), Field("nullOutpoint"), Byte(Len(push) + 2)>> \o push,
         coinb2     |-> <<Field("sequence"), Byte(Len(outputs))>> \o Joined(outputs)
                        \o <<Field("locktime")>>,
         hasWitness |-> commitment # {}]
=============================================================================
