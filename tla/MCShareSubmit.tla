--------------------------- MODULE MCShareSubmit ----------------------------
(* Instances of ShareSubmit: templates of up to seven transactions of all  *)
(* kinds, configurations, and luck.                                        *)
EXTENDS ShareSubmit

Input(name, n) == [from |-> Field(name), script |-> [i \in 1 .. n |-> Byte(i)]]
Paying(value, n) == [value |-> value, script |-> [i \in 1 .. n |-> Byte(i)]]

(* Legacy, with scripts that need the longer length; with a witness; in a  *)
(* foreign format.                                                         *)
Legacy(name) == [ins |-> <<Input(name, 1), Input(name, CompactLimit)>>,
                 outs |-> <<Paying(1, 2)>>, stacks |-> << >>, foreign |-> << >>]
Segwit(name) == [ins |-> <<Input(name, 0), Input(name, 0)>>,
                 outs |-> <<Paying(1, CompactLimit), Paying(2, 1)>>,
                 stacks |-> <<<<<<Byte(7)>>, << >>>>, << >>>>, foreign |-> << >>]
Foreign(name) == [Legacy(name) EXCEPT !.foreign = <<Field("payload")>>]

(* What a node offers of a transaction.                                    *)
Offer(tx, fields) ==
    [txid |-> IF "txid" \in fields THEN {Txid(tx)} ELSE {},
     hash |-> IF "hash" \in fields THEN {Wtxid(tx)} ELSE {},
     data |-> IF "data" \in fields THEN {Serialised(tx)} ELSE {}]

Usual == {"txid", "hash", "data"}
Old == {"hash", "data"}
Offers(txs, fields) == [i \in 1 .. Len(txs) |-> Offer(txs[i], fields)]

Names == <<"a", "b", "c", "d", "e", "f", "g">>
Mixed(n) == [i \in 1 .. n |-> IF i % 2 = 0 THEN Legacy(Names[i]) ELSE Segwit(Names[i])]
Plain(n) == [i \in 1 .. n |-> Legacy(Names[i])]

RightCommitment(txs) ==
    {<<Field("6a24aa21a9ed"),
       Sha256d(<<RootOf(<<Zeros32>> \o [i \in 1 .. Len(txs) |-> Wtxid(txs[i])]), Zeros32>>)>>}
OtherCommitment == {<<Field("other")>>}

MCTemplate(txs, entries, commitment, height) ==
    [height |-> height, coinbaseValue |-> 127, commitment |-> commitment,
     version |-> {0, 5}, nTime |-> <<1, 3, 3, 2>>, txs |-> txs, entries |-> entries]

Templates ==
    {MCTemplate(Mixed(n), Offers(Mixed(n), Usual), RightCommitment(Mixed(n)), 17) : n \in 0 .. 7}
    \cup {MCTemplate(Mixed(n), Offers(Mixed(n), Old), {}, 32) : n \in {0, 1, 4}}
    \cup {MCTemplate(<<Foreign("a"), Segwit("b")>>,
                     Offers(<<Foreign("a"), Segwit("b")>>, fields), OtherCommitment, 64) :
             fields \in {Usual, Old, {"txid"}}}

-----------------------------------------------------------------------------
P2PKH(text) ==
    [kind |-> "p2pkh", text |-> text, hex |-> << >>, bech32 |-> <<Byte(1), Byte(1), Field("stray")>>,
     base58 |-> [version |-> "00", hash |-> Field("key")], script |-> <<Field("76a914"), Field("key"), Field("88ac")>>]
P2SH == [P2PKH(<<"B", "q", "q", "B">>) EXCEPT
            !.base58 = [version |-> "3f", hash |-> Field("redeem")],
            !.kind = "p2sh", !.script = <<Field("a914"), Field("redeem"), Field("87")>>]
SegwitAddress == [P2PKH(<<"B", "q", "1", "q", "0", "q", "q">>) EXCEPT
            !.bech32 = <<Byte(0), Byte(1), Field("program")>>,
            !.kind = "segwit", !.script = <<Byte(0), Byte(1), Field("program")>>]
RawScript == [P2PKH(<<"0">>) EXCEPT !.hex = <<Field("raw")>>, !.kind = "hex", !.script = <<Field("raw")>>]

(* Of 127 satoshis, 63.78 % are 81 and 8.65 % are 10; with a Significand   *)
(* of 256 the pool takes 80 and 11.                                        *)
MCScales == {2^k : k \in 0 .. 18}
Percent(num, den) == [num |-> num, den |-> den]
Percents == {Percent(0, 1), Percent(1, 2), Percent(399, 100), Percent(6378, 100),
             Percent(865, 100), Percent(100, 1), Percent(150, 1)}

NoFee == [walletAddress |-> P2PKH(<<"1", "q", "B", "q", "q">>), feeAddress |-> NoAddress, feePercent |-> Percent(1, 1)]
Wallets == {P2PKH(<<"1", "q", "B", "q", "q">>), P2PKH(<<"q", "B", "q", "q", "q">>),
            P2PKH(<<"1", "q", "1", "q", "q">>), P2SH, SegwitAddress, RawScript}
Configs == {[NoFee EXCEPT !.walletAddress = wallet] : wallet \in Wallets}
           \cup {[NoFee EXCEPT !.feeAddress = P2SH, !.feePercent = percent] : percent \in Percents}

-----------------------------------------------------------------------------
(* What a miner sends of a header in a byte order of its own.              *)
Sent(bytes, order) == [j \in 1 .. 4 |-> bytes[CHOOSE i \in 1 .. 4 : order[i] = j]]

Solved == [ext2 |-> <<0, 1, 2, 3>>, version |-> {0, 3, 5}, nTime |-> <<2, 0, 1, 3>>, nonce |-> <<3, 0, 2, 1>>]
Turned == [Solved EXCEPT !.nonce = <<0, 3, 2, 1>>]

Report(o1, o2, o3, header) ==
    [meant |-> header,
     sent |-> [ext2 |-> Sent(header.ext2, o1), nTime |-> Sent(header.nTime, o2),
               nonce |-> Sent(header.nonce, o3),
               versionBits |-> {Sent(<<0, 0, 2, 0>>, o3)}]]
InOrder == <<1, 2, 3, 4>>
Reports == {Report(order, order, order, Solved) : order \in ByteOrders}
Shortened == [Report(InOrder, InOrder, InOrder, Solved) EXCEPT !.sent.ext2 = <<1, 2, 3>>]
Wrong == [Report(InOrder, InOrder, InOrder, Solved) EXCEPT !.sent.nonce = <<1, 1, 1, 1>>,
          !.meant.nonce = <<1, 1, 1, 1>>]

MCShare == Reports \cup {Shortened, Wrong}
MCKey == {share.sent : share \in MCShare}

Few == {Report(InOrder, InOrder, InOrder, Solved), Shortened, Wrong}
Hit(header, hash) == [header |-> header, hash |-> hash]

Mining(cfg, template, witnessData, lucky, minerTarget, shares) ==
    [cfg |-> cfg, template |-> template, witnessData |-> witnessData, lucky |-> lucky,
     minerTarget |-> minerTarget, networkTarget |-> 1, shares |-> shares]

Small == MCTemplate(Mixed(2), Offers(Mixed(2), Usual), {}, 63)
Legal == MCTemplate(Plain(3), Offers(Plain(3), Usual), OtherCommitment, 31)

MCScenario ==
    {Mining(NoFee, template, TRUE, {Hit(Solved, 1)}, 2, Few) : template \in Templates}
    \cup {Mining(cfg, Small, TRUE, {Hit(Solved, 1)}, 2, Few) : cfg \in Configs}
    \cup {Mining(NoFee, template, FALSE, {Hit(Solved, 1)}, 2, Few) : template \in {Legal, Small}}
    \cup {Mining(NoFee, Small, TRUE, {Hit(Solved, 1)}, 2, MCShare),
          Mining(NoFee, Small, TRUE, {Hit(Solved, 2)}, 2, Few),
          Mining(NoFee, Small, TRUE, {Hit(Solved, 1), Hit(Turned, 2)}, 2, Few),
          Mining(NoFee, Small, TRUE, {Hit(Solved, 1)}, 0, Few),
          Mining(NoFee, MCTemplate(Mixed(1), Offers(Mixed(1), Usual), {}, 16),
                 TRUE, {Hit(Solved, 1)}, 2, Few)}

(* A wallet address with no second "1" and only letters of bech32.         *)
MisreadScenario ==
    {Mining([NoFee EXCEPT !.walletAddress = P2PKH(<<"1", "q", "q", "q", "q">>)],
            Small, TRUE, {Hit(Solved, 1)}, 2, Few)}
=============================================================================
