------------------------- MODULE ShareSubmitProofs --------------------------
(***************************************************************************)
(* The duplicate-share filter, for every cache size and every set of keys; *)
(* and from a template to a block, for every set of templates,             *)
(* configurations, shares and targets, and every luck of the miner.        *)
(***************************************************************************)
EXTENDS ShareSubmit, CoinbaseProofs, SequenceTheorems, TLAPS

LEMMA GrowKeepsTypes ==
    ASSUME DedupTypeOK, NEW k \in Key, Grow(k)
    PROVE  DedupTypeOK'
  BY AppendProperties DEF DedupTypeOK, Grow

LEMMA OverwriteKeepsTypes ==
    ASSUME DedupTypeOK, IndexMatchesRing, NEW k \in Key, Overwrite(k)
    PROVE  /\ DedupTypeOK'
           /\ Len(ring) = Max /\ Len(ring') = Max
           /\ next + 1 \in 1 .. Len(ring)
           /\ \A i \in 1 .. Max : ring'[i] = IF i = next + 1 THEN k ELSE ring[i]
<1>1. Len(ring) = Max /\ next + 1 \in 1 .. Len(ring)
  BY MaxAssumption DEF DedupTypeOK, IndexMatchesRing, Overwrite
<1>2. /\ ring' \in Seq(Key) /\ Len(ring') = Max
      /\ \A i \in 1 .. Max : ring'[i] = IF i = next + 1 THEN k ELSE ring[i]
  BY <1>1, ExceptSeq DEF DedupTypeOK, Overwrite
<1>3. next' \in 0 .. Max - 1
  BY MaxAssumption DEF DedupTypeOK, Overwrite
<1> QED
  BY <1>1, <1>2, <1>3 DEF DedupTypeOK, Overwrite

LEMMA DuplicateKeepsIndex ==
    ASSUME DedupTypeOK, IndexMatchesRing, NEW k \in Key, Duplicate(k)
    PROVE  DedupTypeOK' /\ IndexMatchesRing'
  BY DEF DedupTypeOK, IndexMatchesRing, Duplicate

LEMMA GrowKeepsIndex ==
    ASSUME DedupTypeOK, IndexMatchesRing, NEW k \in Key, Grow(k)
    PROVE  IndexMatchesRing'
<1>1. /\ Len(ring') = Len(ring) + 1 /\ Len(ring) \in Nat
      /\ \A i \in 1 .. Len(ring) : ring'[i] = ring[i]
      /\ ring'[Len(ring) + 1] = k
  BY AppendProperties DEF DedupTypeOK, Grow
<1>2. Len(ring') <= Max /\ (Len(ring') < Max => next' = 0)
  BY <1>1, MaxAssumption DEF IndexMatchesRing, Grow
<1>3. seen' = {ring'[i] : i \in 1 .. Len(ring')}
  <2>1. 1 .. Len(ring') = (1 .. Len(ring)) \cup {Len(ring) + 1}
    BY <1>1
  <2> QED
    BY <1>1, <2>1 DEF IndexMatchesRing, Grow
<1>4. ASSUME NEW i \in 1 .. Len(ring'), NEW j \in 1 .. Len(ring'), ring'[i] = ring'[j]
      PROVE  i = j
  <2>1. \A m \in 1 .. Len(ring) : ring[m] # k
    BY DEF IndexMatchesRing, Grow
  <2> QED
    BY <1>1, <1>4, <2>1 DEF IndexMatchesRing
<1> QED
  BY <1>2, <1>3, <1>4 DEF IndexMatchesRing

LEMMA OverwriteKeepsIndex ==
    ASSUME DedupTypeOK, IndexMatchesRing, NEW k \in Key, Overwrite(k)
    PROVE  IndexMatchesRing'
<1>1. /\ Len(ring) = Max /\ Len(ring') = Max
      /\ next + 1 \in 1 .. Max
      /\ \A i \in 1 .. Max : ring'[i] = IF i = next + 1 THEN k ELSE ring[i]
  BY OverwriteKeepsTypes
<1>2. \A m \in 1 .. Max : ring[m] # k
  BY <1>1 DEF IndexMatchesRing, Overwrite
<1>3. \A i, j \in 1 .. Max : ring'[i] = ring'[j] => i = j
  BY <1>1, <1>2 DEF IndexMatchesRing
<1>4. seen' = {ring'[i] : i \in 1 .. Max}
  <2>1. seen' = ({ring[i] : i \in 1 .. Max} \ {ring[next + 1]}) \cup {k}
    BY <1>1 DEF IndexMatchesRing, Overwrite
  <2>2. ASSUME NEW x \in seen'
        PROVE  x \in {ring'[i] : i \in 1 .. Max}
    <3>1. CASE x = k
      BY <1>1, <3>1
    <3>2. CASE x # k
      <4>1. PICK i \in 1 .. Max : x = ring[i] /\ i # next + 1
        BY <2>1, <2>2, <3>2
      <4> QED
        BY <1>1, <4>1
    <3> QED
      BY <3>1, <3>2
  <2>3. ASSUME NEW i \in 1 .. Max
        PROVE  ring'[i] \in seen'
    <3>1. CASE i = next + 1
      BY <1>1, <2>1, <3>1
    <3>2. CASE i # next + 1
      <4>1. ring[i] # ring[next + 1]
        BY <1>1, <3>2 DEF IndexMatchesRing
      <4> QED
        BY <1>1, <2>1, <3>2, <4>1
    <3> QED
      BY <3>1, <3>2
  <2> QED
    BY <2>2, <2>3
<1> QED
  BY <1>1, <1>3, <1>4, MaxAssumption DEF IndexMatchesRing

LEMMA DedupInductive ==
    /\ DedupInit => DedupTypeOK /\ IndexMatchesRing
    /\ DedupTypeOK /\ IndexMatchesRing /\ [DedupNext]_dedupVars
          => DedupTypeOK' /\ IndexMatchesRing'
<1>1. DedupInit => DedupTypeOK /\ IndexMatchesRing
  BY MaxAssumption, EmptySeq DEF DedupInit, DedupTypeOK, IndexMatchesRing
<1>2. ASSUME DedupTypeOK, IndexMatchesRing, UNCHANGED dedupVars
      PROVE  DedupTypeOK' /\ IndexMatchesRing'
  BY <1>2 DEF DedupTypeOK, IndexMatchesRing, dedupVars
<1> QED
  BY <1>1, <1>2, DuplicateKeepsIndex, GrowKeepsTypes, GrowKeepsIndex,
     OverwriteKeepsTypes, OverwriteKeepsIndex DEF DedupNext, SeenOrAdd

(* next stays within the ring: SeenOrAdd never indexes past its end.      *)
THEOREM DedupTypeCorrect == DedupSpec => []DedupTypeOK
  BY DedupInductive, PTL DEF DedupSpec

(* Whatever is submitted, the map seen and the ring hold the same keys,   *)
(* no more than Max of them and each in one slot.                         *)
THEOREM IndexMatchesRingCorrect == DedupSpec => []IndexMatchesRing
  BY DedupInductive, PTL DEF DedupSpec

-----------------------------------------------------------------------------
(* The ring, read from its oldest key on, is a sequence of its length.    *)
LEMMA OldestFirstIsSeq ==
    ASSUME DedupTypeOK, IndexMatchesRing
    PROVE  /\ Len(ring) \in Nat
           /\ \A i \in 1 .. Len(ring) : Slot(i) \in 1 .. Len(ring)
           /\ \A m \in 1 .. Len(ring) : \E i \in 1 .. Len(ring) : Slot(i) = m
           /\ OldestFirst \in Seq(Key) /\ Len(OldestFirst) = Len(ring)
<1>1. Len(ring) \in Nat /\ next \in Nat /\ (next < Len(ring) \/ next = 0)
  BY MaxAssumption DEF DedupTypeOK, IndexMatchesRing
<1>2. \A i \in 1 .. Len(ring) : Slot(i) \in 1 .. Len(ring)
  BY <1>1 DEF Slot
<1>3. ASSUME NEW m \in 1 .. Len(ring)
      PROVE  \E i \in 1 .. Len(ring) : Slot(i) = m
  <2>1. CASE m > next
    <3>1. m - next \in 1 .. Len(ring) /\ Slot(m - next) = m
      BY <1>1, <2>1 DEF Slot
    <3> QED
      BY <3>1
  <2>2. CASE m <= next
    <3>1. /\ m - next + Len(ring) \in 1 .. Len(ring)
          /\ Slot(m - next + Len(ring)) = m
      BY <1>1, <2>2 DEF Slot
    <3> QED
      BY <3>1
  <2> QED
    BY <1>1, <2>1, <2>2
<1>4. \A i \in 1 .. Len(ring) : ring[Slot(i)] \in Key
  BY <1>2 DEF DedupTypeOK
<1>5. OldestFirst \in Seq(Key) /\ Len(OldestFirst) = Len(ring)
  BY <1>1, <1>4 DEF OldestFirst
<1> QED
  BY <1>1, <1>2, <1>3, <1>5

LEMMA SeenIsRemembered ==
    ASSUME DedupTypeOK, IndexMatchesRing, NEW k \in Key
    PROVE  k \in seen <=> Promise!Remembered(k)
<1>1. k \in seen <=> \E m \in 1 .. Len(ring) : ring[m] = k
  BY DEF IndexMatchesRing
<1>2. Promise!Remembered(k) <=> \E i \in 1 .. Len(ring) : ring[Slot(i)] = k
  BY OldestFirstIsSeq DEF Promise!Remembered, OldestFirst
<1> QED
  BY <1>1, <1>2, OldestFirstIsSeq

LEMMA GrowAppends ==
    ASSUME DedupTypeOK, IndexMatchesRing, NEW k \in Key, Grow(k)
    PROVE  OldestFirst' = Append(OldestFirst, k)
<1>1. /\ Len(ring') = Len(ring) + 1 /\ Len(ring) \in Nat
      /\ \A i \in 1 .. Len(ring) : ring'[i] = ring[i]
      /\ ring'[Len(ring) + 1] = k
  BY AppendProperties DEF DedupTypeOK, Grow
<1>2. next = 0 /\ next' = 0
  BY DEF IndexMatchesRing, Grow
<1>3. OldestFirst' = [i \in 1 .. Len(ring) + 1 |-> ring'[i]]
  BY <1>1, <1>2 DEF OldestFirst, Slot
<1>4. OldestFirst = [i \in 1 .. Len(ring) |-> ring[i]]
  BY <1>1, <1>2 DEF OldestFirst, Slot
<1>5. /\ DedupTypeOK' /\ IndexMatchesRing'
  BY GrowKeepsTypes, GrowKeepsIndex
<1>6. OldestFirst' \in Seq(Key) /\ Len(OldestFirst') = Len(ring) + 1
  BY <1>1, <1>3, <1>5 DEF DedupTypeOK
<1>7. /\ Append(OldestFirst, k) \in Seq(Key)
      /\ Len(Append(OldestFirst, k)) = Len(ring) + 1
      /\ \A i \in 1 .. Len(ring) : Append(OldestFirst, k)[i] = OldestFirst[i]
      /\ Append(OldestFirst, k)[Len(ring) + 1] = k
  BY OldestFirstIsSeq, AppendProperties
<1>8. \A i \in 1 .. Len(ring) + 1 : OldestFirst'[i] = Append(OldestFirst, k)[i]
  BY <1>1, <1>3, <1>4, <1>7
<1> QED
  BY <1>6, <1>7, <1>8, SeqEqual

LEMMA OverwriteShifts ==
    ASSUME DedupTypeOK, IndexMatchesRing, NEW k \in Key, Overwrite(k)
    PROVE  OldestFirst' = Append(Tail(OldestFirst), k)
<1> DEFINE new == Append(Tail(OldestFirst), k)
<1>1. /\ Len(ring) = Max /\ Len(ring') = Max
      /\ next + 1 \in 1 .. Max
      /\ \A i \in 1 .. Max : ring'[i] = IF i = next + 1 THEN k ELSE ring[i]
  BY OverwriteKeepsTypes
<1>2. Max \in Nat \ {0} /\ next \in 0 .. Max - 1
  BY MaxAssumption DEF DedupTypeOK
<1>3. next' = IF next + 1 = Max THEN 0 ELSE next + 1
  BY <1>2 DEF Overwrite
<1>4. OldestFirst \in Seq(Key) /\ Len(OldestFirst) = Max /\ OldestFirst # << >>
  BY <1>1, <1>2, OldestFirstIsSeq, EmptySeq
<1>5. /\ Tail(OldestFirst) \in Seq(Key) /\ Len(Tail(OldestFirst)) = Max - 1
      /\ \A i \in 1 .. Max - 1 : Tail(OldestFirst)[i] = OldestFirst[i + 1]
  BY <1>4, HeadTailProperties
<1>6. /\ new \in Seq(Key) /\ Len(new) = Max
      /\ \A i \in 1 .. Max - 1 : new[i] = OldestFirst[i + 1]
      /\ new[Max] = k
  BY <1>2, <1>5, AppendProperties
<1>7. DedupTypeOK' /\ IndexMatchesRing'
  BY OverwriteKeepsTypes, OverwriteKeepsIndex
<1>8. OldestFirst' \in Seq(Key) /\ Len(OldestFirst') = Max
  <2>1. \A i \in 1 .. Max : Slot(i)' \in 1 .. Max
    BY <1>1, <1>2, <1>3 DEF Slot
  <2>2. OldestFirst' = [i \in 1 .. Max |-> ring'[Slot(i)']]
    BY <1>1 DEF OldestFirst
  <2>3. \A i \in 1 .. Max : ring'[Slot(i)'] \in Key
    BY <1>1, <1>7, <2>1 DEF DedupTypeOK
  <2> QED
    BY <1>2, <2>2, <2>3
<1>9. ASSUME NEW i \in 1 .. Max
      PROVE  OldestFirst'[i] = new[i]
  <2>1. OldestFirst'[i] = ring'[Slot(i)']
    BY <1>1 DEF OldestFirst
  <2>2. CASE i = Max
    <3>1. Slot(i)' = next + 1
      BY <1>1, <1>2, <1>3, <2>2 DEF Slot
    <3> QED
      BY <1>1, <1>6, <2>1, <2>2, <3>1
  <2>3. CASE i # Max
    <3>1. i + 1 \in 1 .. Max /\ i \in 1 .. Max - 1
      BY <1>2, <2>3
    <3>2. Slot(i)' = Slot(i + 1) /\ Slot(i)' # next + 1 /\ Slot(i)' \in 1 .. Max
      BY <1>1, <1>2, <1>3, <3>1 DEF Slot
    <3>3. OldestFirst[i + 1] = ring[Slot(i + 1)]
      BY <1>1, <3>1 DEF OldestFirst
    <3> QED
      BY <1>1, <1>6, <2>1, <3>1, <3>2, <3>3
  <2> QED
    BY <2>2, <2>3
<1> HIDE DEF new
<1>10. OldestFirst' = new
  BY <1>6, <1>8, <1>9, SeqEqual
<1> QED
  BY <1>10 DEF new

(* The ring with its index keeps the promise of RecentKeys: a share is    *)
(* called a duplicate exactly when it is one of the Max last ones that    *)
(* were counted.                                                          *)
THEOREM RemembersRecentKeysCorrect == DedupSpec => RemembersRecentKeys
<1>1. DedupInit => Promise!RKInit
  BY EmptySeq DEF DedupInit, Promise!RKInit, Promise!NoAnswer, OldestFirst
<1>2. ASSUME DedupTypeOK, IndexMatchesRing, NEW k \in Key, SeenOrAdd(k)
      PROVE  Promise!SubmitKey(k)
  <2>1. Len(OldestFirst) = Len(ring) /\ Len(ring) \in Nat
    BY <1>2, OldestFirstIsSeq
  <2>2. CASE Duplicate(k)
    BY <1>2, <2>2, SeenIsRemembered
    DEF Duplicate, Promise!SubmitKey, OldestFirst, Slot
  <2>3. ASSUME k \notin seen
        PROVE  Promise!Remembered(k) = FALSE
    BY <1>2, <2>3, SeenIsRemembered DEF Promise!Remembered
  <2>4. CASE Grow(k)
    BY <1>2, <2>1, <2>3, <2>4, GrowAppends DEF Grow, Promise!SubmitKey
  <2>5. CASE Overwrite(k)
    <3>1. ~(Len(OldestFirst) < Max) /\ Promise!Remembered(k) = FALSE
      BY <2>1, <2>3, <2>5, MaxAssumption DEF Overwrite
    <3>2. OldestFirst' = Append(Tail(OldestFirst), k)
      BY <1>2, <2>5, OverwriteShifts
    <3>3. answer' = [key |-> k, dup |-> FALSE]
      BY <2>5 DEF Overwrite
    <3> QED
      BY <3>1, <3>2, <3>3 DEF Promise!SubmitKey
  <2> QED
    BY <1>2, <2>2, <2>4, <2>5 DEF SeenOrAdd
<1>3. UNCHANGED dedupVars => UNCHANGED Promise!rkVars
  BY DEF dedupVars, Promise!rkVars, OldestFirst, Slot
<1>4. DedupTypeOK /\ IndexMatchesRing /\ [DedupNext]_dedupVars
         => [Promise!RKNext]_Promise!rkVars
  BY <1>2, <1>3 DEF DedupNext, Promise!RKNext
<1> QED
  BY <1>1, <1>4, DedupInductive, PTL
  DEF DedupSpec, RemembersRecentKeys, Promise!RKSpec

-----------------------------------------------------------------------------

(* Every mining.submit goes to the filter, and only there.                 *)
LEMMA SubmitUsesFilter ==
    ASSUME scenario \in Scenario, SubmitNext
    PROVE  DedupNext
<1>1. PICK share \in scenario.shares : DuplicateShare(share) \/ LowDifficulty(share) \/ Accept(share)
  BY DEF SubmitNext
<1>2. share.sent \in Key
  BY ShareAssumption
<1>3. SeenOrAdd(share.sent)
  BY <1>1 DEF DuplicateShare, LowDifficulty, Accept, SeenOrAdd
<1> QED
  BY <1>2, <1>3 DEF DedupNext

LEMMA ScenarioIsFixed == SubmitNext => UNCHANGED scenario
  BY DEF SubmitNext, DuplicateShare, LowDifficulty, Accept

LEMMA ScenarioInvariant == SubmitSpec => [](scenario \in Scenario)
<1>1. SubmitInit => scenario \in Scenario
  BY DEF SubmitInit
<1>2. scenario \in Scenario /\ [SubmitNext]_submitVars => (scenario \in Scenario)'
  BY ScenarioIsFixed DEF submitVars
<1> QED
  BY <1>1, <1>2, PTL DEF SubmitSpec

(* handleSubmit uses the filter as ShareDeduper describes it.              *)
THEOREM SubmitImplementsDeduper == SubmitSpec => DedupSpec
<1>1. SubmitInit => DedupInit
  BY DEF SubmitInit
<1>2. scenario \in Scenario /\ [SubmitNext]_submitVars => [DedupNext]_dedupVars
  BY SubmitUsesFilter DEF submitVars
<1> QED
  BY <1>1, <1>2, ScenarioInvariant, PTL DEF SubmitSpec, DedupSpec

(* So a share is called a duplicate exactly when it is one of the last Max *)
(* that were counted, whatever they achieved.                              *)
THEOREM SubmitRemembersRecentKeys == SubmitSpec => RemembersRecentKeys
  BY SubmitImplementsDeduper, RemembersRecentKeysCorrect, PTL

-----------------------------------------------------------------------------
Outcome ==
    {[verdict |-> "none"]}
    \cup [verdict : {"duplicate", "low"}, share : scenario.shares]
    \cup [verdict : {"share", "block"}, share : scenario.shares,
          header : {found.header : found \in scenario.lucky}]

OutcomeOK == outcome \in Outcome

LEMMA HitsAreLucky ==
    ASSUME NEW share, NEW target, NEW header \in Hits(share, target)
    PROVE  header \in {found.header : found \in scenario.lucky}
  BY DEF Hits, Meets

(* Types of the last submission's outcome.                                 *)
THEOREM ShareSubmitTypeCorrect == SubmitSpec => []ShareSubmitTypeOK
<1>1. SubmitInit => OutcomeOK
  BY DEF SubmitInit, OutcomeOK, Outcome
<1>2. ASSUME OutcomeOK, [SubmitNext]_submitVars
      PROVE  OutcomeOK'
  <2>1. CASE UNCHANGED submitVars
    BY <1>2, <2>1 DEF submitVars, OutcomeOK, Outcome
  <2>2. ASSUME NEW share \in scenario.shares, DuplicateShare(share) \/ LowDifficulty(share)
        PROVE  OutcomeOK'
    BY <2>2 DEF DuplicateShare, LowDifficulty, OutcomeOK, Outcome
  <2>3. ASSUME NEW share \in scenario.shares, Accept(share)
        PROVE  OutcomeOK'
    <3>1. PICK header \in Hits(share, scenario.minerTarget) :
            outcome' = [verdict |-> IF header \in Meets(scenario.networkTarget) THEN "block" ELSE "share",
                        share |-> share, header |-> header]
      BY <2>3 DEF Accept
    <3>2. header \in {found.header : found \in scenario.lucky}
      BY HitsAreLucky
    <3> QED
      BY <2>3, <3>1, <3>2 DEF Accept, OutcomeOK, Outcome
  <2> QED
    BY <1>2, <2>1, <2>2, <2>3 DEF SubmitNext
<1>3. DedupTypeOK /\ scenario \in Scenario /\ OutcomeOK => ShareSubmitTypeOK
  BY DEF ShareSubmitTypeOK, OutcomeOK, Outcome
<1> QED
  BY <1>1, <1>2, <1>3, ScenarioInvariant, SubmitImplementsDeduper, DedupTypeCorrect, PTL
     DEF SubmitSpec

-----------------------------------------------------------------------------
(* A miner reports in an order of bytes of its own, one for each field, as *)
(* long as it is among those the code knows; the version it rolled is the  *)
(* one of the bits it sent.                                                *)
InSomeOrder(bytes, sent) ==
    /\ Len(sent) = 4
    /\ \E order \in ByteOrders : bytes = [i \in 1 .. 4 |-> sent[order[i]]]

Reported(share, job) ==
    /\ InSomeOrder(share.meant.ext2, share.sent.ext2)
    /\ InSomeOrder(share.meant.nTime, share.sent.nTime)
    /\ InSomeOrder(share.meant.nonce, share.sent.nonce)
    /\ share.meant.version \in getVersionCandidates(job.version, share.sent.versionBits)

LEMMA KnownOrdersAreTried ==
    ASSUME NEW bytes, NEW sent, InSomeOrder(bytes, sent)
    PROVE  bytes \in getBytePermutations(sent)
  BY DEF InSomeOrder, getBytePermutations

(* What a miner reports so is among the headers that are tried, if the     *)
(* pool gave it four bytes or fewer to roll.                               *)
LEMMA ReportedIsCandidate ==
    ASSUME NEW share, NEW job, Reported(share, job), Extranonce2Size <= 4
    PROVE  IsCandidate(share.meant, share.sent, job)
<1>1. share.meant.ext2 \in getExt2Candidates(share.sent.ext2)
  BY KnownOrdersAreTried, SearchAssumption DEF Reported, InSomeOrder, getExt2Candidates
<1>2. share.meant.nTime \in getNTimeCandidates(share.sent.nTime, job.nTime)
  BY KnownOrdersAreTried DEF Reported, getNTimeCandidates
<1>3. share.meant.nonce \in getNonceCandidates(share.sent.nonce)
  BY KnownOrdersAreTried DEF Reported, InSomeOrder, getNonceCandidates
<1> QED
  BY <1>1, <1>2, <1>3 DEF IsCandidate, Reported

ReportedWell == \A share \in scenario.shares : Reported(share, JobFields)

LEMMA ReportedWellInvariant ==
    ASSUME \A s \in Scenario : \A share \in s.shares :
             Reported(share, [version |-> s.template.version, nTime |-> s.template.nTime])
    PROVE  SubmitSpec => []ReportedWell
<1>1. scenario \in Scenario => ReportedWell
  BY DEF ReportedWell, JobFields, Template
<1> QED
  BY <1>1, ScenarioInvariant, PTL

(* The verdict on a share is right when it is given, and the scenario does *)
(* not change behind it.                                                   *)
LowIsLow == outcome.verdict = "low" => Hits(outcome.share, scenario.minerTarget) = {}
ShareIsNoBlock ==
    outcome.verdict = "share" =>
        /\ outcome.header \in Hits(outcome.share, scenario.minerTarget)
        /\ outcome.header \notin Meets(scenario.networkTarget)

LEMMA VerdictsAreRight == SubmitSpec => [](LowIsLow /\ ShareIsNoBlock /\ OutcomeOK)
<1> DEFINE Inv == LowIsLow /\ ShareIsNoBlock
<1>1. SubmitInit => Inv
  BY DEF SubmitInit, LowIsLow, ShareIsNoBlock
<1>2. ASSUME Inv, [SubmitNext]_submitVars
      PROVE  Inv'
  <2>1. UNCHANGED scenario
    BY <1>2, ScenarioIsFixed DEF submitVars
  <2>2. \A share, target : Hits(share, target)' = Hits(share, target) /\ Meets(target)' = Meets(target)
    BY <2>1 DEF Hits, Meets, JobFields, Template
  <2>3. CASE UNCHANGED submitVars
    BY <1>2, <2>1, <2>2, <2>3 DEF submitVars, LowIsLow, ShareIsNoBlock
  <2>4. ASSUME NEW share \in scenario.shares, DuplicateShare(share) \/ LowDifficulty(share)
        PROVE  Inv'
    BY <2>1, <2>2, <2>4 DEF DuplicateShare, LowDifficulty, LowIsLow, ShareIsNoBlock
  <2>5. ASSUME NEW share \in scenario.shares, Accept(share)
        PROVE  Inv'
    BY <2>1, <2>2, <2>5 DEF Accept, LowIsLow, ShareIsNoBlock
  <2> QED
    BY <1>2, <2>3, <2>4, <2>5 DEF SubmitNext
<1>3. ShareSubmitTypeOK => OutcomeOK
  BY DEF ShareSubmitTypeOK, OutcomeOK, Outcome
<1> QED
  BY <1>1, <1>2, <1>3, ShareSubmitTypeCorrect, PTL DEF SubmitSpec

(* No miner that reports in a known order is told "low difficulty" of a    *)
(* header that meets the difficulty.                                       *)
THEOREM HonestSharesCountCorrect ==
    ASSUME Extranonce2Size <= 4,
           \A s \in Scenario : \A share \in s.shares :
             Reported(share, [version |-> s.template.version, nTime |-> s.template.nTime])
    PROVE  SubmitSpec => []HonestSharesCount
<1>1. LowIsLow /\ OutcomeOK /\ ReportedWell => HonestSharesCount
  <2> SUFFICES ASSUME LowIsLow, OutcomeOK, ReportedWell, outcome.verdict = "low",
                      outcome.share.meant \in Meets(scenario.minerTarget)
               PROVE  FALSE
    BY DEF HonestSharesCount
  <2>1. outcome.share \in scenario.shares
    BY DEF OutcomeOK, Outcome
  <2>2. IsCandidate(outcome.share.meant, outcome.share.sent, JobFields)
    BY <2>1, ReportedIsCandidate DEF ReportedWell
  <2> QED
    BY <2>2 DEF LowIsLow, Hits
<1> QED
  BY <1>1, VerdictsAreRight, ReportedWellInvariant, PTL

(* A header that solves a block is submitted, unless it does not meet the  *)
(* session's own difficulty or another order of its bytes was found first. *)
THEOREM SolvedBlocksAreSubmittedCorrect ==
    ASSUME Extranonce2Size <= 4,
           \A s \in Scenario : \A share \in s.shares :
             Reported(share, [version |-> s.template.version, nTime |-> s.template.nTime])
    PROVE  SubmitSpec => []SolvedBlocksAreSubmitted
<1>1. HonestSharesCount /\ ShareIsNoBlock => SolvedBlocksAreSubmitted
  BY DEF HonestSharesCount, ShareIsNoBlock, SolvedBlocksAreSubmitted, TooEasyForSession, OtherFoundFirst
<1> QED
  BY <1>1, VerdictsAreRight, HonestSharesCountCorrect, PTL

-----------------------------------------------------------------------------
(* The tokens of a coinbase that pays to some scripts.                     *)
TokensOf(strings) ==
    {Byte(n) : n \in Nat} \cup {[amount |-> v] : v \in Int}
    \cup {Prefix, Field("version"), Field("sequence"), Field("locktime")}
    \cup UNION {{s[i] : i \in DOMAIN s} : s \in strings}

LEMMA TokensOfStrings ==
    ASSUME NEW strings, \A s \in strings : IsString(s)
    PROVE  IsTokens(TokensOf(strings)) /\ \A s \in strings : s \in Seq(TokensOf(strings))
<1>1. IsTokens(TokensOf(strings))
  BY DEF IsTokens, TokensOf
<1>2. ASSUME NEW s \in strings
      PROVE  s \in Seq(TokensOf(strings))
  <2>1. s \in Seq({s[i] : i \in DOMAIN s})
    BY DEF IsString
  <2>2. {s[i] : i \in DOMAIN s} \subseteq TokensOf(strings)
    BY DEF TokensOf
  <2> HIDE DEF TokensOf
  <2> QED
    BY <2>1, <2>2
<1> QED
  BY <1>1, <1>2

LEMMA PairsAndTriplesAreStrings ==
    ASSUME NEW a, NEW b, NEW c
    PROVE  IsString(<<a, b>>) /\ IsString(<<a, b, c>>)
<1>1. <<a, b>> \in Seq({<<a, b>>[i] : i \in DOMAIN <<a, b>>})
  <2>1. a \in {<<a, b>>[i] : i \in DOMAIN <<a, b>>}
    OBVIOUS
  <2>2. b \in {<<a, b>>[i] : i \in DOMAIN <<a, b>>}
    OBVIOUS
  <2> DEFINE S == {<<a, b>>[i] : i \in DOMAIN <<a, b>>}
  <2> HIDE DEF S
  <2>3. a \in S /\ b \in S => <<a, b>> \in Seq(S)
    OBVIOUS
  <2> QED
    BY <2>1, <2>2, <2>3 DEF S
<1>2. <<a, b, c>> \in Seq({<<a, b, c>>[i] : i \in DOMAIN <<a, b, c>>})
  <2>1. a \in {<<a, b, c>>[i] : i \in DOMAIN <<a, b, c>>}
    OBVIOUS
  <2>2. b \in {<<a, b, c>>[i] : i \in DOMAIN <<a, b, c>>}
    OBVIOUS
  <2>3. c \in {<<a, b, c>>[i] : i \in DOMAIN <<a, b, c>>}
    OBVIOUS
  <2> DEFINE S == {<<a, b, c>>[i] : i \in DOMAIN <<a, b, c>>}
  <2> HIDE DEF S
  <2>4. a \in S /\ b \in S /\ c \in S => <<a, b, c>> \in Seq(S)
    OBVIOUS
  <2> QED
    BY <2>1, <2>2, <2>3, <2>4 DEF S
<1> QED
  BY <1>1, <1>2 DEF IsString

(* What is paid to an address is a string, and its own script unless the   *)
(* code takes it for another kind.                                         *)
LEMMA AddressIsPaid ==
    ASSUME NEW a, IsAddress(a)
    PROVE  /\ IsString(AddressToScriptPubKey(a))
           /\ ~Misread(a) => AddressToScriptPubKey(a) = a.script
<1>1. IsString(a.hex) /\ IsString(a.bech32)
  BY DEF IsAddress
<1>2. \A h : IsString(PayToKeyHash(h)) /\ IsString(PayToScriptHash(h))
  BY PairsAndTriplesAreStrings DEF PayToKeyHash, PayToScriptHash
<1>3. IsString(burnScriptPubKey)
  BY <1>2 DEF burnScriptPubKey
<1>4. IsString(AddressToScriptPubKey(a))
  <2>1. \/ AddressToScriptPubKey(a) = burnScriptPubKey \/ AddressToScriptPubKey(a) = a.hex
        \/ AddressToScriptPubKey(a) = a.bech32
        \/ AddressToScriptPubKey(a) = PayToScriptHash(a.base58.hash)
        \/ AddressToScriptPubKey(a) = PayToKeyHash(a.base58.hash)
    BY Zenon DEF AddressToScriptPubKey
  <2> QED
    BY <1>1, <1>2, <1>3, <2>1, Zenon
<1>5. ASSUME ~Misread(a)
      PROVE  AddressToScriptPubKey(a) = a.script
  <2> HIDE DEF NoAddress
  <2>1. a # NoAddress /\ (a.hex # << >> <=> a.kind = "hex")
    BY DEF IsAddress
  <2>2. CASE a.kind = "hex" /\ a.script = a.hex
    BY <2>1, <2>2 DEF AddressToScriptPubKey
  <2>3. CASE a.kind = "segwit" /\ ReadsAsBech32(a.text) /\ a.script = a.bech32
    BY <2>1, <2>3 DEF AddressToScriptPubKey
  <2>4. CASE /\ a.kind = "p2pkh" /\ ReadsAsBase58(a.text)
             /\ a.base58.version \notin P2SHVersions
             /\ a.script = PayToKeyHash(a.base58.hash)
    BY <1>5, <2>1, <2>4 DEF AddressToScriptPubKey, Misread
  <2>5. CASE /\ a.kind = "p2sh" /\ ReadsAsBase58(a.text)
             /\ a.base58.version \in P2SHVersions
             /\ a.script = PayToScriptHash(a.base58.hash)
    BY <1>5, <2>1, <2>5 DEF AddressToScriptPubKey, Misread
  <2> QED
    BY <2>2, <2>3, <2>4, <2>5, Zenon DEF IsAddress
<1> QED
  BY <1>4, <1>5

LEMMA CommitmentIsString ==
    ASSUME NEW given, NEW data, EffectiveWitnessCommitment(given, data) # {}
    PROVE  IsString(Some(EffectiveWitnessCommitment(given, data)))
<1> DEFINE script == WitnessCommitmentScript(data)
<1>1. IsString(script)
  BY PairsAndTriplesAreStrings DEF WitnessCommitmentScript
<1>2. EffectiveWitnessCommitment(given, data) = {script}
  BY Zenon DEF EffectiveWitnessCommitment
<1> HIDE DEF script
<1>3. Some({script}) = script
  BY DEF Some
<1> QED
  BY <1>1, <1>2, <1>3

(* The coinbase of every scenario can be made of some set of tokens.       *)
CoinbaseTokens ==
    TokensOf({AddressToScriptPubKey(scenario.cfg.walletAddress)}
             \cup (IF scenario.cfg.feeAddress = NoAddress THEN {}
                   ELSE {AddressToScriptPubKey(scenario.cfg.feeAddress)})
             \cup (IF JobCommitment = {} THEN {} ELSE {Some(JobCommitment)}))

LEMMA CoinbaseIsPayable ==
    ASSUME scenario \in Scenario
    PROVE  /\ IsTokens(CoinbaseTokens)
           /\ Payable(scenario.cfg, Template.coinbaseValue, JobCommitment, CoinbaseTokens)
<1> DEFINE cfg == scenario.cfg
           strings == {AddressToScriptPubKey(cfg.walletAddress)}
                      \cup (IF cfg.feeAddress = NoAddress THEN {} ELSE {AddressToScriptPubKey(cfg.feeAddress)})
                      \cup (IF JobCommitment = {} THEN {} ELSE {Some(JobCommitment)})
<1>1. /\ Template.coinbaseValue \in Nat /\ IsFraction(cfg.feePercent)
      /\ IsAddress(cfg.walletAddress)
      /\ cfg.feeAddress # NoAddress => IsAddress(cfg.feeAddress)
  BY PayoutAssumption DEF Template
<1>2. IsString(AddressToScriptPubKey(cfg.walletAddress))
      /\ (cfg.feeAddress # NoAddress => IsString(AddressToScriptPubKey(cfg.feeAddress)))
  BY <1>1, AddressIsPaid
<1>3. JobCommitment # {} => IsString(Some(JobCommitment))
  BY CommitmentIsString DEF JobCommitment
<1>4. \A s \in strings : IsString(s)
  BY <1>2, <1>3, Zenon
<1>5. IsTokens(TokensOf(strings)) /\ \A s \in strings : s \in Seq(TokensOf(strings))
  <2> HIDE DEF strings
  <2> QED
    BY <1>4, TokensOfStrings
<1>6. /\ AddressToScriptPubKey(cfg.walletAddress) \in strings
      /\ cfg.feeAddress # NoAddress => AddressToScriptPubKey(cfg.feeAddress) \in strings
      /\ JobCommitment # {} => Some(JobCommitment) \in strings
  BY Zenon
<1>7. CoinbaseTokens = TokensOf(strings)
  BY Zenon DEF CoinbaseTokens
<1> HIDE DEF strings
<1> QED
  BY <1>1, <1>5, <1>6, <1>7, Zenon DEF Payable

(* What the wallet and the fee address are paid in every block.            *)
LEMMA PaidByOutputs ==
    ASSUME scenario \in Scenario, NEW script
    PROVE  PaidBy(script) =
             TotalValue(Only(PaidOuts(scenario.cfg, Template.coinbaseValue, JobCommitment), script))
<1> DEFINE cfg == scenario.cfg
           value == Template.coinbaseValue
           outs == PaidOuts(cfg, value, JobCommitment)
           T == CoinbaseTokens
<1>1. IsTokens(T) /\ Payable(cfg, value, JobCommitment, T)
  BY CoinbaseIsPayable
<1> HIDE DEF T
<1>2. ReadOuts(Parts.coinb2, 3, Parts.coinb2[2].byte).outs = outs
  <2> HIDE DEF cfg, value
  <2>1. Parts.coinb2 = BuildCoinbaseTransaction(cfg, Template.height, value, JobCommitment).coinb2
    BY DEF Parts, cfg, value
  <2> QED
    BY <1>1, <2>1, CoinbaseOutsAreRead
<1>3. PaidBy(script) = TotalValue(Only(outs, script))
  <2> HIDE DEF outs
  <2> QED
    BY <1>2 DEF PaidBy, Only
<1> QED
  BY <1>3

JobFee == FeeSatoshis(scenario.cfg, Template.coinbaseValue)

LEMMA AddressesGetReward ==
    ASSUME scenario \in Scenario, ~Misread(scenario.cfg.walletAddress)
    PROVE  /\ PaidBy(scenario.cfg.walletAddress.script) = Template.coinbaseValue - JobFee
           /\ scenario.cfg.feeAddress # NoAddress /\ ~Misread(scenario.cfg.feeAddress) =>
                PaidBy(scenario.cfg.feeAddress.script) = JobFee
<1> DEFINE cfg == scenario.cfg
           value == Template.coinbaseValue
           script == cfg.walletAddress.script
           outs == PaidOuts(cfg, value, JobCommitment)
<1>1. Payable(cfg, value, JobCommitment, CoinbaseTokens)
  BY CoinbaseIsPayable
<1>2. /\ IsAddress(cfg.walletAddress)
      /\ cfg.feeAddress # NoAddress =>
            IsAddress(cfg.feeAddress) /\ AddressToScriptPubKey(cfg.feeAddress) # script
  BY PayoutAssumption DEF Template
<1>3. AddressToScriptPubKey(cfg.walletAddress) = script
  BY <1>2, AddressIsPaid
<1>4. PaidBy(script) = value - FeeSatoshis(cfg, value)
  <2>1. TotalValue(Only(outs, script)) = value - FeeSatoshis(cfg, value)
    <3> HIDE DEF cfg, value, script
    <3> QED
      BY <1>1, <1>2, <1>3, WalletIsPaid
  <2> QED
    BY <2>1, PaidByOutputs
<1>5. ASSUME cfg.feeAddress # NoAddress, ~Misread(cfg.feeAddress)
      PROVE  PaidBy(cfg.feeAddress.script) = FeeSatoshis(cfg, value)
  <2> DEFINE pool == cfg.feeAddress.script
  <2>1. AddressToScriptPubKey(cfg.feeAddress) = pool
    BY <1>2, <1>5, AddressIsPaid
  <2>2. AddressToScriptPubKey(cfg.walletAddress) # pool
    BY <1>2, <1>3, <1>5, <2>1
  <2>3. TotalValue(Only(outs, pool)) = FeeSatoshis(cfg, value)
    <3> HIDE DEF cfg, value, pool
    <3> QED
      BY <1>1, <2>1, <2>2, FeeIsPaid
  <2> QED
    BY <2>3, PaidByOutputs
<1> QED
  BY <1>4, <1>5 DEF JobFee

(* In every block the pool submits, the wallet gets the reward less the    *)
(* fee and the fee address what is left, and the fee is the exact one but  *)
(* for at most one satoshi of float64, whatever the percentage up to 100,  *)
(* the height, the transactions of the template and the kind of the        *)
(* addresses, unless the code misreads one.                                *)
THEOREM RewardIsPaidCorrect == SubmitSpec => []RewardIsPaid
<1>1. scenario \in Scenario => RewardIsPaid
  <2> SUFFICES ASSUME scenario \in Scenario, ~Misread(scenario.cfg.walletAddress),
                      AtMost(scenario.cfg.feePercent, 100)
               PROVE  RewardIsPaid
    BY Zenon DEF RewardIsPaid
  <2> DEFINE value == Template.coinbaseValue
             taken == value - PaidBy(scenario.cfg.walletAddress.script)
  <2>1. value \in Nat /\ IsFraction(scenario.cfg.feePercent) /\ 2 * value <= Significand
    BY PayoutAssumption DEF Template
  <2>2. /\ JobFee \in 0 .. value
        /\ scenario.cfg.feeAddress = NoAddress => JobFee = 0
        /\ scenario.cfg.feeAddress # NoAddress => NearlyExact(JobFee)
    BY <2>1, FeeIsNearlyExact DEF JobFee, NearlyExact
  <2>3. taken = JobFee
    <3>1. taken = value - (value - JobFee)
      BY AddressesGetReward
    <3> HIDE DEF value
    <3> QED
      BY <2>1, <2>2, <3>1
  <2>4. scenario.cfg.feeAddress # NoAddress /\ ~Misread(scenario.cfg.feeAddress) =>
          PaidBy(scenario.cfg.feeAddress.script) = taken
    BY <2>3, AddressesGetReward
  <2> HIDE DEF taken
  <2>5. \/ scenario.cfg.feeAddress = NoAddress /\ taken = 0
        \/ /\ scenario.cfg.feeAddress # NoAddress /\ NearlyExact(taken)
           /\ Misread(scenario.cfg.feeAddress) \/ PaidBy(scenario.cfg.feeAddress.script) = taken
    BY <2>2, <2>3, <2>4, Zenon
  <2> QED
    BY <2>5, Zenon DEF RewardIsPaid, taken, value
<1> QED
  BY <1>1, ScenarioInvariant, PTL

-----------------------------------------------------------------------------
(* The tokens of a block with an extranonce of the miner.                  *)
BlockTokens(ext2) ==
    CoinbaseTokens \cup Token
    \cup {Field("nullOutpoint"), Zeros32, Field("extranonce1"), [ext2 |-> ext2]}

LEMMA MoreTokens ==
    ASSUME NEW A, NEW B, A \subseteq B
    PROVE  Transactions(A) \subseteq Transactions(B)
<1> SUFFICES ASSUME NEW tx \in Transactions(A)
             PROVE  tx \in Transactions(B)
  OBVIOUS
<1>1. Seq(A) \subseteq Seq(B)
  OBVIOUS
<1> DEFINE Ins(T) == [from : T, script : Seq(T)]
           Pay(T) == [value : Int, script : Seq(T)]
<1>2. Ins(A) \subseteq Ins(B) /\ Pay(A) \subseteq Pay(B)
  BY <1>1
<1>3. Seq(Seq(A)) \subseteq Seq(Seq(B))
  BY <1>1
<1>4. Seq(Seq(Seq(A))) \subseteq Seq(Seq(Seq(B)))
  BY <1>3
<1>5. Seq(Ins(A)) \subseteq Seq(Ins(B)) /\ Seq(Pay(A)) \subseteq Seq(Pay(B))
  <2> HIDE DEF Ins, Pay
  <2> QED
    BY <1>2
<1>6. /\ tx \in [ins : Seq(Ins(A)), outs : Seq(Pay(A)), stacks : Seq(Seq(Seq(A))), foreign : Seq(A)]
      /\ tx.ins # << >> /\ (tx.stacks = << >> \/ Len(tx.stacks) = Len(tx.ins))
  BY DEF Transactions
<1>7. tx \in [ins : Seq(Ins(B)), outs : Seq(Pay(B)), stacks : Seq(Seq(Seq(B))), foreign : Seq(B)]
  <2> DEFINE I(T) == Seq(Ins(T))
             O(T) == Seq(Pay(T))
             W(T) == Seq(Seq(Seq(T)))
             F(T) == Seq(T)
  <2>1. I(A) \subseteq I(B) /\ O(A) \subseteq O(B) /\ W(A) \subseteq W(B) /\ F(A) \subseteq F(B)
    BY <1>1, <1>4, <1>5
  <2>2. tx \in [ins : I(A), outs : O(A), stacks : W(A), foreign : F(A)]
    BY <1>6
  <2> HIDE DEF I, O, W, F
  <2>3. tx \in [ins : I(B), outs : O(B), stacks : W(B), foreign : F(B)]
    BY <2>1, <2>2
  <2> QED
    BY <2>3 DEF I, O, W, F
<1> QED
  BY <1>6, <1>7 DEF Transactions

LEMMA BlockTokensAre ==
    ASSUME NEW ext2, scenario \in Scenario
    PROVE  /\ IsTokens(BlockTokens(ext2))
           /\ Field("nullOutpoint") \in BlockTokens(ext2) /\ Zeros32 \in BlockTokens(ext2)
           /\ Field("extranonce1") \in BlockTokens(ext2) /\ [ext2 |-> ext2] \in BlockTokens(ext2)
           /\ Payable(scenario.cfg, Template.coinbaseValue, JobCommitment, BlockTokens(ext2))
<1> DEFINE T == BlockTokens(ext2)
           C == CoinbaseTokens
<1>1. IsTokens(C) /\ Payable(scenario.cfg, Template.coinbaseValue, JobCommitment, C)
  BY CoinbaseIsPayable
<1>2. C \subseteq T /\ Token \subseteq T
  BY DEF BlockTokens
<1>3. /\ Field("nullOutpoint") \in T /\ Zeros32 \in T
      /\ Field("extranonce1") \in T /\ [ext2 |-> ext2] \in T
  BY DEF BlockTokens
<1> HIDE DEF T, C
<1>4. IsTokens(T)
  BY <1>1, <1>2 DEF IsTokens
<1>5. Seq(C) \subseteq Seq(T)
  BY <1>2
<1>6. Payable(scenario.cfg, Template.coinbaseValue, JobCommitment, T)
  BY <1>1, <1>5 DEF Payable
<1> QED
  BY <1>3, <1>4, <1>6 DEF T

LEMMA TemplateIsOffered ==
    ASSUME NEW ext2, scenario \in Scenario, ~OutOfReach
    PROVE  /\ Offered(Template.entries, Template.txs, BlockTokens(ext2))
           /\ scenario.witnessData \/ \A i \in 1 .. Len(Template.txs) : Template.txs[i].stacks = << >>
<1> DEFINE T == BlockTokens(ext2)
           txs == Template.txs
           entries == Template.entries
<1>1. /\ txs \in Seq(Transactions(Token)) /\ Len(entries) = Len(txs)
      /\ \A i \in 1 .. Len(txs) :
            /\ entries[i].txid \in {{}, {Txid(txs[i])}}
            /\ entries[i].data \in {{}, {Serialised(txs[i])}}
  BY TemplateAssumption, Zenon DEF Template
<1>2. \A i \in 1 .. Len(txs) : ~Unusable(i)
  BY Zenon DEF OutOfReach
<1>3. \A i \in 1 .. Len(txs) :
        /\ entries[i].data # {} /\ (entries[i].txid # {} \/ txs[i].foreign = << >>)
        /\ txs[i].stacks = << >> \/ scenario.witnessData
  BY <1>2, Zenon DEF Unusable
<1>4. IsTokens(T) /\ Token \subseteq T
  BY BlockTokensAre DEF BlockTokens
<1> HIDE DEF T, txs, entries
<1>5. txs \in Seq(Transactions(T))
  <2> DEFINE A == Transactions(Token)
             B == Transactions(T)
  <2>1. A \subseteq B /\ txs \in Seq(A)
    BY <1>1, <1>4, MoreTokens
  <2> HIDE DEF A, B
  <2>2. txs \in Seq(B)
    BY <2>1
  <2> QED
    BY <2>2 DEF B
<1>6. \A i \in 1 .. Len(txs) :
        /\ entries[i].data = {Serialised(txs[i])}
        /\ \/ entries[i].txid = {Txid(txs[i])}
           \/ entries[i].txid = {} /\ txs[i].foreign = << >>
  BY <1>1, <1>3, Zenon
<1>7. Offered(entries, txs, T)
  BY <1>1, <1>4, <1>5, <1>6, Zenon DEF Offered
<1> QED
  BY <1>3, <1>7, Zenon DEF T, txs, entries

LEMMA ScriptsAreShort ==
    ASSUME scenario \in Scenario
    PROVE  ShortScripts(scenario.cfg, JobCommitment) /\ PlainScripts(scenario.cfg)
<1> DEFINE cfg == scenario.cfg
<1>1. /\ CompactLimit > 3
      /\ \A address \in {cfg.walletAddress, cfg.feeAddress} \ {NoAddress} :
            /\ Len(AddressToScriptPubKey(address)) < CompactLimit
            /\ ~IsCommitment(AddressToScriptPubKey(address))
  BY TemplateAssumption, Zenon
<1>2. cfg.walletAddress # NoAddress
  BY PayoutAssumption, Zenon DEF IsAddress
<1>3. ASSUME JobCommitment # {}
      PROVE  Len(Some(JobCommitment)) < CompactLimit
  <2> DEFINE script == WitnessCommitmentScript(TxsData(Template.entries))
  <2>1. JobCommitment = {script}
    BY <1>3, Zenon DEF JobCommitment, EffectiveWitnessCommitment
  <2>2. Len(script) = 2
    BY DEF WitnessCommitmentScript
  <2> HIDE DEF script
  <2>3. Some(JobCommitment) = script
    BY <2>1 DEF Some
  <2>4. CompactLimit \in Nat /\ 2 < CompactLimit
    <3> HIDE DEF cfg
    <3> QED
      BY <1>1, CompactAssumption
  <2> QED
    BY <2>2, <2>3, <2>4
<1> HIDE DEF cfg
<1>4. ShortScripts(cfg, JobCommitment) /\ PlainScripts(cfg)
  BY <1>1, <1>2, <1>3, Zenon DEF ShortScripts, PlainScripts
<1> QED
  BY <1>4 DEF cfg

LEMMA TemplateIsMinable ==
    ASSUME NEW ext2, scenario \in Scenario, ~OutOfReach
    PROVE  /\ Minable(Template.height, <<Field("extranonce1"), [ext2 |-> ext2]>>, scenario.cfg,
                      Template.coinbaseValue, JobCommitment, BlockTokens(ext2))
           /\ AtMost(scenario.cfg.feePercent, 100)
<1> DEFINE T == BlockTokens(ext2)
           extra == <<Field("extranonce1"), [ext2 |-> ext2]>>
           height == Template.height
           percent == scenario.cfg.feePercent
<1>1. height \in Nat /\ Len(EncodeBip34Height(height)) + 2 < CompactLimit
  BY TemplateAssumption, Zenon DEF Template
<1>2. ~(height <= 16) /\ AtMost(percent, 100)
  BY Zenon DEF OutOfReach
<1>4. /\ IsTokens(T) /\ Field("nullOutpoint") \in T /\ Zeros32 \in T
      /\ Field("extranonce1") \in T /\ [ext2 |-> ext2] \in T
      /\ Payable(scenario.cfg, Template.coinbaseValue, JobCommitment, T)
  BY BlockTokensAre
<1>5. extra \in Seq(T) /\ Len(extra) = 2
  <2> HIDE DEF T
  <2> QED
    BY <1>4
<1>6. ShortScripts(scenario.cfg, JobCommitment)
  BY ScriptsAreShort
<1> HIDE DEF T, extra, height, percent
<1>7. height \in Nat \ {0} /\ AtMost(percent, 100)
  BY <1>1, <1>2
<1>8. Minable(height, extra, scenario.cfg, Template.coinbaseValue, JobCommitment, T)
  BY <1>1, <1>4, <1>5, <1>6, <1>7, Zenon DEF Minable
<1> QED
  BY <1>7, <1>8 DEF T, extra, height, percent

LEMMA BlockIsAccepted ==
    ASSUME NEW header, scenario \in Scenario, ~OutOfReach
    PROVE  AcceptsBlock(BlockOf(header), Template, Template.txs, scenario.witnessData, ByteBase)
<1> DEFINE T == BlockTokens(header.ext2)
           extra == <<Field("extranonce1"), [ext2 |-> header.ext2]>>
           cfg == scenario.cfg
           value == Template.coinbaseValue
           height == Template.height
           entries == Template.entries
           txs == Template.txs
           takes == scenario.witnessData
           tx == MinedCoinbase(height, extra, cfg, value, JobCommitment)
           block == BlockOf(header)
<1>1. Offered(entries, txs, T) /\ (takes \/ \A i \in 1 .. Len(txs) : txs[i].stacks = << >>)
  BY TemplateIsOffered
<1>2. Minable(height, extra, cfg, value, JobCommitment, T) /\ AtMost(cfg.feePercent, 100)
  BY TemplateIsMinable
<1>3. PlainScripts(cfg)
  BY ScriptsAreShort
<1>4. JobCommitment = EffectiveWitnessCommitment(Template.commitment, TxsData(entries))
  BY DEF JobCommitment
<1>5. takes \in BOOLEAN
  BY TemplateAssumption, Zenon
<1>6. CoinbaseTx(header.ext2) = tx
  BY Zenon DEF CoinbaseTx, Parts, MinedCoinbase
<1>7. Parts.hasWitness <=> JobCommitment # {}
  BY DEF Parts, BuildCoinbaseTransaction
<1> HIDE DEF tx
<1>8. BuildBlockHeader(header).root = CalculateMerkleRoot(Sha256d(tx), CalculateMerkleBranch(entries))
  BY <1>6 DEF BuildBlockHeader
<1>9. block.root = CalculateMerkleRoot(Sha256d(tx), CalculateMerkleBranch(entries))
  BY <1>8 DEF BlockOf, buildFullBlockHex
<1>10. block.body = BodyOf(entries, IF JobCommitment # {} /\ takes THEN AddWitnessNonce(tx) ELSE tx)
  <2>1. block.body = BodyOf(entries, IF Parts.hasWitness /\ takes THEN AddWitnessNonce(CoinbaseTx(header.ext2))
                                     ELSE CoinbaseTx(header.ext2))
    BY DEF BlockOf, buildFullBlockHex, BodyOf
  <2> HIDE DEF block
  <2> QED
    BY <1>6, <1>7, <2>1, Zenon
<1>11. Template.height = height /\ Template.coinbaseValue = value /\ tx = MinedCoinbase(height, extra, cfg, value, JobCommitment)
  BY DEF tx
<1> HIDE DEF T, extra, cfg, value, height, entries, txs, takes, block
<1>12. AcceptsBlock(block, Template, txs, takes, ByteBase)
  BY <1>1, <1>2, <1>3, <1>4, <1>5, <1>9, <1>10, <1>11, MinedBlockIsAccepted
<1> QED
  BY <1>12 DEF block, txs, takes

(* Every block the pool submits is valid: the header commits to the        *)
(* coinbase and the transactions of the block, which are complete and in   *)
(* order; the coinbase carries the height, pays out the whole reward, and  *)
(* has the commitment and the reserved value whenever they are needed.     *)
(* For any number of transactions of any shape, any heights, amounts,      *)
(* addresses and extranonces.                                              *)
THEOREM SubmittedBlocksAreValidCorrect == SubmitSpec => []SubmittedBlocksAreValid
<1>1. scenario \in Scenario => SubmittedBlocksAreValid
  BY BlockIsAccepted, Zenon DEF SubmittedBlocksAreValid
<1> QED
  BY <1>1, ScenarioInvariant, PTL
=============================================================================
