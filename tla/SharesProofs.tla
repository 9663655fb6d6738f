---------------------------- MODULE SharesProofs ----------------------------
(***************************************************************************)
(* The shares of a session, for every configuration of vardiff, every set  *)
(* of shares and every cache size, without the bounds of the runs.         *)
(***************************************************************************)
EXTENDS Shares, SequenceTheorems, FiniteSetTheorems, TLAPS

(* The next difficulty is a difficulty, lies within the limits, and only  *)
(* at a limit, or at 1 and 2, is it the old one.                          *)
LEMMA NextDifficulty ==
    ASSUME NEW d \in Nat \ {0}, NEW num \in {3, 5}
    PROVE  /\ Retargeted(num, d) \in Nat \ {0}
           /\ MinDiff > 0 => Retargeted(num, d) >= MinDiff
           /\ MaxDiff > 0 => Retargeted(num, d) <= MaxDiff
           /\ Retargeted(num, d) = d => d \in {1, 2, MinDiff, MaxDiff}
<1> DEFINE r == Rounded(num, d)
<1>1. r \in Nat \ {0} /\ (r = d => d \in {1, 2})
  <2>1. CASE num = 3
    <3>1. num * d = 3 * d
      BY <2>1
    <3>2. CASE 3 * d < 256
      <4>1. r = IF (3 * d + 2) \div 4 < 1 THEN 1 ELSE (3 * d + 2) \div 4
        BY <3>1, <3>2 DEF Rounded
      <4> QED
        BY <4>1
    <3>3. CASE ~(3 * d < 256)
      <4>1. r = 32 * ((3 * d + 64) \div 128)
        BY <3>1, <3>3 DEF Rounded
      <4> QED
        BY <4>1, <3>3
    <3> QED
      BY <3>2, <3>3
  <2>2. CASE num = 5
    <3>1. num * d = 5 * d
      BY <2>2
    <3>2. CASE 5 * d < 256
      <4>1. r = IF (5 * d + 2) \div 4 < 1 THEN 1 ELSE (5 * d + 2) \div 4
        BY <3>1, <3>2 DEF Rounded
      <4> QED
        BY <4>1
    <3>3. CASE ~(5 * d < 256)
      <4>1. r = 32 * ((5 * d + 64) \div 128)
        BY <3>1, <3>3 DEF Rounded
      <4> QED
        BY <4>1, <3>3
    <3> QED
      BY <3>2, <3>3
  <2> QED
    BY <2>1, <2>2
<1>2. Retargeted(num, d) = AtMostMax(AtLeastMin(r))
  BY DEF Retargeted
<1> HIDE DEF r
<1> QED
  BY <1>1, <1>2, SharesAssumption DEF AtMostMax, AtLeastMin

LEMMA KeptTypes ==
    ASSUME SharesTypeOK
    PROVE  Kept \in Seq(0 .. now)
<1> DEFINE h == Append(shareHistory, now)
<1>1. h \in Seq(0 .. now) /\ Len(h) = Len(shareHistory) + 1
  BY AppendProperties DEF SharesTypeOK
<1>2. Cardinality(Expired) \in Nat
  <2>1. IsFiniteSet(1 .. Len(shareHistory))
    BY FS_Interval DEF SharesTypeOK
  <2>2. IsFiniteSet(Expired)
    BY <2>1, FS_Subset DEF Expired
  <2> QED
    BY <2>2, FS_CardinalityType
<1>3. \A i \in Cardinality(Expired) + 1 .. Len(h) : h[i] \in 0 .. now
  BY <1>1, <1>2, ElementOfSeq
<1> HIDE DEF h
<1> QED
  BY <1>1, <1>2, <1>3, SubSeqProperties DEF Kept, h

LEMMA RetargetTypes ==
    ASSUME SharesTypeOK, NEW d \in Nat \ {0}, Retarget(d), now' = now
    PROVE  /\ lastDiffChange' \in 0 .. now' /\ lastVardiff' \in 0 .. now'
           /\ currentDiff' \in Nat \ {0} /\ previousDiff' \in Nat \ {0}
           /\ outbox' \in Seq(Told)
           /\ epoch' \in Nat /\ epochEnd' \in Seq(0 .. now') /\ Len(epochEnd') = epoch'
<1>1. /\ lastDiffChange' \in 0 .. now' /\ lastVardiff' \in 0 .. now'
      /\ currentDiff' \in Nat \ {0} /\ previousDiff' \in Nat \ {0}
  BY DEF SharesTypeOK, Retarget
<1>2. epoch' \in Nat /\ epochEnd' \in Seq(0 .. now') /\ Len(epochEnd') = epoch'
  <2>1. /\ Append(epochEnd, now) \in Seq(0 .. now)
        /\ Len(Append(epochEnd, now)) = Len(epochEnd) + 1
    BY AppendProperties DEF SharesTypeOK
  <2>2. CASE d = currentDiff
    <3>1. epoch' = epoch /\ epochEnd' = epochEnd
      BY <2>2 DEF Retarget, epochVars
    <3> QED
      BY <3>1 DEF SharesTypeOK
  <2>3. CASE d # currentDiff
    <3>1. epoch' = epoch + 1 /\ epochEnd' = Append(epochEnd, now)
      BY <2>3 DEF Retarget
    <3>2. epoch \in Nat /\ Len(epochEnd) = epoch
      BY DEF SharesTypeOK
    <3> QED
      BY <2>1, <3>1, <3>2
  <2> QED
    BY <2>2, <2>3
<1>3. outbox' \in Seq(Told)
  <2>1. [diff |-> d, epoch |-> epoch'] \in Told
    BY <1>2 DEF Told
  <2> QED
    BY <2>1, AppendProperties DEF SharesTypeOK, Retarget
<1> QED
  BY <1>1, <1>2, <1>3

(* What Credit does to vardiff: a retarget that is due, or nothing.       *)
LEMMA CreditRetargets ==
    ASSUME Credit, currentDiff \in Nat \ {0}
    PROVE  \/ \E d \in Nat \ {0} :
                /\ Retarget(d)
                /\ now - lastVardiff >= Interval
                /\ MinDiff > 0 => d >= MinDiff
                /\ MaxDiff > 0 => d <= MaxDiff
                /\ d = currentDiff => d \in {1, 2, MinDiff, MaxDiff}
           \/ UNCHANGED <<currentDiff, previousDiff, lastDiffChange, lastVardiff,
                          outbox, epochVars>>
<1>1. CASE RetargetDue(Kept) /\ Retarget(Retargeted(5, currentDiff))
  BY <1>1, NextDifficulty DEF RetargetDue
<1>2. CASE RetargetDue(Kept) /\ Retarget(Retargeted(3, currentDiff))
  BY <1>2, NextDifficulty DEF RetargetDue
<1> QED
  BY <1>1, <1>2 DEF Credit

LEMMA CreditTypes ==
    ASSUME SharesTypeOK, Credit
    PROVE  SharesTypeOK'
<1>1. now' = now
  BY DEF Credit
<1>2. shareHistory' \in Seq(0 .. now')
  BY <1>1, KeptTypes DEF Credit
<1>3. /\ lastDiffChange' \in 0 .. now' /\ lastVardiff' \in 0 .. now'
      /\ currentDiff' \in Nat \ {0} /\ previousDiff' \in Nat \ {0}
      /\ outbox' \in Seq(Told)
      /\ epoch' \in Nat /\ epochEnd' \in Seq(0 .. now') /\ Len(epochEnd') = epoch'
  <2>1. CASE \E d \in Nat \ {0} : Retarget(d)
    BY <1>1, <2>1, RetargetTypes
  <2>2. CASE UNCHANGED <<currentDiff, previousDiff, lastDiffChange, lastVardiff,
                         outbox, epochVars>>
    BY <1>1, <2>2 DEF SharesTypeOK, epochVars
  <2> QED
    BY <2>1, <2>2, CreditRetargets DEF SharesTypeOK
<1>4. credits' \in [ShareId -> Nat] /\ slipped' \in Nat
  <2>1. credits \in [ShareId -> Nat] /\ slipped \in Nat
    BY DEF SharesTypeOK
  <2>2. credits' = [credits EXCEPT ![share.id] = @ + 1]
    BY DEF Credit
  <2>3. slipped' = slipped \/ slipped' = slipped + 1
    BY DEF Credit
  <2>4. share.id \in ShareId
    BY DEF SharesTypeOK, Credit
  <2>5. credits[share.id] + 1 \in Nat
    BY <2>1, <2>4
  <2>6. credits' \in [ShareId -> Nat]
    BY <2>1, <2>2, <2>4, <2>5
  <2> QED
    BY <2>1, <2>3, <2>6
<1> QED
  BY <1>1, <1>2, <1>3, <1>4 DEF SharesTypeOK, Credit, filterVars

LEMMA FilterTypes ==
    ASSUME SharesTypeOK, NEW id \in ShareId, Filter!SubmitKey(id)
    PROVE  recent' \in Seq(ShareId)
<1>1. Append(recent, id) \in Seq(ShareId)
  BY AppendProperties DEF SharesTypeOK
<1>2. CASE Len(recent) < CacheSize
  BY <1>1, <1>2 DEF SharesTypeOK, Filter!SubmitKey
<1>3. CASE ~(Len(recent) < CacheSize)
  <2>1. recent # << >>
    BY <1>3, SharesAssumption
  <2>2. Append(Tail(recent), id) \in Seq(ShareId)
    BY <2>1, HeadTailProperties, AppendProperties DEF SharesTypeOK
  <2> QED
    BY <1>3, <2>2 DEF SharesTypeOK, Filter!SubmitKey
<1> QED
  BY <1>2, <1>3

LEMMA JudgeTypes ==
    ASSUME SharesTypeOK, Judge
    PROVE  SharesTypeOK'
<1>1. share.id \in ShareId /\ share \in [id : ShareId, required : Nat]
  BY DEF SharesTypeOK, Judge
<1>2. recent' \in Seq(ShareId)
  BY <1>1, FilterTypes DEF Judge
<1>3. RequiredDiff \in Nat
  BY DEF SharesTypeOK, RequiredDiff
<1>4. /\ hpc' \in {"read", "credit"}
      /\ hpc' = "read" => share' = NoShare
      /\ hpc' # "read" => share' \in [id : ShareId, required : Nat]
  BY <1>1, <1>3 DEF Judge, Refuse
<1>5. forgotten' \subseteq ShareId
  BY DEF SharesTypeOK, Judge
<1> QED
  BY <1>2, <1>4, <1>5 DEF SharesTypeOK, Judge, vardiffVars, operatorVars, channelVars, epochVars

LEMMA PostTypes ==
    ASSUME SharesTypeOK, NEW id \in ShareId, Find(id) \/ Resend(id)
    PROVE  SharesTypeOK'
<1>1. Post(id)
  BY DEF Find, Resend
<1>2. inbox' \in Seq(ShareId)
  <2>1. inbox \in Seq(ShareId) /\ inbox' = Append(inbox, id)
    BY <1>1 DEF SharesTypeOK, Post
  <2> QED
    BY <2>1, AppendProperties
<1>3. found' \in [ShareId -> Told] /\ resends' \in Nat
  <2>1. found \in [ShareId -> Told] /\ resends \in Nat /\ told \in Told
    BY DEF SharesTypeOK
  <2>2. CASE Find(id)
    BY <2>1, <2>2 DEF Find
  <2>3. CASE Resend(id)
    BY <2>1, <2>3 DEF Resend
  <2> QED
    BY <2>2, <2>3
<1> QED
  BY <1>1, <1>2, <1>3 DEF SharesTypeOK, Post, vardiffVars, operatorVars,
                          filterVars, epochVars

LEMMA OtherTypes ==
    ASSUME SharesTypeOK,
           \/ Subscribe \/ HandlerEnds \/ CheckBlocker \/ StaleJob
           \/ Operator \/ Receive \/ Tick \/ Disconnect
    PROVE  SharesTypeOK'
<1> USE DEF SharesTypeOK, vardiffVars, operatorVars, filterVars, channelVars, epochVars
<1>1. CASE Subscribe
  <2>1. [diff |-> currentDiff, epoch |-> epoch] \in Told
    BY DEF Told
  <2>2. outbox' \in Seq(Told)
    BY <1>1, <2>1, AppendProperties DEF Subscribe
  <2> QED
    BY <1>1, <2>2 DEF Subscribe
<1>2. CASE HandlerEnds
  <2>1. << >> \in Seq(ShareId)
    BY EmptySeq
  <2> QED
    BY <1>2, <2>1 DEF HandlerEnds
<1>3. CASE CheckBlocker
  <2>1. Head(inbox) \in ShareId /\ Tail(inbox) \in Seq(ShareId)
    BY <1>3, HeadTailProperties DEF CheckBlocker
  <2>2. [id |-> Head(inbox), required |-> 0] \in [id : ShareId, required : Nat]
    BY <2>1
  <2> QED
    BY <1>3, <2>1, <2>2 DEF CheckBlocker
<1>4. CASE StaleJob
  BY <1>4 DEF StaleJob, Refuse
<1>5. CASE Operator
  <2>1. CASE DisableSession \/ BanSession \/ ResumeSession
    <3>1. flags' \subseteq {"disabled", "banned"} /\ opc' \in {"idle", "closing"}
      BY <2>1 DEF DisableSession, BanSession, ResumeSession, Operate
    <3>2. slipped' \in Nat
      BY <2>1 DEF DisableSession, BanSession, ResumeSession, Operate
    <3>3. UNCHANGED <<now, vardiffVars, credits, conn, hpc, share,
                      filterVars, forgotten, channelVars, epochVars>>
      BY <2>1 DEF DisableSession, BanSession, ResumeSession, Operate
    <3> QED
      BY <3>1, <3>2, <3>3
  <2>2. CASE CloseBanned
    <3>1. conn' \in {"open", "closed", "gone"} /\ (conn # "gone" => conn' # "gone")
      BY <2>2 DEF CloseBanned
    <3> QED
      BY <2>2, <3>1 DEF CloseBanned
  <2> QED
    BY <1>5, <2>1, <2>2 DEF Operator
<1>6. CASE Receive
  <2>1. Head(outbox) \in Told /\ Tail(outbox) \in Seq(Told)
    BY <1>6, HeadTailProperties DEF Receive
  <2> QED
    BY <1>6, <2>1 DEF Receive
<1>7. CASE Tick
  <2>1. now' \in Nat /\ now' = now + 1 /\ 0 .. now \subseteq 0 .. now'
    BY <1>7 DEF Tick
  <2>2. shareHistory \in Seq(0 .. now') /\ epochEnd \in Seq(0 .. now')
    BY <2>1, SeqMonotonic
  <2> QED
    BY <1>7, <2>1, <2>2 DEF Tick
<1>8. CASE Disconnect
  BY <1>8 DEF Disconnect
<1> QED
  BY <1>1, <1>2, <1>3, <1>4, <1>5, <1>6, <1>7, <1>8

LEMMA SharesTypes ==
    /\ SharesInit => SharesTypeOK
    /\ SharesTypeOK /\ [SharesNext]_vars => SharesTypeOK'
<1>1. SharesInit => SharesTypeOK
  <2>1. << >> \in Seq(0 .. 0) /\ << >> \in Seq(ShareId) /\ << >> \in Seq(Told) /\ Len(<< >>) = 0
    BY EmptySeq
  <2> QED
    BY <2>1, SharesAssumption
    DEF SharesInit, SharesTypeOK, Filter!RKInit, Told, NotTold, NotFound
<1>2. ASSUME SharesTypeOK, UNCHANGED vars
      PROVE  SharesTypeOK'
  BY <1>2 DEF SharesTypeOK, vars, vardiffVars, operatorVars, filterVars, channelVars, epochVars
<1> QED
  BY <1>1, <1>2, CreditTypes, JudgeTypes, PostTypes, OtherTypes DEF SharesNext, Handler

(* Type correctness, for every configuration.                             *)
THEOREM SharesTypeCorrect == SharesSpec => []SharesTypeOK
  BY SharesTypes, PTL DEF SharesSpec

-----------------------------------------------------------------------------
(* Only RecordShare moves the difficulty, and only submitKey the filter.  *)
LEMMA OnlyCreditRetargets ==
    ASSUME [SharesNext]_vars, ~Credit
    PROVE  UNCHANGED <<currentDiff, previousDiff, lastDiffChange, lastVardiff, epoch, epochEnd>>
BY DEF SharesNext, Handler, Subscribe, HandlerEnds, CheckBlocker, StaleJob, Judge, Operator,
       DisableSession, BanSession, ResumeSession, CloseBanned, Operate, Receive, Tick,
       Disconnect, Find, Resend, Post, vars, vardiffVars, epochVars

LEMMA OnlyJudgeRemembers ==
    ASSUME [SharesNext]_vars, ~Judge
    PROVE  UNCHANGED <<recent, forgotten>>
BY DEF SharesNext, Handler, Subscribe, HandlerEnds, CheckBlocker, StaleJob, Credit, Operator,
       DisableSession, BanSession, ResumeSession, CloseBanned, Operate, Receive, Tick,
       Disconnect, Find, Resend, Post, vars, filterVars

(* The difficulty after its first change is within the limits.            *)
LEMMA LimitsStep ==
    ASSUME SharesTypeOK, WithinLimits, [SharesNext]_vars
    PROVE  WithinLimits'
<1>1. CASE Credit
  <2>1. CASE \E d \in Nat \ {0} : /\ Retarget(d)
                                  /\ MinDiff > 0 => d >= MinDiff
                                  /\ MaxDiff > 0 => d <= MaxDiff
    BY <2>1 DEF Retarget, WithinLimits
  <2>2. CASE UNCHANGED <<currentDiff, epochVars>>
    BY <2>2 DEF WithinLimits, epochVars
  <2> QED
    BY <1>1, <2>1, <2>2, CreditRetargets DEF SharesTypeOK
<1>2. CASE ~Credit
  BY <1>2, OnlyCreditRetargets DEF WithinLimits
<1> QED
  BY <1>1, <1>2

(* Vardiff keeps the difficulty within the configured limits.             *)
THEOREM LimitsHold == SharesSpec => []WithinLimits
<1>1. SharesInit => WithinLimits
  BY DEF SharesInit, WithinLimits
<1> QED
  BY <1>1, LimitsStep, SharesTypeCorrect, PTL DEF SharesSpec

(* A retarget that leaves the difficulty is at a limit, or at 1 or 2.     *)
THEOREM VardiffMoves == SharesSpec => VardiffIsNotStuck
<1> DEFINE Moves == lastVardiff' # lastVardiff /\ currentDiff' = currentDiff
                        => currentDiff \in {1, 2, MinDiff, MaxDiff}
<1>1. ASSUME SharesTypeOK, [SharesNext]_vars
      PROVE  [Moves]_vars
  <2>1. CASE Credit
    <3>1. CASE \E d \in Nat \ {0} : Retarget(d) /\ (d = currentDiff => d \in {1, 2, MinDiff, MaxDiff})
      BY <3>1 DEF Retarget
    <3>2. CASE UNCHANGED lastVardiff
      BY <3>2
    <3> QED
      BY <1>1, <2>1, <3>1, <3>2, CreditRetargets DEF SharesTypeOK
  <2>2. CASE ~Credit
    BY <1>1, <2>2, OnlyCreditRetargets
  <2> QED
    BY <2>1, <2>2
<1> QED
  BY <1>1, SharesTypeCorrect, PTL DEF SharesSpec, VardiffIsNotStuck

-----------------------------------------------------------------------------
(* A worker that is not stopped has no share slipped; one that is has at  *)
(* most one, and then the handler is past it.                             *)
SlipInv ==
    /\ flags = {} => slipped = 0
    /\ slipped \in {0, 1}
    /\ slipped = 1 => hpc = "read"

LEMMA SlipStep ==
    ASSUME SharesTypeOK, SlipInv, [SharesNext]_vars
    PROVE  SlipInv'
<1> USE DEF SlipInv, vardiffVars, operatorVars, filterVars, channelVars, epochVars
<1>1. CASE Subscribe \/ HandlerEnds
  BY <1>1 DEF Subscribe, HandlerEnds
<1>2. CASE CheckBlocker
  BY <1>2 DEF CheckBlocker
<1>3. CASE StaleJob \/ Judge
  BY <1>3 DEF StaleJob, Judge, Refuse
<1>4. CASE Credit
  BY <1>4 DEF Credit
<1>5. CASE Operator
  <2>1. CASE DisableSession \/ BanSession
    <3>1. flags' # {}
      BY <2>1 DEF DisableSession, BanSession, Operate
    <3> QED
      BY <2>1, <3>1 DEF DisableSession, BanSession, Operate
  <2>2. CASE ResumeSession \/ CloseBanned
    BY <2>2 DEF ResumeSession, CloseBanned, Operate
  <2> QED
    BY <1>5, <2>1, <2>2 DEF Operator
<1>6. CASE Receive \/ Tick \/ Disconnect
  BY <1>6 DEF Receive, Tick, Disconnect
<1>7. CASE \E id \in ShareId : Find(id) \/ Resend(id)
  BY <1>7 DEF Find, Resend, Post
<1>8. CASE UNCHANGED vars
  BY <1>8 DEF vars
<1> QED
  BY <1>1, <1>2, <1>3, <1>4, <1>5, <1>6, <1>7, <1>8 DEF SharesNext, Handler

(* After the operator stops a worker at most one share is still counted.  *)
THEOREM AtMostOneSlipsThrough == SharesSpec => []AtMostOneSlips
<1>1. SharesInit => SlipInv
  BY DEF SharesInit, SlipInv
<1>2. SlipInv => AtMostOneSlips
  BY DEF SlipInv, AtMostOneSlips
<1> QED
  BY <1>1, <1>2, SlipStep, SharesTypeCorrect, PTL DEF SharesSpec

-----------------------------------------------------------------------------
(* Nothing the filter still knows was counted twice, what was counted or  *)
(* is about to be it knows, and what is about to be was not yet.          *)
OnceInv ==
    \A id \in ShareId \ forgotten :
        /\ credits[id] <= 1
        /\ credits[id] = 1 => Filter!Remembered(id)
        /\ hpc = "credit" /\ share.id = id => credits[id] = 0 /\ Filter!Remembered(id)

LEMMA SubmittedIsRemembered ==
    ASSUME SharesTypeOK, NEW id \in ShareId, Filter!SubmitKey(id)
    PROVE  Filter!Remembered(id)'
<1>1. CASE Filter!Remembered(id)
  BY <1>1 DEF Filter!SubmitKey, Filter!Remembered
<1>2. CASE ~Filter!Remembered(id)
  <2>1. \E s \in Seq(ShareId) : recent' = Append(s, id)
    <3>1. CASE Len(recent) < CacheSize
      BY <1>2, <3>1 DEF Filter!SubmitKey, SharesTypeOK
    <3>2. CASE ~(Len(recent) < CacheSize)
      <4>1. recent # << >>
        BY <3>2, SharesAssumption
      <4>2. Tail(recent) \in Seq(ShareId)
        BY <4>1, HeadTailProperties DEF SharesTypeOK
      <4> QED
        BY <1>2, <3>2, <4>2 DEF Filter!SubmitKey
    <3> QED
      BY <3>1, <3>2
  <2>2. PICK s \in Seq(ShareId) : recent' = Append(s, id)
    BY <2>1
  <2>3. /\ Len(recent') = Len(s) + 1 /\ recent'[Len(s) + 1] = id
        /\ Len(s) + 1 \in 1 .. Len(recent')
    BY <2>2, AppendProperties
  <2> QED
    BY <2>3 DEF Filter!Remembered
<1> QED
  BY <1>1, <1>2

LEMMA OnceStep ==
    ASSUME SharesTypeOK, OnceInv, [SharesNext]_vars
    PROVE  OnceInv'
<1> SUFFICES ASSUME NEW id \in ShareId, id \notin forgotten'
             PROVE  /\ credits'[id] <= 1
                    /\ credits'[id] = 1 => Filter!Remembered(id)'
                    /\ hpc' = "credit" /\ share'.id = id
                           => credits'[id] = 0 /\ Filter!Remembered(id)'
  BY DEF OnceInv
<1>1. CASE Judge
  <2>1. share.id \in ShareId /\ credits' = credits /\ credits[id] \in Nat
    BY <1>1 DEF Judge, SharesTypeOK
  <2>2. id \notin forgotten /\ (Filter!Remembered(id) => Filter!Remembered(id)')
    BY <1>1 DEF Judge
  <2>3. credits[id] <= 1 /\ (credits[id] = 1 => Filter!Remembered(id))
    BY <2>2 DEF OnceInv
  <2>4. ASSUME hpc' = "credit", share'.id = id
        PROVE  credits[id] = 0 /\ Filter!Remembered(id)'
    <3>1. ~Filter!Remembered(share.id) /\ share'.id = share.id
      BY <1>1, <2>4 DEF Judge, Refuse, SharesTypeOK
    <3>2. share.id = id
      BY <2>4, <3>1
    <3>3. Filter!SubmitKey(id)
      BY <1>1, <3>2 DEF Judge, Filter!SubmitKey, Filter!Remembered
    <3>4. ~Filter!Remembered(id) /\ Filter!Remembered(id)'
      BY <3>1, <3>2, <3>3, SubmittedIsRemembered DEF Filter!Remembered
    <3> QED
      BY <2>1, <2>3, <3>4
  <2> QED
    BY <2>1, <2>2, <2>3, <2>4
<1>2. CASE ~Judge
  <2>1. /\ id \notin forgotten /\ (Filter!Remembered(id)' <=> Filter!Remembered(id))
        /\ credits[id] \in Nat
    BY <1>2, OnlyJudgeRemembers DEF Filter!Remembered, SharesTypeOK
  <2>2. /\ credits[id] <= 1
        /\ credits[id] = 1 => Filter!Remembered(id)
        /\ hpc = "credit" /\ share.id = id => credits[id] = 0 /\ Filter!Remembered(id)
    BY <2>1 DEF OnceInv
  <2>3. CASE Credit
    <3>1. hpc' = "read" /\ hpc = "credit" /\ credits' = [credits EXCEPT ![share.id] = @ + 1]
      BY <2>3 DEF Credit
    <3>2. CASE share.id = id
      <4>1. credits'[id] = 1
        BY <2>2, <3>1, <3>2 DEF SharesTypeOK
      <4> QED
        BY <2>1, <2>2, <3>1, <3>2, <4>1
    <3>3. CASE share.id # id
      <4>1. credits'[id] = credits[id]
        BY <3>1, <3>3 DEF SharesTypeOK
      <4> QED
        BY <2>1, <2>2, <3>1, <4>1
    <3> QED
      BY <3>2, <3>3
  <2>4. CASE CheckBlocker \/ StaleJob
    BY <2>1, <2>2, <2>4 DEF CheckBlocker, StaleJob, Refuse
  <2>5. CASE ~(Credit \/ CheckBlocker \/ StaleJob)
    <3>1. UNCHANGED <<credits, hpc, share>>
      BY <1>2, <2>5
      DEF SharesNext, Handler, Subscribe, HandlerEnds, Operator,
          DisableSession, BanSession, ResumeSession, CloseBanned, Operate, Receive, Tick,
          Disconnect, Find, Resend, Post, vars
    <3> QED
      BY <2>1, <2>2, <3>1
  <2> QED
    BY <2>3, <2>4, <2>5
<1> QED
  BY <1>1, <1>2

(* No share is counted twice while the duplicate filter can know it.      *)
THEOREM SharesAreCreditedOnce == SharesSpec => []CreditedOnce
<1>1. SharesInit => OnceInv
  BY DEF SharesInit, OnceInv
<1>2. SharesTypeOK /\ OnceInv => CreditedOnce
  BY DEF SharesTypeOK, OnceInv, CreditedOnce
<1> QED
  BY <1>1, <1>2, OnceStep, SharesTypeCorrect, PTL DEF SharesSpec

-----------------------------------------------------------------------------
(* The changes of the difficulty so far, the last one at lastDiffChange.  *)
SpaceInv ==
    /\ lastDiffChange <= lastVardiff
    /\ epoch > 0 => epochEnd[epoch] = lastDiffChange
    /\ \A i \in 1 .. epoch - 1 : epochEnd[i] + Interval <= lastDiffChange
    /\ ChangesAreSpaced

LEMMA SpaceStep ==
    ASSUME SharesTypeOK, SpaceInv, [SharesNext]_vars
    PROVE  SpaceInv'
<1>1. CASE Credit
  <2>1. CASE \E d \in Nat \ {0} : /\ Retarget(d) /\ d # currentDiff
                                  /\ now - lastVardiff >= Interval
    <3>1. /\ epoch' = epoch + 1 /\ epochEnd' = Append(epochEnd, now)
          /\ lastDiffChange' = now /\ lastVardiff' = now
      BY <2>1 DEF Retarget
    <3>2. /\ now \in Nat /\ lastDiffChange \in 0 .. now /\ lastVardiff \in 0 .. now
          /\ epoch \in Nat /\ epochEnd \in Seq(0 .. now) /\ Len(epochEnd) = epoch
          /\ Interval \in Nat
      BY SharesAssumption DEF SharesTypeOK
    <3>3. /\ epochEnd'[epoch + 1] = now
          /\ \A i \in 1 .. epoch : epochEnd'[i] = epochEnd[i] /\ epochEnd[i] \in 0 .. now
      BY <3>1, <3>2, AppendProperties, ElementOfSeq
    <3>4. lastDiffChange + Interval <= now
      BY <2>1, <3>2 DEF SpaceInv
    <3>5. \A i \in 1 .. epoch : epochEnd[i] + Interval <= now
      <4> SUFFICES ASSUME NEW i \in 1 .. epoch
                   PROVE  epochEnd[i] + Interval <= now
        OBVIOUS
      <4>1. CASE i = epoch
        BY <3>2, <3>4, <4>1 DEF SpaceInv
      <4>2. CASE i # epoch
        <5>1. i \in 1 .. epoch - 1
          BY <3>2, <4>2
        <5>2. epochEnd[i] + Interval <= lastDiffChange
          BY <5>1 DEF SpaceInv
        <5> QED
          BY <3>2, <3>3, <3>4, <5>2
      <4> QED
        BY <4>1, <4>2
    <3>6. ChangesAreSpaced'
      <4> SUFFICES ASSUME NEW i \in 1 .. epoch
                   PROVE  epochEnd'[i + 1] - epochEnd'[i] >= Interval
        BY <3>1, <3>2 DEF ChangesAreSpaced
      <4>1. CASE i = epoch
        BY <3>2, <3>3, <3>5, <4>1
      <4>2. CASE i # epoch
        <5>1. i \in 1 .. epoch - 1 /\ i + 1 \in 1 .. epoch
          BY <3>2, <4>2
        <5>2. epochEnd[i + 1] - epochEnd[i] >= Interval
          BY <5>1 DEF SpaceInv, ChangesAreSpaced
        <5> QED
          BY <3>3, <5>1, <5>2
      <4> QED
        BY <4>1, <4>2
    <3>7. /\ lastDiffChange' <= lastVardiff'
          /\ epoch' > 0 => epochEnd'[epoch'] = lastDiffChange'
          /\ \A i \in 1 .. epoch' - 1 : epochEnd'[i] + Interval <= lastDiffChange'
      BY <3>1, <3>2, <3>3, <3>5
    <3> QED
      BY <3>6, <3>7 DEF SpaceInv
  <2>2. CASE /\ UNCHANGED <<lastDiffChange, epochVars>>
             /\ lastVardiff' \in {lastVardiff, now}
    <3>1. lastDiffChange \in 0 .. now /\ lastVardiff \in 0 .. now /\ now \in Nat
      BY DEF SharesTypeOK
    <3>2. lastDiffChange' <= lastVardiff'
      BY <2>2, <3>1 DEF SpaceInv
    <3> QED
      BY <2>2, <3>2 DEF SpaceInv, ChangesAreSpaced, epochVars
  <2>3. CASE \E d \in Nat \ {0} : Retarget(d) /\ d = currentDiff
    BY <2>2, <2>3 DEF Retarget
  <2> QED
    BY <1>1, <2>1, <2>2, <2>3, CreditRetargets DEF SharesTypeOK
<1>2. CASE ~Credit
  BY <1>2, OnlyCreditRetargets DEF SpaceInv, ChangesAreSpaced
<1> QED
  BY <1>1, <1>2

LEMMA SpaceInvHolds == SharesSpec => []SpaceInv
<1>1. SharesInit => SpaceInv
  BY DEF SharesInit, SpaceInv, ChangesAreSpaced
<1> QED
  BY <1>1, SpaceStep, SharesTypeCorrect, PTL DEF SharesSpec

(* Changes of the difficulty are at least the retarget interval apart.    *)
THEOREM ChangesStaySpaced == SharesSpec => []ChangesAreSpaced
<1>1. SpaceInv => ChangesAreSpaced
  BY DEF SpaceInv
<1> QED
  BY <1>1, SpaceInvHolds, PTL

-----------------------------------------------------------------------------
(* What the miner was told is what the session remembers of the last two  *)
(* difficulties, or older.                                                *)
Known(x) ==
    /\ x.epoch <= epoch
    /\ x.epoch = epoch => x.diff = currentDiff
    /\ x.epoch + 1 = epoch => x.diff = previousDiff

OutboxKnown == \A i \in 1 .. Len(outbox) : Known(outbox[i])
ToldKnown == told # NotTold => Known(told)
FoundKnown == \A id \in ShareId : found[id] # NotFound => Known(found[id])
SharesFound ==
    /\ \A i \in 1 .. Len(inbox) : found[inbox[i]] # NotFound
    /\ hpc # "read" => found[share.id] # NotFound

TellInv == OutboxKnown /\ ToldKnown /\ FoundKnown /\ SharesFound /\ DifficultyIsTold

(* Once known, it stays so, whatever the retarget.                        *)
LEMMA KnownStays ==
    ASSUME SharesTypeOK, [SharesNext]_vars, NEW x \in Told, Known(x)
    PROVE  Known(x)'
<1>1. CASE Credit
  <2>1. CASE \E d \in Nat \ {0} : Retarget(d)
    <3>1. \/ UNCHANGED <<epoch, currentDiff, previousDiff>>
          \/ epoch' = epoch + 1 /\ previousDiff' = currentDiff
      BY <2>1 DEF Retarget, epochVars
    <3>2. x.epoch \in Nat /\ epoch \in Nat
      BY DEF Told, SharesTypeOK
    <3> QED
      BY <3>1, <3>2 DEF Known
  <2>2. CASE UNCHANGED <<currentDiff, previousDiff, epochVars>>
    BY <2>2 DEF Known, epochVars
  <2> QED
    BY <1>1, <2>1, <2>2, CreditRetargets DEF SharesTypeOK
<1>2. CASE ~Credit
  BY <1>2, OnlyCreditRetargets DEF Known
<1> QED
  BY <1>1, <1>2

(* The difficulty of the session, sent.                                   *)
LEMMA SentIsKnown ==
    ASSUME SharesTypeOK, SharesTypeOK', OutboxKnown, [SharesNext]_vars,
           outbox' = Append(outbox, [diff |-> currentDiff', epoch |-> epoch'])
    PROVE  OutboxKnown' /\ DifficultyIsTold'
<1>1. PICK m \in Told : m = [diff |-> currentDiff', epoch |-> epoch']
  <2>1. currentDiff' \in Nat /\ epoch' \in Nat
    BY DEF SharesTypeOK
  <2> QED
    BY <2>1 DEF Told
<1>2. /\ outbox \in Seq(Told) /\ Len(outbox) \in Nat
      /\ Len(outbox') = Len(outbox) + 1 /\ outbox'[Len(outbox) + 1] = m
      /\ \A i \in 1 .. Len(outbox) : outbox'[i] = outbox[i]
  <2>1. outbox \in Seq(Told) /\ outbox' = Append(outbox, m)
    BY <1>1 DEF SharesTypeOK
  <2> QED
    BY <2>1, AppendProperties
<1>3. Known(m)'
  <2>1. m.epoch = epoch' /\ m.diff = currentDiff' /\ epoch' \in Nat
    BY <1>1 DEF SharesTypeOK
  <2>2. m.epoch <= epoch' /\ m.epoch + 1 # epoch'
    <3>1. PICK e \in Nat : e = epoch'
      BY <2>1
    <3>2. e <= e /\ e + 1 # e
      OBVIOUS
    <3>3. m.epoch = e
      BY <2>1, <3>1
    <3> QED
      BY <3>1, <3>2, <3>3
  <2> QED
    BY <2>1, <2>2 DEF Known
<1>4. OutboxKnown'
  <2> SUFFICES ASSUME NEW i \in 1 .. Len(outbox) + 1, NEW x, x = outbox'[i]
               PROVE  Known(x)'
    BY <1>2 DEF OutboxKnown, Known
  <2>1. CASE i = Len(outbox) + 1
    BY <1>2, <1>3, <2>1
  <2>2. CASE i # Len(outbox) + 1
    <3>1. i \in 1 .. Len(outbox)
      BY <1>2, <2>2
    <3>2. x \in Told /\ x = outbox[i]
      BY <1>2, <3>1, ElementOfSeq
    <3>3. Known(x)
      BY <3>1, <3>2 DEF OutboxKnown, Known
    <3> QED
      BY <3>2, <3>3, KnownStays
  <2> QED
    BY <2>1, <2>2
<1>5. DifficultyIsTold'
  <2>1. outbox' # << >> /\ outbox'[Len(outbox')] = m
    BY <1>2
  <2> QED
    BY <1>1, <2>1 DEF DifficultyIsTold, LastTold
<1> QED
  BY <1>4, <1>5

LEMMA OutboxStep ==
    ASSUME SharesTypeOK, SharesTypeOK', TellInv, [SharesNext]_vars
    PROVE  OutboxKnown' /\ ToldKnown' /\ DifficultyIsTold'
<1>1. CASE outbox' = Append(outbox, [diff |-> currentDiff', epoch |-> epoch']) /\ told' = told
  <2>1. ToldKnown'
    <3>1. told \in Told
      BY DEF SharesTypeOK
    <3>2. CASE told = NotTold
      BY <1>1, <3>2 DEF ToldKnown, NotTold
    <3>3. CASE told # NotTold
      <4>1. PICK x \in Told : x = told
        BY <3>1
      <4>2. Known(x)
        BY <3>3, <4>1 DEF TellInv, ToldKnown, Known
      <4>3. Known(x)'
        BY <4>2, KnownStays
      <4> QED
        BY <1>1, <4>1, <4>3 DEF ToldKnown, Known
    <3> QED
      BY <3>2, <3>3
  <2> QED
    BY <1>1, <2>1, SentIsKnown DEF TellInv
<1>2. CASE UNCHANGED <<outbox, told, currentDiff, previousDiff, epoch>>
  BY <1>2 DEF TellInv, OutboxKnown, ToldKnown, Known, DifficultyIsTold, LastTold, NotTold
<1>3. CASE Receive
  <2>1. UNCHANGED <<currentDiff, previousDiff, epoch>>
    BY <1>3 DEF Receive, vardiffVars, epochVars
  <2>2. /\ outbox \in Seq(Told) /\ outbox # << >> /\ Len(outbox) \in Nat \ {0}
        /\ told' = outbox[1] /\ Len(outbox') = Len(outbox) - 1
        /\ \A i \in 1 .. Len(outbox') : outbox'[i] = outbox[i + 1] /\ i + 1 \in 1 .. Len(outbox)
    BY <1>3, HeadTailProperties DEF Receive, SharesTypeOK
  <2>3. OutboxKnown'
    BY <2>1, <2>2 DEF TellInv, OutboxKnown, Known
  <2>4. ToldKnown'
    <3>1. 1 \in 1 .. Len(outbox)
      BY <2>2
    <3> QED
      BY <2>1, <2>2, <3>1 DEF TellInv, OutboxKnown, ToldKnown, Known
  <2>5. DifficultyIsTold'
    <3>1. LastTold' = outbox[Len(outbox)]
      <4>1. CASE Len(outbox) = 1
        <5>1. outbox' = << >>
          BY <1>3, <2>2, <4>1, HeadTailProperties, EmptySeq DEF Receive
        <5> QED
          BY <2>2, <4>1, <5>1 DEF LastTold
      <4>2. CASE Len(outbox) # 1
        <5>1. outbox' # << >> /\ Len(outbox') \in 1 .. Len(outbox')
          BY <2>2, <4>2
        <5>2. outbox'[Len(outbox')] = outbox[Len(outbox)]
          BY <2>2, <5>1
        <5> QED
          BY <5>1, <5>2 DEF LastTold
      <4> QED
        BY <4>1, <4>2
    <3>2. LastTold = outbox[Len(outbox)]
      BY <2>2 DEF LastTold
    <3> QED
      BY <2>1, <3>1, <3>2 DEF TellInv, DifficultyIsTold, NotTold
  <2> QED
    BY <2>3, <2>4, <2>5
<1>4. CASE Subscribe
  BY <1>1, <1>4 DEF Subscribe, vardiffVars, epochVars
<1>5. CASE Credit
  <2>1. told' = told
    BY <1>5 DEF Credit
  <2>2. CASE \E d \in Nat \ {0} : Retarget(d)
    BY <1>1, <2>1, <2>2 DEF Retarget
  <2>3. CASE UNCHANGED <<currentDiff, previousDiff, outbox, epochVars>>
    BY <1>2, <2>1, <2>3 DEF epochVars
  <2> QED
    BY <1>5, <2>2, <2>3, CreditRetargets DEF SharesTypeOK
<1>6. CASE ~(Receive \/ Subscribe \/ Credit)
  <2>1. UNCHANGED <<outbox, told>>
    BY <1>6
    DEF SharesNext, Handler, HandlerEnds, CheckBlocker, StaleJob, Judge, Operator,
        DisableSession, BanSession, ResumeSession, CloseBanned, Operate, Tick,
        Disconnect, Find, Resend, Post, vars, channelVars
  <2> QED
    BY <1>2, <1>6, <2>1, OnlyCreditRetargets
<1> QED
  BY <1>3, <1>4, <1>5, <1>6

LEMMA FoundStep ==
    ASSUME SharesTypeOK, TellInv, [SharesNext]_vars
    PROVE  FoundKnown' /\ SharesFound'
<1> USE DEF TellInv
<1>1. ASSUME UNCHANGED found
      PROVE  FoundKnown'
  <2> SUFFICES ASSUME NEW id \in ShareId, found[id] # NotFound
               PROVE  Known(found[id])'
    BY <1>1 DEF FoundKnown, NotFound, NotTold
  <2>1. PICK x \in Told : x = found[id]
    BY DEF SharesTypeOK
  <2>2. Known(x)
    BY <2>1 DEF FoundKnown, Known
  <2>3. Known(x)'
    BY <2>2, KnownStays
  <2> QED
    BY <1>1, <2>1, <2>3 DEF Known
<1>2. ASSUME NEW id \in ShareId, Find(id)
      PROVE  FoundKnown' /\ SharesFound'
  <2>1. /\ told # NotTold /\ found' = [found EXCEPT ![id] = told]
        /\ inbox' = Append(inbox, id)
        /\ UNCHANGED <<currentDiff, previousDiff, epoch, hpc, share>>
    BY <1>2 DEF Find, Post, vardiffVars, epochVars
  <2>2. FoundKnown'
    BY <2>1 DEF FoundKnown, ToldKnown, Known, SharesTypeOK, NotFound, NotTold
  <2>3. \A x \in ShareId : found[x] # NotFound \/ x = id => found'[x] # NotFound
    BY <2>1 DEF SharesTypeOK, NotFound
  <2>4. /\ inbox \in Seq(ShareId) /\ Len(inbox) \in Nat /\ Len(inbox') = Len(inbox) + 1
        /\ inbox'[Len(inbox) + 1] = id
        /\ \A i \in 1 .. Len(inbox) : inbox'[i] = inbox[i] /\ inbox[i] \in ShareId
    BY <2>1, AppendProperties, ElementOfSeq DEF SharesTypeOK
  <2>5. \A i \in 1 .. Len(inbox') : found'[inbox'[i]] # NotFound
    <3> SUFFICES ASSUME NEW i \in 1 .. Len(inbox) + 1
                 PROVE  found'[inbox'[i]] # NotFound
      BY <2>4 DEF NotFound, NotTold
    <3>1. CASE i = Len(inbox) + 1
      BY <2>3, <2>4, <3>1
    <3>2. CASE i \in 1 .. Len(inbox)
      BY <2>3, <2>4, <3>2 DEF SharesFound
    <3> QED
      BY <2>4, <3>1, <3>2
  <2>6. hpc' # "read" => found'[share'.id] # NotFound
    BY <2>1, <2>3 DEF SharesFound, SharesTypeOK
  <2> QED
    BY <2>2, <2>5, <2>6 DEF SharesFound, NotFound, NotTold
<1>3. ASSUME NEW id \in ShareId, Resend(id)
      PROVE  FoundKnown' /\ SharesFound'
  <2>1. /\ UNCHANGED <<found, hpc, share>> /\ inbox' = Append(inbox, id)
        /\ found[id] # NotFound
    BY <1>3 DEF Resend, Post
  <2>2. /\ Len(inbox) \in Nat /\ Len(inbox') = Len(inbox) + 1
        /\ inbox'[Len(inbox) + 1] = id
        /\ \A i \in 1 .. Len(inbox) : inbox'[i] = inbox[i]
    BY <2>1, AppendProperties DEF SharesTypeOK
  <2> QED
    BY <1>1, <2>1, <2>2 DEF SharesFound, NotFound, NotTold
<1>4. CASE CheckBlocker
  <2>1. /\ UNCHANGED found
        /\ \/ UNCHANGED <<hpc, share>>
           \/ hpc' = "judge" /\ share'.id = Head(inbox)
        /\ inbox # << >> /\ inbox' = Tail(inbox)
    BY <1>4 DEF CheckBlocker, channelVars
  <2>2. /\ Head(inbox) = inbox[1] /\ Len(inbox) \in Nat \ {0} /\ 1 \in 1 .. Len(inbox)
        /\ \A i \in 1 .. Len(inbox') : inbox'[i] = inbox[i + 1] /\ i + 1 \in 1 .. Len(inbox)
    BY <2>1, HeadTailProperties DEF SharesTypeOK
  <2> QED
    BY <1>1, <2>1, <2>2 DEF SharesFound, NotFound, NotTold
<1>5. CASE HandlerEnds
  <2>1. UNCHANGED <<found, hpc, share>> /\ inbox' = << >> /\ Len(inbox') = 0
    BY <1>5, EmptySeq DEF HandlerEnds
  <2> QED
    BY <1>1, <2>1 DEF SharesFound, NotFound, NotTold
<1>6. CASE StaleJob \/ Judge \/ Credit
  <2>1. /\ UNCHANGED <<found, inbox>>
        /\ hpc # "read"
        /\ hpc' = "read" \/ share'.id = share.id
    BY <1>6 DEF StaleJob, Judge, Credit, Refuse, channelVars, SharesTypeOK
  <2> QED
    BY <1>1, <2>1 DEF SharesFound, NotFound, NotTold
<1>7. CASE UNCHANGED <<found, inbox, hpc, share>>
  BY <1>1, <1>7 DEF SharesFound, NotFound, NotTold
<1>8. CASE Subscribe \/ Operator \/ Receive \/ Tick \/ Disconnect \/ UNCHANGED vars
  BY <1>7, <1>8
  DEF Subscribe, Operator, DisableSession, BanSession, ResumeSession, CloseBanned, Operate,
      Receive, Tick, Disconnect, vars, channelVars
<1> QED
  BY <1>2, <1>3, <1>4, <1>5, <1>6, <1>8 DEF SharesNext, Handler

LEMMA TellInvHolds == SharesSpec => []TellInv
<1>1. SharesInit => TellInv
  <2>1. SharesInit => Len(outbox) = 0 /\ Len(inbox) = 0
    BY EmptySeq DEF SharesInit
  <2> QED
    BY <2>1 DEF SharesInit, TellInv, OutboxKnown, ToldKnown, FoundKnown, SharesFound,
                DifficultyIsTold, LastTold
<1>2. SharesTypeOK /\ SharesTypeOK' /\ TellInv /\ [SharesNext]_vars => TellInv'
  BY OutboxStep, FoundStep DEF TellInv
<1> QED
  BY <1>1, <1>2, SharesTypeCorrect, PTL DEF SharesSpec

(* The last difficulty the miner was sent is that of the session.         *)
THEOREM MinerLearnsDifficulty == SharesSpec => []DifficultyIsTold
<1>1. TellInv => DifficultyIsTold
  BY DEF TellInv
<1> QED
  BY <1>1, TellInvHolds, PTL

(* A share is refused for its difficulty only when that was replaced more *)
(* than the grace window ago.                                             *)
THEOREM GraceIsKept == SharesSpec => HonestSharesAreAccepted
<1> DEFINE e == found[share.id].epoch
           Late == e < epoch /\ now - epochEnd[e + 1] > Grace
<1>1. ASSUME SharesTypeOK, TellInv, SpaceInv, [SharesNext]_vars, RefusedForDifficulty
      PROVE  Late
  <2>1. Judge
    BY <1>1, OnlyJudgeRemembers DEF RefusedForDifficulty
  <2>2. share.id \in ShareId /\ found[share.id] # NotFound
    BY <1>1, <2>1 DEF Judge, SharesTypeOK, TellInv, SharesFound
  <2>3. found[share.id].diff < RequiredDiff
    BY <1>1, <2>1 DEF Judge, RefusedForDifficulty, Filter!SubmitKey
  <2>4. PICK x \in Told : x = found[share.id]
    BY <1>1, <2>2 DEF SharesTypeOK
  <2>5. Known(x)
    BY <1>1, <2>2, <2>4 DEF TellInv, FoundKnown, Known
  <2>6. /\ x.epoch \in Nat /\ x.diff \in Nat /\ epoch \in Nat /\ now \in Nat
        /\ currentDiff \in Nat /\ previousDiff \in Nat \ {0} /\ lastDiffChange \in 0 .. now
        /\ Interval \in Nat /\ Grace \in Nat /\ Grace < Interval
        /\ epochEnd \in Seq(0 .. now) /\ Len(epochEnd) = epoch
    BY <1>1, SharesAssumption DEF SharesTypeOK, Told
  <2>7. x.diff < RequiredDiff
    BY <2>3, <2>4
  <2>8. x.epoch < epoch
    BY <2>5, <2>6, <2>7 DEF Known, RequiredDiff, InGrace
  <2>9. now - epochEnd[x.epoch + 1] > Grace
    <3>1. CASE x.epoch + 1 = epoch
      <4>1. x.diff = previousDiff /\ epochEnd[x.epoch + 1] = lastDiffChange
        BY <1>1, <2>5, <2>6, <3>1 DEF Known, SpaceInv
      <4> QED
        BY <2>6, <2>7, <4>1 DEF RequiredDiff, InGrace
    <3>2. CASE x.epoch + 1 # epoch
      <4>1. x.epoch + 1 \in 1 .. epoch - 1 /\ x.epoch + 1 \in 1 .. epoch
        BY <2>6, <2>8, <3>2
      <4>2. epochEnd[x.epoch + 1] + Interval <= lastDiffChange
        BY <1>1, <4>1 DEF SpaceInv
      <4>3. epochEnd[x.epoch + 1] \in 0 .. now
        BY <2>6, <4>1, ElementOfSeq
      <4> QED
        BY <2>6, <4>2, <4>3
    <3> QED
      BY <3>1, <3>2
  <2> QED
    BY <2>4, <2>8, <2>9
<1>2. SharesTypeOK /\ TellInv /\ SpaceInv /\ [SharesNext]_vars
          => [RefusedForDifficulty => Late]_vars
  BY <1>1
<1> QED
  BY <1>2, SharesTypeCorrect, TellInvHolds, SpaceInvHolds, PTL
  DEF SharesSpec, HonestSharesAreAccepted
=============================================================================
