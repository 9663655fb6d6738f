------------------------------- MODULE Shares -------------------------------
(***************************************************************************)
(* What becomes of the shares of one session: handleSubmit up to the       *)
(* acceptance (stratum/server.go), the vardiff of RecordShare and the      *)
(* grace window of EffectiveSubmitDiff (stratum/session.go), and the       *)
(* operator who disables, bans or resumes the session meanwhile.  Sessions *)
(* share nothing of this.  Shares and set_difficulty messages are in       *)
(* flight while the difficulty changes.                                    *)
(*                                                                         *)
(* The duplicate filter is RecentKeys, which module ShareDeduper           *)
(* implements.  What a share means for jobs and blocks is in               *)
(* JobDistribution and BlockSubmission; the counters and the best share,   *)
(* which only the dashboard shows, are left out.                           *)
(***************************************************************************)
EXTENDS Integers, Sequences, FiniteSets

CONSTANTS
    ShareId,        \* the shares the miner can find, each a key of its own
    CacheSize,      \* how many keys the duplicate filter remembers
    DefaultDiff, MinDiff, MaxDiff,  \* 0 in the last two means no limit
    EnableVardiff,
    Target,         \* VARDIFF_TARGET_SHARES, per minute
    Minute,         \* 60 s; this and the times below in one unit
    MinShares,      \* shares needed for a retarget, 10
    Interval,       \* time between retargets, 45 s
    MinSpan,        \* time the history must cover, 30 s
    Window,         \* time the history is kept, 10 min
    Grace,          \* vardiffSubmitGraceWindow, 15 s
    MaxTime,        \* bound of the clock
    MaxInFlight,    \* bound of the shares on the way
    MaxResends      \* bound of the shares sent again

ASSUME SharesAssumption ==
    /\ DefaultDiff \in Nat \ {0} /\ MinDiff \in Nat /\ MaxDiff \in Nat
    /\ MinDiff > 0 /\ MaxDiff > 0 => MinDiff <= MaxDiff
    /\ EnableVardiff \in BOOLEAN
    /\ CacheSize \in Nat \ {0} /\ Target \in Nat /\ Minute \in Nat \ {0} /\ MinShares \in Nat \ {0}
    /\ Interval \in Nat /\ MinSpan \in Nat \ {0} /\ Window \in Nat /\ Grace \in Nat
    /\ Grace < Interval
    /\ MaxTime \in Nat /\ MaxInFlight \in Nat /\ MaxResends \in Nat

VARIABLES
    now,
    currentDiff, previousDiff, lastDiffChange, lastVardiff,
    shareHistory,   \* the times of the accepted shares of the last Window
    flags,          \* the operator's: IsDisabled, IsBanned
    opc,            \* BanSession between the flag and closing the connection
    conn,           \* "open", "closed", or "gone" with its handler
    hpc,            \* where the handler stands in handleSubmit
    share,          \* the share it works on, and requiredDiff
    recent, answer, \* the duplicate filter
    inbox,          \* shares on the way to the pool
    outbox,         \* set_difficulty messages on the way to the miner
    told,           \* the last of them the miner received
    epoch,          \* history: how often currentDiff changed
    epochEnd,       \* history: when each difficulty but the last was replaced
    found,          \* history: the share with each id, once the miner found it
    resends,        \* history: how many were sent again
    credits,        \* history: how often each was accepted
    forgotten,      \* history: shares the duplicate filter no longer knows
    slipped         \* history: shares accepted since the session was blocked

vardiffVars == <<currentDiff, previousDiff, lastDiffChange, lastVardiff, shareHistory>>
filterVars == <<recent, answer>>
channelVars == <<inbox, outbox, told, found, resends>>
operatorVars == <<flags, opc, slipped>>
epochVars == <<epoch, epochEnd>>
vars == <<now, vardiffVars, credits, operatorVars, conn, hpc, share,
          filterVars, forgotten, channelVars, epochVars>>

Filter == INSTANCE RecentKeys WITH Key <- ShareId, Max <- CacheSize

-----------------------------------------------------------------------------
NotTold == [diff |-> 0, epoch |-> 0]
NotFound == NotTold
NoShare == [required |-> 0]

SharesInit ==
    /\ now = 0
    /\ currentDiff = DefaultDiff /\ previousDiff = DefaultDiff
    /\ lastDiffChange = 0 /\ lastVardiff = 0 /\ shareHistory = << >>
    /\ resends = 0 /\ credits = [id \in ShareId |-> 0]
    /\ flags = {} /\ opc = "idle" /\ slipped = 0
    /\ conn = "open" /\ hpc = "read" /\ share = NoShare
    /\ Filter!RKInit /\ forgotten = {}
    /\ inbox = << >> /\ outbox = << >> /\ told = NotTold
    /\ found = [id \in ShareId |-> NotFound]
    /\ epoch = 0 /\ epochEnd = << >>

-----------------------------------------------------------------------------
(* RecordShare's next difficulty.  Inside of half to twice the target rate *)
(* nothing changes, so the clamped ratio is always 3/4 or 5/4: num/4.      *)
(* Mutant: the difficulty is cut instead of rounded.                      *)
RoundedDown(num, diff) ==
    IF num * diff < 4 * 64
    THEN IF (num * diff) \div 4 < 1 THEN 1 ELSE (num * diff) \div 4
    ELSE 32 * ((num * diff) \div 128)

Rounded(num, diff) ==
    IF num * diff < 4 * 64
    THEN IF (num * diff + 2) \div 4 < 1 THEN 1 ELSE (num * diff + 2) \div 4
    ELSE 32 * ((num * diff + 64) \div 128)

AtLeastMin(d) == IF MinDiff > 0 /\ d < MinDiff THEN MinDiff ELSE d
AtMostMax(d) == IF MaxDiff > 0 /\ d > MaxDiff THEN MaxDiff ELSE d

Retargeted(num, diff) == AtMostMax(AtLeastMin(Rounded(num, diff)))

(* The history with the share accepted now, and without those that are    *)
(* older than the window: it is in the order of time, they come first.    *)
Expired == {i \in 1 .. Len(shareHistory) : now - shareHistory[i] > Window}
Kept == SubSeq(Append(shareHistory, now), Cardinality(Expired) + 1,
               Len(shareHistory) + 1)

TooFast(n, span) == n * Minute > 2 * Target * span
TooSlow(n, span) == 2 * n * Minute < Target * span

(* Mutant: retargets need not be spaced.                                  *)
RetargetDueAnytime(history) ==
    /\ EnableVardiff
    /\ Len(history) >= MinShares
    /\ history[Len(history)] - history[1] >= MinSpan

RetargetDue(history) ==
    /\ EnableVardiff
    /\ now - lastVardiff >= Interval
    /\ Len(history) >= MinShares
    /\ history[Len(history)] - history[1] >= MinSpan

(* EffectiveSubmitDiff: for a while after a rise the old difficulty is    *)
(* enough.  Mutant: it is only after a fall.                              *)
RequiredDiffAfterFall ==
    IF previousDiff > currentDiff /\ now - lastDiffChange <= Grace
    THEN previousDiff ELSE currentDiff

InGrace == previousDiff < currentDiff /\ now - lastDiffChange <= Grace
RequiredDiff == IF previousDiff > 0 /\ InGrace THEN previousDiff ELSE currentDiff

-----------------------------------------------------------------------------
(* The miner and the network.  The miner works at the difficulty it was   *)
(* told last, and a share it finds just meets that: the worst case.       *)
Post(id) ==
    /\ conn = "open" /\ Len(inbox) < MaxInFlight
    /\ inbox' = Append(inbox, id)
    /\ UNCHANGED <<now, vardiffVars, credits, operatorVars, conn, hpc, share,
                   filterVars, forgotten, outbox, told, epochVars>>

Find(id) ==
    /\ told # NotTold /\ found[id] = NotFound
    /\ found' = [found EXCEPT ![id] = told] /\ UNCHANGED resends
    /\ Post(id)

Resend(id) ==
    /\ found[id] # NotFound /\ resends < MaxResends
    /\ resends' = resends + 1 /\ UNCHANGED found
    /\ Post(id)

(* What is written to a closed connection is lost with it; it is received *)
(* here, by a miner that sends nothing any more.                          *)
Receive ==
    /\ outbox # << >>
    /\ told' = Head(outbox) /\ outbox' = Tail(outbox)
    /\ UNCHANGED <<now, vardiffVars, credits, operatorVars, conn, hpc, share,
                   filterVars, forgotten, inbox, found, resends, epochVars>>

Tick ==
    /\ now < MaxTime /\ now' = now + 1
    /\ UNCHANGED <<vardiffVars, credits, operatorVars, conn, hpc, share,
                   filterVars, forgotten, channelVars, epochVars>>

(* The peer or the idle timeout ends the connection.                      *)
Disconnect ==
    /\ conn = "open" /\ conn' = "closed"
    /\ UNCHANGED <<now, vardiffVars, credits, operatorVars, hpc, share,
                   filterVars, forgotten, channelVars, epochVars>>

-----------------------------------------------------------------------------
(* The operator, through the dashboard; requests may overlap.  A session  *)
(* is found as long as its handler runs.                                  *)
Operate(f, step, since) ==
    /\ conn # "gone"
    /\ flags' = f /\ opc' = step /\ slipped' = since
    /\ UNCHANGED <<now, vardiffVars, credits, conn, hpc, share,
                   filterVars, forgotten, channelVars, epochVars>>

DisableSession == Operate(flags \cup {"disabled"}, opc, slipped)
BanSession == Operate(flags \cup {"banned"}, "closing", slipped)
ResumeSession == Operate({}, opc, 0)

(* The second part of BanSession: session.Conn.Close.                     *)
CloseBanned ==
    /\ opc = "closing" /\ opc' = "idle"
    /\ conn' = IF conn = "open" THEN "closed" ELSE conn
    /\ UNCHANGED <<now, vardiffVars, credits, flags, slipped, hpc, share,
                   filterVars, forgotten, channelVars, epochVars>>

-----------------------------------------------------------------------------
(* The handler of the session, one message after the other.  Its miner is *)
(* authorized.  handleSubscribe sends the difficulty.                     *)
Subscribe ==
    /\ conn # "gone" /\ hpc = "read" /\ Len(outbox) < MaxInFlight
    /\ outbox' = Append(outbox, [diff |-> currentDiff, epoch |-> epoch])
    /\ UNCHANGED <<now, vardiffVars, credits, operatorVars, conn, hpc, share,
                   filterVars, forgotten, inbox, told, found, resends, epochVars>>

(* After the connection is closed the scanner may still hand out lines it *)
(* had buffered, then handleConnection removes the session.               *)
HandlerEnds ==
    /\ conn = "closed" /\ hpc = "read"
    /\ conn' = "gone" /\ inbox' = << >>
    /\ UNCHANGED <<now, vardiffVars, credits, operatorVars, hpc, share,
                   filterVars, forgotten, outbox, told, found, resends, epochVars>>

(* handleSubmit: SubmitBlocker.  Mutant: a disabled worker is not stopped.*)
CheckBlockerBanOnly ==
    /\ conn # "gone" /\ hpc = "read" /\ inbox # << >>
    /\ inbox' = Tail(inbox)
    /\ IF "banned" \in flags
       THEN UNCHANGED <<hpc, share>>
       ELSE hpc' = "judge" /\ share' = [id |-> Head(inbox), required |-> 0]
    /\ UNCHANGED <<now, vardiffVars, credits, operatorVars, conn,
                   filterVars, forgotten, outbox, told, found, resends, epochVars>>

CheckBlocker ==
    /\ conn # "gone" /\ hpc = "read" /\ inbox # << >>
    /\ inbox' = Tail(inbox)
    /\ IF flags # {}
       THEN UNCHANGED <<hpc, share>>
       ELSE hpc' = "judge" /\ share' = [id |-> Head(inbox), required |-> 0]
    /\ UNCHANGED <<now, vardiffVars, credits, operatorVars, conn,
                   filterVars, forgotten, outbox, told, found, resends, epochVars>>

(* Mutant: the locals outlive the handler.                                *)
RefuseDirty == hpc' = "read" /\ UNCHANGED share

Refuse == hpc' = "read" /\ share' = NoShare

(* GetJob does not find the job any more.                                 *)
StaleJob ==
    /\ hpc = "judge" /\ Refuse
    /\ UNCHANGED <<now, vardiffVars, credits, operatorVars, conn,
                   filterVars, forgotten, channelVars, epochVars>>

(* The duplicate filter remembers the share, whatever becomes of it then: *)
(* the share has to reach requiredDiff.  Mutant: a duplicate is logged    *)
(* but goes on.                                                           *)
JudgeTolerant ==
    /\ hpc = "judge"
    /\ Filter!SubmitKey(share.id)
    /\ forgotten' = forgotten \cup {id \in ShareId : Filter!Remembered(id) /\ ~Filter!Remembered(id)'}
    /\ IF found[share.id].diff < RequiredDiff
       THEN Refuse
       ELSE hpc' = "credit" /\ share' = [share EXCEPT !.required = RequiredDiff]
    /\ UNCHANGED <<now, vardiffVars, credits, operatorVars, conn,
                   channelVars, epochVars>>

Judge ==
    /\ hpc = "judge"
    /\ Filter!SubmitKey(share.id)
    /\ forgotten' = forgotten \cup {id \in ShareId : Filter!Remembered(id) /\ ~Filter!Remembered(id)'}
    /\ IF Filter!Remembered(share.id) \/ found[share.id].diff < RequiredDiff
       THEN Refuse
       ELSE hpc' = "credit" /\ share' = [share EXCEPT !.required = RequiredDiff]
    /\ UNCHANGED <<now, vardiffVars, credits, operatorVars, conn,
                   channelVars, epochVars>>

(* RecordShare decides for difficulty d; the handler sends it.  Mutant:   *)
(* it is sent only when it is a rise.                                     *)
RetargetSilently(d) ==
    /\ lastVardiff' = now
    /\ IF d = currentDiff
       THEN UNCHANGED <<currentDiff, previousDiff, lastDiffChange, epochVars>>
       ELSE /\ previousDiff' = currentDiff /\ currentDiff' = d /\ lastDiffChange' = now
            /\ epoch' = epoch + 1 /\ epochEnd' = Append(epochEnd, now)
    /\ outbox' = IF d < currentDiff THEN outbox
                 ELSE Append(outbox, [diff |-> d, epoch |-> epoch'])

Retarget(d) ==
    /\ lastVardiff' = now
    /\ IF d = currentDiff
       THEN UNCHANGED <<currentDiff, previousDiff, lastDiffChange, epochVars>>
       ELSE /\ previousDiff' = currentDiff /\ currentDiff' = d /\ lastDiffChange' = now
            /\ epoch' = epoch + 1 /\ epochEnd' = Append(epochEnd, now)
    /\ outbox' = Append(outbox, [diff |-> d, epoch |-> epoch'])

Span(history) == history[Len(history)] - history[1]

(* RecordShare, and the difficulty sent after it.                         *)
Credit ==
    /\ hpc = "credit" /\ hpc' = "read" /\ share' = NoShare
    /\ credits' = [credits EXCEPT ![share.id] = @ + 1]
    /\ slipped' = IF flags = {} THEN slipped ELSE slipped + 1
    /\ shareHistory' = Kept
    /\ \/ /\ RetargetDue(Kept) /\ TooFast(Len(Kept), Span(Kept))
          /\ Retarget(Retargeted(5, currentDiff))
       \/ /\ RetargetDue(Kept) /\ TooSlow(Len(Kept), Span(Kept))
          /\ Retarget(Retargeted(3, currentDiff))
       \/ /\ ~(/\ RetargetDue(Kept)
               /\ TooFast(Len(Kept), Span(Kept)) \/ TooSlow(Len(Kept), Span(Kept)))
          /\ UNCHANGED <<currentDiff, previousDiff, lastDiffChange, lastVardiff,
                         outbox, epochVars>>
    /\ UNCHANGED <<now, flags, opc, conn, filterVars, forgotten,
                   inbox, told, found, resends>>

Handler ==
    \/ Subscribe \/ HandlerEnds \/ CheckBlocker \/ StaleJob \/ Judge \/ Credit

Operator == DisableSession \/ BanSession \/ ResumeSession \/ CloseBanned

SharesNext ==
    \/ Handler \/ Operator \/ Receive \/ Tick \/ Disconnect
    \/ \E id \in ShareId : Find(id) \/ Resend(id)

SharesSpec == SharesInit /\ [][SharesNext]_vars

-----------------------------------------------------------------------------
Told == [diff : Nat, epoch : Nat]

SharesTypeOK ==
    /\ now \in Nat /\ lastDiffChange \in 0 .. now /\ lastVardiff \in 0 .. now
    /\ currentDiff \in Nat \ {0} /\ previousDiff \in Nat \ {0}
    /\ shareHistory \in Seq(0 .. now)
    /\ resends \in Nat /\ credits \in [ShareId -> Nat]
    /\ flags \subseteq {"disabled", "banned"} /\ opc \in {"idle", "closing"}
    /\ slipped \in Nat
    /\ conn \in {"open", "closed", "gone"} /\ hpc \in {"read", "judge", "credit"}
    /\ hpc = "read" => share = NoShare
    /\ hpc # "read" => share \in [id : ShareId, required : Nat] /\ conn # "gone"
    /\ recent \in Seq(ShareId) /\ forgotten \subseteq ShareId
    /\ inbox \in Seq(ShareId) /\ outbox \in Seq(Told)
    /\ told \in Told /\ found \in [ShareId -> Told]
    /\ epoch \in Nat /\ epochEnd \in Seq(0 .. now) /\ Len(epochEnd) = epoch

(* The miner learns every difficulty: the last message on the way, or the *)
(* last one received, is the difficulty of the session, however the       *)
(* changes and the miner's own subscriptions interleave.                  *)
LastTold == IF outbox = << >> THEN told ELSE outbox[Len(outbox)]

DifficultyIsTold ==
    LastTold # NotTold => LastTold = [diff |-> currentDiff, epoch |-> epoch]

(* A share of an honest miner is refused for its difficulty only when it  *)
(* comes more than the grace window after the difficulty it was mined at  *)
(* was replaced, however late the miner heard of it and however often     *)
(* vardiff moved.                                                         *)
RefusedForDifficulty == hpc = "judge" /\ recent' # recent /\ hpc' = "read"

HonestSharesAreAccepted ==
    [][ RefusedForDifficulty =>
            LET e == found[share.id].epoch IN
            e < epoch /\ now - epochEnd[e + 1] > Grace ]_vars

(* No share is counted twice before the duplicate filter has forgotten it.*)
CreditedOnce == \A id \in ShareId : credits[id] > 1 => id \in forgotten

(* Once the operator has stopped a worker, at most the one share that was *)
(* past the check already is still counted.                               *)
AtMostOneSlips == slipped <= 1

(* Whatever the default difficulty was, the first change brings it within *)
(* the limits and it stays there.                                         *)
WithinLimits ==
    epoch > 0 => /\ MinDiff > 0 => currentDiff >= MinDiff
                 /\ MaxDiff > 0 => currentDiff <= MaxDiff

(* Changes of the difficulty are Interval apart, so that the two that the *)
(* session remembers are enough for the grace window.                     *)
ChangesAreSpaced ==
    \A i \in 1 .. epoch - 1 : epochEnd[i + 1] - epochEnd[i] >= Interval

(* Rounding never eats a retarget: a retarget that is due changes the     *)
(* difficulty, except at a limit, and at 1 and 2, from where 5/4 and 3/4  *)
(* round back.                                                            *)
VardiffIsNotStuck ==
    [][ lastVardiff' # lastVardiff /\ currentDiff' = currentDiff
            => currentDiff \in {1, 2, MinDiff, MaxDiff} ]_vars
=============================================================================
