--------------------------- MODULE BlockSubmission --------------------------
(***************************************************************************)
(* What handleSubmit (stratum/server.go) does with a share that meets the  *)
(* network target: decide whether the coinbase may carry the witness       *)
(* reserved value, submit the block to the node, learn from a witness      *)
(* rejection and retry without it, record the block when the node took it  *)
(* (module FoundBlocks), and announce it.  Sessions do this concurrently;  *)
(* witnessRejected and the history are shared.                             *)
(***************************************************************************)
EXTENDS FoundBlocks

CONSTANT Finder     \* Block -> Session: extranonce1 makes a block its own

ASSUME FinderAssumption == Finder \in [Block -> Session]

VARIABLES
    legacyNode,      \* node: refuses any block with witness data
    witnessData,     \* CoinProfile.WitnessData
    hasCommitment,   \* blocks whose coinbase carries the witness commitment
    chain,           \* node: the blocks it took
    witnessRejected, \* s.witnessRejected
    bpc,             \* where the handler of each session stands
    hit,             \* its block, hasWitness and the last answer
    concluded,       \* history: blocks whose handling came to its end
    excused,         \* history: blocks with a failed submitblock, a refusal
                     \*   for a reason other than the witness layout, or a
                     \*   restart in the middle
    announced        \* blocks whose notifications were started

nodeVars == <<legacyNode, witnessData, hasCommitment>>
historyVars == <<concluded, excused, announced>>
vars == <<fbVars, nodeVars, chain, witnessRejected, bpc, hit, historyVars>>

NoHit == [witness |-> FALSE, answer |-> "none"]

(* A profile without witness data belongs to a chain that refuses it; one *)
(* with witness data may meet either ("profiles start optimistic").       *)
SubmitInit ==
    /\ FBInit
    /\ legacyNode \in BOOLEAN
    /\ witnessData \in BOOLEAN
    /\ ~witnessData => legacyNode
    /\ hasCommitment \in SUBSET Block
    /\ chain = {} /\ concluded = {} /\ excused = {} /\ announced = {}
    /\ witnessRejected = FALSE
    /\ bpc = [s \in Session |-> "mining"]
    /\ hit = [s \in Session |-> NoHit]

-----------------------------------------------------------------------------
(* The node.  It takes a block once, if its rules allow the witness       *)
(* layout; it may refuse any block for another reason (a stale tip, or    *)
(* "duplicate"), and the RPC may fail before the node saw the block or    *)
(* after it took it.                                                      *)
LayoutAllowed(b, witness) ==
    IF legacyNode THEN ~witness ELSE b \in hasCommitment => witness

NodeAnswer(b, witness) ==
    [res : {"error", "other"}, took : {FALSE}]
        \cup CASE b \in chain -> {}
               [] b \notin chain /\ LayoutAllowed(b, witness) ->
                    [res : {"accepted", "error"}, took : {TRUE}]
               [] OTHER -> [res : {"witness"}, took : {FALSE}]

Goto(s, from, to) ==
    /\ bpc[s] = from
    /\ bpc' = [bpc EXCEPT ![s] = to]

(* One submitblock call.                                                  *)
Call(s, b, witness) ==
    \E a \in NodeAnswer(b, witness) :
        /\ hit' = [hit EXCEPT ![s].answer = a.res]
        /\ chain' = IF a.took THEN chain \cup {b} ELSE chain
        /\ excused' = IF a.res \in {"error", "other"} THEN excused \cup {b} ELSE excused

-----------------------------------------------------------------------------
coinbaseWitnessAllowed(b) == b \in hasCommitment /\ witnessData /\ ~witnessRejected

(* A share meets the network target.  The duplicate filter compares       *)
(* strings, so the same block may come again in another spelling.         *)
DecideWitness(s, b) ==
    /\ Finder[b] = s
    /\ Goto(s, "mining", "submit")
    /\ hit' = [hit EXCEPT ![s] = [block |-> b, answer |-> "none",
                                  witness |-> coinbaseWitnessAllowed(b)]]
    /\ UNCHANGED <<fbVars, nodeVars, chain, witnessRejected, historyVars>>

SubmitBlock(s) ==
    /\ Goto(s, "submit", "answered")
    /\ Call(s, hit[s].block, hit[s].witness)
    /\ UNCHANGED <<fbVars, nodeVars, witnessRejected, concluded, announced>>

(* Mutants: any refusal counts as one of the witness layout; a failed     *)
(* call counts as accepted.                                               *)
isAnyRejection(s) == hit[s].answer \in {"witness", "other"}
isNotRefused(s) == hit[s].answer \in {"accepted", "error"}

isWitnessRejection(s) == hit[s].answer = "witness"
isSubmitBlockAccepted(s) == hit[s].answer = "accepted"

(* Mutant: only the handler that learns of the refusal retries.           *)
ShouldRetryOnce(s) == hit[s].witness /\ isWitnessRejection(s) /\ ~witnessRejected

ShouldRetry(s) == hit[s].witness /\ isWitnessRejection(s)

LearnRejection(s) ==
    /\ Goto(s, "answered", "retry")
    /\ ShouldRetry(s)
    /\ witnessRejected' = TRUE
    /\ UNCHANGED <<fbVars, nodeVars, chain, hit, historyVars>>

Retry(s) ==
    /\ Goto(s, "retry", "final")
    /\ Call(s, hit[s].block, FALSE)
    /\ UNCHANGED <<fbVars, nodeVars, witnessRejected, concluded, announced>>

LastAnswer(s) == bpc[s] = "final" \/ (bpc[s] = "answered" /\ ~ShouldRetry(s))

(* Mutant: the answer outlives the handler.                               *)
ConcludeDirty(s) ==
    /\ bpc' = [bpc EXCEPT ![s] = "mining"]
    /\ concluded' = concluded \cup {hit[s].block}
    /\ UNCHANGED <<nodeVars, chain, witnessRejected, excused, hit>>

(* The handler returns and the session reads its next message.            *)
Conclude(s) ==
    /\ bpc' = [bpc EXCEPT ![s] = "mining"]
    /\ hit' = [hit EXCEPT ![s] = NoHit]
    /\ concluded' = concluded \cup {hit[s].block}
    /\ UNCHANGED <<nodeVars, chain, witnessRejected, excused>>

GiveUp(s) ==
    /\ LastAnswer(s) /\ ~isSubmitBlockAccepted(s)
    /\ Conclude(s)
    /\ UNCHANGED <<fbVars, announced>>

RecordFound(s) ==
    /\ LastAnswer(s) /\ isSubmitBlockAccepted(s)
    /\ bpc' = [bpc EXCEPT ![s] = "record"]
    /\ Record(s, hit[s].block)
    /\ UNCHANGED <<nodeVars, chain, witnessRejected, hit, historyVars>>

SaveFound(s) ==
    /\ bpc[s] = "record"
    /\ Save(s)
    /\ UNCHANGED <<nodeVars, chain, witnessRejected, bpc, hit, historyVars>>

(* recordFoundBlock has returned: the notifications are started.          *)
Announce(s) ==
    /\ bpc[s] = "record" /\ spc[s] = "idle"
    /\ announced' = announced \cup {hit[s].block}
    /\ Conclude(s)
    /\ UNCHANGED fbVars

(* A restart forgets what was learned of the node, and the handlers.      *)
InFlight == {hit[s].block : s \in {t \in Session : bpc[t] # "mining"}}

RestartPool ==
    /\ Restart
    /\ witnessRejected' = FALSE
    /\ bpc' = [s \in Session |-> "mining"]
    /\ hit' = [s \in Session |-> NoHit]
    /\ excused' = excused \cup InFlight
    /\ UNCHANGED <<nodeVars, chain, concluded, announced>>

Handle(s) ==
    \/ SubmitBlock(s) \/ LearnRejection(s) \/ Retry(s)
    \/ GiveUp(s) \/ RecordFound(s) \/ SaveFound(s) \/ Announce(s)

SubmitNext ==
    \/ RestartPool
    \/ \E s \in Session : Handle(s) \/ \E b \in Block : DecideWitness(s, b)

SubmitSpec == SubmitInit /\ [][SubmitNext]_vars

(* A handler's goroutine runs on once a block is found: an RPC call       *)
(* returns (the HTTP client has a timeout), and sync.Mutex hands saveMu   *)
(* to a waiter that has waited long.                                      *)
FairSubmitSpec == SubmitSpec /\ \A s \in Session : SF_vars(Handle(s))

-----------------------------------------------------------------------------
Hit == [block : Block, witness : BOOLEAN,
        answer : {"none", "error", "other", "accepted", "witness"}]

SubmitTypeOK ==
    /\ FBTypeOK
    /\ legacyNode \in BOOLEAN /\ witnessData \in BOOLEAN /\ witnessRejected \in BOOLEAN
    /\ hasCommitment \subseteq Block /\ chain \subseteq Block
    /\ concluded \subseteq Block /\ excused \subseteq Block /\ announced \subseteq Block
    /\ bpc \in [Session -> {"mining", "submit", "answered", "retry", "final", "record"}]
    /\ hit \in [Session -> Hit \cup {NoHit}]
    /\ \A s \in Session : hit[s] \in IF bpc[s] = "mining" THEN {NoHit} ELSE Hit

InHistory(blocks) == {blocks[i] : i \in 1 .. Len(blocks)}

(* The history, on disk too, and the announcements name only blocks the   *)
(* node took, and no block twice: an RPC error, a refusal or a share sent *)
(* again never counts as a found block, with or without a retry.          *)
OnlyAcceptedBlocksAreRecorded ==
    /\ InHistory(recorded) \cup announced \subseteq chain
    /\ disk # Torn => InHistory(disk) \subseteq chain
    /\ \A i, j \in 1 .. Len(foundBlocks) : foundBlocks[i] = foundBlocks[j] => i = j

(* A block is given up only when the node could not be reached, refused   *)
(* it for something else than its witness layout, or the process ended:   *)
(* whatever the profile believed of the node, and whatever other handlers *)
(* learned meanwhile, a valid block ends in the chain and is announced.   *)
ValidBlocksAreKept == concluded \ excused \subseteq chain \cap announced

(* The pool gives up witness data only on a node that refuses it.         *)
LearnsTheTruth == witnessRejected => legacyNode

(* Every handler comes to its end: no answer of the node and no           *)
(* interleaving of the saves leaves one waiting.                          *)
EveryBlockConcludes == \A s \in Session : bpc[s] = "submit" ~> bpc[s] = "mining"
=============================================================================
