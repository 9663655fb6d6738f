----------------------------- MODULE GbtClient ------------------------------
(***************************************************************************)
(* GetBlockTemplate (bitcoin/rpc.go): how the pool asks a node it knows    *)
(* only by the coin profile for a template.  It asks with the rules of the *)
(* profile and the mining algorithm, learns rules the node demands from    *)
(* its errors, drops the algorithm when that is refused and in the end     *)
(* asks for anything at all.                                               *)
(*                                                                         *)
(* templateMu lets one call run at a time.  A request and its answer are   *)
(* one step.  The node is external: what it demands, refuses and takes.    *)
(***************************************************************************)
EXTENDS Integers, FiniteSets

CONSTANTS
    Rule,           \* BIP9 rules
    ProfileRules,   \* CoinProfile.GbtRules, or segwit alone
    UseAlgo,        \* GbtAlgoParam, and an algorithm is configured
    Node            \* nodes: [demands, refuses, takesAlgo]

MaxAttempts == 3

ASSUME GbtAssumption ==
    /\ IsFiniteSet(Rule) /\ ProfileRules \subseteq Rule /\ UseAlgo \in BOOLEAN
    /\ Node \subseteq [demands : SUBSET Rule, refuses : SUBSET Rule, takesAlgo : BOOLEAN]

NoRule == "no rule"

ASSUME NoRuleAssumption == NoRule \notin Rule

VARIABLES
    node,           \* the node at the other end
    gpc,            \* where GetBlockTemplate stands
    rules, attempt, \* its locals
    outcome,        \* the template it got, by the request it was got with
    troubled        \* history: the node changed or stumbled during the call,
                    \*   or there is no call to speak of

gbtVars == <<node, gpc, rules, attempt, outcome, troubled>>

NoOutcome == [ok |-> FALSE, rules |-> {}, algo |-> FALSE]

GbtInit ==
    /\ node \in Node /\ gpc = "idle"
    /\ rules = {} /\ attempt = 0
    /\ outcome = NoOutcome /\ troubled = TRUE

-----------------------------------------------------------------------------
(* The node.  It refuses what it does not know and asks for one of the    *)
(* rules it misses; a busy node, a broken connection or a node that has   *)
(* changed may answer with any error.                                     *)
Serves(rs, algo) ==
    /\ algo => node.takesAlgo
    /\ rs \cap node.refuses = {} /\ node.demands \subseteq rs

NodeErrors(rs, algo) ==
    (node.demands \ rs) \cup
    (IF (algo => node.takesAlgo) /\ rs \cap node.refuses = {} THEN {} ELSE {NoRule})

NodeChanges ==
    /\ node' \in Node \ {node} /\ troubled' = TRUE
    /\ UNCHANGED <<gpc, rules, attempt, outcome>>

(* Call: the request is answered with a template, or with error e.        *)
Answered(rs, algo) ==
    /\ Serves(rs, algo)
    /\ outcome' = [ok |-> TRUE, rules |-> rs, algo |-> algo]
    /\ gpc' = "idle"
    /\ UNCHANGED <<node, rules, attempt, troubled>>

Refused(rs, algo, e) ==
    /\ \/ e \in NodeErrors(rs, algo) /\ UNCHANGED troubled
       \/ troubled' = TRUE
    /\ UNCHANGED <<node, outcome>>

-----------------------------------------------------------------------------
(* GetBlockTemplate, and requestBlockTemplate inside it.                  *)
FirstRequest == IF UseAlgo THEN "algo" ELSE "rules"

BeginTemplate ==
    /\ gpc = "idle" /\ gpc' = FirstRequest
    /\ rules' = ProfileRules /\ attempt' = 0
    /\ outcome' = NoOutcome /\ troubled' = FALSE
    /\ UNCHANGED node

AskWithAlgo ==
    /\ gpc = "algo"
    /\ \/ Answered(rules, TRUE)
       \/ \E e \in Rule \cup {NoRule} :
            /\ Refused(rules, TRUE, e)
            /\ gpc' = "rules" /\ UNCHANGED <<rules, attempt>>

(* Mutants: a node that once refused a request is not asked with the      *)
(* algorithm any more; the attempts are not counted.                      *)
NextRequestNoAlgo == IF attempt + 1 < MaxAttempts THEN "rules" ELSE "plain"
NextRequestForever == FirstRequest

NextRequest == IF attempt + 1 < MaxAttempts THEN FirstRequest ELSE "plain"

(* missingClientRule and what is made of it.                              *)
Learn(e) ==
    IF e = NoRule \/ e \in rules
    THEN gpc' = "plain" /\ UNCHANGED <<rules, attempt>>
    ELSE /\ rules' = rules \cup {e} /\ attempt' = attempt + 1
         /\ gpc' = NextRequest

AskWithRules ==
    /\ gpc = "rules"
    /\ \/ Answered(rules, FALSE)
       \/ \E e \in Rule \cup {NoRule} : Refused(rules, FALSE, e) /\ Learn(e)

(* The plain request, whose error ends the call.  Mutant: it is made with *)
(* the rules of the profile.                                              *)
AskPlainProfile ==
    /\ gpc = "plain"
    /\ \/ Answered(ProfileRules, FALSE)
       \/ \E e \in Rule \cup {NoRule} :
            /\ Refused(ProfileRules, FALSE, e)
            /\ gpc' = "idle" /\ UNCHANGED <<rules, attempt>>

AskPlain ==
    /\ gpc = "plain"
    /\ \/ Answered({}, FALSE)
       \/ \E e \in Rule \cup {NoRule} :
            /\ Refused({}, FALSE, e)
            /\ gpc' = "idle" /\ UNCHANGED <<rules, attempt>>

Ask == AskWithAlgo \/ AskWithRules \/ AskPlain

(* The caller goes on from the answer; the locals of the call are gone.   *)
Forget ==
    /\ gpc = "idle"
    /\ rules' = {} /\ attempt' = 0
    /\ outcome' = NoOutcome /\ troubled' = TRUE
    /\ UNCHANGED <<node, gpc>>

-----------------------------------------------------------------------------
GbtTypeOK ==
    /\ node \in Node /\ gpc \in {"idle", "algo", "rules", "plain"}
    /\ gpc = "algo" => UseAlgo
    /\ rules \subseteq Rule /\ attempt \in 0 .. MaxAttempts
    /\ gpc \in {"algo", "rules"} => attempt < MaxAttempts
    /\ outcome \in [ok : BOOLEAN, rules : SUBSET Rule, algo : BOOLEAN]
    /\ troubled \in BOOLEAN

Ended == gpc = "idle" /\ ~troubled

(* A node that demands at most two rules beyond the profile's, and takes  *)
(* them, is not left unserved: it is asked with all of them, and with the *)
(* algorithm if it takes one, never with less.                            *)
Learnable ==
    /\ Cardinality(node.demands \ ProfileRules) < MaxAttempts
    /\ (ProfileRules \cup node.demands) \cap node.refuses = {}

RulesAreLearned ==
    Ended /\ Learnable =>
        /\ outcome.ok
        /\ ProfileRules \cup node.demands \subseteq outcome.rules
        /\ outcome.algo = (UseAlgo /\ node.takesAlgo)

(* A node that demands nothing serves the pool, whatever it refuses.      *)
PlainNodesServe == Ended /\ node.demands = {} => outcome.ok
=============================================================================
