--------------------------- MODULE NodeLinkProofs ---------------------------
(***************************************************************************)
(* The pool and its node, for every set of nodes, rules and profiles and   *)
(* any number of connections and blocks.                                   *)
(***************************************************************************)
EXTENDS NodeLink, SequenceTheorems, FiniteSetTheorems, TLAPS

GbtStep == BeginTemplate \/ Ask \/ Forget \/ NodeChanges
ZmqStep == ZmqNode \/ Loop \/ Stop \/ CallbackReturns

(* Every step is a step of the two components, or leaves them alone.      *)
LEMMA LinkSteps ==
    ASSUME [LinkNext]_linkVars
    PROVE  [GbtStep]_gbtVars /\ [ZmqStep]_zmqVars
BY DEF LinkNext, PollerBegins, CallbackBegins, Begin, Asking, BeginBroadcast, End, Miners,
       PeerStalls, PeerReadsOrLeaves, CloseMiners, GbtStep, ZmqStep, linkVars

-----------------------------------------------------------------------------
Outcome == [ok : BOOLEAN, rules : SUBSET Rule, algo : BOOLEAN]

LEMMA NoOutcomeType == NoOutcome \in Outcome
  BY DEF NoOutcome, Outcome

LEMMA AnsweredTypes ==
    ASSUME GbtTypeOK, NEW rs \in SUBSET Rule, NEW a \in BOOLEAN, Answered(rs, a)
    PROVE  GbtTypeOK'
<1>1. outcome' \in Outcome
  <2>1. [ok |-> TRUE, rules |-> rs, algo |-> a] \in Outcome
    BY DEF Outcome
  <2> QED
    BY <2>1 DEF Answered
<1>2. gpc' = "idle" /\ UNCHANGED <<node, rules, attempt, troubled>>
  BY DEF Answered
<1> QED
  BY <1>1, <1>2 DEF GbtTypeOK, Outcome

LEMMA RefusedTypes ==
    ASSUME GbtTypeOK, NEW rs, NEW a, NEW e, Refused(rs, a, e)
    PROVE  node' \in Node /\ outcome' \in Outcome /\ troubled' \in BOOLEAN
BY DEF GbtTypeOK, Refused, Outcome

LEMMA GbtTypes ==
    ASSUME GbtTypeOK, [GbtStep]_gbtVars
    PROVE  GbtTypeOK'
<1>1. CASE BeginTemplate
  <2>1. outcome' \in Outcome /\ troubled' \in BOOLEAN /\ node' \in Node
    BY <1>1, NoOutcomeType DEF BeginTemplate, GbtTypeOK
  <2>2. gpc' \in {"algo", "rules"} /\ (gpc' = "algo" => UseAlgo)
    BY <1>1 DEF BeginTemplate, FirstRequest
  <2>3. rules' \subseteq Rule /\ attempt' = 0
    BY <1>1, GbtAssumption DEF BeginTemplate
  <2> QED
    BY <2>1, <2>2, <2>3 DEF GbtTypeOK, Outcome, MaxAttempts
<1>2. CASE AskWithAlgo
  <2>1. CASE Answered(rules, TRUE)
    BY <2>1, AnsweredTypes DEF GbtTypeOK
  <2>2. ASSUME NEW e \in Rule \cup {NoRule}, Refused(rules, TRUE, e),
               gpc' = "rules", UNCHANGED <<rules, attempt>>
        PROVE  GbtTypeOK'
    <3>1. node' \in Node /\ outcome' \in Outcome /\ troubled' \in BOOLEAN
      BY <2>2, RefusedTypes
    <3> QED
      BY <1>2, <2>2, <3>1 DEF AskWithAlgo, GbtTypeOK, Outcome
  <2> QED
    BY <1>2, <2>1, <2>2 DEF AskWithAlgo
<1>3. CASE AskWithRules
  <2>1. CASE Answered(rules, FALSE)
    BY <2>1, AnsweredTypes DEF GbtTypeOK
  <2>2. ASSUME NEW e \in Rule \cup {NoRule}, Refused(rules, FALSE, e), Learn(e)
        PROVE  GbtTypeOK'
    <3>1. node' \in Node /\ outcome' \in Outcome /\ troubled' \in BOOLEAN
      BY <2>2, RefusedTypes
    <3>2. CASE e = NoRule \/ e \in rules
      BY <2>2, <3>1, <3>2 DEF Learn, GbtTypeOK, Outcome
    <3>3. CASE ~(e = NoRule \/ e \in rules)
      <4>1. attempt \in 0 .. 2 /\ rules' = rules \cup {e} /\ attempt' = attempt + 1
        BY <1>3, <2>2, <3>3 DEF AskWithRules, Learn, GbtTypeOK, MaxAttempts
      <4>2. /\ gpc' \in {"algo", "rules", "plain"}
            /\ gpc' = "algo" => UseAlgo
            /\ gpc' \in {"algo", "rules"} => attempt + 1 < 3
        BY <2>2, <3>3 DEF Learn, NextRequest, FirstRequest, MaxAttempts
      <4>3. rules' \subseteq Rule
        BY <3>3, <4>1 DEF GbtTypeOK
      <4> QED
        BY <3>1, <4>1, <4>2, <4>3 DEF GbtTypeOK, Outcome, MaxAttempts
    <3> QED
      BY <3>2, <3>3
  <2> QED
    BY <1>3, <2>1, <2>2 DEF AskWithRules
<1>4. CASE AskPlain
  <2>1. CASE Answered({}, FALSE)
    BY <2>1, AnsweredTypes
  <2>2. ASSUME NEW e \in Rule \cup {NoRule}, Refused({}, FALSE, e),
               gpc' = "idle", UNCHANGED <<rules, attempt>>
        PROVE  GbtTypeOK'
    <3>1. node' \in Node /\ outcome' \in Outcome /\ troubled' \in BOOLEAN
      BY <2>2, RefusedTypes
    <3> QED
      BY <2>2, <3>1 DEF GbtTypeOK, Outcome
  <2> QED
    BY <1>4, <2>1, <2>2 DEF AskPlain
<1>5. CASE NodeChanges
  BY <1>5 DEF NodeChanges, GbtTypeOK
<1>6. CASE UNCHANGED gbtVars
  BY <1>6 DEF gbtVars, GbtTypeOK
<1>7. CASE Forget
  BY <1>7, NoOutcomeType DEF Forget, GbtTypeOK, Outcome, MaxAttempts
<1> QED
  BY <1>1, <1>2, <1>3, <1>4, <1>5, <1>6, <1>7 DEF GbtStep, Ask

LEMMA ZmqTypes ==
    ASSUME ZmqTypeOK, [ZmqStep]_zmqVars
    PROVE  ZmqTypeOK'
<1> USE DEF ZmqTypeOK, loopVars, stopVars, netVars
<1>1. CASE Publish
  <2>1. tip + 1 \in Nat /\ Append(queue, tip + 1) \in Seq(Nat)
    BY AppendProperties
  <2>2. queue' \in Seq(Nat) /\ lost' \subseteq Nat /\ tip' \in Nat
    BY <1>1, <2>1 DEF Publish
  <2> QED
    BY <1>1, <2>2 DEF Publish
<1>2. << >> \in Seq(Nat) /\ InQueue \subseteq Nat
  <2>1. \A i \in 1 .. Len(queue) : queue[i] \in Nat
    BY ElementOfSeq
  <2> QED
    BY <2>1, EmptySeq DEF InQueue
<1>3. CASE Drop
  BY <1>2, <1>3 DEF Drop
<1>4. CASE CheckStop \/ Dial \/ DialFails \/ StoreConn \/ Handshake \/ Sleep \/ CallbackReturns
  <2>1. CASE Dial
    BY <2>1 DEF Dial
  <2>2. CASE CheckStop
    BY <2>2 DEF CheckStop
  <2>3. CASE DialFails \/ StoreConn
    BY <2>3 DEF DialFails, StoreConn
  <2>4. CASE Handshake \/ Sleep \/ CallbackReturns
    BY <2>4 DEF Handshake, Sleep, CallbackReturns
  <2> QED
    BY <1>4, <2>1, <2>2, <2>3, <2>4
<1>5. CASE HandshakeFails \/ ReadFails
  <2>1. Close
    BY <1>5 DEF HandshakeFails, ReadFails
  <2>2. queue' \in Seq(Nat) /\ lost' \subseteq Nat /\ opened' \subseteq Nat
    BY <1>2, <2>1 DEF Close
  <2> QED
    BY <2>1, <2>2 DEF Close
<1>6. CASE Read
  <2>1. Head(queue) \in Nat /\ Tail(queue) \in Seq(Nat)
    BY <1>6, HeadTailProperties DEF Read
  <2> QED
    BY <1>6, <2>1 DEF Read
<1>7. CASE Stop
  <2>1. CASE StopBegin \/ StopClose
    BY <2>1 DEF StopBegin, StopClose
  <2>2. CASE StopTake
    <3>1. missed' \in BOOLEAN
      BY <2>2 DEF StopTake
    <3> QED
      BY <2>2, <3>1 DEF StopTake
  <2> QED
    BY <1>7, <2>1, <2>2 DEF Stop
<1>8. CASE UNCHANGED zmqVars
  BY <1>8 DEF zmqVars
<1> QED
  BY <1>1, <1>3, <1>4, <1>5, <1>6, <1>7, <1>8 DEF ZmqStep, ZmqNode, Loop

(* Type correctness, and who holds templateMu.                            *)
THEOREM LinkTypeCorrect == LinkSpec => []LinkTypeOK
<1>1. LinkInit => LinkTypeOK
  <2>1. GbtInit => GbtTypeOK
    BY NoOutcomeType DEF GbtInit, GbtTypeOK, Outcome, MaxAttempts
  <2>2. ZmqInit => ZmqTypeOK
    <3>1. << >> \in Seq(Nat)
      BY EmptySeq
    <3>2. ZmqInit => queue \in Seq(Nat)
      BY <3>1 DEF ZmqInit
    <3>3. ZmqInit => stopped \in BOOLEAN /\ missed \in BOOLEAN
      BY DEF ZmqInit
    <3>4. ZmqInit => /\ conn \in Nat /\ zconn \in Nat /\ held \in Nat /\ tip \in Nat /\ seen \in Nat
                     /\ opened \subseteq Nat /\ up \subseteq Nat /\ lost \subseteq Nat
      BY DEF ZmqInit
    <3>5. ZmqInit => zpc = "check" /\ spc = "idle"
      BY DEF ZmqInit
    <3> QED
      BY <3>2, <3>3, <3>4, <3>5 DEF ZmqTypeOK
  <2> QED
    BY <2>1, <2>2 DEF LinkInit, LinkTypeOK, GbtInit
<1>2. ASSUME LinkTypeOK, [LinkNext]_linkVars
      PROVE  LinkTypeOK'
  <2>1. GbtTypeOK' /\ ZmqTypeOK'
    BY <1>2, LinkSteps, GbtTypes, ZmqTypes DEF LinkTypeOK
  <2>2. /\ caller' \in {"nobody", "poller", "zmq"}
        /\ caller' = "zmq" => zpc' = "notify"
        /\ caller' = "nobody" => gpc' = "idle"
        /\ phase' \in {"template", "send", "stuck"}
        /\ phase' # "template" => caller' # "nobody" /\ gpc' = "idle"
        /\ miners' \in {"open", "closed", "missed"}
    <3> USE <1>2 DEF LinkTypeOK
    <3>1. CASE PollerBegins \/ CallbackBegins
      BY <3>1 DEF PollerBegins, CallbackBegins, Begin, zmqVars, loopVars
    <3>2. CASE Asking
      BY <3>2 DEF Asking, Ask, AskWithAlgo, AskWithRules, AskPlain, zmqVars, loopVars
    <3>3. CASE End \/ BeginBroadcast
      BY <3>3 DEF End, BeginBroadcast, Forget, zmqVars, loopVars
    <3>4. CASE Miners
      BY <3>4 DEF Miners, PeerStalls, PeerReadsOrLeaves, CloseMiners, gbtVars, zmqVars, loopVars
    <3>5. CASE NodeChanges /\ UNCHANGED <<zmqVars, caller, phase, miners>>
      BY <3>5 DEF NodeChanges, zmqVars, loopVars
    <3>6. CASE (ZmqNode \/ Loop \/ Stop) /\ UNCHANGED <<gbtVars, caller, phase, miners>>
      <4>1. zpc = "notify" => zpc' = "notify"
        BY <3>6
        DEF ZmqNode, Publish, Drop, Loop, CheckStop, Dial, DialFails, StoreConn, Handshake,
            HandshakeFails, Read, ReadFails, Sleep, Stop, StopBegin, StopTake, StopClose, loopVars
      <4> QED
        BY <3>6, <4>1 DEF gbtVars
    <3>7. CASE UNCHANGED linkVars
      BY <3>7 DEF linkVars, gbtVars, zmqVars, loopVars
    <3> QED
      BY <3>1, <3>2, <3>3, <3>4, <3>5, <3>6, <3>7 DEF LinkNext
  <2> QED
    BY <2>1, <2>2 DEF LinkTypeOK
<1> QED
  BY <1>1, <1>2, PTL DEF LinkSpec

-----------------------------------------------------------------------------
LEMMA NoLeakStep ==
    ASSUME ZmqTypeOK, NoLeak, [ZmqStep]_zmqVars
    PROVE  NoLeak'
<1> USE DEF NoLeak, loopVars, stopVars, netVars
<1>1. CASE Publish \/ Drop
  BY <1>1 DEF Publish, Drop
<1>2. CASE CheckStop \/ DialFails \/ StoreConn \/ Handshake \/ Sleep \/ CallbackReturns \/ Read
  BY <1>2 DEF CheckStop, DialFails, StoreConn, Handshake, Sleep, CallbackReturns, Read
<1>3. CASE Dial
  BY <1>3 DEF Dial
<1>4. CASE HandshakeFails \/ ReadFails
  BY <1>4 DEF HandshakeFails, ReadFails, Close
<1>5. CASE Stop
  BY <1>5 DEF Stop, StopBegin, StopTake, StopClose
<1>6. CASE UNCHANGED zmqVars
  BY <1>6 DEF zmqVars
<1> QED
  BY <1>1, <1>2, <1>3, <1>4, <1>5, <1>6 DEF ZmqStep, ZmqNode, Loop

(* The subscriber leaves no connection open but the one it works on.      *)
THEOREM NothingLeaks == LinkSpec => []NoLeak
<1>1. LinkInit => NoLeak
  BY DEF LinkInit, ZmqInit, NoLeak
<1>2. LinkTypeOK /\ NoLeak /\ [LinkNext]_linkVars => NoLeak'
  BY LinkSteps, NoLeakStep DEF LinkTypeOK
<1> QED
  BY <1>1, <1>2, LinkTypeCorrect, PTL DEF LinkSpec

(* Until Stop takes it, z.conn is the connection that the loop works on;  *)
(* then Stop holds it, and the loop does not dial again.                  *)
CutInv ==
    /\ stopped <=> spc # "idle"
    /\ spc \in {"idle", "take"} /\ zpc \in {"handshake", "read", "notify"} => zconn = conn
    /\ spc = "close" /\ opened # {} => missed \/ held = conn
    /\ spc \in {"close", "done"} /\ zpc \in {"dial", "store"} => missed
    /\ StopCutsOff

LEMMA CutStep ==
    ASSUME ZmqTypeOK, NoLeak, CutInv, [ZmqStep]_zmqVars
    PROVE  CutInv'
<1> USE DEF CutInv, StopCutsOff, loopVars, stopVars, netVars
<1>1. CASE Publish \/ Drop
  BY <1>1 DEF Publish, Drop
<1>2. CASE CheckStop
  BY <1>2 DEF CheckStop, ZmqTypeOK
<1>3. CASE Dial
  BY <1>3 DEF Dial, ZmqTypeOK
<1>4. CASE StoreConn \/ DialFails \/ Sleep
  BY <1>4 DEF StoreConn, DialFails, Sleep
<1>5. CASE Handshake \/ Read \/ CallbackReturns
  BY <1>5 DEF Handshake, Read, CallbackReturns
<1>6. CASE HandshakeFails \/ ReadFails
  BY <1>6 DEF HandshakeFails, ReadFails, Close, NoLeak
<1>7. CASE StopBegin
  BY <1>7 DEF StopBegin
<1>8. CASE StopTake
  BY <1>8 DEF StopTake, NoLeak, ZmqTypeOK
<1>9. CASE StopClose
  BY <1>9 DEF StopClose, NoLeak, ZmqTypeOK
<1>10. CASE UNCHANGED zmqVars
  BY <1>10 DEF zmqVars
<1> QED
  BY <1>1, <1>2, <1>3, <1>4, <1>5, <1>6, <1>7, <1>8, <1>9, <1>10
  DEF ZmqStep, ZmqNode, Loop, Stop

(* Stop leaves open at most a connection that was being dialed.           *)
THEOREM StopCutsOffCorrect == LinkSpec => []StopCutsOff
<1>1. LinkInit => CutInv
  BY DEF LinkInit, ZmqInit, CutInv, StopCutsOff
<1>2. LinkTypeOK /\ NoLeak /\ CutInv /\ [LinkNext]_linkVars => CutInv'
  BY LinkSteps, CutStep DEF LinkTypeOK
<1>3. CutInv => StopCutsOff
  BY DEF CutInv
<1> QED
  BY <1>1, <1>2, <1>3, LinkTypeCorrect, NothingLeaks, PTL DEF LinkSpec

-----------------------------------------------------------------------------
LEMMA PlainStep ==
    ASSUME GbtTypeOK, PlainNodesServe, [GbtStep]_gbtVars
    PROVE  PlainNodesServe'
<1> USE DEF PlainNodesServe, Ended
<1>1. CASE BeginTemplate
  BY <1>1 DEF BeginTemplate, FirstRequest
<1>2. CASE \E rs, a : Answered(rs, a)
  BY <1>2 DEF Answered
<1>3. CASE gpc' # "idle" \/ troubled' = TRUE
  BY <1>3
<1>4. CASE AskWithAlgo
  BY <1>2, <1>3, <1>4 DEF AskWithAlgo
<1>5. CASE AskWithRules
  BY <1>2, <1>3, <1>5 DEF AskWithRules, Learn, NextRequest, FirstRequest
<1>6. CASE AskPlain
  <2>1. ASSUME NEW e, Refused({}, FALSE, e), node.demands = {}
        PROVE  troubled' = TRUE
    <3>1. NodeErrors({}, FALSE) = {}
      BY <2>1 DEF NodeErrors
    <3> QED
      BY <2>1, <3>1 DEF Refused
  <2>2. CASE \E e \in Rule \cup {NoRule} : Refused({}, FALSE, e)
    BY <2>1, <2>2 DEF Refused
  <2> QED
    BY <1>2, <1>6, <2>2 DEF AskPlain
<1>7. CASE NodeChanges
  BY <1>7 DEF NodeChanges
<1>8. CASE UNCHANGED gbtVars
  BY <1>8 DEF gbtVars
<1>9. CASE Forget
  BY <1>9 DEF Forget
<1> QED
  BY <1>1, <1>4, <1>5, <1>6, <1>7, <1>8, <1>9 DEF GbtStep, Ask

(* A node without demands gives a template, whatever it refuses.          *)
THEOREM PlainNodesAreServed == LinkSpec => []PlainNodesServe
<1>1. LinkInit => PlainNodesServe
  BY DEF LinkInit, GbtInit, PlainNodesServe, Ended
<1>2. LinkTypeOK /\ PlainNodesServe /\ [LinkNext]_linkVars => PlainNodesServe'
  BY LinkSteps, PlainStep DEF LinkTypeOK
<1> QED
  BY <1>1, <1>2, LinkTypeCorrect, PTL DEF LinkSpec

(* With a steady node that can be learned, the call knows after each      *)
(* attempt one rule more of those it demands, so it never runs out of     *)
(* attempts; and it asks without the algorithm only when the request with *)
(* it cannot be answered.                                                 *)
Learning ==
    /\ ProfileRules \subseteq rules /\ rules \subseteq ProfileRules \cup node.demands
    /\ Cardinality(rules \ ProfileRules) = attempt
    /\ gpc # "plain"
    /\ gpc = "rules" /\ UseAlgo => ~node.takesAlgo \/ ~(node.demands \subseteq rules)

LearnInv ==
    /\ gpc # "idle" /\ ~troubled /\ Learnable => Learning
    /\ RulesAreLearned

(* A rule that the node asked for, added.                                 *)
LEMMA OneMoreRule ==
    ASSUME GbtTypeOK, Learnable, Learning, NEW e \in node.demands \ rules
    PROVE  /\ Cardinality((rules \cup {e}) \ ProfileRules) = attempt + 1
           /\ attempt + 1 < MaxAttempts
<1> DEFINE R == rules \ ProfileRules
           D == node.demands \ ProfileRules
<1>1. IsFiniteSet(D)
  <2>1. D \subseteq Rule
    BY GbtAssumption DEF GbtTypeOK
  <2> QED
    BY <2>1, GbtAssumption, FS_Subset
<1>2. R \cup {e} \subseteq D /\ e \notin R /\ R \subseteq D
  BY DEF Learning
<1>3. IsFiniteSet(R)
  BY <1>1, <1>2, FS_Subset
<1>4. Cardinality(R \cup {e}) = Cardinality(R) + 1
  BY <1>2, <1>3, FS_AddElement
<1>5. Cardinality(R \cup {e}) <= Cardinality(D)
  BY <1>1, <1>2, FS_Subset
<1>6. (rules \cup {e}) \ ProfileRules = R \cup {e}
  BY DEF Learning
<1>7. Cardinality(R) = attempt /\ Cardinality(D) < MaxAttempts /\ Cardinality(D) \in Nat
  BY <1>1, FS_CardinalityType DEF Learning, Learnable
<1>8. attempt \in Nat
  BY DEF GbtTypeOK, MaxAttempts
<1> HIDE DEF R, D
<1> QED
  BY <1>4, <1>5, <1>6, <1>7, <1>8 DEF MaxAttempts

LEMMA LearnStep ==
    ASSUME GbtTypeOK, LearnInv, [GbtStep]_gbtVars
    PROVE  LearnInv'
<1>1. CASE BeginTemplate
  <2>1. /\ gpc' = FirstRequest /\ rules' = ProfileRules /\ attempt' = 0 /\ node' = node
    BY <1>1 DEF BeginTemplate
  <2>2. Cardinality(rules' \ ProfileRules) = 0
    <3>1. rules' \ ProfileRules = {}
      BY <2>1
    <3> QED
      BY <3>1, FS_EmptySet
  <2>3. Learning'
    BY <2>1, <2>2 DEF Learning, FirstRequest
  <2> QED
    BY <2>1, <2>3 DEF LearnInv, RulesAreLearned, Ended, FirstRequest
<1>2. CASE NodeChanges \/ Forget
  BY <1>2 DEF NodeChanges, Forget, LearnInv, RulesAreLearned, Ended
<1>3. CASE UNCHANGED gbtVars
  BY <1>3 DEF gbtVars, LearnInv, Learning, Learnable, RulesAreLearned, Ended
<1>4. CASE Ask
  <2>1. CASE troubled' = TRUE
    BY <2>1 DEF LearnInv, RulesAreLearned, Ended
  <2>2. CASE ~Learnable
    <3>1. node' = node
      BY <1>4 DEF Ask, AskWithAlgo, AskWithRules, AskPlain, Answered, Refused
    <3> QED
      BY <2>2, <3>1 DEF LearnInv, RulesAreLearned, Learnable
  <2>3. CASE Learnable /\ troubled' # TRUE
    <3>1. node' = node /\ troubled' = troubled /\ ~troubled
      BY <1>4, <2>3 DEF Ask, AskWithAlgo, AskWithRules, AskPlain, Answered, Refused, GbtTypeOK
    <3>2. Learning /\ gpc # "idle"
      BY <1>4, <2>3, <3>1 DEF LearnInv, Ask, AskWithAlgo, AskWithRules, AskPlain
    <3>3. rules \cap node.refuses = {}
      BY <2>3, <3>2 DEF Learnable, Learning
    <3>4. CASE AskWithAlgo
      <4>1. UseAlgo
        BY <3>4 DEF AskWithAlgo, GbtTypeOK
      <4>2. CASE Answered(rules, TRUE)
        BY <3>1, <3>2, <4>1, <4>2
        DEF Answered, Serves, Learning, LearnInv, RulesAreLearned, Ended
      <4>3. ASSUME NEW e, Refused(rules, TRUE, e), gpc' = "rules", UNCHANGED <<rules, attempt>>
            PROVE  LearnInv'
        <5>1. e \in NodeErrors(rules, TRUE)
          BY <2>3, <4>3 DEF Refused
        <5>2. ~node.takesAlgo \/ ~(node.demands \subseteq rules)
          BY <3>3, <5>1 DEF NodeErrors
        <5> QED
          BY <3>1, <3>2, <4>3, <5>2 DEF Learning, LearnInv, RulesAreLearned, Ended
      <4> QED
        BY <3>4, <4>2, <4>3 DEF AskWithAlgo
    <3>5. CASE AskWithRules
      <4>1. CASE Answered(rules, FALSE)
        <5>1. node.demands \subseteq rules /\ outcome' = [ok |-> TRUE, rules |-> rules, algo |-> FALSE]
          BY <4>1 DEF Answered, Serves
        <5>2. ~(UseAlgo /\ node.takesAlgo)
          BY <3>2, <3>5, <5>1 DEF AskWithRules, Learning
        <5>3. gpc' = "idle" /\ outcome'.ok /\ outcome'.rules = rules /\ outcome'.algo = FALSE
          BY <4>1, <5>1 DEF Answered
        <5> QED
          BY <3>1, <3>2, <5>1, <5>2, <5>3 DEF Learning, LearnInv, RulesAreLearned, Ended
      <4>2. ASSUME NEW e, Refused(rules, FALSE, e), Learn(e)
            PROVE  LearnInv'
        <5>1. e \in node.demands \ rules
          BY <2>3, <3>3, <4>2 DEF Refused, NodeErrors
        <5>2. e \in Rule
          BY <5>1, GbtAssumption DEF GbtTypeOK
        <5>3. e # NoRule /\ e \notin rules
          BY <5>1, <5>2, NoRuleAssumption
        <5>4. rules' = rules \cup {e} /\ attempt' = attempt + 1 /\ gpc' = NextRequest
          BY <4>2, <5>3 DEF Learn
        <5>5. gpc' = FirstRequest /\ Cardinality(rules' \ ProfileRules) = attempt'
          BY <2>3, <3>2, <5>1, <5>4, OneMoreRule DEF NextRequest
        <5>6. ProfileRules \subseteq rules' /\ rules' \subseteq ProfileRules \cup node'.demands
          BY <3>1, <3>2, <5>1, <5>4 DEF Learning
        <5>7. Learning'
          BY <5>5, <5>6 DEF Learning, FirstRequest
        <5> QED
          BY <5>5, <5>7 DEF LearnInv, RulesAreLearned, Ended, FirstRequest
      <4> QED
        BY <3>5, <4>1, <4>2 DEF AskWithRules
    <3>6. CASE AskPlain
      BY <3>2, <3>6 DEF AskPlain, Learning
    <3> QED
      BY <1>4, <3>4, <3>5, <3>6 DEF Ask
  <2> QED
    BY <2>1, <2>2, <2>3
<1> QED
  BY <1>1, <1>2, <1>3, <1>4 DEF GbtStep

(* A steady node that demands at most two more rules is asked with all of *)
(* them, and with the algorithm if it takes one.                          *)
THEOREM RulesAreLearnedCorrect == LinkSpec => []RulesAreLearned
<1>1. LinkInit => LearnInv
  BY DEF LinkInit, GbtInit, LearnInv, RulesAreLearned, Ended
<1>2. LinkTypeOK /\ LearnInv /\ [LinkNext]_linkVars => LearnInv'
  BY LinkSteps, LearnStep DEF LinkTypeOK
<1>3. LearnInv => RulesAreLearned
  BY DEF LearnInv
<1> QED
  BY <1>1, <1>2, <1>3, LinkTypeCorrect, PTL DEF LinkSpec
=============================================================================
