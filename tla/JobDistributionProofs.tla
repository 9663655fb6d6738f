----------------------- MODULE JobDistributionProofs ------------------------
(***************************************************************************)
(* The job table of JobManager, for every MaxJobs and every set of         *)
(* templates; and the distribution of jobs, for every set of sessions and  *)
(* any number of template changes.                                         *)
(***************************************************************************)
EXTENDS JobDistribution, FiniteSetTheorems, TLAPS

(* Eviction turns the window of c jobs with one more id into the window   *)
(* of c + 1 jobs: from the ids above a given one there are exactly as     *)
(* many as the distance to the newest.                                    *)
LEMMA EvictionKeepsWindow ==
    ASSUME NEW c \in Nat
    PROVE  Newest((OldestKept(c) .. c) \cup {c + 1}) = OldestKept(c + 1) .. (c + 1)
<1> USE MaxJobsAssumption
<1> DEFINE ids == (OldestKept(c) .. c) \cup {c + 1}
           Above(k) == {j \in ids : j > k}
<1>1. OldestKept(c) \in Nat \ {0} /\ OldestKept(c) <= c + 1
  BY DEF OldestKept
<1>2. ids = OldestKept(c) .. (c + 1)
  BY <1>1
<1>3. ASSUME NEW k \in ids
      PROVE  Cardinality(Above(k)) = c + 1 - k
  <2>1. k \in Int /\ OldestKept(c) <= k /\ k <= c + 1
    BY <1>1, <1>2
  <2>2. Above(k) = (k + 1) .. (c + 1)
    BY <1>1, <1>2, <2>1
  <2>3. k + 1 \in Int /\ c + 1 \in Int
    BY <2>1
  <2>4. Cardinality((k + 1) .. (c + 1)) =
           IF k + 1 > c + 1 THEN 0 ELSE (c + 1) - (k + 1) + 1
    BY <2>3, FS_Interval
  <2>5. (IF k + 1 > c + 1 THEN 0 ELSE (c + 1) - (k + 1) + 1) = c + 1 - k
    BY <2>1
  <2> QED
    BY <2>2, <2>4, <2>5
<1>4. Newest(ids) = {k \in ids : Cardinality(Above(k)) < MaxJobs}
  BY DEF Newest
<1>5. Newest(ids) = {k \in ids : c + 1 - k < MaxJobs}
  BY <1>3, <1>4
<1>6. {k \in ids : c + 1 - k < MaxJobs} = OldestKept(c + 1) .. (c + 1)
  BY <1>1, <1>2 DEF OldestKept
<1> QED
  BY <1>5, <1>6

-----------------------------------------------------------------------------
(* The window needs the types, and the types of jobMap follow from the    *)
(* window; together they are inductive.                                   *)
JMInv == JMTypeOK /\ JobWindow

LEMMA JMInitInv == JMInit => JMInv
<1> SUFFICES ASSUME JMInit PROVE JMInv
  OBVIOUS
<1>1. DOMAIN jobMap = {}
  BY DEF JMInit
<1>2. OldestKept(0) .. 0 = {}
  BY MaxJobsAssumption DEF OldestKept
<1>3. JMTypeOK
  BY <1>1 DEF JMInit, JMTypeOK
<1>4. JobWindow
  BY <1>1, <1>2 DEF JMInit, JobWindow, GetJob
<1> QED
  BY <1>3, <1>4 DEF JMInv

LEMMA CreateJobInv ==
    ASSUME JMInv, NEW t \in Template, CreateJob(t)
    PROVE  JMInv'
<1> DEFINE id == jobCounter + 1
           job == [id |-> id, tmpl |-> t]
           kept == Newest(DOMAIN jobMap \cup {id})
<1>1. jobCounter \in Nat /\ id \in Nat /\ job \in Job
  BY DEF JMInv, JMTypeOK, Job
<1>2. DOMAIN jobMap = OldestKept(jobCounter) .. jobCounter
  BY DEF JMInv, JobWindow
<1>3. /\ jobCounter' = id
      /\ currentJob' = job
      /\ jobMap' = [k \in kept |-> IF k = id THEN job ELSE jobMap[k]]
  BY DEF CreateJob
<1>4. kept = OldestKept(id) .. id
  BY <1>1, <1>2, EvictionKeepsWindow
<1>5. kept \subseteq Nat /\ id \in kept
  BY <1>1, <1>4, MaxJobsAssumption DEF OldestKept
<1>6. kept \ {id} \subseteq DOMAIN jobMap
  BY DEF Newest
<1>7. \A k \in DOMAIN jobMap : jobMap[k] \in Job /\ jobMap[k].id = k
  BY DEF JMInv, JMTypeOK, JobWindow
<1>8. \A k \in kept : jobMap'[k] \in Job /\ jobMap'[k].id = k
  BY <1>1, <1>3, <1>6, <1>7
<1>9. JMTypeOK'
  BY <1>1, <1>3, <1>5, <1>8 DEF JMTypeOK
<1>10. JobWindow'
  BY <1>3, <1>4, <1>5, <1>8 DEF JobWindow, GetJob
<1> QED
  BY <1>9, <1>10 DEF JMInv

LEMMA StutterInv == JMInv /\ UNCHANGED jmVars => JMInv'
  BY DEF JMInv, JMTypeOK, JobWindow, GetJob, jmVars

LEMMA JMSpecInv == JMSpec => []JMInv
<1>1. JMInv /\ [JMNext]_jmVars => JMInv'
  BY CreateJobInv, StutterInv DEF JMNext
<1> QED
  BY <1>1, JMInitInv, PTL DEF JMSpec

(* The job manager keeps its types.                                       *)
THEOREM JMTypeCorrect == JMSpec => []JMTypeOK
<1>1. JMInv => JMTypeOK
  BY DEF JMInv
<1> QED
  BY <1>1, JMSpecInv, PTL

(* The table always holds exactly the MaxJobs newest jobs, the current    *)
(* one among them.                                                        *)
THEOREM JobWindowCorrect == JMSpec => []JobWindow
<1>1. JMInv => JobWindow
  BY DEF JMInv
<1> QED
  BY <1>1, JMSpecInv, PTL

(* A job id never comes to name another job.                              *)
THEOREM IdsAreNeverReusedCorrect == JMSpec => IdsAreNeverReused
<1> DEFINE Stable ==
      /\ \A k \in DOMAIN jobMap \cap DOMAIN jobMap' : jobMap'[k] = jobMap[k]
      /\ \A k \in DOMAIN jobMap' \ DOMAIN jobMap : k > jobCounter
<1>1. ASSUME JMInv, [JMNext]_jmVars
      PROVE  [Stable]_jmVars
  <2>1. CASE UNCHANGED jmVars
    BY <2>1
  <2>2. ASSUME NEW t \in Template, CreateJob(t)
        PROVE  Stable
    <3>1. jobCounter \in Nat
          /\ DOMAIN jobMap = OldestKept(jobCounter) .. jobCounter
      BY <1>1 DEF JMInv, JMTypeOK, JobWindow
    <3>2. jobCounter + 1 \notin DOMAIN jobMap
      BY <3>1
    <3> QED
      BY <2>2, <3>1, <3>2 DEF CreateJob, Newest
  <2> QED
    BY <1>1, <2>1, <2>2 DEF JMNext
<1> QED
  BY <1>1, JMSpecInv, PTL DEF JMSpec, IdsAreNeverReused

-----------------------------------------------------------------------------

(* What each group of actions leaves alone.                               *)
LEMMA NodeFrame == Node => UNCHANGED <<jmVars, updateVars, sessionVars, minerVars>>
  BY DEF Node, NewBlock, Reorganise, RefreshTemplate, NewTip, NodeStep

LEMMA HandlerFrame ==
    ASSUME NEW s \in Session, Handler(s)
    PROVE  UNCHANGED <<jmVars, nodeVars, updateVars>>
  BY DEF Handler, Connect, Disconnect, Stall, Authorize, LoadCurrentJob,
         SubmitRetargets, SendHeld

LEMMA UpdateFrame ==
    ASSUME NEW r \in Refresher, UpdateJob(r)
    PROVE  UNCHANGED <<nodeTmpl, sessionVars>>
  BY DEF UpdateJob, Acquire, FetchOk, FetchFail, KeepJob, NewJob, Snapshot,
         SendBroadcast, StoreFingerprint, nodeVars

(* Only NewJob touches the job manager.                                   *)
LEMMA JobManagerFrame ==
    ASSUME NEW r \in Refresher, UpdateJob(r)
    PROVE  NewJob(r) \/ UNCHANGED jmVars
  BY DEF UpdateJob, Acquire, FetchOk, FetchFail, KeepJob, Snapshot,
         SendBroadcast, StoreFingerprint

-----------------------------------------------------------------------------
(* Types.                                                                 *)
LEMMA DistInitType == DistInit => DistTypeOK /\ JMInv
<1> SUFFICES ASSUME DistInit PROVE DistTypeOK /\ JMInv
  OBVIOUS
<1>1. JMInv
  BY JMInitInv DEF DistInit
<1>2. NoJob \in Job \cup {NoJob} /\ NoTemplate \in Template \cup {NoTemplate}
  OBVIOUS
<1>3. DistTypeOK
  BY <1>1, <1>2 DEF DistInit, DistTypeOK, JMInv, NoUpdate, NoHeld
<1> QED
  BY <1>1, <1>3

LEMMA NodeType ==
    ASSUME DistTypeOK, Node
    PROVE  DistTypeOK'
<1>1. UNCHANGED <<jmVars, updateVars, sessionVars, minerVars>>
  BY NodeFrame
<1>2. nodeTmpl' \in Template /\ notified' \in Nat
  BY DEF DistTypeOK, Node, NewBlock, Reorganise, RefreshTemplate, NewTip, NodeStep
<1> QED
  BY <1>1, <1>2 DEF DistTypeOK, JMTypeOK, jmVars, updateVars, sessionVars, minerVars

LEMMA DeliverType ==
    ASSUME DistTypeOK, NEW s \in Session, NEW job \in Job, NEW clean \in BOOLEAN,
           Deliver(s, job, clean)
    PROVE  /\ work' \in [Session -> SUBSET Job]
           /\ given' \in [Session -> SUBSET Nat]
<1>1. work \in [Session -> SUBSET Job] /\ given \in [Session -> SUBSET Nat]
  BY DEF DistTypeOK
<1>2. job.id \in Nat
  BY DEF Job
<1>3. CASE conn[s] = "open"
  <2>1. given' = [given EXCEPT ![s] = given[s] \cup {job.id}]
    BY <1>3 DEF Deliver
  <2>2. work' = [work EXCEPT ![s] = IF clean THEN {job} ELSE work[s] \cup {job}]
    BY <1>3 DEF Deliver
  <2> QED
    BY <1>1, <1>2, <2>1, <2>2
<1>4. CASE conn[s] # "open"
  BY <1>1, <1>4 DEF Deliver
<1> QED
  BY <1>3, <1>4

-----------------------------------------------------------------------------
(* templateMu is held exactly by the refresher inside updateJob.          *)
LockInv == \A r \in Refresher : upc[r] # "idle" <=> templateMu = r

(* What the locals of updateJob hold at each point, and how old they are: *)
(* the current job's template is never newer than the fetched one, which  *)
(* is never newer than the node's.                                        *)
CarryInv ==
    /\ \A r \in Refresher :
          /\ upc[r] \in {"decide", "snapshot", "send"} =>
                /\ update[r].tmpl \in Template
                /\ update[r].tmpl.curtime <= nodeTmpl.curtime
          /\ upc[r] = "decide" /\ currentJob # NoJob =>
                currentJob.tmpl.curtime <= update[r].tmpl.curtime
          /\ upc[r] \in {"snapshot", "send"} =>
                /\ currentJob # NoJob
                /\ update[r].job = currentJob
                /\ update[r].tmpl = currentJob.tmpl
    /\ currentJob # NoJob => currentJob.tmpl.curtime <= nodeTmpl.curtime

(* Between two broadcasts the stored fingerprint is the current job's.    *)
FingerprintInv ==
    currentJob # NoJob /\ (\A r \in Refresher : upc[r] \notin {"snapshot", "send"})
        => lastFingerprint = Fingerprint(currentJob.tmpl)

(* A handler about to send has a job, and only an open session was ever   *)
(* authorized.                                                            *)
SessionInv ==
    \A s \in Session :
        /\ hpc[s] = "send" => held[s].job \in Job
        /\ conn[s] = "new" => ~authorized[s]

Core == DistTypeOK /\ JMInv /\ LockInv /\ CarryInv /\ FingerprintInv /\ SessionInv

LEMMA TemplateFields ==
    ASSUME NEW t \in Template
    PROVE  t.curtime \in Nat
  BY DistributionAssumption

LEMMA JobsAreNotNoJob ==
    /\ currentJob \in Job \cup {NoJob} /\ currentJob # NoJob => currentJob \in Job
    /\ \A n \in Nat, t \in Template : [id |-> n + 1, tmpl |-> t] # NoJob
<1>1. \A n \in Nat, t \in Template : [id |-> n + 1, tmpl |-> t].id # NoJob.id
  BY DEF NoJob
<1> QED
  BY <1>1

-----------------------------------------------------------------------------
(* The node's clock only advances.                                        *)
LEMMA NodeCore ==
    ASSUME Core, Node
    PROVE  Core'
<1>1. UNCHANGED <<jmVars, updateVars, sessionVars, minerVars>>
  BY NodeFrame
<1>2. DistTypeOK'
  BY NodeType DEF Core
<1>3. nodeTmpl.curtime \in Nat /\ nodeTmpl'.curtime = nodeTmpl.curtime + 1
  <2>1. nodeTmpl \in Template
    BY DEF Core, DistTypeOK
  <2> QED
    BY <2>1, TemplateFields
    DEF Node, NewBlock, Reorganise, RefreshTemplate, NewTip, NodeStep
<1>4. ASSUME NEW t \in Template, t.curtime <= nodeTmpl.curtime
      PROVE  t.curtime <= nodeTmpl'.curtime
  BY <1>3, <1>4, TemplateFields
<1>5. currentJob # NoJob => currentJob.tmpl \in Template
  BY JobsAreNotNoJob DEF Core, DistTypeOK, JMTypeOK, Job
<1>6. CarryInv'
  BY <1>1, <1>4, <1>5 DEF Core, CarryInv, jmVars, updateVars
<1>7. JMInv' /\ LockInv' /\ FingerprintInv' /\ SessionInv'
  BY <1>1 DEF Core, JMInv, JMTypeOK, JobWindow, GetJob, LockInv, FingerprintInv,
              SessionInv, jmVars, updateVars, sessionVars
<1> QED
  BY <1>2, <1>6, <1>7 DEF Core

-----------------------------------------------------------------------------
(* updateJob, one step per action.                                        *)
LEMMA UpdateType ==
    ASSUME Core, NEW r \in Refresher, UpdateJob(r)
    PROVE  DistTypeOK'
<1>1. UNCHANGED <<nodeTmpl, sessionVars>>
  BY UpdateFrame
<1>2. /\ upc \in [Refresher -> {"idle", "fetch", "decide", "snapshot", "send"}]
      /\ update \in [Refresher -> [tmpl : Template \cup {NoTemplate},
                                   job : Job \cup {NoJob}, clean : BOOLEAN]]
      /\ unsent \in [Refresher -> SUBSET Session]
      /\ nodeTmpl \in Template /\ notified \in Nat
      /\ templateMu \in Refresher \cup {Free}
  BY DEF Core, DistTypeOK
<1> DEFINE UpdateTypes ==
      /\ notified \in Nat
      /\ templateMu \in Refresher \cup {Free}
      /\ upc \in [Refresher -> {"idle", "fetch", "decide", "snapshot", "send"}]
      /\ update \in [Refresher -> [tmpl : Template \cup {NoTemplate},
                                   job : Job \cup {NoJob}, clean : BOOLEAN]]
      /\ unsent \in [Refresher -> SUBSET Session]
<1>3. ASSUME UpdateTypes', JMTypeOK', UNCHANGED minerVars
      PROVE  DistTypeOK'
  BY <1>1, <1>3 DEF Core, DistTypeOK, sessionVars, minerVars
<1>4. NoUpdate \in [tmpl : Template \cup {NoTemplate}, job : Job \cup {NoJob},
                    clean : BOOLEAN]
  BY DEF NoUpdate
<1>5. UNCHANGED jmVars => JMTypeOK'
  BY DEF Core, DistTypeOK, JMTypeOK, jmVars
<1>6. CASE Acquire(r)
  BY <1>2, <1>3, <1>5, <1>6 DEF Acquire, Goto
<1>7. CASE FetchOk(r)
  BY <1>2, <1>3, <1>5, <1>7 DEF FetchOk, Goto, nodeVars
<1>8. CASE FetchFail(r)
  BY <1>2, <1>3, <1>4, <1>5, <1>8 DEF FetchFail, Return, Goto, nodeVars
<1>9. CASE KeepJob(r)
  BY <1>2, <1>3, <1>4, <1>5, <1>9 DEF KeepJob, Return, Goto, nodeVars
<1>10. CASE NewJob(r)
  <2>1. update[r].tmpl \in Template /\ CreateJob(update[r].tmpl)
    BY <1>10 DEF Core, CarryInv, NewJob, Goto
  <2>2. JMTypeOK'
    BY <2>1, CreateJobInv DEF Core, JMInv
  <2>3. currentJob' \in Job \cup {NoJob} /\ CleanJobs(update[r].tmpl) \in BOOLEAN
    BY <2>2 DEF JMTypeOK, CleanJobs
  <2>4. UpdateTypes'
    BY <1>2, <1>10, <2>3 DEF NewJob, Goto, nodeVars
  <2> QED
    BY <1>3, <1>10, <2>2, <2>4 DEF NewJob
<1>11. CASE Snapshot(r)
  BY <1>2, <1>3, <1>5, <1>11 DEF Snapshot, Goto, nodeVars
<1>12. ASSUME NEW s \in Session, SendBroadcast(r, s)
       PROVE  DistTypeOK'
  <2>1. UpdateTypes' /\ JMTypeOK'
    BY <1>2, <1>5, <1>12 DEF SendBroadcast, nodeVars
  <2>2. CASE ~authorized[s]
    BY <1>3, <1>12, <2>1, <2>2 DEF SendBroadcast
  <2>3. CASE authorized[s]
    <3>1. update[r].job \in Job /\ update[r].job.id \in Nat /\ update[r].clean \in BOOLEAN
      <4>1. update[r].job = currentJob /\ currentJob # NoJob
        BY <1>12 DEF Core, CarryInv, SendBroadcast
      <4>2. currentJob \in Job
        BY <4>1, JobsAreNotNoJob DEF Core, DistTypeOK, JMTypeOK
      <4> QED
        BY <1>2, <4>1, <4>2 DEF Job
    <3>2. /\ work' \in [Session -> SUBSET Job]
          /\ given' \in [Session -> SUBSET Nat]
      BY <1>12, <2>3, <3>1, DeliverType DEF Core, SendBroadcast
    <3>3. broadcast' \in [Session -> Nat]
      BY <1>12, <2>3, <3>1 DEF Core, DistTypeOK, SendBroadcast
    <3>4. late' \in [Session -> BOOLEAN]
      BY <1>12, <2>3 DEF Core, DistTypeOK, SendBroadcast
    <3>5. overtaken' \in [Session -> BOOLEAN]
      BY <1>12, <2>3 DEF Core, DistTypeOK, SendBroadcast
    <3> QED
      BY <1>1, <2>1, <3>2, <3>3, <3>4, <3>5 DEF Core, DistTypeOK, sessionVars
  <2> QED
    BY <2>2, <2>3
<1>13. CASE StoreFingerprint(r)
  BY <1>2, <1>3, <1>4, <1>5, <1>13 DEF StoreFingerprint, Return, Goto, nodeVars
<1> QED
  BY <1>6, <1>7, <1>8, <1>9, <1>10, <1>11, <1>12, <1>13 DEF UpdateJob

(* Whoever moves inside updateJob holds the lock, so the other refresher  *)
(* is outside.                                                            *)
LEMMA OthersIdle ==
    ASSUME Core, NEW r \in Refresher, upc[r] # "idle", NEW q \in Refresher, q # r
    PROVE  upc[q] = "idle"
  BY DEF Core, LockInv

LEMMA UpdateLock ==
    ASSUME Core, NEW r \in Refresher, UpdateJob(r)
    PROVE  LockInv'
<1>1. /\ upc \in [Refresher -> {"idle", "fetch", "decide", "snapshot", "send"}]
      /\ \A q \in Refresher : upc[q] # "idle" <=> templateMu = q
      /\ Free \notin Refresher
  BY DistributionAssumption DEF Core, DistTypeOK, LockInv, Refresher
<1>2. CASE Acquire(r)
  BY <1>1, <1>2 DEF Acquire, Goto, LockInv
<1>3. CASE Return(r, "fetch") \/ Return(r, "decide") \/ Return(r, "send")
  BY <1>1, <1>3 DEF Return, Goto, LockInv
<1>4. ASSUME UNCHANGED templateMu,
             Goto(r, "fetch", "decide") \/ Goto(r, "decide", "snapshot")
               \/ Goto(r, "snapshot", "send") \/ UNCHANGED upc
      PROVE  LockInv'
  BY <1>1, <1>4 DEF Goto, LockInv
<1> QED
  BY <1>2, <1>3, <1>4
  DEF UpdateJob, FetchOk, FetchFail, KeepJob, NewJob, Snapshot, SendBroadcast,
      StoreFingerprint

LEMMA UpdateCarry ==
    ASSUME Core, NEW r \in Refresher, UpdateJob(r)
    PROVE  CarryInv' /\ FingerprintInv'
<1>1. /\ upc \in [Refresher -> {"idle", "fetch", "decide", "snapshot", "send"}]
      /\ update \in [Refresher -> [tmpl : Template \cup {NoTemplate},
                                   job : Job \cup {NoJob}, clean : BOOLEAN]]
      /\ nodeTmpl \in Template /\ nodeTmpl.curtime \in Nat
  BY TemplateFields DEF Core, DistTypeOK
<1>2. UNCHANGED nodeTmpl
  BY UpdateFrame
<1>3. CarryInv /\ FingerprintInv
  BY DEF Core
<1>4. CASE Acquire(r)
  BY <1>1, <1>3, <1>4 DEF Acquire, Goto, CarryInv, FingerprintInv, jmVars
<1>5. CASE FetchOk(r)
  BY <1>1, <1>3, <1>5 DEF FetchOk, Goto, CarryInv, FingerprintInv, jmVars, nodeVars
<1>6. CASE FetchFail(r) \/ KeepJob(r)
  BY <1>1, <1>3, <1>6
  DEF FetchFail, KeepJob, Return, Goto, CarryInv, FingerprintInv, jmVars, nodeVars
<1>7. CASE NewJob(r)
  <2>1. /\ upc[r] = "decide" /\ upc' = [upc EXCEPT ![r] = "snapshot"]
        /\ currentJob' = [id |-> jobCounter + 1, tmpl |-> update[r].tmpl]
        /\ update' = [update EXCEPT ![r].job = currentJob',
                                    ![r].clean = CleanJobs(update[r].tmpl)]
    BY <1>7 DEF NewJob, Goto, CreateJob
  <2>2. update[r].tmpl \in Template /\ update[r].tmpl.curtime <= nodeTmpl.curtime
    BY <1>3, <2>1 DEF CarryInv
  <2>3. currentJob' # NoJob
    BY <2>1, <2>2, JobsAreNotNoJob DEF Core, DistTypeOK, JMTypeOK
  <2>4. update'[r].job = currentJob' /\ update'[r].tmpl = update[r].tmpl
    BY <1>1, <2>1
  <2>5. \A q \in Refresher : q # r => upc'[q] = "idle"
    BY <1>1, <2>1, OthersIdle
  <2>6. upc'[r] = "snapshot"
    BY <1>1, <2>1
  <2>7. currentJob'.tmpl = update[r].tmpl
    BY <2>1
  <2>8. CarryInv'
    BY <1>2, <2>2, <2>3, <2>4, <2>5, <2>6, <2>7 DEF CarryInv
  <2>9. FingerprintInv'
    BY <2>6 DEF FingerprintInv
  <2> QED
    BY <2>8, <2>9
<1>8. CASE Snapshot(r)
  BY <1>1, <1>3, <1>8 DEF Snapshot, Goto, CarryInv, FingerprintInv, jmVars, nodeVars
<1>9. ASSUME NEW s \in Session, SendBroadcast(r, s)
      PROVE  CarryInv' /\ FingerprintInv'
  BY <1>3, <1>9 DEF SendBroadcast, CarryInv, FingerprintInv, jmVars, nodeVars
<1>10. CASE StoreFingerprint(r)
  <2>1. lastFingerprint' = Fingerprint(update[r].tmpl) /\ upc[r] = "send"
        /\ UNCHANGED currentJob
    BY <1>10 DEF StoreFingerprint, Return, Goto, jmVars
  <2>2. update[r].tmpl = currentJob.tmpl
    BY <1>3, <2>1 DEF CarryInv
  <2>3. FingerprintInv'
    BY <2>1, <2>2 DEF FingerprintInv, Fingerprint
  <2>4. CarryInv'
    BY <1>1, <1>3, <1>10 DEF StoreFingerprint, Return, Goto, CarryInv, jmVars, nodeVars
  <2> QED
    BY <2>3, <2>4
<1> QED
  BY <1>4, <1>5, <1>6, <1>7, <1>8, <1>9, <1>10 DEF UpdateJob

LEMMA UpdateCore ==
    ASSUME Core, NEW r \in Refresher, UpdateJob(r)
    PROVE  Core'
<1>1. DistTypeOK' /\ LockInv' /\ CarryInv' /\ FingerprintInv'
  BY UpdateType, UpdateLock, UpdateCarry
<1>2. JMInv'
  <2>1. CASE UNCHANGED jmVars
    BY <2>1, StutterInv DEF Core
  <2>2. CASE NewJob(r)
    <3>1. update[r].tmpl \in Template /\ CreateJob(update[r].tmpl)
      BY <2>2 DEF Core, CarryInv, NewJob, Goto
    <3> QED
      BY <3>1, CreateJobInv DEF Core
  <2> QED
    BY <2>1, <2>2, JobManagerFrame
<1>3. SessionInv'
  BY UpdateFrame DEF Core, SessionInv, sessionVars
<1> QED
  BY <1>1, <1>2, <1>3 DEF Core

-----------------------------------------------------------------------------
(* The handlers.                                                          *)
LEMMA HandlerCore ==
    ASSUME Core, NEW s \in Session, Handler(s)
    PROVE  Core'
<1>1. UNCHANGED <<jmVars, nodeVars, updateVars>>
  BY HandlerFrame
<1>2. JMInv' /\ LockInv' /\ CarryInv' /\ FingerprintInv'
  BY <1>1 DEF Core, JMInv, JMTypeOK, JobWindow, GetJob, LockInv, CarryInv,
              FingerprintInv, jmVars, nodeVars, updateVars
<1> DEFINE SessionTypes ==
      /\ conn \in [Session -> {"new", "open", "closed"}]
      /\ reading \in [Session -> BOOLEAN]
      /\ authorized \in [Session -> BOOLEAN]
      /\ hpc \in [Session -> {"read", "load", "send"}]
      /\ held \in [Session -> [job : Job \cup {NoJob}, clean : BOOLEAN]]
           MinerTypes ==
      /\ work \in [Session -> SUBSET Job]
      /\ given \in [Session -> SUBSET Nat]
      /\ broadcast \in [Session -> Nat]
      /\ late \in [Session -> BOOLEAN]
      /\ overtaken \in [Session -> BOOLEAN]
<1>3. SessionTypes /\ MinerTypes /\ SessionInv
  BY DEF Core, DistTypeOK
<1>4. ASSUME SessionTypes', MinerTypes', SessionInv'
      PROVE  Core'
  <2>1. DistTypeOK'
    BY <1>1, <1>4 DEF Core, DistTypeOK, JMTypeOK, jmVars, nodeVars, updateVars
  <2> QED
    BY <1>2, <1>4, <2>1 DEF Core
<1>5. CASE Connect(s)
  <2>1. SessionTypes' /\ MinerTypes'
    BY <1>3, <1>5 DEF Connect, minerVars
  <2>2. SessionInv'
    BY <1>3, <1>5 DEF Connect, SessionInv
  <2> QED
    BY <1>4, <2>1, <2>2
<1>6. CASE Disconnect(s)
  <2>1. SessionTypes' /\ MinerTypes'
    BY <1>3, <1>6 DEF Disconnect
  <2>2. SessionInv'
    BY <1>3, <1>6 DEF Disconnect, SessionInv
  <2> QED
    BY <1>4, <2>1, <2>2
<1>7. CASE Stall(s)
  <2>1. SessionTypes' /\ MinerTypes' /\ SessionInv'
    BY <1>3, <1>7 DEF Stall, minerVars, SessionInv
  <2> QED
    BY <1>4, <2>1
<1>8. CASE Authorize(s)
  <2>1. SessionTypes' /\ MinerTypes'
    BY <1>3, <1>8 DEF Authorize, minerVars
  <2>2. SessionInv'
    BY <1>3, <1>8 DEF Authorize, SessionInv
  <2> QED
    BY <1>4, <2>1, <2>2
<1>9. CASE LoadCurrentJob(s)
  <2>1. currentJob # NoJob => currentJob \in Job
    BY JobsAreNotNoJob DEF Core, DistTypeOK, JMTypeOK
  <2>2. MinerTypes' /\ UNCHANGED <<conn, reading, authorized>>
    BY <1>3, <1>9 DEF LoadCurrentJob, minerVars
  <2>3. SessionInv'
    BY <1>3, <1>9, <2>1 DEF LoadCurrentJob, SessionInv
  <2>4. CASE currentJob = NoJob
    BY <1>3, <1>4, <1>9, <2>2, <2>3, <2>4 DEF LoadCurrentJob
  <2>5. CASE currentJob # NoJob
    <3>1. PICK h \in [job : Job \cup {NoJob}, clean : BOOLEAN] :
             h = [job |-> currentJob, clean |-> TRUE]
      BY <2>1, <2>5
    <3>2. held' = [held EXCEPT ![s] = h] /\ hpc' = [hpc EXCEPT ![s] = "send"]
      BY <1>9, <2>5, <3>1 DEF LoadCurrentJob
    <3>3. held' \in [Session -> [job : Job \cup {NoJob}, clean : BOOLEAN]]
      BY <1>3, <3>2
    <3>4. hpc' \in [Session -> {"read", "load", "send"}]
      BY <1>3, <3>2
    <3> QED
      BY <1>3, <1>4, <2>2, <2>3, <3>3, <3>4
  <2> QED
    BY <2>4, <2>5
<1>10. ASSUME NEW id \in given[s], SubmitRetargets(s, id)
       PROVE  Core'
  <2>1. GetJob(id) \in Job
    BY <1>10 DEF Core, DistTypeOK, JMTypeOK, SubmitRetargets, GetJob
  <2>2. SessionTypes' /\ MinerTypes'
    BY <1>3, <1>10, <2>1 DEF SubmitRetargets, minerVars
  <2>3. SessionInv'
    BY <1>3, <1>10, <2>1 DEF SubmitRetargets, SessionInv
  <2> QED
    BY <1>4, <2>2, <2>3
<1>11. CASE SendHeld(s)
  <2>1. held[s].job \in Job /\ held[s].clean \in BOOLEAN
    BY <1>3, <1>11 DEF SendHeld, SessionInv
  <2>2. NoHeld \in [job : Job \cup {NoJob}, clean : BOOLEAN]
    BY DEF NoHeld
  <2>3. SessionTypes'
    BY <1>3, <1>11, <2>2 DEF SendHeld
  <2>4. /\ work' \in [Session -> SUBSET Job]
        /\ given' \in [Session -> SUBSET Nat]
    BY <1>11, <2>1, DeliverType DEF Core, SendHeld
  <2>5. late' \in [Session -> BOOLEAN] /\ broadcast' \in [Session -> Nat]
    BY <1>3, <1>11 DEF SendHeld
  <2>6. SessionInv'
    BY <1>3, <1>11 DEF SendHeld, SessionInv
  <2>7. overtaken' \in [Session -> BOOLEAN]
    BY <1>3, <1>11, <2>1 DEF SendHeld
  <2> QED
    BY <1>4, <2>3, <2>4, <2>5, <2>6, <2>7
<1> QED
  BY <1>5, <1>6, <1>7, <1>8, <1>9, <1>10, <1>11 DEF Handler

LEMMA CoreStep == Core /\ [DistNext]_vars => Core'
<1> SUFFICES ASSUME Core, [DistNext]_vars PROVE Core'
  OBVIOUS
<1>1. CASE Node
  BY <1>1, NodeCore
<1>2. ASSUME NEW r \in Refresher, UpdateJob(r)
      PROVE  Core'
  BY <1>2, UpdateCore
<1>3. ASSUME NEW s \in Session, Handler(s)
      PROVE  Core'
  BY <1>3, HandlerCore
<1>4. CASE UNCHANGED vars
  BY <1>4 DEF Core, DistTypeOK, JMInv, JMTypeOK, JobWindow, GetJob, LockInv, CarryInv,
     FingerprintInv, SessionInv, vars, jmVars, nodeVars, updateVars, sessionVars, minerVars
<1> QED
  BY <1>1, <1>2, <1>3, <1>4 DEF DistNext

LEMMA InitCore == DistInit => Core
<1> SUFFICES ASSUME DistInit PROVE Core
  OBVIOUS
<1>1. DistTypeOK /\ JMInv
  BY DistInitType
<1>2. currentJob = NoJob
  BY DEF DistInit, JMInit
<1>3. LockInv /\ CarryInv /\ FingerprintInv /\ SessionInv
  BY <1>2, DistributionAssumption
  DEF DistInit, LockInv, CarryInv, FingerprintInv, SessionInv, Refresher
<1> QED
  BY <1>1, <1>3 DEF Core

LEMMA CoreInvariant == DistSpec => []Core
  BY InitCore, CoreStep, PTL DEF DistSpec

(* All the variables keep their types.                                    *)
THEOREM DistTypeCorrect == DistSpec => []DistTypeOK
<1>1. Core => DistTypeOK
  BY DEF Core
<1> QED
  BY <1>1, CoreInvariant, PTL

(* The composed system uses the job manager as its own specification      *)
(* allows, so a share for one of the last MaxJobs jobs finds it.          *)
THEOREM DistJobWindow == DistSpec => []JobWindow
<1>1. Core => JobWindow
  BY DEF Core, JMInv
<1> QED
  BY <1>1, CoreInvariant, PTL

-----------------------------------------------------------------------------
(* The template of the current job never gets older.                      *)
THEOREM CurrentJobNeverGoesBackCorrect == DistSpec => CurrentJobNeverGoesBack
<1> DEFINE NotOlder ==
      currentJob # NoJob => currentJob'.tmpl.curtime >= currentJob.tmpl.curtime
<1>1. ASSUME Core, [DistNext]_vars
      PROVE  [NotOlder]_vars
  <2>1. currentJob # NoJob => currentJob.tmpl.curtime \in Nat
    BY <1>1, TemplateFields, JobsAreNotNoJob DEF Core, DistTypeOK, JMTypeOK, Job
  <2>2. CASE UNCHANGED jmVars
    BY <2>1, <2>2 DEF jmVars
  <2>3. ASSUME NEW r \in Refresher, NewJob(r)
        PROVE  NotOlder
    <3>1. /\ update[r].tmpl \in Template
          /\ currentJob # NoJob => currentJob.tmpl.curtime <= update[r].tmpl.curtime
      BY <1>1, <2>3 DEF Core, CarryInv, NewJob, Goto
    <3>2. currentJob'.tmpl = update[r].tmpl
      BY <2>3 DEF NewJob, CreateJob
    <3> QED
      BY <2>1, <3>1, <3>2, TemplateFields
  <2> QED
    BY <1>1, <2>2, <2>3, NodeFrame, HandlerFrame, JobManagerFrame DEF DistNext
<1> QED
  BY <1>1, CoreInvariant, PTL DEF DistSpec, CurrentJobNeverGoesBack

(* A new job never repeats the current one: the stored fingerprint that   *)
(* updateJob compares with is the current job's whenever a refresher is   *)
(* at that comparison.                                                    *)
THEOREM NewJobIsNewsCorrect == DistSpec => NewJobIsNews
<1> DEFINE News ==
      currentJob' # currentJob /\ currentJob # NoJob
          => Fingerprint(currentJob'.tmpl) # Fingerprint(currentJob.tmpl)
<1>1. ASSUME Core, [DistNext]_vars
      PROVE  [News]_vars
  <2>1. CASE UNCHANGED jmVars
    BY <2>1 DEF jmVars
  <2>2. ASSUME NEW r \in Refresher, NewJob(r)
        PROVE  News
    <3>1. upc[r] = "decide" /\ HasNews(update[r].tmpl)
          /\ currentJob'.tmpl = update[r].tmpl
      BY <2>2 DEF NewJob, Goto, CreateJob
    <3>2. \A q \in Refresher : upc[q] \notin {"snapshot", "send"}
      BY <1>1, <3>1, OthersIdle
    <3>3. currentJob # NoJob => lastFingerprint = Fingerprint(currentJob.tmpl)
      BY <1>1, <3>2 DEF Core, FingerprintInv
    <3> QED
      BY <3>1, <3>3 DEF HasNews
  <2> QED
    BY <1>1, <2>1, <2>2, NodeFrame, HandlerFrame, JobManagerFrame DEF DistNext, vars
<1> QED
  BY <1>1, CoreInvariant, PTL DEF DistSpec, NewJobIsNews

-----------------------------------------------------------------------------
(* No job was broadcast that is newer than the current one.               *)
OrderInv == \A s \in Session : broadcast[s] <= currentJob.id

LEMMA IdsGrow ==
    ASSUME Core, [DistNext]_vars
    PROVE  /\ currentJob.id \in Nat
           /\ currentJob'.id \in Nat
           /\ currentJob'.id >= currentJob.id
<1>1. currentJob.id \in Nat
  BY DEF Core, DistTypeOK, JMTypeOK, Job, NoJob
<1>2. CASE UNCHANGED jmVars
  BY <1>1, <1>2 DEF jmVars
<1>3. ASSUME NEW r \in Refresher, NewJob(r)
      PROVE  /\ currentJob'.id \in Nat
             /\ currentJob'.id >= currentJob.id
  <2>1. currentJob'.id = jobCounter + 1
    BY <1>3 DEF NewJob, CreateJob
  <2>2. jobCounter \in Nat /\ currentJob = GetJob(jobCounter)
        /\ \A k \in DOMAIN jobMap : jobMap[k].id = k
    BY DEF Core, JMInv, JMTypeOK, JobWindow
  <2>3. currentJob.id \in {0, jobCounter}
    BY <2>2 DEF GetJob, NoJob
  <2> QED
    BY <2>1, <2>2, <2>3
<1> QED
  BY <1>1, <1>2, <1>3, NodeFrame, HandlerFrame, JobManagerFrame DEF DistNext, vars

(* A broadcast sends the current job; nothing else changes the history.   *)
LEMMA BroadcastIsCurrent ==
    ASSUME Core, [DistNext]_vars, NEW s \in Session
    PROVE  \/ broadcast'[s] = broadcast[s]
           \/ broadcast'[s] = currentJob.id /\ UNCHANGED currentJob
<1>1. CASE Node \/ UNCHANGED vars
  BY <1>1, NodeFrame DEF minerVars, vars
<1>2. ASSUME NEW t \in Session, Handler(t)
      PROVE  broadcast' = broadcast
  BY <1>2 DEF Handler, Connect, Disconnect, Stall, Authorize, LoadCurrentJob,
              SubmitRetargets, SendHeld, minerVars
<1>3. ASSUME NEW r \in Refresher, NEW t \in Session, SendBroadcast(r, t)
      PROVE  \/ broadcast'[s] = broadcast[s]
             \/ broadcast'[s] = currentJob.id /\ UNCHANGED currentJob
  <2>1. broadcast \in [Session -> Nat] /\ UNCHANGED currentJob
        /\ update[r].job = currentJob
    BY <1>3 DEF Core, DistTypeOK, CarryInv, SendBroadcast, jmVars
  <2>2. \/ UNCHANGED broadcast
        \/ broadcast' = [broadcast EXCEPT ![t] = update[r].job.id]
    BY <1>3 DEF SendBroadcast, minerVars
  <2> QED
    BY <2>1, <2>2
<1>4. ASSUME NEW r \in Refresher, UpdateJob(r), \A t \in Session : ~SendBroadcast(r, t)
      PROVE  broadcast' = broadcast
  BY <1>4 DEF UpdateJob, Acquire, FetchOk, FetchFail, KeepJob, NewJob, Snapshot,
              StoreFingerprint, minerVars
<1> QED
  BY <1>1, <1>2, <1>3, <1>4 DEF DistNext

LEMMA OrderInvariant == DistSpec => []OrderInv
<1>1. DistInit => OrderInv
  BY DEF DistInit, JMInit, NoJob, OrderInv
<1>2. ASSUME Core, OrderInv, [DistNext]_vars
      PROVE  OrderInv'
  <2>1. broadcast \in [Session -> Nat]
    BY <1>2 DEF Core, DistTypeOK
  <2> QED
    BY <1>2, <2>1, IdsGrow, BroadcastIsCurrent DEF OrderInv
<1> QED
  BY <1>1, <1>2, CoreInvariant, PTL DEF DistSpec

(* The jobs broadcast to a session come in the order of their creation.   *)
THEOREM BroadcastsInOrderCorrect == DistSpec => BroadcastsInOrder
<1>1. ASSUME Core, OrderInv, [DistNext]_vars
      PROVE  \A s \in Session : broadcast'[s] >= broadcast[s]
  <2>1. broadcast \in [Session -> Nat]
    BY <1>1 DEF Core, DistTypeOK
  <2> QED
    BY <1>1, <2>1, IdsGrow, BroadcastIsCurrent DEF OrderInv
<1> QED
  BY <1>1, CoreInvariant, OrderInvariant, PTL DEF DistSpec, BroadcastsInOrder

-----------------------------------------------------------------------------
(* NoMissedJob speaks of idle handlers; to be inductive it must also say  *)
(* who will bring the job while the handler is busy: the handler itself,  *)
(* about to read or to send the current job, or the broadcast.  And a job *)
(* in the work was given, which is what is left of it when a late clean   *)
(* send flushes it.                                                       *)
Served(s) ==
    \/ HasWork(s)
    \/ Unserved(s)
    \/ hpc[s] = "load"
    \/ hpc[s] = "send" /\ held[s].job = currentJob

WorkWasGiven(s) == \A job \in work[s] : job.id \in given[s]

Promise ==
    \A s \in Session :
        conn[s] = "open" /\ authorized[s] /\ currentJob # NoJob => Served(s)

ServeInv == Promise /\ \A s \in Session : WorkWasGiven(s)

(* A job that is sent joins the history, and the work unless it replaces  *)
(* it.                                                                    *)
LEMMA DeliverGives ==
    ASSUME Core, NEW s \in Session, NEW t \in Session, NEW job, NEW clean,
           Deliver(t, job, clean), WorkWasGiven(s)
    PROVE  /\ WorkWasGiven(s)'
           /\ t # s => work'[s] = work[s] /\ given'[s] = given[s]
           /\ t = s /\ conn[s] = "open" => job \in work'[s]
           /\ given[s] \subseteq given'[s]
           /\ clean \/ work[s] \subseteq work'[s]
<1>1. work \in [Session -> SUBSET Job] /\ given \in [Session -> SUBSET Nat]
  BY DEF Core, DistTypeOK
<1>2. CASE conn[t] # "open" \/ t # s
  <2>1. work'[s] = work[s] /\ given'[s] = given[s]
    BY <1>1, <1>2 DEF Deliver
  <2> QED
    BY <1>2, <2>1 DEF WorkWasGiven
<1>3. CASE conn[t] = "open" /\ t = s
  <2>1. given'[s] = given[s] \cup {job.id}
    BY <1>1, <1>3 DEF Deliver
  <2>2. work'[s] = IF clean THEN {job} ELSE work[s] \cup {job}
    BY <1>1, <1>3 DEF Deliver
  <2> QED
    BY <1>3, <2>1, <2>2 DEF WorkWasGiven
<1> QED
  BY <1>2, <1>3

(* The work and its history are touched by the three sends and the end of *)
(* the connection only.                                                   *)
LEMMA GivenStep ==
    ASSUME Core, ServeInv, [DistNext]_vars, NEW s \in Session
    PROVE  WorkWasGiven(s)'
<1>1. WorkWasGiven(s)
  BY DEF ServeInv
<1>2. CASE UNCHANGED <<work, given>>
  BY <1>1, <1>2 DEF WorkWasGiven
<1>3. ASSUME NEW t \in Session, NEW job, NEW clean, Deliver(t, job, clean)
      PROVE  WorkWasGiven(s)'
  BY <1>1, <1>3, DeliverGives
<1>4. CASE Node \/ UNCHANGED vars
  BY <1>2, <1>4, NodeFrame DEF minerVars, vars
<1>5. ASSUME NEW r \in Refresher, UpdateJob(r)
      PROVE  WorkWasGiven(s)'
  BY <1>2, <1>3, <1>5
  DEF UpdateJob, Acquire, FetchOk, FetchFail, KeepJob, NewJob, Snapshot, SendBroadcast,
      StoreFingerprint, minerVars
<1>6. ASSUME NEW t \in Session, Handler(t)
      PROVE  WorkWasGiven(s)'
  <2>1. CASE Disconnect(t)
    <3>1. work \in [Session -> SUBSET Job] /\ given \in [Session -> SUBSET Nat]
      BY DEF Core, DistTypeOK
    <3>2. \/ work'[s] = {}
          \/ work'[s] = work[s] /\ given'[s] = given[s]
      BY <2>1, <3>1 DEF Disconnect
    <3> QED
      BY <1>1, <3>2 DEF WorkWasGiven
  <2>2. CASE SendHeld(t)
    BY <1>3, <2>2 DEF SendHeld
  <2> QED
    BY <1>2, <1>6, <2>1, <2>2
    DEF Handler, Connect, Stall, Authorize, LoadCurrentJob, SubmitRetargets, minerVars
<1> QED
  BY <1>4, <1>5, <1>6 DEF DistNext

LEMMA ServedByUpdate ==
    ASSUME Core, ServeInv, NEW r \in Refresher, UpdateJob(r)
    PROVE  Promise'
<1>1. UNCHANGED sessionVars
  BY UpdateFrame
<1>2. /\ upc \in [Refresher -> {"idle", "fetch", "decide", "snapshot", "send"}]
      /\ unsent \in [Refresher -> SUBSET Session]
  BY DEF Core, DistTypeOK
<1> SUFFICES ASSUME NEW s \in Session,
                    conn[s] = "open", authorized[s], currentJob' # NoJob
             PROVE  Served(s)'
  BY <1>1 DEF Promise, sessionVars
<1>3. currentJob # NoJob => Served(s)
  BY DEF ServeInv, Promise
<1>4. CASE Acquire(r) \/ FetchOk(r) \/ FetchFail(r) \/ KeepJob(r)
  <2>1. UNCHANGED <<jmVars, unsent, minerVars>>
        /\ upc[r] \notin {"snapshot", "send"}
        /\ \A q \in Refresher : q # r => upc'[q] = upc[q]
    BY <1>2, <1>4 DEF Acquire, FetchOk, FetchFail, KeepJob, Return, Goto
  <2>2. Unserved(s) => Unserved(s)'
    BY <2>1 DEF Unserved
  <2> QED
    BY <1>1, <1>3, <2>1, <2>2 DEF Served, HasWork, jmVars, minerVars, sessionVars
<1>5. CASE NewJob(r)
  BY <1>2, <1>5 DEF NewJob, Goto, Served, Unserved
<1>6. CASE Snapshot(r)
  BY <1>2, <1>6 DEF Snapshot, Goto, Served, Unserved
<1>7. ASSUME NEW t \in Session, SendBroadcast(r, t)
      PROVE  Served(s)'
  <2>1. UNCHANGED <<jmVars, upc>> /\ upc[r] = "send"
        /\ unsent' = [unsent EXCEPT ![r] = @ \ {t}]
    BY <1>7 DEF SendBroadcast
  <2>2. overtaken \in [Session -> BOOLEAN] /\ WorkWasGiven(s)
    BY DEF Core, DistTypeOK, ServeInv
  <2>3. CASE t = s
    <3>1. Deliver(s, update[r].job, update[r].clean)
      BY <1>7, <2>3 DEF SendBroadcast
    <3>2. update[r].job \in work'[s]
      BY <2>2, <3>1, DeliverGives
    <3>3. update[r].job = currentJob
      BY <2>1 DEF Core, CarryInv
    <3> QED
      BY <2>1, <3>2, <3>3 DEF Served, HasWork, jmVars
  <2>4. CASE t # s
    <3>1. Unserved(s) => Unserved(s)'
      BY <1>2, <2>1, <2>4 DEF Unserved
    <3>2. work'[s] = work[s] /\ given'[s] = given[s]
      <4>1. \/ Deliver(t, update[r].job, update[r].clean)
            \/ UNCHANGED minerVars
        BY <1>7 DEF SendBroadcast
      <4> QED
        BY <2>2, <2>4, <4>1, DeliverGives DEF minerVars
    <3>3. overtaken'[s] = overtaken[s]
      BY <1>7, <2>2, <2>4 DEF SendBroadcast, minerVars
    <3> QED
      BY <1>1, <1>3, <2>1, <3>1, <3>2, <3>3 DEF Served, HasWork, jmVars, sessionVars
  <2> QED
    BY <2>3, <2>4
<1>8. CASE StoreFingerprint(r)
  <2>1. UNCHANGED <<jmVars, unsent, minerVars>> /\ unsent[r] = {} /\ upc[r] = "send"
        /\ \A q \in Refresher : q # r => upc'[q] = upc[q]
    BY <1>2, <1>8 DEF StoreFingerprint, Return, Goto
  <2>2. Unserved(s) => Unserved(s)'
    BY <2>1 DEF Unserved
  <2> QED
    BY <1>1, <1>3, <2>1, <2>2 DEF Served, HasWork, jmVars, minerVars, sessionVars
<1> QED
  BY <1>4, <1>5, <1>6, <1>7, <1>8 DEF UpdateJob

LEMMA ServedByHandler ==
    ASSUME Core, ServeInv, NEW t \in Session, Handler(t)
    PROVE  Promise'
<1>1. UNCHANGED <<jmVars, nodeVars, updateVars>>
  BY HandlerFrame
<1>2. /\ conn \in [Session -> {"new", "open", "closed"}]
      /\ authorized \in [Session -> BOOLEAN]
      /\ hpc \in [Session -> {"read", "load", "send"}]
      /\ held \in [Session -> [job : Job \cup {NoJob}, clean : BOOLEAN]]
      /\ overtaken \in [Session -> BOOLEAN]
      /\ work \in [Session -> SUBSET Job]
      /\ given \in [Session -> SUBSET Nat]
      /\ SessionInv
  BY DEF Core, DistTypeOK
<1> SUFFICES ASSUME NEW s \in Session,
                    conn'[s] = "open", authorized'[s], currentJob # NoJob
             PROVE  Served(s)'
  BY <1>1 DEF Promise, jmVars
<1>3. Unserved(s)' <=> Unserved(s)
  BY <1>1 DEF Unserved, updateVars
<1>4. /\ conn[s] = "open" /\ authorized[s] => Served(s)
      /\ WorkWasGiven(s)
  BY DEF ServeInv, Promise
<1>5. CASE s # t
  <2>1. /\ conn'[s] = conn[s] /\ authorized'[s] = authorized[s] /\ hpc'[s] = hpc[s]
        /\ held'[s] = held[s]
    BY <1>2, <1>5
    DEF Handler, Connect, Disconnect, Stall, Authorize, LoadCurrentJob,
        SubmitRetargets, SendHeld
  <2>2. work'[s] = work[s] /\ given'[s] = given[s] /\ overtaken'[s] = overtaken[s]
    BY <1>2, <1>5
    DEF Handler, Connect, Disconnect, Stall, Authorize, LoadCurrentJob,
        SubmitRetargets, SendHeld, Deliver, minerVars
  <2> QED
    BY <1>1, <1>3, <1>4, <2>1, <2>2 DEF Served, HasWork, jmVars
<1>6. CASE s = t
  <2>1. CASE Connect(s)
    BY <1>2, <2>1 DEF Connect, SessionInv
  <2>2. CASE Disconnect(s)
    BY <1>2, <2>2 DEF Disconnect
  <2>3. CASE Stall(s)
    BY <1>1, <1>3, <1>4, <2>3 DEF Stall, Served, HasWork, jmVars, minerVars
  <2>4. CASE Authorize(s)
    BY <1>2, <2>4 DEF Authorize, Served
  <2>5. CASE LoadCurrentJob(s)
    BY <1>1, <1>2, <2>5 DEF LoadCurrentJob, Served, jmVars
  <2>6. ASSUME NEW id \in given[s], SubmitRetargets(s, id)
        PROVE  Served(s)'
    BY <1>1, <1>3, <1>4, <2>6 DEF SubmitRetargets, Served, HasWork, jmVars, minerVars
  <2>7. CASE SendHeld(s)
    <3>1. conn[s] = "open" /\ authorized[s] /\ hpc[s] = "send"
      BY <2>7 DEF SendHeld
    <3>2. Deliver(s, held[s].job, held[s].clean)
      BY <2>7 DEF SendHeld
    <3>3. /\ held[s].job \in work'[s]
          /\ given[s] \subseteq given'[s]
          /\ held[s].clean \/ work[s] \subseteq work'[s]
      BY <1>4, <3>1, <3>2, DeliverGives
    <3>4. overtaken'[s] <=> held[s].job # currentJob /\ (overtaken[s] \/ held[s].clean)
      BY <1>2, <2>7 DEF SendHeld
    <3>5. UNCHANGED currentJob
      BY <1>1 DEF jmVars
    <3>6. CASE held[s].job = currentJob
      BY <3>3, <3>5, <3>6 DEF Served, HasWork
    <3>7. CASE held[s].job # currentJob
      <4>1. HasWork(s) \/ Unserved(s)
        BY <1>4, <3>1, <3>7 DEF Served
      <4>2. HasWork(s) => currentJob.id \in given[s]
        BY <1>4 DEF HasWork, WorkWasGiven
      <4>3. HasWork(s) => HasWork(s)'
        BY <3>3, <3>4, <3>5, <3>7, <4>2 DEF HasWork
      <4> QED
        BY <1>3, <4>1, <4>3 DEF Served
    <3> QED
      BY <3>6, <3>7
  <2> QED
    BY <1>6, <2>1, <2>2, <2>3, <2>4, <2>5, <2>6, <2>7 DEF Handler
<1> QED
  BY <1>5, <1>6

(* No authorized miner whose handler is idle lacks the current job in its  *)
(* work, unless the running broadcast is still on its way to it or its own *)
(* handler has replaced the work by a superseded job since the broadcast.  *)
THEOREM NoMissedJobCorrect == DistSpec => []NoMissedJob
<1>1. DistInit => ServeInv
  BY DEF DistInit, JMInit, ServeInv, Promise, WorkWasGiven
<1>2. ASSUME Core, ServeInv, [DistNext]_vars
      PROVE  ServeInv'
  <2>0. Promise
    BY <1>2 DEF ServeInv
  <2>1. ASSUME Node \/ UNCHANGED vars
        PROVE  Promise'
    <3>1. UNCHANGED <<jmVars, updateVars, sessionVars, minerVars>>
      BY <2>1, NodeFrame DEF vars
    <3>2. \A s \in Session : Served(s)' <=> Served(s)
      BY <3>1 DEF Served, HasWork, Unserved, jmVars, updateVars, sessionVars, minerVars
    <3> QED
      BY <2>0, <3>1, <3>2 DEF Promise, jmVars, sessionVars
  <2>2. Promise'
    BY <1>2, <2>1, ServedByUpdate, ServedByHandler DEF DistNext
  <2>3. \A s \in Session : WorkWasGiven(s)'
    BY <1>2, GivenStep
  <2> QED
    BY <2>2, <2>3 DEF ServeInv
<1>3. ServeInv => NoMissedJob
  BY DEF ServeInv, Promise, Served, NoMissedJob
<1> QED
  BY <1>1, <1>2, <1>3, CoreInvariant, PTL DEF DistSpec

-----------------------------------------------------------------------------
(* While a broadcast is on its way the miner's work may be stale, but     *)
(* only if that broadcast is a clean one.  The work of a session that is  *)
(* not open, or not authorized, is empty.                                 *)
CleanComing(s) ==
    \E r \in Refresher :
        /\ upc[r] = "snapshot" \/ (upc[r] = "send" /\ s \in unsent[r])
        /\ update[r].clean

OnCurrentBlock(s) == \A job \in work[s] : SameBlock(job.tmpl, currentJob.tmpl)

EmptyInv ==
    \A s \in Session :
        /\ conn[s] # "open" \/ ~authorized[s] => work[s] = {}
        /\ hpc[s] # "read" => authorized[s]

StaleInv == \A s \in Session : ~late[s] => OnCurrentBlock(s) \/ CleanComing(s)

LEMMA EmptyStep ==
    ASSUME Core, EmptyInv, [DistNext]_vars
    PROVE  EmptyInv'
<1>1. /\ conn \in [Session -> {"new", "open", "closed"}]
      /\ authorized \in [Session -> BOOLEAN]
      /\ hpc \in [Session -> {"read", "load", "send"}]
      /\ work \in [Session -> SUBSET Job]
      /\ SessionInv
  BY DEF Core, DistTypeOK
<1>2. CASE Node \/ UNCHANGED vars
  BY <1>2, NodeFrame DEF EmptyInv, vars, sessionVars, minerVars
<1>3. ASSUME NEW r \in Refresher, UpdateJob(r)
      PROVE  EmptyInv'
  <2>1. UNCHANGED sessionVars
    BY <1>3, UpdateFrame
  <2>2. CASE UNCHANGED work
    BY <2>1, <2>2 DEF EmptyInv, sessionVars
  <2>3. ASSUME NEW s \in Session, SendBroadcast(r, s), work' # work
        PROVE  EmptyInv'
    <3>1. authorized[s] /\ Deliver(s, update[r].job, update[r].clean)
      BY <2>3 DEF SendBroadcast, minerVars
    <3>2. conn[s] = "open"
      BY <2>3, <3>1 DEF Deliver
    <3>3. \A t \in Session : t # s => work'[t] = work[t]
      BY <1>1, <3>1, <3>2 DEF Deliver
    <3> QED
      BY <2>1, <3>1, <3>2, <3>3 DEF EmptyInv, sessionVars
  <2> QED
    BY <1>3, <2>2, <2>3
    DEF UpdateJob, Acquire, FetchOk, FetchFail, KeepJob, NewJob, Snapshot,
        StoreFingerprint, minerVars
<1>4. ASSUME NEW t \in Session, Handler(t)
      PROVE  EmptyInv'
  <2>1. CASE Connect(t)
    BY <1>1, <2>1 DEF Connect, EmptyInv, SessionInv, minerVars
  <2>2. CASE Disconnect(t)
    BY <1>1, <2>2 DEF Disconnect, EmptyInv
  <2>3. CASE Stall(t)
    BY <2>3 DEF Stall, EmptyInv, minerVars
  <2>4. CASE Authorize(t)
    BY <1>1, <2>4 DEF Authorize, EmptyInv, minerVars
  <2>5. CASE LoadCurrentJob(t)
    BY <1>1, <2>5 DEF LoadCurrentJob, EmptyInv, minerVars
  <2>6. ASSUME NEW id \in given[t], SubmitRetargets(t, id)
        PROVE  EmptyInv'
    BY <1>1, <2>6 DEF SubmitRetargets, EmptyInv, minerVars
  <2>7. CASE SendHeld(t)
    <3>1. authorized[t]
      BY <2>7 DEF SendHeld, EmptyInv
    <3>2. \A s \in Session : s # t => work'[s] = work[s] /\ hpc'[s] = hpc[s]
      BY <1>1, <2>7 DEF SendHeld, Deliver
    <3>3. conn[t] # "open" => work'[t] = work[t]
      BY <2>7 DEF SendHeld, Deliver
    <3>4. UNCHANGED <<conn, authorized>>
      BY <2>7 DEF SendHeld
    <3> QED
      BY <3>1, <3>2, <3>3, <3>4 DEF EmptyInv
  <2> QED
    BY <1>4, <2>1, <2>2, <2>3, <2>4, <2>5, <2>6, <2>7 DEF Handler
<1> QED
  BY <1>2, <1>3, <1>4 DEF DistNext

LEMMA StaleByUpdate ==
    ASSUME Core, EmptyInv, StaleInv, NEW r \in Refresher, UpdateJob(r)
    PROVE  StaleInv'
<1>1. /\ upc \in [Refresher -> {"idle", "fetch", "decide", "snapshot", "send"}]
      /\ unsent \in [Refresher -> SUBSET Session]
      /\ update \in [Refresher -> [tmpl : Template \cup {NoTemplate},
                                   job : Job \cup {NoJob}, clean : BOOLEAN]]
      /\ work \in [Session -> SUBSET Job]
      /\ late \in [Session -> BOOLEAN]
  BY DEF Core, DistTypeOK
<1> SUFFICES ASSUME NEW s \in Session, ~late'[s]
             PROVE  OnCurrentBlock(s)' \/ CleanComing(s)'
  BY DEF StaleInv
<1>2. CASE Acquire(r) \/ FetchOk(r) \/ FetchFail(r) \/ KeepJob(r)
  <2>1. UNCHANGED <<jmVars, unsent, minerVars>>
        /\ upc[r] \notin {"snapshot", "send"}
        /\ \A q \in Refresher : q # r => upc'[q] = upc[q] /\ update'[q] = update[q]
    BY <1>1, <1>2 DEF Acquire, FetchOk, FetchFail, KeepJob, Return, Goto
  <2>2. CleanComing(s) => CleanComing(s)'
    BY <2>1 DEF CleanComing
  <2>3. OnCurrentBlock(s) => OnCurrentBlock(s)'
    BY <2>1 DEF OnCurrentBlock, jmVars, minerVars
  <2>4. ~late[s]
    BY <2>1 DEF minerVars
  <2> QED
    BY <2>2, <2>3, <2>4 DEF StaleInv
<1>3. CASE NewJob(r)
  <2>1. /\ upc[r] = "decide" /\ upc'[r] = "snapshot"
        /\ update'[r].clean = CleanJobs(update[r].tmpl)
        /\ currentJob'.tmpl = update[r].tmpl
        /\ UNCHANGED minerVars
    BY <1>1, <1>3 DEF NewJob, Goto, CreateJob
  <2>2. CASE CleanJobs(update[r].tmpl)
    BY <2>1, <2>2 DEF CleanComing
  <2>3. CASE ~CleanJobs(update[r].tmpl)
    <3>1. SameBlock(update[r].tmpl, currentJob.tmpl)
      BY <2>3 DEF CleanJobs
    <3>2. ~CleanComing(s)
      BY <2>1, OthersIdle DEF CleanComing
    <3>3. OnCurrentBlock(s)
      BY <2>1, <3>2 DEF StaleInv, minerVars
    <3> QED
      BY <2>1, <3>1, <3>3 DEF OnCurrentBlock, SameBlock, minerVars
  <2> QED
    BY <2>2, <2>3
<1>4. CASE Snapshot(r)
  <2>1. UNCHANGED <<jmVars, update, minerVars>> /\ upc[r] = "snapshot" /\ upc'[r] = "send"
        /\ unsent'[r] = {t \in Session : conn[t] = "open"}
        /\ \A q \in Refresher : q # r => upc'[q] = upc[q] /\ unsent'[q] = unsent[q]
    BY <1>1, <1>4 DEF Snapshot, Goto
  <2>2. CASE conn[s] # "open"
    BY <2>1, <2>2 DEF EmptyInv, OnCurrentBlock, minerVars
  <2>3. CASE conn[s] = "open"
    <3>1. CleanComing(s) => CleanComing(s)'
      BY <2>1, <2>3 DEF CleanComing
    <3> QED
      BY <2>1, <3>1 DEF StaleInv, OnCurrentBlock, jmVars, minerVars
  <2> QED
    BY <2>2, <2>3
<1>5. ASSUME NEW t \in Session, SendBroadcast(r, t)
      PROVE  OnCurrentBlock(s)' \/ CleanComing(s)'
  <2>1. /\ upc[r] = "send" /\ UNCHANGED <<jmVars, upc, update>>
        /\ unsent' = [unsent EXCEPT ![r] = @ \ {t}]
        /\ update[r].job = currentJob
    BY <1>5 DEF SendBroadcast, Core, CarryInv
  <2>2. \A q \in Refresher : q # r => upc[q] = "idle"
    BY <2>1, OthersIdle
  <2>3. CASE t # s
    <3>1. work'[s] = work[s] /\ late'[s] = late[s]
      BY <1>1, <1>5, <2>3 DEF SendBroadcast, Deliver, minerVars
    <3>2. CleanComing(s) => CleanComing(s)'
      BY <1>1, <2>1, <2>3 DEF CleanComing
    <3> QED
      BY <2>1, <3>1, <3>2 DEF StaleInv, OnCurrentBlock, jmVars
  <2>4. CASE t = s /\ (~authorized[s] \/ conn[s] # "open")
    <3>1. work'[s] = {}
      BY <1>5, <2>4 DEF SendBroadcast, Deliver, EmptyInv, minerVars
    <3> QED
      BY <3>1 DEF OnCurrentBlock
  <2>5. CASE t = s /\ authorized[s] /\ conn[s] = "open"
    <3>1. /\ work' = [work EXCEPT ![s] = IF update[r].clean THEN {currentJob}
                                        ELSE @ \cup {currentJob}]
          /\ late' = [late EXCEPT ![s] = @ /\ ~update[r].clean]
      BY <1>5, <2>1, <2>5 DEF SendBroadcast, Deliver
    <3>2. CASE update[r].clean
      BY <1>1, <2>1, <3>1, <3>2 DEF OnCurrentBlock, SameBlock, jmVars
    <3>3. CASE ~update[r].clean
      <4>1. ~CleanComing(s)
        BY <2>2, <3>3 DEF CleanComing
      <4>2. OnCurrentBlock(s)
        BY <1>1, <3>1, <3>3, <4>1 DEF StaleInv
      <4> QED
        BY <1>1, <2>1, <3>1, <3>3, <4>2 DEF OnCurrentBlock, SameBlock, jmVars
    <3> QED
      BY <3>2, <3>3
  <2> QED
    BY <2>3, <2>4, <2>5
<1>6. CASE StoreFingerprint(r)
  <2>1. UNCHANGED <<jmVars, unsent, minerVars>> /\ unsent[r] = {} /\ upc[r] = "send"
        /\ \A q \in Refresher : q # r => upc'[q] = upc[q] /\ update'[q] = update[q]
    BY <1>1, <1>6 DEF StoreFingerprint, Return, Goto
  <2>2. CleanComing(s) => CleanComing(s)'
    BY <2>1 DEF CleanComing
  <2> QED
    BY <2>1, <2>2 DEF StaleInv, OnCurrentBlock, jmVars, minerVars
<1> QED
  BY <1>2, <1>3, <1>4, <1>5, <1>6 DEF UpdateJob

LEMMA StaleByHandler ==
    ASSUME Core, StaleInv, NEW t \in Session, Handler(t)
    PROVE  StaleInv'
<1>1. UNCHANGED <<jmVars, nodeVars, updateVars>>
  BY HandlerFrame
<1>2. work \in [Session -> SUBSET Job] /\ late \in [Session -> BOOLEAN]
  BY DEF Core, DistTypeOK
<1> SUFFICES ASSUME NEW s \in Session, ~late'[s]
             PROVE  OnCurrentBlock(s)' \/ CleanComing(s)'
  BY DEF StaleInv
<1>3. CleanComing(s)' <=> CleanComing(s)
  BY <1>1 DEF CleanComing, updateVars
<1>4. ASSUME work'[s] \subseteq work[s], late'[s] = late[s]
      PROVE  OnCurrentBlock(s)' \/ CleanComing(s)'
  BY <1>1, <1>3, <1>4 DEF StaleInv, OnCurrentBlock, jmVars
<1>5. CASE UNCHANGED minerVars
  BY <1>4, <1>5 DEF minerVars
<1>6. CASE Disconnect(t)
  BY <1>2, <1>4, <1>6 DEF Disconnect
<1>7. CASE SendHeld(t)
  <2>1. /\ late' = [late EXCEPT ![t] = @ \/ held[t].job # currentJob]
        /\ \/ work' = work
           \/ work' = [work EXCEPT ![t] = IF held[t].clean THEN {held[t].job}
                                         ELSE @ \cup {held[t].job}]
    BY <1>7 DEF SendHeld, Deliver
  <2>2. CASE s # t
    <3>1. late'[s] = late[s] /\ work'[s] = work[s]
      BY <1>2, <2>1, <2>2
    <3> QED
      BY <1>4, <3>1
  <2>3. CASE s = t
    <3>1. late'[s] = (late[s] \/ held[s].job # currentJob)
      BY <1>2, <2>1, <2>3
    <3>2. held[s].job = currentJob /\ ~late[s]
      BY <3>1
    <3>3. work'[s] \subseteq work[s] \cup {currentJob}
      BY <1>2, <2>1, <2>3, <3>2
    <3>4. OnCurrentBlock(s) \/ CleanComing(s)
      BY <3>2 DEF StaleInv
    <3> QED
      BY <1>1, <1>3, <3>3, <3>4 DEF OnCurrentBlock, SameBlock, jmVars
  <2> QED
    BY <2>2, <2>3
<1> QED
  BY <1>5, <1>6, <1>7
  DEF Handler, Connect, Stall, Authorize, LoadCurrentJob, SubmitRetargets

(* Between broadcasts, a miner to whom no handler sent superseded work    *)
(* since the last clean broadcast works on the current block only.        *)
THEOREM NoStaleWorkCorrect == DistSpec => []NoStaleWork
<1>1. DistInit => EmptyInv /\ StaleInv
  BY DEF DistInit, EmptyInv, StaleInv, OnCurrentBlock
<1>2. ASSUME Core, EmptyInv, StaleInv, [DistNext]_vars
      PROVE  EmptyInv' /\ StaleInv'
  <2>1. EmptyInv'
    BY <1>2, EmptyStep
  <2>2. ASSUME UNCHANGED <<jmVars, updateVars, minerVars>>
        PROVE  StaleInv'
    <3>1. ASSUME NEW s \in Session
          PROVE  /\ OnCurrentBlock(s)' <=> OnCurrentBlock(s)
                 /\ CleanComing(s)' <=> CleanComing(s)
                 /\ late'[s] = late[s]
      BY <2>2 DEF OnCurrentBlock, CleanComing, jmVars, updateVars, minerVars
    <3> QED
      BY <1>2, <3>1 DEF StaleInv
  <2>3. CASE Node
    BY <2>1, <2>2, <2>3, NodeFrame
  <2>4. CASE UNCHANGED vars
    BY <2>1, <2>2, <2>4 DEF vars
  <2> QED
    BY <1>2, <2>1, <2>3, <2>4, StaleByUpdate, StaleByHandler DEF DistNext
<1>3. StaleInv => NoStaleWork
  BY DEF StaleInv, OnCurrentBlock, CleanComing, Unserved, NoStaleWork
<1> QED
  BY <1>1, <1>2, <1>3, CoreInvariant, PTL DEF DistSpec

-----------------------------------------------------------------------------
(* A broadcast of a refreshed template keeps the work on the same block.   *)
(* The argument: the node's tips come one after the other, so two          *)
(* templates with the same previous block have the same height, a job      *)
(* never lies on a later tip than the current one, and when a job is       *)
(* broadcast with clean_jobs every other job lies on an earlier tip.       *)
(* The composed system drives the job manager only through CreateJob.     *)
THEOREM DistImplementsJobManager == DistSpec => JMSpec
<1>1. DistInit => JMInit
  BY DEF DistInit
<1>2. ASSUME Core, [DistNext]_vars
      PROVE  [JMNext]_jmVars
  <2>1. ASSUME NEW r \in Refresher, NewJob(r)
        PROVE  JMNext
    <3>1. update[r].tmpl \in Template
      BY <1>2, <2>1 DEF Core, CarryInv, NewJob, Goto
    <3> QED
      BY <2>1, <3>1 DEF NewJob, JMNext
  <2> QED
    BY <1>2, <2>1, NodeFrame, HandlerFrame, JobManagerFrame DEF DistNext, vars
<1> QED
  BY <1>1, <1>2, CoreInvariant, PTL DEF DistSpec, JMSpec

(* So the ids of the jobs that miners quote stay unambiguous.             *)
THEOREM DistIdsAreNeverReused == DistSpec => IdsAreNeverReused
  BY DistImplementsJobManager, IdsAreNeverReusedCorrect, PTL

-----------------------------------------------------------------------------
(* The jobs a miner may be given or may still be working on.              *)
InPlay(j) ==
    \/ \E k \in DOMAIN jobMap : j = jobMap[k]
    \/ \E s \in Session : j \in work[s]
    \/ \E s \in Session : hpc[s] = "send" /\ j = held[s].job

(* The templates the pool still carries, and the node's.                  *)
Carried(t) ==
    \/ t = nodeTmpl
    \/ \E r \in Refresher : upc[r] \in {"decide", "snapshot", "send"} /\ t = update[r].tmpl
    \/ \E j \in Job : InPlay(j) /\ t = j.tmpl

LEMMA CurrentInPlay ==
    ASSUME Core, currentJob # NoJob
    PROVE  currentJob \in Job /\ InPlay(currentJob)
<1>1. currentJob \in Job
  BY JobsAreNotNoJob DEF Core, DistTypeOK, JMTypeOK
<1>2. \E k \in DOMAIN jobMap : currentJob = jobMap[k]
  BY DEF Core, JMInv, JobWindow, GetJob
<1> QED
  BY <1>1, <1>2 DEF InPlay

LEMMA DeliverKeeps ==
    ASSUME Core, NEW s \in Session, NEW job, NEW clean, Deliver(s, job, clean)
    PROVE  \A t \in Session : \A j \in work'[t] : j \in work[t] \/ j = job
<1>1. work \in [Session -> SUBSET Job]
  BY DEF Core, DistTypeOK
<1>2. \/ work' = work
      \/ work' = [work EXCEPT ![s] = IF clean THEN {job} ELSE work[s] \cup {job}]
  BY DEF Deliver
<1> QED
  BY <1>1, <1>2

(* Only NewJob brings a job into play.                                    *)
LEMMA InPlayByHandler ==
    ASSUME Core, NEW s \in Session, Handler(s), NEW j \in Job, InPlay(j)'
    PROVE  InPlay(j)
<1>1. UNCHANGED jobMap /\ UNCHANGED currentJob
  BY HandlerFrame DEF jmVars
<1>2. /\ work \in [Session -> SUBSET Job]
      /\ held \in [Session -> [job : Job \cup {NoJob}, clean : BOOLEAN]]
      /\ hpc \in [Session -> {"read", "load", "send"}]
  BY DEF Core, DistTypeOK
<1>3. ASSUME UNCHANGED work,
             \A t \in Session : hpc'[t] = "send"
                => hpc[t] = "send" /\ held'[t] = held[t]
      PROVE  InPlay(j)
  BY <1>1, <1>3 DEF InPlay
<1>4. CASE Connect(s) \/ Stall(s) \/ Authorize(s)
  BY <1>2, <1>3, <1>4 DEF Connect, Stall, Authorize, minerVars
<1>5. CASE Disconnect(s)
  BY <1>1, <1>2, <1>5 DEF Disconnect, InPlay
<1>6. CASE LoadCurrentJob(s)
  <2>1. CASE currentJob = NoJob
    BY <1>2, <1>3, <1>6, <2>1 DEF LoadCurrentJob, minerVars
  <2>2. CASE currentJob # NoJob
    <3>1. /\ work' = work
          /\ \A t \in Session : hpc'[t] = "send" =>
                held'[t].job = currentJob \/ (hpc[t] = "send" /\ held'[t] = held[t])
      BY <1>2, <1>6, <2>2 DEF LoadCurrentJob, minerVars
    <3> QED
      BY <1>1, <2>2, <3>1, CurrentInPlay DEF InPlay
  <2> QED
    BY <2>1, <2>2
<1>7. ASSUME NEW id \in given[s], SubmitRetargets(s, id)
      PROVE  InPlay(j)
  <2>1. \E k \in DOMAIN jobMap : GetJob(id) = jobMap[k]
    BY <1>7 DEF SubmitRetargets, GetJob
  <2>2. /\ work' = work
        /\ \A t \in Session : hpc'[t] = "send" =>
              held'[t].job = GetJob(id) \/ (hpc[t] = "send" /\ held'[t] = held[t])
    BY <1>2, <1>7 DEF SubmitRetargets, minerVars
  <2> QED
    BY <1>1, <2>1, <2>2 DEF InPlay
<1>8. CASE SendHeld(s)
  <2>1. hpc[s] = "send" /\ \A t \in Session : \A x \in work'[t] :
                              x \in work[t] \/ x = held[s].job
    BY <1>8, DeliverKeeps DEF SendHeld
  <2>2. \A t \in Session : hpc'[t] = "send" => hpc[t] = "send" /\ held'[t] = held[t]
    BY <1>2, <1>8 DEF SendHeld
  <2> QED
    BY <1>1, <2>1, <2>2 DEF InPlay
<1> QED
  BY <1>4, <1>5, <1>6, <1>7, <1>8 DEF Handler

LEMMA InPlayByUpdate ==
    ASSUME Core, NEW r \in Refresher, UpdateJob(r), NEW j \in Job, InPlay(j)'
    PROVE  InPlay(j) \/ (NewJob(r) /\ j = currentJob')
<1>1. UNCHANGED <<hpc, held>>
  BY UpdateFrame DEF sessionVars
<1>2. ASSUME NEW s \in Session, SendBroadcast(r, s)
      PROVE  InPlay(j)
  <2>1. update[r].job = currentJob /\ currentJob # NoJob /\ UNCHANGED jobMap
    BY <1>2 DEF SendBroadcast, Core, CarryInv, jmVars
  <2>2. \A t \in Session : \A x \in work'[t] : x \in work[t] \/ x = currentJob
    BY <1>2, <2>1, DeliverKeeps DEF SendBroadcast, minerVars
  <2> QED
    BY <1>1, <2>1, <2>2, CurrentInPlay DEF InPlay
<1>3. CASE NewJob(r)
  <2>1. UNCHANGED work
    BY <1>3 DEF NewJob, minerVars
  <2>2. \A k \in DOMAIN jobMap' : jobMap'[k] = currentJob'
                                  \/ (k \in DOMAIN jobMap /\ jobMap'[k] = jobMap[k])
    BY <1>3 DEF NewJob, CreateJob, Newest
  <2> QED
    BY <1>1, <1>3, <2>1, <2>2 DEF InPlay
<1>4. ASSUME ~NewJob(r), \A s \in Session : ~SendBroadcast(r, s)
      PROVE  InPlay(j)
  <2>1. UNCHANGED <<work, jobMap>>
    BY <1>4 DEF UpdateJob, Acquire, FetchOk, FetchFail, KeepJob, Snapshot,
                StoreFingerprint, minerVars, jmVars
  <2> QED
    BY <1>1, <2>1 DEF InPlay
<1> QED
  BY <1>2, <1>3, <1>4

-----------------------------------------------------------------------------
(* The tips of the node in the order it had them.                         *)
TipInv ==
    /\ \A t, u \in Template : Carried(t) /\ Carried(u) /\ t.prev = u.prev
                                => t.height = u.height
    /\ \A t \in Template : Carried(t) => t.prev <= nodeTmpl.prev

(* No job lies on a later tip than the current one, nor the current one   *)
(* than a fetched template.                                               *)
AgeInv ==
    /\ \A j \in Job : InPlay(j) => /\ currentJob # NoJob
                                   /\ j.tmpl.prev <= currentJob.tmpl.prev
    /\ \A r \in Refresher : upc[r] = "decide" /\ currentJob # NoJob
                                => currentJob.tmpl.prev <= update[r].tmpl.prev

(* While a clean job is broadcast all other jobs lie on earlier tips.     *)
FlushInv ==
    \A r \in Refresher :
        upc[r] \in {"snapshot", "send"} /\ update[r].clean
            => \A j \in Job : InPlay(j) => \/ j = currentJob
                                         \/ j.tmpl.prev < currentJob.tmpl.prev

ChainInv == TipInv /\ AgeInv /\ FlushInv

LEMMA TipFields ==
    /\ \A t \in Template : t.prev \in Nat /\ t.height \in Nat
    /\ \A j \in Job : j.tmpl \in Template /\ j.tmpl.prev \in Nat /\ j.tmpl.height \in Nat
<1>1. \A t \in Template : t.prev \in Nat /\ t.height \in Nat
  BY DistributionAssumption
<1> QED
  BY <1>1 DEF Job

LEMMA CurrentCarried ==
    ASSUME Core, currentJob # NoJob
    PROVE  currentJob.tmpl \in Template /\ Carried(currentJob.tmpl)
  BY CurrentInPlay, TipFields DEF Carried

(* Where refresher r stands after a step of its own, and what it fetched. *)
LEMMA UpdateMoves ==
    ASSUME Core, NEW r \in Refresher, UpdateJob(r)
    PROVE  /\ \A q \in Refresher : q # r => upc'[q] = upc[q] /\ update'[q] = update[q]
           /\ upc'[r] = "decide" => FetchOk(r) /\ update'[r].tmpl = nodeTmpl
           /\ upc'[r] \in {"snapshot", "send"} =>
                 \/ NewJob(r) /\ upc[r] = "decide" /\ update'[r].tmpl = update[r].tmpl
                      /\ update'[r].clean = CleanJobs(update[r].tmpl)
                 \/ ~NewJob(r) /\ upc[r] \in {"snapshot", "send"}
                      /\ update'[r] = update[r]
<1>1. /\ upc \in [Refresher -> {"idle", "fetch", "decide", "snapshot", "send"}]
      /\ update \in [Refresher -> [tmpl : Template \cup {NoTemplate},
                                    job : Job \cup {NoJob}, clean : BOOLEAN]]
  BY DEF Core, DistTypeOK
<1>2. CASE Acquire(r)
  BY <1>1, <1>2 DEF Acquire, Goto
<1>3. CASE FetchOk(r)
  BY <1>1, <1>3 DEF FetchOk, Goto
<1>4. CASE FetchFail(r) \/ KeepJob(r) \/ StoreFingerprint(r)
  BY <1>1, <1>4 DEF FetchFail, KeepJob, StoreFingerprint, Return, Goto
<1>5. CASE NewJob(r)
  BY <1>1, <1>5 DEF NewJob, Goto
<1>6. CASE Snapshot(r)
  BY <1>1, <1>6 DEF Snapshot, NewJob, Goto
<1>7. ASSUME NEW s \in Session, SendBroadcast(r, s)
      PROVE  upc' = upc /\ update' = update /\ upc[r] = "send" /\ ~NewJob(r)
  BY <1>1, <1>7 DEF SendBroadcast, NewJob, Goto
<1> QED
  BY <1>2, <1>3, <1>4, <1>5, <1>6, <1>7 DEF UpdateJob

-----------------------------------------------------------------------------
LEMMA ChainByNode ==
    ASSUME Core, ChainInv, Node
    PROVE  ChainInv'
<1>1. UNCHANGED <<jobCounter, currentJob, jobMap, upc, update, hpc, held, work>>
  BY NodeFrame DEF jmVars, updateVars, sessionVars, minerVars
<1>2. \A j : InPlay(j)' <=> InPlay(j)
  BY <1>1 DEF InPlay
<1>3. /\ nodeTmpl \in Template /\ nodeTmpl' \in Template
      /\ \/ nodeTmpl'.prev = nodeTmpl.prev /\ nodeTmpl'.height = nodeTmpl.height
         \/ nodeTmpl'.prev = nodeTmpl.prev + 1
  BY DEF Core, DistTypeOK, Node, NewBlock, Reorganise, NewTip, RefreshTemplate, NodeStep
<1>4. \A t : Carried(t)' => Carried(t) \/ t = nodeTmpl'
  BY <1>1, <1>2 DEF Carried
<1>5. Carried(nodeTmpl)
  BY DEF Carried
<1>6. \A t \in Template : Carried(t)' => t.prev <= nodeTmpl'.prev
  BY <1>3, <1>4, TipFields DEF ChainInv, TipInv
<1>7. ASSUME NEW t \in Template, NEW u \in Template, Carried(t), u = nodeTmpl',
             t.prev = u.prev
      PROVE  t.height = u.height
  <2>1. t.prev <= nodeTmpl.prev
    BY <1>7 DEF ChainInv, TipInv
  <2>2. u.prev = nodeTmpl.prev /\ u.height = nodeTmpl.height
    BY <1>3, <1>7, <2>1, TipFields
  <2> QED
    BY <1>3, <1>5, <1>7, <2>2 DEF ChainInv, TipInv
<1>8. TipInv'
  <2> SUFFICES ASSUME NEW t \in Template, NEW u \in Template,
                      Carried(t)', Carried(u)', t.prev = u.prev
               PROVE  t.height = u.height
    BY <1>6 DEF TipInv
  <2> QED
    BY <1>4, <1>7 DEF ChainInv, TipInv
<1>9. AgeInv' /\ FlushInv'
  BY <1>1, <1>2 DEF ChainInv, AgeInv, FlushInv
<1> QED
  BY <1>8, <1>9 DEF ChainInv

(* A step that carries no new template and no new job.                    *)
LEMMA ChainByHandler ==
    ASSUME Core, ChainInv, NEW s \in Session, Handler(s)
    PROVE  ChainInv'
<1>1. UNCHANGED <<currentJob, nodeTmpl, upc, update>>
  BY HandlerFrame DEF jmVars, nodeVars, updateVars
<1>2. \A j \in Job : InPlay(j)' => InPlay(j)
  BY InPlayByHandler
<1>3. \A t : Carried(t)' => Carried(t)
  BY <1>1, <1>2 DEF Carried
<1>4. TipInv'
  BY <1>1, <1>3 DEF ChainInv, TipInv
<1>5. AgeInv' /\ FlushInv'
  BY <1>1, <1>2 DEF ChainInv, AgeInv, FlushInv
<1> QED
  BY <1>4, <1>5 DEF ChainInv

LEMMA TipsByUpdate ==
    ASSUME Core, ChainInv, NEW r \in Refresher, UpdateJob(r)
    PROVE  TipInv'
<1>1. nodeTmpl' = nodeTmpl
  BY UpdateFrame
<1>2. ASSUME NEW t, Carried(t)'
      PROVE  Carried(t)
  <2>1. CASE t = nodeTmpl'
    BY <1>1, <2>1 DEF Carried
  <2>2. ASSUME NEW q \in Refresher, upc'[q] \in {"decide", "snapshot", "send"},
               t = update'[q].tmpl
        PROVE  Carried(t)
    BY <2>2, UpdateMoves DEF Carried
  <2>3. ASSUME NEW j \in Job, InPlay(j)', t = j.tmpl
        PROVE  Carried(t)
    <3>1. CASE InPlay(j)
      BY <2>3, <3>1 DEF Carried
    <3>2. CASE NewJob(r) /\ j = currentJob'
      <4>1. t = update[r].tmpl /\ upc[r] = "decide"
        BY <2>3, <3>2 DEF NewJob, CreateJob, Goto
      <4> QED
        BY <4>1 DEF Carried
    <3> QED
      BY <2>3, <3>1, <3>2, InPlayByUpdate
  <2> QED
    BY <1>2, <2>1, <2>2, <2>3 DEF Carried
<1> QED
  BY <1>1, <1>2 DEF ChainInv, TipInv

(* Every job in play when a job is made lies on the new job's tip or on   *)
(* an earlier one, and on an earlier one if the job is to be clean.       *)
LEMMA NewJobIsLatest ==
    ASSUME Core, ChainInv, NEW r \in Refresher, NewJob(r), NEW j \in Job, InPlay(j)
    PROVE  /\ j.tmpl.prev <= update[r].tmpl.prev
           /\ CleanJobs(update[r].tmpl) => j.tmpl.prev < update[r].tmpl.prev
<1>1. /\ upc[r] = "decide" /\ update[r].tmpl \in Template
      /\ currentJob # NoJob /\ currentJob \in Job
      /\ j.tmpl.prev <= currentJob.tmpl.prev
      /\ currentJob.tmpl.prev <= update[r].tmpl.prev
  BY CurrentInPlay DEF NewJob, Goto, Core, CarryInv, ChainInv, AgeInv
<1>2. /\ update[r].tmpl.prev \in Nat /\ currentJob.tmpl.prev \in Nat
      /\ j.tmpl.prev \in Nat
  BY <1>1, TipFields
<1>3. ASSUME CleanJobs(update[r].tmpl)
      PROVE  currentJob.tmpl.prev # update[r].tmpl.prev
  <2>1. Carried(update[r].tmpl)
    BY <1>1 DEF Carried
  <2>2. currentJob.tmpl \in Template /\ Carried(currentJob.tmpl)
    BY <1>1, CurrentCarried
  <2> QED
    BY <1>1, <1>3, <2>1, <2>2 DEF CleanJobs, SameBlock, ChainInv, TipInv
<1> QED
  BY <1>1, <1>2, <1>3

LEMMA ChainByUpdate ==
    ASSUME Core, ChainInv, NEW r \in Refresher, UpdateJob(r)
    PROVE  ChainInv'
<1>1. TipInv'
  BY TipsByUpdate
<1>2. CASE NewJob(r)
  <2>1. /\ currentJob'.tmpl = update[r].tmpl /\ update[r].tmpl \in Template
        /\ currentJob' # NoJob /\ upc[r] = "decide" /\ upc'[r] = "snapshot"
        /\ update'[r].clean = CleanJobs(update[r].tmpl)
    <3>1. /\ upc[r] = "decide" /\ upc'[r] = "snapshot"
          /\ currentJob' = [id |-> jobCounter + 1, tmpl |-> update[r].tmpl]
          /\ jobCounter \in Nat /\ update[r].tmpl \in Template
          /\ update'[r].clean = CleanJobs(update[r].tmpl)
      BY <1>2 DEF NewJob, CreateJob, Goto, Core, CarryInv, DistTypeOK, JMTypeOK
    <3> QED
      BY <3>1, JobsAreNotNoJob
  <2>2. \A q \in Refresher : q # r => upc'[q] = "idle"
    BY <2>1, OthersIdle, UpdateMoves
  <2>3. \A j \in Job : InPlay(j)' => InPlay(j) \/ j = currentJob'
    BY InPlayByUpdate
  <2>4. AgeInv'
    <3>1. ASSUME NEW j \in Job, InPlay(j)'
          PROVE  j.tmpl.prev <= currentJob'.tmpl.prev
      BY <1>2, <2>1, <2>3, <3>1, NewJobIsLatest, TipFields
    <3>2. \A q \in Refresher : upc'[q] # "decide"
      BY <2>1, <2>2
    <3> QED
      BY <2>1, <3>1, <3>2 DEF AgeInv
  <2>5. FlushInv'
    <3>1. ASSUME CleanJobs(update[r].tmpl), NEW j \in Job, InPlay(j)', j # currentJob'
          PROVE  j.tmpl.prev < currentJob'.tmpl.prev
      BY <1>2, <2>1, <2>3, <3>1, NewJobIsLatest
    <3> QED
      BY <2>1, <2>2, <3>1 DEF FlushInv
  <2> QED
    BY <1>1, <2>4, <2>5 DEF ChainInv
<1>3. CASE ~NewJob(r)
  <2>1. currentJob' = currentJob
    BY <1>3, JobManagerFrame DEF jmVars
  <2>2. \A j \in Job : InPlay(j)' => InPlay(j)
    BY <1>3, InPlayByUpdate
  <2>3. AgeInv'
    <3>1. ASSUME NEW q \in Refresher, upc'[q] = "decide", currentJob # NoJob
          PROVE  currentJob.tmpl.prev <= update'[q].tmpl.prev
      <4>1. CASE q = r
        BY <3>1, <4>1, UpdateMoves, CurrentCarried DEF ChainInv, TipInv
      <4>2. CASE q # r
        BY <3>1, <4>2, UpdateMoves DEF ChainInv, AgeInv
      <4> QED
        BY <4>1, <4>2
    <3> QED
      BY <2>1, <2>2, <3>1 DEF ChainInv, AgeInv
  <2>4. FlushInv'
    <3>1. \A q \in Refresher : upc'[q] \in {"snapshot", "send"}
             => upc[q] \in {"snapshot", "send"} /\ update'[q] = update[q]
      BY <1>3, UpdateMoves
    <3> QED
      BY <2>1, <2>2, <3>1 DEF ChainInv, FlushInv
  <2> QED
    BY <1>1, <2>3, <2>4 DEF ChainInv
<1> QED
  BY <1>2, <1>3

LEMMA ChainInvariant == DistSpec => []ChainInv
<1>1. DistInit => ChainInv
  <2> SUFFICES ASSUME DistInit PROVE ChainInv
    OBVIOUS
  <2>1. \A j : ~InPlay(j)
    BY DEF DistInit, JMInit, InPlay
  <2>2. \A t : Carried(t) => t = nodeTmpl
    BY <2>1 DEF DistInit, Carried
  <2>3. \A r \in Refresher : upc[r] = "idle"
    BY DEF DistInit
  <2>4. nodeTmpl \in Template
    BY DEF DistInit
  <2> QED
    BY <2>1, <2>2, <2>3, <2>4, TipFields DEF ChainInv, TipInv, AgeInv, FlushInv
<1>2. ASSUME Core, ChainInv, UNCHANGED vars
      PROVE  ChainInv'
  <2>1. UNCHANGED <<jobMap, currentJob, nodeTmpl, upc, update, hpc, held, work>>
    BY <1>2 DEF vars, jmVars, nodeVars, updateVars, sessionVars, minerVars
  <2>2. \A j : InPlay(j)' <=> InPlay(j)
    BY <2>1 DEF InPlay
  <2>3. \A t : Carried(t)' <=> Carried(t)
    BY <2>1, <2>2 DEF Carried
  <2> QED
    BY <1>2, <2>1, <2>2, <2>3 DEF ChainInv, TipInv, AgeInv, FlushInv
<1>3. Core /\ ChainInv /\ [DistNext]_vars => ChainInv'
  BY <1>2, ChainByNode, ChainByHandler, ChainByUpdate DEF DistNext
<1> QED
  BY <1>1, <1>3, CoreInvariant, PTL DEF DistSpec

(* No broadcast makes a miner drop work on the block it is mining: with   *)
(* clean_jobs everything it drops lies on an earlier tip, without it      *)
(* nothing is dropped.                                                    *)
THEOREM BroadcastKeepsWorkCorrect == DistSpec => BroadcastKeepsWork
<1> DEFINE Keeps == \A s \in Session : broadcast'[s] # broadcast[s] => ~DropsLiveWork(s)
<1>1. ASSUME Core, ChainInv, NEW r \in Refresher, NEW t \in Session, SendBroadcast(r, t),
             NEW s \in Session, broadcast'[s] # broadcast[s]
      PROVE  ~DropsLiveWork(s)
  <2>1. /\ broadcast \in [Session -> Nat] /\ work \in [Session -> SUBSET Job]
        /\ upc[r] = "send" /\ update[r].job = currentJob /\ currentJob # NoJob
    BY <1>1 DEF Core, DistTypeOK, CarryInv, SendBroadcast
  <2>2. s = t
    BY <1>1, <2>1 DEF SendBroadcast, minerVars
  <2>3. work'[s] = work[s] \/ work'[s] = (IF update[r].clean THEN {currentJob}
                                           ELSE work[s] \cup {currentJob})
    BY <1>1, <2>1, <2>2 DEF SendBroadcast, Deliver, minerVars
  <2>4. ASSUME NEW job \in work[s] \ work'[s]
        PROVE  ~SameBlock(job.tmpl, currentJob.tmpl)
    <3>1. update[r].clean /\ job # currentJob /\ job \in Job /\ InPlay(job)
      BY <2>1, <2>3, <2>4 DEF InPlay
    <3>2. job.tmpl.prev < currentJob.tmpl.prev
      BY <1>1, <2>1, <3>1 DEF ChainInv, FlushInv
    <3>3. job.tmpl.prev \in Nat /\ currentJob.tmpl.prev \in Nat
      BY <1>1, <2>1, <3>1, CurrentInPlay, TipFields
    <3> QED
      BY <3>2, <3>3 DEF SameBlock
  <2> QED
    BY <2>4 DEF DropsLiveWork
<1>2. ASSUME Core, [DistNext]_vars,
             \A r \in Refresher, t \in Session : ~SendBroadcast(r, t)
      PROVE  broadcast' = broadcast
  <2>1. CASE Node \/ UNCHANGED vars
    BY <2>1, NodeFrame DEF minerVars, vars
  <2>2. ASSUME NEW t \in Session, Handler(t)
        PROVE  broadcast' = broadcast
    BY <2>2 DEF Handler, Connect, Disconnect, Stall, Authorize, LoadCurrentJob,
                SubmitRetargets, SendHeld, minerVars
  <2>3. ASSUME NEW r \in Refresher, UpdateJob(r)
        PROVE  broadcast' = broadcast
    BY <1>2, <2>3 DEF UpdateJob, Acquire, FetchOk, FetchFail, KeepJob, NewJob, Snapshot,
                      StoreFingerprint, minerVars
  <2> QED
    BY <1>2, <2>1, <2>2, <2>3 DEF DistNext
<1>3. Core /\ ChainInv /\ [DistNext]_vars => [Keeps]_vars
  BY <1>1, <1>2
<1> QED
  BY <1>3, CoreInvariant, ChainInvariant, PTL DEF DistSpec, BroadcastKeepsWork
=============================================================================
