----------------------------- MODULE JobManager -----------------------------
(***************************************************************************)
(* pool.JobManager (pool/job.go): the table of mining jobs the pool still  *)
(* accepts shares for.  A job is a template converted for the miners under *)
(* a fresh job id; ids come from a counter that is never reset, and the    *)
(* table keeps the MaxJobs newest ids (200 in the code).  CreateJob,       *)
(* GetJob and GetCurrentJob each run under jm.mu, so each is atomic.       *)
(***************************************************************************)
EXTENDS Integers, FiniteSets

CONSTANTS
    Template,   \* the block templates the node can hand out
    MaxJobs     \* how many jobs jobMap keeps

ASSUME MaxJobsAssumption == MaxJobs \in Nat \ {0}

VARIABLES
    jobCounter,   \* the last job id issued
    currentJob,   \* the newest job, NoJob before the first one
    jobMap        \* job id -> job

jmVars == <<jobCounter, currentJob, jobMap>>

(* A job: the id the miners quote when they submit, and the template that *)
(* the coinbase, the merkle branch and the header fields derive from.     *)
Job == [id : Nat, tmpl : Template]
NoJob == [id |-> 0]

JMTypeOK ==
    /\ jobCounter \in Nat
    /\ currentJob \in Job \cup {NoJob}
    /\ jobMap \in [DOMAIN jobMap -> Job]
    /\ DOMAIN jobMap \subseteq Nat

JMInit ==
    /\ jobCounter = 0
    /\ currentJob = NoJob
    /\ jobMap = [k \in {} |-> NoJob]

(* Mutant: the eviction loop stops one job late.                          *)
NewestOffByOne(ids) == {k \in ids : Cardinality({j \in ids : j > k}) <= MaxJobs}

(* The ids the eviction loop leaves: it deletes the smallest id until at  *)
(* most MaxJobs are left.                                                 *)
Newest(ids) == {k \in ids : Cardinality({j \in ids : j > k}) < MaxJobs}

(* Mutant: the id is taken from the size of the map, not from a counter.  *)
CreateJobCountingMap(t) ==
    LET job == [id |-> Cardinality(DOMAIN jobMap) + 1, tmpl |-> t] IN
    /\ jobCounter' = job.id
    /\ currentJob' = job
    /\ jobMap' = [k \in Newest(DOMAIN jobMap \cup {job.id}) |->
                     IF k = job.id THEN job ELSE jobMap[k]]

CreateJob(t) ==
    LET job == [id |-> jobCounter + 1, tmpl |-> t] IN
    /\ jobCounter' = job.id
    /\ currentJob' = job
    /\ jobMap' = [k \in Newest(DOMAIN jobMap \cup {job.id}) |->
                     IF k = job.id THEN job ELSE jobMap[k]]

(* GetJob returns nil for an id outside the map.                          *)
GetJob(id) == IF id \in DOMAIN jobMap THEN jobMap[id] ELSE NoJob

JMNext == \E t \in Template : CreateJob(t)

JMSpec == JMInit /\ [][JMNext]_jmVars

-----------------------------------------------------------------------------
(* The lowest id still in the map once c jobs were created.               *)
OldestKept(c) == IF c > MaxJobs THEN c - MaxJobs + 1 ELSE 1

(* The map holds exactly the newest MaxJobs jobs, every one under its own *)
(* id, and the current job is the newest of them: a miner's share for any *)
(* of the last MaxJobs jobs finds its job, and eviction never takes the   *)
(* current one.                                                           *)
JobWindow ==
    /\ DOMAIN jobMap = OldestKept(jobCounter) .. jobCounter
    /\ \A k \in DOMAIN jobMap : jobMap[k].id = k
    /\ currentJob = GetJob(jobCounter)

(* A job id, once issued, always names the same job: a share can never be *)
(* checked against the template of another job.                           *)
IdsAreNeverReused ==
    [][ /\ \A k \in DOMAIN jobMap \cap DOMAIN jobMap' : jobMap'[k] = jobMap[k]
        /\ \A k \in DOMAIN jobMap' \ DOMAIN jobMap : k > jobCounter ]_jmVars
=============================================================================
