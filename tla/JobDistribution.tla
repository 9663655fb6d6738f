-------------------------- MODULE JobDistribution ---------------------------
(***************************************************************************)
(* How block templates become jobs and reach the miners.                   *)
(*                                                                         *)
(*   - The node changes its template: a new block, a reorganisation, other *)
(*     transactions, or only the clock.                                    *)
(*   - updateJob (main.go) is called by the backup poller and by the ZMQ   *)
(*     callback.  Under templateMu it fetches the template, compares       *)
(*     fingerprints, creates a job and broadcasts it, one blocking socket  *)
(*     write per session.                                                  *)
(*   - The handler goroutine of each session authorizes the miner and      *)
(*     sends it the current job, or re-sends the job of a share that made  *)
(*     vardiff change the difficulty (stratum/server.go).  Handlers do not *)
(*     take templateMu.                                                    *)
(*                                                                         *)
(* The miner is modelled by what the Stratum protocol makes it do with     *)
(* mining.notify: clean_jobs TRUE replaces its work, FALSE adds to it.     *)
(***************************************************************************)
EXTENDS JobManager

CONSTANTS
    Session,    \* stratum connections; a reconnect is another session
    Poller,     \* the 3 s backup poller goroutine
    Zmq,        \* the ZMQ subscriber goroutine
    Body,       \* contents of a template beside height and previous block
    Stalling,   \* sessions whose peer may stop reading its socket
    Free        \* templateMu is not held

ASSUME DistributionAssumption ==
    /\ Template \subseteq [height : Nat, prev : Nat, body : Body, curtime : Nat]
    /\ Poller # Zmq
    /\ Free \notin {Poller, Zmq}
    /\ Stalling \subseteq Session

Refresher == {Poller, Zmq}

VARIABLES
    nodeTmpl,        \* what getblocktemplate would return now
    notified,        \* hashblock messages waiting in the ZMQ socket
    templateMu,      \* the refresher inside updateJob, or Free
    lastFingerprint, \* lastTemplateFingerprint
    upc,             \* where each refresher stands in updateJob
    update,          \* its locals: template, job and clean flag
    unsent,          \* the sessions its BroadcastJob has not come to yet
    conn,            \* "new", "open" or "closed"
    reading,         \* the peer drains its socket
    authorized,      \* session.IsAuthorized
    hpc,             \* where the session's handler goroutine stands
    held,            \* the job the handler read and is about to send
    work,            \* miner: the jobs it may work on
    given,           \* history: ids of the jobs the session was sent
    broadcast,       \* history: id of the last job broadcast to the session
    late,            \* history: a handler sent a superseded job since the
                     \*   last clean broadcast to the session
    overtaken        \* history: the work was last replaced by a superseded
                     \*   job that the handler sent clean

nodeVars == <<nodeTmpl, notified>>
updateVars == <<templateMu, lastFingerprint, upc, update, unsent>>
sessionVars == <<conn, reading, authorized, hpc, held>>
minerVars == <<work, given, broadcast, late, overtaken>>
vars == <<jmVars, nodeVars, updateVars, sessionVars, minerVars>>

-----------------------------------------------------------------------------
(* TemplateFingerprint: what feeds the coinbase and the merkle root; the  *)
(* clock is excluded.  Before the first job no fingerprint is stored.     *)
Fingerprint(t) == [height |-> t.height, prev |-> t.prev, body |-> t.body]
NoFingerprint == [height |-> 0]

(* updateJob's test for work in flight that a template makes worthless.   *)
SameBlock(t, u) == t.height = u.height /\ t.prev = u.prev

NoTemplate == [height |-> 0]
NoUpdate == [tmpl |-> NoTemplate, job |-> NoJob, clean |-> FALSE]
NoHeld == [job |-> NoJob, clean |-> FALSE]

DistInit ==
    /\ JMInit
    /\ nodeTmpl \in {t \in Template : t.height = 1 /\ t.prev = 0 /\ t.curtime = 0}
    /\ notified = 0
    /\ templateMu = Free
    /\ lastFingerprint = NoFingerprint
    /\ upc = [r \in Refresher |-> "idle"]
    /\ update = [r \in Refresher |-> NoUpdate]
    /\ unsent = [r \in Refresher |-> {}]
    /\ conn = [s \in Session |-> "new"]
    /\ reading = [s \in Session |-> TRUE]
    /\ authorized = [s \in Session |-> FALSE]
    /\ hpc = [s \in Session |-> "read"]
    /\ held = [s \in Session |-> NoHeld]
    /\ work = [s \in Session |-> {}]
    /\ given = [s \in Session |-> {}]
    /\ broadcast = [s \in Session |-> 0]
    /\ late = [s \in Session |-> FALSE]
    /\ overtaken = [s \in Session |-> FALSE]

-----------------------------------------------------------------------------
(* The node.  Every change advances its clock; Template bounds the run.   *)
NodeStep(h, p, b) ==
    /\ nodeTmpl' = [height |-> h, prev |-> p, body |-> b,
                    curtime |-> nodeTmpl.curtime + 1]
    /\ nodeTmpl' \in Template
    /\ UNCHANGED <<jmVars, updateVars, sessionVars, minerVars>>

(* A new tip, on the old one or in its place.  The hashblock message may  *)
(* be lost: publishing is best effort and the subscriber reconnects.      *)
NewTip(h) ==
    /\ \E b \in Body : NodeStep(h, nodeTmpl.prev + 1, b)
    /\ notified' \in {notified, notified + 1}

NewBlock == NewTip(nodeTmpl.height + 1)
Reorganise == NewTip(nodeTmpl.height)

(* Other transactions or fees on the same tip (b differs), or the clock.  *)
RefreshTemplate ==
    /\ \E b \in Body : NodeStep(nodeTmpl.height, nodeTmpl.prev, b)
    /\ UNCHANGED notified

-----------------------------------------------------------------------------
(* updateJob, called by refresher r.                                      *)
Goto(r, from, to) ==
    /\ upc[r] = from
    /\ upc' = [upc EXCEPT ![r] = to]

(* return: the deferred Unlock, and the locals are gone.                  *)
Return(r, from) ==
    /\ Goto(r, from, "idle")
    /\ templateMu' = Free
    /\ update' = [update EXCEPT ![r] = NoUpdate]

(* Mutant: updateJob does not take templateMu.                            *)
AcquireUnlocked(r) ==
    /\ Goto(r, "idle", "fetch")
    /\ templateMu' = r
    /\ IF r = Zmq THEN notified > 0 /\ notified' = notified - 1
                  ELSE UNCHANGED notified
    /\ UNCHANGED <<jmVars, nodeTmpl, lastFingerprint, update, unsent,
                   sessionVars, minerVars>>

(* The poller calls whenever its ticker fires, the ZMQ subscriber once    *)
(* for each hashblock message it reads.                                   *)
Acquire(r) ==
    /\ templateMu = Free
    /\ Goto(r, "idle", "fetch")
    /\ templateMu' = r
    /\ IF r = Zmq THEN notified > 0 /\ notified' = notified - 1
                  ELSE UNCHANGED notified
    /\ UNCHANGED <<jmVars, nodeTmpl, lastFingerprint, update, unsent,
                   sessionVars, minerVars>>

FetchOk(r) ==
    /\ Goto(r, "fetch", "decide")
    /\ update' = [update EXCEPT ![r].tmpl = nodeTmpl]
    /\ UNCHANGED <<jmVars, nodeVars, templateMu, lastFingerprint, unsent,
                   sessionVars, minerVars>>

(* Mutant: the error of getblocktemplate is logged and then ignored.      *)
FetchFailIgnored(r) ==
    /\ Goto(r, "fetch", "decide")
    /\ UNCHANGED <<jmVars, nodeVars, templateMu, lastFingerprint, update, unsent,
                   sessionVars, minerVars>>

FetchFail(r) ==
    /\ Return(r, "fetch")
    /\ UNCHANGED <<jmVars, nodeVars, lastFingerprint, unsent, sessionVars, minerVars>>

(* Mutants: news is a new block only; work is flushed for a new height    *)
(* only; or for every job.                                                *)
HasNewsOnNewBlock(t) == currentJob # NoJob => ~SameBlock(t, currentJob.tmpl)
CleanJobsByHeight(t) == currentJob = NoJob \/ t.height # currentJob.tmpl.height
CleanJobsAlways(t) == TRUE

HasNews(t) == currentJob = NoJob \/ Fingerprint(t) # lastFingerprint
CleanJobs(t) == currentJob = NoJob \/ ~SameBlock(t, currentJob.tmpl)

KeepJob(r) ==
    /\ Return(r, "decide")
    /\ ~HasNews(update[r].tmpl)
    /\ UNCHANGED <<jmVars, nodeVars, lastFingerprint, unsent, sessionVars, minerVars>>

NewJob(r) ==
    /\ Goto(r, "decide", "snapshot")
    /\ HasNews(update[r].tmpl)
    /\ CreateJob(update[r].tmpl)
    /\ update' = [update EXCEPT ![r].job = currentJob',
                                ![r].clean = CleanJobs(update[r].tmpl)]
    /\ UNCHANGED <<nodeVars, templateMu, lastFingerprint, unsent,
                   sessionVars, minerVars>>

(* BroadcastJob takes the session list once, under s.mu.                  *)
Snapshot(r) ==
    /\ Goto(r, "snapshot", "send")
    /\ unsent' = [unsent EXCEPT ![r] = {s \in Session : conn[s] = "open"}]
    /\ UNCHANGED <<jmVars, nodeVars, templateMu, lastFingerprint, update,
                   sessionVars, minerVars>>

-----------------------------------------------------------------------------
(* sendJobToSession: WriteJSON has no write deadline, so it waits as long *)
(* as the peer's socket is full; on a closed socket it only logs.         *)
CanWrite(s) == conn[s] # "open" \/ reading[s]

Deliver(s, job, clean) ==
    IF conn[s] = "open"
    THEN /\ given' = [given EXCEPT ![s] = @ \cup {job.id}]
         /\ work' = [work EXCEPT ![s] = IF clean THEN {job} ELSE @ \cup {job}]
    ELSE UNCHANGED <<given, work>>

(* Mutant: the broadcast passes over a session whose handler is sending.  *)
SendBroadcastIfQuiet(r, s) ==
    /\ upc[r] = "send" /\ s \in unsent[r]
    /\ unsent' = [unsent EXCEPT ![r] = @ \ {s}]
    /\ IF authorized[s] /\ hpc[s] = "read"
       THEN /\ CanWrite(s)
            /\ Deliver(s, update[r].job, update[r].clean)
            /\ broadcast' = [broadcast EXCEPT ![s] = update[r].job.id]
            /\ late' = [late EXCEPT ![s] = @ /\ ~update[r].clean]
            /\ overtaken' = [overtaken EXCEPT ![s] = FALSE]
       ELSE UNCHANGED minerVars
    /\ UNCHANGED <<jmVars, nodeVars, templateMu, lastFingerprint, upc, update,
                   sessionVars>>

(* One turn of BroadcastJob's loop.  IsAuthorizedNow and the send are one *)
(* step: a session never loses its authorization.                         *)
SendBroadcast(r, s) ==
    /\ upc[r] = "send" /\ s \in unsent[r]
    /\ unsent' = [unsent EXCEPT ![r] = @ \ {s}]
    /\ IF authorized[s]
       THEN /\ CanWrite(s)
            /\ Deliver(s, update[r].job, update[r].clean)
            /\ broadcast' = [broadcast EXCEPT ![s] = update[r].job.id]
            /\ late' = [late EXCEPT ![s] = @ /\ ~update[r].clean]
            /\ overtaken' = [overtaken EXCEPT ![s] = FALSE]
       ELSE UNCHANGED minerVars
    /\ UNCHANGED <<jmVars, nodeVars, templateMu, lastFingerprint, upc, update,
                   sessionVars>>

(* The fingerprint is stored when the broadcast is over.                  *)
StoreFingerprint(r) ==
    /\ unsent[r] = {}
    /\ Return(r, "send")
    /\ lastFingerprint' = Fingerprint(update[r].tmpl)
    /\ UNCHANGED <<jmVars, nodeVars, unsent, sessionVars, minerVars>>

-----------------------------------------------------------------------------
(* The sessions.  handleConnection registers the session, then reads one  *)
(* message after the other.                                               *)
Connect(s) ==
    /\ conn[s] = "new"
    /\ conn' = [conn EXCEPT ![s] = "open"]
    /\ UNCHANGED <<jmVars, nodeVars, updateVars, reading, authorized, hpc, held,
                   minerVars>>

(* The peer goes, an operator bans it or the idle timeout ends it.  The   *)
(* handler leaves its loop once it reads again; until then its writes     *)
(* fail.                                                                  *)
Disconnect(s) ==
    /\ conn[s] = "open"
    /\ conn' = [conn EXCEPT ![s] = "closed"]
    /\ work' = [work EXCEPT ![s] = {}]
    /\ given' = [given EXCEPT ![s] = {}]
    /\ UNCHANGED <<jmVars, nodeVars, updateVars, reading, authorized, hpc, held,
                   broadcast, late, overtaken>>

Stall(s) ==
    /\ s \in Stalling /\ conn[s] = "open"
    /\ reading' = [reading EXCEPT ![s] = FALSE]
    /\ UNCHANGED <<jmVars, nodeVars, updateVars, conn, authorized, hpc, held,
                   minerVars>>

(* handleAuthorize, first part: session.Authorize and the response.       *)
Authorize(s) ==
    /\ conn[s] = "open" /\ hpc[s] = "read"
    /\ authorized' = [authorized EXCEPT ![s] = TRUE]
    /\ hpc' = [hpc EXCEPT ![s] = "load"]
    /\ UNCHANGED <<jmVars, nodeVars, updateVars, conn, reading, held, minerVars>>

(* Second part: GetCurrentJob, which may still be nil.                    *)
LoadCurrentJob(s) ==
    /\ hpc[s] = "load" /\ CanWrite(s)
    /\ IF currentJob = NoJob
       THEN /\ hpc' = [hpc EXCEPT ![s] = "read"]
            /\ UNCHANGED held
       ELSE /\ hpc' = [hpc EXCEPT ![s] = "send"]
            /\ held' = [held EXCEPT ![s] = [job |-> currentJob, clean |-> TRUE]]
    /\ UNCHANGED <<jmVars, nodeVars, updateVars, conn, reading, authorized, minerVars>>

(* handleSubmit as far as it bears on jobs: GetJob finds the job of the   *)
(* share, RecordShare reports a new difficulty, and the job of the share  *)
(* is what the handler will send again.                                   *)
SubmitRetargets(s, id) ==
    /\ conn[s] = "open" /\ hpc[s] = "read" /\ authorized[s]
    /\ id \in given[s] /\ GetJob(id) # NoJob
    /\ hpc' = [hpc EXCEPT ![s] = "send"]
    /\ held' = [held EXCEPT ![s] = [job |-> GetJob(id), clean |-> FALSE]]
    /\ UNCHANGED <<jmVars, nodeVars, updateVars, conn, reading, authorized, minerVars>>

(* The handler's sendJobToSession, after authorize or after vardiff.      *)
SendHeld(s) ==
    /\ hpc[s] = "send" /\ CanWrite(s)
    /\ Deliver(s, held[s].job, held[s].clean)
    /\ late' = [late EXCEPT ![s] = @ \/ held[s].job # currentJob]
    /\ overtaken' = [overtaken EXCEPT ![s] =
                        held[s].job # currentJob /\ (@ \/ held[s].clean)]
    /\ hpc' = [hpc EXCEPT ![s] = "read"]
    /\ held' = [held EXCEPT ![s] = NoHeld]
    /\ UNCHANGED <<jmVars, nodeVars, updateVars, conn, reading, authorized, broadcast>>

-----------------------------------------------------------------------------
Node == NewBlock \/ Reorganise \/ RefreshTemplate

UpdateJob(r) ==
    \/ Acquire(r) \/ FetchOk(r) \/ FetchFail(r) \/ KeepJob(r) \/ NewJob(r)
    \/ Snapshot(r) \/ (\E s \in Session : SendBroadcast(r, s)) \/ StoreFingerprint(r)

Handler(s) ==
    \/ Connect(s) \/ Disconnect(s) \/ Stall(s)
    \/ Authorize(s) \/ LoadCurrentJob(s) \/ SendHeld(s)
    \/ \E id \in given[s] : SubmitRetargets(s, id)

DistNext ==
    \/ Node
    \/ \E r \in Refresher : UpdateJob(r)
    \/ \E s \in Session : Handler(s)

DistSpec == DistInit /\ [][DistNext]_vars

(* Goroutines that can run do.  The poller's ticker never stops, and      *)
(* sync.Mutex hands the lock to a waiter that has waited long (strong     *)
(* fairness); the node answers an RPC that is tried for ever.  No peer is *)
(* made to read, connect or submit, and the node need not change.         *)
DistFairness ==
    /\ SF_vars(Acquire(Poller))
    /\ \A r \in Refresher :
          /\ SF_vars(FetchOk(r))
          /\ WF_vars(KeepJob(r)) /\ WF_vars(NewJob(r)) /\ WF_vars(Snapshot(r))
          /\ WF_vars(StoreFingerprint(r))
          /\ \A s \in Session : WF_vars(SendBroadcast(r, s))
    /\ \A s \in Session : WF_vars(LoadCurrentJob(s)) /\ WF_vars(SendHeld(s))

FairDistSpec == DistSpec /\ DistFairness

-----------------------------------------------------------------------------
DistTypeOK ==
    /\ JMTypeOK
    /\ nodeTmpl \in Template
    /\ notified \in Nat
    /\ templateMu \in Refresher \cup {Free}
    /\ upc \in [Refresher -> {"idle", "fetch", "decide", "snapshot", "send"}]
    /\ update \in [Refresher -> [tmpl : Template \cup {NoTemplate},
                                 job : Job \cup {NoJob}, clean : BOOLEAN]]
    /\ unsent \in [Refresher -> SUBSET Session]
    /\ conn \in [Session -> {"new", "open", "closed"}]
    /\ reading \in [Session -> BOOLEAN]
    /\ authorized \in [Session -> BOOLEAN]
    /\ hpc \in [Session -> {"read", "load", "send"}]
    /\ held \in [Session -> [job : Job \cup {NoJob}, clean : BOOLEAN]]
    /\ work \in [Session -> SUBSET Job]
    /\ given \in [Session -> SUBSET Nat]
    /\ broadcast \in [Session -> Nat]
    /\ late \in [Session -> BOOLEAN]
    /\ overtaken \in [Session -> BOOLEAN]

(* The running broadcast has still to come to the session.                *)
Unserved(s) ==
    \E r \in Refresher : upc[r] = "snapshot" \/ (upc[r] = "send" /\ s \in unsent[r])

(* What the miner holds: the current job, or, when it was sent that and   *)
(* its own handler then sent a job read before the broadcast, with        *)
(* clean_jobs TRUE, the superseded job (server.go:745-747; RefreshKeeps-  *)
(* Work is about that send).  The next broadcast ends the exception.      *)
HasWork(s) ==
    \/ currentJob \in work[s]
    \/ overtaken[s] /\ currentJob.id \in given[s]

(* No authorized miner is left without the current job in its work,       *)
(* however a broadcast, its own mining.authorize and its retargets        *)
(* interleave: either the handler or the broadcast brings the job, and    *)
(* nothing but a late clean send of its own handler takes it away.        *)
NoMissedJob ==
    \A s \in Session :
        conn[s] = "open" /\ authorized[s] /\ hpc[s] = "read" /\ currentJob # NoJob
            => HasWork(s) \/ Unserved(s)

(* Once the broadcast has passed, a miner works on the current job's      *)
(* block only, except where its own handler sent it a superseded job      *)
(* after the last clean broadcast.                                        *)
NoStaleWork ==
    \A s \in Session :
        ~late[s] /\ ~Unserved(s)
            => \A job \in work[s] : SameBlock(job.tmpl, currentJob.tmpl)

(* Jobs are broadcast to a session in the order they were created,        *)
(* whichever refresher created them.                                      *)
BroadcastsInOrder ==
    [][ \A s \in Session : broadcast'[s] >= broadcast[s] ]_vars

(* The current job never falls back to a template the node gave out       *)
(* before the one it carries now, although two goroutines fetch.          *)
CurrentJobNeverGoesBack ==
    [][ currentJob # NoJob => currentJob'.tmpl.curtime >= currentJob.tmpl.curtime ]_vars

(* A new job always has other content: the poller and ZMQ reporting the   *)
(* same block, or a clock tick, never make the miners restart.            *)
NewJobIsNews ==
    [][ currentJob' # currentJob /\ currentJob # NoJob
            => Fingerprint(currentJob'.tmpl) # Fingerprint(currentJob.tmpl) ]_vars

(* The work of a session that a step throws away although it is for the   *)
(* block the pool is serving.                                             *)
DropsLiveWork(s) ==
    \E job \in work[s] \ work'[s] : SameBlock(job.tmpl, currentJob.tmpl)

(* A broadcast of a refreshed template keeps the work a miner has on the  *)
(* same block.                                                            *)
BroadcastKeepsWork ==
    [][ \A s \in Session : broadcast'[s] # broadcast[s] => ~DropsLiveWork(s) ]_vars

(* The same of every mining.notify, the handlers' included: as long as a  *)
(* miner is connected, no step makes it drop work on the block the pool   *)
(* is serving (main.go: "a same-height fee refresh must keep old jobs     *)
(* valid").                                                               *)
RefreshKeepsWork ==
    [][ \A s \in Session : conn'[s] = "open" => ~DropsLiveWork(s) ]_vars

ServesNodeTemplate ==
    /\ currentJob # NoJob
    /\ Fingerprint(currentJob.tmpl) = Fingerprint(nodeTmpl)

(* When the node's template stops changing, the pool comes to serve it,   *)
(* and every authorized miner that stays works on it, unless its own      *)
(* handler replaced it by a superseded job (see HasWork).                 *)
TemplateReachesMiners ==
    <>[] /\ ServesNodeTemplate
         /\ \A s \in Session : conn[s] = "open" /\ authorized[s] => HasWork(s)

(* The pool's part of it alone: the template is checked again and again,  *)
(* and a changed one becomes the current job, whatever the miners do.     *)
TemplateIsServed == <>[]ServesNodeTemplate
=============================================================================
