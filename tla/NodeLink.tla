------------------------------ MODULE NodeLink ------------------------------
(***************************************************************************)
(* The two ways between the pool and its node: block announcements over    *)
(* ZMQ and templates over RPC.  An announcement calls updateJob, which     *)
(* takes templateMu and calls GetBlockTemplate, so the subscriber reads    *)
(* nothing meanwhile; the poller does the same on its own.                 *)
(*                                                                         *)
(* updateJob broadcasts a new job before it gives templateMu back, with    *)
(* writes that wait for a peer that does not read.  Which job goes to whom *)
(* is in JobDistribution; here only how long that may take.                *)
(***************************************************************************)
EXTENDS GbtClient, ZmqSubscriber

VARIABLES
    caller,     \* who holds templateMu
    phase,      \* updateJob: before its broadcast, in it, or in a write of
                \*   it that waits for the peer
    miners      \* stratum connections: "open", "closed" by the stratum
                \*   server's Stop, or one was "missed" by it

linkVars == <<gbtVars, zmqVars, caller, phase, miners>>

LinkInit ==
    /\ GbtInit /\ ZmqInit
    /\ caller = "nobody" /\ phase = "template" /\ miners = "open"

-----------------------------------------------------------------------------
Begin(c) ==
    /\ caller = "nobody" /\ caller' = c
    /\ BeginTemplate /\ UNCHANGED <<zmqVars, phase, miners>>

PollerBegins == Begin("poller")
CallbackBegins == zpc = "notify" /\ Begin("zmq")

Asking == caller # "nobody" /\ Ask /\ UNCHANGED <<zmqVars, caller, phase, miners>>

(* A template with news becomes a job, which is broadcast.                *)
BeginBroadcast ==
    /\ caller # "nobody" /\ outcome.ok /\ Forget
    /\ phase = "template" /\ phase' = "send"
    /\ UNCHANGED <<zmqVars, caller, miners>>

(* A write has no deadline: it waits while the peer does not read, and    *)
(* ends with an error when the connection is closed.                      *)
PeerStalls ==
    /\ phase = "send" /\ miners # "closed" /\ phase' = "stuck"
    /\ UNCHANGED <<gbtVars, zmqVars, caller, miners>>

PeerReadsOrLeaves ==
    /\ phase = "stuck" /\ phase' = "send"
    /\ UNCHANGED <<gbtVars, zmqVars, caller, miners>>

(* updateJob returns: after an error, without news, or when the broadcast *)
(* is over.  Mutant: with templateMu still held after an error.           *)
EndLocked ==
    /\ caller # "nobody" /\ phase # "stuck" /\ phase' = "template" /\ Forget
    /\ caller' = IF outcome.ok \/ phase = "send" THEN "nobody" ELSE caller
    /\ IF caller = "zmq" THEN CallbackReturns ELSE UNCHANGED zmqVars
    /\ UNCHANGED miners

End ==
    /\ caller # "nobody" /\ phase # "stuck" /\ phase' = "template" /\ Forget
    /\ caller' = "nobody"
    /\ IF caller = "zmq" THEN CallbackReturns ELSE UNCHANGED zmqVars
    /\ UNCHANGED miners

(* main stops the stratum server after the subscriber.  It closes the     *)
(* sessions it lists; a connection that is registered after the listing   *)
(* stays open (see Shutdown).                                             *)
CloseMiners ==
    /\ spc = "done" /\ miners = "open"
    /\ \/ miners' = "closed" /\ phase' = IF phase = "stuck" THEN "send" ELSE phase
       \/ miners' = "missed" /\ UNCHANGED phase
    /\ UNCHANGED <<gbtVars, zmqVars, caller>>

Miners == PeerStalls \/ PeerReadsOrLeaves \/ CloseMiners

LinkNext ==
    \/ PollerBegins \/ CallbackBegins \/ Asking \/ BeginBroadcast \/ End \/ Miners
    \/ NodeChanges /\ UNCHANGED <<zmqVars, caller, phase, miners>>
    \/ (ZmqNode \/ Loop \/ Stop) /\ UNCHANGED <<gbtVars, caller, phase, miners>>

LinkSpec == LinkInit /\ [][LinkNext]_linkVars

(* The subscriber's loop, but for an answer to its handshake.             *)
LoopGoesOn ==
    \/ CheckStop \/ Dial \/ DialFails \/ StoreConn \/ HandshakeFails
    \/ Read \/ ReadFails \/ Sleep

(* Go hands a mutex to a goroutine that has waited long.  Requests and    *)
(* dials have timeouts.  A node need not answer the handshake, and nobody *)
(* need call Stop, but who has begun it goes on, and main goes on to the  *)
(* miners' connections.  A broadcast writes to finitely many peers, so it *)
(* ends unless one of them keeps it waiting: no peer need read or leave.  *)
LinkFairness ==
    /\ SF_linkVars(CallbackBegins) /\ WF_linkVars(Asking)
    /\ SF_linkVars(End) /\ WF_linkVars(CloseMiners)
    /\ WF_linkVars(LoopGoesOn /\ UNCHANGED <<gbtVars, caller, phase, miners>>)
    /\ WF_linkVars((StopTake \/ StopClose) /\ UNCHANGED <<gbtVars, caller, phase, miners>>)

LinkFairSpec == LinkSpec /\ LinkFairness

-----------------------------------------------------------------------------
LinkTypeOK ==
    /\ GbtTypeOK /\ ZmqTypeOK
    /\ caller \in {"nobody", "poller", "zmq"}
    /\ caller = "zmq" => zpc = "notify"
    /\ caller = "nobody" => gpc = "idle"
    /\ phase \in {"template", "send", "stuck"}
    /\ phase # "template" => caller # "nobody" /\ gpc = "idle"
    /\ miners \in {"open", "closed", "missed"}

(* No miner keeps a broadcast, and with it templateMu, waiting for good.  *)
MinersGoOn == []<>(phase # "stuck")

(* An announcement that reached the pool is called back or lost with its  *)
(* connection, whatever the requests for templates meet with and however  *)
(* often miners make a broadcast wait - but not when one of them stays    *)
(* connected and never reads again: then updateJob never returns (the run *)
(* jobs_stall), and neither does the callback that waits for it.          *)
BlocksAreNoticed ==
    MinersGoOn => \A n \in 1 .. MaxBlocks : n \in InQueue ~> seen >= n \/ n \in lost

(* Once Stop is called the subscriber ends, whatever it is doing, though  *)
(* the node answers nothing and though a miner never reads again: the     *)
(* stratum server's Stop, which main calls next, ends the write.  The     *)
(* exceptions: the subscriber was dialing just then, or the miner's       *)
(* connection was registered too late for that Stop.                      *)
StopEnds ==
    MinersGoOn \/ []<>(miners # "missed") => (stopped ~> zpc = "done" \/ missed)
=============================================================================
