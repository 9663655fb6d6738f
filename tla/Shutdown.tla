------------------------------ MODULE Shutdown ------------------------------
(***************************************************************************)
(* The end of main.go: on a signal main stops the block subscriber (see    *)
(* ZmqSubscriber), then the stratum server, then the dashboard, and exits, *)
(* while connections, browsers and the broadcaster go on.                  *)
(***************************************************************************)
EXTENDS Connections, Dashboard

VARIABLE mpc        \* where main stands

shutdownVars == <<mpc, connVars, dashVars>>

ShutdownInit == mpc = "running" /\ ConnInit /\ DashInit

Signal ==
    /\ mpc = "running" /\ mpc' = "stratum"
    /\ UNCHANGED <<connVars, dashVars>>

StopMiners ==
    /\ mpc = "stratum" /\ StopStratum
    /\ mpc' = IF spc' = "stopped" THEN "dashboard" ELSE mpc
    /\ UNCHANGED dashVars

StopBrowsers ==
    /\ mpc = "dashboard" /\ StopDashboard
    /\ mpc' = IF dpc' = "stopped" THEN "complete" ELSE mpc
    /\ UNCHANGED connVars

Main == Signal \/ StopMiners \/ StopBrowsers

Serve == \E c \in Conn : AcceptConn(c) \/ HandleConnection(c)

Show == StartServing \/ Broadcaster \/ \E c \in Client : ServeWs(c) \/ Browser(c)

(* When main returns, every goroutine ends with it.                        *)
ShutdownNext ==
    \/ Main
    \/ mpc # "complete" /\ Serve /\ UNCHANGED <<mpc, dashVars>>
    \/ mpc # "complete" /\ Show /\ UNCHANGED <<mpc, connVars>>

ShutdownSpec == ShutdownInit /\ [][ShutdownNext]_shutdownVars

(* Goroutines are scheduled.  Stop may find w.mu taken again and again,    *)
(* but a Go mutex does not starve who waits for it.  Nothing is assumed of *)
(* browsers and miners, nor of the ticker.                                 *)
Sweep == SweepEnds \/ \E c \in Client : BeginWrite(c) \/ WriteDone(c) \/ WriteFails(c)

ShutdownFairSpec ==
    /\ ShutdownSpec
    /\ WF_shutdownVars(StopMiners)
    /\ SF_shutdownVars(StopBrowsers)
    /\ WF_shutdownVars(mpc # "complete" /\ Sweep /\ UNCHANGED <<mpc, connVars>>)

-----------------------------------------------------------------------------
(* Types, and the two halves keep to the order main calls them in.         *)
ShutdownTypeOK ==
    /\ ConnTypeOK /\ DashTypeOK
    /\ mpc \in {"running", "stratum", "dashboard", "complete"}
    /\ mpc = "running" => spc = "idle" /\ listening
    /\ mpc \in {"dashboard", "complete"} <=> spc = "stopped"
    /\ mpc = "complete" <=> dpc = "stopped"

(* Once main has stopped the dashboard too, what is still open slipped     *)
(* through one of three gaps: a connection accepted and not registered, a  *)
(* websocket upgraded and not listed, a dashboard started during its Stop. *)
ShutdownLeavesNothing ==
    /\ StopLeavesNothing
    /\ WebStopLeavesNothing

(* The pool that is told to stop does stop, unless a browser has stopped   *)
(* reading: the broadcaster then holds w.mu, which web Stop waits for.     *)
ShutdownEnds ==
    mpc = "stratum" ~> (mpc = "complete" \/ \E c \in Client : peer[c] = "stalled")
=============================================================================
