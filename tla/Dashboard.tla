----------------------------- MODULE Dashboard ------------------------------
(***************************************************************************)
(* The websocket side of web/server.go: the /ws handler, one goroutine per *)
(* client, the broadcaster that writes to all clients every two seconds    *)
(* while it holds w.mu, and Stop.  http.Server.Shutdown ends no websocket, *)
(* those are closed by Stop under w.mu.  A write has no deadline: with a   *)
(* client that stopped reading it blocks until the connection is closed.   *)
(* The steps that hold w.mu and cannot block are one step each.            *)
(***************************************************************************)
EXTENDS Integers, FiniteSets

CONSTANTS
    Client,         \* the browsers
    Nobody,         \* w.mu is free
    MayStall        \* whether browsers may stop reading

ASSUME DashboardAssumption ==
    /\ Nobody \notin {"broadcaster"}
    /\ MayStall \in BOOLEAN

VARIABLES
    server,         \* the HTTP server: not started, serving, or shut down
    wpc,            \* where the handler of each client stands
    peer,           \* what the browser does
    wsOpen,         \* websockets the pool has not closed
    clients,        \* w.clients
    wmu,            \* who holds w.mu while blocking is possible
    todo,           \* clients the broadcaster has not written to this time
    writing,        \* the client it is writing to
    dpc,            \* where Stop stands
    unlisted        \* history: upgraded, not in clients when Stop closed them

dashVars == <<server, wpc, peer, wsOpen, clients, wmu, todo, writing, dpc, unlisted>>

DashInit ==
    /\ server = "none"
    /\ wpc = [c \in Client |-> "none"] /\ peer = [c \in Client |-> "reads"]
    /\ wsOpen = {} /\ clients = {}
    /\ wmu = Nobody /\ todo = {} /\ writing = {}
    /\ dpc = "idle" /\ unlisted = {}

broadcastVars == <<wmu, todo, writing>>
webStopVars == <<server, dpc, unlisted>>

AdvanceWs(c, from, to) ==
    /\ wpc[c] = from
    /\ wpc' = [wpc EXCEPT ![c] = to]

(* Start runs in a goroutine of its own, so Stop may come before it.       *)
StartServing ==
    /\ server = "none" /\ server' = "serving"
    /\ UNCHANGED <<wpc, peer, wsOpen, clients, broadcastVars, dpc, unlisted>>

RequestWs(c) ==
    /\ server = "serving"
    /\ AdvanceWs(c, "none", "requested")
    /\ UNCHANGED <<peer, wsOpen, clients, broadcastVars, webStopVars>>

Upgrade(c) ==
    /\ AdvanceWs(c, "requested", "upgraded")
    /\ wsOpen' = wsOpen \cup {c}
    /\ UNCHANGED <<peer, clients, broadcastVars, webStopVars>>

UpgradeFails(c) ==
    /\ AdvanceWs(c, "requested", "gone")
    /\ UNCHANGED <<peer, wsOpen, clients, broadcastVars, webStopVars>>

Join(c) ==
    /\ AdvanceWs(c, "upgraded", "greeting")
    /\ wmu = Nobody
    /\ clients' = clients \cup {c}
    /\ UNCHANGED <<peer, wsOpen, broadcastVars, webStopVars>>

(* A write to a browser that does not read blocks while the socket is open.*)
CanWriteTo(c) == peer[c] # "stalled" \/ c \notin wsOpen

(* The first message, without w.mu; its error is ignored.                  *)
Greet(c) ==
    /\ AdvanceWs(c, "greeting", "reading")
    /\ CanWriteTo(c)
    /\ UNCHANGED <<peer, wsOpen, clients, broadcastVars, webStopVars>>

(* ReadMessage fails once the browser is gone or the socket closed.        *)
ReadWsEnds(c) ==
    /\ AdvanceWs(c, "reading", "leaving")
    /\ peer[c] = "left" \/ c \notin wsOpen
    /\ UNCHANGED <<peer, wsOpen, clients, broadcastVars, webStopVars>>

Leave(c) ==
    /\ AdvanceWs(c, "leaving", "closing")
    /\ wmu = Nobody
    /\ clients' = clients \ {c}
    /\ UNCHANGED <<peer, wsOpen, broadcastVars, webStopVars>>

CloseWs(c) ==
    /\ AdvanceWs(c, "closing", "gone")
    /\ wsOpen' = wsOpen \ {c}
    /\ UNCHANGED <<peer, clients, broadcastVars, webStopVars>>

(* Browsers, external.                                                     *)
PeerLeaves(c) ==
    /\ c \in wsOpen /\ peer[c] # "left"
    /\ peer' = [peer EXCEPT ![c] = "left"]
    /\ UNCHANGED <<wpc, wsOpen, clients, broadcastVars, webStopVars>>

PeerStalls(c) ==
    /\ MayStall /\ c \in wsOpen /\ peer[c] = "reads"
    /\ peer' = [peer EXCEPT ![c] = "stalled"]
    /\ UNCHANGED <<wpc, wsOpen, clients, broadcastVars, webStopVars>>

-----------------------------------------------------------------------------
Tick ==
    /\ wmu = Nobody
    /\ wmu' = "broadcaster" /\ todo' = clients
    /\ UNCHANGED <<wpc, peer, wsOpen, clients, writing, webStopVars>>

BeginWrite(c) ==
    /\ wmu = "broadcaster" /\ writing = {} /\ c \in todo
    /\ writing' = {c} /\ todo' = todo \ {c}
    /\ UNCHANGED <<wpc, peer, wsOpen, clients, wmu, webStopVars>>

WriteDone(c) ==
    /\ c \in writing /\ CanWriteTo(c) /\ c \in wsOpen
    /\ writing' = {}
    /\ UNCHANGED <<wpc, peer, wsOpen, clients, wmu, todo, webStopVars>>

(* Mutant: the error is taken for the end of the sweep, with w.mu held.    *)
WriteFailsLocked(c) ==
    /\ c \in writing /\ (peer[c] = "left" \/ c \notin wsOpen)
    /\ wsOpen' = wsOpen \ {c} /\ clients' = clients \ {c}
    /\ UNCHANGED <<wpc, peer, wmu, todo, writing, webStopVars>>

WriteFails(c) ==
    /\ c \in writing /\ (peer[c] = "left" \/ c \notin wsOpen)
    /\ wsOpen' = wsOpen \ {c} /\ clients' = clients \ {c}
    /\ writing' = {}
    /\ UNCHANGED <<wpc, peer, wmu, todo, webStopVars>>

SweepEnds ==
    /\ wmu = "broadcaster" /\ todo = {} /\ writing = {}
    /\ wmu' = Nobody
    /\ UNCHANGED <<wpc, peer, wsOpen, clients, todo, writing, webStopVars>>

Broadcaster ==
    Tick \/ SweepEnds \/ \E c \in Client : BeginWrite(c) \/ WriteDone(c) \/ WriteFails(c)

-----------------------------------------------------------------------------
(* srv.Shutdown, when there is a server yet; it waits no longer than 3 s.  *)
ShutdownServer ==
    /\ dpc = "idle" /\ dpc' = "shut"
    /\ server' = IF server = "serving" THEN "shut" ELSE server
    /\ UNCHANGED <<wpc, peer, wsOpen, clients, broadcastVars, unlisted>>

CloseClients ==
    /\ dpc = "shut" /\ dpc' = "stopped"
    /\ wmu = Nobody
    /\ wsOpen' = wsOpen \ clients /\ clients' = {}
    /\ unlisted' = {c \in Client : wpc[c] \in {"requested", "upgraded"}}
    /\ UNCHANGED <<server, wpc, peer, broadcastVars>>

StopDashboard == ShutdownServer \/ CloseClients

ServeWs(c) ==
    \/ Upgrade(c) \/ UpgradeFails(c) \/ Join(c) \/ Greet(c) 
    \/ ReadWsEnds(c) \/ Leave(c) \/ CloseWs(c)

Browser(c) == RequestWs(c) \/ PeerLeaves(c) \/ PeerStalls(c)

DashNext ==
    \/ StartServing \/ Broadcaster \/ StopDashboard
    \/ \E c \in Client : ServeWs(c) \/ Browser(c)

DashSpec == DashInit /\ [][DashNext]_dashVars

-----------------------------------------------------------------------------
(* Types of the variables.                                                 *)
DashTypeOK ==
    /\ server \in {"none", "serving", "shut"}
    /\ wpc \in [Client -> {"none", "requested", "upgraded", "greeting", "reading", "leaving", "closing", "gone"}]
    /\ peer \in [Client -> {"reads", "stalled", "left"}]
    /\ {wsOpen, clients, todo, writing, unlisted} \subseteq SUBSET Client
    /\ wmu \in {Nobody, "broadcaster"}
    /\ dpc \in {"idle", "shut", "stopped"}

(* After Stop no websocket is open but one that its handler is about to    *)
(* close, and one that was between its upgrade and its entry in clients    *)
(* when Stop closed them - or came later, when Stop had found no server to *)
(* shut down because Start was not that far.                               *)
WebStopLeavesNothing ==
    dpc = "stopped" /\ server # "serving" =>
        \A c \in wsOpen : c \in unlisted \/ wpc[c] = "closing"
=============================================================================
