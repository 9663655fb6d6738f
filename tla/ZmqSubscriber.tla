--------------------------- MODULE ZmqSubscriber ----------------------------
(***************************************************************************)
(* ZmqBlockSubscriber (bitcoin/zmq.go): the loop that connects to the      *)
(* node, subscribes to hashblock, reads and calls back, and Stop, which    *)
(* main calls from another goroutine.  The health shown on the dashboard   *)
(* and the framing are left out; z.mu covers single assignments.           *)
(*                                                                         *)
(* A connection is numbered in the order they are made.  The node, which   *)
(* is external, accepts and drops connections and publishes its blocks.    *)
(***************************************************************************)
EXTENDS Integers, Sequences

CONSTANTS
    MaxConnections, \* bound of the connections made
    MaxBlocks       \* bound of the blocks published

ASSUME ZmqAssumption == MaxConnections \in Nat /\ MaxBlocks \in Nat

VARIABLES
    zpc,            \* where connectLoop stands
    conn,           \* its connection, the last one made
    zconn,          \* z.conn, 0 for nil
    stopped,        \* stopChan is closed
    spc, held,      \* where Stop stands, and its conn
    opened,         \* connections the pool has not closed
    up,             \* connections that live at the node's end
    queue,          \* blocks on the way on the current connection
    tip,            \* blocks published so far
    seen,           \* the last block that was called back
    lost,           \* history: blocks whose message did not arrive
    missed          \* history: Stop took z.conn during a dial

loopVars == <<zpc, conn>>
stopVars == <<stopped, spc, held, missed>>
netVars == <<up, queue, tip, lost>>
zmqVars == <<loopVars, zconn, stopVars, opened, netVars, seen>>

ZmqInit ==
    /\ zpc = "check" /\ conn = 0 /\ zconn = 0
    /\ stopped = FALSE /\ spc = "idle" /\ held = 0 /\ missed = FALSE
    /\ opened = {} /\ up = {} /\ queue = << >>
    /\ tip = 0 /\ seen = 0 /\ lost = {}

InQueue == {queue[i] : i \in 1 .. Len(queue)}

-----------------------------------------------------------------------------
(* The node.  A message reaches a subscriber, or is lost.                 *)
Publish ==
    /\ tip < MaxBlocks /\ tip' = tip + 1
    /\ \/ /\ zpc \in {"read", "notify"} /\ conn \in opened \cap up
          /\ queue' = Append(queue, tip + 1) /\ UNCHANGED lost
       \/ lost' = lost \cup {tip + 1} /\ UNCHANGED queue
    /\ UNCHANGED <<loopVars, zconn, stopVars, opened, up, seen>>

(* What was on the way may be lost or still arrive.                       *)
Drop ==
    /\ conn \in up /\ up' = up \ {conn}
    /\ \/ UNCHANGED <<queue, lost>>
       \/ queue' = << >> /\ lost' = lost \cup InQueue
    /\ UNCHANGED <<loopVars, zconn, stopVars, opened, tip, seen>>

-----------------------------------------------------------------------------
(* connectLoop.  Mutant: stopChan is looked at only once, at the start.   *)
CheckStopOnce ==
    /\ zpc = "check" /\ zpc' = IF stopped /\ conn = 0 THEN "done" ELSE "dial"
    /\ UNCHANGED <<conn, zconn, stopVars, opened, netVars, seen>>

CheckStop ==
    /\ zpc = "check" /\ zpc' = IF stopped THEN "done" ELSE "dial"
    /\ UNCHANGED <<conn, zconn, stopVars, opened, netVars, seen>>

Dial ==
    /\ zpc = "dial" /\ conn < MaxConnections
    /\ conn' = conn + 1 /\ zpc' = "store"
    /\ opened' = opened \cup {conn + 1} /\ up' = up \cup {conn + 1}
    /\ UNCHANGED <<zconn, stopVars, queue, tip, lost, seen>>

DialFails ==
    /\ zpc = "dial" /\ zpc' = "sleep"
    /\ UNCHANGED <<conn, zconn, stopVars, opened, netVars, seen>>

StoreConn ==
    /\ zpc = "store" /\ zpc' = "handshake" /\ zconn' = conn
    /\ UNCHANGED <<conn, stopVars, opened, netVars, seen>>

(* Greeting, READY and SUBSCRIBE: the node may never answer.              *)
Handshake ==
    /\ zpc = "handshake" /\ conn \in opened /\ zpc' = "read"
    /\ UNCHANGED <<conn, zconn, stopVars, opened, netVars, seen>>

(* An error closes the connection; what it still carried is lost.         *)
Close ==
    /\ zpc' = "sleep" /\ opened' = opened \ {conn}
    /\ queue' = << >> /\ lost' = lost \cup InQueue /\ up' = up \ {conn}
    /\ UNCHANGED <<conn, zconn, stopVars, tip, seen>>

(* Mutant: a failed handshake leaves the connection open.                 *)
HandshakeFailsOpen ==
    /\ zpc = "handshake" /\ conn \notin opened \cap up
    /\ zpc' = "sleep"
    /\ UNCHANGED <<conn, zconn, stopVars, opened, netVars, seen>>

HandshakeFails ==
    /\ zpc = "handshake" /\ conn \notin opened \cap up
    /\ Close

(* readLoop: a hashblock message is called back before the next is read.  *)
Read ==
    /\ zpc = "read" /\ conn \in opened /\ queue # << >>
    /\ seen' = Head(queue) /\ queue' = Tail(queue)
    /\ zpc' = "notify"
    /\ UNCHANGED <<conn, zconn, stopVars, opened, up, tip, lost>>

ReadFails ==
    /\ zpc = "read"
    /\ conn \in opened => conn \notin up /\ queue = << >>
    /\ Close

CallbackReturns ==
    /\ zpc = "notify" /\ zpc' = "read"
    /\ UNCHANGED <<conn, zconn, stopVars, opened, netVars, seen>>

Sleep ==
    /\ zpc = "sleep" /\ zpc' = "check"
    /\ UNCHANGED <<conn, zconn, stopVars, opened, netVars, seen>>

-----------------------------------------------------------------------------
(* Stop: close stopChan, take z.conn, close it.                           *)
StopBegin ==
    /\ spc = "idle" /\ spc' = "take" /\ stopped' = TRUE
    /\ UNCHANGED <<loopVars, zconn, held, missed, opened, netVars, seen>>

(* Mutant: Stop forgets the connection but does not close it.             *)
StopTakeNothing ==
    /\ spc = "take" /\ spc' = "close" /\ held' = 0 /\ zconn' = 0
    /\ missed' = (zpc \in {"dial", "store"})
    /\ UNCHANGED <<loopVars, stopped, opened, netVars, seen>>

StopTake ==
    /\ spc = "take" /\ spc' = "close" /\ held' = zconn /\ zconn' = 0
    /\ missed' = (zpc \in {"dial", "store"})
    /\ UNCHANGED <<loopVars, stopped, opened, netVars, seen>>

StopClose ==
    /\ spc = "close" /\ spc' = "done" /\ opened' = opened \ {held}
    /\ UNCHANGED <<loopVars, zconn, stopped, held, missed, netVars, seen>>

-----------------------------------------------------------------------------
ZmqNode == Publish \/ Drop
Loop ==
    \/ CheckStop \/ Dial \/ DialFails \/ StoreConn \/ Handshake \/ HandshakeFails
    \/ Read \/ ReadFails \/ Sleep
Stop == StopBegin \/ StopTake \/ StopClose

ZmqTypeOK ==
    /\ zpc \in {"check", "dial", "store", "handshake", "read", "notify", "sleep", "done"}
    /\ conn \in Nat /\ zconn \in Nat /\ held \in Nat
    /\ stopped \in BOOLEAN /\ spc \in {"idle", "take", "close", "done"}
    /\ opened \subseteq Nat /\ up \subseteq Nat
    /\ queue \in Seq(Nat) /\ tip \in Nat /\ seen \in Nat
    /\ lost \subseteq Nat /\ missed \in BOOLEAN

(* However the connection ends, the pool closes it: none but the one that *)
(* the loop works on is ever left open.                                   *)
NoLeak ==
    opened \subseteq IF zpc \in {"store", "handshake", "read", "notify"} THEN {conn} ELSE {}

(* After Stop the pool has no connection to the node, but for one that    *)
(* was being dialed at that moment.                                       *)
StopCutsOff == spc = "done" /\ opened # {} => missed
=============================================================================
