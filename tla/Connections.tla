---------------------------- MODULE Connections -----------------------------
(***************************************************************************)
(* The miners' connections of stratum/server.go: the accept loop of Start, *)
(* handleConnection with the connection limit and its deferred clean-up,   *)
(* one goroutine per connection, and Stop, which main calls from another.  *)
(* stopChan only ends the loop, which accepts nothing after the listener   *)
(* is closed anyway.  What a session does with the lines it reads is in    *)
(* the other modules.                                                      *)
(***************************************************************************)
EXTENDS Integers, FiniteSets

CONSTANTS
    Conn,           \* the connections, numbered as they are accepted
    MaxConns,       \* STRATUM_MAX_CONNS, 0 for no limit
    Extranonces     \* how many values extranonce1 has, 2^32 in the code

ASSUME ConnectionsAssumption ==
    /\ IsFiniteSet(Conn) /\ Conn \subseteq Nat
    /\ MaxConns \in Nat /\ Extranonces \in Nat \ {0}

VARIABLES
    listening,      \* the listener is open
    cpc,            \* where handleConnection stands for each connection
    open,           \* connections the pool has not closed
    activeConns,    \* the counter
    sessionCounter,
    number,         \* the counter's value of each session, 0 if there is none
    spc,            \* where Stop stands
    toClose,        \* the sessions Stop has listed
    missed          \* history: accepted, not registered when Stop listed them

connVars == <<listening, cpc, open, activeConns, sessionCounter, number, spc, toClose, missed>>

sessions == {c \in Conn : number[c] # 0}
extranonce1(c) == number[c] % Extranonces

ConnInit ==
    /\ listening = TRUE
    /\ cpc = [c \in Conn |-> "none"]
    /\ open = {} /\ activeConns = 0
    /\ sessionCounter = 0 /\ number = [c \in Conn |-> 0]
    /\ spc = "idle" /\ toClose = {} /\ missed = {}

sessionVars == <<sessionCounter, number>>
stopVars == <<listening, spc, toClose, missed>>

Advance(c, from, to) ==
    /\ cpc[c] = from
    /\ cpc' = [cpc EXCEPT ![c] = to]

(* The loop hands a connection to a goroutine of its own.                  *)
AcceptConn(c) ==
    /\ listening
    /\ \A d \in Conn : d < c => cpc[d] # "none"
    /\ Advance(c, "none", "accepted")
    /\ open' = open \cup {c}
    /\ UNCHANGED <<activeConns, sessionVars, stopVars>>

(* The connection is counted first; one above the limit is closed.         *)
AboveLimit == MaxConns > 0 /\ activeConns + 1 > MaxConns

Admit(c) ==
    /\ Advance(c, "accepted", "admitted")
    /\ ~AboveLimit
    /\ activeConns' = activeConns + 1
    /\ UNCHANGED <<open, sessionVars, stopVars>>

(* Mutant: a refused connection is not counted down.                       *)
RefuseForgotten(c) ==
    /\ Advance(c, "accepted", "done")
    /\ AboveLimit
    /\ activeConns' = activeConns + 1
    /\ open' = open \ {c}
    /\ UNCHANGED <<sessionVars, stopVars>>

(* Mutant: it is counted down at once, and again when the handler ends.    *)
RefuseTwice(c) ==
    /\ Advance(c, "accepted", "released")
    /\ AboveLimit
    /\ open' = open \ {c}
    /\ UNCHANGED <<activeConns, sessionVars, stopVars>>

Refuse(c) ==
    /\ Advance(c, "accepted", "released")
    /\ AboveLimit
    /\ activeConns' = activeConns + 1
    /\ open' = open \ {c}
    /\ UNCHANGED <<sessionVars, stopVars>>

(* Mutant: the session is numbered by how many there are.                  *)
RegisterBySize(c) ==
    /\ Advance(c, "admitted", "serving")
    /\ sessionCounter' = Cardinality(sessions) + 1
    /\ number' = [number EXCEPT ![c] = Cardinality(sessions) + 1]
    /\ UNCHANGED <<open, activeConns, stopVars>>

(* Under s.mu.                                                             *)
Register(c) ==
    /\ Advance(c, "admitted", "serving")
    /\ sessionCounter' = sessionCounter + 1
    /\ number' = [number EXCEPT ![c] = sessionCounter + 1]
    /\ UNCHANGED <<open, activeConns, stopVars>>

(* The read ends: the miner leaves, is idle for too long or banned, or the *)
(* pool closed the connection.  The deferred calls close it ...            *)
ReadEnds(c) ==
    /\ Advance(c, "serving", "closed")
    /\ open' = open \ {c}
    /\ UNCHANGED <<activeConns, sessionVars, stopVars>>

(* ... take the session off the list ...                                   *)
Unregister(c) ==
    /\ Advance(c, "closed", "released")
    /\ number' = [number EXCEPT ![c] = 0]
    /\ UNCHANGED <<open, activeConns, sessionCounter, stopVars>>

(* ... and count the connection down, also when it was refused.            *)
Release(c) ==
    /\ Advance(c, "released", "done")
    /\ activeConns' = activeConns - 1
    /\ UNCHANGED <<open, sessionVars, stopVars>>

HandleConnection(c) ==
    Admit(c) \/ Refuse(c) \/ Register(c) \/ ReadEnds(c) \/ Unregister(c) \/ Release(c)

-----------------------------------------------------------------------------
StopGoto(from, to) == spc = from /\ spc' = to

(* Mutant: the sessions are closed, the listener is left open.             *)
StopListenerLeft ==
    /\ StopGoto("idle", "listening")
    /\ UNCHANGED <<listening, cpc, open, activeConns, sessionVars, toClose, missed>>

StopListener ==
    /\ StopGoto("idle", "listening")
    /\ listening' = FALSE
    /\ UNCHANGED <<cpc, open, activeConns, sessionVars, toClose, missed>>

(* GetActiveSessions: the list, under s.mu.                                *)
StopList ==
    /\ StopGoto("listening", "closing")
    /\ toClose' = sessions
    /\ missed' = {c \in Conn : cpc[c] \in {"accepted", "admitted"}}
    /\ UNCHANGED <<listening, cpc, open, activeConns, sessionVars>>

(* One of the list; a close of what is closed already does nothing.        *)
StopClose(c) ==
    /\ spc = "closing" /\ c \in toClose \cap open
    /\ open' = open \ {c}
    /\ UNCHANGED <<listening, cpc, activeConns, sessionVars, spc, toClose, missed>>

StopReturns ==
    /\ StopGoto("closing", "stopped")
    /\ toClose \cap open = {}
    /\ toClose' = {}
    /\ UNCHANGED <<listening, cpc, open, activeConns, sessionVars, missed>>

StopStratum == StopListener \/ StopList \/ StopReturns \/ \E c \in Conn : StopClose(c)

ConnNext ==
    \/ StopStratum
    \/ \E c \in Conn : AcceptConn(c) \/ HandleConnection(c)

ConnSpec == ConnInit /\ [][ConnNext]_connVars

-----------------------------------------------------------------------------
(* Types of the variables.                                                 *)
ConnTypeOK ==
    /\ listening \in BOOLEAN
    /\ cpc \in [Conn -> {"none", "accepted", "admitted", "serving", "closed", "released", "done"}]
    /\ activeConns \in Nat
    /\ sessionCounter \in Nat /\ number \in [Conn -> Nat]
    /\ spc \in {"idle", "listening", "closing", "stopped"}
    /\ {open, toClose, missed} \subseteq SUBSET Conn

Counted == {c \in Conn : cpc[c] \in {"admitted", "serving", "closed", "released"}}
Admitted == {c \in Conn : cpc[c] \in {"admitted", "serving", "closed"}}

(* The counter is the number of handlers under way, on every path out of   *)
(* them: a slot that is not given back is lost until the restart, one      *)
(* given back twice lets too many in.  So never more than the configured   *)
(* number of miners are served, and one is refused only while that many    *)
(* handlers, refused ones included, are under way.                         *)
AdmissionIsExact ==
    /\ activeConns = Cardinality(Counted)
    /\ MaxConns > 0 => Cardinality(Admitted) <= MaxConns
    /\ sessions \subseteq Admitted

(* Two live sessions never search the same headers: extranonce1 is all     *)
(* that tells their coinbases apart.  (The counter has to go through all   *)
(* the values first.)                                                      *)
SearchSpacesDiffer ==
    \A c, d \in sessions :
        c # d /\ extranonce1(c) = extranonce1(d) =>
            number[c] >= number[d] + Extranonces \/ number[d] >= number[c] + Extranonces

(* After Stop nothing is accepted and no connection is open but one that   *)
(* was accepted and not yet registered when Stop listed the sessions.      *)
StopLeavesNothing ==
    spc = "stopped" =>
        /\ open \subseteq missed
        /\ \A c \in Conn : cpc[c] = "accepted" => c \in missed
=============================================================================
