--------------------------- MODULE ShutdownProofs ---------------------------
(***************************************************************************)
(* Connections, the dashboard and their shutdown, for every set of         *)
(* connections and browsers, every limit and every number of extranonces.  *)
(***************************************************************************)
EXTENDS Shutdown, FiniteSetTheorems, TLAPS

(* Where a handler stands tells what there is of its connection.           *)
PlaceInv ==
    /\ ConnTypeOK
    /\ \A c \in Conn : number[c] # 0 <=> cpc[c] \in {"serving", "closed"}
    /\ \A c \in open : cpc[c] \in {"accepted", "admitted", "serving"}

(* The numbers given out so far are distinct.                              *)
NumberInv ==
    /\ \A c \in Conn : number[c] <= sessionCounter
    /\ \A c, d \in sessions : number[c] = number[d] => c = d

CountInv ==
    /\ activeConns = Cardinality(Counted)
    /\ MaxConns > 0 => Cardinality(Admitted) <= MaxConns

(* What Stop has still to close.                                           *)
StopInv ==
    /\ listening <=> spc = "idle"
    /\ spc \in {"closing", "stopped"} =>
           /\ open \subseteq missed \cup toClose
           /\ \A c \in Conn : cpc[c] \in {"accepted", "admitted"} => c \in missed
    /\ spc = "stopped" => toClose = {}

ConnInv == PlaceInv /\ NumberInv /\ CountInv /\ StopInv

LEMMA ConnInitInv == ConnInit => ConnInv
<1> SUFFICES ASSUME ConnInit PROVE ConnInv
  OBVIOUS
<1>1. PlaceInv
  BY DEF ConnInit, PlaceInv, ConnTypeOK
<1>2. NumberInv
  BY DEF ConnInit, NumberInv, sessions
<1>3. Counted = {} /\ Admitted = {}
  BY DEF ConnInit, Counted, Admitted
<1>4. CountInv
  BY <1>3, FS_EmptySet, ConnectionsAssumption DEF ConnInit, CountInv
<1>5. StopInv
  BY DEF ConnInit, StopInv
<1> QED
  BY <1>1, <1>2, <1>4, <1>5 DEF ConnInv

-----------------------------------------------------------------------------

LEMMA CountedFinite ==
    /\ IsFiniteSet(Counted) /\ Cardinality(Counted) \in Nat
    /\ IsFiniteSet(Admitted) /\ Cardinality(Admitted) \in Nat
    /\ Cardinality(Admitted) <= Cardinality(Counted)
<1>1. Counted \subseteq Conn /\ Admitted \subseteq Counted
  BY DEF Counted, Admitted
<1>2. IsFiniteSet(Counted) /\ IsFiniteSet(Admitted)
  BY <1>1, FS_Subset, ConnectionsAssumption
<1> QED
  BY <1>1, <1>2, FS_Subset, FS_CardinalityType

LEMMA StepsKeepCount ==
    ASSUME ConnInv, ConnNext
    PROVE  CountInv'
<1> USE CountedFinite, ConnectionsAssumption
<1>1. /\ cpc \in [Conn -> {"none", "accepted", "admitted", "serving", "closed", "released", "done"}]
      /\ activeConns \in Nat
      /\ activeConns = Cardinality(Counted)
      /\ MaxConns > 0 => Cardinality(Admitted) <= MaxConns
  BY DEF ConnInv, PlaceInv, ConnTypeOK, CountInv
<1>2. CASE UNCHANGED cpc /\ UNCHANGED activeConns
  BY <1>1, <1>2 DEF CountInv, Counted, Admitted
<1>3. ASSUME NEW c \in Conn, Admit(c)
      PROVE  CountInv'
  <2>1. c \notin Counted /\ c \notin Admitted
    BY <1>3 DEF Admit, Advance, Counted, Admitted
  <2>2. Counted' = Counted \cup {c} /\ Admitted' = Admitted \cup {c}
    BY <1>1, <1>3 DEF Admit, Advance, Counted, Admitted
  <2>3. Cardinality(Counted') = Cardinality(Counted) + 1
        /\ Cardinality(Admitted') = Cardinality(Admitted) + 1
    BY <2>1, <2>2, FS_AddElement
  <2> QED
    BY <1>1, <1>3, <2>3 DEF Admit, AboveLimit, CountInv
<1>4. ASSUME NEW c \in Conn, Refuse(c)
      PROVE  CountInv'
  <2>1. c \notin Counted
    BY <1>4 DEF Refuse, Advance, Counted
  <2>2. Counted' = Counted \cup {c} /\ Admitted' = Admitted
    BY <1>1, <1>4 DEF Refuse, Advance, Counted, Admitted
  <2>3. Cardinality(Counted') = Cardinality(Counted) + 1
    BY <2>1, <2>2, FS_AddElement
  <2> QED
    BY <1>1, <1>4, <2>2, <2>3 DEF Refuse, CountInv
<1>5. ASSUME NEW c \in Conn, Register(c) \/ ReadEnds(c) \/ AcceptConn(c)
      PROVE  CountInv'
  <2>1. Counted' = Counted /\ Admitted' = Admitted
    BY <1>1, <1>5 DEF Register, ReadEnds, AcceptConn, Advance, Counted, Admitted
  <2> QED
    BY <1>1, <1>5, <2>1 DEF Register, ReadEnds, AcceptConn, CountInv
<1>6. ASSUME NEW c \in Conn, Unregister(c)
      PROVE  CountInv'
  <2>1. c \in Admitted
    BY <1>6 DEF Unregister, Advance, Admitted
  <2>2. Counted' = Counted /\ Admitted' = Admitted \ {c}
    BY <1>1, <1>6 DEF Unregister, Advance, Counted, Admitted
  <2>3. Cardinality(Admitted') = Cardinality(Admitted) - 1
    BY <2>1, <2>2, FS_RemoveElement
  <2> QED
    BY <1>1, <1>6, <2>2, <2>3 DEF Unregister, CountInv
<1>7. ASSUME NEW c \in Conn, Release(c)
      PROVE  CountInv'
  <2>1. c \in Counted
    BY <1>7 DEF Release, Advance, Counted
  <2>2. Counted' = Counted \ {c} /\ Admitted' = Admitted
    BY <1>1, <1>7 DEF Release, Advance, Counted, Admitted
  <2>3. Cardinality(Counted') = Cardinality(Counted) - 1
    BY <2>1, <2>2, FS_RemoveElement
  <2> QED
    BY <1>1, <1>7, <2>2, <2>3 DEF Release, CountInv
<1>8. StopStratum => UNCHANGED cpc /\ UNCHANGED activeConns
  BY DEF StopStratum, StopListener, StopList, StopReturns, StopClose
<1> QED
  BY <1>2, <1>3, <1>4, <1>5, <1>6, <1>7, <1>8 DEF ConnNext, HandleConnection

LEMMA StepsKeepPlaces ==
    ASSUME ConnInv, ConnNext
    PROVE  PlaceInv'
<1> USE DEF PlaceInv, ConnTypeOK, Advance
<1>1. PlaceInv
  BY DEF ConnInv
<1>2. ASSUME NEW c \in Conn, AcceptConn(c) \/ Admit(c) \/ Refuse(c)
      PROVE  PlaceInv'
  BY <1>1, <1>2 DEF AcceptConn, Admit, Refuse, stopVars, sessionVars
<1>3. ASSUME NEW c \in Conn, Register(c)
      PROVE  PlaceInv'
  BY <1>1, <1>3 DEF Register, stopVars
<1>4. ASSUME NEW c \in Conn, ReadEnds(c) \/ Unregister(c)
      PROVE  PlaceInv'
  BY <1>1, <1>4 DEF ReadEnds, Unregister, stopVars, sessionVars
<1>5. ASSUME NEW c \in Conn, Release(c)
      PROVE  PlaceInv'
  <2>1. c \in Counted
    BY <1>5 DEF Release, Counted
  <2>2. Cardinality(Counted) # 0
    BY <2>1, CountedFinite, FS_EmptySet
  <2>3. activeConns - 1 \in Nat
    BY <2>2, CountedFinite DEF ConnInv, CountInv
  <2> QED
    BY <1>1, <1>5, <2>3 DEF Release, stopVars, sessionVars
<1>6. CASE StopStratum
  <2>1. CASE StopListener \/ StopReturns
    BY <1>1, <2>1 DEF StopListener, StopReturns, StopGoto, sessionVars
  <2>2. CASE StopList
    BY <1>1, <2>2 DEF StopList, StopGoto, sessionVars, sessions
  <2>3. CASE \E c \in Conn : StopClose(c)
    BY <1>1, <2>3 DEF StopClose, sessionVars
  <2> QED
    BY <1>6, <2>1, <2>2, <2>3 DEF StopStratum
<1> QED
  BY <1>2, <1>3, <1>4, <1>5, <1>6 DEF ConnNext, HandleConnection

LEMMA StepsKeepNumbers ==
    ASSUME ConnInv, ConnNext
    PROVE  NumberInv'
<1> USE DEF NumberInv, sessions
<1>1. NumberInv /\ sessionCounter \in Nat /\ number \in [Conn -> Nat]
  BY DEF ConnInv, PlaceInv, ConnTypeOK
<1>2. ASSUME NEW c \in Conn, Register(c)
      PROVE  NumberInv'
  BY <1>1, <1>2 DEF Register
<1>3. ASSUME NEW c \in Conn, Unregister(c)
      PROVE  NumberInv'
  BY <1>1, <1>3 DEF Unregister
<1>4. CASE UNCHANGED sessionVars
  BY <1>1, <1>4 DEF sessionVars
<1>5. /\ StopStratum => UNCHANGED sessionVars
      /\ \A c \in Conn : AcceptConn(c) \/ Admit(c) \/ Refuse(c) \/ ReadEnds(c) \/ Release(c)
                            => UNCHANGED sessionVars
  BY DEF StopStratum, StopListener, StopList, StopReturns, StopClose, AcceptConn, Admit,
         Refuse, ReadEnds, Release
<1> QED
  BY <1>2, <1>3, <1>4, <1>5 DEF ConnNext, HandleConnection

LEMMA StepsKeepStop ==
    ASSUME ConnInv, ConnNext
    PROVE  StopInv'
<1> USE DEF StopInv, Advance
<1>1. StopInv /\ PlaceInv /\ cpc \in [Conn -> {"none", "accepted", "admitted", "serving", "closed", "released", "done"}]
  BY DEF ConnInv, PlaceInv, ConnTypeOK
<1>2. ASSUME NEW c \in Conn, AcceptConn(c)
      PROVE  StopInv'
  BY <1>1, <1>2 DEF AcceptConn, stopVars
<1>3. ASSUME NEW c \in Conn, HandleConnection(c)
      PROVE  StopInv'
  BY <1>1, <1>3 DEF HandleConnection, Admit, Refuse, Register, ReadEnds, Unregister, Release, stopVars
<1>4. CASE StopListener
  BY <1>1, <1>4 DEF StopListener, StopGoto
<1>5. CASE StopList
  <2>1. \A c \in open : c \in missed' \cup toClose'
    BY <1>1, <1>5 DEF StopList, PlaceInv, ConnTypeOK, sessions
  <2> QED
    BY <1>1, <1>5, <2>1 DEF StopList, StopGoto
<1>6. CASE StopReturns
  BY <1>1, <1>6 DEF StopReturns, StopGoto
<1>7. ASSUME NEW c \in Conn, StopClose(c)
      PROVE  StopInv'
  BY <1>1, <1>7 DEF StopClose
<1> QED
  BY <1>2, <1>3, <1>4, <1>5, <1>6, <1>7 DEF ConnNext, StopStratum

LEMMA ConnInvariant == ConnSpec => []ConnInv
<1>1. ConnInv /\ [ConnNext]_connVars => ConnInv'
  <2>1. ASSUME ConnInv, ConnNext
        PROVE  ConnInv'
    BY <2>1, StepsKeepPlaces, StepsKeepNumbers, StepsKeepCount, StepsKeepStop DEF ConnInv
  <2>2. ASSUME ConnInv, UNCHANGED connVars
        PROVE  ConnInv'
    BY <2>2 DEF connVars, ConnInv, PlaceInv, ConnTypeOK, NumberInv, CountInv, StopInv, sessions,
                Counted, Admitted
  <2> QED
    BY <2>1, <2>2
<1> QED
  BY <1>1, ConnInitInv, PTL DEF ConnSpec

(* Types of the connections' state.                                        *)
THEOREM ConnTypeCorrect == ConnSpec => []ConnTypeOK
<1>1. ConnInv => ConnTypeOK
  BY DEF ConnInv, PlaceInv
<1> QED
  BY <1>1, ConnInvariant, PTL

(* The connection limit, for every limit: the counter of activeConns is    *)
(* exact and no more than MaxConns miners are served.                      *)
THEOREM AdmissionIsExactCorrect == ConnSpec => []AdmissionIsExact
<1>1. ConnInv => AdmissionIsExact
  BY DEF ConnInv, PlaceInv, CountInv, AdmissionIsExact, sessions, Admitted
<1> QED
  BY <1>1, ConnInvariant, PTL

(* Two numbers with the same remainder are a multiple of E apart.          *)
LEMMA MultiplesApart ==
    ASSUME NEW E \in Nat \ {0}, NEW p \in Int, NEW q \in Int, NEW r \in Int, p * E + r > q * E + r
    PROVE  p * E + r >= q * E + r + E
<1>1. p * E \in Int /\ q * E \in Int
  OBVIOUS
<1>2. p > q
  <2> SUFFICES ASSUME p <= q PROVE FALSE
    OBVIOUS
  <2>1. p * E <= q * E
    OBVIOUS
  <2> QED
    BY <1>1, <2>1
<1>3. p * E >= (q + 1) * E
  BY <1>2
<1>4. (q + 1) * E = q * E + E
  OBVIOUS
<1> QED
  BY <1>1, <1>3, <1>4

LEMMA SameRemainder ==
    ASSUME NEW E \in Nat \ {0}, NEW m \in Nat, NEW n \in Nat, m > n, m % E = n % E
    PROVE  m >= n + E
<1>1. m = (m \div E) * E + (m % E)
  OBVIOUS
<1>2. n = (n \div E) * E + (n % E)
  OBVIOUS
<1>3. m \div E \in Int /\ n \div E \in Int /\ m % E \in Int
  OBVIOUS
<1>4. (m \div E) * E + (m % E) > (n \div E) * E + (m % E)
  BY <1>1, <1>2
<1>5. (m \div E) * E + (m % E) >= (n \div E) * E + (m % E) + E
  BY <1>3, <1>4, MultiplesApart
<1> QED
  BY <1>1, <1>2, <1>5

(* No two live sessions have one extranonce1 unless the counter has gone   *)
(* through all its values between them.                                    *)
THEOREM SearchSpacesDifferCorrect == ConnSpec => []SearchSpacesDiffer
<1>1. ASSUME ConnInv
      PROVE  SearchSpacesDiffer
  <2> SUFFICES ASSUME NEW c \in sessions, NEW d \in sessions,
                      c # d, extranonce1(c) = extranonce1(d)
               PROVE  number[c] >= number[d] + Extranonces \/ number[d] >= number[c] + Extranonces
    BY DEF SearchSpacesDiffer
  <2>1. number[c] \in Nat /\ number[d] \in Nat /\ number[c] # number[d]
    BY <1>1 DEF ConnInv, PlaceInv, ConnTypeOK, NumberInv, sessions
  <2>2. number[c] > number[d] \/ number[d] > number[c]
    BY <2>1
  <2>3. Extranonces \in Nat \ {0} /\ number[c] % Extranonces = number[d] % Extranonces
    BY ConnectionsAssumption DEF extranonce1
  <2> QED
    BY <2>1, <2>2, <2>3, SameRemainder
<1> QED
  BY <1>1, ConnInvariant, PTL

(* Stop misses no connection but those accepted and not yet registered.    *)
THEOREM StopLeavesNothingCorrect == ConnSpec => []StopLeavesNothing
<1>1. ConnInv => StopLeavesNothing
  BY DEF ConnInv, StopInv, StopLeavesNothing
<1> QED
  BY <1>1, ConnInvariant, PTL

-----------------------------------------------------------------------------
(* A listed client has a handler past Join; an open websocket is listed,   *)
(* or its handler is on the way in or out.  After Stop only the latter are *)
(* left, and those on the way in were seen by nobody.                      *)
DashInv ==
    /\ DashTypeOK
    /\ \A c \in clients : wpc[c] \in {"greeting", "reading", "leaving"}
    /\ \A c \in wsOpen : c \in clients \/ wpc[c] \in {"upgraded", "closing"}
    /\ dpc = "stopped" /\ server # "serving" =>
           \A c \in Client : wpc[c] = "requested" \/ c \in wsOpen => c \in unlisted \/ wpc[c] = "closing"

LEMMA ServeKeepsDash ==
    ASSUME DashInv, NEW c \in Client, ServeWs(c) \/ Browser(c)
    PROVE  DashInv'
<1> USE DEF DashInv, DashTypeOK, AdvanceWs, broadcastVars, webStopVars
<1>1. CASE RequestWs(c) \/ PeerLeaves(c) \/ PeerStalls(c)
  BY <1>1 DEF RequestWs, PeerLeaves, PeerStalls
<1>2. CASE Upgrade(c) \/ UpgradeFails(c) \/ Join(c)
  BY <1>2 DEF Upgrade, UpgradeFails, Join
<1>3. CASE Greet(c) \/ ReadWsEnds(c)
  BY <1>3 DEF Greet, ReadWsEnds
<1>4. CASE Leave(c) \/ CloseWs(c)
  BY <1>4 DEF Leave, CloseWs
<1> QED
  BY <1>1, <1>2, <1>3, <1>4 DEF ServeWs, Browser

LEMMA BroadcasterKeepsDash ==
    ASSUME DashInv, Broadcaster
    PROVE  DashInv'
<1> USE DEF DashInv, DashTypeOK, webStopVars
<1>1. CASE Tick \/ SweepEnds
  BY <1>1 DEF Tick, SweepEnds
<1>2. ASSUME NEW c \in Client, BeginWrite(c) \/ WriteDone(c) \/ WriteFails(c)
      PROVE  DashInv'
  BY <1>2 DEF BeginWrite, WriteDone, WriteFails
<1> QED
  BY <1>1, <1>2 DEF Broadcaster

LEMMA StopKeepsDash ==
    ASSUME DashInv, StartServing \/ StopDashboard
    PROVE  DashInv'
<1> USE DEF DashInv, DashTypeOK, broadcastVars
<1>1. CASE StartServing
  BY <1>1 DEF StartServing
<1>2. CASE ShutdownServer
  BY <1>2 DEF ShutdownServer
<1>3. CASE CloseClients
  BY <1>3 DEF CloseClients
<1> QED
  BY <1>1, <1>2, <1>3 DEF StopDashboard

LEMMA DashInvariant == DashSpec => []DashInv
<1>1. DashInit => DashInv
  BY DEF DashInit, DashInv, DashTypeOK
<1>2. DashInv /\ [DashNext]_dashVars => DashInv'
  <2>1. ASSUME DashInv, DashNext
        PROVE  DashInv'
    BY <2>1, ServeKeepsDash, BroadcasterKeepsDash, StopKeepsDash DEF DashNext
  <2>2. ASSUME DashInv, UNCHANGED dashVars
        PROVE  DashInv'
    BY <2>2 DEF dashVars, DashInv, DashTypeOK
  <2> QED
    BY <2>1, <2>2
<1> QED
  BY <1>1, <1>2, PTL DEF DashSpec

(* Stop of the dashboard misses no websocket but those between their       *)
(* upgrade and their entry in clients.                                     *)
THEOREM WebStopLeavesNothingCorrect == DashSpec => []WebStopLeavesNothing
<1>1. DashInv => WebStopLeavesNothing
  BY DEF DashInv, DashTypeOK, WebStopLeavesNothing
<1> QED
  BY <1>1, DashInvariant, PTL

-----------------------------------------------------------------------------
(* main only decides when the two are stopped: the whole implements both,  *)
(* so what is proved of each alone holds during the shutdown.              *)
THEOREM ShutdownImplementsParts == ShutdownSpec => ConnSpec /\ DashSpec
<1>1. ShutdownInit => ConnInit /\ DashInit
  BY DEF ShutdownInit
<1>2. ASSUME [ShutdownNext]_shutdownVars
      PROVE  [ConnNext]_connVars /\ [DashNext]_dashVars
  <2>1. CASE Signal
    BY <2>1 DEF Signal
  <2>2. CASE StopMiners
    BY <2>2 DEF StopMiners, ConnNext
  <2>3. CASE StopBrowsers
    BY <2>3 DEF StopBrowsers, DashNext
  <2>4. CASE Serve /\ UNCHANGED <<mpc, dashVars>>
    BY <2>4 DEF Serve, ConnNext
  <2>5. CASE Show /\ UNCHANGED <<mpc, connVars>>
    BY <2>5 DEF Show, DashNext
  <2>6. CASE UNCHANGED shutdownVars
    BY <2>6 DEF shutdownVars
  <2> QED
    BY <1>2, <2>1, <2>2, <2>3, <2>4, <2>5, <2>6 DEF ShutdownNext, Main
<1> QED
  BY <1>1, <1>2, PTL DEF ShutdownSpec, ConnSpec, DashSpec

(* What may be open when main has stopped everything.                      *)
THEOREM ShutdownLeavesNothingCorrect == ShutdownSpec => []ShutdownLeavesNothing
  BY ShutdownImplementsParts, StopLeavesNothingCorrect, WebStopLeavesNothingCorrect, PTL
     DEF ShutdownLeavesNothing

(* The limit holds during the shutdown.                                    *)
THEOREM ShutdownKeepsAdmission == ShutdownSpec => []AdmissionIsExact
  BY ShutdownImplementsParts, AdmissionIsExactCorrect, PTL

(* So does the distance of the search spaces.                              *)
THEOREM ShutdownKeepsSearchSpaces == ShutdownSpec => []SearchSpacesDiffer
  BY ShutdownImplementsParts, SearchSpacesDifferCorrect, PTL

(* Types, and the order of the shutdown: the dashboard is not stopped      *)
(* before the stratum server is.                                           *)
THEOREM ShutdownTypeCorrect == ShutdownSpec => []ShutdownTypeOK
<1> DEFINE Order ==
        /\ mpc \in {"running", "stratum", "dashboard", "complete"}
        /\ mpc = "running" => spc = "idle"
        /\ mpc \in {"dashboard", "complete"} <=> spc = "stopped"
        /\ mpc = "complete" <=> dpc = "stopped"
<1>1. ShutdownInit => Order
  BY DEF ShutdownInit, ConnInit, DashInit
<1>2. Order /\ [ShutdownNext]_shutdownVars => Order'
  <2> SUFFICES ASSUME Order, [ShutdownNext]_shutdownVars
               PROVE  Order'
    OBVIOUS
  <2>1. CASE Signal
    BY <2>1 DEF Signal, connVars, dashVars
  <2>2. CASE StopMiners
    BY <2>2 DEF StopMiners, StopStratum, StopListener, StopList, StopReturns, StopClose, StopGoto, dashVars
  <2>3. CASE StopBrowsers
    BY <2>3 DEF StopBrowsers, StopDashboard, ShutdownServer, CloseClients, connVars
  <2>4. CASE Serve /\ UNCHANGED <<mpc, dashVars>>
    <3>1. UNCHANGED spc
      BY <2>4 DEF Serve, AcceptConn, HandleConnection, Admit, Refuse, Register, ReadEnds,
                  Unregister, Release, stopVars
    <3> QED
      BY <2>4, <3>1 DEF dashVars
  <2>5. CASE Show /\ UNCHANGED <<mpc, connVars>>
    <3>1. UNCHANGED dpc
      BY <2>5 DEF Show, StartServing, Broadcaster, Tick, SweepEnds, BeginWrite, WriteDone, WriteFails,
                  ServeWs, Upgrade, UpgradeFails, Join, Greet, ReadWsEnds, Leave, CloseWs,
                  Browser, RequestWs, PeerLeaves, PeerStalls, webStopVars
    <3> QED
      BY <2>5, <3>1 DEF connVars
  <2>6. CASE UNCHANGED shutdownVars
    BY <2>6 DEF shutdownVars, connVars, dashVars
  <2> QED
    BY <2>1, <2>2, <2>3, <2>4, <2>5, <2>6 DEF ShutdownNext, Main
<1>3. ConnInv /\ DashInv /\ Order => ShutdownTypeOK
  BY DEF ConnInv, PlaceInv, StopInv, DashInv, ShutdownTypeOK
<1> QED
  BY <1>1, <1>2, <1>3, ShutdownImplementsParts, ConnInvariant, DashInvariant, PTL DEF ShutdownSpec
=============================================================================
