---------------------------- MODULE SessionProofs ----------------------------
(***************************************************************************)
(* Proofs about the Session lifecycle for every value of the constants:   *)
(* type correctness, and that libtorrent is only ever pointed at SOCKS5   *)
(* ports that are being listened on.                                       *)
(***************************************************************************)
EXTENDS Session, TLAPS

(* Servers is the index set 1..n of the configured port list.             *)
LEMMA ServersRange == Servers = 1..Len(ConfPorts)
  BY ConfPortsAssumption DEF Servers

(* Every port a server can bind is a natural number.                      *)
LEMMA BindablePortsNat ==
  ASSUME NEW i \in Servers
  PROVE  BindablePorts(i) \subseteq Nat
<1>1. ConfPorts[i] \in Nat
  BY ConfPortsAssumption DEF Servers
<1>2. (IF ConfPorts[i] = 0 THEN FreePorts ELSE {ConfPorts[i]}) \subseteq Nat
  BY <1>1, FreePortsAssumption
<1>3. QED
  BY <1>2 DEF BindablePorts

(* Publishing a shutdown notification keeps the log a sequence of phases. *)
LEMMA AppendPhase ==
  ASSUME NEW s \in Seq(Phases), NEW ph \in Phases
  PROVE  Append(s, ph) \in Seq(Phases)
  OBVIOUS

-----------------------------------------------------------------------------
(* TypeOK is inductive.                                                    *)
LEMMA TypeInit == Init => TypeOK
<1> SUFFICES ASSUME Init PROVE TypeOK
  OBVIOUS
<1>1. srv \in [Servers -> [state : {"new", "listening", "stopped"}, port : Nat]]
  BY ConfPortsAssumption DEF Init, Servers
<1>2. dmPorts \in Seq(Nat) /\ notified \in Seq(Phases)
  BY DEF Init
<1>3. pc \in PcValues /\ idx \in Nat \ {0}
  BY DEF Init, PcValues
<1>4. /\ dm \in {"new", "running", "stopped"}
      /\ ipv8 \in {"created", "running", "stopped"}
      /\ rest \in {"created", "running", "stopped"}
      /\ shutdownEvent \in BOOLEAN
  BY Zenon DEF Init
<1>6. db \in Global /\ mds \in Global /\ checker \in Global
  BY DEF Init, Global
<1>7. enabled \in [LauncherSet -> BOOLEAN]
  BY Zenon DEF Init
<1>8. overlay \in [LauncherSet -> {"new", "loaded", "unloaded"}]
  BY Zenon DEF Init
<1>5. QED
  BY <1>1, <1>2, <1>3, <1>4, <1>6, <1>7, <1>8 DEF TypeOK

LEMMA TypeNext == TypeOK /\ [Next]_vars => TypeOK'
<1> SUFFICES ASSUME TypeOK, [Next]_vars PROVE TypeOK'
  OBVIOUS
<1> USE DEF PcValues, Terminal, Global, Phases
<1>1. CASE StartSocksServer
  <2>1. CASE \E p \in BindablePorts(idx) :
               /\ srv' = [srv EXCEPT ![idx] = [state |-> "listening", port |-> p]]
               /\ idx' = idx + 1
               /\ UNCHANGED <<pc, dmPorts, dm, overlay, ipv8, db, mds, checker, rest, notified>>
    <3>1. PICK p \in BindablePorts(idx) :
               /\ srv' = [srv EXCEPT ![idx] = [state |-> "listening", port |-> p]]
               /\ idx' = idx + 1
               /\ UNCHANGED <<pc, dmPorts, dm, overlay, ipv8, db, mds, checker, rest, notified>>
      BY <2>1
    <3>2. p \in Nat
      BY <1>1, BindablePortsNat DEF StartSocksServer
    <3>3. QED
      BY <1>1, <3>1, <3>2 DEF StartSocksServer, TypeOK
  <2>2. CASE StartRaises
    BY <1>1, <2>2 DEF StartSocksServer, StartRaises, TypeOK
  <2>3. QED
    BY <1>1, <2>1, <2>2 DEF StartSocksServer
<1>2. CASE StartLibtorrent
  <2>1. dmPorts' \in Seq(Nat)
    BY <1>2, ServersRange DEF StartLibtorrent, TypeOK
  <2>2. pc' \in PcValues /\ idx' \in Nat \ {0} /\ dm' \in {"new", "running", "stopped"}
    BY <1>2 DEF StartLibtorrent, TypeOK
  <2>3. QED
    BY <1>2, <2>1, <2>2 DEF StartLibtorrent, TypeOK
<1>3. CASE LoadLauncher
  <2>1. Launchers[idx] \in LauncherSet
    BY <1>3, LaunchersAssumption DEF LoadLauncher
  <2>2. /\ overlay' \in [LauncherSet -> {"new", "loaded", "unloaded"}]
        /\ db' \in Global /\ mds' \in Global /\ checker' \in Global
    BY <1>3, <2>1 DEF LoadLauncher, TypeOK, Global
  <2>3. pc' \in PcValues /\ idx' \in Nat \ {0}
    BY <1>3 DEF LoadLauncher, TypeOK, PcValues, Terminal
  <2>. QED
    BY <1>3, <2>2, <2>3 DEF LoadLauncher, TypeOK
<1>4. CASE StartIPv8
  BY <1>4 DEF StartIPv8, TypeOK
<1>5. CASE StartREST
  BY <1>5 DEF StartREST, TypeOK
<1>6. CASE BeginShutdown
  BY <1>6 DEF BeginShutdown, TypeOK
<1>7. CASE ShutdownChecker
  <2>1. pc' \in PcValues /\ checker' \in Global
    BY <1>7, Zenon DEF ShutdownChecker, Announce, ShutdownRaises, TypeOK
  <2>2. notified' \in Seq(Phases)
    <3>1. notified' \in {notified, Append(notified, "checker")}
      BY <1>7, Zenon DEF ShutdownChecker, Announce, ShutdownRaises
    <3>2. QED
      BY <3>1, AppendPhase DEF TypeOK
  <2>3. QED
    BY <1>7, <2>1, <2>2 DEF ShutdownChecker, TypeOK
<1>8. CASE ShutdownIPv8
  BY <1>8 DEF ShutdownIPv8, Announce, ShutdownRaises, TypeOK
<1>9. CASE ShutdownDownloadManager
  <2>1. pc' \in PcValues /\ idx' \in Nat \ {0} /\ dm' \in {"new", "running", "stopped"}
    BY <1>9 DEF ShutdownDownloadManager, ShutdownRaises, TypeOK
  <2>2. notified' \in Seq(Phases)
    <3>1. CASE notified' = notified \o <<"dm", "socks">>
      BY <3>1 DEF TypeOK
    <3>2. CASE notified' = Append(notified, "dm")
      BY <3>2 DEF TypeOK
    <3>3. QED
      BY <1>9, <3>1, <3>2 DEF ShutdownDownloadManager, Announce
  <2>3. QED
    BY <1>9, <2>1, <2>2 DEF ShutdownDownloadManager, TypeOK
<1>10. CASE StopSocksServer
  <2>1. srv' \in [Servers -> [state : {"new", "listening", "stopped"}, port : Nat]]
    <3>0. srv \in [Servers -> [state : {"new", "listening", "stopped"}, port : Nat]]
      BY DEF TypeOK
    <3>1. CASE srv' = [srv EXCEPT ![idx].state = "stopped"]
      <4>1. idx \in Servers
        BY <1>10 DEF StopSocksServer
      <4>2. [srv[idx] EXCEPT !.state = "stopped"] \in [state : {"new", "listening", "stopped"}, port : Nat]
        BY <3>0, <4>1
      <4>. QED
        BY <3>0, <3>1, <4>1, <4>2
    <3>2. CASE srv' = srv
      BY <3>0, <3>2
    <3>. QED
      BY <1>10, <3>1, <3>2 DEF StopSocksServer
  <2>2. pc' \in PcValues /\ idx' \in Nat \ {0}
    BY <1>10 DEF StopSocksServer, ShutdownRaises, TypeOK
  <2>3. QED
    BY <1>10, <2>1, <2>2 DEF StopSocksServer, TypeOK
<1>11. CASE ShutdownDatabase
  <2>1. pc' \in PcValues /\ db' \in Global
    BY <1>11, Zenon DEF ShutdownDatabase, Announce, ShutdownRaises, TypeOK
  <2>2. notified' \in Seq(Phases)
    <3>1. notified' \in {notified, Append(notified, "db")}
      BY <1>11, Zenon DEF ShutdownDatabase, Announce, ShutdownRaises
    <3>2. QED
      BY <3>1, AppendPhase DEF TypeOK
  <2>3. QED
    BY <1>11, <2>1, <2>2 DEF ShutdownDatabase, TypeOK
<1>12. CASE ShutdownMetadataStore
  <2>1. pc' \in PcValues /\ mds' \in Global
    BY <1>12, Zenon DEF ShutdownMetadataStore, Announce, ShutdownRaises, TypeOK
  <2>2. notified' \in Seq(Phases)
    <3>1. notified' \in {notified, Append(notified, "mds")}
      BY <1>12, Zenon DEF ShutdownMetadataStore, Announce, ShutdownRaises
    <3>2. QED
      BY <3>1, AppendPhase DEF TypeOK
  <2>3. QED
    BY <1>12, <2>1, <2>2 DEF ShutdownMetadataStore, TypeOK
<1>13. CASE ShutdownREST
  BY <1>13 DEF ShutdownREST, Announce, ShutdownRaises, TypeOK
<1>14. CASE RequestShutdown
  BY <1>14 DEF RequestShutdown, TypeOK
<1>15. CASE UNCHANGED vars
  BY <1>15 DEF vars, TypeOK
<1>16. QED
  BY <1>1, <1>2, <1>3, <1>4, <1>5, <1>6, <1>7, <1>8, <1>9, <1>10, <1>11,
     <1>12, <1>13, <1>14, <1>15 DEF Next, SessionStep

(* Every state of a behaviour of Spec is well typed.                      *)
THEOREM TypeCorrect == Spec => []TypeOK
  BY TypeInit, TypeNext, PTL DEF Spec

-----------------------------------------------------------------------------
(* DmRoutesToListeningServers is not inductive by itself: a step of the   *)
(* SOCKS5 start loop or of the stop loop changes srv, and StartLibtorrent *)
(* reads srv.  The strengthening says that while the start loop runs the  *)
(* download manager is not yet created and the servers before idx are    *)
(* listening, and that the stop loop only runs once it has shut down.     *)
RoutesInv ==
  /\ TypeOK
  /\ pc = "socks_start" =>
       /\ dm = "new"
       /\ idx \in 1..Len(ConfPorts) + 1
       /\ \A i \in Servers : i < idx => srv[i].state = "listening"
  /\ pc \in {"sd_socks", "sd_mds", "sd_rest", "stopped"} => dm = "stopped"
  /\ DmRoutesToListeningServers

LEMMA RoutesInit == Init => RoutesInv
<1> SUFFICES ASSUME Init PROVE RoutesInv
  OBVIOUS
<1>1. TypeOK
  BY TypeInit
<1>2. 1 \in 1..Len(ConfPorts) + 1
  BY ConfPortsAssumption
<1>3. \A i \in Servers : i < idx => srv[i].state = "listening"
  BY ServersRange DEF Init
<1>4. DmRoutesToListeningServers
  BY DEF Init, DmRoutesToListeningServers
<1>5. pc = "socks_start" /\ dm = "new" /\ idx = 1
  BY DEF Init
<1>6. QED
  BY <1>1, <1>2, <1>3, <1>4, <1>5 DEF RoutesInv

LEMMA RoutesNext == RoutesInv /\ [Next]_vars => RoutesInv'
<1> SUFFICES ASSUME RoutesInv, [Next]_vars PROVE RoutesInv'
  OBVIOUS
<1>0. TypeOK /\ TypeOK'
  BY TypeNext DEF RoutesInv
<1> USE DEF RoutesInv
(* The steps that leave srv, dm and dmPorts alone and move pc between    *)
(* places where neither loop runs.                                        *)
<1>1. ASSUME /\ UNCHANGED <<srv, dm, dmPorts>>
             /\ pc \notin {"socks_start", "sd_socks", "sd_mds", "sd_rest", "stopped"}
             /\ pc' \notin {"socks_start", "sd_socks", "sd_mds", "sd_rest", "stopped"}
      PROVE  RoutesInv'
  BY <1>0, <1>1 DEF DmRoutesToListeningServers
<1>2. CASE StartSocksServer
  <2>1. CASE StartRaises
    BY <1>0, <1>2, <2>1 DEF StartSocksServer, StartRaises, DmRoutesToListeningServers
  <2>2. CASE ~StartRaises
    <3>1. PICK p \in BindablePorts(idx) :
               /\ srv' = [srv EXCEPT ![idx] = [state |-> "listening", port |-> p]]
               /\ idx' = idx + 1
               /\ UNCHANGED <<pc, dmPorts, dm, overlay, ipv8, db, mds, checker, rest, notified>>
      BY <1>2, <2>2 DEF StartSocksServer
    <3>2. idx' \in 1..Len(ConfPorts) + 1
      BY <1>2, <3>1, ServersRange DEF StartSocksServer
    <3>3. \A i \in Servers : i < idx' => srv'[i].state = "listening"
      BY <1>0, <1>2, <3>1, ServersRange DEF StartSocksServer, TypeOK
    <3>4. QED
      BY <1>0, <1>2, <3>1, <3>2, <3>3 DEF StartSocksServer, DmRoutesToListeningServers
  <2>3. QED
    BY <2>1, <2>2
<1>3. CASE StartLibtorrent
  <2>1. idx = Len(ConfPorts) + 1
    BY <1>3 DEF StartLibtorrent
  <2>2. \A i \in Servers : srv[i].state = "listening"
    BY <1>3, <2>1, ServersRange DEF StartLibtorrent
  <2>3. DOMAIN dmPorts' = Servers /\ \A i \in Servers : dmPorts'[i] = srv[i].port
    BY <1>3 DEF StartLibtorrent
  <2>4. pc' \in {"load", "start_failed"} /\ srv' = srv
    BY <1>3 DEF StartLibtorrent
  <2>5. QED
    BY <2>2, <2>3, <2>4, <1>0 DEF DmRoutesToListeningServers
<1>4. CASE LoadLauncher
  BY <1>1, <1>4 DEF LoadLauncher
<1>5. CASE StartIPv8
  BY <1>1, <1>5 DEF StartIPv8
<1>6. CASE StartREST
  BY <1>1, <1>6 DEF StartREST
<1>7. CASE BeginShutdown
  BY <1>1, <1>7 DEF BeginShutdown
<1>8. CASE ShutdownChecker
  BY <1>1, <1>8, Zenon DEF ShutdownChecker, ShutdownRaises
<1>9. CASE ShutdownIPv8
  BY <1>1, <1>9, Zenon DEF ShutdownIPv8, ShutdownRaises
<1>10. CASE ShutdownDownloadManager
  BY <1>0, <1>10 DEF ShutdownDownloadManager, ShutdownRaises, DmRoutesToListeningServers
<1>11. CASE StopSocksServer
  BY <1>0, <1>11 DEF StopSocksServer, ShutdownRaises, DmRoutesToListeningServers
<1>12. CASE ShutdownDatabase
  BY <1>0, <1>12 DEF ShutdownDatabase, ShutdownRaises, DmRoutesToListeningServers
<1>13. CASE ShutdownMetadataStore
  BY <1>0, <1>13 DEF ShutdownMetadataStore, ShutdownRaises, DmRoutesToListeningServers
<1>14. CASE ShutdownREST
  BY <1>0, <1>14 DEF ShutdownREST, ShutdownRaises, DmRoutesToListeningServers
<1>15. CASE RequestShutdown
  BY <1>0, <1>15 DEF RequestShutdown, DmRoutesToListeningServers
<1>16. CASE UNCHANGED vars
  BY <1>0, <1>16 DEF vars, DmRoutesToListeningServers
<1>17. QED
  BY <1>2, <1>3, <1>4, <1>5, <1>6, <1>7, <1>8, <1>9, <1>10, <1>11, <1>12,
     <1>13, <1>14, <1>15, <1>16 DEF Next, SessionStep

(* libtorrent is only ever configured with SOCKS5 ports that its servers  *)
(* are listening on, for every configuration of ports.                    *)
THEOREM DmRoutes == Spec => []DmRoutesToListeningServers
<1>1. RoutesInv => DmRoutesToListeningServers
  BY DEF RoutesInv
<1>2. QED
  BY <1>1, RoutesInit, RoutesNext, PTL DEF Spec

=============================================================================
