--------------------------- MODULE LifecycleProofs ---------------------------
(***************************************************************************)
(* Proofs that Session.start()/shutdown() keep the API last and the       *)
(* databases alive while they are used, and that the Session              *)
(* specification implements the abstract SessionLifecycle, for every     *)
(* value of the constants.                                                 *)
(***************************************************************************)
EXTENDS SessionProofs

SrvAll(s) == \A i \in Servers : srv[i].state = s
NoneLoaded == \A l \in LauncherSet : overlay[l] # "loaded"
(* Where the coroutine is determines the state of every subsystem: the    *)
(* start loop has brought up the servers before idx and loaded the        *)
(* enabled launchers before idx; each shutdown phase finds the phases     *)
(* before it done.  It is the strengthening both the ordering invariants *)
(* and the refinement need, since a step's effect on the abstract ladder  *)
(* depends on what is already up.                                         *)
StageInv ==
  /\ TypeOK
  /\ (db = "None") = (mds = "None")
  /\ pc = "socks_start" =>
       /\ idx \in 1..Len(ConfPorts) + 1
       /\ \A i \in Servers : srv[i].state = IF i < idx THEN "listening" ELSE "new"
       /\ dm = "new" /\ \A l \in LauncherSet : overlay[l] = "new"
       /\ db = "None" /\ checker = "None" /\ ipv8 = "created" /\ rest = "created"
  /\ pc = "load" =>
       /\ idx \in 1..Len(Launchers) + 1
       /\ \A k \in DOMAIN Launchers : k >= idx => overlay[Launchers[k]] = "new"
       /\ db # "None" => overlay[DatabaseLauncher] = "loaded"
       /\ checker # "None" => overlay[CheckerLauncher] = "loaded"
       /\ \A k \in DOMAIN Launchers : k < idx /\ enabled[Launchers[k]] => overlay[Launchers[k]] # "new"
       /\ ipv8 = "created" /\ rest = "created"
  /\ pc \in {"load", "rest_start", "running", "sd_checker", "sd_ipv8", "sd_dm"} =>
       SrvAll("listening") /\ dm = "running"
  /\ pc \in {"load", "rest_start", "running", "sd_checker", "sd_ipv8"} =>
       \A l \in LauncherSet : overlay[l] \in {"new", "loaded"}
  /\ pc \in {"load", "rest_start", "running", "sd_checker"} => checker \in {"None", "open"}
  /\ pc \in {"load", "rest_start", "running", "sd_checker", "sd_ipv8", "sd_dm", "sd_socks"} =>
       db \in {"None", "open"} /\ mds \in {"None", "open"}
  /\ pc \in {"rest_start", "running", "sd_checker", "sd_ipv8"} => ipv8 = "running"
  /\ pc = "rest_start" => rest = "created" /\ \A l \in LauncherSet : enabled[l] => overlay[l] # "new"
  /\ pc \in {"running", "sd_checker", "sd_ipv8", "sd_dm", "sd_socks", "sd_mds", "sd_rest"} => rest = "running"
  /\ pc \in {"sd_ipv8", "sd_dm", "sd_socks", "sd_mds", "sd_rest", "stopped"} => checker # "open"
  /\ pc \in {"sd_dm", "sd_socks", "sd_mds", "sd_rest", "stopped"} => ipv8 = "stopped" /\ NoneLoaded
  /\ pc = "sd_socks" =>
       /\ idx \in 1..Len(ConfPorts) + 1
       /\ \A i \in Servers : srv[i].state = IF i < idx THEN "stopped" ELSE "listening"
  /\ pc \in {"sd_socks", "sd_mds", "sd_rest", "stopped"} => dm = "stopped"
  /\ pc \in {"sd_mds", "sd_rest", "stopped"} => SrvAll("stopped") /\ db # "open"
  /\ pc = "sd_mds" => mds \in {"None", "open"}
  /\ pc \in {"sd_rest", "stopped"} => mds # "open"
  /\ pc = "stopped" => rest = "stopped"
  /\ ApiStartsLast
  /\ DatabasesOutliveUsers

-----------------------------------------------------------------------------
LEMMA StageInit == Init => StageInv
<1> SUFFICES ASSUME Init PROVE StageInv
  OBVIOUS
<1>1. TypeOK
  BY TypeInit
<1>2. \A i \in Servers : srv[i].state = IF i < idx THEN "listening" ELSE "new"
  BY ServersRange DEF Init
<1>3. idx \in 1..Len(ConfPorts) + 1
  BY ConfPortsAssumption DEF Init
<1>4. /\ pc = "socks_start" /\ dm = "new" /\ db = "None" /\ mds = "None"
      /\ checker = "None" /\ ipv8 = "created" /\ rest = "created"
      /\ \A l \in LauncherSet : overlay[l] = "new"
  BY DEF Init
<1>5. ApiStartsLast /\ DatabasesOutliveUsers
  BY <1>4 DEF ApiStartsLast, DatabasesOutliveUsers
<1>6. QED
  BY <1>2, <1>3, <1>4, <1>5, <1>1 DEF StageInv

(* A call that raises ends the coroutine and changes no subsystem.         *)
LEMMA StageFail ==
  ASSUME StageInv, TypeOK', pc' \in {"start_failed", "shutdown_failed"},
         UNCHANGED <<srv, dm, enabled, overlay, ipv8, db, mds, checker, rest>>
  PROVE  StageInv'
<1>1. ApiStartsLast' /\ DatabasesOutliveUsers'
  BY DEF StageInv, ApiStartsLast, DatabasesOutliveUsers
<1>2. QED
  BY <1>1 DEF StageInv

LEMMA StageNext == StageInv /\ [Next]_vars => StageInv'
<1> SUFFICES ASSUME StageInv, [Next]_vars PROVE StageInv'
  OBVIOUS
<1>0. TypeOK /\ TypeOK'
  BY TypeNext DEF StageInv
<1>1. CASE StartSocksServer
  <2>1. CASE /\ \E p \in BindablePorts(idx) :
                  srv' = [srv EXCEPT ![idx] = [state |-> "listening", port |-> p]]
             /\ idx' = idx + 1
             /\ UNCHANGED <<pc, dmPorts, dm, overlay, ipv8, db, mds, checker, rest, notified>>
    <3>1. pc = "socks_start" /\ idx \in 1..Len(ConfPorts)
      BY <1>1, ServersRange DEF StartSocksServer
    <3>2. idx' \in 1..Len(ConfPorts) + 1
      BY <2>1, <3>1
    <3>3. \A i \in Servers : srv'[i].state = IF i < idx' THEN "listening" ELSE "new"
      BY <1>0, <2>1, <3>1, ServersRange DEF StageInv, TypeOK
    <3>4. QED
      BY <1>0, <2>1, <3>1, <3>2, <3>3 DEF StageInv, SrvAll, NoneLoaded, ApiStartsLast, DatabasesOutliveUsers
  <2>2. CASE StartRaises
    BY <1>0, <1>1, <2>2, StageFail DEF StartSocksServer, StartRaises
  <2>3. QED
    BY <1>1, <2>1, <2>2 DEF StartSocksServer
<1>2. CASE StartLibtorrent
  <2>1. pc = "socks_start" /\ idx > Len(ConfPorts)
    BY <1>2 DEF StartLibtorrent
  <2>2. SrvAll("listening")
    BY <2>1, ServersRange DEF StageInv, SrvAll
  <2>3. CASE dm' = "running" /\ pc' = "load" /\ idx' = 1
    BY <1>0, <1>2, <2>1, <2>2, <2>3, LaunchersAssumption DEF StageInv, SrvAll, NoneLoaded, ApiStartsLast, DatabasesOutliveUsers, StartLibtorrent
  <2>4. CASE dm' \in {"new", "running"} /\ pc' = "start_failed" /\ UNCHANGED idx
    BY <1>0, <1>2, <2>1, <2>4 DEF StageInv, SrvAll, NoneLoaded, ApiStartsLast, DatabasesOutliveUsers, StartLibtorrent
  <2>5. QED
    BY <1>2, <2>3, <2>4 DEF StartLibtorrent
<1>3. CASE LoadLauncher
  <2> DEFINE l == Launchers[idx]
  <2>1. pc = "load" /\ idx \in 1..Len(Launchers) /\ l \in LauncherSet
    BY <1>3, LaunchersAssumption DEF LoadLauncher, LauncherSet
  <2>2. \A k \in DOMAIN Launchers : k > idx => Launchers[k] # l
    BY <2>1, LaunchersAssumption
  <2>3. CASE ~enabled[l] /\ idx' = idx + 1 /\ UNCHANGED <<pc, overlay, db, mds, checker>>
    BY <1>0, <1>3, <2>1, <2>3, LaunchersAssumption DEF StageInv, SrvAll, NoneLoaded, ApiStartsLast, DatabasesOutliveUsers, LoadLauncher
  <2>4. CASE /\ enabled[l]
             /\ overlay' = [overlay EXCEPT ![l] = "loaded"]
             /\ db' = IF l = DatabaseLauncher THEN "open" ELSE db
             /\ mds' = IF l = DatabaseLauncher THEN "open" ELSE mds
             /\ checker' = IF l = CheckerLauncher THEN "open" ELSE checker
             /\ idx' = idx + 1
             /\ UNCHANGED pc
    <3>1. \A k \in DOMAIN Launchers : k >= idx' => overlay'[Launchers[k]] = "new"
      BY <1>0, <2>1, <2>2, <2>4, LaunchersAssumption DEF StageInv, TypeOK
    <3>2. \A k \in DOMAIN Launchers : k < idx' /\ enabled'[Launchers[k]] => overlay'[Launchers[k]] # "new"
      BY <1>0, <1>3, <2>1, <2>4, LaunchersAssumption DEF StageInv, TypeOK, LoadLauncher
    <3>3. /\ db' # "None" => overlay'[DatabaseLauncher] = "loaded"
          /\ checker' # "None" => overlay'[CheckerLauncher] = "loaded"
      BY <1>0, <2>1, <2>4, LaunchersAssumption DEF StageInv, TypeOK
    <3>4. QED
      BY <1>0, <1>3, <2>1, <2>4, <3>1, <3>2, <3>3 DEF StageInv, SrvAll, NoneLoaded, ApiStartsLast, DatabasesOutliveUsers, LoadLauncher
  <2>5. CASE enabled[l] /\ pc' = "start_failed" /\ UNCHANGED <<idx, overlay, db, mds, checker>>
    BY <1>0, <1>3, <2>5, StageFail DEF LoadLauncher
  <2>6. QED
    BY <1>3, <2>3, <2>4, <2>5 DEF LoadLauncher
<1>4. CASE StartIPv8
  <2>1. CASE ipv8' = "running" /\ pc' = "rest_start"
    <3>1. pc = "load" /\ idx > Len(Launchers)
      BY <1>4 DEF StartIPv8
    <3>2. \A l \in LauncherSet : enabled[l] => overlay[l] # "new"
      BY <3>1, LaunchersAssumption DEF StageInv, LauncherSet
    <3>3. QED
      BY <1>0, <1>4, <2>1, <3>1, <3>2 DEF StageInv, SrvAll, NoneLoaded, ApiStartsLast, DatabasesOutliveUsers, StartIPv8
  <2>2. CASE pc' = "start_failed" /\ UNCHANGED ipv8
    BY <1>0, <1>4, <2>2, StageFail DEF StartIPv8
  <2>3. QED
    BY <1>4, <2>1, <2>2 DEF StartIPv8
<1>5. CASE StartREST
  BY <1>0, <1>5 DEF StageInv, SrvAll, NoneLoaded, ApiStartsLast, DatabasesOutliveUsers, StartREST, StartRaises
<1>6. CASE RequestShutdown
  BY <1>0, <1>6 DEF StageInv, SrvAll, NoneLoaded, ApiStartsLast, DatabasesOutliveUsers, RequestShutdown
<1>7. CASE BeginShutdown
  BY <1>0, <1>7 DEF StageInv, SrvAll, NoneLoaded, ApiStartsLast, DatabasesOutliveUsers, BeginShutdown
<1>8. CASE ShutdownChecker
  BY <1>0, <1>8 DEF StageInv, SrvAll, NoneLoaded, ApiStartsLast, DatabasesOutliveUsers, ShutdownChecker, ShutdownRaises, Announce
<1>9. CASE ShutdownIPv8
  BY <1>0, <1>9 DEF StageInv, SrvAll, NoneLoaded, ApiStartsLast, DatabasesOutliveUsers, ShutdownIPv8, ShutdownRaises, Announce
<1>10. CASE ShutdownDownloadManager
  <2>1. CASE /\ dm' = "stopped"
             /\ notified' = notified \o <<"dm", "socks">>
             /\ pc' = "sd_socks" /\ idx' = 1
    <3>1. pc = "sd_dm"
      BY <1>10 DEF ShutdownDownloadManager
    <3>2. \A i \in Servers : srv'[i].state = IF i < idx' THEN "stopped" ELSE "listening"
      BY <1>10, <2>1, <3>1, ServersRange DEF StageInv, SrvAll, ShutdownDownloadManager
    <3>3. QED
      BY <1>0, <1>10, <2>1, <3>1, <3>2, ConfPortsAssumption DEF StageInv, SrvAll, NoneLoaded, ApiStartsLast, DatabasesOutliveUsers, ShutdownDownloadManager
  <2>2. CASE ShutdownRaises /\ Announce("dm") /\ UNCHANGED <<dm, idx>>
    BY <1>0, <1>10, <2>2, StageFail DEF ShutdownDownloadManager, ShutdownRaises
  <2>3. QED
    BY <1>10, <2>1, <2>2 DEF ShutdownDownloadManager
<1>11. CASE StopSocksServer
  <2>1. CASE srv' = [srv EXCEPT ![idx].state = "stopped"] /\ idx' = idx + 1 /\ UNCHANGED pc
    <3>1. pc = "sd_socks" /\ idx \in 1..Len(ConfPorts)
      BY <1>11, ServersRange DEF StopSocksServer
    <3>2. \A i \in Servers : srv'[i].state = IF i < idx' THEN "stopped" ELSE "listening"
      BY <1>0, <2>1, <3>1, ServersRange DEF StageInv, TypeOK
    <3>3. QED
      BY <1>0, <1>11, <2>1, <3>1, <3>2 DEF StageInv, SrvAll, NoneLoaded, ApiStartsLast, DatabasesOutliveUsers, StopSocksServer
  <2>2. CASE ShutdownRaises /\ UNCHANGED <<srv, idx>>
    BY <1>0, <1>11, <2>2, StageFail DEF StopSocksServer, ShutdownRaises
  <2>3. QED
    BY <1>11, <2>1, <2>2 DEF StopSocksServer
<1>12. CASE ShutdownDatabase
  <2>1. pc = "sd_socks" /\ idx > Len(ConfPorts)
    BY <1>12 DEF ShutdownDatabase
  <2>2. SrvAll("stopped")
    BY <2>1, ServersRange DEF StageInv, SrvAll
  <2>3. QED
    BY <1>0, <1>12, <2>1, <2>2 DEF StageInv, SrvAll, NoneLoaded, ApiStartsLast, DatabasesOutliveUsers, ShutdownDatabase, ShutdownRaises, Announce
<1>13. CASE ShutdownMetadataStore
  BY <1>0, <1>13 DEF StageInv, SrvAll, NoneLoaded, ApiStartsLast, DatabasesOutliveUsers, ShutdownMetadataStore, ShutdownRaises, Announce
<1>14. CASE ShutdownREST
  BY <1>0, <1>14 DEF StageInv, SrvAll, NoneLoaded, ApiStartsLast, DatabasesOutliveUsers, ShutdownREST, ShutdownRaises, Announce
<1>15. CASE UNCHANGED vars
  BY <1>0, <1>15 DEF StageInv, SrvAll, NoneLoaded, ApiStartsLast, DatabasesOutliveUsers, vars
<1>16. QED
  BY <1>1, <1>2, <1>3, <1>4, <1>5, <1>6, <1>7, <1>8, <1>9, <1>10, <1>11, <1>12, <1>13, <1>14, <1>15 DEF Next, SessionStep

(* Every reachable state is at a stage StageInv describes.                *)
THEOREM StageInvariant == Spec => []StageInv
  BY StageInit, StageNext, PTL DEF Spec

(* The REST API, which lets clients observe the session, only runs once  *)
(* every SOCKS5 server, libtorrent, every enabled community and IPv8 have *)
(* been started (Session.start() awaits rest_manager.start() last).       *)
THEOREM ApiLast == Spec => []ApiStartsLast
<1>1. StageInv => ApiStartsLast
  BY DEF StageInv
<1>2. QED
  BY <1>1, StageInvariant, PTL

(* session.db and session.mds are closed only after the torrent checker   *)
(* and every community have stopped (Session.shutdown() awaits ipv8.stop() *)
(* before db.shutdown()).                                                  *)
THEOREM DatabasesLast == Spec => []DatabasesOutliveUsers
<1>1. StageInv => DatabasesOutliveUsers
  BY DEF StageInv
<1>2. QED
  BY <1>1, StageInvariant, PTL

-----------------------------------------------------------------------------
(* The refinement: the initial state maps to the abstract initial state.  *)
LEMMA AbsInit == Init => Lifecycle!Init
<1> SUFFICES ASSUME Init PROVE Lifecycle!Init
  OBVIOUS
<1>1. AbsPhase = "starting"
  BY DEF Init, AbsPhase
<1>2. \A i \in Servers : srv[i].state = "new"
  BY DEF Init
<1>3. AbsSt = [s \in Lifecycle!Subsystems |-> "new"]
  BY <1>2 DEF Init, AbsSt, StateOf, Lifecycle!Subsystems
<1>4. QED
  BY <1>1, <1>3 DEF Init, Lifecycle!Init

(* Lifecycle!Fail: a raising call changes no subsystem.                    *)
LEMMA AbsFail ==
  ASSUME pc \in {"socks_start", "load", "rest_start", "sd_checker", "sd_ipv8", "sd_dm",
               "sd_socks", "sd_mds", "sd_rest"},
         pc' \in {"start_failed", "shutdown_failed"},
         UNCHANGED <<srv, dm, overlay, ipv8, db, mds, checker, rest, shutdownEvent>>
  PROVE  Lifecycle!Next
<1>1. Lifecycle!Fail
  BY DEF Lifecycle!Fail, AbsSt, AbsPhase, StateOf, Lifecycle!Subsystems
<1>2. QED
  BY <1>1 DEF Lifecycle!Next

(* A step that moves nothing the lifecycle sees is a stutter of it.        *)
LEMMA AbsStutter ==
  ASSUME AbsPhase' = AbsPhase, UNCHANGED shutdownEvent,
         \A s \in Lifecycle!Subsystems : AbsSt'[s] = AbsSt[s]
  PROVE  UNCHANGED Lifecycle!vars
  BY DEF AbsSt, Lifecycle!vars, Lifecycle!Subsystems

(* Every step of the coroutine is a step of the lifecycle or a stutter.    *)
LEMMA AbsNext == StageInv /\ [Next]_vars => [Lifecycle!Next]_Lifecycle!vars
<1> SUFFICES ASSUME StageInv, [Next]_vars PROVE [Lifecycle!Next]_Lifecycle!vars
  OBVIOUS
<1>0. TypeOK /\ TypeOK'
  BY TypeNext DEF StageInv
<1>1. CASE StartSocksServer
  <2>1. CASE /\ \E p \in BindablePorts(idx) :
                  srv' = [srv EXCEPT ![idx] = [state |-> "listening", port |-> p]]
             /\ idx' = idx + 1
             /\ UNCHANGED <<pc, dmPorts, dm, overlay, ipv8, db, mds, checker, rest, notified>>
    <3>1. pc = "socks_start" /\ idx \in 1..Len(ConfPorts)
      BY <1>1, ServersRange DEF StartSocksServer
    <3>2. \A i \in Servers : srv'[i].state = IF i < idx + 1 THEN "listening" ELSE "new"
      BY <1>0, <2>1, <3>1, ServersRange DEF StageInv, TypeOK
    <3>3. CASE idx = 1
      <4>1. Lifecycle!Start({"socks"}, 1)
        BY <1>1, <2>1, <3>1, <3>2, <3>3, ServersRange DEF StageInv, StartSocksServer, Lifecycle!Start, Lifecycle!StartRank, AbsSt, AbsPhase, StateOf, Lifecycle!Subsystems
      <4>2. QED
        BY <4>1 DEF Lifecycle!Next, Lifecycle!Subsystems
    <3>4. CASE idx # 1
      <4>1. srv[1].state = "listening" /\ srv'[1].state = "listening" /\ 1 \in Servers
        BY <3>1, <3>2, <3>4, ServersRange DEF StageInv
      <4>2. QED
        BY <1>1, <2>1, <4>1, AbsStutter DEF StartSocksServer, AbsSt, AbsPhase, StateOf, Lifecycle!Subsystems
    <3>5. QED
      BY <3>3, <3>4
  <2>2. CASE StartRaises
    BY <1>1, <2>2, AbsFail DEF StartSocksServer, StartRaises
  <2>3. QED
    BY <1>1, <2>1, <2>2 DEF StartSocksServer
<1>2. CASE StartLibtorrent
  <2>1. pc = "socks_start" /\ idx > Len(ConfPorts)
    BY <1>2 DEF StartLibtorrent
  <2>2. SrvAll("listening") /\ dm = "new"
    BY <2>1, ServersRange DEF StageInv, SrvAll
  <2>3. CASE dm' = "running"
    <3>1. Lifecycle!Start({"dm"}, 2)
      BY <1>2, <2>1, <2>2, <2>3 DEF StageInv, SrvAll, StartLibtorrent, Lifecycle!Start, Lifecycle!StartRank, AbsSt, AbsPhase, StateOf, Lifecycle!Subsystems
    <3>2. QED
      BY <3>1 DEF Lifecycle!Next, Lifecycle!Subsystems
  <2>4. CASE dm' = "new"
    BY <1>2, <2>1, <2>2, <2>4, AbsFail DEF StartLibtorrent
  <2>5. QED
    BY <1>2, <2>3, <2>4 DEF StartLibtorrent
<1>3. CASE LoadLauncher
  <2> DEFINE l == Launchers[idx]
             Sub == Lifecycle!Subsystems
  <2>1. /\ pc = "load" /\ idx \in 1..Len(Launchers) /\ l \in LauncherSet
        /\ overlay[l] = "new" /\ ipv8 = "created" /\ rest = "created"
    BY <1>3, LaunchersAssumption DEF LoadLauncher, LauncherSet, StageInv
  <2>2. CASE ~enabled[l] /\ idx' = idx + 1 /\ UNCHANGED <<pc, overlay, db, mds, checker>>
    BY <1>3, <2>2, AbsStutter DEF LoadLauncher, AbsSt, AbsPhase, StateOf, Lifecycle!Subsystems
  <2>3. CASE /\ enabled[l]
             /\ overlay' = [overlay EXCEPT ![l] = "loaded"]
             /\ db' = IF l = DatabaseLauncher THEN "open" ELSE db
             /\ mds' = IF l = DatabaseLauncher THEN "open" ELSE mds
             /\ checker' = IF l = CheckerLauncher THEN "open" ELSE checker
             /\ idx' = idx + 1
             /\ UNCHANGED pc
    <3> DEFINE T == {s \in Sub : AbsSt'[s] # AbsSt[s]}
    <3>1. UNCHANGED <<srv, dm, ipv8, rest, shutdownEvent>> /\ AbsPhase' = AbsPhase
      BY <1>3, <2>1, <2>3 DEF LoadLauncher, AbsPhase
    <3>2. \A s \in Sub \ {"overlays", "db", "mds", "checker"} : AbsSt'[s] = AbsSt[s]
      BY <3>1 DEF AbsSt, AbsPhase, StateOf, Lifecycle!Subsystems
    <3>3. /\ (l = DatabaseLauncher => db = "None" /\ mds = "None")
          /\ (l = CheckerLauncher => checker = "None")
          /\ \A k \in LauncherSet : overlay[k] \in {"new", "loaded"}
      BY <2>1 DEF StageInv, LauncherSet
    <3>4. \A s \in {"overlays", "db", "mds", "checker"} :
             AbsSt'[s] = AbsSt[s] \/ (AbsSt[s] = "new" /\ AbsSt'[s] = "up")
      <4>1. AbsSt'["overlays"] = "up"
        BY <1>0, <2>1, <2>3 DEF TypeOK, AbsSt, AbsPhase, StateOf, Lifecycle!Subsystems
      <4>2. AbsSt["overlays"] \in {"new", "up"}
        BY <3>3 DEF AbsSt, AbsPhase, StateOf, Lifecycle!Subsystems
      <4>3. AbsSt'["db"] = AbsSt["db"] \/ (AbsSt["db"] = "new" /\ AbsSt'["db"] = "up")
        BY <2>3, <3>3 DEF AbsSt, AbsPhase, StateOf, Lifecycle!Subsystems
      <4>4. AbsSt'["mds"] = AbsSt["mds"] \/ (AbsSt["mds"] = "new" /\ AbsSt'["mds"] = "up")
        BY <2>3, <3>3 DEF AbsSt, AbsPhase, StateOf, Lifecycle!Subsystems
      <4>5. AbsSt'["checker"] = AbsSt["checker"] \/ (AbsSt["checker"] = "new" /\ AbsSt'["checker"] = "up")
        BY <2>3, <3>3 DEF AbsSt, AbsPhase, StateOf, Lifecycle!Subsystems
      <4>6. QED
        BY <4>1, <4>2, <4>3, <4>4, <4>5
    <3>5. \A s \in T : AbsSt[s] = "new" /\ AbsSt'[s] = "up" /\ Lifecycle!StartRank[s] = 3
      BY <3>2, <3>4 DEF Lifecycle!StartRank, Lifecycle!Subsystems
    <3>6. CASE T = {}
      BY <3>1, <3>6, AbsStutter
    <3>7. CASE T # {}
      <4>1. AbsSt' = [s \in Sub |-> IF s \in T THEN "up" ELSE AbsSt[s]]
        <5>1. \A s \in Sub : AbsSt'[s] = IF s \in T THEN "up" ELSE AbsSt[s]
          BY <3>5
        <5>2. AbsSt' = [s \in Sub |-> AbsSt'[s]]
          BY DEF AbsSt, AbsPhase, StateOf, Lifecycle!Subsystems
        <5>3. QED
          BY <5>1, <5>2
      <4>2. \A s \in Sub : Lifecycle!StartRank[s] > 3 => AbsSt[s] = "new"
        BY <2>1 DEF Lifecycle!StartRank, AbsSt, AbsPhase, StateOf, Lifecycle!Subsystems
      <4>3. Lifecycle!Start(T, 3)
        BY <2>1, <3>1, <3>2, <3>5, <3>7, <4>1, <4>2 DEF Lifecycle!Start, AbsPhase
      <4>4. QED
        BY <4>3 DEF Lifecycle!Next, Lifecycle!Subsystems
    <3>8. QED
      BY <3>6, <3>7
  <2>4. CASE enabled[l] /\ pc' = "start_failed" /\ UNCHANGED <<idx, overlay, db, mds, checker>>
    BY <1>3, <2>1, <2>4, AbsFail DEF LoadLauncher
  <2>5. QED
    BY <1>3, <2>2, <2>3, <2>4 DEF LoadLauncher
<1>4. CASE StartIPv8
  <2>1. CASE ipv8' = "running" /\ pc' = "rest_start"
    <3>1. Lifecycle!Start({"ipv8"}, 4)
      BY <1>4, <2>1 DEF StageInv, StartIPv8, Lifecycle!Start, Lifecycle!StartRank, AbsSt, AbsPhase, StateOf, Lifecycle!Subsystems
    <3>2. QED
      BY <3>1 DEF Lifecycle!Next, Lifecycle!Subsystems
  <2>2. CASE pc' = "start_failed" /\ UNCHANGED ipv8
    BY <1>4, <2>2, AbsFail DEF StartIPv8
  <2>3. QED
    BY <1>4, <2>1, <2>2 DEF StartIPv8
<1>5. CASE StartREST
  <2>1. CASE rest' = "running" /\ pc' = "running"
    <3>1. pc = "rest_start" /\ dm = "running" /\ ipv8 = "running" /\ rest = "created"
      BY <1>5 DEF StageInv, StartREST
    <3>2. AbsSt' = [AbsSt EXCEPT !["rest"] = "up"]
      BY <1>5, <2>1, <3>1 DEF StartREST, AbsSt, AbsPhase, StateOf, Lifecycle!Subsystems
    <3>3. AbsSt["rest"] = "new" /\ AbsSt["dm"] = "up" /\ AbsSt["ipv8"] = "up"
      BY <3>1 DEF AbsSt, AbsPhase, StateOf, Lifecycle!Subsystems
    <3>4. Lifecycle!Open
      BY <1>5, <2>1, <3>1, <3>2, <3>3 DEF StartREST, Lifecycle!Open, AbsPhase
    <3>5. QED
      BY <3>4 DEF Lifecycle!Next
  <2>2. CASE pc' = "start_failed" /\ UNCHANGED rest
    BY <1>5, <2>2, AbsFail DEF StartREST
  <2>3. QED
    BY <1>5, <2>1, <2>2 DEF StartREST
<1>6. CASE RequestShutdown
  <2>1. Lifecycle!Request
    BY <1>6 DEF RequestShutdown, Lifecycle!Request, AbsSt, AbsPhase, StateOf, Lifecycle!Subsystems
  <2>2. QED
    BY <2>1 DEF Lifecycle!Next
<1>7. CASE BeginShutdown
  <2>1. Lifecycle!BeginStop
    BY <1>7 DEF BeginShutdown, Lifecycle!BeginStop, AbsSt, AbsPhase, StateOf, Lifecycle!Subsystems
  <2>2. QED
    BY <2>1 DEF Lifecycle!Next
<1>8. CASE ShutdownChecker
  <2>0. CASE checker = "None" /\ pc' = "sd_ipv8" /\ UNCHANGED <<checker, notified>>
    BY <1>8, <2>0, AbsStutter DEF ShutdownChecker, AbsSt, AbsPhase, StateOf, Lifecycle!Subsystems
  <2>1. pc = "sd_checker" /\ (checker # "None" => checker = "open")
    BY <1>8 DEF StageInv, SrvAll, NoneLoaded, ShutdownChecker
  <2>2. CASE checker' = "closed"
    <3>1. Lifecycle!Stop({"checker"}, 1)
      BY <1>8, <2>1, <2>2 DEF ShutdownChecker, Announce, Lifecycle!Stop, Lifecycle!StopRank, AbsSt, AbsPhase, StateOf, Lifecycle!Subsystems
    <3>2. QED
      BY <3>1 DEF Lifecycle!Next, Lifecycle!Subsystems
  <2>3. CASE ShutdownRaises /\ UNCHANGED checker
    BY <1>8, <2>1, <2>3, AbsFail DEF ShutdownChecker, ShutdownRaises, Announce
  <2>4. QED
    BY <1>8, <2>2, <2>3, <2>0 DEF ShutdownChecker
<1>9. CASE ShutdownIPv8
  <2>1. /\ pc = "sd_ipv8" /\ ipv8 = "running" /\ checker # "open"
        /\ \A l \in LauncherSet : overlay[l] \in {"new", "loaded"}
    BY <1>9 DEF StageInv, ShutdownIPv8
  <2>2. CASE /\ ipv8' = "stopped"
             /\ overlay' = [l \in LauncherSet |-> IF overlay[l] = "loaded" THEN "unloaded" ELSE overlay[l]]
             /\ pc' = "sd_dm"
    <3>1. UNCHANGED <<srv, dm, db, mds, checker, rest, shutdownEvent>> /\ AbsPhase' = AbsPhase
      BY <1>9, <2>1, <2>2 DEF ShutdownIPv8, AbsPhase
    <3>2. CASE \E l \in LauncherSet : overlay[l] = "loaded"
      <4>1. Lifecycle!Stop({"ipv8", "overlays"}, 2)
        BY <2>1, <2>2, <3>1, <3>2 DEF Lifecycle!Stop, Lifecycle!StopRank, AbsSt, AbsPhase, StateOf, Lifecycle!Subsystems
      <4>2. QED
        BY <4>1 DEF Lifecycle!Next, Lifecycle!Subsystems
    <3>3. CASE ~\E l \in LauncherSet : overlay[l] = "loaded"
      <4>1. overlay' = overlay
        BY <1>0, <2>2, <3>3 DEF TypeOK
      <4>2. Lifecycle!Stop({"ipv8"}, 2)
        BY <2>1, <2>2, <3>1, <3>3, <4>1 DEF Lifecycle!Stop, Lifecycle!StopRank, AbsSt, AbsPhase, StateOf, Lifecycle!Subsystems
      <4>3. QED
        BY <4>2 DEF Lifecycle!Next, Lifecycle!Subsystems
    <3>4. QED
      BY <3>2, <3>3
  <2>3. CASE ShutdownRaises /\ UNCHANGED <<ipv8, overlay>>
    BY <1>9, <2>1, <2>3, AbsFail DEF ShutdownIPv8, ShutdownRaises, Announce
  <2>4. QED
    BY <1>9, <2>2, <2>3 DEF ShutdownIPv8
<1>10. CASE ShutdownDownloadManager
  <2>1. pc = "sd_dm" /\ dm = "running" /\ ipv8 = "stopped" /\ NoneLoaded /\ checker # "open"
    BY <1>10 DEF StageInv, SrvAll, NoneLoaded, ShutdownDownloadManager
  <2>2. CASE dm' = "stopped"
    <3>0. pc' = "sd_socks" /\ UNCHANGED <<srv, overlay, ipv8, db, mds, checker, rest, shutdownEvent>>
      BY <1>10, <2>1, <2>2 DEF ShutdownDownloadManager, Announce
    <3>1. Lifecycle!Stop({"dm"}, 3)
      BY <2>1, <2>2, <3>0 DEF SrvAll, NoneLoaded, Lifecycle!Stop, Lifecycle!StopRank, AbsSt, AbsPhase, StateOf, Lifecycle!Subsystems
    <3>2. QED
      BY <3>1 DEF Lifecycle!Next, Lifecycle!Subsystems
  <2>3. CASE ShutdownRaises /\ UNCHANGED dm
    BY <1>10, <2>1, <2>3, AbsFail DEF ShutdownDownloadManager, ShutdownRaises, Announce
  <2>4. QED
    BY <1>10, <2>2, <2>3 DEF ShutdownDownloadManager
<1>11. CASE StopSocksServer
  <2>1. /\ pc = "sd_socks" /\ idx \in 1..Len(ConfPorts)
        /\ \A i \in Servers : srv[i].state = IF i < idx THEN "stopped" ELSE "listening"
        /\ dm = "stopped" /\ ipv8 = "stopped" /\ NoneLoaded /\ checker # "open"
    BY <1>11, ServersRange DEF StageInv, StopSocksServer
  <2>2. CASE srv' = [srv EXCEPT ![idx].state = "stopped"] /\ idx' = idx + 1 /\ UNCHANGED pc
    <3>1. UNCHANGED <<dm, overlay, ipv8, db, mds, checker, rest, shutdownEvent>> /\ AbsPhase' = AbsPhase
      BY <1>11, <2>1, <2>2 DEF StopSocksServer, AbsPhase
    <3>2. \A i \in Servers : srv'[i].state = IF i < idx + 1 THEN "stopped" ELSE "listening"
      <4>1. idx \in Servers /\ srv \in [Servers -> [state : {"new", "listening", "stopped"}, port : Nat]]
        BY <1>0, <2>1, ServersRange DEF TypeOK
      <4> TAKE i \in Servers
      <4>2. CASE i = idx
        <5>1. srv'[i].state = "stopped"
          BY <2>2, <4>1, <4>2
        <5>2. i < idx + 1
          BY <2>1, <4>2
        <5>. QED
          BY <5>1, <5>2
      <4>3. CASE i # idx
        <5>1. srv'[i].state = srv[i].state
          BY <2>2, <4>1, <4>3
        <5>. QED
          BY <2>1, <4>1, <4>3, <5>1, ServersRange
      <4>. QED
        BY <4>2, <4>3
    <3>3. CASE idx = Len(ConfPorts)
      <4>1. Lifecycle!Stop({"socks"}, 4)
        BY <2>1, <3>1, <3>2, <3>3, ServersRange DEF NoneLoaded, Lifecycle!Stop, Lifecycle!StopRank, AbsSt, AbsPhase, StateOf, Lifecycle!Subsystems
      <4>2. QED
        BY <4>1 DEF Lifecycle!Next, Lifecycle!Subsystems
    <3>4. CASE idx # Len(ConfPorts)
      <4>1. idx + 1 \in Servers /\ srv[idx + 1].state = "listening" /\ srv'[idx + 1].state = "listening"
        BY <2>1, <3>2, <3>4, ServersRange
      <4>2. QED
        BY <3>1, <4>1, AbsStutter DEF AbsSt, AbsPhase, StateOf, Lifecycle!Subsystems
    <3>5. QED
      BY <3>3, <3>4
  <2>3. CASE ShutdownRaises /\ UNCHANGED <<srv, idx>>
    BY <1>11, <2>1, <2>3, AbsFail DEF StopSocksServer, ShutdownRaises
  <2>4. QED
    BY <1>11, <2>2, <2>3 DEF StopSocksServer
<1>12. CASE ShutdownDatabase
  <2>0. CASE db = "None" /\ pc' = "sd_mds" /\ UNCHANGED <<db, notified>>
    BY <1>12, <2>0, AbsStutter DEF ShutdownDatabase, AbsSt, AbsPhase, StateOf, Lifecycle!Subsystems
  <2>1. pc = "sd_socks" /\ SrvAll("stopped") /\ (db # "None" => db = "open") /\ dm = "stopped" /\ ipv8 = "stopped" /\ NoneLoaded /\ checker # "open"
    BY <1>12, ServersRange DEF StageInv, SrvAll, NoneLoaded, ShutdownDatabase
  <2>2. CASE db' = "closed"
    <3>0. db = "open" /\ pc' = "sd_mds" /\ UNCHANGED <<srv, dm, overlay, ipv8, mds, checker, rest, shutdownEvent>>
      BY <1>12, <2>1, <2>2 DEF ShutdownDatabase, Announce
    <3>1. Lifecycle!Stop({"db"}, 5)
      BY <2>1, <2>2, <3>0 DEF SrvAll, NoneLoaded, Lifecycle!Stop, Lifecycle!StopRank, AbsSt, AbsPhase, StateOf, Lifecycle!Subsystems
    <3>2. QED
      BY <3>1 DEF Lifecycle!Next, Lifecycle!Subsystems
  <2>3. CASE ShutdownRaises /\ UNCHANGED db
    BY <1>12, <2>1, <2>3, AbsFail DEF ShutdownDatabase, ShutdownRaises, Announce
  <2>4. QED
    BY <1>12, <2>2, <2>3, <2>0 DEF ShutdownDatabase
<1>13. CASE ShutdownMetadataStore
  <2>0. CASE mds = "None" /\ pc' = "sd_rest" /\ UNCHANGED <<mds, notified>>
    BY <1>13, <2>0, AbsStutter DEF ShutdownMetadataStore, AbsSt, AbsPhase, StateOf, Lifecycle!Subsystems
  <2>1. pc = "sd_mds" /\ SrvAll("stopped") /\ (mds # "None" => mds = "open") /\ db # "open" /\ dm = "stopped" /\ ipv8 = "stopped" /\ NoneLoaded /\ checker # "open"
    BY <1>13 DEF StageInv, SrvAll, NoneLoaded, ShutdownMetadataStore
  <2>2. CASE mds' = "closed"
    <3>0. mds = "open" /\ pc' = "sd_rest" /\ UNCHANGED <<srv, dm, overlay, ipv8, db, checker, rest, shutdownEvent>>
      BY <1>13, <2>1, <2>2 DEF ShutdownMetadataStore, Announce
    <3>1. Lifecycle!Stop({"mds"}, 6)
      <4>1. AbsSt["mds"] = "up" /\ AbsPhase = "stopping" /\ AbsPhase' = "stopping"
        BY <2>1, <3>0 DEF AbsSt, AbsPhase, StateOf, Lifecycle!Subsystems
      <4>2. \A s \in Lifecycle!Subsystems : Lifecycle!StopRank[s] < 6 => AbsSt[s] # "up"
        BY <2>1 DEF SrvAll, NoneLoaded, Lifecycle!StopRank, AbsSt, AbsPhase, StateOf, Lifecycle!Subsystems
      <4>3. AbsSt' = [s \in Lifecycle!Subsystems |-> IF s \in {"mds"} THEN "down" ELSE AbsSt[s]]
        BY <2>2, <3>0 DEF AbsSt, AbsPhase, StateOf, Lifecycle!Subsystems
      <4>4. QED
        BY <3>0, <4>1, <4>2, <4>3 DEF Lifecycle!Stop, Lifecycle!StopRank
    <3>2. QED
      BY <3>1 DEF Lifecycle!Next, Lifecycle!Subsystems
  <2>3. CASE ShutdownRaises /\ UNCHANGED mds
    BY <1>13, <2>1, <2>3, AbsFail DEF ShutdownMetadataStore, ShutdownRaises, Announce
  <2>4. QED
    BY <1>13, <2>2, <2>3, <2>0 DEF ShutdownMetadataStore
<1>14. CASE ShutdownREST
  <2>1. /\ pc = "sd_rest" /\ rest = "running" /\ SrvAll("stopped") /\ db # "open" /\ mds # "open"
        /\ dm = "stopped" /\ ipv8 = "stopped" /\ NoneLoaded /\ checker # "open"
    BY <1>14 DEF StageInv, ShutdownREST
  <2>2. CASE rest' = "stopped" /\ pc' = "stopped"
    <3>1. AbsSt' = [AbsSt EXCEPT !["rest"] = "down"]
      <4>1. UNCHANGED <<srv, dm, enabled, overlay, ipv8, db, mds, checker>>
        BY <1>14 DEF ShutdownREST
      <4>2. AbsSt'["rest"] = "down"
        BY <2>2 DEF AbsSt, StateOf
      <4>3. \A s \in Lifecycle!Subsystems \ {"rest"} : AbsSt'[s] = AbsSt[s]
        BY <4>1 DEF AbsSt, Lifecycle!Subsystems
      <4>4. /\ AbsSt' = [s \in Lifecycle!Subsystems |-> AbsSt'[s]]
            /\ AbsSt = [s \in Lifecycle!Subsystems |-> AbsSt[s]]
        BY DEF AbsSt, Lifecycle!Subsystems
      <4>. QED
        BY <4>2, <4>3, <4>4
    <3>2. AbsSt["rest"] = "up" /\ \A s \in Lifecycle!Subsystems \ {"rest"} : AbsSt[s] # "up"
      BY <2>1 DEF SrvAll, NoneLoaded, AbsSt, AbsPhase, StateOf, Lifecycle!Subsystems
    <3>3. Lifecycle!Close
      BY <1>14, <2>1, <2>2, <3>1, <3>2 DEF ShutdownREST, Lifecycle!Close, AbsPhase
    <3>4. QED
      BY <3>3 DEF Lifecycle!Next
  <2>3. CASE ShutdownRaises /\ UNCHANGED rest
    BY <1>14, <2>1, <2>3, AbsFail DEF ShutdownREST, ShutdownRaises, Announce
  <2>4. QED
    BY <1>14, <2>2, <2>3 DEF ShutdownREST
<1>15. CASE UNCHANGED vars
  BY <1>15 DEF vars, Lifecycle!vars, AbsSt, AbsPhase, StateOf, Lifecycle!Subsystems
<1>16. QED
  BY <1>1, <1>2, <1>3, <1>4, <1>5, <1>6, <1>7, <1>8, <1>9, <1>10, <1>11,
     <1>12, <1>13, <1>14, <1>15 DEF Next, SessionStep

(* Session.start() and Session.shutdown() implement the abstract          *)
(* lifecycle: startup climbs the rank ladder and ends with the API,       *)
(* shutdown begins only on request and descends its own ladder, for every *)
(* port list and launcher list.                                            *)
THEOREM Refinement == Spec => ImplementsLifecycle
<1>1. Spec => []StageInv
  BY StageInvariant
<1>2. QED
  BY <1>1, AbsInit, AbsNext, PTL DEF Spec, ImplementsLifecycle, Lifecycle!Spec

=============================================================================
