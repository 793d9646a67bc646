------------------------------- MODULE Session -------------------------------
(***************************************************************************)
(* The lifecycle of the core process's Session                             *)
(* (src/src/tribler/core/session.py): Session.start() brings up the SOCKS5 *)
(* servers, the libtorrent download manager, the IPv8 community launchers, *)
(* the IPv8 overlay and finally the REST API; the process then waits on    *)
(* shutdown_event and Session.shutdown() tears everything down again,      *)
(* publishing a tribler_shutdown_state notification before each phase.     *)
(*                                                                         *)
(* start() and shutdown() are coroutines on one asyncio loop.  Every       *)
(* awaited or external call (server.start(), download_manager.start(),     *)
(* a launcher, ipv8.start(), ...) may raise; an exception ends the         *)
(* coroutine at that point, leaving whatever was already started running. *)
(* The only other actor is whoever sets shutdown_event (the REST           *)
(* ShutdownEndpoint, or a signal handler of the process).                  *)
(***************************************************************************)
EXTENDS Naturals, Sequences

CONSTANTS
  ConfPorts,         \* config "libtorrent/socks_listen_ports"; 0 = any free port
  FreePorts,         \* the ports the OS may give a listener that asks for port 0
  Launchers,         \* the launchers of register_launchers, in registration order
  DatabaseLauncher,  \* the launcher whose component sets session.db and session.mds
  CheckerLauncher    \* the launcher whose component sets session.torrent_checker

LauncherSet == {Launchers[i] : i \in DOMAIN Launchers}

ASSUME ConfPortsAssumption == ConfPorts \in Seq(Nat)
ASSUME FreePortsAssumption == FreePorts \subseteq Nat \ {0}
ASSUME LaunchersAssumption ==
  /\ Launchers \in Seq(LauncherSet)
  /\ \A i, j \in DOMAIN Launchers : Launchers[i] = Launchers[j] => i = j
  /\ DatabaseLauncher \in LauncherSet
  /\ CheckerLauncher \in LauncherSet
  /\ DatabaseLauncher # CheckerLauncher

Servers == DOMAIN ConfPorts

VARIABLES
  pc,             \* where the start()/shutdown() coroutine is
  idx,            \* index of the for-loop the coroutine is in
  srv,            \* per SOCKS5 server: its state and its (configured or bound) port
  dmPorts,        \* download_manager.socks_listen_ports
  dm,             \* the download manager
  enabled,        \* config "<component>/enabled" of each launcher
  overlay,        \* the community each launcher loaded into IPv8
  ipv8,           \* the IPv8 instance
  db, mds, checker, \* session.db, session.mds, session.torrent_checker
  rest,           \* the REST manager
  shutdownEvent,  \* session.shutdown_event
  notified        \* the tribler_shutdown_state notifications published so far

vars == <<pc, idx, srv, dmPorts, dm, enabled, overlay, ipv8, db, mds, checker,
          rest, shutdownEvent, notified>>

(* The phase each shutdown notification announces.                         *)
Phases == {"checker", "ipv8", "dm", "socks", "db", "mds", "rest"}

(* Where the coroutine ends: start() raised, shutdown() raised, or done.  *)
Terminal == {"start_failed", "shutdown_failed", "stopped"}

PcValues == {"socks_start", "load", "rest_start", "running",
             "sd_checker", "sd_ipv8", "sd_dm", "sd_socks", "sd_mds", "sd_rest"}
            \cup Terminal

(* An optional global (session.db, ...): None, set and open, or shut down. *)
Global == {"None", "open", "closed"}

TypeOK ==
  /\ pc \in PcValues
  /\ idx \in Nat \ {0}
  /\ srv \in [Servers -> [state : {"new", "listening", "stopped"}, port : Nat]]
  /\ dmPorts \in Seq(Nat)
  /\ dm \in {"new", "running", "stopped"}
  /\ enabled \in [LauncherSet -> BOOLEAN]
  /\ overlay \in [LauncherSet -> {"new", "loaded", "unloaded"}]
  /\ ipv8 \in {"created", "running", "stopped"}
  /\ db \in Global /\ mds \in Global /\ checker \in Global
  /\ rest \in {"created", "running", "stopped"}
  /\ shutdownEvent \in BOOLEAN
  /\ notified \in Seq(Phases)

-----------------------------------------------------------------------------
(* Session.__init__: the servers are created on their configured ports,   *)
(* IPv8 and the REST manager are constructed, the optional globals are    *)
(* None; start() has registered its REST endpoints and enters the loop    *)
(* over the SOCKS5 servers.                                                *)
Init ==
  /\ pc = "socks_start"
  /\ idx = 1
  /\ srv = [i \in Servers |-> [state |-> "new", port |-> ConfPorts[i]]]
  /\ dmPorts = <<>>
  /\ dm = "new"
  /\ enabled \in [LauncherSet -> BOOLEAN]
  /\ overlay = [l \in LauncherSet |-> "new"]
  /\ ipv8 = "created"
  /\ db = "None" /\ mds = "None" /\ checker = "None"
  /\ rest = "created"
  /\ shutdownEvent = FALSE
  /\ notified = <<>>

ListeningPorts == {srv[i].port : i \in {j \in Servers : srv[j].state = "listening"}}

(* The ports server i can bind: its configured one, or any free port for  *)
(* 0, unless another listening server already holds it.                   *)
BindablePorts(i) ==
  (IF ConfPorts[i] = 0 THEN FreePorts ELSE {ConfPorts[i]}) \ ListeningPorts

(* The awaited call raised: the coroutine ends where it is.               *)
StartRaises == pc' = "start_failed" /\ UNCHANGED <<idx, srv, dmPorts, dm, overlay, ipv8, db, mds, checker, rest, notified>>
ShutdownRaises == pc' = "shutdown_failed"

(* await server.start() for the idx-th SOCKS5 server.                     *)
StartSocksServer ==
  /\ pc = "socks_start" /\ idx \in Servers
  /\ \/ /\ \E p \in BindablePorts(idx) :
             srv' = [srv EXCEPT ![idx] = [state |-> "listening", port |-> p]]
        /\ idx' = idx + 1
        /\ UNCHANGED <<pc, dmPorts, dm, overlay, ipv8, db, mds, checker, rest, notified>>
     \/ StartRaises
  /\ UNCHANGED <<enabled, shutdownEvent>>

(* Faulty variant of StartLibtorrent: the configured ports are handed   *)
(* over instead of the bound ones.                                        *)
StartLibtorrentConfiguredPorts ==
  /\ pc = "socks_start" /\ idx > Len(ConfPorts)
  /\ dmPorts' = ConfPorts
  /\ \/ dm' = "running" /\ pc' = "load" /\ idx' = 1
     \/ dm' \in {"new", "running"} /\ pc' = "start_failed" /\ UNCHANGED idx
  /\ UNCHANGED <<srv, enabled, overlay, ipv8, db, mds, checker, rest, shutdownEvent, notified>>

(* After the loop: hand the servers' ports to the download manager, then  *)
(* download_manager.initialize() and .start().                            *)
StartLibtorrent ==
  /\ pc = "socks_start" /\ idx > Len(ConfPorts)
  /\ dmPorts' = [i \in Servers |-> srv[i].port]
  /\ \/ dm' = "running" /\ pc' = "load" /\ idx' = 1
     \/ dm' \in {"new", "running"} /\ pc' = "start_failed" /\ UNCHANGED idx
  /\ UNCHANGED <<srv, enabled, overlay, ipv8, db, mds, checker, rest, shutdownEvent, notified>>

(* Faulty variant of LoadLauncher: a disabled launcher is skipped without *)
(* moving on to the next one.                                             *)
LoadLauncherStuck ==
  /\ pc = "load" /\ idx \in DOMAIN Launchers
  /\ LET l == Launchers[idx] IN
       \/ /\ ~enabled[l]
          /\ UNCHANGED <<idx, pc, overlay, db, mds, checker>>
       \/ /\ enabled[l]
          /\ overlay' = [overlay EXCEPT ![l] = "loaded"]
          /\ db' = IF l = DatabaseLauncher THEN "open" ELSE db
          /\ mds' = IF l = DatabaseLauncher THEN "open" ELSE mds
          /\ checker' = IF l = CheckerLauncher THEN "open" ELSE checker
          /\ idx' = idx + 1
          /\ UNCHANGED pc
       \/ enabled[l] /\ pc' = "start_failed" /\ UNCHANGED <<idx, overlay, db, mds, checker>>
  /\ UNCHANGED <<srv, dmPorts, dm, enabled, ipv8, rest, shutdownEvent, notified>>

(* loader.load(ipv8, session), for the idx-th registered launcher: a      *)
(* disabled one is skipped; an enabled one creates its community and its *)
(* component sets the session's globals, or raises.                      *)
LoadLauncher ==
  /\ pc = "load" /\ idx \in DOMAIN Launchers
  /\ LET l == Launchers[idx] IN
       \/ /\ ~enabled[l]
          /\ idx' = idx + 1
          /\ UNCHANGED <<pc, overlay, db, mds, checker>>
       \/ /\ enabled[l]
          /\ overlay' = [overlay EXCEPT ![l] = "loaded"]
          /\ db' = IF l = DatabaseLauncher THEN "open" ELSE db
          /\ mds' = IF l = DatabaseLauncher THEN "open" ELSE mds
          /\ checker' = IF l = CheckerLauncher THEN "open" ELSE checker
          /\ idx' = idx + 1
          /\ UNCHANGED pc
       \/ enabled[l] /\ pc' = "start_failed" /\ UNCHANGED <<idx, overlay, db, mds, checker>>
  /\ UNCHANGED <<srv, dmPorts, dm, enabled, ipv8, rest, shutdownEvent, notified>>

(* await ipv8.start(), once every launcher is loaded.                     *)
StartIPv8 ==
  /\ pc = "load" /\ idx > Len(Launchers)
  /\ \/ ipv8' = "running" /\ pc' = "rest_start"
     \/ pc' = "start_failed" /\ UNCHANGED ipv8
  /\ UNCHANGED <<idx, srv, dmPorts, dm, enabled, overlay, db, mds, checker, rest, shutdownEvent, notified>>

(* Faulty variant of StartREST: the API is started as soon as the         *)
(* launchers are loaded, before ipv8.start().                             *)
StartRESTEarly ==
  /\ \/ pc = "rest_start"
     \/ pc = "load" /\ idx > Len(Launchers)
  /\ \/ rest' = "running" /\ pc' = "running"
     \/ pc' = "start_failed" /\ UNCHANGED rest
  /\ UNCHANGED <<idx, srv, dmPorts, dm, enabled, overlay, ipv8, db, mds, checker, shutdownEvent, notified>>

(* await rest_manager.start(), the last step of start().                  *)
StartREST ==
  /\ pc = "rest_start"
  /\ \/ rest' = "running" /\ pc' = "running"
     \/ pc' = "start_failed" /\ UNCHANGED rest
  /\ UNCHANGED <<idx, srv, dmPorts, dm, enabled, overlay, ipv8, db, mds, checker, shutdownEvent, notified>>

(* shutdown_event.set(), by the ShutdownEndpoint or a signal handler.     *)
RequestShutdown ==
  /\ ~shutdownEvent
  /\ shutdownEvent' = TRUE
  /\ UNCHANGED <<pc, idx, srv, dmPorts, dm, enabled, overlay, ipv8, db, mds, checker, rest, notified>>

(* The process awaits shutdown_event after start() and then calls         *)
(* shutdown().                                                             *)
BeginShutdown ==
  /\ pc = "running" /\ shutdownEvent
  /\ pc' = "sd_checker"
  /\ UNCHANGED <<idx, srv, dmPorts, dm, enabled, overlay, ipv8, db, mds, checker, rest, shutdownEvent, notified>>

Announce(phase) == notified' = Append(notified, phase)

(* if self.torrent_checker: notify; await torrent_checker.shutdown().     *)
ShutdownChecker ==
  /\ pc = "sd_checker"
  /\ \/ checker = "None" /\ pc' = "sd_ipv8" /\ UNCHANGED <<checker, notified>>
     \/ /\ checker # "None"
        /\ Announce("checker")
        /\ \/ checker' = "closed" /\ pc' = "sd_ipv8"
           \/ ShutdownRaises /\ UNCHANGED checker
  /\ UNCHANGED <<idx, srv, dmPorts, dm, enabled, overlay, ipv8, db, mds, rest, shutdownEvent>>

(* Faulty variant of ShutdownIPv8: ipv8.stop() is called without await,  *)
(* so shutdown() moves on while the communities are still loaded.         *)
ShutdownIPv8NotAwaited ==
  /\ pc = "sd_ipv8"
  /\ Announce("ipv8")
  /\ \/ pc' = "sd_dm" /\ UNCHANGED <<ipv8, overlay>>
     \/ ShutdownRaises /\ UNCHANGED <<ipv8, overlay>>
  /\ UNCHANGED <<idx, srv, dmPorts, dm, enabled, db, mds, checker, rest, shutdownEvent>>

(* if self.ipv8 (always set): notify; await ipv8.stop(), which unloads    *)
(* every community.                                                        *)
ShutdownIPv8 ==
  /\ pc = "sd_ipv8"
  /\ Announce("ipv8")
  /\ \/ /\ ipv8' = "stopped"
        /\ overlay' = [l \in LauncherSet |-> IF overlay[l] = "loaded" THEN "unloaded" ELSE overlay[l]]
        /\ pc' = "sd_dm"
     \/ ShutdownRaises /\ UNCHANGED <<ipv8, overlay>>
  /\ UNCHANGED <<idx, srv, dmPorts, dm, enabled, db, mds, checker, rest, shutdownEvent>>

(* Faulty variant of ShutdownDownloadManager: the loop over the servers   *)
(* is entered with a 0-based index.                                       *)
ShutdownDownloadManagerZeroIndex ==
  /\ pc = "sd_dm"
  /\ \/ /\ dm' = "stopped"
        /\ notified' = notified \o <<"dm", "socks">>
        /\ pc' = "sd_socks" /\ idx' = 0
     \/ ShutdownRaises /\ Announce("dm") /\ UNCHANGED <<dm, idx>>
  /\ UNCHANGED <<srv, dmPorts, enabled, overlay, ipv8, db, mds, checker, rest, shutdownEvent>>

(* Faulty variant of ShutdownDownloadManager: the SOCKS5 phase is         *)
(* announced before the download manager's.                                *)
ShutdownDownloadManagerSwapped ==
  /\ pc = "sd_dm"
  /\ \/ /\ dm' = "stopped"
        /\ notified' = notified \o <<"socks", "dm">>
        /\ pc' = "sd_socks" /\ idx' = 1
     \/ ShutdownRaises /\ Announce("dm") /\ UNCHANGED <<dm, idx>>
  /\ UNCHANGED <<srv, dmPorts, enabled, overlay, ipv8, db, mds, checker, rest, shutdownEvent>>

(* Faulty variant of ShutdownDownloadManager: the notification of the     *)
(* SOCKS5 phase is dropped.                                                *)
ShutdownDownloadManagerSilentSocks ==
  /\ pc = "sd_dm"
  /\ \/ /\ dm' = "stopped"
        /\ notified' = Append(notified, "dm")
        /\ pc' = "sd_socks" /\ idx' = 1
     \/ ShutdownRaises /\ Announce("dm") /\ UNCHANGED <<dm, idx>>
  /\ UNCHANGED <<srv, dmPorts, enabled, overlay, ipv8, db, mds, checker, rest, shutdownEvent>>

(* notify; await download_manager.shutdown(); then notify the SOCKS5      *)
(* phase and enter the loop over the servers.                             *)
ShutdownDownloadManager ==
  /\ pc = "sd_dm"
  /\ \/ /\ dm' = "stopped"
        /\ notified' = notified \o <<"dm", "socks">>
        /\ pc' = "sd_socks" /\ idx' = 1
     \/ ShutdownRaises /\ Announce("dm") /\ UNCHANGED <<dm, idx>>
  /\ UNCHANGED <<srv, dmPorts, enabled, overlay, ipv8, db, mds, checker, rest, shutdownEvent>>

(* await server.stop() for the idx-th SOCKS5 server.                      *)
StopSocksServer ==
  /\ pc = "sd_socks" /\ idx \in Servers
  /\ \/ srv' = [srv EXCEPT ![idx].state = "stopped"] /\ idx' = idx + 1 /\ UNCHANGED pc
     \/ ShutdownRaises /\ UNCHANGED <<srv, idx>>
  /\ UNCHANGED <<dmPorts, dm, enabled, overlay, ipv8, db, mds, checker, rest, shutdownEvent, notified>>

(* Faulty variant of ShutdownDatabase: the loop over the servers is left  *)
(* one iteration early.                                                   *)
ShutdownDatabaseEarly ==
  /\ pc = "sd_socks" /\ idx >= Len(ConfPorts)
  /\ \/ db = "None" /\ pc' = "sd_mds" /\ UNCHANGED <<db, notified>>
     \/ /\ db # "None"
        /\ Announce("db")
        /\ \/ db' = "closed" /\ pc' = "sd_mds"
           \/ ShutdownRaises /\ UNCHANGED db
  /\ UNCHANGED <<idx, srv, dmPorts, dm, enabled, overlay, ipv8, mds, checker, rest, shutdownEvent>>

(* After the loop: if self.db: notify; db.shutdown().                     *)
ShutdownDatabase ==
  /\ pc = "sd_socks" /\ idx > Len(ConfPorts)
  /\ \/ db = "None" /\ pc' = "sd_mds" /\ UNCHANGED <<db, notified>>
     \/ /\ db # "None"
        /\ Announce("db")
        /\ \/ db' = "closed" /\ pc' = "sd_mds"
           \/ ShutdownRaises /\ UNCHANGED db
  /\ UNCHANGED <<idx, srv, dmPorts, dm, enabled, overlay, ipv8, mds, checker, rest, shutdownEvent>>

(* if self.mds: notify; mds.shutdown().                                   *)
ShutdownMetadataStore ==
  /\ pc = "sd_mds"
  /\ \/ mds = "None" /\ pc' = "sd_rest" /\ UNCHANGED <<mds, notified>>
     \/ /\ mds # "None"
        /\ Announce("mds")
        /\ \/ mds' = "closed" /\ pc' = "sd_rest"
           \/ ShutdownRaises /\ UNCHANGED mds
  /\ UNCHANGED <<idx, srv, dmPorts, dm, enabled, overlay, ipv8, db, checker, rest, shutdownEvent>>

(* notify; await rest_manager.stop(), the last step of shutdown().        *)
ShutdownREST ==
  /\ pc = "sd_rest"
  /\ Announce("rest")
  /\ \/ rest' = "stopped" /\ pc' = "stopped"
     \/ ShutdownRaises /\ UNCHANGED rest
  /\ UNCHANGED <<idx, srv, dmPorts, dm, enabled, overlay, ipv8, db, mds, checker, shutdownEvent>>

(* The steps of the start()/shutdown() coroutine.                         *)
SessionStep ==
  \/ StartSocksServer \/ StartLibtorrent \/ LoadLauncher \/ StartIPv8 \/ StartREST
  \/ BeginShutdown \/ ShutdownChecker \/ ShutdownIPv8 \/ ShutdownDownloadManager
  \/ StopSocksServer \/ ShutdownDatabase \/ ShutdownMetadataStore \/ ShutdownREST

Next == SessionStep \/ RequestShutdown

(* asyncio runs a coroutine whose awaited call has returned; every        *)
(* collaborator's start/stop is assumed to return or raise.               *)
Spec == Init /\ [][Next]_vars /\ WF_vars(SessionStep)

-----------------------------------------------------------------------------
(* The phases shutdown() has to go through: the optional ones only when   *)
(* the session holds that subsystem.                                       *)
Present == {"ipv8", "dm", "socks", "rest"}
           \cup {ph \in {"checker", "db", "mds"} :
                   \/ ph = "checker" /\ checker # "None"
                   \/ ph = "db" /\ db # "None"
                   \/ ph = "mds" /\ mds # "None"}

(* The notifications shutdown() publishes when it runs to the end: every  *)
(* phase in shutdown order, the optional ones only when the session holds *)
(* that subsystem.                                                         *)
IfHeld(ph, x) == IF x # "None" THEN <<ph>> ELSE <<>>

ShutdownHistory ==
  IfHeld("checker", checker) \o <<"ipv8", "dm", "socks">>
    \o IfHeld("db", db) \o IfHeld("mds", mds) \o <<"rest">>

SeqRange(s) == {s[i] : i \in DOMAIN s}

(* While libtorrent runs, the SOCKS5 ports it was given are exactly the   *)
(* ports its servers are listening on: download_manager.socks_listen_ports *)
(* is read after every server.start() has bound its (possibly ephemeral)  *)
(* port, and the servers are stopped only after the download manager.     *)
DmRoutesToListeningServers ==
  dm = "running" =>
    /\ DOMAIN dmPorts = Servers
    /\ \A i \in Servers : srv[i].state = "listening" /\ dmPorts[i] = srv[i].port

(* The REST API, through which the GUI and other clients observe the      *)
(* session, is never served by a half-initialised session: when it runs,  *)
(* every SOCKS5 server, libtorrent, every enabled community and IPv8 have *)
(* been started.                                                           *)
ApiStartsLast ==
  rest = "running" =>
    /\ \A i \in Servers : srv[i].state # "new"
    /\ dm # "new"
    /\ \A l \in LauncherSet : enabled[l] => overlay[l] # "new"
    /\ ipv8 # "created"

(* The databases outlive their users: session.db and session.mds are      *)
(* closed only after the torrent checker and every community (which read  *)
(* and write them) have been shut down.                                    *)
DatabasesOutliveUsers ==
  (db = "closed" \/ mds = "closed") =>
    /\ checker # "open"
    /\ \A l \in LauncherSet : overlay[l] # "loaded"

(* A shutdown() that returns has released everything start() acquired,    *)
(* and the observers were told of every phase, in shutdown order.         *)
CleanShutdown ==
  pc = "stopped" =>
    /\ \A i \in Servers : srv[i].state = "stopped"
    /\ dm = "stopped" /\ ipv8 = "stopped" /\ rest = "stopped"
    /\ \A l \in LauncherSet : overlay[l] # "loaded"
    /\ "open" \notin {db, mds, checker}
    /\ notified = ShutdownHistory

(* The observers are told the shutdown phases in shutdown order, none     *)
(* skipped and none repeated, also when a stop raises and shutdown() ends  *)
(* early: what has been published is always a prefix of ShutdownHistory.  *)
HistoryInOrder ==
  /\ Len(notified) <= Len(ShutdownHistory)
  /\ notified = SubSeq(ShutdownHistory, 1, Len(notified))

(* The subsystems a step stops: the torrent checker, IPv8, libtorrent, a  *)
(* SOCKS5 server, a database or the REST API going from up to shut down.  *)
StoppedNow ==
  {ph \in Phases :
     \/ ph = "checker" /\ checker # "closed" /\ checker' = "closed"
     \/ ph = "ipv8" /\ ipv8 # "stopped" /\ ipv8' = "stopped"
     \/ ph = "dm" /\ dm # "stopped" /\ dm' = "stopped"
     \/ ph = "socks" /\ \E i \in Servers : srv[i].state # "stopped" /\ srv'[i].state = "stopped"
     \/ ph = "db" /\ db # "closed" /\ db' = "closed"
     \/ ph = "mds" /\ mds # "closed" /\ mds' = "closed"
     \/ ph = "rest" /\ rest # "stopped" /\ rest' = "stopped"}

(* The spec (section 4.6): every shutdown step is preceded by a Notifier   *)
(* event describing its phase.  No step of start()/shutdown() stops a     *)
(* subsystem whose tribler_shutdown_state phase has not been published,  *)
(* whether shutdown() later returns or raises.                             *)
AnnouncedBeforeStopped == [][StoppedNow \subseteq SeqRange(notified')]_vars

(* Once shutdown has been requested, the process gets to an end: start()  *)
(* and shutdown() never wait on a step that cannot happen.                *)
ShutdownTerminates == shutdownEvent ~> pc \in Terminal

(* The spec (section 4.6, 7(5)): a failing subsystem does not stop        *)
(* shutdown() from attempting every other one; so when shutdown() has     *)
(* ended, every present phase was announced and attempted.                *)
ShutdownAttemptsAll ==
  pc \in {"stopped", "shutdown_failed"} => Present \subseteq SeqRange(notified)

-----------------------------------------------------------------------------
(* The refinement mapping onto SessionLifecycle: where the coroutine is    *)
(* gives the phase; the SOCKS5 servers are up while one listens, the       *)
(* communities while one is loaded.                                        *)
AbsPhase ==
  CASE pc \in {"socks_start", "load", "rest_start"} -> "starting"
    [] pc = "running" -> "running"
    [] pc = "stopped" -> "stopped"
    [] pc \in {"start_failed", "shutdown_failed"} -> "failed"
    [] OTHER -> "stopping"

StateOf(v, new, up) == IF v = new THEN "new" ELSE IF v = up THEN "up" ELSE "down"

AbsSt ==
  [s \in {"socks", "dm", "overlays", "db", "mds", "checker", "ipv8", "rest"} |->
     CASE s = "socks" ->
            IF \E i \in Servers : srv[i].state = "listening" THEN "up"
            ELSE IF \A i \in Servers : srv[i].state = "new" THEN "new" ELSE "down"
       [] s = "overlays" ->
            IF \E l \in LauncherSet : overlay[l] = "loaded" THEN "up"
            ELSE IF \A l \in LauncherSet : overlay[l] = "new" THEN "new" ELSE "down"
       [] s = "dm" -> StateOf(dm, "new", "running")
       [] s = "db" -> StateOf(db, "None", "open")
       [] s = "mds" -> StateOf(mds, "None", "open")
       [] s = "checker" -> StateOf(checker, "None", "open")
       [] s = "ipv8" -> StateOf(ipv8, "created", "running")
       [] s = "rest" -> StateOf(rest, "created", "running")]

Lifecycle == INSTANCE SessionLifecycle WITH phase <- AbsPhase, st <- AbsSt, requested <- shutdownEvent

(* Session.start() and Session.shutdown() implement the promised          *)
(* lifecycle: every step of the coroutine starts a rank of subsystems in  *)
(* ladder order, stops one in reverse order, completes a phase, fails, or *)
(* changes nothing the lifecycle can see.                                  *)
ImplementsLifecycle == Lifecycle!Spec

=============================================================================
