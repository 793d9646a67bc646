CONSTANTS
  ContentDiscovery = ContentDiscovery
  Database = Database
  DHTDiscovery = DHTDiscovery
  Knowledge = Knowledge
  Rendezvous = Rendezvous
  TorrentChecker = TorrentChecker
  Tunnel = Tunnel
  ConfPorts <- MCConfPorts
  FreePorts <- MCFreePorts
  Launchers <- MCLaunchers
  DatabaseLauncher = Database
  CheckerLauncher = TorrentChecker
SPECIFICATION Spec
INVARIANTS TypeOK DmRoutesToListeningServers ApiStartsLast DatabasesOutliveUsers CleanShutdown HistoryInOrder
PROPERTIES ShutdownTerminates ImplementsLifecycle AnnouncedBeforeStopped
CHECK_DEADLOCK FALSE
