------------------------------ MODULE MCSession ------------------------------
(* Model-checking instance of Session: two SOCKS5 servers (one on any free *)
(* port, one on a fixed port), two free ports, and the seven launchers of  *)
(* Session.register_launchers in their registration order.                 *)
EXTENDS Session

CONSTANTS ContentDiscovery, Database, DHTDiscovery, Knowledge, Rendezvous,
          TorrentChecker, Tunnel

MCConfPorts == <<0, 7>>
MCFreePorts == {7, 8}
MCLaunchers == <<ContentDiscovery, Database, DHTDiscovery, Knowledge,
                 Rendezvous, TorrentChecker, Tunnel>>
=============================================================================
