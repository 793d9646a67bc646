-------------------------- MODULE MCEndpointConfig --------------------------
(* Model-checking instance of EndpointConfig, three process starts from:  *)
(* a fresh install (no configuration.json), a corrupt file, a file of an  *)
(* older version that lacks max_circuits and statistics (its              *)
(* worker_threads from a policy of 2), or a hand-written file holding     *)
(* only statistics and no ipv8 section.                                    *)
EXTENDS EndpointConfig

MCCounts == {2, 8}
MCOldFile == [ipv8 |-> [udp4 |-> TRUE, wt |-> 2], maxc |-> Absent, stats |-> Absent]
MCPartialFile == [ipv8 |-> Absent, maxc |-> Absent, stats |-> FALSE]
MCInitialFiles == {NoFile, Corrupt, MCOldFile, MCPartialFile}
MCFreshInstall == {NoFile}
=============================================================================
