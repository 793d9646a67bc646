---------------------------- MODULE EndpointConfig ----------------------------
(***************************************************************************)
(* The configuration of the core process and the choice of its UDP         *)
(* endpoint, across restarts of the process.                               *)
(*                                                                         *)
(* TriblerConfigManager (src/src/tribler/tribler_config.py) loads          *)
(* configuration.json, falling back to DEFAULT_CONFIG when the file is     *)
(* missing or not JSON; get() falls back to DEFAULT_CONFIG for an absent   *)
(* key; set() and write() change and persist it.  Session.__init__         *)
(* (src/src/tribler/core/session.py) builds IPv8 inside rust_enhancements  *)
(* unless "statistics" is on: with the ipv8_rust_tunnels package it swaps  *)
(* in the RustEndpoint and sets the UDPIPv4 interface's "worker_threads" to *)
(* tunnel_community/max_circuits; without it, it pops "worker_threads".   *)
(* Those edits are made to the loaded configuration, which a later write() *)
(* persists for the next run.                                              *)
(*                                                                         *)
(* A configuration is abstracted to the keys this code reads: the ipv8     *)
(* section (whether it has a UDPIPv4 interface and that interface's        *)
(* worker_threads), tunnel_community/max_circuits and statistics; Absent   *)
(* marks a key the JSON does not hold.                                     *)
(***************************************************************************)
EXTENDS Naturals

CONSTANTS
  Absent,               \* a key missing from the configuration
  NoFile,               \* configuration.json does not exist
  Corrupt,              \* configuration.json is not valid JSON, or is {}
  Counts,               \* the values tunnel_community/max_circuits may be set to
  DefaultMaxCircuits,   \* DEFAULT_CONFIG tunnel_community/max_circuits
  DefaultWorkerThreads, \* worker_threads of UDPIPv4 in ipv8's default config
  InitialFiles,         \* what configuration.json holds before the first run
  MaxRuns               \* how many times the process is started

Ipv8Sections == {Absent} \cup [udp4 : BOOLEAN, wt : Counts \cup {Absent}]

Configs == [ipv8 : Ipv8Sections, maxc : Counts \cup {Absent},
            stats : BOOLEAN \cup {Absent}]

ASSUME CountsAssumption ==
  /\ Counts \subseteq Nat \ {0}
  /\ DefaultMaxCircuits \in Counts
  /\ DefaultWorkerThreads \in Counts \cup {Absent}
ASSUME FilesAssumption == InitialFiles \subseteq Configs \cup {NoFile, Corrupt}
ASSUME MaxRunsAssumption == MaxRuns \in Nat
(* Absent is a marker, never a section a configuration could hold.       *)
ASSUME AbsentAssumption == Absent \notin [udp4 : BOOLEAN, wt : Counts \cup {Absent}]

(* DEFAULT_CONFIG, restricted to the keys modelled.                        *)
Defaults == [ipv8 |-> [udp4 |-> TRUE, wt |-> DefaultWorkerThreads],
             maxc |-> DefaultMaxCircuits, stats |-> FALSE]

(* TriblerConfigManager.get: the configured value, or the default when    *)
(* the key is missing.                                                     *)
Get(c, key) == IF c[key] = Absent THEN Defaults[key] ELSE c[key]

VARIABLES
  file,      \* configuration.json on disk
  proc,      \* the core process: down, config loaded, session built, crashed
  conf,      \* TriblerConfigManager.configuration of the running process
  rust,      \* whether ipv8_rust_tunnels can be imported in this run
  endpoint,  \* the class of IPv8's UDPIPv4 endpoint: none, udp or rust
  builtWt,   \* worker_threads of the UDPIPv4 interface IPv8 was built with
  policy,    \* get("tunnel_community/max_circuits") when IPv8 was built
  socksRust, \* whether the SOCKS5 servers were given the Rust endpoint
  runs       \* how many times the process has been started

vars == <<file, proc, conf, rust, endpoint, builtWt, policy, socksRust, runs>>

TypeOK ==
  /\ file \in Configs \cup {NoFile, Corrupt}
  /\ proc \in {"down", "loaded", "running", "crashed"}
  /\ conf \in Configs
  /\ rust \in BOOLEAN
  /\ endpoint \in {"none", "udp", "rust"}
  /\ builtWt \in Counts \cup {Absent}
  /\ policy \in Counts
  /\ socksRust \in BOOLEAN
  /\ runs \in 0..MaxRuns

Init ==
  /\ file \in InitialFiles
  /\ proc = "down"
  /\ conf = Defaults
  /\ rust = FALSE
  /\ endpoint = "none"
  /\ builtWt = Absent
  /\ policy = DefaultMaxCircuits
  /\ socksRust = FALSE
  /\ runs = 0

-----------------------------------------------------------------------------
(* The process starts and TriblerConfigManager.__init__ loads the file:   *)
(* its content, or DEFAULT_CONFIG itself if it is missing, unparsable or   *)
(* empty.  Whether the Rust package is installed is up to the user.        *)
LoadConfig ==
  /\ proc = "down" /\ runs < MaxRuns
  /\ conf' = IF file \in {NoFile, Corrupt} THEN Defaults ELSE file
  /\ rust' \in BOOLEAN
  /\ proc' = "loaded"
  /\ runs' = runs + 1
  /\ endpoint' = "none" /\ socksRust' = FALSE
  /\ UNCHANGED <<file, builtWt, policy>>

(* IPv8(config.get("ipv8")) is built with the current configuration.      *)
BuildIPv8(c, cls) ==
  LET sec == Get(c, "ipv8") IN
  /\ endpoint' = IF sec.udp4 THEN cls ELSE "none"
  /\ builtWt' = sec.wt
  /\ policy' = Get(c, "maxc")

Crash == proc' = "crashed" /\ UNCHANGED <<conf, endpoint, builtWt, policy, socksRust>>

(* Session.__init__ with "statistics" on: nullcontext(), IPv8 is built    *)
(* with the default endpoint and the configuration is left as it is.      *)
ConstructWithStatistics ==
  /\ proc = "loaded" /\ Get(conf, "stats") = TRUE
  /\ BuildIPv8(conf, "udp")
  /\ proc' = "running" /\ socksRust' = FALSE
  /\ UNCHANGED <<file, conf, rust, runs>>

(* configuration["ipv8"]["interfaces"] ... ifc.pop("worker_threads")     *)
(* raises: the ipv8 section, or the UDPIPv4 interface's key, is missing.  *)
PopRaises(c) == IF c.ipv8 = Absent THEN TRUE ELSE c.ipv8.udp4 /\ c.ipv8.wt = Absent

(* rust_enhancements without the Rust package: the import raises, every   *)
(* UDPIPv4 interface of configuration["ipv8"] has "worker_threads" popped *)
(* (a KeyError when there is none, and when the ipv8 section is missing), *)
(* and IPv8 is built with the default endpoint.                            *)
ConstructWithoutRust ==
  /\ proc = "loaded" /\ Get(conf, "stats") # TRUE /\ ~rust
  /\ \/ PopRaises(conf) /\ Crash
     \/ /\ ~PopRaises(conf)
        /\ LET c == IF conf.ipv8.udp4 THEN [conf EXCEPT !.ipv8.wt = Absent] ELSE conf
           IN /\ conf' = c
              /\ BuildIPv8(c, "udp")
        /\ proc' = "running" /\ socksRust' = FALSE
  /\ UNCHANGED <<file, rust, runs>>

(* Faulty variants of ConstructWithRust: worker_threads is only filled in *)
(* when the interface has none; worker_threads is twice max_circuits.     *)
ConstructWithRustKeepWorkers ==
  /\ proc = "loaded" /\ Get(conf, "stats") # TRUE /\ rust
  /\ \/ conf.ipv8 = Absent /\ Crash
     \/ /\ conf.ipv8 # Absent
        /\ LET c == IF conf.ipv8.udp4 /\ conf.ipv8.wt = Absent
                    THEN [conf EXCEPT !.ipv8.wt = Get(conf, "maxc")] ELSE conf
           IN /\ conf' = c
              /\ BuildIPv8(c, "rust")
              /\ socksRust' = c.ipv8.udp4
        /\ proc' = "running"
  /\ UNCHANGED <<file, rust, runs>>

ConstructWithRustDoubled ==
  /\ proc = "loaded" /\ Get(conf, "stats") # TRUE /\ rust
  /\ \/ conf.ipv8 = Absent /\ Crash
     \/ /\ conf.ipv8 # Absent
        /\ LET c == IF conf.ipv8.udp4
                    THEN [conf EXCEPT !.ipv8.wt = 2 * Get(conf, "maxc")] ELSE conf
           IN /\ conf' = c
              /\ BuildIPv8(c, "rust")
              /\ socksRust' = c.ipv8.udp4
        /\ proc' = "running"
  /\ UNCHANGED <<file, rust, runs>>

(* rust_enhancements with the Rust package: INTERFACES["UDPIPv4"] becomes *)
(* RustEndpoint, every UDPIPv4 interface of configuration["ipv8"] gets    *)
(* worker_threads = get("tunnel_community/max_circuits"), IPv8 is built,  *)
(* and if get("ipv8/interfaces") has a UDPIPv4 interface every SOCKS5     *)
(* server is given IPv8's endpoint when it is a RustEndpoint.             *)
ConstructWithRust ==
  /\ proc = "loaded" /\ Get(conf, "stats") # TRUE /\ rust
  /\ \/ conf.ipv8 = Absent /\ Crash
     \/ /\ conf.ipv8 # Absent
        /\ LET c == IF conf.ipv8.udp4
                    THEN [conf EXCEPT !.ipv8.wt = Get(conf, "maxc")] ELSE conf
           IN /\ conf' = c
              /\ BuildIPv8(c, "rust")
              /\ socksRust' = c.ipv8.udp4
        /\ proc' = "running"
  /\ UNCHANGED <<file, rust, runs>>

(* TriblerConfigManager.set, by the settings endpoint of the running core. *)
SetMaxCircuits ==
  /\ proc = "running"
  /\ \E v \in Counts : conf' = [conf EXCEPT !.maxc = v]
  /\ UNCHANGED <<file, proc, rust, endpoint, builtWt, policy, socksRust, runs>>

SetStatistics ==
  /\ proc = "running"
  /\ \E b \in BOOLEAN : conf' = [conf EXCEPT !.stats = b]
  /\ UNCHANGED <<file, proc, rust, endpoint, builtWt, policy, socksRust, runs>>

(* TriblerConfigManager.write: the configuration, edits of                *)
(* rust_enhancements included, becomes the file the next run loads.       *)
WriteConfig ==
  /\ proc \in {"loaded", "running"}
  /\ file' = conf
  /\ UNCHANGED <<proc, conf, rust, endpoint, builtWt, policy, socksRust, runs>>

(* The process ends: shut down, killed, or crashed.                       *)
Exit ==
  /\ proc # "down"
  /\ proc' = "down"
  /\ UNCHANGED <<file, conf, rust, endpoint, builtWt, policy, socksRust, runs>>

Next ==
  \/ LoadConfig \/ ConstructWithStatistics \/ ConstructWithoutRust
  \/ ConstructWithRust \/ SetMaxCircuits \/ SetStatistics \/ WriteConfig \/ Exit

Spec == Init /\ [][Next]_vars

-----------------------------------------------------------------------------
(* The Rust endpoint's worker pool is sized by the tunnel policy in force *)
(* when IPv8 is built: worker_threads is overwritten with                 *)
(* tunnel_community/max_circuits on every start, never a value persisted  *)
(* by an earlier run under an older policy.                                *)
RustWorkersFollowPolicy == endpoint = "rust" => builtWt = policy

(* A session can be built from any configuration.json that Tribler itself *)
(* wrote (spec section 6: defaults apply to absent keys; section 4.5: the  *)
(* fallback to the default transport is not a failure).                   *)
ConstructionNeverCrashes == proc # "crashed"

(* Spec section 4.5: the adapter-specific worker_threads key is present   *)
(* exactly when the Rust endpoint is installed, so the default endpoint   *)
(* never sees it.                                                          *)
AdapterKeysOnlyWithRust == endpoint = "udp" => builtWt = Absent

=============================================================================
