# TLA+ models of the Tribler core session

This directory holds TLA+ specifications of the Tribler core process, with
TLC configurations that model-check them and TLAPS proofs of their main
invariants. They model the code under `src/src/tribler/` (mainly
`core/session.py` and `tribler_config.py`). Where the session calls into code
that is not in this tree (components, SOCKS5 servers, the core launcher), the
behaviour is taken from `spec.md`. Those definitions are marked
`spec_modelled` in `PROJECT.json`.

## 1. The system and its parts

The core process has the following parts.

* **Configuration manager** (`TriblerConfigManager`, `tribler_config.py`).
  * It loads `configuration.json`. When the file is missing, is not JSON or is
    `{}`, it falls back to `DEFAULT_CONFIG` itself, not to a copy.
  * `get(path)` falls back to `DEFAULT_CONFIG` key by key.
  * `set(path, v)` edits the loaded dictionary in place.
  * `write()` persists the dictionary. The next process loads what was
    written.
* **Endpoint adapter** (`rust_enhancements`, `session.py:40-62`). This runs
  while `Session.__init__` builds IPv8, unless `statistics` is on.
  * If the `ipv8_rust_tunnels` package imports:
    * it installs `RustEndpoint` for `UDPIPv4`;
    * it writes `worker_threads = tunnel_community/max_circuits` into each
      UDPIPv4 interface of the loaded configuration;
    * after IPv8 is built, it hands the endpoint to the SOCKS5 servers.
  * Otherwise it pops `worker_threads` from those interfaces.
* **Session** (`Session.start` / `Session.shutdown`, `session.py:122-175`).
  It orchestrates the collaborators below.
  * `start()` starts, in this order:
    1. the SOCKS5 servers, one by one;
    2. libtorrent (the download manager), given the ports the servers
       actually bound;
    3. the seven community launchers, in registration order; disabled ones
       are skipped, and the database and torrent checker components set
       `session.db`, `session.mds` and `session.torrent_checker`;
    4. IPv8;
    5. the REST API.
  * `shutdown()` stops them in the opposite direction:
    1. the torrent checker (if set);
    2. IPv8, which unloads the overlays;
    3. the download manager;
    4. the SOCKS5 servers;
    5. `db` and `mds` (if set);
    6. REST.

    It publishes a `tribler_shutdown_state` notification before each phase.
  * Every awaited or external call may raise, and nothing in either method
    catches the exception.
* **Shutdown trigger**. `shutdown_event` is set by the REST `ShutdownEndpoint`
  (`session.py:118`) or by a signal. The launcher (`start_core`, not in this
  tree) awaits the event after `start()` and then calls `shutdown()`.
* **Not in this tree or out of scope**:
  * the circuit manager (tunnel community);
  * the SOCKS5 bridge internals;
  * the notifier's dispatch;
  * the component implementations;
  * the GUI (including `gui/dialogs/feedbackdialog.py`).
* **Entry point** (`main()` in `run_tribler.py`). It is the same script for
  the core and the GUI process, and does the following:
  1. parses the command line;
  2. configures logging from `--log-level`;
  3. creates the root state directory. This is `TSTATEDIR` when that is an
     absolute path, otherwise `APPDATA` (or `~`)`/.TriblerExperimental`;
  4. reads `CORE_API_PORT`;
  5. calls `run_core` or `run_gui`, depending on `--core`.

  See §6.

How the parts interact, as modelled:
* the configuration decides which endpoint IPv8 gets and which launchers are
  enabled;
* the SOCKS5 servers' bound ports feed libtorrent;
* the launchers' components set the globals that decide which shutdown phases
  run;
* the REST API sets the shutdown event that ends the session's run.

## 2. Modules

| Module | Models | State | Actions |
|---|---|---|---|
| `Session` | `Session.__init__`, `start`, `shutdown`; shutdown trigger | `pc`/`idx` (where the coroutine is, loop index); `srv` (each SOCKS5 server: state, port); `dmPorts`, `dm`; `enabled`, `overlay` per launcher; `ipv8`; `db`, `mds`, `checker` (None/open/closed); `rest`; `shutdownEvent`; `notified` (history of shutdown notifications) | `StartSocksServer`, `StartLibtorrent`, `LoadLauncher`, `StartIPv8`, `StartREST`, `RequestShutdown`, `BeginShutdown`, `ShutdownChecker`, `ShutdownIPv8`, `ShutdownDownloadManager`, `StopSocksServer`, `ShutdownDatabase`, `ShutdownMetadataStore`, `ShutdownREST` |
| `EndpointConfig` | `TriblerConfigManager` load/get/set/write; `rust_enhancements` and the IPv8 construction in `Session.__init__`; process restarts | `file` (configuration.json), `proc`, `conf` (loaded dictionary), `rust` (package installed this run), `endpoint`, `builtWt`, `policy`, `socksRust`, `runs` | `LoadConfig`, `ConstructWithStatistics`, `ConstructWithoutRust`, `ConstructWithRust`, `SetMaxCircuits`, `SetStatistics`, `WriteConfig`, `Exit` |
| `SessionLifecycle` | the abstract lifecycle the session promises (spec §4.6) | `phase` (starting, running, stopping, stopped, failed); `st` (each of eight subsystems: new, up, down); `requested` | `Start(T, r)`, `Open`, `Request`, `BeginStop`, `Stop(T, r)`, `Close`, `Fail` |
| `EntryPoint` | `main()`, `parse_args`, `get_root_state_directory` of `run_tribler.py` | `argv`, `env` (the inputs main() tells apart); `pc`; `parsed`; `rootStateDir`, `dirMade`; `apiPort`; `error` | `ParseArgs`, `ConfigureLogging`, `ResolveStateDir`, `ReadApiPort`, `Dispatch` |
| `SessionProofs` | TLAPS proofs about `Session`: type correctness and routing | | |
| `EndpointProofs` | TLAPS proofs about `EndpointConfig` | | |
| `LifecycleProofs` | TLAPS proofs about `Session`: the ordering invariants, and the refinement of `SessionLifecycle` | | |
| `ShutdownProofs` | TLAPS proofs about `Session`: the clean shutdown and the notification history | | |
| `EntryProofs` | TLAPS proofs about `EntryPoint` | | |
| `MCSession`, `MCEndpointConfig` | TLC instances | | |

### How the Session model follows the code

* **The coroutine.** A `pc`-style state machine stands for the sequential
  coroutine.
  * Each `await` or external call is one atomic action.
  * A `for` loop is an index `idx` with an explicit exit step.
  * Each action has a disjunct in which the call raises. That disjunct moves
    `pc` to `start_failed` or `shutdown_failed` and leaves the rest of the
    method undone.
* **SOCKS5 ports.**
  * A configured port of 0 binds an ephemeral port from `FreePorts`.
  * A port already in use makes `server.start()` raise.
  * `StartLibtorrent` reads the ports the servers are bound to, as line 132
    does.
* **Launchers.** `LoadLauncher` skips a disabled launcher and loads an enabled
  one (or raises). Loading the database or torrent-checker launcher sets the
  global it owns.
* **Shutdown phases.**
  * A phase guarded by `if self.x:` is skipped when the global is None.
  * Each phase that runs appends its notification before awaiting the stop,
    as the code does.
* **The trigger.** `RequestShutdown` may happen in any state, including while
  `start()` is running. `BeginShutdown` fires only once `start()` has
  returned.

### The abstract lifecycle and the refinement mapping

`SessionLifecycle` says what the session promises, without the calls that
implement it.
* **Subsystems.** There are eight: the SOCKS5 servers, the download manager,
  the overlays, `db`, `mds`, the torrent checker, IPv8 and the REST API.
* **Startup** climbs a ladder of ranks. The ranks are: servers, then download
  manager, then components and what they own, then IPv8.
  * `Start(T, r)` starts a set of subsystems of rank `r`.
  * It is enabled only while nothing of a higher rank has started.
  * `Open` brings the API up last, once the download manager and IPv8 are up.
    It completes startup.
* **Shutdown** descends a ladder of its own.
  * The ranks are: checker, then IPv8 with the overlays, then download
    manager, then servers, then `db`, then `mds`.
  * `Close` takes the API down last, with nothing else still up.
* **Failure.** Any startup or shutdown step may end the lifecycle in `failed`
  (`Fail`).

`Session` defines the refinement mapping.
* `AbsPhase` maps `pc` to the phase.
* `AbsSt` maps each subsystem's concrete state to new, up or down.
  * The SOCKS5 servers are up while any server listens.
  * The overlays are up while any enabled launcher is loaded.
* `requested` is `shutdownEvent`.

With this mapping:
* loading a disabled launcher is a stutter;
* starting the second server is a stutter;
* `ShutdownIPv8` is `Stop({"ipv8", "overlays"}, 2)`;
* a raising call is `Fail`.

### How the EntryPoint model follows the code

* **Inputs.** The command line and the environment are fixed at the start, as
  any of the combinations `main()` tells apart (216 of them).
* **Each step may end the process**, as in the code:
  * `ParseArgs` applies argparse's rules for the `store_true` option
    `--log-level`. It takes no value, so `--log-level DEBUG` hands `DEBUG` to
    the optional torrent positional. With a torrent given too, it is a usage
    error.
  * `ConfigureLogging` raises `TypeError` for `getattr(logging, True)`.
  * `ResolveStateDir` ignores a relative `TSTATEDIR`, including the default
    `'state_directory'`. Its `mkdir` may fail.
  * `ReadApiPort` raises `ValueError` when `CORE_API_PORT` is not a number.
* `CORE_API_KEY` is passed through untouched and is left out.

### How the EndpointConfig model follows the code

* **What a configuration holds.** A configuration is abstracted to the keys
  the endpoint code reads:
  * the ipv8 section: absent, or whether it has a UDPIPv4 interface and that
    interface's `worker_threads`;
  * `max_circuits`;
  * `statistics`.
* **Absent keys.** `Absent` marks a key the JSON lacks. `Get` falls back to
  `Defaults` exactly where `get()` does. `rust_enhancements` reads
  `configuration["ipv8"]` directly, without that fallback, which is why a
  missing ipv8 section makes the construction actions raise (`Crash`).
* **Across processes.** Each process loads the file that earlier processes
  wrote, so behaviour that depends on earlier runs is reachable.
  * `runs` caps the number of processes at `MaxRuns`.
  * The `rust` flag is chosen anew on each load, because the user may install
    or remove the package between runs.

## 3. Runs

| Run | Config | Expect | Shows |
|---|---|---|---|
| `session_lifecycle` | `MCSession.cfg` | pass | See the list below the table. |
| `session_shutdown_failures` | `MCSessionAttempts.cfg` | violation | `ShutdownAttemptsAll`: when one stop raises, the later phases are never attempted. This contradicts spec §4.6 and §7(5). |
| `endpoint_config` | `MCEndpointConfig.cfg` | pass | `TypeOK`, `RustWorkersFollowPolicy`: the Rust endpoint is always sized by the `max_circuits` in force, never by a persisted `worker_threads`. Checked over three process starts from a fresh, corrupt, older or partial file, with settings changed and written in between. |
| `endpoint_crash` | `MCEndpointCrash.cfg` | violation | `ConstructionNeverCrashes`, from a fresh install. First a Rust-less run pops `worker_threads` from `DEFAULT_CONFIG` and the configuration is written. The next Rust-less start then raises `KeyError` at `session.py:61`. |
| `endpoint_adapter_keys` | `MCEndpointAdapterKeys.cfg` | violation | `AdapterKeysOnlyWithRust`: with `statistics` on, the default UDP endpoint is built with `worker_threads` still in its interface configuration. This contradicts spec §4.5. |
| `entry_point` | `MCEntryPoint.cfg` | pass | `TypeOK`, over every command line and environment: each step of `main()` moves on or ends the process with the exception the code raises there. Its main purpose is to fire every step for `entry_log_level`. Deadlock is not checked: `main()` ends. |
| `entry_log_level` | `MCEntryPointLogLevel.cfg` | violation | `LogLevelOptionUsable`: every use of `--log-level` ends `main()`. The bare flag stores `True` and `getattr(logging, True)` raises `TypeError`. `--log-level DEBUG x.torrent` is an argparse usage error. |

`session_lifecycle` checks:
* `TypeOK`;
* `DmRoutesToListeningServers`: libtorrent only runs on the ports the SOCKS5
  servers really listen on;
* `ApiStartsLast`: the API never serves a half-started session;
* `DatabasesOutliveUsers`: the databases close only after the checker and the
  overlays;
* `CleanShutdown`: a returning `shutdown()` has released everything and
  announced every present phase in order. The expected history is written
  as `ShutdownHistory`, a concatenation of the fixed phases and, through
  `IfHeld`, the phases of the globals the session holds;
* `HistoryInOrder`: at every moment, and in particular when a stop has
  raised and `shutdown()` ended early, the notifications published are a
  prefix of `ShutdownHistory`. The observers see the phases in shutdown
  order, none skipped and none repeated. This is the part of spec §4.6 the
  code keeps, next to the part it breaks (`ShutdownAttemptsAll`);
* `AnnouncedBeforeStopped` (an action property): no step stops a subsystem
  whose `tribler_shutdown_state` phase has not been published by the end of
  that step. This is spec §4.6's "each step preceded by a Notifier event",
  and it also covers runs in which `shutdown()` raises;
* `ShutdownTerminates`: a shutdown request leads to the end of the process;
* `ImplementsLifecycle`: every behaviour of `Session`, under the mapping
  above, is a behaviour of `SessionLifecycle`.

It explores every call raising, every enabled/disabled subset of launchers,
and a shutdown request at any point.

The four violations are recorded as findings in `PROJECT.json`. Each
violated property is stated from the spec or from what the code evidently
intends, and the trace TLC prints is the scenario.

**Bounds.**
* `MCSession`:
  * two SOCKS5 servers configured with ports `<<0, 7>>` and free ports
    `{7, 8}`, so that:
    * an ephemeral port can collide with a configured one and make the second
      `start()` raise;
    * the ports libtorrent uses differ from the configured ones;
  * all seven launchers of `register_launchers`, in their real order, with
    `Database` and `TorrentChecker` as the two that set globals.

  This gives 8,224 states.
* `MCEndpointConfig`:
  * `max_circuits` ranges over `{2, 8}` (default 8), so a persisted
    `worker_threads` can differ from the current policy;
  * the initial files are: none, corrupt, one written by an older Rust run
    (`worker_threads = 2`), and one without an ipv8 section;
  * three process starts are enough for write, restart, change and restart.

  This gives 2,436 states.
* `EntryPoint`: every combination of the inputs, 216 initial states and 876
  states in all. The inputs are finite by nature, so this is exhaustive.

**Fairness.**
* `Spec` assumes weak fairness of the session's own steps (`SessionStep`).
  Justification: `start()` and `shutdown()` are a single coroutine on the
  event loop, which keeps running it while it is ready. A step that raises is
  one of that step's outcomes, so fairness does not force success.
* `RequestShutdown` gets no fairness: a user need never ask for shutdown.
* `ShutdownTerminates` is therefore stated from the request on. It relies on
  the collaborators' stop calls returning or raising, which the model takes
  as given.
* `EndpointConfig`, `EntryPoint` and `SessionLifecycle` are used for safety
  only and have no fairness. The refinement is checked as a safety property.

## 4. What is proved

`SessionProofs.tla` proves the following with TLAPS, for every port list,
free-port set and launcher list that satisfy the `ASSUME`s of `Session`:
* ports are natural numbers;
* free ports are nonzero;
* the launchers are distinct and include the database and checker launchers.

The theorems:

* `TypeCorrect`: `Spec => []TypeOK`. The proof is by `TypeInit` and
  `TypeNext`, one case per action. It uses the lemmas:
  * `ServersRange` (the servers are `1..Len(ConfPorts)`);
  * `BindablePortsNat` (a server binds a natural-number port);
  * `AppendPhase` (appending a phase keeps `notified` a sequence of phases).
* `DmRoutes`: `Spec => []DmRoutesToListeningServers`.
  * The invariant is not inductive as it stands. A step that starts
    libtorrent must know that every server is already listening, and a step
    that stops a server must know that libtorrent has already stopped.
  * The strengthening `RoutesInv` adds the following, so that a server stop
    cannot break the invariant:
    * while `pc = "socks_start"`, libtorrent is new, `idx` is in
      `1..Len+1`, and every server below `idx` listens;
    * from `sd_socks` on, libtorrent is stopped.
  * `RoutesInit` and `RoutesNext` prove that `RoutesInv` holds initially and
    is preserved.
  * `RoutesInv` was first checked with TLC as an invariant of
    `session_lifecycle`.

`LifecycleProofs.tla` (which extends `SessionProofs`) proves:

* `StageInvariant`: `Spec => []StageInv`. `StageInv` describes, for each
  stage of the coroutine, what is running and what is not.
  * During `socks_start`, the servers below `idx` listen and the rest are
    new.
  * During `load`, a launcher below `idx` that is enabled is no longer new,
    and the launchers from `idx` on are new. A set `db` or `checker` means
    its launcher is loaded.
  * From `load` to `sd_dm`, every server listens and libtorrent runs.
  * From `sd_dm` on, IPv8 is stopped and no overlay is loaded. From
    `sd_mds` on, every server is stopped, and so on down the shutdown.
  * `ApiStartsLast` and `DatabasesOutliveUsers` are not inductive on their
    own. A step that starts REST or closes a database must know what the
    earlier stages did, and `StageInv` records exactly that.
  * The proof is `StageInit` plus `StageNext`. `StageNext` has one case per
    action, each split into the call returning and the call raising. The
    lemma `StageFail` covers all the raising outcomes at once.
* `ApiLast`: `Spec => []ApiStartsLast`, and `DatabasesLast`:
  `Spec => []DatabasesOutliveUsers`. Both follow from `StageInvariant`.
* `Refinement`: `Spec => ImplementsLifecycle`.
  * `AbsInit`: the initial states map to `Lifecycle!Init`.
  * `AbsNext`: under `StageInv`, every step maps to a step of `Lifecycle`
    or to a stutter. There is one case per action, naming the abstract
    `Start`, `Stop`, `Open`, `Close` or `Fail` it is.
  * `AbsStutter` turns a step that leaves every mapped value unchanged into
    a stutter.
  * The last step combines these `BY PTL`.

`EndpointProofs.tla` proves the following about `EndpointConfig`, for
every set of counts, defaults, initial files and `MaxRuns` that satisfy its
`ASSUME`s. Among those is `AbsentAssumption`: the marker `Absent` is not
itself an ipv8 section.

* `TypeCorrect`: `Spec => []TypeOK`. It rests on these lemmas:
  * `GetTyped`: `get()` yields a value of the key's type;
  * `WorkersEditTyped`: setting or popping `worker_threads` keeps a
    configuration;
  * `BuildTyped`.
* `RustWorkers`: `Spec => []RustWorkersFollowPolicy`. The property is
  inductive together with `TypeOK` (`PolicyInv`), for these reasons:
  * only `ConstructWithRust` installs the Rust endpoint;
  * it writes `max_circuits` into the very interface IPv8 is built from;
  * `LoadConfig` resets the endpoint, and nothing else touches it.

`ShutdownProofs.tla` (which extends `LifecycleProofs`) proves:

* `CleanShutdownHolds`: `Spec => []CleanShutdown`.
  * `StageInv` already says what is stopped at `stopped`. What it lacks is
    the notification history.
  * `HistInv` gives, for each stage of `shutdown()`, the exact prefix of
    `ShutdownHistory` published so far:
    * nothing before `sd_checker` ends;
    * `IfHeld("checker", checker)` at `sd_ipv8`;
    * then the same with `"ipv8"`, and so on;
    * the whole history at `stopped`.
  * `HistInv` is inductive only together with `StageInv`. The step
    through `sd_socks` must know that `checker` no longer changes.
  * The sequence steps rest on the library's `ConcatProperties`,
    `ConcatAssociative`, `ConcatEmptySeq` and `AppendIsConcat`, and on the
    lemmas `IfHeldSeq` and `HistTyped`.
  * `HistInv` was checked with TLC on `MCSession` before it was proved.
* `AnnouncedBeforeStoppedHolds`: `Spec => AnnouncedBeforeStopped`.
  * The lemma `AnnounceStep` shows that, under `StageInv /\ HistInv`, every
    step satisfies the property. It has one case per action.
  * A SOCKS5 server is stopped in a step that publishes nothing. There,
    `HistInv` supplies the history announced when the download manager
    stopped (`SocksAnnounced`).
  * The lemmas `AppendedInRange` and `ConcatInRange` say that a phase
    appended to the history is among those published.
* `HistoryInOrderHolds`: `Spec => []HistoryInOrder`.
  * `HistInv` covers every stage except `shutdown_failed`. `OrderInv` adds
    that stage: there, `notified` is a prefix of `ShutdownHistory`.
  * `OrderNext` shows that each raising step publishes exactly the history
    of the stage it failed in, extended by the failing phase. It also shows
    that every global is kept, so the expected history does not change
    (`SameHistory`).
  * `PrefixOf(a, b)` means that `b` is `a` followed by more phases.
    `PrefixTrans` and `HistChain` show that every stage's history is a
    prefix of the whole history. `PrefixSubSeq` turns this into the
    `SubSeq` form that TLC checks.

`EntryProofs.tla` proves the following for every command line and every
environment:
* `EntryTypeCorrect`: `Spec => []TypeOK`.

`main()` is straight-line code. A property about what it hands to
`run_core`/`run_gui` would restate its assignments, so none is stated. What
is worth saying about it is the `--log-level` finding.

Only model-checked, for the reasons below:
* the liveness property `ShutdownTerminates`. TLAPS does not reason about
  fairness or `ENABLED`, so the argument (weak fairness of `SessionStep`,
  and every stage having a step that moves `pc` on) stays with TLC;
* the violations. Each one is a trace TLC finds, not a theorem.

## 5. Plan for the next sittings

1. **Configuration manager**: `set()` on a path with a missing intermediate
   section, and more of the configuration keys the session reads.
2. **Liveness**: `ShutdownTerminates` stays with TLC. A larger `MCSession`
   instance (three servers) would show it beyond two servers.

## 6. Not modelled

* **The GUI feedback dialog** (`gui/dialogs/feedbackdialog.py`). The GUI is
  outside the spec's scope (§1). The dialog also has no behaviour to model
  beyond its constructor raising: line 109 reads `self.scrubber`, which
  nothing assigns (`sentry_reporter` and `send_automatically` are never
  assigned either), so `__init__` raises `AttributeError` and no handler of
  the dialog can run.
* **The GUI tests and the sentry tests**: they exercise code that is not in
  this tree.
* **The circuit manager and the SOCKS5 bridge's connection handling**
  (spec §4.3, §4.4). The tunnel community and the SOCKS5 server are imported
  from packages absent from this repository, so there is no code to
  translate. A model written from the spec alone would check a design, not
  this program.
* **The notifier's subscribe/dispatch**: this is also absent. The session's
  own notifications are modelled as a history.
* **`TriblerConfigManager.set` on a path whose intermediate section is
  missing** (a `KeyError`), and **the aliasing of `DEFAULT_CONFIG` by the
  loaded configuration**. The aliasing is unobservable with one manager per
  process, which is how the core uses it, so it is not a hazard of this
  code.
* **The insides of libtorrent, IPv8 and the REST server**: they are reduced
  to their start/stop state.
