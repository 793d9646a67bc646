------------------------------ MODULE EntryPoint ------------------------------
(***************************************************************************)
(* main() of src/src/run_tribler.py, the entry point of both the core and *)
(* the GUI process: parse the command line, configure logging, resolve    *)
(* and create the root state directory, read the API port from the        *)
(* environment, then hand over to run_core or run_gui.                     *)
(*                                                                         *)
(* The command line and the environment are abstracted to what main()      *)
(* tells apart: whether a torrent path is given, --core, and the three    *)
(* ways --log-level can be written (absent, bare, or with a level as the  *)
(* option's help and the Arguments type, log_level: str, suggest);        *)
(* whether TSTATEDIR is unset, absolute or relative, whether APPDATA is   *)
(* set, and whether CORE_API_PORT is unset, a number or not a number.     *)
(* CORE_API_KEY is passed through untouched and is left out.             *)
(***************************************************************************)

CONSTANTS
  NoArgs,  \* parse_args() has not run yet
  None     \* no value yet (no directory, no port, no exception)

Argvs == [torrent : BOOLEAN, core : BOOLEAN,
          logLevel : {"absent", "bare", "withValue"}]

Envs == [tstatedir : {"unset", "absolute", "relative"},
         appdata : {"unset", "set"},
         apiPort : {"unset", "number", "garbage"}]

(* api_port: -1 (CORE_API_PORT unset) or the port CORE_API_PORT holds.     *)
ApiPorts == {"-1", "CORE_API_PORT"}

(* Where the state directory ends up: the TSTATEDIR path, APPDATA's or   *)
(* the home directory's .TriblerExperimental.                              *)
StateDirs == {"tstatedir", "appdata", "home"}

(* log_level after parsing: the default string "INFO", or the bool True    *)
(* that action="store_true" stores when the option is given.              *)
LogLevels == {"INFO", "True"}

VARIABLES
  argv,          \* the command line
  env,           \* the process environment
  pc,            \* the step of main() the process is at, or how it ended
  parsed,        \* parse_args(): the Arguments dict
  rootStateDir,  \* the directory get_root_state_directory returned
  dirMade,       \* whether that directory exists on disk
  apiPort,       \* api_port handed to run_core / run_gui
  error          \* the exception (or argparse exit) that ended main()

vars == <<argv, env, pc, parsed, rootStateDir, dirMade, apiPort, error>>


Pcs == {"parse", "logging", "statedir", "apiport", "dispatch",
        "core", "gui", "exit", "crashed"}

TypeOK ==
  /\ argv \in Argvs
  /\ env \in Envs
  /\ pc \in Pcs
  /\ parsed \in [torrent : BOOLEAN, core : BOOLEAN, logLevel : LogLevels]
                  \cup {NoArgs}
  /\ rootStateDir \in StateDirs \cup {None}
  /\ dirMade \in BOOLEAN
  /\ apiPort \in ApiPorts \cup {None}
  /\ error \in {None, "usage", "TypeError", "OSError", "ValueError"}

(* Any command line and any environment the process can be started with;  *)
(* asyncio.set_event_loop has no effect the rest of main() depends on.    *)
Init ==
  /\ argv \in Argvs
  /\ env \in Envs
  /\ pc = "parse"
  /\ parsed = NoArgs
  /\ rootStateDir = None
  /\ dirMade = FALSE
  /\ apiPort = None
  /\ error = None

(* parse_args.  --log-level is a store_true flag, so it takes no value:   *)
(* "--log-level DEBUG" leaves DEBUG to the optional torrent positional,  *)
(* or, when a torrent is given too, argparse rejects it and exits.        *)
ParseArgs ==
  /\ pc = "parse"
  /\ IF argv.logLevel = "withValue" /\ argv.torrent
       THEN /\ pc' = "exit"
            /\ error' = "usage"
            /\ UNCHANGED parsed
       ELSE /\ parsed' = [torrent |-> argv.torrent \/ argv.logLevel = "withValue",
                          core |-> argv.core,
                          logLevel |-> IF argv.logLevel = "absent"
                                         THEN "INFO" ELSE "True"]
            /\ pc' = "logging"
            /\ UNCHANGED error
  /\ UNCHANGED <<argv, env, rootStateDir, dirMade, apiPort>>

(* logging.basicConfig(level=getattr(logging, log_level)): getattr with   *)
(* the bool True raises TypeError.                                         *)
ConfigureLogging ==
  /\ pc = "logging"
  /\ IF parsed.logLevel = "INFO"
       THEN pc' = "statedir" /\ UNCHANGED error
       ELSE pc' = "crashed" /\ error' = "TypeError"
  /\ UNCHANGED <<argv, env, parsed, rootStateDir, dirMade, apiPort>>

(* get_root_state_directory(os.environ.get('TSTATEDIR', 'state_directory')): *)
(* an absolute path is used as it is; anything else, the relative default  *)
(* included, gives APPDATA (or ~)/.TriblerExperimental.  mkdir may fail    *)
(* (no permission, a file in the way) and raises.                          *)
RequestedDir(e) ==
  IF e.tstatedir = "absolute" THEN "tstatedir"
  ELSE IF e.appdata = "set" THEN "appdata" ELSE "home"

ResolveStateDir ==
  /\ pc = "statedir"
  /\ \/ /\ rootStateDir' = RequestedDir(env)
        /\ dirMade' = TRUE
        /\ pc' = "apiport"
        /\ UNCHANGED error
     \/ /\ pc' = "crashed"
        /\ error' = "OSError"
        /\ UNCHANGED <<rootStateDir, dirMade>>
  /\ UNCHANGED <<argv, env, parsed, apiPort>>

(* Mutant: the variable's text is handed on unparsed.                     *)
ReadApiPortUnparsed ==
  /\ pc = "apiport"
  /\ apiPort' = env.apiPort
  /\ pc' = "dispatch"
  /\ UNCHANGED <<argv, env, parsed, rootStateDir, dirMade, error>>

(* int(os.environ.get('CORE_API_PORT', '-1')): ValueError when the        *)
(* variable is not a number.                                               *)
ReadApiPort ==
  /\ pc = "apiport"
  /\ IF env.apiPort = "garbage"
       THEN pc' = "crashed" /\ error' = "ValueError" /\ UNCHANGED apiPort
       ELSE /\ apiPort' = IF env.apiPort = "unset" THEN "-1" ELSE "CORE_API_PORT"
            /\ pc' = "dispatch"
            /\ UNCHANGED error
  /\ UNCHANGED <<argv, env, parsed, rootStateDir, dirMade>>

(* run_core or run_gui, by --core.                                         *)
Dispatch ==
  /\ pc = "dispatch"
  /\ pc' = IF parsed.core THEN "core" ELSE "gui"
  /\ UNCHANGED <<argv, env, parsed, rootStateDir, dirMade, apiPort, error>>

Next == ParseArgs \/ ConfigureLogging \/ ResolveStateDir \/ ReadApiPort \/ Dispatch

Spec == Init /\ [][Next]_vars

-----------------------------------------------------------------------------

(* The option --log-level, whose help says it sets the log level, can be  *)
(* used: a start that gives it is never ended by an argparse error or by  *)
(* the logging setup.                                                      *)
LogLevelOptionUsable ==
  argv.logLevel # "absent" => error \notin {"usage", "TypeError"}

=============================================================================
