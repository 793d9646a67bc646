--------------------------- MODULE SessionLifecycle ---------------------------
(***************************************************************************)
(* What the core session promises about its subsystems, whatever the      *)
(* order of the individual calls (spec section 4.6, startup and shutdown  *)
(* order):                                                                 *)
(*                                                                         *)
(*  - startup goes up a ladder of ranks (SOCKS5 listeners, the download    *)
(*    engine, the components and what they own, the overlay transport) and *)
(*    never starts a subsystem once one of a higher rank has started;      *)
(*  - the external API comes up last and completes startup, only once the *)
(*    download engine and the overlay are up;                              *)
(*  - shutdown begins only after it was requested and startup completed,   *)
(*    goes down a ladder of its own, and the API goes down last, with     *)
(*    nothing else still up;                                               *)
(*  - any step of startup or shutdown may fail, ending the lifecycle       *)
(*    with whatever was up left up.  Spec 4.6 asks more of shutdown (the   *)
(*    later steps are still attempted); the code does not do that, so the  *)
(*    promise stated here is the one the code keeps.                       *)
(***************************************************************************)
EXTENDS Naturals

VARIABLES
  phase,     \* starting, running, stopping, stopped or failed
  st,        \* each subsystem: new (never started), up or down
  requested  \* a shutdown has been requested

vars == <<phase, st, requested>>

Subsystems == {"socks", "dm", "overlays", "db", "mds", "checker", "ipv8", "rest"}

(* The ladder startup climbs; the API is not on it: it completes startup. *)
StartRank == [socks |-> 1, dm |-> 2, overlays |-> 3, db |-> 3, mds |-> 3,
              checker |-> 3, ipv8 |-> 4, rest |-> 5]

(* The ladder shutdown descends: the overlay and its communities go down   *)
(* together, the databases after every user, the API last.               *)
StopRank == [checker |-> 1, ipv8 |-> 2, overlays |-> 2, dm |-> 3, socks |-> 4,
             db |-> 5, mds |-> 6, rest |-> 7]

TypeOK ==
  /\ phase \in {"starting", "running", "stopping", "stopped", "failed"}
  /\ st \in [Subsystems -> {"new", "up", "down"}]
  /\ requested \in BOOLEAN

Init ==
  /\ phase = "starting"
  /\ st = [s \in Subsystems |-> "new"]
  /\ requested = FALSE

(* The subsystems of T, all of one rank r, start together; startup may     *)
(* fail right after it.                                                     *)
Start(T, r) ==
  /\ phase = "starting"
  /\ T # {} /\ "rest" \notin T
  /\ \A s \in T : st[s] = "new" /\ StartRank[s] = r
  /\ \A s \in Subsystems : StartRank[s] > r => st[s] = "new"
  /\ st' = [s \in Subsystems |-> IF s \in T THEN "up" ELSE st[s]]
  /\ phase' \in {"starting", "failed"}
  /\ UNCHANGED requested

(* The API comes up: startup is complete.                                 *)
Open ==
  /\ phase = "starting"
  /\ st["rest"] = "new" /\ st["dm"] = "up" /\ st["ipv8"] = "up"
  /\ st' = [st EXCEPT !["rest"] = "up"]
  /\ phase' = "running"
  /\ UNCHANGED requested

Request ==
  /\ ~requested
  /\ requested' = TRUE
  /\ UNCHANGED <<phase, st>>

BeginStop ==
  /\ phase = "running" /\ requested
  /\ phase' = "stopping"
  /\ UNCHANGED <<st, requested>>

(* The subsystems of T, all of one rank r and up, go down together, once  *)
(* nothing of a lower rank is still up.                                   *)
Stop(T, r) ==
  /\ phase = "stopping"
  /\ T # {} /\ "rest" \notin T
  /\ \A s \in T : st[s] = "up" /\ StopRank[s] = r
  /\ \A s \in Subsystems : StopRank[s] < r => st[s] # "up"
  /\ st' = [s \in Subsystems |-> IF s \in T THEN "down" ELSE st[s]]
  /\ UNCHANGED <<phase, requested>>

(* The API goes down last: shutdown is complete.                          *)
Close ==
  /\ phase = "stopping"
  /\ st["rest"] = "up"
  /\ \A s \in Subsystems \ {"rest"} : st[s] # "up"
  /\ st' = [st EXCEPT !["rest"] = "down"]
  /\ phase' = "stopped"
  /\ UNCHANGED requested

Fail ==
  /\ phase \in {"starting", "stopping"}
  /\ phase' = "failed"
  /\ UNCHANGED <<st, requested>>

Next ==
  \/ \E T \in SUBSET Subsystems, r \in 1..4 : Start(T, r)
  \/ Open \/ Request \/ BeginStop
  \/ \E T \in SUBSET Subsystems, r \in 1..6 : Stop(T, r)
  \/ Close \/ Fail

Spec == Init /\ [][Next]_vars

=============================================================================
