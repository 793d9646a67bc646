----------------------------- MODULE EntryProofs ------------------------------
(***************************************************************************)
(* Proofs about main() of run_tribler.py (EntryPoint), for every command  *)
(* line and every environment the process can be started with.            *)
(* Every step either moves on with values of the types main() works with *)
(* or ends the process with the exception the code raises there.          *)
(***************************************************************************)
EXTENDS EntryPoint, TLAPS

-----------------------------------------------------------------------------
LEMMA TypeInit == Init => TypeOK
  BY DEF Init, TypeOK, Pcs

(* The directory main() settles on is one of the three it can choose.     *)
LEMMA RequestedDirTyped ==
  ASSUME NEW e \in Envs
  PROVE  RequestedDir(e) \in StateDirs
  BY DEF RequestedDir, StateDirs

LEMMA TypeNext == TypeOK /\ [Next]_vars => TypeOK'
<1> SUFFICES ASSUME TypeOK, [Next]_vars PROVE TypeOK'
  OBVIOUS
<1>1. CASE ParseArgs
  <2>0. argv \in Argvs
    BY DEF TypeOK
  <2>1. parsed' \in [torrent : BOOLEAN, core : BOOLEAN, logLevel : LogLevels] \cup {NoArgs}
    <3>1. CASE argv.logLevel = "withValue" /\ argv.torrent
      BY <1>1, <3>1 DEF ParseArgs, TypeOK
    <3>2. CASE ~(argv.logLevel = "withValue" /\ argv.torrent)
      <4>1. parsed' = [torrent |-> argv.torrent \/ argv.logLevel = "withValue",
                       core |-> argv.core,
                       logLevel |-> IF argv.logLevel = "absent" THEN "INFO" ELSE "True"]
        BY <1>1, <3>2 DEF ParseArgs
      <4>2. argv.torrent \in BOOLEAN /\ argv.core \in BOOLEAN
        BY <2>0 DEF Argvs
      <4>. QED
        BY <4>1, <4>2 DEF LogLevels
    <3>. QED
      BY <3>1, <3>2
  <2>2. pc' \in Pcs /\ error' \in {None, "usage", "TypeError", "OSError", "ValueError"}
    BY <1>1 DEF ParseArgs, TypeOK, Pcs
  <2>. QED
    BY <1>1, <2>1, <2>2 DEF ParseArgs, TypeOK
<1>2. CASE ConfigureLogging
  BY <1>2 DEF ConfigureLogging, TypeOK, Pcs
<1>3. CASE ResolveStateDir
  BY <1>3, RequestedDirTyped DEF ResolveStateDir, TypeOK, Pcs
<1>4. CASE ReadApiPort
  BY <1>4 DEF ReadApiPort, TypeOK, Pcs, ApiPorts
<1>5. CASE Dispatch
  BY <1>5 DEF Dispatch, TypeOK, Pcs
<1>6. CASE UNCHANGED vars
  BY <1>6 DEF vars, TypeOK
<1>. QED
  BY <1>1, <1>2, <1>3, <1>4, <1>5, <1>6 DEF Next

(* Every state main() reaches is well typed.                               *)
THEOREM EntryTypeCorrect == Spec => []TypeOK
  BY TypeInit, TypeNext, PTL DEF Spec

=============================================================================
