---------------------------- MODULE EndpointProofs ----------------------------
(***************************************************************************)
(* Proofs about EndpointConfig, for every set of counts, defaults, initial *)
(* files and number of process starts that satisfy its assumptions.       *)
(***************************************************************************)
EXTENDS EndpointConfig, TLAPS

(* get() always yields a value of the key's type: the configured one, or  *)
(* the default when the key is absent.                                     *)
LEMMA GetTyped ==
  ASSUME NEW c \in Configs
  PROVE  /\ Get(c, "ipv8") \in [udp4 : BOOLEAN, wt : Counts \cup {Absent}]
         /\ Get(c, "maxc") \in Counts
  BY CountsAssumption DEF Get, Defaults, Configs, Ipv8Sections

LEMMA DefaultsTyped == Defaults \in Configs
  BY CountsAssumption DEF Defaults, Configs, Ipv8Sections

(* BuildIPv8 keeps endpoint, builtWt and policy in their types.           *)
LEMMA BuildTyped ==
  ASSUME NEW c \in Configs, NEW cls \in {"udp", "rust"}, BuildIPv8(c, cls)
  PROVE  /\ endpoint' \in {"none", "udp", "rust"}
         /\ builtWt' \in Counts \cup {Absent}
         /\ policy' \in Counts
  BY GetTyped DEF BuildIPv8

(* The configuration rust_enhancements leaves behind, with worker_threads *)
(* set or popped in the UDPIPv4 interface, is again a configuration.      *)
LEMMA WorkersEditTyped ==
  ASSUME NEW c \in Configs, c.ipv8 # Absent, NEW w \in Counts \cup {Absent}
  PROVE  [c EXCEPT !.ipv8.wt = w] \in Configs
  BY DEF Configs, Ipv8Sections

(* A present ipv8 section is a record with its two keys.                 *)
LEMMA Ipv8Present ==
  ASSUME NEW c \in Configs, c.ipv8 # Absent
  PROVE  c.ipv8 \in [udp4 : BOOLEAN, wt : Counts \cup {Absent}]
<1>1. c.ipv8 \in Ipv8Sections
  BY DEF Configs
<1>. QED
  BY <1>1 DEF Ipv8Sections

-----------------------------------------------------------------------------
(* Every reachable state is well typed.                                    *)
LEMMA TypeInit == Init => TypeOK
<1> SUFFICES ASSUME Init PROVE TypeOK
  OBVIOUS
<1>1. file \in Configs \cup {NoFile, Corrupt}
  BY FilesAssumption DEF Init
<1>2. conf \in Configs
  BY DefaultsTyped DEF Init
<1>3. builtWt \in Counts \cup {Absent} /\ policy \in Counts
  BY CountsAssumption DEF Init
<1>4. runs \in 0..MaxRuns
  BY MaxRunsAssumption DEF Init
<1>. QED
  BY <1>1, <1>2, <1>3, <1>4, Zenon DEF Init, TypeOK

LEMMA TypeNext == TypeOK /\ [Next]_vars => TypeOK'
<1> SUFFICES ASSUME TypeOK, [Next]_vars PROVE TypeOK'
  OBVIOUS
<1>1. CASE LoadConfig
  <2>1. conf' \in Configs
    BY <1>1, DefaultsTyped DEF LoadConfig, TypeOK
  <2>2. runs' \in 0..MaxRuns
    BY <1>1, MaxRunsAssumption DEF LoadConfig, TypeOK
  <2>3. UNCHANGED <<file, builtWt, policy>> /\ rust' \in BOOLEAN
        /\ proc' = "loaded" /\ endpoint' = "none" /\ socksRust' = FALSE
    BY <1>1 DEF LoadConfig
  <2>. QED
    BY <2>1, <2>2, <2>3, Zenon DEF TypeOK
<1>2. CASE ConstructWithStatistics
  BY <1>2, BuildTyped DEF ConstructWithStatistics, TypeOK
<1>3. CASE ConstructWithoutRust
  <2>1. CASE PopRaises(conf)
    BY <2>1, <1>3 DEF ConstructWithoutRust, Crash, TypeOK
  <2>2. CASE ~PopRaises(conf)
    <3> DEFINE c == IF conf.ipv8.udp4 THEN [conf EXCEPT !.ipv8.wt = Absent] ELSE conf
    <3>1. conf.ipv8 # Absent
      BY <2>2 DEF PopRaises
    <3>2. c \in Configs
      BY <3>1, WorkersEditTyped DEF TypeOK
    <3>3. conf' = c /\ BuildIPv8(c, "udp") /\ proc' = "running" /\ socksRust' = FALSE
          /\ UNCHANGED <<file, rust, runs>>
      BY <2>2, <1>3 DEF ConstructWithoutRust
    <3>4. /\ endpoint' \in {"none", "udp", "rust"}
          /\ builtWt' \in Counts \cup {Absent}
          /\ policy' \in Counts
      BY <3>2, <3>3, BuildTyped
    <3>. QED
      BY <3>2, <3>3, <3>4, Zenon DEF TypeOK
  <2>. QED
    BY <2>1, <2>2
<1>4. CASE ConstructWithRust
  <2>1. CASE conf.ipv8 = Absent
    BY <2>1, <1>4 DEF ConstructWithRust, Crash, TypeOK
  <2>2. CASE conf.ipv8 # Absent
    <3> DEFINE c == IF conf.ipv8.udp4
                    THEN [conf EXCEPT !.ipv8.wt = Get(conf, "maxc")] ELSE conf
    <3>0. Get(conf, "maxc") \in Counts
      BY GetTyped DEF TypeOK
    <3>1. c \in Configs
      BY <2>2, <3>0, WorkersEditTyped DEF TypeOK
    <3>2. c.ipv8.udp4 \in BOOLEAN
      <4>1. conf.ipv8 \in [udp4 : BOOLEAN, wt : Counts \cup {Absent}]
        BY <2>2, Ipv8Present DEF TypeOK
      <4>. QED
        BY <4>1 DEF TypeOK
    <3>3. conf' = c /\ BuildIPv8(c, "rust") /\ socksRust' = c.ipv8.udp4
          /\ proc' = "running" /\ UNCHANGED <<file, rust, runs>>
      BY <2>2, <1>4 DEF ConstructWithRust
    <3>. QED
      BY <3>1, <3>2, <3>3, BuildTyped DEF TypeOK
  <2>. QED
    BY <2>1, <2>2
<1>5. CASE SetMaxCircuits
  BY <1>5 DEF SetMaxCircuits, TypeOK, Configs
<1>6. CASE SetStatistics
  BY <1>6 DEF SetStatistics, TypeOK, Configs
<1>7. CASE WriteConfig
  BY <1>7 DEF WriteConfig, TypeOK
<1>8. CASE Exit
  BY <1>8 DEF Exit, TypeOK
<1>9. CASE UNCHANGED vars
  BY <1>9 DEF vars, TypeOK
<1>. QED
  BY <1>1, <1>2, <1>3, <1>4, <1>5, <1>6, <1>7, <1>8, <1>9 DEF Next

(* Type correctness of the configuration and endpoint model.              *)
THEOREM TypeCorrect == Spec => []TypeOK
  BY TypeInit, TypeNext, PTL DEF Spec

-----------------------------------------------------------------------------
(* The Rust endpoint is sized by the policy in force when IPv8 is built   *)
(* (RustWorkersFollowPolicy), whatever earlier runs persisted.  It is     *)
(* inductive together with TypeOK: only ConstructWithRust installs the    *)
(* Rust endpoint, and it writes max_circuits into worker_threads of the   *)
(* very interface IPv8 is built with.                                     *)
PolicyInv == TypeOK /\ RustWorkersFollowPolicy

LEMMA PolicyNext == PolicyInv /\ [Next]_vars => PolicyInv'
<1> SUFFICES ASSUME PolicyInv, [Next]_vars PROVE RustWorkersFollowPolicy'
  BY TypeNext DEF PolicyInv
<1>1. CASE LoadConfig
  BY <1>1 DEF LoadConfig, RustWorkersFollowPolicy
<1>2. CASE ConstructWithStatistics
  BY <1>2 DEF ConstructWithStatistics, BuildIPv8, RustWorkersFollowPolicy
<1>3. CASE ConstructWithoutRust
  BY <1>3 DEF ConstructWithoutRust, BuildIPv8, Crash, PolicyInv,
              RustWorkersFollowPolicy
<1>4. CASE ConstructWithRust
  <2>1. CASE conf.ipv8 = Absent
    BY <2>1, <1>4 DEF ConstructWithRust, Crash, PolicyInv, RustWorkersFollowPolicy
  <2>2. CASE conf.ipv8 # Absent
    <3> DEFINE c == IF conf.ipv8.udp4
                    THEN [conf EXCEPT !.ipv8.wt = Get(conf, "maxc")] ELSE conf
    <3>1. conf' = c /\ BuildIPv8(c, "rust")
      BY <2>2, <1>4 DEF ConstructWithRust
    <3>2. conf.ipv8 \in [udp4 : BOOLEAN, wt : Counts \cup {Absent}]
      BY <2>2, Ipv8Present DEF PolicyInv, TypeOK
    <3>0. conf \in Configs
      BY DEF PolicyInv, TypeOK
    <3>3. c.ipv8 # Absent /\ Get(c, "ipv8") = c.ipv8
      <4>1. c.ipv8 \in [udp4 : BOOLEAN, wt : Counts \cup {Absent}]
        BY <3>0, <3>2, GetTyped DEF Configs
      <4>. QED
        BY <4>1, AbsentAssumption DEF Get
    <3>4. c.ipv8.udp4 => c.ipv8.wt = Get(conf, "maxc")
      BY <3>0, <3>2 DEF Configs
    <3>5. Get(c, "maxc") = Get(conf, "maxc")
      BY <3>0, <3>2 DEF Get, Configs
    <3>. QED
      BY <3>1, <3>3, <3>4, <3>5 DEF BuildIPv8, RustWorkersFollowPolicy
  <2>. QED
    BY <2>1, <2>2
<1>5. CASE SetMaxCircuits \/ SetStatistics \/ WriteConfig \/ Exit \/ UNCHANGED vars
  BY <1>5 DEF SetMaxCircuits, SetStatistics, WriteConfig, Exit, vars,
              PolicyInv, RustWorkersFollowPolicy
<1>. QED
  BY <1>1, <1>2, <1>3, <1>4, <1>5 DEF Next

(* The Rust endpoint's worker pool always matches the tunnel policy it was *)
(* built under, for every set of counts and every initial file.           *)
THEOREM RustWorkers == Spec => []RustWorkersFollowPolicy
<1>1. Init => PolicyInv
  BY TypeInit DEF Init, PolicyInv, RustWorkersFollowPolicy
<1>2. PolicyInv => RustWorkersFollowPolicy
  BY DEF PolicyInv
<1>. QED
  BY <1>1, <1>2, PolicyNext, PTL DEF Spec

=============================================================================
