---------------------------- MODULE ShutdownProofs ----------------------------
(***************************************************************************)
(* Proof that a shutdown() which returns leaves the session clean and has *)
(* told the observers of every phase it went through, in shutdown order   *)
(* (CleanShutdown), for every port list and launcher list.                *)
(*                                                                         *)
(* StageInv (LifecycleProofs) already says what is stopped at each stage.  *)
(* What it lacks is the history of tribler_shutdown_state notifications:  *)
(* HistInv gives, for each stage of shutdown(), the notifications sent so *)
(* far, a prefix of ShutdownHistory.  From it follow that no stop happens *)
(* before its phase is announced (AnnouncedBeforeStopped) and, with       *)
(* OrderInv for a shutdown() that raised, that the notifications are      *)
(* always the phases in order (HistoryInOrder).                            *)
(***************************************************************************)
EXTENDS LifecycleProofs, SequenceTheorems

(* The notifications sent once the SOCKS5 phase has been announced, once  *)
(* the database phase is past, and once the metadata store phase is past. *)
HistAfterSocks == IfHeld("checker", checker) \o <<"ipv8", "dm", "socks">>
HistAfterDb == HistAfterSocks \o IfHeld("db", db)
HistAfterMds == HistAfterDb \o IfHeld("mds", mds)

StartPcs == {"socks_start", "load", "rest_start", "running", "sd_checker", "start_failed"}

HistInv ==
  /\ pc \in StartPcs => notified = <<>>
  /\ pc = "sd_ipv8" => notified = IfHeld("checker", checker)
  /\ pc = "sd_dm" => notified = IfHeld("checker", checker) \o <<"ipv8">>
  /\ pc = "sd_socks" => notified = HistAfterSocks
  /\ pc = "sd_mds" => notified = HistAfterDb
  /\ pc = "sd_rest" => notified = HistAfterMds
  /\ pc = "stopped" => notified = ShutdownHistory

-----------------------------------------------------------------------------
(* IfHeld yields a sequence of phases of length at most one.              *)
LEMMA IfHeldSeq ==
  ASSUME NEW ph \in Phases, NEW x
  PROVE  IfHeld(ph, x) \in Seq(Phases)
  BY DEF IfHeld

(* A held subsystem stays held once it is closed.                          *)
LEMMA IfHeldClosed ==
  ASSUME NEW ph
  PROVE  IfHeld(ph, "closed") = <<ph>> /\ IfHeld(ph, "None") = <<>>
  BY DEF IfHeld

LEMMA HistTyped ==
  /\ HistAfterSocks \in Seq(Phases)
  /\ HistAfterDb \in Seq(Phases)
  /\ HistAfterMds \in Seq(Phases)
<1>1. HistAfterSocks \in Seq(Phases)
  BY IfHeldSeq, ConcatProperties DEF HistAfterSocks, Phases
<1>2. HistAfterDb \in Seq(Phases)
  BY <1>1, IfHeldSeq, ConcatProperties DEF HistAfterDb, Phases
<1>. QED
  BY <1>1, <1>2, IfHeldSeq, ConcatProperties DEF HistAfterMds, Phases

-----------------------------------------------------------------------------
LEMMA HistInit == Init => HistInv
  BY DEF Init, HistInv, StartPcs

LEMMA HistNext == StageInv /\ HistInv /\ [Next]_vars => HistInv'
<1> SUFFICES ASSUME StageInv, HistInv, [Next]_vars PROVE HistInv'
  OBVIOUS
<1>0. TypeOK /\ TypeOK'
  BY TypeNext DEF StageInv
(* A step that keeps notified empty and stays in startup, or that raises  *)
(* in shutdown, cannot disturb the history.                                *)
<1>q. ASSUME pc' \in StartPcs, notified' = <<>> PROVE HistInv'
  BY <1>q DEF HistInv, StartPcs
<1>f. ASSUME pc' = "shutdown_failed" PROVE HistInv'
  BY <1>f DEF HistInv, StartPcs
<1>1. CASE StartSocksServer \/ StartLibtorrent \/ LoadLauncher \/ StartIPv8
           \/ StartREST \/ BeginShutdown
  <2>1. pc \in StartPcs /\ pc' \in StartPcs /\ UNCHANGED notified
    BY <1>1 DEF StartSocksServer, StartRaises, StartLibtorrent, LoadLauncher,
                StartIPv8, StartREST, BeginShutdown, StartPcs
  <2>. QED
    BY <2>1, <1>q DEF HistInv
<1>2. CASE RequestShutdown \/ UNCHANGED vars
  BY <1>2 DEF RequestShutdown, vars, HistInv, HistAfterMds, HistAfterDb,
              HistAfterSocks, ShutdownHistory
<1>3. CASE ShutdownChecker
  <2>0. pc = "sd_checker" /\ notified = <<>>
    BY <1>3 DEF ShutdownChecker, HistInv, StartPcs
  <2>1. CASE checker = "None"
    BY <1>3, <2>0, <2>1, IfHeldClosed DEF ShutdownChecker, HistInv, StartPcs
  <2>2. CASE checker # "None" /\ checker' = "closed" /\ pc' = "sd_ipv8"
    <3>1. notified' = <<"checker">>
      BY <1>3, <2>0, <2>2 DEF ShutdownChecker, Announce
    <3>. QED
      BY <2>2, <3>1, IfHeldClosed DEF HistInv, StartPcs
  <2>. QED
    BY <1>3, <2>1, <2>2, <1>f DEF ShutdownChecker, ShutdownRaises
<1>4. CASE ShutdownIPv8
  <2>0. pc = "sd_ipv8" /\ notified = IfHeld("checker", checker)
        /\ notified' = Append(notified, "ipv8") /\ UNCHANGED checker
    BY <1>4 DEF ShutdownIPv8, Announce, HistInv, StartPcs
  <2>1. notified' = IfHeld("checker", checker) \o <<"ipv8">>
    BY <2>0, IfHeldSeq, AppendIsConcat DEF Phases
  <2>. QED
    BY <1>4, <2>0, <2>1, <1>f DEF ShutdownIPv8, ShutdownRaises, HistInv, StartPcs
<1>5. CASE ShutdownDownloadManager
  <2>0. pc = "sd_dm" /\ notified = IfHeld("checker", checker) \o <<"ipv8">>
        /\ UNCHANGED checker
    BY <1>5 DEF ShutdownDownloadManager, HistInv, StartPcs
  <2>1. CASE notified' = notified \o <<"dm", "socks">> /\ pc' = "sd_socks"
    <3>1. (IfHeld("checker", checker) \o <<"ipv8">>) \o <<"dm", "socks">>
          = IfHeld("checker", checker) \o (<<"ipv8">> \o <<"dm", "socks">>)
      BY IfHeldSeq, ConcatAssociative DEF Phases
    <3>2. <<"ipv8">> \o <<"dm", "socks">> = <<"ipv8", "dm", "socks">>
      <4> DEFINE u == <<"ipv8">> \o <<"dm", "socks">>
      <4>1. u \in Seq(Phases) /\ Len(u) = 3
            /\ \A i \in 1..3 : u[i] = IF i <= 1 THEN <<"ipv8">>[i] ELSE <<"dm", "socks">>[i - 1]
        BY ConcatProperties DEF Phases
      <4>2. \A i \in 1..3 : u[i] = <<"ipv8", "dm", "socks">>[i]
        BY <4>1
      <4>3. <<"ipv8", "dm", "socks">> \in Seq(Phases) /\ Len(<<"ipv8", "dm", "socks">>) = 3
        BY DEF Phases
      <4>. QED
        BY <4>1, <4>2, <4>3, SeqEqual
    <3>. QED
      BY <2>0, <2>1, <3>1, <3>2 DEF HistInv, HistAfterSocks, StartPcs
  <2>. QED
    BY <1>5, <2>1, <1>f DEF ShutdownDownloadManager, ShutdownRaises
<1>6. CASE StopSocksServer
  BY <1>6, <1>f DEF StopSocksServer, ShutdownRaises, HistInv, HistAfterSocks, StartPcs
<1>7. CASE ShutdownDatabase
  <2>0. pc = "sd_socks" /\ notified = HistAfterSocks /\ UNCHANGED <<checker, mds>>
    BY <1>7 DEF ShutdownDatabase, HistInv, StartPcs
  <2>1. CASE db = "None"
    <3>1. HistAfterSocks \o IfHeld("db", db) = HistAfterSocks
      BY <2>1, IfHeldClosed, HistTyped, ConcatEmptySeq
    <3>. QED
      BY <1>7, <2>0, <2>1, <3>1 DEF ShutdownDatabase, HistInv, HistAfterDb,
                                    HistAfterSocks, StartPcs
  <2>2. CASE db # "None" /\ db' = "closed" /\ pc' = "sd_mds"
    <3>1. notified' = HistAfterSocks \o <<"db">>
      BY <1>7, <2>0, <2>2, HistTyped, AppendIsConcat DEF ShutdownDatabase, Announce, Phases
    <3>. QED
      BY <2>0, <2>2, <3>1, IfHeldClosed DEF HistInv, HistAfterDb, HistAfterSocks, StartPcs
  <2>. QED
    BY <1>7, <2>1, <2>2, <1>f DEF ShutdownDatabase, ShutdownRaises
<1>8. CASE ShutdownMetadataStore
  <2>0. pc = "sd_mds" /\ notified = HistAfterDb /\ UNCHANGED <<checker, db>>
    BY <1>8 DEF ShutdownMetadataStore, HistInv, StartPcs
  <2>1. CASE mds = "None"
    <3>1. HistAfterDb \o IfHeld("mds", mds) = HistAfterDb
      BY <2>1, IfHeldClosed, HistTyped, ConcatEmptySeq
    <3>. QED
      BY <1>8, <2>0, <2>1, <3>1 DEF ShutdownMetadataStore, HistInv, HistAfterMds,
                                    HistAfterDb, HistAfterSocks, StartPcs
  <2>2. CASE mds # "None" /\ mds' = "closed" /\ pc' = "sd_rest"
    <3>1. notified' = HistAfterDb \o <<"mds">>
      BY <1>8, <2>0, <2>2, HistTyped, AppendIsConcat DEF ShutdownMetadataStore, Announce, Phases
    <3>. QED
      BY <2>0, <2>2, <3>1, IfHeldClosed DEF HistInv, HistAfterMds, HistAfterDb,
                                            HistAfterSocks, StartPcs
  <2>. QED
    BY <1>8, <2>1, <2>2, <1>f DEF ShutdownMetadataStore, ShutdownRaises
<1>9. CASE ShutdownREST
  <2>0. pc = "sd_rest" /\ notified = HistAfterMds /\ UNCHANGED <<checker, db, mds>>
        /\ notified' = Append(notified, "rest")
    BY <1>9 DEF ShutdownREST, Announce, HistInv, StartPcs
  <2>1. notified' = HistAfterMds \o <<"rest">>
    BY <2>0, HistTyped, AppendIsConcat DEF Phases
  <2>2. HistAfterMds \o <<"rest">> = ShutdownHistory'
    BY <2>0 DEF HistAfterMds, HistAfterDb, HistAfterSocks, ShutdownHistory
  <2>. QED
    BY <1>9, <2>1, <2>2, <1>f DEF ShutdownREST, ShutdownRaises, HistInv, StartPcs
<1>. QED
  BY <1>1, <1>2, <1>3, <1>4, <1>5, <1>6, <1>7, <1>8, <1>9 DEF Next, SessionStep

-----------------------------------------------------------------------------
(* A shutdown() that returns has stopped the SOCKS5 servers, libtorrent,  *)
(* IPv8 and its communities and the REST API, closed every database and   *)
(* the torrent checker it opened, and announced exactly the phases it had *)
(* to go through, in shutdown order (Session.shutdown, session.py 146-175). *)
THEOREM CleanShutdownHolds == Spec => []CleanShutdown
<1>1. Init => StageInv /\ HistInv
  BY StageInit, HistInit
<1>2. StageInv /\ HistInv /\ [Next]_vars => StageInv' /\ HistInv'
  BY StageNext, HistNext
<1>3. StageInv /\ HistInv => CleanShutdown
  BY DEF StageInv, HistInv, CleanShutdown, SrvAll, NoneLoaded
<1>. QED
  BY <1>1, <1>2, <1>3, PTL DEF Spec


-----------------------------------------------------------------------------
(* a is a prefix of b: b continues a with further phases.                 *)
PrefixOf(a, b) == \E t \in Seq(Phases) : b = a \o t

(* The notifications sent once the IPv8 and the download manager phases   *)
(* have been announced.                                                    *)
HistAfterIPv8 == IfHeld("checker", checker) \o <<"ipv8">>
HistAfterDm == HistAfterIPv8 \o <<"dm">>

LEMMA PrefixConcat ==
  ASSUME NEW a \in Seq(Phases), NEW t \in Seq(Phases)
  PROVE  PrefixOf(a, a \o t)
  BY DEF PrefixOf

LEMMA PrefixTrans ==
  ASSUME NEW a \in Seq(Phases), NEW b \in Seq(Phases), NEW c,
         PrefixOf(a, b), PrefixOf(b, c)
  PROVE  PrefixOf(a, c)
<1>1. PICK t \in Seq(Phases) : b = a \o t
  BY DEF PrefixOf
<1>2. PICK u \in Seq(Phases) : c = b \o u
  BY DEF PrefixOf
<1>3. c = a \o (t \o u) /\ t \o u \in Seq(Phases)
  BY <1>1, <1>2, ConcatAssociative, ConcatProperties
<1>. QED
  BY <1>3 DEF PrefixOf

(* A prefix is the initial segment SubSeq takes.                          *)
LEMMA PrefixSubSeq ==
  ASSUME NEW a \in Seq(Phases), NEW b, PrefixOf(a, b)
  PROVE  Len(a) <= Len(b) /\ a = SubSeq(b, 1, Len(a))
<1>1. PICK t \in Seq(Phases) : b = a \o t
  BY DEF PrefixOf
<1>2. /\ b \in Seq(Phases)
      /\ Len(b) = Len(a) + Len(t)
      /\ \A i \in 1..Len(a) : b[i] = a[i]
  BY <1>1, ConcatProperties
<1>3. /\ SubSeq(b, 1, Len(a)) \in Seq(Phases)
      /\ Len(SubSeq(b, 1, Len(a))) = Len(a)
      /\ \A i \in 1..Len(a) : SubSeq(b, 1, Len(a))[i] = b[i]
  BY <1>2, SubSeqProperties
<1>. QED
  BY <1>2, <1>3, SeqEqual

LEMMA TwoPhases ==
  /\ <<"dm">> \o <<"socks">> = <<"dm", "socks">>
  /\ <<"ipv8">> \o <<"dm", "socks">> = <<"ipv8", "dm", "socks">>
<1>1. <<"dm">> \o <<"socks">> = <<"dm", "socks">>
  <2> DEFINE u == <<"dm">> \o <<"socks">>
             v == <<"dm", "socks">>
  <2>1. u \in Seq(Phases) /\ Len(u) = 2
        /\ \A i \in 1..2 : u[i] = IF i <= 1 THEN <<"dm">>[i] ELSE <<"socks">>[i - 1]
    BY ConcatProperties DEF Phases
  <2>2. \A i \in 1..2 : u[i] = v[i]
    BY <2>1
  <2>3. v \in Seq(Phases) /\ Len(v) = 2
    BY DEF Phases
  <2>. QED
    BY <2>1, <2>2, <2>3, SeqEqual
<1>2. <<"ipv8">> \o <<"dm", "socks">> = <<"ipv8", "dm", "socks">>
  <2> DEFINE u == <<"ipv8">> \o <<"dm", "socks">>
             v == <<"ipv8", "dm", "socks">>
  <2>1. u \in Seq(Phases) /\ Len(u) = 3
        /\ \A i \in 1..3 : u[i] = IF i <= 1 THEN <<"ipv8">>[i] ELSE <<"dm", "socks">>[i - 1]
    BY ConcatProperties DEF Phases
  <2>2. \A i \in 1..3 : u[i] = v[i]
    BY <2>1
  <2>3. v \in Seq(Phases) /\ Len(v) = 3
    BY DEF Phases
  <2>. QED
    BY <2>1, <2>2, <2>3, SeqEqual
<1>. QED
  BY <1>1, <1>2

(* Every stage's history is a prefix of the full shutdown history.        *)
LEMMA HistChain ==
  /\ ShutdownHistory \in Seq(Phases)
  /\ PrefixOf(<<>>, ShutdownHistory)
  /\ PrefixOf(IfHeld("checker", checker), ShutdownHistory)
  /\ PrefixOf(HistAfterIPv8, ShutdownHistory)
  /\ PrefixOf(HistAfterDm, ShutdownHistory)
  /\ PrefixOf(HistAfterSocks, ShutdownHistory)
  /\ PrefixOf(HistAfterDb, ShutdownHistory)
  /\ PrefixOf(HistAfterMds, ShutdownHistory)
  /\ PrefixOf(ShutdownHistory, ShutdownHistory)
<1> DEFINE c == IfHeld("checker", checker)
           SH == ShutdownHistory
<1>0. /\ c \in Seq(Phases)
      /\ IfHeld("db", db) \in Seq(Phases) /\ IfHeld("mds", mds) \in Seq(Phases)
      /\ <<"ipv8">> \in Seq(Phases) /\ <<"dm">> \in Seq(Phases)
      /\ <<"socks">> \in Seq(Phases) /\ <<"rest">> \in Seq(Phases)
      /\ <<"dm", "socks">> \in Seq(Phases)
  BY IfHeldSeq DEF Phases
<1>1. /\ HistAfterIPv8 \in Seq(Phases) /\ HistAfterDm \in Seq(Phases)
      /\ HistAfterSocks \in Seq(Phases) /\ HistAfterDb \in Seq(Phases)
      /\ HistAfterMds \in Seq(Phases)
  BY <1>0, HistTyped, ConcatProperties DEF HistAfterIPv8, HistAfterDm
<1>2. SH = HistAfterMds \o <<"rest">>
  BY DEF ShutdownHistory, HistAfterMds, HistAfterDb, HistAfterSocks
<1>3. SH \in Seq(Phases)
  BY <1>0, <1>1, <1>2, ConcatProperties
<1>4. PrefixOf(HistAfterMds, SH)
  BY <1>0, <1>1, <1>2, PrefixConcat
<1>5. PrefixOf(HistAfterDb, SH)
  <2>1. PrefixOf(HistAfterDb, HistAfterMds)
    BY <1>0, <1>1, PrefixConcat DEF HistAfterMds
  <2>. QED
    BY <1>1, <1>4, <2>1, PrefixTrans
<1>6. PrefixOf(HistAfterSocks, SH)
  <2>1. PrefixOf(HistAfterSocks, HistAfterDb)
    BY <1>0, <1>1, PrefixConcat DEF HistAfterDb
  <2>. QED
    BY <1>1, <1>5, <2>1, PrefixTrans
<1>7. HistAfterSocks = HistAfterIPv8 \o <<"dm", "socks">>
  <2>1. HistAfterIPv8 \o <<"dm", "socks">> = c \o (<<"ipv8">> \o <<"dm", "socks">>)
    BY <1>0, ConcatAssociative DEF HistAfterIPv8
  <2>. QED
    BY <2>1, TwoPhases DEF HistAfterSocks
<1>8. HistAfterSocks = HistAfterDm \o <<"socks">>
  <2>0. HistAfterIPv8 \in Seq(Phases) /\ <<"dm">> \in Seq(Phases)
        /\ <<"socks">> \in Seq(Phases)
    BY <1>0, <1>1
  <2>1. (HistAfterIPv8 \o <<"dm">>) \o <<"socks">> = HistAfterIPv8 \o (<<"dm">> \o <<"socks">>)
    BY <2>0, ConcatAssociative
  <2>. QED
    BY <1>7, <2>1, TwoPhases DEF HistAfterDm
<1>9. PrefixOf(HistAfterDm, SH)
  <2>1. PrefixOf(HistAfterDm, HistAfterSocks)
    BY <1>0, <1>1, <1>8, PrefixConcat
  <2>. QED
    BY <1>1, <1>6, <2>1, PrefixTrans
<1>10. PrefixOf(HistAfterIPv8, SH)
  <2>1. PrefixOf(HistAfterIPv8, HistAfterSocks)
    BY <1>0, <1>1, <1>7, PrefixConcat
  <2>. QED
    BY <1>1, <1>6, <2>1, PrefixTrans
<1>11. PrefixOf(c, SH)
  <2>1. PrefixOf(c, HistAfterIPv8)
    BY <1>0, PrefixConcat DEF HistAfterIPv8
  <2>. QED
    BY <1>0, <1>1, <1>10, <2>1, PrefixTrans
<1>12. PrefixOf(<<>>, SH) /\ PrefixOf(SH, SH)
  <2>1. SH = <<>> \o SH /\ SH = SH \o <<>>
    BY <1>3, ConcatEmptySeq
  <2>2. <<>> \in Seq(Phases)
    OBVIOUS
  <2>. QED
    BY <1>3, <2>1, <2>2 DEF PrefixOf
<1>. QED
  BY <1>3, <1>4, <1>5, <1>6, <1>9, <1>10, <1>11, <1>12

-----------------------------------------------------------------------------
(* The phase a notification appends is among those published.             *)
LEMMA AppendedInRange ==
  ASSUME NEW s \in Seq(Phases), NEW e \in Phases
  PROVE  e \in SeqRange(Append(s, e))
<1>1. Len(Append(s, e)) = Len(s) + 1 /\ Append(s, e)[Len(s) + 1] = e
  BY AppendProperties
<1>2. Len(s) + 1 \in DOMAIN Append(s, e)
  BY <1>1
<1>. QED
  BY <1>1, <1>2 DEF SeqRange

(* Every phase of the notifications appended last is among those published. *)
LEMMA ConcatInRange ==
  ASSUME NEW s \in Seq(Phases), NEW t \in Seq(Phases), NEW i \in 1..Len(t)
  PROVE  t[i] \in SeqRange(s \o t)
<1>1. /\ Len(s \o t) = Len(s) + Len(t)
      /\ (s \o t)[Len(s) + i] = t[i]
  BY ConcatProperties
<1>2. Len(s) + i \in DOMAIN (s \o t)
  BY <1>1
<1>. QED
  BY <1>1, <1>2 DEF SeqRange

(* The step that leaves pc = "sd_socks" has published the SOCKS5 phase.   *)
LEMMA SocksAnnounced == "socks" \in SeqRange(HistAfterSocks)
<1>1. IfHeld("checker", checker) \in Seq(Phases)
  BY IfHeldSeq DEF Phases
<1>2. <<"ipv8", "dm", "socks">> \in Seq(Phases) /\ Len(<<"ipv8", "dm", "socks">>) = 3
  BY DEF Phases
<1>3. 3 \in 1..Len(<<"ipv8", "dm", "socks">>)
  BY <1>2
<1>4. <<"ipv8", "dm", "socks">>[3]
        \in SeqRange(IfHeld("checker", checker) \o <<"ipv8", "dm", "socks">>)
  BY <1>1, <1>2, <1>3, ConcatInRange, Zenon
<1>. QED
  BY <1>4 DEF HistAfterSocks

(* No step stops a subsystem before announcing its phase.                 *)
LEMMA AnnounceStep ==
  StageInv /\ HistInv /\ [Next]_vars => StoppedNow \subseteq SeqRange(notified')
<1> SUFFICES ASSUME StageInv, HistInv, [Next]_vars
             PROVE  StoppedNow \subseteq SeqRange(notified')
  OBVIOUS
<1>0. TypeOK
  BY DEF StageInv
(* A step that stops nothing, and a step that stops only the subsystem of *)
(* a phase it has published.                                               *)
<1>z. ASSUME UNCHANGED <<checker, ipv8, dm, srv, db, mds, rest>> PROVE StoppedNow = {}
  BY <1>z DEF StoppedNow
<1>1. CASE StartSocksServer
  <2>1. \A i \in Servers : srv'[i].state # "stopped" \/ srv'[i] = srv[i]
    BY <1>1, <1>0 DEF StartSocksServer, StartRaises, TypeOK
  <2>. QED
    BY <1>1, <2>1 DEF StartSocksServer, StartRaises, StoppedNow
<1>2. CASE StartLibtorrent \/ StartIPv8 \/ StartREST \/ BeginShutdown
           \/ RequestShutdown \/ UNCHANGED vars
  BY <1>2 DEF StartLibtorrent, StartIPv8, StartREST, BeginShutdown, RequestShutdown,
              vars, StoppedNow
<1>3. CASE LoadLauncher
  BY <1>3 DEF LoadLauncher, StoppedNow
<1>4. CASE ShutdownChecker
  <2>1. CASE checker = "None"
    BY <1>4, <2>1, <1>z DEF ShutdownChecker
  <2>2. CASE checker # "None"
    <3>1. notified' = Append(notified, "checker")
      BY <1>4, <2>2 DEF ShutdownChecker, Announce
    <3>2. "checker" \in SeqRange(notified')
      BY <1>0, <3>1, AppendedInRange DEF TypeOK, Phases
    <3>. QED
      BY <1>4, <3>2 DEF ShutdownChecker, StoppedNow
  <2>. QED
    BY <2>1, <2>2
<1>5. CASE ShutdownIPv8
  <2>1. "ipv8" \in SeqRange(notified')
    BY <1>0, <1>5, AppendedInRange DEF ShutdownIPv8, Announce, TypeOK, Phases
  <2>. QED
    BY <1>5, <2>1 DEF ShutdownIPv8, StoppedNow
<1>6. CASE ShutdownDownloadManager
  <2>1. "dm" \in SeqRange(notified')
    <3>1. CASE notified' = notified \o <<"dm", "socks">>
      <4>1. <<"dm", "socks">> \in Seq(Phases) /\ Len(<<"dm", "socks">>) = 2
        BY DEF Phases
      <4>2. notified \in Seq(Phases) /\ 1 \in 1..Len(<<"dm", "socks">>)
        BY <1>0, <4>1 DEF TypeOK
      <4>3. <<"dm", "socks">>[1] \in SeqRange(notified \o <<"dm", "socks">>)
        BY <4>1, <4>2, ConcatInRange, Zenon
      <4>. QED
        BY <3>1, <4>3
    <3>2. CASE notified' = Append(notified, "dm")
      BY <1>0, <3>2, AppendedInRange DEF TypeOK, Phases
    <3>. QED
      BY <1>6, <3>1, <3>2 DEF ShutdownDownloadManager, Announce
  <2>. QED
    BY <1>6, <2>1 DEF ShutdownDownloadManager, StoppedNow
<1>7. CASE StopSocksServer
  <2>1. "socks" \in SeqRange(notified')
    BY <1>7, SocksAnnounced DEF StopSocksServer, HistInv
  <2>. QED
    BY <1>7, <2>1 DEF StopSocksServer, StoppedNow
<1>8. CASE ShutdownDatabase
  <2>1. CASE db = "None"
    BY <1>8, <2>1, <1>z DEF ShutdownDatabase
  <2>2. CASE db # "None"
    <3>1. "db" \in SeqRange(notified')
      BY <1>0, <1>8, <2>2, AppendedInRange DEF ShutdownDatabase, Announce, TypeOK, Phases
    <3>. QED
      BY <1>8, <3>1 DEF ShutdownDatabase, StoppedNow
  <2>. QED
    BY <2>1, <2>2
<1>9. CASE ShutdownMetadataStore
  <2>1. CASE mds = "None"
    BY <1>9, <2>1, <1>z DEF ShutdownMetadataStore
  <2>2. CASE mds # "None"
    <3>1. "mds" \in SeqRange(notified')
      BY <1>0, <1>9, <2>2, AppendedInRange DEF ShutdownMetadataStore, Announce, TypeOK, Phases
    <3>. QED
      BY <1>9, <3>1 DEF ShutdownMetadataStore, StoppedNow
  <2>. QED
    BY <2>1, <2>2
<1>10. CASE ShutdownREST
  <2>1. "rest" \in SeqRange(notified')
    BY <1>0, <1>10, AppendedInRange DEF ShutdownREST, Announce, TypeOK, Phases
  <2>. QED
    BY <1>10, <2>1 DEF ShutdownREST, StoppedNow
<1>. QED
  BY <1>1, <1>2, <1>3, <1>4, <1>5, <1>6, <1>7, <1>8, <1>9, <1>10 DEF Next, SessionStep

(* Every step of start()/shutdown() that stops the torrent checker, IPv8, *)
(* libtorrent, a SOCKS5 server, a database or the REST API has published *)
(* the tribler_shutdown_state notification of that phase by the end of    *)
(* the step, in runs where shutdown() returns and in runs where it raises *)
(* (Session.shutdown, session.py 146-175).                                 *)
THEOREM AnnouncedBeforeStoppedHolds == Spec => AnnouncedBeforeStopped
<1>1. Init => StageInv /\ HistInv
  BY StageInit, HistInit
<1>2. StageInv /\ HistInv /\ [Next]_vars => StageInv' /\ HistInv'
  BY StageNext, HistNext
<1>3. StageInv /\ HistInv /\ [Next]_vars => [StoppedNow \subseteq SeqRange(notified')]_vars
  BY AnnounceStep
<1>. QED
  BY <1>1, <1>2, <1>3, PTL DEF Spec, AnnouncedBeforeStopped

-----------------------------------------------------------------------------
(* When a stop raises, shutdown() ends with the notifications it had sent *)
(* up to and including the failing phase's: still a prefix of the history. *)
OrderInv == pc = "shutdown_failed" => PrefixOf(notified, ShutdownHistory)

(* The expected history depends only on which globals the session holds.  *)
LEMMA SameHistory ==
  ASSUME UNCHANGED <<checker, db, mds>>
  PROVE  ShutdownHistory' = ShutdownHistory
  BY DEF ShutdownHistory, IfHeld

LEMMA HistInOrder ==
  ASSUME StageInv, HistInv, OrderInv
  PROVE  PrefixOf(notified, ShutdownHistory)
<1>1. pc \in PcValues
  BY DEF StageInv, TypeOK
<1>. QED
  BY <1>1, HistChain DEF PcValues, Terminal, HistInv, OrderInv, StartPcs,
                          HistAfterIPv8

LEMMA OrderNext == StageInv /\ HistInv /\ OrderInv /\ [Next]_vars => OrderInv'
<1> SUFFICES ASSUME StageInv, HistInv, OrderInv, [Next]_vars, pc' = "shutdown_failed"
             PROVE  PrefixOf(notified', ShutdownHistory')
  BY DEF OrderInv
<1>0. notified \in Seq(Phases)
  BY DEF StageInv, TypeOK
(* A raise publishes the phase that failed and holds on to every global. *)
<1>r. ASSUME NEW h \in Seq(Phases), NEW ph \in Phases, notified = h,
             notified' = Append(notified, ph), UNCHANGED <<checker, db, mds>>,
             PrefixOf(h \o <<ph>>, ShutdownHistory)
      PROVE  PrefixOf(notified', ShutdownHistory')
  BY <1>r, SameHistory, AppendIsConcat
<1>1. CASE pc = "shutdown_failed"
  <2>1. UNCHANGED <<notified, checker, db, mds>>
    BY <1>1 DEF Next, SessionStep, RequestShutdown, vars, StartSocksServer,
                StartLibtorrent, LoadLauncher, StartIPv8, StartREST, BeginShutdown,
                ShutdownChecker, ShutdownIPv8, ShutdownDownloadManager, StopSocksServer,
                ShutdownDatabase, ShutdownMetadataStore, ShutdownREST
  <2>. QED
    BY <1>1, <2>1, SameHistory DEF OrderInv
<1>2. CASE StartSocksServer \/ StartLibtorrent \/ LoadLauncher \/ StartIPv8
           \/ StartREST \/ BeginShutdown \/ RequestShutdown \/ UNCHANGED vars
  <2>1. pc' # "shutdown_failed" \/ pc = "shutdown_failed"
    BY <1>2 DEF StartSocksServer, StartRaises, StartLibtorrent, LoadLauncher, StartIPv8,
                StartREST, BeginShutdown, RequestShutdown, vars
  <2>. QED
    BY <2>1, <1>1
<1>3. CASE ShutdownChecker
  <2>1. /\ notified = <<>> /\ checker # "None"
        /\ notified' = Append(notified, "checker") /\ UNCHANGED <<checker, db, mds>>
    BY <1>3 DEF ShutdownChecker, ShutdownRaises, Announce, HistInv, StartPcs
  <2>2. <<>> \o <<"checker">> = IfHeld("checker", checker)
    <3>1. <<"checker">> \in Seq(Phases) /\ IfHeld("checker", checker) = <<"checker">>
      BY <2>1 DEF IfHeld, Phases
    <3>. QED
      BY <3>1, ConcatEmptySeq
  <2>3. notified' = IfHeld("checker", checker)
    <3>1. <<>> \in Seq(Phases) /\ "checker" \in Phases
      BY DEF Phases
    <3>. QED
      BY <2>1, <2>2, <3>1, AppendIsConcat
  <2>. QED
    BY <2>1, <2>3, SameHistory, HistChain
<1>4. CASE ShutdownIPv8
  <2>1. /\ notified = IfHeld("checker", checker)
        /\ notified' = Append(notified, "ipv8") /\ UNCHANGED <<checker, db, mds>>
    BY <1>4 DEF ShutdownIPv8, ShutdownRaises, Announce, HistInv, StartPcs
  <2>. QED
    BY <2>1, <1>r, HistChain, IfHeldSeq DEF HistAfterIPv8, Phases
<1>5. CASE ShutdownDownloadManager
  <2>1. /\ notified = HistAfterIPv8
        /\ notified' = Append(notified, "dm") /\ UNCHANGED <<checker, db, mds>>
    BY <1>5 DEF ShutdownDownloadManager, ShutdownRaises, Announce, HistInv, StartPcs,
                HistAfterIPv8
  <2>2. HistAfterIPv8 \in Seq(Phases)
    BY IfHeldSeq, ConcatProperties DEF HistAfterIPv8, Phases
  <2>. QED
    BY <2>1, <2>2, <1>r, HistChain DEF HistAfterDm, Phases
<1>6. CASE StopSocksServer
  BY <1>6, SameHistory, HistChain DEF StopSocksServer, ShutdownRaises, HistInv, StartPcs
<1>7. CASE ShutdownDatabase
  <2>1. /\ notified = HistAfterSocks /\ db # "None"
        /\ notified' = Append(notified, "db") /\ UNCHANGED <<checker, db, mds>>
    BY <1>7 DEF ShutdownDatabase, ShutdownRaises, Announce, HistInv, StartPcs
  <2>. QED
    BY <2>1, <1>r, HistChain, HistTyped DEF HistAfterDb, IfHeld, Phases
<1>8. CASE ShutdownMetadataStore
  <2>1. /\ notified = HistAfterDb /\ mds # "None"
        /\ notified' = Append(notified, "mds") /\ UNCHANGED <<checker, db, mds>>
    BY <1>8 DEF ShutdownMetadataStore, ShutdownRaises, Announce, HistInv, StartPcs
  <2>. QED
    BY <2>1, <1>r, HistChain, HistTyped DEF HistAfterMds, IfHeld, Phases
<1>9. CASE ShutdownREST
  <2>1. /\ notified = HistAfterMds
        /\ notified' = Append(notified, "rest") /\ UNCHANGED <<checker, db, mds>>
    BY <1>9 DEF ShutdownREST, ShutdownRaises, Announce, HistInv, StartPcs
  <2>2. HistAfterMds \o <<"rest">> = ShutdownHistory
    BY DEF ShutdownHistory, HistAfterMds, HistAfterDb, HistAfterSocks
  <2>. QED
    BY <2>1, <2>2, <1>r, HistChain, HistTyped DEF Phases
<1>. QED
  BY <1>2, <1>3, <1>4, <1>5, <1>6, <1>7, <1>8, <1>9 DEF Next, SessionStep

(* Whatever stop raises, the tribler_shutdown_state notifications the     *)
(* observers received are the shutdown phases in order, none skipped and  *)
(* none repeated (Session.shutdown, session.py 146-175).                   *)
THEOREM HistoryInOrderHolds == Spec => []HistoryInOrder
<1>1. Init => StageInv /\ HistInv /\ OrderInv
  BY StageInit, HistInit DEF Init, OrderInv
<1>2. StageInv /\ HistInv /\ OrderInv /\ [Next]_vars
        => StageInv' /\ HistInv' /\ OrderInv'
  BY StageNext, HistNext, OrderNext
<1>3. StageInv /\ HistInv /\ OrderInv => HistoryInOrder
  <2> SUFFICES ASSUME StageInv, HistInv, OrderInv PROVE HistoryInOrder
    OBVIOUS
  <2>1. notified \in Seq(Phases) /\ PrefixOf(notified, ShutdownHistory)
    BY HistInOrder DEF StageInv, TypeOK
  <2>. QED
    BY <2>1, PrefixSubSeq DEF HistoryInOrder
<1>. QED
  BY <1>1, <1>2, <1>3, PTL DEF Spec

=============================================================================
