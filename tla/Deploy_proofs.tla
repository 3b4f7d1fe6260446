----------------------------- MODULE Deploy_proofs -----------------------------
(***************************************************************************)
(* Theorems about Deploy, for every VM_LIST, every set of commands and     *)
(* kernels, and whatever may fail.                                         *)
(***************************************************************************)
EXTENDS Deploy, FiniteSetTheorems, TLAPS

USE DeployAssumption

-----------------------------------------------------------------------------
(* The driver's operators keep the script's variables typed.               *)

LEMMA AfterIsStage == \A s \in Stages : After(s) \in Stages \cup {"next"}
  BY DEF After, Stages

LEMMA EmptyLine == <<>> \in Seq(Stages \cup {"all"})
  OBVIOUS

LEMMA GotoType ==
  ASSUME ScriptOK, pc # "built", NEW s \in Steps \ {"built"}, Goto(s)
  PROVE ScriptOK'
  BY DEF ScriptOK, Goto

LEMMA EndsType ==
  ASSUME ScriptOK, NEW code \in {"none", "ok", "aborted", "killed"},
         Ends(code), warned' \subseteq Stages
  PROVE ScriptOK'
  BY EmptyLine DEF ScriptOK, Ends, Steps

LEMMA CompletesType ==
  ASSUME ScriptOK, pc # "built", NEW s \in Stages, NEW c \in SUBSET Stages,
         Completes(s, c)
  PROVE ScriptOK'
  <1>1. warned' \subseteq Stages
    BY DEF Completes, ScriptOK
  <1>2. (IF cmd = "all" THEN After(s) ELSE "next") \in Steps \ {"built"}
    BY AfterIsStage DEF Steps, Stages
  <1> QED
    BY <1>1, <1>2 DEF Completes, ScriptOK

LEMMA ReturnsOneType ==
  ASSUME ScriptOK, pc # "built", NEW s \in Stages, ReturnsOne(s)
  PROVE ScriptOK'
  <1>1. CASE cmd = "all" /\ s \in Guarded
    BY <1>1, CompletesType DEF ReturnsOne
  <1>2. CASE ~(cmd = "all" /\ s \in Guarded)
    BY <1>2, EndsType DEF ReturnsOne, ScriptOK
  <1> QED
    BY <1>1, <1>2

LEMMA DieType ==
  ASSUME TypeOK, Die
  PROVE TypeOK'
  BY EndsType DEF Die, TypeOK, SiteOK, ScriptOK, site

LEMMA SiteFrame ==
  ASSUME SiteOK, UNCHANGED site
  PROVE SiteOK'
  BY DEF SiteOK, site

-----------------------------------------------------------------------------
(* Every variable keeps its type.                                          *)

LEMMA InitType == Init => TypeOK
  <1> SUFFICES ASSUME Init PROVE TypeOK
    OBVIOUS
  <1>1. SiteOK
    BY DEF Init, SiteOK
  <1>2. ScriptOK
    BY DEF Init, ScriptOK, Steps, Stages
  <1> QED
    BY <1>1, <1>2 DEF TypeOK

LEMMA StepType == TypeOK /\ [Next]_vars => TypeOK'
  <1> SUFFICES ASSUME TypeOK, [Next]_vars PROVE TypeOK'
    OBVIOUS
  <1> USE DEF TypeOK
  <1>1. CASE UNCHANGED vars
    BY <1>1, SiteFrame DEF vars, script, ScriptOK
  <1>2. CASE Invoke
    <2>1. rest' \in Seq(Stages \cup {"all"})
      BY <1>2 DEF Invoke
    <2> QED
      BY <1>2, <2>1, SiteFrame DEF Invoke, ScriptOK, Stages, Steps
  <1>3. CASE Preflight
    <2>1. (IF cmd = "all" THEN "host" ELSE "next") \in Steps \ {"built"}
      BY DEF Steps, Stages
    <2> QED
      BY <1>3, <2>1, GotoType, DieType, SiteFrame DEF Preflight
  <1>22. CASE NextStage
    <2>1. CASE rest = <<>> /\ Ends("ok") /\ UNCHANGED warned
      BY <1>22, <2>1, EndsType, SiteFrame DEF NextStage, ScriptOK
    <2>2. CASE rest # <<>> /\ cmd' = Head(rest) /\ rest' = Tail(rest)
      <3>1. Head(rest) \in Stages \cup {"all"} /\ Tail(rest) \in Seq(Stages \cup {"all"})
        BY <2>2 DEF ScriptOK
      <3>2. pc' \in Steps \ {"built"}
        BY <1>22, <2>2, <3>1 DEF NextStage, Steps, Stages
      <3>3. /\ pc = "next" /\ UNCHANGED site /\ warned' = {}
            /\ UNCHANGED <<todo, cur, rc>> /\ force' \in {force, "1"}
        BY <1>22, <2>2 DEF NextStage
      <3> QED
        BY <2>2, <3>1, <3>2, <3>3, SiteFrame DEF ScriptOK
    <2> QED
      BY <1>22, <2>1, <2>2 DEF NextStage
  <1>4. CASE StageHost
    <2>1. CASE Die
      BY <2>1, DieType
    <2>2. CASE ~Die
      <3>1. have' \subseteq {"checkout", "cape", "net"}
        BY <1>4, <2>2 DEF StageHost, BridgeUp, SiteOK
      <3> QED
        BY <1>4, <2>2, <3>1, CompletesType
        DEF StageHost, Done, SiteOK, Stages
    <2> QED
      BY <2>1, <2>2
  <1>5. CASE StageCape
    <2> USE DEF Pulled, Configured
    <2>1. CASE Die
      BY <2>1, DieType
    <2>2. CASE Done("cape")
      <3>1. ScriptOK'
        BY <1>5, <2>2, CompletesType DEF StageCape, Done, Stages
      <3>2. SiteOK'
        BY <1>5, <2>2 DEF StageCape, SiteOK, Die, site
      <3> QED
        BY <3>1, <3>2
    <2>3. CASE Fails("cape2") /\ mongo' \in {mongo, Pulled} /\ Ends("aborted")
               /\ UNCHANGED <<have, kernel, guest, conf, table, svc, task, warned>>
      BY <2>3, EndsType DEF SiteOK, ScriptOK
    <2> QED
      BY <1>5, <2>1, <2>2, <2>3 DEF StageCape
  <1>6. CASE StageDeps
    <2>1. mongo' \in {mongo, [major |-> 0, held |-> FALSE],
                     [mongo EXCEPT !.held = FALSE]}
      BY <1>6 DEF StageDeps
    <2>2. mongo' \in [major : {0, 7, 8}, held : BOOLEAN]
      <3>1. CASE mongo' = mongo
        BY <3>1 DEF SiteOK
      <3>2. CASE mongo' = [major |-> 0, held |-> FALSE]
        BY <3>2
      <3>3. CASE mongo' = [mongo EXCEPT !.held = FALSE]
        BY <3>3 DEF SiteOK
      <3> QED
        BY <2>1, <3>1, <3>2, <3>3
    <2>3. SiteOK'
      BY <1>6, <2>2 DEF StageDeps, SiteOK
    <2>4. ScriptOK'
      BY <1>6, CompletesType, GotoType DEF StageDeps, Done, Stages, Steps
    <2> QED
      BY <2>3, <2>4
  <1>7. CASE MongoInstall
    <2>1. CASE Die
      BY <2>1, DieType
    <2>2. CASE ~Die
      <3>1. mongo' \in [major : {0, 7, 8}, held : BOOLEAN]
        <4>1. mongo.major \in {0, 7, 8} /\ Want \in {7, 8}
          BY DEF SiteOK, Want
        <4> DEFINE m == IF mongo.major > Want THEN mongo.major ELSE Want
        <4>2. m \in {0, 7, 8}
          BY <4>1
        <4>3. CASE mongo' = [major |-> m, held |-> FALSE]
          BY <4>2, <4>3
        <4>4. CASE mongo' = [mongo EXCEPT !.held = FALSE]
          BY <4>4 DEF SiteOK
        <4> QED
          BY <1>7, <2>2, <4>3, <4>4 DEF MongoInstall
      <3>2. SiteOK'
        BY <1>7, <2>2, <3>1 DEF MongoInstall, SiteOK
      <3>3. ScriptOK'
        BY <1>7, <2>2, CompletesType, GotoType DEF MongoInstall, Stages, Steps
      <3> QED
        BY <3>2, <3>3
    <2> QED
      BY <2>1, <2>2
  <1>8. CASE MongoHold
    <2>1. SiteOK'
      BY <1>8 DEF MongoHold, SiteOK
    <2>2. ScriptOK'
      BY <1>8, CompletesType DEF MongoHold, Stages
    <2> QED
      BY <2>1, <2>2
  <1>9. CASE StageUpdatePolicy \/ StageCommunity \/ StageDmi
    BY <1>9, CompletesType, DieType, SiteFrame
    DEF StageUpdatePolicy, StageCommunity, StageDmi, Done, Stages
  <1>10. CASE StageBuildvm
    <2>1. SiteOK'
      BY <1>10 DEF StageBuildvm, SiteOK, BridgeUp
    <2>2. CASE ReturnsOne("buildvm")
      BY <1>10, <2>1, <2>2, ReturnsOneType DEF StageBuildvm, Stages
    <2>3. CASE Ends("aborted") /\ UNCHANGED warned
      BY <2>1, <2>3, EndsType DEF ScriptOK
    <2>4. CASE pc' = "building" /\ todo' = VMs
               /\ UNCHANGED <<cmd, rest, force, cur, warned, rc>>
      BY <1>10, <2>1, <2>4 DEF StageBuildvm, ScriptOK, Steps
    <2> QED
      BY <1>10, <2>2, <2>3, <2>4 DEF StageBuildvm
  <1>11. CASE BuildBegins
    <2>1. SiteOK'
      <3>1. CASE guest' = guest /\ task' = task
        BY <1>11, <3>1 DEF BuildBegins, SiteOK
      <3>2. CASE \E v \in todo : /\ task' = task \ {v}
                                 /\ \E g \in TornDown(v) :
                                      guest' = [guest EXCEPT ![v] = g]
        <4>1. guest' \in [VMs -> {"absent", "broken", "ready"}]
          BY <3>2 DEF TornDown, SiteOK, ScriptOK
        <4> QED
          BY <1>11, <3>2, <4>1 DEF BuildBegins, SiteOK
      <3> QED
        BY <1>11, <3>1, <3>2 DEF BuildBegins
    <2>2. ScriptOK'
      BY <1>11 DEF BuildBegins, ScriptOK, Steps, Stages
    <2> QED
      BY <2>1, <2>2
  <1>12. CASE BuildReturns
    <2>1. SiteOK'
      BY <1>12 DEF BuildReturns, SiteOK
    <2>2. ScriptOK'
      BY <1>12 DEF BuildReturns, ScriptOK, Steps, Stages
    <2> QED
      BY <2>1, <2>2
  <1>13. CASE BuildvmDone
    BY <1>13, CompletesType, SiteFrame DEF BuildvmDone, Done, Stages
  <1>14. CASE StageRegister
    <2>1. CASE Die
      BY <2>1, DieType
    <2>2. CASE ~Die
      <3>1. SiteOK'
        BY <1>14, <2>2 DEF StageRegister, SiteOK
      <3> QED
        BY <1>14, <2>2, <3>1, GotoType, CompletesType
        DEF StageRegister, Steps, Stages
    <2> QED
      BY <2>1, <2>2
  <1>15. CASE MachineryDrop \/ MachineryAdd
    <2>1. SiteOK'
      BY <1>15 DEF MachineryDrop, MachineryAdd, SiteOK
    <2>2. ScriptOK'
      BY <1>15, GotoType, CompletesType
      DEF MachineryDrop, MachineryAdd, Done, Steps, Stages
    <2> QED
      BY <2>1, <2>2
  <1>16. CASE StageNetiso
    <2>1. CASE Die
      BY <2>1, DieType
    <2>2. CASE ~Die
      <3>1. ScriptOK'
        BY <1>16, <2>2, CompletesType, ReturnsOneType DEF StageNetiso, Stages
      <3> QED
        BY <1>16, <3>1 DEF StageNetiso, SiteOK, Die, site
    <2> QED
      BY <2>1, <2>2
  <1>17. CASE StageServices
    <2>1. SiteOK'
      <3>1. conf.machines \subseteq VMs
        BY DEF SiteOK
      <3>2. \A u \in BOOLEAN, k \in SUBSET VMs :
              [enabled |-> TRUE, up |-> u, known |-> k]
                \in [enabled : BOOLEAN, up : BOOLEAN, known : SUBSET VMs]
        OBVIOUS
      <3>3. CASE svc' = [enabled |-> TRUE, up |-> TRUE, known |-> conf.machines]
        BY <1>17, <3>1, <3>2, <3>3 DEF StageServices, SiteOK
      <3>4. CASE svc' = [enabled |-> TRUE, up |-> FALSE, known |-> {}]
        BY <1>17, <3>2, <3>4 DEF StageServices, SiteOK
      <3>5. CASE UNCHANGED <<svc, task>>
        BY <1>17, <3>5 DEF StageServices, SiteOK
      <3> QED
        BY <1>17, <3>3, <3>4, <3>5 DEF StageServices
    <2>2. ScriptOK'
      BY <1>17, CompletesType DEF StageServices, Done, Stages
    <2> QED
      BY <2>1, <2>2
  <1>18. CASE StageVerify \/ StageSmoketest
    <2>1. ScriptOK'
      BY <1>18, CompletesType, ReturnsOneType, DieType
      DEF StageVerify, StageSmoketest, Done, Stages
    <2> QED
      BY <1>18, <2>1, SiteFrame DEF StageVerify, StageSmoketest
  <1>19. CASE \E v \in VMs : AnalysisStarts(v) \/ AnalysisEnds(v)
    BY <1>19 DEF AnalysisStarts, AnalysisEnds, script, SiteOK, ScriptOK
  <1>20. CASE Killed
    BY <1>20, EndsType, SiteFrame DEF Killed, ScriptOK
  <1>21. CASE HostReboots
    BY <1>21 DEF HostReboots, SiteOK, ScriptOK
  <1> QED
    BY <1>1, <1>2, <1>3, <1>4, <1>5, <1>6, <1>7, <1>8, <1>9, <1>10, <1>11,
       <1>12, <1>13, <1>14, <1>15, <1>16, <1>17, <1>18, <1>19, <1>20, <1>21,
       <1>22
    DEF Next, ScriptStep, WorldStep

\* Every variable keeps its type.
THEOREM TypeCorrect == Spec => []TypeOK
  BY InitType, StepType, PTL DEF Spec
-----------------------------------------------------------------------------
(* The guests, the order of netiso and services, and cuckoo.conf.          *)

\* Where a stage that completes leads to.
LEMMA CompletesWhere ==
  ASSUME NEW s \in Stages, NEW c, Completes(s, c)
  PROVE /\ cmd' = cmd /\ pc' \in Stages \cup {"next"}
        /\ cmd # "all" => pc' = "next"
        /\ cmd = "all" => /\ pc' # "update-policy"
                          /\ pc' = "next" => s \in {"smoketest", "update-policy"}
                          /\ pc' \in AfterRegister
                               => s \in AfterRegister \cup {"register"}
                          /\ pc' = "services" => s = "netiso"
  <1>1. cmd' = cmd /\ pc' = IF cmd = "all" THEN After(s) ELSE "next"
    BY DEF Completes
  <1>2. /\ After(s) # "update-policy"
        /\ After(s) = "next" => s \in {"smoketest", "update-policy"}
        /\ After(s) \in AfterRegister => s \in AfterRegister \cup {"register"}
        /\ After(s) = "services" => s = "netiso"
    BY DEF After, AfterRegister, Stages
  <1> QED
    BY <1>1, <1>2, AfterIsStage DEF Stages

\* A stage that completes without touching guests, configuration and table.
LEMMA CompletesSafe ==
  ASSUME IInv, NEW s \in Stages \ {"register", "netiso"}, NEW c,
         Completes(s, c), StageOf(pc) = s, pc \notin {"idle", "preflight", "next"},
         guest' = guest, conf' = conf
  PROVE StageOfCmd' /\ BuildInHand' /\ RegisterProgress' /\ MachineryOnce'
        /\ ServicesAfterIsolation'
  <1>1. pc \notin {"machinery_drop", "machinery_add"} /\ warned \subseteq warned'
    BY DEF StageOf, Completes
  <1>2. StageOfCmd' /\ BuildInHand' /\ ServicesAfterIsolation'
    BY CompletesWhere
    DEF StageOfCmd, StageOf, BuildInHand, ServicesAfterIsolation, Stages
  <1>3. cmd = "all" /\ s \in AfterRegister /\ "register" \notin warned
          => Registered
    BY <1>1 DEF IInv, RegisterProgress, StageOf, AfterRegister
  <1>4. RegisterProgress'
    BY <1>1, <1>3, CompletesWhere
    DEF RegisterProgress, Registered, Stages
  <1>5. /\ cmd = "register" => s = "register"
        /\ cmd = "all" => s # "update-policy"
    BY DEF IInv, StageOfCmd, StageOf
  <1>6. MachineryOnce'
    BY <1>1, <1>3, <1>5, CompletesWhere
    DEF IInv, MachineryOnce, Finished, Registered, AfterRegister, Stages
  <1> QED
    BY <1>2, <1>4, <1>6

\* The script ends early.
LEMMA EndsSafe ==
  ASSUME IInv, NEW code, code # "ok", Ends(code), conf.machinery <= 1 => conf'.machinery <= 1
  PROVE StageOfCmd' /\ BuildInHand' /\ RegisterProgress' /\ MachineryOnce'
        /\ ServicesAfterIsolation'
  BY DEF IInv, Ends, StageOfCmd, BuildInHand, RegisterProgress, MachineryOnce, Finished,
         ServicesAfterIsolation, AfterRegister

\* A step inside a stage other than register.
LEMMA GotoSafe ==
  ASSUME IInv, NEW p \in {"mongo_install", "mongo_hold", "building"},
         pc' = p, cmd' = cmd, conf' = conf,
         cmd # "all" => StageOf(p) = cmd
  PROVE StageOfCmd' /\ BuildInHand' /\ RegisterProgress' /\ MachineryOnce'
        /\ ServicesAfterIsolation'
  BY DEF IInv, StageOfCmd, BuildInHand, RegisterProgress, MachineryOnce, Finished,
         ServicesAfterIsolation, AfterRegister

LEMMA InitIInv == Init => IInv
  BY InitType DEF Init, IInv, StageOfCmd, BuildInHand, RegisterProgress,
     MachineryOnce, Finished,
        ServicesAfterIsolation, AfterRegister

LEMMA StepIInv == IInv /\ [Next]_vars => IInv'
  <1> SUFFICES ASSUME IInv, [Next]_vars
      PROVE StageOfCmd' /\ BuildInHand' /\ RegisterProgress' /\ MachineryOnce'
            /\ ServicesAfterIsolation'
    BY StepType DEF IInv
  <1> DEFINE Goal == StageOfCmd' /\ BuildInHand' /\ RegisterProgress'
                     /\ MachineryOnce' /\ ServicesAfterIsolation'
  <1>0. Die => Goal
    BY EndsSafe DEF Die, site
  <1>1. CASE UNCHANGED vars
    BY <1>1 DEF vars, site, script, IInv, StageOfCmd, BuildInHand, Forced,
         Registered, RegisterProgress, MachineryOnce, Finished,
        ServicesAfterIsolation
  <1>2. CASE Invoke
    BY <1>2 DEF Invoke, site, IInv, StageOfCmd, BuildInHand, RegisterProgress,
         MachineryOnce, Finished,
        ServicesAfterIsolation, AfterRegister
  <1>3. CASE Preflight
    <2>1. CASE Goto(IF cmd = "all" THEN "host" ELSE "next") /\ UNCHANGED site
      <3>1. /\ cmd \in {"none", "all"} /\ cmd' = cmd /\ conf' = conf
            /\ pc' = IF cmd = "all" THEN "host" ELSE "next"
        BY <1>3, <2>1 DEF Preflight, Goto, IInv, StageOfCmd, site
      <3> QED
        BY <3>1
        DEF IInv, StageOfCmd, StageOf, BuildInHand, RegisterProgress, Finished,
            MachineryOnce, ServicesAfterIsolation, AfterRegister
    <2> QED
      BY <1>0, <1>3, <2>1 DEF Preflight
  <1>24. CASE NextStage
    <2>1. CASE rest = <<>> /\ Ends("ok") /\ UNCHANGED warned
      <3>1. pc = "next" /\ pc' = "idle" /\ cmd' = cmd /\ conf' = conf
        BY <1>24, <2>1 DEF NextStage, Ends, site
      <3> QED
        BY <2>1, <3>1
        DEF IInv, StageOfCmd, BuildInHand, RegisterProgress, Finished,
            MachineryOnce, ServicesAfterIsolation, AfterRegister
    <2>2. CASE rest # <<>> /\ cmd' = Head(rest)
      <3>1. Head(rest) \in Stages \cup {"all"}
        BY <2>2 DEF IInv, TypeOK, ScriptOK
      <3>2. /\ cmd' \in Stages \cup {"all"} /\ conf' = conf
            /\ pc' = IF cmd' = "all" THEN "preflight" ELSE cmd'
        BY <1>24, <2>2, <3>1 DEF NextStage, site
      <3> QED
        BY <3>2
        DEF IInv, StageOfCmd, StageOf, BuildInHand, RegisterProgress, Finished,
            MachineryOnce, ServicesAfterIsolation, AfterRegister, Stages
    <2> QED
      BY <1>24, <2>1, <2>2 DEF NextStage
  <1>4. CASE StageHost
    <2>1. CASE Die
      BY <1>0, <2>1
    <2>2. CASE ~Die
      BY <1>4, <2>2, CompletesSafe DEF StageHost, Done, StageOf, Stages
    <2> QED
      BY <2>1, <2>2
  <1>5. CASE StageCape
    <2>1. CASE Die
      BY <1>0, <2>1
    <2>2. CASE Done("cape") /\ conf' = Configured
               /\ UNCHANGED <<kernel, guest, table, svc, task>>
      <3>1. conf'.machinery <= 1
        BY <2>2 DEF Configured, IInv, TypeOK, SiteOK, MachineryOnce
      <3>2. /\ pc' \in {"deps", "next"} /\ cmd' = cmd /\ pc = "cape"
            /\ cmd # "all" => cmd = "cape"
            /\ pc' = "deps" <=> cmd = "all"
        BY <1>5, <2>2
        DEF StageCape, Done, Completes, After, IInv, StageOfCmd, StageOf
      <3> QED
        BY <3>1, <3>2 DEF StageOfCmd, StageOf, BuildInHand, RegisterProgress,
          MachineryOnce, Finished,
        ServicesAfterIsolation, AfterRegister
    <2>3. CASE Ends("aborted") /\ UNCHANGED conf
      BY <2>3, EndsSafe
    <2> QED
      BY <1>5, <2>1, <2>2, <2>3 DEF StageCape
  <1>6. CASE StageDeps
    <2>1. CASE Done("deps")
      BY <1>6, <2>1, CompletesSafe DEF StageDeps, Done, StageOf, Stages
    <2>2. CASE Goto("mongo_install")
      BY <1>6, <2>2, GotoSafe DEF StageDeps, Goto, IInv, StageOfCmd, StageOf
    <2> QED
      BY <1>6, <2>1, <2>2 DEF StageDeps
  <1>7. CASE MongoInstall
    <2>1. CASE Die
      BY <1>0, <2>1
    <2>2. CASE Goto("mongo_hold")
      BY <1>7, <2>2, GotoSafe
      DEF MongoInstall, Goto, IInv, StageOfCmd, StageOf, Die, site
    <2>3. CASE Completes("deps", {"deps"}) /\ ~Die
      BY <1>7, <2>3, CompletesSafe DEF MongoInstall, StageOf, Stages
    <2> QED
      BY <1>7, <2>1, <2>2, <2>3 DEF MongoInstall
  <1>8. CASE MongoHold
    <2>1. \E c : Completes("deps", c)
      BY <1>8 DEF MongoHold
    <2> QED
      BY <1>8, <2>1, CompletesSafe DEF MongoHold, StageOf, Stages
  <1>9. CASE StageUpdatePolicy \/ StageCommunity \/ StageDmi
    BY <1>0, <1>9, CompletesSafe
    DEF StageUpdatePolicy, StageCommunity, StageDmi, Done, StageOf, Stages, site
  <1>10. CASE StageBuildvm
    <2>1. CASE ReturnsOne("buildvm") \/ Ends("aborted")
      BY <1>10, <2>1, EndsSafe DEF StageBuildvm, ReturnsOne, Guarded
    <2>2. CASE pc' = "building" /\ cmd' = cmd
      BY <1>10, <2>2, GotoSafe DEF StageBuildvm, IInv, StageOfCmd, StageOf
    <2> QED
      BY <1>10, <2>1, <2>2 DEF StageBuildvm
  <1>11. CASE BuildBegins
    <2>1. cmd' = cmd /\ conf' = conf /\ (cmd # "all" => cmd = "buildvm")
      BY <1>11 DEF BuildBegins, IInv, StageOfCmd, StageOf
    <2>2. CASE pc' = "building"
      BY <2>1, <2>2, GotoSafe DEF StageOf
    <2>3. CASE pc' = "built"
      <3>1. BuildInHand'
        <4>1. PICK v \in VMs :
                 /\ todo' = todo \ {v} /\ cur' = v
                 /\ guest[v] = "absent" \/ Forced
                 /\ \E g \in TornDown(v) : guest' = [guest EXCEPT ![v] = g]
          BY <1>11, <2>3 DEF BuildBegins, IInv, TypeOK, ScriptOK
        <4>2. guest'[v] = "ready" => Forced
          BY <4>1 DEF TornDown, IInv, TypeOK, SiteOK
        <4>3. Forced' = Forced
          BY <1>11 DEF BuildBegins, Forced
        <4> QED
          BY <4>1, <4>2, <4>3 DEF BuildInHand
      <3> QED
        BY <2>1, <2>3, <3>1
        DEF IInv, StageOfCmd, StageOf, RegisterProgress, MachineryOnce, Finished,
            ServicesAfterIsolation, AfterRegister
    <2> QED
      BY <1>11, <2>2, <2>3 DEF BuildBegins
  <1>12. CASE BuildReturns
    BY <1>12, GotoSafe DEF BuildReturns, IInv, StageOfCmd, StageOf
  <1>13. CASE BuildvmDone
    BY <1>13, CompletesSafe DEF BuildvmDone, Done, StageOf, Stages, site
  <1>14. CASE StageRegister
    <2>0. cmd # "all" => cmd = "register"
      BY <1>14 DEF StageRegister, IInv, StageOfCmd, StageOf
    <2>1. CASE Goto("machinery_drop") /\ conf' = [conf EXCEPT !.machines = VMs]
      <3>1. conf'.machines = VMs /\ conf'.machinery = conf.machinery
        BY <2>1 DEF IInv, TypeOK, SiteOK
      <3> QED
        BY <2>0, <2>1, <3>1
        DEF Goto, IInv, StageOfCmd, StageOf, BuildInHand, RegisterProgress,
            MachineryOnce, Finished,
        ServicesAfterIsolation, AfterRegister
    <2>2. CASE /\ conf' = [machines |-> VMs, machinery |-> 0]
               /\ Completes("register", {"register"})
      <3>1. "register" \in warned' /\ conf'.machinery = 0
        BY <2>2 DEF Completes
      <3>2. pc' \in {"netiso", "next"} /\ cmd' = cmd /\ (pc' = "netiso" <=> cmd = "all")
        BY <2>2 DEF Completes, After
      <3> QED
        BY <2>0, <3>1, <3>2
        DEF StageOfCmd, StageOf, BuildInHand, RegisterProgress, MachineryOnce,
            Finished, ServicesAfterIsolation
    <2> QED
      BY <1>0, <1>14, <2>1, <2>2 DEF StageRegister
  <1>15. CASE MachineryDrop
    <2>1. conf'.machines = VMs /\ conf'.machinery = 0
      BY <1>15 DEF MachineryDrop, IInv, TypeOK, SiteOK, RegisterProgress
    <2>2. cmd # "all" => cmd = "register"
      BY <1>15 DEF MachineryDrop, IInv, StageOfCmd, StageOf
    <2> QED
      BY <1>15, <2>1, <2>2
      DEF MachineryDrop, Goto, IInv, StageOfCmd, StageOf, BuildInHand,
          RegisterProgress, MachineryOnce, Finished,
        ServicesAfterIsolation, AfterRegister
  <1>16. CASE MachineryAdd
    <2>1. /\ conf'.machines = VMs /\ conf'.machinery <= 1
          /\ conf'.machinery = 0 => Fails("section")
      BY <1>16 DEF MachineryAdd, IInv, TypeOK, SiteOK, RegisterProgress
    <2>2. pc' \in {"netiso", "next"} /\ cmd' = cmd
          /\ (pc' = "netiso" <=> cmd = "all")
      BY <1>16 DEF MachineryAdd, Done, Completes, After
    <2> QED
      BY <2>1, <2>2
      DEF StageOfCmd, StageOf, BuildInHand, RegisterProgress, Registered,
          MachineryOnce, Finished, ServicesAfterIsolation
  <1>17. CASE StageNetiso
    <2>1. CASE Die
      BY <1>0, <2>1
    <2>2. CASE Ends("aborted") /\ conf' = conf
      BY <2>2, EndsSafe
    <2>3. ASSUME NEW c, Completes("netiso", c), conf' = conf, guest' = guest,
                 table' \/ Fails("nft") \/ Fails("nftables")
          PROVE  Goal
      <3>1. cmd' = cmd /\ pc = "netiso" /\ warned \subseteq warned'
        BY <1>17, <2>3 DEF StageNetiso, Completes
      <3>2. pc' = IF cmd = "all" THEN "services" ELSE "next"
        BY <2>3 DEF Completes, After
      <3>3. cmd = "all" /\ "register" \notin warned => Registered
        BY <3>1 DEF IInv, RegisterProgress, AfterRegister
      <3>4. cmd # "all" => cmd = "netiso"
        BY <3>1 DEF IInv, StageOfCmd, StageOf
      <3> QED
        BY <2>3, <3>1, <3>2, <3>3, <3>4
        DEF IInv, StageOfCmd, StageOf, BuildInHand, RegisterProgress, Registered,
            MachineryOnce, Finished, ServicesAfterIsolation, AfterRegister
    <2> QED
      BY <1>17, <2>1, <2>2, <2>3 DEF StageNetiso, ReturnsOne, Guarded
  <1>18. CASE StageServices
    <2>1. \E c : Completes("services", c)
      BY <1>18 DEF StageServices, Done
    <2> QED
      BY <1>18, <2>1, CompletesSafe DEF StageServices, StageOf, Stages
  <1>19. CASE StageVerify
    BY <1>19, CompletesSafe DEF StageVerify, StageOf, Stages, site
  <1>20. CASE StageSmoketest
    <2>1. CASE \E c : Completes("smoketest", c)
      BY <1>20, <2>1, CompletesSafe DEF StageSmoketest, StageOf, Stages, site
    <2>2. CASE Ends("aborted")
      BY <1>20, <2>2, EndsSafe DEF StageSmoketest, Die, site
    <2> QED
      BY <1>0, <1>20, <2>1, <2>2 DEF StageSmoketest, ReturnsOne, Done
  <1>21. CASE \E v \in VMs : AnalysisStarts(v) \/ AnalysisEnds(v)
    BY <1>21 DEF AnalysisStarts, AnalysisEnds, script, IInv, StageOfCmd,
      BuildInHand, Forced, RegisterProgress, Registered, MachineryOnce, Finished,
      ServicesAfterIsolation
  <1>22. CASE Killed
    BY <1>22, EndsSafe DEF Killed, site
  <1>23. CASE HostReboots
    BY <1>23 DEF HostReboots, IInv, StageOfCmd, BuildInHand, RegisterProgress,
      MachineryOnce, Finished,
        ServicesAfterIsolation, AfterRegister
  <1> QED
    BY <1>1, <1>2, <1>3, <1>4, <1>5, <1>6, <1>7, <1>8, <1>9, <1>10, <1>11,
       <1>12, <1>13, <1>14, <1>15, <1>16, <1>17, <1>18, <1>19, <1>20, <1>21,
       <1>22, <1>23, <1>24
    DEF Next, ScriptStep, WorldStep

LEMMA Inductive == Spec => []IInv
  BY InitIInv, StepIInv, PTL DEF Spec

\* `all` isolates the bridge before it starts the services.
THEOREM IsolationFirst == Spec => []ServicesAfterIsolation
  BY Inductive, PTL DEF IInv

\* cuckoo.conf has one machinery line at most, and register leaves all of
\* VM_LIST behind, whatever is killed.
THEOREM RegisterIsIdempotent == Spec => []MachineryOnce
  BY Inductive, PTL DEF IInv

\* Only buildvm touches the guests.
LEMMA GuestsElsewhere ==
  ASSUME [Next]_vars, ~BuildBegins, ~BuildReturns
  PROVE  guest' = guest
  BY DEF Next, ScriptStep, WorldStep, vars, site, script, Die, Invoke,
    Preflight, NextStage, StageHost, StageCape, StageDeps, MongoInstall,
    MongoHold, StageUpdatePolicy, StageCommunity, StageDmi, StageBuildvm, BuildvmDone,
    StageRegister, MachineryDrop, MachineryAdd, StageNetiso, StageServices,
    StageVerify, StageSmoketest, AnalysisStarts, AnalysisEnds, Killed,
    HostReboots

\* The only step that takes a guest that is ready is the teardown of a forced
\* build.
LEMMA StepKeepsVMs ==
  IInv /\ [Next]_vars
    => \A v \in VMs : guest[v] = "ready" /\ guest'[v] # "ready" => Forced
  <1> SUFFICES ASSUME IInv, [Next]_vars, NEW v \in VMs, guest[v] = "ready",
                      guest'[v] # "ready"
               PROVE Forced
    OBVIOUS
  <1>1. CASE BuildBegins
    <2>1. PICK w \in todo : /\ guest[w] = "absent" \/ Forced
                            /\ \E g : guest' = [guest EXCEPT ![w] = g]
      BY <1>1 DEF BuildBegins
    <2> QED
      BY <2>1 DEF IInv, TypeOK, SiteOK, ScriptOK
  <1>2. CASE BuildReturns
    BY <1>2 DEF BuildReturns, IInv, BuildInHand, TypeOK, SiteOK, ScriptOK
  <1>3. CASE ~BuildBegins /\ ~BuildReturns
    BY <1>3, GuestsElsewhere
  <1> QED
    BY <1>1, <1>2, <1>3

\* The guests follow GuestLifecycle: buildvm makes, replaces and gives up what
\* the run was told to, one guest at a time, and nothing else does.
LEMMA StepLifecycle ==
  ASSUME IInv, [Next]_vars, NEW v \in VMs
  PROVE  [Guest(v)!LNext]_(Guest(v)!lvars)
  <1> DEFINE U == IF guest[v] = "ready" THEN {"clean"} ELSE {}
  <1> USE DEF Guest!LNext, Guest!lvars, Guest!Command, Guest!Add, Guest!GiveUp,
              Guest!Licences
  <1>a. /\ guest \in [VMs -> {"absent", "broken", "ready"}]
        /\ todo \subseteq VMs /\ cur \in IF pc = "built" THEN VMs ELSE {NoVM}
    BY DEF IInv, TypeOK, SiteOK, ScriptOK
  <1>b. Licence(v)' \in {"nothing", "add", "replace"}
    BY DEF Licence
  <1>1. CASE guest'[v] = "ready" <=> guest[v] = "ready"
    <2>1. U' = U
      BY <1>1
    <2> QED
      BY <1>b, <2>1
  <1>2. CASE BuildBegins /\ guest'[v] # guest[v]
    <2>1. PICK w \in todo : /\ guest[w] = "absent" \/ Forced
                            /\ \E g \in TornDown(w) :
                                 guest' = [guest EXCEPT ![w] = g]
      BY <1>2 DEF BuildBegins
    <2>a. /\ pc = "building" /\ v \in todo
          /\ guest[v] = "absent" \/ Forced
          /\ guest'[v] # "ready"
      BY <1>2, <1>a, <2>1 DEF BuildBegins, TornDown
    <2>2. CASE guest[v] = "ready"
      <3>1. Licence(v) = "replace"
        BY <2>a, <2>2 DEF Licence
      <3>2. U' = {}
        BY <2>a
      <3> QED
        BY <1>b, <3>1, <3>2
    <2>3. CASE guest[v] # "ready"
      BY <1>1, <2>a, <2>3
    <2> QED
      BY <2>2, <2>3
  <1>3. CASE BuildReturns /\ guest'[v] # guest[v]
    <2>1. pc = "built" /\ pc' = "building" /\ v = cur /\ v \notin todo'
      BY <1>3, <1>a DEF BuildReturns, IInv, BuildInHand
    <2>2. Licence(v)' = "nothing"
      BY <2>1 DEF Licence
    <2>3. CASE guest[v] = "ready"
      <3>1. Licence(v) = "replace" /\ guest'[v] # "ready"
        BY <1>3, <2>1, <2>3 DEF Licence, IInv, BuildInHand
      <3> QED
        BY <2>2, <3>1
    <2>4. CASE guest[v] # "ready"
      <3>1. Licence(v) \in {"add", "replace"} /\ U = {}
        BY <2>1, <2>4 DEF Licence
      <3>2. U' = {} \/ U' = U \cup {"clean"}
        BY <3>1
      <3> QED
        BY <1>b, <2>2, <3>1, <3>2
    <2> QED
      BY <2>3, <2>4
  <1>4. CASE ~BuildBegins /\ ~BuildReturns
    BY <1>1, <1>4, GuestsElsewhere
  <1> QED
    BY <1>1, <1>2, <1>3, <1>4

\* buildvm implements GuestLifecycle for every guest of every VM_LIST.
THEOREM FollowsLifecycle == Spec => KeepsLifecycle
  <1>1. Init => \A v \in VMs : Guest(v)!LInit
    BY DEF Init, Guest!LInit, Licence
  <1>2. IInv /\ [Next]_vars
          => [\A v \in VMs : [Guest(v)!LNext]_(Guest(v)!lvars)]_vars
    BY StepLifecycle
  <1> QED
    BY <1>1, <1>2, Inductive, PTL DEF Spec, KeepsLifecycle

\* A run that is not forced never costs CAPE a guest that is ready.
THEOREM KeepsReadyGuests == Spec => UnforcedKeepsVMs
  <1>1. IInv /\ [Next]_vars
          => [\A v \in VMs : guest[v] = "ready" /\ guest'[v] # "ready"
                => Forced]_vars
    BY StepKeepsVMs
  <1> QED
    BY <1>1, Inductive, PTL DEF Spec, UnforcedKeepsVMs
-----------------------------------------------------------------------------
(* What a run that ended without a complaint has done: Built and Fits carry *)
(* it from the stage that did it to the end of `all`.                       *)

LEMMA CompletesFar ==
  ASSUME NEW s \in Stages, NEW c, Completes(s, c)
  PROVE /\ warned' = warned \cup c
        /\ cmd = "all" /\ pc' \in AfterBuild => s \in AfterBuild \cup {"buildvm"}
        /\ cmd = "all" /\ pc' \in AfterDeps => s \in AfterDeps \cup {"deps"}
  <1>1. warned' = warned \cup c /\ pc' = IF cmd = "all" THEN After(s) ELSE "next"
    BY DEF Completes
  <1>2. /\ After(s) \in AfterBuild => s \in AfterBuild \cup {"buildvm"}
        /\ After(s) \in AfterDeps => s \in AfterDeps \cup {"deps"}
    BY DEF After, Stages, AfterBuild, AfterDeps, AfterRegister
  <1> QED
    BY <1>1, <1>2

Built == BuildvmProgress /\ BuiltOrWarned
Fits == MongoProgress /\ MongoFitsKernel

LEMMA EndsProgress ==
  ASSUME NEW code, code # "ok", Ends(code)
  PROVE Built' /\ Fits'
  BY DEF Ends, Built, Fits, BuildvmProgress, BuiltOrWarned, Finished, MongoProgress,
         MongoFitsKernel, Finished, AfterBuild, AfterDeps, AfterRegister

\* Another stage than buildvm completes, and another one than deps.
LEMMA CompletesBuilt ==
  ASSUME IInv, Built, NEW s \in Stages \ {"buildvm"}, NEW c, Completes(s, c),
         StageOf(pc) = s, pc \notin {"idle", "preflight", "next"}, guest' = guest
  PROVE Built'
  <1>1. s \in AfterBuild => pc \in AfterBuild
    BY DEF StageOf, AfterBuild, AfterRegister
  <1>0. /\ cmd # "buildvm" /\ pc' # "idle"
        /\ cmd = "all" => s # "update-policy"
    BY CompletesWhere DEF IInv, StageOfCmd, StageOf, Stages
  <1>2. cmd = "all" /\ pc' \in AfterBuild \cup {"next"} => s \in AfterBuild
    BY <1>0, CompletesWhere, CompletesFar DEF AfterBuild, AfterRegister
  <1>4. pc' \notin {"building", "built"} /\ cmd' = cmd /\ warned \subseteq warned'
    BY CompletesWhere, CompletesFar DEF Stages
  <1> QED
    BY <1>0, <1>1, <1>2, <1>4 DEF Built, BuildvmProgress, BuiltOrWarned, Finished

LEMMA CompletesFits ==
  ASSUME IInv, Fits, NEW s \in Stages \ {"deps"}, NEW c, Completes(s, c),
         StageOf(pc) = s, pc \notin {"idle", "preflight", "next"},
         kernel' = kernel,
         mongo' = mongo \/ s = "cape"
  PROVE Fits'
  <1>1. s \in AfterDeps => pc \in AfterDeps /\ s # "cape"
    BY DEF StageOf, AfterDeps, AfterBuild, AfterRegister
  <1>0. /\ cmd # "deps" /\ pc' # "idle"
        /\ cmd = "all" => s # "update-policy"
    BY CompletesWhere DEF IInv, StageOfCmd, StageOf, Stages
  <1>2. cmd = "all" /\ pc' \in AfterDeps \cup {"next"} => s \in AfterDeps
    BY <1>0, CompletesWhere, CompletesFar DEF AfterDeps, AfterBuild, AfterRegister
  <1>4. pc' # "mongo_hold" /\ cmd' = cmd /\ warned \subseteq warned'
    BY CompletesWhere, CompletesFar DEF Stages
  <1>5. Want' = Want
    BY DEF Want
  <1> QED
    BY <1>0, <1>1, <1>2, <1>4, <1>5
    DEF Fits, MongoProgress, MongoFitsKernel, Finished

\* A step on the way that is not the end of a stage.
LEMMA OnTheWay ==
  ASSUME pc' \notin {"idle", "next", "mongo_hold"}, cmd' = cmd, warned \subseteq warned'
  PROVE /\ Fits /\ mongo' = mongo /\ kernel' = kernel
           /\ (cmd = "all" /\ pc' \in AfterDeps => pc \in AfterDeps)
             => Fits'
        /\ Built /\ guest' = guest /\ pc' \notin {"building", "built"}
           /\ (cmd = "all" /\ pc' \in AfterBuild => pc \in AfterBuild)
             => Built'
  BY DEF Built, Fits, BuildvmProgress, BuiltOrWarned, Finished, MongoProgress,
         MongoFitsKernel, Finished, Want

LEMMA StepBuilt ==
  ASSUME IInv, Built, [Next]_vars
  PROVE  Built'
  <1>a. guest \in [VMs -> {"absent", "broken", "ready"}] /\ todo \subseteq VMs
        /\ cur \in IF pc = "built" THEN VMs ELSE {NoVM}
    BY DEF IInv, TypeOK, SiteOK, ScriptOK
  <1>0. Die => Built'
    BY EndsProgress DEF Die
  <1>1. CASE Invoke \/ HostReboots
    BY <1>1 DEF Invoke, HostReboots, site, Built, BuildvmProgress,
      BuiltOrWarned, Finished, AfterBuild, AfterRegister
  <1>2. CASE (\E v \in VMs : AnalysisStarts(v) \/ AnalysisEnds(v)) \/ UNCHANGED vars
    <2>1. UNCHANGED <<guest, script>>
      BY <1>2 DEF AnalysisStarts, AnalysisEnds, vars, site
    <2> QED
      BY <2>1 DEF script, Built, BuildvmProgress, BuiltOrWarned, Finished
  <1>3. CASE Preflight
    <2>1. CASE Goto(IF cmd = "all" THEN "host" ELSE "next") /\ UNCHANGED site
      <3>1. /\ cmd \in {"none", "all"} /\ cmd' = cmd
            /\ pc' = IF cmd = "all" THEN "host" ELSE "next"
        BY <1>3, <2>1 DEF Preflight, Goto, IInv, StageOfCmd
      <3> QED
        BY <3>1 DEF Built, BuildvmProgress, BuiltOrWarned, Finished, AfterBuild,
                    AfterRegister
    <2> QED
      BY <1>0, <1>3, <2>1 DEF Preflight
  <1>20. CASE NextStage
    <2>1. CASE rest = <<>> /\ Ends("ok") /\ UNCHANGED warned
      <3>1. pc = "next" /\ pc' = "idle" /\ UNCHANGED <<cmd, guest>>
        BY <1>20, <2>1 DEF NextStage, Ends, site
      <3> QED
        BY <2>1, <3>1 DEF Built, BuildvmProgress, BuiltOrWarned, Finished, AfterBuild,
                    AfterRegister
    <2>2. CASE rest # <<>> /\ cmd' = Head(rest)
      <3>1. Head(rest) \in Stages \cup {"all"}
        BY <2>2 DEF IInv, TypeOK, ScriptOK
      <3>2. /\ cmd' \in Stages \cup {"all"}
            /\ pc' = IF cmd' = "all" THEN "preflight" ELSE cmd'
        BY <1>20, <2>2, <3>1 DEF NextStage
      <3> QED
        BY <3>2 DEF Built, BuildvmProgress, BuiltOrWarned, Finished, AfterBuild,
                    AfterRegister, Stages
    <2> QED
      BY <1>20, <2>1, <2>2 DEF NextStage
  <1>4. CASE StageHost
    BY <1>0, <1>4, CompletesBuilt DEF StageHost, Done, StageOf, Stages
  <1>5. CASE StageCape
    <2>1. CASE Done("cape") /\ guest' = guest
      BY <1>5, <2>1, CompletesBuilt DEF StageCape, Done, StageOf, Stages
    <2> QED
      BY <1>0, <1>5, <2>1, EndsProgress DEF StageCape
  <1>6. CASE StageDeps \/ MongoInstall
    <2>1. CASE \E c : Completes("deps", c) /\ guest' = guest
      BY <1>6, <2>1, CompletesBuilt DEF StageDeps, MongoInstall, StageOf, Stages
    <2>2. CASE Goto("mongo_install") /\ guest' = guest
      BY <2>2, OnTheWay DEF Goto, AfterBuild, AfterRegister
    <2>3. CASE Goto("mongo_hold") /\ guest' = guest
      BY <2>3 DEF Goto, Built, BuildvmProgress, BuiltOrWarned, Finished, AfterBuild,
                  AfterRegister
    <2> QED
      BY <1>0, <1>6, <2>1, <2>2, <2>3 DEF StageDeps, MongoInstall, Done
  <1>7. CASE MongoHold
    <2>1. \E c : Completes("deps", c)
      BY <1>7 DEF MongoHold
    <2> QED
      BY <1>7, <2>1, CompletesBuilt DEF MongoHold, StageOf, Stages
  <1>8. CASE StageUpdatePolicy \/ StageCommunity \/ StageDmi
    BY <1>0, <1>8, CompletesBuilt
    DEF StageUpdatePolicy, StageCommunity, StageDmi, Done, StageOf, Stages, site
  <1>9. CASE StageBuildvm
    <2>1. CASE ReturnsOne("buildvm") \/ Ends("aborted")
      BY <2>1, EndsProgress DEF ReturnsOne, Guarded
    <2>2. CASE pc' = "building" /\ todo' = VMs
      BY <2>2 DEF Built, BuildvmProgress, BuiltOrWarned, Finished, AfterBuild, AfterRegister
    <2> QED
      BY <1>9, <2>1, <2>2 DEF StageBuildvm
  <1>10. CASE BuildBegins
    <2>1. PICK v \in todo : todo' = todo \ {v}
             /\ \/ /\ warned' = warned \cup {"buildvm"} /\ pc' = pc
                \/ /\ \E g : guest' = [guest EXCEPT ![v] = g]
                   /\ pc' = "built" /\ cur' = v /\ UNCHANGED warned
      BY <1>10 DEF BuildBegins
    <2>2. pc = "building" /\ cur = NoVM
      BY <1>10, <1>a DEF BuildBegins
    <2>3. CASE warned' = warned \cup {"buildvm"} /\ pc' = pc
      BY <2>2, <2>3 DEF Built, BuildvmProgress, BuiltOrWarned, Finished
    <2>4. CASE (\E g : guest' = [guest EXCEPT ![v] = g]) /\ pc' = "built"
               /\ cur' = v /\ UNCHANGED warned
      <3>1. ASSUME "buildvm" \notin warned, NEW w \in VMs \ (todo' \cup {cur'})
            PROVE  guest'[w] = "ready"
        BY <1>a, <2>1, <2>2, <2>4, <3>1 DEF Built, BuildvmProgress
      <3> QED
        BY <2>4, <3>1 DEF Built, BuildvmProgress, BuiltOrWarned, Finished, AfterBuild,
                          AfterRegister
    <2> QED
      BY <2>1, <2>3, <2>4
  <1>11. CASE BuildReturns
    <2>1. pc = "built" /\ pc' = "building" /\ cur \in VMs /\ todo' = todo
      BY <1>11, <1>a DEF BuildReturns
    <2>2. CASE guest' = [guest EXCEPT ![cur] = "ready"] /\ UNCHANGED warned
      <3>1. ASSUME "buildvm" \notin warned, NEW w \in VMs \ (todo' \cup {cur'})
            PROVE  guest'[w] = "ready"
        BY <1>a, <2>1, <2>2, <3>1 DEF Built, BuildvmProgress
      <3> QED
        BY <2>1, <2>2, <3>1 DEF Built, BuildvmProgress, BuiltOrWarned, Finished,
                                AfterBuild, AfterRegister
    <2>3. CASE warned' = warned \cup {"buildvm"}
      BY <2>1, <2>3 DEF Built, BuildvmProgress, BuiltOrWarned, Finished
    <2> QED
      BY <1>11, <2>2, <2>3 DEF BuildReturns
  <1>12. CASE BuildvmDone
    <2>1. "buildvm" \notin warned => \A v \in VMs : guest[v] = "ready"
      BY <1>12, <1>a, DeployAssumption DEF BuildvmDone, Built, BuildvmProgress
    <2>2. guest' = guest /\ warned' = warned /\ pc' \notin {"building", "built"}
      BY <1>12, CompletesWhere
      DEF BuildvmDone, Done, Completes, Stages, site
    <2> QED
      BY <2>1, <2>2 DEF Built, BuildvmProgress, BuiltOrWarned, Finished
  <1>13. CASE StageRegister \/ MachineryDrop
    <2>2. CASE StageRegister /\ Completes("register", {"register"}) /\ ~Die
      BY <2>2, CompletesBuilt DEF StageRegister, StageOf, Stages
    <2>1. CASE ~Die /\ ~(StageRegister /\ Completes("register", {"register"}))
      <3>1. /\ pc \in AfterBuild /\ pc' \in {"machinery_drop", "machinery_add"}
            /\ UNCHANGED <<cmd, warned, guest>>
        BY <1>13, <2>1, <2>2 DEF StageRegister, MachineryDrop, Goto, AfterBuild
      <3> QED
        BY <3>1, OnTheWay
    <2> QED
      BY <1>0, <2>1, <2>2
  <1>14. CASE MachineryAdd
    BY <1>14, CompletesBuilt DEF MachineryAdd, Done, StageOf, Stages
  <1>15. CASE StageNetiso
    <2>1. CASE \E c : Completes("netiso", c)
      BY <1>15, <2>1, CompletesBuilt DEF StageNetiso, StageOf, Stages, Die, site
    <2>2. CASE Ends("aborted")
      BY <2>2, EndsProgress
    <2> QED
      BY <1>0, <1>15, <2>1, <2>2 DEF StageNetiso, ReturnsOne
  <1>16. CASE StageServices
    <2>1. \E c : Completes("services", c)
      BY <1>16 DEF StageServices, Done
    <2> QED
      BY <1>16, <2>1, CompletesBuilt DEF StageServices, StageOf, Stages
  <1>17. CASE StageVerify
    BY <1>17, CompletesBuilt DEF StageVerify, StageOf, Stages, site
  <1>18. CASE StageSmoketest
    <2>1. CASE \E c : Completes("smoketest", c)
      BY <1>18, <2>1, CompletesBuilt DEF StageSmoketest, StageOf, Stages, Die, site
    <2>2. CASE Ends("aborted")
      BY <2>2, EndsProgress
    <2> QED
      BY <1>0, <1>18, <2>1, <2>2 DEF StageSmoketest, ReturnsOne, Done
  <1>19. CASE Killed
    BY <1>19, EndsProgress DEF Killed
  <1> QED
    BY <1>1, <1>2, <1>3, <1>4, <1>5, <1>6, <1>7, <1>8, <1>9, <1>10, <1>11,
       <1>12, <1>13, <1>14, <1>15, <1>16, <1>17, <1>18, <1>19,
       <1>20
    DEF Next, ScriptStep, WorldStep

LEMMA StepFits ==
  ASSUME IInv, Fits, [Next]_vars
  PROVE  Fits'
  <1>a. /\ mongo \in [major : {0, 7, 8}, held : BOOLEAN]
        /\ kernel \in {"old", "new"}
    BY DEF IInv, TypeOK, SiteOK
  <1>0. Die => Fits'
    BY EndsProgress DEF Die
  <1>1. CASE Invoke \/ HostReboots
    BY <1>1 DEF Invoke, HostReboots, Fits, MongoProgress, MongoFitsKernel, Finished,
      AfterDeps, AfterBuild, AfterRegister
  <1>2. CASE (\E v \in VMs : AnalysisStarts(v) \/ AnalysisEnds(v)) \/ UNCHANGED vars
    <2>1. UNCHANGED <<kernel, mongo, script>>
      BY <1>2 DEF AnalysisStarts, AnalysisEnds, vars, site
    <2> QED
      BY <2>1 DEF script, Fits, MongoProgress, MongoFitsKernel, Finished, Want
  <1>3. CASE Preflight
    <2>1. CASE Goto(IF cmd = "all" THEN "host" ELSE "next") /\ UNCHANGED site
      <3>1. /\ cmd \in {"none", "all"} /\ cmd' = cmd
            /\ pc' = IF cmd = "all" THEN "host" ELSE "next"
        BY <1>3, <2>1 DEF Preflight, Goto, IInv, StageOfCmd
      <3> QED
        BY <3>1 DEF Fits, MongoProgress, MongoFitsKernel, Finished, Want,
                    AfterDeps, AfterBuild, AfterRegister
    <2> QED
      BY <1>0, <1>3, <2>1 DEF Preflight
  <1>20. CASE NextStage
    <2>1. CASE rest = <<>> /\ Ends("ok") /\ UNCHANGED warned
      <3>1. pc = "next" /\ pc' = "idle" /\ UNCHANGED <<cmd, mongo, kernel>>
        BY <1>20, <2>1 DEF NextStage, Ends, site
      <3> QED
        BY <2>1, <3>1 DEF Fits, MongoProgress, MongoFitsKernel, Finished, Want,
                    AfterDeps, AfterBuild, AfterRegister
    <2>2. CASE rest # <<>> /\ cmd' = Head(rest)
      <3>1. Head(rest) \in Stages \cup {"all"}
        BY <2>2 DEF IInv, TypeOK, ScriptOK
      <3>2. /\ cmd' \in Stages \cup {"all"}
            /\ pc' = IF cmd' = "all" THEN "preflight" ELSE cmd'
        BY <1>20, <2>2, <3>1 DEF NextStage
      <3> QED
        BY <3>2 DEF Fits, MongoProgress, MongoFitsKernel, Finished, Want,
                    AfterDeps, AfterBuild, AfterRegister, Stages
    <2> QED
      BY <1>20, <2>1, <2>2 DEF NextStage
  <1>4. CASE StageHost
    BY <1>0, <1>4, CompletesFits DEF StageHost, Done, StageOf, Stages
  <1>5. CASE StageCape
    <2>1. CASE Done("cape") /\ kernel' = kernel
      BY <1>5, <2>1, CompletesFits DEF StageCape, Done, StageOf, Stages
    <2> QED
      BY <1>0, <1>5, <2>1, EndsProgress DEF StageCape
  <1>6. CASE StageDeps
    <2>1. CASE mongo.major = Want /\ Done("deps") /\ UNCHANGED <<mongo, kernel>>
      <3>1. mongo'.major = Want' /\ pc' # "mongo_hold"
        BY <2>1, CompletesWhere DEF Done, Want, Stages
      <3> QED
        BY <3>1 DEF Fits, MongoProgress, MongoFitsKernel, Finished
    <2>2. CASE Goto("mongo_install")
      BY <2>2 DEF Goto, Fits, MongoProgress, MongoFitsKernel, Finished, AfterDeps,
                  AfterBuild, AfterRegister
    <2> QED
      BY <1>6, <2>1, <2>2 DEF StageDeps
  <1>7. CASE MongoInstall
    <2>1. CASE Goto("mongo_hold") /\ kernel' = kernel
               /\ mongo' = [major |-> IF mongo.major > Want THEN mongo.major ELSE Want,
                            held |-> FALSE]
      <3>1. mongo'.major \in {Want, 8} /\ Want' = Want
        BY <1>a, <2>1 DEF Want
      <3> QED
        BY <2>1, <3>1 DEF Goto, Fits, MongoProgress, MongoFitsKernel, Finished, AfterDeps,
                          AfterBuild, AfterRegister
    <2>2. CASE Completes("deps", {"deps"})
      <3>1. "deps" \in warned' /\ pc' # "mongo_hold"
        BY <2>2, CompletesWhere, CompletesFar DEF Stages
      <3> QED
        BY <3>1 DEF Fits, MongoProgress, MongoFitsKernel, Finished
    <2> QED
      BY <1>0, <1>7, <2>1, <2>2 DEF MongoInstall
  <1>8. CASE MongoHold
    <2>1. PICK active \in BOOLEAN :
             MongodActive(active)
             /\ Completes("deps", IF active THEN {} ELSE {"deps"})
      BY <1>8 DEF MongoHold
    <2>2. mongo'.major = mongo.major /\ Want' = Want /\ pc' # "mongo_hold"
      BY <1>8, <1>a, <2>1, CompletesWhere DEF MongoHold, Want, Stages
    <2>3. CASE active
      <3>1. mongo.major = Want
        BY <1>8, <1>a, <2>1, <2>3
        DEF MongoHold, Fits, MongoProgress, MongodActive, Want
      <3> QED
        BY <2>2, <3>1 DEF Fits, MongoProgress, MongoFitsKernel, Finished
    <2>4. CASE ~active
      <3>1. "deps" \in warned'
        BY <2>1, <2>4, CompletesFar DEF Stages
      <3> QED
        BY <2>2, <3>1 DEF Fits, MongoProgress, MongoFitsKernel, Finished
    <2> QED
      BY <2>3, <2>4
  <1>9. CASE StageUpdatePolicy \/ StageCommunity \/ StageDmi
    BY <1>0, <1>9, CompletesFits
    DEF StageUpdatePolicy, StageCommunity, StageDmi, Done, StageOf, Stages, site
  <1>10. CASE StageBuildvm
    <2>1. CASE ReturnsOne("buildvm") \/ Ends("aborted")
      BY <2>1, EndsProgress DEF ReturnsOne, Guarded
    <2>2. CASE pc' = "building" /\ UNCHANGED <<cmd, warned>>
      BY <1>10, <2>2, OnTheWay DEF StageBuildvm, AfterDeps
    <2> QED
      BY <1>10, <2>1, <2>2 DEF StageBuildvm
  <1>11. CASE BuildBegins \/ BuildReturns
    <2>1. /\ pc \in AfterDeps /\ pc' \in {"building", "built"}
          /\ warned \subseteq warned' /\ UNCHANGED <<cmd, mongo, kernel>>
      BY <1>11 DEF BuildBegins, BuildReturns, AfterDeps
    <2> QED
      BY <2>1, OnTheWay
  <1>12. CASE BuildvmDone
    BY <1>12, CompletesFits DEF BuildvmDone, Done, StageOf, Stages, site
  <1>13. CASE StageRegister \/ MachineryDrop
    <2>2. CASE StageRegister /\ Completes("register", {"register"}) /\ ~Die
      BY <2>2, CompletesFits DEF StageRegister, StageOf, Stages
    <2>1. CASE ~Die /\ ~(StageRegister /\ Completes("register", {"register"}))
      <3>1. /\ pc \in AfterDeps /\ pc' \in {"machinery_drop", "machinery_add"}
            /\ UNCHANGED <<cmd, warned, mongo, kernel>>
        BY <1>13, <2>1, <2>2
        DEF StageRegister, MachineryDrop, Goto, AfterDeps, AfterBuild
      <3> QED
        BY <3>1, OnTheWay
    <2> QED
      BY <1>0, <2>1, <2>2
  <1>14. CASE MachineryAdd
    BY <1>14, CompletesFits DEF MachineryAdd, Done, StageOf, Stages
  <1>15. CASE StageNetiso
    <2>1. CASE \E c : Completes("netiso", c)
      BY <1>15, <2>1, CompletesFits DEF StageNetiso, StageOf, Stages, Die, site
    <2>2. CASE Ends("aborted")
      BY <2>2, EndsProgress
    <2> QED
      BY <1>0, <1>15, <2>1, <2>2 DEF StageNetiso, ReturnsOne
  <1>16. CASE StageServices
    <2>1. \E c : Completes("services", c)
      BY <1>16 DEF StageServices, Done
    <2> QED
      BY <1>16, <2>1, CompletesFits DEF StageServices, StageOf, Stages
  <1>17. CASE StageVerify
    BY <1>17, CompletesFits DEF StageVerify, StageOf, Stages, site
  <1>18. CASE StageSmoketest
    <2>1. CASE \E c : Completes("smoketest", c)
      BY <1>18, <2>1, CompletesFits DEF StageSmoketest, StageOf, Stages, Die, site
    <2>2. CASE Ends("aborted")
      BY <2>2, EndsProgress
    <2> QED
      BY <1>0, <1>18, <2>1, <2>2 DEF StageSmoketest, ReturnsOne, Done
  <1>19. CASE Killed
    BY <1>19, EndsProgress DEF Killed
  <1> QED
    BY <1>1, <1>2, <1>3, <1>4, <1>5, <1>6, <1>7, <1>8, <1>9, <1>10, <1>11,
       <1>12, <1>13, <1>14, <1>15, <1>16, <1>17, <1>18, <1>19,
       <1>20
    DEF Next, ScriptStep, WorldStep

LEMMA InitProgress == Init => Built /\ Fits
  BY DEF Init, Built, Fits, BuildvmProgress, BuiltOrWarned, Finished, MongoProgress,
         MongoFitsKernel, Finished, AfterDeps, AfterBuild, AfterRegister

\* A run of buildvm, or of `all`, that did not complain of buildvm leaves every
\* guest of VM_LIST ready: a guest that fails is skipped, never forgotten.
THEOREM BuildvmIsHonest == Spec => []BuiltOrWarned
  <1>1. IInv /\ Built /\ [Next]_vars => Built'
    BY StepBuilt
  <1> QED
    BY <1>1, InitProgress, Inductive, PTL DEF Spec, Built

\* A run with deps that did not complain of it leaves the MongoDB the kernel
\* can run, although cape pulled 8.0 before and a purge may have failed.
THEOREM DepsIsHonest == Spec => []MongoFitsKernel
  <1>1. IInv /\ Fits /\ [Next]_vars => Fits'
    BY StepFits
  <1> QED
    BY <1>1, InitProgress, Inductive, PTL DEF Spec, Fits
-----------------------------------------------------------------------------
(* The length of a run.                                                     *)

LEMMA ListFinite ==
  ASSUME NEW S \in SUBSET VMs
  PROVE  /\ IsFiniteSet(S) /\ Cardinality(S) \in Nat
         /\ \A v \in S : Cardinality(S \ {v}) = Cardinality(S) - 1
  <1>1. IsFiniteSet(S)
    BY FS_Subset
  <1> QED
    BY <1>1, FS_CardinalityType, FS_RemoveElement

\* The numbers StepsLeft is made of.
LEMMA Units ==
  ASSUME TypeOK
  PROVE  /\ Cardinality(VMs) \in Nat /\ Cardinality(todo) \in Nat
         /\ Cardinality(todo) <= Cardinality(VMs)
         /\ OfGuests \in Nat /\ Len(rest) \in Nat /\ OfCommand \in Nat
         /\ pc # "idle" => OfCommand > 0
  <1>1. VMs \in SUBSET VMs /\ todo \in SUBSET VMs
    BY DEF TypeOK, ScriptOK
  <1>2. Cardinality(VMs) \in Nat /\ Cardinality(todo) \in Nat
    BY <1>1, ListFinite
  <1>3. Cardinality(todo) <= Cardinality(VMs)
    BY <1>1, FS_Subset
  <1>4. Len(rest) \in Nat
    BY DEF TypeOK, ScriptOK
  <1>5. OfGuests \in Nat
    BY <1>2 DEF OfGuests
  <1>8. StageSteps \in Nat
    BY DEF StageSteps
  <1>9. GuestSteps \in Nat
    BY <1>2, <1>5 DEF GuestSteps
  <1>6. OfCommand \in Nat
    BY <1>8, <1>9 DEF OfCommand
  <1>7. pc # "idle" => OfCommand > 0
    <2>1. pc # "idle" => StageSteps > 0
      BY DEF StageSteps, TypeOK, ScriptOK, Steps, Stages
    <2> QED
      BY <1>8, <1>9, <2>1 DEF OfCommand
  <1> QED
    BY <1>2, <1>3, <1>4, <1>5, <1>6, <1>7

StepsLeftOK == StepsLeft \in Nat /\ OfCommand \in Nat

LEMMA StepsLeftType == TypeOK => StepsLeftOK
  BY Units DEF StepsLeft, StepsLeftOK

LEMMA StepsLeftTypeNext == TypeOK' => StepsLeftOK'
  BY StepsLeftType, PTL

\* A step within a command, and one that ends the run.
LEMMA Within ==
  ASSUME TypeOK, TypeOK', UNCHANGED rest, OfCommand' < OfCommand
  PROVE  StepsLeft' < StepsLeft
  <1> DEFINE done == Len(rest) * (OfGuests + 19)
  <1>1. done \in Nat /\ OfCommand \in Nat /\ OfCommand' \in Nat
    BY Units, StepsLeftTypeNext DEF StepsLeftOK
  <1>2. StepsLeft = done + OfCommand /\ StepsLeft' = done + OfCommand'
    BY DEF StepsLeft, OfGuests
  <1>3. PICK d \in Nat : d = done
    BY <1>1
  <1>4. PICK a \in Nat, b \in Nat : a = OfCommand /\ b = OfCommand'
    BY <1>1
  <1>5. StepsLeft = d + a /\ StepsLeft' = d + b /\ b < a
    BY <1>2, <1>3, <1>4
  <1> QED
    BY <1>5

LEMMA EndsAdvances ==
  ASSUME TypeOK, pc # "idle", NEW code, Ends(code)
  PROVE  StepsLeft' < StepsLeft
  <1>1. OfGuests \in Nat /\ Len(rest) \in Nat /\ OfCommand \in Nat /\ OfCommand > 0
    BY Units
  <1>2. Len(rest) * (OfGuests + 19) >= 0
    BY <1>1
  <1>3. Len(rest') = 0 /\ OfCommand' = 0 /\ OfGuests' = OfGuests
    BY DEF Ends, OfCommand, GuestSteps, StageSteps,
          BeforeBuild, OfGuests
  <1>4. Len(rest') * (OfGuests' + 19) = 0
    BY <1>1, <1>3
  <1>5. StepsLeft' = 0
    BY <1>3, <1>4 DEF StepsLeft
  <1> DEFINE done == Len(rest) * (OfGuests + 19)
  <1>6. done \in Nat /\ StepsLeft = done + OfCommand
    BY <1>1, <1>2 DEF StepsLeft
  <1> HIDE DEF done
  <1> QED
    BY <1>1, <1>5, <1>6

\* The loop of main takes the next command.
LEMMA CommandAdvances ==
  ASSUME TypeOK, NextStage
  PROVE  StepsLeft' < StepsLeft
  <1>1. CASE Ends("ok")
    BY <1>1, EndsAdvances DEF NextStage
  <1>2. CASE rest # <<>> /\ rest' = Tail(rest)
    <2> DEFINE all == OfGuests + 19  n == Len(rest')
    <2>1. Head(rest) \in Stages \cup {"all"}
      BY <1>2 DEF TypeOK, ScriptOK
    <2>2. pc' \in Stages \cup {"preflight"} /\ pc = "next"
      BY <1>2, <2>1 DEF NextStage, Ends
    <2>3. Cardinality(VMs) \in Nat /\ OfGuests \in Nat
      BY Units
    <2>4. OfCommand' \in Nat /\ OfCommand' <= all
      BY <2>2, <2>3 DEF OfCommand, GuestSteps, StageSteps,
          BeforeBuild, OfGuests, Stages
    <2>5. n \in Nat /\ Len(rest) = n + 1
      BY <1>2 DEF TypeOK, ScriptOK
    <2>6. all \in Nat /\ (n + 1) * all = n * all + all /\ n * all \in Nat
      BY <2>3, <2>5
    <2>7. StepsLeft = (n + 1) * all + 1
      BY <2>2, <2>5 DEF StepsLeft, OfCommand, GuestSteps, StageSteps, BeforeBuild
    <2>8. StepsLeft' = n * all + OfCommand'
      BY DEF StepsLeft, OfGuests
    <2>9. PICK q \in Nat, a \in Nat, b \in Nat :
            q = n * all /\ a = all /\ b = OfCommand'
      BY <2>4, <2>6
    <2>10. StepsLeft = q + a + 1 /\ StepsLeft' = q + b /\ b <= a
      BY <2>4, <2>6, <2>7, <2>8, <2>9
    <2> QED
      BY <2>10
  <1> QED
    BY <1>1, <1>2 DEF NextStage

LEMMA CompletesAdvances ==
  ASSUME TypeOK, TypeOK', StageOfCmd, NEW s \in Stages, NEW c, Completes(s, c),
         StageOf(pc) = s, pc \notin {"idle", "preflight", "next"}
  PROVE  StepsLeft' < StepsLeft
  <1>1. Cardinality(VMs) \in Nat /\ Cardinality(todo) \in Nat /\ rest' = rest
    BY Units DEF Completes
  <1>2. CASE pc' = "next"
    BY <1>1, <1>2, Within
    DEF OfCommand, GuestSteps, StageSteps,
          BeforeBuild, OfGuests, StageOf, TypeOK, ScriptOK, Steps, Stages
  <1>3. CASE pc' = After(s) /\ s \in {"host", "cape", "community", "dmi"}
    <2>1. pc = s
      BY <1>3 DEF StageOf
    <2>2. \/ pc = "host" /\ pc' = "cape"
          \/ pc = "cape" /\ pc' = "deps"
          \/ pc = "community" /\ pc' = "dmi"
          \/ pc = "dmi" /\ pc' = "buildvm"
      BY <1>3, <2>1 DEF After
    <2> QED
      BY <1>1, <2>2, Within DEF OfCommand, GuestSteps, StageSteps,
          BeforeBuild, OfGuests
  <1>4. CASE pc' = After(s) /\ s = "deps"
    <2>1. pc \in {"deps", "mongo_install", "mongo_hold"} /\ pc' = "community"
      BY <1>4 DEF StageOf, After
    <2> QED
      BY <1>1, <2>1, Within DEF OfCommand, GuestSteps, StageSteps,
          BeforeBuild, OfGuests
  <1>5. CASE pc' = After(s) /\ s = "buildvm"
    <2>1. pc \in {"buildvm", "building", "built"} /\ pc' = "register"
      BY <1>5 DEF StageOf, After
    <2> QED
      BY <1>1, <2>1, Within DEF OfCommand, GuestSteps, StageSteps,
          BeforeBuild, OfGuests
  <1>6. CASE pc' = After(s) /\ s = "register"
    <2>1. pc \in {"register", "machinery_drop", "machinery_add"} /\ pc' = "netiso"
      BY <1>6 DEF StageOf, After
    <2> QED
      BY <1>1, <2>1, Within DEF OfCommand, GuestSteps, StageSteps, BeforeBuild
  <1>7. CASE pc' = After(s) /\ s \in {"netiso", "services", "verify"}
    <2>1. pc = s
      BY <1>7 DEF StageOf
    <2>2. \/ pc = "netiso" /\ pc' = "services"
          \/ pc = "services" /\ pc' = "verify"
          \/ pc = "verify" /\ pc' = "smoketest"
      BY <1>7, <2>1 DEF After
    <2> QED
      BY <1>1, <2>2, Within DEF OfCommand, GuestSteps, StageSteps, BeforeBuild
  <1>8. s \in {"smoketest", "update-policy"} => pc' = "next"
    BY DEF Completes, After
  <1> QED
    BY <1>2, <1>3, <1>4, <1>5, <1>6, <1>7, <1>8 DEF Completes, Stages

LEMMA ScriptAdvances ==
  ASSUME TypeOK, TypeOK', StageOfCmd, ScriptStep
  PROVE  StepsLeft' < StepsLeft
  <1>a. VMs \in SUBSET VMs /\ todo \in SUBSET VMs
    BY DEF TypeOK, ScriptOK
  <1>b. Cardinality(VMs) \in Nat /\ Cardinality(todo) \in Nat
    BY <1>a, ListFinite
  <1>0. pc # "idle" /\ Die => StepsLeft' < StepsLeft
    BY EndsAdvances DEF Die
  <1>1. CASE Preflight
    <2>1. CASE Goto(IF cmd = "all" THEN "host" ELSE "next")
      <3>1. OfCommand' < OfCommand
        BY <1>1, <1>b, <2>1 DEF Preflight, Goto, OfCommand, GuestSteps, StageSteps,
          BeforeBuild, OfGuests
      <3> QED
        BY <2>1, <3>1, Within DEF Goto
    <2> QED
      BY <1>0, <1>1, <2>1 DEF Preflight
  <1>17. CASE NextStage
    BY <1>17, CommandAdvances
  <1>2. CASE StageHost \/ StageUpdatePolicy \/ StageCommunity \/ StageDmi
    BY <1>0, <1>2, CompletesAdvances
    DEF StageHost, StageUpdatePolicy, StageCommunity, StageDmi, Done, StageOf,
        Stages
  <1>3. CASE StageCape
    BY <1>0, <1>3, CompletesAdvances, EndsAdvances
    DEF StageCape, Done, StageOf, Stages
  <1>4. CASE StageDeps
    <2>1. CASE Done("deps")
      BY <1>4, <2>1, CompletesAdvances DEF StageDeps, Done, StageOf, Stages
    <2>2. CASE Goto("mongo_install")
      <3>1. OfCommand' < OfCommand
        BY <1>4, <1>b, <2>2 DEF StageDeps, Goto, OfCommand, GuestSteps, StageSteps,
          BeforeBuild, OfGuests
      <3> QED
        BY <2>2, <3>1, Within DEF Goto
    <2> QED
      BY <1>4, <2>1, <2>2 DEF StageDeps
  <1>5. CASE MongoInstall
    <2>1. CASE Completes("deps", {"deps"})
      BY <1>5, <2>1, CompletesAdvances DEF MongoInstall, StageOf, Stages
    <2>2. CASE Goto("mongo_hold")
      <3>1. OfCommand' < OfCommand
        BY <1>5, <1>b, <2>2 DEF MongoInstall, Goto, OfCommand, GuestSteps, StageSteps,
          BeforeBuild, OfGuests
      <3> QED
        BY <2>2, <3>1, Within DEF Goto
    <2> QED
      BY <1>0, <1>5, <2>1, <2>2 DEF MongoInstall
  <1>6. CASE MongoHold
    <2>1. \E c : Completes("deps", c)
      BY <1>6 DEF MongoHold
    <2> QED
      BY <1>6, <2>1, CompletesAdvances DEF MongoHold, StageOf, Stages
  <1>7. CASE StageBuildvm
    <2>1. CASE Ends("aborted")
      BY <1>7, <2>1, EndsAdvances DEF StageBuildvm
    <2>2. CASE Completes("buildvm", {"buildvm"})
      BY <1>7, <2>2, CompletesAdvances DEF StageBuildvm, StageOf, Stages
    <2>3. CASE pc' = "building" /\ todo' = VMs /\ rest' = rest
      <3>1. OfCommand' < OfCommand
        BY <1>7, <1>b, <2>3 DEF StageBuildvm, OfCommand, GuestSteps, StageSteps,
          BeforeBuild, OfGuests
      <3> QED
        BY <2>3, <3>1, Within
    <2> QED
      BY <1>7, <2>1, <2>2, <2>3 DEF StageBuildvm, ReturnsOne
  <1>8. CASE BuildBegins
    <2>1. PICK v \in todo : todo' = todo \ {v}
      BY <1>8 DEF BuildBegins
    <2>2. Cardinality(todo') = Cardinality(todo) - 1
      BY <1>a, <2>1, ListFinite
    <2>3. todo' \in SUBSET VMs
      BY <1>a, <2>1
    <2>4. Cardinality(todo') \in Nat
      BY <2>3, ListFinite
    <2>5. pc = "building" /\ pc' \in {"building", "built"} /\ rest' = rest
      BY <1>8 DEF BuildBegins
    <2>6. OfCommand' < OfCommand
      BY <1>b, <2>2, <2>4, <2>5 DEF OfCommand, GuestSteps, StageSteps, BeforeBuild
    <2> QED
      BY <2>5, <2>6, Within
  <1>9. CASE BuildReturns
    <2>1. OfCommand' < OfCommand /\ rest' = rest
      BY <1>9, <1>b DEF BuildReturns, OfCommand, GuestSteps, StageSteps, BeforeBuild
    <2> QED
      BY <2>1, Within
  <1>10. CASE BuildvmDone
    BY <1>10, CompletesAdvances DEF BuildvmDone, Done, StageOf, Stages
  <1>11. CASE StageRegister \/ MachineryDrop
    <2>1. CASE Completes("register", {"register"}) /\ pc = "register"
      BY <2>1, CompletesAdvances DEF StageOf, Stages
    <2>2. CASE \/ pc = "register" /\ Goto("machinery_drop")
               \/ pc = "machinery_drop" /\ Goto("machinery_add")
      <3>1. OfCommand' < OfCommand /\ rest' = rest
        BY <2>2 DEF Goto, OfCommand, GuestSteps, StageSteps, BeforeBuild
      <3> QED
        BY <3>1, Within
    <2> QED
      BY <1>0, <1>11, <2>1, <2>2 DEF StageRegister, MachineryDrop
  <1>12. CASE MachineryAdd
    BY <1>12, CompletesAdvances DEF MachineryAdd, Done, StageOf, Stages
  <1>13. CASE StageNetiso
    <2>1. CASE \E c : Completes("netiso", c)
      BY <1>13, <2>1, CompletesAdvances DEF StageNetiso, StageOf, Stages
    <2>2. CASE Ends("aborted")
      BY <1>13, <2>2, EndsAdvances DEF StageNetiso
    <2> QED
      BY <1>0, <1>13, <2>1, <2>2 DEF StageNetiso, ReturnsOne
  <1>14. CASE StageServices
    <2>1. \E c : Completes("services", c)
      BY <1>14 DEF StageServices, Done
    <2> QED
      BY <1>14, <2>1, CompletesAdvances DEF StageServices, StageOf, Stages
  <1>15. CASE StageVerify
    BY <1>15, CompletesAdvances DEF StageVerify, StageOf, Stages
  <1>16. CASE StageSmoketest
    <2>1. CASE \E c : Completes("smoketest", c)
      BY <1>16, <2>1, CompletesAdvances DEF StageSmoketest, StageOf, Stages
    <2>2. CASE Ends("aborted")
      BY <1>16, <2>2, EndsAdvances DEF StageSmoketest
    <2> QED
      BY <1>0, <1>16, <2>1, <2>2 DEF StageSmoketest, ReturnsOne, Done
  <1> QED
    BY <1>1, <1>2, <1>3, <1>4, <1>5, <1>6, <1>7, <1>8, <1>9, <1>10, <1>11,
       <1>12, <1>13, <1>14, <1>15, <1>16, <1>17 DEF ScriptStep

(* A run passes every stage and every guest once for each command it was    *)
(* given, for every VM_LIST and every command line, whatever fails: only    *)
(* its own steps use up the number it starts with (main, run_stage).        *)
THEOREM Bounded == Spec => RunIsBounded
  <1>1. IInv /\ [Next]_vars
          => [/\ ScriptStep => StepsLeft' < StepsLeft
              /\ StepsLeft' > StepsLeft => Invoke]_vars
    <2> SUFFICES ASSUME IInv, [Next]_vars
                 PROVE /\ ScriptStep => StepsLeft' < StepsLeft
                       /\ StepsLeft' > StepsLeft => Invoke
      OBVIOUS
    <2>0. TypeOK /\ TypeOK' /\ StageOfCmd
      BY StepType DEF IInv
    <2>1. StepsLeft \in Nat /\ StepsLeft' \in Nat
      BY <2>0, StepsLeftType, StepsLeftTypeNext DEF StepsLeftOK
    <2>2. CASE (\E v \in VMs : AnalysisStarts(v) \/ AnalysisEnds(v))
               \/ HostReboots \/ UNCHANGED vars
      <3>1. UNCHANGED <<pc, todo, rest>>
        BY <2>2 DEF AnalysisStarts, AnalysisEnds, HostReboots, vars, script
      <3>2. StepsLeft' = StepsLeft
        BY <3>1 DEF StepsLeft, OfCommand, GuestSteps, StageSteps,
          BeforeBuild, OfGuests
      <3>3. ~(StepsLeft' > StepsLeft)
        BY <2>1, <3>2
      <3> QED
        BY <2>0, <3>3, ScriptAdvances
    <2>3. CASE Killed
      <3>1. StepsLeft' < StepsLeft
        BY <2>0, <2>3, EndsAdvances DEF Killed
      <3> QED
        BY <2>1, <3>1
    <2>4. CASE ScriptStep
      <3>1. StepsLeft' < StepsLeft
        BY <2>0, <2>4, ScriptAdvances
      <3> QED
        BY <2>1, <3>1
    <2>5. CASE Invoke /\ ~ScriptStep
      BY <2>5
    <2> QED
      BY <2>2, <2>3, <2>4, <2>5 DEF Next, WorldStep
  <1> QED
    BY <1>1, Inductive, PTL DEF Spec, RunIsBounded
===============================================================================
