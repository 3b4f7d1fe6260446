--------------------------- MODULE Watchdog_proofs ---------------------------
(***************************************************************************)
(* Theorems about Watchdog, for every list of units and VMs, any set of    *)
(* directories and every disk limit.                                       *)
(***************************************************************************)
EXTENDS Watchdog, FiniteSetTheorems, TLAPS

USE WatchdogAssumption

LEMMA Lengths == /\ Len(Services) \in Nat \ {0} /\ Len(VMs) \in Nat \ {0}
                 /\ \A k \in 1..Len(Services) : Services[k] \in Units
                 /\ \A k \in 1..Len(VMs) : VMs[k] \in Guests
  OBVIOUS

LEMMA FoundType ==
  ASSUME TypeOK, NEW part \in Parts, Found(part) \/ Fine
  PROVE  issues' \in Nat /\ seen' \subseteq Parts
  <1>1. issues' \in Nat
    BY DEF TypeOK, Found, Fine
  <1>2. seen' \subseteq Parts
    BY DEF TypeOK, Found, Fine
  <1> QED
    BY <1>1, <1>2

\* A script that ended has its loops reset.
LEMMA EndsType ==
  ASSUME TypeOK, NEW code \in {"healthy", "issues", "aborted"}, Ends(code),
         UNCHANGED <<world, opt>>
  PROVE  TypeOK'
  <1>1. i' \in 1..Turns(pc')
    BY DEF Ends, Turns
  <1> QED
    BY <1>1 DEF TypeOK, Ends, world

LEMMA NextVMType ==
  ASSUME TypeOK, pc \in {"pgrep", "ps", "revert"}, NEW a \in BOOLEAN, NextVM(a),
         opt' = opt, vm' \in [Guests -> {"off", "young", "stuck"}],
         UNCHANGED <<svc, task, dir, issues, seen>>
  PROVE  TypeOK'
  <1>1. i' \in 1..Turns(pc')
    BY Lengths DEF TypeOK, NextVM, Turns
  <1> QED
    BY <1>1 DEF TypeOK, NextVM

LEMMA NextType == TypeOK /\ [Next]_vars => TypeOK'
  <1> SUFFICES ASSUME TypeOK, [Next]_vars PROVE TypeOK'
    OBVIOUS
  <1> USE DEF Turns
  <1>1. CASE RunChecks
    BY <1>1 DEF RunChecks, TypeOK, world
  <1>2. CASE CheckDisk
    <2>1. issues' \in Nat /\ seen' \subseteq Parts
      <3>1. Found("disk") \/ Fine
        BY <1>2 DEF CheckDisk
      <3> QED
        BY <3>1, FoundType DEF Parts
    <2>2. i' \in 1..Turns(pc')
      BY <1>2, Lengths DEF CheckDisk
    <2> QED
      BY <1>2, <2>1, <2>2 DEF CheckDisk, TypeOK, world
  <1>3. CASE CheckService
    <2> DEFINE s == Services[i]
    <2>1. s \in Units
      BY <1>3, Lengths DEF CheckService, TypeOK
    <2>2. svc' = svc \/ svc' = [svc EXCEPT ![s] = "active"]
      BY <1>3 DEF CheckService
    <2>3. svc' \in [Units -> {"active", "down"}]
      BY <2>1, <2>2 DEF TypeOK
    <2>4. issues' \in Nat /\ seen' \subseteq Parts
      <3>1. \/ seen' \in {seen, seen \cup {"service"}} /\ UNCHANGED issues
            \/ Fine
            \/ Found("service")
        BY <1>3 DEF CheckService
      <3>2. CASE seen' \in {seen, seen \cup {"service"}} /\ UNCHANGED issues
        BY <3>2 DEF TypeOK, Parts
      <3>3. CASE Found("service") \/ Fine
        BY <3>3, FoundType DEF Parts
      <3> QED
        BY <3>1, <3>2, <3>3
    <2>5. pc' \in {"services", "pgrep"} /\ i' \in 1..Turns(pc')
      BY <1>3, Lengths DEF CheckService, NextService, TypeOK
    <2> QED
      BY <1>3, <2>3, <2>4, <2>5 DEF CheckService, TypeOK
  <1>4. CASE Pgrep
    <2>1. CASE vm[VMs[i]] # "off" /\ pc' = "ps" /\ UNCHANGED <<i, any, old, rc>>
      BY <1>4, <2>1 DEF Pgrep, TypeOK, world, Fine
    <2>2. CASE NextVM(any) /\ Fine
      BY <1>4, <2>2, NextVMType DEF Pgrep, Fine, world, TypeOK
    <2>3. CASE Aborts(any)
      BY <1>4, <2>3, EndsType DEF Pgrep, Aborts
    <2> QED
      BY <1>4, <2>1, <2>2, <2>3 DEF Pgrep
  <1>5. CASE Ps
    <2>1. CASE Ends("aborted") \/ Aborts(TRUE)
      BY <1>5, <2>1, EndsType DEF Ps, Aborts
    <2>2. CASE NextVM(TRUE) /\ Fine
      BY <1>5, <2>2, NextVMType DEF Ps, Fine, world, TypeOK
    <2>3. CASE Found("vm") /\ pc' = "revert" /\ UNCHANGED <<i, any, old, rc>>
      BY <1>5, <2>3 DEF Ps, TypeOK, world, Found, Parts
    <2> QED
      BY <1>5, <2>1, <2>2, <2>3 DEF Ps
  <1>6. CASE Revert
    <2>1. vm' \in [Guests -> {"off", "young", "stuck"}]
      BY <1>6 DEF Revert, TypeOK
    <2>2. CASE NextVM(TRUE) /\ Fine
      BY <1>6, <2>1, <2>2, NextVMType DEF Revert, Fine
    <2>3. CASE Aborts(TRUE)
      <3>1. i' \in 1..Turns(pc')
        BY <2>3 DEF Aborts, Ends
      <3> QED
        BY <1>6, <2>1, <2>3, <3>1 DEF Revert, Aborts, Ends, TypeOK
    <2> QED
      BY <1>6, <2>2, <2>3 DEF Revert
  <1>7. CASE CheckRetention
    <2>1. /\ issues' \in Nat /\ seen' \subseteq Parts
          /\ pc' \in {"prune", "report"} /\ old' \subseteq Dirs
      <3>1. Found("retention") \/ Fine
        BY <1>7 DEF CheckRetention
      <3>2. pc' \in {"prune", "report"} /\ old' \subseteq Dirs
        BY <1>7 DEF CheckRetention
      <3> QED
        BY <3>1, <3>2, FoundType DEF Parts
    <2>2. i' \in 1..Turns(pc')
      BY <1>7, <2>1 DEF CheckRetention, TypeOK
    <2> QED
      BY <1>7, <2>1, <2>2 DEF CheckRetention, TypeOK, world
  <1>8. CASE Prune
    <2>1. /\ dir' \in [Dirs -> {"absent", "recent", "old"}]
          /\ pc' \in {"prune", "report"} /\ old' \subseteq Dirs
      BY <1>8 DEF Prune, TypeOK
    <2> QED
      BY <1>8, <2>1 DEF Prune, TypeOK
  <1>9. CASE Report
    BY <1>9, EndsType DEF Report
  <1>10. CASE WorldStep
    <2>1. UNCHANGED script
      BY <1>10 DEF WorldStep, AnalysisStarts, AnalysisEnds, VMAges, DirAges,
                   ServiceDies
    <2>2. /\ svc' \in [Units -> {"active", "down"}]
          /\ vm' \in [Guests -> {"off", "young", "stuck"}]
          /\ task' \in [Guests -> Dirs \cup {NoDir}]
          /\ dir' \in [Dirs -> {"absent", "recent", "old"}]
      <3>1. CASE \E v \in Guests, d \in Dirs : AnalysisStarts(v, d)
        BY <3>1 DEF AnalysisStarts, TypeOK
      <3>2. CASE \E v \in Guests : AnalysisEnds(v) \/ VMAges(v)
        BY <3>2 DEF AnalysisEnds, VMAges, TypeOK
      <3>3. CASE \E d \in Dirs : DirAges(d)
        BY <3>3 DEF DirAges, TypeOK
      <3>4. CASE \E u \in Units : ServiceDies(u)
        BY <3>4 DEF ServiceDies, TypeOK
      <3> QED
        BY <1>10, <3>1, <3>2, <3>3, <3>4 DEF WorldStep
    <2> QED
      BY <2>1, <2>2 DEF script, TypeOK
  <1>11. CASE UNCHANGED vars
    BY <1>11 DEF vars, world, script, TypeOK
  <1> QED
    BY <1>1, <1>2, <1>3, <1>4, <1>5, <1>6, <1>7, <1>8, <1>9, <1>10, <1>11
       DEF Next, ScriptStep

LEMMA InitType == Init => TypeOK
  <1> SUFFICES ASSUME Init PROVE TypeOK
    OBVIOUS
  <1>1. opt \in [reap : BOOLEAN, retention : BOOLEAN]
    BY DEF Init
  <1>2. i \in 1..Turns(pc)
    BY Lengths DEF Init, Turns
  <1> QED
    BY <1>1, <1>2 DEF Init, TypeOK

(* Every variable keeps its type; the loops of watchdog.sh stay within their *)
(* lists.                                                                    *)
THEOREM TypeCorrect == Spec => []TypeOK
  BY InitType, NextType, PTL DEF Spec

-----------------------------------------------------------------------------
(* The other parts of IInv, and the properties.                            *)

LEMMA OldStep == TypeOK /\ OldIsDone /\ [Next]_vars => OldIsDone'
  <1> SUFFICES ASSUME TypeOK, OldIsDone, [Next]_vars PROVE OldIsDone'
    OBVIOUS
  <1> USE DEF OldIsDone
  <1>1. CASE RunChecks \/ CheckDisk \/ Pgrep \/ Ps \/ Report \/ UNCHANGED vars
    <2>1. UNCHANGED world /\ (old' = old \/ old' = {})
      BY <1>1 DEF RunChecks, CheckDisk, Pgrep, Ps, Report, NextVM, Aborts, Ends,
                  vars, script
    <2> QED
      BY <2>1 DEF world
  <1>2. CASE CheckService \/ Revert
    <2>1. UNCHANGED <<task, dir>> /\ (old' = old \/ old' = {})
      BY <1>2 DEF CheckService, Revert, NextVM, Aborts, Ends
    <2> QED
      BY <2>1
  <1>3. CASE CheckRetention
    BY <1>3 DEF CheckRetention, world
  <1>4. CASE Prune
    <2> PICK d \in old : /\ dir' = [dir EXCEPT ![d] = "absent"] \/ UNCHANGED dir
                         /\ old' = old \ {d}
      BY <1>4 DEF Prune
    <2>1. UNCHANGED task
      BY <1>4 DEF Prune
    <2>2. \A e \in Dirs : dir'[e] = "old" => dir[e] = "old"
      BY DEF TypeOK
    <2>3. \A e \in old \ {d} : dir'[e] = dir[e]
      BY DEF TypeOK
    <2> QED
      BY <2>1, <2>2, <2>3
  <1>5. CASE WorldStep
    <2>0. UNCHANGED old
      BY <1>5 DEF WorldStep, AnalysisStarts, AnalysisEnds, VMAges, DirAges,
                  ServiceDies, script
    <2>1. CASE \E v \in Guests, d \in Dirs : AnalysisStarts(v, d)
      <3> PICK v \in Guests, d \in Dirs : AnalysisStarts(v, d)
        BY <2>1
      <3>1. \A e \in Dirs : dir'[e] = IF e = d THEN "recent" ELSE dir[e]
        BY DEF AnalysisStarts, TypeOK
      <3>2. \A w \in Guests : task'[w] = IF w = v THEN d ELSE task[w]
        BY DEF AnalysisStarts, TypeOK
      <3>3. d \notin old
        BY DEF AnalysisStarts
      <3> QED
        BY <2>0, <3>1, <3>2, <3>3 DEF TypeOK
    <2>2. CASE \E v \in Guests : AnalysisEnds(v) \/ VMAges(v)
      <3>1. UNCHANGED dir
        BY <2>2 DEF AnalysisEnds, VMAges
      <3>2. \A w \in Guests : task'[w] \in {task[w], NoDir}
        BY <2>2 DEF AnalysisEnds, VMAges, TypeOK
      <3> QED
        BY <2>0, <3>1, <3>2, WatchdogAssumption
    <2>3. CASE \E d \in Dirs : DirAges(d)
      <3> PICK d \in Dirs : DirAges(d)
        BY <2>3
      <3>1. \A e \in Dirs : dir'[e] = IF e = d THEN "old" ELSE dir[e]
        BY DEF DirAges, TypeOK
      <3>2. UNCHANGED task /\ \A v \in Guests : task[v] # d
        BY DEF DirAges
      <3> QED
        BY <2>0, <3>1, <3>2 DEF TypeOK
    <2>4. CASE \E u \in Units : ServiceDies(u)
      BY <2>0, <2>4 DEF ServiceDies
    <2> QED
      BY <1>5, <2>1, <2>2, <2>3, <2>4 DEF WorldStep
  <1> QED
    BY <1>1, <1>2, <1>3, <1>4, <1>5 DEF Next, ScriptStep

LEMMA CountStep ==
  TypeOK /\ IssuesCount /\ HealthyIsHonest /\ [Next]_vars
    => IssuesCount' /\ HealthyIsHonest'
  <1> SUFFICES ASSUME TypeOK, IssuesCount, HealthyIsHonest, [Next]_vars
               PROVE  IssuesCount' /\ HealthyIsHonest'
    OBVIOUS
  <1> USE DEF IssuesCount, HealthyIsHonest
  <1>1. CASE RunChecks
    BY <1>1 DEF RunChecks
  <1>2. CASE CheckDisk \/ CheckRetention
    <2>1. pc # "idle" /\ UNCHANGED rc
      BY <1>2 DEF CheckDisk, CheckRetention
    <2>2. Fine \/ issues' = issues + 1
      BY <1>2 DEF CheckDisk, CheckRetention, Found
    <2> QED
      BY <2>1, <2>2 DEF Fine, TypeOK
  <1>3. CASE CheckService
    <2>1. pc # "idle" /\ UNCHANGED rc
      BY <1>3 DEF CheckService
    <2>2. \/ seen' \in {seen, seen \cup {"service"}} /\ UNCHANGED issues
          \/ Fine
          \/ issues' = issues + 1
      BY <1>3 DEF CheckService, Found
    <2> QED
      BY <2>1, <2>2 DEF Fine, TypeOK
  <1>4. CASE Pgrep \/ Ps \/ Revert
    <2>1. pc # "idle"
      BY <1>4 DEF Pgrep, Ps, Revert
    <2>2. CASE rc' = "aborted" /\ pc' = "idle"
      BY <2>2
    <2>3. CASE UNCHANGED <<rc, issues, seen>>
      BY <2>1, <2>3
    <2>4. CASE UNCHANGED rc /\ issues' = issues + 1
      BY <2>1, <2>4 DEF TypeOK
    <2> QED
      BY <1>4, <2>2, <2>3, <2>4
         DEF Pgrep, Ps, Revert, NextVM, Aborts, Ends, Fine, Found
  <1>5. CASE Prune
    BY <1>5 DEF Prune
  <1>6. CASE WorldStep \/ UNCHANGED vars
    <2>1. UNCHANGED script
      BY <1>6 DEF WorldStep, AnalysisStarts, AnalysisEnds, VMAges, DirAges,
                  ServiceDies, vars
    <2> QED
      BY <2>1 DEF script
  <1>7. CASE Report
    BY <1>7 DEF Report, Ends
  <1> QED
    BY <1>1, <1>2, <1>3, <1>4, <1>5, <1>6, <1>7 DEF Next, ScriptStep

LEMMA ReapStep == PrunesInReap /\ [Next]_vars => PrunesInReap'
  <1> SUFFICES ASSUME PrunesInReap, [Next]_vars PROVE PrunesInReap'
    OBVIOUS
  <1> USE DEF PrunesInReap
  <1>1. CASE RunChecks \/ CheckDisk \/ CheckService
    BY <1>1 DEF RunChecks, CheckDisk, CheckService, NextService
  <1>2. CASE Pgrep \/ Ps \/ Revert \/ Report
    BY <1>2 DEF Pgrep, Ps, Revert, Report, NextVM, Aborts, Ends
  <1>3. CASE CheckRetention \/ Prune
    BY <1>3 DEF CheckRetention, Prune
  <1>4. CASE WorldStep \/ UNCHANGED vars
    <2>1. UNCHANGED script
      BY <1>4 DEF WorldStep, AnalysisStarts, AnalysisEnds, VMAges, DirAges,
                  ServiceDies, vars
    <2> QED
      BY <2>1 DEF script
  <1> QED
    BY <1>1, <1>2, <1>3, <1>4 DEF Next, ScriptStep

(* The invariant holds at the start and is kept by every step.               *)
LEMMA Inductive == Spec => []IInv
  <1>1. Init => IInv
    <2> SUFFICES ASSUME Init PROVE IInv
      OBVIOUS
    <2>1. OldIsDone /\ IssuesCount /\ PrunesInReap /\ HealthyIsHonest
      BY DEF Init, OldIsDone, IssuesCount, PrunesInReap, HealthyIsHonest
    <2> QED
      BY <2>1, InitType DEF IInv
  <1>2. IInv /\ [Next]_vars => IInv'
    BY NextType, OldStep, CountStep, ReapStep DEF IInv
  <1> QED
    BY <1>1, <1>2, PTL DEF Spec

(* Whatever CAPE does meanwhile, "healthy" means that nothing but a service  *)
(* was found unhealthy.                                                      *)
THEOREM Honest == Spec => []HealthyIsHonest
  <1>1. IInv => HealthyIsHonest
    BY DEF IInv
  <1> QED
    BY <1>1, Inductive, PTL

(* A check changes nothing of the world, for any lists of units and VMs.     *)
THEOREM ReadOnly == Spec => CheckIsReadOnly
  <1>1. IInv /\ [Next]_vars => (ScriptStep /\ ~opt.reap => UNCHANGED world)
    <2> SUFFICES ASSUME IInv, ScriptStep, ~opt.reap PROVE UNCHANGED world
      OBVIOUS
    <2>1. CASE CheckDisk \/ Pgrep \/ Ps \/ CheckRetention \/ Report
      BY <2>1 DEF CheckDisk, Pgrep, Ps, CheckRetention, Report
    <2>2. CASE CheckService \/ Revert
      BY <2>2 DEF CheckService, Revert, world
    <2>3. ~Prune
      BY DEF IInv, PrunesInReap, Prune
    <2> QED
      BY <2>1, <2>2, <2>3 DEF ScriptStep
  <1> QED
    BY <1>1, Inductive, PTL DEF Spec, CheckIsReadOnly

(* The results of a running analysis survive every run of the watchdog, and  *)
(* recent ones too.                                                          *)
THEOREM SparesAnalyses == Spec => PruneSparesAnalyses
  <1> DEFINE Spared == \A d \in Dirs : dir[d] # "absent" /\ dir'[d] = "absent"
                         => dir[d] = "old" /\ \A v \in Guests : task[v] # d
  <1>1. IInv /\ [Next]_vars => Spared
    <2> SUFFICES ASSUME IInv, [Next]_vars, NEW d \in Dirs,
                        dir[d] # "absent", dir'[d] = "absent"
                 PROVE  dir[d] = "old" /\ \A v \in Guests : task[v] # d
      OBVIOUS
    <2> USE DEF IInv, TypeOK
    <2>1. Prune
      <3>1. dir' # dir
        OBVIOUS
      <3>2. ~(RunChecks \/ CheckDisk \/ CheckService \/ Pgrep \/ Ps \/ Revert
               \/ CheckRetention \/ Report)
        BY <3>1 DEF RunChecks, CheckDisk, CheckService, Pgrep, Ps, Revert,
                    CheckRetention, Report, world
      <3>3. ~WorldStep
        BY <3>1 DEF WorldStep, AnalysisStarts, AnalysisEnds, VMAges, DirAges,
                    ServiceDies
      <3> QED
        BY <3>1, <3>2, <3>3 DEF Next, ScriptStep, vars, world
    <2>2. d \in old
      BY <2>1 DEF Prune
    <2> QED
      BY <2>2 DEF OldIsDone
  <1> QED
    BY <1>1, Inductive, PTL DEF Spec, PruneSparesAnalyses
-----------------------------------------------------------------------------
(* The length of a run.                                                     *)

LEMMA OldFinite ==
  ASSUME NEW S \in SUBSET Dirs
  PROVE  /\ IsFiniteSet(S) /\ Cardinality(S) \in Nat
         /\ Cardinality(S) <= Cardinality(Dirs)
         /\ \A d \in S : Cardinality(S \ {d}) = Cardinality(S) - 1
  <1>1. IsFiniteSet(Dirs)
    BY WatchdogAssumption
  <1>2. IsFiniteSet(S) /\ Cardinality(S) <= Cardinality(Dirs)
    BY <1>1, FS_Subset
  <1> QED
    BY <1>2, FS_CardinalityType, FS_RemoveElement

\* The lengths of the three loops; the index stays inside them.
LEMMA LoopTypes ==
  ASSUME TypeOK
  PROVE  /\ Len(Services) \in Nat /\ Len(VMs) \in Nat
         /\ Cardinality(Dirs) \in Nat /\ Cardinality(old) \in Nat
         /\ Cardinality(old) <= Cardinality(Dirs)
         /\ i \in Nat
         /\ pc = "services" => i <= Len(Services)
         /\ pc \in {"pgrep", "ps", "revert"} => i <= Len(VMs)
  <1>1. Dirs \in SUBSET Dirs /\ old \in SUBSET Dirs
    BY DEF TypeOK
  <1>2. Len(Services) \in Nat /\ Len(VMs) \in Nat
    BY Lengths
  <1>3. i \in Nat /\ i <= Turns(pc)
    BY Lengths DEF TypeOK, Turns
  <1>4. /\ pc = "services" => i <= Len(Services)
        /\ pc \in {"pgrep", "ps", "revert"} => i <= Len(VMs)
    BY <1>3 DEF Turns
  <1> QED
    BY <1>1, <1>2, <1>3, <1>4, OldFinite

LEMMA StepsLeftIs ==
  LET results == Cardinality(Dirs) + 2
      vms == 3 * Len(VMs) + results
  IN /\ pc = "disk" => StepsLeft = Len(Services) + vms + 1
     /\ pc = "services" => StepsLeft = Len(Services) - i + 1 + vms
     /\ pc = "pgrep" => StepsLeft = 3 * (Len(VMs) - i) + 3 + results
     /\ pc = "ps" => StepsLeft = 3 * (Len(VMs) - i) + 2 + results
     /\ pc = "revert" => StepsLeft = 3 * (Len(VMs) - i) + 1 + results
     /\ pc = "retention" => StepsLeft = results
     /\ pc = "prune" => StepsLeft = Cardinality(old) + 1
     /\ pc = "report" => StepsLeft = 1
     /\ pc = "idle" => StepsLeft = 0
  BY DEF StepsLeft

LEMMA StepsLeftType == TypeOK => StepsLeft \in Nat
  <1> SUFFICES ASSUME TypeOK PROVE StepsLeft \in Nat
    OBVIOUS
  <1> DEFINE S == Len(Services)
             L == Len(VMs)
             D == Cardinality(Dirs)
             O == Cardinality(old)
  <1>1. /\ S \in Nat /\ L \in Nat /\ D \in Nat /\ O \in Nat /\ i \in Nat
        /\ pc = "services" => i <= S
        /\ pc \in {"pgrep", "ps", "revert"} => i <= L
    BY LoopTypes
  <1>2. /\ pc = "disk" => StepsLeft = S + (3 * L + (D + 2)) + 1
        /\ pc = "services" => StepsLeft = S - i + 1 + (3 * L + (D + 2))
        /\ pc = "pgrep" => StepsLeft = 3 * (L - i) + 3 + (D + 2)
        /\ pc = "ps" => StepsLeft = 3 * (L - i) + 2 + (D + 2)
        /\ pc = "revert" => StepsLeft = 3 * (L - i) + 1 + (D + 2)
        /\ pc = "retention" => StepsLeft = D + 2
        /\ pc = "prune" => StepsLeft = O + 1
        /\ pc = "report" => StepsLeft = 1
        /\ pc = "idle" => StepsLeft = 0
    BY StepsLeftIs
  <1>3. pc \in {"idle", "disk", "services", "pgrep", "ps", "revert", "retention",
                "prune", "report"}
    BY DEF TypeOK
  <1> HIDE DEF S, L, D, O
  <1> QED
    BY <1>1, <1>2, <1>3

StepsLeftOK == StepsLeft \in Nat

LEMMA StepsLeftTypeNext == TypeOK' => StepsLeft' \in Nat
  <1>1. TypeOK => StepsLeftOK
    BY StepsLeftType DEF StepsLeftOK
  <1>2. TypeOK' => StepsLeftOK'
    BY <1>1, PTL
  <1> QED
    BY <1>2 DEF StepsLeftOK

\* The end of a VM's turn.
LEMMA TurnEnds ==
  ASSUME TypeOK, pc \in {"pgrep", "ps", "revert"}, NEW a,
         NextVM(a) \/ Aborts(a)
  PROVE  StepsLeft' <= 3 * (Len(VMs) - i) + Cardinality(Dirs) + 2
  <1> DEFINE D == Cardinality(Dirs)
             L == Len(VMs)
  <1>a. D \in Nat /\ L \in Nat /\ i \in Nat /\ i <= L
    BY LoopTypes
  <1>1. CASE pc' = "pgrep" /\ i' = i + 1
    <2>1. StepsLeft' = 3 * (L - (i + 1)) + 3 + (D + 2)
      BY <1>1 DEF StepsLeft
    <2> HIDE DEF D, L
    <2>2. StepsLeft' <= 3 * (L - i) + D + 2
      BY <1>a, <2>1
    <2> QED
      BY <2>2 DEF D, L
  <1>2. CASE pc' = "retention" /\ i = L
    <2>1. StepsLeft' = D + 2
      BY <1>2 DEF StepsLeft
    <2> HIDE DEF D, L
    <2>2. StepsLeft' <= 3 * (L - i) + D + 2
      BY <1>a, <1>2, <2>1
    <2> QED
      BY <2>2 DEF D, L
  <1>3. CASE pc' = "idle"
    <2>1. StepsLeft' = 0
      BY <1>3 DEF StepsLeft
    <2> HIDE DEF D, L
    <2>2. StepsLeft' <= 3 * (L - i) + D + 2
      BY <1>a, <2>1
    <2> QED
      BY <2>2 DEF D, L
  <1> QED
    BY <1>1, <1>2, <1>3 DEF NextVM, Aborts, Ends

\* A step within a VM's turn, from pgrep to ps to revert.
LEMMA WithinTurn ==
  ASSUME TypeOK, i' = i,
         \/ pc = "pgrep" /\ pc' = "ps"
         \/ pc = "ps" /\ pc' = "revert"
  PROVE  StepsLeft' < StepsLeft
  <1> DEFINE D == Cardinality(Dirs)
             L == Len(VMs)
  <1>1. D \in Nat /\ L \in Nat /\ i \in Nat
    BY LoopTypes
  <1>2. CASE pc = "pgrep" /\ pc' = "ps"
    <2>1. StepsLeft = 3 * (L - i) + 3 + (D + 2)
      BY <1>2 DEF StepsLeft
    <2>2. StepsLeft' = 3 * (L - i) + 2 + (D + 2)
      BY <1>2 DEF StepsLeft
    <2> HIDE DEF D, L
    <2> QED
      BY <1>1, <2>1, <2>2
  <1>3. CASE pc = "ps" /\ pc' = "revert"
    <2>1. StepsLeft = 3 * (L - i) + 2 + (D + 2)
      BY <1>3 DEF StepsLeft
    <2>2. StepsLeft' = 3 * (L - i) + 1 + (D + 2)
      BY <1>3 DEF StepsLeft
    <2> HIDE DEF D, L
    <2> QED
      BY <1>1, <2>1, <2>2
  <1> QED
    BY <1>2, <1>3

LEMMA TurnAdvances ==
  ASSUME TypeOK, Pgrep \/ Ps \/ Revert
  PROVE  StepsLeft' < StepsLeft
  <1>1. pc \in {"pgrep", "ps", "revert"}
    BY DEF Pgrep, Ps, Revert
  <1>2. CASE \E a : NextVM(a) \/ Aborts(a)
    <2> DEFINE R == 3 * (Len(VMs) - i) + Cardinality(Dirs) + 2
    <2>1. R \in Nat
      BY <1>1, LoopTypes
    <2>2. StepsLeft' <= R
      BY <1>1, <1>2, TurnEnds
    <2>3. StepsLeft \in {R + 1, R + 2, R + 3}
      <3> DEFINE L == Len(VMs)
                 D == Cardinality(Dirs)
      <3>1. L \in Nat /\ D \in Nat /\ i \in Nat
        BY LoopTypes
      <3>2. /\ pc = "pgrep" => StepsLeft = 3 * (L - i) + 3 + (D + 2)
            /\ pc = "ps" => StepsLeft = 3 * (L - i) + 2 + (D + 2)
            /\ pc = "revert" => StepsLeft = 3 * (L - i) + 1 + (D + 2)
        BY StepsLeftIs
      <3>3. R = 3 * (L - i) + D + 2
        OBVIOUS
      <3> HIDE DEF L, D, R
      <3> QED
        BY <1>1, <3>1, <3>2, <3>3
    <2>4. StepsLeft' \in Nat
      BY NextType, StepsLeftTypeNext DEF Next, ScriptStep
    <2> HIDE DEF R
    <2> QED
      BY <2>1, <2>2, <2>3, <2>4
  <1>3. CASE Ends("aborted")
    <2>1. StepsLeft' = 0
      BY <1>3 DEF Ends, StepsLeft
    <2>2. StepsLeft \in Nat /\ StepsLeft # 0
      BY <1>1, LoopTypes, StepsLeftIs, StepsLeftType
    <2> QED
      BY <2>1, <2>2
  <1> QED
    <2>1. CASE Pgrep
      <3>1. CASE pc = "pgrep" /\ pc' = "ps" /\ i' = i
        BY <3>1, WithinTurn
      <3>2. CASE NextVM(any) \/ Aborts(any)
        BY <1>2, <3>2
      <3> QED
        BY <2>1, <3>1, <3>2 DEF Pgrep
    <2>2. CASE Ps
      BY <1>2, <1>3, <2>2, WithinTurn DEF Ps, Aborts
    <2>3. CASE Revert
      BY <1>2, <2>3 DEF Revert
    <2> QED
      BY <2>1, <2>2, <2>3

LEMMA ScriptAdvances ==
  ASSUME TypeOK, ScriptStep
  PROVE  StepsLeft' < StepsLeft
  <1> USE LoopTypes DEF StepsLeft
  <1>1. CASE CheckDisk
    BY <1>1 DEF CheckDisk
  <1>2. CASE CheckService
    <2> DEFINE S == Len(Services)
               L == Len(VMs)
               D == Cardinality(Dirs)
    <2>1. S \in Nat /\ L \in Nat /\ D \in Nat /\ i \in Nat
      BY LoopTypes
    <2>2. StepsLeft = S - i + 1 + (3 * L + (D + 2)) /\ i <= S
      BY <1>2, LoopTypes, StepsLeftIs DEF CheckService
    <2>3. CASE i = S
      <3>1. StepsLeft' = 3 * (L - 1) + 3 + (D + 2)
        BY <1>2, <2>3 DEF CheckService, NextService
      <3> HIDE DEF S, L, D
      <3> QED
        BY <2>1, <2>2, <2>3, <3>1
    <2>4. CASE i # S
      <3>1. StepsLeft' = S - (i + 1) + 1 + (3 * L + (D + 2))
        BY <1>2, <2>4 DEF CheckService, NextService
      <3> HIDE DEF S, L, D
      <3> QED
        BY <2>1, <2>2, <3>1
    <2> QED
      BY <2>3, <2>4
  <1>3. CASE Pgrep \/ Ps \/ Revert
    BY <1>3, TurnAdvances
  <1>4. CASE CheckRetention
    <2>1. old' \in SUBSET Dirs
      BY <1>4 DEF CheckRetention
    <2>2. Cardinality(old') \in Nat /\ Cardinality(old') <= Cardinality(Dirs)
      BY <2>1, OldFinite
    <2> QED
      BY <1>4, <2>2 DEF CheckRetention
  <1>5. CASE Prune
    <2>1. PICK d \in old : old' = old \ {d}
      BY <1>5 DEF Prune
    <2>2. Cardinality(old') = Cardinality(old) - 1
      BY <2>1, OldFinite DEF TypeOK
    <2>3. pc = "prune" /\ pc' \in {"report", "prune"}
      BY <1>5 DEF Prune
    <2>4. Cardinality(old) \in Nat /\ Cardinality(old) # 0
      BY <2>1, OldFinite, FS_EmptySet DEF TypeOK
    <2> QED
      BY <2>2, <2>3, <2>4
  <1>6. CASE Report
    BY <1>6 DEF Report, Ends
  <1> QED
    BY <1>1, <1>2, <1>3, <1>4, <1>5, <1>6 DEF ScriptStep

(* Every step of the script uses up a turn of a loop, whatever CAPE does    *)
(* meanwhile, for any number of services, VMs and directories.              *)
THEOREM Bounded == Spec => RunIsBounded
  <1>1. TypeOK /\ [Next]_vars
          => [/\ ScriptStep => StepsLeft' < StepsLeft
              /\ StepsLeft' > StepsLeft => RunChecks]_vars
    <2> SUFFICES ASSUME TypeOK, [Next]_vars
                 PROVE /\ ScriptStep => StepsLeft' < StepsLeft
                       /\ StepsLeft' > StepsLeft => RunChecks
      OBVIOUS
    <2>1. StepsLeft \in Nat /\ StepsLeft' \in Nat
      BY NextType, StepsLeftType, StepsLeftTypeNext
    <2>2. CASE WorldStep \/ UNCHANGED vars
      <3>1. UNCHANGED script
        BY <2>2 DEF WorldStep, AnalysisStarts, AnalysisEnds, VMAges, DirAges,
                    ServiceDies, vars
      <3>2. StepsLeft' = StepsLeft
        BY <3>1 DEF script, StepsLeft
      <3>3. ~(StepsLeft' > StepsLeft)
        BY <2>1, <3>2
      <3> QED
        BY <3>3, ScriptAdvances
    <2> QED
      BY <2>1, <2>2, ScriptAdvances DEF Next
  <1> QED
    BY <1>1, TypeCorrect, PTL DEF Spec, RunIsBounded
=============================================================================
