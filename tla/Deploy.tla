-------------------------------- MODULE Deploy --------------------------------
(***************************************************************************)
(* cape-deploy.sh: the stages that turn a host into a CAPE sandbox, those  *)
(* named on the command line or all in order, run again and again on the   *)
(* same host, killed, and followed by reboots, while CAPE analyses on the  *)
(* guests it has.                                                          *)
(*                                                                         *)
(* The script runs under `set -Eeuo pipefail`.  A stage that returns       *)
(* non-zero ends it, unless `all` calls the stage as `stage || warn`       *)
(* (Guarded); die ends it in every case.                                   *)
(*                                                                         *)
(* Abstractions: what capevm.py does to one guest is GuestBuild's subject, *)
(* here a guest is absent, broken (a domain without a usable snapshot) or  *)
(* ready; the rules of the table are NetIso's, tls is TlsStage's.          *)
(***************************************************************************)
EXTENDS Naturals, FiniteSets, Sequences

CONSTANTS
  VMs,       \* the guests of VM_LIST
  NoVM,      \* not a guest
  Invocations, \* the command lines the operator may give: stages, or "all"
  Kernels,   \* kernels the host boots: "old", or "new" (6.19 and later)
  IsoMode,   \* ISO_MODE
  MayFail    \* what may fail

Stages == {"host", "cape", "deps", "update-policy", "community", "dmi",
           "buildvm", "register", "netiso", "services", "verify", "smoketest"}
\* files: a script beside cape-deploy.sh, or the ISO, is missing; cuckoo: so is
\* cuckoo.conf; section: it has no line [cuckoo].
Failures == {"preflight", "host", "net", "cape2", "purge", "key", "mongo",
             "hold", "community", "dmi", "build", "nft", "systemctl",
             "smoketest", "files", "nftables", "cuckoo", "section"}

ASSUME DeployAssumption ==
  /\ IsFiniteSet(VMs) /\ NoVM \notin VMs
  /\ Invocations \subseteq Seq(Stages \cup {"all"}) \ {<<>>}
  /\ Kernels \subseteq {"old", "new"}
  /\ IsoMode \in {"isolated", "simulated", "gateway"}
  /\ MayFail \subseteq Failures

VARIABLES
  have,    \* what is installed: the checkout, CAPE, the bridge
  kernel,  \* the running kernel
  mongo,   \* the installed MongoDB, and whether apt holds it
  guest,   \* each guest of VM_LIST
  conf,    \* kvm.conf's machines, and cuckoo.conf's machinery lines
  table,   \* is the sandbox_iso table loaded?
  svc,     \* the CAPE services; known: the machines CAPE read when it started
  task,    \* the guests an analysis is running on
  pc,      \* the stage, or the step of a stage, that is next
  cmd,     \* the stage of the command line in hand, or all
  rest,    \* the stages of the command line that are left
  force,   \* FORCE in the environment
  todo,    \* stage_buildvm: entries of VM_LIST left
  cur,     \* stage_buildvm: the guest capevm.py works on
  warned,  \* stages of cmd that said that something failed
  rc       \* how the last run of the script ended

site == <<have, kernel, mongo, guest, conf, table, svc, task>>
script == <<pc, cmd, rest, force, todo, cur, warned, rc>>
vars == <<site, script>>

Steps == Stages \cup {"idle", "preflight", "next", "mongo_install",
                      "mongo_hold", "building", "built", "machinery_drop",
                      "machinery_add"}

SiteOK ==
  /\ have \subseteq {"checkout", "cape", "net"}
  /\ kernel \in Kernels
  /\ mongo \in [major : {0, 7, 8}, held : BOOLEAN]
  /\ guest \in [VMs -> {"absent", "broken", "ready"}]
  /\ conf \in [machines : SUBSET VMs, machinery : Nat]
  /\ table \in BOOLEAN
  /\ svc \in [enabled : BOOLEAN, up : BOOLEAN, known : SUBSET VMs]
  /\ task \subseteq VMs

ScriptOK ==
  /\ pc \in Steps
  /\ cmd \in Stages \cup {"all", "none"}
  /\ rest \in Seq(Stages \cup {"all"})
  /\ force \in {"unset", "0", "1"}
  /\ todo \subseteq VMs
  /\ cur \in IF pc = "built" THEN VMs ELSE {NoVM}
  /\ warned \subseteq Stages
  /\ rc \in {"none", "ok", "aborted", "killed"}

TypeOK == SiteOK /\ ScriptOK

Init ==
  /\ have = {} /\ kernel \in Kernels /\ mongo = [major |-> 0, held |-> FALSE]
  /\ guest = [v \in VMs |-> "absent"]
  /\ conf = [machines |-> {}, machinery |-> 0]
  /\ table = FALSE /\ svc = [enabled |-> FALSE, up |-> FALSE, known |-> {}]
  /\ task = {}
  /\ pc = "idle" /\ cmd = "none" /\ rest = <<>> /\ force = "unset" /\ todo = {}
  /\ cur = NoVM /\ warned = {} /\ rc = "none"

-----------------------------------------------------------------------------
(* The driver.                                                             *)

Fails(s) == s \in MayFail

\* Mutation: the services come before the isolation.
After_ServicesFirst(s) ==
  CASE s = "preflight" -> "host"     [] s = "host" -> "cape"
    [] s = "cape" -> "deps"          [] s = "deps" -> "community"
    [] s = "community" -> "dmi"      [] s = "dmi" -> "buildvm"
    [] s = "buildvm" -> "register"   [] s = "register" -> "services"
    [] s = "services" -> "netiso"    [] s = "netiso" -> "verify"
    [] s = "verify" -> "smoketest"   [] OTHER -> "next"

\* The order of `all`; update-policy is not part of it.
After(s) ==
  CASE s = "preflight" -> "host"     [] s = "host" -> "cape"
    [] s = "cape" -> "deps"          [] s = "deps" -> "community"
    [] s = "community" -> "dmi"      [] s = "dmi" -> "buildvm"
    [] s = "buildvm" -> "register"   [] s = "register" -> "netiso"
    [] s = "netiso" -> "services"    [] s = "services" -> "verify"
    [] s = "verify" -> "smoketest"   [] OTHER -> "next"
Guarded == {"deps", "netiso", "services", "verify", "smoketest"}

Goto(s) == pc' = s /\ UNCHANGED <<cmd, rest, force, todo, cur, warned, rc>>
Ends(code) == /\ pc' = "idle" /\ rc' = code
              /\ rest' = <<>> /\ todo' = {} /\ cur' = NoVM
              /\ UNCHANGED <<cmd, force>>
\* The end of stage s, with or without a complaint.
Completes(s, complaints) ==
  /\ warned' = warned \cup complaints
  /\ pc' = IF cmd = "all" THEN After(s) ELSE "next"
  /\ UNCHANGED <<cmd, rest, force, todo, cur, rc>>
Done(s) == Completes(s, {})
Die == Ends("aborted") /\ UNCHANGED <<warned, site>>
\* A command in stage s fails or the stage returns 1: `set -e` ends the script,
\* and under `|| warn` the driver goes on.
ReturnsOne(s) == IF cmd = "all" /\ s \in Guarded THEN Completes(s, {s})
                 ELSE Ends("aborted") /\ UNCHANGED warned

\* main up to its loop over the stages.
Invoke ==
  /\ pc = "idle" /\ pc' = "preflight" /\ cmd' = "none"
  /\ rest' \in Invocations /\ force' \in {"unset", "0", "1"}
  /\ todo' = {} /\ cur' = NoVM /\ warned' = {} /\ rc' = "none"
  /\ UNCHANGED site

\* main's preflight, and the one of `all`.
Preflight ==
  /\ pc = "preflight"
  /\ \/ Goto(IF cmd = "all" THEN "host" ELSE "next") /\ UNCHANGED site
     \/ Fails("preflight") /\ Die

\* The loop, and run_stage; `all` sets FORCE to 1 when it is not set, and it
\* stays exported for the stages that follow.
NextStage ==
  /\ pc = "next" /\ UNCHANGED site
  /\ \/ rest = <<>> /\ Ends("ok") /\ UNCHANGED warned
     \/ /\ rest # <<>> /\ cmd' = Head(rest) /\ rest' = Tail(rest)
        /\ pc' = IF Head(rest) = "all" THEN "preflight" ELSE Head(rest)
        /\ force' = IF Head(rest) = "all" /\ force = "unset" THEN "1" ELSE force
        /\ warned' = {} /\ UNCHANGED <<todo, cur, rc>>

Forced == force = "1"

-----------------------------------------------------------------------------
(* The host and CAPE.                                                      *)

\* ensure_network
BridgeUp(up) == IF up THEN have \cup {"net"} ELSE have \ {"net"}

StageHost ==
  /\ pc = "host"
  /\ \/ /\ \E up \in BOOLEAN :
             /\ up \/ Fails("net")
             /\ have' = BridgeUp(up) \cup {"checkout"}
        /\ Done("host")
        /\ UNCHANGED <<kernel, mongo, guest, conf, table, svc, task>>
     \/ Fails("host") /\ Die

\* CAPE's own cape2.sh: its apt pulls MongoDB 8.0, unless apt holds MongoDB;
\* the configuration comes with CAPE's defaults and stays when it is there.
Pulled == IF mongo.held THEN mongo ELSE [mongo EXCEPT !.major = 8]
Configured == IF "cape" \in have THEN conf ELSE [conf EXCEPT !.machinery = 1]

StageCape ==
  /\ pc = "cape"
  /\ \/ "checkout" \notin have /\ Die
     \/ /\ "checkout" \in have
        /\ mongo' = Pulled /\ conf' = Configured /\ have' = have \cup {"cape"}
        /\ Done("cape")
        /\ UNCHANGED <<kernel, guest, table, svc, task>>
     \/ /\ "checkout" \in have /\ Fails("cape2")
        /\ mongo' \in {mongo, Pulled}
        /\ Ends("aborted")
        /\ UNCHANGED <<have, kernel, guest, conf, table, svc, task, warned>>

Want == IF kernel = "new" THEN 7 ELSE 8
\* MongoDB 8.0 crashes on the new kernels (SERVER-121912).
MongodActive(active) ==
  active => mongo.major # 0 /\ ~(mongo.major = 8 /\ kernel = "new")

\* stage_deps up to the decision of ensure_mongodb, and its purge.
StageDeps ==
  /\ pc = "deps"
  /\ \E active \in BOOLEAN :
       /\ MongodActive(active)
       /\ \/ mongo.major = Want /\ active /\ Done("deps") /\ UNCHANGED mongo
          \/ /\ mongo.major \in {0, Want} /\ ~(mongo.major = Want /\ active)
             /\ Goto("mongo_install") /\ UNCHANGED mongo
          \/ /\ mongo.major \notin {0, Want}
             /\ Goto("mongo_install")
             /\ \/ mongo' = [major |-> 0, held |-> FALSE]
                \/ Fails("purge") /\ mongo' = [mongo EXCEPT !.held = FALSE]
  /\ UNCHANGED <<have, kernel, guest, conf, table, svc, task>>

\* The key is fetched by a pipeline that may fail; apt installs after the hold
\* was lifted, keeps a newer major that is still there, and a failed install
\* is only warned about.
MongoInstall ==
  /\ pc = "mongo_install"
  /\ \/ Fails("key") /\ cmd # "all" /\ Die
     \/ /\ mongo' = [major |-> IF mongo.major > Want THEN mongo.major ELSE Want,
                     held |-> FALSE]
        /\ Goto("mongo_hold")
        /\ UNCHANGED <<have, kernel, guest, conf, table, svc, task>>
     \/ /\ Fails("mongo")
        /\ mongo' = [mongo EXCEPT !.held = FALSE]
        /\ Completes("deps", {"deps"})
        /\ UNCHANGED <<have, kernel, guest, conf, table, svc, task>>

\* Mutation: nobody looks whether mongod came up.
MongoHold_Unchecked ==
  /\ pc = "mongo_hold" /\ Done("deps")
  /\ mongo' = [mongo EXCEPT !.held = TRUE]
  /\ UNCHANGED <<have, kernel, guest, conf, table, svc, task>>

\* apt-mark hold, then start mongod and look.
MongoHold ==
  /\ pc = "mongo_hold"
  /\ \E active \in BOOLEAN :
       /\ MongodActive(active)
       /\ Completes("deps", IF active THEN {} ELSE {"deps"})
  /\ \/ mongo' = [mongo EXCEPT !.held = TRUE]
     \/ Fails("hold") /\ UNCHANGED mongo
  /\ UNCHANGED <<have, kernel, guest, conf, table, svc, task>>

\* Stages that change nothing of what is modelled here.
StageUpdatePolicy ==
  pc = "update-policy" /\ Done("update-policy") /\ UNCHANGED site

StageCommunity ==
  /\ pc = "community"
  /\ \/ "cape" \notin have /\ Die
     \/ "cape" \in have /\ Done("community") /\ UNCHANGED site
     \/ /\ "cape" \in have /\ Fails("community")
        /\ Completes("community", {"community"}) /\ UNCHANGED site

StageDmi == /\ pc = "dmi"
            /\ \/ Done("dmi") /\ UNCHANGED site
               \/ Fails("dmi") /\ Die

-----------------------------------------------------------------------------
(* buildvm: capevm.py build for each entry of VM_LIST.                     *)

StageBuildvm ==
  /\ pc = "buildvm"
  /\ \E up \in BOOLEAN :
       /\ up \/ Fails("net")
       /\ have' = BridgeUp(up)
       /\ \/ ~up /\ ReturnsOne("buildvm")
          \/ /\ up
             /\ "cape" \notin have \/ Fails("files")
             /\ Ends("aborted") /\ UNCHANGED warned
          \/ /\ up /\ "cape" \in have
             /\ pc' = "building" /\ todo' = VMs
             /\ UNCHANGED <<cmd, rest, force, cur, warned, rc>>
  /\ UNCHANGED <<kernel, mongo, guest, conf, table, svc, task>>

\* Mutation: an entry that was refused stays in the list.
BuildBegins_Retries ==
  /\ pc = "building" /\ todo # {}
  /\ \E v \in todo :
       /\ \/ /\ Fails("build") \/ (guest[v] # "absent" /\ ~Forced)
             /\ warned' = warned \cup {"buildvm"}
             /\ UNCHANGED <<guest, task, pc, todo, cur>>
          \/ /\ guest[v] = "absent" \/ Forced
             /\ guest' = [guest EXCEPT ![v] = "broken"] /\ task' = task \ {v}
             /\ pc' = "built" /\ cur' = v /\ todo' = todo \ {v}
             /\ UNCHANGED warned
  /\ UNCHANGED <<have, kernel, mongo, conf, table, svc, cmd, rest, force,
                 rc>>

\* Mutation: --force is passed whatever FORCE is.
BuildBegins_Forces ==
  /\ pc = "building" /\ todo # {}
  /\ \E v \in todo :
       /\ todo' = todo \ {v}
       /\ \/ /\ Fails("build") /\ warned' = warned \cup {"buildvm"}
             /\ UNCHANGED <<guest, task, pc, cur>>
          \/ /\ guest' = [guest EXCEPT ![v] = "broken"] /\ task' = task \ {v}
             /\ pc' = "built" /\ cur' = v /\ UNCHANGED warned
  /\ UNCHANGED <<have, kernel, mongo, conf, table, svc, cmd, rest, force,
                 rc>>

\* capevm.py refuses the guest (preflight, a domain that exists and no
\* --force), or tears down what there is and starts to build.  A teardown all
\* of whose calls fail leaves the guest as it was, powered off.
TornDown(v) == {"broken"} \cup IF Fails("build") THEN {guest[v]} ELSE {}

BuildBegins ==
  /\ pc = "building" /\ todo # {}
  /\ \E v \in todo :
       /\ todo' = todo \ {v}
       /\ \/ /\ Fails("build") \/ (guest[v] # "absent" /\ ~Forced)
             /\ warned' = warned \cup {"buildvm"}
             /\ UNCHANGED <<guest, task, pc, cur>>
          \/ /\ guest[v] = "absent" \/ Forced
             /\ \E g \in TornDown(v) : guest' = [guest EXCEPT ![v] = g]
             /\ task' = task \ {v}
             /\ pc' = "built" /\ cur' = v /\ UNCHANGED warned
  /\ UNCHANGED <<have, kernel, mongo, conf, table, svc, cmd, rest, force,
                 rc>>

\* Mutation: the status of the pipeline is tee's.
BuildReturns_Unseen ==
  /\ pc = "built" /\ pc' = "building" /\ cur' = NoVM
  /\ \E g \in {"ready", "broken"} : guest' = [guest EXCEPT ![cur] = g]
  /\ UNCHANGED <<have, kernel, mongo, conf, table, svc, task, cmd, rest, force,
                 todo, warned, rc>>

\* Mutation: the loop variable is left behind.
BuildReturns_KeepsCur ==
  /\ pc = "built" /\ pc' = "building"
  /\ guest' = [guest EXCEPT ![cur] = "ready"]
  /\ UNCHANGED <<have, kernel, mongo, conf, table, svc, task, cmd, rest, force,
                 todo, cur, warned, rc>>

\* virt-install refuses a domain that is still there.
BuildReturns ==
  /\ pc = "built" /\ pc' = "building" /\ cur' = NoVM
  /\ \/ /\ guest[cur] # "ready" /\ guest' = [guest EXCEPT ![cur] = "ready"]
        /\ UNCHANGED warned
     \/ /\ Fails("build") /\ warned' = warned \cup {"buildvm"}
        /\ \E g \in {"absent", "broken", guest[cur]} :
             guest' = [guest EXCEPT ![cur] = g]
  /\ UNCHANGED <<have, kernel, mongo, conf, table, svc, task, cmd, rest, force,
                 todo, rc>>

BuildvmDone == /\ pc = "building" /\ todo = {} /\ Done("buildvm")
               /\ UNCHANGED site

-----------------------------------------------------------------------------
(* register, netiso, services, verify, smoketest.                          *)

\* kvm.conf gets a section for every entry of VM_LIST; without a cuckoo.conf
\* that is all, with a warning.
StageRegister ==
  /\ pc = "register"
  /\ \/ "cape" \notin have /\ Die
     \/ /\ "cape" \in have
        /\ conf' = [conf EXCEPT !.machines = VMs]
        /\ Goto("machinery_drop")
        /\ UNCHANGED <<have, kernel, mongo, guest, table, svc, task>>
     \/ /\ "cape" \in have /\ Fails("cuckoo")
        /\ conf' = [machines |-> VMs, machinery |-> 0]
        /\ Completes("register", {"register"})
        /\ UNCHANGED <<have, kernel, mongo, guest, table, svc, task>>

\* Mutation: the old line is not deleted.
MachineryDrop_Skipped ==
  /\ pc = "machinery_drop" /\ Goto("machinery_add") /\ UNCHANGED site

\* The two sed runs on cuckoo.conf: delete every machinery line, add one under
\* [cuckoo].
MachineryDrop ==
  /\ pc = "machinery_drop" /\ Goto("machinery_add")
  /\ conf' = [conf EXCEPT !.machinery = 0]
  /\ UNCHANGED <<have, kernel, mongo, guest, table, svc, task>>
MachineryAdd ==
  /\ pc = "machinery_add" /\ Done("register")
  /\ \/ conf' = [conf EXCEPT !.machinery = @ + 1]
     \/ Fails("section") /\ UNCHANGED conf
  /\ UNCHANGED <<have, kernel, mongo, guest, table, svc, task>>

\* A failed apply is warned about here, and so is one that succeeds: netiso.sh
\* ends with a test that fails in the modes other than simulated.  Without nft
\* and when apt cannot install it, only `all` goes on.
StageNetiso ==
  /\ pc = "netiso"
  /\ \/ /\ table' = TRUE
        /\ Completes("netiso", IF IsoMode = "simulated" THEN {} ELSE {"netiso"})
     \/ Fails("nft") /\ UNCHANGED table /\ Completes("netiso", {"netiso"})
     \/ Fails("nftables") /\ UNCHANGED table /\ ReturnsOne("netiso")
     \/ Fails("files") /\ Die
  /\ UNCHANGED <<have, kernel, mongo, guest, conf, svc, task>>

\* enable, reset-failed, restart; CAPE reads kvm.conf when it starts, and its
\* restart ends the analyses that run.
StageServices ==
  /\ pc = "services"
  /\ \/ /\ "cape" \notin have /\ Completes("services", {"services"})
        /\ UNCHANGED <<svc, task>>
     \/ /\ "cape" \in have /\ Done("services")
        /\ svc' = [enabled |-> TRUE, up |-> TRUE, known |-> conf.machines]
        /\ task' = {}
     \/ /\ "cape" \in have /\ Fails("systemctl")
        /\ Completes("services", {"services"})
        /\ svc' = [enabled |-> TRUE, up |-> FALSE, known |-> {}]
        /\ task' = {}
  /\ UNCHANGED <<have, kernel, mongo, guest, conf, table>>

\* Read-only; verify counts what fails and returns 0.
Healthy == /\ "net" \in have /\ svc.up /\ table
           /\ \A v \in VMs : guest[v] = "ready"
StageVerify ==
  /\ pc = "verify"
  /\ Completes("verify", IF Healthy THEN {} ELSE {"verify"})
  /\ UNCHANGED site

StageSmoketest ==
  /\ pc = "smoketest"
  /\ \/ svc.up /\ Done("smoketest")
     \/ (~svc.up \/ Fails("smoketest")) /\ ReturnsOne("smoketest")
     \/ Fails("files") /\ Die
  /\ UNCHANGED site

-----------------------------------------------------------------------------
(* CAPE, the operator and the host.                                        *)

AnalysisStarts(v) ==
  /\ svc.up /\ v \in svc.known \ task /\ guest[v] = "ready"
  /\ task' = task \cup {v}
  /\ UNCHANGED <<have, kernel, mongo, guest, conf, table, svc, script>>

AnalysisEnds(v) ==
  /\ v \in task /\ task' = task \ {v}
  /\ UNCHANGED <<have, kernel, mongo, guest, conf, table, svc, script>>

Killed == pc # "idle" /\ Ends("killed") /\ UNCHANGED <<warned, site>>

\* nothing reloads the table; the enabled services start.
HostReboots ==
  /\ pc = "idle" /\ rc' = "none"
  /\ kernel' \in Kernels
  /\ table' = FALSE /\ task' = {}
  /\ svc' = [svc EXCEPT !.up = svc.enabled,
                        !.known = IF svc.enabled THEN conf.machines ELSE {}]
  /\ UNCHANGED <<have, mongo, guest, conf, pc, cmd, rest, force, todo, cur,
                 warned>>

ScriptStep ==
  \/ Preflight \/ NextStage \/ StageHost \/ StageCape
  \/ StageDeps \/ MongoInstall \/ MongoHold
  \/ StageUpdatePolicy \/ StageCommunity \/ StageDmi
  \/ StageBuildvm \/ BuildBegins \/ BuildReturns \/ BuildvmDone
  \/ StageRegister \/ MachineryDrop \/ MachineryAdd
  \/ StageNetiso \/ StageServices \/ StageVerify \/ StageSmoketest

WorldStep ==
  \/ \E v \in VMs : AnalysisStarts(v) \/ AnalysisEnds(v)
  \/ Killed \/ HostReboots

Next == Invoke \/ ScriptStep \/ WorldStep

Spec == Init /\ [][Next]_vars

\* A run of the script that is not killed goes on: its commands return.
FairSpec == Spec /\ WF_vars(ScriptStep)
-----------------------------------------------------------------------------
(* Properties.                                                             *)

\* "auto-clean a stale domain" is what a forced run may do; a run that is not
\* forced (FORCE=0, or no `all` before the stage) never costs CAPE a guest that is
\* ready, whatever fails or gets killed.
UnforcedKeepsVMs ==
  [][\A v \in VMs : guest[v] = "ready" /\ guest'[v] # "ready" => Forced]_vars

\* GuestLifecycle, which GuestBuild implements step by step, is what buildvm
\* makes of every guest of VM_LIST: a guest CAPE can use is given up only while
\* its entry is to come or in hand in a forced run, and made only while it is
\* in hand; no other stage, kill or reboot touches it.
Licence(v) ==
  IF ~(pc = "building" /\ v \in todo) /\ ~(pc = "built" /\ v = cur) THEN "nothing"
  ELSE IF Forced THEN "replace"
  ELSE IF guest[v] = "ready" THEN "nothing" ELSE "add"
Guest(v) == INSTANCE GuestLifecycle
  WITH Names <- {"clean"}, usable <- IF guest[v] = "ready" THEN {"clean"} ELSE {},
       licence <- Licence(v), asked <- "clean"
KeepsLifecycle ==
  /\ \A v \in VMs : Guest(v)!LInit
  /\ [][\A v \in VMs : [Guest(v)!LNext]_(Guest(v)!lvars)]_vars

\* ROADMAP.md:20: `all` isolates the bridge before it starts the services, also
\* when stages before it complain or the script goes on past them; where nft
\* is there and takes the ruleset (else DeployContained).
ServicesAfterIsolation ==
  pc = "services" /\ cmd = "all" /\ ~Fails("nft") /\ ~Fails("nftables") => table

\* One of these stages has come to its end, and nothing of the script since.
Finished(stages) == cmd \in stages /\ (pc = "next" \/ (pc = "idle" /\ rc = "ok"))

\* cuckoo.conf never has two machinery lines (its parser would throw, and
\* cape.service crash-loop), however often register is run or killed; a
\* register that got to its end without a complaint leaves one, if the file has
\* its section, and all of VM_LIST in kvm.conf.
MachineryOnce ==
  /\ conf.machinery <= 1
  /\ Finished({"all", "register"}) /\ "register" \notin warned =>
       /\ conf.machinery = 0 => Fails("section")
       /\ conf.machines = VMs

\* A run with deps that got to its end and did not complain of MongoDB leaves
\* the major that runs on this kernel, although the cape stage before it
\* pulled 8.0 and a purge may have failed.
MongoFitsKernel ==
  Finished({"all", "deps"}) /\ "deps" \notin warned => mongo.major = Want

\* buildvm goes on to the next guest when one fails; when it got to its end
\* without a complaint, every guest of VM_LIST is ready.
BuiltOrWarned ==
  Finished({"all", "buildvm"}) /\ "buildvm" \notin warned
    => \A v \in VMs : guest[v] = "ready"

\* Every run of the script gets to an end.
DeployEnds == (pc # "idle") ~> (pc = "idle")

\* How many steps of its own a run has left at most: two for a guest, and for
\* each command as many as `all` takes.
OfGuests == 2 * Cardinality(VMs)
BeforeBuild == {"preflight", "host", "cape", "deps", "mongo_install", "mongo_hold",
                "community", "dmi", "buildvm"}
GuestSteps == IF pc \in BeforeBuild THEN OfGuests
              ELSE IF pc \in {"building", "built"} THEN 2 * Cardinality(todo) ELSE 0
StageSteps ==
  CASE pc = "preflight" -> 19      [] pc = "update-policy" -> 2
    [] pc = "host" -> 18           [] pc = "cape" -> 17
    [] pc = "deps" -> 16           [] pc = "mongo_install" -> 15
    [] pc = "mongo_hold" -> 14     [] pc = "community" -> 13
    [] pc = "dmi" -> 12            [] pc = "buildvm" -> 11
    [] pc = "built" -> 10          [] pc = "building" -> 9
    [] pc = "register" -> 8        [] pc = "machinery_drop" -> 7
    [] pc = "machinery_add" -> 6   [] pc = "netiso" -> 5
    [] pc = "services" -> 4        [] pc = "verify" -> 3
    [] pc = "smoketest" -> 2       [] pc = "next" -> 1
    [] OTHER -> 0
OfCommand == GuestSteps + StageSteps
StepsLeft == Len(rest) * (OfGuests + 19) + OfCommand

\* The safety half of DeployEnds: a run passes every stage, and every guest of
\* VM_LIST, once, whatever fails on the way; analyses do not make it longer.
RunIsBounded ==
  [][/\ ScriptStep => StepsLeft' < StepsLeft
     /\ StepsLeft' > StepsLeft => Invoke]_vars

\* netiso.sh:5-8, cape-deploy.sh:760: what runs in a guest is contained.
AnalysesContained == task # {} => table

-----------------------------------------------------------------------------
(* The inductive invariant behind the theorems of Deploy_proofs.           *)

StageOf(p) == CASE p \in {"mongo_install", "mongo_hold"} -> "deps"
                [] p \in {"building", "built"} -> "buildvm"
                [] p \in {"machinery_drop", "machinery_add"} -> "register"
                [] OTHER -> p

\* A command other than all runs the one stage it names; update-policy is not
\* part of all.
StageOfCmd ==
  /\ pc \notin {"idle", "preflight", "next"} =>
       IF cmd = "all" THEN pc # "update-policy" ELSE StageOf(pc) = cmd
  /\ pc = "preflight" => cmd \in {"none", "all"}

\* The guest capevm.py works on was not there, or the run is forced; it is
\* not in the list any more.
BuildInHand == pc = "built" => cur \notin todo /\ (guest[cur] = "ready" => Forced)

AfterRegister == {"netiso", "services", "verify", "smoketest"}
Registered == /\ conf.machinery = 0 => Fails("section")
              /\ conf.machines = VMs

\* How far register has got, and that `all` goes on with all of it done.
RegisterProgress ==
  /\ pc \in {"machinery_drop", "machinery_add"} => conf.machines = VMs
  /\ pc = "machinery_add" => conf.machinery = 0
  /\ cmd = "all" /\ pc \in AfterRegister /\ "register" \notin warned => Registered

IInv == /\ TypeOK /\ StageOfCmd /\ BuildInHand /\ RegisterProgress
        /\ MachineryOnce /\ ServicesAfterIsolation

\* buildvm's loop: without a complaint so far, an entry is still to come, in
\* hand or ready.  `all` keeps that to its end, for nothing later touches the
\* guests.
AfterBuild == {"register", "machinery_drop", "machinery_add"} \cup AfterRegister
BuildvmProgress ==
  "buildvm" \notin warned =>
    /\ pc \in {"building", "built"} =>
         \A v \in VMs \ (todo \cup {cur}) : guest[v] = "ready"
    /\ cmd = "all" /\ pc \in AfterBuild => \A v \in VMs : guest[v] = "ready"

\* Past its install MongoDB is what the kernel wants, or the 8.0 a failed purge
\* left on a new one, which mongod does not survive.
AfterDeps == {"community", "dmi", "buildvm", "building", "built"} \cup AfterBuild
MongoProgress ==
  /\ pc = "mongo_hold" => mongo.major \in {Want, 8}
  /\ cmd = "all" /\ pc \in AfterDeps /\ "deps" \notin warned
       => mongo.major = Want
=============================================================================
