------------------------------ MODULE Watchdog ------------------------------
(***************************************************************************)
(* watchdog.sh: check (what the timer runs) and reap, passing over disk,   *)
(* services, analysis VMs and old results while CAPE goes on working.      *)
(*                                                                         *)
(* The script runs under `set -Eeuo pipefail`, so a command that returns   *)
(* non-zero outside a condition ends it (Abort).  Ages are classes: a VM   *)
(* is stuck from WATCHDOG_STUCK_MIN on, a directory old from               *)
(* WATCHDOG_RETENTION_DAYS on.                                             *)
(***************************************************************************)
EXTENDS Naturals, Sequences, FiniteSets, Functions

CONSTANTS
  Services,    \* sequence of the units the script looks at, all installed
  VMs,         \* sequence of the names in VM_LIST
  Dirs,        \* the directories analyses/ can hold (a bound)
  DiskLimit,   \* directories at which the disk reaches WATCHDOG_DISK_PCT
  NoDir        \* not a directory

Units == Range(Services)
Guests == Range(VMs)

ASSUME WatchdogAssumption ==
  /\ Services \in Seq(Units) /\ Services # <<>>
  /\ VMs \in Seq(Guests) /\ VMs # <<>>
  /\ \A i, j \in DOMAIN VMs : VMs[i] = VMs[j] => i = j
  /\ NoDir \notin Dirs /\ IsFiniteSet(Dirs) /\ DiskLimit \in Nat

VARIABLES
  svc,     \* systemctl is-active of each unit
  vm,      \* the qemu process of each VM: off, or by its age
  task,    \* the directory of the analysis CAPE runs on each VM
  dir,     \* the directories: absent, or by their age
  pc,      \* the next command of the script
  opt,     \* reap or check; is retention enabled?
  i,       \* index of the loop over SERVICES or VM_LIST
  any,     \* check_stuck_vms: was a VM seen running?
  old,     \* check_retention: the directories found
  issues,  \* ISSUES
  seen,    \* history: the parts a check has looked at and found unhealthy
  rc       \* what the last run reported

world == <<svc, vm, task, dir>>
script == <<pc, opt, i, any, old, issues, seen, rc>>
vars == <<world, script>>

Parts == {"disk", "service", "vm", "retention"}

\* The length of the loop a step belongs to.
Turns(p) == IF p = "services" THEN Len(Services)
            ELSE IF p \in {"pgrep", "ps", "revert"} THEN Len(VMs) ELSE 1

TypeOK ==
  /\ svc \in [Units -> {"active", "down"}]
  /\ vm \in [Guests -> {"off", "young", "stuck"}]
  /\ task \in [Guests -> Dirs \cup {NoDir}]
  /\ dir \in [Dirs -> {"absent", "recent", "old"}]
  /\ pc \in {"idle", "disk", "services", "pgrep", "ps", "revert", "retention",
             "prune", "report"}
  /\ opt \in [reap : BOOLEAN, retention : BOOLEAN]
  /\ i \in 1..Turns(pc)
  /\ any \in BOOLEAN /\ old \subseteq Dirs
  /\ issues \in Nat
  /\ seen \subseteq Parts
  /\ rc \in {"none", "healthy", "issues", "aborted"}

Init ==
  /\ svc = [u \in Units |-> "active"] /\ vm = [v \in Guests |-> "off"]
  /\ task = [v \in Guests |-> NoDir] /\ dir = [d \in Dirs |-> "absent"]
  /\ pc = "idle" /\ opt = [reap |-> FALSE, retention |-> TRUE]
  /\ i = 1 /\ any = FALSE /\ old = {} /\ issues = 0 /\ seen = {}
  /\ rc = "none"

-----------------------------------------------------------------------------
(* The script.                                                             *)

Found(part) == issues' = issues + 1 /\ seen' = seen \cup {part}
Fine == UNCHANGED <<issues, seen>>
Ends(code) == /\ pc' = "idle" /\ rc' = code /\ i' = 1 /\ any' = FALSE
              /\ old' = {} /\ issues' = 0 /\ seen' = seen

\* check and reap; without --yes reap asks before it gets here.
RunChecks ==
  /\ pc = "idle" /\ pc' = "disk"
  /\ opt' \in [reap : BOOLEAN, retention : BOOLEAN]
  /\ issues' = 0 /\ seen' = {} /\ rc' = "none"
  /\ UNCHANGED <<world, i, any, old>>

\* Mutation: a full disk is only warned about.
CheckDisk_NoIssue ==
  /\ pc = "disk" /\ pc' = "services" /\ i' = 1
  /\ seen' = IF Cardinality({d \in Dirs : dir[d] # "absent"}) >= DiskLimit
             THEN seen \cup {"disk"} ELSE seen
  /\ UNCHANGED <<world, opt, any, old, issues, rc>>

CheckDisk ==
  /\ pc = "disk" /\ pc' = "services" /\ i' = 1
  /\ IF Cardinality({d \in Dirs : dir[d] # "absent"}) >= DiskLimit
     THEN Found("disk") ELSE Fine
  /\ UNCHANGED <<world, opt, any, old, rc>>

\* Mutation: the index is not reset between the two loops.
NextService_NoReset ==
  i' = i + 1 /\ pc' = IF i = Len(Services) THEN "pgrep" ELSE pc

NextService ==
  IF i = Len(Services) THEN pc' = "pgrep" /\ i' = 1 ELSE pc' = pc /\ i' = i + 1

\* One turn of check_services.  Under pipefail `list-unit-files | grep -q`
\* also fails when grep exits first and systemctl is killed by SIGPIPE: the
\* unit is then taken for one that is not installed.
CheckService ==
  /\ pc = "services" /\ NextService
  /\ LET s == Services[i] IN
     \/ /\ seen' = IF svc[s] = "down" THEN seen \cup {"service"} ELSE seen
        /\ UNCHANGED <<svc, issues>>
     \/ svc[s] = "active" /\ Fine /\ UNCHANGED svc
     \/ /\ svc[s] = "down" /\ Found("service")
        /\ \/ opt.reap /\ svc' = [svc EXCEPT ![s] = "active"]
           \/ UNCHANGED svc          \* not reap, or the restart failed
  /\ UNCHANGED <<vm, task, dir, opt, any, old, rc>>

\* The end of a turn of check_stuck_vms.  After the last one
\* `[ "$any" = "0" ] && ok` is the function's status: non-zero, and the end of
\* the script, once a VM was running.
NextVM(a) ==
  \/ /\ i < Len(VMs) /\ pc' = "pgrep" /\ i' = i + 1 /\ any' = a
     /\ UNCHANGED <<old, rc>>
  \/ /\ i = Len(VMs) /\ ~a /\ pc' = "retention" /\ i' = 1 /\ any' = FALSE
     /\ UNCHANGED <<old, rc>>
Aborts(a) == i = Len(VMs) /\ a /\ Ends("aborted")

Pgrep ==
  /\ pc = "pgrep"
  /\ \/ vm[VMs[i]] # "off" /\ pc' = "ps" /\ Fine /\ UNCHANGED <<i, any, old, rc>>
     \/ vm[VMs[i]] = "off" /\ NextVM(any) /\ Fine
     \/ vm[VMs[i]] = "off" /\ Aborts(any)
  /\ UNCHANGED <<world, opt>>

\* Mutation: a VM that is not stuck is looked at until it stops.
Ps_Waits ==
  /\ pc = "ps"
  /\ \/ vm[VMs[i]] = "off" /\ Ends("aborted")
     \/ /\ vm[VMs[i]] = "young" /\ pc' = "pgrep" /\ Fine
        /\ UNCHANGED <<i, any, old, rc>>
     \/ /\ vm[VMs[i]] = "stuck" /\ Found("vm") /\ pc' = "revert"
        /\ UNCHANGED <<i, any, old, rc>>
  /\ UNCHANGED <<world, opt>>

\* ps on the pid pgrep gave: it fails when the VM has stopped since, and the
\* assignment from the failed pipeline ends the script.
Ps ==
  /\ pc = "ps"
  /\ \/ vm[VMs[i]] = "off" /\ Ends("aborted")
     \/ vm[VMs[i]] = "young" /\ NextVM(TRUE) /\ Fine
     \/ vm[VMs[i]] = "young" /\ Aborts(TRUE)
     \/ /\ vm[VMs[i]] = "stuck" /\ Found("vm") /\ pc' = "revert"
        /\ UNCHANGED <<i, any, old, rc>>
  /\ UNCHANGED <<world, opt>>

\* Mutation: check reverts as well.
Revert_Always ==
  /\ pc = "revert"
  /\ vm' = [vm EXCEPT ![VMs[i]] = "young"]
  /\ \/ NextVM(TRUE) /\ Fine
     \/ Aborts(TRUE)
  /\ UNCHANGED <<svc, task, dir, opt>>

\* virsh snapshot-revert: the VM runs from its snapshot again, in a new qemu
\* process or in the old one; a failure is warned about.
Revert ==
  /\ pc = "revert"
  /\ \/ opt.reap /\ \E age \in {"young", "stuck"} : vm' = [vm EXCEPT ![VMs[i]] = age]
     \/ UNCHANGED vm
  /\ \/ NextVM(TRUE) /\ Fine
     \/ Aborts(TRUE)
  /\ UNCHANGED <<svc, task, dir, opt>>

\* Mutation: find without -mtime.
CheckRetention_All ==
  /\ pc = "retention"
  /\ old' = {d \in Dirs : dir[d] # "absent"}
  /\ IF old' = {} THEN pc' = "report" /\ Fine
     ELSE pc' = (IF opt.reap THEN "prune" ELSE "report") /\ Found("retention")
  /\ UNCHANGED <<world, opt, i, any, rc>>

CheckRetention ==
  /\ pc = "retention"
  /\ old' = IF opt.retention THEN {d \in Dirs : dir[d] = "old"} ELSE {}
  /\ IF old' = {} THEN pc' = "report" /\ Fine
     ELSE pc' = (IF opt.reap THEN "prune" ELSE "report") /\ Found("retention")
  /\ UNCHANGED <<world, opt, i, any, rc>>

\* One turn of the rm loop.
Prune ==
  /\ pc = "prune"
  /\ \E d \in old :
       /\ \/ dir' = [dir EXCEPT ![d] = "absent"]
          \/ UNCHANGED dir
       /\ old' = old \ {d}
       /\ pc' = IF old' = {} THEN "report" ELSE "prune"
  /\ UNCHANGED <<svc, vm, task, opt, i, any, issues, seen, rc>>

Report ==
  /\ pc = "report" /\ Ends(IF issues = 0 THEN "healthy" ELSE "issues")
  /\ UNCHANGED <<world, opt>>

ScriptStep == \/ CheckDisk \/ CheckService \/ Pgrep \/ Ps \/ Revert
              \/ CheckRetention \/ Prune \/ Report

-----------------------------------------------------------------------------
(* CAPE, systemd and time.                                                 *)

\* The scheduler takes a VM that has no task, reverts and starts it.
AnalysisStarts(v, d) ==
  /\ task[v] = NoDir /\ dir[d] = "absent"
  /\ vm' = [vm EXCEPT ![v] = "young"]
  /\ task' = [task EXCEPT ![v] = d] /\ dir' = [dir EXCEPT ![d] = "recent"]
  /\ UNCHANGED <<svc, script>>

AnalysisEnds(v) ==
  /\ task[v] # NoDir
  /\ vm' = [vm EXCEPT ![v] = "off"] /\ task' = [task EXCEPT ![v] = NoDir]
  /\ UNCHANGED <<svc, dir, script>>

VMAges(v) == /\ vm[v] = "young" /\ vm' = [vm EXCEPT ![v] = "stuck"]
             /\ UNCHANGED <<svc, task, dir, script>>

\* Days pass; a running analysis writes into its directory.
DirAges(d) == /\ dir[d] = "recent" /\ \A v \in Guests : task[v] # d
              /\ dir' = [dir EXCEPT ![d] = "old"]
              /\ UNCHANGED <<svc, vm, task, script>>

ServiceDies(s) == /\ svc[s] = "active" /\ svc' = [svc EXCEPT ![s] = "down"]
                  /\ UNCHANGED <<vm, task, dir, script>>

WorldStep ==
  \/ \E v \in Guests, d \in Dirs : AnalysisStarts(v, d)
  \/ \E v \in Guests : AnalysisEnds(v) \/ VMAges(v)
  \/ \E d \in Dirs : DirAges(d)
  \/ \E s \in Units : ServiceDies(s)

Next == RunChecks \/ ScriptStep \/ WorldStep

Spec == Init /\ [][Next]_vars

\* The script is one process whose commands return.
FairSpec == Spec /\ WF_vars(ScriptStep)

-----------------------------------------------------------------------------
(* Properties.                                                             *)

\* The timer's `check` is read-only (watchdog.sh:8): whatever it finds, its
\* steps leave services, VMs and results alone.
CheckIsReadOnly == [][ScriptStep /\ ~opt.reap => UNCHANGED world]_vars

\* Results are pruned only when they are past retention, and never those of
\* an analysis that is running, although CAPE goes on between find and rm.
PruneSparesAnalyses ==
  [][\A d \in Dirs : dir[d] # "absent" /\ dir'[d] = "absent"
       => dir[d] = "old" /\ \A v \in Guests : task[v] # d]_vars

\* "healthy" is reported only when the disk, the VMs and the results were
\* healthy at the moment each was looked at (ISSUES is reset once and counted
\* by four functions).  Services are left out: CheckService may take one that is
\* down for one that is not installed.
HealthyIsHonest == rc = "healthy" => seen \subseteq {"service"}

\* Every run gets to an end.
WatchdogEnds == (pc # "idle") ~> (pc = "idle")

\* How many steps of its own a run has left at most: a VM takes three, a
\* directory and a service one.
StepsLeft ==
  LET results == Cardinality(Dirs) + 2
      vms == 3 * Len(VMs) + results
  IN CASE pc = "disk"      -> Len(Services) + vms + 1
       [] pc = "services"  -> Len(Services) - i + 1 + vms
       [] pc = "pgrep"     -> 3 * (Len(VMs) - i) + 3 + results
       [] pc = "ps"        -> 3 * (Len(VMs) - i) + 2 + results
       [] pc = "revert"    -> 3 * (Len(VMs) - i) + 1 + results
       [] pc = "retention" -> results
       [] pc = "prune"     -> Cardinality(old) + 1
       [] pc = "report"    -> 1
       [] OTHER            -> 0

\* The safety half of WatchdogEnds: every step of the script uses up a turn of
\* one of its loops, and nothing CAPE does meanwhile (analyses that start, VMs
\* and directories that age) makes a run longer.
RunIsBounded ==
  [][/\ ScriptStep => StepsLeft' < StepsLeft
     /\ StepsLeft' > StepsLeft => RunChecks]_vars

\* watchdog.sh:5-6 and README.md:27: the watchdog reports on all it looks
\* after, VMs and retention both.
EveryRunReports == rc # "aborted"
-----------------------------------------------------------------------------
(* The inductive invariant behind the theorems of Watchdog_proofs.         *)

\* A directory past retention is no running analysis', and what find listed
\* stays past retention until it is removed.
OldIsDone ==
  /\ \A d \in Dirs : dir[d] = "old" => \A v \in Guests : task[v] # d
  /\ \A d \in old : dir[d] = "old"

\* ISSUES counts what was found, from its reset to the report.
IssuesCount ==
  pc # "idle" => rc = "none" /\ (issues = 0 => seen \subseteq {"service"})

PrunesInReap == pc = "prune" => opt.reap

IInv == TypeOK /\ OldIsDone /\ IssuesCount /\ PrunesInReap /\ HealthyIsHonest
=============================================================================
