----------------------------- MODULE GuestBuild -----------------------------
(***************************************************************************)
(* capevm.py: one analysis guest on a libvirt host, and the invocations of *)
(* the builder (build, install, stealth, eject, wait, snapshot, destroy)   *)
(* an operator or cape-deploy.sh runs on it, one after another.            *)
(*                                                                         *)
(* What survives an invocation is the libvirt host: the domain, its stored *)
(* configuration, its qcow2 file and the snapshot metadata.  The builder   *)
(* itself is a program counter over subprocess calls; each call may fail   *)
(* (MayFail), the builder may be killed between two of them (Killed), and  *)
(* the guest runs on its own (the Guest... actions).                       *)
(*                                                                         *)
(* Abstraction: the CD-ROMs are ejected in one step.                       *)
(***************************************************************************)
EXTENDS Naturals, FiniteSets

CONSTANTS
  SnapNames,      \* values of --snapshot
  Clean,          \* the name "clean", which install() hard-codes
  Platforms,      \* values of --platform this guest is built with
  MayFail,        \* the subprocesses and checks that may fail
  AgentPolls,     \* connection attempts before wait_for_agent's deadline
  ShutdownPolls   \* domstate polls before shutdown_guest's deadline

Failures ==
  {"preflight", "dominfo", "snapdel", "destroy", "undefine", "unlink",
   "diskimage", "resize", "seed", "virtinstall", "domstate", "media",
   "dumpxml", "define", "start", "snapcreate"}

ASSUME GuestAssumption ==
  /\ Clean \in SnapNames
  /\ Platforms \subseteq {"windows", "linux"}
  /\ MayFail \subseteq Failures
  /\ AgentPolls \in Nat /\ ShutdownPolls \in Nat

VARIABLES
  platform,  \* cfg.platform of this guest name
  dom,       \* "absent", "off", "running", or "transient": running, undefined
  cfgd,      \* the domain XML libvirt stores
  live,      \* the domain XML the running qemu was started from
  disk,      \* the qcow2 at cfg.disk_path, with its internal snapshots
  snaps,     \* libvirt's snapshot metadata of the domain
  agent,     \* does agent.py accept connections?
  pc,        \* next step of the builder, "idle" between invocations
  args,      \* the command line of the current or last invocation
  polls,     \* polls left before the deadline of a waiting loop
  rc         \* how the last invocation ended

host == <<platform, dom, cfgd, live, disk, snaps, agent>>
tool == <<pc, args, polls, rc>>
vars == <<host, tool>>

Commands == {"build", "install", "stealth", "eject", "wait", "snapshot",
             "destroy"}
Args == [cmd : Commands, force : BOOLEAN, snapshot : SnapNames,
         realistic : BOOLEAN]
\* The flags a command does not read are left at their default.
CommandLines ==
  {a \in Args : /\ a.force => a.cmd \in {"build", "install"}
                /\ a.realistic => a.cmd \in {"build", "stealth"}}

Media == {"install", "seed"}
Hardware == {"plain", "topology", "dimm"}
DomainXML == [media : SUBSET Media, hardened : BOOLEAN, hw : Hardware]
\* What virt-install defines for the platform.
Installed(p) == [media |-> IF p = "windows" THEN Media ELSE {"seed"},
                 hardened |-> FALSE, hw |-> "plain"]
NoXML == [media |-> {}, hardened |-> FALSE, hw |-> "plain"]

\* data: nothing on the path, an empty qcow2, a copied cloud image, the image
\* resized, an operating system with the agent.  own: created by the current
\* invocation.  held: the internal snapshots inside the file.  stray: the guest
\* runs on a file that was unlinked under it.
Disk == [data : {"none", "blank", "copied", "image", "os"}, own : BOOLEAN,
         held : SUBSET SnapNames, stray : BOOLEAN]
NoDisk == [data |-> "none", own |-> FALSE, held |-> {}, stray |-> FALSE]

Snapshot == [name : SnapNames, xml : DomainXML, os : BOOLEAN, own : BOOLEAN]

Steps == {"idle", "preflight", "exists", "td_snapdel", "td_destroy",
          "td_undefine", "td_unlink", "disk", "resize", "seed", "virtinstall",
          "wait1", "shutdown", "stopping", "poweroff", "eject", "stealth",
          "start", "wait2", "snapshot", "de_destroy",
          "de_undefine", "de_unlink"}

TypeOK ==
  /\ platform \in Platforms
  /\ dom \in {"absent", "off", "running", "transient"}
  /\ cfgd \in DomainXML /\ live \in DomainXML
  /\ disk \in Disk
  /\ snaps \subseteq Snapshot
  /\ agent \in BOOLEAN
  /\ pc \in Steps
  /\ args \in Args
  /\ polls \in Nat
  /\ rc \in {"none", "ok", "died", "killed"}

Init ==
  /\ platform \in Platforms
  /\ dom = "absent" /\ cfgd = NoXML /\ live = NoXML
  /\ disk = NoDisk /\ snaps = {} /\ agent = FALSE
  /\ pc = "idle" /\ polls = 0 /\ rc = "none"
  /\ args = [cmd |-> "destroy", force |-> FALSE, snapshot |-> Clean,
             realistic |-> FALSE]

-----------------------------------------------------------------------------
(* Control of the builder.                                                 *)

Fails(s) == s \in MayFail
Goto(s) == pc' = s /\ polls' = 0 /\ UNCHANGED <<args, rc>>
Await(s, n) == pc' = s /\ polls' = n /\ UNCHANGED <<args, rc>>
Ends(code) == pc' = "idle" /\ polls' = 0 /\ rc' = code /\ UNCHANGED args
Die == Ends("died") /\ UNCHANGED host
\* The step that follows when only `build` goes on.
Continue(s) == IF args.cmd = "build" THEN Goto(s) ELSE Ends("ok")

\* virsh domstate says running, of a domain without a definition too.
Up == dom \in {"running", "transient"}

\* The guest stops being powered: qemu is gone, the agent with it, and of a
\* domain without a definition nothing is left.
PowerOff ==
  /\ dom' = CASE dom = "running" -> "off" [] dom = "transient" -> "absent"
              [] OTHER -> dom
  /\ live' = NoXML /\ agent' = FALSE
  /\ snaps' = IF dom = "transient" THEN {} ELSE snaps
  /\ disk' = [disk EXCEPT !.stray = FALSE]
  /\ UNCHANGED <<platform, cfgd>>

\* virsh destroy, whose result no caller looks at.
VirshDestroy == PowerOff \/ (Fails("destroy") /\ UNCHANGED host)

\* unlink() on cfg.disk_path: a qemu that has the file open keeps it.
Unlink == disk' = [NoDisk EXCEPT !.stray = Up /\ (disk.stray \/ disk.data # "none")]

\* main(): parse the command line and enter the command.
Invoke ==
  /\ pc = "idle"
  /\ args' \in CommandLines
  /\ pc' = CASE args'.cmd \in {"build", "install"} -> "preflight"
             [] args'.cmd = "wait"    -> "wait2"
             [] args'.cmd = "destroy" -> "de_destroy"
             [] OTHER                 -> args'.cmd
  /\ polls' = IF args'.cmd = "wait" THEN AgentPolls ELSE 0
  /\ rc' = "none"
  /\ disk' = [disk EXCEPT !.own = FALSE]
  /\ UNCHANGED <<platform, dom, cfgd, live, snaps, agent>>

Preflight ==
  /\ pc = "preflight"
  /\ \/ Goto("exists") /\ UNCHANGED host
     \/ Fails("preflight") /\ Die

-----------------------------------------------------------------------------
(* install(): tear a stale domain down when forced, then build the disk,   *)
(* the seed ISO and the domain.                                            *)

\* Mutation: the test of cfg.force is missing.
CheckExists_Unforced ==
  /\ pc = "exists"
  /\ IF dom = "absent" THEN Goto("disk") ELSE Goto("td_snapdel")
  /\ UNCHANGED host

\* domain_exists() takes a failing virsh dominfo for an absent domain.
CheckExists ==
  /\ pc = "exists"
  /\ \/ (dom = "absent" \/ Fails("dominfo")) /\ Goto("disk") /\ UNCHANGED host
     \/ dom # "absent" /\ args.force /\ Goto("td_snapdel") /\ UNCHANGED host
     \/ dom # "absent" /\ ~args.force /\ Die

\* Mutation: the snapshot metadata is not deleted before undefine.
TeardownSnapDelete_Skipped ==
  /\ pc = "td_snapdel" /\ Goto("td_destroy") /\ UNCHANGED host

\* virsh snapshot-delete <name> clean --metadata, result ignored.
TeardownSnapDelete ==
  /\ pc = "td_snapdel" /\ Goto("td_destroy")
  /\ \/ snaps' = {s \in snaps : s.name # Clean}
     \/ Fails("snapdel") /\ UNCHANGED snaps
  /\ UNCHANGED <<platform, dom, cfgd, live, disk, agent>>

TeardownDestroy ==
  /\ pc = "td_destroy" /\ Goto("td_undefine") /\ VirshDestroy

\* Mutation: the domain is only powered off, not undefined.
TeardownUndefine_Skipped ==
  /\ pc = "td_undefine" /\ Goto("td_unlink") /\ UNCHANGED host

\* virsh undefine --remove-all-storage: libvirt refuses while the domain runs or
\* has snapshot metadata; the volume goes with it only if a storage pool knows it.
TeardownUndefine ==
  /\ pc = "td_undefine" /\ Goto("td_unlink")
  /\ \/ /\ dom = "off" /\ snaps = {}
        /\ dom' = "absent" /\ cfgd' = NoXML
        /\ disk' \in {disk, NoDisk}
     \/ /\ dom # "off" \/ snaps # {} \/ Fails("undefine")
        /\ UNCHANGED <<dom, cfgd, disk>>
  /\ UNCHANGED <<platform, live, snaps, agent>>

TeardownUnlink ==
  /\ pc = "td_unlink" /\ Goto("disk")
  /\ Unlink \/ (Fails("unlink") /\ UNCHANGED disk)
  /\ UNCHANGED <<platform, dom, cfgd, live, snaps, agent>>

\* create_disk, and install_linux up to the copy of the cloud image: a file
\* that is already on the path is used as it is.
NewDisk(d) ==
  disk' = [data |-> d, own |-> TRUE, held |-> {}, stray |-> disk.stray]

CreateDisk ==
  /\ pc = "disk"
  /\ \/ disk.data # "none" /\ Goto("seed") /\ UNCHANGED host
     \/ /\ disk.data = "none" /\ platform = "windows"
        /\ NewDisk("blank") /\ Goto("seed")
        /\ UNCHANGED <<platform, dom, cfgd, live, snaps, agent>>
     \/ /\ disk.data = "none" /\ platform = "linux"
        /\ NewDisk("copied") /\ Goto("resize")
        /\ UNCHANGED <<platform, dom, cfgd, live, snaps, agent>>
     \/ Fails("diskimage") /\ Die

ResizeImage ==
  /\ pc = "resize"
  /\ \/ /\ disk' = [disk EXCEPT !.data = "image"] /\ Goto("seed")
        /\ UNCHANGED <<platform, dom, cfgd, live, snaps, agent>>
     \/ Fails("resize") /\ Die

\* build_seed_iso / build_linux_seed_iso: dies on a missing agent.py or
\* installer, or when the ISO tool fails.
BuildSeedIso ==
  /\ pc = "seed"
  /\ \/ Goto("virtinstall") /\ UNCHANGED host
     \/ Fails("seed") /\ Die

\* virt-install refuses a name in use; a run that fails may leave the domain
\* it had defined.
VirtInstall ==
  /\ pc = "virtinstall"
  /\ \/ /\ dom = "absent"
        /\ dom' = "running" /\ cfgd' = Installed(platform) /\ live' = cfgd'
        /\ IF args.cmd = "build" THEN Await("wait1", AgentPolls) ELSE Ends("ok")
        /\ UNCHANGED <<platform, disk, snaps, agent>>
     \/ /\ dom = "absent" /\ Fails("virtinstall")
        /\ dom' = "off" /\ cfgd' = Installed(platform)
        /\ Ends("died")
        /\ UNCHANGED <<platform, live, disk, snaps, agent>>
     \/ (dom # "absent" \/ Fails("virtinstall")) /\ Die

-----------------------------------------------------------------------------
(* The rest of `build`: wait, power off, eject, harden, start, wait,       *)
(* snapshot.  The deadline is looked at between two polls only.            *)

\* Mutation: the deadline is looked at after the agent, by an equality that a
\* late poll steps over.
WaitForAgent_StepsOver(w, next) ==
  /\ pc = w
  /\ \/ agent /\ (IF args.cmd = "wait" THEN Ends("ok") ELSE Goto(next))
     \/ ~agent /\ pc' = w /\ polls' \in {polls - 1, polls - 2}
        /\ UNCHANGED <<args, rc>>
     \/ polls = 0 /\ Ends(IF args.cmd = "wait" THEN "ok" ELSE "died")
  /\ UNCHANGED host

WaitForAgent(w, next) ==
  /\ pc = w
  /\ \/ polls > 0 /\ agent /\ (IF args.cmd = "wait" THEN Ends("ok") ELSE Goto(next))
     \/ polls > 0 /\ ~agent /\ Await(w, polls - 1)
     \/ polls = 0 /\ Ends(IF args.cmd = "wait" THEN "ok" ELSE "died")
  /\ UNCHANGED host

WaitInstalled == WaitForAgent("wait1", "shutdown")
WaitHardened == WaitForAgent("wait2", "snapshot")

ShutdownGuest ==
  /\ pc = "shutdown"
  /\ \/ dom = "off" /\ Goto("eject") /\ UNCHANGED host
     \/ Up /\ Await("stopping", ShutdownPolls) /\ UNCHANGED host
     \/ (dom = "absent" \/ Fails("domstate")) /\ Die

StopPoll ==
  /\ pc = "stopping"
  /\ \/ polls > 0 /\ dom = "off" /\ Goto("eject") /\ UNCHANGED host
     \/ polls > 0 /\ Up /\ Await("stopping", polls - 1) /\ UNCHANGED host
     \/ polls > 0 /\ (dom = "absent" \/ Fails("domstate")) /\ Die
     \/ polls = 0 /\ Goto("poweroff") /\ UNCHANGED host

\* Mutation: the timeout is only warned about, the guest stays up.
ForceOff_Skipped ==
  /\ pc = "poweroff" /\ Goto("eject") /\ UNCHANGED host

\* Mutation: at the deadline the guest is asked once more.
ForceOff_AsksAgain ==
  /\ pc = "poweroff" /\ Goto("shutdown") /\ UNCHANGED host

ForceOff ==
  /\ pc = "poweroff" /\ Goto("eject") /\ VirshDestroy

\* change-media --eject --config on every CD-ROM: the stored configuration
\* only, and each result is ignored.
EjectCdroms ==
  /\ pc = "eject"
  /\ \/ /\ dom # "absent"
        /\ \E kept \in SUBSET cfgd.media :
             /\ Fails("media") \/ kept = {}
             /\ cfgd' = [cfgd EXCEPT !.media = kept]
        /\ Continue("stealth")
        /\ UNCHANGED <<platform, dom, live, disk, snaps, agent>>
     \/ (dom = "absent" \/ Fails("domstate")) /\ Die

\* transform_domain_xml on what virsh dumpxml prints, the XML of the running
\* qemu if there is one, then virsh define, which changes the stored XML, gives
\* a domain without one a definition, and leaves a running qemu as it is.
Dumped == IF Up THEN live ELSE cfgd
Harden(hw) == /\ cfgd' = [Dumped EXCEPT !.hardened = TRUE, !.hw = hw]
              /\ dom' = IF dom = "transient" THEN "running" ELSE dom

\* With --realistic-hw a refused define is tried again without the DIMM block.
\* The guest does nothing between dumpxml and the last define.
ApplyStealth ==
  /\ pc = "stealth"
  /\ \/ /\ dom # "absent"
        /\ \/ Harden(IF args.realistic THEN "dimm" ELSE Dumped.hw)
           \/ /\ args.realistic /\ Fails("define")
              /\ Harden(IF Dumped.hw = "dimm" THEN "dimm" ELSE "topology")
        /\ Continue("start")
        /\ UNCHANGED <<platform, live, disk, snaps, agent>>
     \/ /\ dom = "absent" \/ Fails("dumpxml") \/ Fails("define")
        /\ Die

StartGuest ==
  /\ pc = "start" /\ Await("wait2", AgentPolls)
  /\ \/ /\ dom = "off" /\ dom' = "running" /\ live' = cfgd
     \/ /\ dom # "off" \/ Fails("start")
        /\ UNCHANGED <<dom, live>>
  /\ UNCHANGED <<platform, cfgd, disk, snaps, agent>>

\* snapshot-create-as --atomic refuses a name the domain already has.
TakeSnapshot ==
  /\ pc = "snapshot"
  /\ \/ /\ Up
        /\ \A s \in snaps : s.name # args.snapshot
        /\ snaps' = snaps \cup
             {[name |-> args.snapshot, xml |-> live,
               os |-> ~disk.stray /\ disk.data = "os",
               own |-> ~disk.stray /\ disk.own]}
        /\ IF disk.stray THEN UNCHANGED disk
           ELSE disk' = [disk EXCEPT !.held = @ \cup {args.snapshot}]
        /\ Ends("ok")
        /\ UNCHANGED <<platform, dom, cfgd, live, agent>>
     \/ /\ \/ ~Up
           \/ \E s \in snaps : s.name = args.snapshot
           \/ Fails("domstate") \/ Fails("snapcreate")
        /\ Die

-----------------------------------------------------------------------------
(* destroy(): results of the two virsh calls are ignored.                  *)

DestroyDomain ==
  /\ pc = "de_destroy" /\ Goto("de_undefine") /\ VirshDestroy

\* virsh undefine --snapshots-metadata: a running domain keeps running without
\* a definition, and its metadata with it.
DestroyUndefine ==
  /\ pc = "de_undefine" /\ Goto("de_unlink")
  /\ \/ dom = "off" /\ dom' = "absent" /\ cfgd' = NoXML /\ snaps' = {}
     \/ dom = "running" /\ dom' = "transient" /\ cfgd' = NoXML /\ UNCHANGED snaps
     \/ /\ dom \notin {"off", "running"} \/ Fails("undefine")
        /\ UNCHANGED <<dom, cfgd, snaps>>
  /\ UNCHANGED <<platform, live, disk, agent>>

DestroyUnlink ==
  /\ pc = "de_unlink"
  /\ \/ /\ Unlink /\ Ends("ok")
        /\ UNCHANGED <<platform, dom, cfgd, live, snaps, agent>>
     \/ disk.data # "none" /\ Fails("unlink") /\ Die

-----------------------------------------------------------------------------
(* The guest and the host.                                                 *)

\* Unattended setup (or cloud-init) runs from the attached media; starting the
\* agent is its last command.
GuestProvisions ==
  /\ Up /\ ~disk.stray /\ disk.data \in {"blank", "copied", "image"}
  /\ Installed(platform).media \subseteq live.media
  /\ disk' = [disk EXCEPT !.data = "os"] /\ agent' = TRUE
  /\ UNCHANGED <<platform, dom, cfgd, live, snaps, tool>>

\* A guest on an unlinked file may have got as far as its agent there.
GuestBoots ==
  /\ Up /\ ~agent /\ (disk.stray \/ disk.data = "os")
  /\ agent' = TRUE
  /\ UNCHANGED <<platform, dom, cfgd, live, disk, snaps, tool>>

AgentDies ==
  /\ agent /\ agent' = FALSE
  /\ UNCHANGED <<platform, dom, cfgd, live, disk, snaps, tool>>

\* The guest obeys the shutdown request, crashes, or the host reboots while no
\* builder runs: no domain is set to autostart.
GuestHalts ==
  /\ Up /\ PowerOff
  /\ UNCHANGED tool

\* Ctrl-C, a lost session, a reboot of the host.
Killed ==
  /\ pc # "idle" /\ Ends("killed")
  /\ UNCHANGED host

BuilderStep ==
  \/ Preflight \/ CheckExists
  \/ TeardownSnapDelete \/ TeardownDestroy \/ TeardownUndefine \/ TeardownUnlink
  \/ CreateDisk \/ ResizeImage \/ BuildSeedIso \/ VirtInstall
  \/ WaitInstalled \/ ShutdownGuest \/ StopPoll \/ ForceOff
  \/ EjectCdroms \/ ApplyStealth \/ StartGuest
  \/ WaitHardened \/ TakeSnapshot
  \/ DestroyDomain \/ DestroyUndefine \/ DestroyUnlink

GuestStep == GuestProvisions \/ GuestBoots \/ AgentDies \/ GuestHalts

Next == Invoke \/ BuilderStep \/ GuestStep \/ Killed

Spec == Init /\ [][Next]_vars

\* A builder that is not killed keeps running: its calls return, and its loops
\* poll until their deadline.
FairSpec == Spec /\ WF_vars(BuilderStep)
-----------------------------------------------------------------------------
(* Properties.                                                             *)

Named(n) == {s \in snaps : s.name = n}
\* CAPE can revert to the name: libvirt knows it and the file holds it.
Usable == {n \in SnapNames : Named(n) # {} /\ n \in disk.held}

\* A build that reports success (main: "Build complete") leaves a usable
\* snapshot of the requested name, taken of a guest that booted the hardened
\* XML (stealth, then cold start, then snapshot) on a provisioned disk, and
\* with --realistic-hw one that shows a realistic topology even when libvirt
\* rejected the DIMM block.  This needs a virsh destroy that works at the
\* shutdown deadline: its result is ignored (capevm.py:1162), and a guest that
\* stays up is snapshotted as it was installed, under "Build complete".
BuildYieldsSnapshot ==
  pc = "idle" /\ rc = "ok" /\ args.cmd = "build" =>
    /\ args.snapshot \in Usable
    /\ \E s \in Named(args.snapshot) :
         /\ s.xml.hardened /\ s.os
         /\ args.realistic => s.xml.hw # "plain"

\* Where the calls work whose results are ignored, metadata never outlives the
\* qcow2 that holds the snapshot: the teardown of install() and destroy() drop
\* the metadata before the file, so no kill between two of their calls leaves
\* CAPE a name it cannot revert to.
SnapshotsBacked == \A s \in snaps : s.name \in disk.held

\* Between invocations a defined domain has its disk: a teardown that unlinks
\* the qcow2 has undefined the domain, and a new domain gets its disk first.
DomainHasDisk == pc = "idle" /\ dom # "absent" => disk.data # "none"

\* The usable snapshots follow GuestLifecycle: only a forced build or install
\* that passed preflight, or destroy, gives one up.
MayReplace ==
  \/ args.cmd = "destroy"
  \/ args.cmd \in {"build", "install"} /\ args.force
Licence ==
  IF pc \in {"idle", "preflight"} THEN "nothing"
  ELSE IF MayReplace THEN "replace"
  ELSE IF args.cmd \in {"build", "snapshot"} THEN "add" ELSE "nothing"
Lifecycle == INSTANCE GuestLifecycle
  WITH Names <- SnapNames, usable <- Usable, licence <- Licence,
       asked <- args.snapshot
KeepsLifecycle == Lifecycle!LSpec

\* Every invocation ends: the two agent waits and the shutdown wait give up at
\* their deadline whatever the guest does.
InvocationEnds == (pc # "idle") ~> (pc = "idle")

\* README.md:388-391 and the --force help text: --force tears the old domain
\* down first, so that no domain is left when the new disk is made.
ForceTearsDown ==
  pc \in {"disk", "resize", "seed", "virtinstall"} => dom = "absent"

\* install()'s comment and cape-deploy.sh:800: a forced build starts clean, so
\* the snapshot it ends with is of a disk this build created.
ForcedBuildStartsClean ==
  pc = "idle" /\ rc = "ok" /\ args.cmd = "build" /\ args.force =>
    \A s \in Named(args.snapshot) : s.own

\* How many steps of its own an invocation at step p has left at most, next to
\* the polls of the loop it is in.
Ahead(p) ==
  LET wait2 == AgentPolls
      stopping == wait2 + ShutdownPolls
      wait1 == stopping + AgentPolls
  IN CASE p = "preflight"   -> wait1 + 19    [] p = "exists"     -> wait1 + 18
       [] p = "td_snapdel"  -> wait1 + 17    [] p = "td_destroy" -> wait1 + 16
       [] p = "td_undefine" -> wait1 + 15    [] p = "td_unlink"  -> wait1 + 14
       [] p = "disk"        -> wait1 + 13    [] p = "resize"     -> wait1 + 12
       [] p = "seed"        -> wait1 + 11    [] p = "virtinstall" -> wait1 + 10
       [] p = "wait1"       -> stopping + 9  [] p = "shutdown"   -> stopping + 8
       [] p = "stopping"    -> wait2 + 7     [] p = "poweroff"   -> wait2 + 6
       [] p = "eject"       -> wait2 + 5     [] p = "stealth"    -> wait2 + 4
       [] p = "start"       -> wait2 + 3     [] p = "wait2"      -> 2
       [] p = "snapshot"    -> 1             [] p = "de_destroy" -> 3
       [] p = "de_undefine" -> 2             [] p = "de_unlink"  -> 1
       [] OTHER -> 0
StepsLeft == Ahead(pc) + polls

\* The safety half of InvocationEnds: no step of the builder leads back, every
\* poll brings a deadline nearer, and nothing the guest does gives an
\* invocation more time; the longest is a forced build that waits to the end
\* of its three loops.
InvocationIsBounded ==
  /\ [](StepsLeft <= Ahead("preflight"))
  /\ [][/\ BuilderStep => StepsLeft' < StepsLeft
        /\ StepsLeft' > StepsLeft => Invoke]_vars

-----------------------------------------------------------------------------
(* The inductive invariant behind the theorems of GuestBuild_proofs, where *)
(* virsh destroy works.                                                    *)

Obeyed == "destroy" \notin MayFail

Teardown == {"td_snapdel", "td_destroy", "td_undefine", "td_unlink"}
DestroySteps == {"de_destroy", "de_undefine", "de_unlink"}

\* Which command is at which step.
CmdAtStep ==
  /\ pc \in {"preflight", "exists", "disk", "resize", "seed", "virtinstall"}
       => args.cmd \in {"build", "install"}
  /\ pc \in Teardown => args.cmd \in {"build", "install"} /\ args.force
  /\ pc \in {"wait1", "shutdown", "stopping", "poweroff", "start"}
       => args.cmd = "build"
  /\ pc = "eject" => args.cmd \in {"build", "eject"}
  /\ pc = "stealth" => args.cmd \in {"build", "stealth"}
  /\ pc = "wait2" => args.cmd \in {"build", "wait"}
  /\ pc = "snapshot" => args.cmd \in {"build", "snapshot"}
  /\ pc \in DestroySteps => args.cmd = "destroy"

NothingOnNoDisk == disk.data = "none" => disk.held = {}

\* From a power-off that works on, nothing but the builder can start the guest,
\* so that no guest loses its definition or its file while it runs.
OffDuringRebuild ==
  /\ pc \in {"td_undefine", "td_unlink", "resize", "de_undefine", "de_unlink"}
       => ~Up
  /\ args.cmd = "build" /\ pc \in {"eject", "stealth", "start"} => ~Up
  /\ dom # "transient" /\ ~disk.stray

DiskUnderGuest ==
  Up \/ pc \in {"resize", "seed", "virtinstall"} => disk.data # "none"

AgentIsProvisioned == agent => Up /\ disk.data = "os"

Realistic(xml) == xml.hardened /\ (args.realistic => xml.hw # "plain")

\* What a build has established when it reaches a step.
BuildProgress ==
  args.cmd = "build" =>
    /\ pc \in {"shutdown", "stopping", "poweroff", "eject", "stealth",
               "start", "wait2", "snapshot"} => disk.data = "os"
    /\ pc \in {"start", "wait2", "snapshot"} => Realistic(cfgd)
    /\ pc \in {"wait2", "snapshot"} /\ Up => Realistic(live)

IInv == /\ TypeOK /\ CmdAtStep /\ NothingOnNoDisk /\ OffDuringRebuild
        /\ DiskUnderGuest /\ AgentIsProvisioned /\ BuildProgress
        /\ BuildYieldsSnapshot
=============================================================================
