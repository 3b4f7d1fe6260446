-------------------------- MODULE GuestBuild_proofs --------------------------
(***************************************************************************)
(* Theorems about GuestBuild, for every set of names, platforms, failures  *)
(* and every number of polls.                                              *)
(***************************************************************************)
EXTENDS GuestBuild, TLAPS

USE GuestAssumption

(* Every variable keeps its type. *)
LEMMA InitType == Init => TypeOK
  <1> SUFFICES ASSUME Init PROVE TypeOK
    OBVIOUS
  <1>1. NoXML \in DomainXML
    BY DEF NoXML, DomainXML, Media, Hardware
  <1>2. NoDisk \in Disk
    BY DEF NoDisk, Disk
  <1>3. [cmd |-> "destroy", force |-> FALSE, snapshot |-> Clean,
         realistic |-> FALSE] \in Args
    BY DEF Args, Commands
  <1>4. pc \in Steps /\ polls \in Nat
    BY DEF Init, Steps
  <1> QED
    BY <1>1, <1>2, <1>3, <1>4 DEF Init, TypeOK

LEMMA InstalledType == \A p : Installed(p) \in DomainXML
  BY DEF Installed, DomainXML, Media, Hardware

LEMMA InvokeType == TypeOK /\ Invoke => TypeOK'
  <1> SUFFICES ASSUME TypeOK, Invoke PROVE TypeOK'
    OBVIOUS
  <1>1. args' \in Args /\ args'.cmd \in Commands
    BY DEF Invoke, CommandLines, Args
  <1>2. pc' \in Steps /\ polls' \in Nat
    BY <1>1 DEF Invoke, Steps, Commands
  <1>3. disk' \in Disk
    BY DEF Invoke, TypeOK, Disk
  <1> QED
    BY <1>1, <1>2, <1>3 DEF Invoke, TypeOK

LEMMA PowerOffType ==
  ASSUME TypeOK, PowerOff
  PROVE  /\ dom' \in {"absent", "off", "running", "transient"}
         /\ cfgd' \in DomainXML /\ live' \in DomainXML /\ disk' \in Disk
         /\ snaps' \subseteq Snapshot /\ agent' \in BOOLEAN
         /\ platform' \in Platforms
  <1>1. NoXML \in DomainXML
    BY DEF NoXML, DomainXML, Media, Hardware
  <1>2. [disk EXCEPT !.stray = FALSE] \in Disk
    BY DEF TypeOK, Disk
  <1> QED
    BY <1>1, <1>2 DEF TypeOK, PowerOff

LEMMA UnlinkType == Unlink => disk' \in Disk
  BY DEF Unlink, NoDisk, Disk

LEMMA BuilderType == TypeOK /\ BuilderStep => TypeOK'
  <1> SUFFICES ASSUME TypeOK, BuilderStep PROVE TypeOK'
    OBVIOUS
  <1> USE DEF TypeOK, Steps, Goto, Await, Ends, Die, Continue, host
  <1>a. NoXML \in DomainXML /\ NoDisk \in Disk
    BY DEF NoXML, NoDisk, DomainXML, Disk, Media, Hardware
  <1>1. CASE Preflight \/ CheckExists \/ BuildSeedIso
    BY <1>1 DEF Preflight, CheckExists, BuildSeedIso
  <1>2. CASE TeardownSnapDelete
    BY <1>2 DEF TeardownSnapDelete
  <1>3. CASE TeardownDestroy \/ ForceOff \/ DestroyDomain
    <2>1. VirshDestroy
      BY <1>3 DEF TeardownDestroy, ForceOff, DestroyDomain
    <2>2. pc' \in Steps /\ polls' = 0 /\ UNCHANGED <<args, rc>>
      BY <1>3 DEF TeardownDestroy, ForceOff, DestroyDomain
    <2>3. CASE PowerOff
      BY <2>2, <2>3, PowerOffType
    <2>4. CASE UNCHANGED host
      BY <2>2, <2>4
    <2> QED
      BY <2>1, <2>3, <2>4 DEF VirshDestroy
  <1>4. CASE TeardownUndefine
    BY <1>4, <1>a DEF TeardownUndefine
  <1>5. CASE TeardownUnlink \/ DestroyUnlink \/ DestroyUndefine
    BY <1>5, <1>a, UnlinkType DEF TeardownUnlink, DestroyUnlink, DestroyUndefine
  <1>6. CASE CreateDisk \/ ResizeImage
    <2>1. CASE CreateDisk
      <3>1. \A d \in {"blank", "copied"} :
               [data |-> d, own |-> TRUE, held |-> {}, stray |-> disk.stray] \in Disk
        BY DEF Disk
      <3>2. disk' \in Disk
        BY <2>1, <3>1 DEF CreateDisk, NewDisk
      <3> QED
        BY <2>1, <3>2 DEF CreateDisk
    <2>2. CASE ResizeImage
      <3>1. [disk EXCEPT !.data = "image"] \in Disk
        BY DEF Disk
      <3> QED
        BY <2>2, <3>1 DEF ResizeImage
    <2> QED
      BY <1>6, <2>1, <2>2
  <1>7. CASE VirtInstall
    BY <1>7, InstalledType DEF VirtInstall
  <1>8. CASE WaitInstalled \/ WaitHardened \/ ShutdownGuest \/ StopPoll
    BY <1>8 DEF WaitInstalled, WaitHardened, WaitForAgent, ShutdownGuest, StopPoll
  <1>9. CASE EjectCdroms
    <2>1. cfgd' \in DomainXML
      BY <1>9 DEF EjectCdroms, DomainXML
    <2> QED
      BY <1>9, <2>1 DEF EjectCdroms
  <1>10. CASE ApplyStealth
    <2>1. cfgd' \in DomainXML
      BY <1>10 DEF ApplyStealth, Harden, Dumped, DomainXML, Hardware
    <2> QED
      BY <1>10, <2>1 DEF ApplyStealth, Harden
  <1>11. CASE StartGuest
    BY <1>11 DEF StartGuest
  <1>12. CASE TakeSnapshot
    <2>1. args.snapshot \in SnapNames
      BY DEF Args
    <2>2. [disk EXCEPT !.held = @ \cup {args.snapshot}] \in Disk
      BY <2>1 DEF Disk
    <2>3. [name |-> args.snapshot, xml |-> live,
           os |-> ~disk.stray /\ disk.data = "os",
           own |-> ~disk.stray /\ disk.own] \in Snapshot
      BY <2>1 DEF Snapshot, Disk
    <2> QED
      BY <1>12, <2>2, <2>3 DEF TakeSnapshot
  <1> QED
    BY <1>1, <1>2, <1>3, <1>4, <1>5, <1>6, <1>7, <1>8, <1>9, <1>10, <1>11,
       <1>12 DEF BuilderStep

LEMMA GuestType == TypeOK /\ GuestStep => TypeOK'
  <1> SUFFICES ASSUME TypeOK, GuestStep PROVE TypeOK'
    OBVIOUS
  <1> USE DEF TypeOK, tool
  <1>1. CASE GuestProvisions
    <2>1. disk' \in Disk
      BY <1>1 DEF GuestProvisions, Disk
    <2> QED
      BY <1>1, <2>1 DEF GuestProvisions
  <1>2. CASE GuestBoots \/ AgentDies
    BY <1>2 DEF GuestBoots, AgentDies
  <1>3. CASE GuestHalts
    BY <1>3, PowerOffType DEF GuestHalts
  <1> QED
    BY <1>1, <1>2, <1>3 DEF GuestStep

LEMMA NextType == TypeOK /\ [Next]_vars => TypeOK'
  <1> SUFFICES ASSUME TypeOK, [Next]_vars PROVE TypeOK'
    OBVIOUS
  <1>1. CASE Killed
    BY <1>1 DEF Killed, Ends, host, TypeOK, Steps
  <1>2. CASE UNCHANGED vars
    BY <1>2 DEF vars, host, tool, TypeOK
  <1> QED
    BY <1>1, <1>2, InvokeType, BuilderType, GuestType DEF Next

THEOREM TypeCorrect == Spec => []TypeOK
  BY InitType, NextType, PTL DEF Spec
-----------------------------------------------------------------------------
(* The inductive invariant: one lemma per conjunct that a step can disturb, *)
(* each by cases on the action.                                             *)

LEMMA CmdAtStepInv == TypeOK /\ CmdAtStep /\ [Next]_vars => CmdAtStep'
  <1> SUFFICES ASSUME TypeOK, CmdAtStep, [Next]_vars PROVE CmdAtStep'
    OBVIOUS
  <1> USE DEF CmdAtStep, Teardown, DestroySteps, Goto, Await, Ends, Die,
              Continue
  <1>1. CASE Invoke
    <2>1. args'.cmd \in Commands
      BY <1>1 DEF Invoke, CommandLines, Args
    <2> QED
      BY <1>1, <2>1 DEF Invoke, Commands
  <1>2. CASE BuilderStep
    <2>1. args' = args
      BY <1>2 DEF BuilderStep, Preflight, CheckExists, TeardownSnapDelete,
        TeardownDestroy, TeardownUndefine, TeardownUnlink, CreateDisk,
        ResizeImage, BuildSeedIso, VirtInstall, WaitInstalled, WaitHardened,
        WaitForAgent, ShutdownGuest, StopPoll, ForceOff, EjectCdroms,
        ApplyStealth, StartGuest, TakeSnapshot, DestroyDomain,
        DestroyUndefine, DestroyUnlink
    <2>2. CASE \/ Preflight \/ CheckExists \/ CreateDisk \/ ResizeImage
               \/ BuildSeedIso \/ VirtInstall
      BY <2>1, <2>2 DEF Preflight, CheckExists, CreateDisk, ResizeImage,
                        BuildSeedIso, VirtInstall
    <2>3. CASE \/ TeardownSnapDelete \/ TeardownDestroy \/ TeardownUndefine
               \/ TeardownUnlink \/ DestroyDomain \/ DestroyUndefine
               \/ DestroyUnlink
      BY <2>1, <2>3 DEF TeardownSnapDelete, TeardownDestroy, TeardownUndefine,
         TeardownUnlink, DestroyDomain, DestroyUndefine, DestroyUnlink
    <2>4. CASE \/ WaitInstalled \/ WaitHardened \/ ShutdownGuest \/ StopPoll
               \/ ForceOff \/ StartGuest \/ TakeSnapshot
      BY <2>1, <2>4 DEF WaitInstalled, WaitHardened, WaitForAgent,
         ShutdownGuest, StopPoll, ForceOff, StartGuest, TakeSnapshot
    <2>5. CASE EjectCdroms \/ ApplyStealth
      BY <2>1, <2>5 DEF EjectCdroms, ApplyStealth
    <2> QED
      BY <1>2, <2>2, <2>3, <2>4, <2>5 DEF BuilderStep
  <1>3. CASE GuestStep \/ UNCHANGED vars
    BY <1>3 DEF GuestStep, GuestProvisions, GuestBoots, AgentDies, GuestHalts,
                tool, vars
  <1>4. CASE Killed
    BY <1>4 DEF Killed
  <1> QED
    BY <1>1, <1>2, <1>3, <1>4 DEF Next

HostInv == /\ NothingOnNoDisk /\ OffDuringRebuild /\ DiskUnderGuest
           /\ AgentIsProvisioned

\* What a virsh destroy that works does to a domain that has its definition.
LEMMA DestroyWorks ==
  ASSUME Obeyed, OffDuringRebuild, TypeOK, VirshDestroy \/ PowerOff
  PROVE  /\ dom' = IF dom = "running" THEN "off" ELSE dom
         /\ live' = NoXML /\ agent' = FALSE /\ disk' = disk
         /\ UNCHANGED <<platform, cfgd, snaps>>
  <1>1. PowerOff /\ dom # "transient" /\ ~disk.stray
    BY DEF VirshDestroy, Obeyed, Fails, OffDuringRebuild
  <1>2. [disk EXCEPT !.stray = FALSE] = disk
    BY <1>1 DEF TypeOK, Disk
  <1> QED
    BY <1>1, <1>2 DEF PowerOff

LEMMA UnlinkOff == Unlink /\ ~Up => disk' = NoDisk
  BY DEF Unlink, NoDisk

LEMMA BuilderHostInv ==
  ASSUME Obeyed, TypeOK, CmdAtStep, BuildProgress, HostInv, BuilderStep
  PROVE  HostInv'
  <1> USE DEF HostInv, NothingOnNoDisk, OffDuringRebuild, DiskUnderGuest,
              AgentIsProvisioned, Up, Goto, Await, Ends, Die, Continue, host
  <1>a. disk \in Disk /\ dom \in {"absent", "off", "running", "transient"}
    BY DEF TypeOK
  <1>1. CASE Preflight \/ CheckExists \/ BuildSeedIso
    BY <1>1 DEF Preflight, CheckExists, BuildSeedIso
  <1>2. CASE TeardownSnapDelete
    BY <1>2 DEF TeardownSnapDelete
  <1>3. CASE TeardownDestroy \/ ForceOff \/ DestroyDomain
    BY <1>3, <1>a, DestroyWorks
       DEF TeardownDestroy, ForceOff, DestroyDomain
  <1>4. CASE TeardownUndefine \/ DestroyUndefine
    BY <1>4 DEF TeardownUndefine, DestroyUndefine, NoDisk
  <1>5. CASE TeardownUnlink \/ DestroyUnlink
    BY <1>5, UnlinkOff DEF TeardownUnlink, DestroyUnlink, NoDisk
  <1>6. CASE CreateDisk
    BY <1>6 DEF CreateDisk, NewDisk
  <1>7. CASE ResizeImage
    <2>1. /\ disk'.held = disk.held /\ disk'.stray = disk.stray
          /\ disk'.data \in {"image", disk.data}
      BY <1>7, <1>a DEF ResizeImage, Disk
    <2>2. pc' \in {"seed", "idle"} /\ UNCHANGED <<dom, agent, args>>
      BY <1>7 DEF ResizeImage
    <2>3. pc = "resize"
      BY <1>7 DEF ResizeImage
    <2> QED
      BY <2>1, <2>2, <2>3, <1>7 DEF ResizeImage
  <1>8. CASE VirtInstall
    BY <1>8 DEF VirtInstall
  <1>9. CASE WaitInstalled \/ WaitHardened \/ ShutdownGuest \/ StopPoll
    BY <1>9 DEF WaitInstalled, WaitHardened, WaitForAgent, ShutdownGuest,
                StopPoll
  <1>10. CASE EjectCdroms \/ ApplyStealth
    BY <1>10 DEF EjectCdroms, ApplyStealth, Harden
  <1>11. CASE StartGuest
    BY <1>11 DEF StartGuest, CmdAtStep, BuildProgress
  <1>12. CASE TakeSnapshot
    BY <1>12, <1>a DEF TakeSnapshot, Disk
  <1> QED
    BY <1>1, <1>2, <1>3, <1>4, <1>5, <1>6, <1>7, <1>8, <1>9, <1>10, <1>11,
       <1>12 DEF BuilderStep

LEMMA NextHostInv ==
  ASSUME Obeyed, TypeOK, CmdAtStep, BuildProgress, HostInv, [Next]_vars
  PROVE  HostInv'
  <1> USE DEF HostInv, NothingOnNoDisk, OffDuringRebuild, DiskUnderGuest,
              AgentIsProvisioned, Up, Ends, host, tool
  <1>a. disk \in Disk /\ dom \in {"absent", "off", "running", "transient"}
    BY DEF TypeOK
  <1>1. CASE Invoke
    <2>1. disk'.data = disk.data /\ disk'.held = disk.held
      BY <1>1, <1>a DEF Invoke, Disk
    <2>2. pc' \in {"preflight", "wait2", "de_destroy", "stealth", "eject",
                   "snapshot"}
      BY <1>1 DEF Invoke, CommandLines, Args, Commands
    <2>3. args'.cmd = "build" => pc' = "preflight"
      BY <1>1 DEF Invoke
    <2> QED
      BY <1>1, <2>1, <2>2, <2>3 DEF Invoke
  <1>2. CASE GuestProvisions
    BY <1>2, <1>a DEF GuestProvisions, Disk
  <1>3. CASE GuestBoots \/ AgentDies
    BY <1>3 DEF GuestBoots, AgentDies
  <1>4. CASE GuestHalts
    BY <1>4, <1>a, DestroyWorks DEF GuestHalts
  <1>5. CASE Killed
    BY <1>5 DEF Killed
  <1>6. CASE UNCHANGED vars
    BY <1>6 DEF vars
  <1> QED
    BY <1>1, <1>2, <1>3, <1>4, <1>5, <1>6, BuilderHostInv
       DEF Next, GuestStep

LEMMA BuilderProgress ==
  ASSUME Obeyed, TypeOK, CmdAtStep, HostInv, BuildProgress, BuilderStep,
         args.cmd = "build"
  PROVE  BuildProgress'
  <1> USE DEF BuildProgress, Realistic, Up, Goto, Await, Ends, Die, Continue,
              host
  <1>a. /\ disk \in Disk /\ cfgd \in DomainXML /\ live \in DomainXML
        /\ dom \in {"absent", "off", "running", "transient"}
    BY DEF TypeOK
  <1>1. CASE \/ Preflight \/ CheckExists \/ BuildSeedIso \/ TeardownSnapDelete
             \/ TeardownDestroy \/ TeardownUndefine \/ TeardownUnlink
    BY <1>1 DEF Preflight, CheckExists, BuildSeedIso, TeardownSnapDelete,
                TeardownDestroy, TeardownUndefine, TeardownUnlink
  <1>2. CASE CreateDisk \/ ResizeImage \/ VirtInstall
    BY <1>2 DEF CreateDisk, ResizeImage, VirtInstall
  <1>3. CASE WaitInstalled
    BY <1>3 DEF WaitInstalled, WaitForAgent, HostInv, AgentIsProvisioned
  <1>4. CASE WaitHardened
    BY <1>4 DEF WaitHardened, WaitForAgent
  <1>5. CASE ShutdownGuest \/ StopPoll
    BY <1>5 DEF ShutdownGuest, StopPoll
  <1>6. CASE ForceOff
    BY <1>6, DestroyWorks DEF ForceOff, HostInv
  <1>7. CASE EjectCdroms
    BY <1>7 DEF EjectCdroms
  <1>8. CASE ApplyStealth
    BY <1>8, <1>a DEF ApplyStealth, Harden, Dumped, DomainXML
  <1>10. CASE StartGuest
    BY <1>10, <1>a DEF StartGuest, HostInv, OffDuringRebuild, Up
  <1>11. CASE TakeSnapshot
    BY <1>11 DEF TakeSnapshot
  <1>12. CASE DestroyDomain \/ DestroyUndefine \/ DestroyUnlink
    BY <1>12 DEF DestroyDomain, DestroyUndefine, DestroyUnlink, CmdAtStep,
                 DestroySteps
  <1> QED
    BY <1>1, <1>2, <1>3, <1>4, <1>5, <1>6, <1>7, <1>8, <1>10, <1>11,
       <1>12 DEF BuilderStep

LEMMA NextProgress ==
  ASSUME Obeyed, TypeOK, CmdAtStep, HostInv, BuildProgress, [Next]_vars
  PROVE  BuildProgress'
  <1> USE DEF BuildProgress, Realistic, Up, Ends, host, tool
  <1>a. disk \in Disk
    BY DEF TypeOK
  <1>1. CASE Invoke
    BY <1>1 DEF Invoke
  <1>2. CASE BuilderStep
    <2>1. args' = args
      BY <1>2 DEF BuilderStep, Preflight, CheckExists, TeardownSnapDelete,
        TeardownDestroy, TeardownUndefine, TeardownUnlink, CreateDisk,
        ResizeImage, BuildSeedIso, VirtInstall, WaitInstalled, WaitHardened,
        WaitForAgent, ShutdownGuest, StopPoll, ForceOff, EjectCdroms,
        ApplyStealth, StartGuest, TakeSnapshot, DestroyDomain,
        DestroyUndefine, DestroyUnlink, Goto, Await, Die, Continue
    <2> QED
      BY <1>2, <2>1, BuilderProgress
  <1>3. CASE GuestProvisions
    BY <1>3, <1>a DEF GuestProvisions, Disk
  <1>4. CASE GuestBoots \/ AgentDies
    BY <1>4 DEF GuestBoots, AgentDies
  <1>5. CASE GuestHalts
    <2>1. /\ dom' = IF dom = "running" THEN "off" ELSE dom
          /\ disk' = disk /\ UNCHANGED <<cfgd, tool>>
      BY <1>5, DestroyWorks DEF GuestHalts, HostInv
    <2>2. ~Up'
      BY <1>5, <2>1 DEF GuestHalts, HostInv, OffDuringRebuild
    <2> QED
      BY <2>1, <2>2
  <1>6. CASE Killed
    BY <1>6 DEF Killed
  <1>7. CASE UNCHANGED vars
    BY <1>7 DEF vars
  <1> QED
    BY <1>1, <1>2, <1>3, <1>4, <1>5, <1>6, <1>7 DEF Next, GuestStep

\* The last step of a build, and the steps after it that could spoil it.
LEMMA NextYields ==
  ASSUME Obeyed, TypeOK, CmdAtStep, HostInv, BuildProgress, BuildYieldsSnapshot,
         [Next]_vars
  PROVE  BuildYieldsSnapshot'
  <1> USE DEF BuildYieldsSnapshot, Usable, Named, Ends, host, tool
  <1>a. disk \in Disk /\ args \in Args
    BY DEF TypeOK
  <1>1. CASE Invoke
    BY <1>1 DEF Invoke
  <1>2. CASE TakeSnapshot
    <2>1. CASE rc' = "ok" /\ args'.cmd = "build"
      <3> DEFINE s == [name |-> args.snapshot, xml |-> live,
                       os |-> ~disk.stray /\ disk.data = "os",
                       own |-> ~disk.stray /\ disk.own]
      <3>1. pc = "snapshot" /\ Up /\ args' = args /\ s \in snaps'
        BY <1>2, <2>1 DEF TakeSnapshot, Die
      <3>2. disk.data = "os" /\ ~disk.stray /\ Realistic(live)
        BY <2>1, <3>1 DEF BuildProgress, HostInv, OffDuringRebuild
      <3>3. args.snapshot \in disk'.held /\ args.snapshot \in SnapNames
        BY <1>2, <1>a, <2>1, <3>2 DEF TakeSnapshot, Die, Disk, Args
      <3>4. /\ s.name = args.snapshot /\ s.xml.hardened /\ s.os
            /\ args.realistic => s.xml.hw # "plain"
        BY <3>2 DEF Realistic
      <3> QED
        BY <3>1, <3>3, <3>4
    <2> QED
      BY <2>1
  <1>3. CASE BuilderStep /\ ~TakeSnapshot
    <2>1. ~(pc' = "idle" /\ rc' = "ok" /\ args'.cmd = "build")
      BY <1>3 DEF CmdAtStep, DestroySteps, BuilderStep, Preflight, CheckExists,
        TeardownSnapDelete, TeardownDestroy, TeardownUndefine, TeardownUnlink,
        CreateDisk, ResizeImage, BuildSeedIso, VirtInstall, WaitInstalled,
        WaitHardened, WaitForAgent, ShutdownGuest, StopPoll, ForceOff,
        EjectCdroms, ApplyStealth, StartGuest, DestroyDomain,
        DestroyUndefine, DestroyUnlink, Goto, Await, Die, Continue
    <2> QED
      BY <2>1
  <1>4. CASE GuestStep
    <2>1. snaps' = snaps /\ disk'.held = disk.held /\ UNCHANGED tool
      BY <1>4, <1>a, DestroyWorks DEF GuestStep, GuestProvisions, GuestBoots,
         AgentDies, GuestHalts, Disk, HostInv
    <2> QED
      BY <2>1
  <1>5. CASE Killed
    BY <1>5 DEF Killed
  <1>6. CASE UNCHANGED vars
    BY <1>6 DEF vars
  <1> QED
    BY <1>1, <1>2, <1>3, <1>4, <1>5, <1>6 DEF Next

LEMMA Inductive ==
  ASSUME Obeyed
  PROVE  /\ Init => IInv
         /\ IInv /\ [Next]_vars => IInv'
  <1>1. ASSUME Init PROVE IInv
    <2>1. TypeOK
      BY <1>1, InitType
    <2> QED
      BY <1>1, <2>1 DEF Init, IInv, CmdAtStep, Teardown, DestroySteps,
         NothingOnNoDisk, NoDisk, OffDuringRebuild, DiskUnderGuest,
         AgentIsProvisioned, BuildProgress, BuildYieldsSnapshot, Up
  <1>2. ASSUME IInv, [Next]_vars PROVE IInv'
    <2>1. TypeOK /\ CmdAtStep /\ HostInv /\ BuildProgress /\ BuildYieldsSnapshot
      BY <1>2 DEF IInv, HostInv
    <2>2. TypeOK' /\ CmdAtStep'
      BY <1>2, <2>1, NextType, CmdAtStepInv
    <2>3. HostInv' /\ BuildProgress' /\ BuildYieldsSnapshot'
      BY <1>2, <2>1, NextHostInv, NextProgress, NextYields
    <2> QED
      BY <2>2, <2>3 DEF IInv, HostInv
  <1> QED
    BY <1>1, <1>2

(* Where virsh destroy works, a build that reports success leaves a usable  *)
(* snapshot of the requested name, of a guest that booted hardened on a     *)
(* provisioned disk, whatever other calls fail and whatever the guest does  *)
(* (main, capevm.py:1434-1451).                                             *)
THEOREM BuildSound ==
  ASSUME Obeyed
  PROVE  Spec => []BuildYieldsSnapshot
  <1>1. IInv => BuildYieldsSnapshot
    BY DEF IInv
  <1> QED
    BY <1>1, Inductive, PTL DEF Spec
-----------------------------------------------------------------------------
(* The refinement of GuestLifecycle.                                       *)

LEMMA LicenceType == Licence \in {"nothing", "add", "replace"}
  BY DEF Licence

LEMMA LicenceTypeNext == Licence' \in {"nothing", "add", "replace"}
  BY DEF Licence

\* A step that leaves metadata and held snapshots alone changes no usable one.
LEMMA UsableFrame ==
  ASSUME snaps' = snaps, disk'.held = disk.held
  PROVE  Usable' = Usable
  BY DEF Usable, Named

\* The only builder steps that touch metadata or file.
LEMMA BuilderFrame ==
  ASSUME Obeyed, OffDuringRebuild, TypeOK, NothingOnNoDisk, BuilderStep,
         ~TeardownSnapDelete, ~TeardownUndefine, ~TeardownUnlink,
         ~DestroyUndefine, ~DestroyUnlink, ~TakeSnapshot
  PROVE  snaps' = snaps /\ disk'.held = disk.held
  <1> USE DEF Goto, Await, Ends, Die, Continue, host
  <1>a. disk \in Disk
    BY DEF TypeOK
  <1>1. CASE Preflight \/ CheckExists \/ BuildSeedIso \/ VirtInstall
    BY <1>1 DEF Preflight, CheckExists, BuildSeedIso, VirtInstall
  <1>2. CASE CreateDisk
    BY <1>2 DEF CreateDisk, NewDisk, NothingOnNoDisk
  <1>3. CASE ResizeImage
    BY <1>3, <1>a DEF ResizeImage, Disk
  <1>4. CASE \/ TeardownDestroy \/ ForceOff \/ DestroyDomain
    BY <1>4, DestroyWorks DEF TeardownDestroy, ForceOff, DestroyDomain
  <1>5. CASE WaitInstalled \/ WaitHardened \/ ShutdownGuest \/ StopPoll
    BY <1>5 DEF WaitInstalled, WaitHardened, WaitForAgent, ShutdownGuest,
                StopPoll
  <1>6. CASE EjectCdroms \/ ApplyStealth \/ StartGuest
    BY <1>6 DEF EjectCdroms, ApplyStealth, StartGuest
  <1> QED
    BY <1>1, <1>2, <1>3, <1>4, <1>5, <1>6 DEF BuilderStep

\* The teardown of a forced build and destroy only give snapshots up.
LEMMA GivesUp ==
  ASSUME TypeOK, OffDuringRebuild, CmdAtStep,
         \/ TeardownSnapDelete \/ TeardownUndefine \/ TeardownUnlink
         \/ DestroyUndefine \/ DestroyUnlink
  PROVE  /\ Usable' \subseteq Usable /\ Licence = "replace"
         /\ UNCHANGED args
  <1> USE DEF Goto, Ends, Die, host
  <1>1. snaps' \subseteq snaps /\ (disk' = disk \/ disk' = NoDisk)
    BY UnlinkOff DEF OffDuringRebuild, TeardownSnapDelete, TeardownUndefine, TeardownUnlink,
           DestroyUndefine, DestroyUnlink
  <1>2. disk'.held \subseteq disk.held
    BY <1>1 DEF NoDisk
  <1>3. Usable' \subseteq Usable
    BY <1>1, <1>2 DEF Usable, Named
  <1>4. UNCHANGED args /\ pc \in Teardown \cup DestroySteps
    BY DEF TeardownSnapDelete, TeardownUndefine, TeardownUnlink,
           DestroyUndefine, DestroyUnlink, Teardown, DestroySteps
  <1>5. Licence = "replace"
    <2>1. MayReplace
      BY <1>4 DEF MayReplace, CmdAtStep
    <2> QED
      BY <1>4, <2>1 DEF Licence, Teardown, DestroySteps
  <1> QED
    BY <1>3, <1>4, <1>5

LEMMA SnapshotAdds ==
  ASSUME TypeOK, OffDuringRebuild, CmdAtStep, TakeSnapshot
  PROVE  \/ Usable' = Usable
         \/ /\ Licence \in {"add", "replace"} /\ Licence' = "nothing"
            /\ Usable' = Usable \cup {args.snapshot} /\ UNCHANGED args
  <1>1. CASE Die
    BY <1>1, UsableFrame DEF Die, host
  <1>2. CASE ~Die
    <2> DEFINE s == [name |-> args.snapshot, xml |-> live,
                     os |-> ~disk.stray /\ disk.data = "os",
                     own |-> ~disk.stray /\ disk.own]
    <2>1. /\ snaps' = snaps \cup {s} /\ Ends("ok") /\ pc = "snapshot"
          /\ disk' = [disk EXCEPT !.held = @ \cup {args.snapshot}]
      BY <1>2 DEF TakeSnapshot, OffDuringRebuild
    <2>2. disk'.held = disk.held \cup {args.snapshot}
      BY <2>1 DEF TypeOK, Disk
    <2>3. args.snapshot \in SnapNames /\ s.name = args.snapshot
      BY DEF TypeOK, Args
    <2>4. \A n \in SnapNames : n # args.snapshot => Named(n)' = Named(n)
      BY <2>1, <2>3 DEF Named
    <2>5. Named(args.snapshot)' # {}
      BY <2>1, <2>3 DEF Named, Ends
    <2>6. Usable' = Usable \cup {args.snapshot}
      <3>1. \A n \in SnapNames :
              (Named(n)' # {} /\ n \in disk'.held)
                <=> ((Named(n) # {} /\ n \in disk.held) \/ n = args.snapshot)
        BY <2>1, <2>2, <2>4, <2>5 DEF Ends
      <3> QED
        BY <3>1, <2>3 DEF Usable
    <2>7. Licence \in {"add", "replace"} /\ Licence' = "nothing"
      <3>1. args.cmd \in {"build", "snapshot"}
        BY <2>1 DEF CmdAtStep
      <3>2. pc' = "idle"
        BY <2>1 DEF Ends
      <3> QED
        BY <2>1, <3>1, <3>2 DEF Licence
    <2> QED
      BY <2>1, <2>6, <2>7 DEF Ends
  <1> QED
    BY <1>1, <1>2

LEMMA Simulates ==
  ASSUME Obeyed, IInv, [Next]_vars
  PROVE  [Lifecycle!LNext]_(Lifecycle!lvars)
  <1> USE DEF Lifecycle!LNext, Lifecycle!lvars, Lifecycle!Command,
              Lifecycle!Add, Lifecycle!GiveUp, Lifecycle!Licences
  <1>a. TypeOK /\ CmdAtStep /\ NothingOnNoDisk /\ OffDuringRebuild
    BY DEF IInv
  <1>b. args'.snapshot \in SnapNames
    BY <1>a, NextType DEF TypeOK, Args
  <1>1. CASE Usable' = Usable
    BY <1>1, <1>b, LicenceTypeNext
  <1>2. CASE Usable' # Usable
    <2>1. CASE TakeSnapshot
      BY <1>a, <1>2, <2>1, SnapshotAdds
    <2>2. CASE \/ TeardownSnapDelete \/ TeardownUndefine \/ TeardownUnlink
               \/ DestroyUndefine \/ DestroyUnlink
      BY <1>a, <2>2, GivesUp, LicenceTypeNext
    <2>3. ASSUME BuilderStep, ~TakeSnapshot, ~TeardownSnapDelete,
                 ~TeardownUndefine, ~TeardownUnlink, ~DestroyUndefine,
                 ~DestroyUnlink
          PROVE FALSE
      BY <1>a, <1>2, <2>3, BuilderFrame, UsableFrame
    <2>4. CASE Invoke \/ GuestStep \/ Killed \/ UNCHANGED vars
      <3>1. snaps' = snaps /\ disk'.held = disk.held
        BY <1>a, <2>4, DestroyWorks DEF TypeOK, Disk, Invoke, GuestStep, GuestProvisions,
          GuestBoots, AgentDies, GuestHalts, Killed, vars, host
      <3> QED
        BY <1>2, <3>1, UsableFrame
    <2> QED
      BY <2>1, <2>2, <2>3, <2>4 DEF Next
  <1> QED
    BY <1>1, <1>2

(* The builder implements GuestLifecycle: only a forced build or install    *)
(* past its preflight, or destroy, gives a usable snapshot up, and a        *)
(* command adds at most the snapshot it was asked for, wherever a call      *)
(* fails or the builder is killed (install, destroy, snapshot).  A virsh    *)
(* destroy that fails is left out: after it `destroy` leaves a domain whose *)
(* snapshots go when the guest halts, long after the command.               *)
THEOREM Refinement ==
  ASSUME Obeyed
  PROVE  Spec => KeepsLifecycle
  <1>1. Init => Lifecycle!LInit
    <2>1. ASSUME Init PROVE Usable = {} /\ Licence = "nothing"
      BY <2>1 DEF Init, Usable, Named, Licence
    <2>2. ASSUME Init PROVE args.snapshot \in SnapNames
      BY <2>2, InitType DEF TypeOK, Args
    <2> QED
      BY <2>1, <2>2 DEF Lifecycle!LInit
  <1>2. IInv /\ [Next]_vars => [Lifecycle!LNext]_(Lifecycle!lvars)
    BY Simulates
  <1> QED
    BY <1>1, <1>2, Inductive, PTL DEF Spec, KeepsLifecycle, Lifecycle!LSpec
-----------------------------------------------------------------------------
(* Metadata, domain and file stay together, where the calls succeed whose   *)
(* results the teardown ignores, and `clean` is the only name.              *)

Reliable ==
  /\ MayFail \cap {"snapdel", "destroy", "undefine"} = {}
  /\ SnapNames = {Clean}

\* What the order of the teardown gives up first: metadata, domain, file.
TornDown ==
  /\ dom = "absent" => snaps = {}
  /\ pc \in {"td_destroy", "td_undefine"} => snaps = {}
  /\ pc \in {"td_unlink", "de_unlink"} => dom = "absent"
  /\ pc \in {"disk", "resize", "seed", "virtinstall"} /\ ~Fails("dominfo")
       => dom = "absent"
Together == /\ TornDown /\ SnapshotsBacked
            /\ dom # "absent" => disk.data # "none"

LEMMA BuilderTogether ==
  ASSUME Reliable, IInv, Together, BuilderStep
  PROVE  Together'
  <1> USE DEF Together, TornDown, SnapshotsBacked, Goto, Await, Ends, Die,
              Continue, host
  <1>a. /\ disk \in Disk /\ dom \in {"absent", "off", "running", "transient"}
        /\ snaps \subseteq Snapshot /\ args \in Args
    BY DEF IInv, TypeOK
  <1>b. OffDuringRebuild /\ DiskUnderGuest /\ NothingOnNoDisk
    BY DEF IInv
  <1>c. ~Fails("snapdel") /\ ~Fails("undefine") /\ Obeyed
    BY DEF Reliable, Fails, Obeyed
  <1>1. CASE Preflight \/ CheckExists \/ BuildSeedIso
    BY <1>1 DEF Preflight, CheckExists, BuildSeedIso
  <1>2. CASE TeardownSnapDelete
    <2>1. \A s \in snaps : s.name = Clean
      BY <1>a DEF Snapshot, Reliable
    <2>2. snaps' = {}
      BY <1>2, <1>c, <2>1 DEF TeardownSnapDelete
    <2> QED
      BY <1>2, <2>2 DEF TeardownSnapDelete
  <1>3. CASE TeardownDestroy \/ ForceOff \/ DestroyDomain
    <2>1. /\ dom' = IF dom = "running" THEN "off" ELSE dom
          /\ disk' = disk /\ snaps' = snaps
      BY <1>3, <1>b, <1>c, DestroyWorks
         DEF TeardownDestroy, ForceOff, DestroyDomain, IInv
    <2> QED
      BY <1>3, <1>a, <2>1 DEF TeardownDestroy, ForceOff, DestroyDomain
  <1>4. CASE TeardownUndefine
    <2>1. snaps = {} /\ ~Up
      BY <1>4, <1>b DEF TeardownUndefine, OffDuringRebuild
    <2>2. dom' = "absent" /\ snaps' = {} /\ pc' = "td_unlink"
      BY <1>4, <1>a, <1>c, <2>1 DEF TeardownUndefine, Up
    <2> QED
      BY <2>2
  <1>5. CASE TeardownUnlink \/ DestroyUnlink
    <2>1. disk' = disk \/ disk' = NoDisk
      BY <1>5, <1>b, UnlinkOff DEF TeardownUnlink, DestroyUnlink, OffDuringRebuild
    <2> QED
      BY <1>5, <2>1 DEF TeardownUnlink, DestroyUnlink
  <1>6. CASE DestroyUndefine
    <2>1. ~Up
      BY <1>6, <1>b DEF DestroyUndefine, OffDuringRebuild
    <2>2. dom' = "absent" /\ snaps' = {} /\ pc' = "de_unlink"
      BY <1>6, <1>a, <1>c, <2>1 DEF DestroyUndefine, Up
    <2> QED
      BY <2>2
  <1>7. CASE CreateDisk \/ ResizeImage
    <2>1. UNCHANGED <<dom, snaps>> /\ pc' \in {"seed", "resize", "idle"}
      BY <1>7 DEF CreateDisk, ResizeImage, NewDisk
    <2>2. CASE CreateDisk
      BY <2>1, <2>2 DEF CreateDisk, NewDisk
    <2>3. CASE ResizeImage
      <3>1. disk'.held = disk.held /\ disk'.data \in {"image", disk.data}
        BY <2>3, <1>a DEF ResizeImage, Disk
      <3> QED
        BY <2>1, <2>3, <3>1 DEF ResizeImage
    <2> QED
      BY <1>7, <2>2, <2>3
  <1>8. CASE VirtInstall
    <2>1. /\ disk.data # "none"
          /\ dom = "absent" => snaps = {}
          /\ \A s \in snaps : s.name \in disk.held
      BY <1>8, <1>b DEF VirtInstall, DiskUnderGuest
    <2>2. /\ snaps' = snaps /\ disk' = disk /\ pc' \in {"wait1", "idle"}
          /\ dom' = "absent" => dom = "absent"
      BY <1>8 DEF VirtInstall
    <2> QED
      BY <2>1, <2>2
  <1>9. CASE WaitInstalled \/ WaitHardened \/ ShutdownGuest \/ StopPoll
    BY <1>9 DEF WaitInstalled, WaitHardened, WaitForAgent, ShutdownGuest,
                StopPoll
  <1>10. CASE EjectCdroms \/ ApplyStealth
    BY <1>10, <1>b DEF EjectCdroms, ApplyStealth, Harden, OffDuringRebuild
  <1>11. CASE StartGuest
    BY <1>11 DEF StartGuest
  <1>12. CASE TakeSnapshot
    <2>1. CASE Die
      BY <1>12, <2>1 DEF TakeSnapshot
    <2>2. CASE ~Die
      <3>1. \A s \in snaps' \ snaps : s.name = args.snapshot
        BY <1>12, <2>2 DEF TakeSnapshot
      <3>2. disk'.held = disk.held \cup {args.snapshot} /\ disk'.data = disk.data
        BY <1>12, <1>a, <1>b, <2>2 DEF TakeSnapshot, Disk, OffDuringRebuild
      <3>3. dom' = dom /\ Up /\ pc' = "idle"
        BY <1>12, <2>2 DEF TakeSnapshot
      <3> QED
        BY <3>1, <3>2, <3>3 DEF Up
    <2> QED
      BY <2>1, <2>2
  <1> QED
    BY <1>1, <1>2, <1>3, <1>4, <1>5, <1>6, <1>7, <1>8, <1>9, <1>10, <1>11,
       <1>12 DEF BuilderStep

LEMMA NextTogether ==
  ASSUME Reliable, IInv, Together, [Next]_vars
  PROVE  Together'
  <1> USE DEF Together, TornDown, SnapshotsBacked, Ends, host, tool
  <1>a. disk \in Disk /\ dom \in {"absent", "off", "running", "transient"}
    BY DEF IInv, TypeOK
  <1>1. CASE Invoke
    <2>1. disk'.data = disk.data /\ disk'.held = disk.held
      BY <1>1, <1>a DEF Invoke, Disk
    <2>2. pc' \in {"preflight", "wait2", "de_destroy", "stealth", "eject",
                   "snapshot"}
      BY <1>1 DEF Invoke, CommandLines, Args, Commands
    <2> QED
      BY <1>1, <2>1, <2>2 DEF Invoke
  <1>2. CASE GuestProvisions
    BY <1>2, <1>a DEF GuestProvisions, Disk
  <1>3. CASE GuestBoots \/ AgentDies
    BY <1>3 DEF GuestBoots, AgentDies
  <1>4. CASE GuestHalts
    <2>1. /\ dom' = IF dom = "running" THEN "off" ELSE dom
          /\ disk' = disk /\ snaps' = snaps
      BY <1>4, DestroyWorks DEF GuestHalts, Reliable, Obeyed, IInv
    <2> QED
      BY <1>4, <2>1 DEF GuestHalts
  <1>5. CASE Killed
    BY <1>5 DEF Killed
  <1>6. CASE UNCHANGED vars
    BY <1>6 DEF vars
  <1> QED
    BY <1>1, <1>2, <1>3, <1>4, <1>5, <1>6, BuilderTogether DEF Next, GuestStep

(* No metadata without the snapshot in the file, at any step of any command *)
(* and wherever one is killed: install and destroy give the metadata up     *)
(* before the file.                                                         *)
THEOREM MetadataIsBacked ==
  ASSUME Reliable
  PROVE  Spec => []SnapshotsBacked
  <1>0. Obeyed
    BY DEF Reliable, Obeyed
  <1>1. Init => Together
    BY DEF Init, Together, TornDown, SnapshotsBacked
  <1>2. IInv /\ Together /\ [Next]_vars => Together'
    BY NextTogether
  <1>3. Together => SnapshotsBacked
    BY DEF Together
  <1> QED
    BY <1>0, <1>1, <1>2, <1>3, Inductive, PTL DEF Spec

(* A domain that is defined between two commands has its disk: it is        *)
(* undefined before the qcow2 is unlinked, and virt-install comes last.     *)
THEOREM DomainKeepsDisk ==
  ASSUME Reliable
  PROVE  Spec => []DomainHasDisk
  <1>0. Obeyed
    BY DEF Reliable, Obeyed
  <1>1. Init => Together
    BY DEF Init, Together, TornDown, SnapshotsBacked
  <1>2. IInv /\ Together /\ [Next]_vars => Together'
    BY NextTogether
  <1>3. Together => DomainHasDisk
    BY DEF Together, DomainHasDisk
  <1> QED
    BY <1>0, <1>1, <1>2, <1>3, Inductive, PTL DEF Spec

\* --force does what its help text says, an old domain is gone before the new
\* disk is made, where it is seen (dominfo), the ignored calls succeed and the
\* snapshot is called clean; GuestForce.cfg shows that it does not under another name.
THEOREM ForceWorks ==
  ASSUME Reliable, "dominfo" \notin MayFail
  PROVE  Spec => []ForceTearsDown
  <1>0. Obeyed
    BY DEF Reliable, Obeyed
  <1>1. Init => Together
    BY DEF Init, Together, TornDown, SnapshotsBacked
  <1>2. IInv /\ Together /\ [Next]_vars => Together'
    BY NextTogether
  <1>3. Together => ForceTearsDown
    BY DEF Together, TornDown, ForceTearsDown, Fails
  <1> QED
    BY <1>0, <1>1, <1>2, <1>3, Inductive, PTL DEF Spec
-----------------------------------------------------------------------------
(* The length of an invocation.                                             *)

LEMMA AheadType ==
  \A p : Ahead(p) \in Nat /\ Ahead(p) <= Ahead("preflight")
  BY GuestAssumption DEF Ahead

LEMMA BuilderAdvances ==
  ASSUME TypeOK, BuilderStep
  PROVE  StepsLeft' < StepsLeft
  <1> USE GuestAssumption DEF StepsLeft, Ahead, Goto, Await, Ends, Die, Continue
  <1>a. polls \in Nat
    BY DEF TypeOK
  <1>1. CASE Preflight \/ CheckExists
    BY <1>1, <1>a DEF Preflight, CheckExists
  <1>2. CASE TeardownSnapDelete \/ TeardownDestroy \/ TeardownUndefine
             \/ TeardownUnlink
    BY <1>2, <1>a DEF TeardownSnapDelete, TeardownDestroy, TeardownUndefine,
                      TeardownUnlink
  <1>3. CASE CreateDisk \/ ResizeImage \/ BuildSeedIso
    BY <1>3, <1>a DEF CreateDisk, ResizeImage, BuildSeedIso
  <1>4. CASE VirtInstall
    BY <1>4, <1>a DEF VirtInstall
  <1>5. CASE WaitInstalled \/ WaitHardened
    BY <1>5, <1>a DEF WaitInstalled, WaitHardened, WaitForAgent
  <1>6. CASE ShutdownGuest \/ StopPoll \/ ForceOff
    BY <1>6, <1>a DEF ShutdownGuest, StopPoll, ForceOff
  <1>7. CASE EjectCdroms \/ ApplyStealth \/ StartGuest
    BY <1>7, <1>a DEF EjectCdroms, ApplyStealth, StartGuest
  <1>8. CASE TakeSnapshot
    BY <1>8, <1>a DEF TakeSnapshot
  <1>9. CASE DestroyDomain \/ DestroyUndefine \/ DestroyUnlink
    BY <1>9, <1>a DEF DestroyDomain, DestroyUndefine, DestroyUnlink
  <1> QED
    BY <1>1, <1>2, <1>3, <1>4, <1>5, <1>6, <1>7, <1>8, <1>9 DEF BuilderStep

LEMMA OthersDoNotDelay ==
  ASSUME TypeOK, [Next]_vars, ~Invoke
  PROVE  StepsLeft' <= StepsLeft
  <1>a. StepsLeft \in Nat /\ StepsLeft' \in Nat
    BY NextType, AheadType DEF TypeOK, StepsLeft
  <1>1. CASE BuilderStep
    BY <1>1, <1>a, BuilderAdvances
  <1>2. CASE GuestStep \/ UNCHANGED vars
    <2>1. UNCHANGED tool
      BY <1>2 DEF GuestStep, GuestProvisions, GuestBoots, AgentDies, GuestHalts,
                  vars
    <2>2. StepsLeft' = StepsLeft
      BY <2>1 DEF tool, StepsLeft, Ahead
    <2> QED
      BY <1>a, <2>2
  <1>3. CASE Killed
    <2>1. StepsLeft' = 0
      BY <1>3 DEF Killed, Ends, StepsLeft, Ahead
    <2> QED
      BY <1>a, <2>1
  <1> QED
    BY <1>1, <1>2, <1>3 DEF Next

LEMMA InvokeBudget ==
  ASSUME Invoke
  PROVE  StepsLeft' <= Ahead("preflight")
  BY GuestAssumption DEF Invoke, StepsLeft, Ahead, CommandLines, Args, Commands

(* No invocation takes more than 19 steps and its three waiting loops, for  *)
(* any deadlines and whatever fails: the length is bounded when it starts   *)
(* and only its own steps use it up.                                        *)
THEOREM Bounded == Spec => InvocationIsBounded
  <1> DEFINE Short == StepsLeft <= Ahead("preflight")
  <1>1. Init => Short
    BY AheadType, GuestAssumption DEF Init, StepsLeft, Ahead
  <1>2. TypeOK /\ Short /\ [Next]_vars => Short'
    <2> SUFFICES ASSUME TypeOK, Short, [Next]_vars PROVE Short'
      OBVIOUS
    <2>1. Ahead("preflight")' = Ahead("preflight")
      BY DEF Ahead
    <2>2. StepsLeft \in Nat /\ StepsLeft' \in Nat /\ Ahead("preflight") \in Nat
      BY NextType, AheadType DEF TypeOK, StepsLeft
    <2>3. CASE Invoke
      BY <2>1, <2>3, InvokeBudget
    <2>4. CASE ~Invoke
      BY <2>1, <2>2, <2>4, OthersDoNotDelay
    <2> QED
      BY <2>3, <2>4
  <1>3. TypeOK /\ [Next]_vars
          => [/\ BuilderStep => StepsLeft' < StepsLeft
              /\ StepsLeft' > StepsLeft => Invoke]_vars
    <2> SUFFICES ASSUME TypeOK, [Next]_vars
                 PROVE /\ BuilderStep => StepsLeft' < StepsLeft
                       /\ StepsLeft' > StepsLeft => Invoke
      OBVIOUS
    <2>1. StepsLeft \in Nat /\ StepsLeft' \in Nat
      BY NextType, AheadType DEF TypeOK, StepsLeft
    <2> QED
      BY <2>1, BuilderAdvances, OthersDoNotDelay
  <1> QED
    BY <1>1, <1>2, <1>3, TypeCorrect, PTL DEF Spec, InvocationIsBounded
=============================================================================
