# TLA+ specifications of CapeV2-AutoInstall

These modules specify the scripts that turn an Ubuntu host into a CAPE sandbox:
`capevm.py` builds the analysis guests, `cape-deploy.sh` runs the stages of the
deployment, `netiso.sh` contains the guests, `watchdog.sh` keeps the sandbox in
order, `smoketest.sh` tries it, and `rulegen.py`, `cape-export.py` and
`navlayer.py` make rules, events and a layer of its reports. They are checked
with TLC on small instances, and the safety properties are proved with TLAPS for
every value of the constants.

Paths below are relative to the repository's root; `module!Name` is a definition.

## 1. Inventory

| Part | Source | State it keeps | Operations |
|---|---|---|---|
| Guest builder | `capevm.py` | in libvirt: domain, stored XML, running XML, snapshot metadata; on disk: the qcow2 with its internal snapshots; in the process: position in the command, flags, deadlines | `build`, `install`, `stealth`, `eject`, `wait`, `snapshot`, `destroy` (also `genconf`, `clone-dmi`, `selftest`) |
| Guest identity, answer files | `capevm.py` | none (pure functions of the configuration) | `gen_smbios`, `cpu_topology`, `render_*`, `transform_domain_xml` |
| Network isolation | `netiso.sh` | the nftables table `sandbox_iso`; the kernel's conntrack outlives it | `apply`, `down`, `verify`, `status`, `dry-run` |
| Deployment driver | `cape-deploy.sh` | what is installed, MongoDB and its hold, `kvm.conf`, `cuckoo.conf`, the services | 13 stages and `all` |
| TLS of the web interface | `cape-deploy.sh` `stage_tls` | certificate, nginx vhost, a block in `settings.py` | `tls` |
| Watchdog | `watchdog.sh` | `ISSUES` during a run; it acts on services, VMs and old results | `check`/`status`, `reap`, `install-timer` |
| Smoke test | `smoketest.sh` | one task of CAPE's API | submit, poll, judge |
| Configuration layers | `sandbox.conf`, all scripts | defaults, file, environment, flags | sourcing and parsing |
| Indicators | `capelib.py` | `IOCSet` | `extract` and the classifiers |
| Rule generation | `rulegen.py` | output files, SID counter | Suricata, YARA, Sigma |
| ATT&CK layer | `navlayer.py` | output file | merge of technique scores |
| Export | `cape-export.py` | output file, a MISP event | formatting, one HTTP call |

How they interact. `cape-deploy.sh` is the driver: `buildvm` runs
`capevm.py build` once per entry of `VM_LIST`, `netiso` runs `netiso.sh apply`,
`smoketest` runs `smoketest.sh`. They are processes started one after another;
what they share is the host: libvirt's domains and snapshots, the qcow2 files,
CAPE's `conf/`, the nftables table, systemd units. CAPE itself works on the same
objects at the same time: its scheduler reverts and starts VMs, writes into
`analyses/`, and its services go up and down. `watchdog.sh` runs from a timer
beside all of this. The `tls` stage restarts the `cape-web` the smoke test talks
to. The three report tools share CAPE's reports and an output directory:
`navlayer.py` reads the Sigma files `rulegen.py` writes.

What is hard:

* every step is a subprocess whose result is checked, ignored or only warned
  about, and the choice decides what a later step may rely on;
* a run can be killed between any two calls, and is then simply run again, on
  what the first one left;
* `set -Eeuo pipefail` ends a script at the first failure, except inside
  `stage || warn`, and a status can be that of the wrong command;
* conntrack, a loaded ruleset, a qcow2 file and snapshot metadata outlive the
  run that made them;
* ages, states and existence are read first and acted on later, while CAPE goes
  on.

What makes each part correct (the properties in section 4 are these, made
precise):

* guest builder: a build that says "complete" leaves a snapshot CAPE can revert
  to, of a provisioned guest that booted the hardened XML; a snapshot is lost
  only to a command that was told to replace or remove the guest; metadata,
  domain and disk stay together through kills and failures; every command ends;
* isolation: each mode opens exactly what its header says, whatever the order of
  the rules; what gets through against the mode was opened before it; the
  kill-switch holds while uplink and route move; CAPE still reaches its guests;
* driver: isolation before services; repeating a stage does no harm; only a
  forced run costs a ready guest; a silent run did its work;
* watchdog: `check` changes nothing; `reap` touches only what is stuck or old;
  "healthy" means that nothing was found;
* smoke test: a verdict is that of the submitted task and comes in time;
* tls: repetition leaves one settings block; nginx is not left broken by it; a
  cape-web that answers accepts the origin;
* configuration and identity: the driver and `capevm.py` work with the same
  settings; no tell is left in a hardened guest; libvirt takes the XML;
* indicators, rules, layer, export: no indicator lost or doubled, nothing
  safelisted given out, no SID used twice, a merge that does not depend on the
  order of files.

All hazards, each at its line, are listed in `PROJECT.json`.

## 2. Modules

| Module | Contents |
|---|---|
| `GuestBuild` | `capevm.py` on one guest name; libvirt, the guest and the operator |
| `GuestLifecycle` | the abstract specification: what the builder promises about snapshots |
| `MCGuestBuild` | instance for TLC |
| `GuestBuild_proofs` | theorems about `GuestBuild`, and that it implements `GuestLifecycle` |
| `NetIso`, `MCNetIso`, `NetIso_proofs` | `netiso.sh` over conntrack and an uplink |
| `Deploy`, `MCDeploy`, `Deploy_proofs` | `cape-deploy.sh` over several guests, CAPE, reboots; implements `GuestLifecycle` for each guest |
| `Watchdog`, `MCWatchdog`, `Watchdog_proofs` | `watchdog.sh` beside CAPE |
| `GuestShape`, `MCGuestShape`, `GuestShape_proofs` | configuration layers, DMI clone, SMBIOS identity, CPU topology, XML transform |
| `WebService` | cape-web as the two modules below share it |
| `SmokeTest` | `smoketest.sh` and CAPE's task |
| `TlsStage` | `stage_tls` of `cape-deploy.sh` |
| `WebUi`, `MCWebUi`, `WebUi_proofs` | the composition of these three |
| `Iocs` | `capelib.py`: indicators of a report, as operators |
| `RuleGen`, `RuleGen_proofs` | `rulegen.py`: rules of a report and the files of a run, as operators |
| `Intel`, `MCIntel`, `Intel_proofs` | `rulegen.py`, `cape-export.py`, `navlayer.py` as processes over them |

### GuestBuild

One guest name. `dom`, `cfgd`, `live`, `disk`, `snaps` are libvirt's view of it
(`virsh domstate`, the stored XML, the XML the running qemu was started from,
the qcow2, the snapshot metadata), `agent` whether `agent.py` answers. `pc` is
the next subprocess call of the builder, `args` its command line, `polls` what
is left of a deadline, `rc` how the last invocation ended.

`main`'s commands become sequences of steps; `Continue(s)` goes on to `s` in
`build` and ends the command that consists of this one step. The teardown of a
forced `install` is four actions (snapshot-delete, destroy, undefine, unlink)
since a kill between any two is what is interesting; `destroy` is three. Each
action has a disjunct for success and, where the code can see a failure, one
for it (`die`, or go on if the result is ignored). `MayFail` names the calls
that may fail in an instance. `own` and `os` in a snapshot are history: was the
disk created by this invocation, was the guest provisioned.

Around it: `GuestProvisions`, `GuestBoots`, `AgentDies`, `GuestHalts` (the
guest obeys a shutdown, crashes, or the host goes down), and `Killed`.

What an ignored result leads to is part of the model. A `virsh destroy` that
fails (`VirshDestroy`) leaves the guest up; an `undefine` then makes its domain
`transient`, and an unlinked qcow2 a running qemu has open is `stray`. A
`dominfo` that fails says that there is no domain (`CheckExists`). `virsh dumpxml`
gives the XML a running domain was started from (`Dumped`), not the stored one.

Abstractions: the content of the XML is reduced to attached media, hardened or
not, and the hardware shown (`plain`, `topology`, `dimm`); a disk to how far it
has got. All CD-ROMs are ejected in one step, and the second `define`, without
the DIMM block, is part of the step that made the first (`ApplyStealth`).

### GuestLifecycle

Three variables: the usable snapshots, the licence of the running command
(`nothing`, `add`, `replace`) and the name it was given. A snapshot is given up
only under `replace`; only the asked-for name is added, and at most one in a
command. `GuestBuild!Lifecycle` is the refinement mapping: a snapshot is usable
when the metadata and the file both have it, and the licence comes from the
command, `--force` and the step.

### NetIso

The ruleset is a predicate on packets, chain by chain in the order of the rules
(`Screened`, conntrack, `InputAccepts`/`ForwardAccepts`, drop). A packet is a
family, source, protocol, destination class and port class. Flows are the
conntrack entries with the destination after DNAT, the interface they are
masqueraded for, and the mode they were born in. `Apply` replaces the rules in
one transaction and leaves the flows alone, as `nft -f` does. Uplink and default
route move at any time.

Frames from guest to guest meet the forward hook only where `br_netfilter` is
on, which `netiso.sh` does not see to: `bridgenf` says whether it is, and
`Bridged(p)` are the packets the table never sees. A private address is a network
the host is on (`lan`) or one behind the default route (`private`).

Assumed of the kernel: a masqueraded flow is dropped where it would leave by
another interface than its own, and purged when that interface goes down.
`FAKENET_IP` is the host (the default in `sandbox.conf`): in simulated mode the
guests reach every tcp and udp port of it. Commands that only read
(`verify`, `status`, `dry-run`) are not actions.

### Deploy

A command line is a sequence of stages (`Invocations`, `rest`); `NextStage` is the
loop of `main`, and a FORCE that `all` has set stays for the stages after it. Each
stage is an action, or several where a kill in the middle matters: deps (decide and
purge, install, hold), buildvm (begin, return, for each guest), register (the
`kvm.conf` of all guests, delete the machinery line, add it). Missing files are
failures of their own: the scripts beside the driver or the ISO (`files`), nft
(`nftables`), `cuckoo.conf` or its section (`cuckoo`, `section`). `Completes`
follows the order of `all`; `ReturnsOne` is `set -e`, with the `stage || warn` of
`all` (`Guarded`); `Die` ends the script in every case. A guest is `absent`,
`broken` (a domain without a usable snapshot) or `ready`, an abstraction of what
`GuestBuild` says: `BuildBegins` is the refusal or the teardown, which leaves the
guest as it was when every call of it fails (`TornDown`), `BuildReturns` the result.
`Deploy!Guest(v)` maps each guest to a `GuestLifecycle` whose one snapshot is
`clean`, usable when the guest is `ready`, with the licence of a run to replace only
while the guest's entry is to come or in hand and the run is forced (`Licence`). So
both levels, the driver and the builder, implement the same abstract specification.
CAPE starts analyses on guests it has read from `kvm.conf`; a reboot loses the
table, picks a kernel, and starts the enabled services.

Assumed of the environment: `cape2.sh` pulls MongoDB 8.0 unless apt holds the
packages, and leaves configuration that exists. A forced build of a guest with
an analysis on it ends that analysis. `tls`, which `all --tls` runs guarded
between services and verify, touches nothing of this state; it is `TlsStage`.

### Watchdog

The position in the script (`pc`, the loop index `i`, `any`), `ISSUES`, and the
world it looks at: units, the qemu process of each VM by age, the analysis CAPE
has on it, and the directories by age. Every look (`pgrep`, `ps`, the `find`)
and every act (`snapshot-revert`, `rm`) is its own action, CAPE's steps come in
between. `seen` is history: the parts that were unhealthy at the moment they
were looked at.

### GuestShape

The way from the lines of `sandbox.conf`, the environment and the flags to the XML
libvirt stores. `ShellValue` is what sourcing the file gives the driver,
`ApplySandboxConf` what `capevm.py`'s own parser makes of the same lines,
`DriverFlags` the command line between them. The two readers are two operators
(`Sourced`, `Parsed`), as a line may be written in a form (`Forms`) one of them
takes differently: after `export`, or with an expansion on the right. `GenSmbios`,
`CpuTopology` and `Transform` are the functions of these names, `ApplyStealth` with
the second `define` without the DIMM block. The state is what outlives a command:
the file, the cloned DMI profile, the domain. One setting stands for each kind (a
number, a flag that can only be set, one that can be unset, a string, the DMI
settings); an XML element is a count or a flag, so that a second transform that
would add a second one is seen. The steps, failures and kills of a command are
`GuestBuild`'s matter and are not repeated here.

### WebService, SmokeTest, TlsStage, WebUi

`SmokeTest` is the position in the script, the polls left, the verdict, and CAPE's
task on the other side. A request may be refused, be lost, or take effect without
its reply arriving; `outage` and `late` are history and tell which verdicts are
excused. No request has a time limit: the script waits at `asked` while `SlowAnswer`
uses up the rounds to the deadline, and `ViewTask` is the answer, or the refusal,
when it comes. `TlsStage` writes key, certificate, vhost and settings block one
after another, and may be killed between (and during) any two. What `nginx -t` says
of other vhosts is anything, so it may refuse for their sake. `WebService` is what
both use: cape-web, which reads `settings.py` when it starts; the stage restarts it
under the test. `WebUi` is their interleaving.

### Iocs, RuleGen, Intel

`Iocs` and `RuleGen` are operators: from a report (a record of the parts the
code reads) to an indicator set, alerts with SIDs, YARA and Sigma rules, and the
sequence of files a run writes. A string of a report is a record of what the
regular expressions tell apart (URL, address, domain, none), its host, and
whether blanks surround it: `Classify` and the strings of a YARA rule strip
them, the safelists do not. Extracted configurations are read from `CAPE.configs`,
and by `capelib.py` alone, where there are none, from `malconf`.
`Intel` adds the processes: `rulegen` opens, fills and closes file after file
(an open one is empty: `Partial`), `cape-export` pushes, falls back to the file
and writes the STIX bundle, `navlayer` lists the Sigma directory and reads one
file after another while `rulegen` may be writing there. `nav.stable` is the
files that were there in full for the whole run of `navlayer`. A run may be
killed anywhere; a push may be refused, take effect and lose its reply, or be
answered with a 2xx status and stored nowhere (`hollow`).

## 3. Plan

Done, in this order: guest builder with its lifecycle, isolation, watchdog,
driver; then the web interface (smoke test and tls together), guest identity and
configuration, the report tools; then the invariants of all of them proved.

Left:

1. A composition of `Deploy` with `GuestBuild`. Both implement `GuestLifecycle`
   (`KeepsLifecycle` in each), so what may become of a usable snapshot is the same
   at both levels; that a guest `Deploy` calls `ready` after a build is one
   `BuildYieldsSnapshot` speaks of is read off the two modules, and no module states it.
2. The retention timer: `install-timer` with several watchdogs at once.

## 4. Runs

Passing runs. Deadlock is checked in all of them.

* **guest** (`MCGuestBuild.cfg`, 85 thousand states). Any sequence of commands
  on a Windows or a Linux guest, all failures except those of snapshot-delete,
  destroy and undefine, kills, a guest that halts or loses its agent at any time.
  - `BuildYieldsSnapshot`: success means a usable, hardened, provisioned snapshot.
  - `SnapshotsBacked`: no metadata without the snapshot in the file, at any step.
  - `DomainHasDisk`: between invocations a domain has its disk.
  - `KeepsLifecycle`: the refinement of `GuestLifecycle`.
  - `InvocationEnds`: every invocation ends.
  Bounds: one guest (guests share nothing but the ISO files), the name `clean`
  (other names are the subject of *guest_force*), two agent polls and one
  shutdown poll: enough for "at once", "late" and "never". The three
  excluded failures are those of calls whose results the code ignores and relies
  on. With a failing `undefine` or snapshot-delete `SnapshotsBacked` and
  `DomainHasDisk` do not hold; with a failing `destroy` neither `BuildYieldsSnapshot`
  nor `KeepsLifecycle` does (below).
* **netiso** (`MCNetIso.cfg`, 20 thousand states). All modes with and without
  `ALLOW_DHCP_DNS` and `br_netfilter`, one packet for each way through the rules,
  two flows at once (an old one and a new one, or one of the guest's and one of
  CAPE's; no rule relates more).
  - `NewFlowsFollowMode`: a guest can open the flows its mode documents, all of
    them and no other; frames the table never sees are left out.
  - `OnlyOldFlowsLeak`: what passes against the mode was opened with no table
    loaded, or, to the internet, in gateway mode.
  - `KillSwitch`, `AnalysisWorks`.
  `LibvirtNat = FALSE`: gateway mode has to do with its own masquerade rule.
* **watchdog** (`MCWatchdog.cfg`, 114 thousand states). `check` and `reap` with
  and without retention, over two services, two VMs (a turn that is not the last
  and the last), two directories, everything ageing and failing in between.
  - `CheckIsReadOnly`, `PruneSparesAnalyses`, `HealthyIsHonest`, `WatchdogEnds`.
* **deploy** (`MCDeploy.cfg`, 732 thousand states). Three command lines of two
  stages (`all buildvm`, `register deps`, `update-policy buildvm`) in any order,
  again and again, with FORCE unset, 0 or 1, two guests, both kernels, all failures
  except nft's and a missing section, kills, reboots and analyses. A run that dies in
  its first stage is that stage alone; the stages not named run within `all`.
  - `ServicesAfterIsolation`, `MachineryOnce`, `MongoFitsKernel`,
    `BuiltOrWarned`, `KeepsLifecycle` (the refinement of `GuestLifecycle`, for every
    guest), `DeployEnds`.
* **shape** (`MCGuestShape.cfg`, 36 thousand states). `sandbox.conf` of up to two
  lines out of six (a number, a flag off and empty, an unknown SMBIOS profile, an
  exported flag, an expansion), four environments, three command lines, both
  platforms, a DMI dump with and one without a manufacturer; installs, hardenings,
  builds and the driver's stages in any order. Two lines are enough for one key set twice and two keys
  set once; more lines repeat this.
  - `NoTell`, `BuildNeverBreaks`, `Repeatable`.
  - `DeployAgrees`: driver and builder come to the same settings where the values
    are documented ones in the documented form, and to the preset identity where
    `REFERENCE_DMI` is empty, except beside a stale profile (`StaleProfile`).
* **webui** (`MCWebUi.cfg`, 767 thousand states). Both scripts again and again,
  two polls, two server names nginx takes and one it does not, other vhosts of which
  `nginx -t` may say anything, cape-web down and up, slow answers, kills.
  - `VerdictIsHonest`, `OneBlock`.
  - `OriginAccepted`: after a run that ended well a cape-web that answers trusts the
    name of the run, except where the settings block has another name (`Renamed`) or
    a restart is owed (`unread`).
  - `NginxNotLeftBroken`: of runs that get to `nginx -t`.
  - `ScriptsEnd`: of the smoke test as long as requests are answered.
  Two polls tell "found at once", "found later" and "never"; a third repeats the
  second.
* **intel** (`MCIntel.cfg`, 65 thousand states). Two reports of one task, the
  second a later run of its processing with parts missing; `rulegen` for all
  rules or Sigma only, the two other tools, kills. The first report holds each
  case the generators tell apart: a name met in three protocols, safelisted ones
  in each, a dynamic and a fixed path, a padded value, a string too dull for
  YARA, a benign and a telling command. Four strings bound a YARA rule instead of
  twenty, so that the bound is met.
  - `RulesAreUsable`, `RerunAddsNothing`, `LayerCovers`.
  - `OnlyThreeGaps`: what is safelisted gets into rules or events by the three
    gaps listed below and by no other.
  - `ExportComplete`: no event is lost, unless a reply that stored nothing was
    believed.
  The constraint `ExportAlone` explores `cape-export` apart from the other two
  tools, with which it shares no file it reads or writes, and ends a behaviour at the
  first layer, which no tool reads. `Intel_proofs` proves all of these properties
  without it.

Runs that end in a counterexample, each for one statement of the repository the
code does not keep:

| Run | Property | What happens |
|---|---|---|
| guest_force | `ForceTearsDown` | The teardown deletes the metadata of the snapshot `clean` only. With `--snapshot` of another name, `undefine` is refused, its result ignored, the disk unlinked, and virt-install meets the old domain (README.md:388-391 says force tears it down). |
| guest_stale | `ForcedBuildStartsClean` | A Linux build that failed at `qemu-img resize` leaves a disk without a domain. A forced build tears nothing down, reuses the file as it is and snapshots a guest installed on it. |
| netiso_switch | `IsolatedReachesHostOnly` | A flow to the internet opened in gateway mode goes on after `apply --mode isolated`: the conntrack rule comes first, and nothing flushes conntrack (netiso.sh:11-12). Flows opened before any table was loaded, and frames the table never sees, are left out. |
| watchdog_reports | `EveryRunReports` | With a VM running, `check_stuck_vms` ends in a test that fails, and `set -e` ends the script before retention and the report. |
| deploy_contained | `AnalysesContained` | nft refuses the ruleset, `all` warns and starts the services: an analysis runs with no table. |

`PROJECT.json` quotes the line of the repository behind each.

The models show more that a maintainer may want to know and that has no run of its
own. The model takes these steps; where a property would be violated by them it
names the exception, and TLC refutes it without.

Of the builder and the driver:

* A guest that neither halts nor is destroyed (capevm.py:1161-1162, result
  ignored) stays up unhardened: `start` is refused and that is ignored too, the old
  agent answers, and the guest is snapshotted under "Build complete".
* `stealth` alone with other `--cpus` than at install gives an XML libvirt
  refuses: `transform_domain_xml` writes the topology, not the vCPU count.
* An `SMBIOS_PROFILE` that is none of the presets gives a Dell identity and a
  MAC address of Intel's.
* A DMI profile of an earlier run is used although `REFERENCE_DMI` is empty now
  (cape-deploy.sh:491 looks for the file only), against "empty = preset"
  (sandbox.conf:62, cape-deploy.sh:423).
* A line of `sandbox.conf` after `export`, or with an expansion, is read by the
  shell and not, or not so, by `parse_shell_conf` (capevm.py:1328-1347).
* `deps` killed between installing MongoDB 7.0 and `apt-mark hold`
  (cape-deploy.sh:302) is not made good by the next `deps`, which returns early.

Of isolation:

* In simulated mode all tcp and udp ports of the simulator are open
  (netiso.sh:79), and by default the simulator is the host; the header names the
  result server and DHCP/DNS as the only host services exposed (netiso.sh:23).
* "Guest-to-guest is blocked" (netiso.sh:22) rests on `br_netfilter`, which no
  script of the repository loads.

Of the web interface:

* An `nginx -t` that fails for another vhost's sake removes a TLS vhost that
  worked, and every run overwrites it first (cape-deploy.sh:639-660); README.md:265
  says that an existing vhost is left alone.
* A second run with another `TLS_SERVER_NAME` leaves the old name in `settings.py`
  (cape-deploy.sh:666-667); a kill before the restart of cape-web, or a restart that
  fails (685), is made good by no later run.
* An `openssl` that fails after writing the key ends the stage with status 0,
  beside an older vhost whose pair nginx then refuses.
* `curl` has no time limit (smoketest.sh:80, 86): a cape-web that takes a request
  and never answers it keeps the smoke test past `--timeout-min`, which is looked at
  between requests only (113).

Of the watchdog:

* `list-unit-files | grep -q` (watchdog.sh:65) fails under `pipefail` when grep
  ends first; a dead unit is then taken for one that is not installed.
  `HealthyIsHonest` leaves services out for this.
* Between `ps` and `snapshot-revert` (watchdog.sh:103) CAPE may end the stuck
  analysis and start another one, which `reap` then reverts.

Of the report tools:

* Three ways past the safelists, against ROADMAP.md:87: an HTTP alert on a
  safelisted address, a name or value between blanks, and URLs, which are exported
  whatever their host (rulegen.py:133-145, capelib.py:92-99). A JA3 rule is
  written whatever the SNI beside it.
* Any JSON object with a 2xx status is taken for a created event
  (cape-export.py:78-81): one that stored nothing leaves the event neither on the
  server nor in a file.
* Old Sigma files of an earlier report of a task stay and go into the next layer;
  a file `rulegen` is rewriting can be missed by `navlayer`; an event whose
  reply was lost is pushed a second time by the next run.

## 5. Fairness

Liveness is checked under weak fairness of the scripts' own steps (`BuilderStep`,
`ScriptStep`, and in `WebUi` `SmokeStep` and `TlsStep` each for itself), and of
nothing else. Each script is one process that waits for its subprocesses; the
assumption is that a subprocess returns. `curl` is the exception: without a time
limit it returns when cape-web lets it, so the answers to requests (`SmokeAnswer`)
are not fair steps, and `ScriptsEnd` says of the smoke test only that it ends if
its requests are answered again and again (`[]<>(step \notin Awaiting)`). Nothing is
assumed of the guest, of CAPE, of cape-web or of the operator: a guest need not
boot, an agent need not answer, a task need not end, and the loops end at their
deadlines. A kill may end
a run, it need not. A long `virt-install` or `apt-get` that never returns is
outside of it, as the code has no timeout there. `GuestShape` and `Intel` state no
liveness: their commands are single steps or straight lines.

## 6. What is proved

All theorems hold for all values of the constants under the assumptions named in
the modules (`GuestAssumption`, `NetAssumption`, `DeployAssumption`,
`WatchdogAssumption`, `ShapeAssumption`, `RoundsAssumption`, `TlsAssumption`,
`IntelAssumption`), which TLC evaluates on every run. They are types of the
constants, with these exceptions: the names of `VM_LIST` differ
(`WatchdogAssumption`); `VM_LIST` and the directories of `analyses/` are finite
(`DeployAssumption`, `WatchdogAssumption`), which only the bounds on the length of a
run use; no server name is called "none" or "partial", which the
model uses for a missing and a half-written vhost (`TlsAssumption`); and the
reports are what `json.load` can give (`Iocs!IsReport` in `IntelAssumption`): their
lists are sequences, everything in them is finite, and a name asked of DNS is no
URL.

| Theorem | States |
|---|---|
| `GuestBuild_proofs!TypeCorrect` | `Spec => []TypeOK` |
| `GuestBuild_proofs!BuildSound` | `Spec => []BuildYieldsSnapshot`, under `Obeyed` |
| `GuestBuild_proofs!Refinement` | `Spec => KeepsLifecycle`, under `Obeyed` |
| `GuestBuild_proofs!MetadataIsBacked` | `Spec => []SnapshotsBacked`, under `Reliable` |
| `GuestBuild_proofs!DomainKeepsDisk` | `Spec => []DomainHasDisk`, under `Reliable` |
| `GuestBuild_proofs!ForceWorks` | `Spec => []ForceTearsDown`, under `Reliable` and `"dominfo" \notin MayFail` |
| `GuestBuild_proofs!Bounded` | `Spec => InvocationIsBounded` |
| `NetIso_proofs!TypeCorrect` | `Spec => []TypeOK` |
| `NetIso_proofs!RulesFollowHeader` | `Spec => []NewFlowsFollowMode` |
| `NetIso_proofs!KillSwitchHolds` | `Spec => []KillSwitch` |
| `NetIso_proofs!OldFlowsOnly` | `Spec => []OnlyOldFlowsLeak` |
| `NetIso_proofs!CapeKeepsGuests` | `Spec => []AnalysisWorks` |
| `Deploy_proofs!TypeCorrect` | `Spec => []TypeOK` |
| `Deploy_proofs!IsolationFirst` | `Spec => []ServicesAfterIsolation` |
| `Deploy_proofs!RegisterIsIdempotent` | `Spec => []MachineryOnce` |
| `Deploy_proofs!FollowsLifecycle` | `Spec => KeepsLifecycle` |
| `Deploy_proofs!KeepsReadyGuests` | `Spec => UnforcedKeepsVMs` |
| `Deploy_proofs!BuildvmIsHonest` | `Spec => []BuiltOrWarned` |
| `Deploy_proofs!DepsIsHonest` | `Spec => []MongoFitsKernel` |
| `Deploy_proofs!Bounded` | `Spec => RunIsBounded` |
| `Watchdog_proofs!TypeCorrect` | `Spec => []TypeOK` |
| `Watchdog_proofs!Honest` | `Spec => []HealthyIsHonest` |
| `Watchdog_proofs!ReadOnly` | `Spec => CheckIsReadOnly` |
| `Watchdog_proofs!SparesAnalyses` | `Spec => PruneSparesAnalyses` |
| `Watchdog_proofs!Bounded` | `Spec => RunIsBounded` |
| `WebUi_proofs!TypeCorrect` | `Spec => []TypeOK` |
| `WebUi_proofs!Honest` | `Spec => []VerdictIsHonest` |
| `WebUi_proofs!SettingsIdempotent` | `Spec => []OneBlock` |
| `WebUi_proofs!OriginRead` | `Spec => []OriginAccepted` |
| `WebUi_proofs!NotLeftBroken` | `Spec => NginxNotLeftBroken` |
| `WebUi_proofs!Bounded` | `Spec => ScriptsAreBounded` |
| `GuestShape_proofs!TypeCorrect` | `Spec => []TypeOK` |
| `GuestShape_proofs!TopologyIsExact` | `cpu_topology` accounts for every vCPU |
| `GuestShape_proofs!NoTellLeft` | `Spec => []NoTell` |
| `GuestShape_proofs!NeverBreaks` | `Spec => []BuildNeverBreaks` |
| `GuestShape_proofs!SettingsAgree` | `Spec => []DeployAgrees` |
| `GuestShape_proofs!StealthRepeats` | `Spec => []Repeatable` |
| `RuleGen_proofs!EmittedOnce` | `emit()` over any list of alerts: numbered without a gap, nothing twice, nothing left out |
| `RuleGen_proofs!SuricataIsSound` | the Suricata rules of any report: the same, nothing to be alerted on left out, and none anchored on a safelisted name, names between blanks excepted |
| `RuleGen_proofs!SigmaTellsAll` | `gen_sigma` makes a rule of what is to be told of and of nothing else |
| `RuleGen_proofs!YaraIsUsable` | the YARA rule of any report can match what it was made from, within the bound on its strings |
| `Intel_proofs!TypeCorrect` | `Spec => []TypeOK` |
| `Intel_proofs!UsableRules` | `Spec => []RulesAreUsable` |
| `Intel_proofs!SafelistedButForGaps` | `Spec => []OnlyThreeGaps` |
| `Intel_proofs!LayerCoversAll` | `Spec => LayerCovers` |
| `Intel_proofs!ExportIsComplete` | `Spec => []ExportComplete` |
| `Intel_proofs!NoNewFiles` | `Spec => RerunAddsNothing` |

*BuildSound.* The assumption `Obeyed` is that `virsh destroy` works, which the code
takes for granted at the shutdown deadline. `BuildYieldsSnapshot` speaks of the end
of a build and is not inductive. `GuestBuild!IInv` adds which command is at which
step (`CmdAtStep`), that nothing but the builder starts a guest once it is off
(`OffDuringRebuild`), that a running guest has a disk (`DiskUnderGuest`), that an
agent that answers means a provisioned disk (`AgentIsProvisioned`), and what a build
has established when it reaches a step (`BuildProgress`). The heart is the deadline
of the shutdown: the guest is off when the XML is redefined, so the cold start boots
the hardened one.

*MetadataIsBacked, DomainKeepsDisk.* `Reliable` is the assumption of the run
*guest*: the three calls succeed whose results the teardown ignores, and `clean` is
the only name (`guest_force` is what happens otherwise). `TornDown` adds to
`IInv` what the order of the teardown has given up at each step: metadata, then
domain, then file. `ForceWorks` is the same invariant read past the teardown: there
the property of the run *guest_force* holds, which the code breaks without
`Reliable`; it needs `dominfo` too, whose failure the code takes for no domain.

*Refinement.* The initial states map to initial states, and each step to `Add`,
`GiveUp`, `Command` or a stutter. A usable snapshot disappears only in steps of
the teardown or of `destroy`, where `CmdAtStep` gives the licence; disk and
metadata are left alone everywhere else (`BuilderFrame`), and `TakeSnapshot`
adds the one name it was asked for.

*NetIso.* `RulesFollowHeader` follows from `TypeOK` and the rules, by cases on the
mode. `OldFlowsOnly` needs to know of every flow what the ruleset it was born under
let through (`OpenedByRules`), which no later ruleset, link or route changes.
`KillSwitchHolds` rests on an invariant of the
flows: a guest's flow to the internet that was born in gateway mode is
masqueraded for the uplink, and the kernel passes it there only.
`CapeKeepsGuests` rests on a third: CAPE's flows are the agent's, unmasqueraded.

*Deploy.* `Deploy!IInv` adds that a command other than `all` stays in its one
stage (`StageOfCmd`), that the guest being built is not a ready one
(`BuildInHand`), and how far register has got (`RegisterProgress`).
`ServicesAfterIsolation` is proved for runs where nft works; the other case is
*deploy_contained*. `BuildvmIsHonest` and `DepsIsHonest` carry what a stage
without a complaint did to the end of `all` (`BuildvmProgress`,
`MongoProgress`); the heart of the second is that a mongod that is active after
the install cannot be the 8.0 a failed purge left on a new kernel.
`FollowsLifecycle` maps each step to `Add`, `GiveUp`, `Command` or a stutter of every
guest: `BuildInHand` says that the guest in hand is not in the list any more and, if
it is ready, that the run is forced; a step that works on one guest leaves the
others where they are (`GuestsElsewhere`).

*Watchdog.* `Watchdog!IInv`: `ISSUES` counts all that was seen from its reset on
(`IssuesCount`), a directory past retention is no running analysis' and stays
past it until it is removed (`OldIsDone`), and only `reap` gets to the removal.

*WebUi.* `WebUi!IInv` is an invariant of each script (`SmokeInv`, `TlsInv`), which
the steps of the other keep: at a step the smoke test knows this much of its task
(`ScriptKnows`); what `nginx -t` accepted stays acceptable to the end of the run
(`VhostAccepted`); between the block and the restart, and only there, is cape-web
behind without a debt (`RestartOwed`), and a run that ends well found a block or
left one (`BlockThere`).

*GuestShape.* The invariant `Sound` says of a hardened XML what `Transform`
establishes and a second transform keeps; `BuildNeverBreaks` needs that a build
hardens a domain of the CPU count it installed, and that `CpuTopology` is exact.
`StealthRepeats` writes what `Transform` leaves field by field (`Shape`), which is
the same when its result is transformed again. `SettingsAgree` compares what a
field of `Settings(DriverFlags(env))` is made of with `ShellValue` (`OneReading`,
`DriverFields`): of lines in the documented form the two readers take the same
values, and for the others the flags of the driver decide.

*RuleGen.* These are statements about folds over the lists of a report, for every
report. The library's induction theorems cannot be cited here, so each lemma of this
kind takes the least natural number at which the claim would fail, and folds are
first turned into the function of their partial results (`EmitSteps`,
`AddSigmaSteps`): what a step keeps then holds of all of them, and what a step adds
stays (`AlertsHaveAll`: nothing of the three lists is lost when they are joined).

*Intel.* `FilesInv` says of every file what it holds: nothing while it is open, or
all that one report gives; the theorems of `RuleGen_proofs` then speak of the files.
`NavInv` is the run of `navlayer`: what it found so far holds what the report and the
files it has read gave, and a file that was there for the whole run is read or still
to read. `RerunInv`: the files of a report that was finished stay, and a run that
repeats it has none but them to write. `ExportInv`: past the push or the file
the event is kept, unless a reply was believed that stored nothing, since no tool
writes under another's names.

*Length of a run* (the four theorems `Bounded`). The module of each script counts
the steps of its own a run has left at most (`StepsLeft`). Every step of the script
makes that number smaller, whatever fails, and only an invocation makes it larger:
nothing that CAPE, the guest, cape-web or the other script does gives a run more
time. For a build it is 19 steps next to the polls of its three loops, for the
watchdog three per VM and one per service and directory, for the driver two per
guest and those of each stage of its command line. For the smoke test the answers it
waits for count as its steps. `Deploy` needs that `all` never gets to
`update-policy` (`NotInAll`), the one stage `After` leads back to. This is the
safety half of the liveness the runs check: with weak fairness of the scripts
(section 5) a natural number that falls with every step leads to the end.

Model-checked only: liveness (`InvocationEnds`, `WatchdogEnds`, `DeployEnds`,
`ScriptsEnd`). A proof needs fairness, hence ENABLED, which is out of the prover's
reach. Every invariant and every action property of a passing run is proved.

## 7. Not modelled

* The text of answer files, provisioning scripts and cloud-init, `genconf` and
  `selftest`: fixed wording with values filled in, no state of a guest changes.
* Settings that only one script reads: no two readers can disagree on them.
* `rulegen.py`'s validators, which only print, its escaping and dates,
  `--family` and `--samples`; names, ids and dates of events and layers.
* `install-timer` writes two fixed unit files.
* `netiso.sh verify`, `status` and `dry-run` only read.
* The insides of CAPE, libvirt, nft, apt, nginx and systemd are modelled only by
  what the scripts use of them; these definitions are marked external in
  `PROJECT.json`.
