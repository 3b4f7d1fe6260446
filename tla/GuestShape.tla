----------------------------- MODULE GuestShape -----------------------------
(***************************************************************************)
(* What a guest looks like: from sandbox.conf, the environment and the     *)
(* command line to capevm.py's Config, from the Config and a cloned DMI    *)
(* profile to an SMBIOS identity, and from that to the domain XML libvirt  *)
(* stores.                                                                 *)
(*                                                                         *)
(* The state is what outlives a command: the lines of sandbox.conf, the    *)
(* fields of the DMI profile (none: no file), and the domain.  A command   *)
(* is one action; how its calls interleave with the guest, fail or are     *)
(* killed is the matter of GuestBuild.                                     *)
(*                                                                         *)
(* Abstractions: a setting stands for all of its kind (VM_CPUS for the     *)
(* numbers, SMBIOS_PROFILE for the strings); a generated serial is known   *)
(* by not being cloned; an XML element is a count or a flag.               *)
(***************************************************************************)
EXTENDS Naturals, Sequences, SequencesExt

CONSTANTS
  NoDomain,      \* the domain does not exist
  ConfLines,     \* lines the operator may write in sandbox.conf
  MaxLines,      \* lines sandbox.conf holds at most
  Environments,  \* the environments cape-deploy.sh is run in
  CommandLines,  \* the command lines of build, install and stealth
  Dumps          \* the non-empty fields of the dmidecode dumps at hand

Keys == {"VM_CPUS", "REALISTIC_HW", "DECOY", "SMBIOS_PROFILE", "REFERENCE_DMI",
         "DMI_KEEP_SERIALS"}
\* How a line is written: KEY=value, quoted or not; after a #; after "export";
\* KEY=$expression, of which val is what the shell makes.
Forms == {"plain", "comment", "export", "expanded"}
DmiFields == {"sys_mfr", "board_mfr", "_sys_serial"}
\* int() of the values that are numbers.
Number == [v \in {"1", "2", "3", "4"} |->
             CASE v = "1" -> 1 [] v = "2" -> 2 [] v = "3" -> 3 [] OTHER -> 4]

Presets == {"dell", "lenovo"}

\* A flag that may be absent is a set of at most one value.
Flags == [cpus : SUBSET (DOMAIN Number), realistic_hw : BOOLEAN,
          decoy : SUBSET BOOLEAN, smbios_profile : SUBSET Presets,
          dmi_profile : BOOLEAN, keep_dmi_serials : BOOLEAN]

ASSUME ShapeAssumption ==
  /\ \A l \in ConfLines : l.key \in Keys /\ l.form \in Forms
  /\ MaxLines \in Nat
  /\ \A e \in Environments : DOMAIN e = Keys
  /\ CommandLines \subseteq Flags
  /\ Dumps \subseteq SUBSET DmiFields

VARIABLES
  conf,    \* sandbox.conf, line by line
  prof,    \* the fields of the DMI profile, {} when there is no file
  domain,  \* the XML libvirt stores
  last     \* the last command on a guest and how it ended

vars == <<conf, prof, domain, last>>
-----------------------------------------------------------------------------
(* Configuration.                                                          *)

Config == [cpus : Range(Number), realistic_hw : BOOLEAN, decoy : BOOLEAN,
           smbios_profile : STRING, dmi_profile : BOOLEAN,
           dmi_keep_serials : BOOLEAN]
Default == [cpus |-> 4, realistic_hw |-> FALSE, decoy |-> TRUE,
            smbios_profile |-> "dell", dmi_profile |-> FALSE,
            dmi_keep_serials |-> FALSE]

Lines(k, forms) == {i \in DOMAIN conf : conf[i].key = k /\ conf[i].form \in forms}
Latest(lines) == CHOOSE i \in lines : \A j \in lines : j <= i

\* The shell that sources the file and parse_shell_conf: the last assignment
\* wins for both.  parse_shell_conf sees no assignment behind "export" and
\* takes an expression for the value, which is then no number, no truth and no
\* preset.
Sourced(k) == Lines(k, {"plain", "export", "expanded"})
Parsed(k) ==
  LET lines == Lines(k, {"plain", "expanded"})
  IN  IF lines = {} THEN ""
      ELSE IF Latest(lines) \in Lines(k, {"expanded"}) THEN "$expression"
      ELSE conf[Latest(lines)].val

\* Mutation: every non-empty value is true.
Truthy_NonEmpty(v) == v # ""
Truthy(v) == v \in {"1", "true", "True", "yes"}

\* Empty values and values int() refuses leave the default.
ApplySandboxConf(c) ==
  [c EXCEPT
    !.cpus = IF Parsed("VM_CPUS") \in DOMAIN Number
             THEN Number[Parsed("VM_CPUS")] ELSE @,
    !.realistic_hw = IF Parsed("REALISTIC_HW") # ""
                     THEN Truthy(Parsed("REALISTIC_HW")) ELSE @,
    !.decoy = IF Parsed("DECOY") # "" THEN Truthy(Parsed("DECOY")) ELSE @,
    !.smbios_profile = IF Parsed("SMBIOS_PROFILE") # ""
                       THEN Parsed("SMBIOS_PROFILE") ELSE @]

ApplyArgs(c, f) ==
  [c EXCEPT
    !.cpus = IF f.cpus = {} THEN @ ELSE Number[CHOOSE v \in f.cpus : TRUE],
    !.realistic_hw = @ \/ f.realistic_hw,
    !.decoy = IF f.decoy = {} THEN @ ELSE TRUE \in f.decoy,
    !.smbios_profile = IF f.smbios_profile = {} THEN @
                       ELSE CHOOSE v \in f.smbios_profile : TRUE,
    !.dmi_profile = f.dmi_profile,
    !.dmi_keep_serials = f.keep_dmi_serials]

Settings(f) == ApplyArgs(ApplySandboxConf(Default), f)

\* cape-deploy.sh: sandbox.conf is sourced over the environment, what is then
\* unset or empty gets the script's default.
ScriptDefault == [k \in Keys |-> CASE k = "VM_CPUS" -> "4"
                                   [] k = "SMBIOS_PROFILE" -> "dell"
                                   [] k = "REFERENCE_DMI" -> ""
                                   [] k = "DECOY" -> "1"
                                   [] OTHER -> "0"]
ShellValue(env, k) ==
  LET set == IF Sourced(k) = {} THEN env[k] ELSE conf[Latest(Sourced(k))].val
  IN  IF set = "" THEN ScriptDefault[k] ELSE set

\* The flags stage_buildvm hands to capevm.py.
DriverFlags(env) ==
  [cpus |-> {ShellValue(env, "VM_CPUS")},
   realistic_hw |-> ShellValue(env, "REALISTIC_HW") = "1",
   decoy |-> IF ShellValue(env, "DECOY") = "0" THEN {FALSE} ELSE {},
   smbios_profile |-> IF prof = {} THEN {ShellValue(env, "SMBIOS_PROFILE")}
                      ELSE {},
   dmi_profile |-> prof # {},
   keep_dmi_serials |-> prof # {} /\ ShellValue(env, "DMI_KEEP_SERIALS") = "1"]

-----------------------------------------------------------------------------
(* Identity.                                                               *)

\* gen_smbios: the profile's fields over the preset's, Dell's when there is no
\* such preset; its serials only when they are to be kept.
GenSmbios(c) ==
  LET real == IF c.dmi_profile THEN prof ELSE {}
      preset == IF c.smbios_profile \in Presets THEN c.smbios_profile ELSE "dell"
      base(k) == IF k \in real THEN "reference" ELSE preset
  IN  [system |-> base("sys_mfr"), baseboard |-> base("board_mfr"),
       serial |-> IF c.dmi_keep_serials /\ "_sys_serial" \in real
                  THEN "reference" ELSE "generated",
       uuid |-> "generated",
       mac |-> IF c.smbios_profile \in Presets THEN c.smbios_profile ELSE "intel"]

\* One socket; two threads a core where the count allows it.
\* Mutation: the remainder of an odd count is dropped.
CpuTopology_AlwaysThreads(n) ==
  IF n >= 2 THEN <<1, n \div 2, 2>> ELSE <<1, 1, 1>>
CpuTopology(n) ==
  IF n >= 2 /\ n % 2 = 0 THEN <<1, n \div 2, 2>>
  ELSE <<1, IF n > 1 THEN n ELSE 1, 1>>
Product(t) == t[1] * t[2] * t[3]

-----------------------------------------------------------------------------
(* Domain XML.                                                             *)

\* The domain virt-install defines: on Windows with the Hyper-V features its
\* os-variant brings.
Installed(c, platform) ==
  [vcpus |-> c.cpus, uuid |-> "domain", sysinfo |-> <<>>, cpuid |-> 0,
   topology |-> <<>>, video |-> IF platform = "windows" THEN "qxl" ELSE "virtio",
   hyperv |-> platform = "windows", hypervclock |-> platform = "windows",
   hidden |-> FALSE, diskserial |-> FALSE, mac |-> "qemu", commandline |-> 0]

(* transform_domain_xml, by what each part of it is for.                   *)

\* Mutation: the feature is added whether it is there or not.
HideHypervisor_Again(x) ==
  [x EXCEPT !.cpuid = @ + 1, !.hyperv = FALSE, !.hypervclock = FALSE,
            !.hidden = TRUE]
\* Mutation: the loop over the clock's timers is missing.
HideHypervisor_KeepsClock(x) ==
  [x EXCEPT !.cpuid = IF @ = 0 THEN 1 ELSE @, !.hyperv = FALSE,
            !.hidden = TRUE]
HideHypervisor(x) ==
  [x EXCEPT !.cpuid = IF @ = 0 THEN 1 ELSE @, !.hyperv = FALSE,
            !.hypervclock = FALSE, !.hidden = TRUE]

Identify(x, sm) ==
  [x EXCEPT !.uuid = sm.uuid, !.sysinfo = <<sm>>, !.diskserial = TRUE,
            !.mac = sm.mac]

ShowTopology(x, c) ==
  [x EXCEPT !.topology = <<CpuTopology(c.cpus)>>, !.video = "vga"]

\* Mutation: an old block is not taken out.
ShowDimms_KeepsOld(x) == [x EXCEPT !.commandline = @ + 1]
ShowDimms(x) == [x EXCEPT !.commandline = 1]

Transform(x, c, sm, topology, mem) ==
  LET hidden == HideHypervisor(Identify(x, sm))
      shown == IF topology THEN ShowTopology(hidden, c) ELSE hidden
  IN  IF mem THEN ShowDimms(shown) ELSE shown

\* virsh define: no other uuid for a domain, and a topology must give the
\* number of vCPUs.
Defines(x, new) ==
  /\ new.uuid = x.uuid
  /\ new.topology # <<>> => Product(new.topology[1]) = new.vcpus

\* apply_stealth on the domain x: the outcome and the XML libvirt then has.
\* dimm: this libvirt takes the qemu:commandline block.
ApplyStealth(x, c, dimm) ==
  LET sm == [GenSmbios(c) EXCEPT !.uuid = x.uuid]
      full == Transform(x, c, sm, c.realistic_hw, c.realistic_hw)
      bare == Transform(x, c, sm, c.realistic_hw, FALSE)
  IN  IF c.dmi_profile /\ prof = {} THEN <<"no_profile", x>>
      ELSE IF Defines(x, full) /\ (c.realistic_hw => dimm) THEN <<"ok", full>>
      ELSE IF c.realistic_hw /\ Defines(x, bare) THEN <<"ok", bare>>
      ELSE <<"refused", x>>
-----------------------------------------------------------------------------
(* Commands.                                                               *)

Init ==
  /\ conf = <<>> /\ prof = {} /\ domain = NoDomain
  /\ last = <<"none", "ok">>

\* The operator writes a line, or starts over.
EditConf ==
  /\ \/ Len(conf) < MaxLines /\ \E l \in ConfLines : conf' = Append(conf, l)
     \/ conf # <<>> /\ conf' = <<>>
  /\ UNCHANGED <<prof, domain, last>>

\* stage_dmi: clone-dmi writes the profile when the dump told a manufacturer;
\* without REFERENCE_DMI nothing is touched.
StageDmi(env, dump) ==
  /\ ShellValue(env, "REFERENCE_DMI") # ""
  /\ prof' = IF "sys_mfr" \in dump THEN dump ELSE prof
  /\ UNCHANGED <<conf, domain, last>>

\* capevm.py install on a name that is free, or was made free.
Install(f, platform) ==
  /\ domain' = Installed(Settings(f), platform) /\ last' = <<"install", "ok">>
  /\ UNCHANGED <<conf, prof>>

Stealth(f, dimm) ==
  /\ domain # NoDomain
  /\ LET r == ApplyStealth(domain, Settings(f), dimm)
     IN  domain' = r[2] /\ last' = <<"stealth", r[1]>>
  /\ UNCHANGED <<conf, prof>>

\* capevm.py build: install, then stealth, by one Config.
BuildWith(cmd, f, platform, dimm) ==
  /\ LET r == ApplyStealth(Installed(Settings(f), platform), Settings(f), dimm)
     IN  domain' = r[2] /\ last' = <<cmd, r[1]>>
  /\ UNCHANGED <<conf, prof>>

Build(f, platform, dimm) == BuildWith("build", f, platform, dimm)

\* stage_buildvm for one entry of VM_LIST: argparse refuses what is no number
\* and what is no preset.
StageBuildvm(env, platform, dimm) ==
  IF /\ DriverFlags(env).cpus \subseteq DOMAIN Number
     /\ DriverFlags(env).smbios_profile \subseteq Presets
  THEN BuildWith("buildvm", DriverFlags(env), platform, dimm)
  ELSE last' = <<"buildvm", "usage">> /\ UNCHANGED <<conf, prof, domain>>

\* The profile file is removed by hand.
RemoveProfile ==
  /\ prof # {} /\ prof' = {} /\ UNCHANGED <<conf, domain, last>>

Next ==
  \/ EditConf \/ RemoveProfile
  \/ \E env \in Environments, dump \in Dumps : StageDmi(env, dump)
  \/ \E platform \in {"windows", "linux"}, dimm \in BOOLEAN :
       \/ \E f \in CommandLines : Build(f, platform, dimm)
       \/ \E env \in Environments : StageBuildvm(env, platform, dimm)
  \/ \E f \in CommandLines, platform \in {"windows", "linux"} :
       Install(f, platform)
  \/ \E f \in CommandLines, dimm \in BOOLEAN : Stealth(f, dimm)

Spec == Init /\ [][Next]_vars
-----------------------------------------------------------------------------
(* Properties.                                                             *)

Smbios == [system : Presets \cup {"reference"},
           baseboard : Presets \cup {"reference"},
           serial : {"generated", "reference"}, uuid : {"domain"},
           mac : Presets \cup {"intel"}]
DomainXML ==
  [vcpus : Range(Number), uuid : {"domain"}, sysinfo : {<<>>} \cup {<<s>> : s \in Smbios},
   cpuid : {0, 1}, topology : {<<>>} \cup {<<CpuTopology(n)>> : n \in Range(Number)},
   video : {"qxl", "virtio", "vga"}, hyperv : BOOLEAN, hypervclock : BOOLEAN,
   hidden : BOOLEAN, diskserial : BOOLEAN, mac : Presets \cup {"qemu", "intel"},
   commandline : {0, 1}]

\* Every variable keeps its type; in particular an XML that was hardened any
\* number of times has each element at most once.
TypeOK ==
  /\ conf \in Seq(ConfLines) /\ Len(conf) <= MaxLines
  /\ prof = {} \/ (prof \subseteq DmiFields /\ "sys_mfr" \in prof)
  /\ domain # NoDomain => domain \in DomainXML
  /\ last \in {"none", "install", "stealth", "build", "buildvm"}
              \X {"ok", "no_profile", "usage", "refused"}

\* README.md:57-60: after stealth, however the domain was built, hardened and
\* configured before, none of these tells is left: one SMBIOS identity whose
\* uuid is the domain's, no hypervisor bit, KVM signature or Hyper-V leaf, no
\* QEMU address or disk serial, and, where REALISTIC_HW asked for them, a
\* topology that accounts for the vCPUs and a GPU that names no vendor.  The
\* virtio devices and the install media of the same lines are not modelled.
NoTell ==
  domain # NoDomain /\ (domain.hidden \/ last \in {<<"build", "ok">>, <<"buildvm", "ok">>}) =>
    /\ Len(domain.sysinfo) = 1 /\ domain.sysinfo[1].uuid = domain.uuid
    /\ domain.cpuid = 1 /\ domain.hidden
    /\ ~domain.hyperv /\ ~domain.hypervclock
    /\ domain.mac # "qemu" /\ domain.diskserial
    /\ domain.topology # <<>> =>
         domain.video = "vga" /\ Product(domain.topology[1]) = domain.vcpus
    /\ domain.commandline = 1 => domain.topology # <<>>

\* apply_stealth: "so the build never breaks".  libvirt refuses the hardened
\* XML to no build; only stealth alone can meet it, by --cpus or VM_CPUS that
\* differ from those the guest was installed with.
BuildNeverBreaks == last[2] = "refused" => last[1] = "stealth"

\* Stealth may be run again: on what it made, with the same settings and a
\* libvirt that takes the DIMM block, it changes nothing, wherever the domain
\* was built or hardened before.
Repeatable ==
  domain # NoDomain =>
    \A f \in CommandLines :
      LET r == ApplyStealth(domain, Settings(f), TRUE)
      IN  r[1] = "ok" => ApplyStealth(r[2], Settings(f), TRUE) = r

\* sandbox.conf is the "single source of truth": with the values it documents,
\* capevm.py started by the driver works with the settings the driver read,
\* although each reads the file by its own parser and only the driver sees the
\* environment.  The two switches the driver hands over in one direction only
\* have to be written as sandbox.conf writes them.  The guest's identity is the
\* preset where REFERENCE_DMI is empty (sandbox.conf:62), the cloned one where
\* it is set and was cloned; a profile of an earlier REFERENCE_DMI that nobody
\* removed is the exception (StaleProfile: the driver goes by the file alone,
\* cape-deploy.sh:491), and there nothing is promised.
Canonical(k) == Lines(k, {"export", "expanded"}) = {}
Documented(env) ==
  /\ ShellValue(env, "VM_CPUS") \in DOMAIN Number
  /\ ShellValue(env, "SMBIOS_PROFILE") \in Presets
  /\ {ShellValue(env, "REALISTIC_HW"), ShellValue(env, "DECOY")} \subseteq {"0", "1"}
  /\ Canonical("REALISTIC_HW") /\ Canonical("DECOY")
StaleProfile(env) == prof # {} /\ ShellValue(env, "REFERENCE_DMI") = ""
DeployAgrees ==
  \A env \in Environments :
    LET c == Settings(DriverFlags(env))
        system == GenSmbios(c).system
    IN  Documented(env) =>
          /\ c.cpus = Number[ShellValue(env, "VM_CPUS")]
          /\ c.realistic_hw = (ShellValue(env, "REALISTIC_HW") = "1")
          /\ c.decoy = (ShellValue(env, "DECOY") = "1")
          /\ ShellValue(env, "REFERENCE_DMI") = "" =>
               StaleProfile(env) \/ system = ShellValue(env, "SMBIOS_PROFILE")
          /\ ShellValue(env, "REFERENCE_DMI") # "" /\ prof # {} => system = "reference"
=============================================================================
