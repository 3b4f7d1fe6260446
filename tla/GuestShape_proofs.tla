-------------------------- MODULE GuestShape_proofs --------------------------
(***************************************************************************)
(* Theorems about GuestShape, for every sandbox.conf, environment, command *)
(* line and DMI dump.                                                      *)
(***************************************************************************)
EXTENDS GuestShape, TLAPS

USE ShapeAssumption

(* The topology cpu_topology reports accounts for every vCPU, for any count. *)
THEOREM TopologyIsExact ==
  \A n \in Nat \ {0} : Product(CpuTopology(n)) = n
  <1> SUFFICES ASSUME NEW n \in Nat \ {0} PROVE Product(CpuTopology(n)) = n
    OBVIOUS
  <1>1. CASE n >= 2 /\ n % 2 = 0
    <2>1. PICK m \in Nat : m = n \div 2
      OBVIOUS
    <2>2. m * 2 = n
      BY <1>1, <2>1
    <2>3. CpuTopology(n) = <<1, m, 2>>
      BY <1>1, <2>1 DEF CpuTopology
    <2> QED
      BY <2>2, <2>3 DEF Product
  <1>2. CASE ~(n >= 2 /\ n % 2 = 0)
    <2>1. CpuTopology(n) = <<1, n, 1>>
      BY <1>2 DEF CpuTopology
    <2> QED
      BY <2>1 DEF Product
  <1> QED
    BY <1>1, <1>2

LEMMA Counts == Range(Number) = {1, 2, 3, 4} /\ DOMAIN Number = {"1", "2", "3", "4"}
  BY DEF Range, Number

-----------------------------------------------------------------------------
(* The number of vCPUs, whatever the file and the command line say.        *)

LEMMA ConfCpus == ApplySandboxConf(Default).cpus \in Range(Number)
  <1>1. \A v \in DOMAIN Number : Number[v] \in Range(Number)
    BY DEF Range
  <1> QED
    BY <1>1, Counts DEF ApplySandboxConf, Default

LEMMA FlagCpus ==
  ASSUME NEW f, f.cpus \subseteq DOMAIN Number
  PROVE  Settings(f).cpus \in Range(Number)
  <1> DEFINE c == ApplySandboxConf(Default)
  <1>1. f.cpus # {} => Number[CHOOSE v \in f.cpus : TRUE] \in Range(Number)
    BY DEF Range
  <1>2. Settings(f).cpus = IF f.cpus = {} THEN c.cpus
                           ELSE Number[CHOOSE v \in f.cpus : TRUE]
    BY DEF Settings, ApplyArgs, ApplySandboxConf, Default
  <1> QED
    BY <1>1, <1>2, ConfCpus

-----------------------------------------------------------------------------
(* What the transformation makes of a domain.                              *)

\* None of the tells NoTell names is left.
Hardened(x) ==
  /\ Len(x.sysinfo) = 1 /\ x.sysinfo[1].uuid = x.uuid
  /\ x.cpuid = 1 /\ x.hidden /\ ~x.hyperv /\ ~x.hypervclock
  /\ x.mac # "qemu" /\ x.diskserial
  /\ x.topology # <<>> => x.video = "vga" /\ Product(x.topology[1]) = x.vcpus
  /\ x.commandline = 1 => x.topology # <<>>

\* What later hardening rests on: a topology belongs to the vCPUs, and a domain
\* that is hidden is hardened.
Sound(x) == /\ x \in DomainXML
            /\ x.topology # <<>> => x.video = "vga" /\ Product(x.topology[1]) = x.vcpus
            /\ x.commandline = 1 => x.topology # <<>>
            /\ x.hidden => Hardened(x)

LEMMA SmbiosType ==
  ASSUME NEW c, NEW x \in DomainXML
  PROVE  [GenSmbios(c) EXCEPT !.uuid = x.uuid] \in Smbios
  BY DEF GenSmbios, Smbios, DomainXML, Presets

LEMMA InstalledSound ==
  ASSUME NEW c, c.cpus \in Range(Number), NEW platform
  PROVE  Sound(Installed(c, platform)) /\ ~Installed(c, platform).hidden
  <1>1. Installed(c, platform) \in DomainXML
    BY Zenon DEF Installed, DomainXML
  <1> QED
    BY <1>1 DEF Installed, Sound

\* Everything the transformation leaves alone, or sets without the settings.
LEMMA HiddenHardened ==
  ASSUME NEW x, Sound(x), NEW sm \in Smbios, sm.uuid = x.uuid
  PROVE  LET h == HideHypervisor(Identify(x, sm))
         IN  /\ h \in DomainXML /\ Hardened(h)
             /\ h.vcpus = x.vcpus /\ h.uuid = x.uuid /\ h.topology = x.topology
             /\ h.sysinfo = <<sm>> /\ h.mac = sm.mac /\ h.video = x.video
             /\ h.commandline = x.commandline
  <1> DEFINE y == Identify(x, sm)
             h == HideHypervisor(y)
  <1> USE DEF Sound
  <1>1. x \in DomainXML
    OBVIOUS
  <1>2. /\ y \in DomainXML /\ y.sysinfo = <<sm>> /\ y.uuid = x.uuid
        /\ y.mac = sm.mac /\ y.mac # "qemu"
        /\ y.diskserial /\ y.topology = x.topology /\ y.vcpus = x.vcpus
        /\ y.video = x.video /\ y.commandline = x.commandline
    BY DEF Identify, DomainXML, Smbios, Presets
  <1> HIDE DEF y
  <1>3. /\ h \in DomainXML /\ h.sysinfo = y.sysinfo /\ h.uuid = y.uuid /\ h.mac = y.mac
        /\ h.diskserial = y.diskserial /\ h.topology = y.topology /\ h.vcpus = y.vcpus
        /\ h.video = y.video /\ h.commandline = y.commandline
    <2> DEFINE z == [y EXCEPT !.cpuid = 1, !.hyperv = FALSE, !.hypervclock = FALSE,
                              !.hidden = TRUE]
    <2>1. y.cpuid \in {0, 1}
      BY <1>2 DEF DomainXML
    <2>2. h = z
      BY <1>2, <2>1 DEF HideHypervisor, DomainXML
    <2>3. z \in DomainXML
      BY <1>2 DEF DomainXML
    <2>4. /\ z.sysinfo = y.sysinfo /\ z.uuid = y.uuid /\ z.mac = y.mac
          /\ z.diskserial = y.diskserial /\ z.topology = y.topology /\ z.vcpus = y.vcpus
          /\ z.video = y.video /\ z.commandline = y.commandline
      BY <1>2 DEF DomainXML
    <2> QED
      BY <2>2, <2>3, <2>4
  <1>4. h.cpuid = 1 /\ h.hidden /\ ~h.hyperv /\ ~h.hypervclock
    <2>1. y.cpuid \in {0, 1}
      BY <1>2 DEF DomainXML
    <2>2. h = [y EXCEPT !.cpuid = 1, !.hyperv = FALSE, !.hypervclock = FALSE,
                        !.hidden = TRUE]
      BY <1>2, <2>1 DEF HideHypervisor, DomainXML
    <2> DEFINE z == [y EXCEPT !.cpuid = 1, !.hyperv = FALSE, !.hypervclock = FALSE,
                              !.hidden = TRUE]
    <2>3. z.cpuid = 1
      BY <1>2 DEF DomainXML
    <2>4. z.hidden = TRUE
      BY <1>2 DEF DomainXML
    <2>5. z.hyperv = FALSE /\ z.hypervclock = FALSE
      BY <1>2 DEF DomainXML
    <2> HIDE DEF z
    <2>6. h = z
      BY <2>2 DEF z
    <2> HIDE DEF h
    <2> QED
      BY <2>3, <2>4, <2>5, <2>6
  <1>5. Len(h.sysinfo) = 1 /\ h.sysinfo[1].uuid = h.uuid
    BY <1>2, <1>3
  <1> HIDE DEF h
  <1>6. Hardened(h)
    BY <1>2, <1>3, <1>4, <1>5 DEF Hardened, Sound
  <1> QED
    BY <1>2, <1>3, <1>6 DEF h, y

LEMMA TopologyShown ==
  ASSUME NEW h \in DomainXML, Hardened(h), NEW c, c.cpus \in Range(Number),
         c.cpus = h.vcpus
  PROVE  LET t == ShowTopology(h, c)
         IN  /\ t \in DomainXML /\ Hardened(t) /\ t.topology # <<>>
             /\ t.vcpus = h.vcpus /\ t.uuid = h.uuid
  <1> DEFINE t == ShowTopology(h, c)
  <1>1. /\ t.topology = <<CpuTopology(c.cpus)>> /\ t.video = "vga"
        /\ t.vcpus = h.vcpus /\ t.uuid = h.uuid /\ t \in DomainXML
    BY DEF ShowTopology, DomainXML
  <1>2. Product(t.topology[1]) = t.vcpus
    BY <1>1, TopologyIsExact, Counts
  <1>3. /\ t.sysinfo = h.sysinfo /\ t.cpuid = h.cpuid /\ t.hidden = h.hidden
        /\ t.hyperv = h.hyperv /\ t.hypervclock = h.hypervclock /\ t.mac = h.mac
        /\ t.diskserial = h.diskserial
    BY DEF ShowTopology, DomainXML
  <1> QED
    BY <1>1, <1>2, <1>3 DEF Hardened

LEMMA DimmsShown ==
  ASSUME NEW h \in DomainXML, Hardened(h), h.topology # <<>>
  PROVE  ShowDimms(h) \in DomainXML /\ Hardened(ShowDimms(h))
  <1> DEFINE d == ShowDimms(h)
  <1>1. d \in DomainXML
    BY DEF ShowDimms, DomainXML
  <1>2. /\ d.sysinfo = h.sysinfo /\ d.cpuid = h.cpuid /\ d.hidden = h.hidden
        /\ d.hyperv = h.hyperv /\ d.hypervclock = h.hypervclock /\ d.mac = h.mac
        /\ d.diskserial = h.diskserial /\ d.topology = h.topology /\ d.video = h.video
        /\ d.vcpus = h.vcpus /\ d.uuid = h.uuid
    BY DEF ShowDimms, DomainXML
  <1> QED
    BY <1>1, <1>2 DEF Hardened

-----------------------------------------------------------------------------
(* stealth, alone and in a build.                                          *)

\* What ApplyStealth returns: the domain as it was, or a hardened one.
LEMMA StealthSound ==
  ASSUME NEW x, Sound(x), NEW c, c.cpus \in Range(Number), NEW dimm \in BOOLEAN
  PROVE  LET r == ApplyStealth(x, c, dimm)
         IN  /\ r[1] \in {"ok", "no_profile", "refused"} /\ Sound(r[2])
             /\ r[1] = "ok" => Hardened(r[2])
             /\ r[1] = "refused" => c.cpus # x.vcpus
  <1> DEFINE sm == [GenSmbios(c) EXCEPT !.uuid = x.uuid]
             h == HideHypervisor(Identify(x, sm))
             t == ShowTopology(h, c)
             full == Transform(x, c, sm, c.realistic_hw, c.realistic_hw)
             bare == Transform(x, c, sm, c.realistic_hw, FALSE)
             r == ApplyStealth(x, c, dimm)
  <1>1. sm \in Smbios /\ sm.uuid = x.uuid
    BY SmbiosType DEF Sound, GenSmbios
  <1>2. /\ h \in DomainXML /\ Hardened(h)
        /\ h.vcpus = x.vcpus /\ h.uuid = x.uuid /\ h.topology = x.topology
    BY <1>1, HiddenHardened
  <1> HIDE DEF sm, h
  <1>3. CASE ~c.realistic_hw
    <2>1. full = h /\ bare = h
      BY <1>3 DEF Transform, h
    <2>2. Defines(x, h)
      BY <1>2 DEF Defines, Hardened, Sound
    <2>3. r \in {<<"no_profile", x>>, <<"ok", h>>}
      BY <1>3, <2>1, <2>2 DEF ApplyStealth, sm
    <2> QED
      BY <1>2, <2>3 DEF Sound, Hardened
  <1>4. CASE c.realistic_hw
    <2>1. full = ShowDimms(t) /\ bare = t
      BY <1>4 DEF Transform, h
    <2>2. CASE c.cpus = x.vcpus
      <3>1. t \in DomainXML /\ Hardened(t) /\ t.topology # <<>> /\ t.vcpus = h.vcpus
            /\ t.uuid = h.uuid
        BY <1>2, <2>2, TopologyShown
      <3>2. ShowDimms(t) \in DomainXML /\ Hardened(ShowDimms(t))
        BY <3>1, DimmsShown
      <3>3. Defines(x, t)
        BY <1>2, <3>1 DEF Defines, Hardened
      <3> HIDE DEF t
      <3>4. r \in {<<"no_profile", x>>, <<"ok", ShowDimms(t)>>, <<"ok", t>>}
        BY <1>4, <2>1, <3>3 DEF ApplyStealth, sm
      <3> QED
        BY <3>1, <3>2, <3>4 DEF Sound, Hardened
    <2>3. CASE c.cpus # x.vcpus
      <3>1. t.topology = <<CpuTopology(c.cpus)>> /\ t.vcpus = x.vcpus
            /\ Product(t.topology[1]) # t.vcpus
        <4>1. t.topology = <<CpuTopology(c.cpus)>> /\ t.vcpus = x.vcpus
          BY <1>2 DEF ShowTopology, DomainXML
        <4> QED
          BY <4>1, <2>3, TopologyIsExact, Counts
      <3>2. /\ ShowDimms(t).topology = t.topology /\ ShowDimms(t).vcpus = t.vcpus
        BY <1>2 DEF ShowDimms, ShowTopology, DomainXML
      <3>3. ~Defines(x, t) /\ ~Defines(x, ShowDimms(t))
        BY <3>1, <3>2 DEF Defines
      <3> HIDE DEF t
      <3>4. r \in {<<"no_profile", x>>, <<"refused", x>>}
        BY <1>4, <2>1, <3>3 DEF ApplyStealth, sm
      <3> QED
        BY <2>3, <3>4
    <2> QED
      BY <2>2, <2>3
  <1> QED
    BY <1>3, <1>4

-----------------------------------------------------------------------------
(* The invariant: what NoTell and BuildNeverBreaks rest on.                *)

IInv ==
  /\ domain # NoDomain => Sound(domain)
  /\ last \in {<<"build", "ok">>, <<"buildvm", "ok">>} => (domain # NoDomain => domain.hidden)
  /\ BuildNeverBreaks

LEMMA BuildKeeps ==
  ASSUME NEW cmd \in {"build", "buildvm"}, NEW f, f.cpus \subseteq DOMAIN Number,
         NEW platform, NEW dimm \in BOOLEAN, BuildWith(cmd, f, platform, dimm)
  PROVE  IInv'
  <1> DEFINE c == Settings(f)
             x == Installed(c, platform)
             r == ApplyStealth(x, c, dimm)
  <1>1. c.cpus \in Range(Number)
    BY FlagCpus
  <1>2. Sound(x)
    BY <1>1, InstalledSound
  <1>3. x.vcpus = c.cpus
    BY DEF Installed
  <1> HIDE DEF c, x
  <1>4. /\ r[1] \in {"ok", "no_profile"} /\ Sound(r[2])
        /\ r[1] = "ok" => Hardened(r[2])
    BY <1>1, <1>2, <1>3, StealthSound
  <1>5. domain' = r[2] /\ last' = <<cmd, r[1]>>
    BY DEF BuildWith, c, x
  <1> HIDE DEF r
  <1> QED
    BY <1>4, <1>5 DEF IInv, BuildNeverBreaks, Hardened

LEMMA Inductive == Spec => []IInv
  <1>1. Init => IInv
    BY DEF Init, IInv, BuildNeverBreaks
  <1>2. IInv /\ [Next]_vars => IInv'
    <2> SUFFICES ASSUME IInv, [Next]_vars PROVE IInv'
      OBVIOUS
    <2>1. CASE UNCHANGED <<domain, last>>
      BY <2>1 DEF IInv, BuildNeverBreaks
    <2>2. CASE \E f \in CommandLines, platform \in {"windows", "linux"},
                  dimm \in BOOLEAN : Build(f, platform, dimm)
      <3> PICK f \in CommandLines, platform \in {"windows", "linux"}, dimm \in BOOLEAN :
            Build(f, platform, dimm)
        BY <2>2
      <3>1. f.cpus \subseteq DOMAIN Number
        BY DEF Flags
      <3> QED
        BY <3>1, BuildKeeps DEF Build
    <2>3. CASE \E env \in Environments, platform \in {"windows", "linux"},
                  dimm \in BOOLEAN : StageBuildvm(env, platform, dimm)
      <3> PICK env \in Environments, platform \in {"windows", "linux"}, dimm \in BOOLEAN :
            StageBuildvm(env, platform, dimm)
        BY <2>3
      <3>1. CASE last' = <<"buildvm", "usage">> /\ UNCHANGED domain
        BY <3>1 DEF IInv, BuildNeverBreaks
      <3>2. CASE /\ DriverFlags(env).cpus \subseteq DOMAIN Number
                 /\ BuildWith("buildvm", DriverFlags(env), platform, dimm)
        BY <3>2, BuildKeeps
      <3> QED
        BY <3>1, <3>2 DEF StageBuildvm
    <2>4. CASE \E f \in CommandLines, platform \in {"windows", "linux"} :
                 Install(f, platform)
      <3> PICK f \in CommandLines, platform \in {"windows", "linux"} :
            Install(f, platform)
        BY <2>4
      <3>1. f.cpus \subseteq DOMAIN Number
        BY DEF Flags
      <3>2. Sound(Installed(Settings(f), platform))
        BY <3>1, FlagCpus, InstalledSound
      <3>3. domain' = Installed(Settings(f), platform) /\ last' = <<"install", "ok">>
        BY DEF Install
      <3> QED
        BY <3>2, <3>3 DEF IInv, BuildNeverBreaks
    <2>5. CASE \E f \in CommandLines, dimm \in BOOLEAN : Stealth(f, dimm)
      <3> PICK f \in CommandLines, dimm \in BOOLEAN : Stealth(f, dimm)
        BY <2>5
      <3> DEFINE r == ApplyStealth(domain, Settings(f), dimm)
      <3>1. Settings(f).cpus \in Range(Number)
        BY FlagCpus DEF Flags
      <3>2. Sound(r[2])
        BY <3>1, StealthSound DEF IInv, Stealth
      <3>3. domain' = r[2] /\ last' = <<"stealth", r[1]>>
        BY DEF Stealth
      <3> HIDE DEF r
      <3> QED
        BY <3>2, <3>3 DEF IInv, BuildNeverBreaks
    <2> QED
      BY <2>1, <2>2, <2>3, <2>4, <2>5
         DEF Next, EditConf, RemoveProfile, StageDmi, vars
  <1> QED
    BY <1>1, <1>2, PTL DEF Spec

(* However a guest was installed and configured before, a domain that was    *)
(* hardened shows none of the tells, for every configuration.                *)
THEOREM NoTellLeft == Spec => []NoTell
  <1>1. IInv => NoTell
    BY DEF IInv, NoTell, Sound, Hardened
  <1> QED
    BY <1>1, Inductive, PTL

(* libvirt refuses the hardened XML of no build.                             *)
THEOREM NeverBreaks == Spec => []BuildNeverBreaks
  <1>1. IInv => BuildNeverBreaks
    BY DEF IInv
  <1> QED
    BY <1>1, Inductive, PTL
-----------------------------------------------------------------------------
(* Types, and the agreement of driver and capevm.py.                       *)

LEMMA NextType ==
  ASSUME TypeOK, IInv, IInv', [Next]_vars
  PROVE  TypeOK'
  <1>1. conf' \in Seq(ConfLines) /\ Len(conf') <= MaxLines
    <2>1. CASE EditConf
      <3>1. ASSUME NEW l \in ConfLines, conf' = Append(conf, l), Len(conf) < MaxLines
            PROVE  conf' \in Seq(ConfLines) /\ Len(conf') <= MaxLines
        BY <3>1 DEF TypeOK
      <3>2. CASE conf' = <<>>
        BY <3>2
      <3> QED
        BY <2>1, <3>1, <3>2 DEF EditConf
    <2>2. CASE ~EditConf
      <3>1. conf' = conf
        BY <2>2 DEF Next, RemoveProfile, StageDmi, Build, BuildWith, StageBuildvm,
                    Install, Stealth, vars
      <3> QED
        BY <3>1 DEF TypeOK
    <2> QED
      BY <2>1, <2>2
  <1>2. prof' = {} \/ (prof' \subseteq DmiFields /\ "sys_mfr" \in prof')
    <2>1. CASE \E env \in Environments, dump \in Dumps : StageDmi(env, dump)
      BY <2>1 DEF StageDmi, TypeOK
    <2>2. CASE ~\E env \in Environments, dump \in Dumps : StageDmi(env, dump)
      <3>1. prof' = prof \/ prof' = {}
        BY <2>2 DEF Next, EditConf, RemoveProfile, Build, BuildWith, StageBuildvm,
                    Install, Stealth, vars
      <3> QED
        BY <3>1 DEF TypeOK
    <2> QED
      BY <2>1, <2>2
  <1>3. domain' # NoDomain => domain' \in DomainXML
    BY DEF IInv, Sound
  <1>4. last' \in {"none", "install", "stealth", "build", "buildvm"}
                    \X {"ok", "no_profile", "usage", "refused"}
    <2> DEFINE Outcomes == {"ok", "no_profile", "usage", "refused"}
    <2>1. \A x, c, dimm : ApplyStealth(x, c, dimm)[1] \in Outcomes
      BY DEF ApplyStealth
    <2>2. last' = last \/ \E k \in {"install", "stealth", "build", "buildvm"},
                             o \in Outcomes : last' = <<k, o>>
      BY <2>1 DEF Next, EditConf, RemoveProfile, StageDmi, Build, BuildWith,
                  StageBuildvm, Install, Stealth, vars
    <2> QED
      BY <2>2 DEF TypeOK
  <1> QED
    BY <1>1, <1>2, <1>3, <1>4 DEF TypeOK

(* Every variable keeps its type; an XML that was hardened any number of      *)
(* times has each element at most once.                                      *)
THEOREM TypeCorrect == Spec => []TypeOK
  <1>1. Init => TypeOK
    BY DEF Init, TypeOK
  <1> QED
    BY <1>1, NextType, Inductive, PTL DEF Spec

\* What a key's lines say to the driver and to capevm.py, when all of them are
\* plain or comments.
LEMMA OneReading ==
  ASSUME NEW env, NEW k \in Keys, Canonical(k)
  PROVE  /\ Parsed(k) # "" => ShellValue(env, k) = Parsed(k)
         /\ Sourced(k) # {} /\ Parsed(k) = "" => ShellValue(env, k) = ScriptDefault[k]
  <1> DEFINE plain == Lines(k, {"plain"})
  <1>1. /\ Sourced(k) = plain /\ Lines(k, {"plain", "expanded"}) = plain
        /\ Lines(k, {"expanded"}) = {}
    BY DEF Canonical, Sourced, Lines
  <1> HIDE DEF plain
  <1>2. Parsed(k) = IF plain = {} THEN "" ELSE conf[Latest(plain)].val
    BY <1>1 DEF Parsed
  <1>3. ShellValue(env, k) =
          LET set == IF plain = {} THEN env[k] ELSE conf[Latest(plain)].val
          IN  IF set = "" THEN ScriptDefault[k] ELSE set
    BY <1>1 DEF ShellValue
  <1> QED
    BY <1>1, <1>2, <1>3

LEMMA DriverFields ==
  ASSUME NEW env
  PROVE  LET c == Settings(DriverFlags(env))
             b == ApplySandboxConf(Default)
             s(k) == ShellValue(env, k)
         IN  /\ c.cpus = Number[s("VM_CPUS")]
             /\ c.realistic_hw = (b.realistic_hw \/ s("REALISTIC_HW") = "1")
             /\ c.decoy = IF s("DECOY") = "0" THEN FALSE ELSE b.decoy
             /\ c.dmi_profile = (prof # {})
             /\ prof = {} => c.smbios_profile = s("SMBIOS_PROFILE")
  <1> DEFINE f == DriverFlags(env)
             b == ApplySandboxConf(Default)
  <1>1. /\ f.cpus = {ShellValue(env, "VM_CPUS")}
        /\ f.realistic_hw = (ShellValue(env, "REALISTIC_HW") = "1")
        /\ f.decoy = IF ShellValue(env, "DECOY") = "0" THEN {FALSE} ELSE {}
        /\ f.dmi_profile = (prof # {})
        /\ prof = {} => f.smbios_profile = {ShellValue(env, "SMBIOS_PROFILE")}
    BY DEF DriverFlags
  <1>2. DOMAIN b = {"cpus", "realistic_hw", "decoy", "smbios_profile",
                    "dmi_profile", "dmi_keep_serials"}
    BY DEF ApplySandboxConf, Default
  <1>3. Settings(DriverFlags(env)) = ApplyArgs(b, f)
    BY DEF Settings
  <1> DEFINE a == ApplyArgs(b, f)
  <1> HIDE DEF f, b
  <1>4. /\ a.cpus = IF f.cpus = {} THEN b.cpus
                    ELSE Number[CHOOSE v \in f.cpus : TRUE]
        /\ a.decoy = IF f.decoy = {} THEN b.decoy ELSE TRUE \in f.decoy
        /\ a.smbios_profile = IF f.smbios_profile = {} THEN b.smbios_profile
                              ELSE CHOOSE v \in f.smbios_profile : TRUE
        /\ a.dmi_profile = f.dmi_profile
    BY <1>2 DEF ApplyArgs
  <1>5. a.realistic_hw = (b.realistic_hw \/ f.realistic_hw)
    BY <1>2 DEF ApplyArgs
  <1> HIDE DEF a
  <1>6. \A x : (CHOOSE v \in {x} : TRUE) = x
    OBVIOUS
  <1>7. a.cpus = Number[ShellValue(env, "VM_CPUS")]
    BY <1>1, <1>4, <1>6
  <1>8. a.realistic_hw = (b.realistic_hw \/ ShellValue(env, "REALISTIC_HW") = "1")
    BY <1>1, <1>5
  <1>9. a.decoy = IF ShellValue(env, "DECOY") = "0" THEN FALSE ELSE b.decoy
    <2>1. CASE ShellValue(env, "DECOY") = "0"
      <3>1. f.decoy = {FALSE} /\ f.decoy # {}
        BY <1>1, <2>1
      <3>2. a.decoy = (TRUE \in {FALSE})
        BY <1>4, <3>1, Zenon
      <3>3. (TRUE \in {FALSE}) = FALSE
        OBVIOUS
      <3> QED
        BY <2>1, <3>2, <3>3, Zenon
    <2>2. CASE ShellValue(env, "DECOY") # "0"
      <3>1. f.decoy = {}
        BY <1>1, <2>2
      <3>2. a.decoy = b.decoy
        BY <1>4, <3>1, Zenon
      <3> QED
        BY <2>2, <3>2, Zenon
    <2> QED
      BY <2>1, <2>2, Zenon
  <1>10. a.dmi_profile = (prof # {})
    BY <1>1, <1>4
  <1>11. prof = {} => a.smbios_profile = ShellValue(env, "SMBIOS_PROFILE")
    BY <1>1, <1>4, <1>6
  <1> QED
    BY <1>3, <1>7, <1>8, <1>9, <1>10, <1>11 DEF a, b, f

(* With documented values, the two parsers' switches written as sandbox.conf *)
(* writes them, capevm.py works with the settings the driver read, and the   *)
(* guest is the preset where no dump is named, but for a stale profile.      *)
THEOREM SettingsAgree == Spec => []DeployAgrees
  <1>1. ASSUME TypeOK, NEW env \in Environments, Documented(env)
        PROVE  LET c == Settings(DriverFlags(env))
               IN  /\ c.cpus = Number[ShellValue(env, "VM_CPUS")]
                   /\ c.realistic_hw = (ShellValue(env, "REALISTIC_HW") = "1")
                   /\ c.decoy = (ShellValue(env, "DECOY") = "1")
                   /\ GenSmbios(c).system = IF prof = {}
                                            THEN ShellValue(env, "SMBIOS_PROFILE")
                                            ELSE "reference"
    <2> DEFINE c == Settings(DriverFlags(env))
               b == ApplySandboxConf(Default)
    <2>1. /\ b.realistic_hw = IF Parsed("REALISTIC_HW") # ""
                              THEN Truthy(Parsed("REALISTIC_HW")) ELSE FALSE
          /\ b.decoy = IF Parsed("DECOY") # "" THEN Truthy(Parsed("DECOY")) ELSE TRUE
      BY DEF ApplySandboxConf, Default
    <2>2. /\ c.cpus = Number[ShellValue(env, "VM_CPUS")]
          /\ c.realistic_hw = (b.realistic_hw \/ ShellValue(env, "REALISTIC_HW") = "1")
          /\ c.decoy = IF ShellValue(env, "DECOY") = "0" THEN FALSE ELSE b.decoy
          /\ c.dmi_profile = (prof # {})
          /\ prof = {} => c.smbios_profile = ShellValue(env, "SMBIOS_PROFILE")
      BY DriverFields
    <2>3. /\ Parsed("REALISTIC_HW") # "" => ShellValue(env, "REALISTIC_HW") = Parsed("REALISTIC_HW")
          /\ Parsed("DECOY") # "" => ShellValue(env, "DECOY") = Parsed("DECOY")
      BY <1>1, OneReading DEF Keys, Documented
    <2>4. /\ ShellValue(env, "REALISTIC_HW") \in {"0", "1"}
          /\ ShellValue(env, "DECOY") \in {"0", "1"}
          /\ ShellValue(env, "SMBIOS_PROFILE") \in Presets
      BY <1>1 DEF Documented
    <2> HIDE DEF c, b
    <2>5. GenSmbios(c).system = IF prof = {} THEN ShellValue(env, "SMBIOS_PROFILE")
                                ELSE "reference"
      BY <1>1, <2>2, <2>4 DEF GenSmbios, TypeOK
    <2>6. /\ c.realistic_hw = (ShellValue(env, "REALISTIC_HW") = "1")
          /\ c.decoy = (ShellValue(env, "DECOY") = "1")
      BY <2>1, <2>2, <2>3, <2>4 DEF Truthy
    <2> QED
      BY <2>2, <2>5, <2>6 DEF c
  <1>2. TypeOK => DeployAgrees
    BY <1>1 DEF DeployAgrees, StaleProfile
  <1> QED
    BY <1>2, TypeCorrect, PTL
-----------------------------------------------------------------------------
(* Hardening twice.                                                        *)

\* What the transformation leaves of a domain, field by field.
Shape(x, c, sm) ==
  [vcpus |-> x.vcpus, uuid |-> sm.uuid, sysinfo |-> <<sm>>, cpuid |-> 1,
   topology |-> IF c.realistic_hw THEN <<CpuTopology(c.cpus)>> ELSE x.topology,
   video |-> IF c.realistic_hw THEN "vga" ELSE x.video,
   hyperv |-> FALSE, hypervclock |-> FALSE, hidden |-> TRUE,
   diskserial |-> TRUE, mac |-> sm.mac,
   commandline |-> IF c.realistic_hw THEN 1 ELSE x.commandline]

LEMMA SameFields ==
  ASSUME NEW a \in DomainXML, NEW b \in DomainXML,
         a.vcpus = b.vcpus, a.uuid = b.uuid, a.sysinfo = b.sysinfo, a.cpuid = b.cpuid,
         a.topology = b.topology, a.video = b.video, a.hyperv = b.hyperv,
         a.hypervclock = b.hypervclock, a.hidden = b.hidden,
         a.diskserial = b.diskserial, a.mac = b.mac, a.commandline = b.commandline
  PROVE  a = b
  BY DEF DomainXML

LEMMA TransformShape ==
  ASSUME NEW x, Sound(x), NEW c, c.cpus \in Range(Number),
         NEW sm \in Smbios, sm.uuid = x.uuid
  PROVE  Transform(x, c, sm, c.realistic_hw, c.realistic_hw) = Shape(x, c, sm)
  <1> DEFINE z == HideHypervisor(Identify(x, sm))
             h == [vcpus |-> x.vcpus, uuid |-> sm.uuid, sysinfo |-> <<sm>>,
                   cpuid |-> 1, topology |-> x.topology, video |-> x.video,
                   hyperv |-> FALSE, hypervclock |-> FALSE, hidden |-> TRUE,
                   diskserial |-> TRUE, mac |-> sm.mac,
                   commandline |-> x.commandline]
  <1>1. /\ z \in DomainXML /\ Hardened(z)
        /\ z.vcpus = x.vcpus /\ z.uuid = x.uuid /\ z.topology = x.topology
        /\ z.sysinfo = <<sm>> /\ z.mac = sm.mac /\ z.video = x.video
        /\ z.commandline = x.commandline
    BY HiddenHardened
  <1> HIDE DEF z
  <1>2. z = h
    <2>1. h \in DomainXML
      BY DEF Sound, DomainXML, Smbios
    <2>2. /\ z.hidden = TRUE /\ z.hyperv = FALSE /\ z.hypervclock = FALSE
          /\ z.diskserial = TRUE /\ z.cpuid = 1
      BY <1>1 DEF Hardened, DomainXML
    <2>3. /\ h.hidden = TRUE /\ h.hyperv = FALSE /\ h.hypervclock = FALSE
          /\ h.diskserial = TRUE /\ h.cpuid = 1
      OBVIOUS
    <2>4. /\ h.vcpus = x.vcpus /\ h.uuid = sm.uuid /\ h.topology = x.topology
          /\ h.sysinfo = <<sm>> /\ h.mac = sm.mac /\ h.video = x.video
          /\ h.commandline = x.commandline
      OBVIOUS
    <2> HIDE DEF h
    <2>5. /\ z.hidden = h.hidden /\ z.hyperv = h.hyperv /\ z.diskserial = h.diskserial
          /\ z.hypervclock = h.hypervclock /\ z.cpuid = h.cpuid
      BY <2>2, <2>3, Zenon
    <2>6. /\ z.vcpus = h.vcpus /\ z.uuid = h.uuid /\ z.topology = h.topology
          /\ z.sysinfo = h.sysinfo /\ z.mac = h.mac /\ z.video = h.video
          /\ z.commandline = h.commandline
      BY <1>1, <2>4, Zenon
    <2> QED
      BY <1>1, <2>1, <2>5, <2>6, SameFields, Zenon
  <1>3. c.realistic_hw => ShowDimms(ShowTopology(h, c)) = Shape(x, c, sm)
    <2> DEFINE t == ShowTopology(h, c)
               d == ShowDimms(t)
               k == [vcpus |-> x.vcpus, uuid |-> sm.uuid, sysinfo |-> <<sm>>,
                     cpuid |-> 1, topology |-> <<CpuTopology(c.cpus)>>,
                     video |-> "vga", hyperv |-> FALSE, hypervclock |-> FALSE,
                     hidden |-> TRUE, diskserial |-> TRUE, mac |-> sm.mac,
                     commandline |-> 1]
    <2>1. /\ k.vcpus = h.vcpus /\ k.uuid = h.uuid /\ k.sysinfo = h.sysinfo
          /\ k.cpuid = h.cpuid /\ k.topology = <<CpuTopology(c.cpus)>> /\ k.video = "vga"
          /\ k.hyperv = h.hyperv /\ k.hypervclock = h.hypervclock /\ k.hidden = h.hidden
          /\ k.diskserial = h.diskserial /\ k.mac = h.mac /\ k.commandline = 1
      OBVIOUS
    <2>2. k \in DomainXML
      BY DEF Sound, DomainXML, Smbios
    <2>3. c.realistic_hw => Shape(x, c, sm) = k
      BY Zenon DEF Shape
    <2>4. h \in DomainXML
      BY <1>1, <1>2
    <2> HIDE DEF k, h
    <2>5. /\ t \in DomainXML
          /\ t.vcpus = h.vcpus /\ t.uuid = h.uuid /\ t.sysinfo = h.sysinfo
          /\ t.cpuid = h.cpuid /\ t.topology = <<CpuTopology(c.cpus)>> /\ t.video = "vga"
          /\ t.hyperv = h.hyperv /\ t.hypervclock = h.hypervclock /\ t.hidden = h.hidden
          /\ t.diskserial = h.diskserial /\ t.mac = h.mac
      BY <2>4 DEF ShowTopology, DomainXML
    <2> HIDE DEF t
    <2>6. /\ d \in DomainXML
          /\ d.vcpus = t.vcpus /\ d.uuid = t.uuid /\ d.sysinfo = t.sysinfo
          /\ d.cpuid = t.cpuid /\ d.topology = t.topology /\ d.video = t.video
          /\ d.hyperv = t.hyperv /\ d.hypervclock = t.hypervclock /\ d.hidden = t.hidden
          /\ d.diskserial = t.diskserial /\ d.mac = t.mac /\ d.commandline = 1
      BY <2>5 DEF ShowDimms, DomainXML
    <2> HIDE DEF d
    <2>7. /\ d.vcpus = k.vcpus /\ d.uuid = k.uuid /\ d.sysinfo = k.sysinfo
          /\ d.cpuid = k.cpuid /\ d.topology = k.topology /\ d.video = k.video
          /\ d.hyperv = k.hyperv /\ d.hypervclock = k.hypervclock /\ d.hidden = k.hidden
          /\ d.diskserial = k.diskserial /\ d.mac = k.mac
          /\ d.commandline = k.commandline
      BY <2>1, <2>5, <2>6, Zenon
    <2>8. d = k
      BY <2>2, <2>6, <2>7, SameFields, Zenon
    <2> QED
      BY <2>3, <2>8 DEF d, t
  <1>4. CASE c.realistic_hw
    <2>1. Transform(x, c, sm, c.realistic_hw, c.realistic_hw)
            = ShowDimms(ShowTopology(h, c))
      BY <1>2, <1>4, Zenon DEF Transform, z
    <2> QED
      BY <1>3, <1>4, <2>1, Zenon
  <1>5. CASE ~c.realistic_hw
    <2>1. Transform(x, c, sm, c.realistic_hw, c.realistic_hw) = h
      BY <1>2, <1>5, Zenon DEF Transform, z
    <2> QED
      BY <1>5, <2>1 DEF Shape
  <1> QED
    BY <1>4, <1>5

\* Whether libvirt defines the new XML is settled by the old one's vCPUs.
LEMMA RepeatedStealth ==
  ASSUME NEW x, Sound(x), NEW c, c.cpus \in Range(Number),
         ApplyStealth(x, c, TRUE)[1] = "ok"
  PROVE  ApplyStealth(ApplyStealth(x, c, TRUE)[2], c, TRUE) = ApplyStealth(x, c, TRUE)
  <1> DEFINE sm == [GenSmbios(c) EXCEPT !.uuid = x.uuid]
             new == Shape(x, c, sm)
             bare == Transform(x, c, sm, c.realistic_hw, FALSE)
             r == ApplyStealth(x, c, TRUE)
  <1>1. x \in DomainXML /\ sm \in Smbios /\ sm.uuid = x.uuid
    BY SmbiosType DEF Sound, GenSmbios
  <1>2. Transform(x, c, sm, c.realistic_hw, c.realistic_hw) = new
    BY <1>1, TransformShape
  <1>3. Sound(r[2])
    BY StealthSound
  <1>4. r = <<"ok", new>> /\ Defines(x, new) /\ ~(c.dmi_profile /\ prof = {})
    <2>1. c.realistic_hw /\ Defines(x, bare) => Defines(x, new)
      <3>1. ASSUME c.realistic_hw
            PROVE  /\ bare.uuid = new.uuid /\ bare.topology = new.topology
                   /\ bare.vcpus = new.vcpus
        BY <1>1, <3>1 DEF Transform, Identify, HideHypervisor, ShowTopology,
                          DomainXML, Shape
      <3> QED
        BY <3>1 DEF Defines
    <2> HIDE DEF new, bare
    <2>2. /\ r = IF c.dmi_profile /\ prof = {} THEN <<"no_profile", x>>
                 ELSE IF Defines(x, new) THEN <<"ok", new>>
                 ELSE IF c.realistic_hw /\ Defines(x, bare) THEN <<"ok", bare>>
                 ELSE <<"refused", x>>
      BY <1>2 DEF ApplyStealth, bare
    <2>3. r[1] = "ok"
      OBVIOUS
    <2> HIDE DEF r
    <2>4. CASE c.dmi_profile /\ prof = {}
      BY <2>2, <2>3, <2>4
    <2>5. CASE ~(c.dmi_profile /\ prof = {}) /\ Defines(x, new)
      BY <2>2, <2>5
    <2>6. CASE ~(c.dmi_profile /\ prof = {}) /\ ~Defines(x, new)
      BY <2>1, <2>2, <2>3, <2>6
    <2> QED
      BY <2>4, <2>5, <2>6
  <1>5. Sound(new) /\ new.uuid = x.uuid
    <2>1. new.uuid = x.uuid
      BY <1>1 DEF Shape
    <2> HIDE DEF new, r
    <2>2. r[2] = new
      BY <1>4
    <2> QED
      BY <1>3, <2>1, <2>2
  <1> HIDE DEF sm
  <1>6. Shape(new, c, sm) = new
    BY <1>1 DEF Shape
  <1>7. Defines(new, new)
    BY <1>4 DEF Defines
  <1>8. [GenSmbios(c) EXCEPT !.uuid = new.uuid] = sm
    BY <1>5 DEF sm
  <1> HIDE DEF new
  <1>9. Transform(new, c, sm, c.realistic_hw, c.realistic_hw) = new
    BY <1>1, <1>5, <1>6, TransformShape
  <1>10. ApplyStealth(new, c, TRUE) = <<"ok", new>>
    BY <1>4, <1>7, <1>8, <1>9 DEF ApplyStealth
  <1> HIDE DEF r
  <1>11. ApplyStealth(r[2], c, TRUE) = r
    BY <1>4, <1>10
  <1> QED
    BY <1>11 DEF r

(* Running stealth on a domain that the same settings hardened changes       *)
(* nothing, for every command line and every domain a run can have left.     *)
THEOREM StealthRepeats == Spec => []Repeatable
  <1>1. ASSUME IInv, domain # NoDomain, NEW f \in CommandLines,
               ApplyStealth(domain, Settings(f), TRUE)[1] = "ok"
        PROVE  ApplyStealth(ApplyStealth(domain, Settings(f), TRUE)[2], Settings(f), TRUE)
                 = ApplyStealth(domain, Settings(f), TRUE)
    <2>1. Settings(f).cpus \in Range(Number)
      BY FlagCpus DEF Flags
    <2> QED
      BY <1>1, <2>1, RepeatedStealth DEF IInv
  <1>2. IInv => Repeatable
    BY <1>1 DEF Repeatable
  <1> QED
    BY <1>2, Inductive, PTL
=============================================================================
