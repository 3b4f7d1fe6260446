---------------------------- MODULE MCGuestShape ----------------------------
(* Instance of GuestShape for TLC. *)
EXTENDS GuestShape

Line(k, v) == [key |-> k, val |-> v, form |-> "plain"]
MCConfLines ==
  {Line("VM_CPUS", "3"), Line("REALISTIC_HW", "0"),
   Line("REALISTIC_HW", ""), Line("SMBIOS_PROFILE", "hp"),
   [Line("DECOY", "0") EXCEPT !.form = "export"],
   [Line("VM_CPUS", "2") EXCEPT !.form = "expanded"]}

Unset == [k \in Keys |-> ""]
MCEnvironments ==
  {Unset,
   [Unset EXCEPT !["VM_CPUS"] = "many", !["DECOY"] = "0"],
   [Unset EXCEPT !["VM_CPUS"] = "1", !["REALISTIC_HW"] = "1",
                 !["DECOY"] = "0", !["SMBIOS_PROFILE"] = "lenovo"],
   [Unset EXCEPT !["REFERENCE_DMI"] = "dump", !["DMI_KEEP_SERIALS"] = "1"]}

NoFlags == [cpus |-> {}, realistic_hw |-> FALSE, decoy |-> {},
            smbios_profile |-> {}, dmi_profile |-> FALSE,
            keep_dmi_serials |-> FALSE]
MCCommandLines ==
  {NoFlags,
   [NoFlags EXCEPT !.cpus = {"2"}, !.realistic_hw = TRUE],
   [NoFlags EXCEPT !.dmi_profile = TRUE, !.keep_dmi_serials = TRUE]}

MCDumps == {{"board_mfr"}, {"sys_mfr", "_sys_serial"}}
=============================================================================
