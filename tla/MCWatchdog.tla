----------------------------- MODULE MCWatchdog -----------------------------
(* An instance of Watchdog for TLC. *)
EXTENDS Watchdog

MCServices == <<"cape.service", "cape-rooter.service">>
MCVMs == <<"vm1", "vm2">>
=============================================================================
