---------------------------- MODULE MCGuestBuild ----------------------------
(* Instances of GuestBuild for TLC. *)
EXTENDS GuestBuild

\* Failures the passing run injects: all but those of the calls whose result
\* the code ignores and relies on (teardown and shutdown deadline).
MCMayFail == Failures \ {"snapdel", "destroy", "undefine"}
=============================================================================
