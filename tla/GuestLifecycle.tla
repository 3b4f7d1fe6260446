--------------------------- MODULE GuestLifecycle ---------------------------
(***************************************************************************)
(* What capevm.py promises about the snapshots CAPE reverts a guest to,    *)
(* whatever fails, whenever the builder is killed: a usable snapshot is    *)
(* given up only by a command that was told to replace or remove the guest *)
(* and has passed its own checks, and one command adds at most the         *)
(* snapshot it was asked for.                                              *)
(***************************************************************************)
CONSTANT Names

VARIABLES
  usable,   \* names of the snapshots CAPE can revert to
  licence,  \* what the running command may do
  asked     \* the snapshot name the running command was given

lvars == <<usable, licence, asked>>

Licences == {"nothing", "add", "replace"}

LTypeOK == usable \subseteq Names /\ licence \in Licences /\ asked \in Names

LInit == usable = {} /\ licence = "nothing" /\ asked \in Names

\* A command starts, changes phase or ends; with it goes what it may do.
Command == licence' \in Licences /\ asked' \in Names /\ UNCHANGED usable

Add == /\ licence \in {"add", "replace"}
       /\ usable' = usable \cup {asked}
       /\ licence' = "nothing" /\ UNCHANGED asked

GiveUp == /\ licence = "replace"
          /\ usable' \subseteq usable
          /\ licence' \in Licences /\ UNCHANGED asked

LNext == Command \/ Add \/ GiveUp

LSpec == LInit /\ [][LNext]_lvars
=============================================================================
