------------------------------ MODULE MCWebUi -------------------------------
(* Instance of WebUi for TLC. *)
EXTENDS WebUi
=============================================================================
