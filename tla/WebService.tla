----------------------------- MODULE WebService -----------------------------
(***************************************************************************)
(* cape-web and the host's nginx as the scripts see them: a service that   *)
(* answers or does not, that reads its settings file when it starts, and   *)
(* that others start and stop (systemd, an operator, a crash).             *)
(***************************************************************************)
EXTENDS Naturals, Sequences

VARIABLES
  web,       \* does cape-web answer on WEB_PORT?
  settings,  \* the server names of the override blocks in settings.py
  origins    \* the blocks the running cape-web has read

webVars == <<web, settings, origins>>

WebInit == web = TRUE /\ settings = <<>> /\ origins = <<>>

WebStops == web /\ web' = FALSE /\ UNCHANGED <<settings, origins>>

\* systemd restarts the unit, which reads settings.py.
WebStarts ==
  /\ ~web /\ web' = TRUE /\ origins' = settings
  /\ UNCHANGED settings
=============================================================================
