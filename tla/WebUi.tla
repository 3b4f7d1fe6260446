------------------------------- MODULE WebUi --------------------------------
(***************************************************************************)
(* The smoke test and the tls stage on one host: both use cape-web, which  *)
(* the stage restarts under the running test.                              *)
(***************************************************************************)
EXTENDS SmokeTest, TlsStage

vars == <<webVars, smokeVars, tlsVars>>

Init == WebInit /\ SmokeInit /\ TlsInit

\* A start of the service reads the settings and settles the owed restart.
Service ==
  /\ \/ WebStops /\ UNCHANGED unread
     \/ WebStarts /\ unread' = FALSE
  /\ UNCHANGED <<smokeVars, pair, vhost, at, name, rc>>

Next ==
  \/ /\ SmokeInvoke \/ SmokeStep \/ SmokeAnswer \/ SlowAnswer
        \/ SmokeKilled \/ ServerWorks
     /\ UNCHANGED <<webVars, tlsVars>>
  \/ (TlsInvoke \/ TlsStep \/ TlsKilled \/ RemoveFile) /\ UNCHANGED smokeVars
  \/ Service

Spec == Init /\ [][Next]_vars

\* A script that is not killed goes on by itself: sleep, openssl, nginx and
\* systemctl return.  Nothing is assumed of CAPE or of cape-web, an answer to
\* curl included.
FairSpec ==
  /\ Spec
  /\ WF_vars(SmokeStep /\ UNCHANGED <<webVars, tlsVars>>)
  /\ WF_vars(TlsStep /\ UNCHANGED smokeVars)
-----------------------------------------------------------------------------
(* Properties.                                                             *)

\* Every variable keeps its type; rounds are never negative.
TypeOK ==
  /\ web \in BOOLEAN
  /\ settings \in Seq(ServerNames) /\ origins \in Seq(ServerNames)
  /\ SmokeTypeOK /\ TlsTypeOK

\* The stage ends, even when cape-web never comes back.  The smoke test ends,
\* even when every request is refused and CAPE never works on the task, unless
\* one request is held for ever (smoketest.sh:80, 86).
ScriptsEnd ==
  /\ []<>(step \notin Awaiting) => ((step # "idle") ~> (step = "idle"))
  /\ (at # "idle") ~> (at = "idle")

\* The safety half of ScriptsEnd: every step of a script, and every answer it
\* gets, uses up one of the steps it has left, a round of the smoke test three
\* of them, and neither cape-web, CAPE nor the other script gives it more.
SmokeStepsLeft ==
  CASE step = "submit" -> 3 * Rounds + 3  [] step = "poll"  -> 3 * left + 2
    [] step = "asked"  -> 3 * left + 4    [] step = "sleep" -> 3 * left + 3
    [] step = "fetch"  -> 1               [] OTHER -> 0
TlsStepsLeft ==
  CASE at = "cert" -> 9  [] at = "key"  -> 8  [] at = "crt"      -> 7
    [] at = "vhost" -> 6 [] at = "write" -> 5 [] at = "test"     -> 4
    [] at = "settings" -> 3 [] at = "restart" -> 2 [] at = "port" -> 1
    [] OTHER -> 0
ScriptsAreBounded ==
  [][/\ SmokeStep \/ SmokeAnswer => SmokeStepsLeft' < SmokeStepsLeft
     /\ SmokeStepsLeft' > SmokeStepsLeft => SmokeInvoke
     /\ TlsStep => TlsStepsLeft' < TlsStepsLeft
     /\ TlsStepsLeft' > TlsStepsLeft => TlsInvoke]_vars

\* The inductive invariant of WebUi_proofs: neither script disturbs the other's
\* part.
IInv == TypeOK /\ SmokeInv /\ TlsInv
=============================================================================
