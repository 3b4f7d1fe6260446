----------------------------- MODULE SmokeTest ------------------------------
(***************************************************************************)
(* smoketest.sh: submit one sample to CAPE's REST API, poll the task until *)
(* it is reported or the deadline has passed, fetch the report once and    *)
(* judge it.  CAPE works on the task in its own time; the web service may  *)
(* stop and start between any two requests; a reply may be lost after the  *)
(* request took effect, or be an error.                                    *)
(*                                                                         *)
(* The task is the one the current run created.  A round of the loop is a  *)
(* request and a sleep; TIMEOUT_MIN is a number of rounds, of which a slow *)
(* answer takes several.  No request has a time limit (curl without        *)
(* --max-time): the script waits for as long as cape-web holds the         *)
(* connection, so an answer is a step of cape-web and need never come.     *)
(***************************************************************************)
EXTENDS WebService

CONSTANT Rounds   \* polls before the deadline
ASSUME RoundsAssumption == Rounds \in Nat

VARIABLES
  needsToken,  \* the API wants a token this command line does not give
  task,        \* CAPE's status of the task, "none" when it has none
  content,     \* the report has info, a machine and one of behavior,
               \* processing, signatures and target
  step,        \* next step of the script
  left,        \* polls left before the deadline
  verdict,     \* what the last run said
  outage,      \* history: a request of this run got no proper answer
  late         \* history: the task ended after this run's last poll

smokeVars == <<needsToken, task, content, step, left, verdict, outage, late>>

Final == {"reported", "failed"}
Verdicts == {"none", "passed", "auth", "submit", "no_id", "failed", "timeout",
             "fetch", "content", "aborted", "killed"}

SmokeInit ==
  /\ needsToken \in BOOLEAN /\ task = "none" /\ content = FALSE
  /\ step = "idle" /\ left = 0 /\ verdict = "none"
  /\ outage = FALSE /\ late = FALSE

Says(v) == step' = "idle" /\ left' = 0 /\ verdict' = v
GoesTo(s, n) == step' = s /\ left' = n /\ UNCHANGED verdict
Answered == UNCHANGED outage
NotAnswered == outage' = TRUE

SmokeInvoke ==
  /\ step = "idle" /\ step' = "submit" /\ verdict' = "none"
  /\ task' = "none" /\ content' = FALSE /\ outage' = FALSE /\ late' = FALSE
  /\ UNCHANGED <<needsToken, left>>

\* Refused for want of a token; answered with a task; answered without one;
\* not answered, or answered with an error, whether the task was made or not;
\* answered with something that is not JSON, on which python3 fails and the
\* script ends under set -e.
Submit ==
  /\ step = "submit"
  /\ \/ /\ web /\ needsToken /\ Says("auth") /\ Answered /\ UNCHANGED task
     \/ /\ web /\ ~needsToken /\ task' = "pending" /\ GoesTo("poll", Rounds)
        /\ Answered
     \/ /\ web /\ ~needsToken /\ Says("no_id") /\ Answered /\ UNCHANGED task
     \/ /\ Says("submit") /\ NotAnswered
        /\ task' \in {"none"} \cup (IF web /\ ~needsToken THEN {"pending"} ELSE {})
     \/ /\ web /\ Says("aborted") /\ NotAnswered /\ UNCHANGED task
  /\ UNCHANGED <<needsToken, content, late>>

\* Mutation: the loop has no deadline.
Poll_Forever ==
  /\ step = "poll" /\ GoesTo("asked", IF left = 0 THEN 0 ELSE left - 1)
  /\ UNCHANGED <<needsToken, task, content, outage, late>>

\* Mutation: the clock is not looked at before a request.
Poll_NoClock ==
  /\ step = "poll" /\ GoesTo("asked", left - 1)
  /\ UNCHANGED <<needsToken, task, content, outage, late>>

\* The deadline is looked at before each request, and only there.
Poll ==
  /\ step = "poll"
  /\ \/ left = 0 /\ Says("timeout")
     \/ left > 0 /\ GoesTo("asked", left - 1)
  /\ UNCHANGED <<needsToken, task, content, outage, late>>

\* An answer that takes a round, or more of them, to come.
SlowAnswer ==
  /\ step = "asked" /\ left > 0 /\ GoesTo("asked", left - 1)
  /\ UNCHANGED <<needsToken, task, content, outage, late>>

\* Only a 200 changes status; one that is not JSON ends the script.
ViewTask ==
  /\ step = "asked"
  /\ \/ /\ web /\ Answered
        /\ CASE task = "reported" -> GoesTo("fetch", left)
             [] task = "failed"   -> Says("failed")
             [] OTHER             -> GoesTo("sleep", left)
     \/ GoesTo("sleep", left) /\ NotAnswered
     \/ web /\ Says("aborted") /\ NotAnswered
  /\ UNCHANGED <<needsToken, task, content, late>>

Sleep ==
  /\ step = "sleep" /\ GoesTo("poll", left)
  /\ UNCHANGED <<needsToken, task, content, outage, late>>

\* Mutation: a failed check of the report does not end the script.
FetchReport_Unchecked ==
  /\ step = "fetch"
  /\ \/ web /\ Says("passed") /\ Answered
     \/ Says("fetch") /\ NotAnswered
     \/ web /\ Says("content") /\ NotAnswered
  /\ UNCHANGED <<needsToken, task, content, late>>

\* One request, no retry.
FetchReport ==
  /\ step = "fetch"
  /\ \/ web /\ Says(IF content THEN "passed" ELSE "content") /\ Answered
     \/ Says("fetch") /\ NotAnswered
     \/ web /\ Says("content") /\ NotAnswered
  /\ UNCHANGED <<needsToken, task, content, late>>

SmokeKilled ==
  /\ step # "idle" /\ Says("killed")
  /\ UNCHANGED <<needsToken, task, content, outage, late>>

\* What the script does by itself, and what it waits for: the answer to a
\* request, or its refusal.
SmokeStep == Poll \/ Sleep
SmokeAnswer == Submit \/ ViewTask \/ FetchReport
Awaiting == {"submit", "asked", "fetch"}

\* CAPE schedules, analyses and processes the task, or fails at one of them.
ServerWorks ==
  /\ task \in {"pending", "running"}
  /\ \/ task = "pending" /\ task' = "running" /\ UNCHANGED content
     \/ task = "running" /\ task' = "reported" /\ content' \in BOOLEAN
     \/ task' = "failed" /\ UNCHANGED content
  /\ late' = (late \/ (step \notin {"submit", "asked"} /\ left = 0 /\ task' \in Final))
  /\ UNCHANGED <<needsToken, step, left, verdict, outage>>
-----------------------------------------------------------------------------
(* Properties.                                                             *)

SmokeTypeOK ==
  /\ needsToken \in BOOLEAN /\ content \in BOOLEAN
  /\ task \in {"none", "pending", "running"} \cup Final
  /\ step \in {"idle", "poll", "sleep"} \cup Awaiting
  /\ left \in 0..Rounds /\ verdict \in Verdicts
  /\ outage \in BOOLEAN /\ late \in BOOLEAN

\* smoketest.sh:3-8, 21: "exit code: 0 = PASS", usable as a deploy gate.  A run
\* passes only if CAPE reported this run's task with content, and each way to
\* fail has its cause in the world: no token, a request refused or answered
\* with an error, no task, a failed task, an empty report, or a task that had
\* not ended when the last poll was over (it may have ended since:
\* smoketest.sh:113).
VerdictIsHonest ==
  /\ verdict = "passed"  => task = "reported" /\ content
  /\ verdict = "auth"    => needsToken /\ task = "none"
  /\ verdict \in {"submit", "fetch", "aborted"} => outage
  /\ verdict = "no_id"   => task = "none"
  /\ verdict = "failed"  => task = "failed"
  /\ verdict = "content" => task = "reported" /\ (~content \/ outage)
  /\ verdict = "timeout" => task \notin Final \/ outage \/ late

-----------------------------------------------------------------------------
(* The inductive invariant behind the theorems of WebUi_proofs.            *)

\* Where the script is tells what it knows of the task; a task that ended
\* unnoticed ended in an outage or after the last poll.
ScriptKnows ==
  /\ step \in {"idle", "submit"} => left = 0
  /\ step # "idle" => verdict = "none"
  /\ step = "submit" => task = "none"
  /\ step = "fetch" => task = "reported"
  /\ step \in {"poll", "sleep"} /\ left = 0 => task \notin Final \/ outage \/ late

SmokeInv == SmokeTypeOK /\ ScriptKnows /\ VerdictIsHonest
=============================================================================
