---------------------------- MODULE WebUi_proofs ----------------------------
(***************************************************************************)
(* Theorems about WebUi, for any number of polls and any server names.     *)
(***************************************************************************)
EXTENDS WebUi, SequenceTheorems, TLAPS

USE RoundsAssumption, TlsAssumption

SmokeActs == SmokeInvoke \/ SmokeStep \/ SmokeAnswer \/ SlowAnswer
             \/ SmokeKilled \/ ServerWorks
TlsActs == TlsInvoke \/ TlsStep \/ TlsKilled \/ RemoveFile
WebType == /\ web \in BOOLEAN
           /\ settings \in Seq(ServerNames) /\ origins \in Seq(ServerNames)

-----------------------------------------------------------------------------
(* The smoke test.                                                         *)

LEMMA SmokeTypeStep == SmokeTypeOK /\ ScriptKnows /\ SmokeActs => SmokeTypeOK'
  <1> SUFFICES ASSUME SmokeTypeOK, ScriptKnows, SmokeActs PROVE SmokeTypeOK'
    OBVIOUS
  <1> USE DEF SmokeTypeOK, Final, Verdicts, Awaiting, Says, GoesTo, Answered,
              NotAnswered
  <1>1. CASE SmokeInvoke
    BY <1>1 DEF SmokeInvoke
  <1>2. CASE Submit
    <2>1. left' \in 0..Rounds
      BY <1>2 DEF Submit
    <2>2. /\ step' \in {"idle", "poll", "sleep"} \cup Awaiting
          /\ verdict' \in Verdicts
      BY <1>2 DEF Submit
    <2> QED
      BY <1>2, <2>1, <2>2 DEF Submit
  <1>3. CASE Poll
    <2>1. left' \in 0..Rounds
      BY <1>3 DEF Poll
    <2>2. /\ step' \in {"idle", "poll", "sleep"} \cup Awaiting
          /\ verdict' \in Verdicts
      BY <1>3 DEF Poll
    <2> QED
      BY <1>3, <2>1, <2>2 DEF Poll
  <1>4. CASE Sleep \/ SlowAnswer
    BY <1>4 DEF Sleep, SlowAnswer
  <1>8. CASE ViewTask
    <2>1. left' \in 0..Rounds
      BY <1>8 DEF ViewTask
    <2>2. /\ step' \in {"idle", "poll", "sleep"} \cup Awaiting
          /\ verdict' \in Verdicts
      BY <1>8 DEF ViewTask
    <2> QED
      BY <1>8, <2>1, <2>2 DEF ViewTask
  <1>5. CASE FetchReport
    <2>1. left' \in 0..Rounds
      BY <1>5 DEF FetchReport
    <2>2. /\ step' \in {"idle", "poll", "sleep"} \cup Awaiting
          /\ verdict' \in Verdicts
      BY <1>5 DEF FetchReport
    <2> QED
      BY <1>5, <2>1, <2>2 DEF FetchReport
  <1>6. CASE SmokeKilled
    BY <1>6 DEF SmokeKilled
  <1>7. CASE ServerWorks
    BY <1>7 DEF ServerWorks
  <1> QED
    BY <1>1, <1>2, <1>3, <1>4, <1>5, <1>6, <1>7, <1>8
       DEF SmokeActs, SmokeStep, SmokeAnswer

LEMMA SmokeKeeps == SmokeInv /\ SmokeActs => SmokeInv'
  <1> SUFFICES ASSUME SmokeInv, SmokeActs PROVE ScriptKnows' /\ VerdictIsHonest'
    BY SmokeTypeStep DEF SmokeInv
  <1> USE DEF SmokeInv, SmokeTypeOK, ScriptKnows, VerdictIsHonest, Final, Awaiting,
              Says, GoesTo, Answered, NotAnswered
  <1>1. CASE SmokeInvoke
    BY <1>1 DEF SmokeInvoke
  <1>2. CASE Submit
    BY <1>2 DEF Submit
  <1>3. CASE Poll
    BY <1>3 DEF Poll
  <1>4. CASE Sleep \/ SlowAnswer
    BY <1>4 DEF Sleep, SlowAnswer
  <1>8. CASE ViewTask
    <2>1. CASE task = "reported" /\ GoesTo("fetch", left) /\ Answered
      BY <1>8, <2>1 DEF ViewTask
    <2>2. CASE task = "failed" /\ Says("failed") /\ Answered
      BY <1>8, <2>2 DEF ViewTask
    <2>3. CASE task \notin Final /\ GoesTo("sleep", left) /\ Answered
      BY <1>8, <2>3 DEF ViewTask
    <2>4. CASE GoesTo("sleep", left) /\ NotAnswered
      BY <1>8, <2>4 DEF ViewTask
    <2>5. CASE Says("aborted") /\ NotAnswered
      BY <1>8, <2>5 DEF ViewTask
    <2> QED
      BY <1>8, <2>1, <2>2, <2>3, <2>4, <2>5 DEF ViewTask
  <1>5. CASE FetchReport
    BY <1>5 DEF FetchReport
  <1>6. CASE SmokeKilled
    BY <1>6 DEF SmokeKilled
  <1>7. CASE ServerWorks
    BY <1>7 DEF ServerWorks
  <1> QED
    BY <1>1, <1>2, <1>3, <1>4, <1>5, <1>6, <1>7, <1>8
       DEF SmokeActs, SmokeStep, SmokeAnswer

-----------------------------------------------------------------------------
(* The tls stage.                                                          *)

LEMMA TlsTypeStep ==
  TlsTypeOK /\ VhostAccepted /\ TlsActs => TlsTypeOK'
  <1> SUFFICES ASSUME TlsTypeOK, VhostAccepted, TlsActs PROVE TlsTypeOK'
    OBVIOUS
  <1> USE DEF TlsTypeOK, Proceeds, Returns, webVars
  <1>1. CASE TlsInvoke \/ CheckCert
    BY <1>1 DEF TlsInvoke, CheckCert
  <1>2. CASE WriteKey \/ WriteCert \/ RemoveFile
    <2> DEFINE Pairs == [crt : BOOLEAN, key : BOOLEAN, match : BOOLEAN]
    <2>1. CASE WriteKey
      <3>1. pair' \in Pairs /\ (pair'.match => pair'.crt /\ pair'.key)
        BY <2>1 DEF WriteKey
      <3> QED
        BY <2>1, <3>1 DEF WriteKey
    <2>2. CASE WriteCert
      <3>1. at = "crt"
        BY <2>2 DEF WriteCert
      <3>2. pair' \in Pairs /\ (pair'.match => pair'.crt /\ pair'.key)
        BY <2>2, <3>1 DEF WriteCert, VhostAccepted
      <3> QED
        BY <2>2, <3>2 DEF WriteCert
    <2>3. CASE RemoveFile
      <3>1. pair' \in Pairs /\ (pair'.match => pair'.crt /\ pair'.key)
        BY <2>3 DEF RemoveFile
      <3> QED
        BY <2>3, <3>1 DEF RemoveFile
    <2> QED
      BY <1>2, <2>1, <2>2, <2>3
  <1>3. CASE OpenVhost \/ WriteVhost
    BY <1>3 DEF OpenVhost, WriteVhost
  <1>4. CASE NginxTest
    BY <1>4 DEF NginxTest, OwnPartFine
  <1>5. CASE PatchSettings \/ RestartWeb \/ WaitPort
    BY <1>5 DEF PatchSettings, RestartWeb, WaitPort
  <1>6. CASE TlsKilled
    BY <1>6 DEF TlsKilled
  <1> QED
    BY <1>1, <1>2, <1>3, <1>4, <1>5, <1>6 DEF TlsActs, TlsStep

LEMMA VhostStep == TlsTypeOK /\ VhostAccepted /\ TlsActs => VhostAccepted'
  <1> SUFFICES ASSUME TlsTypeOK, VhostAccepted, TlsActs PROVE VhostAccepted'
    OBVIOUS
  <1> USE DEF TlsTypeOK, VhostAccepted, Proceeds, Returns
  <1>1. CASE TlsInvoke \/ CheckCert \/ WriteKey \/ WriteCert
    BY <1>1 DEF TlsInvoke, CheckCert, WriteKey, WriteCert
  <1>2. CASE OpenVhost \/ WriteVhost
    BY <1>2 DEF OpenVhost, WriteVhost
  <1>3. CASE NginxTest
    BY <1>3 DEF NginxTest, OwnPartFine
  <1>4. CASE PatchSettings \/ RestartWeb \/ WaitPort
    BY <1>4 DEF PatchSettings, RestartWeb, WaitPort
  <1>5. CASE TlsKilled \/ RemoveFile
    BY <1>5 DEF TlsKilled, RemoveFile
  <1> QED
    BY <1>1, <1>2, <1>3, <1>4, <1>5 DEF TlsActs, TlsStep

LEMMA WebUntouched ==
  TlsActs /\ ~PatchSettings /\ ~RestartWeb => UNCHANGED webVars
  <1>1. TlsInvoke \/ CheckCert \/ WriteKey \/ WriteCert => UNCHANGED webVars
    BY DEF TlsInvoke, CheckCert, WriteKey, WriteCert
  <1>2. OpenVhost \/ WriteVhost \/ NginxTest \/ WaitPort => UNCHANGED webVars
    BY DEF OpenVhost, WriteVhost, NginxTest, WaitPort
  <1>3. TlsKilled \/ RemoveFile => UNCHANGED webVars
    BY DEF TlsKilled, RemoveFile
  <1> QED
    BY <1>1, <1>2, <1>3 DEF TlsActs, TlsStep

LEMMA DebtUntouched ==
  TlsActs /\ ~RestartWeb /\ ~TlsKilled => UNCHANGED unread
  <1>1. TlsInvoke \/ CheckCert \/ WriteKey \/ WriteCert => UNCHANGED unread
    BY DEF TlsInvoke, CheckCert, WriteKey, WriteCert
  <1>2. OpenVhost \/ WriteVhost \/ NginxTest \/ WaitPort => UNCHANGED unread
    BY DEF OpenVhost, WriteVhost, NginxTest, WaitPort
  <1>3. PatchSettings \/ RemoveFile => UNCHANGED unread
    BY DEF PatchSettings, RemoveFile
  <1> QED
    BY <1>1, <1>2, <1>3 DEF TlsActs, TlsStep

LEMMA AtRestart == TlsActs /\ at = "restart" => RestartWeb \/ TlsKilled
  <1> SUFFICES ASSUME TlsActs, at = "restart"
               PROVE  RestartWeb \/ TlsKilled
    OBVIOUS
  <1>1. ~(TlsInvoke \/ CheckCert \/ WriteKey \/ WriteCert \/ RemoveFile)
    BY DEF TlsInvoke, CheckCert, WriteKey, WriteCert, RemoveFile
  <1>2. ~(OpenVhost \/ WriteVhost \/ NginxTest \/ WaitPort \/ PatchSettings)
    BY DEF OpenVhost, WriteVhost, NginxTest, WaitPort, PatchSettings
  <1> QED
    BY <1>1, <1>2 DEF TlsActs, TlsStep

\* What happens to the settings and to the service in a step of the stage.
LEMMA SettingsStep ==
  ASSUME TlsTypeOK, WebType, TlsActs
  PROVE  \/ UNCHANGED settings
         \/ at = "settings" /\ settings = <<>> /\ settings' = <<name>>
              /\ at' = "restart" /\ UNCHANGED <<web, origins>>
  <1>1. CASE PatchSettings
    <2>1. Append(<<>>, name) = <<name>>
      OBVIOUS
    <2>2. CASE settings = <<>>
      BY <1>1, <2>1, <2>2 DEF PatchSettings, Proceeds
    <2>3. CASE settings # <<>>
      BY <1>1, <2>3 DEF PatchSettings
    <2> QED
      BY <2>2, <2>3
  <1>2. CASE RestartWeb
    BY <1>2 DEF RestartWeb
  <1>3. CASE ~PatchSettings /\ ~RestartWeb
    BY <1>3, WebUntouched DEF webVars
  <1> QED
    BY <1>1, <1>2, <1>3

LEMMA TlsKeeps == WebType /\ TlsInv /\ TlsActs => WebType' /\ TlsInv'
  <1> SUFFICES ASSUME WebType, TlsInv, TlsActs
               PROVE  WebType' /\ OneBlock' /\ RestartOwed' /\ BlockThere'
    BY TlsTypeStep, VhostStep DEF TlsInv
  <1> USE DEF TlsInv
  <1>1. WebType'
    <2>1. settings' \in Seq(ServerNames)
      <3>1. <<name>> \in Seq(ServerNames)
        BY DEF TlsTypeOK
      <3> QED
        BY <3>1, SettingsStep DEF WebType
    <2>2. web' \in BOOLEAN /\ origins' = origins
      <3>1. CASE PatchSettings \/ RestartWeb
        BY <3>1 DEF PatchSettings, RestartWeb, WebType
      <3> QED
        BY <3>1, WebUntouched DEF webVars, WebType
    <2> QED
      BY <2>1, <2>2 DEF WebType
  <1>2. OneBlock'
    <2>1. CASE UNCHANGED settings
      BY <2>1 DEF OneBlock
    <2>2. CASE at = "settings" /\ settings' = <<name>>
      BY <2>2 DEF OneBlock, VhostAccepted
    <2> QED
      BY <2>1, <2>2, SettingsStep
  <1>3. RestartOwed'
    <2> USE DEF RestartOwed
    <2>1. CASE PatchSettings
      BY <2>1 DEF PatchSettings, Returns, Proceeds
    <2>2. CASE RestartWeb
      BY <2>2 DEF RestartWeb, TlsTypeOK
    <2>3. CASE TlsKilled
      BY <2>3 DEF TlsKilled, webVars, TlsTypeOK
    <2>4. CASE ~(PatchSettings \/ RestartWeb \/ TlsKilled)
      <3>1. UNCHANGED <<webVars, unread>>
        BY <2>4, WebUntouched, DebtUntouched
      <3>2. at = "restart" => at' = "restart"
        BY <2>4, AtRestart
      <3> QED
        BY <3>1, <3>2 DEF webVars
    <2> QED
      BY <2>1, <2>2, <2>3, <2>4
  <1>4. BlockThere'
    <2>1. settings # <<>> => settings' # <<>>
      BY SettingsStep
    <2>2. TlsInvoke => rc' = "none" /\ at' = "cert"
      BY DEF TlsInvoke
    <2>3. TlsKilled => rc' = "killed" /\ at' = "idle"
      BY DEF TlsKilled, Returns
    <2>4. CASE CheckCert \/ WriteKey \/ WriteCert \/ RemoveFile
      BY <2>1, <2>4 DEF BlockThere, CheckCert, WriteKey, WriteCert, RemoveFile,
                       Proceeds, Returns, webVars
    <2>5. CASE OpenVhost \/ WriteVhost \/ NginxTest
      BY <2>1, <2>5 DEF BlockThere, OpenVhost, WriteVhost, NginxTest, Proceeds,
                       Returns, webVars
    <2>6. CASE RestartWeb \/ WaitPort
      BY <2>1, <2>6 DEF BlockThere, RestartWeb, WaitPort, Proceeds, Returns, webVars
    <2>7. CASE PatchSettings
      <3>1. settings # <<>> \/ settings' # <<>>
        BY <2>7, SettingsStep DEF PatchSettings, TlsTypeOK
      <3> QED
        BY <2>1, <3>1 DEF BlockThere
    <2> QED
      BY <2>2, <2>3, <2>4, <2>5, <2>6, <2>7 DEF BlockThere, TlsActs, TlsStep
  <1> QED
    BY <1>1, <1>2, <1>3, <1>4

-----------------------------------------------------------------------------
(* Both together.                                                          *)

LEMMA ServiceKeeps == IInv /\ Service => IInv'
  <1> SUFFICES ASSUME IInv, Service PROVE IInv'
    OBVIOUS
  <1> USE DEF IInv, TypeOK, SmokeInv, TlsInv
  <1>1. SmokeTypeOK' /\ ScriptKnows' /\ VerdictIsHonest'
    BY DEF Service, smokeVars, SmokeTypeOK, ScriptKnows, VerdictIsHonest
  <1>2. UNCHANGED <<settings, pair, vhost, at, name, rc>>
    BY DEF Service, WebStops, WebStarts
  <1>3. unread' \in BOOLEAN /\ web' \in BOOLEAN /\ origins' \in Seq(ServerNames)
    BY DEF Service, WebStops, WebStarts, TlsTypeOK
  <1>4. TlsTypeOK'
    BY <1>2, <1>3 DEF TlsTypeOK
  <1>5. VhostAccepted' /\ OneBlock'
    BY <1>2 DEF VhostAccepted, OneBlock
  <1>7. BlockThere'
    BY <1>2 DEF BlockThere
  <1>6. RestartOwed'
    BY DEF Service, WebStops, WebStarts, RestartOwed
  <1> QED
    BY <1>1, <1>2, <1>3, <1>4, <1>5, <1>6, <1>7

LEMMA Inductive == Spec => []IInv
  <1>1. Init => IInv
    <2> SUFFICES ASSUME Init PROVE IInv
      OBVIOUS
    <2> USE DEF Init, IInv
    <2>1. web \in BOOLEAN /\ settings \in Seq(ServerNames) /\ origins \in Seq(ServerNames)
      BY DEF WebInit
    <2>2. SmokeInv
      <3>1. SmokeTypeOK
        <4>1. left \in 0..Rounds
          BY DEF SmokeInit
        <4> QED
          BY <4>1 DEF SmokeInit, SmokeTypeOK, Final, Verdicts
      <3>2. ScriptKnows
        BY DEF SmokeInit, ScriptKnows, Final
      <3>3. VerdictIsHonest
        BY DEF SmokeInit, VerdictIsHonest
      <3> QED
        BY <3>1, <3>2, <3>3 DEF SmokeInv
    <2>3. TlsTypeOK /\ VhostAccepted
      BY DEF TlsInit, TlsTypeOK, VhostAccepted
    <2>4. OneBlock /\ RestartOwed /\ BlockThere
      BY DEF WebInit, TlsInit, OneBlock, RestartOwed, BlockThere
    <2> QED
      BY <2>1, <2>2, <2>3, <2>4 DEF TypeOK, TlsInv, SmokeInv
  <1>2. IInv /\ [Next]_vars => IInv'
    <2> SUFFICES ASSUME IInv, [Next]_vars PROVE IInv'
      OBVIOUS
    <2>1. CASE SmokeActs /\ UNCHANGED <<webVars, tlsVars>>
      <3>1. SmokeInv'
        BY <2>1, SmokeKeeps DEF IInv
      <3>2. TlsInv' /\ WebType'
        BY <2>1 DEF IInv, TypeOK, WebType, TlsInv, TlsTypeOK, VhostAccepted,
                    OneBlock, RestartOwed, BlockThere, webVars, tlsVars
      <3> QED
        BY <3>1, <3>2 DEF IInv, TypeOK, WebType, SmokeInv, TlsInv
    <2>2. CASE TlsActs /\ UNCHANGED smokeVars
      <3>1. TlsInv' /\ WebType'
        BY <2>2, TlsKeeps DEF IInv, TypeOK, WebType
      <3>2. SmokeInv'
        BY <2>2 DEF IInv, SmokeInv, SmokeTypeOK, ScriptKnows, VerdictIsHonest,
                    smokeVars
      <3> QED
        BY <3>1, <3>2 DEF IInv, TypeOK, WebType, SmokeInv, TlsInv
    <2>3. CASE Service
      BY <2>3, ServiceKeeps
    <2>4. CASE UNCHANGED vars
      <3>1. SmokeInv'
        BY <2>4 DEF IInv, SmokeInv, SmokeTypeOK, ScriptKnows, VerdictIsHonest,
                    vars, smokeVars
      <3>2. TlsInv' /\ WebType'
        BY <2>4 DEF IInv, TypeOK, WebType, TlsInv, TlsTypeOK, VhostAccepted,
                    OneBlock, RestartOwed, BlockThere,
                    vars, webVars, tlsVars
      <3> QED
        BY <3>1, <3>2 DEF IInv, TypeOK, WebType, SmokeInv, TlsInv
    <2> QED
      BY <2>1, <2>2, <2>3, <2>4 DEF Next, SmokeActs, TlsActs
  <1> QED
    BY <1>1, <1>2, PTL DEF Spec

(* Every variable of the three modules keeps its type.                       *)
THEOREM TypeCorrect == Spec => []TypeOK
  <1>1. IInv => TypeOK
    BY DEF IInv
  <1> QED
    BY <1>1, Inductive, PTL

(* What smoketest.sh says has its cause in the world, for any number of      *)
(* polls, although cape-web is restarted under it.                           *)
THEOREM Honest == Spec => []VerdictIsHonest
  <1>1. IInv => VerdictIsHonest
    BY DEF IInv, SmokeInv
  <1> QED
    BY <1>1, Inductive, PTL

(* At most one block gets into settings.py, whatever runs are killed and     *)
(* under whatever names they run.                                            *)
THEOREM SettingsIdempotent == Spec => []OneBlock
  <1>1. IInv => OneBlock
    BY DEF IInv, TlsInv
  <1> QED
    BY <1>1, Inductive, PTL

(* After a run that says so, a cape-web that answers trusts the origin of    *)
(* the run's vhost, unless the block holds another name or a restart is      *)
(* owed.                                                                     *)
THEOREM OriginRead == Spec => []OriginAccepted
  <1>1. IInv => OriginAccepted
    <2> SUFFICES ASSUME IInv, at = "idle", rc = "ok", web, ~Renamed, ~unread
                 PROVE  \E i \in DOMAIN origins : origins[i] = name
      BY DEF OriginAccepted
    <2>1. origins = settings /\ settings # <<>> /\ settings \in Seq(ServerNames)
      BY DEF IInv, TypeOK, TlsInv, RestartOwed, BlockThere
    <2>2. 1 \in DOMAIN settings
      BY <2>1
    <2> QED
      BY <2>1, <2>2 DEF Renamed
  <1> QED
    BY <1>1, Inductive, PTL

(* A run that gets to nginx -t and is not killed leaves nginx nothing of its *)
(* own to refuse; nothing is said of one that ends at openssl.               *)
THEOREM NotLeftBroken == Spec => NginxNotLeftBroken
  <1> DEFINE Left == at # "idle" /\ at' = "idle" /\ rc' \in {"ok", "warned", "removed"}
  <1>1. IInv /\ [Next]_vars => (Left => OwnPartFine')
    <2> SUFFICES ASSUME IInv, [Next]_vars, Left PROVE OwnPartFine'
      OBVIOUS
    <2> USE DEF IInv, TlsInv, TlsTypeOK, VhostAccepted, OwnPartFine, Returns, Proceeds
    <2>1. TlsActs
      BY DEF Next, Service, vars, tlsVars, TlsActs
    <2>2. ~(TlsInvoke \/ CheckCert \/ WriteKey \/ WriteCert \/ RemoveFile)
      BY DEF TlsInvoke, CheckCert, WriteKey, WriteCert, RemoveFile
    <2>3. ~(OpenVhost \/ WriteVhost \/ RestartWeb \/ TlsKilled)
      BY DEF OpenVhost, WriteVhost, RestartWeb, TlsKilled
    <2>4. CASE NginxTest
      BY <2>4 DEF NginxTest
    <2>5. CASE PatchSettings \/ WaitPort
      BY <2>5 DEF PatchSettings, WaitPort
    <2> QED
      BY <2>1, <2>2, <2>3, <2>4, <2>5 DEF TlsActs, TlsStep
  <1>2. [Next]_vars /\ (Left => OwnPartFine')
          => [Left => OwnPartFine']_<<webVars, tlsVars>>
    OBVIOUS
  <1> QED
    BY <1>1, <1>2, Inductive, PTL DEF Spec, NginxNotLeftBroken
-----------------------------------------------------------------------------
(* The length of a run of either script.                                    *)

LEMMA StepsLeftType ==
  ASSUME SmokeTypeOK
  PROVE  SmokeStepsLeft \in Nat /\ TlsStepsLeft \in Nat
  BY DEF SmokeTypeOK, SmokeStepsLeft, TlsStepsLeft

LEMMA SmokeAdvances ==
  ASSUME SmokeTypeOK, SmokeStep \/ SmokeAnswer
  PROVE  SmokeStepsLeft' < SmokeStepsLeft
  <1> USE DEF SmokeStepsLeft, Says, GoesTo
  <1>a. left \in Nat /\ Rounds \in Nat
    BY DEF SmokeTypeOK
  <1>1. CASE Submit
    BY <1>1, <1>a DEF Submit
  <1>2. CASE Poll
    BY <1>2, <1>a DEF Poll
  <1>3. CASE Sleep
    BY <1>3, <1>a DEF Sleep
  <1>4. CASE ViewTask
    <2>1. \/ step' = "sleep" /\ left' = left
          \/ step' \in {"idle", "fetch"}
      BY <1>4 DEF ViewTask
    <2> QED
      BY <1>4, <1>a, <2>1 DEF ViewTask
  <1>5. CASE FetchReport
    BY <1>5 DEF FetchReport
  <1> QED
    BY <1>1, <1>2, <1>3, <1>4, <1>5 DEF SmokeStep, SmokeAnswer

LEMMA TlsAdvances ==
  ASSUME TlsStep
  PROVE  TlsStepsLeft' < TlsStepsLeft
  <1> USE DEF TlsStepsLeft, Proceeds, Returns
  <1>1. CASE CheckCert \/ WriteKey \/ WriteCert
    BY <1>1 DEF CheckCert, WriteKey, WriteCert
  <1>2. CASE OpenVhost \/ WriteVhost \/ NginxTest
    BY <1>2 DEF OpenVhost, WriteVhost, NginxTest
  <1>3. CASE PatchSettings \/ RestartWeb \/ WaitPort
    BY <1>3 DEF PatchSettings, RestartWeb, WaitPort
  <1> QED
    BY <1>1, <1>2, <1>3 DEF TlsStep

\* A step that is neither a script's own nor its start gives it no more time.
LEMMA OthersDoNotDelay ==
  ASSUME TypeOK, [Next]_vars
  PROVE  /\ SmokeInvoke \/ SmokeStep \/ SmokeAnswer
            \/ SmokeStepsLeft' = SmokeStepsLeft \/ SmokeStepsLeft' = 0
            \/ SmokeStepsLeft' = SmokeStepsLeft - 3
         /\ TlsInvoke \/ TlsStep \/ TlsStepsLeft' = TlsStepsLeft
            \/ TlsStepsLeft' = 0
  <1> USE DEF SmokeStepsLeft, TlsStepsLeft
  <1>1. SmokeInvoke \/ SmokeStep \/ SmokeAnswer \/ SlowAnswer \/ SmokeKilled
          \/ UNCHANGED <<step, left>>
    BY DEF Next, Service, ServerWorks, SmokeAnswer, smokeVars, vars
  <1>2. TlsInvoke \/ TlsStep \/ TlsKilled \/ UNCHANGED at
    BY DEF Next, Service, RemoveFile, tlsVars, vars
  <1>3. SmokeKilled => SmokeStepsLeft' = 0
    BY DEF SmokeKilled, Says
  <1>6. SlowAnswer => SmokeStepsLeft' = SmokeStepsLeft - 3
    BY DEF SlowAnswer, GoesTo, TypeOK, SmokeTypeOK
  <1>4. TlsKilled => TlsStepsLeft' = 0
    BY DEF TlsKilled, Returns
  <1>5. /\ UNCHANGED <<step, left>> => SmokeStepsLeft' = SmokeStepsLeft
        /\ UNCHANGED at => TlsStepsLeft' = TlsStepsLeft
    OBVIOUS
  <1> QED
    BY <1>1, <1>2, <1>3, <1>4, <1>5, <1>6

(* Both scripts run to an end in a number of steps of their own, answers     *)
(* included, that is fixed when they start, for any number of polls,         *)
(* whatever cape-web and CAPE do.                                            *)
THEOREM Bounded == Spec => ScriptsAreBounded
  <1> DEFINE Shorter == /\ SmokeStep \/ SmokeAnswer => SmokeStepsLeft' < SmokeStepsLeft
                        /\ SmokeStepsLeft' > SmokeStepsLeft => SmokeInvoke
                        /\ TlsStep => TlsStepsLeft' < TlsStepsLeft
                        /\ TlsStepsLeft' > TlsStepsLeft => TlsInvoke
  <1>1. TypeOK /\ TypeOK' /\ [Next]_vars => Shorter
    <2> SUFFICES ASSUME TypeOK, TypeOK', [Next]_vars PROVE Shorter
      OBVIOUS
    <2>1. SmokeStepsLeft \in Nat /\ TlsStepsLeft \in Nat
      BY StepsLeftType DEF TypeOK
    <2>2. SmokeStepsLeft' \in Nat /\ TlsStepsLeft' \in Nat
      BY DEF TypeOK, SmokeTypeOK, SmokeStepsLeft, TlsStepsLeft
    <2>3. SmokeStep \/ SmokeAnswer => SmokeStepsLeft' < SmokeStepsLeft
      BY SmokeAdvances DEF TypeOK
    <2>4. TlsStep => TlsStepsLeft' < TlsStepsLeft
      BY TlsAdvances
    <2> QED
      BY <2>1, <2>2, <2>3, <2>4, OthersDoNotDelay
  <1>2. [Next]_vars /\ Shorter => [Shorter]_vars
    OBVIOUS
  <1> QED
    BY <1>1, <1>2, TypeCorrect, PTL DEF Spec, ScriptsAreBounded
=============================================================================
