------------------------------ MODULE TlsStage ------------------------------
(***************************************************************************)
(* stage_tls of cape-deploy.sh: a self-signed certificate, an nginx vhost  *)
(* in front of cape-web and a block of overrides appended to Django's      *)
(* settings.py, under repetition, failures and kills, beside other vhosts  *)
(* on the same nginx that an operator may break or mend at any time.       *)
(*                                                                         *)
(* Two files make the certificate; `match` says whether they belong to     *)
(* each other.  The stage has failed half-way when it was killed.          *)
(* Abstractions: openssl and nginx are installed and settings.py exists;   *)
(* the block's IP address goes with its server name; a reload of nginx     *)
(* that fails is warned about and changes nothing here; no one takes       *)
(* certificate files away while the stage runs.                            *)
(***************************************************************************)
EXTENDS WebService

CONSTANTS
  ServerNames,  \* values of TLS_SERVER_NAME
  BadNames      \* those nginx does not take in server_name

ASSUME TlsAssumption == /\ BadNames \subseteq ServerNames
                        /\ {"none", "partial"} \cap ServerNames = {}

VARIABLES
  pair,      \* TLS_CERT and TLS_KEY
  vhost,     \* cape-tls.conf: "none", "partial" or a server name
  at,        \* next step of the stage
  name,      \* TLS_SERVER_NAME of the current or last run
  rc,        \* how the last run ended
  unread     \* history: a restart of cape-web is owed: killed before it, or failed

tlsVars == <<pair, vhost, at, name, rc, unread>>

TlsInit ==
  /\ pair = [crt |-> FALSE, key |-> FALSE, match |-> FALSE]
  /\ vhost = "none"
  /\ at = "idle" /\ name \in ServerNames /\ rc = "none" /\ unread = FALSE

Proceeds(s) == at' = s /\ UNCHANGED <<name, rc>>
Returns(r) == at' = "idle" /\ rc' = r /\ UNCHANGED name

TlsInvoke ==
  /\ at = "idle" /\ at' = "cert" /\ name' \in ServerNames /\ rc' = "none"
  /\ UNCHANGED <<webVars, pair, vhost, unread>>

\* Both files there: kept, whatever is in them.
CheckCert ==
  /\ at = "cert"
  /\ Proceeds(IF pair.crt /\ pair.key THEN "vhost" ELSE "key")
  /\ UNCHANGED <<webVars, pair, vhost, unread>>

\* openssl writes the key, then the certificate; a failure ends the stage
\* with status 0.
WriteKey ==
  /\ at = "key"
  /\ \/ /\ pair' = [pair EXCEPT !.key = TRUE, !.match = FALSE]
        /\ Proceeds("crt")
     \/ UNCHANGED pair /\ Returns("no_cert")
  /\ UNCHANGED <<webVars, vhost, unread>>

WriteCert ==
  /\ at = "crt"
  /\ \/ /\ pair' = [pair EXCEPT !.crt = TRUE, !.match = TRUE]
        /\ Proceeds("vhost")
     \/ UNCHANGED pair /\ Returns("no_cert")
  /\ UNCHANGED <<webVars, vhost, unread>>

\* The vhost is opened for writing, then written, in every run.
OpenVhost ==
  /\ at = "vhost" /\ vhost' = "partial" /\ Proceeds("write")
  /\ UNCHANGED <<webVars, pair, unread>>

WriteVhost ==
  /\ at = "write" /\ vhost' = name /\ Proceeds("test")
  /\ UNCHANGED <<webVars, pair, unread>>

\* What nginx -t says of this vhost; of the others it may say anything.
OwnPartFine ==
  vhost # "none" => vhost \in ServerNames \ BadNames /\ pair.match

\* Mutation: a refused vhost is left for the operator to look at.
NginxTest_Leaves ==
  /\ at = "test" /\ UNCHANGED vhost
  /\ \/ OwnPartFine /\ Proceeds("settings")
     \/ Returns("removed")
  /\ UNCHANGED <<webVars, pair, unread>>

\* A refused vhost is removed, whichever vhost nginx -t refused.
NginxTest ==
  /\ at = "test"
  /\ \/ OwnPartFine /\ Proceeds("settings") /\ UNCHANGED vhost
     \/ Returns("removed") /\ vhost' = "none"
  /\ UNCHANGED <<webVars, pair, unread>>

\* Mutation: the marker is not looked for.
PatchSettings_Blind ==
  /\ at = "settings"
  /\ settings' = Append(settings, name) /\ Proceeds("restart")
  /\ UNCHANGED <<web, origins, pair, vhost, unread>>

\* Mutation: cape-web is left to notice by itself.
PatchSettings_NoRestart ==
  /\ at = "settings"
  /\ IF settings # <<>>
     THEN Returns("ok") /\ UNCHANGED settings
     ELSE settings' = Append(settings, name) /\ Returns("ok")
  /\ UNCHANGED <<web, origins, pair, vhost, unread>>

\* The block is appended unless the file has the marker already.
PatchSettings ==
  /\ at = "settings"
  /\ IF settings # <<>>
     THEN Returns("ok") /\ UNCHANGED settings
     ELSE settings' = Append(settings, name) /\ Proceeds("restart")
  /\ UNCHANGED <<web, origins, pair, vhost, unread>>

\* systemctl restart cape-web: stopped, and started by systemd (WebStarts), or
\* refused, which is warned about.
RestartWeb ==
  /\ at = "restart" /\ Proceeds("port")
  /\ \/ web' = FALSE /\ UNCHANGED unread
     \/ UNCHANGED web /\ unread' = TRUE
  /\ UNCHANGED <<settings, origins, pair, vhost>>

\* _port_up, then the end of the stage in either case.
WaitPort ==
  /\ at = "port" /\ Returns(IF web THEN "ok" ELSE "warned")
  /\ UNCHANGED <<webVars, pair, vhost, unread>>

TlsKilled ==
  /\ at # "idle" /\ Returns("killed")
  /\ unread' = (unread \/ at = "restart")
  /\ UNCHANGED <<webVars, pair, vhost>>

TlsStep == CheckCert \/ WriteKey \/ WriteCert \/ OpenVhost \/ WriteVhost
           \/ NginxTest \/ PatchSettings \/ RestartWeb \/ WaitPort

\* An operator removes a file of the pair to have it made again.
RemoveFile ==
  /\ at = "idle"
  /\ \/ pair.crt /\ pair' = [pair EXCEPT !.crt = FALSE, !.match = FALSE]
     \/ pair.key /\ pair' = [pair EXCEPT !.key = FALSE, !.match = FALSE]
  /\ UNCHANGED <<webVars, vhost, at, name, rc, unread>>
-----------------------------------------------------------------------------
(* Properties.                                                             *)

TlsTypeOK ==
  /\ pair \in [crt : BOOLEAN, key : BOOLEAN, match : BOOLEAN]
  /\ pair.match => pair.crt /\ pair.key
  /\ vhost \in {"none", "partial"} \cup ServerNames
  /\ at \in {"idle", "cert", "key", "crt", "vhost", "write", "test",
             "settings", "restart", "port"}
  /\ name \in ServerNames
  /\ rc \in {"none", "ok", "warned", "removed", "no_cert", "killed"}
  /\ unread \in BOOLEAN

\* README.md:261: the settings block is "idempotent".  However often the
\* stage is run, killed and run again, under whatever names, settings.py holds
\* at most one block, and only names nginx took get there.
OneBlock ==
  /\ Len(settings) <= 1
  /\ \A i \in DOMAIN settings : settings[i] \notin BadNames

\* README.md:266: "if nginx -t fails the vhost is removed rather than left
\* broken".  A run that gets to nginx -t leaves nothing of its own that nginx
\* -t refuses, be it by a name nginx does not take or by a key an earlier run
\* wrote beside an old certificate.  A killed run and one that ends at openssl
\* ("no_cert") do not get there: after a new key and no certificate the latter
\* leaves an older vhost with a pair that nginx refuses.
NginxNotLeftBroken ==
  [][at # "idle" /\ at' = "idle" /\ rc' \in {"ok", "warned", "removed"}
       => OwnPartFine']_<<webVars, tlsVars>>

\* cape-deploy.sh:663: "Django must accept the HTTPS origin".  After a run that
\* says so, a cape-web that answers trusts the origin of that run's vhost, but
\* for two cases the marker hides from every later run: the block was written
\* under another name, or the restart that reads it was refused or killed.
Renamed == \E i \in DOMAIN settings : settings[i] # name
OriginAccepted ==
  at = "idle" /\ rc = "ok" /\ web
    => (\E i \in DOMAIN origins : origins[i] = name) \/ Renamed \/ unread

-----------------------------------------------------------------------------
(* The inductive invariant behind the theorems of WebUi_proofs.            *)

\* The certificate is written beside a key; what nginx has accepted stays
\* acceptable to the end of the run: it is this run's vhost, and nobody touches
\* the certificate.
VhostAccepted ==
  /\ at = "crt" => pair.key
  /\ at = "test" => vhost = name
  /\ at \in {"settings", "restart", "port"} =>
       vhost = name /\ name \notin BadNames /\ pair.match

\* Only between the block and the restart is cape-web behind without a debt.
RestartOwed == web /\ ~unread /\ at # "restart" => origins = settings

\* A run that ends well found a block or left one.
BlockThere == at \in {"restart", "port"} \/ rc = "ok" => settings # <<>>

TlsInv == TlsTypeOK /\ VhostAccepted /\ OneBlock /\ RestartOwed /\ BlockThere
=============================================================================
