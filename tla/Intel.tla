------------------------------- MODULE Intel --------------------------------
(***************************************************************************)
(* rulegen.py, cape-export.py and navlayer.py at work: one of each may run *)
(* at a time, over the same reports, an output directory with its sigma    *)
(* directory, a MISP server and a layer file.  A run loads its report,     *)
(* computes, and then writes file after file; it may be killed between and *)
(* during the writes; a push may be refused, or its reply be lost.         *)
(*                                                                         *)
(* Abstractions: a run whose report cannot be loaded does nothing; each    *)
(* tool has a directory of its own, but navlayer reads rulegen's.  The     *)
(* validators of rulegen only print.                                       *)
(***************************************************************************)
EXTENDS RuleGen

CONSTANTS
  Reports,  \* the reports CAPE has, one task's earlier and later ones too
  Kinds     \* the commands rulegen is run with

ASSUME IntelAssumption ==
  /\ Kinds \subseteq {"suricata", "yara", "sigma", "all"}
  /\ SidBase \in Nat /\ MaxStrings \in Nat \ {0}
  /\ \A r \in Reports : IsReport(r)

VARIABLES
  files,  \* what the files written so far hold; <<>> while one is being written
  rg,     \* the run of rulegen: its report, its writes to come, one open?
  ex,     \* the run of cape-export, or the last one; hollow: it was told that
          \* the event was created, and it was not
  nav,    \* the run of navlayer
  misp,   \* the events on the MISP server
  layer,  \* techniques and scores in the layer file
  done    \* history: reports rulegen has finished all of

vars == <<files, rg, ex, nav, misp, layer, done>>

Partial == <<>>
Names(writes) == {w.file : w \in Range(writes)}
Written(f, c) == files' = [g \in DOMAIN files \cup {f} |-> IF g = f THEN c ELSE files[g]]

\* again: all of this report's files were written before.
RgIdle == [todo |-> <<>>, open |-> FALSE, report |-> {}, again |-> FALSE]
NavIdle == [on |-> FALSE, pairs |-> {}, unread |-> {}, read |-> {},
            stable |-> {}, found |-> {}]

Init ==
  /\ files = << >> /\ misp = {} /\ layer = << >> /\ done = {}
  /\ rg = RgIdle /\ nav = NavIdle
  /\ ex = [step |-> "idle", report |-> {}, whole |-> FALSE, hollow |-> FALSE]
-----------------------------------------------------------------------------
(* rulegen.                                                                *)

RulegenStarts(r, what) ==
  /\ rg = RgIdle
  /\ rg' = [todo |-> RuleWrites(r, what), open |-> FALSE, report |-> {r},
            again |-> r \in done]
  /\ UNCHANGED <<files, ex, nav, misp, layer, done>>

\* write_text opens the file, which empties it, then writes.
\* Mutation: a file that is there is kept, and the next number taken.
RulegenOpens_Fresh ==
  /\ rg.todo # <<>> /\ ~rg.open
  /\ LET f == Head(rg.todo).file
         g == IF f \in DOMAIN files THEN [f EXCEPT !.idx = @ + 10] ELSE f
     IN  /\ Written(g, Partial)
         /\ rg' = [rg EXCEPT !.open = TRUE, !.todo[1].file = g]
         /\ nav' = [nav EXCEPT !.stable = @ \ {g}]
  /\ UNCHANGED <<ex, misp, layer, done>>

RulegenOpens ==
  /\ rg.todo # <<>> /\ ~rg.open
  /\ Written(Head(rg.todo).file, Partial)
  /\ rg' = [rg EXCEPT !.open = TRUE]
  /\ nav' = [nav EXCEPT !.stable = @ \ {Head(rg.todo).file}]
  /\ UNCHANGED <<ex, misp, layer, done>>

RulegenWrites ==
  /\ rg.open
  /\ Written(Head(rg.todo).file, Head(rg.todo).content)
  /\ rg' = [rg EXCEPT !.open = FALSE, !.todo = Tail(@)]
  /\ UNCHANGED <<ex, nav, misp, layer, done>>

RulegenEnds ==
  /\ rg # RgIdle /\ rg.todo = <<>> /\ rg' = RgIdle
  /\ done' = done \cup {r \in rg.report : Names(RuleWrites(r, "all")) \subseteq DOMAIN files}
  /\ UNCHANGED <<files, ex, nav, misp, layer>>

RulegenKilled ==
  /\ rg # RgIdle /\ rg' = RgIdle
  /\ UNCHANGED <<files, ex, nav, misp, layer, done>>

-----------------------------------------------------------------------------
(* cape-export.                                                            *)

\* build_misp_event: the attributes, those with to_ids first, and the tags.
MispEvent(i) ==
  [kind |-> "event",
   detect |-> {<<"ip-dst", v>> : v \in i.ipv4} \cup {<<"domain", v>> : v \in i.domain}
              \cup {<<"url", v>> : v \in i.url} \cup {<<"sha256", v>> : v \in i.sha256}
              \cup {<<"ja3", v>> : v \in i.ja3},
   context |-> {<<"filename", v>> : v \in i.filename}
               \cup {<<"regkey", v>> : v \in i.regkey} \cup {<<"mutex", v>> : v \in i.mutex},
   family |-> i.family, task |-> i.task]

\* build_stix_bundle: an indicator for each pattern, each indicating the family.
StixBundle(i) ==
  [kind |-> "bundle",
   indicators |-> {<<"ip-dst", v>> : v \in i.ipv4} \cup {<<"domain", v>> : v \in i.domain}
                  \cup {<<"url", v>> : v \in i.url} \cup {<<"sha256", v>> : v \in i.sha256},
   family |-> i.family]

ExportFile(kind, r) == [kind |-> kind, task |-> TaskName(r)]

\* With a MISP server a push, otherwise the JSON file.
ExportStarts(r, push) ==
  /\ ex.step = "idle"
  /\ ex' = [step |-> IF push THEN "push" ELSE "json", report |-> {r},
            whole |-> FALSE, hollow |-> FALSE]
  /\ UNCHANGED <<files, rg, nav, misp, layer, done>>

TheReport == CHOOSE r \in ex.report : TRUE
ExportStep(s) == ex' = [ex EXCEPT !.step = s]

\* Mutation: a failed push is only warned about.
PushMisp_NoFallback ==
  /\ ex.step = "push" /\ ExportStep("stix")
  /\ misp' \in {misp, misp \cup {MispEvent(Extract(TheReport))}}
  /\ UNCHANGED <<files, rg, nav, layer, done>>

\* Created; refused or not reached, or created with the reply lost; or a JSON
\* object with a 2xx status comes from something that has stored nothing, and is
\* taken for a creation with the id "?".
PushMisp ==
  /\ ex.step = "push"
  /\ LET taken == misp \cup {MispEvent(Extract(TheReport))}
     IN  \/ ExportStep("stix") /\ misp' = taken
         \/ ExportStep("json") /\ misp' \in {misp, taken}
         \/ ex' = [ex EXCEPT !.step = "stix", !.hollow = TRUE] /\ misp' = misp
  /\ UNCHANGED <<files, rg, nav, layer, done>>

WriteMispJson ==
  /\ ex.step = "json" /\ ExportStep("stix")
  /\ Written(ExportFile("misp", TheReport), MispEvent(Extract(TheReport)))
  /\ UNCHANGED <<rg, nav, misp, layer, done>>

WriteStix ==
  /\ ex.step = "stix"
  /\ ex' = [ex EXCEPT !.step = "idle", !.whole = TRUE]
  /\ Written(ExportFile("stix", TheReport), StixBundle(Extract(TheReport)))
  /\ UNCHANGED <<rg, nav, misp, layer, done>>

\* Between two writes, or in one.
ExportKilled ==
  /\ ex.step # "idle" /\ ExportStep("idle")
  /\ \/ UNCHANGED files
     \/ /\ ex.step \in {"json", "stix"}
        /\ Written(ExportFile(IF ex.step = "json" THEN "misp" ELSE "stix", TheReport), Partial)
  /\ UNCHANGED <<rg, nav, misp, layer, done>>

-----------------------------------------------------------------------------
(* navlayer: pairs of a technique and what it was found in.                *)

HarvestReport(r) ==
  UNION {{<<t, <<"sig", s.name>>>> : t \in s.techniques} : s \in r.signatures}
SigmaFiles == {f \in DOMAIN files : f.kind = "sigma"}
HarvestSigma(f) ==
  IF files[f] = Partial THEN {} ELSE {<<t, <<"sigma", f>>>> : t \in files[f].tags}

\* merge(): the sources of a technique add up.
\* Mutation: a later source replaces those before.
Merge_Replaces(old, new) ==
  {p \in old : \A q \in new : q[1] # p[1]} \cup new
Merge(old, new) == old \cup new

Techniques(pairs) == {p[1] : p \in pairs}
BuildLayer(pairs) ==
  [t \in Techniques(pairs) |-> Cardinality({p \in pairs : p[1] = t})]

\* rs: the report, or none; the directory is listed while it is read, so that
\* files that come later may or may not be met.
NavStarts(rs, sigma) ==
  /\ nav = NavIdle
  /\ nav' = [on |-> TRUE, pairs |-> UNION {HarvestReport(r) : r \in rs},
             found |-> UNION {HarvestReport(r) : r \in rs},
             unread |-> IF sigma THEN SigmaFiles ELSE {}, read |-> {},
             stable |-> IF sigma THEN {f \in SigmaFiles : files[f] # Partial} ELSE {}]
  /\ UNCHANGED <<files, rg, ex, misp, layer, done>>

\* Mutation: what is read stays on the list.
NavReads_Twice ==
  /\ nav.on /\ nav.unread # {}
  /\ \E f \in SigmaFiles \ nav.read :
       nav' = [nav EXCEPT !.pairs = Merge(@, HarvestSigma(f)), !.read = @ \cup {f}]
  /\ UNCHANGED <<files, rg, ex, misp, layer, done>>

NavReads ==
  /\ nav.on /\ nav.unread # {}
  /\ \E f \in SigmaFiles \ nav.read :
       nav' = [nav EXCEPT !.pairs = Merge(@, HarvestSigma(f)),
                          !.unread = @ \ {f}, !.read = @ \cup {f}]
  /\ UNCHANGED <<files, rg, ex, misp, layer, done>>

\* The layer is written when there is a technique at all.
NavWrites ==
  /\ nav.on /\ nav.unread = {} /\ nav' = NavIdle
  /\ layer' = IF nav.pairs = {} THEN layer ELSE BuildLayer(nav.pairs)
  /\ UNCHANGED <<files, rg, ex, misp, done>>

\* Before the layer is written, or while it is.
NavKilled ==
  /\ nav.on /\ nav' = NavIdle
  /\ \/ layer' = layer
     \/ nav.unread = {} /\ nav.pairs # {} /\ layer' = Partial
  /\ UNCHANGED <<files, rg, ex, misp, done>>

Next ==
  \/ \E r \in Reports : \/ \E what \in Kinds : RulegenStarts(r, what)
                        \/ \E push \in BOOLEAN : ExportStarts(r, push)
  \/ RulegenOpens \/ RulegenWrites \/ RulegenEnds \/ RulegenKilled
  \/ PushMisp \/ WriteMispJson \/ WriteStix \/ ExportKilled
  \/ \E rs \in {{}} \cup {{r} : r \in Reports}, sigma \in BOOLEAN : NavStarts(rs, sigma)
  \/ NavReads \/ NavWrites \/ NavKilled

Spec == Init /\ [][Next]_vars
-----------------------------------------------------------------------------
(* Properties.                                                             *)

RuleFiles(kind) == {f \in DOMAIN files : f.kind = kind /\ files[f] # Partial}

\* Every variable keeps its type: a file is one of a report's, in full or
\* opened, and the one rulegen has open is being written.
TypeOK ==
  /\ \A f \in DOMAIN files :
       f.kind \in {"suricata", "yara", "sigma", "misp", "stix"}
         /\ f.task \in {TaskName(r) : r \in Reports}
  /\ rg.open => rg.todo # <<>> /\ files[Head(rg.todo).file] = Partial
  /\ ex.step \in {"idle", "push", "json", "stix"} /\ ex.report \subseteq Reports
  /\ ex.hollow => ex.step \in {"idle", "stix"}
  /\ nav.unread \cup nav.read \subseteq SigmaFiles /\ nav.unread \cap nav.read = {}
  /\ nav.stable \cap {f \in SigmaFiles : files[f] = Partial} = {}
  /\ done \subseteq Reports
  /\ \A e \in misp : e.kind = "event"

\* ROADMAP.md:83-92 and rulegen's selftest: a rules file that is there in full
\* numbers its rules from --sid-base without gap or repetition and has no two
\* rules for one thing; a YARA rule asks for strings it has, at least three or
\* all of them, or has a hash.  (That the engines load the rules is more: the text
\* of msg and the name of a YARA rule are not in it.)
RulesAreUsable ==
  /\ \A f \in RuleFiles("suricata") : \A i, j \in DOMAIN files[f] :
       /\ files[f][i].sid = SidBase + i - 1
       /\ i # j => [files[f][i] EXCEPT !.sid = 0] # [files[f][j] EXCEPT !.sid = 0]
  /\ \A f \in RuleFiles("yara") : \A i \in DOMAIN files[f] :
       LET y == files[f][i]
           n == Cardinality(y.strings)
       IN  /\ n <= MaxStrings /\ y.needs <= n
           /\ y.needs >= (IF n < 3 THEN n ELSE 3)
           /\ n = 0 => y.hash # ""

\* ROADMAP.md:87 says of the rules "Safelisted infra excluded", and the export
\* screens what it takes.  The code keeps less than that, and this says how much
\* less: the alerts are those of everything the report met except safelisted
\* names, and an event has nothing safelisted, but for three gaps:
\*   - the rules know no safelist of addresses, so that a request to a safelisted
\*     address has its alert;
\*   - a queried name, or an attribute, between blanks is not recognised;
\*   - a URL is exported whatever its host.
OnlyThreeGaps ==
  /\ \A f \in RuleFiles("suricata") :
       /\ \A i \in DOMAIN files[f] : SafeAlert(files[f][i])
       /\ \E r \in Reports : f.task = TaskName(r) /\ Alerted(files[f], r)
  /\ \A e \in misp \cup {files[f] : f \in RuleFiles("misp")} : \A a \in e.detect :
       /\ a[1] = "domain" /\ a[2].host \in SafeDomains => a[2].padded
       /\ a[1] = "ip-dst" /\ a[2].host \in SafeIps => a[2].padded

\* cape-export.py: "MISP push failed; writing JSON instead".  After an export
\* that was not killed the event is on the server or in the file, unless a reply
\* that stored nothing was taken for the server's (push_misp reads no more of it
\* than that it is JSON), and the STIX bundle of the same report beside it says
\* nothing the event does not say.
ExportComplete ==
  ex.step = "idle" /\ ex.whole =>
    LET r == TheReport
        json == ExportFile("misp", r)
        stix == ExportFile("stix", r)
        event == MispEvent(Extract(r))
    IN  /\ \/ event \in misp
           \/ json \in DOMAIN files /\ files[json] = event
           \/ ex.hollow
        /\ stix \in DOMAIN files
        /\ files[stix] # Partial /\ files[stix].indicators \subseteq event.detect
        /\ files[stix].family = event.family

\* File names depend on the report alone: when all rules of a report have been
\* written once, another run on it adds no file, at whatever point earlier runs
\* were killed.
RerunAddsNothing ==
  [][rg.again => {f \in DOMAIN files' : f.kind \in {"suricata", "yara", "sigma"}}
                   \subseteq DOMAIN files]_vars

\* A layer that is there in full shows each technique of the report and of every
\* Sigma rule that was there in full for the whole run, and scores it by at least
\* the number of these sources, although rulegen writes to the directory while it
\* is read.  A rule that rulegen opens while navlayer runs is not promised: the
\* layer may have it as it was, as it will be, or not at all.
LayerCovers ==
  [][layer' # layer /\ layer' # Partial =>
       LET sure == nav.found \cup UNION {HarvestSigma(f) : f \in nav.stable}
       IN  \A p \in sure :
             /\ p[1] \in DOMAIN layer'
             /\ layer'[p[1]] >= Cardinality({q \in sure : q[1] = p[1]})]_vars
=============================================================================
