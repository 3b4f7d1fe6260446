-------------------------------- MODULE Iocs --------------------------------
(***************************************************************************)
(* capelib.py: the indicators of one CAPE report.  Pure operators, no      *)
(* state.                                                                  *)
(*                                                                         *)
(* A string of a report is a Value: what the regular expressions make of   *)
(* it without blanks (form), the host or name in it, the path behind the   *)
(* host of a URL, and whether blanks surround it.  A report is a record    *)
(* of the parts extract() reads; the parts it reads alike (hosts, domains, *)
(* DNS answers; dropped files and CAPE's payloads; MD5 beside SHA-256) are *)
(* one.                                                                    *)
(***************************************************************************)
EXTENDS Naturals, Sequences, FiniteSets, SequencesExt, FiniteSetsExt

CONSTANTS
  SafeDomains,  \* names in or under SAFELIST_DOMAINS
  SafeIps       \* SAFELIST_IPS

Forms == {"url", "ipv4", "domain", "none"}
Paths == {"", "/", "fixed", "dynamic"}
Value == [form : Forms, host : STRING, path : Paths, padded : BOOLEAN]
Domain(h) == [form |-> "domain", host |-> h, path |-> "", padded |-> FALSE]
Url(h, p) == [form |-> "url", host |-> h, path |-> p, padded |-> FALSE]

\* What json.load can give: lists are sequences, and all is finite.  A name that
\* was asked of DNS is no URL.
IsReport(r) ==
  /\ r.http \in Seq(Range(r.http)) /\ r.tls \in Seq(Range(r.tls))
  /\ r.dns \in Seq({v \in Value : v.form # "url"})
  /\ r.commands \in Seq(Range(r.commands)) /\ r.keys \in Seq(Range(r.keys))
  /\ r.dropped \in Seq(Range(r.dropped))
  /\ r.configs \in Seq(Range(r.configs)) /\ r.malconf \in Seq(Range(r.malconf))
  /\ \A c \in Range(r.configs) \cup Range(r.malconf) : IsFiniteSet(c.values)
  /\ \A c \in Range(r.commands) : IsFiniteSet(c.tags)
  /\ \A k \in Range(r.keys) : IsFiniteSet(k.tags)
  /\ \A d \in Range(r.dropped) : IsFiniteSet(d.tags)
  /\ \A g \in r.signatures : IsFiniteSet(g.techniques)
  /\ IsFiniteSet(r.hosts) /\ IsFiniteSet(r.mutexes) /\ IsFiniteSet(r.signatures)

\* classify() looks at the string without the blanks around it.
Classify(v) == v.form

\* domain_safelisted, ip_safelisted: the string as it is; a URL ends in a path.
DomainSafelisted(v) == v.form # "url" /\ v.host \in SafeDomains /\ ~v.padded
IpSafelisted(v) == v.form # "url" /\ v.host \in SafeIps /\ ~v.padded

\* IOCSet.add_value for each of the values.
Added(values, form) ==
  {v \in values : /\ Classify(v) = form
                  /\ form = "ipv4" => ~IpSafelisted(v)
                  /\ form = "domain" => ~DomainSafelisted(v)}

\* CAPE's configurations, those of another extractor only if there are none.
Sections(r) == IF r.configs # <<>> THEN r.configs ELSE r.malconf

\* _walk_config: every string at any depth of the configurations.
ConfigValues(sections) == UNION {c.values : c \in Range(sections)}

\* The first name that is not empty, "" if none is.
FirstName(names) ==
  LET given == SelectSeq(names, LAMBDA n : n # "")
  IN  IF given = <<>> THEN "" ELSE Head(given)

Family(r) == FirstName([i \in DOMAIN Sections(r) |-> Sections(r)[i].family]
                         \o <<r.malfamily, r.category>>)

\* extract().
Extract(r) ==
  LET seen == r.hosts \cup Range(r.dns) \cup {h.host : h \in Range(r.http)}
                \cup ConfigValues(Sections(r))
      requested == {Url(h.host.host, h.path) :
                      h \in {q \in Range(r.http) : q.host.host # "" /\ q.path # ""}}
      hashed == ({r.sha256} \cup {d.sha256 : d \in Range(r.dropped)}) \ {""}
  IN  [ipv4 |-> Added(seen, "ipv4"),
       domain |-> Added(seen, "domain"),
       url |-> Added(seen, "url") \cup requested,
       sha256 |-> hashed,
       filename |-> ({r.name} \cup {d.name : d \in Range(r.dropped)}) \ {""},
       ja3 |-> {t.ja3 : t \in Range(r.tls)} \ {""},
       regkey |-> {k.key : k \in Range(r.keys)},
       mutex |-> r.mutexes,
       family |-> Family(r),
       task |-> r.id]

\* meta["task_id"] or "report": reports without an id share their file names.
TaskName(r) == IF r.id = "" THEN "report" ELSE r.id
=============================================================================
