------------------------------ MODULE RuleGen -------------------------------
(***************************************************************************)
(* rulegen.py: draft Suricata, YARA and Sigma rules of one report, as pure *)
(* operators, and the files one run of the tool writes, in their order.    *)
(*                                                                         *)
(* A rule is the record of what tells it from others: an alert its         *)
(* protocol and body, a YARA rule its strings and how many of them must    *)
(* match, a Sigma rule its category and ATT&CK tags.  Dates, UUIDs,        *)
(* messages, rule names, escaping and banners are left out, and so are     *)
(* --family and --samples.                                                 *)
(***************************************************************************)
EXTENDS Iocs

CONSTANTS
  SidBase,     \* --sid-base
  MaxStrings,  \* strings a YARA rule may have (20 in the code)
  Dull         \* names too short or long, or with one of YARA_COMMON in them

-----------------------------------------------------------------------------
(* gen_suricata.                                                           *)

\* No rule for an entry: the host or name is missing, or safelisted.
NoAlert == [proto |-> "none", body |-> <<>>]

\* The path anchors the rule only if it does not look dynamic.  Host, SNI and JA3
\* are stripped, DNS names not.
HttpAlert(h) ==
  IF h.host.host = "" \/ h.host.host \in SafeDomains THEN NoAlert
  ELSE [proto |-> "http",
        body |-> <<"host", h.method, h.host.host,
                   IF h.path \in {"", "/", "dynamic"} THEN "" ELSE h.path>>]

\* Mutation: the safelist is forgotten for queries.
DnsAlert_Unlisted(v) ==
  IF v.host = "" THEN NoAlert ELSE [proto |-> "dns", body |-> <<"query", v>>]
DnsAlert(v) ==
  IF v.host = "" \/ DomainSafelisted(v) THEN NoAlert
  ELSE [proto |-> "dns", body |-> <<"query", v>>]

\* Two for a connection; the JA3 alert does not depend on the SNI beside it.
SniAlert(t) ==
  IF t.sni = "" \/ t.sni \in SafeDomains THEN NoAlert
  ELSE [proto |-> "tls", body |-> <<"sni", t.sni>>]
Ja3Alert(t) ==
  IF t.ja3 = "" THEN NoAlert ELSE [proto |-> "tls", body |-> <<"ja3", t.ja3>>]

Alerts(r) ==
  [i \in DOMAIN r.http |-> HttpAlert(r.http[i])]
    \o [i \in DOMAIN r.dns |-> DnsAlert(r.dns[i])]
    \o [i \in 1 .. 2 * Len(r.tls) |->
          LET t == r.tls[(i + 1) \div 2]
          IN  IF i % 2 = 1 THEN SniAlert(t) ELSE Ja3Alert(t)]

\* emit(): a protocol and body once, each with the allocator's next SID.
Numbered(a, n) == [proto |-> a.proto, body |-> a.body, sid |-> SidBase + n]
\* Mutation: the bodies seen are not remembered.
Emit_Repeats(rules, a) ==
  IF a = NoAlert THEN rules ELSE Append(rules, Numbered(a, Len(rules)))
Emit(rules, a) ==
  IF a = NoAlert
       \/ \E i \in DOMAIN rules : rules[i].proto = a.proto /\ rules[i].body = a.body
  THEN rules
  ELSE Append(rules, Numbered(a, Len(rules)))

Suricata(r) == FoldLeft(Emit, <<>>, Alerts(r))

(* What the alerts say of the report.                                      *)

\* What an alert is anchored on.  A safelisted name only if the report has it
\* between blanks in a query.
SafeAlert(a) ==
  /\ a.body[1] = "host" => a.body[3] \notin SafeDomains
  /\ a.body[1] = "sni" => a.body[2] \notin SafeDomains
  /\ a.body[1] = "query" => a.body[2].host \notin SafeDomains \/ a.body[2].padded

\* Whatever r met by another name, or by a safelisted address, has its alert in x.
Alerted(x, r) ==
  LET anchors(kind) == {i \in DOMAIN x : x[i].body[1] = kind}
  IN  /\ \A h \in Range(r.http) : h.host.host \notin SafeDomains \cup {""} =>
           \E i \in anchors("host") : x[i].body[3] = h.host.host
      /\ \A v \in Range(r.dns) : v.host # "" /\ (v.host \in SafeDomains => v.padded) =>
           \E i \in anchors("query") : x[i].body[2] = v
      /\ \A t \in Range(r.tls) : t.sni \notin SafeDomains \cup {""} =>
           \E i \in anchors("sni") : x[i].body[2] = t.sni

-----------------------------------------------------------------------------
(* gen_yara.                                                               *)

\* Here the blanks are taken off before the safelist is asked.
Interesting(v) == v.host \notin Dull /\ ~DomainSafelisted([v EXCEPT !.padded = FALSE])

\* CAPE's own configurations; another extractor's only for the URLs in them.
Candidates(r) ==
  {v \in ConfigValues(r.configs) \cup Extract(r).mutex \cup Extract(r).url :
     Interesting(v)}

\* The longest ones, as many as a rule may have.
Chosen(r) ==
  LET n == Cardinality(Candidates(r))
  IN  CHOOSE c \in kSubset(IF n < MaxStrings THEN n ELSE MaxStrings, Candidates(r)) : TRUE

\* "all of them" up to three, then at least three and about half.
Needed(n) == IF n <= 3 THEN n ELSE IF n \div 2 > 3 THEN n \div 2 ELSE 3

\* Without strings a rule on a hash: the first of the report's, which may be
\* that of a dropped file; without a hash nothing.
Yara(r) ==
  LET hashes == Extract(r).sha256
      n == Cardinality(Chosen(r))
  IN  IF Chosen(r) # {} THEN <<[strings |-> Chosen(r), needs |-> Needed(n), hash |-> ""]>>
      ELSE IF hashes # {}
      THEN <<[strings |-> {}, needs |-> 0, hash |-> CHOOSE h \in hashes : TRUE]>>
      ELSE <<>>

-----------------------------------------------------------------------------
(* gen_sigma: commands that are not benign, keys that persist, dropped     *)
(* files with a name; _sigma_tags of each.                                 *)

Observed(r) ==
  [i \in DOMAIN r.commands |->
     [cat |-> "proc", tags |-> r.commands[i].tags, told |-> ~r.commands[i].benign]]
    \o [i \in DOMAIN r.keys |->
          [cat |-> "reg", tags |-> r.keys[i].tags, told |-> r.keys[i].persists]]
    \o [i \in DOMAIN r.dropped |->
          [cat |-> "file", tags |-> r.dropped[i].tags, told |-> r.dropped[i].name # ""]]

AddSigma(rules, o) ==
  IF o.told THEN Append(rules, [cat |-> o.cat, tags |-> o.tags]) ELSE rules

Sigma(r) == FoldLeft(AddSigma, <<>>, Observed(r))

-----------------------------------------------------------------------------
(* main(): the files of one run, in order.  Nothing is written for a kind  *)
(* that has no rules, and nothing is ever removed.                         *)

File(kind, r, cat, idx) ==
  [kind |-> kind, family |-> Family(r), task |-> TaskName(r), cat |-> cat, idx |-> idx]
Write(f, c) == [file |-> f, content |-> c]

SigmaWrites(r) ==
  [i \in DOMAIN Sigma(r) |->
     Write(File("sigma", r, Sigma(r)[i].cat, i - 1), Sigma(r)[i])]

RuleWrites(r, what) ==
  LET one(kind, rules) ==
        IF what \notin {kind, "all"} \/ rules = <<>> THEN <<>>
        ELSE <<Write(File(kind, r, "", 0), rules)>>
  IN  one("suricata", Suricata(r)) \o one("yara", Yara(r))
        \o IF what \in {"sigma", "all"} THEN SigmaWrites(r) ELSE <<>>
=============================================================================
