------------------------------ MODULE MCIntel -------------------------------
(* Instance of Intel for TLC: one task's report and the report of the same   *)
(* task processed again, whose configuration another extractor gave.         *)
EXTENDS Intel

Request(m, h, p) == [method |-> m, host |-> Domain(h), path |-> p]
Dropped(n, h) == [name |-> n, sha256 |-> h, tags |-> {}]
First ==
  [id |-> "1", malfamily |-> "", category |-> "file", sha256 |-> "s1", name |-> "invoice",
   hosts |-> {[form |-> "ipv4", host |-> "8.8.8.8", path |-> "", padded |-> FALSE],
              [form |-> "ipv4", host |-> "203.0.113.10", path |-> "", padded |-> FALSE]},
   dns |-> <<Domain("c2"), Domain("microsoft"), Domain("c2"),
             [Domain("microsoft") EXCEPT !.padded = TRUE]>>,
   http |-> <<Request("POST", "c2", "fixed"), Request("GET", "c2", "dynamic"),
              Request("GET", "microsoft", "fixed")>>,
   tls |-> <<[sni |-> "microsoft", ja3 |-> "j"], [sni |-> "c2", ja3 |-> "j"]>>,
   configs |-> <<[family |-> "", values |-> {}],
                 [family |-> "tesla",
                  values |-> {Url("c2", "fixed"),
                              [Domain("microsoft") EXCEPT !.padded = TRUE],
                              [Domain("k1") EXCEPT !.form = "none"],
                              [Domain("k2") EXCEPT !.form = "none"]}]>>,
   malconf |-> <<[family |-> "other", values |-> {Url("unread", "fixed")}]>>,
   mutexes |-> {[Domain("m1") EXCEPT !.form = "none"]},
   keys |-> <<[key |-> "run", persists |-> TRUE, tags |-> {"T1547.001"}]>>,
   commands |-> <<[benign |-> TRUE, tags |-> {"T1059.003"}],
                  [benign |-> FALSE, tags |-> {"T1053.005", "T1547.001"}]>>,
   dropped |-> <<Dropped("", "d1")>>,
   signatures |-> {[name |-> "stealer", techniques |-> {"T1056.001", "T1547.001"}]}]

Again ==
  [First EXCEPT !.configs = <<>>,
                !.malconf = <<[family |-> "tesla",
                               values |-> {Url("microsoft", "fixed"),
                                           [Domain("k1") EXCEPT !.form = "none"]}]>>,
                !.http = <<[method |-> "GET", path |-> "/",
                             host |-> [Domain("8.8.8.8") EXCEPT !.form = "ipv4"]]>>,
                !.mutexes = {}, !.keys = <<>>, !.signatures = {}]

MCReports == {First, Again}

\* cape-export shares nothing with the other two tools but the reports it reads,
\* so its steps and theirs are explored apart; no tool reads the layer, so that
\* one layer is written in a behaviour.  (All properties are proved without this.)
ExportAlone ==
  /\ layer = << >>
  /\ \/ ex.step = "idle" /\ ex.report = {}
     \/ /\ rg = RgIdle /\ nav = NavIdle
        /\ \A f \in DOMAIN files : f.kind \in {"misp", "stix"}
=============================================================================
