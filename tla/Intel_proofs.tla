---------------------------- MODULE Intel_proofs ----------------------------
(***************************************************************************)
(* Theorems about Intel, for any reports and safelists: what the tools     *)
(* leave on disk and on the server however their runs interleave, fail and *)
(* are killed.                                                             *)
(***************************************************************************)
EXTENDS Intel, RuleGen_proofs, TLAPS

USE IntelAssumption

RuleKinds == {"suricata", "yara", "sigma"}
AllWrites == UNION {Range(RuleWrites(r, "all")) : r \in Reports}

-----------------------------------------------------------------------------
(* The writes of a run.                                                    *)

LEMMA RangeOfConcat ==
  ASSUME NEW S, NEW s \in Seq(S), NEW t \in Seq(S)
  PROVE  s \o t \in Seq(S) /\ Range(s \o t) = Range(s) \cup Range(t)
  <1>1. s \o t \in Seq(S)
    OBVIOUS
  <1>2. Range(s \o t) \subseteq Range(s) \cup Range(t)
    <2> SUFFICES ASSUME NEW i \in DOMAIN (s \o t)
                 PROVE  (s \o t)[i] \in Range(s) \cup Range(t)
      BY DEF Range
    <2>1. CASE i <= Len(s)
      BY <2>1 DEF Range
    <2>2. CASE i > Len(s)
      <3>1. (s \o t)[i] = t[i - Len(s)] /\ i - Len(s) \in DOMAIN t
        BY <2>2
      <3> QED
        BY <3>1 DEF Range
    <2> QED
      BY <2>1, <2>2
  <1>3. Range(s) \subseteq Range(s \o t)
    <2> SUFFICES ASSUME NEW i \in DOMAIN s PROVE s[i] \in Range(s \o t)
      BY DEF Range
    <2>1. i \in DOMAIN (s \o t) /\ (s \o t)[i] = s[i]
      OBVIOUS
    <2> QED
      BY <2>1 DEF Range
  <1>4. Range(t) \subseteq Range(s \o t)
    <2> SUFFICES ASSUME NEW i \in DOMAIN t PROVE t[i] \in Range(s \o t)
      BY DEF Range
    <2>1. Len(s) + i \in DOMAIN (s \o t) /\ (s \o t)[Len(s) + i] = t[i]
      OBVIOUS
    <2> QED
      BY <2>1 DEF Range
  <1> QED
    BY <1>1, <1>2, <1>3, <1>4

\* The part of RuleWrites that comes of one kind of rules.
Part(kind, rules, r, what) ==
  IF what \notin {kind, "all"} \/ rules = <<>> THEN <<>>
  ELSE <<Write(File(kind, r, "", 0), rules)>>
SigmaPart(r, what) == IF what \in {"sigma", "all"} THEN SigmaWrites(r) ELSE <<>>

LEMMA Short == Range(<<>>) = {} /\ \A w : Range(<<w>>) = {w}
  BY DEF Range

LEMMA PartProps ==
  ASSUME NEW kind, NEW rules, NEW r, NEW what
  PROVE  LET p == Part(kind, rules, r, what)
         IN  /\ p \in Seq(Range(p)) /\ \A w \in Range(p) : w.file.kind = kind
             /\ Range(p) \subseteq Range(Part(kind, rules, r, "all"))
  <1> DEFINE w == Write(File(kind, r, "", 0), rules)
  <1>1. w.file.kind = kind
    BY DEF Write, File
  <1>2. /\ Part(kind, rules, r, "all") = IF rules = <<>> THEN <<>> ELSE <<w>>
        /\ Part(kind, rules, r, what) \in {<<>>, <<w>>}
        /\ rules = <<>> => Part(kind, rules, r, what) = <<>>
    BY DEF Part
  <1> HIDE DEF w
  <1>3. <<>> \in Seq({}) /\ <<w>> \in Seq({w})
    OBVIOUS
  <1> QED
    BY <1>1, <1>2, <1>3, Short

\* The writes whose files are of one of the three kinds.
LEMMA WritesParts ==
  ASSUME NEW r \in Reports, NEW what \in {"suricata", "yara", "sigma", "all"}
  PROVE  LET W == RuleWrites(r, what)
             A == Part("suricata", Suricata(r), r, what)
             B == Part("yara", Yara(r), r, what)
             C == SigmaPart(r, what)
         IN  /\ W \in Seq(Range(W)) /\ Range(W) = Range(A) \cup Range(B) \cup Range(C)
             /\ \A w \in Range(W) : w.file.kind \in RuleKinds
  <1> DEFINE W == RuleWrites(r, what)
             A == Part("suricata", Suricata(r), r, what)
             B == Part("yara", Yara(r), r, what)
             C == SigmaPart(r, what)
             S == Range(A) \cup Range(B) \cup Range(C)
  <1>1. /\ A \in Seq(Range(A)) /\ \A w \in Range(A) : w.file.kind = "suricata"
        /\ B \in Seq(Range(B)) /\ \A w \in Range(B) : w.file.kind = "yara"
    BY PartProps
  <1>2. C \in Seq(Range(C)) /\ \A w \in Range(C) : w.file.kind = "sigma"
    <2>1. Sigma(r) \in Seq(Range(Sigma(r)))
      BY SigmaOfReport
    <2>2. /\ SigmaWrites(r) \in Seq(Range(SigmaWrites(r)))
          /\ \A w \in Range(SigmaWrites(r)) : w.file.kind = "sigma"
      <3> DEFINE s == SigmaWrites(r)
                 n == Len(Sigma(r))
      <3>1. n \in Nat /\ s = [i \in 1 .. n |-> s[i]]
        BY <2>1 DEF SigmaWrites
      <3>2. s \in Seq(Range(s)) /\ DOMAIN s = 1 .. n
        <4> HIDE DEF s, n
        <4> QED
          BY <3>1, AsList
      <3>3. \A i \in DOMAIN s : s[i].file.kind = "sigma"
        BY DEF SigmaWrites, Write, File
      <3> HIDE DEF s
      <3>4. \A w \in Range(s) : w.file.kind = "sigma"
        BY <3>3 DEF Range
      <3> QED
        BY <3>2, <3>4 DEF s
    <2> QED
      BY <2>2 DEF SigmaPart, Range
  <1>3. A \in Seq(S) /\ B \in Seq(S) /\ C \in Seq(S)
    BY <1>1, <1>2
  <1>4. W = (A \o B) \o C
    BY DEF RuleWrites, Part, SigmaPart
  <1> HIDE DEF W, A, B, C
  <1>5. A \o B \in Seq(S) /\ Range(A \o B) = Range(A) \cup Range(B)
    BY <1>3, RangeOfConcat
  <1>6. W \in Seq(S) /\ Range(W) = S
    <2>1. /\ (A \o B) \o C \in Seq(S)
          /\ Range((A \o B) \o C) = Range(A \o B) \cup Range(C)
      <3> DEFINE D == A \o B
      <3>1. D \in Seq(S) /\ C \in Seq(S)
        BY <1>3, <1>5
      <3> HIDE DEF S, D
      <3>2. D \o C \in Seq(S) /\ Range(D \o C) = Range(D) \cup Range(C)
        BY <3>1, RangeOfConcat
      <3> QED
        BY <3>2 DEF D
    <2> QED
      BY <1>4, <1>5, <2>1
  <1>7. \A w \in S : w.file.kind \in RuleKinds
    BY <1>1, <1>2 DEF RuleKinds
  <1> QED
    BY <1>6, <1>7 DEF W, A, B, C

\* A run of any kind writes only files that a run of all kinds writes.
LEMMA WritesOfAll ==
  ASSUME NEW r \in Reports, NEW what \in {"suricata", "yara", "sigma", "all"}
  PROVE  /\ RuleWrites(r, what) \in Seq(AllWrites)
         /\ Range(RuleWrites(r, what)) \subseteq Range(RuleWrites(r, "all"))
  <1>1. Range(RuleWrites(r, what)) \subseteq Range(RuleWrites(r, "all"))
    <2> DEFINE A(k) == Part("suricata", Suricata(r), r, k)
               B(k) == Part("yara", Yara(r), r, k)
               C(k) == SigmaPart(r, k)
    <2>1. /\ Range(A(what)) \subseteq Range(A("all"))
          /\ Range(B(what)) \subseteq Range(B("all"))
          /\ Range(C(what)) \subseteq Range(C("all"))
      BY PartProps, Short DEF SigmaPart
    <2> HIDE DEF A, B, C
    <2>2. \A k \in {what, "all"} :
            Range(RuleWrites(r, k)) = Range(A(k)) \cup Range(B(k)) \cup Range(C(k))
      BY WritesParts DEF A, B, C
    <2> QED
      BY <2>1, <2>2
  <1>2. RuleWrites(r, what) \in Seq(Range(RuleWrites(r, what)))
    BY WritesParts
  <1>3. Range(RuleWrites(r, what)) \subseteq AllWrites
    BY <1>1 DEF AllWrites
  <1> QED
    BY <1>1, <1>2, <1>3

LEMMA WriteKinds == \A w \in AllWrites : w.file.kind \in RuleKinds
  BY WritesParts DEF AllWrites

-----------------------------------------------------------------------------
(* The invariant.                                                          *)

RgType == rg \in [todo : Seq(AllWrites), open : BOOLEAN, report : SUBSET Reports,
                  again : BOOLEAN]

\* The files of a report that was finished stay; a run that repeats it has
\* nothing to write but them.
RerunInv ==
  /\ RgType /\ done \subseteq Reports
  /\ \A r \in done : Names(RuleWrites(r, "all")) \subseteq DOMAIN files
  /\ rg.again => Names(rg.todo) \subseteq DOMAIN files
  /\ rg.open => rg.todo # <<>>

ExType == ex \in [step : {"idle", "push", "json", "stix"}, report : SUBSET Reports,
                  whole : BOOLEAN, hollow : BOOLEAN]
EventKept ==
  LET event == MispEvent(Extract(TheReport))
      json == ExportFile("misp", TheReport)
  IN  \/ event \in misp
      \/ json \in DOMAIN files /\ files[json] = event
      \/ ex.hollow

\* Past the push or the JSON file the event is kept, or was wrongly taken for it.
ExportInv == /\ ExType /\ ExportComplete
             /\ ex.step # "idle" => ex.whole = FALSE
             /\ ex.hollow => ex.step \in {"idle", "stix"}
             /\ ex.step = "stix" => EventKept

LEMMA NamesOf ==
  ASSUME NEW s \in Seq(AllWrites), s # <<>>
  PROVE  /\ Head(s) \in AllWrites /\ Tail(s) \in Seq(AllWrites)
         /\ Head(s).file \in Names(s) /\ Names(Tail(s)) \subseteq Names(s)
  <1>1. Head(s) = s[1] /\ 1 \in DOMAIN s
    OBVIOUS
  <1>2. \A j \in DOMAIN Tail(s) : j + 1 \in DOMAIN s /\ Tail(s)[j] = s[j + 1]
    OBVIOUS
  <1>3. Head(s) \in Range(s) /\ Range(Tail(s)) \subseteq Range(s)
    BY <1>1, <1>2 DEF Range
  <1> QED
    BY <1>3 DEF Names

LEMMA IdleProps ==
  /\ RgIdle \in [todo : Seq(AllWrites), open : BOOLEAN, report : SUBSET Reports,
                 again : BOOLEAN]
  /\ RgIdle.again = FALSE /\ RgIdle.open = FALSE /\ RgIdle.todo = <<>>
  BY DEF RgIdle

LEMMA RerunStep == RerunInv /\ [Next]_vars => RerunInv'
  <1> SUFFICES ASSUME RerunInv, [Next]_vars PROVE RerunInv'
    OBVIOUS
  <1> USE DEF RerunInv, RgType
  <1>1. CASE \E r \in Reports, what \in Kinds : RulegenStarts(r, what)
    <2> PICK r \in Reports, what \in Kinds : RulegenStarts(r, what)
      BY <1>1
    <2>1. /\ RuleWrites(r, what) \in Seq(AllWrites)
          /\ Names(RuleWrites(r, what)) \subseteq Names(RuleWrites(r, "all"))
      BY WritesOfAll DEF Names
    <2>2. UNCHANGED <<files, done>>
      BY DEF RulegenStarts
    <2>3. PICK a \in BOOLEAN : a = (r \in done)
      <3>1. (r \in done) \in BOOLEAN
        OBVIOUS
      <3> QED
        BY <3>1
    <2>4. rg' = [todo |-> RuleWrites(r, what), open |-> FALSE, report |-> {r}, again |-> a]
      BY <2>3 DEF RulegenStarts
    <2>5. /\ rg'.todo = RuleWrites(r, what) /\ rg'.again = a /\ rg'.open = FALSE
          /\ rg' \in [todo : Seq(AllWrites), open : BOOLEAN, report : SUBSET Reports,
                      again : BOOLEAN]
      BY <2>1, <2>4
    <2>6. a => Names(RuleWrites(r, "all")) \subseteq DOMAIN files
      BY <2>3
    <2> QED
      BY <2>1, <2>2, <2>5, <2>6
  <1>2. CASE RulegenOpens \/ RulegenWrites
    <2>1. rg.todo # <<>>
      BY <1>2 DEF RulegenOpens, RulegenWrites
    <2>2. /\ Head(rg.todo) \in AllWrites /\ Tail(rg.todo) \in Seq(AllWrites)
          /\ Names(Tail(rg.todo)) \subseteq Names(rg.todo)
      BY <2>1, NamesOf
    <2>3. /\ rg' \in [todo : Seq(AllWrites), open : BOOLEAN, report : SUBSET Reports,
                      again : BOOLEAN]
          /\ rg'.again = rg.again /\ rg'.todo \in {rg.todo, Tail(rg.todo)}
          /\ rg'.open => rg'.todo # <<>>
      BY <1>2, <2>1, <2>2 DEF RulegenOpens, RulegenWrites
    <2>4. DOMAIN files \subseteq DOMAIN files' /\ UNCHANGED done
      BY <1>2 DEF RulegenOpens, RulegenWrites, Written
    <2> QED
      BY <2>2, <2>3, <2>4
  <1>3. CASE RulegenEnds
    <2>1. UNCHANGED files
      BY <1>3 DEF RulegenEnds
    <2>2. \A r \in done' : r \in Reports /\ Names(RuleWrites(r, "all")) \subseteq DOMAIN files
      BY <1>3 DEF RulegenEnds
    <2>3. rg' = RgIdle
      BY <1>3 DEF RulegenEnds
    <2> QED
      BY <2>1, <2>2, <2>3, IdleProps
  <1>4. CASE RulegenKilled
    <2>1. UNCHANGED <<files, done>> /\ rg' = RgIdle
      BY <1>4 DEF RulegenKilled
    <2> QED
      BY <2>1, IdleProps
  <1>5. CASE PushMisp \/ WriteMispJson \/ WriteStix \/ ExportKilled
    <2>1. UNCHANGED <<rg, done>> /\ DOMAIN files \subseteq DOMAIN files'
      BY <1>5 DEF PushMisp, WriteMispJson, WriteStix, ExportKilled, Written
    <2> QED
      BY <2>1
  <1>6. CASE UNCHANGED <<files, rg, done>>
    BY <1>6
  <1>7. CASE \/ \E r \in Reports, push \in BOOLEAN : ExportStarts(r, push)
             \/ \E rs \in {{}} \cup {{r} : r \in Reports}, sigma \in BOOLEAN :
                  NavStarts(rs, sigma)
             \/ NavReads \/ NavWrites \/ NavKilled
    <2>1. UNCHANGED <<files, rg, done>>
      BY <1>7 DEF ExportStarts, NavStarts, NavReads, NavWrites, NavKilled
    <2> QED
      BY <2>1
  <1> QED
    BY <1>1, <1>2, <1>3, <1>4, <1>5, <1>6, <1>7 DEF Next, vars

\* A file of rules is no file of cape-export's, and the other way round.
LEMMA OtherNames ==
  ASSUME NEW w \in AllWrites, NEW r
  PROVE  w.file # ExportFile("misp", r) /\ w.file # ExportFile("stix", r)
         /\ ExportFile("misp", r) # ExportFile("stix", r)
  BY WriteKinds DEF RuleKinds, ExportFile

\* The report of an export does not change before the next one begins.
LEMMA SameReport == ex'.report = ex.report => TheReport' = TheReport
  BY DEF TheReport

\* What the bundle says of a report the event says as well.
LEMMA BundleInEvent ==
  ASSUME NEW i
  PROVE  /\ StixBundle(i).indicators \subseteq MispEvent(i).detect
         /\ StixBundle(i).family = MispEvent(i).family /\ StixBundle(i) # Partial
  <1>1. /\ StixBundle(i).indicators \subseteq MispEvent(i).detect
        /\ StixBundle(i).family = MispEvent(i).family
    BY DEF StixBundle, MispEvent
  <1>2. StixBundle(i) # Partial
    <2>1. "kind" \in DOMAIN StixBundle(i)
      BY DEF StixBundle
    <2>2. "kind" \notin DOMAIN Partial
      BY DEF Partial
    <2> QED
      BY <2>1, <2>2
  <1> QED
    BY <1>1, <1>2

LEMMA ExportStepKeeps == RerunInv /\ ExportInv /\ [Next]_vars => ExportInv'
  <1> SUFFICES ASSUME RerunInv, ExportInv, [Next]_vars PROVE ExportInv'
    OBVIOUS
  <1> USE DEF ExportInv, ExType
  <1> DEFINE R == TheReport
             json == ExportFile("misp", R)
             stix == ExportFile("stix", R)
             event == MispEvent(Extract(R))
  <1>1. CASE \E r \in Reports, push \in BOOLEAN : ExportStarts(r, push)
    <2> PICK r \in Reports, push \in BOOLEAN : ExportStarts(r, push)
      BY <1>1
    <2>1. ex' \in [step : {"push", "json"}, report : SUBSET Reports, whole : {FALSE},
                   hollow : {FALSE}]
      BY DEF ExportStarts
    <2> QED
      BY <2>1 DEF ExportComplete
  <1>2. CASE PushMisp
    <2>1. /\ ex.step = "push" /\ ex'.step \in {"stix", "json"} /\ ex'.report = ex.report
          /\ ex'.whole = ex.whole /\ ExType'
      BY <1>2 DEF PushMisp, ExportStep
    <2>2. ex'.step = "stix" => event \in misp' \/ ex'.hollow
      BY <1>2, <2>1 DEF PushMisp, ExportStep
    <2>3. ex'.hollow => ex'.step = "stix"
      BY <1>2, <2>1 DEF PushMisp, ExportStep
    <2> QED
      BY <2>1, <2>2, <2>3, SameReport DEF ExportComplete, EventKept
  <1>3. CASE WriteMispJson
    <2>1. /\ ex.step = "json" /\ ex'.step = "stix" /\ ex'.report = ex.report
          /\ ex'.whole = ex.whole /\ ex'.hollow = ex.hollow /\ ExType'
      BY <1>3 DEF WriteMispJson, ExportStep
    <2>2. json \in DOMAIN files' /\ files'[json] = event
      BY <1>3 DEF WriteMispJson, Written
    <2> QED
      BY <2>1, <2>2, SameReport DEF ExportComplete, EventKept
  <1>4. CASE WriteStix
    <2>1. /\ ex.step = "stix" /\ ex'.step = "idle" /\ ex'.report = ex.report
          /\ ex'.hollow = ex.hollow /\ ExType'
      BY <1>4 DEF WriteStix
    <2>2. UNCHANGED misp
      BY <1>4 DEF WriteStix
    <2>3. stix \in DOMAIN files' /\ files'[stix] = StixBundle(Extract(R))
      BY <1>4 DEF WriteStix, Written
    <2>4. json # stix
      BY DEF ExportFile
    <2>5. json \in DOMAIN files => json \in DOMAIN files' /\ files'[json] = files[json]
      BY <1>4, <2>4 DEF WriteStix, Written
    <2>6. \/ event \in misp'
          \/ json \in DOMAIN files' /\ files'[json] = event
          \/ ex'.hollow
      BY <2>1, <2>2, <2>5 DEF EventKept
    <2> QED
      BY <2>1, <2>3, <2>6, SameReport, BundleInEvent DEF ExportComplete
  <1>5. CASE ExportKilled
    <2>1. /\ ex.step # "idle" /\ ex'.step = "idle" /\ ex'.whole = ex.whole /\ ExType'
      BY <1>5 DEF ExportKilled, ExportStep
    <2> QED
      BY <2>1 DEF ExportComplete
  <1>6. CASE RulegenOpens \/ RulegenWrites
    <2>1. rg.todo # <<>> /\ rg.todo \in Seq(AllWrites)
      BY <1>6 DEF RulegenOpens, RulegenWrites, RerunInv, RgType
    <2>2. Head(rg.todo) \in AllWrites
      BY <2>1, NamesOf
    <2> DEFINE f == Head(rg.todo).file
    <2>3. \A g \in DOMAIN files : g # f => g \in DOMAIN files' /\ files'[g] = files[g]
      BY <1>6 DEF RulegenOpens, RulegenWrites, Written
    <2>4. f # json /\ f # stix
      BY <2>2, OtherNames
    <2>5. UNCHANGED <<ex, misp>>
      BY <1>6 DEF RulegenOpens, RulegenWrites
    <2> HIDE DEF f
    <2>6. EventKept => EventKept'
      BY <2>3, <2>4, <2>5, SameReport DEF EventKept
    <2>7. ExportComplete'
      BY <2>3, <2>4, <2>5, SameReport DEF ExportComplete
    <2> QED
      BY <2>5, <2>6, <2>7
  <1>7. CASE UNCHANGED <<files, ex, misp>>
    BY <1>7, SameReport DEF ExportComplete, EventKept
  <1>8. CASE \/ \E r \in Reports, what \in Kinds : RulegenStarts(r, what)
             \/ \E rs \in {{}} \cup {{r} : r \in Reports}, sigma \in BOOLEAN :
                  NavStarts(rs, sigma)
             \/ RulegenEnds \/ RulegenKilled
             \/ NavReads \/ NavWrites \/ NavKilled
    <2>1. UNCHANGED <<files, ex, misp>>
      BY <1>8 DEF RulegenStarts, NavStarts, RulegenEnds, RulegenKilled, NavReads,
                  NavWrites, NavKilled
    <2> QED
      BY <1>7, <2>1
  <1> QED
    BY <1>1, <1>2, <1>3, <1>4, <1>5, <1>6, <1>7, <1>8 DEF Next, vars

LEMMA Inductive == Spec => [](RerunInv /\ ExportInv)
  <1>1. Init => RerunInv /\ ExportInv
    BY IdleProps DEF Init, RerunInv, RgType, ExportInv, ExType, ExportComplete
  <1>2. RerunInv /\ ExportInv /\ [Next]_vars => (RerunInv /\ ExportInv)'
    BY RerunStep, ExportStepKeeps
  <1> QED
    BY <1>1, <1>2, PTL DEF Spec

(* Whatever rulegen does beside it, a finished export leaves the event on    *)
(* the server or in the file, unless it took a reply that stored nothing for *)
(* the server's, and a bundle that agrees with the event.                    *)
THEOREM ExportIsComplete == Spec => []ExportComplete
  <1>1. ExportInv => ExportComplete
    BY DEF ExportInv
  <1> QED
    BY <1>1, Inductive, PTL

(* For any reports: once all rules of a report were written, no later run of *)
(* any kind adds a file for it.                                              *)
THEOREM NoNewFiles == Spec => RerunAddsNothing
  <1> DEFINE Rules(D) == {f \in D : f.kind \in {"suricata", "yara", "sigma"}}
  <1>1. RerunInv /\ [Next]_vars =>
          (rg.again => Rules(DOMAIN files') \subseteq DOMAIN files)
    <2> SUFFICES ASSUME RerunInv, [Next]_vars, rg.again,
                        NEW f \in DOMAIN files', f.kind \in RuleKinds
                 PROVE  f \in DOMAIN files
      BY DEF RuleKinds
    <2>1. CASE RulegenOpens \/ RulegenWrites
      <3>1. rg.todo # <<>> /\ rg.todo \in Seq(AllWrites)
        BY <2>1 DEF RulegenOpens, RulegenWrites, RerunInv, RgType
      <3>2. Head(rg.todo).file \in Names(rg.todo)
        BY <3>1, NamesOf
      <3>3. DOMAIN files' = DOMAIN files \cup {Head(rg.todo).file}
        BY <2>1 DEF RulegenOpens, RulegenWrites, Written
      <3> QED
        BY <3>2, <3>3 DEF RerunInv
    <2>2. CASE WriteMispJson \/ WriteStix \/ ExportKilled
      <3>1. DOMAIN files' \subseteq DOMAIN files \cup {ExportFile("misp", TheReport),
                                                       ExportFile("stix", TheReport)}
        BY <2>2 DEF WriteMispJson, WriteStix, ExportKilled, Written
      <3> QED
        BY <3>1 DEF ExportFile, RuleKinds
    <2>3. CASE UNCHANGED files
      BY <2>3
    <2> QED
      BY <2>1, <2>2, <2>3
         DEF Next, vars, RulegenStarts, ExportStarts, RulegenEnds, RulegenKilled,
             PushMisp, NavStarts, NavReads, NavWrites, NavKilled
  <1> QED
    BY <1>1, Inductive, PTL DEF Spec, RerunAddsNothing

-----------------------------------------------------------------------------
(* What the files hold, and what navlayer has of them.                     *)

\* A file is one of a report's; it is being written, or has what the tool makes
\* of the report.
Known(f, c) ==
  \/ \E w \in AllWrites : f = w.file /\ c \in {Partial, w.content}
  \/ \E r \in Reports :
       \/ f = ExportFile("misp", r) /\ c \in {Partial, MispEvent(Extract(r))}
       \/ f = ExportFile("stix", r) /\ c \in {Partial, StixBundle(Extract(r))}

FilesInv ==
  /\ \A f \in DOMAIN files : Known(f, files[f])
  /\ rg.open => /\ Head(rg.todo).file \in DOMAIN files
                /\ files[Head(rg.todo).file] = Partial
  /\ ex.step # "idle" => ex.report # {}
  /\ misp \subseteq {MispEvent(Extract(r)) : r \in Reports}

NavType ==
  nav = [on |-> nav.on, pairs |-> nav.pairs, unread |-> nav.unread, read |-> nav.read,
         stable |-> nav.stable, found |-> nav.found]

\* What was there for the whole run is read, or will be; what was read of it counts.
NavInv ==
  /\ NavType /\ IsFiniteSet(nav.pairs) /\ nav.found \subseteq nav.pairs
  /\ nav.unread \subseteq SigmaFiles /\ nav.read \subseteq SigmaFiles
  /\ nav.unread \cap nav.read = {} /\ nav.stable \subseteq nav.unread \cup nav.read
  /\ \A f \in nav.stable :
       files[f] # Partial /\ (f \in nav.read => HarvestSigma(f) \subseteq nav.pairs)

LEMMA WriteOf ==
  ASSUME NEW w \in AllWrites
  PROVE  \E r \in Reports :
           /\ w.file.task = TaskName(r)
           /\ w.file.kind = "suricata" => w.content = Suricata(r)
           /\ w.file.kind = "yara" => w.content = Yara(r)
           /\ w.file.kind = "sigma" => w.content \in Range(Sigma(r))
  <1>1. PICK r \in Reports : w \in Range(RuleWrites(r, "all"))
    BY DEF AllWrites
  <1> DEFINE A == Part("suricata", Suricata(r), r, "all")
             B == Part("yara", Yara(r), r, "all")
             C == SigmaPart(r, "all")
  <1>2. w \in Range(A) \cup Range(B) \cup Range(C)
    BY <1>1, WritesParts
  <1>3. ASSUME NEW kind, NEW rules, w \in Range(Part(kind, rules, r, "all"))
        PROVE  w.file.kind = kind /\ w.file.task = TaskName(r) /\ w.content = rules
    <2> DEFINE v == Write(File(kind, r, "", 0), rules)
    <2>1. v.file.kind = kind /\ v.file.task = TaskName(r) /\ v.content = rules
      BY DEF Write, File
    <2>2. Part(kind, rules, r, "all") = IF rules = <<>> THEN <<>> ELSE <<v>>
      BY DEF Part
    <2> HIDE DEF v
    <2> QED
      BY <1>3, <2>1, <2>2, Short
  <1>4. ASSUME w \in Range(C)
        PROVE  /\ w.file.kind = "sigma" /\ w.file.task = TaskName(r)
               /\ w.content \in Range(Sigma(r))
    <2>1. C = SigmaWrites(r)
      BY DEF SigmaPart
    <2>2. PICK i \in DOMAIN SigmaWrites(r) : w = SigmaWrites(r)[i]
      BY <1>4, <2>1 DEF Range
    <2>3. /\ i \in DOMAIN Sigma(r)
          /\ w = Write(File("sigma", r, Sigma(r)[i].cat, i - 1), Sigma(r)[i])
      BY <2>2 DEF SigmaWrites
    <2>4. Sigma(r)[i] \in Range(Sigma(r))
      BY <2>3 DEF Range
    <2> QED
      BY <2>3, <2>4 DEF Write, File
  <1> QED
    BY <1>2, <1>3, <1>4

LEMMA KnownWritten ==
  ASSUME \A f \in DOMAIN files : Known(f, files[f]),
         NEW g, NEW c, Known(g, c), Written(g, c)
  PROVE  /\ \A f \in DOMAIN files' : Known(f, files'[f])
         /\ g \in DOMAIN files' /\ files'[g] = c
         /\ \A f \in DOMAIN files : f # g => f \in DOMAIN files' /\ files'[f] = files[f]
  <1>1. DOMAIN files' = DOMAIN files \cup {g}
    BY DEF Written
  <1>2. \A f \in DOMAIN files \cup {g} : files'[f] = IF f = g THEN c ELSE files[f]
    BY DEF Written
  <1> QED
    BY <1>1, <1>2

LEMMA FilesStep == RerunInv /\ ExportInv /\ FilesInv /\ [Next]_vars => FilesInv'
  <1> SUFFICES ASSUME RerunInv, ExportInv, FilesInv, [Next]_vars PROVE FilesInv'
    OBVIOUS
  <1> DEFINE head == Head(rg.todo)
             R == TheReport
  <1>0. \A f \in DOMAIN files : Known(f, files[f])
    BY DEF FilesInv
  <1>1. ASSUME rg.todo # <<>>
        PROVE  head \in AllWrites /\ Known(head.file, Partial) /\ Known(head.file, head.content)
    <2>1. head \in AllWrites
      BY <1>1, NamesOf DEF RerunInv, RgType
    <2> HIDE DEF head
    <2> QED
      BY <2>1 DEF Known
  <1>2. ASSUME ex.step # "idle"
        PROVE  R \in Reports
    BY <1>2 DEF FilesInv, ExportInv, ExType, TheReport
  <1>3. CASE \E r \in Reports, what \in Kinds : RulegenStarts(r, what)
    <2>1. UNCHANGED <<files, ex, misp>> /\ rg'.open = FALSE
      BY <1>3 DEF RulegenStarts
    <2> QED
      BY <2>1 DEF FilesInv
  <1>4. CASE RulegenOpens
    <2>1. rg.todo # <<>> /\ Written(head.file, Partial) /\ UNCHANGED <<ex, misp>>
      BY <1>4 DEF RulegenOpens
    <2>2. rg'.todo = rg.todo
      BY <1>4 DEF RulegenOpens, RerunInv, RgType
    <2> HIDE DEF head
    <2>3. /\ \A f \in DOMAIN files' : Known(f, files'[f])
          /\ head.file \in DOMAIN files' /\ files'[head.file] = Partial
      BY <1>0, <1>1, <2>1, KnownWritten
    <2> QED
      BY <2>1, <2>2, <2>3 DEF FilesInv, head
  <1>5. CASE RulegenWrites
    <2>1. rg.todo # <<>> /\ Written(head.file, head.content) /\ UNCHANGED <<ex, misp>>
      BY <1>5 DEF RulegenWrites, RerunInv
    <2>2. rg'.open = FALSE
      BY <1>5 DEF RulegenWrites, RerunInv, RgType
    <2> HIDE DEF head
    <2>3. \A f \in DOMAIN files' : Known(f, files'[f])
      BY <1>0, <1>1, <2>1, KnownWritten
    <2> QED
      BY <2>1, <2>2, <2>3 DEF FilesInv
  <1>6. CASE RulegenEnds \/ RulegenKilled
    <2>1. UNCHANGED <<files, ex, misp>> /\ rg'.open = FALSE
      BY <1>6, IdleProps DEF RulegenEnds, RulegenKilled
    <2> QED
      BY <2>1 DEF FilesInv
  <1>7. CASE \E r \in Reports, push \in BOOLEAN : ExportStarts(r, push)
    <2>1. UNCHANGED <<files, rg, misp>> /\ ex'.report # {}
      BY <1>7 DEF ExportStarts
    <2> QED
      BY <2>1 DEF FilesInv
  <1>8. CASE PushMisp
    <2>1. /\ UNCHANGED <<files, rg>> /\ ex'.report = ex.report /\ ex.step # "idle"
          /\ misp' \subseteq misp \cup {MispEvent(Extract(R))}
      BY <1>8 DEF PushMisp, ExportStep, ExportInv, ExType
    <2>2. misp' \subseteq {MispEvent(Extract(r)) : r \in Reports}
      BY <1>2, <2>1 DEF FilesInv
    <2> QED
      BY <2>1, <2>2 DEF FilesInv
  <1>9. CASE /\ UNCHANGED <<rg, misp>> /\ ex'.report = ex.report /\ ex.step # "idle"
             /\ \/ UNCHANGED files
                \/ \E g, c : /\ Written(g, c) /\ Known(g, c)
                             /\ g \in {ExportFile("misp", R), ExportFile("stix", R)}
    <2>1. CASE UNCHANGED files
      BY <1>9, <2>1 DEF FilesInv
    <2>2. CASE \E g, c : /\ Written(g, c) /\ Known(g, c)
                         /\ g \in {ExportFile("misp", R), ExportFile("stix", R)}
      <3> PICK g, c : /\ Written(g, c) /\ Known(g, c)
                      /\ g \in {ExportFile("misp", R), ExportFile("stix", R)}
        BY <2>2
      <3>1. /\ \A f \in DOMAIN files' : Known(f, files'[f])
            /\ \A f \in DOMAIN files : f # g => f \in DOMAIN files' /\ files'[f] = files[f]
        BY <1>0, KnownWritten
      <3>2. rg.open => head.file # g
        BY <1>1, OtherNames DEF RerunInv
      <3> HIDE DEF head
      <3>3. rg.open => head.file \in DOMAIN files' /\ files'[head.file] = Partial
        BY <3>1, <3>2 DEF FilesInv, head
      <3> QED
        BY <1>9, <3>1, <3>3 DEF FilesInv, head
    <2> QED
      BY <1>9, <2>1, <2>2
  <1>10. CASE WriteMispJson \/ WriteStix \/ ExportKilled
    <2>1. UNCHANGED <<rg, misp>> /\ ex'.report = ex.report /\ ex.step # "idle"
      BY <1>10 DEF WriteMispJson, WriteStix, ExportKilled, ExportStep, ExportInv, ExType
    <2>2. \/ UNCHANGED files
          \/ Written(ExportFile("misp", R), MispEvent(Extract(R)))
          \/ Written(ExportFile("stix", R), StixBundle(Extract(R)))
          \/ Written(ExportFile("misp", R), Partial) \/ Written(ExportFile("stix", R), Partial)
      BY <1>10 DEF WriteMispJson, WriteStix, ExportKilled
    <2>3. /\ Known(ExportFile("misp", R), MispEvent(Extract(R)))
          /\ Known(ExportFile("stix", R), StixBundle(Extract(R)))
          /\ Known(ExportFile("misp", R), Partial) /\ Known(ExportFile("stix", R), Partial)
      BY <1>2, <2>1 DEF Known
    <2> HIDE DEF R
    <2> QED
      BY <1>9, <2>1, <2>2, <2>3
  <1>11. CASE UNCHANGED <<files, rg, ex, misp>>
    BY <1>11 DEF FilesInv
  <1>12. CASE \/ \E rs \in {{}} \cup {{r} : r \in Reports}, sigma \in BOOLEAN :
                   NavStarts(rs, sigma)
              \/ NavReads \/ NavWrites \/ NavKilled
    BY <1>11, <1>12 DEF NavStarts, NavReads, NavWrites, NavKilled
  <1> QED
    BY <1>3, <1>4, <1>5, <1>6, <1>7, <1>8, <1>10, <1>11, <1>12 DEF Next, vars

LEMMA HarvestFinite ==
  /\ \A r \in Reports : IsFiniteSet(HarvestReport(r))
  /\ FilesInv => \A f \in SigmaFiles : IsFiniteSet(HarvestSigma(f))
  <1>1. ASSUME NEW r \in Reports
        PROVE  IsFiniteSet(HarvestReport(r))
    <2> DEFINE S == r.signatures
               of == [s \in S |-> {<<t, <<"sig", s.name>>>> : t \in s.techniques}]
               V == {of[s] : s \in S}
    <2>1. IsFiniteSet(S) /\ \A s \in S : IsFiniteSet(s.techniques)
      BY DEF IsReport
    <2>2. ASSUME NEW s \in S
          PROVE  IsFiniteSet(of[s])
      <3> DEFINE T == s.techniques
                 pair == [t \in T |-> <<t, <<"sig", s.name>>>>]
      <3>1. IsFiniteSet(T)
        BY <2>1
      <3>2. of[s] = {pair[t] : t \in T}
        OBVIOUS
      <3> HIDE DEF T, pair, of
      <3>3. IsFiniteSet({pair[t] : t \in T})
        BY <3>1, ImageFinite
      <3> QED
        BY <3>2, <3>3
    <2>3. HarvestReport(r) = UNION V
      <3>1. \A s \in S : of[s] = {<<t, <<"sig", s.name>>>> : t \in s.techniques}
        OBVIOUS
      <3> HIDE DEF of
      <3>2. V = {{<<t, <<"sig", s.name>>>> : t \in s.techniques} : s \in r.signatures}
        BY <3>1
      <3> HIDE DEF V
      <3> QED
        BY <3>2 DEF HarvestReport
    <2> HIDE DEF S, of
    <2>4. IsFiniteSet(V)
      BY <2>1, ImageFinite
    <2>5. \A v \in V : IsFiniteSet(v)
      BY <2>2
    <2> HIDE DEF V
    <2> QED
      BY <2>3, <2>4, <2>5, FS_UNION
  <1>2. ASSUME FilesInv, NEW f \in SigmaFiles
        PROVE  IsFiniteSet(HarvestSigma(f))
    <2>1. CASE files[f] = Partial
      <3>1. HarvestSigma(f) = {}
        BY <2>1 DEF HarvestSigma
      <3> QED
        BY <3>1, FS_EmptySet
    <2>2. CASE files[f] # Partial
      <3>1. f \in DOMAIN files /\ f.kind = "sigma" /\ Known(f, files[f])
        BY <1>2 DEF SigmaFiles, FilesInv
      <3>2. \A r : ExportFile("misp", r).kind # "sigma" /\ ExportFile("stix", r).kind # "sigma"
        BY DEF ExportFile
      <3>3. PICK w \in AllWrites : f = w.file /\ files[f] = w.content
        BY <2>2, <3>1, <3>2 DEF Known
      <3>4. PICK r \in Reports : w.content \in Range(Sigma(r))
        BY <3>1, <3>3, WriteOf
      <3> DEFINE T == files[f].tags
                 pair == [t \in T |-> <<t, <<"sigma", f>>>>]
      <3>5. IsFiniteSet(T)
        BY <3>3, <3>4, SigmaOfReport
      <3>6. HarvestSigma(f) = {pair[t] : t \in T}
        BY <2>2 DEF HarvestSigma
      <3> HIDE DEF T, pair
      <3> QED
        BY <3>5, <3>6, ImageFinite
    <2> QED
      BY <2>1, <2>2
  <1> QED
    BY <1>1, <1>2

\* A step of the other tools: files are added, and those that are stable stay so.
LEMMA NavKept ==
  ASSUME NavInv, NavType', nav'.pairs = nav.pairs, nav'.found = nav.found,
         nav'.unread = nav.unread, nav'.read = nav.read, nav'.stable \subseteq nav.stable,
         DOMAIN files \subseteq DOMAIN files',
         \A f \in nav'.stable : files'[f] = files[f]
  PROVE  NavInv'
  <1>1. SigmaFiles \subseteq SigmaFiles'
    BY DEF SigmaFiles
  <1>2. \A f \in nav'.stable : HarvestSigma(f)' = HarvestSigma(f)
    BY DEF HarvestSigma
  <1> QED
    BY <1>1, <1>2 DEF NavInv

LEMMA NavStep == RerunInv /\ ExportInv /\ FilesInv /\ NavInv /\ [Next]_vars => NavInv'
  <1> SUFFICES ASSUME RerunInv, ExportInv, FilesInv, NavInv, [Next]_vars PROVE NavInv'
    OBVIOUS
  <1> DEFINE head == Head(rg.todo)
             R == TheReport
  <1>0. NavType /\ nav.stable \subseteq SigmaFiles
    BY DEF NavInv
  <1>1. CASE RulegenOpens
    <2>1. /\ rg.todo # <<>> /\ Written(head.file, Partial)
          /\ nav' = [nav EXCEPT !.stable = @ \ {head.file}]
      BY <1>1 DEF RulegenOpens
    <2>2. /\ NavType' /\ nav'.pairs = nav.pairs /\ nav'.found = nav.found
          /\ nav'.unread = nav.unread /\ nav'.read = nav.read
          /\ nav'.stable = nav.stable \ {head.file}
      BY <1>0, <2>1 DEF NavType
    <2> HIDE DEF head
    <2>3. /\ DOMAIN files \subseteq DOMAIN files'
          /\ \A f \in DOMAIN files : f # head.file => files'[f] = files[f]
      BY <2>1 DEF Written
    <2>4. nav'.stable \subseteq DOMAIN files \ {head.file}
      BY <1>0, <2>2 DEF SigmaFiles
    <2> QED
      BY <2>2, <2>3, <2>4, NavKept
  <1>2. CASE RulegenWrites
    <2>1. rg.open /\ Written(head.file, head.content) /\ UNCHANGED nav
      BY <1>2 DEF RulegenWrites
    <2>2. files[head.file] = Partial
      BY <2>1 DEF FilesInv
    <2> HIDE DEF head
    <2>3. /\ DOMAIN files \subseteq DOMAIN files'
          /\ \A f \in DOMAIN files : f # head.file => files'[f] = files[f]
      BY <2>1 DEF Written
    <2>4. \A f \in nav.stable : f \in DOMAIN files /\ f # head.file
      BY <1>0, <2>2 DEF SigmaFiles, NavInv
    <2>5. NavType'
      BY <1>0, <2>1 DEF NavType
    <2> QED
      BY <2>1, <2>3, <2>4, <2>5, NavKept
  <1>3. CASE WriteMispJson \/ WriteStix \/ ExportKilled
    <2>1. /\ UNCHANGED nav /\ DOMAIN files \subseteq DOMAIN files'
          /\ \A f \in DOMAIN files :
               f # ExportFile("misp", R) /\ f # ExportFile("stix", R) => files'[f] = files[f]
      BY <1>3 DEF WriteMispJson, WriteStix, ExportKilled, Written
    <2>2. \A f \in nav.stable :
            f \in DOMAIN files /\ f # ExportFile("misp", R) /\ f # ExportFile("stix", R)
      BY <1>0 DEF SigmaFiles, ExportFile
    <2>3. NavType'
      BY <1>0, <2>1 DEF NavType
    <2> HIDE DEF R
    <2> QED
      BY <2>1, <2>2, <2>3, NavKept
  <1>4. CASE UNCHANGED <<files, nav>>
    BY <1>4 DEF NavInv, NavType, SigmaFiles, HarvestSigma
  <1>5. CASE \E rs \in {{}} \cup {{r} : r \in Reports}, sigma \in BOOLEAN :
               NavStarts(rs, sigma)
    <2> PICK rs \in {{}} \cup {{r} : r \in Reports}, sigma \in BOOLEAN : NavStarts(rs, sigma)
      BY <1>5
    <2> DEFINE found == UNION {HarvestReport(r) : r \in rs}
               stable == {f \in SigmaFiles : files[f] # Partial}
    <2>1. IsFiniteSet(found)
      <3>1. CASE rs = {}
        <4>1. found = {}
          BY <3>1
        <4> QED
          BY <4>1, FS_EmptySet
      <3>2. CASE rs # {}
        <4>1. PICK r \in Reports : rs = {r}
          BY <3>2
        <4>2. found = HarvestReport(r)
          BY <4>1
        <4> QED
          BY <4>2, HarvestFinite
      <3> QED
        BY <3>1, <3>2
    <2>2. /\ NavType' /\ nav'.pairs = found /\ nav'.found = found /\ nav'.read = {}
          /\ nav'.unread = IF sigma THEN SigmaFiles ELSE {}
          /\ nav'.stable = IF sigma THEN stable ELSE {}
          /\ UNCHANGED files
      BY DEF NavStarts, NavType
    <2> HIDE DEF found
    <2>3. SigmaFiles' = SigmaFiles
      BY <2>2 DEF SigmaFiles
    <2> QED
      BY <2>1, <2>2, <2>3 DEF NavInv
  <1>6. CASE NavReads
    <2> PICK f \in SigmaFiles \ nav.read :
          nav' = [nav EXCEPT !.pairs = Merge(@, HarvestSigma(f)),
                             !.unread = @ \ {f}, !.read = @ \cup {f}]
      BY <1>6 DEF NavReads
    <2>1. /\ NavType' /\ nav'.pairs = nav.pairs \cup HarvestSigma(f)
          /\ nav'.found = nav.found /\ nav'.unread = nav.unread \ {f}
          /\ nav'.read = nav.read \cup {f} /\ nav'.stable = nav.stable
      BY <1>0 DEF NavType, Merge
    <2>2. UNCHANGED files
      BY <1>6 DEF NavReads
    <2>3. IsFiniteSet(nav'.pairs)
      <3> DEFINE old == nav.pairs
                 new == HarvestSigma(f)
      <3>1. IsFiniteSet(old) /\ IsFiniteSet(new)
        BY HarvestFinite DEF NavInv
      <3> HIDE DEF old, new
      <3>2. IsFiniteSet(old \cup new)
        BY <3>1, FS_Union
      <3> QED
        BY <2>1, <3>2 DEF old, new
    <2>4. SigmaFiles' = SigmaFiles /\ \A g : HarvestSigma(g)' = HarvestSigma(g)
      BY <2>2 DEF SigmaFiles, HarvestSigma
    <2>5. \A g \in nav.stable : g \in nav'.read => HarvestSigma(g) \subseteq nav'.pairs
      BY <2>1 DEF NavInv
    <2> QED
      BY <2>1, <2>2, <2>3, <2>4, <2>5 DEF NavInv
  <1>7. CASE NavWrites \/ NavKilled
    <2>1. nav' = NavIdle
      BY <1>7 DEF NavWrites, NavKilled
    <2> QED
      BY <2>1, FS_EmptySet DEF NavInv, NavType, NavIdle
  <1>8. CASE \/ \E r \in Reports, what \in Kinds : RulegenStarts(r, what)
             \/ \E r \in Reports, push \in BOOLEAN : ExportStarts(r, push)
             \/ RulegenEnds \/ RulegenKilled \/ PushMisp
    BY <1>4, <1>8 DEF RulegenStarts, ExportStarts, RulegenEnds, RulegenKilled, PushMisp
  <1> QED
    BY <1>1, <1>2, <1>3, <1>4, <1>5, <1>6, <1>7, <1>8 DEF Next, vars

LEMMA InductiveFiles == Spec => [](RerunInv /\ ExportInv /\ FilesInv /\ NavInv)
  <1> DEFINE Inv == RerunInv /\ ExportInv /\ FilesInv /\ NavInv
  <1>1. Init => Inv
    <2>1. Init => FilesInv
      BY IdleProps DEF Init, FilesInv
    <2>2. Init => NavInv
      BY FS_EmptySet DEF Init, NavInv, NavType, NavIdle
    <2>3. Init => RerunInv /\ ExportInv
      BY IdleProps DEF Init, RerunInv, RgType, ExportInv, ExType, ExportComplete
    <2> QED
      BY <2>1, <2>2, <2>3
  <1>2. Inv /\ [Next]_vars => Inv'
    BY RerunStep, ExportStepKeeps, FilesStep, NavStep
  <1> QED
    BY <1>1, <1>2, PTL DEF Spec

(* The variables keep their types; a file is one of a report's, and the one  *)
(* rulegen has open is empty.                                                *)
THEOREM TypeCorrect == Spec => []TypeOK
  <1>1. RerunInv /\ ExportInv /\ FilesInv /\ NavInv => TypeOK
    <2> SUFFICES ASSUME RerunInv, ExportInv, FilesInv, NavInv PROVE TypeOK
      OBVIOUS
    <2>1. ASSUME NEW f \in DOMAIN files
          PROVE  /\ f.kind \in {"suricata", "yara", "sigma", "misp", "stix"}
                 /\ f.task \in {TaskName(r) : r \in Reports}
      <3>1. Known(f, files[f])
        BY <2>1 DEF FilesInv
      <3>2. ASSUME NEW w \in AllWrites
            PROVE  w.file.kind \in RuleKinds /\ w.file.task \in {TaskName(r) : r \in Reports}
        BY WriteOf, WriteKinds
      <3>3. ASSUME NEW r \in Reports
            PROVE  /\ ExportFile("misp", r).kind = "misp" /\ ExportFile("stix", r).kind = "stix"
                   /\ ExportFile("misp", r).task = TaskName(r)
                   /\ ExportFile("stix", r).task = TaskName(r)
        BY DEF ExportFile
      <3> QED
        BY <3>1, <3>2, <3>3 DEF Known, RuleKinds
    <2>2. rg.open => rg.todo # <<>> /\ files[Head(rg.todo).file] = Partial
      BY DEF RerunInv, FilesInv
    <2>3. /\ ex.step \in {"idle", "push", "json", "stix"} /\ ex.report \subseteq Reports
          /\ ex.hollow => ex.step \in {"idle", "stix"}
      BY DEF ExportInv, ExType
    <2>4. /\ nav.unread \cup nav.read \subseteq SigmaFiles /\ nav.unread \cap nav.read = {}
          /\ nav.stable \cap {f \in SigmaFiles : files[f] = Partial} = {}
      BY DEF NavInv
    <2>5. done \subseteq Reports /\ \A e \in misp : e.kind = "event"
      BY DEF RerunInv, FilesInv, MispEvent
    <2> QED
      BY <2>1, <2>2, <2>3, <2>4, <2>5 DEF TypeOK
  <1> QED
    BY <1>1, InductiveFiles, PTL

\* What a file of rules that is there in full holds.
LEMMA RuleFileHolds ==
  ASSUME FilesInv
  PROVE  /\ \A f \in RuleFiles("suricata") : \E r \in Reports :
              files[f] = Suricata(r) /\ f.task = TaskName(r)
         /\ \A f \in RuleFiles("yara") : \E r \in Reports : files[f] = Yara(r)
         /\ \A f \in RuleFiles("misp") : \E r \in Reports : files[f] = MispEvent(Extract(r))
  <1> SUFFICES ASSUME NEW f \in DOMAIN files, files[f] # Partial
               PROVE  \E r \in Reports :
                        /\ f.kind = "suricata" =>
                             files[f] = Suricata(r) /\ f.task = TaskName(r)
                        /\ f.kind = "yara" => files[f] = Yara(r)
                        /\ f.kind = "misp" => files[f] = MispEvent(Extract(r))
    BY DEF RuleFiles
  <1>1. Known(f, files[f])
    BY DEF FilesInv
  <1>2. CASE \E w \in AllWrites : f = w.file /\ files[f] = w.content
    <2> PICK w \in AllWrites : f = w.file /\ files[f] = w.content
      BY <1>2
    <2>1. f.kind # "misp"
      BY WriteKinds DEF RuleKinds
    <2> QED
      BY <2>1, WriteOf
  <1>3. CASE \E r \in Reports : \/ f = ExportFile("misp", r) /\ files[f] = MispEvent(Extract(r))
                                \/ f = ExportFile("stix", r)
    BY <1>3 DEF ExportFile
  <1> QED
    BY <1>1, <1>2, <1>3 DEF Known

(* For any reports: the rules of a file that is there in full have numbers   *)
(* of their own and are about different things, and ask for no string they   *)
(* do not have.                                                              *)
THEOREM UsableRules == Spec => []RulesAreUsable
  <1>1. FilesInv => RulesAreUsable
    <2> SUFFICES ASSUME FilesInv PROVE RulesAreUsable
      OBVIOUS
    <2>1. ASSUME NEW f \in RuleFiles("suricata"), NEW i \in DOMAIN files[f],
                 NEW j \in DOMAIN files[f]
          PROVE  /\ files[f][i].sid = SidBase + i - 1
                 /\ i # j => [files[f][i] EXCEPT !.sid = 0] # [files[f][j] EXCEPT !.sid = 0]
      <3>1. PICK r \in Reports : files[f] = Suricata(r)
        BY RuleFileHolds
      <3> DEFINE x == files[f]
      <3>2. /\ \A k \in DOMAIN x : x[k].sid = SidBase + k - 1
            /\ \A k \in DOMAIN x, m \in DOMAIN x :
                 k # m => Unnumbered(x[k]) # Unnumbered(x[m])
        BY <3>1, SuricataIsSound
      <3> QED
        BY <3>2, Zenon DEF Unnumbered
    <2>2. ASSUME NEW f \in RuleFiles("yara"), NEW i \in DOMAIN files[f]
          PROVE  LET y == files[f][i]
                     n == Cardinality(y.strings)
                 IN  /\ n <= MaxStrings /\ y.needs <= n
                     /\ y.needs >= (IF n < 3 THEN n ELSE 3)
                     /\ n = 0 => y.hash # ""
      <3>1. PICK r \in Reports : files[f] = Yara(r)
        BY RuleFileHolds
      <3> QED
        BY <3>1, YaraIsUsable
    <2> QED
      BY <2>1, <2>2 DEF RulesAreUsable
  <1> QED
    BY <1>1, InductiveFiles, PTL

\* An event has no safelisted name or address, unless between blanks or in a URL.
LEMMA EventIsSafe ==
  ASSUME NEW r, NEW a \in MispEvent(Extract(r)).detect
  PROVE  /\ a[1] = "domain" /\ a[2].host \in SafeDomains => a[2].padded
         /\ a[1] = "ip-dst" /\ a[2].host \in SafeIps => a[2].padded
  <1> DEFINE x == Extract(r)
  <1>1. \/ a[1] = "ip-dst" /\ a[2] \in x.ipv4
        \/ a[1] = "domain" /\ a[2] \in x.domain
        \/ a[1] \notin {"domain", "ip-dst"}
    <2>1. a \in MispEvent(x).detect
      OBVIOUS
    <2> HIDE DEF x
    <2>2. a \in {<<"ip-dst", v>> : v \in x.ipv4} \cup {<<"domain", v>> : v \in x.domain}
                 \cup {<<"url", v>> : v \in x.url} \cup {<<"sha256", v>> : v \in x.sha256}
                 \cup {<<"ja3", v>> : v \in x.ja3}
      BY <2>1 DEF MispEvent
    <2> QED
      BY <2>2
  <1>2. \E s : x.ipv4 = Added(s, "ipv4") /\ x.domain = Added(s, "domain")
    BY DEF Extract
  <1> HIDE DEF x
  <1>3. /\ \A v \in x.ipv4 : v.form = "ipv4" /\ ~IpSafelisted(v)
        /\ \A v \in x.domain : v.form = "domain" /\ ~DomainSafelisted(v)
    BY <1>2 DEF Added, Classify
  <1>4. /\ \A v \in x.ipv4 : v.host \notin SafeIps \/ v.padded
        /\ \A v \in x.domain : v.host \notin SafeDomains \/ v.padded
    BY <1>3 DEF IpSafelisted, DomainSafelisted
  <1> QED
    BY <1>1, <1>4

(* For any reports and safelists: the alerts of a rules file are those of    *)
(* all its report met except safelisted names, and an event has nothing      *)
(* safelisted, but for the three gaps OnlyThreeGaps names: requests to       *)
(* safelisted addresses have alerts, what stands between blanks is not       *)
(* recognised, and URLs are exported whatever their host.                    *)
THEOREM SafelistedButForGaps == Spec => []OnlyThreeGaps
  <1>1. FilesInv => OnlyThreeGaps
    <2> SUFFICES ASSUME FilesInv PROVE OnlyThreeGaps
      OBVIOUS
    <2>1. ASSUME NEW f \in RuleFiles("suricata")
          PROVE  /\ \A i \in DOMAIN files[f] : SafeAlert(files[f][i])
                 /\ \E r \in Reports : f.task = TaskName(r) /\ Alerted(files[f], r)
      <3>1. PICK r \in Reports : files[f] = Suricata(r) /\ f.task = TaskName(r)
        BY RuleFileHolds
      <3> DEFINE x == files[f]
      <3>2. (\A k \in DOMAIN x : SafeAlert(x[k])) /\ Alerted(x, r)
        BY <3>1, SuricataIsSound
      <3> QED
        BY <3>1, <3>2
    <2>2. ASSUME NEW e \in misp \cup {files[f] : f \in RuleFiles("misp")}, NEW a \in e.detect
          PROVE  /\ a[1] = "domain" /\ a[2].host \in SafeDomains => a[2].padded
                 /\ a[1] = "ip-dst" /\ a[2].host \in SafeIps => a[2].padded
      <3>1. PICK r \in Reports : e = MispEvent(Extract(r))
        BY RuleFileHolds DEF FilesInv
      <3> QED
        BY <3>1, EventIsSafe
    <2> QED
      BY <2>1, <2>2 DEF OnlyThreeGaps
  <1> QED
    BY <1>1, InductiveFiles, PTL

(* However rulegen and navlayer interleave and are killed: a layer that is   *)
(* there in full covers the report and every Sigma rule that was there for   *)
(* the whole run, with scores that count them all.                           *)
THEOREM LayerCoversAll == Spec => LayerCovers
  <1> DEFINE sure == nav.found \cup UNION {HarvestSigma(f) : f \in nav.stable}
             Covers == layer' # layer /\ layer' # Partial =>
                         \A p \in sure :
                           /\ p[1] \in DOMAIN layer'
                           /\ layer'[p[1]] >= Cardinality({q \in sure : q[1] = p[1]})
  <1>1. NavInv /\ [Next]_vars => Covers
    <2> SUFFICES ASSUME NavInv, [Next]_vars, layer' # layer, layer' # Partial, NEW p \in sure
                 PROVE  /\ p[1] \in DOMAIN layer'
                        /\ layer'[p[1]] >= Cardinality({q \in sure : q[1] = p[1]})
      OBVIOUS
    <2>1. nav.unread = {} /\ layer' = BuildLayer(nav.pairs)
      <3>1. NavWrites \/ NavKilled
        BY DEF Next, vars, RulegenStarts, ExportStarts, RulegenOpens, RulegenWrites,
               RulegenEnds, RulegenKilled, PushMisp, WriteMispJson, WriteStix,
               ExportKilled, NavStarts, NavReads
      <3> QED
        BY <3>1 DEF NavWrites, NavKilled
    <2>2. sure \subseteq nav.pairs
      <3>1. \A f \in nav.stable : HarvestSigma(f) \subseteq nav.pairs
        BY <2>1 DEF NavInv
      <3> QED
        BY <3>1 DEF NavInv
    <2> DEFINE all == {q \in nav.pairs : q[1] = p[1]}
               mine == {q \in sure : q[1] = p[1]}
    <2>3. IsFiniteSet(all)
      BY FS_Subset DEF NavInv
    <2>4. mine \in SUBSET all
      BY <2>2
    <2> HIDE DEF sure
    <2>5. p[1] \in DOMAIN layer' /\ layer'[p[1]] = Cardinality(all)
      BY <2>1, <2>2 DEF BuildLayer, Techniques
    <2> HIDE DEF all, mine
    <2>6. Cardinality(mine) <= Cardinality(all) /\ IsFiniteSet(mine)
      BY <2>3, <2>4, FS_Subset
    <2>7. Cardinality(mine) \in Nat /\ Cardinality(all) \in Nat
      BY <2>3, <2>6, FS_CardinalityType
    <2> QED
      BY <2>5, <2>6, <2>7 DEF mine
  <1> QED
    BY <1>1, InductiveFiles, PTL DEF Spec, LayerCovers
=============================================================================
