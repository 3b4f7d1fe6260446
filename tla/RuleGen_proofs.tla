--------------------------- MODULE RuleGen_proofs ---------------------------
(***************************************************************************)
(* What rulegen.py's generators compute, for every report: theorems about  *)
(* the operators of RuleGen and Iocs.  Their loops are folds; what a loop  *)
(* keeps is shown by induction on the part of the list it has seen, for    *)
(* which the least element of a set of naturals (LeastNat) is enough.      *)
(***************************************************************************)
EXTENDS RuleGen, WellFoundedInduction, FiniteSetTheorems, TLAPS

-----------------------------------------------------------------------------
(* Induction.                                                              *)

LEMMA LeastNat ==
  ASSUME NEW T, T \subseteq Nat, T # {}
  PROVE  \E n \in T : \A m \in T : n <= m
  <1>1. PICK n \in T : \A m \in T : ~(<<m, n>> \in OpToRel(<, Nat))
    BY NatLessThanWellFounded, WFMin
  <1>2. \A m \in T : ~(m < n)
    BY <1>1 DEF OpToRel
  <1> QED
    BY <1>2

\* A set that has 0 and with each number the next one has them all.
LEMMA Induction ==
  ASSUME NEW N \in Nat, NEW S, 0 \in S, \A n \in 0 .. N - 1 : n \in S => n + 1 \in S
  PROVE  \A n \in 0 .. N : n \in S
  <1> DEFINE T == {n \in 0 .. N : n \notin S}
  <1> SUFFICES ASSUME T # {} PROVE FALSE
    OBVIOUS
  <1>0. T \subseteq Nat /\ T # {}
    OBVIOUS
  <1> HIDE DEF T
  <1>1. PICK n \in T : \A m \in T : n <= m
    BY <1>0, LeastNat
  <1> USE DEF T
  <1>2. n # 0 /\ n \in 0 .. N /\ n - 1 \in 0 .. N - 1
    BY <1>1
  <1>3. n - 1 \in S
    BY <1>1, <1>2
  <1> QED
    BY <1>1, <1>2, <1>3

LEMMA MaxOfPrefix ==
  ASSUME NEW n \in Nat, NEW s \in SUBSET (1 .. n + 1)
  PROVE  n + 1 \in s => Max(s) = n + 1
  <1> SUFFICES ASSUME n + 1 \in s PROVE Max(s) = n + 1
    OBVIOUS
  <1>1. \A y \in s : n + 1 >= y
    OBVIOUS
  <1>2. \A x \in s : (\A y \in s : x >= y) => x = n + 1
    OBVIOUS
  <1> QED
    BY <1>1, <1>2 DEF Max

LEMMA MaxIsIn ==
  ASSUME NEW n \in Nat, NEW s \in SUBSET (1 .. n), s # {}
  PROVE  Max(s) \in s
  <1> DEFINE T == {m \in Nat : \A y \in s : m >= y}
  <1>1. n \in T
    OBVIOUS
  <1>2. PICK m \in T : \A k \in T : m <= k
    BY <1>1, LeastNat
  <1>3. m \in s
    <2> SUFFICES ASSUME m \notin s PROVE FALSE
      OBVIOUS
    <2>1. m \in Nat /\ \A y \in s : m >= y /\ y \in Nat /\ y >= 1
      BY <1>2
    <2>2. \A y \in s : m - 1 >= y
      BY <2>1
    <2>3. m - 1 \in Nat
      <3>1. PICK y \in s : TRUE
        OBVIOUS
      <3>2. m >= y /\ y >= 1 /\ m \in Nat /\ y \in Nat
        BY <2>1
      <3> QED
        BY <3>2
    <2> QED
      BY <1>2, <2>1, <2>2, <2>3
  <1>4. m \in s /\ \A y \in s : m >= y
    BY <1>2, <1>3
  <1> QED
    BY <1>4 DEF Max

-----------------------------------------------------------------------------
(* FoldLeft: it is a function on the sets of positions.                    *)

\* The function on sets of positions that takes the last one from each.
IsFold(it, n, base, h) ==
  it = [s \in SUBSET (1 .. n) |->
          IF s = {} THEN base ELSE h[<<it[s \ {Max(s)}], Max(s)>>]]

\* It exists.
LEMMA FoldExists ==
  ASSUME NEW N \in Nat, NEW G, NEW base \in G, NEW h \in [G \X (1 .. N) -> G]
  PROVE  \E it \in [SUBSET (1 .. N) -> G] : IsFold(it, N, base, h)
  <1> DEFINE S == {n \in 0 .. N : \E it \in [SUBSET (1 .. n) -> G] : IsFold(it, n, base, h)}
  <1>1. 0 \in S
    <2> DEFINE it == [s \in SUBSET (1 .. 0) |-> base]
    <2>1. it \in [SUBSET (1 .. 0) -> G]
      OBVIOUS
    <2>2. \A s \in SUBSET (1 .. 0) : s = {}
      OBVIOUS
    <2>3. IsFold(it, 0, base, h)
      BY <2>2 DEF IsFold
    <2> QED
      BY <2>1, <2>3
  <1>2. ASSUME NEW n \in 0 .. N - 1, n \in S
        PROVE  n + 1 \in S
    <2>1. PICK it \in [SUBSET (1 .. n) -> G] : IsFold(it, n, base, h)
      BY <1>2
    <2> DEFINE D == SUBSET (1 .. n + 1)
               jt == [s \in D |-> IF n + 1 \in s THEN h[<<it[s \ {n + 1}], n + 1>>]
                                  ELSE it[s]]
    <2>2. \A s \in D : s \ {n + 1} \in SUBSET (1 .. n)
      OBVIOUS
    <2>3. \A s \in D : n + 1 \notin s => s \in SUBSET (1 .. n)
      OBVIOUS
    <2>4. n + 1 \in 1 .. N
      OBVIOUS
    <2>5. \A s \in D : jt[s] \in G
      BY <2>2, <2>3, <2>4
    <2>6. jt \in [D -> G]
      BY <2>5
    <2>7. ASSUME NEW s \in D
          PROVE  jt[s] = IF s = {} THEN base ELSE h[<<jt[s \ {Max(s)}], Max(s)>>]
      <3>1. CASE n + 1 \in s
        <4>1. Max(s) = n + 1
          BY <3>1, MaxOfPrefix
        <4>2. s \ {n + 1} \in D /\ n + 1 \notin s \ {n + 1}
          OBVIOUS
        <4>3. jt[s \ {n + 1}] = it[s \ {n + 1}]
          BY <4>2
        <4>4. jt[s] = h[<<it[s \ {n + 1}], n + 1>>]
          BY <3>1
        <4> HIDE DEF jt
        <4> QED
          BY <3>1, <4>1, <4>3, <4>4
      <3>2. CASE n + 1 \notin s
        <4>1. s \in SUBSET (1 .. n)
          BY <3>2, <2>3
        <4>2. jt[s] = it[s]
          BY <3>2
        <4>3. it[s] = IF s = {} THEN base ELSE h[<<it[s \ {Max(s)}], Max(s)>>]
          BY <2>1, <4>1 DEF IsFold
        <4>4. s \ {Max(s)} \in D /\ n + 1 \notin s \ {Max(s)}
          BY <3>2
        <4>5. jt[s \ {Max(s)}] = it[s \ {Max(s)}]
          BY <4>4
        <4> HIDE DEF jt
        <4> QED
          BY <4>2, <4>3, <4>5
      <3> QED
        BY <3>1, <3>2
    <2> HIDE DEF jt
    <2>8. jt = [s \in D |-> IF s = {} THEN base ELSE h[<<jt[s \ {Max(s)}], Max(s)>>]]
      BY <2>6, <2>7
    <2>9. IsFold(jt, n + 1, base, h)
      BY <2>8 DEF IsFold
    <2> QED
      BY <2>6, <2>9
  <1> HIDE DEF S
  <1>3. \A n \in 0 .. N : n \in S
    BY <1>1, <1>2, Induction
  <1>4. N \in S
    BY <1>3
  <1> QED
    BY <1>4 DEF S

\* The last position of a prefix, and the prefix before it.
LEMMA Prefix ==
  ASSUME NEW N \in Nat, NEW n \in 0 .. N - 1
  PROVE  LET s == 1 .. n + 1
         IN  s \in SUBSET (1 .. N) /\ s # {} /\ Max(s) = n + 1 /\ s \ {n + 1} = 1 .. n
  BY MaxOfPrefix

-----------------------------------------------------------------------------
(* gen_suricata.                                                           *)

\* The rules some of the alerts A can have left: numbered from the base, no two
\* alike.
RuleLists(A) ==
  {x \in Seq({Numbered(a, n) : a \in A, n \in Nat}) :
     \A i \in DOMAIN x :
       /\ \E a \in A : a # NoAlert /\ x[i] = Numbered(a, i - 1)
       /\ \A j \in DOMAIN x :
            i # j => ~(x[i].proto = x[j].proto /\ x[i].body = x[j].body)}

LEMMA EmitKeeps ==
  ASSUME NEW A, NEW x \in RuleLists(A), NEW a \in A
  PROVE  Emit(x, a) \in RuleLists(A)
  <1> DEFINE R == {Numbered(b, n) : b \in A, n \in Nat}
             new == Numbered(a, Len(x))
             y == Append(x, new)
  <1>1. CASE Emit(x, a) = x
    BY <1>1
  <1>2. CASE /\ a # NoAlert /\ Emit(x, a) = y
             /\ \A i \in DOMAIN x : ~(x[i].proto = a.proto /\ x[i].body = a.body)
    <2>1. x \in Seq(R) /\ Len(x) \in Nat
      BY DEF RuleLists
    <2>2. new \in R /\ new.proto = a.proto /\ new.body = a.body
      BY <2>1 DEF Numbered
    <2> HIDE DEF new, R
    <2>3. /\ y \in Seq(R) /\ DOMAIN y = 1 .. Len(x) + 1 /\ DOMAIN x = 1 .. Len(x)
          /\ y[Len(x) + 1] = new /\ \A i \in DOMAIN x : y[i] = x[i]
      BY <2>1, <2>2
    <2> HIDE DEF y
    <2>4. ASSUME NEW i \in DOMAIN y
          PROVE  \E b \in A : b # NoAlert /\ y[i] = Numbered(b, i - 1)
      <3>1. CASE i = Len(x) + 1
        <4>1. i - 1 = Len(x)
          BY <2>1, <3>1
        <4> QED
          BY <1>2, <2>3, <3>1, <4>1 DEF new
      <3>2. CASE i # Len(x) + 1
        <4>1. i \in DOMAIN x
          BY <2>1, <2>3, <3>2
        <4> QED
          BY <2>3, <4>1 DEF RuleLists
      <3> QED
        BY <3>1, <3>2
    <2>5. ASSUME NEW i \in DOMAIN y, NEW j \in DOMAIN y, i # j
          PROVE  ~(y[i].proto = y[j].proto /\ y[i].body = y[j].body)
      <3>1. CASE i = Len(x) + 1
        <4>1. j \in DOMAIN x
          BY <2>1, <2>3, <2>5, <3>1
        <4> QED
          BY <1>2, <2>2, <2>3, <3>1, <4>1
      <3>2. CASE j = Len(x) + 1
        <4>1. i \in DOMAIN x
          BY <2>1, <2>3, <2>5, <3>2
        <4> QED
          BY <1>2, <2>2, <2>3, <3>2, <4>1
      <3>3. CASE i # Len(x) + 1 /\ j # Len(x) + 1
        <4>1. i \in DOMAIN x /\ j \in DOMAIN x
          BY <2>1, <2>3, <3>3
        <4> QED
          BY <2>3, <2>5, <4>1 DEF RuleLists
      <3> QED
        BY <3>1, <3>2, <3>3
    <2>6. y \in RuleLists(A)
      BY <2>3, <2>4, <2>5 DEF RuleLists, R
    <2> QED
      BY <1>2, <2>6
  <1> QED
    BY <1>1, <1>2 DEF Emit

\* There is a rule for what the alert says.
Has(rules, a) == \E i \in DOMAIN rules : rules[i].proto = a.proto /\ rules[i].body = a.body

LEMMA EmitExtends ==
  ASSUME NEW A, NEW x \in RuleLists(A), NEW a \in A
  PROVE  /\ \A b : Has(x, b) => Has(Emit(x, a), b)
         /\ a = NoAlert \/ Has(Emit(x, a), a)
  <1> DEFINE new == Numbered(a, Len(x))
             y == Append(x, new)
  <1>1. x \in Seq({Numbered(b, n) : b \in A, n \in Nat}) /\ Len(x) \in Nat
    BY DEF RuleLists
  <1>2. new.proto = a.proto /\ new.body = a.body
    BY DEF Numbered
  <1> HIDE DEF new
  <1>3. /\ DOMAIN x = 1 .. Len(x) /\ DOMAIN y = 1 .. Len(x) + 1
        /\ y[Len(x) + 1] = new /\ \A i \in DOMAIN x : y[i] = x[i]
    BY <1>1
  <1> HIDE DEF y
  <1>4. Has(y, a)
    <2>1. Len(x) + 1 \in DOMAIN y
      BY <1>1, <1>3
    <2> QED
      BY <1>2, <1>3, <2>1 DEF Has
  <1>5. \A b : Has(x, b) => Has(y, b)
    <2>1. DOMAIN x \subseteq DOMAIN y
      BY <1>1, <1>3
    <2> QED
      BY <1>3, <2>1 DEF Has
  <1>6. /\ Emit(x, a) = x \/ Emit(x, a) = y
        /\ a = NoAlert \/ Has(x, a) \/ Emit(x, a) = y
    BY DEF Emit, Has, y, new
  <1> QED
    BY <1>4, <1>5, <1>6

\* The fold is the loop: it starts with no rule and goes from alert to alert.
LEMMA EmitSteps ==
  ASSUME NEW A, NEW alerts \in Seq(A)
  PROVE  \E st \in [0 .. Len(alerts) -> RuleLists(A)] :
           /\ st[0] = <<>> /\ st[Len(alerts)] = FoldLeft(Emit, <<>>, alerts)
           /\ \A n \in 0 .. Len(alerts) - 1 : st[n + 1] = Emit(st[n], alerts[n + 1])
  <1> DEFINE N == Len(alerts)
             G == RuleLists(A)
             h == [p \in G \X (1 .. N) |-> Emit(p[1], alerts[p[2]])]
             Body(it, s) == IF s = {} THEN <<>>
                            ELSE Emit(it[s \ {Max(s)}], alerts[Max(s)])
             Is(it) == it = [s \in SUBSET (1 .. N) |-> Body(it, s)]
             fold == CHOOSE it : Is(it)
  <1>1. N \in Nat /\ DOMAIN alerts = 1 .. N /\ \A i \in 1 .. N : alerts[i] \in A
    OBVIOUS
  <1>2. <<>> \in G
    BY DEF RuleLists
  <1>3. \A x \in G : \A i \in 1 .. N : Emit(x, alerts[i]) \in G
    BY <1>1, EmitKeeps
  <1>4. FoldLeft(Emit, <<>>, alerts) = fold[1 .. N]
    BY <1>1 DEF FoldLeft, MapThenFoldSet
  <1> HIDE DEF G, N
  <1>5. h \in [G \X (1 .. N) -> G]
    BY <1>3
  <1>6. \A x \in G : \A i \in 1 .. N : h[<<x, i>>] = Emit(x, alerts[i])
    OBVIOUS
  <1> HIDE DEF h
  <1>7. PICK it \in [SUBSET (1 .. N) -> G] : IsFold(it, N, <<>>, h)
    BY <1>1, <1>2, <1>5, FoldExists
  <1>8. Is(it)
    <2>1. ASSUME NEW s \in SUBSET (1 .. N)
          PROVE  (IF s = {} THEN <<>> ELSE h[<<it[s \ {Max(s)}], Max(s)>>]) = Body(it, s)
      <3>1. CASE s = {}
        BY <3>1
      <3>2. CASE s # {}
        <4>1. Max(s) \in 1 .. N /\ s \ {Max(s)} \in SUBSET (1 .. N)
          BY <1>1, <3>2, MaxIsIn
        <4>2. it[s \ {Max(s)}] \in G
          BY <4>1
        <4> QED
          BY <1>6, <3>2, <4>1, <4>2
      <3> QED
        BY <3>1, <3>2
    <2> HIDE DEF Body
    <2> QED
      BY <1>7, <2>1 DEF IsFold
  <1> HIDE DEF Is
  <1>9. Is(fold)
    BY <1>8
  <1> HIDE DEF fold
  <1> DEFINE st == [n \in 0 .. N |-> fold[1 .. n]]
  <1>10. st[0] = <<>>
    <2>1. 1 .. 0 = {} /\ 0 \in 0 .. N
      BY <1>1
    <2> QED
      BY <1>9, <2>1 DEF Is
  <1>11. ASSUME NEW n \in 0 .. N - 1
         PROVE  st[n + 1] = Emit(st[n], alerts[n + 1])
    <2>1. /\ 1 .. n + 1 \in SUBSET (1 .. N) /\ 1 .. n + 1 # {}
          /\ Max(1 .. n + 1) = n + 1 /\ (1 .. n + 1) \ {n + 1} = 1 .. n
      BY <1>1, Prefix
    <2>2. n \in 0 .. N /\ n + 1 \in 0 .. N
      BY <1>1
    <2>3. fold[1 .. n + 1] = Body(fold, 1 .. n + 1)
      BY <1>9, <2>1 DEF Is
    <2> QED
      BY <2>1, <2>2, <2>3
  <1>12. \A n \in 0 .. N : st[n] \in G
    <2> DEFINE S == {n \in 0 .. N : st[n] \in G}
    <2>1. 0 \in S
      BY <1>1, <1>2, <1>10
    <2>2. ASSUME NEW n \in 0 .. N - 1, n \in S
          PROVE  n + 1 \in S
      <3>1. n + 1 \in 1 .. N /\ n + 1 \in 0 .. N
        BY <1>1
      <3> HIDE DEF st
      <3> QED
        BY <1>3, <1>11, <2>2, <3>1
    <2> HIDE DEF S
    <2>3. \A n \in 0 .. N : n \in S
      BY <1>1, <2>1, <2>2, Induction
    <2> QED
      BY <2>3 DEF S
  <1>13. st[N] = fold[1 .. N] /\ st \in [0 .. N -> G]
    BY <1>1, <1>12
  <1> HIDE DEF st
  <1> QED
    BY <1>4, <1>10, <1>11, <1>13 DEF G, N

(* Whatever alerts a report gives: the rules are numbered from the base      *)
(* without a gap and emitted once each, and no alert is lost.                *)
THEOREM EmittedOnce ==
  ASSUME NEW A, NEW alerts \in Seq(A)
  PROVE  LET rules == FoldLeft(Emit, <<>>, alerts)
         IN  /\ rules \in RuleLists(A)
             /\ \A k \in DOMAIN alerts : alerts[k] = NoAlert \/ Has(rules, alerts[k])
  <1> DEFINE N == Len(alerts)
  <1>1. PICK st \in [0 .. N -> RuleLists(A)] :
           /\ st[0] = <<>> /\ st[N] = FoldLeft(Emit, <<>>, alerts)
           /\ \A n \in 0 .. N - 1 : st[n + 1] = Emit(st[n], alerts[n + 1])
    BY EmitSteps
  <1>2. N \in Nat /\ DOMAIN alerts = 1 .. N /\ \A k \in 1 .. N : alerts[k] \in A
    OBVIOUS
  <1> HIDE DEF N
  <1> DEFINE S == {n \in 0 .. N : \A k \in 1 .. n : alerts[k] = NoAlert \/ Has(st[n], alerts[k])}
  <1>3. 0 \in S
    BY <1>2
  <1>4. ASSUME NEW n \in 0 .. N - 1, n \in S
        PROVE  n + 1 \in S
    <2>1. n \in 0 .. N /\ n + 1 \in 1 .. N /\ n + 1 \in 0 .. N
      BY <1>2
    <2> DEFINE x == st[n]
               a == alerts[n + 1]
    <2>2. x \in RuleLists(A) /\ a \in A /\ st[n + 1] = Emit(x, a)
      BY <1>1, <1>2, <2>1
    <2>3. \A k \in 1 .. n : alerts[k] = NoAlert \/ Has(x, alerts[k])
      BY <1>4
    <2> HIDE DEF x
    <2>4. \A b : Has(x, b) => Has(Emit(x, a), b)
      BY <2>2, EmitExtends
    <2>5. a = NoAlert \/ Has(Emit(x, a), a)
      BY <2>2, EmitExtends
    <2>6. ASSUME NEW k \in 1 .. n + 1
          PROVE  alerts[k] = NoAlert \/ Has(st[n + 1], alerts[k])
      <3>1. k \in 1 .. n \/ k = n + 1
        OBVIOUS
      <3> QED
        BY <2>2, <2>3, <2>4, <2>5, <3>1
    <2> QED
      BY <2>1, <2>6
  <1> HIDE DEF S
  <1>5. \A n \in 0 .. N : n \in S
    BY <1>2, <1>3, <1>4, Induction
  <1>6. N \in S /\ st[N] \in RuleLists(A)
    BY <1>2, <1>5
  <1> USE DEF S
  <1> QED
    BY <1>1, <1>2, <1>6

\* The rule without its number.
Unnumbered(x) == [x EXCEPT !.sid = 0]

LEMMA AsList ==
  ASSUME NEW n \in Nat, NEW s, s = [i \in 1 .. n |-> s[i]]
  PROVE  s \in Seq(Range(s)) /\ DOMAIN s = 1 .. n /\ Len(s) = n
  <1>1. DOMAIN s = 1 .. n
    OBVIOUS
  <1>2. \A i \in 1 .. n : s[i] \in Range(s)
    BY <1>1 DEF Range
  <1> DEFINE R == Range(s)
  <1> HIDE DEF R
  <1>3. s \in [1 .. n -> R]
    BY <1>2 DEF R
  <1> QED
    BY <1>1, <1>3 DEF R

LEMMA Wider ==
  ASSUME NEW S, NEW U, S \subseteq U, NEW s \in Seq(S)
  PROVE  s \in Seq(U)
  OBVIOUS

LEMMA AlertsAreSafe ==
  ASSUME NEW r, IsReport(r)
  PROVE  Alerts(r) \in Seq({a \in Range(Alerts(r)) : a # NoAlert => SafeAlert(a)})
  <1> DEFINE S == {a \in Range(Alerts(r)) : a # NoAlert => SafeAlert(a)}
             H == [i \in DOMAIN r.http |-> HttpAlert(r.http[i])]
             D == [i \in DOMAIN r.dns |-> DnsAlert(r.dns[i])]
             T == [i \in 1 .. 2 * Len(r.tls) |->
                     LET t == r.tls[(i + 1) \div 2]
                     IN  IF i % 2 = 1 THEN SniAlert(t) ELSE Ja3Alert(t)]
             Safe(a) == a # NoAlert => SafeAlert(a)
  <1>1. \A h : Safe(HttpAlert(h))
    BY DEF HttpAlert, SafeAlert
  <1>2. \A v \in Value : v.form # "url" => Safe(DnsAlert(v))
    <2> SUFFICES ASSUME NEW v \in Value, v.form # "url",
                        v.host # "", ~DomainSafelisted(v)
                 PROVE  SafeAlert([proto |-> "dns", body |-> <<"query", v>>])
      BY DEF DnsAlert
    <2>1. v.host \notin SafeDomains \/ v.padded
      BY DEF DomainSafelisted
    <2> QED
      BY <2>1 DEF SafeAlert
  <1>3. \A t : Safe(SniAlert(t)) /\ Safe(Ja3Alert(t))
    BY DEF SniAlert, Ja3Alert, SafeAlert
  <1>4. Len(r.tls) \in Nat
    BY DEF IsReport
  <1>5. /\ H \in Seq(Range(H)) /\ \A i \in DOMAIN H : Safe(H[i])
        /\ D \in Seq(Range(D)) /\ \A i \in DOMAIN D : Safe(D[i])
        /\ T \in Seq(Range(T)) /\ \A i \in DOMAIN T : Safe(T[i])
    <2>1. H \in Seq(Range(H)) /\ \A i \in DOMAIN H : Safe(H[i])
      <3>1. DOMAIN r.http = 1 .. Len(r.http) /\ Len(r.http) \in Nat
        BY DEF IsReport
      <3> HIDE DEF Safe
      <3> QED
        BY <1>1, <3>1 DEF Range
    <2>2. D \in Seq(Range(D)) /\ \A i \in DOMAIN D : Safe(D[i])
      <3>1. /\ DOMAIN r.dns = 1 .. Len(r.dns) /\ Len(r.dns) \in Nat
            /\ \A i \in DOMAIN r.dns : r.dns[i] \in Value /\ r.dns[i].form # "url"
        BY DEF IsReport
      <3> HIDE DEF Safe
      <3> QED
        BY <1>2, <3>1 DEF Range
    <2>3. T \in Seq(Range(T)) /\ \A i \in DOMAIN T : Safe(T[i])
      <3> HIDE DEF Safe
      <3>1. DOMAIN T = 1 .. 2 * Len(r.tls) /\ 2 * Len(r.tls) \in Nat
        BY <1>4
      <3>2. \A i \in DOMAIN T : Safe(T[i])
        BY <1>3, <3>1
      <3>3. T = [i \in 1 .. 2 * Len(r.tls) |-> T[i]]
        OBVIOUS
      <3> HIDE DEF T
      <3>4. T \in Seq(Range(T))
        BY <3>1, <3>3, AsList
      <3> QED
        BY <3>2, <3>4
    <2> QED
      BY <2>1, <2>2, <2>3
  <1> HIDE DEF Safe
  <1> DEFINE U == Range(H) \cup Range(D) \cup Range(T)
  <1>7. Alerts(r) = (H \o D) \o T
    BY DEF Alerts
  <1> HIDE DEF H, D, T
  <1>6. H \in Seq(U) /\ D \in Seq(U) /\ T \in Seq(U)
    <2>1. Range(H) \subseteq U /\ Range(D) \subseteq U /\ Range(T) \subseteq U
      OBVIOUS
    <2> HIDE DEF U
    <2> QED
      BY <1>5, <2>1, Wider
  <1>8. \A a \in U : Safe(a)
    BY <1>5 DEF Range
  <1> HIDE DEF U
  <1>9. Alerts(r) \in Seq(U)
    BY <1>6, <1>7
  <1>10. \A i \in DOMAIN Alerts(r) : Safe(Alerts(r)[i])
    BY <1>8, <1>9
  <1> QED
    BY <1>9, <1>10 DEF Range, Safe

LEMMA OddIndex ==
  ASSUME NEW i \in Nat \ {0}
  PROVE  ((2 * i - 1) + 1) \div 2 = i /\ (2 * i - 1) % 2 = 1
  <1>1. (2 * i - 1) + 1 = 2 * i
    OBVIOUS
  <1>2. (2 * i) \div 2 = i
    OBVIOUS
  <1>3. (2 * i - 1) % 2 = 1
    <2> DEFINE j == i - 1
    <2>1. j \in Nat /\ 2 * i - 1 = 2 * j + 1
      OBVIOUS
    <2> HIDE DEF j
    <2>2. (2 * j + 1) % 2 = 1
      BY <2>1
    <2> QED
      BY <2>1, <2>2
  <1> QED
    BY <1>1, <1>2, <1>3

LEMMA Joined2 ==
  ASSUME NEW U, NEW a \in Seq(U), NEW b \in Seq(U)
  PROVE  /\ a \o b \in Seq(U) /\ Len(a \o b) = Len(a) + Len(b)
         /\ \A i \in 1 .. Len(a) : (a \o b)[i] = a[i]
         /\ \A i \in 1 .. Len(b) : (a \o b)[Len(a) + i] = b[i]
  OBVIOUS

LEMMA Joined ==
  ASSUME NEW U, NEW a \in Seq(U), NEW b \in Seq(U), NEW c \in Seq(U)
  PROVE  /\ DOMAIN ((a \o b) \o c) = 1 .. Len(a) + Len(b) + Len(c)
         /\ \A i \in 1 .. Len(a) : ((a \o b) \o c)[i] = a[i]
         /\ \A i \in 1 .. Len(b) : ((a \o b) \o c)[Len(a) + i] = b[i]
         /\ \A i \in 1 .. Len(c) : ((a \o b) \o c)[Len(a) + Len(b) + i] = c[i]
  <1> DEFINE d == a \o b
  <1>1. /\ d \in Seq(U) /\ Len(d) = Len(a) + Len(b)
        /\ \A i \in 1 .. Len(a) : d[i] = a[i]
        /\ \A i \in 1 .. Len(b) : d[Len(a) + i] = b[i]
    BY Joined2
  <1> HIDE DEF d
  <1> DEFINE e == d \o c
  <1>2. /\ Len(e) = Len(d) + Len(c) /\ e \in Seq(U)
        /\ \A i \in 1 .. Len(d) : e[i] = d[i]
        /\ \A i \in 1 .. Len(c) : e[Len(d) + i] = c[i]
    <2>1. d \in Seq(U)
      BY <1>1
    <2> QED
      BY <2>1, Joined2
  <1> HIDE DEF e
  <1>3. /\ Len(a) \in Nat /\ Len(b) \in Nat /\ Len(c) \in Nat
        /\ DOMAIN e = 1 .. Len(e)
    BY <1>2
  <1>4. /\ DOMAIN e = 1 .. Len(a) + Len(b) + Len(c)
        /\ \A i \in 1 .. Len(c) : e[Len(a) + Len(b) + i] = c[i]
    BY <1>1, <1>2, <1>3
  <1>5. \A i \in 1 .. Len(a) : e[i] = a[i]
    BY <1>1, <1>2, <1>3
  <1>6. \A i \in 1 .. Len(b) : e[Len(a) + i] = b[i]
    <2> SUFFICES ASSUME NEW i \in 1 .. Len(b) PROVE e[Len(a) + i] = b[i]
      OBVIOUS
    <2>1. Len(a) + i \in 1 .. Len(d)
      BY <1>1, <1>3
    <2> QED
      BY <1>1, <1>2, <2>1
  <1> QED
    BY <1>4, <1>5, <1>6 DEF e, d

\* Each entry's alert is among them.
LEMMA AlertsHaveAll ==
  ASSUME NEW r, IsReport(r)
  PROVE  /\ \A h \in Range(r.http) : \E k \in DOMAIN Alerts(r) : Alerts(r)[k] = HttpAlert(h)
         /\ \A v \in Range(r.dns) : \E k \in DOMAIN Alerts(r) : Alerts(r)[k] = DnsAlert(v)
         /\ \A t \in Range(r.tls) : \E k \in DOMAIN Alerts(r) : Alerts(r)[k] = SniAlert(t)
  <1> DEFINE H == [i \in DOMAIN r.http |-> HttpAlert(r.http[i])]
             D == [i \in DOMAIN r.dns |-> DnsAlert(r.dns[i])]
             T == [i \in 1 .. 2 * Len(r.tls) |->
                     LET t == r.tls[(i + 1) \div 2]
                     IN  IF i % 2 = 1 THEN SniAlert(t) ELSE Ja3Alert(t)]
             m == Len(r.http)
             n == Len(r.dns)
             l == Len(r.tls)
  <1>1. /\ m \in Nat /\ DOMAIN r.http = 1 .. m
        /\ n \in Nat /\ DOMAIN r.dns = 1 .. n
        /\ l \in Nat /\ DOMAIN r.tls = 1 .. l
    BY DEF IsReport
  <1>2. H \in Seq(Range(H)) /\ Len(H) = m
    <2>1. H = [i \in 1 .. m |-> H[i]]
      BY <1>1
    <2> HIDE DEF H
    <2> QED
      BY <1>1, <2>1, AsList
  <1>3. D \in Seq(Range(D)) /\ Len(D) = n
    <2>1. D = [i \in 1 .. n |-> D[i]]
      BY <1>1
    <2> HIDE DEF D
    <2> QED
      BY <1>1, <2>1, AsList
  <1>4. T \in Seq(Range(T)) /\ Len(T) = 2 * l
    <2>1. T = [i \in 1 .. 2 * l |-> T[i]] /\ 2 * l \in Nat
      BY <1>1
    <2> HIDE DEF T
    <2> QED
      BY <2>1, AsList
  <1>5. /\ \A i \in 1 .. m : H[i] = HttpAlert(r.http[i])
        /\ \A i \in 1 .. n : D[i] = DnsAlert(r.dns[i])
    BY <1>1
  <1>6. ASSUME NEW i \in 1 .. l
        PROVE  2 * i - 1 \in 1 .. 2 * l /\ T[2 * i - 1] = SniAlert(r.tls[i])
    <2>1. 2 * i - 1 \in 1 .. 2 * l
      BY <1>1
    <2>2. ((2 * i - 1) + 1) \div 2 = i /\ (2 * i - 1) % 2 = 1
      BY OddIndex
    <2> QED
      BY <2>1, <2>2
  <1>7. Alerts(r) = (H \o D) \o T
    BY DEF Alerts
  <1> HIDE DEF H, D, T, m, n, l
  <1> DEFINE U == Range(H) \cup Range(D) \cup Range(T)
  <1>8. H \in Seq(U) /\ D \in Seq(U) /\ T \in Seq(U)
    <2>1. Range(H) \subseteq U /\ Range(D) \subseteq U /\ Range(T) \subseteq U
      OBVIOUS
    <2> HIDE DEF U
    <2> QED
      BY <1>2, <1>3, <1>4, <2>1, Wider
  <1> HIDE DEF U
  <1>9. /\ DOMAIN Alerts(r) = 1 .. m + n + 2 * l
        /\ \A i \in 1 .. m : Alerts(r)[i] = H[i]
        /\ \A i \in 1 .. n : Alerts(r)[m + i] = D[i]
        /\ \A i \in 1 .. 2 * l : Alerts(r)[m + n + i] = T[i]
    <2>1. /\ DOMAIN ((H \o D) \o T) = 1 .. Len(H) + Len(D) + Len(T)
          /\ \A i \in 1 .. Len(H) : ((H \o D) \o T)[i] = H[i]
          /\ \A i \in 1 .. Len(D) : ((H \o D) \o T)[Len(H) + i] = D[i]
          /\ \A i \in 1 .. Len(T) : ((H \o D) \o T)[Len(H) + Len(D) + i] = T[i]
      <3> HIDE <1>7
      <3> QED
        BY <1>8, Joined
    <2> QED
      BY <2>1, <1>2, <1>3, <1>4, <1>7, Zenon
  <1>10. ASSUME NEW h \in Range(r.http)
         PROVE  \E k \in DOMAIN Alerts(r) : Alerts(r)[k] = HttpAlert(h)
    <2>1. PICK i \in 1 .. m : h = r.http[i]
      BY <1>1 DEF Range
    <2> QED
      BY <1>1, <1>5, <1>9, <2>1
  <1>11. ASSUME NEW v \in Range(r.dns)
         PROVE  \E k \in DOMAIN Alerts(r) : Alerts(r)[k] = DnsAlert(v)
    <2>1. PICK i \in 1 .. n : v = r.dns[i]
      BY <1>1 DEF Range
    <2>2. m + i \in 1 .. m + n + 2 * l
      BY <1>1
    <2> QED
      BY <1>5, <1>9, <2>1, <2>2
  <1>12. ASSUME NEW t \in Range(r.tls)
         PROVE  \E k \in DOMAIN Alerts(r) : Alerts(r)[k] = SniAlert(t)
    <2>1. PICK i \in 1 .. l : t = r.tls[i]
      BY <1>1 DEF Range
    <2>2. m + n + (2 * i - 1) \in 1 .. m + n + 2 * l
      BY <1>1
    <2> QED
      BY <1>6, <1>9, <2>1, <2>2
  <1> QED
    BY <1>10, <1>11, <1>12

(* ROADMAP.md:87 and rulegen's selftest, for every report: the Suricata rules *)
(* are numbered from --sid-base without a gap, no two are for one thing, one  *)
(* is anchored on a safelisted name only if a query has it between blanks     *)
(* (safelisted addresses are not screened), no alert of the report lacks a    *)
(* rule, and so no host or queried name does that is not a safelisted name.   *)
THEOREM SuricataIsSound ==
  ASSUME NEW r, IsReport(r), SidBase \in Nat
  PROVE  LET x == Suricata(r)
         IN  /\ \A i \in DOMAIN x :
                  /\ x[i].sid = SidBase + i - 1
                  /\ SafeAlert(x[i])
                  /\ \A j \in DOMAIN x :
                       i # j => Unnumbered(x[i]) # Unnumbered(x[j])
             /\ \A k \in DOMAIN Alerts(r) : Alerts(r)[k] = NoAlert \/ Has(x, Alerts(r)[k])
             /\ Alerted(x, r)
  <1> DEFINE A == {a \in Range(Alerts(r)) : a # NoAlert => SafeAlert(a)}
             x == Suricata(r)
  <1>1. Alerts(r) \in Seq(A)
    BY AlertsAreSafe
  <1> HIDE DEF A
  <1>2. x \in RuleLists(A)
    BY <1>1, EmittedOnce DEF Suricata
  <1>7. \A k \in DOMAIN Alerts(r) : Alerts(r)[k] = NoAlert \/ Has(x, Alerts(r)[k])
    BY <1>1, EmittedOnce DEF Suricata
  <1> HIDE DEF x
  <1> USE DEF A
  <1>3. x \in Seq({Numbered(a, n) : a \in A, n \in Nat})
    BY <1>2 DEF RuleLists
  <1>4. DOMAIN x = 1 .. Len(x)
    BY <1>3
  <1>5. ASSUME NEW i \in DOMAIN x
        PROVE  x[i].sid = SidBase + i - 1 /\ SafeAlert(x[i])
               /\ x[i] = [proto |-> x[i].proto, body |-> x[i].body, sid |-> x[i].sid]
    <2>1. PICK a \in A : a # NoAlert /\ x[i] = Numbered(a, i - 1)
      BY <1>2 DEF RuleLists
    <2>2. SafeAlert(a)
      BY <2>1
    <2>3. x[i] = [proto |-> a.proto, body |-> a.body, sid |-> SidBase + (i - 1)]
      BY <2>1 DEF Numbered
    <2>4. SafeAlert(x[i])
      BY <2>2, <2>3 DEF SafeAlert
    <2>5. SidBase + (i - 1) = SidBase + i - 1
      BY <1>4
    <2> QED
      BY <2>3, <2>4, <2>5
  <1>6. ASSUME NEW i \in DOMAIN x, NEW j \in DOMAIN x, i # j
        PROVE  Unnumbered(x[i]) # Unnumbered(x[j])
    <2>1. ~(x[i].proto = x[j].proto /\ x[i].body = x[j].body)
      BY <1>2, <1>6 DEF RuleLists
    <2> DEFINE u == Unnumbered(x[i])
               v == Unnumbered(x[j])
    <2>2. /\ u.proto = x[i].proto /\ u.body = x[i].body
          /\ v.proto = x[j].proto /\ v.body = x[j].body
      BY <1>5 DEF Unnumbered
    <2> QED
      BY <2>1, <2>2
  <1>8. Alerted(x, r)
    <2>1. ASSUME NEW a, a # NoAlert, \E k \in DOMAIN Alerts(r) : Alerts(r)[k] = a
          PROVE  \E i \in DOMAIN x : x[i].body = a.body
      BY <1>7, <2>1 DEF Has
    <2>2. ASSUME NEW h \in Range(r.http), h.host.host \notin SafeDomains \cup {""}
          PROVE  \E i \in DOMAIN x : x[i].body[1] = "host" /\ x[i].body[3] = h.host.host
      <3>1. /\ HttpAlert(h) # NoAlert
            /\ HttpAlert(h).body[1] = "host" /\ HttpAlert(h).body[3] = h.host.host
        BY <2>2 DEF HttpAlert, NoAlert
      <3> QED
        BY <2>1, <3>1, AlertsHaveAll
    <2>3. ASSUME NEW v \in Range(r.dns), v.host # "", v.host \in SafeDomains => v.padded
          PROVE  \E i \in DOMAIN x : x[i].body[1] = "query" /\ x[i].body[2] = v
      <3>1. ~DomainSafelisted(v)
        BY <2>3 DEF DomainSafelisted
      <3>2. /\ DnsAlert(v) # NoAlert
            /\ DnsAlert(v).body[1] = "query" /\ DnsAlert(v).body[2] = v
        BY <2>3, <3>1 DEF DnsAlert, NoAlert
      <3> QED
        BY <2>1, <3>2, AlertsHaveAll
    <2>4. ASSUME NEW t \in Range(r.tls), t.sni \notin SafeDomains \cup {""}
          PROVE  \E i \in DOMAIN x : x[i].body[1] = "sni" /\ x[i].body[2] = t.sni
      <3>1. /\ SniAlert(t) # NoAlert
            /\ SniAlert(t).body[1] = "sni" /\ SniAlert(t).body[2] = t.sni
        BY <2>4 DEF SniAlert, NoAlert
      <3> QED
        BY <2>1, <3>1, AlertsHaveAll
    <2> HIDE DEF x
    <2> QED
      BY <2>2, <2>3, <2>4 DEF Alerted
  <1> QED
    BY <1>5, <1>6, <1>7, <1>8 DEF x

-----------------------------------------------------------------------------
(* gen_sigma.                                                              *)

Told(o) == [cat |-> o.cat, tags |-> o.tags]

\* The fold is the loop, over what was observed.
LEMMA AddSigmaSteps ==
  ASSUME NEW O, NEW obs \in Seq(O)
  PROVE  \E st \in [0 .. Len(obs) -> Seq({Told(o) : o \in O})] :
           /\ st[0] = <<>> /\ st[Len(obs)] = FoldLeft(AddSigma, <<>>, obs)
           /\ \A n \in 0 .. Len(obs) - 1 : st[n + 1] = AddSigma(st[n], obs[n + 1])
  <1> DEFINE N == Len(obs)
             G == Seq({Told(o) : o \in O})
             h == [p \in G \X (1 .. N) |-> AddSigma(p[1], obs[p[2]])]
             Body(it, s) == IF s = {} THEN <<>>
                            ELSE AddSigma(it[s \ {Max(s)}], obs[Max(s)])
             Is(it) == it = [s \in SUBSET (1 .. N) |-> Body(it, s)]
             fold == CHOOSE it : Is(it)
  <1>1. N \in Nat /\ DOMAIN obs = 1 .. N /\ \A i \in 1 .. N : obs[i] \in O
    OBVIOUS
  <1>2. <<>> \in G
    OBVIOUS
  <1>3. \A x \in G : \A i \in 1 .. N : AddSigma(x, obs[i]) \in G
    <2> SUFFICES ASSUME NEW x \in G, NEW i \in 1 .. N PROVE AddSigma(x, obs[i]) \in G
      OBVIOUS
    <2>1. Told(obs[i]) \in {Told(o) : o \in O}
      BY <1>1
    <2>2. AddSigma(x, obs[i]) \in {x, Append(x, Told(obs[i]))}
      BY DEF AddSigma, Told
    <2> QED
      BY <2>1, <2>2
  <1>4. FoldLeft(AddSigma, <<>>, obs) = fold[1 .. N]
    BY <1>1 DEF FoldLeft, MapThenFoldSet
  <1> HIDE DEF G, N
  <1>5. h \in [G \X (1 .. N) -> G]
    BY <1>3
  <1>6. \A x \in G : \A i \in 1 .. N : h[<<x, i>>] = AddSigma(x, obs[i])
    OBVIOUS
  <1> HIDE DEF h
  <1>7. PICK it \in [SUBSET (1 .. N) -> G] : IsFold(it, N, <<>>, h)
    BY <1>1, <1>2, <1>5, FoldExists
  <1>8. Is(it)
    <2>1. ASSUME NEW s \in SUBSET (1 .. N)
          PROVE  (IF s = {} THEN <<>> ELSE h[<<it[s \ {Max(s)}], Max(s)>>]) = Body(it, s)
      <3>1. CASE s = {}
        BY <3>1
      <3>2. CASE s # {}
        <4>1. Max(s) \in 1 .. N /\ s \ {Max(s)} \in SUBSET (1 .. N)
          BY <1>1, <3>2, MaxIsIn
        <4>2. it[s \ {Max(s)}] \in G
          BY <4>1
        <4> QED
          BY <1>6, <3>2, <4>1, <4>2
      <3> QED
        BY <3>1, <3>2
    <2> HIDE DEF Body
    <2> QED
      BY <1>7, <2>1 DEF IsFold
  <1> HIDE DEF Is
  <1>9. Is(fold)
    BY <1>8
  <1> HIDE DEF fold
  <1> DEFINE st == [n \in 0 .. N |-> fold[1 .. n]]
  <1>10. st[0] = <<>>
    <2>1. 1 .. 0 = {} /\ 0 \in 0 .. N
      BY <1>1
    <2> QED
      BY <1>9, <2>1 DEF Is
  <1>11. ASSUME NEW n \in 0 .. N - 1
         PROVE  st[n + 1] = AddSigma(st[n], obs[n + 1])
    <2>1. /\ 1 .. n + 1 \in SUBSET (1 .. N) /\ 1 .. n + 1 # {}
          /\ Max(1 .. n + 1) = n + 1 /\ (1 .. n + 1) \ {n + 1} = 1 .. n
      BY <1>1, Prefix
    <2>2. n \in 0 .. N /\ n + 1 \in 0 .. N
      BY <1>1
    <2>3. fold[1 .. n + 1] = Body(fold, 1 .. n + 1)
      BY <1>9, <2>1 DEF Is
    <2> QED
      BY <2>1, <2>2, <2>3
  <1>12. \A n \in 0 .. N : st[n] \in G
    <2> DEFINE S == {n \in 0 .. N : st[n] \in G}
    <2>1. 0 \in S
      BY <1>1, <1>2, <1>10
    <2>2. ASSUME NEW n \in 0 .. N - 1, n \in S
          PROVE  n + 1 \in S
      <3>1. n + 1 \in 1 .. N /\ n + 1 \in 0 .. N
        BY <1>1
      <3> HIDE DEF st
      <3> QED
        BY <1>3, <1>11, <2>2, <3>1
    <2> HIDE DEF S
    <2>3. \A n \in 0 .. N : n \in S
      BY <1>1, <2>1, <2>2, Induction
    <2> QED
      BY <2>3 DEF S
  <1>13. st[N] = fold[1 .. N] /\ st \in [0 .. N -> G]
    BY <1>1, <1>12
  <1> HIDE DEF st
  <1> QED
    BY <1>4, <1>10, <1>11, <1>13 DEF G, N

(* A Sigma rule for each command, key and file that is to be told of, and    *)
(* none for anything else.                                                   *)
THEOREM SigmaTellsAll ==
  ASSUME NEW O, NEW obs \in Seq(O)
  PROVE  LET rules == FoldLeft(AddSigma, <<>>, obs)
         IN  /\ rules \in Seq({Told(o) : o \in O})
             /\ Range(rules) = {Told(obs[k]) : k \in {j \in DOMAIN obs : obs[j].told}}
  <1> DEFINE N == Len(obs)
             R == {Told(o) : o \in O}
  <1>1. PICK st \in [0 .. N -> Seq(R)] :
           /\ st[0] = <<>> /\ st[N] = FoldLeft(AddSigma, <<>>, obs)
           /\ \A n \in 0 .. N - 1 : st[n + 1] = AddSigma(st[n], obs[n + 1])
    BY AddSigmaSteps
  <1>2. N \in Nat /\ DOMAIN obs = 1 .. N /\ \A k \in 1 .. N : obs[k] \in O
    OBVIOUS
  <1> HIDE DEF N
  <1> DEFINE Upto(n) == {Told(obs[k]) : k \in {j \in 1 .. n : obs[j].told}}
             S == {n \in 0 .. N : Range(st[n]) = Upto(n)}
  <1>3. 0 \in S
    <2>1. Range(<<>>) = {} /\ Upto(0) = {}
      BY DEF Range
    <2> QED
      BY <1>1, <1>2, <2>1
  <1>4. ASSUME NEW n \in 0 .. N - 1, n \in S
        PROVE  n + 1 \in S
    <2>1. n \in 0 .. N /\ n + 1 \in 1 .. N /\ n + 1 \in 0 .. N
      BY <1>2
    <2> DEFINE x == st[n]
               o == obs[n + 1]
    <2>2. x \in Seq(R) /\ Told(o) \in R /\ st[n + 1] = AddSigma(x, o)
      BY <1>1, <1>2, <2>1
    <2>3. Range(x) = Upto(n)
      BY <1>4
    <2>4. Upto(n + 1) = Upto(n) \cup (IF o.told THEN {Told(o)} ELSE {})
      <3>1. \A j : j \in 1 .. n + 1 <=> j \in 1 .. n \/ j = n + 1
        BY <2>1
      <3> QED
        BY <3>1
    <2> HIDE DEF x, R, Upto
    <2>5. Range(Append(x, Told(o))) = Range(x) \cup {Told(o)}
      <3> DEFINE t == Told(o)
                 y == Append(x, t)
      <3> HIDE DEF t
      <3>1. /\ DOMAIN x = 1 .. Len(x) /\ DOMAIN y = 1 .. Len(x) + 1 /\ Len(x) \in Nat
            /\ y[Len(x) + 1] = t /\ \A i \in DOMAIN x : y[i] = x[i]
        BY <2>2
      <3> HIDE DEF y
      <3>2. \A i : i \in DOMAIN y <=> i \in DOMAIN x \/ i = Len(x) + 1
        BY <3>1
      <3>3. Range(y) = Range(x) \cup {t}
        BY <3>1, <3>2 DEF Range
      <3> QED
        BY <3>3 DEF y, t
    <2>6. AddSigma(x, o) = IF o.told THEN Append(x, Told(o)) ELSE x
      BY DEF AddSigma, Told
    <2>7. Range(st[n + 1]) = Upto(n + 1)
      BY <2>2, <2>3, <2>4, <2>5, <2>6
    <2> QED
      BY <2>1, <2>7
  <1> HIDE DEF S
  <1>5. \A n \in 0 .. N : n \in S
    BY <1>2, <1>3, <1>4, Induction
  <1>6. N \in S /\ st[N] \in Seq(R)
    BY <1>2, <1>5
  <1> USE DEF S
  <1> QED
    BY <1>1, <1>2, <1>6

LEMMA SigmaOfReport ==
  ASSUME NEW r, IsReport(r)
  PROVE  /\ Sigma(r) \in Seq(Range(Sigma(r)))
         /\ \A x \in Range(Sigma(r)) : IsFiniteSet(x.tags)
         /\ Range(Sigma(r)) = {Told(o) : o \in {p \in Range(Observed(r)) : p.told}}
  <1> DEFINE P == [i \in DOMAIN r.commands |->
                     [cat |-> "proc", tags |-> r.commands[i].tags,
                      told |-> ~r.commands[i].benign]]
             K == [i \in DOMAIN r.keys |->
                     [cat |-> "reg", tags |-> r.keys[i].tags, told |-> r.keys[i].persists]]
             F == [i \in DOMAIN r.dropped |->
                     [cat |-> "file", tags |-> r.dropped[i].tags,
                      told |-> r.dropped[i].name # ""]]
             U == Range(P) \cup Range(K) \cup Range(F)
             Ok(o) == IsFiniteSet(o.tags)
  <1>1. P \in Seq(Range(P)) /\ \A i \in DOMAIN P : Ok(P[i])
    <2>1. DOMAIN r.commands = 1 .. Len(r.commands) /\ Len(r.commands) \in Nat
      BY DEF IsReport
    <2>2. \A i \in DOMAIN P : Ok(P[i])
      BY DEF IsReport, Range
    <2>3. P = [i \in 1 .. Len(r.commands) |-> P[i]]
      BY <2>1
    <2> HIDE DEF P
    <2> QED
      BY <2>1, <2>2, <2>3, AsList
  <1>2. K \in Seq(Range(K)) /\ \A i \in DOMAIN K : Ok(K[i])
    <2>1. DOMAIN r.keys = 1 .. Len(r.keys) /\ Len(r.keys) \in Nat
      BY DEF IsReport
    <2>2. \A i \in DOMAIN K : Ok(K[i])
      BY DEF IsReport, Range
    <2>3. K = [i \in 1 .. Len(r.keys) |-> K[i]]
      BY <2>1
    <2> HIDE DEF K
    <2> QED
      BY <2>1, <2>2, <2>3, AsList
  <1>3. F \in Seq(Range(F)) /\ \A i \in DOMAIN F : Ok(F[i])
    <2>1. DOMAIN r.dropped = 1 .. Len(r.dropped) /\ Len(r.dropped) \in Nat
      BY DEF IsReport
    <2>2. \A i \in DOMAIN F : Ok(F[i])
      BY DEF IsReport, Range
    <2>3. F = [i \in 1 .. Len(r.dropped) |-> F[i]]
      BY <2>1
    <2> HIDE DEF F
    <2> QED
      BY <2>1, <2>2, <2>3, AsList
  <1>4. Observed(r) = (P \o K) \o F
    BY DEF Observed
  <1> HIDE DEF P, K, F
  <1>5. P \in Seq(U) /\ K \in Seq(U) /\ F \in Seq(U)
    <2>1. Range(P) \subseteq U /\ Range(K) \subseteq U /\ Range(F) \subseteq U
      OBVIOUS
    <2> HIDE DEF U
    <2> QED
      BY <1>1, <1>2, <1>3, <2>1, Wider
  <1>6. \A o \in U : Ok(o)
    <2> HIDE DEF Ok
    <2> QED
      BY <1>1, <1>2, <1>3 DEF Range
  <1> HIDE DEF U
  <1>7. Observed(r) \in Seq(U)
    BY <1>4, <1>5
  <1> DEFINE obs == Observed(r)
             x == Sigma(r)
  <1>8. x = FoldLeft(AddSigma, <<>>, obs)
    BY DEF Sigma
  <1> HIDE DEF obs, x
  <1>9. /\ x \in Seq({Told(o) : o \in U})
        /\ Range(x) = {Told(obs[k]) : k \in {j \in DOMAIN obs : obs[j].told}}
    BY <1>7, <1>8, SigmaTellsAll DEF obs
  <1>10. \A t \in Range(x) : IsFiniteSet(t.tags)
    <2>1. \A t \in Range(x) : \E o \in U : t = Told(o)
      BY <1>9 DEF Range
    <2>2. \A o \in U : IsFiniteSet(Told(o).tags)
      BY <1>6 DEF Told
    <2> QED
      BY <2>1, <2>2
  <1>11. Range(x) = {Told(o) : o \in {p \in Range(obs) : p.told}}
    BY <1>9 DEF Range
  <1>12. x \in Seq(Range(x))
    <2>1. Len(x) \in Nat /\ x = [i \in 1 .. Len(x) |-> x[i]]
      BY <1>9
    <2> QED
      BY <2>1, AsList
  <1> QED
    BY <1>10, <1>11, <1>12 DEF x, obs

-----------------------------------------------------------------------------
(* Finite sets.                                                            *)

LEMMA ImageFinite ==
  ASSUME NEW S, IsFiniteSet(S), NEW f
  PROVE  IsFiniteSet({f[x] : x \in S})
  <1> DEFINE T == {f[x] : x \in S}
             g == [x \in S |-> f[x]]
  <1>1. g \in Surjection(S, T)
    BY DEF Surjection
  <1> HIDE DEF g, T
  <1>2. IsFiniteSet(T)
    BY <1>1, FS_Surjection
  <1> QED
    BY <1>2 DEF T

LEMMA RangeFinite ==
  ASSUME NEW s, s \in Seq(Range(s))
  PROVE  IsFiniteSet(Range(s))
  <1> DEFINE D == DOMAIN s
  <1>1. D = 1 .. Len(s) /\ Len(s) \in Nat
    OBVIOUS
  <1> HIDE DEF D
  <1>2. IsFiniteSet(D)
    <2> DEFINE b == Len(s)
    <2>1. b \in Int /\ 1 \in Int
      BY <1>1
    <2> HIDE DEF b
    <2>2. IsFiniteSet(1 .. b)
      BY <2>1, FS_Interval
    <2> QED
      BY <1>1, <2>2 DEF b
  <1>3. IsFiniteSet({s[x] : x \in D})
    BY <1>2, ImageFinite
  <1>4. Range(s) = {s[x] : x \in D}
    BY DEF Range, D
  <1> QED
    BY <1>3, <1>4

\* A finite set has subsets of every size up to its own.
LEMMA SubsetOfSize ==
  ASSUME NEW S, IsFiniteSet(S), NEW m \in 0 .. Cardinality(S)
  PROVE  kSubset(m, S) # {}
  <1> DEFINE N == Cardinality(S)
             K == {k \in 0 .. N : \E c \in SUBSET S : Cardinality(c) = k}
  <1>1. N \in Nat
    BY FS_CardinalityType
  <1>2. 0 \in K
    <2>1. Cardinality({}) = 0 /\ {} \in SUBSET S
      BY FS_EmptySet
    <2> QED
      BY <1>1, <2>1
  <1>3. ASSUME NEW k \in 0 .. N - 1, k \in K
        PROVE  k + 1 \in K
    <2>1. PICK c \in SUBSET S : Cardinality(c) = k
      BY <1>3
    <2>2. IsFiniteSet(c)
      BY FS_Subset
    <2>3. c # S
      BY <1>1, <2>1
    <2>4. PICK x \in S : x \notin c
      BY <2>3
    <2>5. Cardinality(c \cup {x}) = k + 1
      BY <2>1, <2>2, <2>4, FS_AddElement
    <2>6. c \cup {x} \in SUBSET S
      OBVIOUS
    <2>7. k + 1 \in 0 .. N
      BY <1>1
    <2> QED
      BY <2>5, <2>6, <2>7
  <1> HIDE DEF K, N
  <1>4. \A k \in 0 .. N : k \in K
    BY <1>1, <1>2, <1>3, Induction
  <1>5. m \in K
    BY <1>4 DEF N
  <1> QED
    BY <1>5 DEF K, kSubset

-----------------------------------------------------------------------------
(* extract and gen_yara.                                                   *)

LEMMA ConfigsFinite ==
  ASSUME NEW r, IsReport(r)
  PROVE  /\ IsFiniteSet(ConfigValues(r.configs))
         /\ IsFiniteSet(ConfigValues(Sections(r)))
  <1> SUFFICES ASSUME NEW s \in {r.configs, r.malconf}
               PROVE  IsFiniteSet(ConfigValues(s))
    BY DEF Sections
  <1> DEFINE C == Range(s)
  <1>1. s \in Seq(C) /\ \A c \in C : IsFiniteSet(c.values)
    BY DEF IsReport
  <1>2. IsFiniteSet(C)
    BY <1>1, RangeFinite
  <1> HIDE DEF C
  <1> DEFINE f == [c \in C |-> c.values]
             V == {f[c] : c \in C}
  <1>3. IsFiniteSet(V)
    <2> HIDE DEF f
    <2> QED
      BY <1>2, ImageFinite
  <1>4. \A v \in V : IsFiniteSet(v)
    BY <1>1
  <1>5. IsFiniteSet(UNION V)
    <2> HIDE DEF V
    <2> QED
      BY <1>3, <1>4, FS_UNION
  <1>6. ConfigValues(s) = UNION V
    BY DEF ConfigValues, C
  <1> QED
    BY <1>5, <1>6

LEMMA CandidatesFinite ==
  ASSUME NEW r, IsReport(r)
  PROVE  IsFiniteSet(Candidates(r))
  <1> DEFINE Q == Range(r.http)
             V == ConfigValues(r.configs) \cup ConfigValues(Sections(r))
             D == Range(r.dns)
             host == [h \in Q |-> h.host]
             url == [h \in Q |-> Url(h.host.host, h.path)]
             H == {host[h] : h \in Q}
             U == {url[h] : h \in Q}
             all == V \cup (r.mutexes \cup (r.hosts \cup (D \cup (H \cup U))))
  <1>1. r.http \in Seq(Q) /\ r.dns \in Seq(D) /\ IsFiniteSet(r.mutexes) /\ IsFiniteSet(r.hosts)
    <2>1. r.dns \in Seq({v \in Value : v.form # "url"})
      BY DEF IsReport
    <2>2. r.dns = [i \in 1 .. Len(r.dns) |-> r.dns[i]] /\ Len(r.dns) \in Nat
      BY <2>1
    <2> QED
      BY <2>2, AsList DEF IsReport
  <1>2. IsFiniteSet(Q) /\ IsFiniteSet(D) /\ IsFiniteSet(V)
    BY <1>1, RangeFinite, ConfigsFinite, FS_Union
  <1>3. IsFiniteSet(H) /\ IsFiniteSet(U)
    <2> HIDE DEF Q, host, url
    <2> QED
      BY <1>2, ImageFinite
  <1>4. Candidates(r) \subseteq all
    <2>1. Extract(r).mutex = r.mutexes
      BY DEF Extract
    <2>2. Extract(r).url \subseteq r.hosts \cup D \cup H \cup V \cup U
      <3>1. Extract(r).url = Added(r.hosts \cup D \cup {h.host : h \in Q}
                                     \cup ConfigValues(Sections(r)), "url")
              \cup {Url(h.host.host, h.path) :
                      h \in {q \in Q : q.host.host # "" /\ q.path # ""}}
        BY DEF Extract
      <3>2. {h.host : h \in Q} = H
        OBVIOUS
      <3>3. {Url(h.host.host, h.path) :
               h \in {q \in Q : q.host.host # "" /\ q.path # ""}} \subseteq U
        OBVIOUS
      <3>4. ConfigValues(Sections(r)) \subseteq V
        OBVIOUS
      <3> HIDE DEF H, U, Q, D, V
      <3> QED
        BY <3>1, <3>2, <3>3, <3>4 DEF Added
    <2> HIDE DEF H, U, Q, D, V
    <2> QED
      BY <2>1, <2>2 DEF Candidates, V
  <1> HIDE DEF H, U, Q, D, V
  <1>5. IsFiniteSet(all)
    <2>1. IsFiniteSet(H \cup U)
      BY <1>3, FS_Union
    <2>2. IsFiniteSet(D \cup (H \cup U))
      BY <1>2, <2>1, FS_Union
    <2>3. IsFiniteSet(r.hosts \cup (D \cup (H \cup U)))
      BY <1>1, <2>2, FS_Union
    <2>4. IsFiniteSet(r.mutexes \cup (r.hosts \cup (D \cup (H \cup U))))
      BY <1>1, <2>3, FS_Union
    <2> QED
      BY <1>2, <2>4, FS_Union
  <1> QED
    BY <1>4, <1>5, FS_Subset

LEMMA OneElement == \A x : DOMAIN <<x>> = {1} /\ <<x>>[1] = x /\ <<x>> # <<>>
  OBVIOUS

(* gen_yara, for every report: a rule asks for strings it has, at least      *)
(* three or all of them, of at most MaxStrings candidates, which CAPE's own  *)
(* configurations, the mutexes and the URLs give (and no other extractor's   *)
(* configurations); without a candidate it is about a hash of the report;    *)
(* and there is no rule only if there is neither.                            *)
THEOREM YaraIsUsable ==
  ASSUME NEW r, IsReport(r), MaxStrings \in Nat \ {0}
  PROVE  /\ \A i \in DOMAIN Yara(r) :
              LET y == Yara(r)[i]
                  n == Cardinality(y.strings)
              IN  /\ y.strings \subseteq Candidates(r) /\ n <= MaxStrings
                  /\ y.needs <= n /\ y.needs >= (IF n < 3 THEN n ELSE 3)
                  /\ n = 0 => y.hash \in Extract(r).sha256 /\ y.hash # ""
         /\ Yara(r) = <<>> => Candidates(r) = {} /\ Extract(r).sha256 = {}
  <1> DEFINE C == Candidates(r)
             N == Cardinality(C)
             m == IF N < MaxStrings THEN N ELSE MaxStrings
             c == Chosen(r)
             n == Cardinality(c)
             hashes == Extract(r).sha256
  <1>1. IsFiniteSet(C)
    BY CandidatesFinite
  <1>2. N \in Nat
    BY <1>1, FS_CardinalityType
  <1>3. c \subseteq C /\ n = m
    <2>1. m \in 0 .. N
      BY <1>2
    <2>2. kSubset(m, C) # {}
      <3> HIDE DEF m, C
      <3> QED
        BY <1>1, <2>1, SubsetOfSize
    <2>3. c \in kSubset(m, C)
      BY <2>2 DEF Chosen
    <2> QED
      BY <2>3 DEF kSubset
  <1>4. n \in Nat /\ n <= MaxStrings
    BY <1>2, <1>3
  <1>5. n = 0 <=> c = {}
    <2>1. IsFiniteSet(c)
      BY <1>1, <1>3, FS_Subset
    <2> HIDE DEF c
    <2> QED
      BY <2>1, FS_EmptySet
  <1>6. c = {} => C = {}
    <2>1. n = 0 => N = 0
      BY <1>2, <1>3
    <2> HIDE DEF C, c
    <2> QED
      BY <1>1, <1>5, <2>1, FS_EmptySet
  <1>7. "" \notin hashes
    BY DEF Extract
  <1>8. CASE c # {}
    <2> DEFINE y == [strings |-> c, needs |-> Needed(n), hash |-> ""]
    <2>1. Yara(r) = <<y>>
      BY <1>8 DEF Yara
    <2>2. Needed(n) <= n /\ Needed(n) >= (IF n < 3 THEN n ELSE 3)
      <3> HIDE DEF n
      <3> QED
        BY <1>4 DEF Needed
    <2>3. y.strings = c /\ y.needs = Needed(n)
      OBVIOUS
    <2> HIDE DEF y, c, C, hashes
    <2>4. y.strings \subseteq C /\ Cardinality(y.strings) = n /\ n # 0
      BY <1>3, <1>5, <1>8, <2>3
    <2> HIDE DEF n
    <2> QED
      BY <1>4, <2>1, <2>2, <2>3, <2>4, OneElement DEF C
  <1>9. CASE c = {} /\ hashes # {}
    <2> DEFINE h == CHOOSE x \in hashes : TRUE
               y == [strings |-> {}, needs |-> 0, hash |-> h]
    <2>1. Yara(r) = <<y>>
      BY <1>9 DEF Yara
    <2>2. h \in hashes /\ h # ""
      BY <1>7, <1>9
    <2>3. y.strings = {} /\ y.needs = 0 /\ y.hash = h
      OBVIOUS
    <2> HIDE DEF y, h, c, C
    <2>4. /\ y.strings \subseteq C /\ Cardinality(y.strings) = 0
          /\ y.needs = 0 /\ y.hash \in Extract(r).sha256 /\ y.hash # ""
      BY <2>2, <2>3, FS_EmptySet
    <2> HIDE DEF hashes
    <2>5. DOMAIN Yara(r) = {1} /\ Yara(r)[1] = y /\ Yara(r) # <<>>
      BY <2>1, OneElement
    <2> DEFINE k == Cardinality(y.strings)
    <2>6. k <= MaxStrings /\ y.needs <= k /\ y.needs >= (IF k < 3 THEN k ELSE 3)
      <3>1. k = 0 /\ y.needs = 0
        BY <2>4
      <3> HIDE DEF k
      <3>2. 0 <= MaxStrings /\ 0 >= (IF 0 < 3 THEN 0 ELSE 3)
        OBVIOUS
      <3> QED
        BY <3>1, <3>2
    <2> QED
      BY <2>4, <2>5, <2>6, Zenon DEF C
  <1>10. CASE c = {} /\ hashes = {}
    <2>1. Yara(r) = <<>>
      BY <1>10 DEF Yara
    <2> QED
      BY <1>6, <1>10, <2>1
  <1> QED
    BY <1>8, <1>9, <1>10
=============================================================================
