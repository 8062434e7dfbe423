--------------------------- MODULE ProcessProofs ----------------------------
(***************************************************************************)
(* What holds of processes sharing a database, for any number of them and  *)
(* of migrations, whatever fails, hangs or is killed.                      *)
(***************************************************************************)
EXTENDS Process, CallProofs, SequenceTheorems, WellFoundedInduction

-----------------------------------------------------------------------------
(* The configuration: every way of writing the tenant's domain that the    *)
(* comments allow normalizes to the domain, and who finds the tenant's     *)
(* keys by its domain expects the tenant's issuer.                         *)

LEMMA LastPosition ==
  ASSUME NEW n \in Nat, NEW I \in SUBSET (1 .. n), I # {}
  PROVE  Max(I) \in I /\ \A j \in I : j <= Max(I)
<1> DEFINE fromEnd == {k \in Nat : n - k \in I}
<1>1. PICK j \in I : j \in 1 .. n
  OBVIOUS
<1>2. n - j \in fromEnd
  BY <1>1
<1>3. PICK k \in fromEnd : \A l \in fromEnd : <<l, k>> \notin OpToRel(<, Nat)
  <2>1. fromEnd \subseteq Nat /\ fromEnd # {}
    BY <1>2
  <2> HIDE DEF fromEnd
  <2> QED
    BY <2>1, WFMin, NatLessThanWellFounded, Zenon
<1>4. \A l \in fromEnd : k <= l
  <2>1. \A l \in Nat : l < k => <<l, k>> \in OpToRel(<, Nat)
    BY Zenon DEF OpToRel
  <2>2. \A l \in fromEnd : l \in Nat /\ ~ (l < k)
    BY <1>3, <2>1
  <2>3. k \in Nat
    OBVIOUS
  <2> HIDE DEF fromEnd
  <2> QED
    BY <2>2, <2>3
<1>5. n - k \in I /\ \A i \in I : i <= n - k
  <2>1. ASSUME NEW i \in I
        PROVE  i <= n - k
    <3>1. i \in 1 .. n /\ n - i \in Nat /\ n - (n - i) = i
      OBVIOUS
    <3>2. n - i \in fromEnd
      BY <3>1
    <3> QED
      BY <1>4, <3>1, <3>2
  <2> QED
    BY <1>3, <2>1
<1>6. \E i \in I : \A l \in I : i >= l
  BY <1>5
<1> QED
  BY <1>6 DEF Max

\* Trimming and dropping a suffix leave a URL.
LEMMA TrimmedIsUrl ==
  ASSUME NEW s \in Url
  PROVE  TrimSlashes(s) \in Url
<1> DEFINE I == {i \in 1 .. Len(s) : s[i] # "/"}
<1>1. CASE I = {}
  BY <1>1 DEF TrimSlashes, SelectLastInSeq, Url
<1>2. CASE I # {}
  <2>1. Max(I) \in 1 .. Len(s)
    <3>1. Len(s) \in Nat /\ I \in SUBSET (1 .. Len(s))
      BY DEF Url
    <3> HIDE DEF I
    <3>2. Max(I) \in I
      BY <1>2, <3>1, LastPosition
    <3> QED
      BY <3>1, <3>2
  <2> DEFINE m == Max(I)
  <2>2. TrimSlashes(s) = SubSeq(s, 1, m)
    BY <1>2 DEF TrimSlashes, SelectLastInSeq
  <2>3. m \in 1 .. Len(s)
    BY <2>1
  <2> HIDE DEF m, I
  <2>4. SubSeq(s, 1, m) \in Seq(Parts)
    BY <2>3 DEF Url
  <2> QED
    BY <2>2, <2>4 DEF Url
<1> QED
  BY <1>1, <1>2

LEMMA SuffixDropped ==
  ASSUME NEW s \in Url, NEW t \in Url
  PROVE  TrimSuffix(s, t) \in Url
BY DEF TrimSuffix, Url

LEMMA NormalizedIsUrl ==
  ASSUME NEW s \in Url
  PROVE  Normalize(s) \in Url
<1>1. <<"/", "oidc">> \in Url
  BY DEF Url, Parts
<1> QED
  BY <1>1, TrimmedIsUrl, SuffixDropped DEF Normalize

\* Without LOGTO_JWKS_URL, only the tenant's issuer leads to the tenant's keys.
LEMMA KeysFitIssuer ==
  ASSUME NEW e \in Environment, e.jwks = Unset, JWKSURL(e) = TenantKeys
  PROVE  Issuer(e) = TenantIssuer
<1>1. Issuer(e) \o <<"/", "jwks">> = TenantIssuer \o <<"/", "jwks">>
  BY DEF JWKSURL, TenantKeys
<1>2. Normalize(e.domain) \in Url
  BY NormalizedIsUrl DEF Environment
<1>3. Issuer(e) \in Seq(Parts) /\ TenantIssuer \in Seq(Parts)
  BY <1>2 DEF Issuer, TenantIssuer, Url, Parts
<1>4. <<"/", "jwks">> \in Seq(Parts)
  BY DEF Parts
<1> QED
  BY <1>1, <1>3, <1>4, ConcatSimplifications
-----------------------------------------------------------------------------
\* Trimming stops at the last part that is not a slash.
LEMMA TrimsTo ==
  ASSUME NEW s \in Url, NEW k \in 1 .. Len(s), s[k] # "/",
         \A i \in (k + 1) .. Len(s) : s[i] = "/"
  PROVE  TrimSlashes(s) = SubSeq(s, 1, k)
<1> DEFINE I == {i \in 1 .. Len(s) : s[i] # "/"}
<1>1. Len(s) \in Nat
  BY DEF Url
<1>2. k \in I /\ I \subseteq 1 .. Len(s)
  OBVIOUS
<1>3. \A i \in I : i <= k
  BY <1>1
<1> HIDE DEF I
<1>4. Max(I) \in I /\ k <= Max(I)
  BY <1>1, <1>2, LastPosition
<1>5. Max(I) = k
  <2> DEFINE m == Max(I)
  <2>1. m \in 1 .. Len(s) /\ m <= k /\ k <= m
    BY <1>2, <1>3, <1>4
  <2> HIDE DEF m
  <2> QED
    BY <1>1, <2>1 DEF m
<1> QED
  BY <1>2, <1>5 DEF TrimSlashes, SelectLastInSeq, I

\* The bare domain with slashes at its end.
Bare(a) == <<"tenant">> \o Slashes(a)

LEMMA BareParts ==
  ASSUME NEW a \in Nat
  PROVE  /\ Bare(a) \in Url
         /\ Len(Bare(a)) = a + 1
         /\ Bare(a)[1] = "tenant"
         /\ \A i \in 2 .. (a + 1) : Bare(a)[i] = "/"
<1>1. Slashes(a) \in Seq(Parts) /\ Len(Slashes(a)) = a
  BY DEF Slashes, Parts
<1>2. \A i \in 1 .. a : Slashes(a)[i] = "/"
  BY DEF Slashes
<1>3. <<"tenant">> \in Seq(Parts) /\ Len(<<"tenant">>) = 1 /\ <<"tenant">>[1] = "tenant"
  BY DEF Parts
<1> HIDE DEF Parts
<1> QED
  BY <1>1, <1>2, <1>3, ConcatProperties DEF Bare, Url

LEMMA BareTrims ==
  ASSUME NEW a \in Nat
  PROVE  TrimSlashes(Bare(a)) = <<"tenant">>
<1> DEFINE s == Bare(a)
<1>1. /\ s \in Url /\ 1 \in 1 .. Len(s) /\ s[1] # "/" /\ s[1] = "tenant"
      /\ \A i \in (1 + 1) .. Len(s) : s[i] = "/"
  BY BareParts
<1> HIDE DEF s
<1>2. TrimSlashes(s) = SubSeq(s, 1, 1)
  BY <1>1, TrimsTo
<1>3. SubSeq(s, 1, 1) = <<s[1]>>
  <2>1. s \in Seq(Parts) /\ Len(s) \in Nat /\ s[1] \in Parts
    BY <1>1 DEF Url
  <2>2. SubSeq(s, 1, 1) \in Seq(Parts) /\ Len(SubSeq(s, 1, 1)) = 1 /\ SubSeq(s, 1, 1)[1] = s[1]
    BY <1>1, <2>1
  <2>3. <<s[1]>> \in Seq(Parts) /\ Len(<<s[1]>>) = 1 /\ <<s[1]>>[1] = s[1]
    BY <2>1
  <2>4. \A i \in 1 .. 1 : SubSeq(s, 1, 1)[i] = <<s[1]>>[i]
    BY <2>2, <2>3
  <2> HIDE DEF s
  <2> QED
    BY <2>2, <2>3, <2>4, SeqEqual
<1> QED
  BY <1>1, <1>2, <1>3 DEF s
\* The domain with its OIDC path and slashes at its end.
Full(b, a) == Bare(b) \o <<"oidc">> \o Slashes(a)

LEMMA FullParts ==
  ASSUME NEW b \in Nat, NEW a \in Nat
  PROVE  /\ Full(b, a) \in Url
         /\ Len(Full(b, a)) = b + a + 2
         /\ Full(b, a)[b + 2] = "oidc"
         /\ \A i \in 1 .. (b + 1) : Full(b, a)[i] = Bare(b)[i]
         /\ \A i \in (b + 3) .. (b + a + 2) : Full(b, a)[i] = "/"
<1>1. Bare(b) \in Seq(Parts) /\ Len(Bare(b)) = b + 1
  BY BareParts DEF Url
<1>2. <<"oidc">> \in Seq(Parts) /\ Len(<<"oidc">>) = 1 /\ <<"oidc">>[1] = "oidc"
  BY DEF Parts
<1>3. /\ Slashes(a) \in Seq(Parts) /\ Len(Slashes(a)) = a
      /\ \A i \in 1 .. a : Slashes(a)[i] = "/"
  BY DEF Slashes, Parts
<1> DEFINE left == Bare(b) \o <<"oidc">>
<1>4. /\ left \in Seq(Parts) /\ Len(left) = b + 2 /\ left[b + 2] = "oidc"
      /\ \A i \in 1 .. (b + 1) : left[i] = Bare(b)[i]
  BY <1>1, <1>2, ConcatProperties
<1> HIDE DEF left
<1> DEFINE full == left \o Slashes(a)
<1>5. /\ full \in Seq(Parts) /\ Len(full) = b + a + 2
      /\ \A i \in 1 .. (b + 2) + a :
           full[i] = IF i <= b + 2 THEN left[i] ELSE Slashes(a)[i - (b + 2)]
  <2> DEFINE right == Slashes(a)
  <2>1. left \in Seq(Parts) /\ right \in Seq(Parts) /\ Len(left) = b + 2 /\ Len(right) = a
    BY <1>3, <1>4
  <2> HIDE DEF right
  <2>2. /\ left \o right \in Seq(Parts) /\ Len(left \o right) = Len(left) + Len(right)
        /\ \A i \in 1 .. Len(left) + Len(right) :
             (left \o right)[i] = IF i <= Len(left) THEN left[i] ELSE right[i - Len(left)]
    BY <2>1, ConcatProperties
  <2> QED
    BY <2>1, <2>2 DEF right
<1>6. Full(b, a) = full
  BY DEF Full, left
<1> HIDE DEF full
<1>7. full[b + 2] = "oidc" /\ \A i \in 1 .. (b + 1) : full[i] = Bare(b)[i]
  BY <1>4, <1>5
<1>8. \A i \in (b + 3) .. (b + a + 2) : full[i] = "/"
  BY <1>3, <1>5
<1> QED
  BY <1>5, <1>6, <1>7, <1>8 DEF Url

\* What is left of it once the slashes at its end are gone.
LEMMA PathDropped ==
  ASSUME NEW b \in Nat \ {0}, NEW s \in Url, Len(s) = b + 2, s[b + 2] = "oidc",
         \A i \in 1 .. (b + 1) : s[i] = Bare(b)[i]
  PROVE  TrimSuffix(s, <<"/", "oidc">>) = Bare(b - 1)
<1> DEFINE path == <<"/", "oidc">>
<1>1. s[b + 1] = "/"
  <2>1. b + 1 \in 2 .. (b + 1)
    OBVIOUS
  <2>2. Bare(b)[b + 1] = "/"
    BY <2>1, BareParts
  <2> QED
    BY <2>2
<1>2. IsSuffix(path, s)
  <2>1. Len(path) = 2 /\ path[1] = "/" /\ path[2] = "oidc"
    OBVIOUS
  <2>2. /\ Reverse(path) = [i \in 1 .. 2 |-> path[3 - i]]
        /\ Reverse(s) = [i \in 1 .. (b + 2) |-> s[b + 3 - i]]
    BY <2>1 DEF Reverse, Url
  <2>3. Len(Reverse(path)) = 2 /\ Len(Reverse(s)) = b + 2
    BY <2>2
  <2>4. /\ Reverse(path)[1] = "oidc" /\ Reverse(path)[2] = "/"
        /\ Reverse(s)[1] = "oidc" /\ Reverse(s)[2] = "/"
    BY <1>1, <2>1, <2>2
  <2> DEFINE rp == Reverse(path)
             rs == Reverse(s)
  <2>5. rp \in Seq(Parts) /\ rs \in Seq(Parts) /\ Len(rp) = 2 /\ Len(rs) = b + 2
    <3>1. \A i \in 1 .. 2 : path[3 - i] \in Parts
      BY <2>1 DEF Parts
    <3>2. \A i \in 1 .. (b + 2) : s[b + 3 - i] \in Parts
      BY DEF Url
    <3>3. rp \in Seq(Parts)
      <4> HIDE DEF path
      <4>1. [i \in 1 .. 2 |-> path[3 - i]] \in [1 .. 2 -> Parts]
        BY <3>1
      <4> QED
        BY <2>2, <4>1
    <3>4. rs \in Seq(Parts)
      BY <2>2, <3>2
    <3> QED
      BY <2>3, <3>3, <3>4
  <2>6. rp[1] = rs[1] /\ rp[2] = rs[2]
    BY <2>4
  <2> HIDE DEF rp, rs
  <2>7. /\ SubSeq(rp, 1, 2) \in Seq(Parts) /\ SubSeq(rs, 1, 2) \in Seq(Parts)
        /\ Len(SubSeq(rp, 1, 2)) = 2 /\ Len(SubSeq(rs, 1, 2)) = 2
        /\ \A i \in 1 .. 2 : SubSeq(rp, 1, 2)[i] = SubSeq(rs, 1, 2)[i]
    BY <2>5, <2>6
  <2>8. SubSeq(rp, 1, 2) = SubSeq(rs, 1, 2)
    BY <2>7, SeqEqual
  <2>9. IsPrefix(rp, rs)
    BY <2>5, <2>8 DEF IsPrefix
  <2> QED
    BY <2>9 DEF IsSuffix, rp, rs
<1>3. TrimSuffix(s, path) = SubSeq(s, 1, b)
  BY <1>2 DEF TrimSuffix
<1>4. SubSeq(s, 1, b) = Bare(b - 1)
  <2>1. SubSeq(s, 1, b) \in Seq(Parts) /\ Len(SubSeq(s, 1, b)) = b
    BY DEF Url
  <2> DEFINE c == b - 1
  <2>5. c \in Nat /\ c + 1 = b
    OBVIOUS
  <2> HIDE DEF c
  <2>2. Bare(c) \in Seq(Parts) /\ Len(Bare(c)) = b
    BY <2>5, BareParts DEF Url
  <2>3. \A i \in 1 .. b : SubSeq(s, 1, b)[i] = Bare(b)[i]
    BY DEF Url
  <2>4. \A i \in 1 .. b : Bare(b)[i] = Bare(c)[i]
    <3>1. \A i \in 2 .. b : Bare(b)[i] = "/" /\ Bare(c)[i] = "/"
      BY SMTT(30), <2>5, BareParts
    <3>2. Bare(b)[1] = "tenant" /\ Bare(c)[1] = "tenant"
      BY <2>5, BareParts
    <3> QED
      BY <3>1, <3>2
  <2>6. SubSeq(s, 1, b) = Bare(c)
    BY <2>1, <2>2, <2>3, <2>4, SeqEqual
  <2> QED
    BY <2>6 DEF c
<1> QED
  BY <1>3, <1>4
\* Whichever way the domain is written, the issuer is the tenant's.
LEMMA SpellingsNormalize ==
  ASSUME NEW n \in Nat, NEW s \in Spellings(n)
  PROVE  Normalize(s) = <<"tenant">>
<1> DEFINE path == <<"/", "oidc">>
<1>1. ASSUME NEW a \in Nat
      PROVE  TrimSuffix(<<"tenant">>, path) = <<"tenant">>
  <2>1. Len(Reverse(path)) = 2 /\ Len(Reverse(<<"tenant">>)) = 1
    BY DEF Reverse
  <2> QED
    BY <2>1 DEF TrimSuffix, IsSuffix, IsPrefix
<1>2. Bare(0) = <<"tenant">>
  BY DEF Bare, Slashes
<1>3. ASSUME NEW a \in Nat
      PROVE  Normalize(Bare(a)) = <<"tenant">>
  BY <1>1, <1>2, <1>3, BareTrims DEF Normalize
<1>4. ASSUME NEW b \in Nat \ {0}, NEW a \in Nat
      PROVE  Normalize(Full(b, a)) = <<"tenant">>
  <2> DEFINE f == Full(b, a)
             t == SubSeq(f, 1, b + 2)
  <2>1. /\ f \in Url /\ Len(f) = b + a + 2 /\ f[b + 2] = "oidc"
        /\ \A i \in 1 .. (b + 1) : f[i] = Bare(b)[i]
        /\ \A i \in (b + 3) .. (b + a + 2) : f[i] = "/"
    <3>1. b \in Nat
      OBVIOUS
    <3>2. /\ Full(b, a) \in Url
          /\ Len(Full(b, a)) = b + a + 2
          /\ Full(b, a)[b + 2] = "oidc"
          /\ \A i \in 1 .. (b + 1) : Full(b, a)[i] = Bare(b)[i]
          /\ \A i \in (b + 3) .. (b + a + 2) : Full(b, a)[i] = "/"
      <4> HIDE DEF f, t, path
      <4> QED
        BY ZenonT(60), <1>4, <3>1, FullParts
    <3> QED
      BY <3>2
  <2> HIDE DEF f
  <2>2. TrimSlashes(f) = t
    <3>1. b + 2 \in 1 .. Len(f) /\ f[b + 2] # "/"
      BY <2>1
    <3>2. \A i \in ((b + 2) + 1) .. Len(f) : f[i] = "/"
      BY <2>1
    <3> QED
      BY <2>1, <3>1, <3>2, TrimsTo
  <2>3. /\ t \in Url /\ Len(t) = b + 2 /\ t[b + 2] = "oidc"
        /\ \A i \in 1 .. (b + 1) : t[i] = Bare(b)[i]
    BY <2>1 DEF Url
  <2> HIDE DEF t
  <2>4. TrimSuffix(t, path) = Bare(b - 1)
    BY <2>3, PathDropped
  <2>5. b - 1 \in Nat
    OBVIOUS
  <2>6. TrimSlashes(Bare(b - 1)) = <<"tenant">>
    BY <2>5, BareTrims
  <2> QED
    BY <2>2, <2>4, <2>6 DEF Normalize, f
<1>5. \/ \E a \in 0 .. n : s = Bare(a)
      \/ \E b \in 1 .. n, a \in 0 .. n : s = Full(b, a)
  <2>1. Spellings(n) = {Bare(a) : a \in 0 .. n} \cup {Full(b, a) : b \in 1 .. n, a \in 0 .. n}
    BY DEF Spellings, Bare, Full
  <2> HIDE DEF path
  <2> QED
    BY <2>1
<1> QED
  BY <1>3, <1>4, <1>5

-----------------------------------------------------------------------------
(* The processes.                                                          *)

\* Requests can be in the hands of an instance.
HasRequests == {"listening", "draining", "closing"}

\* What an instance in state q relies on: rec and app are the migrations
\* recorded and applied, pub the issuer's key set.
Fits(q, rec, app, pub) ==
  /\ q \in Proc
  /\ q.inSql \subseteq q.serving
  /\ q.phase \notin HasRequests => q.serving = {}
  /\ q.phase \in Stopped \cup {"ping", "ensureTable"} => q.at = 1
  /\ q.phase \in {"check", "apply", "record"} => 1 .. (q.at - 1) \subseteq rec
  /\ q.phase = "record" => q.at \in app
  /\ q.phase \in {"fetchKeys", "fetchHung"} \cup Running => All \subseteq rec
  /\ q.phase \in Running => q.keys # 0 /\ JWKSURL(q.env) = TenantKeys
  /\ q.phase \in Booting \cup Stopped \cup {"fetchHung"} => q.fetches = {}
  /\ q.keys <= pub
  /\ \A v \in q.fetches \ {Never} : q.keys <= v /\ v <= pub /\ q.fetches = {v}

Ordered(rec, app) ==
  /\ rec \subseteq app
  /\ \A m \in app : 1 .. (m - 1) \subseteq rec

SharedOK ==
  /\ applied \subseteq All
  /\ recorded \subseteq All
  /\ published \in Versions
  /\ Ordered(recorded, applied)

IInv ==
  /\ SharedOK
  /\ proc \in [Instances -> Proc]
  /\ \A p \in Instances : Fits(proc[p], recorded, applied, published)

-----------------------------------------------------------------------------
LEMMA DownFits ==
  ASSUME NEW rec, NEW app, NEW pub \in Versions
  PROVE  /\ Fits(Down, rec, app, pub)
         /\ Fits([Down EXCEPT !.phase = "killed"], rec, app, pub)
<1>1. Down \in Proc
  BY ProcessEnvironment DEF Down, Proc, Phases, Stopped, Booting, NoEnvironment, Environment, Url, Unset
<1>2. [Down EXCEPT !.phase = "killed"] \in Proc
  BY <1>1 DEF Proc, Phases, Stopped
<1>3. 0 <= pub
  BY ProcessEnvironment DEF Versions
<1>4. Fits(Down, rec, app, pub)
  BY <1>1, <1>3 DEF Down, Fits, Stopped, Running
<1>5. Fits([Down EXCEPT !.phase = "killed"], rec, app, pub)
  BY <1>2, <1>3 DEF Down, Fits, Stopped, Running
<1> QED
  BY <1>4, <1>5

\* What others add to the tables, and the issuer publishes, disturbs nobody.
LEMMA FitsGrows ==
  ASSUME NEW q, NEW rec, NEW app, NEW pub \in Versions,
         NEW rec2, NEW app2, NEW pub2 \in Versions,
         rec \subseteq rec2, app \subseteq app2, pub <= pub2,
         Fits(q, rec, app, pub)
  PROVE  Fits(q, rec2, app2, pub2)
<1>1. q.keys \in Nat /\ pub \in Nat /\ pub2 \in Nat
  <2>1. q.keys \in {0} \cup Versions
    BY DEF Fits, Proc
  <2>2. Versions \subseteq Nat
    BY ProcessEnvironment DEF Versions
  <2>3. q.keys \in Nat
    BY <2>1, ProcessEnvironment DEF Versions
  <2> QED
    BY <2>2, <2>3
<1>2. \A v \in q.fetches \ {Never} : v \in Nat
  BY ProcessEnvironment DEF Fits, Proc, Versions
<1>3. q.keys <= pub2
  BY <1>1 DEF Fits
<1>4. \A v \in q.fetches \ {Never} : q.keys <= v /\ v <= pub2 /\ q.fetches = {v}
  BY <1>1, <1>2 DEF Fits
<1> QED
  BY <1>3, <1>4 DEF Fits

\* One instance moves, the tables grow in order.
LEMMA StepKeepsInv ==
  ASSUME IInv, SharedOK', recorded \subseteq recorded', applied \subseteq applied',
         published' = published,
         NEW p \in Instances, NEW q, Become(p, q),
         Fits(q, recorded', applied', published)
  PROVE  IInv'
<1>1. q \in Proc
  BY DEF Fits
<1>2. proc' = [proc EXCEPT ![p] = q] /\ proc \in [Instances -> Proc]
  BY DEF Become, IInv
<1>3. proc' \in [Instances -> Proc]
  BY <1>1, <1>2
<1>4. ASSUME NEW o \in Instances
      PROVE  Fits(proc'[o], recorded', applied', published')
  <2>1. CASE o = p
    BY <2>1, <1>2
  <2>2. CASE o # p
    <3>1. Fits(proc[o], recorded, applied, published) /\ published \in Versions
      BY DEF IInv, SharedOK
    <3>2. published <= published
      BY <3>1, ProcessEnvironment DEF Versions
    <3>3. Fits(proc[o], recorded', applied', published)
      BY <3>1, <3>2, FitsGrows
    <3> QED
      BY <3>3, <1>2, <2>2
  <2> QED
    BY <2>1, <2>2
<1> QED
  BY <1>3, <1>4 DEF IInv

\* The same when the tables stay as they are.
LEMMA QuietStepKeepsInv ==
  ASSUME IInv, UNCHANGED <<db, published>>,
         NEW p \in Instances, NEW q, Become(p, q),
         Fits(q, recorded, applied, published)
  PROVE  IInv'
<1>1. recorded' = recorded /\ applied' = applied /\ published' = published
  BY DEF db
<1>2. SharedOK'
  BY <1>1 DEF IInv, SharedOK, Ordered
<1> QED
  BY <1>1, <1>2, StepKeepsInv

LEMMA EndKeepsInv ==
  ASSUME IInv, SharedOK', recorded \subseteq recorded', applied \subseteq applied',
         published' = published, NEW p \in Instances, End(p)
  PROVE  IInv'
<1>1. published \in Versions
  BY DEF IInv, SharedOK
<1>2. Fits(Down, recorded', applied', published)
  BY <1>1, DownFits
<1> QED
  BY <1>2, StepKeepsInv DEF End

-----------------------------------------------------------------------------
\* What is known of an instance that takes a step.
LEMMA Known ==
  ASSUME IInv, NEW p \in Instances
  PROVE  /\ proc[p] \in Proc
         /\ Fits(proc[p], recorded, applied, published)
         /\ published \in Versions
  BY DEF IInv, SharedOK

\* Moving on to phase to, with nothing else changed.
LEMMA MoveKeepsInv ==
  ASSUME IInv, UNCHANGED <<db, published>>,
         NEW p \in Instances, NEW to \in Phases, GoTo(p, to),
         Fits([proc[p] EXCEPT !.phase = to], recorded, applied, published)
  PROVE  IInv'
<1>1. Become(p, [proc[p] EXCEPT !.phase = to])
  BY DEF GoTo
<1> QED
  BY <1>1, QuietStepKeepsInv

LEMMA QuietEndKeepsInv ==
  ASSUME IInv, UNCHANGED <<db, published>>, NEW p \in Instances, End(p)
  PROVE  IInv'
<1>1. Fits(Down, recorded, applied, published)
  BY Known, DownFits
<1> QED
  BY <1>1, QuietStepKeepsInv DEF End

\* The loop of Migrate goes on once its migration is recorded.
LEMMA NextFits ==
  ASSUME NEW q, NEW rec, NEW app, NEW pub, Fits(q, rec, app, pub),
         q.phase \in {"check", "record"}, q.at \in rec
  PROVE  /\ q.at = Migrations => Fits([q EXCEPT !.phase = "fetchKeys"], rec, app, pub)
         /\ q.at # Migrations =>
              Fits([q EXCEPT !.phase = "check", !.at = @ + 1], rec, app, pub)
<1>1. q \in Proc /\ q.at \in 1 .. Migrations /\ Migrations \in Nat \ {0}
  BY ProcessEnvironment DEF Fits, Proc
<1>2. 1 .. (q.at - 1) \subseteq rec
  BY DEF Fits
<1>3. 1 .. q.at \subseteq rec
  BY <1>1, <1>2
<1>4. CASE q.at = Migrations
  <2> DEFINE n == [q EXCEPT !.phase = "fetchKeys"]
  <2>1. n \in Proc /\ n.phase = "fetchKeys"
    BY <1>1 DEF Proc, Phases, Stopped, Booting
  <2>2. n.inSql = q.inSql /\ n.serving = q.serving /\ n.env = q.env /\ n.keys = q.keys /\ n.fetches = q.fetches
    BY <1>1 DEF Proc
  <2>3. All \subseteq rec
    BY <1>3, <1>4 DEF All
  <2> HIDE DEF n
  <2>4. Fits(n, rec, app, pub)
    BY <2>1, <2>2, <2>3 DEF Fits, Stopped, Booting, Running, HasRequests
  <2> QED
    BY <1>4, <2>4 DEF n
<1>5. CASE q.at # Migrations
  <2> DEFINE n == [q EXCEPT !.phase = "check", !.at = @ + 1]
  <2>1. q.at + 1 \in 1 .. Migrations
    BY <1>1, <1>5
  <2>2. n \in Proc
    BY <1>1, <2>1 DEF Proc, Phases, Stopped, Booting
  <2>3. n \in Proc /\ n.phase = "check" /\ n.at = q.at + 1
    BY <1>1, <2>2 DEF Proc
  <2>4. n.inSql = q.inSql /\ n.serving = q.serving /\ n.env = q.env /\ n.keys = q.keys /\ n.fetches = q.fetches
    BY <1>1 DEF Proc
  <2>5. 1 .. (n.at - 1) \subseteq rec
    BY <1>1, <1>3, <2>3
  <2> HIDE DEF n
  <2>6. Fits(n, rec, app, pub)
    BY <2>3, <2>4, <2>5 DEF Fits, Stopped, Booting, Running, HasRequests
  <2> QED
    BY <1>5, <2>6 DEF n
<1> QED
  BY <1>4, <1>5

\* The steps of a boot that touch no table.
LEMMA StartKeepsInv ==
  ASSUME IInv, NEW p \in Instances, Start(p)
  PROVE  IInv'
<1>1. proc[p].phase \in Stopped /\ UNCHANGED <<db, published>>
  BY DEF Start
<1>2. PICK e \in Environments[p] :
         \/ End(p)
         \/ Become(p, [proc[p] EXCEPT !.phase = "ping", !.env = e])
  BY DEF Start
<1>3. e \in Environment
  BY ProcessEnvironment
<1>4. Fits([proc[p] EXCEPT !.phase = "ping", !.env = e], recorded, applied, published)
  BY ZenonT(60), <1>1, <1>3, Known DEF Fits, Proc, Phases, Stopped, Booting, Running, HasRequests
<1> QED
  BY <1>1, <1>2, <1>4, QuietEndKeepsInv, QuietStepKeepsInv

LEMMA PingKeepsInv ==
  ASSUME IInv, NEW p \in Instances, Ping(p)
  PROVE  IInv'
<1>1. Fits([proc[p] EXCEPT !.phase = "ensureTable"], recorded, applied, published)
  BY Known DEF Ping, Fits, Proc, Phases, Stopped, Booting, Running, HasRequests
<1> QED
  BY <1>1, MoveKeepsInv, QuietEndKeepsInv DEF Ping, Phases, Stopped, Booting

LEMMA EnsureTableKeepsInv ==
  ASSUME IInv, NEW p \in Instances, EnsureTable(p)
  PROVE  IInv'
<1>1. Fits([proc[p] EXCEPT !.phase = "check"], recorded, applied, published)
  BY Known DEF EnsureTable, Fits, Proc, Phases, Stopped, Booting, Running, HasRequests
<1> QED
  BY <1>1, MoveKeepsInv, QuietEndKeepsInv DEF EnsureTable, Phases, Stopped, Booting

LEMMA CheckKeepsInv ==
  ASSUME IInv, NEW p \in Instances, Check(p)
  PROVE  IInv'
<1>1. proc[p].phase = "check" /\ UNCHANGED <<db, published>>
  BY DEF Check
<1>2. CASE End(p)
  BY <1>1, <1>2, QuietEndKeepsInv
<1>3. CASE proc[p].at \in recorded /\ NextMigration(p)
  BY <1>1, <1>3, Known, NextFits, QuietStepKeepsInv DEF NextMigration, GoTo
<1>4. CASE GoTo(p, "apply")
  <2>1. Fits([proc[p] EXCEPT !.phase = "apply"], recorded, applied, published)
    BY <1>1, Known DEF Fits, Proc, Phases, Stopped, Booting, Running, HasRequests
  <2> QED
    BY <1>1, <1>4, <2>1, MoveKeepsInv DEF Phases, Stopped, Booting
<1> QED
  BY <1>2, <1>3, <1>4 DEF Check

\* The two statements of Migrate that write.
LEMMA ApplyKeepsInv ==
  ASSUME IInv, NEW p \in Instances, Apply(p)
  PROVE  IInv'
<1> DEFINE at == proc[p].at
<1>1. proc[p].phase = "apply" /\ recorded' = recorded /\ published' = published
  BY DEF Apply
<1>2. PICK x \in Executed(p) :
         /\ applied' = IF x.applied THEN applied \cup {at} ELSE applied
         /\ IF x.failed THEN End(p) ELSE GoTo(p, "record")
  BY DEF Apply
<1>3. at \in All /\ 1 .. (at - 1) \subseteq recorded
  BY <1>1, Known DEF Fits, Proc, All
<1>4. SharedOK' /\ applied \subseteq applied'
  BY <1>1, <1>2, <1>3 DEF IInv, SharedOK, Ordered
<1>5. CASE x.failed
  BY <1>1, <1>2, <1>4, <1>5, EndKeepsInv
<1>6. CASE ~x.failed
  <2>1. at \in applied'
    BY <1>2, <1>6, SuccessIsApplied DEF Executed
  <2>2. Fits(proc[p], recorded', applied', published)
    BY <1>1, <1>4, Known DEF Fits
  <2>3. Fits([proc[p] EXCEPT !.phase = "record"], recorded', applied', published)
    BY <1>1, <1>3, <2>1, <2>2, Known DEF Fits, Proc, Phases, Stopped, Booting, Running, HasRequests
  <2> QED
    BY <1>1, <1>2, <1>4, <1>6, <2>3, StepKeepsInv DEF GoTo
<1> QED
  BY <1>5, <1>6

LEMMA RecordKeepsInv ==
  ASSUME IInv, NEW p \in Instances, Record(p)
  PROVE  IInv'
<1> DEFINE at == proc[p].at
<1>1. proc[p].phase = "record" /\ applied' = applied /\ published' = published
  BY DEF Record
<1>2. PICK x \in Executed(p) :
         /\ recorded' = IF x.applied THEN recorded \cup {at} ELSE recorded
         /\ IF x.failed THEN End(p) ELSE NextMigration(p)
  BY DEF Record
<1>3. at \in All /\ at \in applied
  BY <1>1, Known DEF Fits, Proc, All
<1>4. SharedOK' /\ recorded \subseteq recorded'
  BY <1>1, <1>2, <1>3 DEF IInv, SharedOK, Ordered
<1>5. CASE x.failed
  BY <1>1, <1>2, <1>4, <1>5, EndKeepsInv
<1>6. CASE ~x.failed
  <2>1. at \in recorded'
    BY <1>2, <1>6, SuccessIsApplied DEF Executed
  <2>2. Fits(proc[p], recorded', applied', published)
    BY <1>1, <1>4, Known DEF Fits
  <2>3. NextMigration(p)
    BY <1>2, <1>6
  <2> QED
    BY <1>1, <1>4, <2>1, <2>2, <2>3, NextFits, StepKeepsInv DEF NextMigration, GoTo
<1> QED
  BY <1>5, <1>6

-----------------------------------------------------------------------------
LEMMA FetchKeysKeepsInv ==
  ASSUME IInv, NEW p \in Instances, FetchKeys(p)
  PROVE  IInv'
<1>1. proc[p].phase = "fetchKeys" /\ UNCHANGED <<db, published>>
  BY DEF FetchKeys
<1>2. CASE End(p)
  BY <1>1, <1>2, QuietEndKeepsInv
<1>3. CASE GoTo(p, "fetchHung")
  <2>1. Fits([proc[p] EXCEPT !.phase = "fetchHung"], recorded, applied, published)
    BY <1>1, Known DEF Fits, Proc, Phases, Stopped, Booting, Running, HasRequests
  <2> QED
    BY <1>1, <1>3, <2>1, MoveKeepsInv DEF Phases
<1>4. CASE /\ Become(p, [proc[p] EXCEPT !.phase = "listen", !.keys = published])
           /\ JWKSURL(proc[p].env) = TenantKeys
  <2> DEFINE n == [proc[p] EXCEPT !.phase = "listen", !.keys = published]
  <2>1. proc[p].fetches = {}
    BY <1>1, Known DEF Fits, Stopped, Booting
  <2>2. /\ JWKSURL(n.env) = TenantKeys
        /\ n \in Proc /\ n.phase = "listen" /\ n.keys = published /\ n.fetches = {}
        /\ n.inSql = proc[p].inSql /\ n.serving = proc[p].serving /\ n.env = proc[p].env
    BY <1>1, <1>4, <2>1, Known DEF Proc, Phases, Running
  <2>3. published \in Nat \ {0}
    BY Known, ProcessEnvironment DEF Versions
  <2>4. Fits(proc[p], recorded, applied, published)
    BY Known
  <2> HIDE DEF n
  <2>5. Fits(n, recorded, applied, published)
    BY <1>1, <2>2, <2>3, <2>4 DEF Fits, Stopped, Booting, Running, HasRequests
  <2> QED
    BY <1>1, <1>4, <2>5, QuietStepKeepsInv DEF n
<1> QED
  BY <1>2, <1>3, <1>4 DEF FetchKeys

LEMMA ListenKeepsInv ==
  ASSUME IInv, NEW p \in Instances, Listen(p)
  PROVE  IInv'
<1>1. /\ Fits([proc[p] EXCEPT !.phase = "listening"], recorded, applied, published)
      /\ Fits([proc[p] EXCEPT !.phase = "deaf"], recorded, applied, published)
  BY Known DEF Listen, Fits, Proc, Phases, Stopped, Booting, Running, HasRequests
<1> QED
  BY <1>1, MoveKeepsInv DEF Listen, Phases, Running

LEMMA LeaveKeepsInv ==
  ASSUME IInv, NEW p \in Instances, AbandonFetch(p) \/ Leave(p) \/ Kill(p)
  PROVE  IInv'
<1>1. CASE AbandonFetch(p) \/ Exit(p)
  BY <1>1, QuietEndKeepsInv DEF AbandonFetch, Exit
<1>2. CASE Kill(p)
  <2>1. Fits([Down EXCEPT !.phase = "killed"], recorded, applied, published)
    BY Known, DownFits
  <2> QED
    BY <1>2, <2>1, QuietStepKeepsInv DEF Kill
<1>3. CASE Shutdown(p)
  <2>1. Fits([proc[p] EXCEPT !.phase = "draining"], recorded, applied, published)
    BY <1>3, Known DEF Shutdown, Fits, Proc, Phases, Stopped, Booting, Running, HasRequests
  <2> QED
    BY <1>3, <2>1, MoveKeepsInv DEF Shutdown, Phases, Running
<1>4. CASE Drained(p)
  <2>1. Fits([proc[p] EXCEPT !.phase = "closing"], recorded, applied, published)
    BY <1>4, Known DEF Drained, Fits, Proc, Phases, Stopped, Booting, Running, HasRequests
  <2> QED
    BY <1>4, <2>1, MoveKeepsInv DEF Drained, Phases, Running
<1> QED
  BY <1>1, <1>2, <1>3, <1>4 DEF Leave

\* Requests and signals leave alone what the tables and the keys are about.
LEMMA OnlyRequestsMove ==
  ASSUME IInv, UNCHANGED <<db, published>>, NEW p \in Instances,
         NEW q \in Proc, Become(p, q), q.inSql \subseteq q.serving,
         q.serving \subseteq proc[p].serving \/ q.phase \in HasRequests,
         q.phase = proc[p].phase, q.env = proc[p].env, q.at = proc[p].at, q.keys = proc[p].keys,
         q.fetches = proc[p].fetches
  PROVE  IInv'
<1>1. Fits(proc[p], recorded, applied, published)
  BY Known
<1>2. Fits(q, recorded, applied, published)
  BY <1>1 DEF Fits
<1> QED
  BY <1>2, QuietStepKeepsInv

LEMMA ServeKeepsInv ==
  ASSUME IInv, NEW p \in Instances, Serve(p)
  PROVE  IInv'
<1>1. PICK r \in Requests : Admit(p, r) \/ Acquire(p, r) \/ Release(p, r) \/ Respond(p, r)
  BY DEF Serve
<1>2. proc[p] \in Proc /\ proc[p].inSql \subseteq proc[p].serving
  BY Known DEF Fits
<1>3. CASE Admit(p, r)
  <2>1. [proc[p] EXCEPT !.serving = @ \cup {r}] \in Proc
    BY <1>2 DEF Proc
  <2> QED
    BY <1>2, <1>3, <2>1, OnlyRequestsMove DEF Admit, Proc, HasRequests
<1>4. CASE Acquire(p, r)
  <2>1. [proc[p] EXCEPT !.inSql = @ \cup {r}] \in Proc
    BY <1>2 DEF Proc
  <2> QED
    BY <1>2, <1>4, <2>1, OnlyRequestsMove DEF Acquire, Proc
<1>5. CASE Release(p, r)
  <2>1. [proc[p] EXCEPT !.inSql = @ \ {r}] \in Proc
    BY <1>2 DEF Proc
  <2> QED
    BY <1>2, <1>5, <2>1, OnlyRequestsMove DEF Release, Proc
<1>6. CASE Respond(p, r)
  <2>1. [proc[p] EXCEPT !.serving = @ \ {r}] \in Proc
    BY <1>2 DEF Proc
  <2> QED
    BY <1>2, <1>6, <2>1, OnlyRequestsMove DEF Respond, Proc
<1> QED
  BY <1>1, <1>3, <1>4, <1>5, <1>6

LEMMA SignalKeepsInv ==
  ASSUME IInv, NEW p \in Instances, Signal(p)
  PROVE  IInv'
<1>1. proc[p] \in Proc /\ proc[p].inSql \subseteq proc[p].serving
  BY Known DEF Fits
<1>2. [proc[p] EXCEPT !.live = FALSE] \in Proc
  BY <1>1 DEF Proc
<1> QED
  BY <1>1, <1>2, OnlyRequestsMove DEF Signal, Proc

\* The refresh loop has one fetch under way, whose answer is no older than
\* the set in use.
LEMMA RefreshKeepsInv ==
  ASSUME IInv, NEW p \in Instances, Refresh(p)
  PROVE  IInv'
<1>1. /\ proc[p] \in Proc
      /\ Fits(proc[p], recorded, applied, published)
      /\ published \in Nat
  BY Known, ProcessEnvironment DEF Versions
<1>2. CASE StartRefresh(p)
  <2>1. PICK v \in {published, Never} :
           Become(p, [proc[p] EXCEPT !.fetches = @ \cup {v}])
    BY <1>2 DEF StartRefresh
  <2> DEFINE n == [proc[p] EXCEPT !.fetches = @ \cup {v}]
  <2>2. v \in Versions \cup {Never} /\ proc[p].fetches = {} /\ proc[p].phase \in Running
    BY <1>2, Known DEF StartRefresh
  <2>3. n \in Proc /\ n.fetches = {v}
    BY <1>1, <2>2 DEF Proc
  <2>4. /\ n.phase = proc[p].phase /\ n.at = proc[p].at /\ n.keys = proc[p].keys
        /\ n.inSql = proc[p].inSql /\ n.serving = proc[p].serving /\ n.env = proc[p].env
    BY <1>1 DEF Proc
  <2> HIDE DEF n
  <2>5. \A w \in n.fetches \ {Never} : n.keys <= w /\ w <= published /\ n.fetches = {w}
    BY <1>1, <2>1, <2>3, <2>4 DEF Fits
  <2>6. Fits(n, recorded, applied, published)
    BY <1>1, <2>2, <2>3, <2>4, <2>5 DEF Fits, Stopped, Booting, Running, HasRequests
  <2> QED
    BY <1>2, <2>1, <2>6, QuietStepKeepsInv DEF StartRefresh, n
<1>3. CASE RefreshArrives(p)
  <2>1. PICK v \in proc[p].fetches \ {Never} :
           Become(p, [proc[p] EXCEPT !.fetches = @ \ {v}, !.keys = v])
    BY <1>3 DEF RefreshArrives
  <2> DEFINE n == [proc[p] EXCEPT !.fetches = @ \ {v}, !.keys = v]
  <2>2. v \in Versions /\ v <= published /\ v # 0 /\ proc[p].fetches = {v}
    BY <1>1, <2>1, ProcessEnvironment DEF Fits, Proc, Versions
  <2>3. n \in Proc /\ n.fetches = {} /\ n.keys = v
    BY <1>1, <2>2 DEF Proc
  <2>4. /\ n.phase = proc[p].phase /\ n.at = proc[p].at
        /\ n.inSql = proc[p].inSql /\ n.serving = proc[p].serving /\ n.env = proc[p].env
    BY <1>1 DEF Proc
  <2> HIDE DEF n
  <2>5. Fits(n, recorded, applied, published)
    BY <1>1, <2>2, <2>3, <2>4 DEF Fits
  <2> QED
    BY <1>3, <2>1, <2>5, QuietStepKeepsInv DEF RefreshArrives, n
<1>4. CASE RefreshFails(p)
  <2>1. PICK v \in proc[p].fetches \ {Never} :
           Become(p, [proc[p] EXCEPT !.fetches = @ \ {v}])
    BY <1>4 DEF RefreshFails
  <2> DEFINE n == [proc[p] EXCEPT !.fetches = @ \ {v}]
  <2>2. n \in Proc /\ n.fetches = {}
    BY <1>1, <2>1 DEF Fits, Proc
  <2>3. /\ n.phase = proc[p].phase /\ n.at = proc[p].at /\ n.keys = proc[p].keys
        /\ n.inSql = proc[p].inSql /\ n.serving = proc[p].serving /\ n.env = proc[p].env
    BY <1>1 DEF Proc
  <2> HIDE DEF n
  <2>4. Fits(n, recorded, applied, published)
    BY <1>1, <2>2, <2>3 DEF Fits
  <2> QED
    BY <1>4, <2>1, <2>4, QuietStepKeepsInv DEF RefreshFails, n
<1> QED
  BY <1>2, <1>3, <1>4 DEF Refresh

LEMMA RotateKeepsInv ==
  ASSUME IInv, Rotate
  PROVE  IInv'
<1>1. /\ published' = published + 1 /\ published < MaxVersion
      /\ recorded' = recorded /\ applied' = applied /\ proc' = proc
  BY DEF Rotate, db
<1>2. published \in Versions
  BY DEF IInv, SharedOK
<1>3. published' \in Versions /\ published <= published'
  BY <1>1, <1>2, ProcessEnvironment DEF Versions
<1>4. ASSUME NEW p \in Instances
      PROVE  Fits(proc[p], recorded, applied, published')
  <2>1. Fits(proc[p], recorded, applied, published)
    BY DEF IInv
  <2> QED
    BY <1>2, <1>3, <2>1, FitsGrows
<1> QED
  BY <1>1, <1>3, <1>4 DEF IInv, SharedOK

-----------------------------------------------------------------------------
LEMMA InitInv == Init => IInv
<1> SUFFICES ASSUME Init
             PROVE  IInv
  OBVIOUS
<1>1. published = 1 /\ 1 \in Versions
  BY ProcessEnvironment DEF Init, Versions
<1>2. SharedOK
  BY <1>1 DEF Init, SharedOK, Ordered
<1>3. \A p \in Instances : Fits(proc[p], recorded, applied, published)
  BY <1>1, DownFits DEF Init
<1>4. proc \in [Instances -> Proc]
  BY <1>3 DEF Init, Fits
<1> QED
  BY <1>2, <1>3, <1>4 DEF IInv

LEMMA NextInv == IInv /\ [Next]_vars => IInv'
<1> SUFFICES ASSUME IInv, [Next]_vars
             PROVE  IInv'
  OBVIOUS
<1>1. ASSUME NEW p \in Instances, Start(p)
      PROVE  IInv'
  BY <1>1, StartKeepsInv
<1>2. ASSUME NEW p \in Instances, Boot(p)
      PROVE  IInv'
  BY <1>2, PingKeepsInv, EnsureTableKeepsInv, CheckKeepsInv, ApplyKeepsInv, RecordKeepsInv,
     FetchKeysKeepsInv, LeaveKeepsInv, ListenKeepsInv DEF Boot
<1>3. ASSUME NEW p \in Instances, Serve(p) \/ Refresh(p) \/ Signal(p)
      PROVE  IInv'
  BY <1>3, ServeKeepsInv, RefreshKeepsInv, SignalKeepsInv
<1>4. ASSUME NEW p \in Instances, Leave(p) \/ Kill(p)
      PROVE  IInv'
  BY <1>4, LeaveKeepsInv
<1>5. CASE Rotate
  BY <1>5, RotateKeepsInv
<1>6. CASE UNCHANGED vars
  <2>1. recorded' = recorded /\ applied' = applied /\ published' = published /\ proc' = proc
    BY <1>6 DEF vars
  <2> QED
    BY <2>1 DEF IInv, SharedOK
<1> QED
  BY <1>1, <1>2, <1>3, <1>4, <1>5, <1>6 DEF Next

LEMMA ProcessInvariant == Spec => []IInv
BY InitInv, NextInv, PTL DEF Spec

-----------------------------------------------------------------------------
\* Instances keep their types, and hold connections only for what they serve.
THEOREM ProcessTyped == Spec => []TypeOK
<1>1. IInv => TypeOK
  BY DEF IInv, SharedOK, Fits, TypeOK, All
<1> QED
  BY <1>1, ProcessInvariant, PTL

\* However many processes migrate one database, die and start again: each
\* migration runs after all before it are recorded, and is recorded only once run.
THEOREM MigrationsAreOrdered == Spec => []MigrationsInOrder
<1>1. IInv => MigrationsInOrder
  BY DEF IInv, SharedOK, Ordered, MigrationsInOrder
<1> QED
  BY <1>1, ProcessInvariant, PTL

\* Nothing is served before the whole schema is there and a key set fetched.
THEOREM ServersAreReady == Spec => []ServesMigrated
<1>1. IInv => ServesMigrated
  <2> SUFFICES ASSUME IInv, NEW p \in Instances, proc[p].phase \in Running
               PROVE  recorded = All /\ applied = All /\ proc[p].keys # 0
    BY DEF ServesMigrated
  <2>1. All \subseteq recorded /\ proc[p].keys # 0
    BY DEF IInv, Fits
  <2> QED
    BY <2>1 DEF IInv, SharedOK, Ordered
<1> QED
  BY <1>1, ProcessInvariant, PTL

\* However each operator writes the tenant's domain, every instance that serves
\* with the tenant's keys expects the tokens of the tenant's issuer.
THEOREM ServersAgree == Spec => []IssuersAgree
<1>1. IInv => IssuersAgree
  <2> SUFFICES ASSUME IInv, NEW p \in Instances,
                      \/ proc[p].env.domain \in Spellings(MaxSlashes)
                      \/ proc[p].phase \in Running /\ proc[p].env.jwks = Unset
               PROVE  Issuer(proc[p].env) = TenantIssuer
    BY DEF IssuersAgree
  <2>1. CASE proc[p].env.domain \in Spellings(MaxSlashes)
    <3>1. Normalize(proc[p].env.domain) = <<"tenant">>
      BY <2>1, SpellingsNormalize, ProcessEnvironment
    <3> QED
      BY <3>1 DEF Issuer, TenantIssuer
  <2>2. CASE proc[p].phase \in Running /\ proc[p].env.jwks = Unset
    <3>1. proc[p].env \in Environment /\ JWKSURL(proc[p].env) = TenantKeys
      BY <2>2 DEF IInv, Fits, Proc
    <3> QED
      BY <2>2, <3>1, KeysFitIssuer
  <2> QED
    BY <2>1, <2>2
<1> QED
  BY <1>1, ProcessInvariant, PTL

\* The step of one instance that keeps or renews its key set, or ends it.
LEMMA KeysKept ==
  ASSUME IInv, NEW p \in Instances, NEW q, Become(p, q),
         \/ q.phase \in Stopped
         \/ q.keys \in Nat /\ proc[p].keys <= q.keys,
         NEW o \in Instances, proc'[o].keys < proc[o].keys
  PROVE  proc'[o].phase \in Stopped
<1>1. proc' = [proc EXCEPT ![p] = q] /\ proc \in [Instances -> Proc]
  BY DEF Become, IInv
<1>2. proc[o].keys \in Nat
  <2>1. proc[o].keys \in {0} \cup Versions
    BY Known DEF Proc
  <2> QED
    BY <2>1, ProcessEnvironment DEF Versions
<1>3. CASE o = p
  BY <1>1, <1>2, <1>3
<1>4. CASE o # p
  BY <1>1, <1>2, <1>4
<1> QED
  BY <1>3, <1>4

\* An ended instance has no keys, one that changes its phase keeps them.
LEMMA KeysAtEnd ==
  ASSUME IInv, NEW p \in Instances, End(p) \/ Kill(p),
         NEW o \in Instances, proc'[o].keys < proc[o].keys
  PROVE  proc'[o].phase \in Stopped
<1>1. /\ proc \in [Instances -> Proc]
      /\ \/ proc' = [proc EXCEPT ![p] = Down]
         \/ proc' = [proc EXCEPT ![p] = [Down EXCEPT !.phase = "killed"]]
  BY DEF End, Kill, Become, IInv
<1>2. CASE o = p
  BY <1>1, <1>2 DEF Down, Stopped
<1>3. CASE o # p
  <2>1. proc'[o].keys = proc[o].keys /\ proc[o].keys \in {0} \cup Versions
    BY <1>1, <1>3 DEF Proc
  <2> QED
    BY <2>1, ProcessEnvironment DEF Versions
<1> QED
  BY <1>2, <1>3

LEMMA KeysStay ==
  ASSUME IInv, NEW p \in Instances, NEW q, Become(p, q), q.keys = proc[p].keys,
         NEW o \in Instances, proc'[o].keys < proc[o].keys
  PROVE  proc'[o].phase \in Stopped
<1>1. proc[p].keys \in {0} \cup Versions
  BY Known DEF Proc
<1>2. proc[p].keys \in Nat /\ proc[p].keys <= proc[p].keys
  BY <1>1, ProcessEnvironment DEF Versions
<1> QED
  BY <1>2, KeysKept

LEMMA KeysAtMove ==
  ASSUME IInv, NEW p \in Instances, NEW to, GoTo(p, to),
         NEW o \in Instances, proc'[o].keys < proc[o].keys
  PROVE  proc'[o].phase \in Stopped
<1>1. [proc[p] EXCEPT !.phase = to].keys = proc[p].keys
  BY Known DEF Proc
<1> QED
  BY <1>1, KeysStay DEF GoTo

LEMMA KeysAtNextMigration ==
  ASSUME IInv, NEW p \in Instances, NextMigration(p),
         NEW o \in Instances, proc'[o].keys < proc[o].keys
  PROVE  proc'[o].phase \in Stopped
<1>1. [proc[p] EXCEPT !.phase = "check", !.at = @ + 1].keys = proc[p].keys
  BY Known DEF Proc
<1> QED
  BY <1>1, KeysStay, KeysAtMove DEF NextMigration

\* Neither overlapping processes nor a slow issuer bring back an older key set.
THEOREM KeysAdvance == Spec => KeysNeverGoBack
<1>1. ASSUME IInv, Next, NEW o \in Instances, proc'[o].keys < proc[o].keys
      PROVE  proc'[o].phase \in Stopped
  <2>1. ASSUME NEW p \in Instances, Boot(p) \/ Start(p) \/ Leave(p) \/ Kill(p)
        PROVE  proc'[o].phase \in Stopped
    <3>1. CASE Ping(p) \/ EnsureTable(p) \/ Listen(p)
      BY <1>1, <3>1, KeysAtEnd, KeysAtMove DEF Ping, EnsureTable, Listen
    <3>6. CASE Start(p)
      <4>1. \A e : [proc[p] EXCEPT !.phase = "ping", !.env = e].keys = proc[p].keys
        BY <1>1, Known DEF Proc
      <4> QED
        BY <1>1, <3>6, <4>1, KeysAtEnd, KeysStay DEF Start
    <3>2. CASE Check(p) \/ Apply(p) \/ Record(p)
      BY <1>1, <3>2, KeysAtEnd, KeysAtMove, KeysAtNextMigration DEF Check, Apply, Record
    <3>3. CASE FetchKeys(p)
      <4>1. CASE Become(p, [proc[p] EXCEPT !.phase = "listen", !.keys = published])
        <5>1. /\ [proc[p] EXCEPT !.phase = "listen", !.keys = published].keys = published
              /\ published \in Nat /\ proc[p].keys <= published
          BY <1>1, Known, ProcessEnvironment DEF Fits, Proc, Versions
        <5> QED
          BY <1>1, <4>1, <5>1, KeysKept
      <4> QED
        BY <1>1, <3>3, <4>1, KeysAtEnd, KeysAtMove DEF FetchKeys
    <3>4. CASE AbandonFetch(p) \/ Leave(p)
      BY <1>1, <3>4, KeysAtEnd, KeysAtMove DEF AbandonFetch, Leave, Shutdown, Drained, Exit
    <3>5. CASE Kill(p)
      BY <1>1, <3>5, KeysAtEnd
    <3> QED
      BY <2>1, <3>1, <3>2, <3>3, <3>4, <3>5, <3>6 DEF Boot
  <2>2. ASSUME NEW p \in Instances, Serve(p) \/ Signal(p)
        PROVE  proc'[o].phase \in Stopped
    <3>1. ASSUME NEW r \in Requests
          PROVE  /\ [proc[p] EXCEPT !.serving = @ \cup {r}].keys = proc[p].keys
                 /\ [proc[p] EXCEPT !.inSql = @ \cup {r}].keys = proc[p].keys
                 /\ [proc[p] EXCEPT !.inSql = @ \ {r}].keys = proc[p].keys
                 /\ [proc[p] EXCEPT !.serving = @ \ {r}].keys = proc[p].keys
      BY <1>1, Known DEF Proc
    <3>2. [proc[p] EXCEPT !.live = FALSE].keys = proc[p].keys
      BY <1>1, Known DEF Proc
    <3> QED
      BY <1>1, <2>2, <3>1, <3>2, KeysStay DEF Serve, Admit, Acquire, Release, Respond, Signal
  <2>3. ASSUME NEW p \in Instances, Refresh(p)
        PROVE  proc'[o].phase \in Stopped
    <3>1. CASE RefreshArrives(p)
      <4>1. PICK v \in proc[p].fetches \ {Never} :
               Become(p, [proc[p] EXCEPT !.fetches = @ \ {v}, !.keys = v])
        BY <3>1 DEF RefreshArrives
      <4>2. /\ [proc[p] EXCEPT !.fetches = @ \ {v}, !.keys = v].keys = v
            /\ v \in Nat /\ proc[p].keys <= v
        BY <1>1, <4>1, Known, ProcessEnvironment DEF Fits, Proc, Versions
      <4> QED
        BY <1>1, <4>1, <4>2, KeysKept
    <3>2. ASSUME NEW v
          PROVE  /\ [proc[p] EXCEPT !.fetches = @ \cup {v}].keys = proc[p].keys
                 /\ [proc[p] EXCEPT !.fetches = @ \ {v}].keys = proc[p].keys
      BY <1>1, Known DEF Proc
    <3> QED
      BY <1>1, <2>3, <3>1, <3>2, KeysStay DEF Refresh, StartRefresh, RefreshFails
  <2>4. ~Rotate
    <3>1. proc[o].keys \in {0} \cup Versions
      BY <1>1, Known DEF Proc
    <3> QED
      BY <1>1, <3>1, ProcessEnvironment DEF Rotate, Versions
  <2> QED
    BY <1>1, <2>1, <2>2, <2>3, <2>4 DEF Next
<1>2. IInv /\ [Next]_vars =>
        [\A p \in Instances : proc'[p].keys < proc[p].keys => proc'[p].phase \in Stopped]_vars
  BY <1>1 DEF vars
<1> QED
  BY <1>2, ProcessInvariant, PTL DEF Spec, KeysNeverGoBack
=============================================================================
