--------------------------- MODULE IolLatencyProofs ---------------------------
(***************************************************************************)
(* The percentiles of ioload and the halt, for every number of files,      *)
(* buckets, I/Os and rounds, and for all percentiles and latencies.        *)
(***************************************************************************)
EXTENDS IolLatency, Arithmetic

LEMMA Constants ==
    /\ NFiles \in Nat /\ NBuckets \in Nat /\ NBuckets >= 1 /\ LatDiv \in Nat \ {0}
    /\ IsFiniteSet(Files) /\ IsFiniteSet(Types) /\ IsFiniteSet(Buckets)
    /\ IsFiniteSet(Lats) /\ \A l \in Lats : l \in Nat
    /\ MaxIos \in Nat /\ MaxLatency \in Nat
    /\ \A j \in DOMAIN Parts : Parts[j] \in Nat /\ Parts[j] >= 2
    /\ HaltAt \in DOMAIN Parts
<1>1. /\ NFiles \in Nat /\ NBuckets \in Nat /\ NBuckets >= 1 /\ LatDiv \in Nat \ {0}
      /\ IsFiniteSet(Lats) /\ \A l \in Lats : l \in Nat
      /\ MaxIos \in Nat /\ MaxLatency \in Nat /\ HaltAt \in DOMAIN Parts
  BY LatencyAssumption
<1>2. IsFiniteSet(Files) BY <1>1, FS_Interval DEF Files
<1>3. IsFiniteSet(Buckets)
  <2>1. NBuckets - 1 \in Int /\ 0 \in Int BY <1>1
  <2> QED BY <2>1, FS_Interval DEF Buckets
<1>4. IsFiniteSet(Types)
  <2>1. IsFiniteSet({} \cup {"read"}) BY FS_EmptySet, FS_AddElement
  <2>2. IsFiniteSet(({} \cup {"read"}) \cup {"write"}) BY <2>1, FS_AddElement
  <2>3. Types = ({} \cup {"read"}) \cup {"write"} BY DEF Types
  <2> QED BY <2>2, <2>3
<1>5. \A j \in DOMAIN Parts : Parts[j] \in Nat /\ Parts[j] >= 2
  <2>1. Parts \in Seq(Nat \ {0, 1}) BY LatencyAssumption
  <2>2. ASSUME NEW j \in DOMAIN Parts PROVE Parts[j] \in Nat \ {0, 1} BY <2>1
  <2> QED BY <2>2
<1> QED BY <1>1, <1>2, <1>3, <1>4, <1>5

-----------------------------------------------------------------------------
(***************************************************************************)
(* One percentile.                                                         *)
(***************************************************************************)
LEMMA BucketIs ==
    ASSUME NEW l \in Nat
    PROVE  /\ Bucket(l) \in Buckets
           /\ \A m \in Buckets : Bucket(l) <= m <=>
                 l < (m + 1) * LatDiv \/ (m + 1) * LatDiv = NBuckets * LatDiv
<1> USE Constants
<1> DEFINE q == l \div LatDiv
<1>1. q \in Nat /\ q * LatDiv <= l /\ l < (q + 1) * LatDiv BY Quotient
<1>2. q * LatDiv \in Nat /\ (q + 1) * LatDiv \in Nat BY <1>1
<1>3. Bucket(l) = IF q >= NBuckets THEN NBuckets - 1 ELSE q BY DEF Bucket
<1> HIDE DEF q
<1>4. Bucket(l) \in Buckets BY <1>1, <1>3 DEF Buckets
<1>5. ASSUME NEW m \in Buckets
      PROVE  Bucket(l) <= m <=>
                l < (m + 1) * LatDiv \/ (m + 1) * LatDiv = NBuckets * LatDiv
  <2>1. m \in Nat /\ m < NBuckets BY DEF Buckets
  <2>2. (m + 1) * LatDiv = NBuckets * LatDiv <=> m + 1 = NBuckets
    <3> SUFFICES ASSUME (m + 1) * LatDiv = NBuckets * LatDiv, m + 2 <= NBuckets
                 PROVE  FALSE
      BY <2>1
    <3>1. (m + 2) * LatDiv <= NBuckets * LatDiv BY <2>1, ProductMonotone
    <3>2. (m + 2) * LatDiv = (m + 1) * LatDiv + LatDiv BY <2>1
    <3>3. (m + 1) * LatDiv \in Nat BY <2>1
    <3> QED BY <3>1, <3>2, <3>3
  <2>3. q <= m => l < (m + 1) * LatDiv
    <3> SUFFICES ASSUME q <= m PROVE l < (m + 1) * LatDiv OBVIOUS
    <3>1. (q + 1) * LatDiv <= (m + 1) * LatDiv /\ (m + 1) * LatDiv \in Nat
      BY <1>1, <2>1, ProductMonotone
    <3> QED BY <1>1, <1>2, <3>1
  <2>4. m < q => ~(l < (m + 1) * LatDiv)
    <3> SUFFICES ASSUME m + 1 <= q PROVE ~(l < (m + 1) * LatDiv) BY <1>1, <2>1
    <3>1. (m + 1) * LatDiv <= q * LatDiv /\ (m + 1) * LatDiv \in Nat
      BY <1>1, <2>1, ProductMonotone
    <3> QED BY <1>1, <1>2, <3>1
  <2> QED BY <1>1, <1>3, <2>1, <2>2, <2>3, <2>4
<1> QED BY <1>4, <1>5

\* The number that has to be reached is part of n, rounded up.
LEMMA EnoughIs ==
    ASSUME NEW n \in Nat, n >= 1, NEW part \in Nat, part >= 2
    PROVE  /\ Enough(n, part) \in 1 .. n
           /\ \A k \in Nat : k >= Enough(n, part) <=> part * k >= (part - 1) * n
<1>1. Max({n, 1}) = n
  <2>1. IsFiniteSet({n, 1})
    <3>1. IsFiniteSet({} \cup {n}) BY FS_EmptySet, FS_AddElement
    <3>2. IsFiniteSet(({} \cup {n}) \cup {1}) BY <3>1, FS_AddElement
    <3>3. {n, 1} = ({} \cup {n}) \cup {1} OBVIOUS
    <3> QED BY <3>2, <3>3
  <2>2. Max({n, 1}) \in {n, 1} /\ \A x \in {n, 1} : x <= Max({n, 1}) BY <2>1, MaxIs
  <2> QED BY <2>2
<1> DEFINE d == n \div part
           e == n - d
<1>2. Enough(n, part) = e BY <1>1 DEF Enough
<1>3. d \in Nat /\ d * part <= n /\ n < (d + 1) * part BY Quotient
<1> HIDE DEF d
<1>4. d * part \in Nat /\ (d + 1) * part = d * part + part BY <1>3
<1>5. 2 * d <= n
  <2>1. 2 * d <= part * d /\ part * d = d * part BY <1>3, ProductMonotone
  <2> QED BY <1>3, <1>4, <2>1
<1>6. e \in Nat /\ e >= 1 /\ e <= n BY <1>3, <1>5
<1>7. part * e = part * n - d * part BY <1>3
<1>8. (part - 1) * n = part * n - n /\ part * n \in Nat OBVIOUS
<1> HIDE DEF e
<1>9. ASSUME NEW k \in Nat PROVE k >= e <=> part * k >= (part - 1) * n
  <2>1. k >= e => part * k >= (part - 1) * n
    <3> SUFFICES ASSUME e <= k PROVE part * k >= (part - 1) * n BY <1>6
    <3>1. e * part <= k * part /\ e * part \in Nat BY <1>6, ProductMonotone
    <3>2. e * part = part * e /\ k * part = part * k BY <1>6
    <3> QED BY <1>3, <1>4, <1>7, <1>8, <3>1, <3>2
  <2>2. k < e => ~(part * k >= (part - 1) * n)
    <3> SUFFICES ASSUME k + 1 <= e PROVE ~(part * k >= (part - 1) * n) BY <1>6
    <3>1. (k + 1) * part <= e * part /\ e * part \in Nat BY <1>6, ProductMonotone
    <3>2. e * part = part * e /\ (k + 1) * part = part * k + part /\ part * k \in Nat
      BY <1>6
    <3> QED BY <1>3, <1>4, <1>7, <1>8, <3>1, <3>2
  <2> QED BY <1>6, <2>1, <2>2
<1> QED BY <1>2, <1>6, <1>9

\* A percentile is its old value or the end of a bucket.
LEMMA PercentileType ==
    ASSUME NEW old \in 0 .. NBuckets * LatDiv, NEW hist, NEW enough
    PROVE  Percentile(old, hist, enough) \in 0 .. NBuckets * LatDiv
<1> USE Constants
<1> DEFINE R == Reached(hist, enough)
<1>1. CASE R = {} BY <1>1 DEF Percentile
<1>2. CASE R # {}
  <2>1. R \subseteq Buckets BY DEF Reached
  <2> HIDE DEF R
  <2>2. IsFiniteSet(R) BY <2>1, FS_Subset
  <2>a. R \subseteq Int BY <2>1 DEF Buckets
  <2>3. Min(R) \in Buckets BY <1>2, <2>1, <2>2, <2>a, MinIs
  <2>4. Min(R) + 1 \in Nat /\ Min(R) + 1 <= NBuckets BY <2>3 DEF Buckets
  <2>5. (Min(R) + 1) * LatDiv <= NBuckets * LatDiv /\ (Min(R) + 1) * LatDiv \in Nat
        /\ NBuckets * LatDiv \in Nat
    BY <2>4, ProductMonotone
  <2> QED BY <1>2, <2>5 DEF Percentile, R
<1> QED BY <1>1, <1>2

\* With a total that is the sum of the buckets, it is the end of the first bucket up
\* to which there are that many I/Os.
LEMMA PercentileIs ==
    ASSUME NEW hist, \A b \in Buckets : hist[b] \in Nat,
           NEW n \in Nat, n >= 1, n = SumFunctionOnSet(hist, Buckets),
           NEW part \in Nat, part >= 2, NEW old
    PROVE  \E m \in Buckets :
              /\ Percentile(old, hist, Enough(n, part)) = (m + 1) * LatDiv
              /\ part * SumFunctionOnSet(hist, 0 .. m) >= (part - 1) * n
              /\ ~(part * SumFunctionOnSet(hist, 0 .. m - 1) >= (part - 1) * n)
<1> USE Constants
<1> DEFINE e == Enough(n, part)
           R == Reached(hist, e)
           P(b) == SumFunctionOnSet(hist, 0 .. b)
<1>1. e \in 1 .. n /\ \A k \in Nat : k >= e <=> part * k >= (part - 1) * n BY EnoughIs
<1>2. R = {b \in Buckets : P(b) >= e} BY DEF Reached
<1>3. \A b \in Buckets : P(b) \in Nat
  <2>1. ASSUME NEW b \in Buckets PROVE P(b) \in Nat
    <3>1. 0 .. b \subseteq Buckets BY DEF Buckets
    <3>2. IsFiniteSet(0 .. b) BY <3>1, FS_Subset
    <3> QED BY <3>1, <3>2, SumNat
  <2> QED BY <2>1
<1>4. NBuckets - 1 \in R
  <2>1. NBuckets - 1 \in Buckets /\ 0 .. NBuckets - 1 = Buckets BY DEF Buckets
  <2>2. P(NBuckets - 1) = n BY <2>1
  <2>3. e <= n BY <1>1
  <2> QED BY <1>2, <2>1, <2>2, <2>3
<1> HIDE DEF e, R, P
<1>5. IsFiniteSet(R) /\ R \subseteq Int BY <1>2, FS_Subset DEF Buckets
<1>6. Min(R) \in R /\ \A b \in R : Min(R) <= b BY <1>4, <1>5, MinIs
<1> DEFINE m == Min(R)
<1>7. m \in Buckets /\ P(m) >= e /\ P(m) \in Nat BY <1>2, <1>3, <1>6
<1>8. Percentile(old, hist, e) = (m + 1) * LatDiv BY <1>4 DEF Percentile, R
<1>9. part * P(m) >= (part - 1) * n BY <1>1, <1>7
<1>10. ~(part * P(m - 1) >= (part - 1) * n)
  <2> HIDE DEF m
  <2>1. P(m - 1) \in Nat /\ P(m - 1) < e
    <3>1. CASE m = 0
      <4>1. 0 .. m - 1 = {} BY <3>1
      <4>2. P(m - 1) = 0 BY <4>1, SumEmpty DEF P
      <4> QED BY <1>1, <4>2
    <3>2. CASE m # 0
      <4>1. m - 1 \in Buckets /\ m - 1 < m BY <1>7, <3>2 DEF Buckets
      <4>2. m - 1 \notin R
        <5> SUFFICES ASSUME m - 1 \in R PROVE FALSE OBVIOUS
        <5>1. m <= m - 1 BY <1>6 DEF m
        <5> QED BY <1>7, <4>1, <5>1 DEF Buckets
      <4>3. P(m - 1) \in Nat BY <1>3, <4>1
      <4> QED BY <1>1, <1>2, <4>1, <4>2, <4>3
    <3> QED BY <3>1, <3>2
  <2>2. ~(P(m - 1) >= e) BY <1>1, <2>1
  <2> QED BY <1>1, <2>1, <2>2
<1> QED BY <1>7, <1>8, <1>9, <1>10 DEF P, e

-----------------------------------------------------------------------------
(***************************************************************************)
(* Counters and latencies.                                                 *)
(***************************************************************************)
NatCounts == [Files -> [Types -> [Buckets -> Nat]]]
NatSeen   == [Files -> [Types -> [Lats -> Nat]]]

\* All files' counters of type t, c being those of each file.
Hist(c, t) == [b \in Buckets |-> SumFunction([f \in Files |-> c[f][t][b]])]

AllOf(c, t) == SumFunction([f \in Files |-> SumFunction(c[f][t])])

\* I/Os with latencies in L, s being the latencies that have been seen.
SeenIn(s, t, L) == SumFunction([f \in Files |-> SumFunctionOnSet(s[f][t], L)])

IosOf(s) ==
    SumFunction([f \in Files |-> SumFunction([t \in Types |-> SumFunction(s[f][t])])])

InBuckets(B) == {l \in Lats : Bucket(l) \in B}

\* The counters count what has been seen, in any set of buckets.
Match(c, s) ==
    \A t \in Types :
        /\ \A B \in SUBSET Buckets :
              SumFunctionOnSet(Hist(c, t), B) = SeenIn(s, t, InBuckets(B))
        /\ AllOf(c, t) = SeenIn(s, t, Lats)

LEMMA ClearMatches ==
    Clear \in NatCounts /\ NoneSeen \in NatSeen /\ Match(Clear, NoneSeen) /\ IosOf(NoneSeen) = 0
<1> USE Constants
<1>1. Clear \in NatCounts /\ NoneSeen \in NatSeen BY DEF Clear, NoneSeen, NatCounts, NatSeen
<1>2. ASSUME NEW t \in Types, NEW b \in Buckets PROVE Hist(Clear, t)[b] = 0
  <2> DEFINE h == [f \in Files |-> Clear[f][t][b]]
  <2>1. DOMAIN h = Files /\ \A f \in Files : h[f] = 0 BY DEF Clear
  <2> HIDE DEF h
  <2>2. SumFunction(h) = 0 BY <2>1, SumZero DEF SumFunction
  <2> QED BY <2>2 DEF Hist, h
<1>3. ASSUME NEW f \in Files, NEW t \in Types PROVE SumFunction(Clear[f][t]) = 0
  <2>1. DOMAIN Clear[f][t] = Buckets /\ \A b \in Buckets : Clear[f][t][b] = 0
    BY DEF Clear
  <2> QED BY <2>1, SumZero DEF SumFunction
<1>4. ASSUME NEW f \in Files, NEW t \in Types, NEW L \in SUBSET Lats
      PROVE  SumFunctionOnSet(NoneSeen[f][t], L) = 0
  <2>1. \A l \in L : NoneSeen[f][t][l] = 0 BY DEF NoneSeen
  <2>2. IsFiniteSet(L) BY FS_Subset
  <2> QED BY <2>1, <2>2, SumZero
<1>5. ASSUME NEW t \in Types, NEW L \in SUBSET Lats PROVE SeenIn(NoneSeen, t, L) = 0
  <2> DEFINE h == [f \in Files |-> SumFunctionOnSet(NoneSeen[f][t], L)]
  <2>1. DOMAIN h = Files /\ \A f \in Files : h[f] = 0 BY <1>4
  <2> HIDE DEF h
  <2>2. SumFunction(h) = 0 BY <2>1, SumZero DEF SumFunction
  <2> QED BY <2>2 DEF SeenIn, h
<1>6. ASSUME NEW t \in Types PROVE AllOf(Clear, t) = 0
  <2> DEFINE h == [f \in Files |-> SumFunction(Clear[f][t])]
  <2>1. DOMAIN h = Files /\ \A f \in Files : h[f] = 0 BY <1>3
  <2> HIDE DEF h
  <2>2. SumFunction(h) = 0 BY <2>1, SumZero DEF SumFunction
  <2> QED BY <2>2 DEF AllOf, h
<1>7. Match(Clear, NoneSeen)
  <2>1. ASSUME NEW t \in Types, NEW B \in SUBSET Buckets
        PROVE  SumFunctionOnSet(Hist(Clear, t), B) = SeenIn(NoneSeen, t, InBuckets(B))
    <3>1. IsFiniteSet(B) BY FS_Subset
    <3>2. \A b \in B : Hist(Clear, t)[b] = 0 BY <1>2
    <3>3. SumFunctionOnSet(Hist(Clear, t), B) = 0 BY <3>1, <3>2, SumZero
    <3>4. InBuckets(B) \in SUBSET Lats BY DEF InBuckets
    <3> QED BY <1>5, <3>3, <3>4
  <2>2. ASSUME NEW t \in Types PROVE AllOf(Clear, t) = SeenIn(NoneSeen, t, Lats)
    BY <1>5, <1>6
  <2> QED BY <2>1, <2>2 DEF Match
<1>8. IosOf(NoneSeen) = 0
  <2>1. ASSUME NEW f \in Files
        PROVE  SumFunction([t \in Types |-> SumFunction(NoneSeen[f][t])]) = 0
    <3> DEFINE g == [t \in Types |-> SumFunction(NoneSeen[f][t])]
    <3>1. \A t \in Types : DOMAIN NoneSeen[f][t] = Lats BY DEF NoneSeen
    <3>2. DOMAIN g = Types /\ \A t \in Types : g[t] = 0
      BY <1>4, <3>1 DEF SumFunction
    <3> HIDE DEF g
    <3>3. SumFunction(g) = 0 BY <3>2, SumZero DEF SumFunction
    <3> QED BY <3>3 DEF g
  <2> DEFINE h == [f \in Files |-> SumFunction([t \in Types |-> SumFunction(NoneSeen[f][t])])]
  <2>2. DOMAIN h = Files /\ \A f \in Files : h[f] = 0 BY <2>1
  <2> HIDE DEF h
  <2>3. SumFunction(h) = 0 BY <2>2, SumZero DEF SumFunction
  <2> QED BY <2>3 DEF IosOf, h
<1> QED BY <1>1, <1>7, <1>8

\* One I/O more.
Counted(c, s, f, t, l, c1, s1) ==
    /\ c1 = [c EXCEPT ![f][t][Bucket(l)] = @ + 1]
    /\ s1 = [s EXCEPT ![f][t][l] = @ + 1]

LEMMA CountMatches ==
    ASSUME NEW c \in NatCounts, NEW s \in NatSeen, Match(c, s),
           NEW f \in Files, NEW t \in Types, NEW l \in Lats,
           NEW c1, NEW s1, Counted(c, s, f, t, l, c1, s1)
    PROVE  c1 \in NatCounts /\ s1 \in NatSeen /\ Match(c1, s1) /\ IosOf(s1) = IosOf(s) + 1
<1> USE Constants
<1> DEFINE b == Bucket(l)
<1>1. b \in Buckets BY BucketIs
<1> HIDE DEF b
<1>2. c1 = [c EXCEPT ![f][t][b] = @ + 1] BY DEF b, Counted
<1>a. s1 = [s EXCEPT ![f][t][l] = @ + 1] BY DEF Counted
<1>3. c1 \in NatCounts /\ s1 \in NatSeen
  <2>1. c[f][t] \in [Buckets -> Nat] /\ s[f][t] \in [Lats -> Nat] BY DEF NatCounts, NatSeen
  <2>2. [c[f][t] EXCEPT ![b] = @ + 1] \in [Buckets -> Nat] BY <1>1, <2>1
  <2>3. [s[f][t] EXCEPT ![l] = @ + 1] \in [Lats -> Nat] BY <2>1
  <2>4. c1 = [c EXCEPT ![f] = [c[f] EXCEPT ![t] = [c[f][t] EXCEPT ![b] = @ + 1]]]
    BY <1>2
  <2>5. s1 = [s EXCEPT ![f] = [s[f] EXCEPT ![t] = [s[f][t] EXCEPT ![l] = @ + 1]]]
    BY <1>a
  <2>6. c1 \in NatCounts
    <3> HIDE DEF Buckets
    <3> QED BY <2>2, <2>4 DEF NatCounts
  <2>7. s1 \in NatSeen BY <2>3, <2>5 DEF NatSeen
  <2> QED BY <2>6, <2>7
<1>4. /\ c1[f][t][b] = c[f][t][b] + 1
      /\ \A x \in Buckets : x # b => c1[f][t][x] = c[f][t][x]
      /\ \A g \in Files, u \in Types : g # f \/ u # t => c1[g][u] = c[g][u]
  BY <1>1, <1>2 DEF NatCounts
<1>5. /\ s1[f][t][l] = s[f][t][l] + 1
      /\ \A x \in Lats : x # l => s1[f][t][x] = s[f][t][x]
      /\ \A g \in Files, u \in Types : g # f \/ u # t => s1[g][u] = s[g][u]
  BY <1>a DEF NatSeen
<1>6. \A g \in Files, u \in Types :
         /\ DOMAIN c[g][u] = Buckets /\ DOMAIN c1[g][u] = Buckets
         /\ DOMAIN s[g][u] = Lats /\ DOMAIN s1[g][u] = Lats
         /\ \A x \in Buckets : c[g][u][x] \in Nat
         /\ \A x \in Lats : s[g][u][x] \in Nat
  BY <1>3 DEF NatCounts, NatSeen
<1> HIDE DEF NatCounts, NatSeen
<1> DEFINE One(p) == IF p THEN 1 ELSE 0
<1>7. ASSUME NEW u \in Types, NEW x \in Buckets
      PROVE  /\ Hist(c, u)[x] \in Int
             /\ Hist(c1, u)[x] = Hist(c, u)[x] + (IF x = b THEN One(u = t) ELSE 0)
  <2> DEFINE h  == [g \in Files |-> c[g][u][x]]
             h1 == [g \in Files |-> c1[g][u][x]]
             d  == One(u = t /\ x = b)
  <2>1. DOMAIN h = Files /\ DOMAIN h1 = Files /\ \A g \in Files : h[g] \in Int BY <1>6
  <2>2. h1[f] = h[f] + d /\ \A g \in Files : g # f => h1[g] = h[g] BY <1>4, <1>6
  <2>3. Hist(c, u)[x] = SumFunctionOnSet(h, Files)
        /\ Hist(c1, u)[x] = SumFunctionOnSet(h1, Files)
    BY <2>1 DEF Hist, SumFunction
  <2>4. d \in Int OBVIOUS
  <2> HIDE DEF h, h1, d
  <2>5. /\ SumFunctionOnSet(h, Files) \in Int
        /\ SumFunctionOnSet(h1, Files) = SumFunctionOnSet(h, Files) + d
    BY <2>1, <2>2, <2>4, SumAddWhole
  <2> QED BY <2>3, <2>5 DEF d
<1>8. ASSUME NEW u \in Types, NEW B \in SUBSET Buckets
      PROVE  SumFunctionOnSet(Hist(c1, u), B) =
                 SumFunctionOnSet(Hist(c, u), B) + (IF b \in B THEN One(u = t) ELSE 0)
  <2> DEFINE h  == Hist(c, u)
             h1 == Hist(c1, u)
             d  == One(u = t)
  <2>1. d \in Int OBVIOUS
  <2>2. ASSUME NEW x \in Buckets
        PROVE  h[x] \in Int /\ h1[x] = h[x] + (IF x = b THEN d ELSE 0)
    BY <1>7
  <2> HIDE DEF h, h1, d
  <2>3. h1[b] = h[b] + d BY <1>1, <2>2
  <2>4. \A x \in Buckets : h[x] \in Int /\ (x # b => h1[x] = h[x]) BY <2>2
  <2>5. SumFunctionOnSet(h1, B) = SumFunctionOnSet(h, B) + (IF b \in B THEN d ELSE 0)
    BY <1>1, <2>1, <2>3, <2>4, SumAdd
  <2> QED BY <2>5 DEF h, h1, d
<1>9. ASSUME NEW g \in Files, NEW u \in Types, NEW L \in SUBSET Lats
      PROVE  /\ SumFunctionOnSet(s[g][u], L) \in Int
             /\ SumFunctionOnSet(s1[g][u], L) = SumFunctionOnSet(s[g][u], L)
                     + (IF g = f THEN One(u = t /\ l \in L) ELSE 0)
  <2> DEFINE h  == s[g][u]
             h1 == s1[g][u]
             d  == One(g = f /\ u = t)
  <2>1. /\ \A x \in Lats : h[x] \in Int
        /\ h1[l] = h[l] + d /\ \A x \in Lats : x # l => h1[x] = h[x]
    BY <1>5, <1>6
  <2>2. d \in Int OBVIOUS
  <2> HIDE DEF h, h1, d
  <2>3. /\ SumFunctionOnSet(h, L) \in Int
        /\ SumFunctionOnSet(h1, L) = SumFunctionOnSet(h, L) + (IF l \in L THEN d ELSE 0)
    BY <2>1, <2>2, SumAdd
  <2> QED BY <2>3 DEF h, h1, d
<1>10. ASSUME NEW u \in Types, NEW L \in SUBSET Lats
       PROVE  SeenIn(s1, u, L) = SeenIn(s, u, L) + One(u = t /\ l \in L)
  <2> DEFINE h  == [g \in Files |-> SumFunctionOnSet(s[g][u], L)]
             h1 == [g \in Files |-> SumFunctionOnSet(s1[g][u], L)]
             d  == One(u = t /\ l \in L)
  <2>1. DOMAIN h = Files /\ DOMAIN h1 = Files /\ \A g \in Files : h[g] \in Int BY <1>9
  <2>2. h1[f] = h[f] + d /\ \A g \in Files : g # f => h1[g] = h[g] BY <1>9
  <2>3. SeenIn(s, u, L) = SumFunctionOnSet(h, Files)
        /\ SeenIn(s1, u, L) = SumFunctionOnSet(h1, Files)
    BY <2>1 DEF SeenIn, SumFunction
  <2>4. d \in Int OBVIOUS
  <2> HIDE DEF h, h1, d
  <2>5. SumFunctionOnSet(h1, Files) = SumFunctionOnSet(h, Files) + d
    BY <2>1, <2>2, <2>4, SumAddWhole
  <2> QED BY <2>3, <2>5 DEF d
<1>11. ASSUME NEW g \in Files, NEW u \in Types
       PROVE  /\ SumFunction(c[g][u]) \in Int
              /\ SumFunction(c1[g][u]) =
                     SumFunction(c[g][u]) + (IF g = f THEN One(u = t) ELSE 0)
  <2> DEFINE h  == c[g][u]
             h1 == c1[g][u]
             d  == One(g = f /\ u = t)
  <2>1. /\ \A x \in Buckets : h[x] \in Int
        /\ h1[b] = h[b] + d /\ \A x \in Buckets : x # b => h1[x] = h[x]
   
    BY <1>1, <1>4, <1>6
  <2>2. d \in Int /\ DOMAIN h = Buckets /\ DOMAIN h1 = Buckets BY <1>6
  <2> HIDE DEF h, h1, d
  <2>3. /\ SumFunctionOnSet(h, Buckets) \in Int
        /\ SumFunctionOnSet(h1, Buckets) = SumFunctionOnSet(h, Buckets) + d
    BY <1>1, <2>1, <2>2, SumAddWhole
  <2> QED BY <2>2, <2>3 DEF h, h1, d, SumFunction
<1>12. ASSUME NEW u \in Types PROVE AllOf(c1, u) = AllOf(c, u) + One(u = t)
  <2> DEFINE h  == [g \in Files |-> SumFunction(c[g][u])]
             h1 == [g \in Files |-> SumFunction(c1[g][u])]
             d  == One(u = t)
  <2>1. DOMAIN h = Files /\ DOMAIN h1 = Files /\ \A g \in Files : h[g] \in Int BY <1>11
  <2>2. h1[f] = h[f] + d /\ \A g \in Files : g # f => h1[g] = h[g] BY <1>11
  <2>3. AllOf(c, u) = SumFunctionOnSet(h, Files)
        /\ AllOf(c1, u) = SumFunctionOnSet(h1, Files)
    BY <2>1 DEF AllOf, SumFunction
  <2>4. d \in Int OBVIOUS
  <2> HIDE DEF h, h1, d
  <2>5. SumFunctionOnSet(h1, Files) = SumFunctionOnSet(h, Files) + d
    BY <2>1, <2>2, <2>4, SumAddWhole
  <2> QED BY <2>3, <2>5 DEF d
<1>13. Match(c1, s1)
  <2>1. ASSUME NEW u \in Types, NEW B \in SUBSET Buckets
        PROVE  SumFunctionOnSet(Hist(c1, u), B) = SeenIn(s1, u, InBuckets(B))
    <3>1. SumFunctionOnSet(Hist(c, u), B) = SeenIn(s, u, InBuckets(B)) BY DEF Match
    <3>2. InBuckets(B) \in SUBSET Lats /\ (l \in InBuckets(B) <=> b \in B)
      BY DEF InBuckets, b
    <3>3. SeenIn(s1, u, InBuckets(B)) =
              SeenIn(s, u, InBuckets(B)) + One(u = t /\ l \in InBuckets(B))
      BY <1>10, <3>2
    <3>4. One(u = t /\ l \in InBuckets(B)) = IF b \in B THEN One(u = t) ELSE 0 BY <3>2
    <3>5. SumFunctionOnSet(Hist(c1, u), B) =
              SumFunctionOnSet(Hist(c, u), B) + (IF b \in B THEN One(u = t) ELSE 0)
      BY <1>8
    <3> HIDE DEF One
    <3> QED BY <3>1, <3>3, <3>4, <3>5
  <2>2. ASSUME NEW u \in Types PROVE AllOf(c1, u) = SeenIn(s1, u, Lats)
    <3>1. AllOf(c, u) = SeenIn(s, u, Lats) BY DEF Match
    <3>2. SeenIn(s1, u, Lats) = SeenIn(s, u, Lats) + One(u = t /\ l \in Lats) BY <1>10
    <3> QED BY <1>12, <3>1, <3>2
  <2> QED BY <2>1, <2>2 DEF Match
<1>14. ASSUME NEW g \in Files
       PROVE  /\ SumFunction([u \in Types |-> SumFunction(s[g][u])]) \in Int
              /\ SumFunction([u \in Types |-> SumFunction(s1[g][u])]) =
                     SumFunction([u \in Types |-> SumFunction(s[g][u])])
                         + (IF g = f THEN 1 ELSE 0)
  <2> DEFINE h  == [u \in Types |-> SumFunction(s[g][u])]
             h1 == [u \in Types |-> SumFunction(s1[g][u])]
             d  == One(g = f)
  <2>1. DOMAIN h = Types /\ DOMAIN h1 = Types /\ \A u \in Types : h[u] \in Int
    BY <1>6, <1>9 DEF SumFunction
  <2>2. h1[t] = h[t] + d /\ \A u \in Types : u # t => h1[u] = h[u]
    BY <1>6, <1>9 DEF SumFunction
  <2>3. d \in Int OBVIOUS
  <2> HIDE DEF h, h1, d
  <2>4. /\ SumFunctionOnSet(h, Types) \in Int
        /\ SumFunctionOnSet(h1, Types) = SumFunctionOnSet(h, Types) + d
    BY <2>1, <2>2, <2>3, SumAddWhole
  <2>5. SumFunction(h) \in Int /\ SumFunction(h1) = SumFunction(h) + d
    BY <2>1, <2>4 DEF SumFunction
  <2> QED BY <2>5 DEF h, h1, d
<1>15. IosOf(s1) = IosOf(s) + 1
  <2> DEFINE h  == [g \in Files |-> SumFunction([u \in Types |-> SumFunction(s[g][u])])]
             h1 == [g \in Files |-> SumFunction([u \in Types |-> SumFunction(s1[g][u])])]
  <2>1. DOMAIN h = Files /\ DOMAIN h1 = Files /\ \A g \in Files : h[g] \in Int BY <1>14
  <2>2. h1[f] = h[f] + 1 /\ \A g \in Files : g # f => h1[g] = h[g] BY <1>14
  <2>3. IosOf(s) = SumFunctionOnSet(h, Files) /\ IosOf(s1) = SumFunctionOnSet(h1, Files)
    BY <2>1 DEF IosOf, SumFunction
  <2> HIDE DEF h, h1
  <2> QED BY <2>1, <2>2, <2>3, SumAddWhole
<1> QED BY <1>3, <1>13, <1>15

\* No counter is more than the number of I/Os.
LEMMA CountBounds ==
    ASSUME NEW c \in NatCounts, NEW s \in NatSeen, Match(c, s), IosOf(s) <= MaxIos
    PROVE  /\ c \in Counts /\ Totals(c) \in [Files -> [Types -> 0 .. MaxIos]]
           /\ s \in [Files -> [Types -> [Lats -> 0 .. MaxIos]]]
           /\ \A t \in Types : SeenIn(s, t, Lats) \in Nat
<1> USE Constants
<1> DEFINE X(g, u) == SumFunction(s[g][u])
           Y(g) == SumFunction([u \in Types |-> X(g, u)])
<1>1. \A g \in Files, u \in Types :
         /\ DOMAIN c[g][u] = Buckets /\ \A b \in Buckets : c[g][u][b] \in Nat
         /\ DOMAIN s[g][u] = Lats /\ \A l \in Lats : s[g][u][l] \in Nat
  BY DEF NatCounts, NatSeen
<1>2. ASSUME NEW g \in Files, NEW u \in Types
      PROVE  X(g, u) \in Nat /\ \A l \in Lats : s[g][u][l] <= X(g, u)
  BY <1>1, SumNat, SumElement DEF SumFunction
<1> HIDE DEF X
<1>3. ASSUME NEW g \in Files PROVE Y(g) \in Nat /\ \A u \in Types : X(g, u) <= Y(g)
  <2> DEFINE h == [u \in Types |-> X(g, u)]
  <2>1. DOMAIN h = Types /\ \A u \in Types : h[u] \in Nat /\ h[u] = X(g, u) BY <1>2
  <2> HIDE DEF h
  <2>2. SumFunction(h) \in Nat /\ \A u \in Types : X(g, u) <= SumFunction(h)
    BY <2>1, SumNat, SumElement DEF SumFunction
  <2> QED BY <2>2 DEF h
<1>4. IosOf(s) = SumFunctionOnSet([g \in Files |-> Y(g)], Files) BY DEF IosOf, SumFunction, X
<1> HIDE DEF Y
<1>5. IosOf(s) \in Nat /\ \A g \in Files : Y(g) <= IosOf(s)
  <2> DEFINE h == [g \in Files |-> Y(g)]
  <2>1. \A g \in Files : h[g] \in Nat /\ h[g] = Y(g) BY <1>3
  <2> HIDE DEF h
  <2>2. SumFunctionOnSet(h, Files) \in Nat /\ \A g \in Files : Y(g) <= SumFunctionOnSet(h, Files)
    BY <2>1, SumNat, SumElement
  <2> QED BY <1>4, <2>2 DEF h
<1>6. ASSUME NEW u \in Types PROVE SeenIn(s, u, Lats) \in Nat /\ SeenIn(s, u, Lats) <= MaxIos
  <2> DEFINE h == [g \in Files |-> X(g, u)]
             k == [g \in Files |-> Y(g)]
  <2>1. SeenIn(s, u, Lats) = SumFunctionOnSet(h, Files)
    BY <1>1 DEF SeenIn, SumFunction, X
  <2>2. \A g \in Files : h[g] \in Nat /\ k[g] \in Nat /\ h[g] <= k[g] BY <1>2, <1>3
  <2> HIDE DEF h, k
  <2>3. SumFunctionOnSet(h, Files) \in Nat BY <2>2, SumNat
  <2>4. SumFunctionOnSet(h, Files) <= SumFunctionOnSet(k, Files)
    <3>1. \A g \in Files : h[g] \in Int /\ k[g] \in Int /\ h[g] <= k[g] BY <2>2
    <3> QED BY <3>1, SumMonotone
  <2>5. SumFunctionOnSet(k, Files) = IosOf(s) BY <1>4 DEF k
  <2> QED BY <1>5, <2>1, <2>3, <2>4, <2>5
<1>7. ASSUME NEW g \in Files, NEW u \in Types
      PROVE  /\ SumFunction(c[g][u]) \in 0 .. MaxIos
             /\ \A b \in Buckets : c[g][u][b] \in 0 .. MaxIos
  <2> DEFINE h == [f \in Files |-> SumFunction(c[f][u])]
  <2>1. ASSUME NEW f \in Files
        PROVE  SumFunction(c[f][u]) \in Nat
               /\ \A b \in Buckets : c[f][u][b] <= SumFunction(c[f][u])
    BY <1>1, SumNat, SumElement DEF SumFunction
  <2>2. \A f \in Files : h[f] \in Nat /\ h[f] = SumFunction(c[f][u]) BY <2>1
  <2>3. AllOf(c, u) = SumFunctionOnSet(h, Files) BY DEF AllOf, SumFunction
  <2> HIDE DEF h
  <2>4. h[g] <= SumFunctionOnSet(h, Files) BY <2>2, SumElement
  <2>5. AllOf(c, u) = SeenIn(s, u, Lats) BY DEF Match
  <2>6. SumFunction(c[g][u]) \in 0 .. MaxIos BY <1>6, <2>2, <2>3, <2>4, <2>5
  <2>7. ASSUME NEW b \in Buckets PROVE c[g][u][b] \in 0 .. MaxIos
    <3>1. c[g][u][b] \in Nat /\ c[g][u][b] <= SumFunction(c[g][u]) BY <1>1, <2>1
    <3> QED BY <2>6, <3>1
  <2> QED BY <2>6, <2>7
<1>8. ASSUME NEW g \in Files, NEW u \in Types, NEW l \in Lats
      PROVE  s[g][u][l] \in 0 .. MaxIos
  <2>1. s[g][u][l] \in Nat /\ s[g][u][l] <= X(g, u) /\ X(g, u) \in Nat BY <1>1, <1>2
  <2>2. X(g, u) <= Y(g) /\ Y(g) \in Nat /\ Y(g) <= IosOf(s) BY <1>3, <1>5
  <2> QED BY <1>5, <2>1, <2>2
<1>9. c \in Counts
  <2> HIDE DEF Buckets
  <2>1. \A g \in Files, u \in Types : c[g][u] \in [Buckets -> 0 .. MaxIos]
    BY <1>7 DEF NatCounts
  <2> QED BY <2>1 DEF Counts, NatCounts
<1>10. s \in [Files -> [Types -> [Lats -> 0 .. MaxIos]]]
  <2>1. \A g \in Files, u \in Types : s[g][u] \in [Lats -> 0 .. MaxIos]
    BY <1>8 DEF NatSeen
  <2> QED BY <2>1 DEF NatSeen
<1>11. Totals(c) \in [Files -> [Types -> 0 .. MaxIos]] BY <1>7 DEF Totals
<1> QED BY <1>6, <1>9, <1>10, <1>11

-----------------------------------------------------------------------------
(***************************************************************************)
(* What is printed.                                                        *)
(***************************************************************************)
LEMMA PrintbucketsType ==
    ASSUME NEW v \in Values, NEW use
    PROVE  Printbuckets(v, use) \in Values
<1>1. ASSUME NEW j \in DOMAIN Parts, NEW t \in Types, NEW hist, NEW enough
      PROVE  Percentile(v[j][t], hist, enough) \in 0 .. NBuckets * LatDiv
  <2>1. v[j][t] \in 0 .. NBuckets * LatDiv BY DEF Values
  <2> QED BY <2>1, PercentileType
<1> QED BY <1>1 DEF Printbuckets, Values

\* The fold over the files as an equation about the sets F of files.
Printed(g, v, use, F) ==
    g = [s \in F |-> IF s = {} THEN v
                     ELSE Printbuckets(g[s \ {Max(s)}], Of(use, Max(s)))]

LEMMA MaxFile ==
    ASSUME NEW s \in SUBSET Files, s # {}
    PROVE  /\ Max(s) \in s /\ Max(s) \in Files
           /\ Cardinality(s) \in Nat /\ Cardinality(s \ {Max(s)}) \in Nat
           /\ Cardinality(s) = Cardinality(s \ {Max(s)}) + 1
<1>1. IsFiniteSet(s) BY Constants, FS_Subset
<1>2. s \subseteq Int BY Constants DEF Files
<1>3. Max(s) \in s BY <1>1, <1>2, MaxIs
<1>4. IsFiniteSet(s \ {Max(s)}) /\ Cardinality(s \ {Max(s)}) = Cardinality(s) - 1
  BY <1>1, <1>3, FS_RemoveElement
<1> QED BY <1>1, <1>3, <1>4, FS_CardinalityType

LEMMA PrintedExists ==
    ASSUME NEW v, NEW use
    PROVE  \E g : Printed(g, v, use, SUBSET Files)
<1> DEFINE Upto(n) == {s \in SUBSET Files : Cardinality(s) <= n}
           Q == {n \in Nat : \E g : Printed(g, v, use, Upto(n))}
<1>1. \A s \in SUBSET Files : IsFiniteSet(s) /\ Cardinality(s) \in Nat
  BY Constants, FS_Subset, FS_CardinalityType
<1>2. 0 \in Q
  <2>1. \A s \in Upto(0) : s = {} BY <1>1, FS_EmptySet
  <2>2. Printed([s \in Upto(0) |-> v], v, use, Upto(0)) BY <2>1 DEF Printed
  <2> QED BY <2>2
<1>3. ASSUME NEW n \in Nat, n \in Q PROVE n + 1 \in Q
  <2>1. PICK g : Printed(g, v, use, Upto(n)) BY <1>3
  <2> DEFINE h == [s \in Upto(n + 1) |-> IF s = {} THEN v
                       ELSE Printbuckets(g[s \ {Max(s)}], Of(use, Max(s)))]
  <2>2. ASSUME NEW s \in Upto(n + 1), s # {}
        PROVE  s \ {Max(s)} \in Upto(n)
    BY <2>2, MaxFile
  <2>3. ASSUME NEW s \in Upto(n) PROVE h[s] = g[s]
    <3>1. s \in Upto(n + 1) BY <1>1
    <3>2. g[s] = IF s = {} THEN v ELSE Printbuckets(g[s \ {Max(s)}], Of(use, Max(s)))
      BY <2>1 DEF Printed
    <3> QED BY <3>1, <3>2
  <2>4. ASSUME NEW s \in Upto(n + 1)
        PROVE  h[s] = IF s = {} THEN v ELSE Printbuckets(h[s \ {Max(s)}], Of(use, Max(s)))
    BY <2>2, <2>3
  <2>5. Printed(h, v, use, Upto(n + 1))
    <3>1. h = [s \in Upto(n + 1) |-> h[s]] OBVIOUS
    <3> HIDE DEF h
    <3> QED BY <2>4, <3>1 DEF Printed
  <2>6. \E k : Printed(k, v, use, Upto(n + 1))
    <3> HIDE DEF h, Upto
    <3> QED BY <2>5
  <2> HIDE DEF Upto
  <2> QED BY <2>6
<1>4. Cardinality(Files) \in Nat BY <1>1
<1>5. Cardinality(Files) \in Q
  <2> HIDE DEF Q
  <2> QED BY <1>2, <1>3, <1>4, NaturalInduction
<1>6. Upto(Cardinality(Files)) = SUBSET Files BY Constants, FS_Subset
<1> QED BY <1>5, <1>6

\* The files leave values of the right kind behind.
LEMMA PrintFilesType ==
    ASSUME NEW v \in Values, NEW use
    PROVE  PrintFiles(v, use) \in Values
<1>1. CASE ~Verbose BY <1>1 DEF PrintFiles
<1>2. CASE Verbose
  <2> DEFINE g == CHOOSE x : Printed(x, v, use, SUBSET Files)
  <2>1. Printed(g, v, use, SUBSET Files) BY PrintedExists
  <2>2. PrintFiles(v, use) = g[Files]
    <3>1. DOMAIN [f \in Files |-> f] = Files OBVIOUS
    <3>2. \A x : Printed(x, v, use, SUBSET Files) <=>
              x = [s \in SUBSET Files |-> IF s = {} THEN v
                     ELSE Printbuckets(x[s \ {Max(s)}], Of(use, [f \in Files |-> f][Max(s)]))]
      BY MaxFile DEF Printed
    <3> DEFINE Def(x) ==
            x = [s \in SUBSET Files |-> IF s = {} THEN v
                   ELSE Printbuckets(x[s \ {Max(s)}], Of(use, [f \in Files |-> f][Max(s)]))]
    <3>3. PrintFiles(v, use) = (CHOOSE x : Def(x))[Files]
      BY <1>2, <3>1 DEF PrintFiles, FoldLeft, MapThenFoldSet
    <3>4. \A x : Printed(x, v, use, SUBSET Files) <=> Def(x) BY <3>2
    <3> HIDE DEF Def
    <3>5. (CHOOSE x : Def(x)) = g BY <3>4
    <3> QED BY <3>3, <3>5
  <2> HIDE DEF g
  <2>3. \A s \in SUBSET Files :
           g[s] = IF s = {} THEN v ELSE Printbuckets(g[s \ {Max(s)}], Of(use, Max(s)))
    BY <2>1 DEF Printed
  <2> DEFINE Q == {n \in Nat : \A s \in SUBSET Files : Cardinality(s) = n => g[s] \in Values}
  <2>4. 0 \in Q
    <3>1. ASSUME NEW s \in SUBSET Files, Cardinality(s) = 0 PROVE g[s] \in Values
      <4>1. s = {} BY <3>1, Constants, FS_Subset, FS_EmptySet
      <4> QED BY <2>3, <4>1
    <3> QED BY <3>1
  <2>5. ASSUME NEW n \in Nat, n \in Q PROVE n + 1 \in Q
    <3>1. ASSUME NEW s \in SUBSET Files, Cardinality(s) = n + 1 PROVE g[s] \in Values
      <4>1. s # {} BY <3>1, FS_EmptySet
      <4>2. Cardinality(s \ {Max(s)}) = n BY <3>1, <4>1, MaxFile
      <4>3. g[s \ {Max(s)}] \in Values BY <2>5, <4>2
      <4> QED BY <2>3, <4>1, <4>3, PrintbucketsType
    <3> QED BY <3>1
  <2>6. Cardinality(Files) \in Nat BY Constants, FS_CardinalityType
  <2>7. Cardinality(Files) \in Q
    <3> HIDE DEF Q
    <3> QED BY <2>4, <2>5, <2>6, NaturalInduction
  <2> QED BY <2>2, <2>7
<1> QED BY <1>1, <1>2, LatencyAssumption

\* The value shown is the end of a bucket: enough of the I/Os seen are in it or in
\* those before it, and not enough in those before it.
Exact(s, j, t, value) ==
    \E m \in Buckets :
        /\ value = (m + 1) * LatDiv
        /\ Parts[j] * SeenIn(s, t, InBuckets(0 .. m)) >= (Parts[j] - 1) * SeenIn(s, t, Lats)
        /\ ~(Parts[j] * SeenIn(s, t, InBuckets(0 .. m - 1))
                 >= (Parts[j] - 1) * SeenIn(s, t, Lats))

LEMMA SummaryExact ==
    ASSUME NEW c \in NatCounts, NEW s \in NatSeen, Match(c, s), NEW v,
           NEW t \in Types, SeenIn(s, t, Lats) \in Nat, SeenIn(s, t, Lats) # 0,
           NEW j \in DOMAIN Parts
    PROVE  Exact(s, j, t,
               Printbuckets(v, Systot([buckets |-> c, totals |-> Totals(c)]))[j][t])
<1> USE Constants
<1> DEFINE use == [buckets |-> c, totals |-> Totals(c)]
           n == SeenIn(s, t, Lats)
           hist == Hist(c, t)
<1>1. Systot(use).buckets[t] = hist BY DEF Systot, Hist
<1>2. Systot(use).totals[t] = n
  <2>1. Systot(use).totals[t] = SumFunction([f \in Files |-> Totals(c)[f][t]]) BY DEF Systot
  <2>2. [f \in Files |-> Totals(c)[f][t]] = [f \in Files |-> SumFunction(c[f][t])]
    BY DEF Totals
  <2>3. AllOf(c, t) = n BY DEF Match
  <2> QED BY <2>1, <2>2, <2>3 DEF AllOf
<1>3. Printbuckets(v, Systot(use))[j][t] = Percentile(v[j][t], hist, Enough(n, Parts[j]))
  BY <1>1, <1>2 DEF Printbuckets
<1>4. ASSUME NEW b \in Buckets PROVE hist[b] \in Nat
  <2> DEFINE h == [f \in Files |-> c[f][t][b]]
  <2>1. DOMAIN h = Files /\ \A f \in Files : h[f] \in Nat BY DEF NatCounts
  <2> HIDE DEF h
  <2>2. SumFunction(h) \in Nat BY <2>1, SumNat DEF SumFunction
  <2> QED BY <2>2 DEF Hist, h
<1>5. \A B \in SUBSET Buckets : SumFunctionOnSet(hist, B) = SeenIn(s, t, InBuckets(B))
  BY DEF Match
<1>6. InBuckets(Buckets) = Lats BY BucketIs DEF InBuckets
<1>7. n = SumFunctionOnSet(hist, Buckets) BY <1>5, <1>6
<1>8. n \in Nat /\ n >= 1 /\ Parts[j] \in Nat /\ Parts[j] >= 2 OBVIOUS
<1> HIDE DEF hist, n
<1>9. PICK m \in Buckets :
         /\ Percentile(v[j][t], hist, Enough(n, Parts[j])) = (m + 1) * LatDiv
         /\ Parts[j] * SumFunctionOnSet(hist, 0 .. m) >= (Parts[j] - 1) * n
         /\ ~(Parts[j] * SumFunctionOnSet(hist, 0 .. m - 1) >= (Parts[j] - 1) * n)
  BY <1>4, <1>7, <1>8, PercentileIs
<1>10. 0 .. m \in SUBSET Buckets /\ 0 .. m - 1 \in SUBSET Buckets BY DEF Buckets
<1> QED BY <1>3, <1>5, <1>9, <1>10 DEF Exact, n

\* The I/Os below the end of a bucket are those in it and in the ones before it.
LEMMA BelowIs ==
    ASSUME NEW t \in Types, NEW m \in Buckets
    PROVE  /\ Below(t, (m + 1) * LatDiv) = SeenIn(seen, t, InBuckets(0 .. m))
           /\ Below(t, m * LatDiv) = SeenIn(seen, t, InBuckets(0 .. m - 1))
<1> USE Constants
<1> DEFINE L(v) == {l \in Lats : l < v \/ v = NBuckets * LatDiv}
<1>1. \A v : Below(t, v) = SeenIn(seen, t, L(v)) BY DEF Below, SeenIn
<1>2. ASSUME NEW k \in Buckets PROVE L((k + 1) * LatDiv) = InBuckets(0 .. k)
  <2>1. ASSUME NEW l \in Lats
        PROVE  Bucket(l) \in 0 .. k <=> l < (k + 1) * LatDiv \/ (k + 1) * LatDiv = NBuckets * LatDiv
    <3>1. Bucket(l) \in Buckets BY BucketIs
    <3>2. Bucket(l) \in 0 .. k <=> Bucket(l) <= k BY <3>1 DEF Buckets
    <3> QED BY <3>2, BucketIs
  <2> QED BY <2>1 DEF InBuckets
<1>3. L(m * LatDiv) = InBuckets(0 .. m - 1)
  <2>1. CASE m = 0
    <3>1. m * LatDiv = 0 /\ 0 .. m - 1 = {} BY <2>1
    <3>2. NBuckets * LatDiv # 0
      <4>1. 1 * LatDiv <= NBuckets * LatDiv BY ProductMonotone
      <4> QED BY <4>1
    <3>3. L(m * LatDiv) = {} BY <3>1, <3>2
    <3> QED BY <3>1, <3>3 DEF InBuckets
  <2>2. CASE m # 0
    <3>1. m - 1 \in Buckets /\ (m - 1) + 1 = m BY <2>2 DEF Buckets
    <3> QED BY <1>2, <3>1
  <2> QED BY <2>1, <2>2
<1> QED BY <1>1, <1>2, <1>3

-----------------------------------------------------------------------------
(***************************************************************************)
(* The invariant: while a round goes on the counters match what has been   *)
(* seen, and what a summary has shown is exact.                            *)
(***************************************************************************)
ShownExact ==
    Summed => \A j \in DOMAIN Parts, t \in Types :
        SeenIn(seen, t, Lats) # 0 => Exact(seen, j, t, shown[j][t])

IInv ==
    /\ TypeOK
    /\ IosOf(seen) <= MaxIos
    /\ IF phase = "report" THEN cur = Clear ELSE Match(cur, seen)
    /\ phase = "status" =>
          \A f \in Files, t \in Types, b \in Buckets : sum[f][t][b] <= cur[f][t][b]
    /\ ShownExact
    /\ phase = "report" => \A t \in Types : shown[HaltAt][t] <= MaxLatency
    /\ phase = "halted" => \E t \in Types : shown[HaltAt][t] > MaxLatency

LEMMA TypeNat == TypeOK => cur \in NatCounts /\ seen \in NatSeen
<1> SUFFICES ASSUME TypeOK PROVE cur \in NatCounts /\ seen \in NatSeen OBVIOUS
<1>1. MaxIos \in Nat BY Constants
<1>2. cur \in NatCounts
  <2> HIDE DEF Buckets
  <2>1. \A f \in Files, t \in Types : cur[f][t] \in [Buckets -> 0 .. MaxIos]
    BY DEF TypeOK, Counts
  <2>2. \A f \in Files, t \in Types : cur[f][t] \in [Buckets -> Nat] BY <1>1, <2>1
  <2>3. cur = [f \in Files |-> cur[f]]
        /\ \A f \in Files : cur[f] = [t \in Types |-> cur[f][t]]
    BY DEF TypeOK, Counts
  <2> QED BY <2>2, <2>3 DEF NatCounts
<1>3. seen \in NatSeen
  <2>1. \A f \in Files, t \in Types : seen[f][t] \in [Lats -> 0 .. MaxIos] BY DEF TypeOK
  <2>2. \A f \in Files, t \in Types : seen[f][t] \in [Lats -> Nat] BY <1>1, <2>1
  <2>3. seen = [f \in Files |-> seen[f]]
        /\ \A f \in Files : seen[f] = [t \in Types |-> seen[f][t]]
    BY DEF TypeOK
  <2> QED BY <2>2, <2>3 DEF NatSeen
<1> QED BY <1>2, <1>3

LEMMA ClearType == Clear \in Counts /\ Nothing \in [buckets : Counts, totals : [Files -> [Types -> 0 .. MaxIos]]]
<1>1. 0 \in 0 .. MaxIos BY Constants
<1>2. Clear \in Counts
  <2> HIDE DEF Buckets
  <2> QED BY <1>1 DEF Clear, Counts
<1>3. NoTotals \in [Files -> [Types -> 0 .. MaxIos]] BY <1>1 DEF NoTotals
<1> QED BY <1>2, <1>3 DEF Nothing

LEMMA InvInit == Init => IInv
<1> SUFFICES ASSUME Init PROVE IInv OBVIOUS
<1> USE DEF Init
<1>1. Match(cur, seen) /\ IosOf(seen) <= MaxIos /\ cur \in NatCounts /\ seen \in NatSeen
  BY ClearMatches, Constants
<1>2. seen \in [Files -> [Types -> [Lats -> 0 .. MaxIos]]] BY <1>1, CountBounds
<1>3. NoValues \in Values
  <2>1. 0 \in 0 .. NBuckets * LatDiv
    <3>1. NBuckets * LatDiv \in Nat BY Constants, ProductMonotone
    <3> QED BY <3>1
  <2> QED BY <2>1 DEF NoValues, Values
<1>4. \A f \in Files, t \in Types, b \in Buckets : last.buckets[f][t][b] <= cur[f][t][b]
  BY DEF Nothing, Clear
<1>5. phase = "round" /\ round \in 1 .. NRounds /\ latency_flag \in 0 .. 2
  BY LatencyAssumption
<1>6. TypeOK BY <1>2, <1>3, <1>4, <1>5, ClearType DEF TypeOK
<1> QED BY <1>1, <1>5, <1>6 DEF IInv, ShownExact, Summed

LEMMA IoStep ==
    ASSUME IInv, Io
    PROVE  IInv'
<1>1. PICK f \in Files, t \in Types, l \in Lats :
         /\ cur' = [cur EXCEPT ![f][t][Bucket(l)] = @ + 1]
         /\ seen' = [seen EXCEPT ![f][t][l] = @ + 1]
  BY DEF Io
<1>2. /\ phase \in {"round", "status"} /\ phase' = phase /\ IosOf(seen) < MaxIos
      /\ UNCHANGED <<round, sum, last, pctval, latency_flag, shown>>
  BY DEF Io, Ios, IosOf
<1>3. TypeOK /\ Match(cur, seen) BY <1>2 DEF IInv
<1>4. cur \in NatCounts /\ seen \in NatSeen BY <1>3, TypeNat
<1>5. /\ cur' \in NatCounts /\ seen' \in NatSeen /\ Match(cur', seen')
      /\ IosOf(seen') = IosOf(seen) + 1
  <2>1. Counted(cur, seen, f, t, l, cur', seen') BY <1>1 DEF Counted
  <2> QED BY <1>3, <1>4, <2>1, CountMatches
<1>6. IosOf(seen) \in Int
  <2>1. \A g \in Files, u \in Types :
           DOMAIN seen[g][u] = Lats /\ \A x \in Lats : seen[g][u][x] \in Int
    BY <1>4 DEF NatSeen
  <2>2. ASSUME NEW g \in Files, NEW u \in Types PROVE SumFunction(seen[g][u]) \in Int
    BY <2>1, Constants, SumInt DEF SumFunction
  <2>3. ASSUME NEW g \in Files
        PROVE  SumFunction([u \in Types |-> SumFunction(seen[g][u])]) \in Int
    <3> DEFINE h == [u \in Types |-> SumFunction(seen[g][u])]
    <3>1. DOMAIN h = Types /\ \A u \in Types : h[u] \in Int BY <2>2
    <3> HIDE DEF h
    <3>2. SumFunction(h) \in Int BY <3>1, Constants, SumInt DEF SumFunction
    <3> QED BY <3>2 DEF h
  <2> DEFINE k == [g \in Files |-> SumFunction([u \in Types |-> SumFunction(seen[g][u])])]
  <2>4. DOMAIN k = Files /\ \A g \in Files : k[g] \in Int BY <2>3
  <2> HIDE DEF k
  <2>5. SumFunction(k) \in Int BY <2>4, Constants, SumInt DEF SumFunction
  <2> QED BY <2>5 DEF IosOf, k
<1>7. IosOf(seen') <= MaxIos BY <1>2, <1>5, <1>6, Constants
<1>8. cur' \in Counts /\ seen' \in [Files -> [Types -> [Lats -> 0 .. MaxIos]]]
  BY <1>5, <1>7, CountBounds
<1>9. ASSUME NEW g \in Files, NEW u \in Types, NEW b \in Buckets
      PROVE  cur[g][u][b] \in Nat /\ cur'[g][u][b] \in Nat /\ cur[g][u][b] <= cur'[g][u][b]
  <2>1. cur[g][u][b] \in Nat /\ cur'[g][u][b] \in Nat BY <1>4, <1>5 DEF NatCounts
  <2>2. Bucket(l) \in Buckets BY Constants, BucketIs
  <2> DEFINE x == Bucket(l)
  <2>3. cur' = [cur EXCEPT ![f][t][x] = @ + 1] BY <1>1
  <2> HIDE DEF x
  <2>4. cur'[g][u][b] = cur[g][u][b] + (IF g = f /\ u = t /\ b = x THEN 1 ELSE 0)
    BY <1>4, <2>1, <2>3 DEF NatCounts
  <2> QED BY <2>1, <2>4
<1>10. \A g \in Files, u \in Types, b \in Buckets : last.buckets[g][u][b] <= cur'[g][u][b]
  <2>1. ASSUME NEW g \in Files, NEW u \in Types, NEW b \in Buckets
        PROVE  last.buckets[g][u][b] <= cur'[g][u][b]
    <3>1. last.buckets \in Counts BY <1>3 DEF TypeOK
    <3>2. last.buckets[g][u][b] \in 0 .. MaxIos BY <3>1 DEF Counts
    <3>3. last.buckets[g][u][b] <= cur[g][u][b] BY <1>3 DEF TypeOK
    <3> QED BY <1>9, <3>2, <3>3, Constants
  <2> QED BY <2>1
<1>11. phase = "status" =>
          \A g \in Files, u \in Types, b \in Buckets : sum[g][u][b] <= cur'[g][u][b]
  <2>1. ASSUME phase = "status", NEW g \in Files, NEW u \in Types, NEW b \in Buckets
        PROVE  sum[g][u][b] <= cur'[g][u][b]
    <3>1. sum \in Counts BY <1>3 DEF TypeOK
    <3>2. sum[g][u][b] \in 0 .. MaxIos BY <3>1 DEF Counts
    <3>3. sum[g][u][b] <= cur[g][u][b] BY <2>1 DEF IInv
    <3> QED BY <1>9, <3>2, <3>3, Constants
  <2> QED BY <2>1
<1>12. TypeOK' BY <1>2, <1>3, <1>8, <1>10 DEF TypeOK, Counts, Values
<1> QED BY <1>2, <1>5, <1>7, <1>11, <1>12 DEF IInv, Match, ShownExact, Summed, IosOf

LEMMA StatusSumStep ==
    ASSUME IInv, StatusSum
    PROVE  IInv'
<1>1. /\ phase = "round" /\ phase' = "status" /\ sum' = cur
      /\ UNCHANGED <<round, cur, last, pctval, latency_flag, seen, shown>>
  BY DEF StatusSum
<1>2. TypeOK /\ Match(cur, seen) BY <1>1 DEF IInv
<1>3. \A f \in Files, t \in Types, b \in Buckets : cur[f][t][b] \in Nat
  BY <1>2, TypeNat DEF NatCounts
<1>4. \A f \in Files, t \in Types, b \in Buckets : sum'[f][t][b] <= cur'[f][t][b]
  BY <1>1, <1>3
<1>5. TypeOK' BY <1>1, <1>2 DEF TypeOK, Counts, Values
<1> QED BY <1>1, <1>2, <1>4, <1>5 DEF IInv, Match, ShownExact, Summed, IosOf

\* What the printing of the counters leaves behind.
LEMMA OutputTimesIs ==
    ASSUME TypeOK, NEW use, NEW flag \in 0 .. 2, OutputTimes(use, flag)
    PROVE  /\ pctval' \in Values /\ shown' \in Values /\ latency_flag' \in 0 .. 2
           /\ shown' = Printbuckets(pctval, Systot(use))
           /\ flag = 0 => (latency_flag' = 0 <=>
                              \A t \in Types : shown'[HaltAt][t] <= MaxLatency)
<1> DEFINE all == Printbuckets(pctval, Systot(use))
<1>1. pctval \in Values BY DEF TypeOK
<1>2. all \in Values BY <1>1, PrintbucketsType
<1>3. /\ latency_flag' = Flag(all, flag) /\ pctval' = PrintFiles(all, use) /\ shown' = all
  BY DEF OutputTimes
<1> HIDE DEF all
<1>4. PrintFiles(all, use) \in Values BY <1>2, PrintFilesType
<1>5. \A t \in Types : all[HaltAt][t] \in Int BY <1>2, Constants DEF Values
<1>6. "read" \in Types /\ "write" \in Types /\ \A t \in Types : t = "read" \/ t = "write"
  BY DEF Types
<1>7. flag = 0 => (Flag(all, flag) = 0 <=> \A t \in Types : all[HaltAt][t] <= MaxLatency)
  <2>1. all[HaltAt]["read"] \in Int /\ all[HaltAt]["write"] \in Int /\ MaxLatency \in Int
    BY <1>5, <1>6, Constants
  <2>2. (\A t \in Types : all[HaltAt][t] <= MaxLatency) <=>
            all[HaltAt]["read"] <= MaxLatency /\ all[HaltAt]["write"] <= MaxLatency
    BY <1>6
  <2> QED BY <2>1, <2>2 DEF Flag
<1>8. Flag(all, flag) \in 0 .. 2 BY DEF Flag
<1> QED BY <1>2, <1>3, <1>4, <1>7, <1>8 DEF all

LEMMA StatusLineStep ==
    ASSUME IInv, StatusLine
    PROVE  IInv'
<1> DEFINE now == [buckets |-> sum, totals |-> Totals(cur)]
<1>1. /\ phase = "status" /\ phase' = "round" /\ OutputTimes(Diff(now, last), latency_flag)
      /\ last' = now /\ sum' = Clear /\ UNCHANGED <<round, cur, seen>>
  BY DEF StatusLine
<1>2. TypeOK /\ Match(cur, seen) /\ IosOf(seen) <= MaxIos BY <1>1 DEF IInv
<1>3. cur \in NatCounts /\ seen \in NatSeen BY <1>2, TypeNat
<1>4. Totals(cur) \in [Files -> [Types -> 0 .. MaxIos]] BY <1>2, <1>3, CountBounds
<1>5. sum \in Counts /\ latency_flag \in 0 .. 2 BY <1>2 DEF TypeOK
<1>6. now \in [buckets : Counts, totals : [Files -> [Types -> 0 .. MaxIos]]]
  BY <1>4, <1>5
<1>7. pctval' \in Values /\ shown' \in Values /\ latency_flag' \in 0 .. 2
  BY <1>1, <1>2, <1>5, OutputTimesIs
<1>8. \A f \in Files, t \in Types, b \in Buckets : last'.buckets[f][t][b] <= cur[f][t][b]
  BY <1>1 DEF IInv
<1> HIDE DEF now
<1>9. TypeOK'
  BY <1>1, <1>2, <1>6, <1>7, <1>8, ClearType DEF TypeOK, Counts, Values
<1> QED BY <1>1, <1>2, <1>9 DEF IInv, Match, ShownExact, Summed, IosOf

LEMMA SummaryStep ==
    ASSUME IInv, Summary
    PROVE  IInv'
<1> DEFINE use == [buckets |-> cur, totals |-> Totals(cur)]
<1>1. /\ phase = "round" /\ OutputTimes(use, 0) /\ HaltsOrGoesOn /\ UNCHANGED <<round, seen>>
  BY DEF Summary
<1>2. TypeOK /\ Match(cur, seen) /\ IosOf(seen) <= MaxIos BY <1>1 DEF IInv
<1>3. cur \in NatCounts /\ seen \in NatSeen BY <1>2, TypeNat
<1>4. \A t \in Types : SeenIn(seen, t, Lats) \in Nat BY <1>2, <1>3, CountBounds
<1>5. /\ pctval' \in Values /\ shown' \in Values /\ latency_flag' \in 0 .. 2
      /\ shown' = Printbuckets(pctval, Systot(use))
      /\ latency_flag' = 0 <=> \A t \in Types : shown'[HaltAt][t] <= MaxLatency
  BY <1>1, <1>2, OutputTimesIs
<1>6. \A j \in DOMAIN Parts, t \in Types :
         SeenIn(seen, t, Lats) # 0 => Exact(seen, j, t, shown'[j][t])
  BY <1>2, <1>3, <1>4, <1>5, SummaryExact
<1>7. ShownExact'
  BY <1>1, <1>6 DEF ShownExact
<1> HIDE DEF use
<1>8. CASE latency_flag' # 0
  <2>1. phase' = "halted" /\ UNCHANGED counters BY <1>1, <1>8 DEF HaltsOrGoesOn
  <2>2. \E t \in Types : shown'[HaltAt][t] > MaxLatency
    <3>1. \A t \in Types : shown'[HaltAt][t] \in Int BY <1>5, Constants DEF Values
    <3> QED BY <1>5, <1>8, <3>1, Constants
  <2>3. TypeOK' BY <1>1, <1>2, <1>5, <2>1 DEF TypeOK, counters, Counts, Values
  <2> QED BY <1>1, <1>2, <1>7, <2>1, <2>2, <2>3 DEF IInv, counters, Match, IosOf
<1>9. CASE latency_flag' = 0
  <2>1. phase' = "report" /\ cur' = Clear /\ last' = Nothing /\ UNCHANGED sum
    BY <1>1, <1>9 DEF HaltsOrGoesOn
  <2>2. \A f \in Files, t \in Types, b \in Buckets : last'.buckets[f][t][b] <= cur'[f][t][b]
    BY <2>1 DEF Nothing, Clear
  <2>3. TypeOK'
    BY <1>1, <1>2, <1>5, <2>1, <2>2, ClearType DEF TypeOK, Counts, Values
  <2> QED BY <1>1, <1>2, <1>5, <1>7, <1>9, <2>1, <2>3 DEF IInv, IosOf
<1> QED BY <1>8, <1>9

LEMMA NextRoundStep ==
    ASSUME IInv, NextRound
    PROVE  IInv'
<1>1. /\ phase = "report" /\ seen' = NoneSeen /\ shown' = NoValues
      /\ IF round < NRounds THEN phase' = "round" /\ round' = round + 1
         ELSE phase' = "done" /\ UNCHANGED round
      /\ UNCHANGED <<cur, sum, last, pctval, latency_flag>>
  BY DEF NextRound, counters
<1>2. TypeOK /\ cur = Clear BY <1>1 DEF IInv
<1>3. Match(cur', seen') /\ IosOf(seen') <= MaxIos /\ seen' \in NatSeen /\ cur' \in NatCounts
  BY <1>1, <1>2, ClearMatches, Constants
<1>4. seen' \in [Files -> [Types -> [Lats -> 0 .. MaxIos]]] BY <1>3, CountBounds
<1>5. shown' \in Values
  <2>1. 0 \in 0 .. NBuckets * LatDiv
    <3>1. NBuckets * LatDiv \in Nat BY Constants, ProductMonotone
    <3> QED BY <3>1
  <2> QED BY <1>1, <2>1 DEF NoValues, Values
<1>6. phase' \in {"round", "done"} /\ round' \in 1 .. NRounds
  <2>1. round \in 1 .. NRounds /\ NRounds \in Nat BY <1>2, LatencyAssumption DEF TypeOK
  <2> QED BY <1>1, <2>1
<1>7. TypeOK' BY <1>1, <1>2, <1>4, <1>5, <1>6 DEF TypeOK, Counts, Values
<1> QED BY <1>1, <1>3, <1>6, <1>7 DEF IInv, Match, ShownExact, Summed, IosOf

LEMMA InvStep == IInv /\ [Next]_vars => IInv'
<1> SUFFICES ASSUME IInv, [Next]_vars PROVE IInv' OBVIOUS
<1>1. CASE UNCHANGED vars
  <2>1. UNCHANGED <<phase, round, cur, sum, last, pctval, latency_flag, seen, shown>>
    BY <1>1 DEF vars, counters
  <2>2. TypeOK' BY <2>1 DEF IInv, TypeOK, Counts, Values
  <2>3. ShownExact' BY <2>1 DEF IInv, ShownExact, Summed
  <2> QED BY <2>1, <2>2, <2>3 DEF IInv, Match, IosOf
<1> QED BY <1>1, IoStep, StatusSumStep, StatusLineStep, SummaryStep, NextRoundStep
  DEF Next, Ended

THEOREM Invariant == Spec => []IInv
<1>1. Init => IInv BY InvInit
<1>2. IInv /\ [Next]_vars => IInv' BY InvStep
<1> QED BY <1>1, <1>2, PTL DEF Spec

-----------------------------------------------------------------------------
(***************************************************************************)
(* The properties.                                                         *)
(***************************************************************************)
LEMMA NumberIs ==
    ASSUME NEW t \in Types
    PROVE  Number(t) = SeenIn(seen, t, Lats)
<1> USE Constants
<1>1. NBuckets - 1 \in Buckets /\ (NBuckets - 1) + 1 = NBuckets
      /\ 0 .. NBuckets - 1 = Buckets
  BY DEF Buckets
<1>2. Number(t) = SeenIn(seen, t, InBuckets(Buckets)) BY <1>1, BelowIs DEF Number
<1>3. InBuckets(Buckets) = Lats BY BucketIs DEF InBuckets
<1> QED BY <1>2, <1>3

\* The counters of a type never count more than the I/Os, and a percentile that was
\* printed is the end of a bucket.
THEOREM TypeCorrect == Spec => []TypeOK
<1>1. IInv => TypeOK BY DEF IInv
<1> QED BY <1>1, Invariant, PTL

LEMMA RightShown ==
    ASSUME IInv, Summed, NEW j \in DOMAIN Parts, NEW t \in Types, Number(t) # 0
    PROVE  /\ Most(t, Parts[j], shown[j][t])
           /\ ~Most(t, Parts[j], shown[j][t] - LatDiv)
<1>1. Number(t) = SeenIn(seen, t, Lats) BY NumberIs
<1>2. Exact(seen, j, t, shown[j][t]) BY <1>1 DEF IInv, ShownExact
<1>3. PICK m \in Buckets :
         /\ shown[j][t] = (m + 1) * LatDiv
         /\ Parts[j] * SeenIn(seen, t, InBuckets(0 .. m)) >= (Parts[j] - 1) * Number(t)
         /\ ~(Parts[j] * SeenIn(seen, t, InBuckets(0 .. m - 1))
                  >= (Parts[j] - 1) * Number(t))
  BY <1>1, <1>2 DEF Exact
<1>4. shown[j][t] - LatDiv = m * LatDiv
  <2>1. m \in Nat /\ LatDiv \in Nat BY Constants DEF Buckets
  <2>2. (m + 1) * LatDiv = m * LatDiv + LatDiv /\ m * LatDiv \in Nat BY <2>1
  <2> QED BY <1>3, <2>1, <2>2
<1>5. /\ Below(t, shown[j][t]) = SeenIn(seen, t, InBuckets(0 .. m))
      /\ Below(t, shown[j][t] - LatDiv) = SeenIn(seen, t, InBuckets(0 .. m - 1))
  BY <1>3, <1>4, BelowIs
<1> QED BY <1>3, <1>5 DEF Most

\* The percentiles of a summary are those of the I/Os of its round.
THEOREM Percentiles == Spec => []PercentileRight
<1>1. IInv => PercentileRight BY RightShown DEF PercentileRight
<1> QED BY <1>1, Invariant, PTL

\* More I/Os took less than a longer time.
LEMMA BelowMonotone ==
    ASSUME TypeOK, NEW t \in Types, NEW v \in Nat, NEW w \in Nat, v <= w,
           v < NBuckets * LatDiv
    PROVE  Below(t, v) \in Nat /\ Below(t, w) \in Nat /\ Below(t, v) <= Below(t, w)
<1> USE Constants
<1> DEFINE L(x) == {l \in Lats : l < x \/ x = NBuckets * LatDiv}
           h == [f \in Files |-> SumFunctionOnSet(seen[f][t], L(v))]
           k == [f \in Files |-> SumFunctionOnSet(seen[f][t], L(w))]
<1>1. L(v) \subseteq L(w) /\ L(w) \subseteq Lats
  <2>1. NBuckets * LatDiv \in Nat BY ProductMonotone
  <2>2. v # NBuckets * LatDiv BY <2>1
  <2>3. ASSUME NEW l \in Lats, l < v PROVE l < w BY <2>3
  <2> QED BY <2>2, <2>3
<1>2. IsFiniteSet(L(v)) /\ IsFiniteSet(L(w)) BY <1>1, FS_Subset
<1>3. seen \in NatSeen BY TypeNat
<1>4. \A f \in Files, l \in Lats : seen[f][t][l] \in Nat BY <1>3 DEF NatSeen
<1>5. Below(t, v) = SumFunctionOnSet(h, Files) /\ Below(t, w) = SumFunctionOnSet(k, Files)
  BY DEF Below, SumFunction
<1> HIDE DEF L
<1>6. ASSUME NEW f \in Files
      PROVE  h[f] \in Nat /\ k[f] \in Nat /\ h[f] <= k[f]
  <2> DEFINE g == seen[f][t]
  <2>1. \A l \in L(w) : g[l] \in Nat BY <1>1, <1>4
  <2>2. \A l \in L(v) : g[l] \in Nat BY <1>1, <2>1
  <2> HIDE DEF g
  <2>3. /\ SumFunctionOnSet(g, L(v)) \in Nat /\ SumFunctionOnSet(g, L(w)) \in Nat
        /\ SumFunctionOnSet(g, L(v)) <= SumFunctionOnSet(g, L(w))
    BY <1>1, <1>2, <2>1, <2>2, SumNat, SumPart
  <2> QED BY <2>3 DEF g
<1> HIDE DEF h, k
<1>7. SumFunctionOnSet(h, Files) \in Nat /\ SumFunctionOnSet(k, Files) \in Nat
  BY <1>6, SumNat
<1>8. SumFunctionOnSet(h, Files) <= SumFunctionOnSet(k, Files)
  <2>1. \A f \in Files : h[f] \in Int /\ k[f] \in Int /\ h[f] <= k[f] BY <1>6
  <2> QED BY <2>1, SumMonotone
<1> QED BY <1>5, <1>7, <1>8

\* What is most of the I/Os remains it with more time.
LEMMA MostMonotone ==
    ASSUME TypeOK, NEW t \in Types, NEW v \in Nat, NEW w \in Nat, v <= w,
           v < NBuckets * LatDiv, NEW part \in Nat, Most(t, part, v), Number(t) \in Int
    PROVE  Most(t, part, w)
<1>1. Below(t, v) \in Nat /\ Below(t, w) \in Nat /\ Below(t, v) <= Below(t, w)
  BY BelowMonotone
<1>2. Below(t, v) * part <= Below(t, w) * part /\ Below(t, v) * part \in Nat
      /\ Below(t, w) * part \in Nat
  BY <1>1, ProductMonotone
<1>3. part * Below(t, v) = Below(t, v) * part /\ part * Below(t, w) = Below(t, w) * part
  BY <1>1
<1>4. (part - 1) * Number(t) \in Int OBVIOUS
<1> QED BY <1>2, <1>3, <1>4 DEF Most

LEMMA NumberType ==
    ASSUME TypeOK, NEW t \in Types
    PROVE  Number(t) \in Int
<1> DEFINE h == [f \in Files |-> SumFunctionOnSet(seen[f][t], Lats)]
<1>1. seen \in NatSeen BY TypeNat
<1>2. ASSUME NEW f \in Files PROVE h[f] \in Int
  <2> DEFINE g == seen[f][t]
  <2>1. \A l \in Lats : g[l] \in Int BY <1>1 DEF NatSeen
  <2> HIDE DEF g
  <2>2. SumFunctionOnSet(g, Lats) \in Int BY <2>1, Constants, SumInt
  <2> QED BY <2>2 DEF g
<1>3. Number(t) = SumFunctionOnSet(h, Files) BY NumberIs DEF SeenIn, SumFunction
<1> HIDE DEF h
<1> QED BY <1>2, <1>3, Constants, SumInt

\* A summary lets the test go on only if enough I/Os took at most maxlat.
THEOREM SlowHalts == Spec => []HaltsWhenSlow
<1>1. IInv => HaltsWhenSlow
  <2> SUFFICES ASSUME IInv, phase = "report", MaxLatency < NBuckets * LatDiv,
                      NEW t \in Types, Number(t) # 0
               PROVE  Most(t, Parts[HaltAt], MaxLatency + 1)
    BY DEF HaltsWhenSlow, AtMost
  <2> DEFINE v == shown[HaltAt][t]
  <2>1. TypeOK /\ v <= MaxLatency BY DEF IInv
  <2>2. Most(t, Parts[HaltAt], v)
    BY Constants, RightShown DEF Summed
  <2>3. v \in 0 .. NBuckets * LatDiv BY <2>1, Constants DEF TypeOK, Values
  <2> HIDE DEF v
  <2>4. v \in Nat /\ MaxLatency + 1 \in Nat /\ v <= MaxLatency + 1 /\ v < NBuckets * LatDiv
    <3>1. NBuckets * LatDiv \in Nat /\ MaxLatency \in Nat BY Constants, ProductMonotone
    <3> QED BY <2>1, <2>3, <3>1
  <2> QED BY <2>1, <2>2, <2>4, Constants, NumberType, MostMonotone
<1> QED BY <1>1, Invariant, PTL

\* It halts a round of reads and writes only if some were slow.
THEOREM FastGoesOn == Spec => []NoHaltWhenFast
<1>1. IInv => NoHaltWhenFast
  <2> SUFFICES ASSUME IInv, phase = "halted", \A t \in Types : Number(t) # 0
               PROVE  \E t \in Types :
                         ~Most(t, Parts[HaltAt], MaxLatency - (MaxLatency % LatDiv))
    BY DEF NoHaltWhenFast, SlowRound, AtMost
  <2>1. PICK t \in Types : shown[HaltAt][t] > MaxLatency BY DEF IInv
  <2>2. Exact(seen, HaltAt, t, shown[HaltAt][t])
    BY Constants, NumberIs DEF IInv, ShownExact, Summed
  <2>3. PICK m \in Buckets : shown[HaltAt][t] = (m + 1) * LatDiv BY <2>2 DEF Exact
  <2>4. ~Most(t, Parts[HaltAt], shown[HaltAt][t] - LatDiv) BY Constants, RightShown DEF Summed
  <2> DEFINE q == MaxLatency \div LatDiv
             v == MaxLatency - (MaxLatency % LatDiv)
             w == m * LatDiv
  <2>5. m \in Nat /\ m + 1 <= NBuckets BY Constants DEF Buckets
  <2>6. MaxLatency < (m + 1) * LatDiv BY <2>1, <2>3, <2>5, Constants
  <2>7. q \in Nat /\ q * LatDiv <= MaxLatency BY Constants, Quotient
  <2>8. v = q * LatDiv
    <3>1. MaxLatency = q * LatDiv + (MaxLatency % LatDiv) /\ MaxLatency % LatDiv \in Int
      BY Constants, Remainder
    <3>2. q * LatDiv \in Nat BY <2>7, Constants
    <3> HIDE DEF q
    <3> QED BY <3>1, <3>2
  <2> HIDE DEF q, v
  <2>9. q <= m
    <3> SUFFICES ASSUME m + 1 <= q PROVE FALSE BY <2>5, <2>7
    <3>1. (m + 1) * LatDiv <= q * LatDiv BY <2>5, <2>7, Constants, ProductMonotone
    <3>2. (m + 1) * LatDiv \in Nat /\ q * LatDiv \in Nat BY <2>5, <2>7, Constants
    <3> QED BY <2>6, <2>7, <3>1, <3>2, Constants
  <2>10. v \in Nat /\ w \in Nat /\ v <= w
    BY <2>5, <2>7, <2>8, <2>9, Constants, ProductMonotone
  <2>11. shown[HaltAt][t] - LatDiv = w /\ w < NBuckets * LatDiv
    <3>1. (m + 1) * LatDiv = w + LatDiv /\ w \in Nat BY <2>5, Constants
    <3>2. (m + 1) * LatDiv <= NBuckets * LatDiv /\ NBuckets * LatDiv \in Nat
      BY <2>5, Constants, ProductMonotone
    <3> HIDE DEF w
    <3>3. w + LatDiv <= NBuckets * LatDiv BY <3>1, <3>2
    <3> QED BY <2>3, <3>1, <3>2, <3>3, Constants
  <2> HIDE DEF w
  <2>12. v < NBuckets * LatDiv
    <3>1. NBuckets * LatDiv \in Nat BY Constants, ProductMonotone
    <3> QED BY <2>10, <2>11, <3>1
  <2>13. ~Most(t, Parts[HaltAt], w) BY <2>4, <2>11
  <2>14. TypeOK BY DEF IInv
  <2>15. ~Most(t, Parts[HaltAt], v)
    BY <2>10, <2>12, <2>13, <2>14, Constants, NumberType, MostMonotone
  <2> QED BY <2>15 DEF v
<1> QED BY <1>1, Invariant, PTL
=============================================================================
