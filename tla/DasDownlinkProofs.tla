------------------------- MODULE DasDownlinkProofs -------------------------
(***************************************************************************)
(* Proofs about the downlink half of the DAS middlebox (DasDownlink), for  *)
(* any number of RUs, workers, mbufs and packets, any sizes of bursts and  *)
(* rings, and any schedule.                                                *)
(***************************************************************************)
EXTENDS DasDownlink, FiniteSetTheorems, SequenceTheorems, TLAPS

-----------------------------------------------------------------------------
(* Families of queues                                                      *)

\* Of the queues q[k], k \in K: x is in one of them; no element is in two
\* places; x comes before y, in the same queue or in one that B puts first.
Has(K, q, x) == \E k \in K : \E i \in 1 .. Len(q[k]) : q[k][i] = x
Uniq(K, q) == \A k, l \in K : \A i \in 1 .. Len(q[k]), j \in 1 .. Len(q[l]) :
  q[k][i] = q[l][j] => k = l /\ i = j
First(B, k, i, l, j) == <<k, l>> \in B \/ (k = l /\ i < j)
Precedes(K, q, B, x, y) == \E k, l \in K : \E i \in 1 .. Len(q[k]), j \in 1 .. Len(q[l]) :
  q[k][i] = x /\ q[l][j] = y /\ First(B, k, i, l, j)

\* What leaves s may join t: what B puts before t is before s, and what B puts
\* after t is s or after s.
MayJoin(K, B, s, t) ==
  /\ <<t, s>> \in B /\ <<s, t>> \notin B /\ <<t, t>> \notin B
  /\ \A k \in K : k # s /\ <<k, t>> \in B => <<k, s>> \in B
  /\ \A k \in K : k # s /\ <<t, k>> \in B => <<s, k>> \in B

\* The first n of queue s leave it, and the first m of them join queue t; if
\* there is no queue t, they are gone.
MovedFrom(q, s, t, n, m) ==
  [q EXCEPT ![s] = SubSeq(q[s], n + 1, Len(q[s])), ![t] = q[t] \o SubSeq(q[s], 1, m)]
Came(q, s, t, n, m, k, i, l, j) ==
  \/ k = s /\ l = s /\ j = i + n
  \/ k = t /\ l = t /\ j = i
  \/ k = t /\ l = s /\ i = j + Len(q[t]) /\ j \in 1 .. m
  \/ k # s /\ k # t /\ l = k /\ j = i
Traced(K, q, s, t, n, m, r) ==
  /\ \A k \in K : \A i \in 1 .. Len(r[k]) : \E l \in K : \E j \in 1 .. Len(q[l]) :
       r[k][i] = q[l][j] /\ Came(q, s, t, n, m, k, i, l, j)
  /\ \A l \in K : \A j \in 1 .. Len(q[l]) :
       \/ l = s /\ j \in m + 1 .. n
       \/ \E k \in K : \E i \in 1 .. Len(r[k]) : r[k][i] = q[l][j]

LEMMA Joined ==
  ASSUME NEW S, NEW u \in Seq(S), NEW v \in Seq(S)
  PROVE  /\ u \o v \in Seq(S) /\ Len(u \o v) = Len(u) + Len(v)
         /\ \A i \in 1 .. Len(u) : (u \o v)[i] = u[i]
         /\ \A j \in 1 .. Len(v) : (u \o v)[j + Len(u)] = v[j]
         /\ \A i \in 1 .. Len(u \o v) : i \in 1 .. Len(u) \/ \E j \in 1 .. Len(v) : i = j + Len(u)
<1>1. /\ u \o v \in Seq(S) /\ Len(u \o v) = Len(u) + Len(v)
      /\ \A i \in 1 .. Len(u) : (u \o v)[i] = u[i]
      /\ \A j \in 1 .. Len(v) : (u \o v)[j + Len(u)] = v[j]
  OBVIOUS
<1>2. Len(u) \in Nat /\ Len(v) \in Nat
  OBVIOUS
<1>3. ASSUME NEW i \in 1 .. Len(u) + Len(v), i \notin 1 .. Len(u)
      PROVE  \E j \in 1 .. Len(v) : i = j + Len(u)
  <2>1. i - Len(u) \in 1 .. Len(v) /\ i = (i - Len(u)) + Len(u)
    BY <1>2, <1>3
  <2> QED BY <2>1
<1> QED BY <1>1, <1>3

LEMMA Origins ==
  ASSUME NEW S, NEW K, NEW q \in [K -> Seq(S)], NEW s \in K, NEW t, s # t,
         NEW n \in 0 .. Len(q[s]), NEW m \in 0 .. n, t \in K \/ m = 0
  PROVE  /\ MovedFrom(q, s, t, n, m) \in [K -> Seq(S)]
         /\ Traced(K, q, s, t, n, m, MovedFrom(q, s, t, n, m))
<1> DEFINE r == MovedFrom(q, s, t, n, m)
           a == SubSeq(q[s], n + 1, Len(q[s]))
           c == SubSeq(q[s], 1, m)
<1>1. /\ q[s] \in Seq(S) /\ Len(q[s]) \in Nat
      /\ t \in K => q[t] \in Seq(S) /\ Len(q[t]) \in Nat
      /\ n \in Nat /\ m \in Nat /\ m <= n /\ n <= Len(q[s])
  OBVIOUS
<1>2. /\ a \in Seq(S) /\ Len(a) = Len(q[s]) - n
      /\ \A i \in 1 .. Len(a) : a[i] = q[s][i + n] /\ i + n \in 1 .. Len(q[s])
  BY <1>1
<1>3. /\ c \in Seq(S) /\ Len(c) = m
      /\ \A i \in 1 .. m : c[i] = q[s][i] /\ i \in 1 .. Len(q[s])
  BY <1>1
<1>4. /\ r[s] = a
      /\ t \in K => r[t] = q[t] \o c
      /\ \A k \in K : k # s /\ k # t => r[k] = q[k]
      /\ r \in [K -> Seq(S)]
  <2> HIDE DEF a
  <2>1. t \in K => q[t] \o c \in Seq(S)
    BY <1>1, <1>3
  <2> HIDE DEF c
  <2> QED BY <1>2, <1>1, <2>1 DEF MovedFrom, a, c
<1>5. ASSUME t \in K
      PROVE
      /\ Len(r[t]) = Len(q[t]) + m
      /\ \A i \in 1 .. Len(q[t]) : r[t][i] = q[t][i]
      /\ \A j \in 1 .. m : r[t][j + Len(q[t])] = q[s][j]
  <2> HIDE DEF c
  <2>1. /\ Len(q[t] \o c) = Len(q[t]) + m
        /\ \A i \in 1 .. Len(q[t]) : (q[t] \o c)[i] = q[t][i]
        /\ \A j \in 1 .. m : (q[t] \o c)[j + Len(q[t])] = c[j]
    <3>1. q[t] \in Seq(S) /\ c \in Seq(S)
      BY <1>1, <1>3, <1>5
    <3>2. /\ Len(q[t] \o c) = Len(q[t]) + Len(c)
          /\ \A i \in 1 .. Len(q[t]) : (q[t] \o c)[i] = q[t][i]
          /\ \A j \in 1 .. Len(c) : (q[t] \o c)[j + Len(q[t])] = c[j]
      BY <3>1, Joined
    <3> QED BY <3>2, <1>3
  <2> HIDE DEF r
  <2> QED BY <2>1, <1>4, <1>3, <1>5
<1> HIDE DEF r, a, c
<1>6. ASSUME NEW k \in K, NEW i \in 1 .. Len(r[k])
      PROVE  \E l \in K : \E j \in 1 .. Len(q[l]) :
               r[k][i] = q[l][j] /\ Came(q, s, t, n, m, k, i, l, j)
  <2>1. CASE k = s
    <3>1. i + n \in 1 .. Len(q[s]) /\ r[k][i] = q[s][i + n]
      BY <2>1, <1>2, <1>4
    <3> QED BY <3>1, <2>1 DEF Came
  <2>2. CASE k = t /\ i \in 1 .. Len(q[t])
    BY <2>2, <1>5 DEF Came
  <2>3. CASE k = t /\ i \notin 1 .. Len(q[t])
    <3>1. i \in 1 .. Len(q[t]) + m
      BY <2>3, <1>5
    <3>2. PICK j \in 1 .. m : i = j + Len(q[t])
      <4>1. i - Len(q[t]) \in 1 .. m /\ i = (i - Len(q[t])) + Len(q[t])
        BY <3>1, <2>3, <1>1
      <4> QED BY <4>1
    <3>3. r[k][i] = q[s][j] /\ j \in 1 .. Len(q[s])
      BY <3>2, <2>3, <1>5, <1>3
    <3> QED BY <3>2, <3>3, <2>3 DEF Came
  <2>4. CASE k # s /\ k # t
    BY <2>4, <1>4 DEF Came
  <2> QED BY <2>1, <2>2, <2>3, <2>4
<1>7. ASSUME NEW l \in K, NEW j \in 1 .. Len(q[l]), ~(l = s /\ j \in m + 1 .. n)
      PROVE  \E k \in K : \E i \in 1 .. Len(r[k]) : r[k][i] = q[l][j]
  <2>1. CASE l = s /\ j \in 1 .. m
    <3>1. t \in K
      BY <2>1
    <3>2. j + Len(q[t]) \in 1 .. Len(r[t]) /\ r[t][j + Len(q[t])] = q[l][j]
      BY <2>1, <3>1, <1>5, <1>1
    <3> QED BY <3>1, <3>2
  <2>2. CASE l = s /\ j \notin 1 .. m
    <3>1. j \in n + 1 .. Len(q[s])
      BY <2>2, <1>7, <1>1
    <3>2. j - n \in 1 .. Len(a) /\ (j - n) + n = j
      BY <3>1, <1>1, <1>2
    <3>3. r[s][j - n] = q[s][j] /\ j - n \in 1 .. Len(r[s])
      BY <3>2, <1>2, <1>4
    <3> QED BY <3>3, <2>2
  <2>3. CASE l = t
    <3>1. j \in 1 .. Len(r[t]) /\ r[t][j] = q[t][j]
      BY <2>3, <1>5, <1>1
    <3> QED BY <3>1, <2>3
  <2>4. CASE l # s /\ l # t
    BY <2>4, <1>4
  <2> QED BY <2>1, <2>2, <2>3, <2>4
<1> QED BY <1>4, <1>6, <1>7 DEF r, Traced

\* A move brings nothing in, loses what does not join, keeps elements unique,
\* and puts no element before one that it did not precede.
Follows(K, q, s, t, n, m, r) ==
  /\ \A x : Has(K, r, x) => Has(K, q, x)
  /\ \A x : Has(K, q, x) => Has(K, r, x) \/ \E j \in m + 1 .. n : q[s][j] = x
  /\ Uniq(K, q) => Uniq(K, r) /\ \A j \in m + 1 .. n : ~Has(K, r, q[s][j])
  /\ \A B : <<s, s>> \notin B /\ (t \in K => MayJoin(K, B, s, t)) =>
       \A x, y : Precedes(K, r, B, x, y) => Precedes(K, q, B, x, y)
LEMMA Moved ==
  ASSUME NEW S, NEW K, NEW q \in [K -> Seq(S)], NEW s \in K, NEW t, s # t,
         NEW n \in 0 .. Len(q[s]), NEW m \in 0 .. n, t \in K \/ m = 0
  PROVE  /\ MovedFrom(q, s, t, n, m) \in [K -> Seq(S)]
         /\ Follows(K, q, s, t, n, m, MovedFrom(q, s, t, n, m))
<1> DEFINE r == MovedFrom(q, s, t, n, m)
<1> HIDE DEF r
<1>1. /\ r \in [K -> Seq(S)]
      /\ \A k \in K : \A i \in 1 .. Len(r[k]) : \E l \in K : \E j \in 1 .. Len(q[l]) :
           r[k][i] = q[l][j] /\ Came(q, s, t, n, m, k, i, l, j)
      /\ \A l \in K : \A j \in 1 .. Len(q[l]) :
           \/ l = s /\ j \in m + 1 .. n
           \/ \E k \in K : \E i \in 1 .. Len(r[k]) : r[k][i] = q[l][j]
  <2>1. r \in [K -> Seq(S)] /\ Traced(K, q, s, t, n, m, r)
    BY Origins DEF r
  <2> QED BY <2>1 DEF Traced
<1>2. n \in Nat /\ m \in Nat /\ m <= n /\ \A k \in K : Len(q[k]) \in Nat /\ Len(r[k]) \in Nat
  BY <1>1
<1>3. ASSUME NEW x, Has(K, r, x) PROVE Has(K, q, x)
  <2>1. PICK k \in K : \E i \in 1 .. Len(r[k]) : r[k][i] = x
    BY <1>3 DEF Has
  <2>2. PICK i \in 1 .. Len(r[k]) : r[k][i] = x
    BY <2>1
  <2>3. \E l \in K : \E j \in 1 .. Len(q[l]) : r[k][i] = q[l][j]
    BY <1>1
  <2> QED BY <2>2, <2>3 DEF Has
<1>4. ASSUME NEW x, Has(K, q, x), ~\E j \in m + 1 .. n : q[s][j] = x PROVE Has(K, r, x)
  <2>1. PICK k \in K : \E i \in 1 .. Len(q[k]) : q[k][i] = x
    BY <1>4 DEF Has
  <2>2. PICK i \in 1 .. Len(q[k]) : q[k][i] = x
    BY <2>1
  <2>3. \E l \in K : \E j \in 1 .. Len(r[l]) : r[l][j] = q[k][i]
    BY <1>1, <2>2, <1>4
  <2> QED BY <2>2, <2>3 DEF Has
<1>5. ASSUME Uniq(K, q) PROVE Uniq(K, r)
  <2> SUFFICES ASSUME NEW k \in K, NEW h \in K, NEW i \in 1 .. Len(r[k]), NEW g \in 1 .. Len(r[h]),
                      r[k][i] = r[h][g]
               PROVE  k = h /\ i = g
    BY DEF Uniq
  <2>1. PICK l \in K : \E j \in 1 .. Len(q[l]) :
          r[k][i] = q[l][j] /\ Came(q, s, t, n, m, k, i, l, j)
    BY <1>1
  <2>2. PICK j \in 1 .. Len(q[l]) : r[k][i] = q[l][j] /\ Came(q, s, t, n, m, k, i, l, j)
    BY <2>1
  <2>3. PICK p \in K : \E o \in 1 .. Len(q[p]) :
          r[h][g] = q[p][o] /\ Came(q, s, t, n, m, h, g, p, o)
    BY <1>1
  <2>4. PICK o \in 1 .. Len(q[p]) : r[h][g] = q[p][o] /\ Came(q, s, t, n, m, h, g, p, o)
    BY <2>3
  <2>5. l = p /\ j = o
    <3>1. q[l][j] = q[p][o]
      BY <2>2, <2>4
    <3> QED BY <3>1, <1>5 DEF Uniq
  <2>6. i \in Nat /\ g \in Nat /\ j \in Nat /\ (t \in K => Len(q[t]) \in Nat) /\ n \in Nat
        /\ i >= 1 /\ g >= 1 /\ Len(q[l]) \in Nat /\ j <= Len(q[l]) /\ m <= n
    BY <1>2
  <2> QED BY <2>2, <2>4, <2>5, <2>6 DEF Came
<1>6. ASSUME Uniq(K, q), NEW o \in m + 1 .. n PROVE ~Has(K, r, q[s][o])
  <2> SUFFICES ASSUME NEW k \in K, NEW i \in 1 .. Len(r[k]), r[k][i] = q[s][o] PROVE FALSE
    BY DEF Has
  <2>1. PICK l \in K : \E j \in 1 .. Len(q[l]) :
          r[k][i] = q[l][j] /\ Came(q, s, t, n, m, k, i, l, j)
    BY <1>1
  <2>2. PICK j \in 1 .. Len(q[l]) : r[k][i] = q[l][j] /\ Came(q, s, t, n, m, k, i, l, j)
    BY <2>1
  <2>3. o \in 1 .. Len(q[s])
    BY <1>2
  <2>4. l = s /\ j = o
    <3>1. q[l][j] = q[s][o]
      BY <2>2
    <3> QED BY <3>1, <2>3, <1>6 DEF Uniq
  <2>5. i \in Nat /\ i >= 1 /\ (t \in K => Len(q[t]) \in Nat) /\ o \in Nat /\ m + 1 <= o /\ o <= n
    BY <1>2
  <2> QED BY <2>2, <2>4, <2>5, <1>2 DEF Came
<1>7. ASSUME NEW B, <<s, s>> \notin B, t \in K => MayJoin(K, B, s, t), NEW x, NEW y, Precedes(K, r, B, x, y)
      PROVE  Precedes(K, q, B, x, y)
  <2>1. PICK k \in K, h \in K : \E i \in 1 .. Len(r[k]), g \in 1 .. Len(r[h]) :
          r[k][i] = x /\ r[h][g] = y /\ First(B, k, i, h, g)
    BY <1>7 DEF Precedes
  <2>2. PICK i \in 1 .. Len(r[k]), g \in 1 .. Len(r[h]) :
          r[k][i] = x /\ r[h][g] = y /\ First(B, k, i, h, g)
    BY <2>1
  <2>3. PICK l \in K : \E j \in 1 .. Len(q[l]) :
          r[k][i] = q[l][j] /\ Came(q, s, t, n, m, k, i, l, j)
    BY <1>1
  <2>4. PICK j \in 1 .. Len(q[l]) : r[k][i] = q[l][j] /\ Came(q, s, t, n, m, k, i, l, j)
    BY <2>3
  <2>5. PICK p \in K : \E o \in 1 .. Len(q[p]) :
          r[h][g] = q[p][o] /\ Came(q, s, t, n, m, h, g, p, o)
    BY <1>1
  <2>6. PICK o \in 1 .. Len(q[p]) : r[h][g] = q[p][o] /\ Came(q, s, t, n, m, h, g, p, o)
    BY <2>5
  <2>7. i \in Nat /\ g \in Nat /\ j \in Nat /\ o \in Nat /\ n \in Nat
        /\ (t \in K => Len(q[t]) \in Nat)
        /\ i >= 1 /\ g >= 1 /\ j >= 1 /\ o >= 1 /\ m <= n /\ m \in Nat
        /\ (p = t => o <= Len(q[t])) /\ (l = t => j <= Len(q[t]))
    BY <1>2
  <2>8. First(B, l, j, p, o)
    <3>1. /\ <<s, s>> \notin B
          /\ t \in K => /\ <<t, s>> \in B /\ <<s, t>> \notin B /\ <<t, t>> \notin B
                        /\ k # s /\ <<k, t>> \in B => <<k, s>> \in B
                        /\ h # s /\ <<t, h>> \in B => <<s, h>> \in B
      BY <1>7 DEF MayJoin
    <3>2. <<k, h>> \in B \/ (k = h /\ i < g)
      BY <2>2 DEF First
    <3>3. CASE k = s
      <4>1. l = s /\ j = i + n /\ h # t
        <5>1. h # t
          BY <3>1, <3>2, <3>3
        <5> QED BY <5>1, <2>4, <3>3 DEF Came
      <4>2. CASE h = s
        <5>1. p = s /\ o = g + n /\ i < g
          BY <2>6, <3>1, <3>2, <3>3, <4>2 DEF Came
        <5>2. j < o
          BY <4>1, <5>1, <2>7
        <5> QED BY <4>1, <5>1, <5>2 DEF First
      <4>3. CASE h # s
        <5>1. p = h /\ <<s, h>> \in B
          BY <2>6, <3>2, <3>3, <4>1, <4>3 DEF Came
        <5> QED BY <4>1, <5>1 DEF First
      <4> QED BY <4>2, <4>3
    <3>4. CASE k = t /\ h = s
      <4>1. (l = t \/ (l = s /\ j \in 1 .. m)) /\ p = s /\ o = g + n
        BY <2>4, <2>6, <3>4 DEF Came
      <4>2. j \in 1 .. m => j < o
        BY <4>1, <2>7
      <4> QED BY <4>1, <4>2, <3>1 DEF First
    <3>5. CASE k = t /\ h = t
      <4>1. i < g
        BY <3>1, <3>2, <3>5
      <4>2. (l = t /\ j = i) \/ (l = s /\ i = j + Len(q[t]))
        BY <2>4, <3>5 DEF Came
      <4>3. (p = t /\ o = g) \/ (p = s /\ g = o + Len(q[t]))
        BY <2>6, <3>5 DEF Came
      <4>4. p = l => j < o
        BY <4>1, <4>2, <4>3, <2>7
      <4>5. l = s => p = s
        BY <4>1, <4>2, <4>3, <2>7
      <4> QED BY <4>2, <4>3, <4>4, <4>5, <3>1 DEF First
    <3>6. CASE k = t /\ h # s /\ h # t
      BY <2>4, <2>6, <3>1, <3>2, <3>6 DEF Came, First
    <3>7. CASE k # s /\ k # t /\ (h = s \/ h = t)
      <4>1. l = k /\ <<k, h>> \in B /\ p \in {s, t} /\ (p = t => h = t)
        BY <2>4, <2>6, <3>2, <3>7 DEF Came
      <4> QED BY <4>1, <3>1, <3>7 DEF First
    <3>8. CASE k # s /\ k # t /\ h # s /\ h # t
      BY <2>4, <2>6, <3>2, <3>8 DEF Came, First
    <3> QED BY <3>3, <3>4, <3>5, <3>6, <3>7, <3>8
  <2> QED BY <2>2, <2>4, <2>6, <2>8 DEF Precedes
<1> QED BY <1>1, <1>3, <1>4, <1>5, <1>6, <1>7 DEF r, Follows

\* Of the queues of P only P's elements come, if what joins P was in P.
LEMMA MovedPart ==
  ASSUME NEW S, NEW K, NEW q \in [K -> Seq(S)], NEW s \in K, NEW t, s # t,
         NEW n \in 0 .. Len(q[s]), NEW m \in 0 .. n, t \in K \/ m = 0,
         NEW P \in SUBSET K, t \in P => s \in P, NEW x, Has(P, MovedFrom(q, s, t, n, m), x)
  PROVE  Has(P, q, x)
<1> DEFINE r == MovedFrom(q, s, t, n, m)
<1> HIDE DEF r
<1>1. \A k \in K : \A i \in 1 .. Len(r[k]) : \E l \in K : \E j \in 1 .. Len(q[l]) :
        r[k][i] = q[l][j] /\ Came(q, s, t, n, m, k, i, l, j)
  <2>1. Traced(K, q, s, t, n, m, r)
    BY Origins DEF r
  <2> QED BY <2>1 DEF Traced
<1>2. PICK k \in P : \E i \in 1 .. Len(r[k]) : r[k][i] = x
  BY DEF r, Has
<1>3. PICK i \in 1 .. Len(r[k]) : r[k][i] = x
  BY <1>2
<1>4. PICK l \in K : \E j \in 1 .. Len(q[l]) : r[k][i] = q[l][j] /\ Came(q, s, t, n, m, k, i, l, j)
  BY <1>1
<1>5. l \in P
  BY <1>4 DEF Came
<1> QED BY <1>3, <1>4, <1>5 DEF Has

\* v joins queue t.  When nothing comes after t, the new elements come last.
Extended(q, t, v) == [q EXCEPT ![t] = q[t] \o v]
Within(v, x) == \E i \in 1 .. Len(v) : v[i] = x
Distinct(v) == \A i, j \in 1 .. Len(v) : v[i] = v[j] => i = j
Upstream(K, q, B, t, x) == \E k \in K : (k = t \/ <<k, t>> \in B) /\ Within(q[k], x)
Adds(K, q, t, v, r) ==
  /\ \A x : Has(K, r, x) <=> Has(K, q, x) \/ Within(v, x)
  /\ Uniq(K, q) /\ Distinct(v) /\ (\A x : Within(v, x) => ~Has(K, q, x)) => Uniq(K, r)
  /\ \A B : (\A k \in K : <<t, k>> \notin B) =>
       \A x, y : Precedes(K, r, B, x, y) =>
         \/ Precedes(K, q, B, x, y)
         \/ Within(v, y) /\ Upstream(K, q, B, t, x)
         \/ \E i, j \in 1 .. Len(v) : i < j /\ v[i] = x /\ v[j] = y
LEMMA JoinedQueue ==
  ASSUME NEW S, NEW K, NEW q \in [K -> Seq(S)], NEW t \in K, NEW v \in Seq(S)
  PROVE  /\ Extended(q, t, v) \in [K -> Seq(S)]
         /\ Adds(K, q, t, v, Extended(q, t, v))
<1> DEFINE r == Extended(q, t, v)
           N == Len(q[t])
<1>1. q[t] \in Seq(S) /\ N \in Nat /\ Len(v) \in Nat
  OBVIOUS
<1>2. /\ r[t] = q[t] \o v
      /\ \A k \in K : k # t => r[k] = q[k]
      /\ r \in [K -> Seq(S)]
  <2>1. q[t] \o v \in Seq(S)
    BY <1>1
  <2> QED BY <2>1 DEF Extended
<1>3. /\ Len(r[t]) = N + Len(v)
      /\ \A i \in 1 .. N : r[t][i] = q[t][i] /\ i \in 1 .. Len(r[t])
      /\ \A j \in 1 .. Len(v) : r[t][j + N] = v[j] /\ j + N \in 1 .. Len(r[t])
      /\ \A i \in 1 .. Len(r[t]) : i \in 1 .. N \/ \E j \in 1 .. Len(v) : i = j + N
  <2>1. /\ Len(q[t] \o v) = N + Len(v)
        /\ \A i \in 1 .. N : (q[t] \o v)[i] = q[t][i]
        /\ \A j \in 1 .. Len(v) : (q[t] \o v)[j + N] = v[j]
        /\ \A i \in 1 .. Len(q[t] \o v) : i \in 1 .. N \/ \E j \in 1 .. Len(v) : i = j + N
    BY <1>1, Joined
  <2> HIDE DEF r
  <2>2. /\ Len(r[t]) = N + Len(v)
        /\ \A i \in 1 .. N : r[t][i] = q[t][i]
        /\ \A j \in 1 .. Len(v) : r[t][j + N] = v[j]
        /\ \A i \in 1 .. Len(r[t]) : i \in 1 .. N \/ \E j \in 1 .. Len(v) : i = j + N
    BY <2>1, <1>2
  <2> HIDE DEF N
  <2> QED BY <2>2, <1>1
<1> HIDE DEF r
<1>4. ASSUME NEW k \in K, NEW i \in 1 .. Len(r[k])
      PROVE  \/ i \in 1 .. Len(q[k]) /\ r[k][i] = q[k][i]
             \/ k = t /\ \E j \in 1 .. Len(v) : i = j + N /\ r[k][i] = v[j]
  <2>1. CASE k # t
    BY <2>1, <1>2
  <2>2. CASE k = t
    BY <2>2, <1>3
  <2> QED BY <2>1, <2>2
<1>5. ASSUME NEW x, Has(K, r, x) PROVE Has(K, q, x) \/ Within(v, x)
  <2>1. PICK k \in K : \E i \in 1 .. Len(r[k]) : r[k][i] = x
    BY <1>5 DEF Has
  <2>2. PICK i \in 1 .. Len(r[k]) : r[k][i] = x
    BY <2>1
  <2> QED BY <1>4, <2>2 DEF Has, Within
<1>6. ASSUME NEW x, Has(K, q, x) PROVE Has(K, r, x)
  <2>1. PICK k \in K : \E i \in 1 .. Len(q[k]) : q[k][i] = x
    BY <1>6 DEF Has
  <2>2. PICK i \in 1 .. Len(q[k]) : q[k][i] = x
    BY <2>1
  <2>3. i \in 1 .. Len(r[k]) /\ r[k][i] = x
    BY <1>2, <1>3, <2>2
  <2> QED BY <2>3 DEF Has
<1>7. ASSUME NEW x, Within(v, x) PROVE Has(K, r, x)
  BY <1>3, <1>7 DEF Has, Within
<1>8. ASSUME Uniq(K, q), Distinct(v), \A x : Within(v, x) => ~Has(K, q, x) PROVE Uniq(K, r)
  <2> SUFFICES ASSUME NEW k \in K, NEW h \in K, NEW i \in 1 .. Len(r[k]), NEW g \in 1 .. Len(r[h]),
                      r[k][i] = r[h][g]
               PROVE  k = h /\ i = g
    BY DEF Uniq
  <2>1. CASE i \in 1 .. Len(q[k]) /\ r[k][i] = q[k][i] /\ g \in 1 .. Len(q[h]) /\ r[h][g] = q[h][g]
    <3>1. q[k][i] = q[h][g]
      BY <2>1
    <3> QED BY <2>1, <3>1, <1>8 DEF Uniq
  <2>2. CASE /\ k = t /\ \E j \in 1 .. Len(v) : i = j + N /\ r[k][i] = v[j]
             /\ h = t /\ \E j \in 1 .. Len(v) : g = j + N /\ r[h][g] = v[j]
    BY <2>2, <1>8 DEF Distinct
  <2>3. ASSUME i \in 1 .. Len(q[k]), r[k][i] = q[k][i],
               \E j \in 1 .. Len(v) : r[h][g] = v[j]
        PROVE  FALSE
    <3>1. Has(K, q, r[k][i])
      BY <2>3 DEF Has
    <3>2. Within(v, r[k][i])
      BY <2>3 DEF Within
    <3> QED BY <3>1, <3>2, <1>8
  <2>4. ASSUME g \in 1 .. Len(q[h]), r[h][g] = q[h][g],
               \E j \in 1 .. Len(v) : r[k][i] = v[j]
        PROVE  FALSE
    <3>1. Has(K, q, r[h][g])
      BY <2>4 DEF Has
    <3>2. Within(v, r[h][g])
      BY <2>4 DEF Within
    <3> QED BY <3>1, <3>2, <1>8
  <2>5. \/ i \in 1 .. Len(q[k]) /\ r[k][i] = q[k][i]
        \/ k = t /\ \E j \in 1 .. Len(v) : i = j + N /\ r[k][i] = v[j]
    BY <1>4
  <2>6. \/ g \in 1 .. Len(q[h]) /\ r[h][g] = q[h][g]
        \/ h = t /\ \E j \in 1 .. Len(v) : g = j + N /\ r[h][g] = v[j]
    BY <1>4
  <2> QED BY <2>1, <2>2, <2>3, <2>4, <2>5, <2>6
<1>9. ASSUME NEW B, \A k \in K : <<t, k>> \notin B, NEW x, NEW y, Precedes(K, r, B, x, y)
      PROVE  \/ Precedes(K, q, B, x, y)
             \/ Within(v, y) /\ Upstream(K, q, B, t, x)
             \/ \E i, j \in 1 .. Len(v) : i < j /\ v[i] = x /\ v[j] = y
  <2>1. PICK k \in K, h \in K : \E i \in 1 .. Len(r[k]), g \in 1 .. Len(r[h]) :
          r[k][i] = x /\ r[h][g] = y /\ First(B, k, i, h, g)
    BY <1>9 DEF Precedes
  <2>2. PICK i \in 1 .. Len(r[k]), g \in 1 .. Len(r[h]) :
          r[k][i] = x /\ r[h][g] = y /\ First(B, k, i, h, g)
    BY <2>1
  <2>3. \/ i \in 1 .. Len(q[k]) /\ r[k][i] = q[k][i]
        \/ k = t /\ \E j \in 1 .. Len(v) : i = j + N /\ r[k][i] = v[j]
    BY <1>4
  <2>4. \/ g \in 1 .. Len(q[h]) /\ r[h][g] = q[h][g]
        \/ h = t /\ \E j \in 1 .. Len(v) : g = j + N /\ r[h][g] = v[j]
    BY <1>4
  <2>5. CASE i \in 1 .. Len(q[k]) /\ r[k][i] = q[k][i] /\ g \in 1 .. Len(q[h]) /\ r[h][g] = q[h][g]
    BY <2>5, <2>2 DEF Precedes
  <2>6. CASE /\ i \in 1 .. Len(q[k]) /\ r[k][i] = q[k][i]
             /\ h = t /\ \E j \in 1 .. Len(v) : g = j + N /\ r[h][g] = v[j]
    <3>1. Within(q[k], x) /\ Within(v, y)
      BY <2>6, <2>2 DEF Within
    <3>2. k = t \/ <<k, t>> \in B
      BY <2>6, <2>2 DEF First
    <3> QED BY <3>1, <3>2 DEF Upstream
  <2>7. CASE k = t /\ \E j \in 1 .. Len(v) : i = j + N /\ r[k][i] = v[j]
    <3>1. PICK j \in 1 .. Len(v) : i = j + N /\ r[k][i] = v[j]
      BY <2>7
    <3>2. <<t, h>> \notin B
      BY <1>9
    <3>3. h = t /\ i < g
      BY <2>2, <2>7, <3>2 DEF First
    <3>4. CASE g \in 1 .. Len(q[h]) /\ r[h][g] = q[h][g]
      BY <3>1, <3>3, <3>4, <1>1
    <3>5. CASE \E o \in 1 .. Len(v) : g = o + N /\ r[h][g] = v[o]
      <4>1. PICK o \in 1 .. Len(v) : g = o + N /\ r[h][g] = v[o]
        BY <3>5
      <4>2. j < o
        BY <3>1, <3>3, <4>1, <1>1
      <4> QED BY <4>1, <4>2, <3>1, <2>2
    <3> QED BY <2>4, <3>4, <3>5
  <2> QED BY <2>3, <2>4, <2>5, <2>6, <2>7
<1> QED BY <1>2, <1>5, <1>6, <1>7, <1>8, <1>9 DEF r, Adds

LEMMA JoinedPart ==
  ASSUME NEW S, NEW K, NEW q \in [K -> Seq(S)], NEW t \in K, NEW v \in Seq(S),
         NEW P \in SUBSET K, NEW x, Has(P, Extended(q, t, v), x)
  PROVE  Has(P, q, x) \/ (t \in P /\ Within(v, x))
<1> DEFINE r == Extended(q, t, v)
<1>1. q[t] \in Seq(S)
  OBVIOUS
<1>2. r[t] = q[t] \o v /\ \A k \in K : k # t => r[k] = q[k]
  BY DEF Extended
<1> HIDE DEF r
<1>3. PICK k \in P : \E i \in 1 .. Len(r[k]) : r[k][i] = x
  BY DEF r, Has
<1>4. PICK i \in 1 .. Len(r[k]) : r[k][i] = x
  BY <1>3
<1>5. CASE k # t
  BY <1>2, <1>4, <1>5 DEF Has
<1>6. CASE k = t
  <2>1. PICK u \in Seq(S) : u = q[t]
    BY <1>1
  <2>2. /\ \A g \in 1 .. Len(u) : (u \o v)[g] = u[g]
        /\ \A j \in 1 .. Len(v) : (u \o v)[j + Len(u)] = v[j]
        /\ \A g \in 1 .. Len(u \o v) : g \in 1 .. Len(u) \/ \E j \in 1 .. Len(v) : g = j + Len(u)
    BY Joined
  <2>3. i \in 1 .. Len(u \o v) /\ (u \o v)[i] = x
    BY <1>2, <1>4, <1>6, <2>1
  <2>4. CASE i \in 1 .. Len(u)
    BY <1>6, <2>1, <2>2, <2>3, <2>4 DEF Has
  <2>5. CASE \E j \in 1 .. Len(v) : i = j + Len(u)
    BY <1>6, <2>2, <2>3, <2>5 DEF Within
  <2> QED BY <2>2, <2>3, <2>4, <2>5
<1> QED BY <1>5, <1>6

-----------------------------------------------------------------------------
(* The invariant                                                           *)

\* The queues of mbufs that wait to be handled, and those of packets on their
\* way to the RUs; and the order in which a core meets what is in them.
Waiting == {"input", "burst"} \X Cores
Leaving == {"out", "tx"} \X Cores
Waits == [k \in Waiting |-> IF k[1] = "input" THEN Input(k[2]) ELSE mx_bufs[k[2]]]
Leaves == [k \in Leaving |-> IF k[1] = "out" THEN mx_tx_bufs[k[2]] ELSE tx[k[2]]]
WaitOrder == {p \in Waiting \X Waiting :
  p[1] # p[2] /\ (p[2] = <<"input", 0>> \/ (p[1][1] = "burst" /\ p[2] = <<"input", p[1][2]>>))}
LeaveOrder == {p \in Leaving \X Leaving : p[1][1] = "tx" /\ p[2] = <<"out", p[1][2]>>}

IsWaiting(b) == Has(Waiting, Waits, b)
IsLeaving(e) == Has(Leaving, Leaves, e)
\* The RUs that get the data of mbuf b, and the mbufs that RU r gets a clone of.
RusOf(b) == {r \in Rus : \E clone \in BOOLEAN : IsLeaving(ToRu(r, b, clone))}
ClonedFor(r) == {b \in Bufs : IsLeaving(ToRu(r, b, TRUE))}
Live(b) == IsWaiting(b) \/ RusOf(b) # {}

\* Every reference is in one place, an mbuf waits or leaves, an RU gets its data
\* once.
PlacesInv ==
  /\ Uniq(Waiting, Waits) /\ Uniq(Leaving, Leaves)
  /\ \A b \in Bufs, r \in Rus : ~(IsLeaving(ToRu(r, b, TRUE)) /\ IsLeaving(ToRu(r, b, FALSE)))
  /\ \A b \in Bufs : IsWaiting(b) => RusOf(b) = {}
CountsInv ==
  /\ \A b \in Bufs :
       /\ IsWaiting(b) => refcnt[b] = 1
       /\ ~IsWaiting(b) => \/ refcnt[b] = Cardinality(RusOf(b))
                           \/ MayLeak /\ refcnt[b] = Cardinality(RusOf(b)) + 1
  /\ \A r \in Rus : \/ clones[r] + 2 * Cardinality(ClonedFor(r)) = NumClones
                    \/ ~alive /\ clones[r] + 2 * Cardinality(ClonedFor(r)) < NumClones
ContentInv ==
  /\ \A b \in Bufs : Live(b) =>
       /\ content[b] \in Packet /\ content[b].id \in 1 .. Len(received)
       /\ content[b] = received[content[b].id]
  /\ \A b \in Bufs : RusOf(b) # {} => content[b].kind \in {"control", "iq"}
RingInv == \A w \in Workers : Len(du_ring[w]) <= RingCap
MemInv ==
  /\ TypeOK /\ target_core <= deployment.num_workers /\ RingInv
  /\ PlacesInv /\ CountsInv /\ ContentInv

\* Packets keep the order of their ids, which is that of arrival, on every core;
\* no packet is on two cores; and an RU meets each once.
IdOf(b) == content[b].id
WaitPlaces(c) == {<<"input", 0>>, <<"input", c>>, <<"burst", c>>}
LeavePlaces(c) == {<<"out", c>>, <<"tx", c>>}
WaitsFor(c, b) == Has(WaitPlaces(c), Waits, b)
LeavesFrom(c, e) == Has(LeavePlaces(c), Leaves, e)
Before(b, d) == Precedes(Waiting, Waits, WaitOrder, b, d)
SentBefore(e, f) == Precedes(Leaving, Leaves, LeaveOrder, e, f)
OrderInv ==
  /\ \A b, d \in Bufs :
       /\ Before(b, d) => IdOf(b) < IdOf(d)
       /\ IsWaiting(b) /\ IsWaiting(d) /\ IdOf(b) = IdOf(d) => b = d
  /\ \A e, f \in Outgoing :
       /\ SentBefore(e, f) => IdOf(e.buf) <= IdOf(f.buf)
       /\ IsLeaving(e) /\ IsLeaving(f) /\ e.ru = f.ru /\ IdOf(e.buf) = IdOf(f.buf) => e = f
  /\ \A e \in Outgoing, b \in Bufs :
       /\ IsLeaving(e) /\ IsWaiting(b) => IdOf(e.buf) # IdOf(b)
       /\ \A c \in Cores : LeavesFrom(c, e) /\ WaitsFor(c, b) => IdOf(e.buf) < IdOf(b)
  /\ \A e, f \in Outgoing, c, d \in Cores :
       LeavesFrom(c, e) /\ LeavesFrom(d, f) /\ c # d => IdOf(e.buf) # IdOf(f.buf)
\* What holds of a packet p that core c has sent to RU r.
Sent(r, p, c) ==
  /\ p.kind \in {"control", "iq"} /\ p.id \in 1 .. Len(received) /\ p = received[p.id]
  /\ \A b \in Bufs : /\ IsWaiting(b) => p.id # IdOf(b)
                     /\ WaitsFor(c, b) => p.id < IdOf(b)
  /\ \A e \in Outgoing, d \in Cores : LeavesFrom(d, e) =>
       /\ d = c => p.id <= IdOf(e.buf)
       /\ d # c \/ e.ru = r => p.id # IdOf(e.buf)
IsSent(r, p, c) == \E j \in 1 .. Len(to_ru[r]) : to_ru[r][j] = [packet |-> p, core |-> c]
SentInv == \A r \in Rus, p \in Packet, c \in Cores : IsSent(r, p, c) => Sent(r, p, c)
InOrder == \A r \in Rus : \A j \in 1 .. Len(to_ru[r]) : \A i \in 1 .. j - 1 :
  /\ to_ru[r][i].packet.id # to_ru[r][j].packet.id
  /\ to_ru[r][i].core = to_ru[r][j].core => to_ru[r][i].packet.id < to_ru[r][j].packet.id
TurnInv == OrderInv /\ SentInv /\ InOrder

-----------------------------------------------------------------------------
(* Places and steps                                                        *)

LEMMA CoreFacts ==
  /\ NumRus \in Nat /\ NumRus >= 1 /\ 0 \in Rus /\ 0 \in Cores /\ Others \in SUBSET Rus
  /\ \A w \in Workers : w \in Cores /\ w # 0
  /\ \A c \in Cores : c # 0 => c \in Workers
BY DownlinkAssumption DEF Rus, Cores, Workers, Others

\* The queues behind the places.
LEMMA Queues ==
  ASSUME TypeOK
  PROVE  /\ Waits \in [Waiting -> Seq(Bufs)] /\ Leaves \in [Leaving -> Seq(Outgoing)]
         /\ \A c \in Cores :
              /\ <<"input", c>> \in Waiting /\ Waits[<<"input", c>>] = Input(c)
              /\ <<"burst", c>> \in Waiting /\ Waits[<<"burst", c>>] = mx_bufs[c]
              /\ <<"out", c>> \in Leaving /\ Leaves[<<"out", c>>] = mx_tx_bufs[c]
              /\ <<"tx", c>> \in Leaving /\ Leaves[<<"tx", c>>] = tx[c]
<1>1. \A c \in Cores : Input(c) \in Seq(Bufs) /\ mx_bufs[c] \in Seq(Bufs)
                       /\ mx_tx_bufs[c] \in Seq(Outgoing) /\ tx[c] \in Seq(Outgoing)
  BY CoreFacts DEF TypeOK, Input
<1>2. \A k \in Waiting : k[2] \in Cores
  BY DEF Waiting
<1>3. \A k \in Leaving : k[2] \in Cores
  BY DEF Leaving
<1>4. Waits \in [Waiting -> Seq(Bufs)]
  BY <1>1, <1>2 DEF Waits
<1>5. Leaves \in [Leaving -> Seq(Outgoing)]
  BY <1>1, <1>3 DEF Leaves
<1>6. \A c \in Cores : /\ <<"input", c>> \in Waiting /\ <<"burst", c>> \in Waiting
                       /\ <<"out", c>> \in Leaving /\ <<"tx", c>> \in Leaving
  BY DEF Waiting, Leaving
<1> QED BY <1>4, <1>5, <1>6 DEF Waits, Leaves

\* Every place is a queue of a core.
LEMMA PlacesOfCores ==
  /\ \A k \in Waiting : \E c \in Cores : k = <<"input", c>> \/ k = <<"burst", c>>
  /\ \A k \in Leaving : \E c \in Cores : k = <<"out", c>> \/ k = <<"tx", c>>
BY DEF Waiting, Leaving

LEMMA PlacesDiffer ==
  \A c, d \in Cores :
    /\ <<"input", c>> # <<"burst", d>> /\ <<"out", c>> # <<"tx", d>>
    /\ c # d => /\ <<"input", c>> # <<"input", d>> /\ <<"burst", c>> # <<"burst", d>>
                /\ <<"out", c>> # <<"out", d>> /\ <<"tx", c>> # <<"tx", d>>
OBVIOUS

\* The places after a step.
LEMMA AfterStep ==
  /\ Uniq(Waiting, Waits)' <=> Uniq(Waiting, Waits')
  /\ Uniq(Leaving, Leaves)' <=> Uniq(Leaving, Leaves')
  /\ \A b : IsWaiting(b)' <=> Has(Waiting, Waits', b)
  /\ \A e : IsLeaving(e)' <=> Has(Leaving, Leaves', e)
BY DEF Uniq, IsWaiting, IsLeaving, Has

LEMMA FiniteParts ==
  /\ \A S \in SUBSET Rus : IsFiniteSet(S) /\ Cardinality(S) \in Nat /\ Cardinality(S) <= NumRus
                           /\ (S # {} => Cardinality(S) >= 1)
  /\ \A S \in SUBSET Bufs : IsFiniteSet(S) /\ Cardinality(S) \in Nat
  /\ Cardinality(Rus) = NumRus
<1>1. IsFiniteSet(Rus) /\ Cardinality(Rus) = NumRus
  <2>1. NumRus - 1 \in Int /\ ~(0 > NumRus - 1) /\ NumRus - 1 - 0 + 1 = NumRus
    BY CoreFacts
  <2> QED BY <2>1, FS_Interval DEF Rus
<1>2. IsFiniteSet(Bufs)
  BY FS_Interval, DownlinkAssumption DEF Bufs
<1>3. ASSUME NEW S \in SUBSET Rus
      PROVE  IsFiniteSet(S) /\ Cardinality(S) \in Nat /\ Cardinality(S) <= NumRus
             /\ (S # {} => Cardinality(S) >= 1)
  <2>1. IsFiniteSet(S) /\ Cardinality(S) \in Nat /\ Cardinality(S) <= NumRus
    BY <1>1, FS_Subset, FS_CardinalityType
  <2>2. S # {} => Cardinality(S) # 0
    BY <2>1, FS_EmptySet
  <2> QED BY <2>1, <2>2
<1>4. ASSUME NEW S \in SUBSET Bufs PROVE IsFiniteSet(S) /\ Cardinality(S) \in Nat
  BY <1>2, FS_Subset, FS_CardinalityType
<1> QED BY <1>1, <1>3, <1>4

\* Sets that f matches one to one have as many elements.
LEMMA Matched ==
  ASSUME NEW D, NEW A, IsFiniteSet(A), NEW f \in [D -> A],
         \A i, j \in D : f[i] = f[j] => i = j, \A a \in A : \E i \in D : f[i] = a
  PROVE  IsFiniteSet(D) /\ Cardinality(D) = Cardinality(A)
<1>1. f \in Injection(D, A) /\ f \in Surjection(D, A)
  BY DEF Injection, IsInjective, Surjection
<1> QED BY <1>1, FS_Injection

\* What a set has lost, when D is matched with what it lost.
Matches(f, D, B) == /\ f \in [D -> B]
                    /\ \A i, j \in D : f[i] = f[j] => i = j
                    /\ \A a \in B : \E i \in D : f[i] = a
LEMMA LostPart ==
  ASSUME NEW A, NEW C, C \in SUBSET A, IsFiniteSet(A), NEW D, NEW f, Matches(f, D, A \ C)
  PROVE  /\ Cardinality(A) \in Nat /\ Cardinality(C) \in Nat /\ Cardinality(D) \in Nat
         /\ Cardinality(A) = Cardinality(C) + Cardinality(D)
<1>1. IsFiniteSet(C) /\ IsFiniteSet(A \ C)
  BY FS_Subset
<1>2. IsFiniteSet(D) /\ Cardinality(D) = Cardinality(A \ C)
  <2>1. PICK B : B = A \ C
    OBVIOUS
  <2>2. /\ f \in [D -> B] /\ IsFiniteSet(B) /\ \A i, j \in D : f[i] = f[j] => i = j
        /\ \A a \in B : \E i \in D : f[i] = a
    BY <1>1, <2>1 DEF Matches
  <2> QED BY <2>1, <2>2, Matched
<1>3. C \cup (A \ C) = A /\ C \cap (A \ C) = {}
  OBVIOUS
<1>4. Cardinality(A) = Cardinality(C) + Cardinality(A \ C) - Cardinality({})
  BY <1>1, <1>3, FS_Union
<1>5. Cardinality(A) \in Nat /\ Cardinality(C) \in Nat /\ Cardinality(D) \in Nat
  BY <1>1, <1>2, FS_CardinalityType
<1> QED BY <1>2, <1>4, <1>5, FS_EmptySet

\* Where the RUs are that an mbuf goes to.
LEMMA Entries ==
  /\ \A e \in Outgoing : e.ru \in Rus /\ e.buf \in Bufs /\ e.clone \in BOOLEAN
                         /\ e = ToRu(e.ru, e.buf, e.clone)
  /\ \A r \in Rus, b \in Bufs, x \in BOOLEAN : ToRu(r, b, x) \in Outgoing
  /\ \A r, b, x : ToRu(r, b, x).ru = r /\ ToRu(r, b, x).buf = b /\ ToRu(r, b, x).clone = x
BY DEF Outgoing, ToRu

-----------------------------------------------------------------------------
(* Steps that move mbufs                                                   *)

\* Nothing new waits, and nothing gets ahead of what was before it.
WaitsShrink ==
  /\ \A x : Has(Waiting, Waits', x) => Has(Waiting, Waits, x)
  /\ \A x, y : Precedes(Waiting, Waits', WaitOrder, x, y) => Precedes(Waiting, Waits, WaitOrder, x, y)
  /\ \A c \in Cores : \A x : Has(WaitPlaces(c), Waits', x) => Has(WaitPlaces(c), Waits, x)
LeavesShrink ==
  /\ \A x : Has(Leaving, Leaves', x) => Has(Leaving, Leaves, x)
  /\ \A x, y : Precedes(Leaving, Leaves', LeaveOrder, x, y) => Precedes(Leaving, Leaves, LeaveOrder, x, y)
  /\ \A c \in Cores : \A x : Has(LeavePlaces(c), Leaves', x) => Has(LeavePlaces(c), Leaves, x)

\* No queue: what goes there is not in a place any more.
Nowhere == <<"nowhere", 0>>
LEMMA NowhereIsNoPlace == Nowhere \notin Waiting /\ Nowhere \notin Leaving
BY DEF Nowhere, Waiting, Leaving

LEMMA Orders ==
  \A c, d \in Cores :
    /\ <<<<"burst", c>>, <<"input", d>>>> \in WaitOrder <=> d = 0 \/ d = c
    /\ <<<<"burst", c>>, <<"burst", d>>>> \notin WaitOrder
    /\ <<<<"input", c>>, <<"input", d>>>> \in WaitOrder <=> c # 0 /\ d = 0
    /\ <<<<"input", c>>, <<"burst", d>>>> \notin WaitOrder
    /\ <<<<"tx", c>>, <<"out", d>>>> \in LeaveOrder <=> c = d
    /\ <<<<"out", c>>, <<"out", d>>>> \notin LeaveOrder
    /\ <<<<"tx", c>>, <<"tx", d>>>> \notin LeaveOrder
    /\ <<<<"out", c>>, <<"tx", d>>>> \notin LeaveOrder
<1> TAKE c \in Cores, d \in Cores
<1>1. <<<<"burst", c>>, <<"input", d>>>> \in WaitOrder <=> d = 0 \/ d = c
  BY DEF WaitOrder, Waiting
<1>2. <<<<"burst", c>>, <<"burst", d>>>> \notin WaitOrder
  BY DEF WaitOrder
<1>3. <<<<"input", c>>, <<"input", d>>>> \in WaitOrder <=> c # 0 /\ d = 0
  BY DEF WaitOrder, Waiting
<1>4. <<<<"input", c>>, <<"burst", d>>>> \notin WaitOrder
  BY DEF WaitOrder
<1>5. <<<<"tx", c>>, <<"out", d>>>> \in LeaveOrder <=> c = d
  BY DEF LeaveOrder, Leaving
<1>6. <<<<"out", c>>, <<"out", d>>>> \notin LeaveOrder /\ <<<<"out", c>>, <<"tx", d>>>> \notin LeaveOrder
  BY DEF LeaveOrder
<1>7. <<<<"tx", c>>, <<"tx", d>>>> \notin LeaveOrder
  BY DEF LeaveOrder
<1> QED BY <1>1, <1>2, <1>3, <1>4, <1>5, <1>6, <1>7

LEMMA PlacesJoined ==
  /\ \A w \in Cores : MayJoin(Waiting, WaitOrder, <<"input", w>>, <<"burst", w>>)
  /\ \A w \in Workers : MayJoin(Waiting, WaitOrder, <<"input", 0>>, <<"input", w>>)
  /\ \A c \in Cores : MayJoin(Leaving, LeaveOrder, <<"out", c>>, <<"tx", c>>)
<1>1. ASSUME NEW w \in Cores PROVE MayJoin(Waiting, WaitOrder, <<"input", w>>, <<"burst", w>>)
  <2>1. ASSUME NEW k \in Waiting, k # <<"input", w>>
        PROVE  /\ <<k, <<"burst", w>>>> \in WaitOrder => <<k, <<"input", w>>>> \in WaitOrder
               /\ <<<<"burst", w>>, k>> \in WaitOrder => <<<<"input", w>>, k>> \in WaitOrder
    <3>1. PICK d \in Cores : k = <<"input", d>> \/ k = <<"burst", d>>
      BY PlacesOfCores
    <3>2. CASE k = <<"input", d>>
      <4>1. d # w
        BY <2>1, <3>2
      <4> QED BY <3>2, <4>1, Orders
    <3>3. CASE k = <<"burst", d>>
      BY <3>3, Orders
    <3> QED BY <3>1, <3>2, <3>3
  <2> QED BY <2>1, Orders DEF MayJoin
<1>2. ASSUME NEW w \in Workers PROVE MayJoin(Waiting, WaitOrder, <<"input", 0>>, <<"input", w>>)
  <2>1. w \in Cores /\ w # 0 /\ 0 \in Cores
    BY CoreFacts
  <2>2. ASSUME NEW k \in Waiting, k # <<"input", 0>>
        PROVE  /\ <<k, <<"input", w>>>> \in WaitOrder => <<k, <<"input", 0>>>> \in WaitOrder
               /\ <<<<"input", w>>, k>> \in WaitOrder => <<<<"input", 0>>, k>> \in WaitOrder
    <3>1. PICK d \in Cores : k = <<"input", d>> \/ k = <<"burst", d>>
      BY PlacesOfCores
    <3>2. CASE k = <<"input", d>>
      <4>1. d # 0
        BY <2>2, <3>2
      <4> QED BY <2>1, <3>2, <4>1, Orders
    <3>3. CASE k = <<"burst", d>>
      BY <2>1, <3>3, Orders
    <3> QED BY <3>1, <3>2, <3>3
  <2> QED BY <2>1, <2>2, Orders DEF MayJoin
<1>3. ASSUME NEW c \in Cores PROVE MayJoin(Leaving, LeaveOrder, <<"out", c>>, <<"tx", c>>)
  <2>1. ASSUME NEW k \in Leaving, k # <<"out", c>>
        PROVE  /\ <<k, <<"tx", c>>>> \in LeaveOrder => <<k, <<"out", c>>>> \in LeaveOrder
               /\ <<<<"tx", c>>, k>> \in LeaveOrder => <<<<"out", c>>, k>> \in LeaveOrder
    <3>1. PICK d \in Cores : k = <<"out", d>> \/ k = <<"tx", d>>
      BY PlacesOfCores
    <3>2. CASE k = <<"out", d>>
      <4>1. d # c
        BY <2>1, <3>2
      <4> QED BY <3>2, <4>1, Orders
    <3>3. CASE k = <<"tx", d>>
      BY <3>3, Orders
    <3> QED BY <3>1, <3>2, <3>3
  <2> QED BY <2>1, Orders DEF MayJoin
<1> QED BY <1>1, <1>2, <1>3

LEMMA WaitsShrunk ==
  ASSUME TypeOK, NEW s \in Waiting, NEW t, s # t,
         NEW n \in 0 .. Len(Waits[s]), NEW m \in 0 .. n,
         \/ \E w \in Cores : s = <<"input", w>> /\ t = <<"burst", w>>
         \/ \E w \in Workers : s = <<"input", 0>> /\ t = <<"input", w>>
         \/ t = Nowhere /\ m = 0,
         Waits' = MovedFrom(Waits, s, t, n, m)
  PROVE  WaitsShrink
<1>1. Waits \in [Waiting -> Seq(Bufs)]
  BY Queues
<1>2. t \in Waiting \/ (t = Nowhere /\ m = 0)
  BY CoreFacts DEF Waiting
<1>3. Follows(Waiting, Waits, s, t, n, m, Waits')
  BY <1>1, <1>2, Moved
<1>4. <<s, s>> \notin WaitOrder
  BY DEF WaitOrder
<1>5. t \in Waiting => MayJoin(Waiting, WaitOrder, s, t)
  BY PlacesJoined, NowhereIsNoPlace
<1>6. ASSUME NEW c \in Cores, NEW x, Has(WaitPlaces(c), Waits', x)
      PROVE  Has(WaitPlaces(c), Waits, x)
  <2>1. WaitPlaces(c) \in SUBSET Waiting
    BY CoreFacts DEF WaitPlaces, Waiting
  <2>2. t \in WaitPlaces(c) => s \in WaitPlaces(c)
    <3>1. CASE \E w \in Cores : s = <<"input", w>> /\ t = <<"burst", w>>
      BY <3>1 DEF WaitPlaces
    <3>2. CASE s = <<"input", 0>>
      BY <3>2 DEF WaitPlaces
    <3>3. CASE t = Nowhere
      BY <3>3, <2>1, NowhereIsNoPlace
    <3> QED BY <3>1, <3>2, <3>3
  <2> QED BY <1>1, <1>2, <1>6, <2>1, <2>2, MovedPart
<1> QED BY <1>3, <1>4, <1>5, <1>6 DEF Follows, WaitsShrink

LEMMA LeavesShrunk ==
  ASSUME TypeOK, NEW s \in Leaving, NEW t, s # t,
         NEW n \in 0 .. Len(Leaves[s]), NEW m \in 0 .. n,
         \/ \E c \in Cores : s = <<"out", c>> /\ t = <<"tx", c>>
         \/ t = Nowhere /\ m = 0,
         Leaves' = MovedFrom(Leaves, s, t, n, m)
  PROVE  LeavesShrink
<1>1. Leaves \in [Leaving -> Seq(Outgoing)]
  BY Queues
<1>2. t \in Leaving \/ (t = Nowhere /\ m = 0)
  BY DEF Leaving
<1>3. Follows(Leaving, Leaves, s, t, n, m, Leaves')
  BY <1>1, <1>2, Moved
<1>4. <<s, s>> \notin LeaveOrder
  BY DEF LeaveOrder
<1>5. t \in Leaving => MayJoin(Leaving, LeaveOrder, s, t)
  BY PlacesJoined, NowhereIsNoPlace
<1>6. ASSUME NEW c \in Cores, NEW x, Has(LeavePlaces(c), Leaves', x)
      PROVE  Has(LeavePlaces(c), Leaves, x)
  <2>1. LeavePlaces(c) \in SUBSET Leaving
    BY DEF LeavePlaces, Leaving
  <2>2. t \in LeavePlaces(c) => s \in LeavePlaces(c)
    <3>1. CASE \E d \in Cores : s = <<"out", d>> /\ t = <<"tx", d>>
      BY <3>1 DEF LeavePlaces
    <3>2. CASE t = Nowhere
      BY <3>2, <2>1, NowhereIsNoPlace
    <3> QED BY <3>1, <3>2
  <2> QED BY <1>1, <1>2, <1>6, <2>1, <2>2, MovedPart
<1> QED BY <1>3, <1>4, <1>5, <1>6 DEF Follows, LeavesShrink

PartsInv == PlacesInv /\ CountsInv /\ ContentInv

LEMMA LeavesKept ==
  ASSUME Leaves' = Leaves
  PROVE  /\ Uniq(Leaving, Leaves)' <=> Uniq(Leaving, Leaves)
         /\ \A e : IsLeaving(e)' <=> IsLeaving(e)
         /\ \A b : RusOf(b)' = RusOf(b)
         /\ \A r : ClonedFor(r)' = ClonedFor(r)
<1>1. \A e : IsLeaving(e)' <=> IsLeaving(e)
  BY AfterStep DEF IsLeaving
<1>2. \A b : RusOf(b)' = RusOf(b)
  BY <1>1 DEF RusOf
<1>3. \A r : ClonedFor(r)' = ClonedFor(r)
  BY <1>1 DEF ClonedFor
<1> QED BY <1>1, <1>2, <1>3, AfterStep

\* Mbufs move from one place where they wait to another.  Those that get lost
\* on the way are the leak of a build, or of a program, that may leak.
LEMMA WaitsMoved ==
  ASSUME TypeOK, PartsInv, NEW s \in Waiting, NEW t, s # t,
         NEW n \in 0 .. Len(Waits[s]), NEW m \in 0 .. n, t \in Waiting \/ m = 0,
         Waits' = MovedFrom(Waits, s, t, n, m), Leaves' = Leaves,
         UNCHANGED <<memory, received>>, m < n => MayLeak', MayLeak => MayLeak', ~alive => ~alive'
  PROVE  PartsInv'
<1>1. Waits \in [Waiting -> Seq(Bufs)]
  BY Queues
<1>2. /\ \A b : IsWaiting(b)' => IsWaiting(b)
      /\ \A b : IsWaiting(b) => IsWaiting(b)' \/ \E j \in m + 1 .. n : Waits[s][j] = b
      /\ Uniq(Waiting, Waits)'
  <2>1. Follows(Waiting, Waits, s, t, n, m, MovedFrom(Waits, s, t, n, m))
    BY <1>1, Moved
  <2>2. /\ \A x : Has(Waiting, Waits', x) => Has(Waiting, Waits, x)
        /\ \A x : Has(Waiting, Waits, x) =>
             Has(Waiting, Waits', x) \/ \E j \in m + 1 .. n : Waits[s][j] = x
        /\ Uniq(Waiting, Waits) => Uniq(Waiting, Waits')
    BY <2>1 DEF Follows
  <2> QED BY <2>2, AfterStep DEF IsWaiting, PartsInv, PlacesInv
<1>3. /\ Uniq(Leaving, Leaves)'
      /\ \A e : IsLeaving(e)' <=> IsLeaving(e)
      /\ \A b : RusOf(b)' = RusOf(b)
      /\ \A r : ClonedFor(r)' = ClonedFor(r)
  BY LeavesKept DEF PartsInv, PlacesInv
<1>4. PlacesInv'
  BY <1>2, <1>3 DEF PartsInv, PlacesInv
<1>5. \A b : Live(b)' => Live(b)
  BY <1>2, <1>3 DEF Live
<1>6. CountsInv'
  <2>1. ASSUME NEW b \in Bufs
        PROVE  /\ IsWaiting(b)' => refcnt'[b] = 1
               /\ ~IsWaiting(b)' => \/ refcnt'[b] = Cardinality(RusOf(b)')
                                    \/ MayLeak' /\ refcnt'[b] = Cardinality(RusOf(b)') + 1
    <3>1. refcnt' = refcnt /\ m \in Int /\ n \in Int
      BY DEF memory
    <3>2. IsWaiting(b) /\ ~IsWaiting(b)' => m < n
      BY <1>2, <3>1
    <3>3. IsWaiting(b) => Cardinality(RusOf(b)) = 0
      BY FS_EmptySet DEF PartsInv, PlacesInv
    <3> QED BY <1>2, <1>3, <3>1, <3>2, <3>3 DEF PartsInv, CountsInv
  <2>2. \A r \in Rus : \/ clones'[r] + 2 * Cardinality(ClonedFor(r)') = NumClones
                       \/ ~alive' /\ clones'[r] + 2 * Cardinality(ClonedFor(r)') < NumClones
    BY <1>3 DEF memory, PartsInv, CountsInv
  <2> QED BY <2>1, <2>2 DEF CountsInv
<1>7. ContentInv'
  BY <1>3, <1>5 DEF memory, PartsInv, ContentInv
<1> QED BY <1>4, <1>6, <1>7 DEF PartsInv

\* A free mbuf is nowhere.
LEMMA FreeIsNotLive ==
  ASSUME PartsInv, NEW b \in Bufs, refcnt[b] = 0
  PROVE  ~Live(b)
<1>1. RusOf(b) \in SUBSET Rus
  BY DEF RusOf
<1>2. Cardinality(RusOf(b)) \in Nat /\ (Cardinality(RusOf(b)) = 0 => RusOf(b) = {})
  BY <1>1, FiniteParts, FS_EmptySet
<1>3. ~IsWaiting(b) /\ Cardinality(RusOf(b)) = 0
  BY <1>2 DEF PartsInv, CountsInv
<1> QED BY <1>2, <1>3 DEF Live

\* The RUs that the packets of v are for, by mbuf; the mbufs they are clones of.
Users(v, b) == {r \in Rus : \E clone \in BOOLEAN : Within(v, ToRu(r, b, clone))}
ClonedBy(v, r) == {b \in Bufs : Within(v, ToRu(r, b, TRUE))}
OncePerRu(v) == \A i, j \in 1 .. Len(v) : v[i].ru = v[j].ru => i = j

LEMMA WithinSeq ==
  ASSUME NEW S, NEW v \in Seq(S), NEW x, Within(v, x)
  PROVE  x \in S
BY DEF Within

\* A core is done with mbuf b: it frees it, or sends it on, and copies of it, to
\* one RU each.
Sends(b, v) ==
  /\ OncePerRu(v)
  /\ \A e \in Outgoing : Within(v, e) =>
       /\ e.buf = b \/ refcnt[e.buf] = 0
       /\ content'[e.buf] = content[b] /\ content[b].kind \in {"control", "iq"}
Counts(b, v) ==
  /\ \A d \in Bufs : d # b /\ refcnt[d] # 0 => refcnt'[d] = refcnt[d] /\ content'[d] = content[d]
  /\ \A d \in Bufs : d = b \/ refcnt[d] = 0 =>
       \/ refcnt'[d] = Cardinality(Users(v, d))
       \/ MayLeak' /\ refcnt'[d] = Cardinality(Users(v, d)) + 1
  /\ \A r \in Rus : \/ clones'[r] + 2 * Cardinality(ClonedBy(v, r)) = clones[r]
                    \/ ~alive' /\ clones'[r] + 2 * Cardinality(ClonedBy(v, r)) < clones[r]
\* Core c is done with the next mbuf of its burst.
SendsOn(c) == \E b \in Bufs :
  /\ Handles(c, b)
  /\ \E v \in Seq(Outgoing) : /\ Sends(b, v) /\ Counts(b, v) /\ Len(v) <= NumRus
                              /\ mx_tx_bufs' = [mx_tx_bufs EXCEPT ![c] = @ \o v]
                              /\ Leaves' = Extended(Leaves, <<"out", c>>, v)

LEMMA BurstHandled ==
  ASSUME TypeOK, PartsInv, NEW c \in Cores, mx_bufs[c] # <<>>, NEW b, b = Head(mx_bufs[c]),
         NEW v \in Seq(Outgoing), Sends(b, v), Counts(b, v),
         Waits' = MovedFrom(Waits, <<"burst", c>>, Nowhere, 1, 0),
         Leaves' = Extended(Leaves, <<"out", c>>, v),
         received' = received, MayLeak => MayLeak', ~alive => ~alive', clones' \in [Rus -> Nat]
  PROVE  PartsInv'
<1>1. /\ Waits \in [Waiting -> Seq(Bufs)] /\ Leaves \in [Leaving -> Seq(Outgoing)]
      /\ <<"burst", c>> \in Waiting /\ Waits[<<"burst", c>>] = mx_bufs[c]
      /\ <<"out", c>> \in Leaving
  BY Queues
<1>2. /\ b \in Bufs /\ Len(mx_bufs[c]) \in Nat /\ 1 \in 1 .. Len(mx_bufs[c]) /\ mx_bufs[c][1] = b
  <2>1. mx_bufs[c] \in Seq(Bufs)
    BY DEF TypeOK
  <2> QED BY <2>1
<1>3. IsWaiting(b)
  BY <1>1, <1>2 DEF IsWaiting, Has
<1>4. /\ \A d : IsWaiting(d)' => IsWaiting(d)
      /\ \A d : IsWaiting(d) /\ d # b => IsWaiting(d)'
      /\ ~IsWaiting(b)'
      /\ Uniq(Waiting, Waits)'
  <2>1. 1 \in 0 .. Len(Waits[<<"burst", c>>]) /\ 0 \in 0 .. 1 /\ <<"burst", c>> # Nowhere
    BY <1>1, <1>2 DEF Nowhere
  <2>2. Follows(Waiting, Waits, <<"burst", c>>, Nowhere, 1, 0, Waits')
    BY <1>1, <2>1, Moved
  <2>3. \A j \in 0 + 1 .. 1 : Waits[<<"burst", c>>][j] = b
    BY <1>1, <1>2
  <2>4. 1 \in 0 + 1 .. 1
    OBVIOUS
  <2>5. /\ \A x : Has(Waiting, Waits', x) => Has(Waiting, Waits, x)
        /\ \A x : Has(Waiting, Waits, x) => Has(Waiting, Waits', x) \/ x = b
        /\ Uniq(Waiting, Waits')
        /\ ~Has(Waiting, Waits', b)
    BY <2>2, <2>3, <2>4 DEF Follows, PartsInv, PlacesInv
  <2> QED BY <2>5, AfterStep DEF IsWaiting
<1>5. \A e : Within(v, e) => e \in Outgoing
  BY WithinSeq
<1>6. \A d \in Bufs : d = b \/ refcnt[d] = 0 => RusOf(d) = {}
  BY <1>3, FreeIsNotLive DEF Live, PartsInv, PlacesInv
<1>7. \A r \in Rus, d \in Bufs, x \in BOOLEAN : IsLeaving(ToRu(r, d, x)) => r \in RusOf(d)
  BY DEF RusOf
<1>8. \A e : Within(v, e) => ~IsLeaving(e)
  BY <1>5, <1>6, <1>7, Entries DEF Sends
<1>9. /\ \A e : IsLeaving(e)' <=> IsLeaving(e) \/ Within(v, e)
      /\ Uniq(Leaving, Leaves)'
  <2>1. Adds(Leaving, Leaves, <<"out", c>>, v, Leaves')
    BY <1>1, JoinedQueue
  <2>2. Distinct(v)
    BY DEF Sends, OncePerRu, Distinct
  <2>3. \A e : Within(v, e) => ~Has(Leaving, Leaves, e)
    BY <1>8 DEF IsLeaving
  <2>4. /\ \A e : Has(Leaving, Leaves', e) <=> Has(Leaving, Leaves, e) \/ Within(v, e)
        /\ Uniq(Leaving, Leaves')
    BY <2>1, <2>2, <2>3 DEF Adds, PartsInv, PlacesInv
  <2> QED BY <2>4, AfterStep DEF IsLeaving
<1>10. \A d : RusOf(d)' = RusOf(d) \cup Users(v, d)
  BY <1>9 DEF RusOf, Users
<1>11. \A d \in Bufs : Users(v, d) # {} => d = b \/ refcnt[d] = 0
  BY Entries DEF Users, Sends
<1>12. PlacesInv'
  <2>1. ASSUME NEW d \in Bufs, NEW r \in Rus, IsLeaving(ToRu(r, d, TRUE))',
               IsLeaving(ToRu(r, d, FALSE))'
        PROVE  FALSE
    <3>1. CASE IsLeaving(ToRu(r, d, TRUE)) /\ IsLeaving(ToRu(r, d, FALSE))
      BY <3>1 DEF PartsInv, PlacesInv
    <3>2. CASE Within(v, ToRu(r, d, TRUE)) /\ Within(v, ToRu(r, d, FALSE))
      <4>1. PICK i \in 1 .. Len(v) : v[i] = ToRu(r, d, TRUE)
        BY <3>2 DEF Within
      <4>2. PICK j \in 1 .. Len(v) : v[j] = ToRu(r, d, FALSE)
        BY <3>2 DEF Within
      <4>3. v[i].ru = r /\ v[i].buf = d /\ v[j].ru = r /\ v[j].buf = d /\ v[i] # v[j]
        BY <4>1, <4>2 DEF ToRu
      <4>4. i = j
        BY <4>3 DEF Sends, OncePerRu
      <4> QED BY <4>3, <4>4
    <3>3. ASSUME NEW x \in BOOLEAN, NEW y \in BOOLEAN,
                 IsLeaving(ToRu(r, d, x)), Within(v, ToRu(r, d, y))
          PROVE  FALSE
      <4>1. r \in RusOf(d) /\ r \in Users(v, d)
        BY <3>3 DEF RusOf, Users
      <4> QED BY <4>1, <1>6, <1>11
    <3> QED BY <2>1, <1>9, <3>1, <3>2, <3>3
  <2>2. ASSUME NEW d \in Bufs, IsWaiting(d)' PROVE RusOf(d)' = {}
    <3>1. IsWaiting(d) /\ d # b
      BY <2>2, <1>4
    <3>2. RusOf(d) = {} /\ refcnt[d] = 1
      BY <3>1 DEF PartsInv, PlacesInv, CountsInv
    <3> QED BY <3>1, <3>2, <1>10, <1>11
  <2> QED BY <1>4, <1>9, <2>1, <2>2 DEF PlacesInv
<1>13. CountsInv'
  <2>1. ASSUME NEW d \in Bufs
        PROVE  /\ IsWaiting(d)' => refcnt'[d] = 1
               /\ ~IsWaiting(d)' => \/ refcnt'[d] = Cardinality(RusOf(d)')
                                    \/ MayLeak' /\ refcnt'[d] = Cardinality(RusOf(d)') + 1
    <3>1. CASE d = b \/ refcnt[d] = 0
      <4>1. RusOf(d)' = Users(v, d)
        BY <3>1, <1>6, <1>10
      <4>2. ~IsWaiting(d)'
        BY <3>1, <1>4, FreeIsNotLive DEF Live
      <4> QED BY <3>1, <4>1, <4>2 DEF Counts
    <3>2. CASE d # b /\ refcnt[d] # 0
      <4>1. Users(v, d) = {}
        BY <3>2, <1>11
      <4>2. RusOf(d)' = RusOf(d)
        BY <4>1, <1>10
      <4>3. refcnt'[d] = refcnt[d]
        BY <3>2 DEF Counts
      <4> QED BY <3>2, <4>2, <4>3, <1>4 DEF PartsInv, CountsInv
    <3> QED BY <3>1, <3>2
  <2>2. ASSUME NEW r \in Rus 
        PROVE  \/ clones'[r] + 2 * Cardinality(ClonedFor(r)') = NumClones
               \/ ~alive' /\ clones'[r] + 2 * Cardinality(ClonedFor(r)') < NumClones
    <3>1. ClonedFor(r)' = ClonedFor(r) \cup ClonedBy(v, r)
      BY <1>9 DEF ClonedFor, ClonedBy
    <3>2. ClonedFor(r) \cap ClonedBy(v, r) = {}
      BY <1>8 DEF ClonedFor, ClonedBy
    <3>3. ClonedFor(r) \in SUBSET Bufs /\ ClonedBy(v, r) \in SUBSET Bufs
      BY DEF ClonedFor, ClonedBy
    <3>4. /\ IsFiniteSet(ClonedFor(r)) /\ Cardinality(ClonedFor(r)) \in Nat
          /\ IsFiniteSet(ClonedBy(v, r)) /\ Cardinality(ClonedBy(v, r)) \in Nat
      BY <3>3, FiniteParts
    <3>5. Cardinality(ClonedFor(r) \cup ClonedBy(v, r))
            = Cardinality(ClonedFor(r)) + Cardinality(ClonedBy(v, r))
      <4>1. Cardinality(ClonedFor(r) \cup ClonedBy(v, r))
              = Cardinality(ClonedFor(r)) + Cardinality(ClonedBy(v, r)) - Cardinality({})
        BY <3>2, <3>4, FS_Union
      <4> QED BY <4>1, <3>4, FS_EmptySet
    <3>6. \/ clones[r] + 2 * Cardinality(ClonedFor(r)) = NumClones
          \/ ~alive' /\ clones[r] + 2 * Cardinality(ClonedFor(r)) < NumClones
      BY DEF PartsInv, CountsInv
    <3>7. \/ clones'[r] + 2 * Cardinality(ClonedBy(v, r)) = clones[r]
          \/ ~alive' /\ clones'[r] + 2 * Cardinality(ClonedBy(v, r)) < clones[r]
      BY DEF Counts
    <3>8. clones'[r] \in Nat /\ clones[r] \in Nat /\ NumClones \in Nat
      BY DownlinkAssumption DEF TypeOK
    <3>9. Cardinality(ClonedFor(r)') = Cardinality(ClonedFor(r)) + Cardinality(ClonedBy(v, r))
      BY <3>1, <3>5
    <3> QED BY <3>4, <3>6, <3>7, <3>8, <3>9
  <2> QED BY <2>1, <2>2 DEF CountsInv
<1>14. ContentInv'
  <2>1. ASSUME NEW d \in Bufs, Live(d)'
        PROVE  /\ content'[d] \in Packet /\ content'[d].id \in 1 .. Len(received')
               /\ content'[d] = received'[content'[d].id]
               /\ RusOf(d)' # {} => content'[d].kind \in {"control", "iq"}
    <3>1. CASE Users(v, d) # {}
      <4>1. content'[d] = content[b] /\ content[b].kind \in {"control", "iq"}
        BY <3>1, Entries DEF Users, Sends
      <4>2. Live(b)
        BY <1>3 DEF Live
      <4> QED BY <4>1, <4>2, <1>2 DEF PartsInv, ContentInv
    <3>2. CASE Users(v, d) = {}
      <4>1. Live(d) /\ RusOf(d)' = RusOf(d)
        BY <2>1, <3>2, <1>4, <1>10 DEF Live
      <4>2. d # b
        BY <2>1, <3>2, <1>2, <1>4, <1>6, <1>10 DEF Live
      <4>3. refcnt[d] # 0
        BY <4>1, FreeIsNotLive
      <4>4. content'[d] = content[d]
        BY <4>2, <4>3 DEF Counts
      <4> QED BY <4>1, <4>4 DEF PartsInv, ContentInv
    <3> QED BY <3>1, <3>2
  <2>2. \A d \in Bufs : RusOf(d)' # {} => Live(d)'
    BY DEF Live
  <2> QED BY <2>1, <2>2 DEF ContentInv
<1> QED BY <1>12, <1>13, <1>14 DEF PartsInv

\* Packets leave a queue, the first m for another; the rest is freed.
LEMMA PacketsFreed ==
  ASSUME TypeOK, PartsInv, NEW s \in Leaving, NEW t, s # t,
         NEW n \in 0 .. Len(Leaves[s]), NEW m \in 0 .. n, t \in Leaving \/ m = 0,
         Leaves' = MovedFrom(Leaves, s, t, n, m), Waits' = Waits,
         FreePackets(SubSeq(Leaves[s], m + 1, n)),
         UNCHANGED <<content, received>>, MayLeak => MayLeak', ~alive => ~alive'
  PROVE  PartsInv' /\ refcnt' \in [Bufs -> 0 .. NumRus] /\ clones' \in [Rus -> 0 .. NumClones]
<1> DEFINE S == SubSeq(Leaves[s], m + 1, n)
<1>1. Leaves \in [Leaving -> Seq(Outgoing)]
  BY Queues
<1>2. /\ \A e : IsLeaving(e)' => IsLeaving(e)
      /\ \A e : IsLeaving(e) => IsLeaving(e)' \/ \E j \in m + 1 .. n : Leaves[s][j] = e
      /\ \A j \in m + 1 .. n : ~Has(Leaving, Leaves', Leaves[s][j])
      /\ Uniq(Leaving, Leaves)'
  <2>1. Follows(Leaving, Leaves, s, t, n, m, MovedFrom(Leaves, s, t, n, m))
    BY <1>1, Moved
  <2>2. /\ \A x : Has(Leaving, Leaves', x) => Has(Leaving, Leaves, x)
        /\ \A x : Has(Leaving, Leaves, x) =>
             Has(Leaving, Leaves', x) \/ \E j \in m + 1 .. n : Leaves[s][j] = x
        /\ \A j \in m + 1 .. n : ~Has(Leaving, Leaves', Leaves[s][j])
        /\ Uniq(Leaving, Leaves')
    BY <2>1 DEF Follows, PartsInv, PlacesInv
  <2> QED BY <2>2, AfterStep DEF IsLeaving
<1>3. /\ DOMAIN S = 1 .. n - m /\ S \in Seq(Outgoing)
      /\ \A i \in 1 .. n - m : S[i] = Leaves[s][i + m] /\ i + m \in m + 1 .. n
                               /\ i + m \in 1 .. Len(Leaves[s]) /\ S[i] \in Outgoing
      /\ \A j \in m + 1 .. n : j - m \in 1 .. n - m /\ (j - m) + m = j
  <2>1. Leaves[s] \in Seq(Outgoing) /\ Len(Leaves[s]) \in Nat /\ n \in Nat /\ m \in Nat
        /\ m <= n /\ n <= Len(Leaves[s])
    BY <1>1
  <2>2. S \in Seq(Outgoing) /\ Len(S) = n - m /\ \A i \in 1 .. n - m : S[i] = Leaves[s][i + m]
    BY <2>1
  <2>3. \A i \in 1 .. n - m : i + m \in m + 1 .. n /\ i + m \in 1 .. Len(Leaves[s])
    BY <2>1
  <2>4. \A j \in m + 1 .. n : j - m \in 1 .. n - m /\ (j - m) + m = j
    BY <2>1
  <2> HIDE DEF S
  <2>5. DOMAIN S = 1 .. n - m /\ \A i \in 1 .. n - m : S[i] \in Outgoing
    BY <2>2
  <2> QED BY <2>2, <2>3, <2>4, <2>5
<1>4. /\ refcnt' = [b \in Bufs |-> refcnt[b] - RefsTo(b, S)]
      /\ clones' = [r \in Rus |-> clones[r] + 2 * ClonesOf(r, S)]
  BY DEF FreePackets
<1> HIDE DEF S
<1>5. ASSUME NEW i \in DOMAIN S
      PROVE  S[i] \in Outgoing /\ IsLeaving(S[i]) /\ ~Has(Leaving, Leaves', S[i])
  <2>1. /\ S[i] \in Outgoing /\ S[i] = Leaves[s][i + m]
        /\ i + m \in m + 1 .. n /\ i + m \in 1 .. Len(Leaves[s])
    BY <1>3
  <2>2. IsLeaving(S[i])
    BY <2>1 DEF IsLeaving, Has
  <2>3. ~Has(Leaving, Leaves', Leaves[s][i + m])
    BY <2>1, <1>2
  <2> QED BY <2>1, <2>2, <2>3
<1>6. \A e : IsLeaving(e) /\ ~IsLeaving(e)' => \E i \in DOMAIN S : S[i] = e
  <2> TAKE e
  <2> HAVE IsLeaving(e) /\ ~IsLeaving(e)'
  <2>1. PICK j \in m + 1 .. n : Leaves[s][j] = e
    BY <1>2
  <2>2. j - m \in DOMAIN S /\ S[j - m] = e
    BY <2>1, <1>3
  <2> QED BY <2>2
<1>7. \A i, j \in DOMAIN S : S[i] = S[j] => i = j
  <2> SUFFICES ASSUME NEW i \in DOMAIN S, NEW j \in DOMAIN S, S[i] = S[j] PROVE i = j
    OBVIOUS
  <2>1. /\ i + m \in 1 .. Len(Leaves[s]) /\ j + m \in 1 .. Len(Leaves[s])
        /\ Leaves[s][i + m] = Leaves[s][j + m]
    BY <1>3
  <2>2. i + m = j + m
    BY <2>1 DEF PartsInv, PlacesInv, Uniq
  <2>3. i \in Int /\ j \in Int /\ m \in Int
    BY <1>3
  <2> QED BY <2>2, <2>3
<1>8. \A i, j \in DOMAIN S : S[i].ru = S[j].ru /\ S[i].buf = S[j].buf => i = j
  <2> SUFFICES ASSUME NEW i \in DOMAIN S, NEW j \in DOMAIN S,
                      S[i].ru = S[j].ru, S[i].buf = S[j].buf
               PROVE  i = j
    OBVIOUS
  <2>1. IsLeaving(S[i]) /\ IsLeaving(S[j]) /\ S[i] \in Outgoing /\ S[j] \in Outgoing
    BY <1>5
  <2>2. S[i] = ToRu(S[i].ru, S[i].buf, S[i].clone) /\ S[j] = ToRu(S[i].ru, S[i].buf, S[j].clone)
        /\ S[i].ru \in Rus /\ S[i].buf \in Bufs /\ S[i].clone \in BOOLEAN /\ S[j].clone \in BOOLEAN
    BY <2>1, Entries
  <2>3. ~(IsLeaving(ToRu(S[i].ru, S[i].buf, TRUE)) /\ IsLeaving(ToRu(S[i].ru, S[i].buf, FALSE)))
    BY <2>2 DEF PartsInv, PlacesInv
  <2>4. S[i] = S[j]
    <3>1. CASE S[i].clone = S[j].clone
      BY <3>1, <2>2
    <3>2. CASE S[i].clone = TRUE /\ S[j].clone = FALSE
      BY <3>2, <2>1, <2>2, <2>3
    <3>3. CASE S[i].clone = FALSE /\ S[j].clone = TRUE
      BY <3>3, <2>1, <2>2, <2>3
    <3> QED BY <3>1, <3>2, <3>3, <2>2
  <2> QED BY <2>4, <1>7
<1>9. \A b : RusOf(b)' \in SUBSET RusOf(b) /\ RusOf(b) \in SUBSET Rus
  BY <1>2 DEF RusOf
<1>10. \A r : ClonedFor(r)' \in SUBSET ClonedFor(r) /\ ClonedFor(r) \in SUBSET Bufs
  BY <1>2 DEF ClonedFor
<1>11. \A r \in Rus, b \in Bufs, x \in BOOLEAN : IsLeaving(ToRu(r, b, x)) => r \in RusOf(b)
  BY DEF RusOf
<1>12. \A r \in Rus, b \in Bufs : r \in RusOf(b) \ RusOf(b)' <=>
         \E i \in DOMAIN S : S[i].buf = b /\ S[i].ru = r
  <2> SUFFICES ASSUME NEW r \in Rus, NEW b \in Bufs
               PROVE  r \in RusOf(b) \ RusOf(b)' <=>
                        \E i \in DOMAIN S : S[i].buf = b /\ S[i].ru = r
    OBVIOUS
  <2>1. ASSUME r \in RusOf(b) \ RusOf(b)'
        PROVE  \E i \in DOMAIN S : S[i].buf = b /\ S[i].ru = r
    <3>1. PICK x \in BOOLEAN : IsLeaving(ToRu(r, b, x))
      BY <2>1 DEF RusOf
    <3>2. ~IsLeaving(ToRu(r, b, x))'
      BY <2>1 DEF RusOf
    <3> QED BY <3>1, <3>2, <1>6, Entries
  <2>2. ASSUME NEW i \in DOMAIN S, S[i].buf = b, S[i].ru = r
        PROVE  r \in RusOf(b) \ RusOf(b)'
    <3>1. PICK x \in BOOLEAN : S[i] = ToRu(r, b, x)
      BY <2>2, <1>5, Entries
    <3>2. IsLeaving(ToRu(r, b, x)) /\ ~IsLeaving(ToRu(r, b, x))'
      BY <3>1, <1>5, AfterStep
    <3>3. r \in RusOf(b)
      BY <3>2, <1>11
    <3>4. ASSUME NEW y \in BOOLEAN, IsLeaving(ToRu(r, b, y))' PROVE FALSE
      <4>1. IsLeaving(ToRu(r, b, y))
        BY <3>4, <1>2
      <4>2. x # y
        BY <3>2, <3>4
      <4>3. (x = TRUE /\ y = FALSE) \/ (x = FALSE /\ y = TRUE)
        BY <4>2
      <4>4. ~(IsLeaving(ToRu(r, b, TRUE)) /\ IsLeaving(ToRu(r, b, FALSE)))
        BY DEF PartsInv, PlacesInv
      <4> QED BY <4>1, <4>3, <4>4, <3>2
    <3> QED BY <3>3, <3>4 DEF RusOf
  <2> QED BY <2>1, <2>2
<1>13. ASSUME NEW b \in Bufs
       PROVE  /\ Cardinality(RusOf(b)') \in Nat /\ RefsTo(b, S) \in Nat
              /\ Cardinality(RusOf(b)) = Cardinality(RusOf(b)') + RefsTo(b, S)
  <2> DEFINE D == {i \in DOMAIN S : S[i].buf = b}
             C == RusOf(b)'
             f == [i \in D |-> S[i].ru]
  <2>1. f \in [D -> RusOf(b) \ C]
    BY <1>5, <1>12, Entries
  <2>2. \A i, j \in D : f[i] = f[j] => i = j
    BY <1>8
  <2>3. \A r \in RusOf(b) \ C : \E i \in D : f[i] = r
    BY <1>9, <1>12
  <2>4. C \in SUBSET RusOf(b) /\ IsFiniteSet(RusOf(b))
    BY <1>9, FiniteParts
  <2> HIDE DEF D, C, f
  <2>5. /\ Cardinality(C) \in Nat /\ Cardinality(D) \in Nat
        /\ Cardinality(RusOf(b)) = Cardinality(C) + Cardinality(D)
    <3>1. Matches(f, D, RusOf(b) \ C)
      BY <2>1, <2>2, <2>3 DEF Matches
    <3> QED BY <3>1, <2>4, LostPart
  <2> QED BY <2>5 DEF D, C, RefsTo
<1>14. ASSUME NEW r \in Rus
       PROVE  /\ Cardinality(ClonedFor(r)') \in Nat /\ ClonesOf(r, S) \in Nat
              /\ Cardinality(ClonedFor(r)) = Cardinality(ClonedFor(r)') + ClonesOf(r, S)
  <2> DEFINE D == {i \in DOMAIN S : IsClone(S[i], r)}
             C == ClonedFor(r)'
             f == [i \in D |-> S[i].buf]
  <2>1. \A i \in D : S[i] = ToRu(r, S[i].buf, TRUE) /\ S[i].buf \in Bufs
    BY <1>5, Entries DEF IsClone
  <2>2. f \in [D -> ClonedFor(r) \ C]
    <3> SUFFICES ASSUME NEW i \in D PROVE S[i].buf \in ClonedFor(r) \ C
      OBVIOUS
    <3>1. PICK b \in Bufs : b = S[i].buf
      BY <2>1
    <3>2. S[i] = ToRu(r, b, TRUE)
      BY <3>1, <2>1
    <3>3. IsLeaving(ToRu(r, b, TRUE)) /\ ~IsLeaving(ToRu(r, b, TRUE))'
      BY <3>2, <1>5, AfterStep
    <3>4. b \in ClonedFor(r) /\ b \notin ClonedFor(r)'
      BY <3>3 DEF ClonedFor
    <3> QED BY <3>1, <3>4
  <2>3. \A i, j \in D : f[i] = f[j] => i = j
    BY <1>8 DEF IsClone
  <2>4. \A b \in ClonedFor(r) \ C : \E i \in D : f[i] = b
    <3> SUFFICES ASSUME NEW b \in ClonedFor(r), b \notin ClonedFor(r)'
                 PROVE  \E i \in D : f[i] = b
      OBVIOUS
    <3>1. b \in Bufs /\ IsLeaving(ToRu(r, b, TRUE)) /\ ~IsLeaving(ToRu(r, b, TRUE))'
      BY DEF ClonedFor
    <3>2. PICK i \in DOMAIN S : S[i] = ToRu(r, b, TRUE)
      BY <3>1, <1>6
    <3>3. i \in D /\ S[i].buf = b
      BY <3>2 DEF IsClone, ToRu
    <3> QED BY <3>3
  <2>5. C \in SUBSET ClonedFor(r) /\ IsFiniteSet(ClonedFor(r))
    BY <1>10, FiniteParts
  <2> HIDE DEF D, C, f
  <2>6. /\ Cardinality(C) \in Nat /\ Cardinality(D) \in Nat
        /\ Cardinality(ClonedFor(r)) = Cardinality(C) + Cardinality(D)
    <3>1. Matches(f, D, ClonedFor(r) \ C)
      BY <2>2, <2>3, <2>4 DEF Matches
    <3> QED BY <3>1, <2>5, LostPart
  <2> QED BY <2>6 DEF D, C, ClonesOf
<1>15. \A b : IsWaiting(b)' <=> IsWaiting(b)
  BY AfterStep DEF IsWaiting
<1>16. PlacesInv'
  <2>1. Uniq(Waiting, Waits)'
    BY AfterStep DEF PartsInv, PlacesInv
  <2> QED BY <2>1, <1>2, <1>9, <1>15 DEF PartsInv, PlacesInv
<1>17. ASSUME NEW b \in Bufs
       PROVE  /\ refcnt'[b] = refcnt[b] - RefsTo(b, S) /\ refcnt'[b] \in 0 .. NumRus
              /\ IsWaiting(b)' => refcnt'[b] = 1
              /\ ~IsWaiting(b)' => \/ refcnt'[b] = Cardinality(RusOf(b)')
                                   \/ MayLeak' /\ refcnt'[b] = Cardinality(RusOf(b)') + 1
  <2>1. /\ refcnt'[b] = refcnt[b] - RefsTo(b, S) /\ refcnt[b] \in 0 .. NumRus /\ NumRus \in Nat
    BY <1>4, CoreFacts DEF TypeOK
  <2>2. PICK k : k = Cardinality(RusOf(b)')
    OBVIOUS
  <2>3. k \in Nat /\ RefsTo(b, S) \in Nat /\ Cardinality(RusOf(b)) = k + RefsTo(b, S)
    BY <2>2, <1>13
  <2>4. CASE IsWaiting(b)
    <3>1. RusOf(b) = {} /\ refcnt[b] = 1
      BY <2>4 DEF PartsInv, PlacesInv, CountsInv
    <3>2. Cardinality(RusOf(b)) = 0
      BY <3>1, FS_EmptySet
    <3>3. refcnt'[b] = 1
      BY <2>1, <2>3, <3>1, <3>2
    <3> QED BY <2>1, <2>4, <3>3, <3>1, <1>15
  <2>5. CASE ~IsWaiting(b)
    <3>1. \/ refcnt[b] = k + RefsTo(b, S)
          \/ MayLeak' /\ refcnt[b] = k + RefsTo(b, S) + 1
      BY <2>3, <2>5 DEF PartsInv, CountsInv
    <3>2. refcnt'[b] = k \/ (MayLeak' /\ refcnt'[b] = k + 1)
      BY <2>1, <2>3, <3>1
    <3>3. refcnt'[b] \in 0 .. NumRus
      BY <2>1, <2>3, <3>2
    <3> QED BY <2>1, <2>2, <2>5, <3>2, <3>3, <1>15
  <2> QED BY <2>4, <2>5
<1>18. ASSUME NEW r \in Rus
       PROVE  /\ \/ clones'[r] + 2 * Cardinality(ClonedFor(r)') = NumClones
                 \/ ~alive' /\ clones'[r] + 2 * Cardinality(ClonedFor(r)') < NumClones
              /\ clones'[r] = clones[r] + 2 * ClonesOf(r, S) /\ clones'[r] \in 0 .. NumClones
  <2>1. clones'[r] = clones[r] + 2 * ClonesOf(r, S) /\ clones[r] \in Nat /\ NumClones \in Nat
    BY <1>4, DownlinkAssumption DEF TypeOK
  <2>2. \/ clones[r] + 2 * Cardinality(ClonedFor(r)) = NumClones
        \/ ~alive' /\ clones[r] + 2 * Cardinality(ClonedFor(r)) < NumClones
    BY DEF PartsInv, CountsInv
  <2>3. PICK old, kept, gone : /\ old = clones[r] /\ kept = Cardinality(ClonedFor(r)') /\ gone = ClonesOf(r, S)
    OBVIOUS
  <2>4. kept \in Nat /\ gone \in Nat /\ Cardinality(ClonedFor(r)) = kept + gone
    BY <2>3, <1>14
  <2>5. old \in Nat /\ clones'[r] = old + 2 * gone
    BY <2>1, <2>3
  <2>6. \/ old + 2 * (kept + gone) = NumClones
        \/ ~alive' /\ old + 2 * (kept + gone) < NumClones
    BY <2>2, <2>3, <2>4
  <2>7. /\ \/ clones'[r] + 2 * kept = NumClones
           \/ ~alive' /\ clones'[r] + 2 * kept < NumClones
        /\ clones'[r] \in 0 .. NumClones
    <3>1. PICK new : new = clones'[r]
      OBVIOUS
    <3>2. new \in Nat /\ new = old + 2 * gone /\ NumClones \in Nat
      BY <2>1, <2>4, <2>5, <3>1
    <3>3. CASE old + 2 * (kept + gone) = NumClones
      <4>1. new + 2 * kept = NumClones /\ new \in 0 .. NumClones
        BY <2>4, <2>5, <3>2, <3>3
      <4> QED BY <3>1, <4>1
    <3>4. CASE ~alive' /\ old + 2 * (kept + gone) < NumClones
      <4>1. new + 2 * kept < NumClones /\ new \in 0 .. NumClones
        BY <2>4, <2>5, <3>2, <3>4
      <4> QED BY <3>1, <3>4, <4>1
    <3> QED BY <2>6, <3>3, <3>4
  <2> QED BY <2>1, <2>3, <2>7
<1>19. CountsInv'
  BY <1>17, <1>18 DEF CountsInv
<1>20. ContentInv'
  <2>1. \A b : Live(b)' => Live(b)
    BY <1>9, <1>15 DEF Live
  <2>2. \A b : RusOf(b)' # {} => RusOf(b) # {}
    BY <1>9
  <2> QED BY <2>1, <2>2 DEF PartsInv, ContentInv
<1>21. refcnt' \in [Bufs -> 0 .. NumRus]
  BY <1>4, <1>17
<1>22. clones' \in [Rus -> 0 .. NumClones]
  BY <1>4, <1>18
<1> QED BY <1>16, <1>19, <1>20, <1>21, <1>22 DEF PartsInv

-----------------------------------------------------------------------------
(* The actions move mbufs                                                  *)

\* The queues after a step, one by one.
LEMMA QueuesAfter ==
  /\ Waits' = [k \in Waiting |-> Waits'[k]] /\ Leaves' = [k \in Leaving |-> Leaves'[k]]
  /\ \A c \in Cores :
       /\ Waits'[<<"input", c>>] = (IF c = 0 THEN rxq' ELSE du_ring'[c])
       /\ Waits'[<<"burst", c>>] = mx_bufs'[c]
       /\ Leaves'[<<"out", c>>] = mx_tx_bufs'[c]
       /\ Leaves'[<<"tx", c>>] = tx'[c]
<1>1. /\ Waits' = [k \in Waiting |-> IF k[1] = "input" THEN Input(k[2])' ELSE mx_bufs'[k[2]]]
      /\ Leaves' = [k \in Leaving |-> IF k[1] = "out" THEN mx_tx_bufs'[k[2]] ELSE tx'[k[2]]]
  BY DEF Waits, Leaves
<1>2. \A c \in Cores : /\ <<"input", c>> \in Waiting /\ <<"burst", c>> \in Waiting
                       /\ <<"out", c>> \in Leaving /\ <<"tx", c>> \in Leaving
  BY DEF Waiting, Leaving
<1>3. \A c \in Cores : Input(c)' = IF c = 0 THEN rxq' ELSE du_ring'[c]
  BY DEF Input
<1>4. /\ Waits' = [k \in Waiting |-> Waits'[k]] /\ Leaves' = [k \in Leaving |-> Leaves'[k]]
  BY <1>1
<1> QED BY <1>1, <1>2, <1>3, <1>4

\* Moves, queue by queue.
IsMove(q, s, t, n, m, r) ==
  /\ r[s] = SubSeq(q[s], n + 1, Len(q[s]))
  /\ t \in DOMAIN q => r[t] = q[t] \o SubSeq(q[s], 1, m)
  /\ \A k \in DOMAIN q : k # s /\ k # t => r[k] = q[k]
LEMMA MoveOfWaits ==
  ASSUME TypeOK, NEW s \in Waiting, NEW t, s # t, NEW n, NEW m, IsMove(Waits, s, t, n, m, Waits')
  PROVE  Waits' = MovedFrom(Waits, s, t, n, m)
<1>1. Waits \in [Waiting -> Seq(Bufs)]
  BY Queues
<1> QED BY <1>1, QueuesAfter DEF IsMove, MovedFrom
LEMMA MoveOfLeaves ==
  ASSUME TypeOK, NEW s \in Leaving, NEW t, s # t, NEW n, NEW m, IsMove(Leaves, s, t, n, m, Leaves')
  PROVE  Leaves' = MovedFrom(Leaves, s, t, n, m)
<1>1. Leaves \in [Leaving -> Seq(Outgoing)]
  BY Queues
<1> QED BY <1>1, QueuesAfter DEF IsMove, MovedFrom

\* A queue that does not change.
LEMMA LeavesUnmoved ==
  ASSUME UNCHANGED <<mx_tx_bufs, tx>>
  PROVE  Leaves' = Leaves
BY DEF Leaves

LEMMA WaitsUnmoved ==
  ASSUME UNCHANGED <<rxq, du_ring, mx_bufs>>
  PROVE  Waits' = Waits
BY DEF Waits, Input

LEMMA BurstCut ==
  ASSUME NEW S, NEW q \in Seq(S), NEW n \in Nat \ {0}
  PROVE  /\ AtMost(n, q) \in 0 .. Len(q) /\ AtMost(n, q) <= n
         /\ q # <<>> => AtMost(n, q) >= 1
         /\ \A i \in 0 .. Len(q) : SubSeq(q, 1, i) \in Seq(S) /\ Len(SubSeq(q, 1, i)) = i
                                   /\ SubSeq(q, i + 1, Len(q)) \in Seq(S)
                                   /\ Len(SubSeq(q, i + 1, Len(q))) = Len(q) - i
BY DEF AtMost

\* The head of a burst has been handled.
LEMMA HeadHandled ==
  ASSUME TypeOK, NEW c \in Cores, mx_bufs[c] # <<>>,
         mx_bufs' = [mx_bufs EXCEPT ![c] = Tail(@)], UNCHANGED <<rxq, du_ring>>
  PROVE  /\ Waits' = MovedFrom(Waits, <<"burst", c>>, Nowhere, 1, 0)
         /\ mx_bufs' \in [Cores -> Seq(Bufs)]
<1> DEFINE s == <<"burst", c>>
<1>1. Waits \in [Waiting -> Seq(Bufs)] /\ s \in Waiting /\ Waits[s] = mx_bufs[c]
  BY Queues
<1>2. s # Nowhere /\ Nowhere \notin Waiting
  BY NowhereIsNoPlace, <1>1
<1>3. Tail(mx_bufs[c]) = SubSeq(mx_bufs[c], 1 + 1, Len(mx_bufs[c])) /\ Tail(mx_bufs[c]) \in Seq(Bufs)
  <2>1. mx_bufs[c] \in Seq(Bufs)
    BY DEF TypeOK
  <2> QED BY <2>1
<1>4. \A d \in Cores : mx_bufs'[d] = IF d = c THEN Tail(mx_bufs[c]) ELSE mx_bufs[d]
  BY DEF TypeOK
<1>5. ASSUME NEW k \in Waiting, k # s PROVE Waits'[k] = Waits[k]
  <2>1. PICK d \in Cores : k = <<"input", d>> \/ k = <<"burst", d>>
    BY PlacesOfCores
  <2>2. CASE k = <<"input", d>>
    BY <2>2, Queues, QueuesAfter DEF Input
  <2>3. CASE k = <<"burst", d>>
    <3>1. d # c
      BY <2>3, <1>5
    <3> QED BY <3>1, <2>3, <1>4, Queues, QueuesAfter
  <2> QED BY <2>1, <2>2, <2>3
<1>6. Waits'[s] = SubSeq(Waits[s], 1 + 1, Len(Waits[s]))
  BY <1>1, <1>3, <1>4, QueuesAfter
<1>7. IsMove(Waits, s, Nowhere, 1, 0, Waits')
  BY <1>1, <1>2, <1>5, <1>6 DEF IsMove
<1>8. Waits' = MovedFrom(Waits, s, Nowhere, 1, 0)
  BY <1>1, <1>2, <1>7, MoveOfWaits
<1>9. mx_bufs' \in [Cores -> Seq(Bufs)]
  BY <1>3 DEF TypeOK
<1> QED BY <1>8, <1>9

\* The rest of the types, which most steps do not touch.
LEMMA DuHandled == MemInv /\ HandleDu => MemInv' /\ WaitsShrink
<1> SUFFICES ASSUME MemInv, HandleDu PROVE MemInv' /\ WaitsShrink
  OBVIOUS
<1> DEFINE n == AtMost(RX_BURST_SIZE, rxq)
           burst == SubSeq(rxq, 1, n)
           w == target_core
           room == RingCap - Len(du_ring[w])
           k == AtMost(room, burst)
           pushed == SubSeq(burst, 1, k)
<1>1. /\ alive /\ mx_bufs[0] = <<>> /\ mx_tx_bufs[0] = <<>>
      /\ rxq' = SubSeq(rxq, n + 1, Len(rxq))
      /\ target_core' = NextCore(target_core)
      /\ IF w = 0
         THEN /\ mx_bufs' = [mx_bufs EXCEPT ![0] = burst]
              /\ UNCHANGED <<du_ring, alive>>
         ELSE /\ du_ring' = IF deployment.asserts
                              THEN [du_ring EXCEPT ![w] = Enqueued(@, pushed)]
                              ELSE du_ring
              /\ alive' = (deployment.asserts => pushed = burst)
              /\ UNCHANGED mx_bufs
      /\ UNCHANGED <<deployment, memory, mx_tx_bufs, tx, received, to_ru>>
  BY DEF HandleDu
<1>2. TypeOK /\ PartsInv /\ RingInv /\ w <= deployment.num_workers
  BY DEF MemInv, PartsInv
<1>3. /\ rxq \in Seq(Bufs) /\ n \in 0 .. Len(rxq) /\ burst \in Seq(Bufs) /\ Len(burst) = n
      /\ rxq' \in Seq(Bufs) /\ n \in Nat
  <2>1. rxq \in Seq(Bufs) /\ RX_BURST_SIZE \in Nat \ {0}
    BY <1>2, DownlinkAssumption DEF TypeOK
  <2>2. n \in 0 .. Len(rxq)
    BY <2>1, BurstCut
  <2> HIDE DEF n
  <2>3. burst \in Seq(Bufs) /\ Len(burst) = n /\ SubSeq(rxq, n + 1, Len(rxq)) \in Seq(Bufs)
    BY <2>1, <2>2
  <2> QED BY <1>1, <2>1, <2>2, <2>3
<1>4. w \in Cores /\ deployment.num_workers \in 0 .. MaxWorkers /\ deployment.asserts \in BOOLEAN
      /\ MaxWorkers \in Nat
  BY <1>2, DownlinkAssumption DEF TypeOK, Deployment
<1>5. target_core' \in Cores /\ target_core' <= deployment'.num_workers
  <2>1. NextCore(w) \in 0 .. deployment.num_workers
    BY <1>4 DEF NextCore, Cores
  <2> QED BY <1>1, <1>4, <2>1 DEF Cores
<1>6. /\ Waits[<<"input", 0>>] = rxq /\ <<"input", 0>> \in Waiting
      /\ Waits \in [Waiting -> Seq(Bufs)] /\ Nowhere \notin Waiting
  BY <1>2, Queues, CoreFacts, NowhereIsNoPlace DEF Input
<1>7. Leaves' = Leaves
  BY <1>1, LeavesUnmoved
<1>8. MayLeak => MayLeak'
  BY <1>1 DEF MayLeak
<1> HIDE DEF n, burst, k, room, pushed
<1>9. CASE w = 0
  <2>1. /\ mx_bufs' = [mx_bufs EXCEPT ![0] = burst] /\ du_ring' = du_ring /\ alive' = alive
    BY <1>1, <1>9
  <2>2. mx_bufs' \in [Cores -> Seq(Bufs)] /\ mx_bufs'[0] = burst
        /\ \A c \in Cores : c # 0 => mx_bufs'[c] = mx_bufs[c]
    BY <2>1, <1>2, <1>3, CoreFacts DEF TypeOK
  <2>3. IsMove(Waits, <<"input", 0>>, <<"burst", 0>>, n, n, Waits')
    <3>1. Waits'[<<"input", 0>>] = SubSeq(rxq, n + 1, Len(rxq))
      BY <1>1, QueuesAfter, CoreFacts
    <3>2. Waits'[<<"burst", 0>>] = Waits[<<"burst", 0>>] \o SubSeq(rxq, 1, n)
      <4>1. Waits[<<"burst", 0>>] = <<>> /\ Waits'[<<"burst", 0>>] = burst
        BY <1>1, <1>2, <2>2, Queues, QueuesAfter, CoreFacts
      <4> QED BY <4>1, <1>3 DEF burst
    <3>3. ASSUME NEW p \in Waiting, p # <<"input", 0>>, p # <<"burst", 0>> PROVE Waits'[p] = Waits[p]
      <4>1. PICK d \in Cores : p = <<"input", d>> \/ p = <<"burst", d>>
        BY PlacesOfCores
      <4>2. d # 0
        BY <3>3, <4>1
      <4>3. CASE p = <<"input", d>>
        BY <4>2, <4>3, <1>2, <2>1, Queues, QueuesAfter DEF Input
      <4>4. CASE p = <<"burst", d>>
        BY <4>2, <4>4, <1>2, <2>2, Queues, QueuesAfter
      <4> QED BY <4>1, <4>3, <4>4
    <3> QED BY <3>1, <3>2, <3>3, <1>6 DEF IsMove
  <2>4. <<"burst", 0>> \in Waiting /\ <<"input", 0>> # <<"burst", 0>> /\ n \in 0 .. n
    <3>1. n \in 0 .. n
      BY <1>3
    <3> QED BY <1>2, <3>1, Queues, CoreFacts, PlacesDiffer
  <2>5. Waits' = MovedFrom(Waits, <<"input", 0>>, <<"burst", 0>>, n, n)
    BY <1>2, <1>6, <2>3, <2>4, MoveOfWaits
  <2>6. PartsInv'
    <3>1. UNCHANGED <<memory, received>> /\ ~(n < n) /\ n \in 0 .. Len(Waits[<<"input", 0>>])
          /\ (~alive => ~alive')
      BY <1>1, <1>3, <1>6, <2>1
    <3> QED BY <1>2, <3>1, <1>6, <1>7, <1>8, <2>4, <2>5, WaitsMoved
  <2>7. TypeOK'
    BY <1>1, <1>2, <1>3, <1>5, <2>1, <2>2 DEF TypeOK, memory
  <2>8. WaitsShrink
    <3>1. n \in 0 .. Len(Waits[<<"input", 0>>])
      BY <1>3, <1>6
    <3> QED BY <1>2, <1>6, <2>4, <2>5, <3>1, CoreFacts, WaitsShrunk
  <2> QED BY <1>2, <1>5, <2>1, <2>6, <2>7, <2>8 DEF MemInv, PartsInv, RingInv
<1>10. CASE w # 0 /\ deployment.asserts
  <2>1. /\ du_ring' = [du_ring EXCEPT ![w] = du_ring[w] \o pushed] /\ mx_bufs' = mx_bufs
        /\ alive' = (pushed = burst) /\ w \in Workers /\ du_ring \in [Workers -> Seq(Bufs)]
    BY <1>1, <1>2, <1>4, <1>10, CoreFacts DEF Enqueued, TypeOK
  <2>2. /\ k \in 0 .. n /\ pushed \in Seq(Bufs) /\ Len(pushed) = k
        /\ Len(du_ring[w]) \in Nat /\ Len(du_ring[w]) + k <= RingCap
        /\ pushed = SubSeq(rxq, 1, k)
    <3>1. Len(du_ring[w]) \in Nat /\ room \in Nat /\ Len(du_ring[w]) + room = RingCap
          /\ RingCap \in Nat
      BY <2>1, <1>2, DownlinkAssumption DEF RingInv, room
    <3>2. k \in 0 .. n /\ k <= room
      BY <3>1, <1>3 DEF k, AtMost
    <3>3. pushed \in Seq(Bufs) /\ Len(pushed) = k
      BY <3>2, <1>3 DEF pushed
    <3>4. pushed = SubSeq(rxq, 1, k)
      BY <3>2, <1>3 DEF pushed, burst
    <3> QED BY <3>1, <3>2, <3>3, <3>4
  <2>3. du_ring' \in [Workers -> Seq(Bufs)] /\ du_ring'[w] = du_ring[w] \o pushed
        /\ \A x \in Workers : x # w => du_ring'[x] = du_ring[x]
    BY <2>1, <2>2
  <2>4. IsMove(Waits, <<"input", 0>>, <<"input", w>>, n, k, Waits')
    <3>1. Waits'[<<"input", 0>>] = SubSeq(rxq, n + 1, Len(rxq))
      BY <1>1, QueuesAfter, CoreFacts
    <3>2. Waits'[<<"input", w>>] = Waits[<<"input", w>>] \o SubSeq(rxq, 1, k)
      BY <1>2, <1>4, <1>10, <2>2, <2>3, Queues, QueuesAfter DEF Input
    <3>3. ASSUME NEW p \in Waiting, p # <<"input", 0>>, p # <<"input", w>> PROVE Waits'[p] = Waits[p]
      <4>1. PICK d \in Cores : p = <<"input", d>> \/ p = <<"burst", d>>
        BY PlacesOfCores
      <4>2. CASE p = <<"burst", d>>
        BY <4>2, <1>2, <2>1, Queues, QueuesAfter
      <4>3. CASE p = <<"input", d>>
        <5>1. d # 0 /\ d # w /\ d \in Workers
          BY <3>3, <4>3, CoreFacts
        <5> QED BY <4>3, <5>1, <1>2, <2>3, Queues, QueuesAfter DEF Input
      <4> QED BY <4>1, <4>2, <4>3
    <3> QED BY <3>1, <3>2, <3>3, <1>6 DEF IsMove
  <2>5. <<"input", w>> \in Waiting /\ <<"input", 0>> # <<"input", w>>
    BY <1>2, <1>4, <1>10, Queues
  <2>6. Waits' = MovedFrom(Waits, <<"input", 0>>, <<"input", w>>, n, k)
    BY <1>2, <1>6, <2>4, <2>5, MoveOfWaits
  <2>7. k < n => MayLeak'
    <3>1. k < n => pushed # burst
      BY <2>2, <1>3
    <3> QED BY <2>1, <3>1 DEF MayLeak
  <2>8. PartsInv'
    BY <1>1, <1>2, <1>3, <1>6, <1>7, <1>8, <2>2, <2>5, <2>6, <2>7, WaitsMoved
  <2>9. TypeOK'
    BY <1>1, <1>2, <1>3, <1>5, <2>1, <2>3 DEF TypeOK, memory
  <2>10. RingInv'
    BY <1>2, <2>1, <2>2, <2>3 DEF RingInv
  <2>11. WaitsShrink
    <3>1. n \in 0 .. Len(Waits[<<"input", 0>>])
      BY <1>3, <1>6
    <3> QED BY <1>2, <1>6, <2>1, <2>2, <2>5, <2>6, <3>1, WaitsShrunk
  <2> QED BY <1>5, <2>8, <2>9, <2>10, <2>11 DEF MemInv, PartsInv
<1>11. CASE w # 0 /\ ~deployment.asserts
  <2>1. du_ring' = du_ring /\ mx_bufs' = mx_bufs /\ alive' = TRUE
    BY <1>1, <1>11
  <2>2. MayLeak'
    BY <1>1, <1>2, <1>4, <1>11 DEF MayLeak, Cores
  <2>3. IsMove(Waits, <<"input", 0>>, Nowhere, n, 0, Waits')
    <3>1. Waits'[<<"input", 0>>] = SubSeq(rxq, n + 1, Len(rxq))
      BY <1>1, QueuesAfter, CoreFacts
    <3>2. ASSUME NEW p \in Waiting, p # <<"input", 0>> PROVE Waits'[p] = Waits[p]
      <4>1. PICK d \in Cores : p = <<"input", d>> \/ p = <<"burst", d>>
        BY PlacesOfCores
      <4>2. CASE p = <<"input", d>>
        <5>1. d # 0
          BY <3>2, <4>2
        <5> QED BY <4>2, <5>1, <1>2, <2>1, Queues, QueuesAfter DEF Input
      <4>3. CASE p = <<"burst", d>>
        BY <4>3, <1>2, <2>1, Queues, QueuesAfter
      <4> QED BY <4>1, <4>2, <4>3
    <3> QED BY <3>1, <3>2, <1>6 DEF IsMove
  <2>4. <<"input", 0>> # Nowhere /\ 0 \in 0 .. n
    <3>1. 0 \in 0 .. n
      BY <1>3
    <3> QED BY <1>6, <3>1
  <2>5. Waits' = MovedFrom(Waits, <<"input", 0>>, Nowhere, n, 0)
    BY <1>2, <1>6, <2>3, <2>4, MoveOfWaits
  <2>6. PartsInv'
    BY <1>1, <1>2, <1>3, <1>6, <1>7, <2>2, <2>4, <2>5, WaitsMoved
  <2>7. TypeOK'
    BY <1>1, <1>2, <1>3, <1>5, <2>1 DEF TypeOK, memory
  <2>8. WaitsShrink
    <3>1. n \in 0 .. Len(Waits[<<"input", 0>>])
      BY <1>3, <1>6
    <3> QED BY <1>2, <1>6, <2>4, <2>5, <3>1, WaitsShrunk
  <2> QED BY <1>2, <1>5, <2>1, <2>6, <2>7, <2>8 DEF MemInv, PartsInv, RingInv
<1> QED BY <1>9, <1>10, <1>11

LEMMA DuDequeued == \A w \in Workers : MemInv /\ DequeueDu(w) => MemInv' /\ WaitsShrink
<1> SUFFICES ASSUME NEW w \in Workers, MemInv, DequeueDu(w) PROVE MemInv' /\ WaitsShrink
  OBVIOUS
<1> DEFINE n == AtMost(TX_BURST_SIZE, du_ring[w])
           burst == SubSeq(du_ring[w], 1, n)
           rest == SubSeq(du_ring[w], n + 1, Len(du_ring[w]))
<1>1. /\ mx_bufs[w] = <<>>
      /\ mx_bufs' = [mx_bufs EXCEPT ![w] = burst] /\ du_ring' = [du_ring EXCEPT ![w] = rest]
      /\ UNCHANGED <<deployment, memory, rxq, target_core, mx_tx_bufs, tx, alive, received, to_ru>>
  BY DEF DequeueDu
<1>2. TypeOK /\ PartsInv /\ RingInv /\ target_core <= deployment.num_workers /\ w \in Cores /\ w # 0
  BY CoreFacts DEF MemInv, PartsInv
<1>3. /\ du_ring[w] \in Seq(Bufs) /\ n \in 0 .. Len(du_ring[w]) /\ n \in Nat
      /\ burst \in Seq(Bufs) /\ rest \in Seq(Bufs) /\ Len(rest) <= RingCap
  <2>1. du_ring[w] \in Seq(Bufs) /\ TX_BURST_SIZE \in Nat \ {0} /\ RingCap \in Nat
        /\ Len(du_ring[w]) <= RingCap
    BY <1>2, DownlinkAssumption DEF TypeOK, RingInv
  <2>2. n \in 0 .. Len(du_ring[w])
    BY <2>1, BurstCut
  <2> HIDE DEF n
  <2>3. burst \in Seq(Bufs) /\ rest \in Seq(Bufs) /\ Len(rest) = Len(du_ring[w]) - n
    BY <2>1, <2>2
  <2> QED BY <2>1, <2>2, <2>3
<1>4. /\ Waits[<<"input", w>>] = du_ring[w] /\ <<"input", w>> \in Waiting
      /\ <<"burst", w>> \in Waiting /\ <<"input", w>> # <<"burst", w>>
      /\ Waits[<<"burst", w>>] = <<>> /\ Waits \in [Waiting -> Seq(Bufs)]
  BY <1>1, <1>2, Queues, PlacesDiffer DEF Input
<1> HIDE DEF n
<1>5. /\ mx_bufs' \in [Cores -> Seq(Bufs)] /\ mx_bufs'[w] = burst
      /\ \A c \in Cores : c # w => mx_bufs'[c] = mx_bufs[c]
      /\ du_ring' \in [Workers -> Seq(Bufs)] /\ du_ring'[w] = rest
      /\ \A x \in Workers : x # w => du_ring'[x] = du_ring[x]
  <2> HIDE DEF burst, rest
  <2> QED BY <1>1, <1>2, <1>3 DEF TypeOK
<1>6. IsMove(Waits, <<"input", w>>, <<"burst", w>>, n, n, Waits')
  <2>1. Waits'[<<"input", w>>] = rest
    BY <1>2, <1>5, QueuesAfter
  <2>2. Waits'[<<"burst", w>>] = Waits[<<"burst", w>>] \o burst
    <3>1. Waits'[<<"burst", w>>] = burst
      BY <1>2, <1>5, QueuesAfter
    <3> HIDE DEF burst
    <3> QED BY <3>1, <1>3, <1>4
  <2>3. ASSUME NEW p \in Waiting, p # <<"input", w>>, p # <<"burst", w>> PROVE Waits'[p] = Waits[p]
    <3>1. PICK d \in Cores : p = <<"input", d>> \/ p = <<"burst", d>>
      BY PlacesOfCores
    <3>2. d # w
      BY <2>3, <3>1
    <3>3. CASE p = <<"burst", d>>
      BY <3>2, <3>3, <1>2, <1>5, Queues, QueuesAfter
    <3>4. CASE p = <<"input", d>> /\ d = 0
      BY <3>4, <1>1, <1>2, Queues, QueuesAfter DEF Input
    <3>5. CASE p = <<"input", d>> /\ d # 0
      <4>1. d \in Workers
        BY <3>5, CoreFacts
      <4> QED BY <4>1, <3>2, <3>5, <1>2, <1>5, Queues, QueuesAfter DEF Input
    <3> QED BY <3>1, <3>3, <3>4, <3>5
  <2> QED BY <2>1, <2>2, <2>3, <1>4 DEF IsMove
<1>7. Waits' = MovedFrom(Waits, <<"input", w>>, <<"burst", w>>, n, n)
  BY <1>2, <1>4, <1>6, MoveOfWaits
<1>8. PartsInv'
  <2>1. UNCHANGED <<memory, received>> /\ ~(n < n) /\ n \in 0 .. Len(Waits[<<"input", w>>]) /\ n \in 0 .. n
    BY <1>1, <1>3, <1>4
  <2>2. Leaves' = Leaves
    BY <1>1, LeavesUnmoved
  <2>3. (MayLeak => MayLeak') /\ (~alive => ~alive')
    BY <1>1 DEF MayLeak
  <2> QED BY <1>2, <1>4, <1>7, <2>1, <2>2, <2>3, WaitsMoved
<1>9. TypeOK'
  BY <1>1, <1>2, <1>5 DEF TypeOK, memory
<1>10. RingInv'
  BY <1>2, <1>3, <1>5 DEF RingInv
<1>11. WaitsShrink
  <2>1. n \in 0 .. Len(Waits[<<"input", w>>]) /\ n \in 0 .. n
    BY <1>3, <1>4
  <2> QED BY <1>2, <1>4, <1>7, <2>1, WaitsShrunk
<1> QED BY <1>1, <1>2, <1>8, <1>9, <1>10, <1>11 DEF MemInv, PartsInv

\* What handling a packet leaves alone, and the packet.
LEMMA HandledFacts ==
  ASSUME MemInv, NEW c \in Cores, NEW b \in Bufs, Handles(c, b)
  PROVE  /\ TypeOK /\ PartsInv /\ RingInv' /\ target_core' <= deployment'.num_workers
         /\ mx_bufs[c] # <<>> /\ b = Head(mx_bufs[c])
         /\ Waits' = MovedFrom(Waits, <<"burst", c>>, Nowhere, 1, 0)
         /\ mx_bufs' \in [Cores -> Seq(Bufs)]
         /\ received' = received /\ (MayLeak /\ (alive' = alive \/ ~alive') => MayLeak')
         /\ IsWaiting(b) /\ RusOf(b) = {} /\ refcnt[b] = 1
<1>1. /\ mx_bufs[c] # <<>> /\ b = Head(mx_bufs[c])
      /\ mx_bufs' = [mx_bufs EXCEPT ![c] = Tail(@)]
      /\ UNCHANGED <<deployment, rxq, target_core, du_ring, tx, received, to_ru>>
  BY DEF Handles
<1>2. TypeOK /\ PartsInv
  BY DEF MemInv, PartsInv
<1>3. Waits' = MovedFrom(Waits, <<"burst", c>>, Nowhere, 1, 0) /\ mx_bufs' \in [Cores -> Seq(Bufs)]
  BY <1>1, <1>2, HeadHandled
<1>4. RingInv' /\ target_core' <= deployment'.num_workers
  BY <1>1 DEF MemInv, RingInv
<1>5. MayLeak /\ (alive' = alive \/ ~alive') => MayLeak'
  BY <1>1 DEF MayLeak
<1>6. IsWaiting(b)
  <2>1. mx_bufs[c] \in Seq(Bufs)
    BY <1>2 DEF TypeOK
  <2>2. 1 \in 1 .. Len(mx_bufs[c]) /\ mx_bufs[c][1] = b
    BY <1>1, <2>1
  <2>3. <<"burst", c>> \in Waiting /\ Waits[<<"burst", c>>] = mx_bufs[c]
    BY <1>2, Queues
  <2> QED BY <2>2, <2>3 DEF IsWaiting, Has
<1> QED BY <1>1, <1>2, <1>3, <1>4, <1>5, <1>6 DEF PartsInv, PlacesInv, CountsInv

\* What a core adds to the packets it will send.
LEMMA SentOn ==
  ASSUME TypeOK, NEW c \in Cores, NEW v \in Seq(Outgoing), tx' = tx,
         mx_tx_bufs' = [mx_tx_bufs EXCEPT ![c] = @ \o v]
  PROVE  /\ Leaves' = Extended(Leaves, <<"out", c>>, v)
         /\ mx_tx_bufs' \in [Cores -> Seq(Outgoing)]
<1>1. /\ mx_tx_bufs[c] \in Seq(Outgoing) /\ mx_tx_bufs[c] \o v \in Seq(Outgoing)
      /\ mx_tx_bufs \in [Cores -> Seq(Outgoing)]
  BY DEF TypeOK
<1>2. /\ mx_tx_bufs' \in [Cores -> Seq(Outgoing)] /\ mx_tx_bufs'[c] = mx_tx_bufs[c] \o v
      /\ \A d \in Cores : d # c => mx_tx_bufs'[d] = mx_tx_bufs[d]
  BY <1>1
<1>3. Leaves \in [Leaving -> Seq(Outgoing)] /\ <<"out", c>> \in Leaving
      /\ Leaves[<<"out", c>>] = mx_tx_bufs[c]
  BY Queues
<1>4. ASSUME NEW k \in Leaving, k # <<"out", c>> PROVE Leaves'[k] = Leaves[k]
  <2>1. PICK d \in Cores : k = <<"out", d>> \/ k = <<"tx", d>>
    BY PlacesOfCores
  <2>2. CASE k = <<"out", d>>
    <3>1. d # c
      BY <2>2, <1>4
    <3> QED BY <3>1, <2>2, <1>2, Queues, QueuesAfter
  <2>3. CASE k = <<"tx", d>>
    BY <2>3, Queues, QueuesAfter
  <2> QED BY <2>1, <2>2, <2>3
<1>5. Leaves'[<<"out", c>>] = Leaves[<<"out", c>>] \o v
  BY <1>2, <1>3, QueuesAfter
<1>6. Leaves' = Extended(Leaves, <<"out", c>>, v)
  BY <1>3, <1>4, <1>5, QueuesAfter DEF Extended
<1> QED BY <1>2, <1>6

\* A core is done with a packet and sends those of v.
LEMMA PacketsSent ==
  ASSUME MemInv, NEW c \in Cores, NEW b \in Bufs, Handles(c, b),
         NEW v \in Seq(Outgoing), Len(v) <= NumRus, Sends(b, v), Counts(b, v),
         mx_tx_bufs' = [mx_tx_bufs EXCEPT ![c] = @ \o v], alive' \in BOOLEAN,
         refcnt' \in [Bufs -> 0 .. NumRus], content' \in [Bufs -> Packet \cup {NoPacket}],
         clones' \in [Rus -> 0 .. NumClones]
  PROVE  MemInv' /\ SendsOn(c)
<1>1. /\ TypeOK /\ PartsInv /\ RingInv' /\ target_core' <= deployment'.num_workers
      /\ mx_bufs[c] # <<>> /\ b = Head(mx_bufs[c])
      /\ Waits' = MovedFrom(Waits, <<"burst", c>>, Nowhere, 1, 0)
      /\ mx_bufs' \in [Cores -> Seq(Bufs)]
      /\ received' = received /\ (MayLeak => MayLeak') /\ alive
  <2>1. alive /\ (alive' = alive \/ ~alive')
    BY DEF Handles
  <2> QED BY <2>1, HandledFacts
<1>2. UNCHANGED <<deployment, rxq, target_core, du_ring, tx, received, to_ru>>
  BY DEF Handles
<1>3. /\ Leaves' = Extended(Leaves, <<"out", c>>, v)
      /\ mx_tx_bufs' \in [Cores -> Seq(Outgoing)]
  BY <1>1, <1>2, SentOn
<1>4. PartsInv'
  <2>1. clones' \in [Rus -> Nat]
    <3>1. 0 .. NumClones \in SUBSET Nat
      BY DownlinkAssumption
    <3> QED BY <3>1
  <2> QED BY <1>1, <1>3, <2>1, BurstHandled
<1>5. TypeOK'
  BY <1>1, <1>2, <1>3 DEF TypeOK
<1>6. SendsOn(c)
  BY <1>3 DEF SendsOn
<1> QED BY <1>1, <1>4, <1>5, <1>6 DEF MemInv, PartsInv

LEMMA OtherDropped == \A c \in Cores : MemInv /\ DropOther(c) => MemInv' /\ SendsOn(c)
<1> SUFFICES ASSUME NEW c \in Cores, MemInv, DropOther(c) PROVE MemInv' /\ SendsOn(c)
  OBVIOUS
<1>1. PICK b \in Bufs : /\ Handles(c, b) /\ refcnt' = [refcnt EXCEPT ![b] = @ - 1]
                        /\ UNCHANGED <<content, clones, mx_tx_bufs, alive>>
  BY DEF DropOther
<1>2. TypeOK /\ refcnt[b] = 1
  BY <1>1, HandledFacts
<1>3. PICK v \in Seq(Outgoing) : v = <<>>
  <2>1. <<>> \in Seq(Outgoing)
    OBVIOUS
  <2> QED BY <2>1
<1>4. Len(v) = 0 /\ \A e : ~Within(v, e)
  BY <1>3 DEF Within
<1>5. /\ refcnt' \in [Bufs -> 0 .. NumRus] /\ refcnt'[b] = 0
      /\ \A d \in Bufs : d # b => refcnt'[d] = refcnt[d]
  <2>1. refcnt \in [Bufs -> 0 .. NumRus] /\ refcnt[b] - 1 = 0 /\ 0 \in 0 .. NumRus
    BY <1>2, CoreFacts DEF TypeOK
  <2> QED BY <2>1, <1>1
<1>6. mx_tx_bufs' = [mx_tx_bufs EXCEPT ![c] = @ \o v]
  <2>1. mx_tx_bufs \in [Cores -> Seq(Outgoing)]
    BY <1>2 DEF TypeOK
  <2>2. mx_tx_bufs[c] \o v = mx_tx_bufs[c]
    BY <2>1, <1>3
  <2> QED BY <1>1, <2>1, <2>2
<1>7. Sends(b, v)
  <2>1. OncePerRu(v)
    BY <1>4 DEF OncePerRu
  <2> QED BY <2>1, <1>4 DEF Sends
<1>8. \A d, r : Users(v, d) = {} /\ ClonedBy(v, r) = {}
  BY <1>4 DEF Users, ClonedBy
<1>9. Counts(b, v)
  <2>1. Cardinality({}) = 0
    BY FS_EmptySet
  <2>2. \A r \in Rus : clones'[r] + 2 * Cardinality(ClonedBy(v, r)) = clones[r]
    <3> TAKE r \in Rus
    <3>1. Cardinality(ClonedBy(v, r)) = 0
      BY <1>8, <2>1
    <3>2. clones'[r] = clones[r] /\ clones[r] \in Nat
      BY <1>1, <1>2 DEF TypeOK
    <3> QED BY <3>1, <3>2
  <2>3. \A d \in Bufs : d = b \/ refcnt[d] = 0 => refcnt'[d] = Cardinality(Users(v, d))
    BY <1>5, <1>8, <2>1
  <2> QED BY <1>1, <1>5, <2>2, <2>3 DEF Counts
<1>10. Len(v) <= NumRus
  BY <1>4, CoreFacts
<1>11. /\ alive' \in BOOLEAN /\ content' \in [Bufs -> Packet \cup {NoPacket}]
       /\ clones' \in [Rus -> 0 .. NumClones]
  BY <1>1, <1>2 DEF TypeOK
<1> QED BY <1>1, <1>5, <1>6, <1>7, <1>9, <1>10, <1>11, PacketsSent

\* The packets for the first k of the other RUs, RU i's in mbuf f[i]; all is
\* TRUE when RU 0 gets mbuf b after them.
ToOthers(f, x, k) == [i \in 1 .. k |-> ToRu(i, f[i], x)]
Last(b, all) == IF all THEN Original(b) ELSE <<>>
IsToAll(v, b, f, x, k, all) ==
  /\ v \in Seq(Outgoing) /\ Len(v) <= NumRus /\ OncePerRu(v)
  /\ \A e : Within(v, e) => e.buf = b \/ \E i \in 1 .. k : e.buf = f[i]
  /\ \A d \in Bufs : Users(v, d) = {r \in Rus : (all /\ r = 0 /\ d = b) \/ (r \in 1 .. k /\ d = f[r])}
  /\ \A r \in Rus : ClonedBy(v, r) = IF x /\ r \in 1 .. k THEN {f[r]} ELSE {}
LEMMA PacketsOfAll ==
  ASSUME NEW b \in Bufs, NEW k \in 0 .. NumRus - 1, NEW f \in [1 .. k -> Bufs], NEW x \in BOOLEAN,
         NEW all \in BOOLEAN
  PROVE  /\ ToOthers(f, x, k) \in Seq(Outgoing) /\ Last(b, all) \in Seq(Outgoing)
         /\ IsToAll(ToOthers(f, x, k) \o Last(b, all), b, f, x, k, all)
<1> DEFINE u == ToOthers(f, x, k)
           z == Last(b, all)
           v == ToOthers(f, x, k) \o Last(b, all)
<1>1. /\ NumRus \in Nat /\ NumRus >= 1 /\ k \in Nat /\ k + 1 <= NumRus
      /\ \A i \in 1 .. k : i \in Rus /\ i # 0
  BY CoreFacts DEF Rus
<1>2. \A i \in 1 .. k : ToRu(i, f[i], x) \in Outgoing
  BY <1>1, Entries
<1>3. u \in Seq(Outgoing) /\ Len(u) = k /\ \A i \in 1 .. k : u[i] = ToRu(i, f[i], x)
  <2>1. PICK N \in Nat : N = k
    BY <1>1
  <2>2. u \in [1 .. N -> Outgoing] /\ \A i \in 1 .. k : u[i] = ToRu(i, f[i], x)
    BY <1>2, <2>1 DEF ToOthers
  <2> HIDE DEF u
  <2>3. u \in Seq(Outgoing) /\ Len(u) = N
    BY <2>2
  <2> QED BY <2>1, <2>2, <2>3
<1>4. PICK y \in Outgoing : y = ToRu(0, b, FALSE)
  BY CoreFacts, Entries
<1>5. z \in Seq(Outgoing) /\ (all => Len(z) = 1 /\ z[1] = y) /\ (~all => Len(z) = 0)
  <2>1. CASE all
    <3>1. <<y>> \in Seq(Outgoing) /\ Len(<<y>>) = 1 /\ <<y>>[1] = y
      OBVIOUS
    <3>2. z = <<y>>
      BY <1>4, <2>1 DEF Last, Original
    <3> QED BY <3>1, <3>2, <2>1
  <2>2. CASE ~all
    <3>1. <<>> \in Seq(Outgoing) /\ Len(<<>>) = 0
      OBVIOUS
    <3> QED BY <3>1, <2>2 DEF Last
  <2> QED BY <2>1, <2>2
<1>6. v = u \o z
  OBVIOUS
<1> HIDE DEF u, z, v
<1>7. /\ v \in Seq(Outgoing) /\ Len(v) = k + Len(z)
      /\ \A i \in 1 .. k : v[i] = ToRu(i, f[i], x)
      /\ all => v[k + 1] = y
  <2>1. /\ u \o z \in Seq(Outgoing) /\ Len(u \o z) = Len(u) + Len(z)
        /\ \A i \in 1 .. Len(u) : (u \o z)[i] = u[i]
        /\ \A j \in 1 .. Len(z) : (u \o z)[j + Len(u)] = z[j]
    <3>1. u \in Seq(Outgoing) /\ z \in Seq(Outgoing)
      BY <1>3, <1>5
    <3> QED BY <3>1, Joined
  <2>2. ASSUME all PROVE v[k + 1] = y
    <3>1. 1 \in 1 .. Len(z) /\ 1 + Len(u) = k + 1
      <4>1. Len(z) = 1 /\ Len(u) = k
        BY <1>3, <1>5, <2>2, Zenon
      <4> QED BY <1>1, <4>1
    <3>2. (u \o z)[1 + Len(u)] = z[1]
      BY <2>1, <3>1
    <3> QED BY <3>1, <3>2, <1>5, <1>6, <2>2
  <2> QED BY <2>1, <2>2, <1>3, <1>6
<1>8. /\ Len(v) <= NumRus /\ Len(v) \in Nat
      /\ \A i \in 1 .. Len(v) : i \in 1 .. k \/ (all /\ i = k + 1)
      /\ \A i \in 1 .. k : i \in 1 .. Len(v)
      /\ all => k + 1 \in 1 .. Len(v)
  <2>1. (all /\ Len(v) = k + 1) \/ (~all /\ Len(v) = k)
    <3>1. (all /\ Len(z) = 1) \/ (~all /\ Len(z) = 0)
      BY <1>5, Zenon
    <3>2. Len(v) = k + Len(z) /\ k + 0 = k
      BY <1>1, <1>7
    <3> QED BY <3>1, <3>2, Zenon
  <2>2. CASE all
    <3>1. Len(v) = k + 1
      BY <2>1, <2>2, Zenon
    <3>2. /\ Len(v) <= NumRus /\ Len(v) \in Nat
          /\ \A i \in 1 .. Len(v) : i \in 1 .. k \/ i = k + 1
          /\ \A i \in 1 .. k : i \in 1 .. Len(v)
          /\ k + 1 \in 1 .. Len(v)
      BY <1>1, <3>1
    <3> QED BY <2>2, <3>2, Zenon
  <2>3. CASE ~all
    <3>1. Len(v) = k
      BY <2>1, <2>3, Zenon
    <3>2. Len(v) <= NumRus /\ Len(v) \in Nat
      BY <1>1, <3>1
    <3> QED BY <2>3, <3>1, <3>2, Zenon
  <2> QED BY <2>2, <2>3
<1>9. \A e : Within(v, e) <=> (all /\ e = y) \/ \E i \in 1 .. k : e = ToRu(i, f[i], x)
  BY <1>7, <1>8 DEF Within
<1>10. \A i \in 1 .. Len(v) : v[i].ru = IF i \in 1 .. k THEN i ELSE 0
  <2>1. \A i \in 1 .. k : v[i].ru = i
    <3>1. \A i \in 1 .. k : ToRu(i, f[i], x).ru = i
      BY DEF ToRu
    <3> QED BY <1>7, <3>1
  <2>2. ASSUME all PROVE v[k + 1].ru = 0 /\ k + 1 \notin 1 .. k
    <3>1. y.ru = 0
      BY <1>4 DEF ToRu
    <3>2. v[k + 1] = y
      BY <1>7, <2>2, Zenon
    <3>3. k + 1 \notin 1 .. k
      BY <1>1
    <3> QED BY <3>1, <3>2, <3>3
  <2> QED BY <1>8, <2>1, <2>2
<1>11. OncePerRu(v)
  <2> SUFFICES ASSUME NEW i \in 1 .. Len(v), NEW j \in 1 .. Len(v), v[i].ru = v[j].ru
               PROVE  i = j
    BY DEF OncePerRu
  <2>1. (IF i \in 1 .. k THEN i ELSE 0) = (IF j \in 1 .. k THEN j ELSE 0)
    BY <1>10
  <2> QED BY <1>8, <2>1
<1> HIDE DEF Within
<1>12. \A i \in 1 .. k : i \in Rus /\ i # 0 /\ f[i] \in Bufs
  BY <1>1
<1>13. ASSUME NEW d \in Bufs
       PROVE  Users(v, d) = {r \in Rus : (all /\ r = 0 /\ d = b) \/ (r \in 1 .. k /\ d = f[r])}
  <2>1. ASSUME NEW r \in Rus, NEW w \in BOOLEAN, Within(v, ToRu(r, d, w))
        PROVE  (all /\ r = 0 /\ d = b) \/ (r \in 1 .. k /\ d = f[r])
    <3>1. PICK e : e = ToRu(r, d, w)
      OBVIOUS
    <3>2. (all /\ e = y) \/ \E i \in 1 .. k : e = ToRu(i, f[i], x)
      BY <2>1, <3>1, <1>9
    <3>3. CASE all /\ e = y
      BY <3>1, <3>3, <1>4 DEF ToRu
    <3>4. CASE \E i \in 1 .. k : e = ToRu(i, f[i], x)
      BY <3>1, <3>4 DEF ToRu
    <3> QED BY <3>2, <3>3, <3>4
  <2>2. /\ all => Within(v, ToRu(0, b, FALSE))
        /\ \A r \in 1 .. k : Within(v, ToRu(r, f[r], x))
    BY <1>4, <1>9
  <2>3. PICK no \in BOOLEAN : no = FALSE
    OBVIOUS
  <2>4. ASSUME NEW r \in Rus, (all /\ r = 0 /\ d = b) \/ (r \in 1 .. k /\ d = f[r])
        PROVE  \E w \in BOOLEAN : Within(v, ToRu(r, d, w))
    <3>1. CASE all /\ r = 0 /\ d = b
      BY <3>1, <2>2, <2>3
    <3>2. CASE r \in 1 .. k /\ d = f[r]
      BY <3>2, <2>2
    <3> QED BY <2>4, <3>1, <3>2
  <2> QED BY <2>1, <2>4 DEF Users
<1>14. ASSUME NEW r \in Rus
       PROVE  ClonedBy(v, r) = IF x /\ r \in 1 .. k THEN {f[r]} ELSE {}
  <2>1. ASSUME NEW d \in Bufs, Within(v, ToRu(r, d, TRUE))
        PROVE  x /\ r \in 1 .. k /\ d = f[r]
    <3>1. PICK e : e = ToRu(r, d, TRUE)
      OBVIOUS
    <3>2. (all /\ e = y) \/ \E i \in 1 .. k : e = ToRu(i, f[i], x)
      BY <2>1, <3>1, <1>9
    <3>3. CASE all /\ e = y
      BY <3>1, <3>3, <1>4 DEF ToRu
    <3>4. CASE \E i \in 1 .. k : e = ToRu(i, f[i], x)
      BY <3>1, <3>4 DEF ToRu
    <3> QED BY <3>2, <3>3, <3>4
  <2>2. ASSUME x, r \in 1 .. k PROVE Within(v, ToRu(r, f[r], TRUE))
    <3>1. Within(v, ToRu(r, f[r], x)) /\ x = TRUE
      BY <2>2, <1>9
    <3> QED BY <3>1
  <2>3. CASE x /\ r \in 1 .. k
    <3>1. ClonedBy(v, r) = {f[r]}
      BY <2>1, <2>2, <2>3, <1>12 DEF ClonedBy
    <3> QED BY <3>1, <2>3
  <2>4. CASE ~(x /\ r \in 1 .. k)
    <3>1. ClonedBy(v, r) = {}
      BY <2>1, <2>4 DEF ClonedBy
    <3> QED BY <3>1, <2>4
  <2> QED BY <2>3, <2>4
<1>15. ASSUME NEW e, Within(v, e) PROVE e.buf = b \/ \E i \in 1 .. k : e.buf = f[i]
  <2>1. (all /\ e = y) \/ \E i \in 1 .. k : e = ToRu(i, f[i], x)
    BY <1>9, <1>15
  <2>2. CASE e = y
    BY <2>2, <1>4 DEF ToRu
  <2>3. CASE \E i \in 1 .. k : e = ToRu(i, f[i], x)
    BY <2>3 DEF ToRu
  <2> QED BY <2>1, <2>2, <2>3
<1>16. IsToAll(v, b, f, x, k, all)
  BY <1>7, <1>8, <1>11, <1>13, <1>14, <1>15 DEF IsToAll
<1> QED BY <1>3, <1>5, <1>16 DEF u, z, v

\* What is added to the packets to be sent, in two parts.
LEMMA PartsSent ==
  ASSUME TypeOK, NEW c \in Cores, NEW u \in Seq(Outgoing), NEW z \in Seq(Outgoing)
  PROVE  mx_tx_bufs[c] \o u \o z = mx_tx_bufs[c] \o (u \o z)
<1>1. PICK q \in Seq(Outgoing) : q = mx_tx_bufs[c]
  BY DEF TypeOK
<1>2. (q \o u) \o z = q \o (u \o z)
  BY ConcatAssociative
<1> QED BY <1>1, <1>2

\* IQ packet b is cloned for the first k of the other RUs, and goes to RU 0
\* unless a pool has run out.
LEMMA ClonesSent ==
  ASSUME MemInv, NEW c \in Cores, NEW b \in Bufs, Handles(c, b), content[b].kind = "iq",
         NEW k \in 0 .. NumRus - 1, NEW all \in BOOLEAN, all \/ ~alive', alive' \in BOOLEAN,
         Cloned(c, b, k, Last(b, all)), clones' \in [Rus -> 0 .. NumClones],
         \A r \in Rus : \/ clones'[r] = IF r \in 1 .. k THEN clones[r] - 2 ELSE clones[r]
                        \/ ~alive' /\ r \notin 1 .. k /\ clones'[r] < clones[r]
  PROVE  MemInv' /\ SendsOn(c)
<1> PICK x \in BOOLEAN : x = TRUE
  OBVIOUS
<1>1. PICK f \in [1 .. k -> Bufs] : \A i \in 1 .. k : f[i] = b
  <2>1. [i \in 1 .. k |-> b] \in [1 .. k -> Bufs]
    OBVIOUS
  <2> QED BY <2>1
<1>2. PICK v : v = ToOthers(f, x, k) \o Last(b, all)
  OBVIOUS
<1>3. /\ TypeOK /\ refcnt[b] = 1 /\ IsWaiting(b)
  BY HandledFacts
<1>4. /\ ToOthers(f, x, k) \in Seq(Outgoing) /\ Last(b, all) \in Seq(Outgoing)
      /\ IsToAll(v, b, f, x, k, all)
  <2>1. /\ b \in Bufs /\ k \in 0 .. NumRus - 1 /\ all \in BOOLEAN /\ x \in BOOLEAN
        /\ f \in [1 .. k -> Bufs]
    OBVIOUS
  <2>2. /\ ToOthers(f, x, k) \in Seq(Outgoing) /\ Last(b, all) \in Seq(Outgoing)
        /\ IsToAll(ToOthers(f, x, k) \o Last(b, all), b, f, x, k, all)
    BY ONLY <2>1, PacketsOfAll
  <2> QED BY <1>2, <2>2
<1>5. /\ content' = content /\ refcnt' = [refcnt EXCEPT ![b] = @ + k]
      /\ mx_tx_bufs' = [mx_tx_bufs EXCEPT ![c] = @ \o ToOthers(f, x, k) \o Last(b, all)]
  <2>1. ToOthers(f, x, k) = [i \in 1 .. k |-> ToRu(i, b, TRUE)]
    BY <1>1 DEF ToOthers
  <2> QED BY <2>1 DEF Cloned, RefsAdded
<1>6. mx_tx_bufs' = [mx_tx_bufs EXCEPT ![c] = @ \o v]
  <2>1. PICK u \in Seq(Outgoing) : u = ToOthers(f, x, k)
    BY <1>4
  <2>2. PICK z \in Seq(Outgoing) : z = Last(b, all)
    BY <1>4
  <2>3. mx_tx_bufs[c] \o u \o z = mx_tx_bufs[c] \o (u \o z)
    BY <1>3, PartsSent
  <2> QED BY <1>2, <1>5, <2>1, <2>2, <2>3
<1>7. Sends(b, v)
  <2>1. \A e : Within(v, e) => e.buf = b
    BY <1>1, <1>4 DEF IsToAll
  <2> QED BY <2>1, <1>4, <1>5 DEF Sends, IsToAll
<1>8. k \in Nat /\ NumRus \in Nat /\ k + 1 <= NumRus /\ 0 \in Rus /\ \A i \in 1 .. k : i \in Rus
  BY CoreFacts DEF Rus
<1>9. /\ Users(v, b) = IF all THEN 0 .. k ELSE 1 .. k
      /\ \A d \in Bufs : d # b => Users(v, d) = {}
      /\ \A r \in Rus : ClonedBy(v, r) = IF r \in 1 .. k THEN {b} ELSE {}
  <2>1. \A d \in Bufs : Users(v, d) = {r \in Rus : (all /\ r = 0 /\ d = b) \/ (r \in 1 .. k /\ d = f[r])}
    BY <1>4 DEF IsToAll
  <2>2. \A d \in Bufs : d # b => Users(v, d) = {}
    BY <1>1, <2>1
  <2>3. Users(v, b) = {r \in Rus : (all /\ r = 0) \/ r \in 1 .. k}
    BY <1>1, <2>1
  <2>4. \A i \in 0 .. k : i = 0 \/ i \in 1 .. k
    BY <1>8
  <2>5. 0 \in 0 .. k /\ \A i \in 1 .. k : i \in 0 .. k
    BY <1>8
  <2>6. Users(v, b) = IF all THEN 0 .. k ELSE 1 .. k
    BY <1>8, <2>3, <2>4, <2>5
  <2>7. \A r \in Rus : ClonedBy(v, r) = IF r \in 1 .. k THEN {b} ELSE {}
    BY <1>1, <1>4 DEF IsToAll
  <2> QED BY <2>2, <2>6, <2>7
<1>10. /\ refcnt' \in [Bufs -> 0 .. NumRus] /\ refcnt'[b] = k + 1
       /\ \A d \in Bufs : d # b => refcnt'[d] = refcnt[d]
  <2>1. 1 + k = k + 1 /\ k + 1 \in 0 .. NumRus
    BY <1>8
  <2>2. refcnt \in [Bufs -> 0 .. NumRus]
    BY <1>3 DEF TypeOK
  <2>3. refcnt' = [refcnt EXCEPT ![b] = k + 1]
    BY <1>3, <1>5, <2>1
  <2> QED BY <2>1, <2>2, <2>3
<1>11. Counts(b, v)
  <2>1. \A d \in Bufs : d # b /\ refcnt[d] # 0 => refcnt'[d] = refcnt[d] /\ content'[d] = content[d]
    BY <1>5, <1>10
  <2>2. ASSUME NEW d \in Bufs, d = b \/ refcnt[d] = 0
        PROVE  \/ refcnt'[d] = Cardinality(Users(v, d))
               \/ MayLeak' /\ refcnt'[d] = Cardinality(Users(v, d)) + 1
    <3>1. Cardinality(0 .. k) = k + 1 /\ Cardinality(1 .. k) = k /\ Cardinality({}) = 0
      <4>1. 0 \in Int /\ 1 \in Int /\ k \in Int /\ k \in Nat
        BY <1>8
      <4>2. /\ Cardinality(0 .. k) = IF 0 > k THEN 0 ELSE k - 0 + 1
            /\ Cardinality(1 .. k) = IF 1 > k THEN 0 ELSE k - 1 + 1
        BY <4>1, FS_Interval
      <4> QED BY <4>1, <4>2, FS_EmptySet
    <3>2. CASE d = b /\ all
      BY <3>1, <3>2, <1>9, <1>10
    <3>3. CASE d = b /\ ~all
      BY <3>1, <3>3, <1>9, <1>10 DEF MayLeak
    <3>4. CASE d # b
      BY <2>2, <3>1, <3>4, <1>9, <1>10
    <3> QED BY <3>2, <3>3, <3>4
  <2>3. ASSUME NEW r \in Rus
        PROVE  \/ clones'[r] + 2 * Cardinality(ClonedBy(v, r)) = clones[r]
               \/ ~alive' /\ clones'[r] + 2 * Cardinality(ClonedBy(v, r)) < clones[r]
    <3>1. clones[r] \in Nat /\ clones'[r] \in Nat
      BY <1>3, DownlinkAssumption DEF TypeOK
    <3>2. CASE r \in 1 .. k
      <4>1. Cardinality(ClonedBy(v, r)) = 1
        BY <3>2, <1>9, FS_Singleton
      <4>2. clones'[r] = clones[r] - 2
        BY <3>2
      <4> QED BY <3>1, <4>1, <4>2
    <3>3. CASE r \notin 1 .. k
      <4>1. Cardinality(ClonedBy(v, r)) = 0
        BY <3>3, <1>9, FS_EmptySet
      <4> QED BY <3>1, <3>3, <4>1
    <3> QED BY <3>2, <3>3
  <2> QED BY <2>1, <2>2, <2>3 DEF Counts
<1>12. content' \in [Bufs -> Packet \cup {NoPacket}] /\ v \in Seq(Outgoing) /\ Len(v) <= NumRus
  BY <1>3, <1>4, <1>5 DEF TypeOK, IsToAll
<1> QED BY <1>6, <1>7, <1>10, <1>11, <1>12, PacketsSent

LEMMA IqCloned == \A c \in Cores : MemInv /\ CloneIq(c) => MemInv' /\ SendsOn(c)
<1> SUFFICES ASSUME NEW c \in Cores, MemInv, CloneIq(c) PROVE MemInv' /\ SendsOn(c)
  OBVIOUS
<1>1. PICK b \in Bufs :
        /\ Handles(c, b) /\ content[b].kind = "iq" /\ \A r \in Others : clones[r] >= 2
        /\ clones' = LessTwo(NumRus - 1) /\ Cloned(c, b, NumRus - 1, Original(b))
        /\ UNCHANGED alive
  BY DEF CloneIq
<1>2. PICK k : k = NumRus - 1
  OBVIOUS
<1>3. k \in 0 .. NumRus - 1 /\ Others = 1 .. k
  BY <1>2, CoreFacts DEF Others
<1>4. clones \in [Rus -> 0 .. NumClones] /\ NumClones \in Nat /\ alive' \in BOOLEAN
  BY <1>1, DownlinkAssumption DEF MemInv, TypeOK
<1>5. \A r \in Rus : clones'[r] = IF r \in 1 .. k THEN clones[r] - 2 ELSE clones[r]
  BY <1>1, <1>2 DEF LessTwo
<1>6. clones' \in [Rus -> 0 .. NumClones]
  <2>1. \A r \in Rus : (IF r \in 1 .. k THEN clones[r] - 2 ELSE clones[r]) \in 0 .. NumClones
    BY <1>1, <1>3, <1>4
  <2> QED BY <2>1, <1>1, <1>2 DEF LessTwo
<1>7. PICK all \in BOOLEAN : all = TRUE
  OBVIOUS
<1>8. Cloned(c, b, k, Last(b, all))
  <2>1. Last(b, all) = Original(b)
    BY <1>7 DEF Last
  <2> QED BY <1>1, <1>2, <2>1
<1> QED BY <1>1, <1>3, <1>4, <1>5, <1>6, <1>7, <1>8, ClonesSent

LEMMA IqNotCloned == \A c \in Cores : MemInv /\ CloneIqFails(c) => MemInv' /\ SendsOn(c)
<1> SUFFICES ASSUME NEW c \in Cores, MemInv, CloneIqFails(c) PROVE MemInv' /\ SendsOn(c)
  OBVIOUS
<1>1. PICK b \in Bufs, s \in Others :
        /\ Handles(c, b) /\ content[b].kind = "iq"
        /\ \A q \in 1 .. s - 1 : clones[q] >= 2
        /\ clones' = [LessTwo(s - 1) EXCEPT ![s] = 0]
        /\ Cloned(c, b, s - 1, <<>>) /\ alive' = FALSE
  BY DEF CloneIqFails
<1>2. PICK k : k = s - 1
  OBVIOUS
<1>3. k \in 0 .. NumRus - 1 /\ s \in Rus /\ s \notin 1 .. k /\ \A q \in 1 .. k : q \in Rus
  BY <1>2, CoreFacts DEF Others, Rus
<1>4. clones \in [Rus -> 0 .. NumClones] /\ NumClones \in Nat
  BY DownlinkAssumption DEF MemInv, TypeOK
<1>5. \A r \in Rus : (IF r \in 1 .. k THEN clones[r] - 2 ELSE clones[r]) \in 0 .. NumClones
  BY <1>1, <1>2, <1>4
<1>6. LessTwo(k) \in [Rus -> 0 .. NumClones]
      /\ \A r \in Rus : LessTwo(k)[r] = IF r \in 1 .. k THEN clones[r] - 2 ELSE clones[r]
  BY <1>5 DEF LessTwo
<1>7. clones' \in [Rus -> 0 .. NumClones] /\ clones'[s] = 0
      /\ \A r \in Rus : r # s => clones'[r] = LessTwo(k)[r]
  BY <1>1, <1>2, <1>3, <1>4, <1>6
<1>8. \A r \in Rus : \/ clones'[r] = IF r \in 1 .. k THEN clones[r] - 2 ELSE clones[r]
                     \/ ~alive' /\ r \notin 1 .. k /\ clones'[r] < clones[r]
  <2>1. clones[s] = 0 \/ 0 < clones[s]
    BY <1>3, <1>4
  <2> QED BY <2>1, <1>1, <1>3, <1>6, <1>7
<1>9. PICK all \in BOOLEAN : all = FALSE
  OBVIOUS
<1>10. Cloned(c, b, k, Last(b, all)) /\ alive' \in BOOLEAN
  <2>1. Last(b, all) = <<>>
    BY <1>9 DEF Last
  <2> QED BY <1>1, <1>2, <2>1
<1> QED BY <1>1, <1>3, <1>7, <1>8, <1>10, ClonesSent

\* The pool has n mbufs to give when n are free, and gives each once.
LEMMA MbufsAllocated ==
  ASSUME NEW n \in Nat, Cardinality(Free) >= n
  PROVE  /\ Allocated(n) \in [1 .. n -> Free]
         /\ \A i, j \in 1 .. n : Allocated(n)[i] = Allocated(n)[j] => i = j
<1>1. Free \in SUBSET Bufs
  BY DEF Free
<1>2. IsFiniteSet(Free) /\ Cardinality(Free) \in Nat
  BY <1>1, FiniteParts
<1>3. PICK N \in Nat : N = Cardinality(Free)
  BY <1>2
<1>4. ExistsBijection(1 .. N, Free)
  BY <1>2, <1>3, FS_CardinalityType
<1>5. PICK g \in Bijection(1 .. N, Free) : TRUE
  BY <1>4 DEF ExistsBijection
<1>6. g \in [1 .. N -> Free] /\ \A i, j \in 1 .. N : g[i] = g[j] => i = j
  BY <1>5 DEF Bijection, Injection, IsInjective
<1>7. \A i \in 1 .. n : i \in 1 .. N
  BY <1>3
<1>8. [i \in 1 .. n |-> g[i]] \in Injection(1 .. n, Free)
  BY <1>6, <1>7 DEF Injection, IsInjective
<1>9. Allocated(n) \in Injection(1 .. n, Free)
  BY <1>8 DEF Allocated
<1> QED BY <1>9 DEF Injection, IsInjective

\* Control packet b is copied for the first k of the other RUs, and goes to RU 0
\* unless the pool has run out.
LEMMA CopiesSent ==
  ASSUME MemInv, NEW c \in Cores, NEW b \in Bufs, Handles(c, b), content[b].kind = "control",
         NEW k \in 0 .. NumRus - 1, Cardinality(Free) >= k,
         NEW all \in BOOLEAN, all \/ ~alive', alive' \in BOOLEAN, Copied(c, b, k, Last(b, all))
  PROVE  MemInv' /\ SendsOn(c)
<1>1. PICK f : f = Allocated(k)
  OBVIOUS
<1> PICK x \in BOOLEAN : x = FALSE
  OBVIOUS
<1>2. /\ f \in [1 .. k -> Bufs] /\ \A i \in 1 .. k : refcnt[f[i]] = 0
      /\ \A i, j \in 1 .. k : f[i] = f[j] => i = j
      /\ DOMAIN f = 1 .. k
  <2>1. k \in Nat
    BY CoreFacts
  <2>2. f \in [1 .. k -> Free] /\ \A i, j \in 1 .. k : f[i] = f[j] => i = j
    BY <1>1, <2>1, MbufsAllocated
  <2> QED BY <2>2 DEF Free
<1>3. PICK v : v = ToOthers(f, x, k) \o Last(b, all)
  OBVIOUS
<1>4. TypeOK /\ refcnt[b] = 1 /\ IsWaiting(b)
  BY HandledFacts
<1>5. /\ ToOthers(f, x, k) \in Seq(Outgoing) /\ Last(b, all) \in Seq(Outgoing)
      /\ IsToAll(v, b, f, x, k, all)
  BY <1>2, <1>3, PacketsOfAll
<1>6. /\ refcnt' = [d \in Bufs |-> IF d \in Range(f) THEN 1 ELSE refcnt[d]]
      /\ content' = [d \in Bufs |-> IF d \in Range(f) THEN content[b] ELSE content[d]]
      /\ mx_tx_bufs' = [mx_tx_bufs EXCEPT ![c] = @ \o ToOthers(f, x, k) \o Last(b, all)]
      /\ clones' = clones
  <2>1. ToOthers(f, x, k) = [i \in 1 .. k |-> ToRu(i, f[i], FALSE)]
    BY DEF ToOthers
  <2> QED BY <1>1, <2>1 DEF Copied
<1>7. mx_tx_bufs' = [mx_tx_bufs EXCEPT ![c] = @ \o v]
  <2>1. PICK u \in Seq(Outgoing) : u = ToOthers(f, x, k)
    BY <1>5
  <2>2. PICK z \in Seq(Outgoing) : z = Last(b, all)
    BY <1>5
  <2>3. mx_tx_bufs[c] \o u \o z = mx_tx_bufs[c] \o (u \o z)
    BY <1>4, PartsSent
  <2> QED BY <1>3, <1>6, <2>1, <2>2, <2>3
<1>8. /\ \A i \in 1 .. k : f[i] \in Bufs /\ f[i] # b /\ refcnt[f[i]] = 0 /\ f[i] \in Range(f)
                           /\ i \in Rus /\ i # 0
      /\ \A d \in Range(f) : \E i \in 1 .. k : d = f[i]
      /\ 0 \in Rus
  BY <1>2, <1>4, CoreFacts DEF Range, Rus
<1>9. /\ \A d \in Bufs : refcnt'[d] = (IF d \in Range(f) THEN 1 ELSE refcnt[d])
                         /\ content'[d] = (IF d \in Range(f) THEN content[b] ELSE content[d])
      /\ refcnt' \in [Bufs -> 0 .. NumRus] /\ content' \in [Bufs -> Packet \cup {NoPacket}]
      /\ clones' = clones /\ clones \in [Rus -> 0 .. NumClones]
  <2>1. refcnt \in [Bufs -> 0 .. NumRus] /\ content \in [Bufs -> Packet \cup {NoPacket}]
        /\ clones \in [Rus -> 0 .. NumClones]
    BY <1>4 DEF TypeOK
  <2>2. 1 \in 0 .. NumRus
    BY CoreFacts
  <2> QED BY <2>1, <2>2, <1>6
<1>10. Sends(b, v)
  <2>1. ASSUME NEW e \in Outgoing, Within(v, e)
        PROVE  /\ e.buf = b \/ refcnt[e.buf] = 0
               /\ content'[e.buf] = content[b]
    <3>1. e.buf = b \/ \E i \in 1 .. k : e.buf = f[i]
      BY <1>5, <2>1 DEF IsToAll
    <3> QED BY <3>1, <1>8, <1>9
  <2> QED BY <2>1, <1>5 DEF Sends, IsToAll
<1>11. /\ Users(v, b) = IF all THEN {0} ELSE {}
       /\ \A i \in 1 .. k : Users(v, f[i]) = {i}
       /\ \A d \in Bufs : d # b /\ d \notin Range(f) => Users(v, d) = {}
       /\ \A r \in Rus : ClonedBy(v, r) = {}
  <2>1. \A d \in Bufs : Users(v, d) = {r \in Rus : (all /\ r = 0 /\ d = b) \/ (r \in 1 .. k /\ d = f[r])}
    BY <1>5 DEF IsToAll
  <2>2. Users(v, b) = IF all THEN {0} ELSE {}
    BY <2>1, <1>8
  <2>3. ASSUME NEW i \in 1 .. k PROVE Users(v, f[i]) = {i}
    <3>1. Users(v, f[i]) = {r \in Rus : (all /\ r = 0 /\ f[i] = b) \/ (r \in 1 .. k /\ f[i] = f[r])}
      BY <2>1, <1>8
    <3> QED BY <3>1, <1>2, <1>8
  <2>4. ASSUME NEW d \in Bufs, d # b, d \notin Range(f) PROVE Users(v, d) = {}
    BY <2>1, <2>4, <1>8
  <2>5. \A r \in Rus : ClonedBy(v, r) = {}
    BY <1>5 DEF IsToAll
  <2> QED BY <2>2, <2>3, <2>4, <2>5
<1>12. Counts(b, v)
  <2>1. ASSUME NEW d \in Bufs, d # b, refcnt[d] # 0
        PROVE  refcnt'[d] = refcnt[d] /\ content'[d] = content[d]
    <3>1. d \notin Range(f)
      BY <2>1, <1>8
    <3> QED BY <3>1, <1>9
  <2>2. ASSUME NEW d \in Bufs, d = b \/ refcnt[d] = 0
        PROVE  \/ refcnt'[d] = Cardinality(Users(v, d))
               \/ MayLeak' /\ refcnt'[d] = Cardinality(Users(v, d)) + 1
    <3>1. Cardinality({}) = 0 /\ \A i : Cardinality({i}) = 1
      BY FS_EmptySet, FS_Singleton
    <3>2. CASE d = b
      <4>1. refcnt'[d] = 1
        BY <3>2, <1>4, <1>8, <1>9
      <4>2. CASE all
        BY <3>1, <3>2, <4>1, <4>2, <1>11
      <4>3. CASE ~all
        BY <3>1, <3>2, <4>1, <4>3, <1>11 DEF MayLeak
      <4> QED BY <4>2, <4>3
    <3>3. CASE d \in Range(f)
      <4>1. PICK i \in 1 .. k : d = f[i]
        BY <3>3, <1>8
      <4>2. Users(v, d) = {i} /\ refcnt'[d] = 1
        BY <3>3, <4>1, <1>9, <1>11
      <4> QED BY <3>1, <4>2
    <3>4. CASE d # b /\ d \notin Range(f)
      BY <2>2, <3>1, <3>4, <1>9, <1>11
    <3> QED BY <3>2, <3>3, <3>4
  <2>3. ASSUME NEW r \in Rus PROVE clones'[r] + 2 * Cardinality(ClonedBy(v, r)) = clones[r]
    <3>1. clones[r] \in Nat /\ clones'[r] = clones[r]
      BY <1>4, <1>9, DownlinkAssumption DEF TypeOK
    <3>2. Cardinality(ClonedBy(v, r)) = 0
      BY <1>11, FS_EmptySet
    <3> QED BY <3>1, <3>2
  <2> QED BY <2>1, <2>2, <2>3 DEF Counts
<1>13. v \in Seq(Outgoing) /\ Len(v) <= NumRus
  BY <1>5 DEF IsToAll
<1> QED BY <1>7, <1>9, <1>10, <1>12, <1>13, PacketsSent

LEMMA ControlCopied == \A c \in Cores : MemInv /\ CopyControl(c) => MemInv' /\ SendsOn(c)
<1> SUFFICES ASSUME NEW c \in Cores, MemInv, CopyControl(c) PROVE MemInv' /\ SendsOn(c)
  OBVIOUS
<1>1. PICK b \in Bufs :
        /\ Handles(c, b) /\ content[b].kind = "control" /\ Cardinality(Free) >= NumRus - 1
        /\ Copied(c, b, NumRus - 1, Original(b)) /\ UNCHANGED alive
  BY DEF CopyControl
<1>2. NumRus - 1 \in 0 .. NumRus - 1 /\ alive' \in BOOLEAN /\ alive'
  BY <1>1, CoreFacts DEF Handles
<1>3. PICK all \in BOOLEAN : all = TRUE
  OBVIOUS
<1>4. Last(b, all) = Original(b)
  BY <1>3 DEF Last
<1> QED BY <1>1, <1>2, <1>3, <1>4, CopiesSent

LEMMA ControlNotCopied == \A c \in Cores : MemInv /\ CopyControlFails(c) => MemInv' /\ SendsOn(c)
<1> SUFFICES ASSUME NEW c \in Cores, MemInv, CopyControlFails(c) PROVE MemInv' /\ SendsOn(c)
  OBVIOUS
<1>1. PICK b \in Bufs :
        /\ Handles(c, b) /\ content[b].kind = "control" /\ Cardinality(Free) < NumRus - 1
        /\ Copied(c, b, Cardinality(Free), <<>>) /\ alive' = FALSE
  BY DEF CopyControlFails
<1>2. PICK k : k = Cardinality(Free)
  OBVIOUS
<1>3. k \in 0 .. NumRus - 1 /\ Cardinality(Free) >= k
  <2>1. Free \in SUBSET Bufs
    BY DEF Free
  <2>2. k \in Nat
    BY <1>2, <2>1, FiniteParts
  <2> QED BY <1>1, <1>2, <2>2, CoreFacts
<1>4. PICK all \in BOOLEAN : all = FALSE
  OBVIOUS
<1>5. Copied(c, b, k, Last(b, all)) /\ alive' \in BOOLEAN
  <2>1. Last(b, all) = <<>>
    BY <1>4 DEF Last
  <2> QED BY <1>1, <1>2, <2>1
<1> QED BY <1>1, <1>3, <1>4, <1>5, CopiesSent

\* The packet handled goes to RUs or is freed.
LEMMA PacketHandled == \A c \in Cores : MemInv /\ HandlePacket(c) => MemInv' /\ SendsOn(c)
BY ControlCopied, ControlNotCopied, IqCloned, IqNotCloned, OtherDropped DEF HandlePacket

\* A core hands its packets to the port; those that the TX queue does not take
\* are freed.
LEMMA BurstMoves ==
  ASSUME TypeOK, NEW c \in Cores, NEW nb_tx \in 0 .. Len(mx_tx_bufs[c]),
         tx' = [tx EXCEPT ![c] = @ \o SubSeq(mx_tx_bufs[c], 1, nb_tx)],
         mx_tx_bufs' = [mx_tx_bufs EXCEPT ![c] = <<>>]
  PROVE  /\ Leaves' = MovedFrom(Leaves, <<"out", c>>, <<"tx", c>>, Len(mx_tx_bufs[c]), nb_tx)
         /\ tx' \in [Cores -> Seq(Outgoing)] /\ mx_tx_bufs' \in [Cores -> Seq(Outgoing)]
<1>1. PICK out \in Seq(Outgoing) : out = mx_tx_bufs[c]
  BY DEF TypeOK
<1>2. PICK q \in Seq(Outgoing) : q = tx[c]
  BY DEF TypeOK
<1>3. Len(out) \in Nat /\ nb_tx \in 0 .. Len(out) /\ SubSeq(out, 1, nb_tx) \in Seq(Outgoing)
      /\ SubSeq(out, Len(out) + 1, Len(out)) = <<>>
  BY <1>1
<1>4. q \o SubSeq(out, 1, nb_tx) \in Seq(Outgoing)
  BY <1>3
<1>5. /\ tx' \in [Cores -> Seq(Outgoing)] /\ tx'[c] = q \o SubSeq(out, 1, nb_tx)
      /\ mx_tx_bufs' \in [Cores -> Seq(Outgoing)] /\ mx_tx_bufs'[c] = <<>>
      /\ \A d \in Cores : d # c => tx'[d] = tx[d] /\ mx_tx_bufs'[d] = mx_tx_bufs[d]
  BY <1>1, <1>2, <1>4 DEF TypeOK
<1>6. /\ Leaves[<<"out", c>>] = out /\ <<"out", c>> \in Leaving
      /\ Leaves[<<"tx", c>>] = q /\ <<"tx", c>> \in Leaving
      /\ <<"out", c>> # <<"tx", c>> /\ Leaves \in [Leaving -> Seq(Outgoing)]
  BY <1>1, <1>2, Queues, PlacesDiffer
<1>7. ASSUME NEW k \in Leaving, k # <<"out", c>>, k # <<"tx", c>> PROVE Leaves'[k] = Leaves[k]
  <2>1. PICK d \in Cores : k = <<"out", d>> \/ k = <<"tx", d>>
    BY PlacesOfCores
  <2>2. d # c
    BY <1>7, <2>1
  <2>3. CASE k = <<"out", d>>
    BY <2>2, <2>3, <1>5, Queues, QueuesAfter
  <2>4. CASE k = <<"tx", d>>
    BY <2>2, <2>4, <1>5, Queues, QueuesAfter
  <2> QED BY <2>1, <2>3, <2>4
<1>8. Leaves'[<<"out", c>>] = <<>> /\ Leaves'[<<"tx", c>>] = q \o SubSeq(out, 1, nb_tx)
  BY <1>5, QueuesAfter
<1>9. IsMove(Leaves, <<"out", c>>, <<"tx", c>>, Len(out), nb_tx, Leaves')
  BY <1>3, <1>6, <1>7, <1>8 DEF IsMove
<1> QED BY <1>1, <1>5, <1>6, <1>9, MoveOfLeaves

LEMMA BurstSent == \A c \in Cores : MemInv /\ TxBurst(c) => MemInv'
<1> SUFFICES ASSUME NEW c \in Cores, MemInv, TxBurst(c) PROVE MemInv'
  OBVIOUS
<1>1. PICK nb_tx \in 0 .. Len(mx_tx_bufs[c]) :
        /\ deployment.tx_may_fail \/ nb_tx = Len(mx_tx_bufs[c])
        /\ tx' = [tx EXCEPT ![c] = @ \o SubSeq(mx_tx_bufs[c], 1, nb_tx)]
        /\ FreePackets(SubSeq(mx_tx_bufs[c], nb_tx + 1, Len(mx_tx_bufs[c])))
        /\ mx_tx_bufs' = [mx_tx_bufs EXCEPT ![c] = <<>>]
        /\ alive' = (deployment.asserts => nb_tx = Len(mx_tx_bufs[c]))
        /\ UNCHANGED <<deployment, content, rxq, target_core, du_ring, mx_bufs, received, to_ru>>
        /\ alive
  BY DEF TxBurst
<1>2. TypeOK /\ PartsInv
  BY DEF MemInv, PartsInv
<1>3. Waits' = Waits /\ (MayLeak => MayLeak') /\ (~alive => ~alive') /\ alive' \in BOOLEAN
  BY <1>1, WaitsUnmoved DEF MayLeak
<1>4. /\ Leaves' = MovedFrom(Leaves, <<"out", c>>, <<"tx", c>>, Len(mx_tx_bufs[c]), nb_tx)
      /\ tx' \in [Cores -> Seq(Outgoing)] /\ mx_tx_bufs' \in [Cores -> Seq(Outgoing)]
  BY <1>1, <1>2, BurstMoves
<1>5. /\ Leaves[<<"out", c>>] = mx_tx_bufs[c] /\ <<"out", c>> \in Leaving
      /\ <<"tx", c>> \in Leaving /\ <<"out", c>> # <<"tx", c>>
      /\ Len(mx_tx_bufs[c]) \in 0 .. Len(mx_tx_bufs[c])
  <2>1. Len(mx_tx_bufs[c]) \in Nat
    BY <1>2 DEF TypeOK
  <2>2. Len(mx_tx_bufs[c]) \in 0 .. Len(mx_tx_bufs[c])
    BY <2>1
  <2>3. /\ Leaves[<<"out", c>>] = mx_tx_bufs[c] /\ <<"out", c>> \in Leaving
        /\ <<"tx", c>> \in Leaving
    BY <1>2, Queues
  <2> QED BY <2>2, <2>3, PlacesDiffer
<1>6. PartsInv' /\ refcnt' \in [Bufs -> 0 .. NumRus] /\ clones' \in [Rus -> 0 .. NumClones]
  <2>1. FreePackets(SubSeq(Leaves[<<"out", c>>], nb_tx + 1, Len(mx_tx_bufs[c])))
    BY <1>1, <1>5
  <2>2. UNCHANGED <<content, received>>
    BY <1>1
  <2> QED BY <1>2, <1>3, <1>4, <1>5, <2>1, <2>2, PacketsFreed
<1>7. TypeOK'
  BY <1>1, <1>2, <1>3, <1>4, <1>6 DEF TypeOK
<1> QED BY <1>1, <1>6, <1>7 DEF MemInv, PartsInv, RingInv

\* The head of a TX queue leaves it.
LEMMA HeadSent ==
  ASSUME TypeOK, NEW c \in Cores, tx[c] # <<>>,
         tx' = [tx EXCEPT ![c] = Tail(@)], mx_tx_bufs' = mx_tx_bufs
  PROVE  /\ Leaves' = MovedFrom(Leaves, <<"tx", c>>, Nowhere, 1, 0)
         /\ tx' \in [Cores -> Seq(Outgoing)]
<1>1. PICK q \in Seq(Outgoing) : q = tx[c]
  BY DEF TypeOK
<1>2. Tail(q) \in Seq(Outgoing) /\ Tail(q) = SubSeq(q, 1 + 1, Len(q))
  BY <1>1
<1>3. /\ tx' \in [Cores -> Seq(Outgoing)] /\ tx'[c] = SubSeq(q, 1 + 1, Len(q))
      /\ \A d \in Cores : d # c => tx'[d] = tx[d]
  BY <1>1, <1>2 DEF TypeOK
<1>4. Leaves[<<"tx", c>>] = q /\ <<"tx", c>> \in Leaving /\ Leaves \in [Leaving -> Seq(Outgoing)]
      /\ Nowhere \notin Leaving /\ <<"tx", c>> # Nowhere
  BY <1>1, Queues, NowhereIsNoPlace
<1>5. ASSUME NEW k \in Leaving, k # <<"tx", c>> PROVE Leaves'[k] = Leaves[k]
  <2>1. PICK d \in Cores : k = <<"out", d>> \/ k = <<"tx", d>>
    BY PlacesOfCores
  <2>2. CASE k = <<"out", d>>
    BY <2>2, Queues, QueuesAfter
  <2>3. CASE k = <<"tx", d>>
    <3>1. d # c
      BY <2>3, <1>5
    <3> QED BY <3>1, <2>3, <1>3, Queues, QueuesAfter
  <2> QED BY <2>1, <2>2, <2>3
<1>6. Leaves'[<<"tx", c>>] = SubSeq(q, 1 + 1, Len(q))
  BY <1>3, QueuesAfter
<1>7. IsMove(Leaves, <<"tx", c>>, Nowhere, 1, 0, Leaves')
  BY <1>4, <1>5, <1>6 DEF IsMove
<1> QED BY <1>3, <1>4, <1>7, MoveOfLeaves

LEMMA Transmitted == \A c \in Cores : MemInv /\ Transmit(c) => MemInv'
<1> SUFFICES ASSUME NEW c \in Cores, MemInv, Transmit(c) PROVE MemInv'
  OBVIOUS
<1> DEFINE e == Head(tx[c])
<1>1. /\ tx[c] # <<>>
      /\ to_ru' = [to_ru EXCEPT ![e.ru] = Append(@, [packet |-> content[e.buf], core |-> c])]
      /\ tx' = [tx EXCEPT ![c] = Tail(@)]
      /\ FreePackets(<<e>>)
      /\ UNCHANGED <<deployment, content, rxq, target_core, du_ring, mx_bufs, mx_tx_bufs,
                     alive, received>>
  BY DEF Transmit
<1>2. TypeOK /\ PartsInv
  BY DEF MemInv, PartsInv
<1>3. Waits' = Waits /\ (MayLeak => MayLeak') /\ (~alive => ~alive')
  BY <1>1, WaitsUnmoved DEF MayLeak
<1>4. /\ Leaves' = MovedFrom(Leaves, <<"tx", c>>, Nowhere, 1, 0)
      /\ tx' \in [Cores -> Seq(Outgoing)]
  BY <1>1, <1>2, HeadSent
<1>5. /\ Leaves[<<"tx", c>>] = tx[c] /\ <<"tx", c>> \in Leaving /\ <<"tx", c>> # Nowhere
      /\ 1 \in 1 .. Len(tx[c]) /\ 1 \in 0 .. Len(tx[c]) /\ tx[c][1] = e /\ e \in Outgoing
      /\ SubSeq(tx[c], 0 + 1, 1) = <<e>> /\ 0 \in 0 .. 1
  <2>1. PICK q \in Seq(Outgoing) : q = tx[c]
    BY <1>2 DEF TypeOK
  <2>2. q # <<>>
    BY <1>1, <2>1
  <2>3. /\ 1 \in 1 .. Len(q) /\ 1 \in 0 .. Len(q) /\ q[1] = Head(q) /\ Head(q) \in Outgoing
    BY <2>2
  <2>4. SubSeq(q, 0 + 1, 1) = <<Head(q)>>
    <3>1. SubSeq(q, 1, 1) = <<q[1]>> \o SubSeq(q, 1 + 1, 1)
      BY <2>3, SubSeqRecursiveFirst
    <3>2. SubSeq(q, 1 + 1, 1) = <<>>
      BY SubSeqEmpty
    <3>3. PICK y \in Outgoing : y = q[1]
      BY <2>3
    <3>4. <<y>> \o <<>> = <<y>>
      BY ConcatEmptySeq
    <3>5. SubSeq(q, 1, 1) = <<y>> /\ Head(q) = y
      BY <2>3, <3>1, <3>2, <3>3, <3>4
    <3>6. 0 + 1 = 1
      OBVIOUS
    <3> QED BY <3>5, <3>6, Zenon
  <2>5. <<"tx", c>> # Nowhere
    BY DEF Nowhere
  <2>6. Leaves[<<"tx", c>>] = tx[c] /\ <<"tx", c>> \in Leaving
    BY <1>2, Queues
  <2>7. 0 \in 0 .. 1
    OBVIOUS
  <2> QED BY <2>1, <2>3, <2>4, <2>5, <2>6, <2>7
<1>6. PartsInv' /\ refcnt' \in [Bufs -> 0 .. NumRus] /\ clones' \in [Rus -> 0 .. NumClones]
  <2>1. FreePackets(SubSeq(Leaves[<<"tx", c>>], 0 + 1, 1))
    BY <1>1, <1>5
  <2>2. UNCHANGED <<content, received>>
    BY <1>1
  <2> QED BY <1>2, <1>3, <1>4, <1>5, <2>1, <2>2, PacketsFreed
<1>7. content[e.buf] \in Packet /\ e.ru \in Rus /\ e.buf \in Bufs
  <2>1. IsLeaving(e)
    BY <1>5 DEF IsLeaving, Has
  <2>2. e.ru \in Rus /\ e.buf \in Bufs /\ e.clone \in BOOLEAN /\ e = ToRu(e.ru, e.buf, e.clone)
    BY <1>5, Entries
  <2>3. e.ru \in RusOf(e.buf)
    BY <2>1, <2>2 DEF RusOf
  <2> QED BY <2>2, <2>3, <1>2 DEF PartsInv, ContentInv, Live
<1> HIDE DEF e
<1>8. to_ru' \in [Rus -> Seq([packet : Packet, core : Cores])]
  <2>1. to_ru \in [Rus -> Seq([packet : Packet, core : Cores])]
    BY <1>2 DEF TypeOK
  <2>2. PICK T : T = [packet : Packet, core : Cores]
    OBVIOUS
  <2>3. PICK p \in T : p = [packet |-> content[e.buf], core |-> c]
    BY <2>2, <1>7
  <2>4. PICK q \in Seq(T) : q = to_ru[e.ru]
    BY <2>1, <2>2, <1>7
  <2>5. Append(q, p) \in Seq(T)
    OBVIOUS
  <2>6. to_ru' = [to_ru EXCEPT ![e.ru] = Append(q, p)]
    BY <1>1, <2>3, <2>4
  <2> QED BY <2>1, <2>2, <2>5, <2>6
<1>9. TypeOK'
  BY <1>1, <1>2, <1>4, <1>6, <1>8 DEF TypeOK
<1> QED BY <1>1, <1>6, <1>9 DEF MemInv, PartsInv, RingInv

\* A received packet is stored in a free mbuf, which waits.
LEMMA PacketStored ==
  ASSUME TypeOK, NEW b \in Bufs, rxq' = Append(rxq, b), UNCHANGED <<du_ring, mx_bufs>>
  PROVE  /\ Waits' = Extended(Waits, <<"input", 0>>, <<b>>)
         /\ <<b>> \in Seq(Bufs) /\ rxq' \in Seq(Bufs)
<1>1. PICK q \in Seq(Bufs) : q = rxq
  BY DEF TypeOK
<1>2. Append(q, b) = q \o <<b>> /\ Append(q, b) \in Seq(Bufs) /\ <<b>> \in Seq(Bufs)
  OBVIOUS
<1>3. /\ Waits[<<"input", 0>>] = q /\ <<"input", 0>> \in Waiting /\ Waits \in [Waiting -> Seq(Bufs)]
  BY <1>1, Queues, CoreFacts DEF Input
<1>4. Waits'[<<"input", 0>>] = q \o <<b>>
  BY <1>1, <1>2, QueuesAfter, CoreFacts
<1>5. ASSUME NEW k \in Waiting, k # <<"input", 0>> PROVE Waits'[k] = Waits[k]
  <2>1. PICK d \in Cores : k = <<"input", d>> \/ k = <<"burst", d>>
    BY PlacesOfCores
  <2>2. CASE k = <<"burst", d>>
    BY <2>2, Queues, QueuesAfter
  <2>3. CASE k = <<"input", d>>
    <3>1. d # 0
      BY <2>3, <1>5
    <3> QED BY <3>1, <2>3, Queues, QueuesAfter DEF Input
  <2> QED BY <2>1, <2>2, <2>3
<1>6. Waits' = Extended(Waits, <<"input", 0>>, <<b>>)
  BY <1>3, <1>4, <1>5, QueuesAfter DEF Extended
<1> QED BY <1>1, <1>2, <1>6

Stores(b, p) ==
  /\ refcnt[b] = 0 /\ p.id = Len(received) + 1 /\ content' = [content EXCEPT ![b] = p]
  /\ received' = Append(received, p) /\ Waits' = Extended(Waits, <<"input", 0>>, <<b>>)
  /\ UNCHANGED <<mx_tx_bufs, tx, to_ru>>
LEMMA Received == MemInv /\ NicReceive => MemInv' /\ \E b \in Bufs, p \in Packet : Stores(b, p)
<1> SUFFICES ASSUME MemInv, NicReceive PROVE MemInv' /\ \E b \in Bufs, p \in Packet : Stores(b, p)
  OBVIOUS
<1>1. PICK b : b = Allocated(1)[1]
  OBVIOUS
<1>2. PICK kind, p :
        /\ kind \in Kinds
        /\ p = [id |-> Len(received) + 1, kind |-> kind]
        /\ Len(received) < MaxPackets
        /\ Free # {}
        /\ refcnt' = [refcnt EXCEPT ![b] = 1]
        /\ content' = [content EXCEPT ![b] = p]
        /\ rxq' = Append(rxq, b)
        /\ received' = Append(received, p)
        /\ UNCHANGED <<deployment, clones, target_core, du_ring, mx_bufs, mx_tx_bufs, tx,
                       alive, to_ru>>
  BY <1>1 DEF NicReceive
<1>3. TypeOK /\ PartsInv
  BY DEF MemInv, PartsInv
<1>4. b \in Bufs /\ refcnt[b] = 0
  <2>1. Free \in SUBSET Bufs
    BY DEF Free
  <2>2. IsFiniteSet(Free) /\ Cardinality(Free) \in Nat
    BY <2>1, FiniteParts
  <2>3. Cardinality(Free) # 0
    BY <2>2, <1>2, FS_EmptySet
  <2>4. Cardinality(Free) >= 1 /\ 1 \in Nat
    BY <2>2, <2>3
  <2>5. Allocated(1) \in [1 .. 1 -> Free]
    BY <2>4, MbufsAllocated
  <2> QED BY <1>1, <2>5 DEF Free
<1>5. PICK n \in Nat : n = Len(received) /\ n + 1 \in 1 .. MaxPackets
  <2>1. Len(received) \in Nat /\ MaxPackets \in Nat
    BY <1>3, DownlinkAssumption DEF TypeOK
  <2> QED BY <2>1, <1>2
<1>6. p \in Packet /\ p.id = n + 1
  BY <1>2, <1>5 DEF Packet
<1>7. /\ received' \in Seq(Packet) /\ Len(received') = n + 1 /\ received'[n + 1] = p
      /\ \A i \in 1 .. n : received'[i] = received[i] /\ i \in 1 .. n + 1
  <2>1. PICK q \in Seq(Packet) : q = received
    BY <1>3 DEF TypeOK
  <2>2. /\ Append(q, p) \in Seq(Packet) /\ Len(Append(q, p)) = Len(q) + 1
        /\ Append(q, p)[Len(q) + 1] = p /\ \A i \in 1 .. Len(q) : Append(q, p)[i] = q[i]
    BY <1>6
  <2> QED BY <1>2, <1>5, <2>1, <2>2
<1>8. /\ Waits' = Extended(Waits, <<"input", 0>>, <<b>>) /\ <<b>> \in Seq(Bufs)
      /\ rxq' \in Seq(Bufs)
  BY <1>2, <1>3, <1>4, PacketStored
<1>9. PICK v \in Seq(Bufs) : v = <<b>>
  BY <1>8
<1>10. \A x : Within(v, x) <=> x = b
  BY <1>9 DEF Within
<1>11. /\ \A d : IsWaiting(d)' <=> IsWaiting(d) \/ d = b
       /\ Uniq(Waiting, Waits)'
  <2>1. Waits \in [Waiting -> Seq(Bufs)] /\ <<"input", 0>> \in Waiting
    BY <1>3, Queues, CoreFacts
  <2>2. Adds(Waiting, Waits, <<"input", 0>>, v, Waits')
    BY <1>8, <1>9, <2>1, JoinedQueue
  <2>3. Distinct(v)
    BY <1>9 DEF Distinct
  <2>4. ~Has(Waiting, Waits, b)
    BY <1>3, <1>4, FreeIsNotLive DEF Live, IsWaiting
  <2>5. /\ \A x : Has(Waiting, Waits', x) <=> Has(Waiting, Waits, x) \/ x = b
        /\ Uniq(Waiting, Waits')
    BY <2>2, <2>3, <2>4, <1>3, <1>10 DEF Adds, PartsInv, PlacesInv
  <2> QED BY <2>5, AfterStep DEF IsWaiting
<1>12. /\ Uniq(Leaving, Leaves)' <=> Uniq(Leaving, Leaves)
       /\ \A e : IsLeaving(e)' <=> IsLeaving(e)
       /\ \A d : RusOf(d)' = RusOf(d)
       /\ \A r : ClonedFor(r)' = ClonedFor(r)
  <2>1. Leaves' = Leaves
    BY <1>2, LeavesUnmoved
  <2> QED BY <2>1, LeavesKept
<1>13. RusOf(b) = {} /\ ~IsWaiting(b)
  BY <1>3, <1>4, FreeIsNotLive DEF Live
<1>14. /\ refcnt' \in [Bufs -> 0 .. NumRus] /\ refcnt'[b] = 1
       /\ content' \in [Bufs -> Packet \cup {NoPacket}] /\ content'[b] = p
       /\ \A d \in Bufs : d # b => refcnt'[d] = refcnt[d] /\ content'[d] = content[d]
       /\ clones' = clones
  <2>1. refcnt \in [Bufs -> 0 .. NumRus] /\ content \in [Bufs -> Packet \cup {NoPacket}]
    BY <1>3 DEF TypeOK
  <2>2. 1 \in 0 .. NumRus
    BY CoreFacts
  <2> QED BY <2>1, <2>2, <1>2, <1>4, <1>6
<1>15. PlacesInv'
  <2>1. \A d \in Bufs : IsWaiting(d)' => RusOf(d)' = {}
    BY <1>11, <1>12, <1>13, <1>3 DEF PartsInv, PlacesInv
  <2> QED BY <2>1, <1>11, <1>12, <1>3 DEF PartsInv, PlacesInv
<1>16. CountsInv'
  <2>1. (MayLeak' <=> MayLeak) /\ alive' = alive
    BY <1>2 DEF MayLeak
  <2>2. ASSUME NEW d \in Bufs
        PROVE  /\ IsWaiting(d)' => refcnt'[d] = 1
               /\ ~IsWaiting(d)' =>
                    \/ refcnt'[d] = Cardinality(RusOf(d)')
                    \/ MayLeak' /\ refcnt'[d] = Cardinality(RusOf(d)') + 1
    <3>1. CASE d = b
      BY <3>1, <1>11, <1>14
    <3>2. CASE d # b
      BY <3>2, <2>1, <1>11, <1>12, <1>14, <1>3 DEF PartsInv, CountsInv
    <3> QED BY <3>1, <3>2
  <2>3. \A r \in Rus :
          \/ clones'[r] + 2 * Cardinality(ClonedFor(r)') = NumClones
          \/ ~alive' /\ clones'[r] + 2 * Cardinality(ClonedFor(r)') < NumClones
    BY <2>1, <1>3, <1>12, <1>14 DEF PartsInv, CountsInv
  <2> QED BY <2>2, <2>3 DEF CountsInv
<1>17. ContentInv'
  <2>1. ASSUME NEW d \in Bufs, Live(d)'
        PROVE  /\ content'[d] \in Packet /\ content'[d].id \in 1 .. Len(received')
               /\ content'[d] = received'[content'[d].id]
               /\ RusOf(d)' # {} => content'[d].kind \in {"control", "iq"}
    <3>1. CASE d = b
      <4>1. n + 1 \in 1 .. n + 1
        OBVIOUS
      <4> QED BY <3>1, <4>1, <1>6, <1>7, <1>12, <1>13, <1>14
    <3>2. CASE d # b
      <4>1. Live(d)
        BY <2>1, <3>2, <1>11, <1>12 DEF Live
      <4>2. /\ content[d] \in Packet /\ content[d].id \in 1 .. n
            /\ content[d] = received[content[d].id]
            /\ RusOf(d) # {} => content[d].kind \in {"control", "iq"}
        BY <4>1, <1>3, <1>5 DEF PartsInv, ContentInv
      <4> QED BY <3>2, <4>2, <1>7, <1>12, <1>14
    <3> QED BY <3>1, <3>2
  <2>2. \A d \in Bufs : RusOf(d)' # {} => Live(d)'
    BY DEF Live
  <2> QED BY <2>1, <2>2 DEF ContentInv
<1>18. TypeOK'
  BY <1>2, <1>3, <1>7, <1>8, <1>14 DEF TypeOK
<1>19. Stores(b, p)
  BY <1>2, <1>4, <1>8 DEF Stores
<1> QED BY <1>2, <1>4, <1>6, <1>15, <1>16, <1>17, <1>18, <1>19 DEF MemInv, PartsInv, RingInv

LEMMA MemStarts ==
  Init => /\ MemInv
          /\ \A k \in Waiting : Len(Waits[k]) = 0
          /\ \A k \in Leaving : Len(Leaves[k]) = 0
<1> SUFFICES ASSUME Init
             PROVE  /\ MemInv
                    /\ \A k \in Waiting : Len(Waits[k]) = 0
                    /\ \A k \in Leaving : Len(Leaves[k]) = 0
  OBVIOUS
<1>1. PICK z : z = <<>>
  OBVIOUS
<1>2. Len(z) = 0 /\ z \in Seq(Bufs) /\ z \in Seq(Outgoing) /\ z \in Seq(Packet)
      /\ z \in Seq([packet : Packet, core : Cores])
  BY <1>1
<1>3. TypeOK /\ target_core <= deployment.num_workers /\ RingInv
  <2>1. deployment \in Deployment /\ deployment.num_workers \in Nat
    BY DownlinkAssumption DEF Init, Deployment
  <2>2. 0 \in 0 .. NumRus /\ NumClones \in 0 .. NumClones /\ 0 \in Cores /\ RingCap >= 0
    BY CoreFacts, DownlinkAssumption
  <2> QED BY <1>1, <1>2, <2>1, <2>2 DEF Init, TypeOK, RingInv
<1>4. /\ \A k \in Waiting : Waits[k] = z
      /\ \A k \in Leaving : Leaves[k] = z
  <2>1. \A c \in Cores : Input(c) = z /\ mx_bufs[c] = z /\ mx_tx_bufs[c] = z /\ tx[c] = z
    BY <1>1, CoreFacts DEF Init, Input
  <2>2. \A c \in Cores : Waits[<<"input", c>>] = z /\ Waits[<<"burst", c>>] = z
    BY <2>1, <1>3, Queues
  <2>3. \A c \in Cores : Leaves[<<"out", c>>] = z /\ Leaves[<<"tx", c>>] = z
    BY <2>1, <1>3, Queues
  <2>4. \A k \in Waiting : Waits[k] = z
    BY <2>2, PlacesOfCores
  <2>5. \A k \in Leaving : Leaves[k] = z
    BY <2>3, PlacesOfCores
  <2> QED BY <2>4, <2>5
<1>5. /\ Uniq(Waiting, Waits) /\ Uniq(Leaving, Leaves)
      /\ \A b : ~IsWaiting(b) /\ \A e : ~IsLeaving(e)
  BY <1>2, <1>4 DEF Uniq, IsWaiting, IsLeaving, Has
<1>6. /\ \A b : RusOf(b) = {} /\ ~Live(b)
      /\ \A r : ClonedFor(r) = {}
  BY <1>5 DEF RusOf, ClonedFor, Live
<1>7. PlacesInv /\ ContentInv
  BY <1>5, <1>6 DEF PlacesInv, ContentInv
<1>8. CountsInv
  <2>1. Cardinality({}) = 0
    BY FS_EmptySet
  <2>2. \A r \in Rus : clones[r] + 2 * Cardinality(ClonedFor(r)) = NumClones
    <3> TAKE r \in Rus
    <3>1. Cardinality(ClonedFor(r)) = 0 /\ clones[r] = NumClones /\ NumClones \in Nat
      BY <1>6, <2>1, DownlinkAssumption DEF Init
    <3> QED BY <3>1
  <2>3. \A b \in Bufs : refcnt[b] = Cardinality(RusOf(b))
    BY <1>6, <2>1 DEF Init
  <2> QED BY <1>5, <2>2, <2>3 DEF CountsInv
<1> QED BY <1>2, <1>3, <1>4, <1>7, <1>8 DEF MemInv

LEMMA MemKept == MemInv /\ [Next]_vars => MemInv'
<1> SUFFICES ASSUME MemInv, [Next]_vars PROVE MemInv'
  OBVIOUS
<1>1. 0 \in Cores /\ \A w \in Workers : w \in Cores
  BY CoreFacts
<1>2. CASE Main
  BY <1>1, <1>2, DuHandled, PacketHandled, BurstSent DEF Main
<1>3. ASSUME NEW w \in Workers, Worker(w) PROVE MemInv'
  BY <1>1, <1>3, DuDequeued, PacketHandled, BurstSent DEF Worker
<1>4. CASE NicReceive
  BY <1>4, Received
<1>5. ASSUME NEW c \in Cores, Transmit(c) PROVE MemInv'
  BY <1>5, Transmitted
<1>6. CASE UNCHANGED vars
  <2>1. Waits' = Waits /\ Leaves' = Leaves
    BY <1>6, WaitsUnmoved, LeavesUnmoved DEF vars
  <2>2. \A b : IsWaiting(b)' <=> IsWaiting(b)
    BY <2>1, AfterStep DEF IsWaiting
  <2>3. /\ Uniq(Leaving, Leaves)' <=> Uniq(Leaving, Leaves)
        /\ \A e : IsLeaving(e)' <=> IsLeaving(e)
        /\ \A d : RusOf(d)' = RusOf(d)
        /\ \A r : ClonedFor(r)' = ClonedFor(r)
    BY <2>1, LeavesKept
  <2>4. Uniq(Waiting, Waits)' <=> Uniq(Waiting, Waits)
    BY <2>1, AfterStep
  <2>5. \A b : Live(b)' <=> Live(b)
    BY <2>2, <2>3 DEF Live
  <2>6. PlacesInv'
    BY <2>2, <2>3, <2>4 DEF MemInv, PlacesInv
  <2>7. CountsInv'
    BY <1>6, <2>2, <2>3, <2>5 DEF MemInv, CountsInv, vars, memory, MayLeak
  <2>8. ContentInv'
    BY <1>6, <2>2, <2>3, <2>5 DEF MemInv, ContentInv, vars, memory
  <2>9. TypeOK' /\ RingInv' /\ target_core' <= deployment'.num_workers
    BY <1>6 DEF MemInv, TypeOK, RingInv, vars, memory
  <2> QED BY <2>6, <2>7, <2>8, <2>9 DEF MemInv
<1> QED BY <1>2, <1>3, <1>4, <1>5, <1>6 DEF Next, Aborted

\* Every mbuf that the downlink holds waits for one core or is on its way to RUs,
\* has a reference for each of these RUs, and still holds the packet that arrived.
THEOREM MemoryInvariant == Spec => []MemInv
<1>1. Init => MemInv
  BY MemStarts
<1>2. MemInv /\ [Next]_vars => MemInv'
  BY MemKept
<1> QED BY <1>1, <1>2, PTL DEF Spec

-----------------------------------------------------------------------------
(* The references counted                                                  *)

Place(k, i) == <<k[1], k[2], i>>
\* The places of mbuf b, and of the clones of RU r.
LEMMA ReferencePlaces ==
  ASSUME TypeOK, NEW b
  PROVE  \A x : x \in References(b) <=>
           \/ \E k \in Waiting : \E i \in 1 .. Len(Waits[k]) : Waits[k][i] = b /\ x = Place(k, i)
           \/ \E k \in Leaving : \E i \in 1 .. Len(Leaves[k]) :
                Leaves[k][i].buf = b /\ x = Place(k, i)
<1>1. \A c \in Cores : /\ DOMAIN Input(c) = 1 .. Len(Input(c))
                       /\ DOMAIN mx_bufs[c] = 1 .. Len(mx_bufs[c])
                       /\ DOMAIN mx_tx_bufs[c] = 1 .. Len(mx_tx_bufs[c])
                       /\ DOMAIN tx[c] = 1 .. Len(tx[c])
  <2>1. \A c \in Cores : Input(c) \in Seq(Bufs) /\ mx_bufs[c] \in Seq(Bufs)
                         /\ mx_tx_bufs[c] \in Seq(Outgoing) /\ tx[c] \in Seq(Outgoing)
    BY CoreFacts DEF TypeOK, Input
  <2> QED BY <2>1
<1>2. \A x : x \in References(b) <=> \E c \in Cores :
        \/ \E i \in 1 .. Len(Input(c)) : Input(c)[i] = b /\ x = <<"input", c, i>>
        \/ \E i \in 1 .. Len(mx_bufs[c]) : mx_bufs[c][i] = b /\ x = <<"burst", c, i>>
        \/ \E i \in 1 .. Len(mx_tx_bufs[c]) : mx_tx_bufs[c][i].buf = b /\ x = <<"out", c, i>>
        \/ \E i \in 1 .. Len(tx[c]) : tx[c][i].buf = b /\ x = <<"tx", c, i>>
  <2> TAKE x
  <2>1. x \in References(b) <=> \E c \in Cores :
        \/ \E i \in DOMAIN Input(c) : Input(c)[i] = b /\ x = <<"input", c, i>>
        \/ \E i \in DOMAIN mx_bufs[c] : mx_bufs[c][i] = b /\ x = <<"burst", c, i>>
        \/ \E i \in DOMAIN mx_tx_bufs[c] : mx_tx_bufs[c][i].buf = b /\ x = <<"out", c, i>>
        \/ \E i \in DOMAIN tx[c] : tx[c][i].buf = b /\ x = <<"tx", c, i>>
    BY DEF References
  <2> QED BY <2>1, <1>1
<1>3. \A c : \A i : /\ Place(<<"input", c>>, i) = <<"input", c, i>>
                    /\ Place(<<"burst", c>>, i) = <<"burst", c, i>>
                    /\ Place(<<"out", c>>, i) = <<"out", c, i>>
                    /\ Place(<<"tx", c>>, i) = <<"tx", c, i>>
  BY DEF Place
<1> SUFFICES ASSUME NEW x
             PROVE  x \in References(b) <=>
               \/ \E k \in Waiting : \E i \in 1 .. Len(Waits[k]) : Waits[k][i] = b /\ x = Place(k, i)
               \/ \E k \in Leaving : \E i \in 1 .. Len(Leaves[k]) :
                    Leaves[k][i].buf = b /\ x = Place(k, i)
  OBVIOUS
<1>4. ASSUME NEW c \in Cores, NEW i \in 1 .. Len(Input(c)), Input(c)[i] = b, x = <<"input", c, i>>
      PROVE  \E k \in Waiting : \E j \in 1 .. Len(Waits[k]) : Waits[k][j] = b /\ x = Place(k, j)
  BY <1>3, <1>4, Queues
<1>5. ASSUME NEW c \in Cores, NEW i \in 1 .. Len(mx_bufs[c]), mx_bufs[c][i] = b, x = <<"burst", c, i>>
      PROVE  \E k \in Waiting : \E j \in 1 .. Len(Waits[k]) : Waits[k][j] = b /\ x = Place(k, j)
  BY <1>3, <1>5, Queues
<1>6. ASSUME NEW c \in Cores, NEW i \in 1 .. Len(mx_tx_bufs[c]), mx_tx_bufs[c][i].buf = b,
             x = <<"out", c, i>>
      PROVE  \E k \in Leaving : \E j \in 1 .. Len(Leaves[k]) : Leaves[k][j].buf = b /\ x = Place(k, j)
  BY <1>3, <1>6, Queues
<1>7. ASSUME NEW c \in Cores, NEW i \in 1 .. Len(tx[c]), tx[c][i].buf = b, x = <<"tx", c, i>>
      PROVE  \E k \in Leaving : \E j \in 1 .. Len(Leaves[k]) : Leaves[k][j].buf = b /\ x = Place(k, j)
  BY <1>3, <1>7, Queues
<1>8. ASSUME NEW k \in Waiting, NEW i \in 1 .. Len(Waits[k]), Waits[k][i] = b, x = Place(k, i)
      PROVE  x \in References(b)
  <2>1. PICK c \in Cores : k = <<"input", c>> \/ k = <<"burst", c>>
    BY PlacesOfCores
  <2>2. CASE k = <<"input", c>>
    <3>1. i \in 1 .. Len(Input(c)) /\ Input(c)[i] = b /\ x = <<"input", c, i>>
      BY <2>2, <1>3, <1>8, Queues
    <3> QED BY <3>1, <1>2
  <2>3. CASE k = <<"burst", c>>
    <3>1. i \in 1 .. Len(mx_bufs[c]) /\ mx_bufs[c][i] = b /\ x = <<"burst", c, i>>
      BY <2>3, <1>3, <1>8, Queues
    <3> QED BY <3>1, <1>2
  <2> QED BY <2>1, <2>2, <2>3
<1>9. ASSUME NEW k \in Leaving, NEW i \in 1 .. Len(Leaves[k]), Leaves[k][i].buf = b, x = Place(k, i)
      PROVE  x \in References(b)
  <2>1. PICK c \in Cores : k = <<"out", c>> \/ k = <<"tx", c>>
    BY PlacesOfCores
  <2>2. CASE k = <<"out", c>>
    <3>1. i \in 1 .. Len(mx_tx_bufs[c]) /\ mx_tx_bufs[c][i].buf = b /\ x = <<"out", c, i>>
      BY <2>2, <1>3, <1>9, Queues
    <3> QED BY <3>1, <1>2
  <2>3. CASE k = <<"tx", c>>
    <3>1. i \in 1 .. Len(tx[c]) /\ tx[c][i].buf = b /\ x = <<"tx", c, i>>
      BY <2>3, <1>3, <1>9, Queues
    <3> QED BY <3>1, <1>2
  <2> QED BY <2>1, <2>2, <2>3
<1>10. ASSUME x \in References(b)
       PROVE  \/ \E k \in Waiting : \E i \in 1 .. Len(Waits[k]) : Waits[k][i] = b /\ x = Place(k, i)
              \/ \E k \in Leaving : \E i \in 1 .. Len(Leaves[k]) :
                   Leaves[k][i].buf = b /\ x = Place(k, i)
  BY <1>10, <1>2, <1>4, <1>5, <1>6, <1>7
<1> QED BY <1>8, <1>9, <1>10

LEMMA ClonePlaces ==
  ASSUME TypeOK, NEW r
  PROVE  \A x : x \in CloneReferences(r) <=>
           \E k \in Leaving : \E i \in 1 .. Len(Leaves[k]) : IsClone(Leaves[k][i], r) /\ x = Place(k, i)
<1>1. \A c \in Cores : DOMAIN mx_tx_bufs[c] = 1 .. Len(mx_tx_bufs[c]) /\ DOMAIN tx[c] = 1 .. Len(tx[c])
  <2>1. \A c \in Cores : mx_tx_bufs[c] \in Seq(Outgoing) /\ tx[c] \in Seq(Outgoing)
    BY DEF TypeOK
  <2> QED BY <2>1
<1>2. \A x : x \in CloneReferences(r) <=> \E c \in Cores :
        \/ \E i \in 1 .. Len(mx_tx_bufs[c]) : IsClone(mx_tx_bufs[c][i], r) /\ x = <<"out", c, i>>
        \/ \E i \in 1 .. Len(tx[c]) : IsClone(tx[c][i], r) /\ x = <<"tx", c, i>>
  <2> TAKE x
  <2>1. x \in CloneReferences(r) <=> \E c \in Cores :
        \/ \E i \in DOMAIN mx_tx_bufs[c] : IsClone(mx_tx_bufs[c][i], r) /\ x = <<"out", c, i>>
        \/ \E i \in DOMAIN tx[c] : IsClone(tx[c][i], r) /\ x = <<"tx", c, i>>
    BY DEF CloneReferences
  <2> QED BY <2>1, <1>1
<1>3. \A c : \A i : /\ Place(<<"out", c>>, i) = <<"out", c, i>>
                    /\ Place(<<"tx", c>>, i) = <<"tx", c, i>>
  BY DEF Place
<1> SUFFICES ASSUME NEW x
             PROVE  x \in CloneReferences(r) <=> \E k \in Leaving : \E i \in 1 .. Len(Leaves[k]) :
                      IsClone(Leaves[k][i], r) /\ x = Place(k, i)
  OBVIOUS
<1>4. ASSUME NEW c \in Cores, NEW i \in 1 .. Len(mx_tx_bufs[c]), IsClone(mx_tx_bufs[c][i], r),
             x = <<"out", c, i>>
      PROVE  \E k \in Leaving : \E j \in 1 .. Len(Leaves[k]) :
               IsClone(Leaves[k][j], r) /\ x = Place(k, j)
  BY <1>3, <1>4, Queues
<1>5. ASSUME NEW c \in Cores, NEW i \in 1 .. Len(tx[c]), IsClone(tx[c][i], r), x = <<"tx", c, i>>
      PROVE  \E k \in Leaving : \E j \in 1 .. Len(Leaves[k]) :
               IsClone(Leaves[k][j], r) /\ x = Place(k, j)
  BY <1>3, <1>5, Queues
<1>6. ASSUME NEW k \in Leaving, NEW i \in 1 .. Len(Leaves[k]), IsClone(Leaves[k][i], r), x = Place(k, i)
      PROVE  x \in CloneReferences(r)
  <2>1. PICK c \in Cores : k = <<"out", c>> \/ k = <<"tx", c>>
    BY PlacesOfCores
  <2>2. CASE k = <<"out", c>>
    <3>1. i \in 1 .. Len(mx_tx_bufs[c]) /\ IsClone(mx_tx_bufs[c][i], r) /\ x = <<"out", c, i>>
      BY <2>2, <1>3, <1>6, Queues
    <3> QED BY <3>1, <1>2
  <2>3. CASE k = <<"tx", c>>
    <3>1. i \in 1 .. Len(tx[c]) /\ IsClone(tx[c][i], r) /\ x = <<"tx", c, i>>
      BY <2>3, <1>3, <1>6, Queues
    <3> QED BY <3>1, <1>2
  <2> QED BY <2>1, <2>2, <2>3
<1> QED BY <1>2, <1>4, <1>5, <1>6

\* What is in a place.
Found(x) == Leaves[<<x[1], x[2]>>][x[3]]
LEMMA PlacesFound ==
  ASSUME TypeOK, NEW k \in Leaving, NEW i
  PROVE  Found(Place(k, i)) = Leaves[k][i]
<1>1. k = <<k[1], k[2]>>
  BY DEF Leaving
<1> QED BY <1>1 DEF Found, Place

LEMMA LeavingOf ==
  ASSUME MemInv, NEW b \in Bufs, ~IsWaiting(b)
  PROVE  Cardinality(References(b)) = Cardinality(RusOf(b))
<1>1. TypeOK /\ PlacesInv /\ ~IsWaiting(b)
  BY DEF MemInv, PlacesInv
<1>2. \A k \in Waiting : \A i \in 1 .. Len(Waits[k]) : Waits[k][i] # b
  BY <1>1 DEF IsWaiting, Has
<1>3. \A x : x \in References(b) <=> \E k \in Leaving : \E i \in 1 .. Len(Leaves[k]) :
        Leaves[k][i].buf = b /\ x = Place(k, i)
  BY <1>1, <1>2, ReferencePlaces
<1>4. \A k \in Leaving : \A i \in 1 .. Len(Leaves[k]) :
        Leaves[k][i] \in Outgoing /\ IsLeaving(Leaves[k][i])
  <2>1. Leaves \in [Leaving -> Seq(Outgoing)]
    BY <1>1, Queues
  <2>2. \A k \in Leaving : \A i \in 1 .. Len(Leaves[k]) : Leaves[k][i] \in Outgoing
    BY <2>1
  <2> QED BY <2>2 DEF IsLeaving, Has
<1>5. ASSUME NEW x \in References(b)
      PROVE  /\ Found(x) \in Outgoing /\ IsLeaving(Found(x)) /\ Found(x).buf = b
             /\ Found(x).ru \in RusOf(b)
             /\ Found(x) = ToRu(Found(x).ru, b, Found(x).clone) /\ Found(x).clone \in BOOLEAN
             /\ Found(x).ru \in Rus
  <2>1. PICK k \in Leaving : \E i \in 1 .. Len(Leaves[k]) : Leaves[k][i].buf = b /\ x = Place(k, i)
    BY <1>3
  <2>2. PICK i \in 1 .. Len(Leaves[k]) : Leaves[k][i].buf = b /\ x = Place(k, i)
    BY <2>1
  <2>3. PICK e \in Outgoing : e = Found(x) /\ IsLeaving(e) /\ e.buf = b
    BY <1>1, <1>4, <2>2, PlacesFound
  <2>4. e.ru \in Rus /\ e.clone \in BOOLEAN /\ e = ToRu(e.ru, b, e.clone)
    BY <2>3, Entries
  <2>5. e.ru \in RusOf(b)
    BY <2>3, <2>4 DEF RusOf
  <2> QED BY <2>3, <2>4, <2>5
<1>6. ASSUME NEW x \in References(b), NEW y \in References(b), Found(x) = Found(y)
      PROVE  x = y
  <2>1. PICK k \in Leaving : \E i \in 1 .. Len(Leaves[k]) : Leaves[k][i].buf = b /\ x = Place(k, i)
    BY <1>3
  <2>2. PICK i \in 1 .. Len(Leaves[k]) : Leaves[k][i].buf = b /\ x = Place(k, i)
    BY <2>1
  <2>3. PICK l \in Leaving : \E j \in 1 .. Len(Leaves[l]) : Leaves[l][j].buf = b /\ y = Place(l, j)
    BY <1>3
  <2>4. PICK j \in 1 .. Len(Leaves[l]) : Leaves[l][j].buf = b /\ y = Place(l, j)
    BY <2>3
  <2>5. Leaves[k][i] = Leaves[l][j]
    BY <1>1, <1>6, <2>2, <2>4, PlacesFound
  <2>6. k = l /\ i = j
    BY <1>1, <2>5 DEF PlacesInv, Uniq
  <2> QED BY <2>2, <2>4, <2>6
<1> DEFINE f == [x \in References(b) |-> Found(x).ru]
<1>7. f \in [References(b) -> RusOf(b)] /\ \A x \in References(b) : f[x] = Found(x).ru
  BY <1>5
<1>8. \A x, y \in References(b) : f[x] = f[y] => x = y
  <2> SUFFICES ASSUME NEW x \in References(b), NEW y \in References(b), f[x] = f[y] PROVE x = y
    OBVIOUS
  <2>1. PICK e : e = Found(x)
    OBVIOUS
  <2>2. PICK g : g = Found(y)
    OBVIOUS
  <2>3. /\ IsLeaving(e) /\ e.ru \in Rus /\ e = ToRu(e.ru, b, e.clone) /\ e.clone \in BOOLEAN
        /\ IsLeaving(g) /\ g = ToRu(e.ru, b, g.clone) /\ g.clone \in BOOLEAN
    BY <1>5, <1>7, <2>1, <2>2
  <2>4. ~(IsLeaving(ToRu(e.ru, b, TRUE)) /\ IsLeaving(ToRu(e.ru, b, FALSE)))
    BY <2>3, <1>1 DEF PlacesInv
  <2>5. e = g
    <3>1. CASE e.clone = g.clone
      BY <3>1, <2>3
    <3>2. CASE e.clone = TRUE /\ g.clone = FALSE
      BY <3>2, <2>3, <2>4
    <3>3. CASE e.clone = FALSE /\ g.clone = TRUE
      BY <3>3, <2>3, <2>4
    <3> QED BY <3>1, <3>2, <3>3, <2>3
  <2> QED BY <1>6, <2>1, <2>2, <2>5
<1>9. \A r \in RusOf(b) : \E x \in References(b) : f[x] = r
  <2> TAKE r \in RusOf(b)
  <2>1. r \in Rus
    BY DEF RusOf
  <2>2. PICK clone \in BOOLEAN : IsLeaving(ToRu(r, b, clone))
    BY DEF RusOf
  <2>3. PICK e : e = ToRu(r, b, clone)
    OBVIOUS
  <2>4. e.ru = r /\ e.buf = b
    BY <2>3 DEF ToRu
  <2>5. PICK k \in Leaving : \E i \in 1 .. Len(Leaves[k]) : Leaves[k][i] = e
    BY <2>2, <2>3 DEF IsLeaving, Has
  <2>6. PICK i \in 1 .. Len(Leaves[k]) : Leaves[k][i] = e
    BY <2>5
  <2>7. Place(k, i) \in References(b)
    BY <1>3, <2>4, <2>6
  <2>8. Found(Place(k, i)) = e
    BY <1>1, <2>6, PlacesFound
  <2> QED BY <1>7, <2>4, <2>7, <2>8
<1> HIDE DEF f
<1>10. RusOf(b) \in SUBSET Rus
  BY DEF RusOf
<1>11. IsFiniteSet(RusOf(b))
  BY <1>10, FiniteParts
<1> QED BY <1>7, <1>8, <1>9, <1>11, Matched

LEMMA WaitingOf ==
  ASSUME MemInv, NEW b \in Bufs, IsWaiting(b)
  PROVE  Cardinality(References(b)) = 1
<1>1. TypeOK /\ PlacesInv /\ RusOf(b) = {}
  BY DEF MemInv, PlacesInv
<1>2. \A k \in Leaving : \A i \in 1 .. Len(Leaves[k]) : Leaves[k][i].buf # b
  <2> SUFFICES ASSUME NEW k \in Leaving, NEW i \in 1 .. Len(Leaves[k]), Leaves[k][i].buf = b
               PROVE  FALSE
    OBVIOUS
  <2>1. PICK e \in Outgoing : e = Leaves[k][i]
    <3>1. Leaves \in [Leaving -> Seq(Outgoing)]
      BY <1>1, Queues
    <3> QED BY <3>1
  <2>2. IsLeaving(e) /\ e.buf = b
    BY <2>1 DEF IsLeaving, Has
  <2>3. e.ru \in Rus /\ e.clone \in BOOLEAN /\ e = ToRu(e.ru, b, e.clone)
    BY <2>2, Entries
  <2>4. e.ru \in RusOf(b)
    BY <2>2, <2>3 DEF RusOf
  <2> QED BY <2>4, <1>1
<1>3. PICK k \in Waiting : \E i \in 1 .. Len(Waits[k]) : Waits[k][i] = b
  BY DEF IsWaiting, Has
<1>4. PICK i \in 1 .. Len(Waits[k]) : Waits[k][i] = b
  BY <1>3
<1>5. \A l \in Waiting : \A j \in 1 .. Len(Waits[l]) : Waits[l][j] = b => l = k /\ j = i
  BY <1>1, <1>4 DEF PlacesInv, Uniq
<1>6. \A x : x \in References(b) <=> x = Place(k, i)
  BY <1>1, <1>2, <1>4, <1>5, ReferencePlaces
<1>7. References(b) = {Place(k, i)}
  BY <1>6
<1> QED BY <1>7, FS_Singleton

LEMMA ClonesWaiting ==
  ASSUME MemInv, NEW r \in Rus
  PROVE  Cardinality(CloneReferences(r)) = Cardinality(ClonedFor(r))
<1>1. TypeOK /\ PlacesInv
  BY DEF MemInv
<1>2. \A x : x \in CloneReferences(r) <=> \E k \in Leaving : \E i \in 1 .. Len(Leaves[k]) :
        IsClone(Leaves[k][i], r) /\ x = Place(k, i)
  BY <1>1, ClonePlaces
<1>3. ASSUME NEW x \in CloneReferences(r)
      PROVE  \E k \in Leaving : \E i \in 1 .. Len(Leaves[k]) : \E b \in Bufs :
               x = Place(k, i) /\ Found(x) = ToRu(r, b, TRUE) /\ Leaves[k][i] = Found(x)
  <2>1. PICK k \in Leaving : \E i \in 1 .. Len(Leaves[k]) : IsClone(Leaves[k][i], r) /\ x = Place(k, i)
    BY <1>2
  <2>2. PICK i \in 1 .. Len(Leaves[k]) : IsClone(Leaves[k][i], r) /\ x = Place(k, i)
    BY <2>1
  <2>3. PICK e \in Outgoing : e = Leaves[k][i]
    <3>1. Leaves \in [Leaving -> Seq(Outgoing)]
      BY <1>1, Queues
    <3> QED BY <3>1
  <2>4. e.ru = r /\ e.clone /\ e.buf \in Bufs /\ e.clone \in BOOLEAN /\ e = ToRu(e.ru, e.buf, e.clone)
    BY <2>2, <2>3, Entries DEF IsClone
  <2>5. e.clone = TRUE
    BY <2>4
  <2>6. e = ToRu(r, e.buf, TRUE)
    BY <2>4, <2>5
  <2>7. Found(x) = e
    BY <1>1, <2>2, <2>3, PlacesFound
  <2> QED BY <2>2, <2>3, <2>4, <2>6, <2>7
<1> DEFINE f == [x \in CloneReferences(r) |-> Found(x).buf]
<1>4. f \in [CloneReferences(r) -> ClonedFor(r)] /\ \A x \in CloneReferences(r) : f[x] = Found(x).buf
  <2>1. ASSUME NEW x \in CloneReferences(r) PROVE Found(x).buf \in ClonedFor(r)
    <3>1. PICK k \in Leaving : \E i \in 1 .. Len(Leaves[k]) : \E b \in Bufs :
            x = Place(k, i) /\ Found(x) = ToRu(r, b, TRUE) /\ Leaves[k][i] = Found(x)
      BY <1>3
    <3>2. PICK i \in 1 .. Len(Leaves[k]), b \in Bufs :
            x = Place(k, i) /\ Found(x) = ToRu(r, b, TRUE) /\ Leaves[k][i] = Found(x)
      BY <3>1
    <3>3. Found(x).buf = b
      BY <3>2 DEF ToRu
    <3>4. IsLeaving(ToRu(r, b, TRUE))
      BY <3>2 DEF IsLeaving, Has
    <3> QED BY <3>3, <3>4 DEF ClonedFor
  <2> QED BY <2>1
<1>5. \A x, y \in CloneReferences(r) : f[x] = f[y] => x = y
  <2> SUFFICES ASSUME NEW x \in CloneReferences(r), NEW y \in CloneReferences(r), f[x] = f[y]
               PROVE  x = y
    OBVIOUS
  <2>1. PICK k \in Leaving : \E i \in 1 .. Len(Leaves[k]) : \E b \in Bufs :
          x = Place(k, i) /\ Found(x) = ToRu(r, b, TRUE) /\ Leaves[k][i] = Found(x)
    BY <1>3
  <2>2. PICK i \in 1 .. Len(Leaves[k]), b \in Bufs :
          x = Place(k, i) /\ Found(x) = ToRu(r, b, TRUE) /\ Leaves[k][i] = Found(x)
    BY <2>1
  <2>3. PICK l \in Leaving : \E j \in 1 .. Len(Leaves[l]) : \E d \in Bufs :
          y = Place(l, j) /\ Found(y) = ToRu(r, d, TRUE) /\ Leaves[l][j] = Found(y)
    BY <1>3
  <2>4. PICK j \in 1 .. Len(Leaves[l]), d \in Bufs :
          y = Place(l, j) /\ Found(y) = ToRu(r, d, TRUE) /\ Leaves[l][j] = Found(y)
    BY <2>3
  <2>5. Found(x).buf = b /\ Found(y).buf = d
    BY <2>2, <2>4 DEF ToRu
  <2>6. Leaves[k][i] = Leaves[l][j]
    BY <1>4, <2>2, <2>4, <2>5
  <2>7. k = l /\ i = j
    BY <1>1, <2>6 DEF PlacesInv, Uniq
  <2> QED BY <2>2, <2>4, <2>7
<1>6. \A b \in ClonedFor(r) : \E x \in CloneReferences(r) : f[x] = b
  <2> TAKE b \in ClonedFor(r)
  <2>1. IsLeaving(ToRu(r, b, TRUE))
    BY DEF ClonedFor
  <2>2. PICK e : e = ToRu(r, b, TRUE)
    OBVIOUS
  <2>3. IsClone(e, r) /\ e.buf = b
    BY <2>2 DEF ToRu, IsClone
  <2>4. PICK k \in Leaving : \E i \in 1 .. Len(Leaves[k]) : Leaves[k][i] = e
    BY <2>1, <2>2 DEF IsLeaving, Has
  <2>5. PICK i \in 1 .. Len(Leaves[k]) : Leaves[k][i] = e
    BY <2>4
  <2>6. Place(k, i) \in CloneReferences(r)
    BY <1>2, <2>3, <2>5
  <2>7. Found(Place(k, i)) = e
    BY <1>1, <2>5, PlacesFound
  <2> QED BY <1>4, <2>3, <2>6, <2>7
<1> HIDE DEF f
<1>7. ClonedFor(r) \in SUBSET Bufs
  BY DEF ClonedFor
<1>8. IsFiniteSet(ClonedFor(r))
  BY <1>7, FiniteParts
<1> QED BY <1>4, <1>5, <1>6, <1>8, Matched

\* The count of references to every mbuf, and of what every clone pool lacks,
\* agrees with the queues: no mbuf is freed twice, or too early, and none leaks
\* but in a build, or after a stop, that leaks it.
THEOREM ReferencesAreCounted == Spec => []RefsCounted
<1>1. MemInv => RefsCounted
  <2> SUFFICES ASSUME MemInv PROVE RefsCounted
    OBVIOUS
  <2>1. ASSUME NEW b \in Bufs
        PROVE  \/ refcnt[b] = Cardinality(References(b))
               \/ MayLeak /\ refcnt[b] > Cardinality(References(b))
    <3>1. CASE IsWaiting(b)
      BY <3>1, WaitingOf DEF MemInv, CountsInv
    <3>2. CASE ~IsWaiting(b)
      <4>1. Cardinality(References(b)) = Cardinality(RusOf(b))
        BY <3>2, LeavingOf
      <4>2. RusOf(b) \in SUBSET Rus
        BY DEF RusOf
      <4>3. Cardinality(RusOf(b)) \in Nat
        BY <4>2, FiniteParts
      <4> QED BY <3>2, <4>1, <4>3 DEF MemInv, CountsInv
    <3> QED BY <3>1, <3>2
  <2>2. \A r \in Rus :
          \/ clones[r] + 2 * Cardinality(CloneReferences(r)) = NumClones
          \/ ~alive /\ clones[r] + 2 * Cardinality(CloneReferences(r)) < NumClones
    BY ClonesWaiting DEF MemInv, CountsInv
  <2> QED BY <2>1, <2>2 DEF RefsCounted
<1> QED BY <1>1, MemoryInvariant, PTL

-----------------------------------------------------------------------------
(* The array of packets to be sent                                         *)

LEMMA Products ==
  /\ \A x, y \in Nat : x <= y => NumRus * x <= NumRus * y /\ NumRus * x \in Nat
  /\ \A x \in Nat : x >= 1 => x - 1 \in Nat /\ NumRus * x = NumRus * (x - 1) + NumRus
  /\ NumRus * 0 = 0
<1>1. PICK n \in Nat : n = NumRus
  BY CoreFacts
<1>2. \A x, y \in Nat : x <= y => n * x <= n * y /\ n * x \in Nat
  OBVIOUS
<1>3. \A x \in Nat : x >= 1 => x - 1 \in Nat /\ n * x = n * (x - 1) + n
  OBVIOUS
<1> QED BY <1>1, <1>2, <1>3

LEMMA BurstSizes == \A c \in Cores : BurstSize(c) \in Nat
BY DownlinkAssumption DEF BurstSize

\* A core gets a burst of n packets.
LEMMA FitsBurst ==
  ASSUME OutputBounded, NEW c \in Cores, mx_tx_bufs[c] = <<>>, mx_tx_bufs' = mx_tx_bufs,
         NEW n \in Nat, n <= BurstSize(c), Len(mx_bufs'[c]) = n,
         \A d \in Cores : d # c => mx_bufs'[d] = mx_bufs[d]
  PROVE  OutputBounded'
<1>1. BurstSize(c) \in Nat
  BY BurstSizes
<1>2. Len(mx_tx_bufs'[c]) + NumRus * Len(mx_bufs'[c]) <= NumRus * BurstSize(c)
  <2>1. Len(mx_tx_bufs'[c]) = 0
    OBVIOUS
  <2>2. NumRus * n \in Nat /\ NumRus * n <= NumRus * BurstSize(c)
    BY <1>1, Products
  <2> QED BY <2>1, <2>2
<1> QED BY <1>2 DEF OutputBounded, BurstSize

\* The next packet of a burst is handled, and at most one is sent to each RU.
LEMMA FitsPacket ==
  ASSUME TypeOK, OutputBounded, NEW c \in Cores, NEW b \in Bufs, Handles(c, b),
         NEW k \in 0 .. NumRus, Len(mx_tx_bufs'[c]) = Len(mx_tx_bufs[c]) + k,
         \A d \in Cores : d # c => mx_tx_bufs'[d] = mx_tx_bufs[d]
  PROVE  OutputBounded'
<1>1. PICK q \in Seq(Bufs) : q = mx_bufs[c]
  BY DEF TypeOK
<1>2. mx_bufs' = [mx_bufs EXCEPT ![c] = Tail(q)] /\ q # <<>>
  BY <1>1 DEF Handles
<1>3. Len(q) \in Nat /\ Len(q) >= 1 /\ Len(Tail(q)) = Len(q) - 1
  BY <1>2
<1>4. mx_bufs'[c] = Tail(q) /\ \A d \in Cores : d # c => mx_bufs'[d] = mx_bufs[d]
  BY <1>2 DEF TypeOK
<1>5. PICK m \in Nat : m = Len(q)
  BY <1>3
<1>6. PICK n \in Nat : n = Len(mx_tx_bufs[c])
  BY DEF TypeOK
<1>7. n + NumRus * m <= NumRus * BurstSize(c)
  BY <1>1, <1>5, <1>6 DEF OutputBounded
<1>8. (n + k) + NumRus * (m - 1) <= NumRus * BurstSize(c)
  <2>1. m - 1 \in Nat /\ NumRus * m = NumRus * (m - 1) + NumRus
    BY <1>3, <1>5, Products
  <2>2. PICK y \in Nat : y = NumRus * (m - 1)
    BY <2>1, Products
  <2>3. NumRus \in Nat /\ NumRus * BurstSize(c) \in Nat /\ k \in Nat /\ k <= NumRus
    BY CoreFacts, BurstSizes, Products
  <2>4. n + (y + NumRus) <= NumRus * BurstSize(c)
    BY <1>7, <2>1, <2>2
  <2>5. (n + k) + y <= NumRus * BurstSize(c)
    BY <2>3, <2>4
  <2> QED BY <2>2, <2>5
<1>9. Len(mx_tx_bufs'[c]) + NumRus * Len(mx_bufs'[c]) <= NumRus * BurstSize(c)
  <2>1. Len(mx_tx_bufs'[c]) = n + k /\ Len(mx_bufs'[c]) = m - 1
    BY <1>3, <1>4, <1>5, <1>6
  <2> QED BY <1>8, <2>1
<1> QED BY <1>4, <1>9 DEF OutputBounded, BurstSize

LEMMA OutputKept == MemInv /\ OutputBounded /\ [Next]_vars => OutputBounded'
<1> SUFFICES ASSUME MemInv, OutputBounded, [Next]_vars PROVE OutputBounded'
  OBVIOUS
<1>1. TypeOK /\ 0 \in Cores /\ \A w \in Workers : w \in Cores
  BY CoreFacts DEF MemInv
<1>2. ASSUME UNCHANGED <<mx_bufs, mx_tx_bufs>> PROVE OutputBounded'
  BY <1>2 DEF OutputBounded, BurstSize
<1>3. CASE HandleDu
  <2>1. CASE target_core = 0
    <3>1. PICK n : n = AtMost(RX_BURST_SIZE, rxq)
      OBVIOUS
    <3>2. /\ mx_tx_bufs[0] = <<>> /\ mx_tx_bufs' = mx_tx_bufs
          /\ mx_bufs' = [mx_bufs EXCEPT ![0] = SubSeq(rxq, 1, n)]
      BY <1>3, <2>1, <3>1 DEF HandleDu
    <3>3. rxq \in Seq(Bufs) /\ RX_BURST_SIZE \in Nat \ {0}
      BY <1>1, DownlinkAssumption DEF TypeOK
    <3>4. n \in 0 .. Len(rxq) /\ n <= RX_BURST_SIZE /\ Len(SubSeq(rxq, 1, n)) = n /\ n \in Nat
      BY <3>1, <3>3, BurstCut
    <3>5. Len(mx_bufs'[0]) = n /\ \A d \in Cores : d # 0 => mx_bufs'[d] = mx_bufs[d]
      BY <1>1, <3>2, <3>4 DEF TypeOK
    <3>6. n <= BurstSize(0)
      BY <3>4 DEF BurstSize
    <3> QED BY <1>1, <3>2, <3>4, <3>5, <3>6, FitsBurst
  <2>2. CASE target_core # 0
    BY <1>2, <1>3, <2>2 DEF HandleDu
  <2> QED BY <2>1, <2>2
<1>4. ASSUME NEW w \in Workers, DequeueDu(w) PROVE OutputBounded'
  <2>1. PICK n : n = AtMost(TX_BURST_SIZE, du_ring[w])
    OBVIOUS
  <2>2. /\ mx_tx_bufs[w] = <<>> /\ mx_tx_bufs' = mx_tx_bufs
        /\ mx_bufs' = [mx_bufs EXCEPT ![w] = SubSeq(du_ring[w], 1, n)]
    BY <1>4, <2>1 DEF DequeueDu
  <2>3. du_ring[w] \in Seq(Bufs) /\ TX_BURST_SIZE \in Nat \ {0}
    BY <1>1, DownlinkAssumption DEF TypeOK
  <2>4. n \in 0 .. Len(du_ring[w]) /\ n <= TX_BURST_SIZE /\ Len(SubSeq(du_ring[w], 1, n)) = n
        /\ n \in Nat
    BY <2>1, <2>3, BurstCut
  <2>5. Len(mx_bufs'[w]) = n /\ \A d \in Cores : d # w => mx_bufs'[d] = mx_bufs[d]
    BY <1>1, <2>2, <2>4 DEF TypeOK
  <2>6. n <= BurstSize(w)
    BY <2>4, CoreFacts DEF BurstSize, Workers
  <2> QED BY <1>1, <2>2, <2>4, <2>5, <2>6, FitsBurst
<1>5. ASSUME NEW c \in Cores, HandlePacket(c) PROVE OutputBounded'
  <2>1. PICK b \in Bufs : Handles(c, b) /\ \E v \in Seq(Outgoing) :
          Len(v) <= NumRus /\ mx_tx_bufs' = [mx_tx_bufs EXCEPT ![c] = @ \o v]
    BY <1>5, PacketHandled DEF SendsOn
  <2>2. PICK v \in Seq(Outgoing) :
          Len(v) <= NumRus /\ mx_tx_bufs' = [mx_tx_bufs EXCEPT ![c] = @ \o v]
    BY <2>1
  <2>3. PICK q \in Seq(Outgoing) : q = mx_tx_bufs[c]
    BY <1>1 DEF TypeOK
  <2>4. Len(q \o v) = Len(q) + Len(v) /\ Len(v) \in 0 .. NumRus
    BY <2>2, CoreFacts
  <2>5. mx_tx_bufs'[c] = q \o v /\ \A d \in Cores : d # c => mx_tx_bufs'[d] = mx_tx_bufs[d]
    BY <1>1, <2>2, <2>3 DEF TypeOK
  <2>6. Len(mx_tx_bufs'[c]) = Len(mx_tx_bufs[c]) + Len(v)
    BY <2>3, <2>4, <2>5
  <2> QED BY <1>1, <2>1, <2>4, <2>5, <2>6, FitsPacket
<1>6. ASSUME NEW c \in Cores, TxBurst(c) PROVE OutputBounded'
  <2>1. mx_bufs[c] = <<>> /\ mx_bufs' = mx_bufs /\ mx_tx_bufs' = [mx_tx_bufs EXCEPT ![c] = <<>>]
    BY <1>6 DEF TxBurst
  <2>2. mx_tx_bufs'[c] = <<>> /\ \A d \in Cores : d # c => mx_tx_bufs'[d] = mx_tx_bufs[d]
    BY <2>1, <1>1 DEF TypeOK
  <2>3. Len(mx_tx_bufs'[c]) + NumRus * Len(mx_bufs'[c]) <= NumRus * BurstSize(c)
    <3>1. Len(mx_tx_bufs'[c]) = 0 /\ Len(mx_bufs'[c]) = 0
      BY <2>1, <2>2
    <3>2. BurstSize(c) \in Nat /\ NumRus * BurstSize(c) \in Nat /\ NumRus * 0 = 0
      BY BurstSizes, Products
    <3> QED BY <3>1, <3>2
  <2> QED BY <2>1, <2>2, <2>3 DEF OutputBounded, BurstSize
<1>7. CASE Main
  BY <1>1, <1>3, <1>5, <1>6, <1>7 DEF Main
<1>8. ASSUME NEW w \in Workers, Worker(w) PROVE OutputBounded'
  BY <1>1, <1>4, <1>5, <1>6, <1>8 DEF Worker
<1>9. CASE NicReceive
  BY <1>2, <1>9 DEF NicReceive
<1>10. ASSUME NEW c \in Cores, Transmit(c) PROVE OutputBounded'
  BY <1>2, <1>10 DEF Transmit
<1>11. CASE UNCHANGED vars
  BY <1>2, <1>11 DEF vars
<1> QED BY <1>7, <1>8, <1>9, <1>10, <1>11 DEF Next, Aborted

\* What a core has put into the array of packets to be sent (mx_tx_bufs), and
\* what the rest of its burst can add, is never more than one burst for all RUs,
\* whatever the number of RUs and the sizes of bursts, and also when a pool runs
\* out.  Hence the array of 192 is enough for six RUs and bursts of 32.
THEOREM OutputIsBounded == Spec => []OutputBounded
<1>1. Init => OutputBounded
  <2> SUFFICES ASSUME Init, NEW c \in Cores
               PROVE  Len(mx_tx_bufs[c]) + NumRus * Len(mx_bufs[c]) <= NumRus * BurstSize(c)
    BY DEF OutputBounded
  <2>1. Len(mx_tx_bufs[c]) = 0 /\ Len(mx_bufs[c]) = 0
    BY DEF Init
  <2>2. BurstSize(c) \in Nat /\ NumRus * BurstSize(c) \in Nat /\ NumRus * 0 = 0
    BY BurstSizes, Products
  <2> QED BY <2>1, <2>2
<1>2. MemInv /\ OutputBounded /\ [Next]_vars => OutputBounded'
  BY OutputKept
<1> QED BY <1>1, <1>2, MemoryInvariant, PTL DEF Spec

-----------------------------------------------------------------------------
(* The order of packets                                                    *)

LEMMA OrderAfterStep ==
  /\ \A b, d : Before(b, d)' <=> Precedes(Waiting, Waits', WaitOrder, b, d)
  /\ \A e, f : SentBefore(e, f)' <=> Precedes(Leaving, Leaves', LeaveOrder, e, f)
  /\ \A c, b : WaitsFor(c, b)' <=> Has(WaitPlaces(c), Waits', b)
  /\ \A c, e : LeavesFrom(c, e)' <=> Has(LeavePlaces(c), Leaves', e)
BY DEF Before, SentBefore, Precedes, WaitsFor, LeavesFrom, Has

\* What waits or leaves is live.
LEMMA LiveParts ==
  ASSUME TypeOK
  PROVE  /\ \A b : IsWaiting(b) => b \in Bufs /\ Live(b)
         /\ \A e : IsLeaving(e) => e \in Outgoing /\ e.buf \in Bufs /\ e.ru \in RusOf(e.buf) /\ Live(e.buf)
         /\ \A c \in Cores : \A b : WaitsFor(c, b) => IsWaiting(b)
         /\ \A c \in Cores : \A e : LeavesFrom(c, e) => IsLeaving(e)
         /\ \A b, d : Before(b, d) => IsWaiting(b) /\ IsWaiting(d)
         /\ \A e, f : SentBefore(e, f) => IsLeaving(e) /\ IsLeaving(f)
         /\ \A e : IsLeaving(e) => \E c \in Cores : LeavesFrom(c, e)
<1>1. Waits \in [Waiting -> Seq(Bufs)] /\ Leaves \in [Leaving -> Seq(Outgoing)]
  BY Queues
<1>2. ASSUME NEW b, IsWaiting(b) PROVE b \in Bufs /\ Live(b)
  <2>1. PICK k \in Waiting : \E i \in 1 .. Len(Waits[k]) : Waits[k][i] = b
    BY <1>2 DEF IsWaiting, Has
  <2>2. PICK i \in 1 .. Len(Waits[k]) : Waits[k][i] = b
    BY <2>1
  <2>3. b \in Bufs
    BY <1>1, <2>2
  <2> QED BY <1>2, <2>3 DEF Live
<1>3. ASSUME NEW e, IsLeaving(e)
      PROVE  e \in Outgoing /\ e.buf \in Bufs /\ e.ru \in RusOf(e.buf) /\ Live(e.buf)
  <2>1. PICK k \in Leaving : \E i \in 1 .. Len(Leaves[k]) : Leaves[k][i] = e
    BY <1>3 DEF IsLeaving, Has
  <2>2. PICK i \in 1 .. Len(Leaves[k]) : Leaves[k][i] = e
    BY <2>1
  <2>3. e \in Outgoing
    BY <1>1, <2>2
  <2>4. e.ru \in Rus /\ e.buf \in Bufs /\ e.clone \in BOOLEAN /\ e = ToRu(e.ru, e.buf, e.clone)
    BY <2>3, Entries
  <2>5. e.ru \in RusOf(e.buf)
    BY <1>3, <2>4 DEF RusOf
  <2> QED BY <2>3, <2>4, <2>5 DEF Live
<1>4. ASSUME NEW c \in Cores, NEW b, WaitsFor(c, b) PROVE IsWaiting(b)
  <2>1. WaitPlaces(c) \in SUBSET Waiting
    BY CoreFacts DEF WaitPlaces, Waiting
  <2> QED BY <1>4, <2>1 DEF WaitsFor, IsWaiting, Has
<1>5. ASSUME NEW c \in Cores, NEW e, LeavesFrom(c, e) PROVE IsLeaving(e)
  <2>1. LeavePlaces(c) \in SUBSET Leaving
    BY DEF LeavePlaces, Leaving
  <2> QED BY <1>5, <2>1 DEF LeavesFrom, IsLeaving, Has
<1>6. \A b, d : Before(b, d) => IsWaiting(b) /\ IsWaiting(d)
  BY DEF Before, Precedes, IsWaiting, Has
<1>7. \A e, f : SentBefore(e, f) => IsLeaving(e) /\ IsLeaving(f)
  BY DEF SentBefore, Precedes, IsLeaving, Has
<1>8. ASSUME NEW e, IsLeaving(e) PROVE \E c \in Cores : LeavesFrom(c, e)
  <2>1. PICK k \in Leaving : \E i \in 1 .. Len(Leaves[k]) : Leaves[k][i] = e
    BY <1>8 DEF IsLeaving, Has
  <2>2. PICK c \in Cores : k = <<"out", c>> \/ k = <<"tx", c>>
    BY PlacesOfCores
  <2>3. k \in LeavePlaces(c)
    BY <2>2 DEF LeavePlaces
  <2> QED BY <2>1, <2>3 DEF LeavesFrom, Has
<1> QED BY <1>2, <1>3, <1>4, <1>5, <1>6, <1>7, <1>8

LEMMA UnmovedShrink ==
  /\ Waits' = Waits => WaitsShrink
  /\ Leaves' = Leaves => LeavesShrink
BY DEF WaitsShrink, LeavesShrink

\* The order, and what is known of what has been sent, survive a step that adds
\* nothing.
LEMMA OrderShrinks ==
  ASSUME TypeOK, OrderInv, WaitsShrink, LeavesShrink, UNCHANGED <<content, received>>
  PROVE  /\ OrderInv'
         /\ \A r, p : \A c \in Cores : Sent(r, p, c) => Sent(r, p, c)'
<1>1. /\ \A b : IsWaiting(b)' => IsWaiting(b)
      /\ \A b, d : Before(b, d)' => Before(b, d)
      /\ \A c \in Cores : \A b : WaitsFor(c, b)' => WaitsFor(c, b)
      /\ \A e : IsLeaving(e)' => IsLeaving(e)
      /\ \A e, f : SentBefore(e, f)' => SentBefore(e, f)
      /\ \A c \in Cores : \A e : LeavesFrom(c, e)' => LeavesFrom(c, e)
  <2>1. /\ \A b : IsWaiting(b)' => IsWaiting(b)
        /\ \A e : IsLeaving(e)' => IsLeaving(e)
    BY AfterStep DEF WaitsShrink, LeavesShrink, IsWaiting, IsLeaving
  <2>2. /\ \A b, d : Before(b, d)' => Before(b, d)
        /\ \A e, f : SentBefore(e, f)' => SentBefore(e, f)
    BY OrderAfterStep DEF WaitsShrink, LeavesShrink, Before, SentBefore
  <2>3. \A c \in Cores : \A b : WaitsFor(c, b)' => WaitsFor(c, b)
    BY OrderAfterStep DEF WaitsShrink, WaitsFor
  <2>4. \A c \in Cores : \A e : LeavesFrom(c, e)' => LeavesFrom(c, e)
    BY OrderAfterStep DEF LeavesShrink, LeavesFrom
  <2> QED BY <2>1, <2>2, <2>3, <2>4
<1>2. \A b : IdOf(b)' = IdOf(b)
  BY DEF IdOf
<1>3. OrderInv'
  BY <1>1, <1>2 DEF OrderInv
<1>4. ASSUME NEW r, NEW p, NEW c \in Cores, Sent(r, p, c) PROVE Sent(r, p, c)'
  BY <1>1, <1>2, <1>4 DEF Sent
<1> QED BY <1>3, <1>4

\* The mbuf that a core handles is the first of those it has or may get.
LEMMA HeadFirst ==
  ASSUME TypeOK, NEW c \in Cores, mx_bufs[c] # <<>>, NEW b, b = Head(mx_bufs[c])
  PROVE  /\ b \in Bufs /\ IsWaiting(b) /\ WaitsFor(c, b)
         /\ \A d : WaitsFor(c, d) => d = b \/ Before(b, d)
<1>1. PICK q \in Seq(Bufs) : q = mx_bufs[c]
  BY DEF TypeOK
<1>2. Len(q) \in Nat /\ 1 \in 1 .. Len(q) /\ q[1] = b /\ b \in Bufs
  BY <1>1
<1>3. <<"burst", c>> \in Waiting /\ Waits[<<"burst", c>>] = q
      /\ <<"burst", c>> \in WaitPlaces(c) /\ 0 \in Cores
  BY <1>1, Queues, CoreFacts DEF WaitPlaces
<1>4. WaitsFor(c, b)
  BY <1>2, <1>3 DEF WaitsFor, Has
<1>5. IsWaiting(b)
  BY <1>2, <1>3 DEF IsWaiting, Has
<1>6. ASSUME NEW d, WaitsFor(c, d) PROVE d = b \/ Before(b, d)
  <2>1. PICK k \in WaitPlaces(c) : \E i \in 1 .. Len(Waits[k]) : Waits[k][i] = d
    BY <1>6 DEF WaitsFor, Has
  <2>2. PICK i \in 1 .. Len(Waits[k]) : Waits[k][i] = d
    BY <2>1
  <2>3. k = <<"burst", c>> \/ k = <<"input", c>> \/ k = <<"input", 0>>
    BY DEF WaitPlaces
  <2>4. k \in Waiting
    BY <2>3, <1>3, Queues
  <2>5. CASE k = <<"burst", c>> /\ i = 1
    BY <2>5, <2>2, <1>2, <1>3
  <2>6. CASE k = <<"burst", c>> /\ i # 1
    <3>1. First(WaitOrder, <<"burst", c>>, 1, k, i)
      BY <2>6 DEF First
    <3> QED BY <3>1, <2>2, <2>4, <1>2, <1>3 DEF Before, Precedes
  <2>7. CASE k = <<"input", c>> \/ k = <<"input", 0>>
    <3>1. <<<<"burst", c>>, k>> \in WaitOrder
      BY <2>7, <1>3, Orders
    <3>2. First(WaitOrder, <<"burst", c>>, 1, k, i)
      BY <3>1 DEF First
    <3> QED BY <3>2, <2>2, <2>4, <1>2, <1>3 DEF Before, Precedes
  <2> QED BY <2>3, <2>5, <2>6, <2>7
<1> QED BY <1>2, <1>4, <1>5, <1>6

LEMMA OrderSends ==
  ASSUME TypeOK, PartsInv, OrderInv, NEW c \in Cores, mx_bufs[c] # <<>>,
         NEW b, b = Head(mx_bufs[c]), NEW v \in Seq(Outgoing), WaitsShrink, ~IsWaiting(b)',
         Leaves' = Extended(Leaves, <<"out", c>>, v),
         \A i, j \in 1 .. Len(v) : v[i].ru = v[j].ru => i = j,
         \A e : Within(v, e) => IdOf(e.buf)' = IdOf(b),
         \A d \in Bufs : Live(d) /\ d # b => IdOf(d)' = IdOf(d), received' = received
  PROVE  /\ OrderInv'
         /\ \A r, p : \A h \in Cores : Sent(r, p, h) => Sent(r, p, h)'
<1>1. /\ b \in Bufs /\ IsWaiting(b) /\ WaitsFor(c, b)
      /\ \A d : WaitsFor(c, d) => d = b \/ Before(b, d)
  BY HeadFirst
<1>2. /\ \A d : IsWaiting(d)' => IsWaiting(d) /\ d # b
      /\ \A d, f : Before(d, f)' => Before(d, f) /\ IsWaiting(d)' /\ IsWaiting(f)'
      /\ \A h \in Cores : \A d : WaitsFor(h, d)' => WaitsFor(h, d) /\ IsWaiting(d)'
  <2>1. \A d : IsWaiting(d)' => IsWaiting(d) /\ d # b
    BY AfterStep DEF WaitsShrink, IsWaiting
  <2>2. ASSUME NEW d, NEW f, Before(d, f)' PROVE Before(d, f) /\ IsWaiting(d)' /\ IsWaiting(f)'
    <3>1. Precedes(Waiting, Waits', WaitOrder, d, f)
      BY <2>2, OrderAfterStep
    <3>2. Has(Waiting, Waits', d) /\ Has(Waiting, Waits', f)
      BY <3>1 DEF Precedes, Has
    <3>3. Before(d, f)
      BY <3>1 DEF WaitsShrink, Before
    <3> QED BY <3>2, <3>3, AfterStep
  <2>3. ASSUME NEW h \in Cores, NEW d, WaitsFor(h, d)' PROVE WaitsFor(h, d) /\ IsWaiting(d)'
    <3>1. Has(WaitPlaces(h), Waits', d)
      BY <2>3, OrderAfterStep
    <3>2. WaitsFor(h, d)
      BY <3>1 DEF WaitsShrink, WaitsFor
    <3>3. WaitPlaces(h) \in SUBSET Waiting
      BY CoreFacts DEF WaitPlaces, Waiting
    <3>4. Has(Waiting, Waits', d)
      BY <3>1, <3>3 DEF Has
    <3> QED BY <3>2, <3>4, AfterStep
  <2> QED BY <2>1, <2>2, <2>3
<1>3. Leaves \in [Leaving -> Seq(Outgoing)] /\ <<"out", c>> \in Leaving
      /\ \A d \in Cores : d # c => <<"out", c>> \notin LeavePlaces(d)
  <2>1. \A d \in Cores : d # c => <<"out", c>> \notin LeavePlaces(d)
    BY PlacesDiffer DEF LeavePlaces
  <2> QED BY <2>1, Queues
<1>4. \A h \in Cores : \A e : LeavesFrom(h, e)' => LeavesFrom(h, e) \/ (h = c /\ Within(v, e))
  <2> SUFFICES ASSUME NEW h \in Cores, NEW e, LeavesFrom(h, e)'
               PROVE  LeavesFrom(h, e) \/ (h = c /\ Within(v, e))
    OBVIOUS
  <2>1. Has(LeavePlaces(h), Extended(Leaves, <<"out", c>>, v), e)
    BY OrderAfterStep
  <2>2. LeavePlaces(h) \in SUBSET Leaving
    BY DEF LeavePlaces, Leaving
  <2>3. Has(LeavePlaces(h), Leaves, e) \/ (<<"out", c>> \in LeavePlaces(h) /\ Within(v, e))
    BY <1>3, <2>1, <2>2, JoinedPart
  <2> QED BY <1>3, <2>3 DEF LeavesFrom
<1>5. /\ \A e : IsLeaving(e)' => IsLeaving(e) \/ Within(v, e)
      /\ \A e, f : SentBefore(e, f)' => \/ SentBefore(e, f)
                                        \/ Within(v, f) /\ LeavesFrom(c, e)
                                        \/ Within(v, f) /\ Within(v, e)
  <2>1. Adds(Leaving, Leaves, <<"out", c>>, v, Leaves')
    BY <1>3, JoinedQueue
  <2>2. \A e : IsLeaving(e)' => IsLeaving(e) \/ Within(v, e)
    BY <2>1, AfterStep DEF Adds, IsLeaving
  <2>3. \A k \in Leaving : <<<<"out", c>>, k>> \notin LeaveOrder
    BY DEF LeaveOrder
  <2>4. \A e, f : Precedes(Leaving, Leaves', LeaveOrder, e, f) =>
          \/ Precedes(Leaving, Leaves, LeaveOrder, e, f)
          \/ Within(v, f) /\ Upstream(Leaving, Leaves, LeaveOrder, <<"out", c>>, e)
          \/ \E i, j \in 1 .. Len(v) : i < j /\ v[i] = e /\ v[j] = f
    BY <2>1, <2>3 DEF Adds
  <2>5. ASSUME NEW e, Upstream(Leaving, Leaves, LeaveOrder, <<"out", c>>, e) PROVE LeavesFrom(c, e)
    <3>1. PICK k \in Leaving : (k = <<"out", c>> \/ <<k, <<"out", c>>>> \in LeaveOrder)
                               /\ Within(Leaves[k], e)
      BY <2>5 DEF Upstream
    <3>2. PICK d \in Cores : k = <<"out", d>> \/ k = <<"tx", d>>
      BY PlacesOfCores
    <3>3. k \in LeavePlaces(c)
      <4>1. CASE k = <<"out", c>>
        BY <4>1 DEF LeavePlaces
      <4>2. CASE k # <<"out", c>> /\ k = <<"tx", d>>
        BY <4>2, <3>1, Orders DEF LeavePlaces
      <4>3. CASE k # <<"out", c>> /\ k = <<"out", d>>
        BY <4>3, <3>1, Orders
      <4> QED BY <3>2, <4>1, <4>2, <4>3
    <3> QED BY <3>1, <3>3 DEF LeavesFrom, Has, Within
  <2>6. ASSUME NEW e, NEW f, SentBefore(e, f)'
        PROVE  \/ SentBefore(e, f)
               \/ Within(v, f) /\ LeavesFrom(c, e)
               \/ Within(v, f) /\ Within(v, e)
    <3>1. Precedes(Leaving, Leaves', LeaveOrder, e, f)
      BY <2>6, OrderAfterStep
    <3>2. CASE Precedes(Leaving, Leaves, LeaveOrder, e, f)
      BY <3>2 DEF SentBefore
    <3>3. CASE Within(v, f) /\ Upstream(Leaving, Leaves, LeaveOrder, <<"out", c>>, e)
      BY <3>3, <2>5
    <3>4. CASE \E i, j \in 1 .. Len(v) : i < j /\ v[i] = e /\ v[j] = f
      BY <3>4 DEF Within
    <3> QED BY <2>4, <3>1, <3>2, <3>3, <3>4
  <2> QED BY <2>2, <2>6
<1>6. /\ \A d : IsWaiting(d) => d \in Bufs /\ (d # b => IdOf(d)' = IdOf(d))
      /\ \A e : IsLeaving(e) => e \in Outgoing /\ IdOf(e.buf)' = IdOf(e.buf)
      /\ \A e : Within(v, e) => e \in Outgoing /\ IdOf(e.buf)' = IdOf(b)
      /\ \A h \in Cores : \A d : WaitsFor(h, d) => IsWaiting(d)
      /\ \A h \in Cores : \A e : LeavesFrom(h, e) => IsLeaving(e)
      /\ \A d, f : Before(d, f) => IsWaiting(d) /\ IsWaiting(f)
      /\ \A e, f : SentBefore(e, f) => IsLeaving(e) /\ IsLeaving(f)
      /\ IdOf(b) \in Nat
  <2>1. \A e : Within(v, e) => e \in Outgoing
    BY WithinSeq
  <2>2. \A e : IsLeaving(e) => e.buf # b
    BY <1>1, LiveParts DEF PartsInv, PlacesInv
  <2>3. IdOf(b) \in Nat
    <3>1. Live(b)
      BY <1>1, LiveParts
    <3>2. content[b] \in Packet
      BY <1>1, <3>1 DEF PartsInv, ContentInv
    <3> QED BY <3>2 DEF Packet, IdOf
  <2> QED BY <2>1, <2>3, <2>2, LiveParts
<1>7. ASSUME NEW d \in Bufs, NEW f \in Bufs
      PROVE  /\ Before(d, f)' => IdOf(d)' < IdOf(f)'
             /\ IsWaiting(d)' /\ IsWaiting(f)' /\ IdOf(d)' = IdOf(f)' => d = f
  BY <1>2, <1>6 DEF OrderInv
<1>8. ASSUME NEW e \in Outgoing, NEW f \in Outgoing
      PROVE  /\ SentBefore(e, f)' => IdOf(e.buf)' <= IdOf(f.buf)'
             /\ IsLeaving(e)' /\ IsLeaving(f)' /\ e.ru = f.ru /\ IdOf(e.buf)' = IdOf(f.buf)' => e = f
  <2>1. ASSUME SentBefore(e, f)' PROVE IdOf(e.buf)' <= IdOf(f.buf)'
    <3>1. CASE SentBefore(e, f)
      BY <3>1, <1>6 DEF OrderInv
    <3>2. CASE Within(v, f) /\ LeavesFrom(c, e)
      <4>1. IdOf(e.buf) < IdOf(b)
        BY <3>2, <1>1 DEF OrderInv
      <4>2. IdOf(e.buf)' = IdOf(e.buf) /\ IdOf(f.buf)' = IdOf(b)
        BY <3>2, <1>6
      <4>3. IdOf(e.buf) \in Nat
        <5>1. Live(e.buf) /\ e.buf \in Bufs
          BY <3>2, LiveParts
        <5>2. content[e.buf] \in Packet
          BY <5>1 DEF PartsInv, ContentInv
        <5> QED BY <5>2 DEF Packet, IdOf
      <4> QED BY <4>1, <4>2, <4>3, <1>6
    <3>3. CASE Within(v, f) /\ Within(v, e)
      BY <3>3, <1>6
    <3> QED BY <2>1, <1>5, <3>1, <3>2, <3>3
  <2>2. ASSUME IsLeaving(e)', IsLeaving(f)', e.ru = f.ru, IdOf(e.buf)' = IdOf(f.buf)' PROVE e = f
    <3>1. CASE IsLeaving(e) /\ IsLeaving(f)
      BY <3>1, <2>2, <1>6 DEF OrderInv
    <3>2. CASE Within(v, e) /\ Within(v, f)
      BY <3>2, <2>2 DEF Within
    <3>3. ASSUME NEW g \in Outgoing, NEW h \in Outgoing, IsLeaving(g), Within(v, h),
                 IdOf(g.buf)' = IdOf(h.buf)'
          PROVE  FALSE
      <4>1. IdOf(g.buf) = IdOf(b)
        BY <3>3, <1>6
      <4> QED BY <3>3, <4>1, <1>1 DEF OrderInv
    <3> QED BY <2>2, <1>5, <3>1, <3>2, <3>3
  <2> QED BY <2>1, <2>2
<1>9. ASSUME NEW e \in Outgoing, NEW d \in Bufs
      PROVE  /\ IsLeaving(e)' /\ IsWaiting(d)' => IdOf(e.buf)' # IdOf(d)'
             /\ \A h \in Cores : LeavesFrom(h, e)' /\ WaitsFor(h, d)' => IdOf(e.buf)' < IdOf(d)'
  <2>1. ASSUME IsLeaving(e)', IsWaiting(d)' PROVE IdOf(e.buf)' # IdOf(d)'
    <3>1. IsWaiting(d) /\ d # b /\ IdOf(d)' = IdOf(d)
      BY <2>1, <1>2, <1>6
    <3>2. CASE IsLeaving(e)
      BY <3>1, <3>2, <1>6 DEF OrderInv
    <3>3. CASE Within(v, e)
      BY <3>1, <3>3, <1>1, <1>6 DEF OrderInv
    <3> QED BY <2>1, <1>5, <3>2, <3>3
  <2>2. ASSUME NEW h \in Cores, LeavesFrom(h, e)', WaitsFor(h, d)' PROVE IdOf(e.buf)' < IdOf(d)'
    <3>1. WaitsFor(h, d) /\ d # b /\ IdOf(d)' = IdOf(d)
      BY <2>2, <1>2, <1>6
    <3>2. CASE LeavesFrom(h, e)
      BY <3>1, <3>2, <1>6 DEF OrderInv
    <3>3. CASE h = c /\ Within(v, e)
      BY <3>1, <3>3, <1>1, <1>6 DEF OrderInv
    <3> QED BY <2>2, <1>4, <3>2, <3>3
  <2> QED BY <2>1, <2>2
<1>10. ASSUME NEW e \in Outgoing, NEW f \in Outgoing, NEW g \in Cores, NEW h \in Cores,
              LeavesFrom(g, e)', LeavesFrom(h, f)', g # h
       PROVE  IdOf(e.buf)' # IdOf(f.buf)'
  <2>1. CASE LeavesFrom(g, e) /\ LeavesFrom(h, f)
    BY <2>1, <1>6, <1>10 DEF OrderInv
  <2>2. ASSUME NEW x \in Outgoing, NEW y \in Outgoing, IsLeaving(x), Within(v, y)
        PROVE  IdOf(x.buf)' # IdOf(y.buf)'
    BY <2>2, <1>1, <1>6 DEF OrderInv
  <2> QED BY <1>4, <1>6, <1>10, <2>1, <2>2
<1>11. OrderInv'
  BY <1>7, <1>8, <1>9, <1>10 DEF OrderInv
<1>12. ASSUME NEW r, NEW p, NEW h \in Cores, Sent(r, p, h) PROVE Sent(r, p, h)'
  <2>1. \A d \in Bufs : /\ IsWaiting(d)' => p.id # IdOf(d)'
                        /\ WaitsFor(h, d)' => p.id < IdOf(d)'
    BY <1>2, <1>6, <1>12 DEF Sent
  <2>2. ASSUME NEW e \in Outgoing, NEW d \in Cores, LeavesFrom(d, e)'
        PROVE  /\ d = h => p.id <= IdOf(e.buf)'
               /\ d # h \/ e.ru = r => p.id # IdOf(e.buf)'
    <3>1. CASE LeavesFrom(d, e)
      BY <3>1, <1>6, <1>12 DEF Sent
    <3>2. CASE d = c /\ Within(v, e)
      <4>1. IdOf(e.buf)' = IdOf(b) /\ p.id # IdOf(b)
        BY <3>2, <1>1, <1>6, <1>12 DEF Sent
      <4>2. d = h => p.id < IdOf(b)
        BY <3>2, <1>1, <1>12 DEF Sent
      <4>3. p.id \in Nat
        BY <1>12 DEF Sent
      <4> QED BY <4>1, <4>2, <4>3, <1>6
    <3> QED BY <2>2, <1>4, <3>1, <3>2
  <2> QED BY <2>1, <2>2, <1>12 DEF Sent
<1> QED BY <1>11, <1>12

\* What an RU has been sent is in order when this is.
LEMMA TurnsSuffice == TypeOK /\ SentInv /\ InOrder => SentOnceInOrder
<1> SUFFICES ASSUME TypeOK, SentInv, InOrder PROVE SentOnceInOrder
  OBVIOUS
<1>1. ASSUME NEW r \in Rus, NEW j \in DOMAIN to_ru[r]
      PROVE  /\ to_ru[r][j].packet.kind \in {"control", "iq"}
             /\ to_ru[r][j].packet = received[to_ru[r][j].packet.id]
             /\ j \in 1 .. Len(to_ru[r])
  <2>1. PICK T : T = [packet : Packet, core : Cores]
    OBVIOUS
  <2>2. PICK q \in Seq(T) : q = to_ru[r]
    BY <2>1 DEF TypeOK
  <2>3. j \in 1 .. Len(q) /\ q[j] \in T
    <3>1. j \in DOMAIN q
      BY <2>2
    <3> QED BY <3>1
  <2>4. PICK p \in Packet, c \in Cores : q[j] = [packet |-> p, core |-> c]
    BY <2>1, <2>3
  <2>5. IsSent(r, p, c)
    BY <2>2, <2>3, <2>4 DEF IsSent
  <2>6. Sent(r, p, c)
    BY <2>5 DEF SentInv
  <2> QED BY <2>2, <2>3, <2>4, <2>6 DEF Sent
<1>2. ASSUME NEW r \in Rus, NEW j \in 1 .. Len(to_ru[r]), NEW i \in 1 .. j - 1
      PROVE  /\ to_ru[r][i].packet.id # to_ru[r][j].packet.id
             /\ to_ru[r][i].core = to_ru[r][j].core => to_ru[r][i].packet.id < to_ru[r][j].packet.id
  BY <1>2 DEF InOrder
<1> QED BY <1>1, <1>2 DEF SentOnceInOrder

\* A step that sends nothing.
LEMMA TurnsKept ==
  ASSUME TurnInv, to_ru' = to_ru, OrderInv',
         \A r, p : \A c \in Cores : Sent(r, p, c) => Sent(r, p, c)'
  PROVE  TurnInv'
<1>1. \A r, p, c : IsSent(r, p, c)' <=> IsSent(r, p, c)
  BY DEF IsSent
<1>2. SentInv'
  BY <1>1 DEF TurnInv, SentInv
<1>3. InOrder'
  BY DEF TurnInv, InOrder
<1> QED BY <1>2, <1>3 DEF TurnInv

\* A step that adds nothing to the places, and sends nothing.
LEMMA TurnsShrink ==
  ASSUME MemInv, TurnInv, WaitsShrink, LeavesShrink, UNCHANGED <<content, received, to_ru>>
  PROVE  TurnInv'
<1>1. /\ OrderInv'
      /\ \A r, p : \A c \in Cores : Sent(r, p, c) => Sent(r, p, c)'
  <2>1. UNCHANGED <<content, received>>
    OBVIOUS
  <2> QED BY <2>1, OrderShrinks DEF MemInv, TurnInv
<1> QED BY <1>1, TurnsKept

LEMMA DuTurns == MemInv /\ TurnInv /\ HandleDu => TurnInv'
<1> SUFFICES ASSUME MemInv, TurnInv, HandleDu PROVE TurnInv'
  OBVIOUS
<1>1. UNCHANGED <<memory, mx_tx_bufs, tx, received, to_ru>>
  BY DEF HandleDu
<1>2. LeavesShrink
  BY <1>1, LeavesUnmoved, UnmovedShrink
<1> QED BY <1>1, <1>2, DuHandled, TurnsShrink DEF memory

LEMMA RingTurns == \A w \in Workers : MemInv /\ TurnInv /\ DequeueDu(w) => TurnInv'
<1> SUFFICES ASSUME NEW w \in Workers, MemInv, TurnInv, DequeueDu(w) PROVE TurnInv'
  OBVIOUS
<1>1. UNCHANGED <<memory, mx_tx_bufs, tx, received, to_ru>>
  BY DEF DequeueDu
<1>2. LeavesShrink
  BY <1>1, LeavesUnmoved, UnmovedShrink
<1> QED BY <1>1, <1>2, DuDequeued, TurnsShrink DEF memory

\* The head of a burst leaves it.
LEMMA HandledShrinks ==
  ASSUME MemInv, NEW c \in Cores, NEW b \in Bufs, Handles(c, b)
  PROVE  WaitsShrink /\ ~IsWaiting(b)'
<1> DEFINE s == <<"burst", c>>
<1>1. /\ TypeOK /\ PartsInv /\ mx_bufs[c] # <<>> /\ b = Head(mx_bufs[c])
      /\ Waits' = MovedFrom(Waits, s, Nowhere, 1, 0)
  BY HandledFacts
<1>2. /\ Waits \in [Waiting -> Seq(Bufs)] /\ s \in Waiting /\ Waits[s] = mx_bufs[c]
  BY <1>1, Queues
<1>3. 1 \in 0 .. Len(Waits[s]) /\ 0 \in 0 .. 1 /\ s # Nowhere /\ Waits[s][1] = b
  <2>1. mx_bufs[c] \in Seq(Bufs)
    BY <1>1 DEF TypeOK
  <2>2. s # Nowhere
    BY <1>2, NowhereIsNoPlace
  <2> QED BY <1>1, <1>2, <2>1, <2>2
<1> HIDE DEF s
<1>4. WaitsShrink
  BY <1>1, <1>2, <1>3, WaitsShrunk
<1>5. Follows(Waiting, Waits, s, Nowhere, 1, 0, Waits')
  BY <1>1, <1>2, <1>3, Moved
<1>6. 1 \in 0 + 1 .. 1
  OBVIOUS
<1>7. ~Has(Waiting, Waits', b)
  BY <1>1, <1>3, <1>5, <1>6 DEF Follows, PartsInv, PlacesInv
<1> QED BY <1>4, <1>7, AfterStep

LEMMA BurstTurns == \A c \in Cores : MemInv /\ TurnInv /\ TxBurst(c) => TurnInv'
<1> SUFFICES ASSUME NEW c \in Cores, MemInv, TurnInv, TxBurst(c) PROVE TurnInv'
  OBVIOUS
<1>1. PICK nb_tx \in 0 .. Len(mx_tx_bufs[c]) :
        /\ tx' = [tx EXCEPT ![c] = @ \o SubSeq(mx_tx_bufs[c], 1, nb_tx)]
        /\ mx_tx_bufs' = [mx_tx_bufs EXCEPT ![c] = <<>>]
        /\ UNCHANGED <<content, rxq, du_ring, mx_bufs, received, to_ru>>
  BY DEF TxBurst
<1>2. TypeOK
  BY DEF MemInv
<1>3. WaitsShrink
  BY <1>1, WaitsUnmoved, UnmovedShrink
<1>4. Leaves' = MovedFrom(Leaves, <<"out", c>>, <<"tx", c>>, Len(mx_tx_bufs[c]), nb_tx)
  BY <1>1, <1>2, BurstMoves
<1>5. /\ Leaves[<<"out", c>>] = mx_tx_bufs[c] /\ <<"out", c>> \in Leaving
      /\ <<"out", c>> # <<"tx", c>>
  BY <1>2, Queues, PlacesDiffer
<1>6. Len(mx_tx_bufs[c]) \in 0 .. Len(Leaves[<<"out", c>>])
  <2>1. Len(mx_tx_bufs[c]) \in Nat
    BY <1>2 DEF TypeOK
  <2> QED BY <1>5, <2>1
<1>7. LeavesShrink
  BY <1>2, <1>4, <1>5, <1>6, LeavesShrunk
<1> QED BY <1>1, <1>3, <1>7, TurnsShrink

\* A core handles an mbuf.
LEMMA SendTurns == \A c \in Cores : MemInv /\ TurnInv /\ SendsOn(c) => TurnInv'
<1> SUFFICES ASSUME NEW c \in Cores, MemInv, TurnInv, SendsOn(c) PROVE TurnInv'
  OBVIOUS
<1>1. PICK b \in Bufs :
        /\ Handles(c, b)
        /\ \E v \in Seq(Outgoing) : /\ Sends(b, v) /\ Counts(b, v)
                                    /\ Leaves' = Extended(Leaves, <<"out", c>>, v)
  BY DEF SendsOn
<1>2. /\ UNCHANGED <<tx, received, to_ru>> /\ mx_bufs[c] # <<>> /\ b = Head(mx_bufs[c])
      /\ WaitsShrink /\ ~IsWaiting(b)' /\ TypeOK /\ PartsInv
  BY <1>1, HandledShrinks DEF Handles, MemInv, PartsInv
<1>4. ASSUME NEW v \in Seq(Outgoing), Sends(b, v), Counts(b, v),
             Leaves' = Extended(Leaves, <<"out", c>>, v)
      PROVE  TurnInv'
  <2>1. \A i, j \in 1 .. Len(v) : v[i].ru = v[j].ru => i = j
    BY <1>4 DEF Sends, OncePerRu
  <2>2. \A e \in Outgoing : Within(v, e) => content'[e.buf] = content[b]
    BY <1>4 DEF Sends
  <2>3. \A e : Within(v, e) => IdOf(e.buf)' = IdOf(b)
    BY <2>2, WithinSeq DEF IdOf
  <2>4. ASSUME NEW d \in Bufs, Live(d), d # b PROVE IdOf(d)' = IdOf(d)
    <3>1. refcnt[d] # 0
      BY <1>2, <2>4, FreeIsNotLive
    <3> QED BY <1>4, <2>4, <3>1 DEF Counts, IdOf
  <2>5. /\ OrderInv'
        /\ \A r, p : \A h \in Cores : Sent(r, p, h) => Sent(r, p, h)'
    BY <1>2, <1>4, <2>1, <2>3, <2>4, OrderSends DEF TurnInv
  <2> QED BY <1>2, <2>5, TurnsKept
<1> QED BY <1>1, <1>4

\* The head of a TX queue is before the rest of what its core sends.
LEMMA HeadSentFirst ==
  ASSUME TypeOK, PartsInv, NEW c \in Cores, tx[c] # <<>>, NEW e, e = Head(tx[c]),
         tx' = [tx EXCEPT ![c] = Tail(@)], mx_tx_bufs' = mx_tx_bufs
  PROVE  /\ e \in Outgoing /\ IsLeaving(e) /\ LeavesFrom(c, e) /\ ~IsLeaving(e)'
         /\ \A f : LeavesFrom(c, f) => f = e \/ SentBefore(e, f)
         /\ LeavesShrink
<1> DEFINE s == <<"tx", c>>
<1>1. PICK q \in Seq(Outgoing) : q = tx[c]
  BY DEF TypeOK
<1>2. Len(q) \in Nat /\ 1 \in 1 .. Len(q) /\ q[1] = e /\ e \in Outgoing
  BY <1>1
<1>3. /\ s \in Leaving /\ Leaves[s] = q /\ Leaves \in [Leaving -> Seq(Outgoing)]
      /\ <<"out", c>> \in Leaving
  BY <1>1, Queues
<1>4. s \in LeavePlaces(c) /\ LeavePlaces(c) \in SUBSET Leaving
      /\ s # Nowhere /\ 1 \in 0 .. Len(Leaves[s]) /\ 0 \in 0 .. 1
  <2>1. s # Nowhere
    BY <1>3, NowhereIsNoPlace
  <2>2. s \in LeavePlaces(c) /\ LeavePlaces(c) \in SUBSET Leaving
    BY <1>3 DEF LeavePlaces
  <2> QED BY <1>2, <1>3, <2>1, <2>2
<1>5. IsLeaving(e) /\ LeavesFrom(c, e)
  BY <1>2, <1>3, <1>4 DEF IsLeaving, LeavesFrom, Has
<1>6. Leaves' = MovedFrom(Leaves, s, Nowhere, 1, 0)
  BY HeadSent
<1> HIDE DEF s
<1>7. LeavesShrink
  BY <1>3, <1>4, <1>6, LeavesShrunk
<1>8. ~IsLeaving(e)'
  <2>1. Follows(Leaving, Leaves, s, Nowhere, 1, 0, Leaves')
    BY <1>3, <1>4, <1>6, Moved
  <2>2. 1 \in 0 + 1 .. 1
    OBVIOUS
  <2>3. ~Has(Leaving, Leaves', e)
    BY <1>2, <1>3, <2>1, <2>2 DEF Follows, PartsInv, PlacesInv
  <2> QED BY <2>3, AfterStep
<1>9. ASSUME NEW f, LeavesFrom(c, f) PROVE f = e \/ SentBefore(e, f)
  <2>1. PICK k \in LeavePlaces(c) : \E i \in 1 .. Len(Leaves[k]) : Leaves[k][i] = f
    BY <1>9 DEF LeavesFrom, Has
  <2>2. PICK i \in 1 .. Len(Leaves[k]) : Leaves[k][i] = f
    BY <2>1
  <2>3. k \in Leaving /\ (k = s \/ k = <<"out", c>>)
    BY <1>4, <2>1 DEF s, LeavePlaces
  <2>4. CASE k = s /\ i = 1
    BY <2>4, <2>2, <1>2, <1>3
  <2>5. CASE k = s /\ i # 1
    <3>1. First(LeaveOrder, s, 1, k, i)
      BY <2>2, <2>5 DEF First
    <3> QED BY <3>1, <2>2, <2>3, <1>2, <1>3 DEF SentBefore, Precedes
  <2>6. CASE k = <<"out", c>>
    <3>1. <<s, k>> \in LeaveOrder
      BY <2>6, Orders DEF s
    <3>2. First(LeaveOrder, s, 1, k, i)
      BY <3>1 DEF First
    <3> QED BY <3>2, <2>2, <2>3, <1>2, <1>3 DEF SentBefore, Precedes
  <2> QED BY <2>3, <2>4, <2>5, <2>6
<1> QED BY <1>2, <1>5, <1>7, <1>8, <1>9

LEMMA TransmitTurns == \A c \in Cores : MemInv /\ TurnInv /\ Transmit(c) => TurnInv'
<1> SUFFICES ASSUME NEW c \in Cores, MemInv, TurnInv, Transmit(c) PROVE TurnInv'
  OBVIOUS
<1>1. PICK e : e = Head(tx[c])
  OBVIOUS
<1>2. /\ tx[c] # <<>>
      /\ to_ru' = [to_ru EXCEPT ![e.ru] = Append(@, [packet |-> content[e.buf], core |-> c])]
      /\ tx' = [tx EXCEPT ![c] = Tail(@)]
      /\ UNCHANGED <<content, rxq, du_ring, mx_bufs, mx_tx_bufs, received>>
  BY <1>1 DEF Transmit
<1>3. TypeOK /\ PartsInv /\ OrderInv /\ SentInv /\ InOrder
  BY DEF MemInv, PartsInv, TurnInv
<1>4. WaitsShrink
  BY <1>2, WaitsUnmoved, UnmovedShrink
<1>5. /\ e \in Outgoing /\ IsLeaving(e) /\ LeavesFrom(c, e) /\ ~IsLeaving(e)'
      /\ \A f : LeavesFrom(c, f) => f = e \/ SentBefore(e, f)
      /\ LeavesShrink
  BY <1>1, <1>2, <1>3, HeadSentFirst
<1>6. /\ OrderInv'
      /\ \A r, p : \A d \in Cores : Sent(r, p, d) => Sent(r, p, d)'
  <2>1. UNCHANGED <<content, received>>
    BY <1>2
  <2> QED BY <1>3, <1>4, <1>5, <2>1, OrderShrinks
<1>7. PICK p : p = content[e.buf]
  OBVIOUS
<1>8. /\ e.ru \in Rus /\ e.buf \in Bufs /\ p \in Packet /\ p.id \in 1 .. Len(received)
      /\ p = received[p.id] /\ p.kind \in {"control", "iq"} /\ p.id = IdOf(e.buf) /\ p.id \in Nat
  <2>1. e.ru \in Rus /\ e.buf \in Bufs /\ e.ru \in RusOf(e.buf) /\ Live(e.buf)
    BY <1>3, <1>5, LiveParts DEF RusOf
  <2>2. p \in Packet /\ p.id \in 1 .. Len(received) /\ p = received[p.id]
        /\ p.kind \in {"control", "iq"} /\ p.id = IdOf(e.buf)
    BY <1>3, <1>7, <2>1 DEF PartsInv, ContentInv, IdOf
  <2>3. p.id \in Nat
    BY <2>2 DEF Packet
  <2> QED BY <2>1, <2>2, <2>3
<1>9. Sent(e.ru, p, c)'
  <2>1. \A d \in Bufs : IdOf(d)' = IdOf(d)
    BY <1>2 DEF IdOf
  <2>2. ASSUME NEW d \in Bufs
        PROVE  /\ IsWaiting(d)' => p.id # IdOf(d)'
               /\ WaitsFor(c, d)' => p.id < IdOf(d)'
    <3>1. IsWaiting(d)' => IsWaiting(d)
      BY <1>4, AfterStep DEF WaitsShrink, IsWaiting
    <3>2. WaitsFor(c, d)' => WaitsFor(c, d)
      BY <1>4, OrderAfterStep DEF WaitsShrink, WaitsFor
    <3> QED BY <3>1, <3>2, <2>1, <1>3, <1>5, <1>8 DEF OrderInv
  <2>3. ASSUME NEW f \in Outgoing, NEW d \in Cores, LeavesFrom(d, f)'
        PROVE  /\ d = c => p.id <= IdOf(f.buf)'
               /\ d # c \/ f.ru = e.ru => p.id # IdOf(f.buf)'
    <3>1. LeavesFrom(d, f)
      BY <1>5, <2>3, OrderAfterStep DEF LeavesShrink, LeavesFrom
    <3>2. f # e
      <4>1. Has(LeavePlaces(d), Leaves', f) /\ LeavePlaces(d) \in SUBSET Leaving
        BY <2>3, OrderAfterStep DEF LeavePlaces, Leaving
      <4>2. Has(Leaving, Leaves', f)
        BY <4>1 DEF Has
      <4> QED BY <4>2, <1>5, AfterStep
    <3>3. IsLeaving(f) /\ f.buf \in Bufs
      BY <3>1, <1>3, LiveParts
    <3>4. d = c => p.id <= IdOf(f.buf)
      BY <3>1, <3>2, <1>3, <1>5, <1>8 DEF OrderInv
    <3>5. d # c => p.id # IdOf(f.buf)
      BY <3>1, <1>3, <1>5, <1>8 DEF OrderInv
    <3>6. f.ru = e.ru => p.id # IdOf(f.buf)
      BY <3>2, <3>3, <1>3, <1>5, <1>8 DEF OrderInv
    <3> QED BY <3>3, <3>4, <3>5, <3>6, <2>1
  <2>4. p.kind \in {"control", "iq"} /\ p.id \in 1 .. Len(received') /\ p = received'[p.id]
    BY <1>2, <1>8
  <2> QED BY <2>2, <2>3, <2>4 DEF Sent
<1>10. PICK T : T = [packet : Packet, core : Cores]
  OBVIOUS
<1>11. PICK x \in T : x = [packet |-> p, core |-> c]
  BY <1>8, <1>10
<1>12. PICK q \in Seq(T) : q = to_ru[e.ru]
  BY <1>3, <1>8, <1>10 DEF TypeOK
<1>13. /\ to_ru'[e.ru] = Append(q, x) /\ Len(q) \in Nat /\ Len(Append(q, x)) = Len(q) + 1
       /\ Append(q, x)[Len(q) + 1] = x /\ \A i \in 1 .. Len(q) : Append(q, x)[i] = q[i]
       /\ \A r \in Rus : r # e.ru => to_ru'[r] = to_ru[r]
  <2>1. to_ru' = [to_ru EXCEPT ![e.ru] = Append(q, x)]
    BY <1>2, <1>7, <1>11, <1>12
  <2> QED BY <2>1, <1>3, <1>8 DEF TypeOK
<1>14. SentInv'
  <2> SUFFICES ASSUME NEW r \in Rus, NEW y \in Packet, NEW d \in Cores, IsSent(r, y, d)'
               PROVE  Sent(r, y, d)'
    BY DEF SentInv
  <2>1. PICK j \in 1 .. Len(to_ru'[r]) : to_ru'[r][j] = [packet |-> y, core |-> d]
    BY DEF IsSent
  <2>2. CASE IsSent(r, y, d)
    BY <2>2, <1>3, <1>6 DEF SentInv
  <2>3. CASE r # e.ru
    BY <2>1, <2>2, <2>3, <1>13 DEF IsSent
  <2>4. CASE r = e.ru /\ j \in 1 .. Len(q)
    <3>1. q[j] = [packet |-> y, core |-> d]
      BY <2>1, <2>4, <1>13
    <3> QED BY <2>2, <2>4, <3>1, <1>12 DEF IsSent
  <2>5. CASE r = e.ru /\ j = Len(q) + 1
    <3>1. y = p /\ d = c
      BY <2>1, <2>5, <1>11, <1>13
    <3> QED BY <2>5, <3>1, <1>9
  <2> QED BY <2>1, <2>3, <2>4, <2>5, <1>13
<1>15. InOrder'
  <2> SUFFICES ASSUME NEW r \in Rus, NEW j \in 1 .. Len(to_ru'[r]), NEW i \in 1 .. j - 1
               PROVE  /\ to_ru'[r][i].packet.id # to_ru'[r][j].packet.id
                      /\ to_ru'[r][i].core = to_ru'[r][j].core =>
                           to_ru'[r][i].packet.id < to_ru'[r][j].packet.id
    BY DEF InOrder
  <2>1. CASE r # e.ru
    BY <2>1, <1>3, <1>13 DEF InOrder
  <2>2. CASE r = e.ru /\ j \in 1 .. Len(q)
    <3>1. i \in 1 .. Len(q) /\ to_ru'[r][i] = to_ru[r][i] /\ to_ru'[r][j] = to_ru[r][j]
      BY <2>2, <1>12, <1>13
    <3>2. j \in 1 .. Len(to_ru[r])
      BY <2>2, <1>12
    <3> QED BY <3>1, <3>2, <1>3 DEF InOrder
  <2>3. CASE r = e.ru /\ j = Len(q) + 1
    <3>1. i \in 1 .. Len(q) /\ to_ru'[r][i] = q[i] /\ to_ru'[r][j] = x
      BY <2>3, <1>13
    <3>2. q[i] \in T
      BY <3>1
    <3>3. PICK y \in Packet, d \in Cores : q[i] = [packet |-> y, core |-> d]
      BY <3>2, <1>10
    <3>4. IsSent(r, y, d)
      BY <2>3, <3>1, <3>3, <1>12 DEF IsSent
    <3>5. Sent(r, y, d)
      BY <3>4, <1>3 DEF SentInv
    <3>6. /\ c = d => y.id <= IdOf(e.buf)
          /\ y.id # IdOf(e.buf)
      BY <2>3, <3>5, <1>5 DEF Sent
    <3>7. y.id \in Nat
      BY DEF Packet
    <3>8. /\ y.id # p.id /\ (d = c => y.id < p.id)
      BY <3>6, <3>7, <1>8
    <3>9. /\ to_ru'[r][i].packet = y /\ to_ru'[r][i].core = d
          /\ to_ru'[r][j].packet = p /\ to_ru'[r][j].core = c
      BY <3>1, <3>3, <1>11
    <3> QED BY <3>8, <3>9
  <2> QED BY <2>1, <2>2, <2>3, <1>13
<1> QED BY <1>6, <1>14, <1>15 DEF TurnInv

\* A received packet has the highest id, and goes last.
LEMMA NicTurns == MemInv /\ TurnInv /\ NicReceive => TurnInv'
<1> SUFFICES ASSUME MemInv, TurnInv, NicReceive PROVE TurnInv'
  OBVIOUS
<1>1. PICK b \in Bufs, p \in Packet : Stores(b, p)
  BY Received
<1>2. TypeOK /\ PartsInv /\ OrderInv /\ ~IsWaiting(b) /\ RusOf(b) = {} /\ to_ru' = to_ru
  BY <1>1, FreeIsNotLive DEF MemInv, PartsInv, TurnInv, Live, Stores
<1>3. PICK n \in Nat : n = Len(received)
  BY <1>2 DEF TypeOK
<1>4. /\ Len(received') = n + 1 /\ p.id = n + 1
      /\ \A i \in 1 .. n : received'[i] = received[i] /\ i \in 1 .. Len(received')
  <2>1. PICK q \in Seq(Packet) : q = received
    BY <1>2 DEF TypeOK
  <2>2. /\ Len(Append(q, p)) = Len(q) + 1 /\ \A i \in 1 .. Len(q) : Append(q, p)[i] = q[i]
    OBVIOUS
  <2> QED BY <1>1, <1>3, <2>1, <2>2 DEF Stores
<1>5. /\ IdOf(b)' = n + 1 /\ \A d \in Bufs : d # b => IdOf(d)' = IdOf(d)
      /\ \A d \in Bufs : Live(d) => IdOf(d) \in 1 .. n /\ (d # b => IdOf(d)' = IdOf(d))
  <2>1. content \in [Bufs -> Packet \cup {NoPacket}] /\ content' = [content EXCEPT ![b] = p]
    BY <1>1, <1>2 DEF TypeOK, Stores
  <2>2. content'[b] = p /\ \A d \in Bufs : d # b => content'[d] = content[d]
    BY <2>1
  <2>3. \A d \in Bufs : Live(d) => IdOf(d) \in 1 .. n
    BY <1>2, <1>3 DEF PartsInv, ContentInv, IdOf
  <2> QED BY <1>4, <2>2, <2>3 DEF IdOf
<1>6. /\ Waits \in [Waiting -> Seq(Bufs)] /\ <<"input", 0>> \in Waiting
      /\ \A k \in Waiting : <<<<"input", 0>>, k>> \notin WaitOrder
  <2>1. ASSUME NEW k \in Waiting PROVE <<<<"input", 0>>, k>> \notin WaitOrder
    <3>1. PICK d \in Cores : k = <<"input", d>> \/ k = <<"burst", d>>
      BY PlacesOfCores
    <3> QED BY <3>1, Orders, CoreFacts
  <2> QED BY <2>1, <1>2, Queues, CoreFacts
<1>7. PICK v \in Seq(Bufs) : v = <<b>>
  <2>1. <<b>> \in Seq(Bufs)
    OBVIOUS
  <2> QED BY <2>1
<1>8. Len(v) = 1 /\ \A x : Within(v, x) <=> x = b
  BY <1>7 DEF Within
<1>9. Adds(Waiting, Waits, <<"input", 0>>, v, Waits')
      /\ Waits' = Extended(Waits, <<"input", 0>>, v)
  BY <1>1, <1>6, <1>7, JoinedQueue DEF Stores
<1>10. \A d : IsWaiting(d)' => IsWaiting(d) \/ d = b
  BY <1>8, <1>9, AfterStep DEF Adds, IsWaiting
<1>11. ASSUME NEW d, NEW f, Before(d, f)' PROVE Before(d, f) \/ (f = b /\ IsWaiting(d))
  <2>1. Precedes(Waiting, Waits', WaitOrder, d, f)
    BY <1>11, OrderAfterStep
  <2>2. \/ Precedes(Waiting, Waits, WaitOrder, d, f)
        \/ Within(v, f) /\ Upstream(Waiting, Waits, WaitOrder, <<"input", 0>>, d)
        \/ \E i, j \in 1 .. Len(v) : i < j /\ v[i] = d /\ v[j] = f
    BY <1>6, <1>9, <2>1 DEF Adds
  <2>3. CASE Precedes(Waiting, Waits, WaitOrder, d, f)
    BY <2>3 DEF Before
  <2>4. CASE Within(v, f) /\ Upstream(Waiting, Waits, WaitOrder, <<"input", 0>>, d)
    <3>1. IsWaiting(d)
      BY <2>4 DEF Upstream, Within, IsWaiting, Has
    <3> QED BY <2>4, <3>1, <1>8
  <2>5. ~ \E i, j \in 1 .. Len(v) : i < j /\ v[i] = d /\ v[j] = f
    BY <1>8
  <2> QED BY <2>2, <2>3, <2>4, <2>5
<1>12. ASSUME NEW h \in Cores, NEW d, WaitsFor(h, d)' PROVE WaitsFor(h, d) \/ d = b
  <2>1. Has(WaitPlaces(h), Extended(Waits, <<"input", 0>>, v), d)
    BY <1>9, <1>12, OrderAfterStep
  <2>2. WaitPlaces(h) \in SUBSET Waiting
    BY CoreFacts DEF WaitPlaces, Waiting
  <2>3. Has(WaitPlaces(h), Waits, d) \/ (<<"input", 0>> \in WaitPlaces(h) /\ Within(v, d))
    <3>1. PICK t \in Waiting : t = <<"input", 0>>
      BY <1>6
    <3>2. Has(WaitPlaces(h), Extended(Waits, t, v), d)
      BY <2>1, <3>1
    <3>3. Has(WaitPlaces(h), Waits, d) \/ (t \in WaitPlaces(h) /\ Within(v, d))
      BY <1>6, <2>2, <3>2, JoinedPart
    <3> QED BY <3>1, <3>3
  <2> QED BY <1>8, <2>3 DEF WaitsFor
<1>13. /\ \A e : IsLeaving(e)' => IsLeaving(e)
       /\ \A e, f : SentBefore(e, f)' => SentBefore(e, f)
       /\ \A h \in Cores : \A e : LeavesFrom(h, e)' => LeavesFrom(h, e)
  <2>1. Leaves' = Leaves
    BY <1>1, LeavesUnmoved DEF Stores
  <2> QED BY <2>1, AfterStep, OrderAfterStep DEF IsLeaving, SentBefore, LeavesFrom
<1>14. /\ \A d : IsWaiting(d) => d \in Bufs /\ IdOf(d) \in 1 .. n /\ IdOf(d)' = IdOf(d)
       /\ \A e : IsLeaving(e) => e \in Outgoing /\ IdOf(e.buf) \in 1 .. n
                                 /\ IdOf(e.buf)' = IdOf(e.buf)
       /\ \A h \in Cores : \A d : WaitsFor(h, d) => IsWaiting(d)
       /\ \A h \in Cores : \A e : LeavesFrom(h, e) => IsLeaving(e)
       /\ \A d, f : Before(d, f) => IsWaiting(d) /\ IsWaiting(f)
       /\ \A e, f : SentBefore(e, f) => IsLeaving(e) /\ IsLeaving(f)
  <2>1. \A e : IsLeaving(e) => e.buf # b
    BY <1>2, LiveParts
  <2> QED BY <1>2, <1>5, <2>1, LiveParts
<1>15. OrderInv'
  <2>1. ASSUME NEW d \in Bufs, NEW f \in Bufs
        PROVE  /\ Before(d, f)' => IdOf(d)' < IdOf(f)'
               /\ IsWaiting(d)' /\ IsWaiting(f)' /\ IdOf(d)' = IdOf(f)' => d = f
    <3>1. Before(d, f)' => IdOf(d)' < IdOf(f)'
      BY <1>2, <1>5, <1>11, <1>14 DEF OrderInv
    <3>2. IsWaiting(d)' /\ IsWaiting(f)' /\ IdOf(d)' = IdOf(f)' => d = f
      BY <1>2, <1>5, <1>10, <1>14 DEF OrderInv
    <3> QED BY <3>1, <3>2
  <2>2. ASSUME NEW e \in Outgoing, NEW f \in Outgoing
        PROVE  /\ SentBefore(e, f)' => IdOf(e.buf)' <= IdOf(f.buf)'
               /\ IsLeaving(e)' /\ IsLeaving(f)' /\ e.ru = f.ru /\ IdOf(e.buf)' = IdOf(f.buf)' => e = f
    BY <1>2, <1>13, <1>14 DEF OrderInv
  <2>3. ASSUME NEW e \in Outgoing, NEW d \in Bufs
        PROVE  /\ IsLeaving(e)' /\ IsWaiting(d)' => IdOf(e.buf)' # IdOf(d)'
               /\ \A h \in Cores : LeavesFrom(h, e)' /\ WaitsFor(h, d)' => IdOf(e.buf)' < IdOf(d)'
    <3>1. IsLeaving(e)' /\ IsWaiting(d)' => IdOf(e.buf)' # IdOf(d)'
      BY <1>2, <1>5, <1>10, <1>13, <1>14 DEF OrderInv
    <3>2. \A h \in Cores : LeavesFrom(h, e)' /\ WaitsFor(h, d)' => IdOf(e.buf)' < IdOf(d)'
      BY <1>2, <1>5, <1>12, <1>13, <1>14 DEF OrderInv
    <3> QED BY <3>1, <3>2
  <2>4. ASSUME NEW e \in Outgoing, NEW f \in Outgoing, NEW g \in Cores, NEW h \in Cores,
               LeavesFrom(g, e)', LeavesFrom(h, f)', g # h
        PROVE  IdOf(e.buf)' # IdOf(f.buf)'
    BY <2>4, <1>2, <1>13, <1>14 DEF OrderInv
  <2> QED BY <2>1, <2>2, <2>3, <2>4 DEF OrderInv
<1>16. ASSUME NEW r, NEW y, NEW h \in Cores, Sent(r, y, h) PROVE Sent(r, y, h)'
  <2>1. y.id \in 1 .. n /\ y.kind \in {"control", "iq"} /\ y = received[y.id]
    BY <1>3, <1>16 DEF Sent
  <2>2. y.id \in 1 .. Len(received') /\ y = received'[y.id]
    BY <1>4, <2>1
  <2>3. \A d \in Bufs : /\ IsWaiting(d)' => y.id # IdOf(d)'
                        /\ WaitsFor(h, d)' => y.id < IdOf(d)'
    BY <1>5, <1>10, <1>12, <1>14, <1>16, <2>1 DEF Sent
  <2>4. \A e \in Outgoing, d \in Cores : LeavesFrom(d, e)' =>
          /\ d = h => y.id <= IdOf(e.buf)'
          /\ d # h \/ e.ru = r => y.id # IdOf(e.buf)'
    BY <1>13, <1>14, <1>16 DEF Sent
  <2> QED BY <2>1, <2>2, <2>3, <2>4 DEF Sent
<1> QED BY <1>2, <1>15, <1>16, TurnsKept

LEMMA TurnStarts == Init => TurnInv
<1> SUFFICES ASSUME Init PROVE TurnInv
  OBVIOUS
<1>1. /\ TypeOK
      /\ \A k \in Waiting : Len(Waits[k]) = 0
      /\ \A k \in Leaving : Len(Leaves[k]) = 0
  BY MemStarts DEF MemInv
<1>2. /\ \A b : ~IsWaiting(b) /\ \A e : ~IsLeaving(e)
      /\ \A b, d : ~Before(b, d) /\ \A e, f : ~SentBefore(e, f)
  BY <1>1 DEF IsWaiting, IsLeaving, Before, SentBefore, Precedes, Has
<1>3. \A c \in Cores : \A e : ~LeavesFrom(c, e)
  BY <1>1, <1>2, LiveParts
<1>4. OrderInv
  BY <1>2, <1>3 DEF OrderInv
<1>5. \A r \in Rus : Len(to_ru[r]) = 0
  BY DEF Init
<1>6. SentInv /\ InOrder
  BY <1>5 DEF SentInv, IsSent, InOrder
<1> QED BY <1>4, <1>6 DEF TurnInv

LEMMA TurnKept == MemInv /\ TurnInv /\ [Next]_vars => TurnInv'
<1> SUFFICES ASSUME MemInv, TurnInv, [Next]_vars PROVE TurnInv'
  OBVIOUS
<1>1. 0 \in Cores /\ \A w \in Workers : w \in Cores
  BY CoreFacts
<1>2. \A c \in Cores : HandlePacket(c) => TurnInv'
  BY PacketHandled, SendTurns
<1>3. CASE Main
  BY <1>1, <1>2, <1>3, DuTurns, BurstTurns DEF Main
<1>4. ASSUME NEW w \in Workers, Worker(w) PROVE TurnInv'
  BY <1>1, <1>2, <1>4, RingTurns, BurstTurns DEF Worker
<1>5. CASE NicReceive
  BY <1>5, NicTurns
<1>6. ASSUME NEW c \in Cores, Transmit(c) PROVE TurnInv'
  BY <1>6, TransmitTurns
<1>7. CASE UNCHANGED vars
  <2>1. WaitsShrink /\ LeavesShrink
    BY <1>7, WaitsUnmoved, LeavesUnmoved, UnmovedShrink DEF vars
  <2>2. UNCHANGED <<content, received, to_ru>>
    BY <1>7 DEF vars, memory
  <2> QED BY <2>1, <2>2, TurnsShrink
<1> QED BY <1>3, <1>4, <1>5, <1>6, <1>7 DEF Next, Aborted

\* An RU gets only packets that the DU sent through the middlebox, unchanged,
\* none of them twice, and those that the same core handled in the order in which
\* the DU sent them: for any number of workers, RUs and mbufs, in every build, and
\* whatever the TX queues do not take.
THEOREM SentOnceAndInOrder == Spec => []SentOnceInOrder
<1>1. Init => MemInv /\ TurnInv
  BY MemStarts, TurnStarts
<1>2. MemInv /\ TurnInv /\ [Next]_vars => (MemInv /\ TurnInv)'
  BY MemKept, TurnKept
<1>3. MemInv /\ TurnInv => SentOnceInOrder
  BY TurnsSuffice DEF MemInv, TurnInv
<1> QED BY <1>1, <1>2, <1>3, PTL DEF Spec
====
