-------------------------- MODULE RuSharingProofs --------------------------
(***************************************************************************)
(* Proofs about the RU sharing middlebox (RuSharing), for any number of    *)
(* DUs, ports, symbols and mbufs, any schedule and losses, in both builds: *)
(* types, the place of every mbuf, the answers to uplink requests, the     *)
(* sections of PRACH requests and answers, and that the downlink           *)
(* implements FronthaulMerge.                                              *)
(***************************************************************************)
EXTENDS RuSharing, FiniteSetTheorems, SequenceTheorems, TLAPS

-----------------------------------------------------------------------------
(* The invariant                                                           *)

\* Where an mbuf is: received and not handled, in the cache, about to be sent.
In(b, q) == \E i \in 1 .. Len(q) : q[i] = b
Once(q) == \A i, j \in 1 .. Len(q) : q[i] = q[j] => i = j
Received(b) == In(b, rxq) \/ In(b, mx_bufs)
Cached(b) == \E k \in Keys : b \in InRow(cached_du_packets[k])
Entry == [to : Dus \cup {RU}, buf : Bufs]
ToBeSent(b) == \E e \in Entry : In(e, mx_tx_bufs) /\ e.buf = b

\* An mbuf is in a queue once, and in one of them.
QueuesInv ==
  /\ Once(rxq) /\ Once(mx_bufs) /\ \A b \in Bufs : ~(In(b, rxq) /\ In(b, mx_bufs))
  /\ Once(mx_tx_bufs)
  /\ \A e, f \in Entry : In(e, mx_tx_bufs) /\ In(f, mx_tx_bufs) /\ e.buf = f.buf => e = f
RowsInv == \A k, l \in Keys, d, e \in Dus :
  cached_du_packets[k][d] # NULL /\ cached_du_packets[k][d] = cached_du_packets[l][e]
    => k = l /\ d = e

\* Places exclude each other; but after a stray packet, an mbuf that is used
\* may be on the free list.
PlacesInv == \A b \in Bufs :
  /\ ~(Received(b) /\ Cached(b)) /\ ~(Received(b) /\ ToBeSent(b)) /\ ~(Cached(b) /\ ToBeSent(b))
  /\ pool[b] > 0 => ~Cached(b) /\ ~ToBeSent(b) /\ (stray = 0 => ~Received(b))
  /\ stray = 0 => pool[b] <= 1
NoneLost == alive => \A b \in PoolBufs : pool[b] > 0 \/ Received(b) \/ Cached(b) \/ ToBeSent(b)
OwnInv == QueuesInv /\ RowsInv /\ PlacesInv /\ NoneLost

\* What mbufs hold.
RowOf(p) == [EmptyRow EXCEPT ![p.du] = p]
Holds(b, p) == content[b] = IF p.kind = "prach_data" THEN AnswerRow(p) ELSE RowOf(p)
IsNew(p) == p.kind \in DuKinds => p \in Arrived /\ p \in sent /\ p.frame = frame
ReceivedInv == \A b \in Bufs : Received(b) =>
  \E p \in Packet : Holds(b, p) /\ IsNew(p) /\ (p.kind \in StrayKinds <=> stray > 0)
CachedInv == \A k \in Keys, d \in Dus : cached_du_packets[k][d] # NULL =>
  \E p \in Packet : p.kind \in DuKinds /\ p.du = d /\ content[cached_du_packets[k][d]] = RowOf(p)
SectionsOfAll(row) ==
  (scenario.asserts /\ \E d \in Dus : row[d] # NULL /\ row[d].kind = "prach_control")
    => \A d \in Dus : row[d] # NULL /\ row[d].du = d
IsOne(row, p) == \E d \in Dus : row = [EmptyRow EXCEPT ![d] = p]
IsTheirs(p, d) ==
  /\ p.kind = "prach_data" => p.du = d
  /\ scenario.asserts => p.kind # "prach_header"
TxInv == \A e \in Entry : In(e, mx_tx_bufs) =>
  IF e.to = RU THEN SectionsOfAll(content[e.buf])
  ELSE \E p \in Packet : IsOne(content[e.buf], p) /\ IsTheirs(p, e.to)
ContentInv == ReceivedInv /\ CachedInv /\ TxInv

\* The count of a row.
Present(row) == {d \in Dus : row[d] # NULL}
CountInv == \A k \in Keys : cached_du_packets_num[k] = Cardinality(Present(cached_du_packets[k]))

EnvInv ==
  /\ \A p \in owed : p.kind \in RuKinds
  /\ \A p \in missing : p.kind \in DuKinds => p.frame < frame \/ p \in sent
StrayInv == stray > 0 =>
  /\ frame = scenario.max_frame /\ sent = DuPackets(frame) /\ owed = {} /\ mx_tx_bufs = <<>>

\* The requests of DU d for a port that the thread is done with; the answers to
\* them that were sent, and those to be sent.  Those and the note that an answer
\* is expected are together no more than the requests, for every symbol.
Unhandled(q) == \E b \in Bufs : Received(b) /\ content[b] = RowOf(q)
UlArrived == {q \in Arrived : q.kind \in UlRequests}
Requests(d, port) == {q \in UlArrived : q.du = d /\ q.port = port}
HandledRequests(d, port) == {q \in Requests(d, port) : ~Unhandled(q)}
IsAnswer(p, port, s) == p.kind = "ul_data" /\ p.port = port /\ p.symbol = s
AnswersSent(d, port, s) == {i \in 1 .. Len(to_du) : to_du[i].du = d /\ IsAnswer(to_du[i].packet, port, s)}
AnswersToSend(d, port, s) ==
  {e \in Entry : In(e, mx_tx_bufs) /\ e.to = d /\ IsAnswer(PacketIn(e.buf), port, s)}
OneMbuf == \A b, c \in Bufs, p \in Packet :
  Received(b) /\ Received(c) /\ p.kind \in DuKinds /\ content[b] = RowOf(p) /\ content[c] = RowOf(p) => b = c
Bounded(d, port, s) ==
  Cardinality(AnswersSent(d, port, s)) + Cardinality(AnswersToSend(d, port, s))
    + pending_ul_packet[<<d, port, s>>] <= Cardinality(HandledRequests(d, port))
AnswersInv == \A d \in Dus, port \in Ports, s \in Symbols : Bounded(d, port, s)

-----------------------------------------------------------------------------
(* Queues                                                                  *)

\* A queue after x has joined it.
LEMMA Appended ==
  ASSUME NEW S, NEW q \in Seq(S), NEW x \in S
  PROVE  /\ \A b : In(b, Append(q, x)) <=> In(b, q) \/ b = x
         /\ Once(q) /\ ~In(x, q) => Once(Append(q, x))
<1> DEFINE r == Append(q, x)
<1>1. /\ r \in Seq(S) /\ Len(r) = Len(q) + 1 /\ Len(q) \in Nat /\ r[Len(q) + 1] = x
      /\ \A i \in 1 .. Len(q) : r[i] = q[i]
  OBVIOUS
<1>2. \A i : i \in 1 .. Len(r) <=> i \in 1 .. Len(q) \/ i = Len(q) + 1
  BY <1>1
<1> HIDE DEF r
<1>3. \A b : In(b, r) <=> In(b, q) \/ b = x
  BY <1>1, <1>2 DEF In
<1>4. Once(q) /\ ~In(x, q) => Once(r)
  BY <1>1, <1>2 DEF Once, In
<1> QED BY <1>3, <1>4 DEF r

\* A queue after its head has left it.
LEMMA HeadTaken ==
  ASSUME NEW S, NEW q \in Seq(S), q # <<>>, Once(q)
  PROVE  /\ Head(q) \in S /\ In(Head(q), q) /\ Once(Tail(q))
         /\ \A b : In(b, Tail(q)) <=> In(b, q) /\ b # Head(q)
<1> DEFINE t == Tail(q)
<1>1. /\ Len(q) \in Nat /\ Len(q) >= 1 /\ 1 \in 1 .. Len(q) /\ Head(q) = q[1] /\ q[1] \in S
      /\ t \in Seq(S) /\ Len(t) = Len(q) - 1
      /\ \A i \in 1 .. Len(t) : i + 1 \in 1 .. Len(q) /\ t[i] = q[i + 1]
  OBVIOUS
<1>2. \A i \in 1 .. Len(q) : i = 1 \/ (i - 1 \in 1 .. Len(t) /\ (i - 1) + 1 = i)
  BY <1>1
<1>3. \A i, j \in 1 .. Len(t) : i + 1 = j + 1 => i = j
  BY <1>1
<1>4. \A i \in 1 .. Len(t) : i + 1 # 1
  BY <1>1
<1> HIDE DEF t
<1>5. Once(t)
  BY <1>1, <1>3 DEF Once
<1>6. \A b : In(b, t) => In(b, q) /\ b # q[1]
  BY <1>1, <1>4 DEF In, Once
<1>7. ASSUME NEW b, In(b, q), b # q[1] PROVE In(b, t)
  <2>1. PICK i \in 1 .. Len(q) : q[i] = b
    BY <1>7 DEF In
  <2>2. i - 1 \in 1 .. Len(t) /\ (i - 1) + 1 = i
    BY <1>2, <1>7, <2>1
  <2>3. t[i - 1] = b
    BY <1>1, <2>1, <2>2
  <2> QED BY <2>2, <2>3 DEF In
<1> QED BY <1>1, <1>5, <1>6, <1>7 DEF t, In

\* A queue cut in two: what was in it is in one of the halves.
LEMMA BurstTaken ==
  ASSUME NEW S, NEW q \in Seq(S), Once(q), NEW n \in 0 .. Len(q)
  PROVE  LET a == SubSeq(q, 1, n)
             c == SubSeq(q, n + 1, Len(q))
         IN  /\ a \in Seq(S) /\ c \in Seq(S) /\ Once(a) /\ Once(c)
             /\ \A b : (In(b, a) \/ In(b, c) <=> In(b, q)) /\ ~(In(b, a) /\ In(b, c))
<1> DEFINE a == SubSeq(q, 1, n)
           c == SubSeq(q, n + 1, Len(q))
<1>1. /\ Len(q) \in Nat /\ n \in Nat
      /\ a \in Seq(S) /\ Len(a) = n /\ \A i \in 1 .. n : a[i] = q[i] /\ i \in 1 .. Len(q)
      /\ c \in Seq(S) /\ Len(c) = Len(q) - n
      /\ \A i \in 1 .. Len(q) - n : c[i] = q[i + n] /\ i + n \in 1 .. Len(q) /\ i + n \notin 1 .. n
  OBVIOUS
<1>2. \A i \in 1 .. Len(q) : i \in 1 .. n \/ (i - n \in 1 .. Len(q) - n /\ (i - n) + n = i)
  BY <1>1
<1>3. \A i, j \in 1 .. Len(q) - n : i + n = j + n => i = j
  BY <1>1
<1> HIDE DEF a, c
<1>4. Once(a)
  BY <1>1 DEF Once
<1>5. ASSUME NEW i \in 1 .. Len(c), NEW j \in 1 .. Len(c), c[i] = c[j] PROVE i = j
  <2>1. i \in 1 .. Len(q) - n /\ j \in 1 .. Len(q) - n
    BY <1>1
  <2>2. c[i] = q[i + n] /\ c[j] = q[j + n] /\ i + n \in 1 .. Len(q) /\ j + n \in 1 .. Len(q)
    BY <1>1, <2>1
  <2>3. q[i + n] = q[j + n]
    BY <1>5, <2>2
  <2>4. i \in Int /\ j \in Int
    BY <2>1
  <2>5. i + n = j + n
    BY <2>3, <2>2 DEF Once
  <2> QED BY <1>1, <2>5, <2>4
<1>6. \A b : In(b, a) \/ In(b, c) => In(b, q)
  BY <1>1 DEF In
<1>7. ASSUME NEW b, In(b, q) PROVE In(b, a) \/ In(b, c)
  <2>1. PICK i \in 1 .. Len(q) : q[i] = b
    BY <1>7 DEF In
  <2>2. CASE i \in 1 .. n
    BY <1>1, <2>1, <2>2 DEF In
  <2>3. CASE i - n \in 1 .. Len(q) - n /\ (i - n) + n = i
    <3>1. c[i - n] = b /\ i - n \in 1 .. Len(c)
      BY <1>1, <2>1, <2>3
    <3> QED BY <3>1 DEF In
  <2> QED BY <1>2, <2>2, <2>3
<1>8. ASSUME NEW b, In(b, a), In(b, c) PROVE FALSE
  <2>1. PICK i \in 1 .. n : a[i] = b
    BY <1>1, <1>8 DEF In
  <2>2. PICK j \in 1 .. Len(q) - n : c[j] = b
    BY <1>1, <1>8 DEF In
  <2>3. q[i] = q[j + n] /\ i \in 1 .. Len(q) /\ j + n \in 1 .. Len(q)
    BY <1>1, <2>1, <2>2
  <2>4. i = j + n
    BY <2>3 DEF Once
  <2> QED BY <1>1, <2>2, <2>4
<1>9. Once(c)
  BY <1>5 DEF Once
<1> QED BY <1>1, <1>4, <1>9, <1>6, <1>7, <1>8 DEF a, c

\* Two queues that share nothing, one after the other.
LEMMA Concatenated ==
  ASSUME NEW S, NEW q \in Seq(S), NEW r \in Seq(S), Once(q), Once(r), \A b : ~(In(b, q) /\ In(b, r))
  PROVE  /\ \A b : In(b, q \o r) <=> In(b, q) \/ In(b, r)
         /\ Once(q \o r)
<1> DEFINE a == q \o r
<1>1. /\ Len(q) \in Nat /\ Len(r) \in Nat /\ Len(a) = Len(q) + Len(r)
      /\ \A i \in 1 .. Len(q) : a[i] = q[i] /\ i \in 1 .. Len(a)
      /\ \A i \in 1 .. Len(r) : a[i + Len(q)] = r[i] /\ i + Len(q) \in 1 .. Len(a)
  OBVIOUS
<1>2. \A i \in 1 .. Len(a) :
        i \in 1 .. Len(q) \/ (i - Len(q) \in 1 .. Len(r) /\ (i - Len(q)) + Len(q) = i)
  BY <1>1
<1> HIDE DEF a
<1>3. \A b : In(b, q) \/ In(b, r) => In(b, a)
  BY <1>1 DEF In
<1>4. ASSUME NEW i \in 1 .. Len(a)
      PROVE  \/ i \in 1 .. Len(q) /\ a[i] = q[i] /\ In(a[i], q)
             \/ /\ i - Len(q) \in 1 .. Len(r) /\ (i - Len(q)) + Len(q) = i
                /\ a[i] = r[i - Len(q)] /\ In(a[i], r)
  <2>1. CASE i \in 1 .. Len(q)
    BY <1>1, <2>1 DEF In
  <2>2. CASE i - Len(q) \in 1 .. Len(r) /\ (i - Len(q)) + Len(q) = i
    <3>1. a[i] = r[i - Len(q)]
      BY <1>1, <2>2
    <3> QED BY <2>2, <3>1 DEF In
  <2> QED BY <1>2, <2>1, <2>2
<1>5. \A b : In(b, a) => In(b, q) \/ In(b, r)
  BY <1>4 DEF In
<1>6. ASSUME NEW i \in 1 .. Len(a), NEW j \in 1 .. Len(a), a[i] = a[j] PROVE i = j
  <2>1. CASE i \in 1 .. Len(q) /\ a[i] = q[i] /\ In(a[i], q)
    <3>1. j \in 1 .. Len(q) /\ a[j] = q[j]
      BY <1>4, <1>6, <2>1
    <3> QED BY <1>6, <2>1, <3>1 DEF Once
  <2>2. CASE i - Len(q) \in 1 .. Len(r) /\ (i - Len(q)) + Len(q) = i
             /\ a[i] = r[i - Len(q)] /\ In(a[i], r)
    <3>1. j - Len(q) \in 1 .. Len(r) /\ (j - Len(q)) + Len(q) = j /\ a[j] = r[j - Len(q)]
      BY <1>4, <1>6, <2>2
    <3>2. i - Len(q) = j - Len(q)
      BY <1>6, <2>2, <3>1 DEF Once
    <3> QED BY <2>2, <3>1, <3>2
  <2> QED BY <1>4, <2>1, <2>2
<1> QED BY <1>3, <1>5, <1>6 DEF Once, a

-----------------------------------------------------------------------------
(* Free mbufs                                                              *)

\* The rank of an mbuf in a set.
UpTo(S, b) == {a \in S : a <= b}

\* Sets of mbufs are finite sets of integers.
LEMMA BufsFinite ==
  ASSUME NEW S \in SUBSET Bufs
  PROVE  S \in SUBSET Int /\ IsFiniteSet(S)
<1>1. IsFiniteSet(Bufs) /\ \A b \in Bufs : b \in Int
  BY FS_Interval, SharingAssumption DEF Bufs
<1> QED BY <1>1, FS_Subset

\* Ranks are natural numbers, and at most the size of the set.
LEMMA UpToFinite ==
  ASSUME NEW S \in SUBSET Int, IsFiniteSet(S)
  PROVE  /\ Cardinality(S) \in Nat
         /\ \A b : IsFiniteSet(UpTo(S, b)) /\ Cardinality(UpTo(S, b)) \in Nat
                   /\ Cardinality(UpTo(S, b)) <= Cardinality(S)
<1>1. \A b : UpTo(S, b) \in SUBSET S
  BY DEF UpTo
<1> QED BY <1>1, FS_Subset, FS_CardinalityType

\* A greater element has a greater rank.
LEMMA RanksGrow ==
  ASSUME NEW S \in SUBSET Int, IsFiniteSet(S), NEW a \in S, NEW b \in S, a < b
  PROVE  Cardinality(UpTo(S, a)) < Cardinality(UpTo(S, b))
<1> DEFINE A == UpTo(S, a)
           B == UpTo(S, b)
<1>1. \A c \in S : c \in Int
  OBVIOUS
<1>2. A \in SUBSET B /\ b \in B /\ b \notin A
  <2>1. b <= b /\ ~(b <= a) /\ \A c \in S : c <= a => c <= b
    BY <1>1
  <2> QED BY <2>1 DEF UpTo
<1>3. IsFiniteSet(B) /\ Cardinality(A) \in Nat /\ Cardinality(B) \in Nat
  BY UpToFinite
<1> HIDE DEF A, B
<1>4. Cardinality(A) <= Cardinality(B) /\ Cardinality(A) # Cardinality(B)
  BY <1>2, <1>3, FS_Subset
<1> QED BY <1>3, <1>4 DEF A, B

\* The ranks of the mbufs of S are 1 .. Cardinality(S), each once.
LEMMA Ranks ==
  ASSUME NEW S \in SUBSET Int, IsFiniteSet(S)
  PROVE  /\ \A b \in S : Cardinality(UpTo(S, b)) \in 1 .. Cardinality(S)
         /\ \A a, b \in S : Cardinality(UpTo(S, a)) = Cardinality(UpTo(S, b)) => a = b
         /\ \A i \in 1 .. Cardinality(S) : \E b \in S : Cardinality(UpTo(S, b)) = i
<1> DEFINE rank == [b \in S |-> Cardinality(UpTo(S, b))]
           T == 1 .. Cardinality(S)
<1>1. \A b \in S : b \in Int
  OBVIOUS
<1>2. ASSUME NEW b \in S PROVE Cardinality(UpTo(S, b)) \in 1 .. Cardinality(S)
  <2>1. b \in UpTo(S, b)
    BY <1>1 DEF UpTo
  <2>2. Cardinality(UpTo(S, b)) # 0
    BY <2>1, UpToFinite, FS_EmptySet
  <2> QED BY <2>2, UpToFinite
<1>3. ASSUME NEW a \in S, NEW b \in S, Cardinality(UpTo(S, a)) = Cardinality(UpTo(S, b))
      PROVE  a = b
  <2>1. Cardinality(UpTo(S, a)) \in Nat /\ Cardinality(UpTo(S, b)) \in Nat
    BY UpToFinite
  <2>2. ~(a < b) /\ ~(b < a)
    BY <1>3, <2>1, RanksGrow
  <2> QED BY <1>1, <2>2
<1>4. rank \in [S -> T]
  BY <1>2
<1>5. IsInjective(rank)
  BY <1>3 DEF IsInjective
<1>6. rank \in Injection(S, T)
  BY <1>4, <1>5 DEF Injection
<1>7. IsFiniteSet(T) /\ Cardinality(T) = Cardinality(S)
  BY UpToFinite, FS_Interval
<1> HIDE DEF rank, T
<1>8. rank \in Surjection(S, T)
  BY <1>6, <1>7, FS_Injection
<1>9. \A i \in T : \E b \in S : rank[b] = i
  BY <1>8 DEF Surjection
<1> QED BY <1>2, <1>3, <1>9 DEF rank, T

\* A set of integers that is finite and not empty has a least element.
LEMMA Smallest ==
  ASSUME NEW S \in SUBSET Int, IsFiniteSet(S), S # {}
  PROVE  \E b \in S : \A c \in S : b <= c
<1>1. Cardinality(S) \in Nat /\ Cardinality(S) # 0
  BY UpToFinite, FS_EmptySet
<1>2. PICK b \in S : Cardinality(UpTo(S, b)) = 1
  <2>1. 1 \in 1 .. Cardinality(S)
    BY <1>1
  <2> QED BY <2>1, Ranks
<1>3. ASSUME NEW c \in S PROVE b <= c
  <2>1. Cardinality(UpTo(S, c)) \in 1 .. Cardinality(S)
    BY Ranks
  <2>2. ~(Cardinality(UpTo(S, c)) < 1)
    BY <1>1, <2>1
  <2>3. ~(c < b)
    BY <1>2, <2>2, RanksGrow
  <2> QED BY <2>3
<1> QED BY <1>2, <1>3

\* The n lowest free mbufs, when there are as many.
LEMMA LowestAreFree ==
  ASSUME NEW n \in Nat, n <= Cardinality(Free)
  PROVE  LowestFree(n) \in SUBSET Free /\ Cardinality(LowestFree(n)) = n
<1> DEFINE T == {b \in Free : Cardinality(UpTo(Free, b)) <= n}
           rank == [b \in T |-> Cardinality(UpTo(Free, b))]
<1>1. Free \in SUBSET Bufs
  BY DEF Free
<1>2. T \in SUBSET Free /\ T \in SUBSET Bufs /\ \A b \in Free : b \in Int
  <2>1. \A b \in Bufs : b \in Int
    BY SharingAssumption DEF Bufs
  <2> QED BY <1>1, <2>1
<1>3. \A b \in Free : Cardinality(UpTo(Free, b)) \in 1 .. Cardinality(Free)
  BY <1>1, BufsFinite, Ranks
<1>4. Cardinality(T) = n
  <2>1. rank \in [T -> 1 .. n]
    BY <1>1, <1>3, BufsFinite, UpToFinite
  <2>2. IsInjective(rank)
    BY <1>1, BufsFinite, Ranks DEF IsInjective
  <2>3. \A i \in 1 .. n : \E b \in T : rank[b] = i
    <3> SUFFICES ASSUME NEW i \in 1 .. n PROVE \E b \in T : rank[b] = i
      OBVIOUS
    <3>1. i \in 1 .. Cardinality(Free)
      BY <1>1, BufsFinite, UpToFinite
    <3>2. PICK b \in Free : Cardinality(UpTo(Free, b)) = i
      BY <1>1, <3>1, BufsFinite, Ranks
    <3> QED BY <3>2
  <2>4. rank \in Injection(T, 1 .. n) /\ rank \in Surjection(T, 1 .. n)
    BY <2>1, <2>2, <2>3 DEF Injection, Surjection
  <2>5. IsFiniteSet(1 .. n) /\ Cardinality(1 .. n) = n
    BY FS_Interval
  <2> HIDE DEF T, rank
  <2> QED BY <2>4, <2>5, FS_Injection
<1>5. ASSUME NEW b \in T, NEW f \in Free \ T PROVE b < f
  <2>1. /\ Cardinality(UpTo(Free, b)) \in Nat /\ Cardinality(UpTo(Free, f)) \in Nat
        /\ Cardinality(UpTo(Free, b)) < Cardinality(UpTo(Free, f))
    BY <1>1, BufsFinite, UpToFinite
  <2>2. b # f /\ ~(f < b)
    BY <1>1, <2>1, BufsFinite, RanksGrow
  <2> QED BY <1>2, <2>2
<1> HIDE DEF T
<1>6. \E S \in SUBSET Free : Cardinality(S) = n /\ \A b \in S, f \in Free \ S : b < f
  BY <1>2, <1>4, <1>5
<1> QED BY <1>6 DEF LowestFree

\* Nth enumerates S: within it, no element twice, and none left out.
LEMMA NthAreDistinct ==
  ASSUME NEW S \in SUBSET Bufs
  PROVE  /\ \A i \in 1 .. Cardinality(S) : Nth(S, i) \in S
         /\ \A i, j \in 1 .. Cardinality(S) : Nth(S, i) = Nth(S, j) => i = j
         /\ \A b \in S : \E i \in 1 .. Cardinality(S) : Nth(S, i) = b
<1>1. \A i \in 1 .. Cardinality(S) : Nth(S, i) \in S /\ Cardinality(UpTo(S, Nth(S, i))) = i
  <2> SUFFICES ASSUME NEW i \in 1 .. Cardinality(S)
               PROVE  Nth(S, i) \in S /\ Cardinality(UpTo(S, Nth(S, i))) = i
    OBVIOUS
  <2>1. \E b \in S : Cardinality(UpTo(S, b)) = i
    BY BufsFinite, Ranks
  <2>2. Nth(S, i) = CHOOSE b \in S : Cardinality(UpTo(S, b)) = i
    BY DEF Nth, UpTo
  <2> QED BY <2>1, <2>2
<1>2. ASSUME NEW b \in S PROVE \E i \in 1 .. Cardinality(S) : Nth(S, i) = b
  <2>1. PICK i \in 1 .. Cardinality(S) : i = Cardinality(UpTo(S, b))
    BY BufsFinite, Ranks
  <2>2. Nth(S, i) \in S /\ Cardinality(UpTo(S, Nth(S, i))) = Cardinality(UpTo(S, b))
    BY <1>1, <2>1
  <2>3. Nth(S, i) = b
    BY <2>2, BufsFinite, Ranks
  <2> QED BY <2>3
<1> QED BY <1>1, <1>2

\* The one mbuf that is taken is free.
LEMMA NewMbuf ==
  ASSUME Free # {}
  PROVE  LowestFree(1) = {Nth(LowestFree(1), 1)} /\ Nth(LowestFree(1), 1) \in Free
<1> DEFINE S == LowestFree(1)
<1>1. Free \in SUBSET Bufs
  BY DEF Free
<1>2. IsFiniteSet(Free) /\ Cardinality(Free) \in Nat /\ Cardinality(Free) # 0
  BY <1>1, BufsFinite, FS_EmptySet, FS_CardinalityType
<1>3. S \in SUBSET Free /\ Cardinality(S) = 1
  BY <1>2, LowestAreFree
<1> HIDE DEF S
<1>4. S \in SUBSET Bufs /\ IsFiniteSet(S)
  BY <1>1, <1>3, BufsFinite
<1>5. Nth(S, 1) \in S
  <2>1. 1 \in 1 .. Cardinality(S)
    BY <1>3
  <2> QED BY <1>4, <2>1, NthAreDistinct
<1>6. \E x : S = {x}
  BY <1>3, <1>4, FS_Singleton
<1> QED BY <1>3, <1>5, <1>6 DEF S

-----------------------------------------------------------------------------
(* The rows of the cache                                                   *)

\* A row counts at most NumDus packets; when it counts as many, it is full.
LEMMA PresentFinite ==
  ASSUME NEW row
  PROVE  /\ IsFiniteSet(Present(row))
         /\ Cardinality(Present(row)) \in 0 .. NumDus
         /\ Cardinality(Present(row)) = NumDus => Present(row) = Dus
<1>1. NumDus \in Nat \ {0}
  BY SharingAssumption
<1>2. IsFiniteSet(Dus) /\ Cardinality(Dus) = NumDus
  BY <1>1, FS_Interval DEF Dus
<1>3. Present(row) \in SUBSET Dus
  BY DEF Present
<1>4. /\ IsFiniteSet(Present(row)) /\ Cardinality(Present(row)) \in Nat
      /\ Cardinality(Present(row)) <= NumDus
      /\ Cardinality(Present(row)) = NumDus => Present(row) = Dus
  BY <1>2, <1>3, FS_Subset, FS_CardinalityType
<1> QED BY <1>1, <1>4

\* The fields of a packet.
LEMMA PacketParts ==
  ASSUME NEW p \in Packet
  PROVE  /\ p.du \in Dus /\ p.port \in Ports /\ p.symbol \in Symbols /\ p.asks \in SUBSET Symbols
         /\ p.kind \in DuKinds \cup RuKinds \cup StrayKinds /\ KeyOf(p) \in Keys /\ p # NULL
         /\ p.frame \in RadioFrames
BY NullAssumption DEF Packet, KeyOf, TypeOf, Keys, EcpriTypes

\* What the arrival of a DU's packet makes of its row.
LEMMA RowAndCount ==
  ASSUME TypeOK, CountInv, NEW p \in Packet, NEW b \in Bufs
  PROVE  LET old == cached_du_packets[KeyOf(p)]
             new == RowWith(p, b)
         IN  /\ old \in [Dus -> Bufs \cup {NULL}] /\ new \in [Dus -> Bufs \cup {NULL}]
             /\ new[p.du] = b
             /\ \A d \in Dus \ {p.du} : new[d] = IF Outdated(p) THEN NULL ELSE old[d]
             /\ CountWith(p) = Cardinality(Present(new)) /\ CountWith(p) \in 1 .. NumDus
             /\ CountWith(p) = NumDus => \A d \in Dus : new[d] \in Bufs
             /\ InRow(new) = (InRow(old) \ Evicted(p)) \cup {b}
<1> DEFINE old == cached_du_packets[KeyOf(p)]
           new == RowWith(p, b)
<1>1. p.du \in Dus /\ KeyOf(p) \in Keys /\ b # NULL
  BY PacketParts, NullAssumption
<1>2. old \in [Dus -> Bufs \cup {NULL}]
  BY <1>1 DEF TypeOK
<1>3. new \in [Dus -> Bufs \cup {NULL}] /\ new[p.du] = b
      /\ \A d \in Dus \ {p.du} : new[d] = IF Outdated(p) THEN NULL ELSE old[d]
  BY <1>1, <1>2 DEF RowWith, EmptyRow
<1>4. CountWith(p) = Cardinality(Present(new))
  <2>1. CASE Outdated(p)
    <3>1. Present(new) = {p.du}
      BY <1>1, <1>3, <2>1 DEF Present
    <3>2. Cardinality(Present(new)) = 1
      BY <3>1, FS_Singleton
    <3>3. CountWith(p) = 1
      BY <2>1 DEF CountWith
    <3> QED BY <3>2, <3>3
  <2>2. CASE ~Outdated(p)
    <3>1. Present(new) = Present(old) \cup {p.du} /\ p.du \notin Present(old)
      BY <1>1, <1>3, <2>2 DEF Present, Outdated
    <3>2. Cardinality(Present(new)) = Cardinality(Present(old)) + 1
      BY <3>1, PresentFinite, FS_AddElement
    <3>3. cached_du_packets_num[KeyOf(p)] = Cardinality(Present(old))
      BY <1>1 DEF CountInv
    <3>4. PICK n \in Nat : n = Cardinality(Present(old))
      BY PresentFinite
    <3>5. CountWith(p) = 1 + n
      BY <2>2, <3>3, <3>4 DEF CountWith
    <3>6. 1 + n = n + 1
      OBVIOUS
    <3> QED BY <3>2, <3>4, <3>5, <3>6
  <2> QED BY <2>1, <2>2
<1>5. CountWith(p) \in 1 .. NumDus
  <2>1. p.du \in Present(new)
    BY <1>1, <1>3 DEF Present
  <2>2. Cardinality(Present(new)) # 0
    BY <2>1, PresentFinite, FS_EmptySet
  <2> QED BY <1>4, <2>2, PresentFinite
<1>6. CountWith(p) = NumDus => \A d \in Dus : new[d] \in Bufs
  <2>1. CountWith(p) = NumDus => Present(new) = Dus
    BY <1>4, PresentFinite
  <2> HIDE DEF new
  <2> QED BY <1>3, <2>1 DEF Present
<1>7. InRow(new) = (InRow(old) \ Evicted(p)) \cup {b}
  <2>1. CASE Outdated(p)
    BY <1>1, <1>3, <2>1 DEF InRow, Evicted
  <2>2. CASE ~Outdated(p)
    BY <1>1, <1>3, <2>2 DEF InRow, Evicted, Outdated
  <2> QED BY <2>1, <2>2
<1> QED BY <1>2, <1>3, <1>4, <1>5, <1>6, <1>7

\* A row of the cache is replaced by one that holds nothing of the others.
LEMMA RowReplaced ==
  ASSUME TypeOK, RowsInv, NEW k \in Keys, NEW row \in [Dus -> Bufs \cup {NULL}], NEW n,
         cached_du_packets' = [cached_du_packets EXCEPT ![k] = row],
         \A d, e \in Dus : row[d] # NULL /\ row[d] = row[e] => d = e,
         \A c \in InRow(row) : c \in InRow(cached_du_packets[k]) \/ ~Cached(c)
  PROVE  /\ RowsInv'
         /\ \A c : Cached(c)' <=> c \in InRow(row) \/ (Cached(c) /\ c \notin InRow(cached_du_packets[k]))
<1>1. /\ cached_du_packets'[k] = row
      /\ \A l \in Keys \ {k} : cached_du_packets'[l] = cached_du_packets[l]
  BY DEF TypeOK
<1>2. \A c : \A l \in Keys : c \in InRow(cached_du_packets[l]) => Cached(c)
  BY DEF Cached
<1>3. ASSUME NEW l \in Keys \ {k}, NEW d \in Dus, NEW e \in Dus, row[d] # NULL
      PROVE  row[d] # cached_du_packets[l][e]
  <2>1. row[d] \in InRow(row)
    BY <1>3 DEF InRow
  <2>2. CASE row[d] \in InRow(cached_du_packets[k])
    BY <1>3, <2>2 DEF InRow, RowsInv
  <2>3. CASE ~Cached(row[d])
    BY <1>3, <2>3 DEF Cached, InRow
  <2> QED BY <2>1, <2>2, <2>3
<1>4. RowsInv'
  <2> SUFFICES ASSUME NEW l \in Keys, NEW m \in Keys, NEW d \in Dus, NEW e \in Dus,
                      cached_du_packets'[l][d] # NULL,
                      cached_du_packets'[l][d] = cached_du_packets'[m][e]
               PROVE  l = m /\ d = e
    BY DEF RowsInv
  <2>1. CASE l = k /\ m = k
    BY <1>1, <2>1
  <2>2. CASE l # k /\ m # k
    BY <1>1, <2>2 DEF RowsInv
  <2>3. CASE l = k /\ m # k
    BY <1>1, <1>3, <2>3
  <2>4. CASE l # k /\ m = k
    BY <1>1, <1>3, <2>4
  <2> QED BY <2>1, <2>2, <2>3, <2>4
<1>5. \A l \in Keys \ {k} : InRow(cached_du_packets'[l]) = InRow(cached_du_packets[l])
  BY <1>1
<1>6. \A c : \A l \in Keys \ {k} : c \in InRow(cached_du_packets[l]) => c \notin InRow(cached_du_packets[k])
  BY DEF InRow, RowsInv
<1>7. ASSUME NEW c
      PROVE  Cached(c)' <=> c \in InRow(row) \/ (Cached(c) /\ c \notin InRow(cached_du_packets[k]))
  <2>1. Cached(c)' <=> c \in InRow(row) \/ \E l \in Keys \ {k} : c \in InRow(cached_du_packets[l])
    BY <1>1, <1>5 DEF Cached
  <2> QED BY <1>6, <2>1 DEF Cached
<1> QED BY <1>4, <1>7

-----------------------------------------------------------------------------
(* The parts of a handler                                                  *)

\* The next mbuf of the burst is nowhere else, and leaves it.
LEMMA HeadOfBurst ==
  ASSUME TypeOK, OwnInv, mx_bufs # <<>>, mx_bufs' = Tail(mx_bufs), rxq' = rxq
  PROVE  /\ Head(mx_bufs) \in Bufs /\ Received(Head(mx_bufs))
         /\ ~Cached(Head(mx_bufs)) /\ ~ToBeSent(Head(mx_bufs))
         /\ stray = 0 => pool[Head(mx_bufs)] = 0
         /\ \A c \in Bufs : Received(c)' <=> Received(c) /\ c # Head(mx_bufs)
         /\ Once(rxq)' /\ Once(mx_bufs)' /\ \A c \in Bufs : ~(In(c, rxq)' /\ In(c, mx_bufs)')
         /\ rxq' \in Seq(Bufs) /\ mx_bufs' \in Seq(Bufs)
<1> DEFINE b == Head(mx_bufs)
<1>1. mx_bufs \in Seq(Bufs) /\ rxq \in Seq(Bufs) /\ pool \in [Bufs -> Nat]
  BY DEF TypeOK
<1>2. Once(mx_bufs) /\ Once(rxq) /\ \A c \in Bufs : ~(In(c, rxq) /\ In(c, mx_bufs))
  BY DEF OwnInv, QueuesInv
<1>3. /\ b \in Bufs /\ In(b, mx_bufs) /\ Once(Tail(mx_bufs))
      /\ \A c : In(c, Tail(mx_bufs)) <=> In(c, mx_bufs) /\ c # b
  BY <1>1, <1>2, HeadTaken
<1>4. \A c : (In(c, rxq)' <=> In(c, rxq)) /\ (In(c, mx_bufs)' <=> In(c, Tail(mx_bufs)))
  BY DEF In
<1>5. Once(rxq)' /\ Once(mx_bufs)'
  BY <1>2, <1>3 DEF Once
<1>6. mx_bufs' \in Seq(Bufs)
  BY <1>1
<1> HIDE DEF b
<1>7. Received(b) /\ ~In(b, rxq)
  BY <1>2, <1>3 DEF Received
<1>8. ~Cached(b) /\ ~ToBeSent(b) /\ (stray = 0 => pool[b] = 0)
  <2>1. ~Cached(b) /\ ~ToBeSent(b) /\ (stray = 0 => ~(pool[b] > 0))
    BY <1>3, <1>7 DEF OwnInv, PlacesInv
  <2> QED BY <1>1, <1>3, <2>1
<1>9. \A c \in Bufs : Received(c)' <=> Received(c) /\ c # b
  BY <1>3, <1>4, <1>7 DEF Received
<1>10. \A c \in Bufs : ~(In(c, rxq)' /\ In(c, mx_bufs)')
  BY <1>2, <1>3, <1>4
<1> QED BY <1>1, <1>3, <1>5, <1>6, <1>7, <1>8, <1>9, <1>10 DEF b

\* The free list after the mbufs of S are freed and those of N are taken.
FreedAndFilled(S, N) ==
  pool' = [c \in Bufs |-> pool[c] + (IF c \in S THEN 1 ELSE 0) - (IF c \in N THEN 1 ELSE 0)]

\* One packet, in mbuf b, is handled: mbufs of its row or itself are freed (S),
\* free ones are filled (N); what is not freed is in the cache (X) or to be
\* sent (Y).
LEMMA PlacesAfterHandling ==
  ASSUME TypeOK, OwnInv, stray = 0, stray' = 0, scenario' = scenario, alive' => alive,
         NEW b \in Bufs, Received(b),
         NEW S \in SUBSET Bufs, NEW N \in SUBSET Free, NEW X \in SUBSET Bufs, NEW Y \in SUBSET Bufs,
         \A c \in S : Cached(c) \/ c = b,
         X \cap Y = {}, X \cup Y = N \cup ({b} \ S),
         \A c \in Bufs : Received(c)' <=> Received(c) /\ c # b,
         \A c \in Bufs : Cached(c)' <=> (Cached(c) /\ c \notin S) \/ c \in X,
         \A c \in Bufs : ToBeSent(c)' <=> ToBeSent(c) \/ c \in Y,
         FreedAndFilled(S, N)
  PROVE  pool' \in [Bufs -> Nat] /\ PlacesInv' /\ NoneLost'
<1>1. pool \in [Bufs -> Nat] /\ \A c \in Bufs : c \in N => pool[c] > 0
  BY DEF TypeOK, Free
<1>2. ASSUME NEW c \in Bufs
      PROVE  /\ pool[c] \in {0, 1}
             /\ ~(Received(c) /\ Cached(c)) /\ ~(Received(c) /\ ToBeSent(c))
             /\ ~(Cached(c) /\ ToBeSent(c))
             /\ pool[c] = 1 => ~Cached(c) /\ ~ToBeSent(c) /\ ~Received(c)
  BY <1>1 DEF OwnInv, PlacesInv
<1>3. ASSUME NEW c \in Bufs
      PROVE  /\ pool'[c] \in {0, 1}
             /\ ~(Received(c)' /\ Cached(c)') /\ ~(Received(c)' /\ ToBeSent(c)')
             /\ ~(Cached(c)' /\ ToBeSent(c)')
             /\ pool'[c] = 1 => ~Cached(c)' /\ ~ToBeSent(c)' /\ ~Received(c)'
             /\ pool[c] = 1 \/ Received(c) \/ Cached(c) \/ ToBeSent(c)
                  => pool'[c] = 1 \/ Received(c)' \/ Cached(c)' \/ ToBeSent(c)'
  <2>1. pool'[c] = pool[c] + (IF c \in S THEN 1 ELSE 0) - (IF c \in N THEN 1 ELSE 0)
    BY DEF FreedAndFilled
  <2>2. CASE c \in N
    <3>1. pool[c] = 1 /\ c # b /\ c \notin S
      BY <1>1, <1>2, <2>2
    <3> QED BY <1>2, <2>1, <2>2, <3>1
  <2>3. CASE c \notin N /\ c \in S
    <3>1. pool[c] = 0 /\ c \notin X /\ c \notin Y /\ (c = b => ~Cached(c))
      BY <1>2, <2>3
    <3>2. pool'[c] = 1
      BY <2>1, <2>3, <3>1
    <3>3. ~Received(c)' /\ ~Cached(c)' /\ ~ToBeSent(c)'
      BY <1>2, <2>3, <3>1
    <3> QED BY <3>2, <3>3
  <2>4. CASE c \notin N /\ c \notin S /\ c = b
    <3>1. pool'[c] = 0
      BY <1>2, <2>1, <2>4
    <3> QED BY <1>2, <2>4, <3>1
  <2>5. CASE c \notin N /\ c \notin S /\ c # b
    <3>1. pool'[c] = pool[c] /\ c \notin X /\ c \notin Y
      BY <1>1, <2>1, <2>5
    <3> QED BY <1>2, <2>5, <3>1
  <2> QED BY <2>2, <2>3, <2>4, <2>5
<1>4. pool' \in [Bufs -> Nat]
  <2>1. \A c \in Bufs : pool'[c] \in Nat
    BY <1>3
  <2> QED BY <2>1 DEF FreedAndFilled
<1>5. PlacesInv'
  <2>1. \A c \in Bufs : pool'[c] > 0 => pool'[c] = 1
    BY <1>3
  <2>2. \A c \in Bufs : pool'[c] <= 1
    BY <1>3
  <2> QED BY <1>3, <2>1, <2>2 DEF PlacesInv
<1>6. NoneLost'
  <2> SUFFICES ASSUME alive', NEW c \in PoolBufs
               PROVE  pool'[c] > 0 \/ Received(c)' \/ Cached(c)' \/ ToBeSent(c)'
    BY DEF NoneLost, PoolBufs
  <2>1. c \in Bufs
    BY SharingAssumption DEF TypeOK, IsScenario, PoolBufs, Bufs
  <2>2. pool[c] > 0 \/ Received(c) \/ Cached(c) \/ ToBeSent(c)
    BY DEF OwnInv, NoneLost
  <2>3. pool[c] = 1 \/ Received(c) \/ Cached(c) \/ ToBeSent(c)
    BY <1>2, <2>1, <2>2
  <2>4. pool'[c] = 1 \/ Received(c)' \/ Cached(c)' \/ ToBeSent(c)'
    BY <1>3, <2>1, <2>3
  <2> QED BY <2>4
<1> QED BY <1>4, <1>5, <1>6

\* The inductive invariant.
Inv == TypeOK /\ CountInv /\ OwnInv /\ ContentInv /\ EnvInv /\ StrayInv

\* A row with one packet.
LEMMA OnePacket ==
  ASSUME NEW b, NEW p \in Packet, IsOne(content[b], p)
  PROVE  PacketIn(b) = p /\ content[b] \in Rows
<1>1. PICK d \in Dus : content[b] = [EmptyRow EXCEPT ![d] = p]
  BY DEF IsOne
<1>2. p # NULL
  BY PacketParts
<1>3. content[b][d] = p /\ \A e \in Dus : content[b][e] # NULL <=> e = d
  BY <1>1, <1>2 DEF EmptyRow
<1> QED BY <1>1, <1>2, <1>3 DEF PacketIn, EmptyRow, Rows

\* The section of a PRACH answer that is given to DU d.
LEMMA PrachPackets ==
  ASSUME NEW p \in Packet, NEW d \in Dus
  PROVE  [p EXCEPT !.du = d] \in Packet /\ [p EXCEPT !.du = d].du = d
         /\ [p EXCEPT !.du = d].kind = p.kind
BY DEF Packet

\* What an answer of the RU holds: if it has a section for each DU, as in a Debug
\* build, each DU's, and the first DU's in any case.
LEMMA AnswerRows ==
  ASSUME NEW p \in Packet
  PROVE  /\ \A d \in Dus : \/ AnswerRow(p)[d] = NULL
                         \/ /\ AnswerRow(p)[d] \in Packet /\ AnswerRow(p)[d] # NULL
                            /\ AnswerRow(p)[d].kind = p.kind /\ AnswerRow(p)[d].du = d
         /\ AnswerRow(p) \in Rows /\ 0 \in Dus
         /\ p.kind = "prach_data" =>
              AnswerRow(p)[0] # NULL /\ (scenario.asserts => \A d \in Dus : AnswerRow(p)[d] # NULL)
         /\ p.kind # "prach_data" => AnswerRow(p) = RowOf(p)
<1>1. 0 \in Dus
  BY SharingAssumption DEF Dus
<1>2. p.du \in Dus
  BY PacketParts
<1>3. ASSUME NEW d \in Dus
      PROVE  /\ \/ AnswerRow(p)[d] = NULL
                \/ /\ AnswerRow(p)[d] \in Packet /\ AnswerRow(p)[d] # NULL
                   /\ AnswerRow(p)[d].kind = p.kind /\ AnswerRow(p)[d].du = d
             /\ p.kind = "prach_data" /\ InRequest(d) => AnswerRow(p)[d] # NULL
  <2>1. AnswerRow(p)[d] = IF p.kind = "prach_data" /\ InRequest(d) THEN [p EXCEPT !.du = d]
                          ELSE IF d = p.du THEN p ELSE NULL
    BY DEF AnswerRow
  <2>2. p # NULL /\ [p EXCEPT !.du = d] # NULL
    BY PrachPackets, NullAssumption
  <2> QED BY <2>1, <2>2, PrachPackets
<1>4. AnswerRow(p) \in Rows
  <2>1. AnswerRow(p) = [d \in Dus |-> AnswerRow(p)[d]]
    BY DEF AnswerRow
  <2> QED BY <1>3, <2>1 DEF Rows
<1>5. p.kind # "prach_data" => AnswerRow(p) = RowOf(p)
  BY <1>2 DEF AnswerRow, RowOf, EmptyRow
<1>6. InRequest(0) /\ (scenario.asserts => \A d \in Dus : InRequest(d))
  BY DEF InRequest
<1> QED BY <1>1, <1>3, <1>4, <1>5, <1>6

\* Without a change of the build, those stay what they are.
LEMMA SameBuild ==
  ASSUME scenario' = scenario
  PROVE  /\ \A p : AnswerRow(p)' = AnswerRow(p)
         /\ \A p, d : IsTheirs(p, d)' <=> IsTheirs(p, d)
<1>1. ASSUME NEW p PROVE AnswerRow(p)' = AnswerRow(p)
  <2>1. \A d : InRequest(d)' <=> InRequest(d)
    BY DEF InRequest
  <2> QED BY <2>1 DEF AnswerRow, Dus
<1>2. \A p, d : IsTheirs(p, d)' <=> IsTheirs(p, d)
  BY DEF IsTheirs
<1> QED BY <1>1, <1>2

\* The packet that is handled.
LEMMA HandledPacket ==
  ASSUME Inv, NEW b \in Bufs, Received(b)
  PROVE  /\ PacketIn(b) \in Packet
         /\ PacketIn(b).kind # "prach_data" => content[b] = RowOf(PacketIn(b)) /\ IsNew(PacketIn(b))
         /\ PacketIn(b).kind = "prach_data" =>
              \E p \in Packet : p.kind = "prach_data" /\ content[b] = AnswerRow(p)
         /\ PacketIn(b).kind \in StrayKinds <=> stray > 0
<1>1. PICK p \in Packet : Holds(b, p) /\ IsNew(p) /\ (p.kind \in StrayKinds <=> stray > 0)
  BY DEF Inv, ContentInv, ReceivedInv
<1>2. CASE p.kind # "prach_data"
  <2>1. content[b] = RowOf(p) /\ p.du \in Dus
    BY <1>1, <1>2, PacketParts DEF Holds
  <2>2. IsOne(content[b], p)
    BY <2>1 DEF IsOne, RowOf
  <2>3. PacketIn(b) = p
    BY <2>2, OnePacket
  <2> QED BY <1>1, <1>2, <2>1, <2>3
<1>3. CASE p.kind = "prach_data"
  <2>1. content[b] = AnswerRow(p)
    BY <1>1, <1>3 DEF Holds
  <2>2. 0 \in Dus /\ content[b][0] # NULL
    BY <1>3, <2>1, AnswerRows
  <2>3. \A d \in Dus : content[b][d] # NULL =>
          content[b][d] \in Packet /\ content[b][d].kind = "prach_data"
    BY <1>3, <2>1, AnswerRows
  <2>4. PacketIn(b) \in Packet /\ PacketIn(b).kind = "prach_data"
    BY <2>2, <2>3 DEF PacketIn
  <2> QED BY <1>1, <1>3, <2>1, <2>4 DEF StrayKinds
<1> QED BY <1>2, <1>3

\* What a DU gets of PRACH data: its section, or nothing but the header.
LEMMA SectionOf ==
  ASSUME Inv, NEW b \in Bufs, Received(b), PacketIn(b).kind = "prach_data", NEW d \in Dus
  PROVE  /\ SectionFor(b, d) \in Packet /\ SectionFor(b, d) # NULL
         /\ IsTheirs(SectionFor(b, d), d)
         /\ SectionFor(b, d).kind \in {"prach_data", "prach_header"}
<1>1. PICK q \in Packet : q.kind = "prach_data" /\ content[b] = AnswerRow(q)
  BY HandledPacket
<1>2. PacketIn(b) \in Packet
  BY HandledPacket
<1>3. CASE NULL \in {content[b][e] : e \in Dus}
  <2>1. ~scenario.asserts
    BY <1>1, <1>3, AnswerRows
  <2>2. SectionFor(b, d) = [PacketIn(b) EXCEPT !.kind = "prach_header"]
    BY <1>3 DEF SectionFor
  <2>3. SectionFor(b, d) \in Packet /\ SectionFor(b, d).kind = "prach_header"
    BY <1>2, <2>2 DEF Packet, RuKinds
  <2> QED BY <2>1, <2>3, NullAssumption DEF IsTheirs
<1>4. CASE NULL \notin {content[b][e] : e \in Dus}
  <2>1. SectionFor(b, d) = content[b][d] /\ content[b][d] # NULL
    BY <1>4 DEF SectionFor
  <2> QED BY <1>1, <2>1, AnswerRows DEF IsTheirs
<1> QED BY <1>3, <1>4

\* What is not freed or filled keeps what it holds.
LEMMA ReceivedAfter ==
  ASSUME OwnInv, ReceivedInv, stray = 0, NEW b \in Bufs,
         NEW S \in SUBSET Bufs, NEW N \in SUBSET Free, \A c \in S : Cached(c) \/ c = b,
         \A c \in Bufs : Received(c)' <=> Received(c) /\ c # b,
         \A c \in Bufs \ (S \cup N) : content'[c] = content[c],
         UNCHANGED envVars
  PROVE  ReceivedInv' /\ \A c \in Bufs : Received(c)' => content'[c] = content[c]
<1>1. ASSUME NEW c \in Bufs, Received(c), c # b PROVE content'[c] = content[c]
  <2>1. ~Cached(c) /\ ~(pool[c] > 0)
    BY <1>1 DEF OwnInv, PlacesInv
  <2> QED BY <1>1, <2>1 DEF Free
<1>2. \A p : IsNew(p)' <=> IsNew(p)
  BY DEF IsNew, Arrived, DuPackets, envVars
<1>3. ReceivedInv'
  <2> SUFFICES ASSUME NEW c \in Bufs, Received(c)'
               PROVE  \E p \in Packet : Holds(c, p)' /\ IsNew(p)' /\ (p.kind \in StrayKinds <=> stray' > 0)
    BY DEF ReceivedInv
  <2>1. PICK p \in Packet : Holds(c, p) /\ IsNew(p) /\ (p.kind \in StrayKinds <=> stray > 0)
    BY DEF ReceivedInv
  <2>2. Holds(c, p)'
    BY <1>1, <2>1, SameBuild DEF Holds, RowOf, EmptyRow, envVars
  <2> QED BY <1>2, <2>1, <2>2 DEF envVars
<1> QED BY <1>1, <1>3

\* What is to be sent after a handler: what was, unchanged, and the entries E.
LEMMA TxAfter ==
  ASSUME OwnInv, TxInv, stray = 0, NEW b \in Bufs, Received(b),
         NEW S \in SUBSET Bufs, NEW N \in SUBSET Free, \A c \in S : Cached(c) \/ c = b,
         \A c \in Bufs \ (S \cup N) : content'[c] = content[c],
         UNCHANGED envVars,
         NEW E \in SUBSET Entry,
         \A e \in Entry : In(e, mx_tx_bufs)' <=> In(e, mx_tx_bufs) \/ e \in E,
         \A e \in E : IF e.to = RU THEN SectionsOfAll(content'[e.buf])
                      ELSE \E p \in Packet : IsOne(content'[e.buf], p)
                                             /\ IsTheirs(p, e.to)
  PROVE  TxInv' /\ \A e \in Entry : In(e, mx_tx_bufs) => content'[e.buf] = content[e.buf]
<1>1. ASSUME NEW e \in Entry, In(e, mx_tx_bufs) PROVE content'[e.buf] = content[e.buf]
  <2>1. e.buf \in Bufs /\ ToBeSent(e.buf)
    BY <1>1 DEF Entry, ToBeSent
  <2>2. ~Cached(e.buf) /\ ~Received(e.buf) /\ ~(pool[e.buf] > 0)
    BY <2>1 DEF OwnInv, PlacesInv
  <2> QED BY <2>1, <2>2 DEF Free
<1>2. scenario' = scenario
  BY DEF envVars
<1>3. \A row : SectionsOfAll(row)' <=> SectionsOfAll(row)
  BY <1>2 DEF SectionsOfAll
<1>4. TxInv'
  <2> SUFFICES ASSUME NEW e \in Entry, In(e, mx_tx_bufs)'
               PROVE  IF e.to = RU THEN SectionsOfAll(content[e.buf])'
                      ELSE \E p \in Packet : IsOne(content'[e.buf], p)
                                             /\ IsTheirs(p, e.to)
    BY <1>2, SameBuild DEF TxInv, IsOne
  <2>1. SectionsOfAll(content[e.buf])' <=> SectionsOfAll(content'[e.buf])
    BY <1>2 DEF SectionsOfAll
  <2>2. CASE In(e, mx_tx_bufs)
    BY <1>1, <2>1, <2>2 DEF TxInv
  <2>3. CASE e \in E
    BY <2>1, <2>3
  <2> QED BY <2>2, <2>3
<1> QED BY <1>1, <1>4

\* The cache keeps what is promised of it when a row keeps its packets, or gets
\* a packet of the DU whose place it takes.
LEMMA CachedAfter ==
  ASSUME CachedInv,
         \A l \in Keys, d \in Dus : cached_du_packets'[l][d] # NULL =>
           \/ /\ cached_du_packets'[l][d] = cached_du_packets[l][d]
              /\ content'[cached_du_packets'[l][d]] = content[cached_du_packets[l][d]]
           \/ \E p \in Packet : p.kind \in DuKinds /\ p.du = d
                                /\ content'[cached_du_packets'[l][d]] = RowOf(p)
  PROVE  CachedInv'
<1> SUFFICES ASSUME NEW k \in Keys, NEW d \in Dus, cached_du_packets'[k][d] # NULL
             PROVE  \E p \in Packet : p.kind \in DuKinds /\ p.du = d
                                      /\ content'[cached_du_packets'[k][d]] = RowOf(p)
  BY DEF CachedInv, RowOf, EmptyRow
<1>1. CASE /\ cached_du_packets'[k][d] = cached_du_packets[k][d]
           /\ content'[cached_du_packets'[k][d]] = content[cached_du_packets[k][d]]
  BY <1>1 DEF CachedInv
<1> QED BY <1>1

\* The row when the packet in mbuf b waits in it.
LEMMA RowKept ==
  ASSUME TypeOK, CountInv, RowsInv, NEW p \in Packet, NEW b \in Bufs, ~Cached(b),
         StoreRow(p, RowWith(p, b), CountWith(p)), CountWith(p) # NumDus
  PROVE  /\ cached_du_packets' \in [Keys -> [Dus -> Bufs \cup {NULL}]]
         /\ cached_du_packets_num' \in [Keys -> 0 .. NumDus - 1]
         /\ CountInv' /\ RowsInv'
         /\ \A c : Cached(c)' <=> (Cached(c) /\ c \notin Evicted(p)) \/ c = b
         /\ \A l \in Keys, d \in Dus : cached_du_packets'[l][d] # NULL =>
              \/ /\ cached_du_packets'[l][d] = cached_du_packets[l][d]
                 /\ cached_du_packets[l][d] \notin Evicted(p)
              \/ cached_du_packets'[l][d] = b /\ d = p.du
<1> DEFINE k == KeyOf(p)
           old == cached_du_packets[k]
           new == RowWith(p, b)
<1>1. k \in Keys /\ p.du \in Dus /\ b # NULL
  BY PacketParts, NullAssumption
<1>2. /\ old \in [Dus -> Bufs \cup {NULL}] /\ new \in [Dus -> Bufs \cup {NULL}]
      /\ new[p.du] = b
      /\ \A d \in Dus \ {p.du} : new[d] = IF Outdated(p) THEN NULL ELSE old[d]
      /\ CountWith(p) = Cardinality(Present(new)) /\ CountWith(p) \in 1 .. NumDus
      /\ InRow(new) = (InRow(old) \ Evicted(p)) \cup {b}
  BY RowAndCount
<1>3. /\ cached_du_packets' = [cached_du_packets EXCEPT ![k] = new]
      /\ cached_du_packets_num' = [cached_du_packets_num EXCEPT ![k] = CountWith(p)]
  BY DEF StoreRow
<1>4. Evicted(p) \subseteq InRow(old) /\ \A c \in InRow(old) : Cached(c)
  BY <1>1 DEF Evicted, Cached
<1>5. \A d \in Dus : old[d] # NULL => old[d] # b
  BY <1>1 DEF Cached, InRow
<1> HIDE DEF k, old, new
<1>6. \A d, e \in Dus : new[d] # NULL /\ new[d] = new[e] => d = e
  <2> SUFFICES ASSUME NEW d \in Dus, NEW e \in Dus, new[d] # NULL, new[d] = new[e] PROVE d = e
    OBVIOUS
  <2>1. CASE d # p.du /\ e # p.du
    BY <1>1, <1>2, <2>1 DEF RowsInv, old, k
  <2>2. CASE d = p.du \/ e = p.du
    BY <1>1, <1>2, <1>5, <2>2
  <2> QED BY <2>1, <2>2
<1>7. \A c \in InRow(new) : c \in InRow(old) \/ ~Cached(c)
  BY <1>2
<1>8. RowsInv' /\ \A c : Cached(c)' <=> c \in InRow(new) \/ (Cached(c) /\ c \notin InRow(old))
  BY <1>1, <1>2, <1>3, <1>6, <1>7, RowReplaced DEF old
<1>9. CountWith(p) \in 0 .. NumDus - 1
  BY <1>2, SharingAssumption
<1>10. cached_du_packets' \in [Keys -> [Dus -> Bufs \cup {NULL}]]
       /\ cached_du_packets_num' \in [Keys -> 0 .. NumDus - 1]
  BY <1>1, <1>2, <1>3, <1>9 DEF TypeOK
<1>11. CountInv'
  <2> SUFFICES ASSUME NEW l \in Keys
               PROVE  cached_du_packets_num'[l] = Cardinality(Present(cached_du_packets'[l]))
    BY DEF CountInv, Present
  <2>1. CASE l = k
    BY <1>1, <1>2, <1>3, <2>1 DEF TypeOK
  <2>2. CASE l # k
    BY <1>1, <1>3, <2>2 DEF TypeOK, CountInv
  <2> QED BY <2>1, <2>2
<1>12. \A c : Cached(c)' <=> (Cached(c) /\ c \notin Evicted(p)) \/ c = b
  BY <1>2, <1>4, <1>8
<1>13. ASSUME NEW l \in Keys, NEW d \in Dus, cached_du_packets'[l][d] # NULL
       PROVE  \/ /\ cached_du_packets'[l][d] = cached_du_packets[l][d]
                 /\ cached_du_packets[l][d] \notin Evicted(p)
              \/ cached_du_packets'[l][d] = b /\ d = p.du
  <2>1. CASE l = k
    <3>1. cached_du_packets'[l][d] = new[d] /\ cached_du_packets[l] = old
      BY <1>1, <1>3, <2>1 DEF TypeOK, old
    <3>2. d # p.du => ~Outdated(p) /\ new[d] = old[d]
      BY <1>2, <1>13, <3>1
    <3> QED BY <1>2, <3>1, <3>2 DEF Evicted
  <2>2. CASE l # k
    <3>1. cached_du_packets'[l] = cached_du_packets[l]
      BY <1>1, <1>3, <2>2 DEF TypeOK
    <3>2. cached_du_packets[l][d] \notin InRow(old)
      BY <1>1, <1>13, <2>2, <3>1 DEF RowsInv, InRow, old
    <3> QED BY <1>4, <3>1, <3>2
  <2> QED BY <2>1, <2>2
<1> QED BY <1>8, <1>10, <1>11, <1>12, <1>13

\* The row when its packets are used.
LEMMA RowUsed ==
  ASSUME TypeOK, CountInv, RowsInv, NEW p \in Packet, StoreRow(p, EmptyRow, 0)
  PROVE  /\ cached_du_packets' \in [Keys -> [Dus -> Bufs \cup {NULL}]]
         /\ cached_du_packets_num' \in [Keys -> 0 .. NumDus - 1]
         /\ CountInv' /\ RowsInv'
         /\ \A c : Cached(c)' <=> Cached(c) /\ c \notin InRow(cached_du_packets[KeyOf(p)])
         /\ \A l \in Keys, d \in Dus : cached_du_packets'[l][d] # NULL =>
              /\ cached_du_packets'[l][d] = cached_du_packets[l][d]
              /\ cached_du_packets[l][d] \notin InRow(cached_du_packets[KeyOf(p)])
         /\ InRow(cached_du_packets[KeyOf(p)]) \in SUBSET Bufs
         /\ \A c \in InRow(cached_du_packets[KeyOf(p)]) : Cached(c)
<1> DEFINE k == KeyOf(p)
           old == cached_du_packets[k]
<1>1. k \in Keys /\ EmptyRow \in [Dus -> Bufs \cup {NULL}]
      /\ \A d \in Dus : EmptyRow[d] = NULL
  BY PacketParts DEF EmptyRow
<1>2. InRow(EmptyRow) = {} /\ Present(EmptyRow) = {}
  BY <1>1 DEF InRow, Present
<1>3. /\ cached_du_packets' = [cached_du_packets EXCEPT ![k] = EmptyRow]
      /\ cached_du_packets_num' = [cached_du_packets_num EXCEPT ![k] = 0]
  BY DEF StoreRow
<1>4. old \in [Dus -> Bufs \cup {NULL}]
  BY <1>1 DEF TypeOK
<1>5. InRow(old) \in SUBSET Bufs /\ \A c \in InRow(old) : Cached(c)
  BY <1>1, <1>4 DEF Cached, InRow
<1> HIDE DEF k, old
<1>6. RowsInv' /\ \A c : Cached(c)' <=> c \in InRow(EmptyRow) \/ (Cached(c) /\ c \notin InRow(old))
  BY <1>1, <1>2, <1>3, RowReplaced DEF old
<1>7. 0 \in 0 .. NumDus - 1
  BY SharingAssumption
<1>8. cached_du_packets' \in [Keys -> [Dus -> Bufs \cup {NULL}]]
      /\ cached_du_packets_num' \in [Keys -> 0 .. NumDus - 1]
  BY <1>1, <1>3, <1>7 DEF TypeOK
<1>9. CountInv'
  <2> SUFFICES ASSUME NEW l \in Keys
               PROVE  cached_du_packets_num'[l] = Cardinality(Present(cached_du_packets'[l]))
    BY DEF CountInv, Present
  <2>1. CASE l = k
    BY <1>1, <1>2, <1>3, <2>1, FS_EmptySet DEF TypeOK
  <2>2. CASE l # k
    BY <1>1, <1>3, <2>2 DEF TypeOK, CountInv
  <2> QED BY <2>1, <2>2
<1>10. ASSUME NEW l \in Keys, NEW d \in Dus, cached_du_packets'[l][d] # NULL
       PROVE  /\ cached_du_packets'[l][d] = cached_du_packets[l][d]
              /\ cached_du_packets[l][d] \notin InRow(old)
  <2>1. l # k
    BY <1>1, <1>3, <1>10 DEF TypeOK
  <2>2. cached_du_packets'[l] = cached_du_packets[l]
    BY <1>1, <1>3, <2>1 DEF TypeOK
  <2>3. cached_du_packets[l][d] \notin InRow(old)
    BY <1>1, <1>10, <2>1, <2>2 DEF RowsInv, InRow, old
  <2> QED BY <2>2, <2>3
<1> QED BY <1>2, <1>5, <1>6, <1>8, <1>9, <1>10 DEF k, old

\* The packet is taken from the burst.
LEMMA Handled ==
  ASSUME Inv, NEW b, NEW p, Handles(b, p)
  PROVE  /\ alive /\ b \in Bufs /\ Received(b) /\ ~Cached(b) /\ ~ToBeSent(b)
         /\ stray = 0 => pool[b] = 0
         /\ p = PacketIn(b) /\ p \in Packet /\ (p.kind \in StrayKinds <=> stray > 0)
         /\ p.kind # "prach_data" => content[b] = RowOf(p) /\ IsNew(p)
         /\ \A c \in Bufs : Received(c)' <=> Received(c) /\ c # b
         /\ Once(rxq)' /\ Once(mx_bufs)' /\ \A c \in Bufs : ~(In(c, rxq)' /\ In(c, mx_bufs)')
         /\ rxq' \in Seq(Bufs) /\ mx_bufs' \in Seq(Bufs)
         /\ UNCHANGED <<envVars, to_ru, to_du>>
<1>1. /\ alive /\ mx_bufs # <<>> /\ b = Head(mx_bufs) /\ p = PacketIn(b)
      /\ mx_bufs' = Tail(mx_bufs) /\ UNCHANGED <<rxq, envVars, to_ru, to_du>>
  BY DEF Handles
<1>2. TypeOK /\ OwnInv
  BY DEF Inv
<1>3. /\ b \in Bufs /\ Received(b) /\ ~Cached(b) /\ ~ToBeSent(b)
      /\ stray = 0 => pool[b] = 0
      /\ \A c \in Bufs : Received(c)' <=> Received(c) /\ c # b
      /\ Once(rxq)' /\ Once(mx_bufs)' /\ \A c \in Bufs : ~(In(c, rxq)' /\ In(c, mx_bufs)')
      /\ rxq' \in Seq(Bufs) /\ mx_bufs' \in Seq(Bufs)
  BY <1>1, <1>2, HeadOfBurst
<1>4. /\ p \in Packet /\ (p.kind \in StrayKinds <=> stray > 0)
      /\ p.kind # "prach_data" => content[b] = RowOf(p) /\ IsNew(p)
  BY <1>1, <1>3, HandledPacket
<1> QED BY <1>1, <1>3, <1>4

\* What frees and fills mbufs.
LEMMA Filling ==
  ASSUME TypeOK, NEW S \in SUBSET Bufs, NEW filled, DOMAIN filled \in SUBSET Bufs,
         \A c \in DOMAIN filled : filled[c] \in Rows, FreeAndFill(S, filled)
  PROVE  /\ FreedAndFilled(S, DOMAIN filled)
         /\ content' \in [Bufs -> Rows]
         /\ \A c \in Bufs \ (S \cup DOMAIN filled) : content'[c] = content[c]
         /\ \A c \in DOMAIN filled : content'[c] = filled[c]
<1>1. content' = [c \in Bufs |->
        IF c \in DOMAIN filled THEN filled[c] ELSE IF c \in S THEN EmptyRow ELSE content[c]]
  BY DEF FreeAndFill
<1>2. EmptyRow \in Rows
  BY DEF EmptyRow, Rows
<1>3. \A c \in Bufs : content'[c] \in Rows
  BY <1>1, <1>2 DEF TypeOK
<1>4. content' \in [Bufs -> Rows]
  BY <1>1, <1>3
<1> QED BY <1>1, <1>4 DEF FreeAndFill, FreedAndFilled

\* Freeing mbufs of any number, none of them filled.
LEMMA Freeing ==
  ASSUME TypeOK, NEW S \in SUBSET Bufs, FreeAll(S)
  PROVE  /\ FreedAndFilled(S, {})
         /\ content' \in [Bufs -> Rows]
         /\ \A c \in Bufs \ (S \cup {}) : content'[c] = content[c]
<1>1. DOMAIN <<>> = {}
  OBVIOUS
<1>2. /\ pool' = [c \in Bufs |-> pool[c] + (IF c \in S THEN 1 ELSE 0)
                                       - (IF c \in DOMAIN <<>> THEN 1 ELSE 0)]
      /\ content' = [c \in Bufs |-> IF c \in DOMAIN <<>> THEN (<<>>)[c]
                                     ELSE IF c \in S THEN EmptyRow ELSE content[c]]
  BY DEF FreeAll, FreeAndFill
<1>3. content' = [c \in Bufs |-> IF c \in S THEN EmptyRow ELSE content[c]]
  BY <1>1, <1>2
<1>4. EmptyRow \in Rows
  BY DEF EmptyRow, Rows
<1>5. \A c \in Bufs : content'[c] \in Rows
  BY <1>3, <1>4 DEF TypeOK
<1>6. content' \in [Bufs -> Rows]
  BY <1>3, <1>5
<1>7. FreedAndFilled(S, {})
  BY <1>1, <1>2 DEF FreedAndFilled
<1> QED BY <1>3, <1>6, <1>7

\* What a handler of the packet p in mbuf b leaves behind: the mbufs of S are
\* freed, those of N filled; those of X are in the cache then, those of Y in
\* the entries E to be sent.
MbufsMoved(b, S, N, X, Y, E) ==
  /\ S \in SUBSET Bufs /\ N \in SUBSET Free /\ X \in SUBSET Bufs /\ Y \in SUBSET Bufs
  /\ E \in SUBSET Entry /\ Y = {e.buf : e \in E} /\ \A e, f \in E : e.buf = f.buf => e = f
  /\ X \cap Y = {} /\ X \cup Y = N \cup ({b} \ S)
  /\ \A c \in S : Cached(c) \/ c = b
  /\ FreedAndFilled(S, N)
  /\ content' \in [Bufs -> Rows]
  /\ \A c \in Bufs \ (S \cup N) : content'[c] = content[c]
CacheMoved(S, X) ==
  /\ cached_du_packets' \in [Keys -> [Dus -> Bufs \cup {NULL}]]
  /\ cached_du_packets_num' \in [Keys -> 0 .. NumDus - 1]
  /\ CountInv' /\ RowsInv' /\ CachedInv'
  /\ \A c \in Bufs : Cached(c)' <=> (Cached(c) /\ c \notin S) \/ c \in X
EntriesAdded(E) ==
  /\ mx_tx_bufs' \in Seq(Entry) /\ Once(mx_tx_bufs')
  /\ \A e \in Entry : In(e, mx_tx_bufs') <=> In(e, mx_tx_bufs) \/ e \in E
  /\ \A e \in E : IF e.to = RU THEN SectionsOfAll(content'[e.buf])
                    ELSE \E q \in Packet : IsOne(content'[e.buf], q)
                                           /\ IsTheirs(q, e.to)
NotesTyped ==
  /\ pending_ul_packet' \in [Dus \X Ports \X Symbols -> {0, 1}]
  /\ next_prach_counter' \in 0 .. PRACH_TURN - 1 /\ next_prach' \in {0, 1} /\ alive' \in BOOLEAN

\* A handler that moves mbufs as above keeps the invariant: the one argument
\* that the handlers of known packets share.
LEMMA InvAfterHandling ==
  ASSUME Inv, stray = 0, NEW b, NEW p, Handles(b, p),
         NEW S, NEW N, NEW X, NEW Y, NEW E,
         MbufsMoved(b, S, N, X, Y, E), CacheMoved(S, X), EntriesAdded(E), NotesTyped
  PROVE  Inv'
<1>1. /\ S \in SUBSET Bufs /\ N \in SUBSET Free /\ X \in SUBSET Bufs /\ Y \in SUBSET Bufs
      /\ E \in SUBSET Entry /\ Y = {e.buf : e \in E} /\ \A e, f \in E : e.buf = f.buf => e = f
      /\ X \cap Y = {} /\ X \cup Y = N \cup ({b} \ S)
      /\ \A c \in S : Cached(c) \/ c = b
      /\ FreedAndFilled(S, N)
      /\ content' \in [Bufs -> Rows]
      /\ \A c \in Bufs \ (S \cup N) : content'[c] = content[c]
  BY DEF MbufsMoved
<1>2. /\ cached_du_packets' \in [Keys -> [Dus -> Bufs \cup {NULL}]]
      /\ cached_du_packets_num' \in [Keys -> 0 .. NumDus - 1]
      /\ CountInv' /\ RowsInv' /\ CachedInv'
      /\ \A c \in Bufs : Cached(c)' <=> (Cached(c) /\ c \notin S) \/ c \in X
  BY DEF CacheMoved
<1>3. /\ mx_tx_bufs' \in Seq(Entry) /\ Once(mx_tx_bufs')
      /\ \A e \in Entry : In(e, mx_tx_bufs') <=> In(e, mx_tx_bufs) \/ e \in E
      /\ \A e \in E : IF e.to = RU THEN SectionsOfAll(content'[e.buf])
                        ELSE \E q \in Packet : IsOne(content'[e.buf], q)
                                               /\ IsTheirs(q, e.to)
  BY DEF EntriesAdded
<1>4. /\ alive /\ b \in Bufs /\ Received(b) /\ ~Cached(b) /\ ~ToBeSent(b) /\ pool[b] = 0
      /\ \A c \in Bufs : Received(c)' <=> Received(c) /\ c # b
      /\ Once(rxq)' /\ Once(mx_bufs)' /\ \A c \in Bufs : ~(In(c, rxq)' /\ In(c, mx_bufs)')
      /\ rxq' \in Seq(Bufs) /\ mx_bufs' \in Seq(Bufs)
      /\ UNCHANGED <<envVars, to_ru, to_du>>
  BY Handled
<1>5. scenario' = scenario /\ frame' = frame /\ sent' = sent /\ missing' = missing
      /\ stray' = stray /\ owed' = owed /\ to_ru' = to_ru /\ to_du' = to_du /\ UNCHANGED envVars
  BY <1>4 DEF envVars
<1>6. TypeOK /\ OwnInv /\ ReceivedInv /\ TxInv
  BY DEF Inv, ContentInv
<1>7. \A e \in Entry : In(e, mx_tx_bufs)' <=> In(e, mx_tx_bufs) \/ e \in E
  <2>1. \A e \in Entry : In(e, mx_tx_bufs') <=> In(e, mx_tx_bufs) \/ e \in E
    BY <1>3
  <2>2. \A e \in Entry : In(e, mx_tx_bufs)' <=> In(e, mx_tx_bufs')
    BY DEF In
  <2> QED BY <2>1, <2>2
<1>8. \A e \in Entry : e.buf \in Bufs
  BY DEF Entry
<1>9. \A c \in Bufs : ToBeSent(c)' <=> ToBeSent(c) \/ c \in Y
  BY <1>1, <1>7 DEF ToBeSent
<1>10. pool' \in [Bufs -> Nat] /\ PlacesInv' /\ NoneLost'
  <2>1. stray' = 0 /\ (alive' => alive)
    BY <1>4, <1>5
  <2> QED BY <1>1, <1>2, <1>4, <1>5, <1>6, <1>9, <2>1, PlacesAfterHandling
<1>11. \A c \in Y : ~ToBeSent(c)
  <2>1. \A c \in N : c \in Bufs /\ pool[c] > 0
    BY <1>1 DEF Free
  <2>2. \A c \in N : ~ToBeSent(c)
    BY <1>6, <2>1 DEF OwnInv, PlacesInv
  <2> QED BY <1>1, <1>4, <2>2
<1>12. QueuesInv'
  <2>1. Once(mx_tx_bufs)'
    BY <1>3 DEF Once
  <2>2. ASSUME NEW e \in Entry, NEW f \in Entry, In(e, mx_tx_bufs)', In(f, mx_tx_bufs)', e.buf = f.buf
        PROVE  e = f
    <3>1. CASE e \in E /\ f \in E
      BY <1>1, <2>2, <3>1
    <3>2. CASE In(e, mx_tx_bufs) /\ In(f, mx_tx_bufs)
      BY <1>6, <2>2, <3>2 DEF OwnInv, QueuesInv
    <3>3. CASE e \in E /\ In(f, mx_tx_bufs)
      <4>1. e.buf \in Y /\ ToBeSent(e.buf)
        BY <1>1, <2>2, <3>3 DEF ToBeSent
      <4> QED BY <1>11, <4>1
    <3>4. CASE f \in E /\ In(e, mx_tx_bufs)
      <4>1. f.buf \in Y /\ ToBeSent(f.buf)
        BY <1>1, <2>2, <3>4 DEF ToBeSent
      <4> QED BY <1>11, <4>1
    <3> QED BY <1>7, <2>2, <3>1, <3>2, <3>3, <3>4
  <2> QED BY <1>4, <2>1, <2>2 DEF QueuesInv
<1>13. OwnInv'
  BY <1>2, <1>10, <1>12 DEF OwnInv
<1>14. ReceivedInv'
  BY <1>1, <1>4, <1>5, <1>6, ReceivedAfter
<1>15. TxInv'
  BY <1>1, <1>3, <1>4, <1>5, <1>6, <1>7, TxAfter
<1>16. TypeOK'
  <2>1. Seq(Entry) = Seq([to : Dus \cup {RU}, buf : Bufs])
    BY DEF Entry
  <2> QED BY <1>1, <1>2, <1>3, <1>4, <1>5, <1>6, <1>10, <2>1 DEF TypeOK, Rows, NotesTyped
<1>17. EnvInv' /\ StrayInv'
  BY <1>5 DEF Inv, EnvInv, StrayInv
<1> QED BY <1>2, <1>13, <1>14, <1>15, <1>16, <1>17 DEF Inv, ContentInv

\* The invariant when the program stops in the middle of a handler.
LEMMA InvAfterStop ==
  ASSUME Inv, NEW b, NEW p, Handles(b, p), alive' = FALSE, stray = 0,
         UNCHANGED <<memory, mx_tx_bufs, cached_du_packets, cached_du_packets_num, prachVars>>,
         pending_ul_packet' \in [Dus \X Ports \X Symbols -> {0, 1}]
  PROVE  Inv'
<1>1. /\ \A c \in Bufs : Received(c)' <=> Received(c) /\ c # b
      /\ Once(rxq)' /\ Once(mx_bufs)' /\ \A c \in Bufs : ~(In(c, rxq)' /\ In(c, mx_bufs)')
      /\ rxq' \in Seq(Bufs) /\ mx_bufs' \in Seq(Bufs)
      /\ UNCHANGED <<envVars, to_ru, to_du>>
  BY Handled
<1>2. UNCHANGED <<scenario, frame, sent, missing, stray, owed, to_ru, to_du, pool, content,
                  mx_tx_bufs, cached_du_packets, cached_du_packets_num, next_prach_counter, next_prach>>
  BY <1>1 DEF envVars, memory, prachVars
<1>3. TypeOK'
  BY <1>1, <1>2 DEF Inv, TypeOK
<1>4. \A c : (Cached(c)' <=> Cached(c)) /\ (ToBeSent(c)' <=> ToBeSent(c))
  BY <1>2 DEF Cached, ToBeSent, In
<1>5. \A e : In(e, mx_tx_bufs)' <=> In(e, mx_tx_bufs)
  BY <1>2 DEF In
<1>6. OwnInv'
  <2>1. QueuesInv'
    BY <1>1, <1>2, <1>5 DEF Inv, OwnInv, QueuesInv, Once
  <2>2. RowsInv'
    BY <1>2 DEF Inv, OwnInv, RowsInv
  <2>3. PlacesInv'
    BY <1>1, <1>2, <1>4 DEF Inv, OwnInv, PlacesInv
  <2> QED BY <2>1, <2>2, <2>3 DEF OwnInv, NoneLost
<1>7. ReceivedInv'
  <2>1. \A p1, c : (Holds(c, p1)' <=> Holds(c, p1)) /\ (IsNew(p1)' <=> IsNew(p1))
    BY <1>2, SameBuild DEF Holds, RowOf, EmptyRow, IsNew, Arrived, DuPackets
  <2>2. \A c \in Bufs : Received(c)' => Received(c)
    BY <1>1
  <2> QED BY <1>2, <2>1, <2>2 DEF Inv, ContentInv, ReceivedInv
<1>8. CachedInv'
  BY <1>2 DEF Inv, ContentInv, CachedInv
<1>9. TxInv'
  BY <1>2, <1>5, SameBuild DEF Inv, ContentInv, TxInv, SectionsOfAll, IsOne
<1>10. CountInv'
  BY <1>2 DEF Inv, CountInv
<1> QED BY <1>2, <1>3, <1>6, <1>7, <1>8, <1>9, <1>10 DEF Inv, ContentInv, EnvInv, StrayInv

-----------------------------------------------------------------------------
(* The handlers                                                            *)

\* An mbuf that was not to be sent now is, once.
LEMMA EntryAppended ==
  ASSUME TypeOK, QueuesInv, NEW e \in Entry, ~ToBeSent(e.buf),
         mx_tx_bufs' = Append(mx_tx_bufs, e)
  PROVE  /\ mx_tx_bufs' \in Seq(Entry) /\ Once(mx_tx_bufs')
         /\ \A f : In(f, mx_tx_bufs') <=> In(f, mx_tx_bufs) \/ f = e
<1>1. mx_tx_bufs \in Seq(Entry) /\ Once(mx_tx_bufs)
  BY DEF TypeOK, QueuesInv, Entry
<1>2. ~In(e, mx_tx_bufs)
  BY DEF ToBeSent
<1>3. Append(mx_tx_bufs, e) \in Seq(Entry)
  BY <1>1
<1> QED BY <1>1, <1>2, <1>3, Appended

\* What is to be sent stays so.
LEMMA NothingToSend ==
  ASSUME TypeOK, QueuesInv, mx_tx_bufs' = mx_tx_bufs
  PROVE  /\ mx_tx_bufs' \in Seq(Entry) /\ Once(mx_tx_bufs')
         /\ \A f : In(f, mx_tx_bufs') <=> In(f, mx_tx_bufs)
BY DEF TypeOK, QueuesInv, Entry

\* A packet that is not for the middlebox is freed, once or more,
LEMMA StrayHandled ==
  ASSUME Inv, NEW b, NEW p, Handles(b, p), p.kind \in StrayKinds,
         pool' \in [Bufs -> Nat], pool'[b] > 0, \A c \in Bufs \ {b} : pool'[c] = pool[c],
         content' \in [Bufs -> Rows], \A c \in Bufs \ {b} : content'[c] = content[c],
         UNCHANGED <<mx_tx_bufs, cacheVars, prachVars, alive>>
  PROVE  Inv'
<1>1. /\ alive /\ b \in Bufs /\ ~Cached(b) /\ stray > 0
      /\ \A c \in Bufs : Received(c)' <=> Received(c) /\ c # b
      /\ Once(rxq)' /\ Once(mx_bufs)' /\ \A c \in Bufs : ~(In(c, rxq)' /\ In(c, mx_bufs)')
      /\ rxq' \in Seq(Bufs) /\ mx_bufs' \in Seq(Bufs)
      /\ UNCHANGED <<envVars, to_ru, to_du>>
  BY Handled
<1>2. UNCHANGED <<scenario, frame, sent, missing, stray, owed, to_ru, to_du, alive, mx_tx_bufs,
        cached_du_packets, cached_du_packets_num, pending_ul_packet, next_prach_counter, next_prach>>
  BY <1>1 DEF envVars, cacheVars, prachVars
<1>3. mx_tx_bufs = <<>> /\ stray # 0
  <2>1. stray \in Nat
    BY SharingAssumption DEF Inv, TypeOK, IsScenario
  <2> QED BY <1>1, <2>1 DEF Inv, StrayInv
<1>4. TypeOK'
  BY <1>1, <1>2 DEF Inv, TypeOK
<1>5. \A c : (Cached(c)' <=> Cached(c)) /\ ~ToBeSent(c)'
  BY <1>2, <1>3 DEF Cached, ToBeSent, In
<1>6. \A e : ~In(e, mx_tx_bufs)'
  BY <1>2, <1>3 DEF In
<1>7. OwnInv'
  <2>1. QueuesInv'
    BY <1>1, <1>2, <1>6 DEF Inv, OwnInv, QueuesInv, Once
  <2>2. RowsInv'
    BY <1>2 DEF Inv, OwnInv, RowsInv
  <2>3. PlacesInv'
    BY <1>1, <1>2, <1>3, <1>5 DEF Inv, OwnInv, PlacesInv
  <2>4. ASSUME NEW c \in PoolBufs, alive PROVE (pool[c] > 0 \/ Received(c) \/ Cached(c) \/ ToBeSent(c))'
    <3>1. c \in Bufs
      BY SharingAssumption DEF Inv, TypeOK, IsScenario, PoolBufs, Bufs
    <3>2. pool[c] > 0 \/ Received(c) \/ Cached(c)
      BY <1>3, <2>4 DEF Inv, OwnInv, NoneLost, ToBeSent, In
    <3> QED BY <1>1, <1>5, <3>1, <3>2
  <2>5. NoneLost'
    BY <1>2, <2>4 DEF NoneLost, PoolBufs
  <2> QED BY <2>1, <2>2, <2>3, <2>5 DEF OwnInv
<1>8. ReceivedInv'
  <2>1. \A c \in Bufs \ {b} : \A q : Holds(c, q)' <=> Holds(c, q)
    BY <1>2, SameBuild DEF Holds, RowOf, EmptyRow
  <2>2. \A q : IsNew(q)' <=> IsNew(q)
    BY <1>2 DEF IsNew, Arrived, DuPackets
  <2> QED BY <1>1, <1>2, <2>1, <2>2 DEF Inv, ContentInv, ReceivedInv
<1>9. CachedInv'
  <2>1. \A l \in Keys, d \in Dus : cached_du_packets[l][d] # NULL =>
          cached_du_packets[l][d] \in Bufs \ {b}
    BY <1>1 DEF Inv, TypeOK, Cached, InRow
  <2>2. \A l \in Keys, d \in Dus : cached_du_packets'[l][d] # NULL =>
          /\ cached_du_packets'[l][d] = cached_du_packets[l][d]
          /\ content'[cached_du_packets'[l][d]] = content[cached_du_packets[l][d]]
    BY <1>2, <2>1
  <2> QED BY <2>2, CachedAfter DEF Inv, ContentInv
<1>10. TxInv'
  BY <1>6 DEF TxInv
<1>11. CountInv'
  BY <1>2 DEF Inv, CountInv
<1>12. EnvInv' /\ StrayInv'
  BY <1>2 DEF Inv, EnvInv, StrayInv, DuPackets
<1> QED BY <1>4, <1>7, <1>8, <1>9, <1>10, <1>11, <1>12 DEF Inv, ContentInv

\* be it a packet of another protocol
LEMMA StrayIgnored == Inv /\ IgnoreStray => Inv'
<1> SUFFICES ASSUME Inv, IgnoreStray PROVE Inv'
  OBVIOUS
<1>1. PICK b \in Burst : \E p \in {PacketIn(b)} :
        /\ Handles(b, p) /\ p.kind = "stray" /\ pool' = [pool EXCEPT ![b] = @ + 2]
        /\ UNCHANGED <<content, mx_tx_bufs, cacheVars, prachVars, alive>>
  BY DEF IgnoreStray
<1>2. Handles(b, PacketIn(b)) /\ PacketIn(b).kind \in StrayKinds
  BY <1>1 DEF StrayKinds
<1>3. b \in Bufs /\ pool \in [Bufs -> Nat] /\ content \in [Bufs -> Rows]
  BY <1>2, Handled DEF Inv, TypeOK
<1>4. pool' \in [Bufs -> Nat] /\ pool'[b] > 0 /\ \A c \in Bufs \ {b} : pool'[c] = pool[c]
  BY <1>1, <1>3
<1> QED BY <1>1, <1>2, <1>3, <1>4, StrayHandled

\* or one of an unknown sender.
LEMMA ForeignIgnored == Inv /\ IgnoreForeign => Inv'
<1> SUFFICES ASSUME Inv, IgnoreForeign PROVE Inv'
  OBVIOUS
<1>1. PICK b \in Burst : \E p \in {PacketIn(b)} :
        /\ Handles(b, p) /\ p.kind = "foreign" /\ FreeAll({b})
        /\ UNCHANGED <<mx_tx_bufs, cacheVars, prachVars, alive>>
  BY DEF IgnoreForeign
<1>2. Handles(b, PacketIn(b)) /\ PacketIn(b).kind \in StrayKinds
  BY <1>1 DEF StrayKinds
<1>3. b \in Bufs /\ pool \in [Bufs -> Nat] /\ TypeOK /\ {b} \in SUBSET Bufs
  BY <1>2, Handled DEF Inv, TypeOK
<1>4. /\ FreedAndFilled({b}, {}) /\ content' \in [Bufs -> Rows]
      /\ \A c \in Bufs \ ({b} \cup {}) : content'[c] = content[c]
  BY <1>1, <1>3, Freeing
<1>5. pool' \in [Bufs -> Nat] /\ pool'[b] > 0 /\ \A c \in Bufs \ {b} : pool'[c] = pool[c]
  BY <1>3, <1>4 DEF FreedAndFilled
<1>6. \A c \in Bufs \ {b} : content'[c] = content[c]
  BY <1>4
<1> QED BY <1>1, <1>2, <1>4, <1>5, <1>6, StrayHandled

\* A packet of a DU that is handled.
LEMMA DuHandled ==
  ASSUME Inv, NEW b, NEW p, HandlesDu(b, p)
  PROVE  /\ Handles(b, p) /\ alive /\ b \in Bufs /\ p \in Packet /\ p.kind \in DuKinds /\ stray = 0
         /\ ~Cached(b) /\ content[b] = RowOf(p) /\ IsNew(p) /\ PacketIn(b) = p
         /\ pending_ul_packet' \in [Dus \X Ports \X Symbols -> {0, 1}]
<1>1. Handles(b, p) /\ p.kind \in DuKinds
  BY DEF HandlesDu
<1>2. p.kind \notin StrayKinds /\ p.kind # "prach_data"
  BY <1>1 DEF DuKinds, Refused, StrayKinds
<1>3. stray \in Nat
  BY SharingAssumption DEF Inv, TypeOK, IsScenario
<1>4. stray = 0
  BY <1>1, <1>2, <1>3, Handled
<1>5. pending_ul_packet \in [Dus \X Ports \X Symbols -> {0, 1}]
  BY DEF Inv, TypeOK
<1>6. pending_ul_packet' \in [Dus \X Ports \X Symbols -> {0, 1}]
  <2>1. CASE p.kind \in UlRequests
    BY <1>5, <2>1 DEF HandlesDu
  <2>2. CASE p.kind \notin UlRequests
    BY <1>5, <2>2 DEF HandlesDu
  <2> QED BY <2>1, <2>2
<1> QED BY <1>1, <1>2, <1>4, <1>6, Handled

\* A packet of a DU waits for those of the others,
LEMMA PacketCached == Inv /\ CachePacket => Inv'
<1> SUFFICES ASSUME Inv, CachePacket PROVE Inv'
  OBVIOUS
<1>1. PICK b \in Burst : \E p \in {PacketIn(b)} :
        /\ HandlesDu(b, p) /\ ~Ready(p) /\ StoreRow(p, RowWith(p, b), CountWith(p))
        /\ FreeAll(Evicted(p)) /\ UNCHANGED <<mx_tx_bufs, prachVars, alive>>
  BY DEF CachePacket
<1> DEFINE p == PacketIn(b)
<1>2. /\ HandlesDu(b, p) /\ ~Ready(p) /\ StoreRow(p, RowWith(p, b), CountWith(p))
      /\ FreeAll(Evicted(p)) /\ UNCHANGED <<mx_tx_bufs, prachVars, alive>>
  BY <1>1
<1> HIDE DEF p
<1>3. /\ Handles(b, p) /\ alive /\ b \in Bufs /\ p \in Packet /\ p.kind \in DuKinds /\ stray = 0
      /\ ~Cached(b) /\ content[b] = RowOf(p)
      /\ pending_ul_packet' \in [Dus \X Ports \X Symbols -> {0, 1}]
  BY <1>2, DuHandled
<1>4. TypeOK /\ CountInv /\ RowsInv /\ CachedInv /\ QueuesInv
  BY DEF Inv, OwnInv, ContentInv
<1>5. /\ cached_du_packets' \in [Keys -> [Dus -> Bufs \cup {NULL}]]
      /\ cached_du_packets_num' \in [Keys -> 0 .. NumDus - 1]
      /\ CountInv' /\ RowsInv'
      /\ \A c : Cached(c)' <=> (Cached(c) /\ c \notin Evicted(p)) \/ c = b
      /\ \A l \in Keys, d \in Dus : cached_du_packets'[l][d] # NULL =>
           \/ /\ cached_du_packets'[l][d] = cached_du_packets[l][d]
              /\ cached_du_packets[l][d] \notin Evicted(p)
           \/ cached_du_packets'[l][d] = b /\ d = p.du
  <2>1. CountWith(p) # NumDus
    BY <1>2 DEF Ready
  <2> QED BY <1>2, <1>3, <1>4, <2>1, RowKept
<1>6. Evicted(p) \in SUBSET Bufs /\ \A c \in Evicted(p) : Cached(c)
  <2>1. KeyOf(p) \in Keys
    BY <1>3, PacketParts
  <2> QED BY <1>4, <2>1 DEF Evicted, Cached, TypeOK, InRow
<1>7. /\ FreedAndFilled(Evicted(p), {}) /\ content' \in [Bufs -> Rows]
      /\ \A c \in Bufs \ (Evicted(p) \cup {}) : content'[c] = content[c]
  BY <1>2, <1>4, <1>6, Freeing
<1>8. CachedInv'
  <2>1. ASSUME NEW l \in Keys, NEW d \in Dus, cached_du_packets'[l][d] # NULL
        PROVE  \/ /\ cached_du_packets'[l][d] = cached_du_packets[l][d]
                  /\ content'[cached_du_packets'[l][d]] = content[cached_du_packets[l][d]]
               \/ \E q \in Packet : q.kind \in DuKinds /\ q.du = d
                                    /\ content'[cached_du_packets'[l][d]] = RowOf(q)
    <3>1. CASE /\ cached_du_packets'[l][d] = cached_du_packets[l][d]
               /\ cached_du_packets[l][d] \notin Evicted(p)
      <4>1. cached_du_packets[l][d] \in Bufs
        BY <1>4, <2>1, <3>1 DEF TypeOK
      <4> QED BY <1>7, <3>1, <4>1
    <3>2. CASE cached_du_packets'[l][d] = b /\ d = p.du
      <4>1. content'[b] = RowOf(p)
        BY <1>3, <1>6, <1>7
      <4> QED BY <1>3, <3>2, <4>1
    <3> QED BY <1>5, <2>1, <3>1, <3>2
  <2> QED BY <1>4, <2>1, CachedAfter
<1>9. /\ mx_tx_bufs' \in Seq(Entry) /\ Once(mx_tx_bufs')
      /\ \A f : In(f, mx_tx_bufs') <=> In(f, mx_tx_bufs)
  BY <1>2, <1>4, NothingToSend
<1>10. next_prach_counter' \in 0 .. PRACH_TURN - 1 /\ next_prach' \in {0, 1} /\ alive' \in BOOLEAN
  BY <1>2, <1>4 DEF TypeOK, prachVars
<1>11. /\ {} \in SUBSET Free /\ {} \in SUBSET Entry /\ {} \in SUBSET Bufs /\ {b} \in SUBSET Bufs
       /\ {} = {e.buf : e \in {}} /\ {b} \cap {} = {} /\ {b} \cup {} = {} \cup ({b} \ Evicted(p))
  BY <1>3, <1>6
<1>12. /\ \A c \in Evicted(p) : Cached(c) \/ c = b
       /\ \A c \in Bufs : Cached(c)' <=> (Cached(c) /\ c \notin Evicted(p)) \/ c \in {b}
       /\ \A e \in Entry : In(e, mx_tx_bufs') <=> In(e, mx_tx_bufs) \/ e \in {}
  BY <1>5, <1>6, <1>9
<1>13. MbufsMoved(b, Evicted(p), {}, {b}, {}, {})
  BY <1>6, <1>7, <1>11, <1>12 DEF MbufsMoved
<1>14. CacheMoved(Evicted(p), {b})
  BY <1>5, <1>8, <1>12 DEF CacheMoved
<1>15. EntriesAdded({}) /\ NotesTyped
  BY <1>3, <1>9, <1>10, <1>12 DEF EntriesAdded, NotesTyped
<1> QED BY <1>3, <1>13, <1>14, <1>15, InvAfterHandling

\* The cache after a row has been used.
LEMMA CachedAfterUse ==
  ASSUME TypeOK, CountInv, OwnInv, CachedInv, NEW p \in Packet, StoreRow(p, EmptyRow, 0),
         NEW b \in Bufs, ~Cached(b), NEW N \in SUBSET Free,
         \A c \in Bufs \ (InRow(cached_du_packets[KeyOf(p)]) \cup {b} \cup N) :
           content'[c] = content[c]
  PROVE  CachedInv'
<1>1. ASSUME NEW l \in Keys, NEW d \in Dus, cached_du_packets'[l][d] # NULL
      PROVE  /\ cached_du_packets'[l][d] = cached_du_packets[l][d]
             /\ content'[cached_du_packets'[l][d]] = content[cached_du_packets[l][d]]
  <2>1. /\ cached_du_packets'[l][d] = cached_du_packets[l][d]
        /\ cached_du_packets[l][d] \notin InRow(cached_du_packets[KeyOf(p)])
    BY <1>1, RowUsed DEF OwnInv
  <2>2. cached_du_packets[l][d] \in Bufs /\ Cached(cached_du_packets[l][d])
    BY <1>1, <2>1 DEF TypeOK, Cached, InRow
  <2>3. ~(pool[cached_du_packets[l][d]] > 0)
    BY <2>2 DEF OwnInv, PlacesInv
  <2> QED BY <2>1, <2>2, <2>3 DEF Free
<1> QED BY <1>1, CachedAfter

\* The mbufs of the row: that of the packet, and those that were there.
LEMMA RowOfHandled ==
  ASSUME TypeOK, CountInv, NEW p \in Packet, NEW b \in Bufs, ~Cached(b)
  PROVE  /\ Evicted(p) \cup InRow(RowWith(p, b)) = InRow(cached_du_packets[KeyOf(p)]) \cup {b}
         /\ Evicted(p) \cup (InRow(RowWith(p, b)) \ {b}) = InRow(cached_du_packets[KeyOf(p)])
<1>1. InRow(RowWith(p, b)) = (InRow(cached_du_packets[KeyOf(p)]) \ Evicted(p)) \cup {b}
  BY RowAndCount
<1>2. b \notin InRow(cached_du_packets[KeyOf(p)])
  BY PacketParts DEF Cached
<1>3. Evicted(p) \subseteq InRow(cached_du_packets[KeyOf(p)])
  BY DEF Evicted
<1> QED BY <1>1, <1>2, <1>3

\* is sent on as it is when it asks for no PRACH and completes its row,
LEMMA ControlForwarded == Inv /\ ForwardControl => Inv'
<1> SUFFICES ASSUME Inv, ForwardControl PROVE Inv'
  OBVIOUS
<1>1. PICK b \in Burst : \E p \in {PacketIn(b)} :
        /\ HandlesDu(b, p) /\ p.kind \in {"dl_control", "ul_control"}
        /\ mx_tx_bufs' = Append(mx_tx_bufs, ToSend(RU, b)) /\ StoreRow(p, EmptyRow, 0)
        /\ FreeAll(Evicted(p) \cup (InRow(RowWith(p, b)) \ {b})) /\ UNCHANGED <<prachVars, alive>>
  BY DEF ForwardControl
<1> DEFINE p == PacketIn(b)
           S == InRow(cached_du_packets[KeyOf(p)])
           e == ToSend(RU, b)
<1>2. /\ HandlesDu(b, p) /\ p.kind \in {"dl_control", "ul_control"}
      /\ mx_tx_bufs' = Append(mx_tx_bufs, e) /\ StoreRow(p, EmptyRow, 0)
      /\ FreeAll(Evicted(p) \cup (InRow(RowWith(p, b)) \ {b})) /\ UNCHANGED <<prachVars, alive>>
  BY <1>1
<1> HIDE DEF p
<1>3. /\ Handles(b, p) /\ alive /\ b \in Bufs /\ p \in Packet /\ p.kind \in DuKinds /\ stray = 0
      /\ ~Cached(b) /\ content[b] = RowOf(p)
      /\ pending_ul_packet' \in [Dus \X Ports \X Symbols -> {0, 1}]
  BY <1>2, DuHandled
<1>4. TypeOK /\ CountInv /\ OwnInv /\ RowsInv /\ CachedInv /\ QueuesInv
  BY DEF Inv, OwnInv, ContentInv
<1>5. /\ cached_du_packets' \in [Keys -> [Dus -> Bufs \cup {NULL}]]
      /\ cached_du_packets_num' \in [Keys -> 0 .. NumDus - 1]
      /\ CountInv' /\ RowsInv'
      /\ \A c : Cached(c)' <=> Cached(c) /\ c \notin S
      /\ S \in SUBSET Bufs /\ \A c \in S : Cached(c)
  BY <1>2, <1>3, <1>4, RowUsed
<1>6. FreeAll(S)
  BY <1>2, <1>3, <1>4, RowOfHandled
<1>7. /\ FreedAndFilled(S, {}) /\ content' \in [Bufs -> Rows]
      /\ \A c \in Bufs \ (S \cup {}) : content'[c] = content[c]
  BY <1>4, <1>5, <1>6, Freeing
<1>8. CachedInv'
  <2>1. {} \in SUBSET Free /\ \A c \in Bufs \ (S \cup {b} \cup {}) : content'[c] = content[c]
    BY <1>7
  <2> QED BY <1>2, <1>3, <1>4, <2>1, CachedAfterUse
<1>9. e \in Entry /\ e.buf = b /\ e.to = RU
  BY <1>3 DEF Entry, ToSend
<1>10. ~ToBeSent(b)
  BY <1>3, Handled
<1> HIDE DEF S, e
<1>11. /\ mx_tx_bufs' \in Seq(Entry) /\ Once(mx_tx_bufs')
       /\ \A f : In(f, mx_tx_bufs') <=> In(f, mx_tx_bufs) \/ f = e
  BY <1>2, <1>4, <1>9, <1>10, EntryAppended
<1>12. next_prach_counter' \in 0 .. PRACH_TURN - 1 /\ next_prach' \in {0, 1} /\ alive' \in BOOLEAN
  BY <1>2, <1>4 DEF TypeOK, prachVars
<1>13. SectionsOfAll(content'[b])
  <2>1. content'[b] = RowOf(p)
    BY <1>3, <1>5, <1>7
  <2>2. \A d \in Dus : content'[b][d] = p \/ content'[b][d] = NULL
    BY <2>1 DEF RowOf, EmptyRow
  <2>3. p.kind # "prach_control"
    BY <1>2
  <2> QED BY <2>2, <2>3 DEF SectionsOfAll
<1>14. /\ {} \in SUBSET Free /\ {e} \in SUBSET Entry /\ {} \in SUBSET Bufs /\ {b} \in SUBSET Bufs
       /\ {b} = {f.buf : f \in {e}} /\ {} \cap {b} = {} /\ {} \cup {b} = {} \cup ({b} \ S)
       /\ \A f, g \in {e} : f.buf = g.buf => f = g
  BY <1>3, <1>5, <1>9
<1>15. /\ \A c \in S : Cached(c) \/ c = b
       /\ \A c \in Bufs : Cached(c)' <=> (Cached(c) /\ c \notin S) \/ c \in {}
       /\ \A f \in Entry : In(f, mx_tx_bufs') <=> In(f, mx_tx_bufs) \/ f \in {e}
       /\ \A f \in {e} : IF f.to = RU THEN SectionsOfAll(content'[f.buf])
                         ELSE \E q \in Packet : IsOne(content'[f.buf], q)
                                                /\ IsTheirs(q, f.to)
  BY <1>5, <1>9, <1>11, <1>13
<1>16. MbufsMoved(b, S, {}, {}, {b}, {e})
  BY <1>5, <1>7, <1>14, <1>15 DEF MbufsMoved
<1>17. CacheMoved(S, {})
  BY <1>5, <1>8, <1>15 DEF CacheMoved
<1>18. EntriesAdded({e}) /\ NotesTyped
  BY <1>3, <1>11, <1>12, <1>15 DEF EntriesAdded, NotesTyped
<1> QED BY <1>3, <1>16, <1>17, <1>18, InvAfterHandling

\* stops the program when its sections cannot be put together,
LEMMA ControlRefused == Inv /\ RefuseControl => Inv'
<1> SUFFICES ASSUME Inv, RefuseControl PROVE Inv'
  OBVIOUS
<1>1. PICK b \in Burst : \E p \in {PacketIn(b)} :
        /\ HandlesDu(b, p) /\ alive' = FALSE
        /\ UNCHANGED <<memory, mx_tx_bufs, cached_du_packets, cached_du_packets_num, prachVars>>
  BY DEF RefuseControl
<1>2. /\ HandlesDu(b, PacketIn(b)) /\ alive' = FALSE
      /\ UNCHANGED <<memory, mx_tx_bufs, cached_du_packets, cached_du_packets_num, prachVars>>
  BY <1>1
<1>3. /\ Handles(b, PacketIn(b)) /\ stray = 0
      /\ pending_ul_packet' \in [Dus \X Ports \X Symbols -> {0, 1}]
  BY <1>2, DuHandled
<1> QED BY <1>2, <1>3, InvAfterStop

\* What is put together for a full row.
LEMMA MergedRow ==
  ASSUME Inv, NEW p \in Packet, NEW b \in Bufs, content[b] = RowOf(p), p.kind \in DuKinds,
         CountWith(p) = NumDus
  PROVE  LET row == RowWith(p, b)
         IN  /\ \A d \in Dus : row[d] \in Bufs /\ PacketIn(row[d]) \in Packet
                               /\ PacketIn(row[d]).kind \in DuKinds /\ PacketIn(row[d]).du = d
             /\ Merged(p, row) \in Rows /\ SectionsOfAll(Merged(p, row))
<1> DEFINE row == RowWith(p, b)
           old == cached_du_packets[KeyOf(p)]
<1>1. TypeOK /\ CountInv /\ CachedInv /\ p.du \in Dus /\ KeyOf(p) \in Keys
  BY PacketParts DEF Inv, ContentInv
<1>2. /\ row \in [Dus -> Bufs \cup {NULL}] /\ row[p.du] = b /\ \A d \in Dus : row[d] \in Bufs
      /\ \A d \in Dus \ {p.du} : row[d] = IF Outdated(p) THEN NULL ELSE old[d]
  BY <1>1, RowAndCount
<1> HIDE DEF row
<1>3. \A q \in Packet : \A c \in Bufs : content[c] = RowOf(q) => PacketIn(c) = q
  BY OnePacket, PacketParts DEF IsOne, RowOf
<1>4. ASSUME NEW d \in Dus
      PROVE  /\ row[d] \in Bufs /\ PacketIn(row[d]) \in Packet
             /\ PacketIn(row[d]).kind \in DuKinds /\ PacketIn(row[d]).du = d
  <2>1. CASE d = p.du
    BY <1>2, <1>3, <2>1
  <2>2. CASE d # p.du
    <3>1. row[d] \in Bufs /\ row[d] # NULL /\ old[d] = row[d]
      BY <1>2, <2>2, NullAssumption
    <3>2. PICK q \in Packet : q.kind \in DuKinds /\ q.du = d /\ content[row[d]] = RowOf(q)
      BY <1>1, <3>1 DEF CachedInv
    <3>3. PacketIn(row[d]) = q
      BY <1>3, <3>1, <3>2
    <3> QED BY <3>1, <3>2, <3>3
  <2> QED BY <2>1, <2>2
<1>5. \A q \in Packet : Section(q) \in Packet /\ Section(q).du = q.du
  BY <1>1 DEF Section, Packet, TypeOK
<1>6. ASSUME NEW d \in Dus
      PROVE  /\ Merged(p, row)[d] \in Packet \cup {NULL}
             /\ Merged(p, row)[d] # NULL => Merged(p, row)[d].du = d
             /\ scenario.asserts => Merged(p, row)[d] # NULL
  <2>1. Merged(p, row)[d] = IF p.kind = "prach_control" /\ ~InRequest(d) THEN NULL
                            ELSE Section(PacketIn(row[d]))
    BY DEF Merged
  <2>2. Section(PacketIn(row[d])) \in Packet /\ Section(PacketIn(row[d])).du = d
    BY <1>4, <1>5
  <2> QED BY <2>1, <2>2, NullAssumption DEF InRequest
<1>7. Merged(p, row) \in Rows
  <2>1. Merged(p, row) = [d \in Dus |-> Merged(p, row)[d]]
    BY DEF Merged
  <2> QED BY <1>6, <2>1 DEF Rows
<1>8. SectionsOfAll(Merged(p, row))
  BY <1>6 DEF SectionsOfAll
<1> QED BY <1>4, <1>7, <1>8 DEF row

\* or is sent with those of the others.
LEMMA PacketsMerged == Inv /\ MergePackets => Inv'
<1> SUFFICES ASSUME Inv, MergePackets PROVE Inv'
  OBVIOUS
<1>1. PICK b \in Burst : \E p \in {PacketIn(b)} :
        /\ HandlesDu(b, p) /\ Ready(p) /\ p.kind \in {"iq", "prach_control"}
        /\ IF Free # {}
           THEN /\ FreeAndFill(Evicted(p) \cup InRow(RowWith(p, b)),
                               Filled(LowestFree(1), Merged(p, RowWith(p, b))))
                /\ mx_tx_bufs' = Append(mx_tx_bufs, ToSend(RU, Nth(LowestFree(1), 1)))
                /\ StoreRow(p, EmptyRow, 0)
                /\ IF p.kind = "prach_control" THEN TurnPrach ELSE UNCHANGED prachVars
                /\ UNCHANGED alive
           ELSE /\ alive' = FALSE
                /\ UNCHANGED <<memory, mx_tx_bufs, cached_du_packets, cached_du_packets_num, prachVars>>
  BY DEF MergePackets
<1> DEFINE p == PacketIn(b)
           R == InRow(cached_du_packets[KeyOf(p)])
           S == R \cup {b}
           new == Nth(LowestFree(1), 1)
           row == Merged(p, RowWith(p, b))
           e == ToSend(RU, new)
<1>2. /\ HandlesDu(b, p) /\ Ready(p) /\ p.kind \in {"iq", "prach_control"}
      /\ IF Free # {}
         THEN /\ FreeAndFill(Evicted(p) \cup InRow(RowWith(p, b)), Filled(LowestFree(1), row))
              /\ mx_tx_bufs' = Append(mx_tx_bufs, e)
              /\ StoreRow(p, EmptyRow, 0)
              /\ IF p.kind = "prach_control" THEN TurnPrach ELSE UNCHANGED prachVars
              /\ UNCHANGED alive
         ELSE /\ alive' = FALSE
              /\ UNCHANGED <<memory, mx_tx_bufs, cached_du_packets, cached_du_packets_num, prachVars>>
  BY <1>1
<1> HIDE DEF p, e
<1>3. /\ Handles(b, p) /\ alive /\ b \in Bufs /\ p \in Packet /\ p.kind \in DuKinds /\ stray = 0
      /\ ~Cached(b) /\ content[b] = RowOf(p)
      /\ pending_ul_packet' \in [Dus \X Ports \X Symbols -> {0, 1}]
  BY <1>2, DuHandled
<1>4. TypeOK /\ CountInv /\ OwnInv /\ RowsInv /\ CachedInv /\ QueuesInv /\ PlacesInv
  BY DEF Inv, OwnInv, ContentInv
<1>5. CASE Free = {}
  BY <1>2, <1>3, <1>5, InvAfterStop
<1>6. CASE Free # {}
  <2>1. LowestFree(1) = {new} /\ new \in Free
    BY <1>6, NewMbuf
  <2>2. new \in Bufs /\ pool[new] > 0
    BY <2>1 DEF Free
  <2>3. ~ToBeSent(new) /\ new # b
    BY <1>3, <1>4, <2>2, Handled DEF PlacesInv
  <2> HIDE DEF new
  <2>4. /\ cached_du_packets' \in [Keys -> [Dus -> Bufs \cup {NULL}]]
        /\ cached_du_packets_num' \in [Keys -> 0 .. NumDus - 1]
        /\ CountInv' /\ RowsInv'
        /\ \A c : Cached(c)' <=> Cached(c) /\ c \notin R
        /\ R \in SUBSET Bufs /\ \A c \in R : Cached(c)
    BY <1>2, <1>3, <1>4, <1>6, RowUsed
  <2>5. S \in SUBSET Bufs /\ Evicted(p) \cup InRow(RowWith(p, b)) = S
    BY <1>3, <1>4, <2>4, RowOfHandled
  <2> HIDE DEF R
  <2>6. row \in Rows /\ SectionsOfAll(row)
    <3>1. CountWith(p) = NumDus
      BY <1>2 DEF Ready, UlRequests
    <3> QED BY <1>3, <3>1, MergedRow
  <2> HIDE DEF row
  <2>7. DOMAIN Filled(LowestFree(1), row) = {new} /\ Filled(LowestFree(1), row)[new] = row
    BY <2>1 DEF Filled
  <2>8. FreeAndFill(S, Filled(LowestFree(1), row))
    BY <1>2, <1>6, <2>5
  <2>9. /\ FreedAndFilled(S, {new}) /\ content' \in [Bufs -> Rows] /\ content'[new] = row
        /\ \A c \in Bufs \ (S \cup {new}) : content'[c] = content[c]
    <3>1. DOMAIN Filled(LowestFree(1), row) \in SUBSET Bufs
          /\ \A c \in DOMAIN Filled(LowestFree(1), row) : Filled(LowestFree(1), row)[c] \in Rows
      BY <2>2, <2>6, <2>7
    <3> HIDE DEF S
    <3>2. /\ FreedAndFilled(S, DOMAIN Filled(LowestFree(1), row)) /\ content' \in [Bufs -> Rows]
          /\ \A c \in Bufs \ (S \cup DOMAIN Filled(LowestFree(1), row)) : content'[c] = content[c]
          /\ \A c \in DOMAIN Filled(LowestFree(1), row) : content'[c] = Filled(LowestFree(1), row)[c]
      BY <1>4, <2>5, <2>8, <3>1, Filling
    <3> QED BY <2>7, <3>2
  <2>10. CachedInv'
    <3>1. {new} \in SUBSET Free
      BY <2>1
    <3> QED BY <1>2, <1>3, <1>4, <1>6, <2>9, <3>1, CachedAfterUse DEF R
  <2>11. e \in Entry /\ e.buf = new /\ e.to = RU
    BY <2>2 DEF Entry, ToSend, e
  <2>12. /\ mx_tx_bufs' \in Seq(Entry) /\ Once(mx_tx_bufs')
         /\ \A f : In(f, mx_tx_bufs') <=> In(f, mx_tx_bufs) \/ f = e
    BY <1>2, <1>4, <1>6, <2>3, <2>11, EntryAppended
  <2>13. next_prach_counter' \in 0 .. PRACH_TURN - 1 /\ next_prach' \in {0, 1} /\ alive' \in BOOLEAN
    <3>1. CASE UNCHANGED prachVars
      BY <1>2, <1>4, <1>6, <3>1 DEF TypeOK, prachVars
    <3>2. CASE TurnPrach
      <4>1. next_prach_counter \in Nat /\ PRACH_TURN \in Nat \ {0} /\ next_prach \in {0, 1}
        BY <1>4, SharingAssumption DEF TypeOK
      <4>2. next_prach_counter' \in 0 .. PRACH_TURN - 1
        BY <3>2, <4>1 DEF TurnPrach
      <4>3. (next_prach + 1) % 2 \in {0, 1}
        BY <4>1
      <4>4. next_prach' \in {0, 1}
        BY <3>2, <4>1, <4>3 DEF TurnPrach
      <4> QED BY <1>2, <1>3, <1>6, <4>2, <4>4
    <3> QED BY <1>2, <1>6, <3>1, <3>2
  <2>14. /\ {new} \in SUBSET Free /\ {e} \in SUBSET Entry /\ {} \in SUBSET Bufs /\ {new} \in SUBSET Bufs
         /\ {new} = {f.buf : f \in {e}} /\ {} \cap {new} = {}
         /\ {} \cup {new} = {new} \cup ({b} \ S)
         /\ \A f, g \in {e} : f.buf = g.buf => f = g
    BY <2>1, <2>2, <2>11
  <2>15. /\ \A c \in S : Cached(c) \/ c = b
         /\ \A c \in Bufs : Cached(c)' <=> (Cached(c) /\ c \notin S) \/ c \in {}
         /\ \A f \in Entry : In(f, mx_tx_bufs') <=> In(f, mx_tx_bufs) \/ f \in {e}
         /\ \A f \in {e} : IF f.to = RU THEN SectionsOfAll(content'[f.buf])
                           ELSE \E q \in Packet : IsOne(content'[f.buf], q)
                                                  /\ IsTheirs(q, f.to)
    BY <1>3, <2>4, <2>6, <2>9, <2>11, <2>12
  <2> HIDE DEF S
  <2>16. MbufsMoved(b, S, {new}, {}, {new}, {e})
    BY <2>5, <2>9, <2>14, <2>15 DEF MbufsMoved
  <2>17. CacheMoved(S, {})
    BY <2>4, <2>10, <2>15 DEF CacheMoved
  <2>18. EntriesAdded({e}) /\ NotesTyped
    BY <1>3, <2>12, <2>13, <2>15 DEF EntriesAdded, NotesTyped
  <2> QED BY <1>3, <2>16, <2>17, <2>18, InvAfterHandling
<1> QED BY <1>5, <1>6

\* The cache is left as it is.
LEMMA CacheUntouched ==
  ASSUME TypeOK, CountInv, OwnInv, CachedInv, NEW b \in Bufs, ~Cached(b), NEW N \in SUBSET Free,
         UNCHANGED <<cached_du_packets, cached_du_packets_num>>,
         \A c \in Bufs \ ({b} \cup N) : content'[c] = content[c]
  PROVE  CacheMoved({b}, {})
<1>1. \A c : Cached(c)' <=> Cached(c)
  BY DEF Cached
<1>2. CountInv' /\ RowsInv'
  BY DEF OwnInv, CountInv, RowsInv
<1>3. CachedInv'
  <2>1. ASSUME NEW l \in Keys, NEW d \in Dus, cached_du_packets'[l][d] # NULL
        PROVE  /\ cached_du_packets'[l][d] = cached_du_packets[l][d]
               /\ content'[cached_du_packets'[l][d]] = content[cached_du_packets[l][d]]
    <3>1. cached_du_packets[l][d] \in Bufs /\ Cached(cached_du_packets[l][d])
      BY <2>1 DEF TypeOK, Cached, InRow
    <3>2. ~(pool[cached_du_packets[l][d]] > 0)
      BY <3>1 DEF OwnInv, PlacesInv
    <3> QED BY <3>1, <3>2 DEF Free
  <2> QED BY <2>1, CachedAfter
<1>4. \A c \in Bufs : Cached(c)' <=> (Cached(c) /\ c \notin {b}) \/ c \in {}
  BY <1>1
<1> QED BY <1>2, <1>3, <1>4 DEF CacheMoved, TypeOK

\* The first DU that is noted is one that is noted.
LEMMA FirstIsExpecting ==
  ASSUME NEW p, Expecting(p) # {}
  PROVE  FirstExpecting(p) \in Expecting(p) /\ FirstExpecting(p) \in Dus
<1>1. IsFiniteSet(Dus) /\ \A d \in Dus : d \in Int
  BY FS_Interval, SharingAssumption DEF Dus
<1>2. Expecting(p) \in SUBSET Dus
  BY DEF Expecting
<1>3. IsFiniteSet(Expecting(p)) /\ Expecting(p) \in SUBSET Int
  BY <1>1, <1>2, FS_Subset
<1>4. \E d \in Expecting(p) : \A c \in Expecting(p) : d <= c
  BY <1>3, Smallest
<1>5. FirstExpecting(p) \in Expecting(p)
  BY <1>4 DEF FirstExpecting
<1> QED BY <1>2, <1>5

\* An answer goes to a DU, or is dropped for want of a note.
LEMMA UplinkReturned == Inv /\ ReturnUplink => Inv'
<1> SUFFICES ASSUME Inv, ReturnUplink PROVE Inv'
  OBVIOUS
<1>1. PICK b \in Burst : \E p \in {PacketIn(b)} :
        /\ Handles(b, p) /\ p.kind = "ul_data"
        /\ UNCHANGED <<cached_du_packets, cached_du_packets_num, prachVars>>
        /\ IF Expecting(p) = {}
           THEN /\ FreeAll({b})
                /\ UNCHANGED <<mx_tx_bufs, pending_ul_packet, alive>>
           ELSE IF Free = {}
           THEN /\ alive' = FALSE
                /\ UNCHANGED <<memory, mx_tx_bufs, pending_ul_packet>>
           ELSE /\ FreeAndFill({b}, Filled(LowestFree(1), content[b]))
                /\ mx_tx_bufs' = Append(mx_tx_bufs, ToSend(FirstExpecting(p), Nth(LowestFree(1), 1)))
                /\ pending_ul_packet' = [i \in DOMAIN pending_ul_packet |->
                     IF i[1] \in Answered(p) /\ i[2] = p.port /\ i[3] = p.symbol
                     THEN 0 ELSE pending_ul_packet[i]]
                /\ UNCHANGED alive
  BY DEF ReturnUplink
<1> DEFINE p == PacketIn(b)
           new == Nth(LowestFree(1), 1)
           e == ToSend(FirstExpecting(p), new)
<1>2. /\ Handles(b, p) /\ p.kind = "ul_data"
      /\ UNCHANGED <<cached_du_packets, cached_du_packets_num, prachVars>>
      /\ IF Expecting(p) = {}
         THEN /\ FreeAll({b})
              /\ UNCHANGED <<mx_tx_bufs, pending_ul_packet, alive>>
         ELSE IF Free = {}
         THEN /\ alive' = FALSE
              /\ UNCHANGED <<memory, mx_tx_bufs, pending_ul_packet>>
         ELSE /\ FreeAndFill({b}, Filled(LowestFree(1), content[b]))
              /\ mx_tx_bufs' = Append(mx_tx_bufs, e)
              /\ pending_ul_packet' = [i \in DOMAIN pending_ul_packet |->
                   IF i[1] \in Answered(p) /\ i[2] = p.port /\ i[3] = p.symbol
                   THEN 0 ELSE pending_ul_packet[i]]
              /\ UNCHANGED alive
  BY <1>1
<1> HIDE DEF p, e
<1>3. stray = 0
  <2>1. stray \in Nat
    BY SharingAssumption DEF Inv, TypeOK, IsScenario
  <2>2. p.kind \notin StrayKinds
    BY <1>2 DEF StrayKinds
  <2> QED BY <1>2, <2>1, <2>2, Handled
<1>4. /\ alive /\ b \in Bufs /\ ~Cached(b) /\ ~ToBeSent(b) /\ pool[b] = 0
      /\ p = PacketIn(b) /\ p \in Packet /\ content[b] = RowOf(p)
  <2>1. p.kind # "prach_data"
    BY <1>2
  <2> QED BY <1>2, <1>3, <2>1, Handled
<1>5. TypeOK /\ CountInv /\ OwnInv /\ CachedInv /\ QueuesInv /\ {b} \in SUBSET Bufs
  BY <1>4 DEF Inv, OwnInv, ContentInv
<1>6. pending_ul_packet \in [Dus \X Ports \X Symbols -> {0, 1}]
      /\ next_prach_counter' \in 0 .. PRACH_TURN - 1 /\ next_prach' \in {0, 1}
  BY <1>2, <1>5 DEF TypeOK, prachVars
<1>7. CASE Expecting(p) = {}
  <2>1. FreeAll({b}) /\ UNCHANGED <<mx_tx_bufs, pending_ul_packet, alive>>
    BY <1>2, <1>7
  <2>2. /\ FreedAndFilled({b}, {}) /\ content' \in [Bufs -> Rows]
        /\ \A c \in Bufs \ ({b} \cup {}) : content'[c] = content[c]
    BY <1>5, <2>1, Freeing
  <2>3. CacheMoved({b}, {})
    <3>1. {} \in SUBSET Free
      OBVIOUS
    <3> QED BY <1>2, <1>4, <1>5, <2>2, <3>1, CacheUntouched
  <2>4. /\ mx_tx_bufs' \in Seq(Entry) /\ Once(mx_tx_bufs')
        /\ \A f : In(f, mx_tx_bufs') <=> In(f, mx_tx_bufs)
    BY <1>5, <2>1, NothingToSend
  <2>5. EntriesAdded({}) /\ NotesTyped
    BY <1>4, <1>6, <2>1, <2>4 DEF EntriesAdded, NotesTyped
  <2>6. /\ {} \in SUBSET Free /\ {} \in SUBSET Entry /\ {} \in SUBSET Bufs
        /\ {} = {f.buf : f \in {}} /\ {} \cap {} = {} /\ {} \cup {} = {} \cup ({b} \ {b})
    OBVIOUS
  <2>7. MbufsMoved(b, {b}, {}, {}, {}, {})
    BY <1>5, <2>2, <2>6 DEF MbufsMoved
  <2> QED BY <1>2, <1>3, <2>3, <2>5, <2>7, InvAfterHandling
<1>8. CASE Expecting(p) # {} /\ Free = {}
  <2>1. /\ alive' = FALSE
        /\ UNCHANGED <<memory, mx_tx_bufs, pending_ul_packet>>
    BY <1>2, <1>8
  <2> QED BY <1>2, <1>3, <1>6, <2>1, InvAfterStop
<1>9. CASE Expecting(p) # {} /\ Free # {}
  <2>1. /\ FreeAndFill({b}, Filled(LowestFree(1), content[b]))
        /\ mx_tx_bufs' = Append(mx_tx_bufs, e)
        /\ pending_ul_packet' = [i \in DOMAIN pending_ul_packet |->
             IF i[1] \in Answered(p) /\ i[2] = p.port /\ i[3] = p.symbol
             THEN 0 ELSE pending_ul_packet[i]]
        /\ UNCHANGED alive
    BY <1>2, <1>9
  <2>2. LowestFree(1) = {new} /\ new \in Free
    BY <1>9, NewMbuf
  <2>3. new \in Bufs /\ pool[new] > 0
    BY <2>2 DEF Free
  <2>4. ~ToBeSent(new) /\ new # b
    BY <1>4, <1>5, <2>3 DEF OwnInv, PlacesInv
  <2>5. FirstExpecting(p) \in Dus
    BY <1>9, FirstIsExpecting
  <2> HIDE DEF new
  <2>6. e \in Entry /\ e.buf = new /\ e.to \in Dus /\ e.to # RU
    BY <2>3, <2>5, SharingAssumption DEF Entry, ToSend, e, RU, Dus
  <2>7. /\ mx_tx_bufs' \in Seq(Entry) /\ Once(mx_tx_bufs')
        /\ \A f : In(f, mx_tx_bufs') <=> In(f, mx_tx_bufs) \/ f = e
    BY <1>5, <2>1, <2>4, <2>6, EntryAppended
  <2>8. DOMAIN Filled(LowestFree(1), content[b]) = {new}
        /\ Filled(LowestFree(1), content[b])[new] = content[b]
    BY <2>2 DEF Filled
  <2>9. /\ FreedAndFilled({b}, {new}) /\ content' \in [Bufs -> Rows] /\ content'[new] = content[b]
        /\ \A c \in Bufs \ ({b} \cup {new}) : content'[c] = content[c]
    <3>1. DOMAIN Filled(LowestFree(1), content[b]) \in SUBSET Bufs
          /\ \A c \in DOMAIN Filled(LowestFree(1), content[b]) :
               Filled(LowestFree(1), content[b])[c] \in Rows
      BY <1>4, <1>5, <2>3, <2>8 DEF TypeOK
    <3>2. /\ FreedAndFilled({b}, DOMAIN Filled(LowestFree(1), content[b]))
          /\ content' \in [Bufs -> Rows]
          /\ \A c \in Bufs \ ({b} \cup DOMAIN Filled(LowestFree(1), content[b])) :
               content'[c] = content[c]
          /\ \A c \in DOMAIN Filled(LowestFree(1), content[b]) :
               content'[c] = Filled(LowestFree(1), content[b])[c]
      BY <1>5, <2>1, <3>1, Filling
    <3> QED BY <2>8, <3>2
  <2>10. CacheMoved({b}, {})
    <3>1. {new} \in SUBSET Free
      BY <2>2
    <3> QED BY <1>2, <1>4, <1>5, <2>9, <3>1, CacheUntouched
  <2>11. \E q \in Packet : IsOne(content'[new], q) /\ IsTheirs(q, e.to)
    <3>1. IsOne(content'[new], p)
      BY <1>4, <2>9, PacketParts DEF IsOne, RowOf
    <3> QED BY <1>2, <1>4, <3>1 DEF IsTheirs
  <2>12. EntriesAdded({e})
    BY <2>6, <2>7, <2>11 DEF EntriesAdded
  <2>13. NotesTyped
    <3>1. pending_ul_packet' \in [Dus \X Ports \X Symbols -> {0, 1}]
      BY <1>6, <2>1
    <3> QED BY <1>4, <1>6, <2>1, <3>1 DEF NotesTyped
  <2>14. /\ {new} \in SUBSET Free /\ {e} \in SUBSET Entry /\ {} \in SUBSET Bufs
         /\ {new} \in SUBSET Bufs
         /\ {new} = {f.buf : f \in {e}} /\ {} \cap {new} = {}
         /\ {} \cup {new} = {new} \cup ({b} \ {b})
         /\ \A f, g \in {e} : f.buf = g.buf => f = g
    BY <2>2, <2>3, <2>6
  <2>15. MbufsMoved(b, {b}, {new}, {}, {new}, {e})
    BY <1>5, <2>9, <2>14 DEF MbufsMoved
  <2> QED BY <1>2, <1>3, <2>10, <2>12, <2>13, <2>15, InvAfterHandling
<1> QED BY <1>7, <1>8, <1>9

\* The new mbufs of a PRACH answer, one for each DU, and their entries.
BufFor(d) == Nth(LowestFree(NumDus), d + 1)
PrachEntries == [i \in 1 .. NumDus |-> ToSend(i - 1, BufFor(i - 1))]

\* A free mbuf for each DU, no two the same.
LEMMA MbufsForDus ==
  ASSUME Cardinality(Free) >= NumDus
  PROVE  /\ LowestFree(NumDus) \in SUBSET Free
         /\ \A d \in Dus : BufFor(d) \in LowestFree(NumDus) /\ BufFor(d) \in Bufs
                           /\ pool[BufFor(d)] > 0
         /\ \A d, e \in Dus : BufFor(d) = BufFor(e) => d = e
         /\ \A c \in LowestFree(NumDus) : \E d \in Dus : BufFor(d) = c
<1> DEFINE S == LowestFree(NumDus)
<1>1. Free \in SUBSET Bufs /\ NumDus \in Nat /\ \A c \in Free : c \in Bufs /\ pool[c] > 0
  BY SharingAssumption DEF Free
<1>2. Cardinality(Free) \in Nat
  BY <1>1, BufsFinite, FS_CardinalityType
<1>3. NumDus <= Cardinality(Free)
  BY <1>1, <1>2
<1>4. S \in SUBSET Free /\ Cardinality(S) = NumDus
  BY <1>1, <1>3, LowestAreFree
<1>5. S \in SUBSET Bufs
  BY <1>1, <1>4
<1> HIDE DEF S
<1>6. \A d \in Dus : d \in Int /\ d + 1 \in 1 .. NumDus
  BY <1>1 DEF Dus
<1>7. \A i \in 1 .. NumDus : i - 1 \in Dus /\ (i - 1) + 1 = i
  BY <1>1 DEF Dus
<1>8. /\ \A i \in 1 .. NumDus : Nth(S, i) \in S
      /\ \A i, j \in 1 .. NumDus : Nth(S, i) = Nth(S, j) => i = j
      /\ \A c \in S : \E i \in 1 .. NumDus : Nth(S, i) = c
  BY <1>4, <1>5, NthAreDistinct
<1>9. \A d \in Dus : BufFor(d) = Nth(S, d + 1)
  BY DEF BufFor, S
<1>10. ASSUME NEW d \in Dus, NEW e \in Dus, BufFor(d) = BufFor(e) PROVE d = e
  <2>1. d + 1 = e + 1
    BY <1>6, <1>8, <1>9, <1>10
  <2> QED BY <1>6, <2>1
<1>11. ASSUME NEW c \in S PROVE \E d \in Dus : BufFor(d) = c
  <2>1. PICK i \in 1 .. NumDus : Nth(S, i) = c
    BY <1>8
  <2>2. i - 1 \in Dus /\ BufFor(i - 1) = c
    BY <1>7, <1>9, <2>1
  <2> QED BY <2>2
<1>12. \A d \in Dus : BufFor(d) \in S
  BY <1>6, <1>8, <1>9
<1> QED BY <1>1, <1>4, <1>10, <1>11, <1>12 DEF S

\* The sections of a PRACH answer join what is to be sent, one for each DU.
LEMMA EntriesForDus ==
  ASSUME TypeOK, OwnInv, Cardinality(Free) >= NumDus
  PROVE  LET E == {ToSend(d, BufFor(d)) : d \in Dus}
         IN  /\ mx_tx_bufs \o PrachEntries \in Seq(Entry) /\ Once(mx_tx_bufs \o PrachEntries)
             /\ \A f : In(f, mx_tx_bufs \o PrachEntries) <=> In(f, mx_tx_bufs) \/ f \in E
<1> DEFINE E == {ToSend(d, BufFor(d)) : d \in Dus}
           q == PrachEntries
<1>1. NumDus \in Nat /\ \A i \in 1 .. NumDus : i - 1 \in Dus /\ i \in Int
  BY SharingAssumption DEF Dus
<1>2. \A d \in Dus : BufFor(d) \in Bufs /\ pool[BufFor(d)] > 0 /\ ToSend(d, BufFor(d)) \in Entry
                     /\ ToSend(d, BufFor(d)).to = d /\ ToSend(d, BufFor(d)).buf = BufFor(d)
  BY MbufsForDus DEF ToSend, Entry
<1>3. /\ q \in Seq(Entry) /\ Len(q) = NumDus
      /\ \A i \in 1 .. NumDus : q[i] = ToSend(i - 1, BufFor(i - 1))
  <2>1. q \in [1 .. NumDus -> Entry]
    BY <1>1, <1>2 DEF PrachEntries
  <2>2. q \in Seq(Entry) /\ Len(q) = NumDus
    BY <1>1, <2>1
  <2> QED BY <2>2 DEF PrachEntries
<1> HIDE DEF q
<1>4. \A f : In(f, q) <=> f \in E
  <2>1. ASSUME NEW f, In(f, q) PROVE f \in E
    BY <1>1, <1>3, <2>1 DEF In
  <2>2. ASSUME NEW d \in Dus PROVE In(ToSend(d, BufFor(d)), q)
    <3>1. d + 1 \in 1 .. NumDus /\ (d + 1) - 1 = d
      BY <1>1 DEF Dus
    <3>2. q[d + 1] = ToSend(d, BufFor(d))
      BY <1>3, <3>1
    <3> QED BY <1>3, <3>1, <3>2 DEF In
  <2> QED BY <2>1, <2>2
<1>5. Once(q)
  <2> SUFFICES ASSUME NEW i \in 1 .. NumDus, NEW j \in 1 .. NumDus, q[i] = q[j] PROVE i = j
    BY <1>3 DEF Once
  <2>1. ToSend(i - 1, BufFor(i - 1)).to = i - 1 /\ ToSend(j - 1, BufFor(j - 1)).to = j - 1
    BY <1>1, <1>2
  <2>2. i - 1 = j - 1
    BY <1>3, <2>1
  <2> QED BY <1>1, <2>2
<1>6. mx_tx_bufs \in Seq(Entry) /\ Once(mx_tx_bufs)
  BY DEF TypeOK, Entry, OwnInv, QueuesInv
<1>7. \A f : ~(In(f, mx_tx_bufs) /\ In(f, q))
  <2> SUFFICES ASSUME NEW d \in Dus, In(ToSend(d, BufFor(d)), mx_tx_bufs) PROVE FALSE
    BY <1>4
  <2>1. ToBeSent(BufFor(d))
    BY <1>2 DEF ToBeSent
  <2> QED BY <1>2, <2>1 DEF OwnInv, PlacesInv
<1>8. mx_tx_bufs \o q \in Seq(Entry)
  BY <1>3, <1>6
<1>9. Once(mx_tx_bufs \o q) /\ \A f : In(f, mx_tx_bufs \o q) <=> In(f, mx_tx_bufs) \/ In(f, q)
  BY <1>3, <1>5, <1>6, <1>7, Concatenated
<1> QED BY <1>4, <1>8, <1>9 DEF q

\* A PRACH answer is split into an mbuf for each DU.
LEMMA PrachSplit == Inv /\ SplitPrach => Inv'
<1> SUFFICES ASSUME Inv, SplitPrach PROVE Inv'
  OBVIOUS
<1> DEFINE N == LowestFree(NumDus)
           E == {ToSend(d, BufFor(d)) : d \in Dus}
<1>1. PICK b \in Burst : \E p \in {PacketIn(b)} :
        /\ Handles(b, p) /\ p.kind = "prach_data" /\ UNCHANGED <<cacheVars, prachVars>>
        /\ IF Cardinality(Free) >= NumDus
           THEN /\ FreeAndFill({b}, [c \in N |->
                     [d \in Dus |-> IF c = BufFor(d) THEN SectionFor(b, d) ELSE NULL]])
                /\ mx_tx_bufs' = mx_tx_bufs \o PrachEntries
                /\ UNCHANGED alive
           ELSE alive' = FALSE /\ UNCHANGED <<memory, mx_tx_bufs>>
  BY DEF SplitPrach, BufFor, PrachEntries
<1> DEFINE p == PacketIn(b)
           filled == [c \in N |-> [d \in Dus |-> IF c = BufFor(d) THEN SectionFor(b, d) ELSE NULL]]
<1>2. /\ Handles(b, p) /\ p.kind = "prach_data" /\ UNCHANGED <<cacheVars, prachVars>>
      /\ IF Cardinality(Free) >= NumDus
         THEN /\ FreeAndFill({b}, filled)
              /\ mx_tx_bufs' = mx_tx_bufs \o PrachEntries
              /\ UNCHANGED alive
         ELSE alive' = FALSE /\ UNCHANGED <<memory, mx_tx_bufs>>
  BY <1>1
<1> HIDE DEF p
<1>3. stray = 0
  <2>1. stray \in Nat
    BY SharingAssumption DEF Inv, TypeOK, IsScenario
  <2>2. p.kind \notin StrayKinds
    BY <1>2 DEF StrayKinds
  <2> QED BY <1>2, <2>1, <2>2, Handled
<1>4. /\ alive /\ b \in Bufs /\ Received(b) /\ ~Cached(b) /\ ~ToBeSent(b) /\ pool[b] = 0
      /\ p = PacketIn(b) /\ p \in Packet
  BY <1>2, <1>3, Handled
<1>5. TypeOK /\ CountInv /\ OwnInv /\ CachedInv /\ QueuesInv /\ {b} \in SUBSET Bufs
  BY <1>4 DEF Inv, OwnInv, ContentInv
<1>6. UNCHANGED <<cached_du_packets, cached_du_packets_num>>
      /\ pending_ul_packet' \in [Dus \X Ports \X Symbols -> {0, 1}]
      /\ next_prach_counter' \in 0 .. PRACH_TURN - 1 /\ next_prach' \in {0, 1}
  BY <1>2, <1>5 DEF TypeOK, prachVars, cacheVars
<1>7. CASE ~(Cardinality(Free) >= NumDus)
  BY <1>2, <1>3, <1>6, <1>7, InvAfterStop
<1>8. CASE Cardinality(Free) >= NumDus
  <2>1. /\ FreeAndFill({b}, filled) /\ mx_tx_bufs' = mx_tx_bufs \o PrachEntries /\ UNCHANGED alive
    BY <1>2, <1>8
  <2>2. /\ N \in SUBSET Free
        /\ \A d \in Dus : BufFor(d) \in N /\ BufFor(d) \in Bufs
        /\ \A d, e \in Dus : BufFor(d) = BufFor(e) => d = e
        /\ \A c \in N : \E d \in Dus : BufFor(d) = c
    BY <1>8, MbufsForDus
  <2>3. N \in SUBSET Bufs /\ b \notin N
    BY <1>4, <2>2 DEF Free
  <2> HIDE DEF N
  <2>4. ASSUME NEW d \in Dus
        PROVE  /\ SectionFor(b, d) \in Packet /\ IsTheirs(SectionFor(b, d), d)
               /\ filled[BufFor(d)] = [EmptyRow EXCEPT ![d] = SectionFor(b, d)]
    <3>1. SectionFor(b, d) \in Packet /\ IsTheirs(SectionFor(b, d), d)
      BY <1>2, <1>4, SectionOf
    <3>2. filled[BufFor(d)] = [e \in Dus |-> IF BufFor(d) = BufFor(e) THEN SectionFor(b, e) ELSE NULL]
      BY <2>2
    <3>3. filled[BufFor(d)] = [e \in Dus |-> IF d = e THEN SectionFor(b, e) ELSE NULL]
      BY <2>2, <3>2
    <3> QED BY <3>1, <3>3 DEF EmptyRow
  <2>5. DOMAIN filled \in SUBSET Bufs /\ \A c \in DOMAIN filled : filled[c] \in Rows
    <3>1. \A d \in Dus : [EmptyRow EXCEPT ![d] = SectionFor(b, d)] \in Rows
      BY <2>4 DEF EmptyRow, Rows
    <3>2. DOMAIN filled = N
      OBVIOUS
    <3>3. \A d \in Dus : filled[BufFor(d)] \in Rows
      BY <2>4, <3>1
    <3> HIDE DEF filled
    <3> QED BY <2>2, <2>3, <3>2, <3>3
  <2>6. DOMAIN filled = N
    OBVIOUS
  <2> HIDE DEF filled
  <2>7. /\ FreedAndFilled({b}, N) /\ content' \in [Bufs -> Rows]
        /\ \A c \in Bufs \ ({b} \cup N) : content'[c] = content[c]
        /\ \A c \in N : content'[c] = filled[c]
    BY <1>5, <2>1, <2>5, <2>6, Filling
  <2>8. CacheMoved({b}, {})
    BY <1>4, <1>5, <1>6, <2>2, <2>7, CacheUntouched
  <2>9. \A d \in Dus : ToSend(d, BufFor(d)) \in Entry
                       /\ ToSend(d, BufFor(d)).to = d /\ ToSend(d, BufFor(d)).buf = BufFor(d)
    BY <2>2 DEF ToSend, Entry
  <2>10. /\ mx_tx_bufs' \in Seq(Entry) /\ Once(mx_tx_bufs')
         /\ \A f : In(f, mx_tx_bufs') <=> In(f, mx_tx_bufs) \/ f \in E
    BY <1>5, <1>8, <2>1, EntriesForDus
  <2>11. ASSUME NEW d \in Dus
         PROVE  /\ d # RU
                /\ \E q \in Packet : IsOne(content'[BufFor(d)], q) /\ IsTheirs(q, d)
    <3>1. d # RU
      BY SharingAssumption DEF Dus, RU
    <3>2. content'[BufFor(d)] = [EmptyRow EXCEPT ![d] = SectionFor(b, d)]
      BY <2>2, <2>4, <2>7
    <3>3. IsOne(content'[BufFor(d)], SectionFor(b, d))
      BY <3>2 DEF IsOne
    <3> QED BY <2>4, <3>1, <3>3
  <2>12. EntriesAdded(E)
    BY <2>9, <2>10, <2>11 DEF EntriesAdded
  <2>13. NotesTyped
    BY <1>4, <1>6, <2>1 DEF NotesTyped
  <2>14. E \in SUBSET Entry /\ N = {f.buf : f \in E} /\ \A f, g \in E : f.buf = g.buf => f = g
    <3>1. E \in SUBSET Entry
      BY <2>9
    <3>2. \A f \in E : f.buf \in N
      BY <2>2, <2>9
    <3>3. \A c \in N : \E f \in E : f.buf = c
      BY <2>2, <2>9
    <3>4. \A f, g \in E : f.buf = g.buf => f = g
      BY <2>2, <2>9
    <3> HIDE DEF E
    <3> QED BY <3>1, <3>2, <3>3, <3>4
  <2> HIDE DEF E
  <2>15. {} \cap N = {} /\ {} \cup N = N \cup ({b} \ {b}) /\ {} \in SUBSET Bufs
         /\ \A c \in {b} : Cached(c) \/ c = b
    OBVIOUS
  <2>16. MbufsMoved(b, {b}, N, {}, N, E)
    BY <1>5, <2>2, <2>3, <2>7, <2>14, <2>15 DEF MbufsMoved
  <2> QED BY <1>2, <1>3, <2>8, <2>12, <2>13, <2>16, InvAfterHandling
<1> QED BY <1>7, <1>8

-----------------------------------------------------------------------------
(* The other steps                                                         *)

\* Packets are sent, or freed for lack of room.
LEMMA InvAfterSending ==
  ASSUME Inv, mx_tx_bufs # <<>>, NEW S \in SUBSET Bufs, \A c \in S : ToBeSent(c), FreeAll(S),
         \A c \in Bufs : ToBeSent(c)' <=> ToBeSent(c) /\ c \notin S,
         mx_tx_bufs' \in Seq(Entry), Once(mx_tx_bufs'),
         \A f \in Entry : In(f, mx_tx_bufs') => In(f, mx_tx_bufs),
         UNCHANGED <<rxq, mx_bufs, cacheVars, prachVars, scenario, frame, sent, missing, stray>>,
         alive' \in BOOLEAN, alive' => alive,
         to_ru' \in Seq(Rows), to_du' \in Seq([du : Dus, packet : Packet]),
         owed' \in SUBSET Packet, \A p \in owed' : p.kind \in RuKinds
  PROVE  Inv'
<1>1. TypeOK /\ OwnInv /\ CountInv /\ ReceivedInv /\ CachedInv /\ TxInv
  BY DEF Inv, ContentInv
<1>2. stray = 0 /\ stray' = 0
  <2>1. stray \in Nat
    BY <1>1, SharingAssumption DEF TypeOK, IsScenario
  <2> QED BY <2>1 DEF Inv, StrayInv
<1>3. UNCHANGED <<rxq, mx_bufs, cached_du_packets, cached_du_packets_num, pending_ul_packet,
                  next_prach_counter, next_prach, scenario, frame, sent, missing, stray>>
  BY DEF cacheVars, prachVars
<1>4. \A c : (Cached(c)' <=> Cached(c)) /\ (Received(c)' <=> Received(c))
  BY <1>3 DEF Cached, Received, In
<1>5. /\ FreedAndFilled(S, {}) /\ content' \in [Bufs -> Rows]
      /\ \A c \in Bufs \ (S \cup {}) : content'[c] = content[c]
  BY <1>1, Freeing
<1>6. ASSUME NEW c \in Bufs
      PROVE  /\ pool'[c] = IF c \in S THEN pool[c] + 1 ELSE pool[c]
             /\ pool[c] \in {0, 1} /\ (c \in S => pool[c] = 0 /\ ~Received(c) /\ ~Cached(c))
  <2>1. pool[c] \in Nat /\ pool[c] <= 1 /\ (c \in S => pool[c] = 0 /\ ~Received(c) /\ ~Cached(c))
    BY <1>1, <1>2 DEF TypeOK, OwnInv, PlacesInv
  <2> QED BY <1>5, <2>1 DEF FreedAndFilled
<1>7. pool' \in [Bufs -> Nat]
  <2>1. \A c \in Bufs : pool'[c] \in Nat
    BY <1>6
  <2> QED BY <1>5, <2>1 DEF FreedAndFilled
<1>8. PlacesInv'
  <2> SUFFICES ASSUME NEW c \in Bufs
               PROVE  /\ ~(Received(c)' /\ Cached(c)') /\ ~(Received(c)' /\ ToBeSent(c)')
                      /\ ~(Cached(c)' /\ ToBeSent(c)')
                      /\ pool'[c] > 0 => ~Cached(c)' /\ ~ToBeSent(c)' /\ ~Received(c)'
                      /\ pool'[c] <= 1
    BY DEF PlacesInv
  <2>1. CASE c \in S
    BY <1>4, <1>6, <2>1
  <2>2. CASE c \notin S
    BY <1>1, <1>2, <1>4, <1>6, <2>2 DEF OwnInv, PlacesInv
  <2> QED BY <2>1, <2>2
<1>9. NoneLost'
  <2> SUFFICES ASSUME alive', NEW c \in PoolBufs
               PROVE  pool'[c] > 0 \/ Received(c)' \/ Cached(c)' \/ ToBeSent(c)'
    BY <1>3 DEF NoneLost, PoolBufs
  <2>1. c \in Bufs
    <3>1. scenario.num_bufs \in 1 .. MaxBufs /\ MaxBufs \in Nat
      BY <1>1, SharingAssumption DEF TypeOK, IsScenario
    <3> QED BY <3>1 DEF PoolBufs, Bufs
  <2>2. pool[c] > 0 \/ Received(c) \/ Cached(c) \/ ToBeSent(c)
    BY <1>1 DEF OwnInv, NoneLost
  <2>3. CASE c \in S
    BY <1>6, <2>1, <2>3
  <2>4. CASE c \notin S
    BY <1>4, <1>6, <2>1, <2>2, <2>4
  <2> QED BY <2>3, <2>4
<1>10. QueuesInv'
  <2>1. Once(rxq)' /\ Once(mx_bufs)' /\ \A c \in Bufs : ~(In(c, rxq)' /\ In(c, mx_bufs)')
    BY <1>1, <1>3 DEF OwnInv, QueuesInv, Once, In
  <2>2. Once(mx_tx_bufs)'
    BY DEF Once
  <2>3. \A f \in Entry : In(f, mx_tx_bufs)' => In(f, mx_tx_bufs)
    BY DEF In
  <2> QED BY <1>1, <2>1, <2>2, <2>3 DEF OwnInv, QueuesInv
<1>11. RowsInv' /\ CountInv'
  BY <1>1, <1>3 DEF OwnInv, RowsInv, CountInv
<1>12. ReceivedInv'
  <2>1. \A c \in Bufs : Received(c) => content'[c] = content[c]
    BY <1>5, <1>6
  <2>2. \A c \in Bufs : \A q : Received(c) => (Holds(c, q)' <=> Holds(c, q))
    BY <1>3, <2>1, SameBuild DEF Holds, RowOf, EmptyRow
  <2>3. \A q : IsNew(q)' <=> IsNew(q)
    BY <1>3 DEF IsNew, Arrived, DuPackets
  <2> QED BY <1>1, <1>3, <1>4, <2>2, <2>3 DEF ReceivedInv
<1>13. CachedInv'
  <2>1. ASSUME NEW l \in Keys, NEW d \in Dus, cached_du_packets'[l][d] # NULL
        PROVE  /\ cached_du_packets'[l][d] = cached_du_packets[l][d]
               /\ content'[cached_du_packets'[l][d]] = content[cached_du_packets[l][d]]
    <3>1. cached_du_packets[l][d] \in Bufs /\ Cached(cached_du_packets[l][d])
      BY <1>1, <1>3, <2>1 DEF TypeOK, Cached, InRow
    <3> QED BY <1>3, <1>5, <1>6, <3>1
  <2> QED BY <1>1, <2>1, CachedAfter
<1>14. TxInv'
  <2> SUFFICES ASSUME NEW f \in Entry, In(f, mx_tx_bufs)'
               PROVE  IF f.to = RU THEN SectionsOfAll(content[f.buf])'
                      ELSE \E p \in Packet : IsOne(content'[f.buf], p)
                                             /\ IsTheirs(p, f.to)
    BY SameBuild DEF TxInv, IsOne
  <2>1. In(f, mx_tx_bufs)
    BY DEF In
  <2>2. f.buf \in Bufs \ S
    BY DEF Entry, ToBeSent
  <2>3. content'[f.buf] = content[f.buf]
    BY <1>5, <2>2
  <2>4. SectionsOfAll(content[f.buf])' <=> SectionsOfAll(content[f.buf])
    BY <1>3, <2>3 DEF SectionsOfAll
  <2> QED BY <1>1, <2>1, <2>3, <2>4 DEF TxInv
<1>15. TypeOK'
  <2>1. mx_tx_bufs' \in Seq([to : Dus \cup {RU}, buf : Bufs])
    BY DEF Entry
  <2> QED BY <1>1, <1>3, <1>5, <1>7, <2>1 DEF TypeOK, Rows
<1>16. OwnInv' /\ ContentInv'
  BY <1>8, <1>9, <1>10, <1>11, <1>12, <1>13, <1>14 DEF OwnInv, ContentInv
<1> QED BY <1>2, <1>11, <1>15, <1>16 DEF Inv, EnvInv, StrayInv

\* The RU's answers are packets of its own.
LEMMA AnswersAreRus ==
  ASSUME NEW row \in Rows
  PROVE  Answers(row) \in SUBSET Packet /\ \A p \in Answers(row) : p.kind \in RuKinds
<1>1. \A d \in Dus : row[d] # NULL => row[d] \in Packet
  BY DEF Rows
<1>2. ASSUME NEW q \in Packet, NEW s \in Symbols, NEW kind \in RuKinds
      PROVE  RuPacket(kind, q, s) \in Packet /\ RuPacket(kind, q, s).kind = kind
  BY DEF RuPacket, Packet, RuKinds
<1>3. \A q \in Packet : q.symbol \in Symbols /\ q.asks \in SUBSET Symbols
  BY PacketParts
<1>4. ASSUME NEW p \in Answers(row)
      PROVE  \E q \in Packet, s \in Symbols, kind \in RuKinds : p = RuPacket(kind, q, s)
  <2>1. \A q \in {row[d] : d \in Dus} \ {NULL} : q \in Packet
    BY <1>1
  <2>2. \/ \E q \in {row[d] : d \in Dus} \ {NULL} : \E s \in q.asks : p = RuPacket("ul_data", q, s)
        \/ \E q \in {row[d] : d \in Dus} \ {NULL} : p = RuPacket("prach_data", q, q.symbol)
    <3> DEFINE requests == {row[d] : d \in Dus} \ {NULL}
               answersTo(q) == {RuPacket("ul_data", q, s) : s \in q.asks}
               U == UNION {answersTo(q) : q \in {r \in requests : r.kind = "ul_control"}}
               V == {RuPacket("prach_data", q, q.symbol) :
                       q \in {r \in requests : r.kind = "prach_control" /\ r.du = 0}}
    <3>1. p \in U \/ p \in V
      <4>1. Answers(row) = U \cup V
        BY Zenon DEF Answers
      <4> HIDE DEF U, V
      <4> QED BY <4>1
    <3> HIDE DEF requests
    <3>2. CASE p \in U
      BY <3>2 DEF requests
    <3>3. CASE p \in V
      BY <3>3 DEF requests
    <3> QED BY <3>1, <3>2, <3>3
  <2>3. CASE \E q \in {row[d] : d \in Dus} \ {NULL} : \E s \in q.asks : p = RuPacket("ul_data", q, s)
    <3>1. PICK q \in {row[d] : d \in Dus} \ {NULL} : \E s \in q.asks : p = RuPacket("ul_data", q, s)
      BY <2>3
    <3>2. PICK s \in q.asks : p = RuPacket("ul_data", q, s)
      BY <3>1
    <3>3. q \in Packet /\ s \in Symbols
      BY <1>3, <2>1
    <3> QED BY <3>2, <3>3 DEF RuKinds
  <2>4. CASE \E q \in {row[d] : d \in Dus} \ {NULL} : p = RuPacket("prach_data", q, q.symbol)
    BY <1>3, <2>1, <2>4 DEF RuKinds
  <2> QED BY <2>2, <2>3, <2>4
<1> QED BY <1>2, <1>4

\* The entry that is sent first.
LEMMA HeadEntry ==
  ASSUME Inv, mx_tx_bufs # <<>>
  PROVE  LET e == Head(mx_tx_bufs)
         IN  /\ e \in Entry /\ In(e, mx_tx_bufs) /\ e.buf \in Bufs /\ ToBeSent(e.buf)
             /\ content[e.buf] \in Rows
             /\ e.to = RU \/ e.to \in Dus
             /\ e.to # RU => \E p \in Packet : IsOne(content[e.buf], p) /\ PacketIn(e.buf) = p
                                               /\ IsTheirs(p, e.to)
             /\ e.to = RU => SectionsOfAll(content[e.buf])
             /\ Tail(mx_tx_bufs) \in Seq(Entry) /\ Once(Tail(mx_tx_bufs))
             /\ \A f : In(f, Tail(mx_tx_bufs)) <=> In(f, mx_tx_bufs) /\ f # e
             /\ \A f \in Entry : In(f, mx_tx_bufs) /\ f.buf = e.buf => f = e
<1> DEFINE e == Head(mx_tx_bufs)
<1>1. mx_tx_bufs \in Seq(Entry) /\ Once(mx_tx_bufs) /\ TypeOK /\ TxInv
  BY DEF Inv, TypeOK, Entry, OwnInv, QueuesInv, ContentInv
<1>2. /\ e \in Entry /\ In(e, mx_tx_bufs) /\ Once(Tail(mx_tx_bufs))
      /\ \A f : In(f, Tail(mx_tx_bufs)) <=> In(f, mx_tx_bufs) /\ f # e
  BY <1>1, HeadTaken
<1>3. Tail(mx_tx_bufs) \in Seq(Entry)
  BY <1>1
<1> HIDE DEF e
<1>4. e.buf \in Bufs /\ ToBeSent(e.buf) /\ (e.to = RU \/ e.to \in Dus)
  BY <1>2 DEF Entry, ToBeSent
<1>5. content[e.buf] \in Rows
  BY <1>1, <1>4 DEF TypeOK
<1>6. e.to # RU => \E p \in Packet : IsOne(content[e.buf], p) /\ PacketIn(e.buf) = p
                                     /\ IsTheirs(p, e.to)
  BY <1>1, <1>2, OnePacket DEF TxInv
<1>7. e.to = RU => SectionsOfAll(content[e.buf])
  BY <1>1, <1>2 DEF TxInv
<1>8. \A f \in Entry : In(f, mx_tx_bufs) /\ f.buf = e.buf => f = e
  BY <1>2 DEF Inv, OwnInv, QueuesInv
<1> QED BY <1>2, <1>3, <1>4, <1>5, <1>6, <1>7, <1>8 DEF e

\* The first packet to be sent is sent, its mbuf then free,
LEMMA OneSent == Inv /\ TxOne => Inv'
<1> SUFFICES ASSUME Inv, TxOne PROVE Inv'
  OBVIOUS
<1> DEFINE e == Head(mx_tx_bufs)
<1>1. /\ alive /\ mx_tx_bufs # <<>>
      /\ IF e.to = RU
         THEN to_ru' = Append(to_ru, content[e.buf]) /\ owed' = owed \cup Answers(content[e.buf])
              /\ UNCHANGED to_du
         ELSE /\ to_du' = Append(to_du, [du |-> e.to, packet |-> PacketIn(e.buf)])
              /\ UNCHANGED <<to_ru, owed>>
      /\ FreeAll({e.buf})
      /\ mx_tx_bufs' = Tail(mx_tx_bufs)
      /\ UNCHANGED <<rxq, mx_bufs, cacheVars, prachVars, alive, scenario, frame, sent, missing, stray>>
  BY DEF TxOne
<1>2. /\ e \in Entry /\ In(e, mx_tx_bufs) /\ e.buf \in Bufs /\ ToBeSent(e.buf)
      /\ content[e.buf] \in Rows
      /\ e.to = RU \/ e.to \in Dus
      /\ e.to # RU => PacketIn(e.buf) \in Packet
      /\ Tail(mx_tx_bufs) \in Seq(Entry) /\ Once(Tail(mx_tx_bufs))
      /\ \A f : In(f, Tail(mx_tx_bufs)) <=> In(f, mx_tx_bufs) /\ f # e
      /\ \A f \in Entry : In(f, mx_tx_bufs) /\ f.buf = e.buf => f = e
  BY <1>1, HeadEntry
<1> HIDE DEF e
<1>3. \A f : In(f, mx_tx_bufs)' <=> In(f, mx_tx_bufs) /\ f # e
  BY <1>1, <1>2 DEF In
<1>4. \A c \in Bufs : ToBeSent(c)' <=> ToBeSent(c) /\ c \notin {e.buf}
  BY <1>2, <1>3 DEF ToBeSent
<1>5. /\ to_ru \in Seq(Rows) /\ to_du \in Seq([du : Dus, packet : Packet])
      /\ owed \in SUBSET Packet /\ \A p \in owed : p.kind \in RuKinds
      /\ alive \in BOOLEAN
  BY DEF Inv, TypeOK, EnvInv
<1>6. /\ to_ru' \in Seq(Rows) /\ to_du' \in Seq([du : Dus, packet : Packet])
      /\ owed' \in SUBSET Packet /\ \A p \in owed' : p.kind \in RuKinds
  <2>1. CASE e.to = RU
    <3>1. Answers(content[e.buf]) \in SUBSET Packet
          /\ \A p \in Answers(content[e.buf]) : p.kind \in RuKinds
      BY <1>2, AnswersAreRus
    <3>2. to_ru' = Append(to_ru, content[e.buf]) /\ to_du' = to_du
          /\ owed' = owed \cup Answers(content[e.buf])
      BY <1>1, <2>1
    <3>3. to_ru' \in Seq(Rows)
      BY <1>2, <1>5, <3>2
    <3> QED BY <1>5, <3>1, <3>2, <3>3
  <2>2. CASE e.to # RU
    <3>1. [du |-> e.to, packet |-> PacketIn(e.buf)] \in [du : Dus, packet : Packet]
      BY <1>2, <2>2
    <3>2. to_du' = Append(to_du, [du |-> e.to, packet |-> PacketIn(e.buf)])
          /\ to_ru' = to_ru /\ owed' = owed
      BY <1>1, <2>2
    <3> HIDE DEF Inv
    <3>3. to_du' \in Seq([du : Dus, packet : Packet])
      BY <1>5, <3>1, <3>2
    <3> QED BY <1>5, <3>2, <3>3
  <2> QED BY <2>1, <2>2
<1>7. /\ {e.buf} \in SUBSET Bufs /\ \A c \in {e.buf} : ToBeSent(c)
      /\ mx_tx_bufs' \in Seq(Entry) /\ Once(mx_tx_bufs')
      /\ \A f \in Entry : In(f, mx_tx_bufs') => In(f, mx_tx_bufs)
  BY <1>1, <1>2
<1>8. /\ mx_tx_bufs # <<>> /\ FreeAll({e.buf}) /\ alive' \in BOOLEAN /\ (alive' => alive)
      /\ UNCHANGED <<rxq, mx_bufs, cacheVars, prachVars, scenario, frame, sent, missing, stray>>
  BY <1>1, <1>5
<1> QED BY <1>4, <1>6, <1>7, <1>8, InvAfterSending

\* or all of them are freed for lack of room.
LEMMA QueueFull == Inv /\ TxFull => Inv'
<1> SUFFICES ASSUME Inv, TxFull PROVE Inv'
  OBVIOUS
<1> DEFINE S == {mx_tx_bufs[i].buf : i \in DOMAIN mx_tx_bufs}
<1>1. /\ alive /\ mx_tx_bufs # <<>> /\ FreeAll(S) /\ mx_tx_bufs' = <<>>
      /\ alive' = ~scenario.asserts
      /\ UNCHANGED <<rxq, mx_bufs, cacheVars, prachVars, envVars, to_ru, to_du>>
  BY DEF TxFull
<1>2. mx_tx_bufs \in Seq(Entry)
  BY DEF Inv, TypeOK, Entry
<1>3. \A i \in DOMAIN mx_tx_bufs : mx_tx_bufs[i] \in Entry /\ In(mx_tx_bufs[i], mx_tx_bufs)
  BY <1>2 DEF In
<1>4. \A e \in Entry : e.buf \in Bufs
  BY DEF Entry
<1>5. S \in SUBSET Bufs /\ \A c \in S : ToBeSent(c)
  BY <1>3, <1>4 DEF ToBeSent
<1>6. \A c : ToBeSent(c) => c \in S
  BY <1>2 DEF ToBeSent, In
<1> HIDE DEF S
<1>7. \A f : ~In(f, mx_tx_bufs')
  BY <1>1 DEF In
<1>8. \A c \in Bufs : ToBeSent(c)' <=> ToBeSent(c) /\ c \notin S
  BY <1>1, <1>6 DEF ToBeSent, In
<1>9. mx_tx_bufs' \in Seq(Entry) /\ Once(mx_tx_bufs')
  BY <1>1 DEF Once
<1>10. /\ to_ru' \in Seq(Rows) /\ to_du' \in Seq([du : Dus, packet : Packet])
       /\ owed' \in SUBSET Packet /\ \A p \in owed' : p.kind \in RuKinds
  BY <1>1 DEF Inv, TypeOK, EnvInv, envVars
<1>11. UNCHANGED <<rxq, mx_bufs, cacheVars, prachVars, scenario, frame, sent, missing, stray>>
  BY <1>1 DEF envVars
<1>12. alive' \in BOOLEAN /\ (alive' => alive)
  BY <1>1
<1>13. \A f \in Entry : In(f, mx_tx_bufs') => In(f, mx_tx_bufs)
  BY <1>7
<1> QED BY <1>1, <1>5, <1>8, <1>9, <1>10, <1>11, <1>12, <1>13, InvAfterSending

\* The mbufs stay as they are, but for the queue of received ones they are in.
LEMMA InvWhenUnmoved ==
  ASSUME Inv, TypeOK', EnvInv', StrayInv',
         UNCHANGED <<memory, mx_tx_bufs, cacheVars, scenario, stray, alive>>,
         \A c \in Bufs : Received(c)' <=> Received(c),
         Once(rxq)', Once(mx_bufs)', \A c \in Bufs : ~(In(c, rxq)' /\ In(c, mx_bufs)'),
         \A c \in Bufs, p \in Packet : Received(c) /\ IsNew(p) => IsNew(p)'
  PROVE  Inv'
<1>1. UNCHANGED <<pool, content, mx_tx_bufs, cached_du_packets, cached_du_packets_num,
                  scenario, stray, alive>>
  BY DEF memory, cacheVars
<1>2. \A c : (Cached(c)' <=> Cached(c)) /\ (ToBeSent(c)' <=> ToBeSent(c))
  BY <1>1 DEF Cached, ToBeSent, In
<1>3. \A f : In(f, mx_tx_bufs)' <=> In(f, mx_tx_bufs)
  BY <1>1 DEF In
<1>4. OwnInv'
  <2>1. QueuesInv'
    BY <1>1, <1>3 DEF Inv, OwnInv, QueuesInv, Once
  <2>2. RowsInv'
    BY <1>1 DEF Inv, OwnInv, RowsInv
  <2>3. PlacesInv'
    BY <1>1, <1>2 DEF Inv, OwnInv, PlacesInv
  <2>4. PoolBufs \subseteq Bufs /\ PoolBufs' = PoolBufs
    BY <1>1, SharingAssumption DEF Inv, TypeOK, IsScenario, PoolBufs, Bufs
  <2>5. NoneLost'
    BY <1>1, <1>2, <2>4 DEF Inv, OwnInv, NoneLost
  <2> QED BY <2>1, <2>2, <2>3, <2>5 DEF OwnInv
<1>5. ReceivedInv'
  <2>1. \A c : \A q : Holds(c, q)' <=> Holds(c, q)
    BY <1>1, SameBuild DEF Holds, RowOf, EmptyRow
  <2> QED BY <1>1, <2>1 DEF Inv, ContentInv, ReceivedInv
<1>6. CachedInv'
  BY <1>1 DEF Inv, ContentInv, CachedInv
<1>7. TxInv'
  BY <1>1, <1>3, SameBuild DEF Inv, ContentInv, TxInv, SectionsOfAll, IsOne
<1>8. CountInv'
  BY <1>1 DEF Inv, CountInv
<1> QED BY <1>4, <1>5, <1>6, <1>7, <1>8 DEF Inv, ContentInv

\* The thread takes a burst from the NIC.
LEMMA BurstReceived == Inv /\ RxBurst => Inv'
<1> SUFFICES ASSUME Inv, RxBurst PROVE Inv'
  OBVIOUS
<1> DEFINE n == AtMostBurst(rxq)
<1>1. /\ mx_bufs = <<>> /\ mx_bufs' = SubSeq(rxq, 1, n) /\ rxq' = SubSeq(rxq, n + 1, Len(rxq))
      /\ UNCHANGED <<memory, mx_tx_bufs, cacheVars, prachVars, alive, envVars, to_ru, to_du>>
  BY DEF RxBurst
<1>2. rxq \in Seq(Bufs) /\ Once(rxq) /\ TypeOK
  BY DEF Inv, TypeOK, OwnInv, QueuesInv
<1>3. n \in 0 .. Len(rxq)
  BY <1>2, SharingAssumption DEF AtMostBurst
<1> HIDE DEF n
<1>4. /\ mx_bufs' \in Seq(Bufs) /\ rxq' \in Seq(Bufs) /\ Once(mx_bufs') /\ Once(rxq')
      /\ \A b : (In(b, mx_bufs') \/ In(b, rxq') <=> In(b, rxq)) /\ ~(In(b, mx_bufs') /\ In(b, rxq'))
  BY <1>1, <1>2, <1>3, BurstTaken
<1>5. \A b : (In(b, mx_bufs)' <=> In(b, mx_bufs')) /\ (In(b, rxq)' <=> In(b, rxq'))
  BY DEF In
<1>6. \A b : ~In(b, mx_bufs)
  BY <1>1 DEF In
<1>7. Once(mx_bufs)' /\ Once(rxq)' /\ \A b \in Bufs : ~(In(b, rxq)' /\ In(b, mx_bufs)')
  BY <1>4, <1>5 DEF Once
<1>8. \A b \in Bufs : Received(b)' <=> Received(b)
  BY <1>4, <1>5, <1>6 DEF Received
<1>9. UNCHANGED <<memory, mx_tx_bufs, cacheVars, scenario, stray, alive>>
  BY <1>1 DEF envVars
<1>10. \A p : IsNew(p)' <=> IsNew(p)
  BY <1>1 DEF IsNew, Arrived, DuPackets, envVars
<1>11. TypeOK'
  BY <1>1, <1>2, <1>4 DEF TypeOK, memory, cacheVars, prachVars, envVars
<1>12. EnvInv' /\ StrayInv'
  BY <1>1 DEF Inv, EnvInv, StrayInv, DuPackets, envVars
<1> QED BY <1>7, <1>8, <1>9, <1>10, <1>11, <1>12, InvWhenUnmoved

\* What is in a queue stays there, so long as the thread does nothing.
LEMMA QueuesUnmoved ==
  ASSUME Inv, UNCHANGED <<rxq, mx_bufs>>
  PROVE  /\ \A c \in Bufs : Received(c)' <=> Received(c)
         /\ Once(rxq)' /\ Once(mx_bufs)' /\ \A c \in Bufs : ~(In(c, rxq)' /\ In(c, mx_bufs)')
BY DEF Inv, OwnInv, QueuesInv, Received, Once, In

\* The packets of a frame's schedule are packets of DUs in that frame.
LEMMA DuPacketParts ==
  ASSUME TypeOK, NEW p, NEW f \in RadioFrames, p \in DuPackets(f)
  PROVE  p \in Packet /\ p.kind \in DuKinds /\ p.frame = f
<1>1. scenario.schedule \in SUBSET Message
  BY SharingAssumption DEF TypeOK, IsScenario
<1>2. PICK d \in Dus, m \in scenario.schedule : p = DuPacket(d, m, f)
  BY DEF DuPackets
<1>3. m \in Message
  BY <1>1, <1>2
<1> QED BY <1>2, <1>3 DEF DuPacket, Packet, Message

\* A packet of a DU that is lost on the way touches no mbuf,
LEMMA DuMissed == Inv /\ MissDu => Inv'
<1> SUFFICES ASSUME Inv, MissDu PROVE Inv'
  OBVIOUS
<1>1. PICK p \in DuPackets(frame) \ sent :
        /\ sent' = sent \cup {p} /\ missing' = missing \cup {p}
        /\ UNCHANGED <<memory, rxq, mx_bufs, mx_tx_bufs, cacheVars, prachVars, alive, scenario,
                       frame, stray, owed, to_ru, to_du>>
  BY DEF MissDu
<1>2. TypeOK /\ frame \in RadioFrames
  BY DEF Inv, TypeOK
<1>3. p \in Packet
  BY <1>1, <1>2, DuPacketParts
<1>4. TypeOK'
  BY <1>1, <1>2, <1>3 DEF TypeOK, memory, cacheVars, prachVars
<1>5. stray = 0
  <2>1. stray \in Nat
    BY <1>2, SharingAssumption DEF TypeOK, IsScenario
  <2> QED BY <1>1, <2>1 DEF Inv, StrayInv
<1>6. EnvInv' /\ StrayInv'
  BY <1>1, <1>5 DEF Inv, EnvInv, StrayInv
<1>7. ASSUME NEW q \in Packet, IsNew(q) PROVE IsNew(q)'
  <2> SUFFICES ASSUME q.kind \in DuKinds PROVE q \in Arrived' /\ q \in sent' /\ q.frame = frame'
    BY DEF IsNew
  <2>1. q \in Arrived /\ q \in sent /\ q.frame = frame
    BY <1>7 DEF IsNew
  <2>2. q # p
    BY <1>1, <2>1
  <2>3. q \in Arrived'
    BY <1>1, <2>1, <2>2 DEF Arrived, DuPackets
  <2> QED BY <1>1, <2>1, <2>3
<1>8. UNCHANGED <<memory, mx_tx_bufs, cacheVars, scenario, stray, alive>> /\ UNCHANGED <<rxq, mx_bufs>>
  BY <1>1
<1>9. /\ \A c \in Bufs : Received(c)' <=> Received(c)
      /\ Once(rxq)' /\ Once(mx_bufs)' /\ \A c \in Bufs : ~(In(c, rxq)' /\ In(c, mx_bufs)')
  BY <1>8, QueuesUnmoved
<1> QED BY <1>4, <1>6, <1>7, <1>8, <1>9, InvWhenUnmoved

\* nor does one of the RU,
LEMMA RuMissed == Inv /\ MissRu => Inv'
<1> SUFFICES ASSUME Inv, MissRu PROVE Inv'
  OBVIOUS
<1>1. PICK p \in owed :
        /\ owed' = owed \ {p} /\ missing' = missing \cup {p}
        /\ UNCHANGED <<memory, rxq, mx_bufs, mx_tx_bufs, cacheVars, prachVars, alive, scenario,
                       frame, sent, stray, to_ru, to_du>>
  BY DEF MissRu
<1>2. TypeOK /\ p \in Packet /\ p.kind \in RuKinds
  BY <1>1 DEF Inv, TypeOK, EnvInv
<1>3. p.kind \notin DuKinds
  BY <1>2 DEF DuKinds, Refused, RuKinds
<1>4. TypeOK'
  BY <1>1, <1>2 DEF TypeOK, memory, cacheVars, prachVars
<1>5. stray = 0
  <2>1. stray \in Nat
    BY <1>2, SharingAssumption DEF TypeOK, IsScenario
  <2> QED BY <1>1, <2>1 DEF Inv, StrayInv
<1>6. EnvInv' /\ StrayInv'
  BY <1>1, <1>3, <1>5 DEF Inv, EnvInv, StrayInv
<1>7. ASSUME NEW q \in Packet, IsNew(q) PROVE IsNew(q)'
  <2> SUFFICES ASSUME q.kind \in DuKinds PROVE q \in Arrived' /\ q \in sent' /\ q.frame = frame'
    BY DEF IsNew
  <2>1. q \in Arrived /\ q \in sent /\ q.frame = frame
    BY <1>7 DEF IsNew
  <2>2. q # p
    BY <1>3
  <2>3. q \in Arrived'
    BY <1>1, <2>1, <2>2 DEF Arrived, DuPackets
  <2> QED BY <1>1, <2>1, <2>3
<1>8. UNCHANGED <<memory, mx_tx_bufs, cacheVars, scenario, stray, alive>> /\ UNCHANGED <<rxq, mx_bufs>>
  BY <1>1
<1>9. /\ \A c \in Bufs : Received(c)' <=> Received(c)
      /\ Once(rxq)' /\ Once(mx_bufs)' /\ \A c \in Bufs : ~(In(c, rxq)' /\ In(c, mx_bufs)')
  BY <1>8, QueuesUnmoved
<1> QED BY <1>4, <1>6, <1>7, <1>8, <1>9, InvWhenUnmoved

\* nor the next frame.
LEMMA FrameEnded == Inv /\ NextFrame => Inv'
<1> SUFFICES ASSUME Inv, NextFrame PROVE Inv'
  OBVIOUS
<1>1. /\ frame < scenario.max_frame /\ sent = DuPackets(frame) /\ rxq = <<>> /\ mx_bufs = <<>>
      /\ frame' = frame + 1 /\ sent' = {}
      /\ UNCHANGED <<memory, rxq, mx_bufs, mx_tx_bufs, cacheVars, prachVars, alive, scenario,
                     missing, stray, owed, to_ru, to_du>>
  BY DEF NextFrame, Quiet
<1>2. TypeOK /\ frame \in RadioFrames
  BY DEF Inv, TypeOK
<1>3. scenario.max_frame \in 0 .. MaxFrame /\ MaxFrame \in Nat
  BY <1>2, SharingAssumption DEF TypeOK, IsScenario
<1>4. frame' \in RadioFrames /\ frame \in Int
  BY <1>1, <1>2, <1>3 DEF RadioFrames
<1>5. TypeOK'
  BY <1>1, <1>2, <1>4 DEF TypeOK, memory, cacheVars, prachVars
<1>6. stray = 0
  <2>1. stray \in Nat
    BY <1>2, SharingAssumption DEF TypeOK, IsScenario
  <2> QED BY <1>1, <1>3, <1>4, <2>1 DEF Inv, StrayInv
<1>7. EnvInv' /\ StrayInv'
  <2>1. \A p \in sent : p.frame = frame
    BY <1>1, <1>2, DuPacketParts
  <2>2. \A p \in missing : p.frame \in Int
    BY <1>2 DEF TypeOK, Packet, RadioFrames
  <2>3. \A p \in missing : p.kind \in DuKinds => p.frame < frame + 1
    BY <1>4, <2>1, <2>2 DEF Inv, EnvInv
  <2> QED BY <1>1, <1>6, <2>3 DEF Inv, EnvInv, StrayInv
<1>8. UNCHANGED <<memory, mx_tx_bufs, cacheVars, scenario, stray, alive>> /\ UNCHANGED <<rxq, mx_bufs>>
  BY <1>1
<1>9. /\ \A c \in Bufs : Received(c)' <=> Received(c)
      /\ Once(rxq)' /\ Once(mx_bufs)' /\ \A c \in Bufs : ~(In(c, rxq)' /\ In(c, mx_bufs)')
  BY <1>8, QueuesUnmoved
<1>10. \A c : ~Received(c)
  BY <1>1 DEF Received, In
<1> QED BY <1>5, <1>7, <1>8, <1>9, <1>10, InvWhenUnmoved

\* A packet is received in a free mbuf.  When stray packets come nothing else is
\* received and not handled.
LEMMA InvAfterReceive ==
  ASSUME Inv, NEW row \in Rows, NicReceive(row), scenario' = scenario,
         frame' \in RadioFrames, sent' \in SUBSET Packet, missing' \in SUBSET Packet,
         owed' \in SUBSET Packet, stray' \in 0 .. scenario.max_stray, EnvInv',
         stray = 0 \/ (rxq = <<>> /\ mx_bufs = <<>>), stray' = 0 => stray = 0, StrayInv',
         \E p \in Packet : row = (IF p.kind = "prach_data" THEN AnswerRow(p) ELSE RowOf(p))
                           /\ IsNew(p)' /\ (p.kind \in StrayKinds <=> stray' > 0),
         \A c \in Bufs, p \in Packet : Received(c) /\ IsNew(p) => IsNew(p)',
         (rxq = <<>> /\ mx_bufs = <<>>) \/ stray' = stray
  PROVE  /\ Inv' /\ Nth(LowestFree(1), 1) \in Bufs
         /\ ~Received(Nth(LowestFree(1), 1)) /\ content'[Nth(LowestFree(1), 1)] = row
         /\ \A c \in Bufs : Received(c)' <=> Received(c) \/ c = Nth(LowestFree(1), 1)
         /\ \A c \in Bufs \ {Nth(LowestFree(1), 1)} : content'[c] = content[c]
<1> DEFINE new == Nth(LowestFree(1), 1)
<1>1. /\ Free # {} /\ FreeAndFill({}, Filled(LowestFree(1), row)) /\ rxq' = Append(rxq, new)
      /\ UNCHANGED <<mx_bufs, mx_tx_bufs, cacheVars, prachVars, alive, to_ru, to_du>>
  BY DEF NicReceive
<1>2. LowestFree(1) = {new} /\ new \in Free
  BY <1>1, NewMbuf
<1>3. new \in Bufs /\ pool[new] > 0
  BY <1>2 DEF Free
<1> HIDE DEF new
<1>4. TypeOK /\ OwnInv /\ CountInv /\ ReceivedInv /\ CachedInv /\ TxInv
  BY DEF Inv, ContentInv
<1>5. UNCHANGED <<mx_bufs, mx_tx_bufs, cached_du_packets, cached_du_packets_num, pending_ul_packet,
                  next_prach_counter, next_prach, alive, to_ru, to_du, scenario>>
  BY <1>1 DEF cacheVars, prachVars
<1>6. ~Cached(new) /\ ~ToBeSent(new) /\ ~Received(new)
  <2>1. ~Cached(new) /\ ~ToBeSent(new) /\ (stray = 0 => ~Received(new))
    BY <1>3, <1>4 DEF OwnInv, PlacesInv
  <2>2. rxq = <<>> /\ mx_bufs = <<>> => ~Received(new)
    BY DEF Received, In
  <2> QED BY <2>1, <2>2
<1>7. /\ FreedAndFilled({}, {new}) /\ content' \in [Bufs -> Rows] /\ content'[new] = row
      /\ \A c \in Bufs \ {new} : content'[c] = content[c]
  <2>1. DOMAIN Filled(LowestFree(1), row) = {new} /\ Filled(LowestFree(1), row)[new] = row
    BY <1>2 DEF Filled
  <2>2. DOMAIN Filled(LowestFree(1), row) \in SUBSET Bufs
        /\ \A c \in DOMAIN Filled(LowestFree(1), row) : Filled(LowestFree(1), row)[c] \in Rows
    BY <1>3, <2>1
  <2>3. {} \in SUBSET Bufs
    OBVIOUS
  <2>4. /\ FreedAndFilled({}, DOMAIN Filled(LowestFree(1), row)) /\ content' \in [Bufs -> Rows]
        /\ \A c \in Bufs \ ({} \cup DOMAIN Filled(LowestFree(1), row)) : content'[c] = content[c]
        /\ \A c \in DOMAIN Filled(LowestFree(1), row) : content'[c] = Filled(LowestFree(1), row)[c]
    BY <1>1, <1>4, <2>2, <2>3, Filling
  <2> QED BY <2>1, <2>4
<1>8. ASSUME NEW c \in Bufs
      PROVE  pool'[c] = IF c = new THEN pool[c] - 1 ELSE pool[c]
  <2>1. pool[c] \in Nat
    BY <1>4 DEF TypeOK
  <2> QED BY <1>7, <2>1 DEF FreedAndFilled
<1>9. pool' \in [Bufs -> Nat]
  <2>1. \A c \in Bufs : pool'[c] \in Nat
    BY <1>3, <1>4, <1>8 DEF TypeOK
  <2> QED BY <1>7, <2>1 DEF FreedAndFilled
<1>10. /\ rxq' \in Seq(Bufs) /\ Once(rxq')
       /\ \A c : In(c, rxq') <=> In(c, rxq) \/ c = new
  <2>1. rxq \in Seq(Bufs) /\ Once(rxq) /\ ~In(new, rxq)
    BY <1>4, <1>6 DEF TypeOK, OwnInv, QueuesInv, Received
  <2>2. Append(rxq, new) \in Seq(Bufs)
    BY <1>3, <2>1
  <2> QED BY <1>1, <1>3, <2>1, <2>2, Appended
<1>11. \A c : (In(c, rxq)' <=> In(c, rxq) \/ c = new) /\ (In(c, mx_bufs)' <=> In(c, mx_bufs))
  BY <1>5, <1>10 DEF In
<1>12. \A c : Received(c)' <=> Received(c) \/ c = new
  BY <1>11 DEF Received
<1>13. \A c : (Cached(c)' <=> Cached(c)) /\ (ToBeSent(c)' <=> ToBeSent(c))
  BY <1>5 DEF Cached, ToBeSent, In
<1>14. QueuesInv'
  <2>1. Once(rxq)' /\ Once(mx_bufs)'
    BY <1>4, <1>5, <1>10 DEF Once, OwnInv, QueuesInv
  <2>2. \A c \in Bufs : ~(In(c, rxq)' /\ In(c, mx_bufs)')
    BY <1>4, <1>6, <1>11 DEF OwnInv, QueuesInv, Received
  <2>3. Once(mx_tx_bufs)'
        /\ \A e, f \in Entry : (In(e, mx_tx_bufs) /\ In(f, mx_tx_bufs) /\ e.buf = f.buf)' => e = f
    BY <1>4, <1>5 DEF OwnInv, QueuesInv, Once, In
  <2> QED BY <2>1, <2>2, <2>3 DEF QueuesInv
<1>15. stray' = 0 => pool'[new] = 0
  <2>1. stray = 0 => pool[new] = 1
    BY <1>3, <1>4 DEF OwnInv, PlacesInv, TypeOK
  <2> QED BY <1>3, <1>8, <2>1
<1>16. PlacesInv'
  <2> SUFFICES ASSUME NEW c \in Bufs
               PROVE  /\ ~(Received(c)' /\ Cached(c)') /\ ~(Received(c)' /\ ToBeSent(c)')
                      /\ ~(Cached(c)' /\ ToBeSent(c)')
                      /\ pool'[c] > 0 => ~Cached(c)' /\ ~ToBeSent(c)' /\ (stray' = 0 => ~Received(c)')
                      /\ stray' = 0 => pool'[c] <= 1
    BY DEF PlacesInv
  <2>1. CASE c = new
    <3>1. ~Cached(c)' /\ ~ToBeSent(c)'
      BY <1>6, <1>13, <2>1
    <3> QED BY <1>15, <2>1, <3>1
  <2>2. CASE c # new
    <3>1. pool'[c] = pool[c] /\ (Received(c)' <=> Received(c))
      BY <1>8, <1>12, <2>2
    <3> QED BY <1>4, <1>13, <3>1 DEF OwnInv, PlacesInv
  <2> QED BY <2>1, <2>2
<1>17. NoneLost'
  <2> SUFFICES ASSUME alive', NEW c \in PoolBufs
               PROVE  pool'[c] > 0 \/ Received(c)' \/ Cached(c)' \/ ToBeSent(c)'
    BY <1>5 DEF NoneLost, PoolBufs
  <2>1. c \in Bufs
    BY <1>4, SharingAssumption DEF TypeOK, IsScenario, PoolBufs, Bufs
  <2>2. pool[c] > 0 \/ Received(c) \/ Cached(c) \/ ToBeSent(c)
    BY <1>4, <1>5 DEF OwnInv, NoneLost
  <2>3. c # new => pool'[c] = pool[c]
    BY <1>8, <2>1
  <2> QED BY <1>12, <1>13, <2>2, <2>3
<1>18. RowsInv' /\ CountInv'
  BY <1>4, <1>5 DEF OwnInv, RowsInv, CountInv
<1>19. ReceivedInv'
  <2> SUFFICES ASSUME NEW c \in Bufs, Received(c)'
               PROVE  \E p \in Packet : Holds(c, p)' /\ IsNew(p)' /\ (p.kind \in StrayKinds <=> stray' > 0)
    BY DEF ReceivedInv
  <2>1. CASE c = new
    <3>1. PICK p \in Packet : row = (IF p.kind = "prach_data" THEN AnswerRow(p) ELSE RowOf(p))
                              /\ IsNew(p)' /\ (p.kind \in StrayKinds <=> stray' > 0)
      OBVIOUS
    <3>2. Holds(c, p)'
      BY <1>5, <1>7, <2>1, <3>1, SameBuild DEF Holds, RowOf, EmptyRow
    <3> QED BY <3>1, <3>2
  <2>2. CASE c # new
    <3>1. Received(c) /\ content'[c] = content[c]
      BY <1>7, <1>12, <2>2
    <3>2. PICK p \in Packet : Holds(c, p) /\ IsNew(p) /\ (p.kind \in StrayKinds <=> stray > 0)
      BY <1>4, <3>1 DEF ReceivedInv
    <3>3. Holds(c, p)'
      BY <1>5, <3>1, <3>2, SameBuild DEF Holds, RowOf, EmptyRow
    <3>4. stray' = stray
      BY <3>1 DEF Received, In
    <3> QED BY <3>1, <3>2, <3>3, <3>4
  <2> QED BY <2>1, <2>2
<1>20. CachedInv'
  <2>1. ASSUME NEW l \in Keys, NEW d \in Dus, cached_du_packets'[l][d] # NULL
        PROVE  /\ cached_du_packets'[l][d] = cached_du_packets[l][d]
               /\ content'[cached_du_packets'[l][d]] = content[cached_du_packets[l][d]]
    <3>1. cached_du_packets[l][d] \in Bufs /\ Cached(cached_du_packets[l][d])
      BY <1>4, <1>5, <2>1 DEF TypeOK, Cached, InRow
    <3> QED BY <1>5, <1>6, <1>7, <3>1
  <2> QED BY <1>4, <2>1, CachedAfter
<1>21. TxInv'
  <2> SUFFICES ASSUME NEW f \in Entry, In(f, mx_tx_bufs)'
               PROVE  IF f.to = RU THEN SectionsOfAll(content[f.buf])'
                      ELSE \E p \in Packet : IsOne(content'[f.buf], p)
                                             /\ IsTheirs(p, f.to)
    BY SameBuild DEF TxInv, IsOne
  <2>1. In(f, mx_tx_bufs)
    BY <1>5 DEF In
  <2>2. f.buf \in Bufs \ {new}
    BY <1>6, <2>1 DEF Entry, ToBeSent
  <2>3. content'[f.buf] = content[f.buf]
    BY <1>7, <2>2
  <2>4. SectionsOfAll(content[f.buf])' <=> SectionsOfAll(content[f.buf])
    BY <2>3 DEF SectionsOfAll
  <2> QED BY <1>4, <2>1, <2>3, <2>4 DEF TxInv
<1>22. TypeOK'
  BY <1>4, <1>5, <1>7, <1>9, <1>10 DEF TypeOK, Rows
<1>23. Inv'
  BY <1>14, <1>16, <1>17, <1>18, <1>19, <1>20, <1>21, <1>22 DEF Inv, OwnInv, ContentInv
<1> QED BY <1>3, <1>6, <1>7, <1>12, <1>23 DEF new

\* A packet of a DU arrives in a free mbuf,
LEMMA DuPacketSent ==
  ASSUME Inv, NEW p \in DuPackets(frame) \ sent, sent' = sent \cup {p},
         NicReceive(RowOf(p)), UNCHANGED <<scenario, frame, missing, stray, owed>>
  PROVE  /\ Inv' /\ stray = 0 /\ p \in Packet /\ p.kind \in DuKinds /\ p \in Arrived'
         /\ Nth(LowestFree(1), 1) \in Bufs
         /\ ~Received(Nth(LowestFree(1), 1)) /\ content'[Nth(LowestFree(1), 1)] = RowOf(p)
         /\ \A c \in Bufs : Received(c)' <=> Received(c) \/ c = Nth(LowestFree(1), 1)
         /\ \A c \in Bufs \ {Nth(LowestFree(1), 1)} : content'[c] = content[c]
<1>1. TypeOK /\ frame \in RadioFrames
  BY DEF Inv, TypeOK
<1>2. p \in Packet /\ p.kind \in DuKinds /\ p.frame = frame
  BY <1>1, DuPacketParts
<1>3. stray = 0
  <2>1. stray \in Nat
    BY <1>1, SharingAssumption DEF TypeOK, IsScenario
  <2> QED BY <2>1 DEF Inv, StrayInv
<1>4. RowOf(p) \in Rows
  BY <1>2, PacketParts DEF RowOf, EmptyRow, Rows
<1>5. /\ frame' \in RadioFrames /\ sent' \in SUBSET Packet /\ missing' \in SUBSET Packet
      /\ owed' \in SUBSET Packet /\ stray' \in 0 .. scenario.max_stray
  BY <1>1, <1>2 DEF TypeOK
<1>6. EnvInv' /\ StrayInv'
  BY <1>3 DEF Inv, EnvInv, StrayInv
<1>7. p \notin missing
  <2>1. frame \in Int
    BY <1>1 DEF RadioFrames
  <2> QED BY <1>2, <2>1 DEF Inv, EnvInv
<1>8. p \in Arrived' /\ \A q : q \in Arrived => q \in Arrived'
  BY <1>7 DEF Arrived, DuPackets
<1>9. IsNew(p)' /\ \A q : IsNew(q) => IsNew(q)'
  BY <1>2, <1>8 DEF IsNew
<1>10. p.kind # "prach_data" /\ p.kind \notin StrayKinds /\ stray' = 0
  BY <1>2, <1>3 DEF DuKinds, Refused, StrayKinds
<1>11. \E q \in Packet : RowOf(p) = (IF q.kind = "prach_data" THEN AnswerRow(q) ELSE RowOf(q))
                         /\ IsNew(q)' /\ (q.kind \in StrayKinds <=> stray' > 0)
  BY <1>2, <1>9, <1>10
<1> HIDE DEF Inv
<1>12. /\ Inv' /\ Nth(LowestFree(1), 1) \in Bufs
       /\ ~Received(Nth(LowestFree(1), 1)) /\ content'[Nth(LowestFree(1), 1)] = RowOf(p)
       /\ \A c \in Bufs : Received(c)' <=> Received(c) \/ c = Nth(LowestFree(1), 1)
       /\ \A c \in Bufs \ {Nth(LowestFree(1), 1)} : content'[c] = content[c]
  BY <1>3, <1>4, <1>5, <1>6, <1>9, <1>11, InvAfterReceive
<1> QED BY <1>2, <1>3, <1>8, <1>12

\* and one of the RU, with the sections of all DUs when it is for PRACH,
LEMMA RuPacketSent ==
  ASSUME Inv, NEW p \in owed, owed' = owed \ {p}, UNCHANGED <<scenario, frame, sent, missing, stray>>,
         NicReceive(AnswerRow(p))
  PROVE  /\ Inv' /\ stray = 0 /\ p \in Packet /\ p.kind \in RuKinds
         /\ Nth(LowestFree(1), 1) \in Bufs /\ ~Received(Nth(LowestFree(1), 1))
         /\ content'[Nth(LowestFree(1), 1)] =
              IF p.kind = "prach_data" THEN AnswerRow(p) ELSE RowOf(p)
         /\ \A c \in Bufs : Received(c)' <=> Received(c) \/ c = Nth(LowestFree(1), 1)
         /\ \A c \in Bufs \ {Nth(LowestFree(1), 1)} : content'[c] = content[c]
<1> DEFINE row == IF p.kind = "prach_data" THEN AnswerRow(p) ELSE RowOf(p)
<1>1. TypeOK /\ p \in Packet /\ p.kind \in RuKinds
  BY DEF Inv, TypeOK, EnvInv
<1>2. AnswerRow(p) = row
  BY <1>1, AnswerRows
<1>3. stray = 0
  <2>1. stray \in Nat
    BY <1>1, SharingAssumption DEF TypeOK, IsScenario
  <2> QED BY <2>1 DEF Inv, StrayInv
<1>4. row \in Rows
  BY <1>1, <1>2, AnswerRows
<1>5. /\ frame' \in RadioFrames /\ sent' \in SUBSET Packet /\ missing' \in SUBSET Packet
      /\ owed' \in SUBSET Packet /\ stray' \in 0 .. scenario.max_stray
  BY <1>1 DEF TypeOK
<1>6. EnvInv' /\ StrayInv'
  BY <1>3 DEF Inv, EnvInv, StrayInv
<1>7. \A q : IsNew(q)' <=> IsNew(q)
  BY DEF IsNew, Arrived, DuPackets
<1>8. p.kind \notin DuKinds /\ p.kind \notin StrayKinds
  BY <1>1 DEF RuKinds, DuKinds, Refused, StrayKinds
<1>9. \E q \in Packet : row = (IF q.kind = "prach_data" THEN AnswerRow(q) ELSE RowOf(q))
                        /\ IsNew(q)' /\ (q.kind \in StrayKinds <=> stray' > 0)
  <2>1. IsNew(p)'
    BY <1>8 DEF IsNew
  <2> QED BY <1>1, <1>3, <1>8, <2>1
<1>10. NicReceive(row)
  BY <1>2
<1> HIDE DEF row
<1>11. /\ Inv' /\ Nth(LowestFree(1), 1) \in Bufs
       /\ ~Received(Nth(LowestFree(1), 1)) /\ content'[Nth(LowestFree(1), 1)] = row
       /\ \A c \in Bufs : Received(c)' <=> Received(c) \/ c = Nth(LowestFree(1), 1)
       /\ \A c \in Bufs \ {Nth(LowestFree(1), 1)} : content'[c] = content[c]
  BY <1>3, <1>4, <1>5, <1>6, <1>7, <1>9, <1>10, InvAfterReceive
<1> QED BY <1>1, <1>3, <1>11 DEF row

\* and one that is not for the middlebox, after all others.
LEMMA StraySent == Inv /\ SendStray => Inv'
<1> SUFFICES ASSUME Inv, SendStray PROVE Inv'
  OBVIOUS
<1>1. PICK d \in Dus, kind \in StrayKinds :
        /\ frame = scenario.max_frame /\ sent = DuPackets(frame) /\ Quiet
        /\ stray < scenario.max_stray /\ stray' = stray + 1
        /\ NicReceive([EmptyRow EXCEPT ![d] = Stray(kind, d)])
        /\ UNCHANGED <<scenario, frame, sent, missing, owed>>
  BY DEF SendStray
<1> DEFINE p == Stray(kind, d)
<1>2. rxq = <<>> /\ mx_bufs = <<>> /\ mx_tx_bufs = <<>> /\ owed = {}
  BY <1>1 DEF Quiet
<1>3. TypeOK /\ scenario \in Scenarios /\ stray \in Nat /\ scenario.max_stray \in Nat
  BY SharingAssumption DEF Inv, TypeOK, IsScenario
<1>4. p \in Packet /\ p.kind = kind /\ p.du = d
  <2>1. (CHOOSE x \in Ports : TRUE) \in Ports /\ (CHOOSE x \in Symbols : TRUE) \in Symbols
        /\ 0 \in RadioFrames
    BY SharingAssumption DEF RadioFrames
  <2> QED BY <2>1 DEF Stray, Packet
<1> HIDE DEF p
<1>5. p.kind \notin DuKinds /\ p.kind # "prach_data" /\ p.kind \in StrayKinds
  BY <1>4 DEF DuKinds, Refused, StrayKinds
<1>6. RowOf(p) \in Rows /\ [EmptyRow EXCEPT ![d] = p] = RowOf(p)
  BY <1>4, PacketParts DEF RowOf, EmptyRow, Rows
<1>7. NicReceive(RowOf(p))
  BY <1>1, <1>6 DEF p
<1>8. stray' \in 0 .. scenario.max_stray /\ stray' > 0
  BY <1>1, <1>3
<1>9. /\ frame' \in RadioFrames /\ sent' \in SUBSET Packet /\ missing' \in SUBSET Packet
      /\ owed' \in SUBSET Packet
  BY <1>1, <1>3 DEF TypeOK
<1>10. EnvInv' /\ StrayInv'
  <2>1. mx_tx_bufs' = mx_tx_bufs
    BY <1>1 DEF NicReceive
  <2> QED BY <1>1, <1>2, <2>1 DEF Inv, EnvInv, StrayInv, DuPackets
<1>11. \A q : IsNew(q)' <=> IsNew(q)
  BY <1>1 DEF IsNew, Arrived, DuPackets
<1>12. \E q \in Packet : RowOf(p) = (IF q.kind = "prach_data" THEN AnswerRow(q) ELSE RowOf(q))
                         /\ IsNew(q)' /\ (q.kind \in StrayKinds <=> stray' > 0)
  <2>1. IsNew(p)'
    BY <1>5 DEF IsNew
  <2> QED BY <1>4, <1>5, <1>8, <2>1
<1> QED BY <1>1, <1>2, <1>3, <1>6, <1>7, <1>8, <1>9, <1>10, <1>11, <1>12, InvAfterReceive

\* A stuttering step.
LEMMA NothingHappens == Inv /\ UNCHANGED vars => Inv'
<1> SUFFICES ASSUME Inv, UNCHANGED vars PROVE Inv'
  OBVIOUS
<1>1. /\ UNCHANGED <<memory, mx_tx_bufs, cacheVars, scenario, stray, alive>>
      /\ UNCHANGED <<rxq, mx_bufs>> /\ UNCHANGED envVars
  BY DEF vars, envVars
<1>2. TypeOK'
  BY DEF Inv, TypeOK, vars, memory, cacheVars, prachVars, envVars
<1>3. EnvInv' /\ StrayInv'
  BY <1>1 DEF Inv, EnvInv, StrayInv, DuPackets, envVars
<1>4. \A q : IsNew(q)' <=> IsNew(q)
  BY <1>1 DEF IsNew, Arrived, DuPackets, envVars
<1>5. /\ \A c \in Bufs : Received(c)' <=> Received(c)
      /\ Once(rxq)' /\ Once(mx_bufs)' /\ \A c \in Bufs : ~(In(c, rxq)' /\ In(c, mx_bufs)')
  BY <1>1, QueuesUnmoved
<1> QED BY <1>1, <1>2, <1>3, <1>4, <1>5, InvWhenUnmoved

\* All mbufs are free at the start.
LEMMA InitInv == Init => Inv
<1> SUFFICES ASSUME Init PROVE Inv
  OBVIOUS
<1>1. NumDus \in Nat \ {0} /\ PRACH_TURN \in Nat \ {0} /\ MaxFrame \in Nat
      /\ scenario \in Scenarios /\ scenario.max_stray \in Nat /\ scenario.num_bufs \in 1 .. MaxBufs
  BY SharingAssumption DEF Init, IsScenario
<1>2. EmptyRow \in Rows /\ EmptyRow \in [Dus -> Bufs \cup {NULL}] /\ \A d \in Dus : EmptyRow[d] = NULL
  BY DEF EmptyRow, Rows
<1>3. TypeOK
  BY <1>1, <1>2 DEF Init, TypeOK, RadioFrames
<1>4. /\ \A k \in Keys : cached_du_packets[k] = EmptyRow
      /\ \A k \in Keys : cached_du_packets_num[k] = 0
      /\ \A k \in Keys, d \in Dus : cached_du_packets[k][d] = NULL
  BY <1>2 DEF Init
<1>5. Present(EmptyRow) = {}
  BY <1>2 DEF Present
<1>6. CountInv
  BY <1>4, <1>5, FS_EmptySet DEF CountInv
<1>7. \A c : ~Received(c) /\ ~Cached(c) /\ ~ToBeSent(c)
  BY <1>4 DEF Init, Received, Cached, ToBeSent, In, InRow
<1>8. QueuesInv /\ RowsInv
  BY <1>4 DEF Init, QueuesInv, RowsInv, Once, In
<1>9. PlacesInv /\ NoneLost
  <2>1. pool = [b \in Bufs |-> IF b <= scenario.num_bufs THEN 1 ELSE 0]
    BY DEF Init
  <2>2. \A b \in Bufs : pool[b] <= 1
    BY <2>1
  <2>3. \A b \in PoolBufs : b \in Bufs /\ b <= scenario.num_bufs
    BY <1>1, SharingAssumption DEF PoolBufs, Bufs
  <2>4. \A b \in PoolBufs : pool[b] > 0
    BY <2>1, <2>3
  <2> QED BY <1>7, <2>2, <2>4 DEF PlacesInv, NoneLost
<1>10. ContentInv
  BY <1>4, <1>7 DEF Init, ContentInv, ReceivedInv, CachedInv, TxInv, In
<1>11. EnvInv /\ StrayInv
  BY DEF Init, EnvInv, StrayInv
<1> QED BY <1>3, <1>6, <1>8, <1>9, <1>10, <1>11 DEF Inv, OwnInv

\* Whether it arrives or finds no free mbuf, a DU's packet keeps the invariant,
LEMMA SendDuInv == Inv /\ SendDu => Inv'
<1> SUFFICES ASSUME Inv, SendDu PROVE Inv'
  OBVIOUS
<1>1. PICK p \in DuPackets(frame) \ sent :
        /\ sent' = sent \cup {p} /\ NicReceive([EmptyRow EXCEPT ![p.du] = p])
        /\ UNCHANGED <<scenario, frame, missing, stray, owed>>
  BY DEF SendDu
<1>2. NicReceive(RowOf(p))
  BY <1>1 DEF RowOf
<1> QED BY <1>1, <1>2, DuPacketSent

\* and so does one of the RU.
LEMMA SendRuInv == Inv /\ SendRu => Inv'
BY RuPacketSent DEF SendRu

\* Every step keeps the invariant.
LEMMA InvInductive == Inv /\ [Next]_vars => Inv'
<1> SUFFICES ASSUME Inv, [Next]_vars PROVE Inv'
  OBVIOUS
<1>1. CASE lcore_main
  BY <1>1, BurstReceived, StrayIgnored, ForeignIgnored, PacketCached, ControlForwarded, ControlRefused,
     PacketsMerged, UplinkReturned, PrachSplit, OneSent, QueueFull DEF lcore_main
<1>2. CASE SendDu \/ MissDu \/ SendRu \/ MissRu \/ SendStray \/ NextFrame
  BY <1>2, SendDuInv, DuMissed, SendRuInv, RuMissed, StraySent, FrameEnded
<1>3. CASE Spin \/ UNCHANGED vars
  BY <1>3, NothingHappens DEF Spin
<1> QED BY <1>1, <1>2, <1>3 DEF Next

\* The invariant holds in every state.
LEMMA InvAlways == Spec => []Inv
<1>1. Init => Inv
  BY InitInv
<1>2. Inv /\ [Next]_vars => Inv'
  BY InvInductive
<1> QED BY <1>1, <1>2, PTL DEF Spec

\* Every variable keeps its type: in particular, no index leaves the caches, and
\* nobody reads an mbuf that holds no packet.
THEOREM TypesCorrect == Spec => []TypeOK
<1>1. Inv => TypeOK
  BY DEF Inv
<1> QED BY <1>1, InvAlways, PTL

-----------------------------------------------------------------------------
(* Every mbuf is in one place                                              *)

\* A set whose elements are all the same has one of them, or none.
LEMMA AtMostOne ==
  ASSUME NEW T, \A i, j \in T : i = j
  PROVE  Cardinality(T) = IF T = {} THEN 0 ELSE 1
<1>1. CASE T = {}
  BY <1>1, FS_EmptySet
<1>2. CASE T # {}
  <2>1. PICK i \in T : T = {i}
    BY <1>2
  <2> QED BY <1>2, <2>1, FS_Singleton
<1> QED BY <1>1, <1>2

\* Places are counted as the model counts them: one for each queue or row.
LEMMA PlacesCounted ==
  ASSUME Inv, NEW b \in Bufs
  PROVE  Places(b) = pool[b] + (IF Received(b) THEN 1 ELSE 0) + (IF Cached(b) THEN 1 ELSE 0)
                             + (IF ToBeSent(b) THEN 1 ELSE 0)
<1>1. TypeOK /\ QueuesInv /\ RowsInv
  BY DEF Inv, OwnInv
<1>2. Occurrences(b, rxq \o mx_bufs) = IF Received(b) THEN 1 ELSE 0
  <2> DEFINE q == rxq \o mx_bufs
             T == {i \in DOMAIN q : q[i] = b}
  <2>1. rxq \in Seq(Bufs) /\ mx_bufs \in Seq(Bufs)
    BY <1>1 DEF TypeOK
  <2>2. q \in Seq(Bufs) /\ DOMAIN q = 1 .. Len(q)
    BY <2>1
  <2>3. \A c : ~(In(c, rxq) /\ In(c, mx_bufs))
    <3>1. \A c : In(c, rxq) => c \in Bufs
      BY <2>1 DEF In
    <3> QED BY <1>1, <3>1 DEF QueuesInv
  <2>4. Once(q) /\ (In(b, q) <=> In(b, rxq) \/ In(b, mx_bufs))
    BY <1>1, <2>1, <2>3, Concatenated DEF QueuesInv
  <2> HIDE DEF q
  <2>5. (T # {} <=> Received(b)) /\ \A i, j \in T : i = j
    BY <2>2, <2>4 DEF Received, In, Once
  <2> HIDE DEF T
  <2>6. Cardinality(T) = IF Received(b) THEN 1 ELSE 0
    BY <2>5, AtMostOne
  <2> QED BY <2>6 DEF T, q, Occurrences
<1>3. Cardinality(CachedIn(b)) = IF Cached(b) THEN 1 ELSE 0
  <2>1. b # NULL
    BY NullAssumption
  <2>2. ASSUME NEW i \in CachedIn(b), NEW j \in CachedIn(b) PROVE i = j
    <3>1. /\ i \in Keys \X Dus /\ cached_du_packets[i[1]][i[2]] = b
          /\ j \in Keys \X Dus /\ cached_du_packets[j[1]][j[2]] = b
      BY DEF CachedIn
    <3>2. i[1] = j[1] /\ i[2] = j[2]
      BY <1>1, <2>1, <3>1 DEF RowsInv
    <3> QED BY <3>1, <3>2
  <2>3. ASSUME Cached(b) PROVE CachedIn(b) # {}
    <3>1. PICK k \in Keys : b \in InRow(cached_du_packets[k])
      BY <2>3 DEF Cached
    <3>2. PICK d \in Dus : cached_du_packets[k][d] = b
      BY <3>1 DEF InRow
    <3>3. <<k, d>> \in Keys \X Dus /\ <<k, d>>[1] = k /\ <<k, d>>[2] = d
      OBVIOUS
    <3>4. <<k, d>> \in CachedIn(b)
      BY <3>2, <3>3 DEF CachedIn
    <3> QED BY <3>4
  <2>4. ASSUME NEW i \in CachedIn(b) PROVE Cached(b)
    <3>1. i[1] \in Keys /\ i[2] \in Dus /\ cached_du_packets[i[1]][i[2]] = b
      BY DEF CachedIn
    <3> QED BY <2>1, <3>1 DEF Cached, InRow
  <2> QED BY <2>2, <2>3, <2>4, AtMostOne
<1>4. Cardinality({i \in DOMAIN mx_tx_bufs : mx_tx_bufs[i].buf = b}) = IF ToBeSent(b) THEN 1 ELSE 0
  <2> DEFINE T == {i \in DOMAIN mx_tx_bufs : mx_tx_bufs[i].buf = b}
  <2>1. mx_tx_bufs \in Seq(Entry) /\ DOMAIN mx_tx_bufs = 1 .. Len(mx_tx_bufs)
    BY <1>1 DEF TypeOK, Entry
  <2>2. \A i \in 1 .. Len(mx_tx_bufs) : mx_tx_bufs[i] \in Entry /\ In(mx_tx_bufs[i], mx_tx_bufs)
    BY <2>1 DEF In
  <2>3. ASSUME NEW i \in T, NEW j \in T PROVE i = j
    <3>1. mx_tx_bufs[i] = mx_tx_bufs[j]
      BY <1>1, <2>1, <2>2 DEF QueuesInv
    <3> QED BY <1>1, <2>1, <3>1 DEF QueuesInv, Once
  <2>4. ToBeSent(b) <=> T # {}
    BY <2>1, <2>2 DEF ToBeSent, In
  <2> HIDE DEF T
  <2>5. Cardinality(T) = IF ToBeSent(b) THEN 1 ELSE 0
    BY <2>3, <2>4, AtMostOne
  <2> QED BY <2>5 DEF T
<1> QED BY <1>2, <1>3, <1>4 DEF Places

\* What the invariant says of places is what the runs check.
LEMMA InvNoMbufLost == Inv => NoMbufLost
<1> SUFFICES ASSUME Inv, alive, NEW b \in PoolBufs
             PROVE  Places(b) >= 1 /\ (stray = 0 => Places(b) = 1)
  BY DEF NoMbufLost
<1>1. b \in Bufs
  BY SharingAssumption DEF Inv, TypeOK, IsScenario, PoolBufs, Bufs
<1>2. pool[b] \in Nat /\ (pool[b] > 0 \/ Received(b) \/ Cached(b) \/ ToBeSent(b))
  BY <1>1 DEF Inv, TypeOK, OwnInv, NoneLost
<1>3. /\ ~(Received(b) /\ Cached(b)) /\ ~(Received(b) /\ ToBeSent(b)) /\ ~(Cached(b) /\ ToBeSent(b))
      /\ pool[b] > 0 => ~Cached(b) /\ ~ToBeSent(b) /\ (stray = 0 => ~Received(b))
      /\ stray = 0 => pool[b] <= 1
  BY <1>1 DEF Inv, OwnInv, PlacesInv
<1>4. Places(b) = pool[b] + (IF Received(b) THEN 1 ELSE 0) + (IF Cached(b) THEN 1 ELSE 0)
                          + (IF ToBeSent(b) THEN 1 ELSE 0)
  BY <1>1, PlacesCounted
<1> QED BY <1>2, <1>3, <1>4

\* Whatever packets come, go missing or are not sent, every mbuf of the pool is
\* in one place, until the program stops; packets that are not for the
\* middlebox are freed too often, but even then no mbuf is lost.
THEOREM NoMbufIsLost == Spec => []NoMbufLost
BY InvAlways, InvNoMbufLost, PTL

-----------------------------------------------------------------------------
(* PRACH                                                                   *)

\* Only what is sent has to be looked at: an entry for the RU has the sections of
\* all DUs, one for a DU its own.
LEMMA PrachStep == Inv /\ PrachOfAllDus /\ [Next]_vars => PrachOfAllDus'
<1> SUFFICES ASSUME Inv, PrachOfAllDus, [Next]_vars, scenario'.asserts PROVE PrachOfAllDus'
  BY DEF PrachOfAllDus
<1>1. scenario' = scenario
  BY DEF Next, lcore_main, RxBurst, IgnoreStray, IgnoreForeign, CachePacket, ForwardControl,
     RefuseControl, MergePackets, ReturnUplink, SplitPrach, HandlesDu, Handles, TxOne, TxFull,
     SendDu, MissDu, SendRu, MissRu, SendStray, NextFrame, Spin, vars, envVars
<1>2. CASE TxOne
  <2> DEFINE e == Head(mx_tx_bufs)
  <2>1. /\ mx_tx_bufs # <<>>
        /\ IF e.to = RU
           THEN to_ru' = Append(to_ru, content[e.buf]) /\ UNCHANGED to_du
           ELSE to_du' = Append(to_du, [du |-> e.to, packet |-> PacketIn(e.buf)]) /\ UNCHANGED to_ru
    BY <1>2 DEF TxOne
  <2>2. /\ e.to = RU => SectionsOfAll(content[e.buf]) /\ content[e.buf] \in Rows
        /\ e.to # RU => e.to \in Dus /\ PacketIn(e.buf) \in Packet
                        /\ IsTheirs(PacketIn(e.buf), e.to)
    BY <2>1, HeadEntry
  <2>3. to_ru \in Seq(Rows) /\ to_du \in Seq([du : Dus, packet : Packet])
    BY DEF Inv, TypeOK
  <2> HIDE DEF e
  <2>4. CASE e.to = RU
    <3>1. to_ru' = Append(to_ru, content[e.buf]) /\ to_du' = to_du
      BY <2>1, <2>4
    <3>2. \A i \in DOMAIN to_ru' :
            to_ru'[i] = content[e.buf] \/ (i \in DOMAIN to_ru /\ to_ru'[i] = to_ru[i])
      BY <2>2, <2>3, <2>4, <3>1
    <3>3. scenario.asserts => \A i \in DOMAIN to_ru' :
            (\E d \in Dus : to_ru'[i][d] # NULL /\ to_ru'[i][d].kind = "prach_control")
              => \A d \in Dus : to_ru'[i][d] # NULL /\ to_ru'[i][d].du = d
      BY <2>2, <2>4, <3>2 DEF PrachOfAllDus, SectionsOfAll
    <3> QED BY <1>1, <3>1, <3>3 DEF PrachOfAllDus, PrachDelivered
  <2>5. CASE e.to # RU
    <3>1. to_du' = Append(to_du, [du |-> e.to, packet |-> PacketIn(e.buf)]) /\ to_ru' = to_ru
      BY <2>1, <2>5
    <3>2. [du |-> e.to, packet |-> PacketIn(e.buf)] \in [du : Dus, packet : Packet]
      BY <2>2, <2>5
    <3>3. \A i \in DOMAIN to_du' :
            \/ to_du'[i] = [du |-> e.to, packet |-> PacketIn(e.buf)]
            \/ i \in DOMAIN to_du /\ to_du'[i] = to_du[i]
      BY <2>3, <3>1, <3>2
    <3>4. \A i \in DOMAIN to_du' :
            to_du'[i].packet.kind \in {"prach_data", "prach_header"} =>
              to_du'[i].packet.kind = "prach_data" /\ to_du'[i].packet.du = to_du'[i].du
      BY <1>1, <2>2, <2>5, <3>3 DEF PrachOfAllDus, PrachDelivered, IsTheirs
    <3> QED BY <1>1, <3>1, <3>4 DEF PrachOfAllDus, PrachDelivered
  <2> QED BY <2>4, <2>5
<1>3. CASE ~TxOne
  <2>1. UNCHANGED <<to_ru, to_du>>
    BY <1>3 DEF Next, lcore_main, RxBurst, IgnoreStray, IgnoreForeign, CachePacket, ForwardControl,
       RefuseControl, MergePackets, ReturnUplink, SplitPrach, HandlesDu, Handles, TxFull,
       SendDu, MissDu, SendRu, MissRu, SendStray, NextFrame, Spin, vars, NicReceive
  <2> QED BY <1>1, <2>1 DEF PrachOfAllDus, PrachDelivered
<1> QED BY <1>2, <1>3

\* A PRACH request of a Debug build asks for a section for each DU, and each DU
\* gets the section of the answer that is its own.
THEOREM PrachReachesAllDus == Spec => []PrachOfAllDus
<1>1. Init => PrachOfAllDus
  BY DEF Init, PrachOfAllDus, PrachDelivered
<1> QED BY <1>1, InvAlways, PrachStep, PTL DEF Spec

-----------------------------------------------------------------------------
(* The answers to uplink requests                                          *)

\* What a step may do to the received mbufs, and to those to be sent, without
\* a request being taken back or an answer added.
ReceivedKept == \A c \in Bufs : Received(c)' => Received(c) /\ content'[c] = content[c]
NoAnswerAdded == \A e \in Entry : In(e, mx_tx_bufs)' =>
  \/ In(e, mx_tx_bufs) /\ content'[e.buf] = content[e.buf]
  \/ e.to = RU
  \/ PacketIn(e.buf)'.kind # "ul_data"
RequestsKept == UlArrived \subseteq Arrived'

\* The packets of the schedule that have been sent so far are finitely many.
PastFinite == IsFiniteSet(UNION {DuPackets(f) : f \in 0 .. frame - 1}) /\ IsFiniteSet(sent)
AInv == OneMbuf /\ AnswersInv /\ PastFinite

\* Requests that wait were waiting before, each in one mbuf still.
LEMMA UnhandledKept ==
  ASSUME OneMbuf, ReceivedKept
  PROVE  OneMbuf' /\ \A q : Unhandled(q)' => Unhandled(q)
<1>1. \A q : RowOf(q)' = RowOf(q)
  BY DEF RowOf, EmptyRow
<1>2. \A q : Unhandled(q)' => Unhandled(q)
  BY DEF ReceivedKept, Unhandled, RowOf, EmptyRow
<1>3. OneMbuf'
  BY DEF OneMbuf, ReceivedKept, RowOf, EmptyRow
<1> QED BY <1>2, <1>3

\* A request that has been handled stays so.
LEMMA HandledKept ==
  ASSUME RequestsKept, NEW d, NEW port, \A q \in UlArrived : Unhandled(q)' => Unhandled(q)
  PROVE  HandledRequests(d, port) \subseteq HandledRequests(d, port)'
<1> SUFFICES ASSUME NEW q \in HandledRequests(d, port) PROVE q \in HandledRequests(d, port)'
  OBVIOUS
<1>1. q \in UlArrived /\ q.du = d /\ q.port = port /\ ~Unhandled(q)
  BY DEF HandledRequests, Requests
<1>2. q \in UlArrived' /\ ~Unhandled(q)'
  BY <1>1 DEF RequestsKept, UlArrived, UlRequests
<1> QED BY <1>1, <1>2 DEF HandledRequests, Requests

\* The answers to be sent were to be sent before.
LEMMA EntriesKept ==
  ASSUME NoAnswerAdded, NEW d \in Dus, NEW port, NEW s
  PROVE  AnswersToSend(d, port, s)' \subseteq AnswersToSend(d, port, s)
<1> SUFFICES ASSUME NEW e \in AnswersToSend(d, port, s)' PROVE e \in AnswersToSend(d, port, s)
  OBVIOUS
<1>1. e \in Entry /\ In(e, mx_tx_bufs)' /\ e.to = d /\ IsAnswer(PacketIn(e.buf), port, s)'
  BY DEF AnswersToSend, Entry, Dus, Bufs
<1>2. d # RU
  BY SharingAssumption DEF Dus, RU
<1>3. PacketIn(e.buf)'.kind = "ul_data"
  BY <1>1 DEF IsAnswer
<1>4. In(e, mx_tx_bufs) /\ content'[e.buf] = content[e.buf]
  BY <1>1, <1>2, <1>3 DEF NoAnswerAdded
<1>5. PacketIn(e.buf)' = PacketIn(e.buf)
  BY <1>4 DEF PacketIn
<1> QED BY <1>1, <1>4, <1>5 DEF AnswersToSend, IsAnswer

\* The sets that are counted are finite.
LEMMA ArrivedFinite ==
  ASSUME NEW P, IsFiniteSet(P), NEW S, IsFiniteSet(S), NEW M
  PROVE  IsFiniteSet((P \cup S) \ M)
<1> DEFINE all == P \cup S
<1>1. IsFiniteSet(all)
  BY FS_Union
<1>2. all \ M \in SUBSET all
  OBVIOUS
<1> HIDE DEF all
<1>3. IsFiniteSet(all \ M)
  BY <1>1, <1>2, FS_Subset
<1> QED BY <1>3 DEF all

\* The requests that have been handled are finitely many.
LEMMA RequestsFinite ==
  PastFinite' => \A d, port : IsFiniteSet(HandledRequests(d, port)')
                             /\ Cardinality(HandledRequests(d, port)') \in Nat
<1> SUFFICES ASSUME PastFinite', NEW d, NEW port
             PROVE  IsFiniteSet(HandledRequests(d, port)') /\ Cardinality(HandledRequests(d, port)') \in Nat
  OBVIOUS
<1>1. IsFiniteSet(Arrived')
  <2>1. IsFiniteSet((UNION {DuPackets(f) : f \in 0 .. frame - 1})') /\ IsFiniteSet(sent')
    BY DEF PastFinite
  <2> QED BY <2>1, ArrivedFinite DEF Arrived
<1>2. HandledRequests(d, port)' \in SUBSET Arrived'
  BY DEF HandledRequests, Requests, UlArrived, UlRequests
<1> QED BY <1>1, <1>2, FS_Subset, FS_CardinalityType

\* The sets that the invariant counts are finite.
LEMMA CountsFinite ==
  ASSUME TypeOK, PastFinite, NEW d, NEW port, NEW s
  PROVE  /\ IsFiniteSet(AnswersSent(d, port, s)) /\ Cardinality(AnswersSent(d, port, s)) \in Nat
         /\ IsFiniteSet(AnswersToSend(d, port, s)) /\ Cardinality(AnswersToSend(d, port, s)) \in Nat
         /\ IsFiniteSet(HandledRequests(d, port)) /\ Cardinality(HandledRequests(d, port)) \in Nat
<1>1. IsFiniteSet(AnswersSent(d, port, s))
  <2>1. Len(to_du) \in Int
    BY DEF TypeOK
  <2>2. IsFiniteSet(1 .. Len(to_du))
    BY <2>1, FS_Interval
  <2>3. AnswersSent(d, port, s) \in SUBSET (1 .. Len(to_du))
    BY DEF AnswersSent
  <2> QED BY <2>2, <2>3, FS_Subset
<1>2. IsFiniteSet(AnswersToSend(d, port, s))
  <2> DEFINE T == AnswersToSend(d, port, s)
             S == {i \in 1 .. Len(mx_tx_bufs) : mx_tx_bufs[i] \in T}
             f == [i \in S |-> mx_tx_bufs[i]]
  <2>1. Len(mx_tx_bufs) \in Int
    BY DEF TypeOK
  <2>2. IsFiniteSet(1 .. Len(mx_tx_bufs))
    BY <2>1, FS_Interval
  <2>3. IsFiniteSet(S)
    <3>1. S \in SUBSET (1 .. Len(mx_tx_bufs))
      OBVIOUS
    <3> HIDE DEF S
    <3> QED BY <2>2, <3>1, FS_Subset
  <2>4. f \in Surjection(S, T)
    <3>1. f \in [S -> T]
      OBVIOUS
    <3>2. \A e \in T : \E i \in S : f[i] = e
      BY DEF AnswersToSend, In
    <3> QED BY <3>1, <3>2 DEF Surjection
  <2> HIDE DEF T, S, f
  <2>5. IsFiniteSet(T)
    BY <2>3, <2>4, FS_Surjection
  <2> QED BY <2>5 DEF T
<1>3. IsFiniteSet(HandledRequests(d, port))
  <2>1. HandledRequests(d, port) \in SUBSET Arrived
    BY DEF HandledRequests, Requests, UlArrived, UlRequests
  <2>2. IsFiniteSet(Arrived)
    BY ArrivedFinite DEF PastFinite, Arrived
  <2> QED BY <2>1, <2>2, FS_Subset
<1> QED BY <1>1, <1>2, <1>3, FS_CardinalityType

\* No answer is added, no note set, and no request taken back.
LEMMA CountKept ==
  ASSUME TypeOK, AInv, PastFinite', NEW d \in Dus, NEW port \in Ports, NEW s \in Symbols,
         to_du' = to_du, pending_ul_packet'[<<d, port, s>>] = pending_ul_packet[<<d, port, s>>],
         AnswersToSend(d, port, s)' \subseteq AnswersToSend(d, port, s),
         HandledRequests(d, port) \subseteq HandledRequests(d, port)'
  PROVE  Bounded(d, port, s)'
<1> DEFINE A == AnswersSent(d, port, s)
           T == AnswersToSend(d, port, s)
           H == HandledRequests(d, port)
           w == pending_ul_packet[<<d, port, s>>]
<1>1. A' = A /\ w' = w /\ w \in {0, 1} /\ T' \subseteq T /\ H \subseteq H'
  BY DEF AnswersSent, TypeOK
<1>2. /\ Cardinality(A) \in Nat /\ IsFiniteSet(T) /\ Cardinality(T) \in Nat
      /\ Cardinality(H) \in Nat
  BY CountsFinite DEF AInv
<1>3. IsFiniteSet(H') /\ Cardinality(H') \in Nat
  BY RequestsFinite
<1>4. Cardinality(A) + Cardinality(T) + w <= Cardinality(H)
  BY DEF AInv, AnswersInv, Bounded
<1> HIDE DEF A, T, H, w
<1>5. Cardinality(T') <= Cardinality(T) /\ Cardinality(T') \in Nat /\ Cardinality(H) <= Cardinality(H')
  BY <1>1, <1>2, <1>3, FS_Subset, FS_CardinalityType
<1>6. Cardinality(A') + Cardinality(T') + w' <= Cardinality(H')
  BY <1>1, <1>2, <1>3, <1>4, <1>5
<1> QED BY <1>6 DEF A, T, H, w, Bounded

\* A step that adds no answer, sets no note and takes no request back keeps the
\* bound on answers.
LEMMA AnswersKept ==
  ASSUME TypeOK, AInv, PastFinite', OneMbuf', NoAnswerAdded, RequestsKept,
         \A q \in UlArrived : Unhandled(q)' => Unhandled(q),
         UNCHANGED <<to_du, pending_ul_packet>>
  PROVE  AInv'
<1>1. \A d \in Dus, port \in Ports, s \in Symbols :
        AnswersToSend(d, port, s)' \subseteq AnswersToSend(d, port, s)
  BY EntriesKept
<1>2. \A d, port : HandledRequests(d, port) \subseteq HandledRequests(d, port)'
  BY HandledKept
<1>3. ASSUME NEW d \in Dus, NEW port \in Ports, NEW s \in Symbols PROVE Bounded(d, port, s)'
  BY <1>1, <1>2, CountKept
<1> QED BY <1>3 DEF AInv, AnswersInv

\* A request that is handled is one more that may be answered.
LEMMA RequestCounted ==
  ASSUME TypeOK, AInv, PastFinite', NEW d \in Dus, NEW port \in Ports, NEW s \in Symbols,
         to_du' = to_du, pending_ul_packet'[<<d, port, s>>] = 1,
         AnswersToSend(d, port, s)' \subseteq AnswersToSend(d, port, s),
         HandledRequests(d, port) \subseteq HandledRequests(d, port)',
         NEW q, q \in HandledRequests(d, port)', q \notin HandledRequests(d, port)
  PROVE  Bounded(d, port, s)'
<1> DEFINE A == AnswersSent(d, port, s)
           T == AnswersToSend(d, port, s)
           H == HandledRequests(d, port)
           w == pending_ul_packet[<<d, port, s>>]
           K == H \cup {q}
<1>1. A' = A /\ w' = 1 /\ w \in {0, 1} /\ T' \subseteq T /\ K \subseteq H'
  BY DEF AnswersSent, TypeOK
<1>2. /\ Cardinality(A) \in Nat /\ IsFiniteSet(T) /\ Cardinality(T) \in Nat
      /\ IsFiniteSet(H) /\ Cardinality(H) \in Nat
  BY CountsFinite DEF AInv
<1>3. IsFiniteSet(H') /\ Cardinality(H') \in Nat
  BY RequestsFinite
<1>4. Cardinality(A) + Cardinality(T) + w <= Cardinality(H)
  BY DEF AInv, AnswersInv, Bounded
<1>5. q \notin H
  OBVIOUS
<1> HIDE DEF A, T, H, w
<1>6. IsFiniteSet(K) /\ Cardinality(K) = Cardinality(H) + 1
  BY <1>2, <1>5, FS_AddElement
<1> HIDE DEF K
<1>7. Cardinality(T') <= Cardinality(T) /\ Cardinality(T') \in Nat /\ Cardinality(K) <= Cardinality(H')
  BY <1>1, <1>2, <1>3, FS_Subset, FS_CardinalityType
<1>8. Cardinality(A') + Cardinality(T') + w' <= Cardinality(H')
  BY <1>1, <1>2, <1>3, <1>4, <1>6, <1>7
<1> QED BY <1>8 DEF A, T, H, w, Bounded

\* An answer uses up the note of a request.
LEMMA AnswerCounted ==
  ASSUME TypeOK, AInv, PastFinite', NEW d \in Dus, NEW port \in Ports, NEW s \in Symbols,
         to_du' = to_du, pending_ul_packet[<<d, port, s>>] = 1,
         pending_ul_packet'[<<d, port, s>>] = 0,
         NEW e, AnswersToSend(d, port, s)' \subseteq AnswersToSend(d, port, s) \cup {e},
         HandledRequests(d, port) \subseteq HandledRequests(d, port)'
  PROVE  Bounded(d, port, s)'
<1> DEFINE A == AnswersSent(d, port, s)
           T == AnswersToSend(d, port, s)
           H == HandledRequests(d, port)
           w == pending_ul_packet[<<d, port, s>>]
           K == T \cup {e}
<1>1. A' = A /\ w' = 0 /\ w = 1 /\ T' \subseteq K /\ H \subseteq H'
  BY DEF AnswersSent
<1>2. /\ Cardinality(A) \in Nat /\ IsFiniteSet(T) /\ Cardinality(T) \in Nat
      /\ Cardinality(H) \in Nat
  BY CountsFinite DEF AInv
<1>3. IsFiniteSet(H') /\ Cardinality(H') \in Nat
  BY RequestsFinite
<1>4. Cardinality(A) + Cardinality(T) + w <= Cardinality(H)
  BY DEF AInv, AnswersInv, Bounded
<1> HIDE DEF A, T, H, w
<1>5. IsFiniteSet(K) /\ Cardinality(K) <= Cardinality(T) + 1 /\ Cardinality(K) \in Nat
  <2>1. /\ IsFiniteSet(K)
        /\ Cardinality(K) = IF e \in T THEN Cardinality(T) ELSE Cardinality(T) + 1
    BY <1>2, FS_AddElement
  <2> QED BY <1>2, <2>1
<1> HIDE DEF K
<1>6. Cardinality(T') <= Cardinality(K) /\ Cardinality(T') \in Nat /\ Cardinality(H) <= Cardinality(H')
  BY <1>1, <1>3, <1>5, FS_Subset, FS_CardinalityType
<1>7. Cardinality(A') + Cardinality(T') + w' <= Cardinality(H')
  BY <1>1, <1>2, <1>3, <1>4, <1>5, <1>6
<1> QED BY <1>7 DEF A, T, H, w, Bounded

\* What the handler of the packet in mbuf b leaves alone.
LEMMA OthersKept ==
  ASSUME Inv, stray = 0, NEW b \in Bufs, Received(b), NEW S, NEW N \in SUBSET Free,
         \A c \in S : Cached(c) \/ c = b,
         \A c \in Bufs \ (S \cup N) : content'[c] = content[c]
  PROVE  /\ \A c \in Bufs : Received(c) /\ c # b => content'[c] = content[c]
         /\ \A e \in Entry : In(e, mx_tx_bufs) => content'[e.buf] = content[e.buf]
<1>1. PlacesInv /\ \A c \in N : pool[c] > 0
  BY DEF Inv, OwnInv, Free
<1>2. ASSUME NEW c \in Bufs, (Received(c) /\ c # b) \/ ToBeSent(c) PROVE content'[c] = content[c]
  BY <1>1, <1>2 DEF PlacesInv
<1>3. \A e \in Entry : e.buf \in Bufs /\ (In(e, mx_tx_bufs) => ToBeSent(e.buf))
  BY DEF Entry, ToBeSent
<1> QED BY <1>2, <1>3

\* Mbufs that are neither freed nor filled keep what they hold,
LEMMA ContentKept ==
  ASSUME NEW S, NEW filled, FreeAndFill(S, filled)
  PROVE  /\ \A c \in Bufs \ (S \cup DOMAIN filled) : content'[c] = content[c]
         /\ \A c \in Bufs \cap DOMAIN filled : content'[c] = filled[c]
BY DEF FreeAndFill

\* and so they do when none is filled.
LEMMA ContentAfterFree ==
  ASSUME NEW S, FreeAll(S)
  PROVE  \A c \in Bufs \ (S \cup {}) : content'[c] = content[c]
<1>1. DOMAIN <<>> = {}
  OBVIOUS
<1>2. FreeAndFill(S, <<>>)
  BY DEF FreeAll
<1> QED BY <1>1, <1>2, ContentKept

\* While nothing is sent to the middlebox, what has arrived is the same.
LEMMA ArrivedUnmoved ==
  ASSUME UNCHANGED envVars
  PROVE  Arrived' = Arrived /\ RequestsKept /\ (PastFinite => PastFinite')
BY DEF envVars, Arrived, RequestsKept, UlArrived, UlRequests, PastFinite, DuPackets

\* The mbufs that the handler of the packet in mbuf b frees and fills.
OnlyMoves(b, S, N) ==
  /\ N \in SUBSET Free
  /\ \A c \in S : Cached(c) \/ c = b
  /\ \A c \in Bufs \ (S \cup N) : content'[c] = content[c]

\* The handlers: mbufs of the cache, and that of the packet, are freed, free
\* ones filled, and packets for the RU added to those to be sent.
LEMMA AnswersAfterHandling ==
  ASSUME Inv, AInv, stray = 0, NEW b, NEW p, Handles(b, p),
         NEW S, NEW N, OnlyMoves(b, S, N)
  PROVE  /\ ReceivedKept /\ RequestsKept /\ PastFinite' /\ OneMbuf' /\ to_du' = to_du
         /\ \A q : Unhandled(q)' => Unhandled(q)
         /\ \A e \in Entry : In(e, mx_tx_bufs) => content'[e.buf] = content[e.buf]
         /\ \A c \in Bufs : Received(c)' <=> Received(c) /\ c # b
<1>1. /\ b \in Bufs /\ Received(b)
      /\ \A c \in Bufs : Received(c)' <=> Received(c) /\ c # b
      /\ UNCHANGED <<envVars, to_ru, to_du>>
  BY Handled
<1>2. /\ \A c \in Bufs : Received(c) /\ c # b => content'[c] = content[c]
      /\ \A e \in Entry : In(e, mx_tx_bufs) => content'[e.buf] = content[e.buf]
  BY <1>1, OthersKept DEF OnlyMoves
<1>3. ReceivedKept
  BY <1>1, <1>2 DEF ReceivedKept
<1>4. OneMbuf' /\ \A q : Unhandled(q)' => Unhandled(q)
  BY <1>3, UnhandledKept DEF AInv
<1>5. RequestsKept /\ PastFinite'
  BY <1>1, ArrivedUnmoved DEF AInv
<1> QED BY <1>1, <1>2, <1>3, <1>4, <1>5

\* A packet of a DU.
LEMMA AnswersAfterDu ==
  ASSUME Inv, AInv, NEW b, NEW p, HandlesDu(b, p),
         NEW S, NEW N, OnlyMoves(b, S, N),
         \A e \in Entry : In(e, mx_tx_bufs)' => In(e, mx_tx_bufs) \/ e.to = RU
  PROVE  AInv'
<1>1. /\ Handles(b, p) /\ b \in Bufs /\ p \in Packet /\ p.kind \in DuKinds /\ stray = 0
      /\ content[b] = RowOf(p) /\ IsNew(p)
  BY DuHandled
<1>2. Received(b)
  BY <1>1, Handled
<1>3. /\ ReceivedKept /\ RequestsKept /\ PastFinite' /\ OneMbuf' /\ to_du' = to_du
      /\ \A q : Unhandled(q)' => Unhandled(q)
      /\ \A e \in Entry : In(e, mx_tx_bufs) => content'[e.buf] = content[e.buf]
      /\ \A c \in Bufs : Received(c)' <=> Received(c) /\ c # b
  BY <1>1, AnswersAfterHandling
<1>4. NoAnswerAdded
  BY <1>3 DEF NoAnswerAdded
<1>5. TypeOK
  BY DEF Inv
<1>6. CASE p.kind \notin UlRequests
  <2>1. pending_ul_packet' = pending_ul_packet
    BY <1>6 DEF HandlesDu
  <2> QED BY <1>3, <1>4, <1>5, <2>1, AnswersKept
<1>7. CASE p.kind \in UlRequests
  <2>1. pending_ul_packet' = [i \in Dus \X Ports \X Symbols |->
          IF i[1] = p.du /\ i[2] = p.port THEN 1 ELSE pending_ul_packet[i]]
    <3>1. DOMAIN pending_ul_packet = Dus \X Ports \X Symbols
      BY <1>5 DEF TypeOK
    <3> QED BY <1>7, <3>1 DEF HandlesDu
  <2>2. p \in UlArrived /\ p \in UlArrived'
    BY <1>1, <1>3, <1>7 DEF IsNew, UlArrived, UlRequests, RequestsKept
  <2>3. Unhandled(p)
    BY <1>1, <1>2 DEF Unhandled
  <2>4. ~Unhandled(p)'
    <3> SUFFICES ASSUME NEW c \in Bufs, Received(c)', content'[c] = RowOf(p) PROVE FALSE
      BY DEF Unhandled, RowOf, EmptyRow
    <3>1. Received(c) /\ content[c] = RowOf(p) /\ c # b
      BY <1>3 DEF ReceivedKept
    <3> QED BY <1>1, <1>2, <3>1 DEF AInv, OneMbuf
  <2>5. p \in HandledRequests(p.du, p.port)' /\ p \notin HandledRequests(p.du, p.port)
    BY <2>2, <2>3, <2>4 DEF HandledRequests, Requests
  <2>6. \A d, port : HandledRequests(d, port) \subseteq HandledRequests(d, port)'
    BY <1>3, HandledKept
  <2>7. \A d \in Dus, port \in Ports, s \in Symbols :
          AnswersToSend(d, port, s)' \subseteq AnswersToSend(d, port, s)
    BY <1>4, EntriesKept
  <2>8. ASSUME NEW d \in Dus, NEW port \in Ports, NEW s \in Symbols PROVE Bounded(d, port, s)'
    <3>1. pending_ul_packet'[<<d, port, s>>]
            = IF d = p.du /\ port = p.port THEN 1 ELSE pending_ul_packet[<<d, port, s>>]
      BY <2>1
    <3>2. CASE d = p.du /\ port = p.port
      <4>1. pending_ul_packet'[<<d, port, s>>] = 1
        BY <3>1, <3>2
      <4>2. p \in HandledRequests(d, port)' /\ p \notin HandledRequests(d, port)
        BY <2>5, <3>2
      <4> QED BY <1>3, <1>5, <2>6, <2>7, <4>1, <4>2, RequestCounted
    <3>3. CASE ~(d = p.du /\ port = p.port)
      <4>1. pending_ul_packet'[<<d, port, s>>] = pending_ul_packet[<<d, port, s>>]
        BY <3>1, <3>3
      <4> QED BY <1>3, <1>5, <2>6, <2>7, <4>1, CountKept
    <3> QED BY <3>2, <3>3
  <2> QED BY <1>3, <2>8 DEF AInv, AnswersInv
<1> QED BY <1>6, <1>7


\* Packets that are ignored add no answer.
LEMMA StrayAnswers == Inv /\ AInv /\ (IgnoreStray \/ IgnoreForeign) => AInv'
<1> SUFFICES ASSUME Inv, AInv, IgnoreStray \/ IgnoreForeign PROVE AInv'
  OBVIOUS
<1>1. PICK b \in Burst : \E p \in {PacketIn(b)} :
        /\ Handles(b, p)
        /\ content' = content \/ FreeAll({b})
        /\ UNCHANGED <<mx_tx_bufs, cacheVars, prachVars, alive>>
  BY DEF IgnoreStray, IgnoreForeign
<1>2. \A c \in Bufs \ {b} : content'[c] = content[c]
  <2>1. FreeAll({b}) => \A c \in Bufs \ ({b} \cup {}) : content'[c] = content[c]
    BY ContentAfterFree
  <2> QED BY <1>1, <2>1
<1>3. /\ b \in Bufs /\ ~ToBeSent(b)
      /\ \A c \in Bufs : Received(c)' <=> Received(c) /\ c # b
      /\ UNCHANGED <<envVars, to_ru, to_du>>
  BY <1>1, Handled
<1>4. ReceivedKept
  BY <1>2, <1>3 DEF ReceivedKept
<1>5. NoAnswerAdded
  <2>1. \A e \in Entry : e.buf \in Bufs /\ (In(e, mx_tx_bufs)' => In(e, mx_tx_bufs) /\ ToBeSent(e.buf))
    BY <1>1 DEF Entry, ToBeSent, In
  <2> QED BY <1>2, <1>3, <2>1 DEF NoAnswerAdded
<1>6. OneMbuf' /\ \A q : Unhandled(q)' => Unhandled(q)
  BY <1>4, UnhandledKept DEF AInv
<1>7. RequestsKept /\ PastFinite' /\ UNCHANGED <<to_du, pending_ul_packet>> /\ TypeOK
  BY <1>1, <1>3, ArrivedUnmoved DEF AInv, Inv, cacheVars
<1> QED BY <1>5, <1>6, <1>7, AnswersKept

\* A request that waits in the cache has been handled, and notes its symbols.
LEMMA CacheAnswers == Inv /\ AInv /\ CachePacket => AInv'
<1> SUFFICES ASSUME Inv, AInv, CachePacket PROVE AInv'
  OBVIOUS
<1>1. PICK b \in Burst : \E p \in {PacketIn(b)} :
        /\ HandlesDu(b, p) /\ FreeAll(Evicted(p)) /\ UNCHANGED mx_tx_bufs
  BY DEF CachePacket
<1> DEFINE p == PacketIn(b)
<1>2. HandlesDu(b, p) /\ FreeAll(Evicted(p)) /\ UNCHANGED mx_tx_bufs
  BY <1>1
<1> HIDE DEF p
<1>3. p \in Packet
  BY <1>2, DuHandled
<1>4. \A c \in Evicted(p) : Cached(c) \/ c = b
  BY <1>3, PacketParts DEF Evicted, Cached
<1>5. \A c \in Bufs \ (Evicted(p) \cup {}) : content'[c] = content[c]
  BY <1>2, ContentAfterFree
<1>6. \A e \in Entry : In(e, mx_tx_bufs)' => In(e, mx_tx_bufs) \/ e.to = RU
  BY <1>2 DEF In
<1>7. OnlyMoves(b, Evicted(p), {})
  BY <1>4, <1>5 DEF OnlyMoves
<1> QED BY <1>2, <1>6, <1>7, AnswersAfterDu

\* A packet for the RU answers no request.
LEMMA EntryToRu ==
  ASSUME TypeOK, NEW c \in Bufs, mx_tx_bufs' = Append(mx_tx_bufs, ToSend(RU, c))
  PROVE  \A e \in Entry : In(e, mx_tx_bufs)' => In(e, mx_tx_bufs) \/ e.to = RU
<1>1. mx_tx_bufs \in Seq(Entry) /\ ToSend(RU, c) \in Entry /\ ToSend(RU, c).to = RU
  BY DEF TypeOK, Entry, ToSend
<1>2. \A e \in Entry : In(e, mx_tx_bufs') <=> In(e, mx_tx_bufs) \/ e = ToSend(RU, c)
  BY <1>1, Appended
<1>3. \A e \in Entry : In(e, mx_tx_bufs)' <=> In(e, mx_tx_bufs')
  BY DEF In
<1> QED BY <1>1, <1>2, <1>3

\* A request that completes its row notes what it asks for, and has been handled,
LEMMA ForwardAnswers == Inv /\ AInv /\ ForwardControl => AInv'
<1> SUFFICES ASSUME Inv, AInv, ForwardControl PROVE AInv'
  OBVIOUS
<1>1. PICK b \in Burst : \E p \in {PacketIn(b)} :
        /\ HandlesDu(b, p) /\ mx_tx_bufs' = Append(mx_tx_bufs, ToSend(RU, b))
        /\ FreeAll(Evicted(p) \cup (InRow(RowWith(p, b)) \ {b}))
  BY DEF ForwardControl
<1> DEFINE p == PacketIn(b)
           R == InRow(cached_du_packets[KeyOf(p)])
<1>2. /\ HandlesDu(b, p) /\ mx_tx_bufs' = Append(mx_tx_bufs, ToSend(RU, b))
      /\ FreeAll(Evicted(p) \cup (InRow(RowWith(p, b)) \ {b}))
  BY <1>1
<1> HIDE DEF p
<1>3. p \in Packet /\ b \in Bufs /\ ~Cached(b) /\ TypeOK /\ CountInv
  BY <1>2, DuHandled DEF Inv
<1>4. FreeAll(R)
  BY <1>2, <1>3, RowOfHandled
<1>5. \A c \in R : Cached(c) \/ c = b
  BY <1>3, PacketParts DEF Cached
<1> HIDE DEF R
<1>6. \A c \in Bufs \ (R \cup {}) : content'[c] = content[c]
  BY <1>4, ContentAfterFree
<1>7. \A e \in Entry : In(e, mx_tx_bufs)' => In(e, mx_tx_bufs) \/ e.to = RU
  BY <1>2, <1>3, EntryToRu
<1>8. OnlyMoves(b, R, {})
  BY <1>5, <1>6 DEF OnlyMoves
<1> QED BY <1>2, <1>7, <1>8, AnswersAfterDu

\* a packet that stops the program adds no answer,
LEMMA RefuseAnswers ==
  ASSUME Inv, AInv, NEW b, NEW p, HandlesDu(b, p), UNCHANGED <<memory, mx_tx_bufs>>
  PROVE  AInv'
<1>1. \A c \in Bufs \ ({} \cup {}) : content'[c] = content[c]
  BY DEF memory
<1>2. \A e \in Entry : In(e, mx_tx_bufs)' => In(e, mx_tx_bufs) \/ e.to = RU
  BY DEF In
<1>3. OnlyMoves(b, {}, {})
  BY <1>1 DEF OnlyMoves
<1> QED BY <1>2, <1>3, AnswersAfterDu

\* and one that completes its row notes what it asks for, too.
LEMMA MergeAnswers == Inv /\ AInv /\ MergePackets => AInv'
<1> SUFFICES ASSUME Inv, AInv, MergePackets PROVE AInv'
  OBVIOUS
<1> DEFINE new == Nth(LowestFree(1), 1)
<1>1. PICK b \in Burst : \E p \in {PacketIn(b)} :
        /\ HandlesDu(b, p)
        /\ IF Free # {}
           THEN /\ FreeAndFill(Evicted(p) \cup InRow(RowWith(p, b)),
                               Filled(LowestFree(1), Merged(p, RowWith(p, b))))
                /\ mx_tx_bufs' = Append(mx_tx_bufs, ToSend(RU, new))
           ELSE UNCHANGED <<memory, mx_tx_bufs>>
  BY DEF MergePackets
<1> DEFINE p == PacketIn(b)
           S == InRow(cached_du_packets[KeyOf(p)]) \cup {b}
           filled == Filled(LowestFree(1), Merged(p, RowWith(p, b)))
<1>2. /\ HandlesDu(b, p)
      /\ IF Free # {}
         THEN /\ FreeAndFill(Evicted(p) \cup InRow(RowWith(p, b)), filled)
              /\ mx_tx_bufs' = Append(mx_tx_bufs, ToSend(RU, new))
         ELSE UNCHANGED <<memory, mx_tx_bufs>>
  BY <1>1
<1> HIDE DEF p
<1>3. p \in Packet /\ b \in Bufs /\ ~Cached(b) /\ TypeOK /\ CountInv
  BY <1>2, DuHandled DEF Inv
<1>4. CASE Free # {}
  <2>1. LowestFree(1) = {new} /\ new \in Free
    BY <1>4, NewMbuf
  <2>2. new \in Bufs /\ {new} \in SUBSET Free
    BY <2>1 DEF Free
  <2>3. DOMAIN filled = {new}
    BY <2>1 DEF Filled
  <2>4. Evicted(p) \cup InRow(RowWith(p, b)) = S
    BY <1>3, RowOfHandled
  <2>5. FreeAndFill(S, filled) /\ mx_tx_bufs' = Append(mx_tx_bufs, ToSend(RU, new))
    BY <1>2, <1>4, <2>4
  <2>6. \A c \in S : Cached(c) \/ c = b
    BY <1>3, PacketParts DEF Cached
  <2> HIDE DEF S, filled, new
  <2>7. \A c \in Bufs \ (S \cup {new}) : content'[c] = content[c]
    BY <2>3, <2>5, ContentKept
  <2>8. \A e \in Entry : In(e, mx_tx_bufs)' => In(e, mx_tx_bufs) \/ e.to = RU
    BY <1>3, <2>2, <2>5, EntryToRu
  <2>9. OnlyMoves(b, S, {new})
    BY <2>2, <2>6, <2>7 DEF OnlyMoves
  <2>10. HandlesDu(b, p)
    BY <1>2
  <2> QED BY <2>8, <2>9, <2>10, AnswersAfterDu
<1>5. CASE Free = {}
  BY <1>2, <1>5, RefuseAnswers
<1> QED BY <1>4, <1>5


\* The thread is done with a packet that is not a DU's: it frees mbuf b, fills
\* those of N, and notes nothing.
LEMMA AnswersAfterRu ==
  ASSUME Inv, AInv, stray = 0, NEW b, NEW p, Handles(b, p),
         NEW S, NEW N, OnlyMoves(b, S, N),
         pending_ul_packet' = pending_ul_packet,
         \A e \in Entry : In(e, mx_tx_bufs)' =>
           In(e, mx_tx_bufs) \/ PacketIn(e.buf)'.kind # "ul_data"
  PROVE  AInv'
<1>1. /\ RequestsKept /\ PastFinite' /\ OneMbuf' /\ to_du' = to_du
      /\ \A q : Unhandled(q)' => Unhandled(q)
      /\ \A e \in Entry : In(e, mx_tx_bufs) => content'[e.buf] = content[e.buf]
  BY AnswersAfterHandling
<1>2. NoAnswerAdded
  BY <1>1 DEF NoAnswerAdded
<1> QED BY <1>1, <1>2, AnswersKept DEF Inv

\* A packet of the RU is handled before any that is not for the middlebox.
LEMMA NotStray ==
  ASSUME Inv, NEW b, NEW p, Handles(b, p), p.kind \in RuKinds
  PROVE  /\ stray = 0 /\ b \in Bufs /\ Received(b) /\ p = PacketIn(b) /\ p \in Packet
         /\ p.kind = "ul_data" => content[b] = RowOf(p)
<1>1. stray \in Nat
  BY SharingAssumption DEF Inv, TypeOK, IsScenario
<1>2. p.kind \notin StrayKinds
  BY DEF StrayKinds, RuKinds
<1> QED BY <1>1, <1>2, Handled

\* A packet of the RU that is dropped, or stops the program, adds no answer.
LEMMA StopAnswers ==
  ASSUME Inv, AInv, NEW b, NEW p, Handles(b, p), p.kind \in RuKinds,
         UNCHANGED <<memory, mx_tx_bufs, pending_ul_packet>>
  PROVE  AInv'
<1>1. stray = 0
  BY NotStray
<1>2. \A c \in Bufs \ ({} \cup {}) : content'[c] = content[c]
  BY DEF memory
<1>3. \A e \in Entry : In(e, mx_tx_bufs)' => In(e, mx_tx_bufs) \/ PacketIn(e.buf)'.kind # "ul_data"
  BY DEF In
<1>4. OnlyMoves(b, {}, {}) /\ pending_ul_packet' = pending_ul_packet
  BY <1>2 DEF OnlyMoves
<1> QED BY <1>1, <1>3, <1>4, AnswersAfterRu

\* An answer goes to the first DU noted for it, and uses up the note.
LEMMA ReturnAnswers == Inv /\ AInv /\ ReturnUplink => AInv'
<1> SUFFICES ASSUME Inv, AInv, ReturnUplink PROVE AInv'
  OBVIOUS
<1>1. PICK b \in Burst : \E p \in {PacketIn(b)} :
        /\ Handles(b, p) /\ p.kind = "ul_data"
        /\ IF Expecting(p) = {}
           THEN FreeAll({b}) /\ UNCHANGED <<mx_tx_bufs, pending_ul_packet>>
           ELSE IF Free = {}
           THEN UNCHANGED <<memory, mx_tx_bufs, pending_ul_packet>>
           ELSE /\ FreeAndFill({b}, Filled(LowestFree(1), content[b]))
                /\ mx_tx_bufs' = Append(mx_tx_bufs, ToSend(FirstExpecting(p), Nth(LowestFree(1), 1)))
                /\ pending_ul_packet' = [i \in DOMAIN pending_ul_packet |->
                     IF i[1] \in Answered(p) /\ i[2] = p.port /\ i[3] = p.symbol
                     THEN 0 ELSE pending_ul_packet[i]]
  BY DEF ReturnUplink
<1> DEFINE p == PacketIn(b)
           d1 == FirstExpecting(p)
           e == ToSend(d1, Nth(LowestFree(1), 1))
           filled == Filled(LowestFree(1), content[b])
<1>2. /\ Handles(b, p) /\ p.kind = "ul_data" /\ p.kind \in RuKinds
      /\ IF Expecting(p) = {}
         THEN FreeAll({b}) /\ UNCHANGED <<mx_tx_bufs, pending_ul_packet>>
         ELSE IF Free = {}
         THEN UNCHANGED <<memory, mx_tx_bufs, pending_ul_packet>>
         ELSE /\ FreeAndFill({b}, filled)
              /\ mx_tx_bufs' = Append(mx_tx_bufs, e)
              /\ pending_ul_packet' = [i \in DOMAIN pending_ul_packet |->
                   IF i[1] \in Answered(p) /\ i[2] = p.port /\ i[3] = p.symbol
                   THEN 0 ELSE pending_ul_packet[i]]
  BY <1>1 DEF RuKinds
<1> HIDE DEF p
<1>3. /\ stray = 0 /\ b \in Bufs /\ p = PacketIn(b) /\ p \in Packet /\ content[b] = RowOf(p)
      /\ TypeOK /\ \A c \in {b} : Cached(c) \/ c = b
  BY <1>2, NotStray DEF Inv
<1>4. CASE Expecting(p) = {}
  <2>1. FreeAll({b}) /\ UNCHANGED <<mx_tx_bufs, pending_ul_packet>>
    BY <1>2, <1>4
  <2>2. \A c \in Bufs \ ({b} \cup {}) : content'[c] = content[c]
    BY <2>1, ContentAfterFree
  <2>3. \A f \in Entry : In(f, mx_tx_bufs)' => In(f, mx_tx_bufs) \/ PacketIn(f.buf)'.kind # "ul_data"
    BY <2>1 DEF In
  <2>4. OnlyMoves(b, {b}, {}) /\ pending_ul_packet' = pending_ul_packet
    BY <1>3, <2>1, <2>2 DEF OnlyMoves
  <2> QED BY <1>2, <1>3, <2>3, <2>4, AnswersAfterRu
<1>5. CASE Expecting(p) # {} /\ Free = {}
  BY <1>2, <1>5, StopAnswers
<1>6. CASE Expecting(p) # {} /\ Free # {}
  <2>1. PICK new \in Free : LowestFree(1) = {new} /\ Nth(LowestFree(1), 1) = new
    BY <1>6, NewMbuf
  <2>2. new \in Bufs /\ {new} \in SUBSET Free
    BY DEF Free
  <2>3. DOMAIN filled = {new} /\ filled[new] = content[b]
    BY <2>1 DEF Filled
  <2>4. /\ FreeAndFill({b}, filled) /\ mx_tx_bufs' = Append(mx_tx_bufs, e)
        /\ pending_ul_packet' = [i \in Dus \X Ports \X Symbols |->
             IF i[1] = d1 /\ i[2] = p.port /\ i[3] = p.symbol THEN 0 ELSE pending_ul_packet[i]]
    <3>1. DOMAIN pending_ul_packet = Dus \X Ports \X Symbols
      BY <1>3 DEF TypeOK
    <3> QED BY <1>2, <1>6, <3>1 DEF Answered
  <2>5. d1 \in Dus /\ pending_ul_packet[<<d1, p.port, p.symbol>>] = 1
    <3>1. d1 \in Expecting(p) /\ d1 \in Dus
      BY <1>6, FirstIsExpecting
    <3> QED BY <3>1 DEF Expecting
  <2>6. e \in Entry /\ e.to = d1 /\ e.buf = new
    BY <2>1, <2>2, <2>5 DEF Entry, ToSend
  <2> HIDE DEF filled, e, d1
  <2>7. /\ \A c \in Bufs \ ({b} \cup {new}) : content'[c] = content[c]
        /\ content'[new] = content[b]
    BY <2>2, <2>3, <2>4, ContentKept
  <2>8. OnlyMoves(b, {b}, {new})
    BY <1>3, <2>2, <2>7 DEF OnlyMoves
  <2>9. \A f \in Entry : In(f, mx_tx_bufs)' <=> In(f, mx_tx_bufs) \/ f = e
    <3>1. mx_tx_bufs \in Seq(Entry)
      BY <1>3 DEF TypeOK, Entry
    <3>2. \A f : In(f, mx_tx_bufs') <=> In(f, mx_tx_bufs) \/ f = e
      BY <2>4, <2>6, <3>1, Appended
    <3> QED BY <3>2 DEF In
  <2>10. PacketIn(new)' = p
    <3>1. PacketIn(new)' = PacketIn(b)
      BY <2>7 DEF PacketIn
    <3> QED BY <1>3, <3>1
  <2>11. /\ RequestsKept /\ PastFinite' /\ OneMbuf' /\ to_du' = to_du
         /\ \A q : Unhandled(q)' => Unhandled(q)
         /\ \A f \in Entry : In(f, mx_tx_bufs) => content'[f.buf] = content[f.buf]
    BY <1>2, <1>3, <2>8, AnswersAfterHandling
  <2>12. \A d, port : HandledRequests(d, port) \subseteq HandledRequests(d, port)'
    BY <2>11, HandledKept
  <2>13. ASSUME NEW d \in Dus, NEW port \in Ports, NEW s \in Symbols,
                NEW f \in AnswersToSend(d, port, s)'
         PROVE  \/ f \in AnswersToSend(d, port, s)
                \/ f = e /\ d = d1 /\ port = p.port /\ s = p.symbol
    <3>1. f \in Entry /\ In(f, mx_tx_bufs)' /\ f.to = d /\ IsAnswer(PacketIn(f.buf), port, s)'
      BY <2>13 DEF AnswersToSend, Entry, Dus, Bufs
    <3>2. CASE In(f, mx_tx_bufs)
      <4>1. PacketIn(f.buf)' = PacketIn(f.buf)
        BY <2>11, <3>1, <3>2 DEF PacketIn
      <4> QED BY <3>1, <3>2, <4>1 DEF AnswersToSend, IsAnswer
    <3>3. CASE f = e
      BY <2>6, <2>10, <3>1, <3>3 DEF IsAnswer
    <3> QED BY <2>9, <3>1, <3>2, <3>3
  <2>14. ASSUME NEW d \in Dus, NEW port \in Ports, NEW s \in Symbols PROVE Bounded(d, port, s)'
    <3>1. pending_ul_packet'[<<d, port, s>>]
            = IF d = d1 /\ port = p.port /\ s = p.symbol THEN 0 ELSE pending_ul_packet[<<d, port, s>>]
      BY <2>4
    <3>2. CASE d = d1 /\ port = p.port /\ s = p.symbol
      <4>1. pending_ul_packet[<<d, port, s>>] = 1 /\ pending_ul_packet'[<<d, port, s>>] = 0
        BY <2>5, <3>1, <3>2
      <4>2. AnswersToSend(d, port, s)' \subseteq AnswersToSend(d, port, s) \cup {e}
        BY <2>13
      <4> QED BY <1>3, <2>11, <2>12, <4>1, <4>2, AnswerCounted
    <3>3. CASE ~(d = d1 /\ port = p.port /\ s = p.symbol)
      <4>1. pending_ul_packet'[<<d, port, s>>] = pending_ul_packet[<<d, port, s>>]
        BY <3>1, <3>3
      <4>2. AnswersToSend(d, port, s)' \subseteq AnswersToSend(d, port, s)
        BY <2>13, <3>3
      <4> QED BY <1>3, <2>11, <2>12, <4>1, <4>2, CountKept
    <3> QED BY <3>2, <3>3
  <2> QED BY <2>11, <2>14 DEF AInv, AnswersInv
<1> QED BY <1>4, <1>5, <1>6


\* PRACH answers answer no uplink request.
LEMMA SplitAnswers == Inv /\ AInv /\ SplitPrach => AInv'
<1> SUFFICES ASSUME Inv, AInv, SplitPrach PROVE AInv'
  OBVIOUS
<1>1. PICK b \in Burst : \E p \in {PacketIn(b)} :
        /\ Handles(b, p) /\ p.kind = "prach_data" /\ UNCHANGED <<cacheVars, prachVars>>
        /\ IF Cardinality(Free) >= NumDus
           THEN /\ FreeAndFill({b}, [c \in LowestFree(NumDus) |->
                     [d \in Dus |-> IF c = BufFor(d) THEN SectionFor(b, d) ELSE NULL]])
                /\ mx_tx_bufs' = mx_tx_bufs \o PrachEntries
           ELSE UNCHANGED <<memory, mx_tx_bufs>>
  BY DEF SplitPrach, BufFor, PrachEntries
<1> DEFINE p == PacketIn(b)
           filled(N) == [c \in N |-> [d \in Dus |-> IF c = BufFor(d) THEN SectionFor(b, d) ELSE NULL]]
<1>2. /\ Handles(b, p) /\ p.kind = "prach_data" /\ p.kind \in RuKinds
      /\ UNCHANGED pending_ul_packet
      /\ IF Cardinality(Free) >= NumDus
         THEN /\ FreeAndFill({b}, filled(LowestFree(NumDus)))
              /\ mx_tx_bufs' = mx_tx_bufs \o PrachEntries
         ELSE UNCHANGED <<memory, mx_tx_bufs>>
  BY <1>1 DEF RuKinds, cacheVars
<1> HIDE DEF p
<1>3. /\ stray = 0 /\ b \in Bufs /\ Received(b) /\ p = PacketIn(b) /\ p \in Packet
      /\ TypeOK /\ OwnInv
  BY <1>2, NotStray DEF Inv
<1>4. CASE ~(Cardinality(Free) >= NumDus)
  BY <1>2, <1>4, StopAnswers
<1>5. CASE Cardinality(Free) >= NumDus
  <2>1. PICK N : N = LowestFree(NumDus)
    OBVIOUS
  <2>2. /\ N \in SUBSET Free
        /\ \A d \in Dus : BufFor(d) \in N /\ BufFor(d) \in Bufs
        /\ \A d, e \in Dus : BufFor(d) = BufFor(e) => d = e
    BY <1>5, <2>1, MbufsForDus
  <2>3. FreeAndFill({b}, filled(N)) /\ mx_tx_bufs' = mx_tx_bufs \o PrachEntries
    BY <1>2, <1>5, <2>1
  <2>4. DOMAIN filled(N) = N
    OBVIOUS
  <2>5. ASSUME NEW d \in Dus, NEW c \in Bufs, c = BufFor(d)
        PROVE  PacketIn(c)'.kind # "ul_data"
    <3>3. /\ SectionFor(b, d) \in Packet /\ SectionFor(b, d) # NULL
          /\ SectionFor(b, d).kind # "ul_data"
      BY <1>2, <1>3, SectionOf
    <3>4. filled(N)[c] = [e \in Dus |-> IF c = BufFor(e) THEN SectionFor(b, e) ELSE NULL]
      BY <2>2, <2>5
    <3>5. filled(N)[c] = [e \in Dus |-> IF e = d THEN SectionFor(b, d) ELSE NULL]
      BY <2>2, <2>5, <3>4
    <3>6. c \in Bufs \cap DOMAIN filled(N)
      BY <2>2, <2>4, <2>5
    <3> HIDE DEF filled
    <3>7. content'[c] = filled(N)[c]
      BY <2>3, <3>6, ContentKept
    <3>8. content'[c] = [EmptyRow EXCEPT ![d] = SectionFor(b, d)]
      BY <3>5, <3>7 DEF EmptyRow
    <3>9. content'[c][d] = SectionFor(b, d) /\ \A e \in Dus : content'[c][e] # NULL <=> e = d
      BY <3>3, <3>8, NullAssumption DEF EmptyRow
    <3>10. PacketIn(c)' = content'[c][CHOOSE e \in Dus : content'[c][e] # NULL]
      BY DEF PacketIn, Dus
    <3>11. PacketIn(c)' = SectionFor(b, d)
      BY <3>9, <3>10
    <3> QED BY <3>3, <3>11
  <2> HIDE DEF filled
  <2>6. OnlyMoves(b, {b}, N)
    BY <2>2, <2>3, <2>4, ContentKept DEF OnlyMoves
  <2>7. ASSUME NEW e \in Entry, In(e, mx_tx_bufs)'
        PROVE  In(e, mx_tx_bufs) \/ PacketIn(e.buf)'.kind # "ul_data"
    <3>1. In(e, mx_tx_bufs \o PrachEntries)
      BY <2>3, <2>7 DEF In
    <3>2. In(e, mx_tx_bufs) \/ e \in {ToSend(d, BufFor(d)) : d \in Dus}
      BY <1>3, <1>5, <3>1, EntriesForDus
    <3>3. CASE e \in {ToSend(d, BufFor(d)) : d \in Dus}
      <4>1. PICK d \in Dus : e = ToSend(d, BufFor(d))
        BY <3>3
      <4>2. e.buf = BufFor(d) /\ e.buf \in Bufs
        BY <2>2, <4>1 DEF ToSend
      <4>3. PacketIn(e.buf)'.kind # "ul_data"
        BY <2>5, <4>2
      <4> QED BY <4>3
    <3> QED BY <3>2, <3>3
  <2>8. pending_ul_packet' = pending_ul_packet
    BY <1>2
  <2> QED BY <1>2, <1>3, <2>6, <2>7, <2>8, AnswersAfterRu
<1> QED BY <1>4, <1>5

\* What is sent, or freed for lack of room, is no request.
LEMMA ToBeSentFreed ==
  ASSUME Inv, AInv, NEW S, FreeAll(S), \A c \in S : ToBeSent(c),
         UNCHANGED <<rxq, mx_bufs, scenario, frame, sent, missing>>
  PROVE  /\ RequestsKept /\ PastFinite' /\ OneMbuf'
         /\ \A q : Unhandled(q)' => Unhandled(q)
         /\ \A c \in Bufs \ S : content'[c] = content[c]
<1>1. \A c \in Bufs \ S : content'[c] = content[c]
  <2>1. \A c \in Bufs \ (S \cup {}) : content'[c] = content[c]
    BY ContentAfterFree
  <2> QED BY <2>1
<1>2. \A c \in Bufs : Received(c)' <=> Received(c)
  BY DEF Received, In
<1>3. ReceivedKept
  BY <1>1, <1>2 DEF ReceivedKept, Inv, OwnInv, PlacesInv
<1>4. RequestsKept /\ PastFinite'
  BY DEF AInv, PastFinite, RequestsKept, Arrived, UlArrived, UlRequests, DuPackets
<1> QED BY <1>1, <1>3, <1>4, UnhandledKept DEF AInv

\* Answers that find no room are freed, not sent.
LEMMA FullAnswers == Inv /\ AInv /\ TxFull => AInv'
<1> SUFFICES ASSUME Inv, AInv, TxFull PROVE AInv'
  OBVIOUS
<1> DEFINE S == {mx_tx_bufs[i].buf : i \in DOMAIN mx_tx_bufs}
<1>1. /\ FreeAll(S) /\ mx_tx_bufs' = <<>>
      /\ UNCHANGED <<rxq, mx_bufs, scenario, frame, sent, missing, to_du, pending_ul_packet>>
  BY DEF TxFull, envVars, cacheVars
<1>2. mx_tx_bufs \in Seq(Entry)
  BY DEF Inv, TypeOK, Entry
<1>3. \A i \in DOMAIN mx_tx_bufs : mx_tx_bufs[i] \in Entry /\ In(mx_tx_bufs[i], mx_tx_bufs)
  BY <1>2 DEF In
<1>4. \A c \in S : ToBeSent(c)
  BY <1>3 DEF ToBeSent
<1> HIDE DEF S
<1>5. RequestsKept /\ PastFinite' /\ OneMbuf' /\ \A q : Unhandled(q)' => Unhandled(q)
  BY <1>1, <1>4, ToBeSentFreed
<1>6. NoAnswerAdded
  BY <1>1 DEF NoAnswerAdded, In
<1> QED BY <1>1, <1>5, <1>6, AnswersKept DEF Inv

\* An answer that is sent was to be sent before, and no longer is.
LEMMA SentAnswers == Inv /\ AInv /\ TxOne => AInv'
<1> SUFFICES ASSUME Inv, AInv, TxOne PROVE AInv'
  OBVIOUS
<1>1. PICK e : e = Head(mx_tx_bufs)
  OBVIOUS
<1>2. /\ mx_tx_bufs # <<>> /\ FreeAll({e.buf}) /\ mx_tx_bufs' = Tail(mx_tx_bufs)
      /\ IF e.to = RU
         THEN to_du' = to_du
         ELSE to_du' = Append(to_du, [du |-> e.to, packet |-> PacketIn(e.buf)])
      /\ UNCHANGED <<rxq, mx_bufs, scenario, frame, sent, missing, pending_ul_packet>>
  BY <1>1 DEF TxOne, cacheVars
<1>3. /\ e \in Entry /\ In(e, mx_tx_bufs) /\ e.buf \in Bufs /\ ToBeSent(e.buf)
      /\ e.to = RU \/ e.to \in Dus
      /\ \A f : In(f, Tail(mx_tx_bufs)) <=> In(f, mx_tx_bufs) /\ f # e
      /\ \A f \in Entry : In(f, mx_tx_bufs) /\ f.buf = e.buf => f = e
  BY <1>1, <1>2, HeadEntry
<1>4. /\ RequestsKept /\ PastFinite' /\ OneMbuf' /\ \A q : Unhandled(q)' => Unhandled(q)
      /\ \A c \in Bufs \ {e.buf} : content'[c] = content[c]
  BY <1>2, <1>3, ToBeSentFreed
<1>5. TypeOK
  BY DEF Inv
<1>6. ASSUME NEW f \in Entry, In(f, mx_tx_bufs)'
      PROVE  In(f, mx_tx_bufs) /\ f # e /\ content'[f.buf] = content[f.buf]
  <2>1. In(f, Tail(mx_tx_bufs))
    BY <1>2, <1>6 DEF In
  <2>2. In(f, mx_tx_bufs) /\ f # e /\ f.buf # e.buf /\ f.buf \in Bufs
    BY <1>3, <2>1 DEF Entry
  <2> QED BY <1>4, <2>2
<1>7. NoAnswerAdded
  BY <1>6 DEF NoAnswerAdded
<1>8. CASE e.to = RU
  BY <1>2, <1>4, <1>5, <1>7, <1>8, AnswersKept
<1>9. CASE e.to # RU
  <2> DEFINE x == [du |-> e.to, packet |-> PacketIn(e.buf)]
  <2>1. to_du \in Seq([du : Dus, packet : Packet]) /\ x \in [du : Dus, packet : Packet]
    <3>1. PacketIn(e.buf) \in Packet
      BY <1>1, <1>2, <1>9, HeadEntry
    <3> QED BY <1>3, <1>5, <1>9, <3>1 DEF TypeOK
  <2>2. to_du' = Append(to_du, x)
    BY <1>2, <1>9
  <2>3. /\ Len(to_du) \in Nat /\ Len(to_du') = Len(to_du) + 1 /\ to_du'[Len(to_du) + 1] = x
        /\ \A i \in 1 .. Len(to_du) : to_du'[i] = to_du[i]
    <3> HIDE DEF x
    <3> QED BY <2>1, <2>2
  <2>4. x.du = e.to /\ x.packet = PacketIn(e.buf)
    OBVIOUS
  <2> HIDE DEF x
  <2>5. \A d, port : HandledRequests(d, port) \subseteq HandledRequests(d, port)'
    BY <1>4, HandledKept
  <2>6. \A d \in Dus, port \in Ports, s \in Symbols :
          AnswersToSend(d, port, s)' \subseteq AnswersToSend(d, port, s)
    BY <1>7, EntriesKept
  <2>7. ASSUME NEW d \in Dus, NEW port \in Ports, NEW s \in Symbols PROVE Bounded(d, port, s)'
    <3> DEFINE A == AnswersSent(d, port, s)
               T == AnswersToSend(d, port, s)
               H == HandledRequests(d, port)
               w == pending_ul_packet[<<d, port, s>>]
               n == Len(to_du) + 1
    <3>1. w' = w /\ w \in {0, 1}
      BY <1>2, <1>5 DEF TypeOK
    <3>2. /\ IsFiniteSet(A) /\ Cardinality(A) \in Nat /\ IsFiniteSet(T) /\ Cardinality(T) \in Nat
          /\ Cardinality(H) \in Nat
      BY <1>5, CountsFinite DEF AInv
    <3>3. IsFiniteSet(H') /\ Cardinality(H') \in Nat
      BY <1>4, RequestsFinite
    <3>4. Cardinality(A) + Cardinality(T) + w <= Cardinality(H)
      BY DEF AInv, AnswersInv, Bounded
    <3>5. T' \subseteq T /\ H \subseteq H'
      BY <2>5, <2>6
    <3>6. n \notin A
      BY <2>3 DEF AnswersSent
    <3>7. \A i \in A' : i \in A \/ (i = n /\ e.to = d /\ IsAnswer(PacketIn(e.buf), port, s))
      <4> SUFFICES ASSUME NEW i \in 1 .. Len(to_du'), to_du'[i].du = d, IsAnswer(to_du'[i].packet, port, s)
                   PROVE  i \in A \/ (i = n /\ e.to = d /\ IsAnswer(PacketIn(e.buf), port, s))
        BY DEF AnswersSent, IsAnswer
      <4>1. i \in 1 .. Len(to_du) \/ i = n
        BY <2>3
      <4> QED BY <2>3, <2>4, <4>1 DEF AnswersSent
    <3>8. A \subseteq A'
      <4>1. \A i \in 1 .. Len(to_du) : i \in 1 .. Len(to_du')
        BY <2>3
      <4> QED BY <2>3, <4>1 DEF AnswersSent, IsAnswer
    <3>9. e \notin T'
      BY <1>6 DEF AnswersToSend, Entry, Dus, Bufs
    <3>10. e.to = d /\ IsAnswer(PacketIn(e.buf), port, s) => e \in T
      BY <1>3 DEF AnswersToSend
    <3> HIDE DEF A, T, H, w, n
    <3>11. Cardinality(H) <= Cardinality(H') /\ Cardinality(T') <= Cardinality(T) /\ Cardinality(T') \in Nat
           /\ IsFiniteSet(T')
      BY <3>2, <3>3, <3>5, FS_Subset, FS_CardinalityType
    <3>12. CASE n \notin A'
      <4>1. A' = A
        BY <3>7, <3>8, <3>12
      <4>2. Cardinality(A') + Cardinality(T') + w' <= Cardinality(H')
        BY <3>1, <3>2, <3>3, <3>4, <3>11, <4>1
      <4> QED BY <4>2 DEF A, T, H, w, Bounded
    <3>13. CASE n \in A'
      <4>1. A' = A \cup {n} /\ e \in T
        BY <3>6, <3>7, <3>8, <3>10, <3>13
      <4>2. Cardinality(A \cup {n}) = Cardinality(A) + 1
        BY <3>2, <3>6, FS_AddElement
      <4>3. T' \subseteq T \ {e}
        BY <3>5, <3>9
      <4>4. IsFiniteSet(T \ {e}) /\ Cardinality(T \ {e}) = Cardinality(T) - 1
        BY <3>2, <4>1, FS_RemoveElement
      <4>5. Cardinality(T') <= Cardinality(T \ {e})
        BY <4>3, <4>4, FS_Subset
      <4>6. Cardinality(A') = Cardinality(A) + 1
        BY <4>1, <4>2
      <4>7. Cardinality(A') + Cardinality(T') + w' <= Cardinality(H')
        BY <3>1, <3>2, <3>3, <3>4, <3>11, <4>4, <4>5, <4>6
      <4> QED BY <4>7 DEF A, T, H, w, Bounded
    <3> QED BY <3>12, <3>13
  <2> QED BY <1>4, <2>7 DEF AInv, AnswersInv
<1> QED BY <1>8, <1>9


\* The environment and the burst: the mbufs that are received, and what they
\* hold, stay, but for the one of a packet that comes.
LEMMA BurstAnswers == Inv /\ AInv /\ RxBurst => AInv'
<1> SUFFICES ASSUME Inv, AInv, RxBurst PROVE AInv'
  OBVIOUS
<1> DEFINE n == AtMostBurst(rxq)
<1>1. /\ mx_bufs = <<>> /\ mx_bufs' = SubSeq(rxq, 1, n) /\ rxq' = SubSeq(rxq, n + 1, Len(rxq))
      /\ UNCHANGED <<content, mx_tx_bufs, pending_ul_packet, envVars, to_du>>
  BY DEF RxBurst, memory, cacheVars
<1>2. rxq \in Seq(Bufs) /\ Once(rxq) /\ TypeOK
  BY DEF Inv, TypeOK, OwnInv, QueuesInv
<1>3. n \in 0 .. Len(rxq)
  BY <1>2, SharingAssumption DEF AtMostBurst
<1> HIDE DEF n
<1>4. \A b : In(b, mx_bufs') \/ In(b, rxq') <=> In(b, rxq)
  BY <1>1, <1>2, <1>3, BurstTaken
<1>5. ReceivedKept
  BY <1>1, <1>4 DEF ReceivedKept, Received, In
<1>6. NoAnswerAdded
  BY <1>1 DEF NoAnswerAdded, In
<1>7. OneMbuf' /\ \A q : Unhandled(q)' => Unhandled(q)
  BY <1>5, UnhandledKept DEF AInv
<1>8. RequestsKept /\ PastFinite'
  BY <1>1, ArrivedUnmoved DEF AInv
<1> QED BY <1>1, <1>2, <1>6, <1>7, <1>8, AnswersKept

\* Nothing is received or sent.
LEMMA AnswersWhenUnmoved ==
  ASSUME Inv, AInv, UNCHANGED <<memory, rxq, mx_bufs, mx_tx_bufs, cacheVars, to_du>>,
         RequestsKept, PastFinite'
  PROVE  AInv'
<1>1. UNCHANGED <<content, rxq, mx_bufs, mx_tx_bufs, pending_ul_packet, to_du>>
  BY DEF memory, cacheVars
<1>2. ReceivedKept
  BY <1>1 DEF ReceivedKept, Received, In
<1>3. NoAnswerAdded
  BY <1>1 DEF NoAnswerAdded, In
<1>4. OneMbuf' /\ \A q : Unhandled(q)' => Unhandled(q)
  BY <1>2, UnhandledKept DEF AInv
<1> QED BY <1>1, <1>3, <1>4, AnswersKept DEF Inv

\* Packets that are lost on the way add no answer,
LEMMA MissDuAnswers == Inv /\ AInv /\ MissDu => AInv'
<1> SUFFICES ASSUME Inv, AInv, MissDu PROVE AInv'
  OBVIOUS
<1>1. PICK p \in DuPackets(frame) \ sent :
        /\ sent' = sent \cup {p} /\ missing' = missing \cup {p}
        /\ UNCHANGED <<memory, rxq, mx_bufs, mx_tx_bufs, cacheVars, scenario, frame, to_du>>
  BY DEF MissDu
<1>2. TypeOK /\ frame \in RadioFrames
  BY DEF Inv, TypeOK
<1>3. p.frame = frame /\ frame \in Int
  BY <1>1, <1>2, DuPacketParts DEF RadioFrames
<1>4. ASSUME NEW q \in UlArrived PROVE q \in Arrived'
  <2>1. q # p
    <3>1. ASSUME NEW f \in 0 .. frame - 1, p \in DuPackets(f) PROVE FALSE
      <4>1. f \in RadioFrames /\ f # frame
        BY <1>2, SharingAssumption DEF RadioFrames
      <4> QED BY <1>2, <1>3, <3>1, <4>1, DuPacketParts
    <3> QED BY <1>1, <3>1 DEF UlArrived, UlRequests, Arrived
  <2> QED BY <1>1, <2>1 DEF UlArrived, UlRequests, Arrived, DuPackets
<1>5. RequestsKept
  BY <1>4 DEF RequestsKept
<1>6. PastFinite'
  <2>1. IsFiniteSet(sent) /\ IsFiniteSet(UNION {DuPackets(f) : f \in 0 .. frame - 1})
    BY DEF AInv, PastFinite
  <2>2. IsFiniteSet(sent')
    BY <1>1, <2>1, FS_AddElement
  <2> QED BY <1>1, <2>1, <2>2 DEF PastFinite, DuPackets
<1> QED BY <1>1, <1>5, <1>6, AnswersWhenUnmoved

\* whoever they are from,
LEMMA MissRuAnswers == Inv /\ AInv /\ MissRu => AInv'
<1> SUFFICES ASSUME Inv, AInv, MissRu PROVE AInv'
  OBVIOUS
<1>1. PICK p \in owed :
        /\ missing' = missing \cup {p}
        /\ UNCHANGED <<memory, rxq, mx_bufs, mx_tx_bufs, cacheVars, scenario, frame, sent, to_du>>
  BY DEF MissRu
<1>2. p.kind \in RuKinds
  BY DEF Inv, EnvInv
<1>3. RequestsKept
  BY <1>1, <1>2 DEF RequestsKept, UlArrived, UlRequests, Arrived, RuKinds, DuPackets
<1>4. PastFinite'
  BY <1>1 DEF AInv, PastFinite, DuPackets
<1> QED BY <1>1, <1>3, <1>4, AnswersWhenUnmoved

\* nor does a new frame: its requests have not arrived.
LEMMA FrameAnswers == Inv /\ AInv /\ NextFrame => AInv'
<1> SUFFICES ASSUME Inv, AInv, NextFrame PROVE AInv'
  OBVIOUS
<1>1. /\ sent = DuPackets(frame) /\ frame' = frame + 1 /\ sent' = {}
      /\ UNCHANGED <<memory, rxq, mx_bufs, mx_tx_bufs, cacheVars, scenario, missing, to_du>>
  BY DEF NextFrame
<1>2. frame \in Nat
  BY SharingAssumption DEF Inv, TypeOK, RadioFrames
<1> DEFINE past == UNION {DuPackets(f) : f \in 0 .. frame - 1}
<1>3. past' = past \cup sent
  <2>1. \A f : DuPackets(f)' = DuPackets(f)
    BY <1>1 DEF DuPackets
  <2>2. past' = UNION {DuPackets(f) : f \in 0 .. (frame + 1) - 1}
    BY <1>1 DEF DuPackets
  <2>3. \A f : f \in 0 .. (frame + 1) - 1 <=> f \in 0 .. frame - 1 \/ f = frame
    BY <1>2
  <2> QED BY <1>1, <2>2, <2>3
<1>4. RequestsKept
  <2>1. Arrived = (past \cup sent) \ missing
    BY DEF Arrived
  <2>2. Arrived' = (past' \cup sent') \ missing'
    BY DEF Arrived
  <2> HIDE DEF past
  <2>3. Arrived' = Arrived
    BY <1>1, <1>3, <2>1, <2>2
  <2> QED BY <2>3 DEF RequestsKept, UlArrived, UlRequests
<1>5. PastFinite'
  <2>1. IsFiniteSet(past) /\ IsFiniteSet(sent)
    BY DEF AInv, PastFinite
  <2> HIDE DEF past
  <2>2. IsFiniteSet(past \cup sent)
    BY <2>1, FS_Union
  <2>3. IsFiniteSet(sent')
    BY <1>1, FS_EmptySet
  <2>4. IsFiniteSet(past')
    BY <1>3, <2>2
  <2> QED BY <2>3, <2>4 DEF PastFinite, past
<1> QED BY <1>1, <1>4, <1>5, AnswersWhenUnmoved

\* A packet comes in mbuf n.
LEMMA AnswersAfterReceive ==
  ASSUME Inv, AInv, NEW row, NicReceive(row), RequestsKept, PastFinite', NEW n \in Bufs,
         \A c \in Bufs : Received(c)' <=> Received(c) \/ c = n,
         \A c \in Bufs \ {n} : content'[c] = content[c],
         content'[n] = row, ~Received(n), ~ToBeSent(n),
         \A c \in Bufs, p \in Packet : Received(c) /\ p.kind \in DuKinds /\ content[c] = RowOf(p)
           => row # RowOf(p),
         \A q \in UlArrived : row # RowOf(q)
  PROVE  AInv'
<1>1. UNCHANGED <<mx_tx_bufs, pending_ul_packet, to_du>>
  BY DEF NicReceive, cacheVars
<1>2. OneMbuf'
  <2> SUFFICES ASSUME NEW b \in Bufs, NEW c \in Bufs, NEW p \in Packet, Received(b)', Received(c)',
                      p.kind \in DuKinds, content'[b] = RowOf(p), content'[c] = RowOf(p)
               PROVE  b = c
    BY DEF OneMbuf, RowOf, EmptyRow
  <2>1. CASE b # n /\ c # n
    BY <2>1 DEF AInv, OneMbuf
  <2>2. CASE b = n \/ c = n
    BY <2>2
  <2> QED BY <2>1, <2>2
<1>3. ASSUME NEW q \in UlArrived, Unhandled(q)' PROVE Unhandled(q)
  <2>1. PICK c \in Bufs : Received(c)' /\ content'[c] = RowOf(q)
    BY <1>3 DEF Unhandled, RowOf, EmptyRow
  <2> QED BY <2>1 DEF Unhandled
<1>4. NoAnswerAdded
  <2>1. \A e \in Entry : e.buf \in Bufs /\ (In(e, mx_tx_bufs)' => In(e, mx_tx_bufs) /\ ToBeSent(e.buf))
    BY <1>1 DEF Entry, ToBeSent, In
  <2> QED BY <2>1 DEF NoAnswerAdded
<1> QED BY <1>1, <1>2, <1>3, <1>4, AnswersKept DEF Inv

\* The row of a packet is that of no other.
LEMMA RowsDiffer ==
  ASSUME NEW p \in Packet, NEW q \in Packet, RowOf(p) = RowOf(q)
  PROVE  p = q
<1>1. p.du \in Dus /\ q.du \in Dus /\ p # NULL /\ q # NULL
  BY PacketParts
<1>2. RowOf(p)[p.du] = p /\ RowOf(q)[p.du] = IF q.du = p.du THEN q ELSE NULL
  BY <1>1 DEF RowOf, EmptyRow
<1> QED BY <1>1, <1>2


\* What has not been sent has not arrived.
LEMMA ArrivedPackets ==
  ASSUME TypeOK
  PROVE  /\ \A q \in Arrived : q \in Packet
         /\ \A p \in DuPackets(frame) \ sent : p \notin Arrived
<1>1. frame \in RadioFrames /\ frame \in Int /\ \A f \in 0 .. frame - 1 : f \in RadioFrames /\ f # frame
  BY SharingAssumption DEF TypeOK, RadioFrames
<1>2. ASSUME NEW q \in Arrived PROVE q \in Packet
  <2>1. CASE q \in sent
    BY <2>1 DEF TypeOK
  <2>2. CASE q \notin sent
    <3>1. PICK f \in 0 .. frame - 1 : q \in DuPackets(f)
      BY <2>2 DEF Arrived
    <3> QED BY <1>1, <3>1, DuPacketParts
  <2> QED BY <2>1, <2>2
<1>3. ASSUME NEW p \in DuPackets(frame) \ sent, p \in Arrived PROVE FALSE
  <2>1. PICK f \in 0 .. frame - 1 : p \in DuPackets(f)
    BY <1>3 DEF Arrived
  <2>2. p.frame = f /\ p.frame = frame
    BY <1>1, <1>3, <2>1, DuPacketParts
  <2> QED BY <1>1, <2>2
<1> QED BY <1>2, <1>3

\* The mbuf in which a packet comes.
LEMMA MbufReceived ==
  ASSUME Inv, NEW row, NicReceive(row)
  PROVE  Nth(LowestFree(1), 1) \in Bufs /\ ~ToBeSent(Nth(LowestFree(1), 1))
<1>1. Free # {}
  BY DEF NicReceive
<1>2. Nth(LowestFree(1), 1) \in Free
  BY <1>1, NewMbuf
<1> QED BY <1>2 DEF Free, Inv, OwnInv, PlacesInv

\* A request that arrives has not been handled,
LEMMA SendDuAnswers == Inv /\ AInv /\ SendDu => AInv'
<1> SUFFICES ASSUME Inv, AInv, SendDu PROVE AInv'
  OBVIOUS
<1>1. PICK p \in DuPackets(frame) \ sent :
        /\ sent' = sent \cup {p} /\ NicReceive([EmptyRow EXCEPT ![p.du] = p])
        /\ UNCHANGED <<scenario, frame, missing, stray, owed>>
  BY DEF SendDu
<1>2. NicReceive(RowOf(p))
  BY <1>1 DEF RowOf
<1>3. PICK n : n = Nth(LowestFree(1), 1)
  OBVIOUS
<1>4. /\ p \in Packet /\ p.kind \in DuKinds
      /\ n \in Bufs /\ ~Received(n) /\ content'[n] = RowOf(p) /\ ~ToBeSent(n)
      /\ \A c \in Bufs : Received(c)' <=> Received(c) \/ c = n
      /\ \A c \in Bufs \ {n} : content'[c] = content[c]
  BY <1>1, <1>2, <1>3, DuPacketSent, MbufReceived
<1>5. TypeOK
  BY DEF Inv
<1>6. RequestsKept
  BY <1>1 DEF RequestsKept, UlArrived, UlRequests, Arrived, DuPackets
<1>7. PastFinite'
  <2>1. IsFiniteSet(sent) /\ IsFiniteSet(UNION {DuPackets(f) : f \in 0 .. frame - 1})
    BY DEF AInv, PastFinite
  <2>2. IsFiniteSet(sent')
    BY <1>1, <2>1, FS_AddElement
  <2> QED BY <1>1, <2>1, <2>2 DEF PastFinite, DuPackets
<1>8. ASSUME NEW c \in Bufs, NEW q \in Packet, Received(c), q.kind \in DuKinds, content[c] = RowOf(q)
      PROVE  RowOf(p) # RowOf(q)
  <2>1. IsOne(content[c], q)
    BY <1>8, PacketParts DEF IsOne, RowOf
  <2>2. PacketIn(c) = q
    BY <2>1, OnePacket
  <2>3. q.kind # "prach_data"
    BY <1>8 DEF DuKinds, Refused
  <2>4. IsNew(q)
    BY <1>8, <2>2, <2>3, HandledPacket
  <2>5. q # p
    BY <1>1, <1>8, <2>4 DEF IsNew
  <2> QED BY <1>4, <2>5, RowsDiffer
<1>9. \A q \in UlArrived : RowOf(p) # RowOf(q)
  BY <1>1, <1>4, <1>5, ArrivedPackets, RowsDiffer DEF UlArrived, UlRequests
<1> QED BY <1>2, <1>4, <1>6, <1>7, <1>8, <1>9, AnswersAfterReceive

\* What the RU sends, or somebody else, is no request.
LEMMA AnswersAfterOther ==
  ASSUME Inv, AInv, NEW p \in Packet, p.kind \notin DuKinds, NEW row, NicReceive(row),
         row = (IF p.kind = "prach_data" THEN AnswerRow(p) ELSE RowOf(p)),
         UNCHANGED <<scenario, frame, sent, missing>>, NEW n \in Bufs,
         \A c \in Bufs : Received(c)' <=> Received(c) \/ c = n,
         \A c \in Bufs \ {n} : content'[c] = content[c],
         content'[n] = row, ~Received(n), ~ToBeSent(n)
  PROVE  AInv'
<1>1. RequestsKept /\ PastFinite'
  BY DEF AInv, PastFinite, RequestsKept, Arrived, UlArrived, UlRequests, DuPackets
<1>2. ASSUME NEW q \in Packet, q.kind \in DuKinds PROVE row # RowOf(q)
  <2>1. CASE p.kind = "prach_data"
    <3>1. q.du \in Dus /\ RowOf(q)[q.du] = q
      BY PacketParts DEF RowOf, EmptyRow
    <3>2. AnswerRow(p)[q.du] = NULL \/ AnswerRow(p)[q.du].kind = p.kind
      BY <3>1, AnswerRows
    <3> QED BY <1>2, <2>1, <3>1, <3>2, PacketParts
  <2>2. CASE p.kind # "prach_data"
    BY <1>2, <2>2, RowsDiffer
  <2> QED BY <2>1, <2>2
<1>3. \A q \in UlArrived : row # RowOf(q)
  <2>1. \A q \in UlArrived : q \in Packet /\ q.kind \in DuKinds
    BY ArrivedPackets DEF UlArrived, UlRequests, DuKinds, Refused, Inv
  <2> QED BY <1>2, <2>1
<1> QED BY <1>1, <1>2, <1>3, AnswersAfterReceive

\* the RU's answer, as it arrives, is not sent to a DU yet,
LEMMA SendRuAnswers == Inv /\ AInv /\ SendRu => AInv'
<1> SUFFICES ASSUME Inv, AInv, SendRu PROVE AInv'
  OBVIOUS
<1>1. PICK p \in owed :
        owed' = owed \ {p} /\ NicReceive(AnswerRow(p))
        /\ UNCHANGED <<scenario, frame, sent, missing, stray>>
  BY DEF SendRu
<1>2. p \in Packet /\ p.kind \in RuKinds
  BY DEF Inv, TypeOK, EnvInv
<1>3. p.kind \notin DuKinds
  BY <1>2 DEF RuKinds, DuKinds, Refused
<1>4. AnswerRow(p) = IF p.kind = "prach_data" THEN AnswerRow(p) ELSE RowOf(p)
  BY <1>2, AnswerRows
<1>5. PICK n : n = Nth(LowestFree(1), 1)
  OBVIOUS
<1>6. /\ n \in Bufs /\ ~Received(n)
      /\ content'[n] = IF p.kind = "prach_data" THEN AnswerRow(p) ELSE RowOf(p)
      /\ \A c \in Bufs : Received(c)' <=> Received(c) \/ c = n
      /\ \A c \in Bufs \ {n} : content'[c] = content[c]
  BY <1>1, <1>5, RuPacketSent
<1>7. ~ToBeSent(n)
  BY <1>1, <1>5, MbufReceived
<1>8. NicReceive(AnswerRow(p)) /\ UNCHANGED <<scenario, frame, sent, missing>>
      /\ content'[n] = AnswerRow(p)
  BY <1>1, <1>4, <1>6
<1> QED BY <1>2, <1>3, <1>4, <1>6, <1>7, <1>8, AnswersAfterOther

\* and other packets are neither.
LEMMA StrayAnswersSent == Inv /\ AInv /\ SendStray => AInv'
<1> SUFFICES ASSUME Inv, AInv, SendStray PROVE AInv'
  OBVIOUS
<1>1. PICK d \in Dus, kind \in StrayKinds :
        /\ Quiet /\ NicReceive([EmptyRow EXCEPT ![d] = Stray(kind, d)])
        /\ UNCHANGED <<scenario, frame, sent, missing>>
  BY DEF SendStray
<1> DEFINE p == Stray(kind, d)
<1>2. p \in Packet /\ p.kind = kind /\ p.du = d
  <2>1. (CHOOSE x \in Ports : TRUE) \in Ports /\ (CHOOSE x \in Symbols : TRUE) \in Symbols
        /\ 0 \in RadioFrames
    BY SharingAssumption DEF RadioFrames
  <2> QED BY <2>1 DEF Stray, Packet
<1>3. NicReceive([EmptyRow EXCEPT ![p.du] = p])
  BY <1>1, <1>2
<1> HIDE DEF p
<1>4. p.kind \notin DuKinds /\ p.kind # "prach_data"
  BY <1>2 DEF DuKinds, Refused, StrayKinds
<1>5. NicReceive(RowOf(p))
  BY <1>3 DEF RowOf
<1>6. PICK n : n = Nth(LowestFree(1), 1)
  OBVIOUS
<1>7. n \in Bufs /\ ~ToBeSent(n)
  BY <1>5, <1>6, MbufReceived
<1>8. Free # {} /\ FreeAndFill({}, Filled(LowestFree(1), RowOf(p))) /\ rxq' = Append(rxq, n)
      /\ mx_bufs' = mx_bufs
  BY <1>5, <1>6 DEF NicReceive
<1>9. LowestFree(1) = {n}
  BY <1>6, <1>8, NewMbuf
<1>10. DOMAIN Filled(LowestFree(1), RowOf(p)) = {n} /\ Filled(LowestFree(1), RowOf(p))[n] = RowOf(p)
  BY <1>9 DEF Filled
<1>11. content'[n] = RowOf(p) /\ \A c \in Bufs \ {n} : content'[c] = content[c]
  BY <1>7, <1>8, <1>10, ContentKept
<1>12. rxq = <<>> /\ mx_bufs = <<>>
  BY <1>1 DEF Quiet
<1>13. ~Received(n) /\ \A c \in Bufs : Received(c)' <=> Received(c) \/ c = n
  <2>1. rxq \in Seq(Bufs)
    BY DEF Inv, TypeOK
  <2>2. \A c : In(c, rxq') <=> In(c, rxq) \/ c = n
    BY <1>7, <1>8, <2>1, Appended
  <2> QED BY <1>8, <1>12, <2>2 DEF Received, In
<1>14. UNCHANGED <<scenario, frame, sent, missing>>
  BY <1>1
<1> QED BY <1>2, <1>4, <1>5, <1>7, <1>11, <1>13, <1>14, AnswersAfterOther

\* A stuttering step.
LEMMA AnswersWhenNothingHappens == Inv /\ AInv /\ UNCHANGED vars => AInv'
<1> SUFFICES ASSUME Inv, AInv, UNCHANGED vars PROVE AInv'
  OBVIOUS
<1>1. UNCHANGED <<memory, rxq, mx_bufs, mx_tx_bufs, cacheVars, to_du>> /\ UNCHANGED envVars
  BY DEF vars
<1>2. RequestsKept /\ PastFinite'
  BY <1>1, ArrivedUnmoved DEF AInv
<1> QED BY <1>1, <1>2, AnswersWhenUnmoved

\* Requests whose sections cannot be put together.
LEMMA RefusedAnswers == Inv /\ AInv /\ RefuseControl => AInv'
BY RefuseAnswers DEF RefuseControl

\* Every step keeps the bound on answers.
LEMMA AnswersStep == Inv /\ AInv /\ [Next]_vars => AInv'
<1> SUFFICES ASSUME Inv, AInv, [Next]_vars PROVE AInv'
  OBVIOUS
<1>1. CASE lcore_main
  BY <1>1, BurstAnswers, StrayAnswers, CacheAnswers, ForwardAnswers, RefusedAnswers, MergeAnswers,
     ReturnAnswers, SplitAnswers, SentAnswers, FullAnswers DEF lcore_main
<1>2. CASE SendDu \/ MissDu \/ SendRu \/ MissRu \/ SendStray \/ NextFrame
  BY <1>2, SendDuAnswers, MissDuAnswers, SendRuAnswers, MissRuAnswers, StrayAnswersSent, FrameAnswers
<1>3. CASE Spin \/ UNCHANGED vars
  BY <1>3, AnswersWhenNothingHappens DEF Spin
<1> QED BY <1>1, <1>2, <1>3 DEF Next

\* There is no answer, no note and no request at the start.
LEMMA InitAnswers == Init => AInv
<1> SUFFICES ASSUME Init PROVE AInv
  OBVIOUS
<1>1. \A c : ~Received(c)
  BY DEF Init, Received, In
<1>2. OneMbuf
  BY <1>1 DEF OneMbuf
<1>3. PastFinite
  <2>1. 0 .. frame - 1 = {} /\ sent = {}
    BY DEF Init
  <2>2. UNION {DuPackets(f) : f \in 0 .. frame - 1} = {}
    BY <2>1
  <2> QED BY <2>1, <2>2, FS_EmptySet DEF PastFinite
<1>4. AnswersInv
  <2> SUFFICES ASSUME NEW d \in Dus, NEW port \in Ports, NEW s \in Symbols PROVE Bounded(d, port, s)
    BY DEF AnswersInv
  <2>1. TypeOK
    BY InitInv DEF Inv
  <2>2. AnswersSent(d, port, s) = {} /\ AnswersToSend(d, port, s) = {}
    BY DEF Init, AnswersSent, AnswersToSend, In
  <2>3. pending_ul_packet[<<d, port, s>>] = 0
    BY DEF Init
  <2>4. Cardinality(HandledRequests(d, port)) \in Nat
    BY <1>3, <2>1, CountsFinite
  <2> QED BY <2>2, <2>3, <2>4, FS_EmptySet DEF Bounded
<1> QED BY <1>2, <1>3, <1>4 DEF AInv

\* Even if answers are lost, and with requests left over from earlier frames, a
\* DU never gets more packets of a port and a symbol than it has sent requests
\* for that port.
THEOREM AnswersHaveRequests == Spec => []AnswersMatchRequests
<1>1. ASSUME Inv, AInv PROVE AnswersMatchRequests
  <2> SUFFICES ASSUME NEW d \in Dus, NEW port \in Ports, NEW s \in Symbols
               PROVE  Cardinality({i \in DOMAIN to_du : LET e == to_du[i] IN
                                     /\ e.du = d /\ e.packet.kind = "ul_data"
                                     /\ e.packet.port = port /\ e.packet.symbol = s})
                        <= Cardinality(Requests(d, port))
    BY DEF AnswersMatchRequests, Requests, UlArrived
  <2>1. TypeOK /\ DOMAIN to_du = 1 .. Len(to_du)
    BY <1>1 DEF Inv, TypeOK
  <2>2. {i \in DOMAIN to_du : LET e == to_du[i] IN
           /\ e.du = d /\ e.packet.kind = "ul_data"
           /\ e.packet.port = port /\ e.packet.symbol = s} = AnswersSent(d, port, s)
    BY <2>1 DEF AnswersSent, IsAnswer
  <2>3. /\ Cardinality(AnswersSent(d, port, s)) \in Nat /\ Cardinality(AnswersToSend(d, port, s)) \in Nat
        /\ Cardinality(HandledRequests(d, port)) \in Nat
    BY <1>1, <2>1, CountsFinite DEF AInv
  <2>4. pending_ul_packet[<<d, port, s>>] \in {0, 1}
    BY <2>1 DEF TypeOK
  <2>5. Bounded(d, port, s)
    BY <1>1 DEF AInv, AnswersInv
  <2>6. IsFiniteSet(Requests(d, port)) /\ Cardinality(Requests(d, port)) \in Nat
    <3>1. IsFiniteSet(Arrived)
      BY <1>1, ArrivedFinite DEF AInv, PastFinite, Arrived
    <3>2. Requests(d, port) \in SUBSET Arrived
      BY DEF Requests, UlArrived, UlRequests
    <3> QED BY <3>1, <3>2, FS_Subset, FS_CardinalityType
  <2>7. HandledRequests(d, port) \in SUBSET Requests(d, port)
    BY DEF HandledRequests
  <2>8. Cardinality(HandledRequests(d, port)) <= Cardinality(Requests(d, port))
    BY <2>6, <2>7, FS_Subset
  <2>9. Cardinality(AnswersSent(d, port, s)) <= Cardinality(Requests(d, port))
    BY <2>3, <2>4, <2>5, <2>6, <2>8 DEF Bounded
  <2> QED BY <2>2, <2>9
<1>2. Init => AInv
  BY InitAnswers
<1>3. Inv /\ AInv /\ [Next]_vars => AInv'
  BY AnswersStep
<1>4. Inv /\ AInv => AnswersMatchRequests
  BY <1>1
<1> QED BY <1>2, <1>3, <1>4, InvAlways, PTL DEF Spec

-----------------------------------------------------------------------------
(* The middlebox implements FronthaulMerge for downlink data.  What waits  *)
(* is in a received mbuf or in the cache, or has been put together but not *)
(* been sent; it is delivered when it is sent to the RU.                   *)

\* The packets of downlink data that arrived, and those that may still be put
\* together.
ArrivedIq == Of("iq", Arrived)
Holding(c) == Received(c) \/ Cached(c)
Pending == {q \in Packet : q.kind = "iq" /\ \E c \in Bufs : Holding(c) /\ content[c] = RowOf(q)}

\* A row of downlink data: a packet of each DU for one port and symbol.
IsIq(p) == p # NULL /\ p.kind = "iq"
Iq(row) == \E d \in Dus : IsIq(row[d])
IqGroup(row) == \A d \in Dus :
  /\ row[d] \in Packet /\ row[d].kind = "iq" /\ row[d].du = d
  /\ row[d].port = row[0].port /\ row[d].symbol = row[0].symbol

\* The packets of the row arrived; those of their streams that wait are later.
Same(p, q) == p.du = q.du /\ p.port = q.port /\ p.symbol = q.symbol
Over(row, arrived, pending) ==
  /\ IqGroup(row)
  /\ \A d \in Dus : row[d] \in arrived /\ \A q \in pending : Same(row[d], q) => row[d].frame < q.frame

\* If both are for one port and symbol, each DU's packet is earlier in g.
Before(g, h) ==
  g[0].port = h[0].port /\ g[0].symbol = h[0].symbol => \A d \in Dus : g[d].frame < h[d].frame

\* The rows that were sent and those to be sent are in order.
InOrder(coming, gone, arrived, pending) ==
  /\ \A i \in 1 .. Len(coming) : Iq(coming[i]) => Over(coming[i], arrived, pending)
  /\ \A i, j \in 1 .. Len(coming) : i < j /\ Iq(coming[i]) /\ Iq(coming[j]) => Before(coming[i], coming[j])
  /\ \A i \in 1 .. Len(gone) : Iq(gone[i]) =>
       /\ Over(gone[i], arrived, pending)
       /\ \A j \in 1 .. Len(coming) : Iq(coming[j]) => Before(gone[i], coming[j])
Coming == [i \in 1 .. Len(mx_tx_bufs) |-> content[mx_tx_bufs[i].buf]]
OrderInv == InOrder(Coming, to_ru, ArrivedIq, Pending)

\* A packet in the cache is in the place of its DU, port and symbol, and no
\* packet is in two mbufs.
CachedAt == \A k \in Keys, d \in Dus : cached_du_packets[k][d] # NULL =>
  \E q \in Packet : /\ q.kind \in DuKinds /\ q.du = d /\ KeyOf(q) = k /\ q \in Arrived
                    /\ content[cached_du_packets[k][d]] = RowOf(q)
OnePending == \A b, c \in Bufs, q \in Packet :
  q.kind = "iq" /\ Holding(b) /\ Holding(c) /\ content[b] = RowOf(q) /\ content[c] = RowOf(q) => b = c
SentInv == sent \subseteq DuPackets(frame)
WaitInv == SentInv /\ CachedAt /\ OnePending

\* A DU's packet of downlink data that has arrived: there is one of a stream in
\* a frame.
LEMMA ArrivedOnce ==
  ASSUME TypeOK, SentInv
  PROVE  /\ \A q \in Arrived : /\ q \in Packet /\ q.frame \in Int /\ q.frame <= frame
                               /\ q.frame = frame => q \in sent
         /\ \A p, q \in Arrived \cup DuPackets(frame) :
              p.kind = "iq" /\ q.kind = "iq" /\ Same(p, q) /\ p.frame = q.frame => p = q
<1>1. frame \in RadioFrames /\ frame \in Int /\ \A f \in RadioFrames : f \in Int
  BY SharingAssumption DEF TypeOK, RadioFrames
<1>2. scenario.schedule \subseteq Message /\ \A m \in scenario.schedule : m.kind # "ul_control" => m.asks = {}
  BY SharingAssumption DEF TypeOK, IsScenario
<1>3. ASSUME NEW q \in Arrived
      PROVE  \E f \in RadioFrames : q \in DuPackets(f) /\ f <= frame /\ (f = frame => q \in sent)
  <2>1. CASE q \in sent
    <3>1. q \in DuPackets(frame) /\ frame <= frame
      BY <1>1, <2>1 DEF SentInv
    <3> QED BY <1>1, <2>1, <3>1
  <2>2. CASE q \notin sent
    <3>1. PICK f \in 0 .. frame - 1 : q \in DuPackets(f)
      BY <1>3, <2>2 DEF Arrived
    <3>2. f \in RadioFrames /\ f <= frame /\ f # frame
      BY <1>1, <3>1, SharingAssumption DEF RadioFrames
    <3> QED BY <3>1, <3>2
  <2> QED BY <2>1, <2>2
<1>4. ASSUME NEW q \in Arrived
      PROVE  q \in Packet /\ q.frame \in Int /\ q.frame <= frame /\ (q.frame = frame => q \in sent)
  <2>1. PICK f \in RadioFrames : q \in DuPackets(f) /\ f <= frame /\ (f = frame => q \in sent)
    BY <1>3
  <2>2. q \in Packet /\ q.frame = f
    BY <2>1, DuPacketParts
  <2> QED BY <1>1, <2>1, <2>2
<1>5. ASSUME NEW p \in Arrived \cup DuPackets(frame), NEW q \in Arrived \cup DuPackets(frame),
             p.kind = "iq", q.kind = "iq", Same(p, q), p.frame = q.frame
      PROVE  p = q
  <2>1. ASSUME NEW x \in Arrived \cup DuPackets(frame), x.kind = "iq"
        PROVE  \E d \in Dus, m \in Message, f \in RadioFrames :
                 m.kind = "iq" /\ m.asks = {} /\ x = DuPacket(d, m, f)
    <3>1. PICK f \in RadioFrames : x \in DuPackets(f)
      BY <1>1, <1>3
    <3>2. PICK d \in Dus, m \in scenario.schedule : x = DuPacket(d, m, f)
      BY <3>1 DEF DuPackets
    <3>3. m \in Message /\ m.kind = "iq"
      BY <1>2, <2>1, <3>2 DEF DuPacket
    <3> QED BY <1>2, <3>2, <3>3
  <2>2. PICK d \in Dus, m \in Message, f \in RadioFrames :
          m.kind = "iq" /\ m.asks = {} /\ p = DuPacket(d, m, f)
    BY <1>5, <2>1
  <2>3. PICK e \in Dus, n \in Message, g \in RadioFrames :
          n.kind = "iq" /\ n.asks = {} /\ q = DuPacket(e, n, g)
    BY <1>5, <2>1
  <2>4. d = e /\ m.port = n.port /\ m.symbol = n.symbol /\ f = g
    BY <1>5, <2>2, <2>3 DEF Same, DuPacket
  <2> QED BY <2>2, <2>3, <2>4 DEF DuPacket
<1> QED BY <1>4, <1>5

\* What an mbuf holds that is received or cached, and has downlink data.
LEMMA HoldingIs ==
  ASSUME Inv, CachedAt, NEW c \in Bufs, Holding(c), NEW d \in Dus, IsIq(content[c][d])
  PROVE  /\ content[c] = RowOf(content[c][d]) /\ content[c][d] \in Packet
         /\ content[c][d].du = d /\ content[c][d] \in ArrivedIq /\ content[c][d] \in Pending
<1>1. d \in Dus /\ content[c][d].kind = "iq" /\ content[c][d] # NULL
  BY DEF IsIq
<1>2. PICK q \in Packet : content[c] = RowOf(q) /\ (q.kind \in DuKinds => q \in Arrived)
  <2>1. CASE Received(c)
    <3>1. PICK q \in Packet : Holds(c, q) /\ IsNew(q)
      BY <2>1 DEF Inv, ContentInv, ReceivedInv
    <3>2. CASE q.kind = "prach_data"
      <4>1. content[c] = AnswerRow(q)
        BY <3>1, <3>2 DEF Holds
      <4> QED BY <1>1, <3>2, <4>1, AnswerRows
    <3>3. CASE q.kind # "prach_data"
      BY <3>1, <3>3 DEF Holds, IsNew
    <3> QED BY <3>2, <3>3
  <2>2. CASE Cached(c)
    <3>1. PICK k \in Keys, e \in Dus : cached_du_packets[k][e] = c /\ c # NULL
      BY <2>2 DEF Cached, InRow
    <3> QED BY <3>1 DEF CachedAt
  <2> QED BY <2>1, <2>2 DEF Holding
<1>3. RowOf(q)[d] = IF d = q.du THEN q ELSE NULL
  BY PacketParts DEF RowOf, EmptyRow
<1>4. content[c][d] = q /\ q.du = d /\ q \in Arrived
  BY <1>1, <1>2, <1>3 DEF DuKinds, Refused
<1> QED BY <1>1, <1>2, <1>4 DEF Pending, ArrivedIq, Of

\* A row with one packet of downlink data is a row of downlink data.
LEMMA IqRow ==
  ASSUME NEW q \in Packet, q.kind = "iq"
  PROVE  Iq(RowOf(q))
<1>1. q.du \in Dus /\ q # NULL /\ RowOf(q)[q.du] = q
  BY PacketParts DEF RowOf, EmptyRow
<1> QED BY <1>1 DEF Iq, IsIq

\* The rows to be sent.
LEMMA ComingIs ==
  ASSUME TypeOK
  PROVE  /\ Coming \in Seq(Rows) /\ Len(Coming) = Len(mx_tx_bufs) /\ Len(Coming) \in Nat
         /\ \A i \in 1 .. Len(Coming) :
              Coming[i] = content[mx_tx_bufs[i].buf] /\ mx_tx_bufs[i] \in Entry /\ mx_tx_bufs[i].buf \in Bufs
<1>1. mx_tx_bufs \in Seq(Entry) /\ content \in [Bufs -> Rows]
  BY DEF TypeOK, Entry
<1>2. PICK n \in Nat : n = Len(mx_tx_bufs)
  BY <1>1
<1>3. \A i \in 1 .. n : mx_tx_bufs[i] \in Entry /\ mx_tx_bufs[i].buf \in Bufs
  <2>1. \A i \in 1 .. n : mx_tx_bufs[i] \in Entry
    BY <1>1, <1>2
  <2> QED BY <2>1 DEF Entry
<1>4. Coming = [i \in 1 .. n |-> content[mx_tx_bufs[i].buf]]
  BY <1>2 DEF Coming
<1>5. \A i \in 1 .. n : content[mx_tx_bufs[i].buf] \in Rows
  BY <1>1, <1>3
<1>6. Coming \in Seq(Rows) /\ Len(Coming) = n
  BY <1>4, <1>5
<1> QED BY <1>2, <1>3, <1>4, <1>6

\* The order of rows, however they got there:
LEMMA OrderIsNext ==
  ASSUME NEW coming, NEW gone, NEW arrived, NEW pending,
         coming = Coming', gone = to_ru', arrived = ArrivedIq', pending = Pending',
         InOrder(coming, gone, arrived, pending)
  PROVE  OrderInv'
<1>1. InOrder(Coming', to_ru', ArrivedIq', Pending')
  OBVIOUS
<1> QED BY <1>1 DEF OrderInv, InOrder, Over, IqGroup, Before, Same, Iq, IsIq

\* it is kept when fewer packets wait and rows are given up,
LEMMA OrderKept ==
  ASSUME NEW coming, NEW gone, NEW arrived, NEW pending, InOrder(coming, gone, arrived, pending),
         NEW coming2, NEW pending2, pending2 \subseteq pending,
         \A i \in 1 .. Len(coming2) : Iq(coming2[i]) => i \in 1 .. Len(coming) /\ coming2[i] = coming[i]
  PROVE  InOrder(coming2, gone, arrived, pending2)
<1>1. \A row : Over(row, arrived, pending) => Over(row, arrived, pending2)
  BY DEF Over
<1> QED BY <1>1 DEF InOrder

\* when a row is put together of packets that wait, and those that still do are later,
LEMMA OrderMerged ==
  ASSUME NEW coming \in Seq(Rows), NEW gone, NEW arrived, NEW pending,
         InOrder(coming, gone, arrived, pending),
         NEW row \in Rows, NEW pending2, pending2 \subseteq pending,
         Over(row, arrived, pending2), \A d \in Dus : row[d] \in pending
  PROVE  InOrder(Append(coming, row), gone, arrived, pending2)
<1>1. \A g : Over(g, arrived, pending) => Over(g, arrived, pending2)
  BY DEF Over
<1>2. PICK n, coming2 : /\ n = Len(coming) /\ n \in Nat /\ coming2 = Append(coming, row)
                        /\ Len(coming2) = n + 1 /\ coming2[n + 1] = row
                        /\ \A i \in 1 .. n : coming2[i] = coming[i]
  <2>1. /\ Len(Append(coming, row)) = Len(coming) + 1 /\ Append(coming, row)[Len(coming) + 1] = row
        /\ \A i \in 1 .. Len(coming) : Append(coming, row)[i] = coming[i] /\ Len(coming) \in Nat
    OBVIOUS
  <2>2. Len(coming) \in Nat
    OBVIOUS
  <2> QED BY <2>1, <2>2
<1>3. ASSUME NEW g, Over(g, arrived, pending) PROVE Before(g, row)
  <2> SUFFICES ASSUME g[0].port = row[0].port, g[0].symbol = row[0].symbol, NEW d \in Dus
               PROVE  g[d].frame < row[d].frame
    BY DEF Before
  <2>1. Same(g[d], row[d])
    BY <1>3 DEF Over, IqGroup, Same
  <2> QED BY <1>3, <2>1 DEF Over
<1>4. \A i \in 1 .. n + 1 : i \in 1 .. n \/ i = n + 1
  BY <1>2
<1>5. \A i, j \in 1 .. n + 1 : i < j => i \in 1 .. n /\ (j \in 1 .. n \/ j = n + 1)
  BY <1>2
<1>6. \A i \in 1 .. n + 1 : Iq(coming2[i]) => Over(coming2[i], arrived, pending2)
  BY <1>1, <1>2, <1>4 DEF InOrder
<1>7. \A i, j \in 1 .. n + 1 : i < j /\ Iq(coming2[i]) /\ Iq(coming2[j]) => Before(coming2[i], coming2[j])
  <2> SUFFICES ASSUME NEW i \in 1 .. n + 1, NEW j \in 1 .. n + 1, i < j, Iq(coming2[i]), Iq(coming2[j])
               PROVE  Before(coming2[i], coming2[j])
    OBVIOUS
  <2>1. i \in 1 .. n /\ coming2[i] = coming[i] /\ (j \in 1 .. n \/ j = n + 1)
    BY <1>2, <1>5
  <2>2. Over(coming[i], arrived, pending)
    BY <1>2, <2>1 DEF InOrder
  <2> QED BY <1>2, <1>3, <2>1, <2>2 DEF InOrder
<1>8. \A i \in 1 .. Len(gone) : Iq(gone[i]) =>
        /\ Over(gone[i], arrived, pending2)
        /\ \A j \in 1 .. n + 1 : Iq(coming2[j]) => Before(gone[i], coming2[j])
  <2> SUFFICES ASSUME NEW i \in 1 .. Len(gone), Iq(gone[i])
               PROVE  /\ Over(gone[i], arrived, pending2)
                      /\ \A j \in 1 .. n + 1 : Iq(coming2[j]) => Before(gone[i], coming2[j])
    OBVIOUS
  <2>1. Over(gone[i], arrived, pending)
    BY DEF InOrder
  <2> QED BY <1>1, <1>2, <1>3, <1>4, <2>1 DEF InOrder
<1>9. InOrder(coming2, gone, arrived, pending2)
  BY <1>2, <1>6, <1>7, <1>8 DEF InOrder
<1> QED BY <1>2, <1>9

\* when a packet arrives that is later than those of its stream,
LEMMA OrderArrived ==
  ASSUME NEW coming, NEW gone, NEW arrived, NEW pending, InOrder(coming, gone, arrived, pending),
         NEW p, \A q \in arrived : Same(q, p) => q.frame < p.frame,
         NEW arrived2, arrived \subseteq arrived2, NEW pending2, pending2 \subseteq pending \cup {p}
  PROVE  InOrder(coming, gone, arrived2, pending2)
<1>1. ASSUME NEW row, Over(row, arrived, pending) PROVE Over(row, arrived2, pending2)
  BY <1>1 DEF Over
<1> QED BY <1>1 DEF InOrder

\* and when the first row leaves, whether it is sent to the RU or not.
LEMMA OrderSent ==
  ASSUME NEW coming \in Seq(Rows), coming # <<>>, NEW gone \in Seq(Rows), NEW arrived, NEW pending,
         InOrder(coming, gone, arrived, pending)
  PROVE  /\ InOrder(Tail(coming), gone, arrived, pending)
         /\ InOrder(Tail(coming), Append(gone, Head(coming)), arrived, pending)
<1>1. PICK n, rest, row : /\ n \in Nat /\ Len(coming) = n + 1 /\ rest = Tail(coming) /\ row = Head(coming)
                          /\ Len(rest) = n /\ row = coming[1] /\ row \in Rows
                          /\ \A i \in 1 .. n : rest[i] = coming[i + 1]
  <2>1. PICK n : n \in Nat /\ Len(coming) = n + 1
    <3>1. Len(coming) - 1 \in Nat /\ Len(coming) = Len(coming) - 1 + 1
      OBVIOUS
    <3> QED BY <3>1
  <2>2. /\ Len(Tail(coming)) = n /\ Head(coming) = coming[1] /\ Head(coming) \in Rows
        /\ \A i \in 1 .. n : Tail(coming)[i] = coming[i + 1]
    BY <2>1
  <2> QED BY <2>1, <2>2
<1>2. PICK m, gone2 : /\ m \in Nat /\ Len(gone) = m /\ gone2 = Append(gone, row) /\ Len(gone2) = m + 1
                      /\ gone2[m + 1] = row /\ \A i \in 1 .. m : gone2[i] = gone[i]
  <2>1. PICK m : m \in Nat /\ Len(gone) = m
    OBVIOUS
  <2>2. /\ Len(Append(gone, row)) = m + 1 /\ Append(gone, row)[m + 1] = row
        /\ \A i \in 1 .. m : Append(gone, row)[i] = gone[i]
    BY <1>1, <2>1
  <2> QED BY <2>1, <2>2
<1>3. /\ \A i \in 1 .. n : i + 1 \in 1 .. n + 1 /\ 1 < i + 1 /\ 1 \in 1 .. n + 1
      /\ \A i, j \in 1 .. n : i < j => i + 1 < j + 1
      /\ 1 \in 1 .. n + 1 /\ \A i \in 1 .. m + 1 : i \in 1 .. m \/ i = m + 1
  BY <1>1, <1>2
<1>4. /\ \A i \in 1 .. n : Iq(rest[i]) => Over(rest[i], arrived, pending)
      /\ \A i, j \in 1 .. n : i < j /\ Iq(rest[i]) /\ Iq(rest[j]) => Before(rest[i], rest[j])
      /\ \A j \in 1 .. n : Iq(row) /\ Iq(rest[j]) => Before(row, rest[j])
      /\ Iq(row) => Over(row, arrived, pending)
  BY <1>1, <1>3 DEF InOrder
<1>5. \A i \in 1 .. m : Iq(gone[i]) =>
        /\ Over(gone[i], arrived, pending)
        /\ \A j \in 1 .. n : Iq(rest[j]) => Before(gone[i], rest[j])
  BY <1>1, <1>2, <1>3 DEF InOrder
<1>6. InOrder(rest, gone, arrived, pending)
  BY <1>1, <1>2, <1>4, <1>5 DEF InOrder
<1>7. InOrder(rest, gone2, arrived, pending)
  BY <1>1, <1>2, <1>3, <1>4, <1>5 DEF InOrder
<1> QED BY <1>1, <1>2, <1>6, <1>7

\* What a step may do to downlink data without adding to it: what is received
\* or in the cache stays, or goes; what is to be sent keeps its place, or goes.
HeldLess == \A c \in Bufs : Holding(c)' =>
  (Holding(c) /\ content'[c] = content[c]) \/ ~Iq(content'[c])
ComingKept == \A i \in 1 .. Len(mx_tx_bufs') : Iq(content'[mx_tx_bufs'[i].buf]) =>
  /\ i \in 1 .. Len(mx_tx_bufs) /\ mx_tx_bufs'[i] = mx_tx_bufs[i]
  /\ content'[mx_tx_bufs[i].buf] = content[mx_tx_bufs[i].buf]
Less == HeldLess /\ ComingKept /\ ArrivedIq' = ArrivedIq /\ to_ru' = to_ru

\* No more waits then,
LEMMA PendingLess ==
  ASSUME HeldLess, OnePending
  PROVE  Pending' \subseteq Pending /\ OnePending'
<1>1. ASSUME NEW c \in Bufs, NEW q \in Packet, q.kind = "iq", Holding(c)', content'[c] = RowOf(q)
      PROVE  Holding(c) /\ content[c] = RowOf(q)
  BY <1>1, IqRow DEF HeldLess
<1>2. ASSUME NEW q \in Pending' PROVE q \in Pending
  <2>1. q \in Packet /\ q.kind = "iq" /\ \E c \in Bufs : Holding(c)' /\ content'[c] = RowOf(q)
    BY <1>2 DEF Pending, RowOf, EmptyRow
  <2>2. PICK c \in Bufs : Holding(c)' /\ content'[c] = RowOf(q)
    BY <2>1
  <2>3. Holding(c) /\ content[c] = RowOf(q)
    BY <1>1, <2>1, <2>2
  <2> QED BY <2>1, <2>3 DEF Pending
<1>3. OnePending'
  <2> SUFFICES ASSUME NEW b \in Bufs, NEW c \in Bufs, NEW q \in Packet, q.kind = "iq",
                      Holding(b)', Holding(c)', content'[b] = RowOf(q), content'[c] = RowOf(q)
               PROVE  b = c
    BY DEF OnePending, RowOf, EmptyRow
  <2>1. Holding(b) /\ Holding(c) /\ content[b] = RowOf(q) /\ content[c] = RowOf(q)
    BY <1>1
  <2> QED BY <2>1 DEF OnePending
<1> QED BY <1>2, <1>3

ComingShape ==
  /\ Coming \in Seq(Rows) /\ Len(Coming) = Len(mx_tx_bufs) /\ Len(Coming) \in Nat
  /\ \A i \in 1 .. Len(Coming) : Coming[i] = content[mx_tx_bufs[i].buf]

\* (as a formula, to speak of the next state)
LEMMA ShapeOfComing == TypeOK => ComingShape
BY ComingIs DEF ComingShape

\* and the order is kept.
LEMMA OrderLess ==
  ASSUME TypeOK, TypeOK', OnePending, OrderInv, Less
  PROVE  OrderInv' /\ OnePending' /\ Pending' \subseteq Pending
<1>1. OnePending' /\ Pending' \subseteq Pending
  BY PendingLess DEF Less, ArrivedIq, Of
<1>2. PICK coming2, pending2 : coming2 = Coming' /\ pending2 = Pending'
  OBVIOUS
<1>3. ArrivedIq' = ArrivedIq /\ to_ru' = to_ru
  BY DEF Less, ArrivedIq, Of
<1>4. /\ Len(Coming) = Len(mx_tx_bufs)
      /\ \A i \in 1 .. Len(Coming) : Coming[i] = content[mx_tx_bufs[i].buf]
  BY ComingIs
<1>5. /\ Len(coming2) = Len(mx_tx_bufs')
      /\ \A i \in 1 .. Len(coming2) : coming2[i] = content'[mx_tx_bufs'[i].buf]
  <2>1. TypeOK' => ComingShape'
    BY ShapeOfComing, PTL
  <2> QED BY <1>2, <2>1 DEF ComingShape
<1>6. \A i \in 1 .. Len(coming2) : Iq(coming2[i]) => i \in 1 .. Len(Coming) /\ coming2[i] = Coming[i]
  BY <1>4, <1>5 DEF Less, ComingKept
<1>7. InOrder(Coming, to_ru, ArrivedIq, Pending)
  BY DEF OrderInv
<1>8. InOrder(coming2, to_ru, ArrivedIq, pending2)
  BY <1>1, <1>2, <1>6, <1>7, OrderKept
<1>9. OrderInv'
  BY <1>2, <1>3, <1>8, OrderIsNext
<1> QED BY <1>1, <1>9

\* The cache keeps packets in their places,
LEMMA CachedStays ==
  ASSUME CachedAt, Arrived \subseteq Arrived',
         \A l \in Keys, d \in Dus : cached_du_packets'[l][d] # NULL =>
           \/ /\ cached_du_packets'[l][d] = cached_du_packets[l][d]
              /\ content'[cached_du_packets'[l][d]] = content[cached_du_packets[l][d]]
           \/ \E q \in Packet : /\ q.kind \in DuKinds /\ q.du = d /\ KeyOf(q) = l /\ q \in Arrived
                                /\ content'[cached_du_packets'[l][d]] = RowOf(q)
  PROVE  CachedAt'
<1> SUFFICES ASSUME NEW l \in Keys, NEW d \in Dus, cached_du_packets'[l][d] # NULL
             PROVE  \E q \in Packet : /\ q.kind \in DuKinds /\ q.du = d /\ KeyOf(q) = l /\ q \in Arrived'
                                      /\ content'[cached_du_packets'[l][d]] = RowOf(q)
  BY DEF CachedAt, RowOf, EmptyRow, KeyOf, TypeOf
<1> QED BY DEF CachedAt

\* and a packet that comes gets the one that is its own.
LEMMA RowAt ==
  ASSUME TypeOK, NEW p \in Packet, NEW b \in Bufs, ~Cached(b), NEW n,
         StoreRow(p, RowWith(p, b), n), NEW l \in Keys, NEW d \in Dus, cached_du_packets'[l][d] = b
  PROVE  l = KeyOf(p)
<1> SUFFICES ASSUME l # KeyOf(p) PROVE FALSE
  OBVIOUS
<1>1. cached_du_packets' = [cached_du_packets EXCEPT ![KeyOf(p)] = RowWith(p, b)]
  BY DEF StoreRow
<1>2. cached_du_packets \in [Keys -> [Dus -> Bufs \cup {NULL}]]
  BY DEF TypeOK
<1>3. cached_du_packets'[l] = cached_du_packets[l]
  BY <1>1, <1>2
<1> QED BY <1>3, NullAssumption DEF Cached, InRow

\* What a handler leaves alone: the packet is in the cache then, or was used.
LEMMA HandlerHolds ==
  ASSUME Inv, WaitInv, stray = 0, NEW b, NEW p, Handles(b, p), NEW S, NEW N, OnlyMoves(b, S, N),
         \A l \in Keys, d \in Dus : cached_du_packets'[l][d] # NULL =>
           \/ cached_du_packets'[l][d] = cached_du_packets[l][d] /\ cached_du_packets[l][d] \notin S
           \/ /\ cached_du_packets'[l][d] = b /\ b \notin S
              /\ p.kind \in DuKinds /\ d = p.du /\ l = KeyOf(p)
  PROVE  /\ HeldLess /\ CachedAt' /\ Arrived' = Arrived /\ to_ru' = to_ru
         /\ \A e \in Entry : In(e, mx_tx_bufs) => content'[e.buf] = content[e.buf]
<1>1. /\ b \in Bufs /\ Received(b) /\ pool[b] = 0 /\ p \in Packet
      /\ p.kind \in DuKinds => content[b] = RowOf(p) /\ p \in Arrived
      /\ \A c \in Bufs : Received(c)' <=> Received(c) /\ c # b
      /\ UNCHANGED <<envVars, to_ru, to_du>>
  BY Handled DEF IsNew, DuKinds, Refused
<1>2. /\ \A c \in Bufs : Received(c) /\ c # b => content'[c] = content[c]
      /\ \A e \in Entry : In(e, mx_tx_bufs) => content'[e.buf] = content[e.buf]
  BY <1>1, OthersKept DEF OnlyMoves
<1>3. Arrived' = Arrived
  BY <1>1, ArrivedUnmoved
<1>4. \A c \in N : pool[c] > 0 /\ ~Cached(c) /\ c # b
  BY <1>1 DEF OnlyMoves, Free, Inv, OwnInv, PlacesInv
<1>5. cached_du_packets \in [Keys -> [Dus -> Bufs \cup {NULL}]]
  BY DEF Inv, TypeOK
<1>6. ASSUME NEW l \in Keys, NEW d \in Dus, cached_du_packets'[l][d] # NULL
      PROVE  LET c == cached_du_packets'[l][d]
             IN  /\ c \in Bufs /\ Holding(c) /\ content'[c] = content[c]
                 /\ \/ c = cached_du_packets[l][d]
                    \/ c = b /\ p.kind \in DuKinds /\ d = p.du /\ l = KeyOf(p)
  <2>1. CASE cached_du_packets'[l][d] = cached_du_packets[l][d] /\ cached_du_packets[l][d] \notin S
    <3>1. PICK c : c = cached_du_packets[l][d]
      OBVIOUS
    <3>2. c \in Bufs /\ Cached(c) /\ c \notin S
      BY <1>5, <1>6, <2>1, <3>1 DEF Cached, InRow
    <3>3. content'[c] = content[c]
      BY <1>4, <3>2 DEF OnlyMoves
    <3> QED BY <2>1, <3>1, <3>2, <3>3 DEF Holding
  <2>2. CASE ~(cached_du_packets'[l][d] = cached_du_packets[l][d] /\ cached_du_packets[l][d] \notin S)
    <3>1. /\ cached_du_packets'[l][d] = b /\ b \notin S
          /\ p.kind \in DuKinds /\ d = p.du /\ l = KeyOf(p)
      BY <1>6, <2>2
    <3>2. content'[b] = content[b]
      BY <1>1, <1>4, <3>1 DEF OnlyMoves
    <3> QED BY <1>1, <3>1, <3>2 DEF Holding
  <2> QED BY <2>1, <2>2
<1>7. HeldLess
  <2> SUFFICES ASSUME NEW c \in Bufs, Holding(c)' PROVE Holding(c) /\ content'[c] = content[c]
    BY DEF HeldLess
  <2>1. CASE Received(c)'
    BY <1>1, <1>2, <2>1 DEF Holding
  <2>2. CASE Cached(c)'
    <3>1. PICK l \in Keys, d \in Dus : cached_du_packets'[l][d] = c /\ c # NULL
      BY <2>2 DEF Cached, InRow
    <3> QED BY <1>6, <3>1
  <2> QED BY <2>1, <2>2 DEF Holding
<1>8. CachedAt'
  <2>1. ASSUME NEW l \in Keys, NEW d \in Dus, cached_du_packets'[l][d] # NULL
        PROVE  \/ /\ cached_du_packets'[l][d] = cached_du_packets[l][d]
                  /\ content'[cached_du_packets'[l][d]] = content[cached_du_packets[l][d]]
               \/ \E q \in Packet : /\ q.kind \in DuKinds /\ q.du = d /\ KeyOf(q) = l /\ q \in Arrived
                                    /\ content'[cached_du_packets'[l][d]] = RowOf(q)
    BY <1>1, <1>6, <2>1
  <2> QED BY <1>3, <2>1, CachedStays DEF WaitInv
<1> QED BY <1>1, <1>2, <1>3, <1>7, <1>8

\* A row of other packets.
LEMMA NotIq ==
  ASSUME NEW p \in Packet, p.kind # "iq", NEW row,
         row = RowOf(p) \/ row = AnswerRow(p) \/ IsOne(row, p)
  PROVE  ~Iq(row)
<1> SUFFICES ASSUME NEW d \in Dus, row[d] # NULL, row[d].kind = "iq" PROVE FALSE
  BY DEF Iq, IsIq
<1>1. p.du \in Dus
  BY PacketParts
<1>2. CASE row = AnswerRow(p)
  BY <1>2, AnswerRows
<1>3. CASE IsOne(row, p) \/ row = RowOf(p)
  <2>1. PICK e \in Dus : row = [EmptyRow EXCEPT ![e] = p]
    BY <1>1, <1>3 DEF IsOne, RowOf
  <2>2. row[d] = IF d = e THEN p ELSE NULL
    BY <2>1 DEF EmptyRow
  <2> QED BY <2>2
<1> QED BY <1>2, <1>3

\* A row joins those to be sent,
LEMMA RowJoins ==
  ASSUME TypeOK, NEW e \in Entry, mx_tx_bufs' = Append(mx_tx_bufs, e)
  PROVE  /\ Len(mx_tx_bufs) \in Nat /\ Len(mx_tx_bufs') = Len(mx_tx_bufs) + 1
         /\ mx_tx_bufs'[Len(mx_tx_bufs) + 1] = e
         /\ \A i \in 1 .. Len(mx_tx_bufs) : mx_tx_bufs'[i] = mx_tx_bufs[i]
         /\ \A i \in 1 .. Len(mx_tx_bufs') : i \in 1 .. Len(mx_tx_bufs) \/ i = Len(mx_tx_bufs) + 1
         /\ \A i \in 1 .. Len(mx_tx_bufs) : mx_tx_bufs[i] \in Entry /\ In(mx_tx_bufs[i], mx_tx_bufs)
<1>1. mx_tx_bufs \in Seq(Entry)
  BY DEF TypeOK, Entry
<1> QED BY <1>1 DEF In

\* one of other packets,
LEMMA OtherJoins ==
  ASSUME TypeOK, NEW e \in Entry, mx_tx_bufs' = Append(mx_tx_bufs, e),
         \A f \in Entry : In(f, mx_tx_bufs) => content'[f.buf] = content[f.buf],
         ~Iq(content'[e.buf])
  PROVE  ComingKept
BY RowJoins DEF ComingKept

\* or none.
LEMMA NoneJoins ==
  ASSUME TypeOK, mx_tx_bufs' = mx_tx_bufs,
         \A f \in Entry : In(f, mx_tx_bufs) => content'[f.buf] = content[f.buf]
  PROVE  ComingKept
<1>1. mx_tx_bufs \in Seq(Entry)
  BY DEF TypeOK, Entry
<1>2. \A i \in 1 .. Len(mx_tx_bufs) : mx_tx_bufs[i] \in Entry /\ In(mx_tx_bufs[i], mx_tx_bufs)
  BY <1>1 DEF In
<1> QED BY <1>2 DEF ComingKept

\* The cache stays, when the packet is no DU's or stops the program.
LEMMA HandlerUncached ==
  ASSUME Inv, WaitInv, stray = 0, NEW b, NEW p, Handles(b, p), NEW S, NEW N, OnlyMoves(b, S, N),
         cached_du_packets' = cached_du_packets, S \subseteq {b}
  PROVE  /\ HeldLess /\ CachedAt' /\ Arrived' = Arrived /\ to_ru' = to_ru
         /\ \A e \in Entry : In(e, mx_tx_bufs) => content'[e.buf] = content[e.buf]
<1>1. b \in Bufs /\ ~Cached(b)
  BY Handled
<1>2. ASSUME NEW l \in Keys, NEW d \in Dus PROVE cached_du_packets[l][d] # b
  BY <1>1, NullAssumption DEF Cached, InRow
<1>3. ASSUME NEW l \in Keys, NEW d \in Dus, cached_du_packets'[l][d] # NULL
      PROVE  cached_du_packets'[l][d] = cached_du_packets[l][d] /\ cached_du_packets[l][d] \notin S
  BY <1>2
<1> QED BY <1>3, HandlerHolds

\* Packets that are ignored add no downlink data,
LEMMA StrayLess == Inv /\ WaitInv /\ (IgnoreStray \/ IgnoreForeign) => Less /\ CachedAt'
<1> SUFFICES ASSUME Inv, WaitInv, IgnoreStray \/ IgnoreForeign PROVE Less /\ CachedAt'
  OBVIOUS
<1>1. PICK b \in Burst : \E p \in {PacketIn(b)} :
        /\ Handles(b, p)
        /\ content' = content \/ FreeAll({b})
        /\ UNCHANGED <<mx_tx_bufs, cacheVars, prachVars, alive>>
  BY DEF IgnoreStray, IgnoreForeign
<1>2. \A c \in Bufs \ {b} : content'[c] = content[c]
  <2>1. FreeAll({b}) => \A c \in Bufs \ ({b} \cup {}) : content'[c] = content[c]
    BY ContentAfterFree
  <2> QED BY <1>1, <2>1
<1>3. /\ b \in Bufs /\ ~ToBeSent(b) /\ ~Cached(b) /\ TypeOK
      /\ \A c \in Bufs : Received(c)' <=> Received(c) /\ c # b
      /\ UNCHANGED <<envVars, to_ru, to_du>> /\ UNCHANGED <<mx_tx_bufs, cached_du_packets>>
  BY <1>1, Handled DEF Inv, cacheVars
<1>4. \A c : Cached(c)' <=> Cached(c)
  BY <1>3 DEF Cached, InRow
<1>5. HeldLess
  BY <1>2, <1>3, <1>4 DEF HeldLess, Holding
<1>6. ComingKept
  <2>1. \A f \in Entry : In(f, mx_tx_bufs) => f.buf \in Bufs /\ f.buf # b
    BY <1>3 DEF ToBeSent, Entry
  <2> QED BY <1>2, <1>3, <2>1, NoneJoins
<1>7. Arrived' = Arrived
  BY <1>3, ArrivedUnmoved
<1>8. CachedAt'
  <2>1. ASSUME NEW l \in Keys, NEW d \in Dus, cached_du_packets'[l][d] # NULL
        PROVE  /\ cached_du_packets'[l][d] = cached_du_packets[l][d]
               /\ content'[cached_du_packets'[l][d]] = content[cached_du_packets[l][d]]
    <3>1. cached_du_packets[l][d] \in Bufs /\ Cached(cached_du_packets[l][d])
      BY <1>3, <2>1 DEF TypeOK, Cached, InRow
    <3> QED BY <1>2, <1>3, <3>1
  <2> QED BY <1>7, <2>1, CachedStays DEF WaitInv
<1> QED BY <1>3, <1>5, <1>6, <1>7, <1>8 DEF Less, ArrivedIq, Of

\* nor does a packet that waits in the cache: it waited before.
LEMMA CacheLess == Inv /\ WaitInv /\ CachePacket => Less /\ CachedAt'
<1> SUFFICES ASSUME Inv, WaitInv, CachePacket PROVE Less /\ CachedAt'
  OBVIOUS
<1>1. PICK b \in Burst : \E p \in {PacketIn(b)} :
        /\ HandlesDu(b, p) /\ ~Ready(p) /\ StoreRow(p, RowWith(p, b), CountWith(p))
        /\ FreeAll(Evicted(p)) /\ UNCHANGED mx_tx_bufs
  BY DEF CachePacket
<1> DEFINE p == PacketIn(b)
<1>2. /\ HandlesDu(b, p) /\ CountWith(p) # NumDus /\ StoreRow(p, RowWith(p, b), CountWith(p))
      /\ FreeAll(Evicted(p)) /\ UNCHANGED mx_tx_bufs
  BY <1>1 DEF Ready
<1> HIDE DEF p
<1>3. /\ Handles(b, p) /\ p \in Packet /\ p.kind \in DuKinds /\ b \in Bufs /\ ~Cached(b) /\ stray = 0
      /\ TypeOK /\ CountInv /\ RowsInv
  BY <1>2, DuHandled DEF Inv, OwnInv
<1>4. \A c \in Evicted(p) : Cached(c)
  BY <1>3, PacketParts DEF Evicted, Cached
<1>5. \A c \in Bufs \ (Evicted(p) \cup {}) : content'[c] = content[c]
  BY <1>2, ContentAfterFree
<1>6. OnlyMoves(b, Evicted(p), {}) /\ b \notin Evicted(p)
  BY <1>3, <1>4, <1>5 DEF OnlyMoves
<1>7. \A l \in Keys, d \in Dus : cached_du_packets'[l][d] # NULL =>
        \/ cached_du_packets'[l][d] = cached_du_packets[l][d] /\ cached_du_packets[l][d] \notin Evicted(p)
        \/ cached_du_packets'[l][d] = b /\ d = p.du
  BY <1>2, <1>3, RowKept
<1>8. \A l \in Keys, d \in Dus : cached_du_packets'[l][d] = b => l = KeyOf(p)
  BY <1>2, <1>3, RowAt
<1>9. /\ HeldLess /\ CachedAt' /\ Arrived' = Arrived /\ to_ru' = to_ru
      /\ \A e \in Entry : In(e, mx_tx_bufs) => content'[e.buf] = content[e.buf]
  BY <1>3, <1>6, <1>7, <1>8, HandlerHolds
<1>10. ComingKept
  BY <1>2, <1>3, <1>9, NoneJoins
<1> QED BY <1>9, <1>10 DEF Less, ArrivedIq, Of

\* What is sent on as it is has none,
LEMMA ForwardLess == Inv /\ WaitInv /\ ForwardControl => Less /\ CachedAt'
<1> SUFFICES ASSUME Inv, WaitInv, ForwardControl PROVE Less /\ CachedAt'
  OBVIOUS
<1>1. PICK b \in Burst : \E p \in {PacketIn(b)} :
        /\ HandlesDu(b, p) /\ p.kind \in {"dl_control", "ul_control"}
        /\ mx_tx_bufs' = Append(mx_tx_bufs, ToSend(RU, b)) /\ StoreRow(p, EmptyRow, 0)
        /\ FreeAll(Evicted(p) \cup (InRow(RowWith(p, b)) \ {b}))
  BY DEF ForwardControl
<1> DEFINE p == PacketIn(b)
           R == InRow(cached_du_packets[KeyOf(p)])
<1>2. /\ HandlesDu(b, p) /\ p.kind # "iq"
      /\ mx_tx_bufs' = Append(mx_tx_bufs, ToSend(RU, b)) /\ StoreRow(p, EmptyRow, 0)
      /\ FreeAll(Evicted(p) \cup (InRow(RowWith(p, b)) \ {b}))
  BY <1>1
<1> HIDE DEF p
<1>3. /\ Handles(b, p) /\ p \in Packet /\ b \in Bufs /\ ~Cached(b) /\ stray = 0 /\ content[b] = RowOf(p)
      /\ TypeOK /\ CountInv /\ RowsInv
  BY <1>2, DuHandled DEF Inv, OwnInv
<1>4. FreeAll(R)
  BY <1>2, <1>3, RowOfHandled
<1>5. /\ \A l \in Keys, d \in Dus : cached_du_packets'[l][d] # NULL =>
           cached_du_packets'[l][d] = cached_du_packets[l][d] /\ cached_du_packets[l][d] \notin R
      /\ \A c \in R : Cached(c)
  BY <1>2, <1>3, RowUsed
<1> HIDE DEF R
<1>6. \A c \in Bufs \ (R \cup {}) : content'[c] = content[c]
  BY <1>4, ContentAfterFree
<1>7. OnlyMoves(b, R, {}) /\ b \notin R
  BY <1>3, <1>5, <1>6 DEF OnlyMoves
<1>8. /\ HeldLess /\ CachedAt' /\ Arrived' = Arrived /\ to_ru' = to_ru
      /\ \A e \in Entry : In(e, mx_tx_bufs) => content'[e.buf] = content[e.buf]
  BY <1>3, <1>5, <1>7, HandlerHolds
<1>9. ToSend(RU, b) \in Entry /\ ToSend(RU, b).buf = b
  BY <1>3 DEF ToSend, Entry
<1>10. ~Iq(content'[b])
  BY <1>2, <1>3, <1>6, <1>7, NotIq
<1>11. ComingKept
  BY <1>2, <1>3, <1>8, <1>9, <1>10, OtherJoins
<1> QED BY <1>8, <1>11 DEF Less, ArrivedIq, Of

\* and what stops the program is neither kept nor sent.
LEMMA StopLess ==
  ASSUME Inv, WaitInv, stray = 0, NEW b, NEW p, Handles(b, p),
         UNCHANGED <<memory, mx_tx_bufs, cached_du_packets>>
  PROVE  Less /\ CachedAt'
<1>1. \A c \in Bufs \ ({} \cup {}) : content'[c] = content[c]
  BY DEF memory
<1>2. OnlyMoves(b, {}, {}) /\ cached_du_packets' = cached_du_packets /\ {} \subseteq {b}
  BY <1>1 DEF OnlyMoves
<1>3. /\ HeldLess /\ CachedAt' /\ Arrived' = Arrived /\ to_ru' = to_ru
      /\ \A e \in Entry : In(e, mx_tx_bufs) => content'[e.buf] = content[e.buf]
  BY <1>2, HandlerUncached
<1>4. ComingKept
  BY <1>3, NoneJoins DEF Inv
<1> QED BY <1>3, <1>4 DEF Less, ArrivedIq, Of

\* and when what is to be forwarded is not supported.
LEMMA RefuseLess == Inv /\ WaitInv /\ RefuseControl => Less /\ CachedAt'
<1> SUFFICES ASSUME Inv, WaitInv, RefuseControl PROVE Less /\ CachedAt'
  OBVIOUS
<1>1. PICK b \in Burst : \E p \in {PacketIn(b)} :
        HandlesDu(b, p) /\ UNCHANGED <<memory, mx_tx_bufs, cached_du_packets>>
  BY DEF RefuseControl
<1>2. PICK p : HandlesDu(b, p) /\ UNCHANGED <<memory, mx_tx_bufs, cached_du_packets>>
  BY <1>1
<1>3. Handles(b, p) /\ stray = 0
  BY <1>2, DuHandled
<1> QED BY <1>2, <1>3, StopLess

\* A packet of the RU is put aside, or sent to a DU.
LEMMA ReturnLess == Inv /\ WaitInv /\ ReturnUplink => Less /\ CachedAt'
<1> SUFFICES ASSUME Inv, WaitInv, ReturnUplink PROVE Less /\ CachedAt'
  OBVIOUS
<1>1. PICK b \in Burst : \E p \in {PacketIn(b)} :
        /\ Handles(b, p) /\ p.kind = "ul_data" /\ UNCHANGED cached_du_packets
        /\ IF Expecting(p) = {}
           THEN FreeAll({b}) /\ UNCHANGED mx_tx_bufs
           ELSE IF Free = {}
           THEN UNCHANGED <<memory, mx_tx_bufs>>
           ELSE /\ FreeAndFill({b}, Filled(LowestFree(1), content[b]))
                /\ mx_tx_bufs' = Append(mx_tx_bufs, ToSend(FirstExpecting(p), Nth(LowestFree(1), 1)))
  BY DEF ReturnUplink
<1> DEFINE p == PacketIn(b)
           n == Nth(LowestFree(1), 1)
           e == ToSend(FirstExpecting(p), n)
           filled == Filled(LowestFree(1), content[b])
<1>2. /\ Handles(b, p) /\ p.kind = "ul_data" /\ p.kind \in RuKinds /\ cached_du_packets' = cached_du_packets
      /\ IF Expecting(p) = {}
         THEN FreeAll({b}) /\ UNCHANGED mx_tx_bufs
         ELSE IF Free = {}
         THEN UNCHANGED <<memory, mx_tx_bufs>>
         ELSE /\ FreeAndFill({b}, filled)
              /\ mx_tx_bufs' = Append(mx_tx_bufs, e)
  BY <1>1 DEF RuKinds
<1> HIDE DEF p
<1>3. /\ stray = 0 /\ b \in Bufs /\ p \in Packet /\ content[b] = RowOf(p)
      /\ TypeOK /\ (\A c \in {b} : Cached(c) \/ c = b) /\ {b} \subseteq {b}
  BY <1>2, NotStray DEF Inv
<1>4. CASE Expecting(p) = {}
  <2>1. \A c \in Bufs \ ({b} \cup {}) : content'[c] = content[c]
    BY <1>2, <1>4, ContentAfterFree
  <2>2. OnlyMoves(b, {b}, {})
    BY <1>3, <2>1 DEF OnlyMoves
  <2>3. /\ HeldLess /\ CachedAt' /\ Arrived' = Arrived /\ to_ru' = to_ru
        /\ \A f \in Entry : In(f, mx_tx_bufs) => content'[f.buf] = content[f.buf]
    BY <1>2, <1>3, <2>2, HandlerUncached
  <2>4. ComingKept
    BY <1>2, <1>3, <1>4, <2>3, NoneJoins
  <2> QED BY <2>3, <2>4 DEF Less, ArrivedIq, Of
<1>5. CASE Expecting(p) # {} /\ Free = {}
  BY <1>2, <1>3, <1>5, StopLess
<1>6. CASE Expecting(p) # {} /\ Free # {}
  <2>1. LowestFree(1) = {n} /\ n \in Free
    BY <1>6, NewMbuf
  <2>2. n \in Bufs /\ {n} \in SUBSET Free
    BY <2>1 DEF Free
  <2>3. DOMAIN filled = {n} /\ filled[n] = content[b]
    BY <2>1 DEF Filled
  <2>4. FreeAndFill({b}, filled) /\ mx_tx_bufs' = Append(mx_tx_bufs, e)
    BY <1>2, <1>6
  <2>5. e \in Entry /\ e.buf = n
    BY <1>6, <2>2, FirstIsExpecting DEF ToSend, Entry
  <2> HIDE DEF filled, n, e
  <2>6. (\A c \in Bufs \ ({b} \cup {n}) : content'[c] = content[c]) /\ content'[n] = content[b]
    BY <2>2, <2>3, <2>4, ContentKept
  <2>7. OnlyMoves(b, {b}, {n})
    BY <1>3, <2>2, <2>6 DEF OnlyMoves
  <2>8. /\ HeldLess /\ CachedAt' /\ Arrived' = Arrived /\ to_ru' = to_ru
        /\ \A f \in Entry : In(f, mx_tx_bufs) => content'[f.buf] = content[f.buf]
    BY <1>2, <1>3, <2>7, HandlerUncached
  <2>9. ~Iq(content'[e.buf])
    BY <1>2, <1>3, <2>5, <2>6, NotIq
  <2>10. ComingKept
    BY <1>3, <2>4, <2>5, <2>8, <2>9, OtherJoins
  <2> QED BY <2>8, <2>10 DEF Less, ArrivedIq, Of
<1> QED BY <1>4, <1>5, <1>6

\* So are the sections of PRACH data.
LEMMA SplitLess == Inv /\ WaitInv /\ SplitPrach => Less /\ CachedAt'
<1> SUFFICES ASSUME Inv, WaitInv, SplitPrach PROVE Less /\ CachedAt'
  OBVIOUS
<1>1. PICK b \in Burst : \E p \in {PacketIn(b)} :
        /\ Handles(b, p) /\ p.kind = "prach_data" /\ UNCHANGED cacheVars
        /\ IF Cardinality(Free) >= NumDus
           THEN /\ FreeAndFill({b}, [c \in LowestFree(NumDus) |->
                     [d \in Dus |-> IF c = BufFor(d) THEN SectionFor(b, d) ELSE NULL]])
                /\ mx_tx_bufs' = mx_tx_bufs \o PrachEntries
           ELSE UNCHANGED <<memory, mx_tx_bufs>>
  BY DEF SplitPrach, BufFor, PrachEntries
<1> DEFINE p == PacketIn(b)
           filled(N) == [c \in N |-> [d \in Dus |-> IF c = BufFor(d) THEN SectionFor(b, d) ELSE NULL]]
<1>2. /\ Handles(b, p) /\ p.kind = "prach_data" /\ p.kind \in RuKinds
      /\ cached_du_packets' = cached_du_packets
      /\ IF Cardinality(Free) >= NumDus
         THEN /\ FreeAndFill({b}, filled(LowestFree(NumDus)))
              /\ mx_tx_bufs' = mx_tx_bufs \o PrachEntries
         ELSE UNCHANGED <<memory, mx_tx_bufs>>
  BY <1>1 DEF RuKinds, cacheVars
<1> HIDE DEF p
<1>3. /\ stray = 0 /\ b \in Bufs /\ Received(b) /\ p = PacketIn(b) /\ p \in Packet
      /\ TypeOK /\ OwnInv /\ (\A c \in {b} : Cached(c) \/ c = b) /\ {b} \subseteq {b}
  BY <1>2, NotStray DEF Inv
<1>4. CASE ~(Cardinality(Free) >= NumDus)
  <2>1. UNCHANGED <<memory, mx_tx_bufs, cached_du_packets>>
    BY <1>2, <1>4
  <2> QED BY <1>2, <1>3, <2>1, StopLess
<1>5. CASE Cardinality(Free) >= NumDus
  <2>1. PICK N : N = LowestFree(NumDus)
    OBVIOUS
  <2>2. /\ N \in SUBSET Free
        /\ \A d \in Dus : BufFor(d) \in N /\ BufFor(d) \in Bufs
        /\ \A d, e \in Dus : BufFor(d) = BufFor(e) => d = e
        /\ \A c \in N : \E d \in Dus : BufFor(d) = c
    BY <1>5, <2>1, MbufsForDus
  <2>3. FreeAndFill({b}, filled(N)) /\ mx_tx_bufs' = mx_tx_bufs \o PrachEntries
    BY <1>2, <1>5, <2>1
  <2>4. DOMAIN filled(N) = N
    OBVIOUS
  <2>5. ASSUME NEW c \in N PROVE c \in Bufs /\ ~Iq(content'[c])
    <3>2. c \in Bufs /\ c \in Bufs \cap DOMAIN filled(N)
      BY <2>2, <2>4
    <3>3. ASSUME NEW d \in Dus, IsIq(filled(N)[c][d]) PROVE FALSE
      <4>1. filled(N)[c][d] = SectionFor(b, d)
        BY <3>3 DEF IsIq
      <4>2. SectionFor(b, d).kind \in {"prach_data", "prach_header"}
        BY <1>2, <1>3, SectionOf
      <4> QED BY <3>3, <4>1, <4>2 DEF IsIq
    <3> HIDE DEF filled
    <3>4. content'[c] = filled(N)[c]
      BY <2>3, <3>2, ContentKept
    <3> QED BY <3>2, <3>3, <3>4 DEF Iq
  <2> HIDE DEF filled
  <2>6. OnlyMoves(b, {b}, N)
    BY <1>3, <2>2, <2>3, <2>4, ContentKept DEF OnlyMoves
  <2>7. /\ HeldLess /\ CachedAt' /\ Arrived' = Arrived /\ to_ru' = to_ru
        /\ \A e \in Entry : In(e, mx_tx_bufs) => content'[e.buf] = content[e.buf]
    BY <1>2, <1>3, <2>6, HandlerUncached
  <2>8. ComingKept
    <3>1. mx_tx_bufs \in Seq(Entry) /\ PrachEntries \in Seq(Entry) /\ Len(PrachEntries) = NumDus
          /\ NumDus \in Nat /\ \A j \in 1 .. NumDus : PrachEntries[j].buf \in N
      <4>1. \A j \in 1 .. NumDus : j - 1 \in Dus
        BY SharingAssumption DEF Dus
      <4>2. \A j \in 1 .. NumDus : ToSend(j - 1, BufFor(j - 1)) \in Entry
                                   /\ ToSend(j - 1, BufFor(j - 1)).buf = BufFor(j - 1)
        BY <2>2, <4>1 DEF ToSend, Entry
      <4>3. NumDus \in Nat
        BY SharingAssumption
      <4> QED BY <1>3, <2>2, <4>1, <4>2, <4>3 DEF PrachEntries, TypeOK, Entry
    <3>2. ASSUME NEW i \in 1 .. Len(mx_tx_bufs')
          PROVE  \/ i \in 1 .. Len(mx_tx_bufs) /\ mx_tx_bufs'[i] = mx_tx_bufs[i]
                    /\ mx_tx_bufs[i] \in Entry /\ In(mx_tx_bufs[i], mx_tx_bufs)
                 \/ mx_tx_bufs'[i].buf \in N
      <4>1. CASE i <= Len(mx_tx_bufs)
        <5>1. i \in 1 .. Len(mx_tx_bufs) /\ mx_tx_bufs'[i] = mx_tx_bufs[i] /\ mx_tx_bufs[i] \in Entry
          BY <2>3, <3>1, <4>1
        <5> QED BY <5>1 DEF In
      <4>2. CASE i > Len(mx_tx_bufs)
        <5>1. /\ i - Len(mx_tx_bufs) \in 1 .. NumDus
              /\ mx_tx_bufs'[i] = PrachEntries[i - Len(mx_tx_bufs)]
          BY <2>3, <3>1, <4>2
        <5> QED BY <3>1, <5>1
      <4>3. Len(mx_tx_bufs) \in Nat
        BY <3>1
      <4> QED BY <4>1, <4>2, <4>3
    <3>3. ASSUME NEW i \in 1 .. Len(mx_tx_bufs'), Iq(content'[mx_tx_bufs'[i].buf])
          PROVE  /\ i \in 1 .. Len(mx_tx_bufs) /\ mx_tx_bufs'[i] = mx_tx_bufs[i]
                 /\ content'[mx_tx_bufs[i].buf] = content[mx_tx_bufs[i].buf]
      <4>1. mx_tx_bufs'[i].buf \notin N
        BY <2>5, <3>3
      <4> QED BY <2>7, <3>2, <4>1
    <3> QED BY <3>3 DEF ComingKept
  <2> QED BY <2>7, <2>8 DEF Less, ArrivedIq, Of
<1> QED BY <1>4, <1>5

\* What is sent, or freed for lack of room, waits no longer.
LEMMA SendingHolds ==
  ASSUME Inv, WaitInv, NEW S, FreeAll(S), \A c \in S : ToBeSent(c),
         UNCHANGED <<rxq, mx_bufs, cached_du_packets, scenario, frame, sent, missing>>
  PROVE  /\ HeldLess /\ CachedAt' /\ Arrived' = Arrived /\ \A c \in Bufs \ S : content'[c] = content[c]
         /\ \A c \in Bufs : Holding(c) => Holding(c)' /\ content'[c] = content[c]
<1>1. \A c \in Bufs \ S : content'[c] = content[c]
  <2>1. \A c \in Bufs \ (S \cup {}) : content'[c] = content[c]
    BY ContentAfterFree
  <2> QED BY <2>1
<1>2. \A c : Holding(c)' <=> Holding(c)
  BY DEF Holding, Received, In, Cached, InRow
<1>3. \A c \in Bufs : Holding(c) => c \notin S
  BY DEF Holding, Inv, OwnInv, PlacesInv
<1>4. HeldLess
  BY <1>1, <1>2, <1>3 DEF HeldLess
<1>5. Arrived' = Arrived
  BY DEF Arrived, DuPackets
<1>6. CachedAt'
  <2>1. ASSUME NEW l \in Keys, NEW d \in Dus, cached_du_packets'[l][d] # NULL
        PROVE  /\ cached_du_packets'[l][d] = cached_du_packets[l][d]
               /\ content'[cached_du_packets'[l][d]] = content[cached_du_packets[l][d]]
    <3>1. PICK c : c = cached_du_packets[l][d]
      OBVIOUS
    <3>2. c \in Bufs /\ Holding(c)
      BY <2>1, <3>1 DEF Inv, TypeOK, Holding, Cached, InRow
    <3> QED BY <1>1, <1>3, <3>1, <3>2
  <2> QED BY <1>5, <2>1, CachedStays DEF WaitInv
<1> QED BY <1>1, <1>2, <1>3, <1>4, <1>5, <1>6

\* When there is no room, none is sent.
LEMMA FullLess == Inv /\ WaitInv /\ TxFull => Less /\ CachedAt'
<1> SUFFICES ASSUME Inv, WaitInv, TxFull PROVE Less /\ CachedAt'
  OBVIOUS
<1> DEFINE S == {mx_tx_bufs[i].buf : i \in DOMAIN mx_tx_bufs}
<1>1. /\ FreeAll(S) /\ mx_tx_bufs' = <<>>
      /\ UNCHANGED <<rxq, mx_bufs, cached_du_packets, scenario, frame, sent, missing, to_ru>>
  BY DEF TxFull, envVars, cacheVars
<1>2. mx_tx_bufs \in Seq(Entry)
  BY DEF Inv, TypeOK, Entry
<1>3. \A i \in DOMAIN mx_tx_bufs : mx_tx_bufs[i] \in Entry /\ In(mx_tx_bufs[i], mx_tx_bufs)
  BY <1>2 DEF In
<1>4. \A c \in S : ToBeSent(c)
  BY <1>3 DEF ToBeSent
<1> HIDE DEF S
<1>5. HeldLess /\ CachedAt' /\ Arrived' = Arrived
  BY <1>1, <1>4, SendingHolds
<1>6. ComingKept
  BY <1>1 DEF ComingKept
<1> QED BY <1>1, <1>5, <1>6 DEF Less, ArrivedIq, Of

\* Steps that change no mbuf.
LEMMA UnmovedLess ==
  ASSUME Inv, WaitInv, UNCHANGED <<content, mx_tx_bufs, cached_du_packets, to_ru>>,
         \A c \in Bufs : Received(c)' => Received(c), Arrived' = Arrived
  PROVE  Less /\ CachedAt'
<1>1. HeldLess
  BY DEF HeldLess, Holding, Cached, InRow
<1>2. TypeOK
  BY DEF Inv
<1>3. ComingKept
  BY <1>2, NoneJoins
<1>4. CachedAt'
  <2>1. ASSUME NEW l \in Keys, NEW d \in Dus, cached_du_packets'[l][d] # NULL
        PROVE  /\ cached_du_packets'[l][d] = cached_du_packets[l][d]
               /\ content'[cached_du_packets'[l][d]] = content[cached_du_packets[l][d]]
    OBVIOUS
  <2> QED BY <2>1, CachedStays DEF WaitInv
<1> QED BY <1>1, <1>3, <1>4 DEF Less, ArrivedIq, Of

\* The burst is received already,
LEMMA BurstLess == Inv /\ WaitInv /\ RxBurst => Less /\ CachedAt'
<1> SUFFICES ASSUME Inv, WaitInv, RxBurst PROVE Less /\ CachedAt'
  OBVIOUS
<1> DEFINE n == AtMostBurst(rxq)
<1>1. /\ mx_bufs = <<>> /\ mx_bufs' = SubSeq(rxq, 1, n) /\ rxq' = SubSeq(rxq, n + 1, Len(rxq))
      /\ UNCHANGED <<content, mx_tx_bufs, cached_du_packets, to_ru>> /\ UNCHANGED envVars
  BY DEF RxBurst, memory, cacheVars
<1>2. rxq \in Seq(Bufs) /\ Once(rxq)
  BY DEF Inv, TypeOK, OwnInv, QueuesInv
<1>3. n \in 0 .. Len(rxq)
  BY <1>2, SharingAssumption DEF AtMostBurst
<1> HIDE DEF n
<1>4. \A b : In(b, mx_bufs') \/ In(b, rxq') <=> In(b, rxq)
  BY <1>1, <1>2, <1>3, BurstTaken
<1>5. \A c \in Bufs : Received(c)' => Received(c)
  BY <1>4 DEF Received, In
<1> QED BY <1>1, <1>5, ArrivedUnmoved, UnmovedLess

\* and what is lost never arrives:
LEMMA MissDuLess == Inv /\ WaitInv /\ MissDu => Less /\ CachedAt'
<1> SUFFICES ASSUME Inv, WaitInv, MissDu PROVE Less /\ CachedAt'
  OBVIOUS
<1>1. PICK p \in DuPackets(frame) \ sent :
        /\ sent' = sent \cup {p} /\ missing' = missing \cup {p}
        /\ UNCHANGED <<memory, rxq, mx_bufs, mx_tx_bufs, cacheVars, scenario, frame, to_ru>>
  BY DEF MissDu
<1>2. p \notin Arrived
  BY <1>1, ArrivedPackets DEF Inv
<1>3. Arrived' = Arrived
  BY <1>1, <1>2 DEF Arrived, DuPackets
<1>4. \A c \in Bufs : Received(c)' => Received(c)
  BY <1>1 DEF Received, In
<1> QED BY <1>1, <1>3, <1>4, UnmovedLess DEF memory, cacheVars

\* neither what a DU sends nor what the RU does,
LEMMA MissRuLess == Inv /\ WaitInv /\ MissRu => Less /\ CachedAt'
<1> SUFFICES ASSUME Inv, WaitInv, MissRu PROVE Less /\ CachedAt'
  OBVIOUS
<1>1. PICK p \in owed :
        /\ missing' = missing \cup {p}
        /\ UNCHANGED <<memory, rxq, mx_bufs, mx_tx_bufs, cacheVars, scenario, frame, sent, to_ru>>
  BY DEF MissRu
<1>2. p.kind \in RuKinds /\ p.kind \notin DuKinds /\ TypeOK /\ frame \in RadioFrames
  BY DEF Inv, TypeOK, EnvInv, RuKinds, DuKinds, Refused
<1>3. p \notin Arrived
  <2>1. ASSUME NEW f \in RadioFrames, p \in DuPackets(f) PROVE FALSE
    BY <1>2, <2>1, DuPacketParts
  <2>2. \A f \in 0 .. frame - 1 : f \in RadioFrames
    BY <1>2, SharingAssumption DEF RadioFrames
  <2> QED BY <1>2, <2>1, <2>2 DEF Arrived, WaitInv, SentInv
<1>4. Arrived' = Arrived
  BY <1>1, <1>3 DEF Arrived, DuPackets
<1>5. \A c \in Bufs : Received(c)' => Received(c)
  BY <1>1 DEF Received, In
<1> QED BY <1>1, <1>4, <1>5, UnmovedLess DEF memory, cacheVars

\* nor does anything with a new frame.
LEMMA FrameLess == Inv /\ WaitInv /\ NextFrame => Less /\ CachedAt'
<1> SUFFICES ASSUME Inv, WaitInv, NextFrame PROVE Less /\ CachedAt'
  OBVIOUS
<1>1. /\ sent = DuPackets(frame) /\ frame' = frame + 1 /\ sent' = {}
      /\ UNCHANGED <<memory, rxq, mx_bufs, mx_tx_bufs, cacheVars, scenario, missing, to_ru>>
  BY DEF NextFrame
<1>2. frame \in Nat
  BY SharingAssumption DEF Inv, TypeOK, RadioFrames
<1> DEFINE past == UNION {DuPackets(f) : f \in 0 .. frame - 1}
<1>3. past' = past \cup sent
  <2>1. \A f : DuPackets(f)' = DuPackets(f)
    BY <1>1 DEF DuPackets
  <2>2. past' = UNION {DuPackets(f) : f \in 0 .. (frame + 1) - 1}
    BY <1>1 DEF DuPackets
  <2>3. \A f : f \in 0 .. (frame + 1) - 1 <=> f \in 0 .. frame - 1 \/ f = frame
    BY <1>2
  <2> QED BY <1>1, <2>2, <2>3
<1>4. Arrived' = Arrived
  <2>1. Arrived = (past \cup sent) \ missing
    BY DEF Arrived
  <2>2. Arrived' = (past' \cup sent') \ missing'
    BY DEF Arrived
  <2> HIDE DEF past
  <2> QED BY <1>1, <1>3, <2>1, <2>2
<1>5. \A c \in Bufs : Received(c)' => Received(c)
  BY <1>1 DEF Received, In
<1> QED BY <1>1, <1>4, <1>5, UnmovedLess DEF memory, cacheVars

\* Nothing happens.
LEMMA NothingLess == Inv /\ WaitInv /\ UNCHANGED vars => Less /\ CachedAt'
<1> SUFFICES ASSUME Inv, WaitInv, UNCHANGED vars PROVE Less /\ CachedAt'
  OBVIOUS
<1>1. UNCHANGED <<content, mx_tx_bufs, cached_du_packets, to_ru>> /\ UNCHANGED envVars
      /\ \A c \in Bufs : Received(c)' => Received(c)
  BY DEF vars, memory, cacheVars, Received, In
<1> QED BY <1>1, ArrivedUnmoved, UnmovedLess

\* What comes in a free mbuf leaves the others alone.
LEMMA ReceiveHolds ==
  ASSUME Inv, WaitInv, NEW row, NicReceive(row), NEW n, n = Nth(LowestFree(1), 1),
         \A c \in Bufs : Received(c)' <=> Received(c) \/ c = n,
         \A c \in Bufs \ {n} : content'[c] = content[c]
  PROVE  /\ n \in Bufs /\ ~Cached(n) /\ ~Cached(n)' /\ ~ToBeSent(n)
         /\ \A c \in Bufs : Holding(c)' => (Holding(c) /\ c # n /\ content'[c] = content[c]) \/ c = n
         /\ \A c \in Bufs : Holding(c) => Holding(c)'
         /\ mx_tx_bufs' = mx_tx_bufs /\ to_ru' = to_ru /\ ComingKept
         /\ Arrived \subseteq Arrived' => CachedAt'
<1>1. Free # {} /\ cached_du_packets' = cached_du_packets /\ mx_tx_bufs' = mx_tx_bufs /\ to_ru' = to_ru
  BY DEF NicReceive, cacheVars
<1>2. n \in Bufs /\ ~Cached(n) /\ ~ToBeSent(n)
  <2>1. n \in Free
    BY <1>1, NewMbuf
  <2> QED BY <2>1 DEF Free, Inv, OwnInv, PlacesInv
<1>3. \A c : Cached(c)' <=> Cached(c)
  BY <1>1 DEF Cached, InRow
<1>4. TypeOK /\ \A f \in Entry : In(f, mx_tx_bufs) => f.buf \in Bufs /\ f.buf # n
  BY <1>2 DEF ToBeSent, Entry, Inv
<1>5. ComingKept
  BY <1>1, <1>4, NoneJoins
<1>6. ASSUME Arrived \subseteq Arrived' PROVE CachedAt'
  <2>1. ASSUME NEW l \in Keys, NEW d \in Dus, cached_du_packets'[l][d] # NULL
        PROVE  /\ cached_du_packets'[l][d] = cached_du_packets[l][d]
               /\ content'[cached_du_packets'[l][d]] = content[cached_du_packets[l][d]]
    <3>1. PICK c : c = cached_du_packets[l][d]
      OBVIOUS
    <3>2. c \in Bufs /\ Cached(c)
      BY <1>1, <1>4, <2>1, <3>1 DEF TypeOK, Cached, InRow
    <3> QED BY <1>1, <1>2, <3>1, <3>2
  <2> QED BY <1>6, <2>1, CachedStays DEF WaitInv
<1> QED BY <1>1, <1>2, <1>3, <1>5, <1>6 DEF Holding

\* What the RU sends, or somebody else, is no downlink data.
LEMMA OtherLess ==
  ASSUME Inv, WaitInv, NEW p \in Packet, p.kind \notin DuKinds, NEW row, NicReceive(row),
         row = (IF p.kind = "prach_data" THEN AnswerRow(p) ELSE RowOf(p)),
         UNCHANGED <<scenario, frame, sent, missing>>, NEW n, n = Nth(LowestFree(1), 1),
         \A c \in Bufs : Received(c)' <=> Received(c) \/ c = n,
         \A c \in Bufs \ {n} : content'[c] = content[c],
         content'[n] = row
  PROVE  Less /\ CachedAt'
<1>1. Arrived' = Arrived
  BY DEF Arrived, DuPackets
<1>2. /\ \A c \in Bufs : Holding(c)' => (Holding(c) /\ c # n /\ content'[c] = content[c]) \/ c = n
      /\ ComingKept /\ CachedAt' /\ to_ru' = to_ru
  BY <1>1, ReceiveHolds
<1>3. ~Iq(content'[n])
  BY NotIq DEF DuKinds, Refused
<1>4. HeldLess
  BY <1>2, <1>3 DEF HeldLess
<1> QED BY <1>1, <1>2, <1>4 DEF Less, ArrivedIq, Of

\* An answer of the RU comes,
LEMMA SendRuLess == Inv /\ WaitInv /\ SendRu => Less /\ CachedAt'
<1> SUFFICES ASSUME Inv, WaitInv, SendRu PROVE Less /\ CachedAt'
  OBVIOUS
<1>1. PICK p \in owed :
        owed' = owed \ {p} /\ NicReceive(AnswerRow(p))
        /\ UNCHANGED <<scenario, frame, sent, missing, stray>>
  BY DEF SendRu
<1>2. p \in Packet /\ p.kind \in RuKinds
  BY DEF Inv, TypeOK, EnvInv
<1>3. p.kind \notin DuKinds
  BY <1>2 DEF RuKinds, DuKinds, Refused
<1>4. AnswerRow(p) = IF p.kind = "prach_data" THEN AnswerRow(p) ELSE RowOf(p)
  BY <1>2, AnswerRows
<1>5. PICK n : n = Nth(LowestFree(1), 1)
  OBVIOUS
<1>6. /\ content'[n] = IF p.kind = "prach_data" THEN AnswerRow(p) ELSE RowOf(p)
      /\ \A c \in Bufs : Received(c)' <=> Received(c) \/ c = n
      /\ \A c \in Bufs \ {n} : content'[c] = content[c]
  BY <1>1, <1>5, RuPacketSent
<1>7. NicReceive(AnswerRow(p)) /\ UNCHANGED <<scenario, frame, sent, missing>>
      /\ content'[n] = AnswerRow(p)
  BY <1>1, <1>4, <1>6
<1> QED BY <1>2, <1>3, <1>4, <1>5, <1>6, <1>7, OtherLess

\* or a packet that is not for the middlebox.
LEMMA StraySentLess == Inv /\ WaitInv /\ SendStray => Less /\ CachedAt'
<1> SUFFICES ASSUME Inv, WaitInv, SendStray PROVE Less /\ CachedAt'
  OBVIOUS
<1>1. PICK d \in Dus, kind \in StrayKinds :
        /\ Quiet /\ NicReceive([EmptyRow EXCEPT ![d] = Stray(kind, d)])
        /\ UNCHANGED <<scenario, frame, sent, missing>>
  BY DEF SendStray
<1> DEFINE p == Stray(kind, d)
<1>2. p \in Packet /\ p.kind = kind /\ p.du = d
  <2>1. (CHOOSE x \in Ports : TRUE) \in Ports /\ (CHOOSE x \in Symbols : TRUE) \in Symbols
        /\ 0 \in RadioFrames
    BY SharingAssumption DEF RadioFrames
  <2> QED BY <2>1 DEF Stray, Packet
<1>3. NicReceive([EmptyRow EXCEPT ![p.du] = p])
  BY <1>1, <1>2
<1> HIDE DEF p
<1>4. p.kind \notin DuKinds /\ p.kind # "prach_data"
  BY <1>2 DEF DuKinds, Refused, StrayKinds
<1>5. NicReceive(RowOf(p))
  BY <1>3 DEF RowOf
<1>6. PICK n : n = Nth(LowestFree(1), 1)
  OBVIOUS
<1>7. n \in Bufs
  BY <1>5, <1>6, MbufReceived
<1>8. Free # {} /\ FreeAndFill({}, Filled(LowestFree(1), RowOf(p))) /\ rxq' = Append(rxq, n)
      /\ mx_bufs' = mx_bufs
  BY <1>5, <1>6 DEF NicReceive
<1>9. LowestFree(1) = {n}
  BY <1>6, <1>8, NewMbuf
<1>10. DOMAIN Filled(LowestFree(1), RowOf(p)) = {n} /\ Filled(LowestFree(1), RowOf(p))[n] = RowOf(p)
  BY <1>9 DEF Filled
<1>11. content'[n] = RowOf(p) /\ \A c \in Bufs \ {n} : content'[c] = content[c]
  BY <1>7, <1>8, <1>10, ContentKept
<1>12. \A c \in Bufs : Received(c)' <=> Received(c) \/ c = n
  <2>1. rxq \in Seq(Bufs)
    BY DEF Inv, TypeOK
  <2>2. \A c : In(c, rxq') <=> In(c, rxq) \/ c = n
    BY <1>7, <1>8, <2>1, Appended
  <2> QED BY <1>8, <2>2 DEF Received, In
<1>13. UNCHANGED <<scenario, frame, sent, missing>>
  BY <1>1
<1> QED BY <1>2, <1>4, <1>5, <1>6, <1>11, <1>12, <1>13, OtherLess

\* The packets that are put together: those of the cache are for the same port
\* and symbol, and of the same type.
LEMMA MergedPackets ==
  ASSUME Inv, WaitInv, NEW p \in Packet, NEW b \in Bufs, content[b] = RowOf(p), p.kind \in DuKinds,
         p \in Arrived, Received(b), CountWith(p) = NumDus, NEW d \in Dus
  PROVE  LET q == PacketIn(RowWith(p, b)[d])
         IN  /\ q \in Packet /\ q.kind \in DuKinds /\ q.du = d /\ KeyOf(q) = KeyOf(p) /\ q \in Arrived
             /\ RowWith(p, b)[d] \in Bufs /\ Holding(RowWith(p, b)[d]) /\ content[RowWith(p, b)[d]] = RowOf(q)
<1>1. PICK c : c = RowWith(p, b)[d]
  OBVIOUS
<1>2. TypeOK /\ CountInv /\ p.du \in Dus /\ KeyOf(p) \in Keys
  BY PacketParts DEF Inv
<1>3. c \in Bufs /\ PacketIn(c) \in Packet /\ PacketIn(c).du = d
  BY <1>1, MergedRow
<1>4. PICK q \in Packet : /\ q.kind \in DuKinds /\ q.du = d /\ KeyOf(q) = KeyOf(p) /\ q \in Arrived
                          /\ content[c] = RowOf(q) /\ Holding(c)
  <2>1. CASE d = p.du
    <3>1. c = b
      BY <1>1, <1>2, <2>1, RowAndCount
    <3> QED BY <2>1, <3>1 DEF Holding
  <2>2. CASE d # p.du
    <3>1. c = IF Outdated(p) THEN NULL ELSE cached_du_packets[KeyOf(p)][d]
      BY <1>1, <1>2, <2>2, RowAndCount
    <3>2. c = cached_du_packets[KeyOf(p)][d] /\ c # NULL
      BY <1>3, <3>1, NullAssumption
    <3>3. Holding(c)
      BY <1>2, <3>2 DEF Holding, Cached, InRow
    <3>4. \E q \in Packet : /\ q.kind \in DuKinds /\ q.du = d /\ KeyOf(q) = KeyOf(p) /\ q \in Arrived
                            /\ content[cached_du_packets[KeyOf(p)][d]] = RowOf(q)
      BY <1>2, <3>2 DEF WaitInv, CachedAt
    <3> QED BY <3>2, <3>3, <3>4
  <2> QED BY <2>1, <2>2
<1>5. PacketIn(c) = q
  <2>1. IsOne(content[c], q)
    BY <1>4, PacketParts DEF IsOne, RowOf
  <2> QED BY <2>1, OnePacket
<1> QED BY <1>1, <1>3, <1>4, <1>5

\* The row is put together, of all it holds, when there is memory for it.
LEMMA MergingHolds ==
  ASSUME Inv, WaitInv, NEW b, NEW p, HandlesDu(b, p), Ready(p), p.kind \in {"iq", "prach_control"},
         Free # {}, NEW n, n = Nth(LowestFree(1), 1), NEW row, row = Merged(p, RowWith(p, b)),
         FreeAndFill(Evicted(p) \cup InRow(RowWith(p, b)), Filled(LowestFree(1), row)),
         mx_tx_bufs' = Append(mx_tx_bufs, ToSend(RU, n)), StoreRow(p, EmptyRow, 0)
  PROVE  /\ HeldLess /\ CachedAt' /\ Arrived' = Arrived /\ to_ru' = to_ru
         /\ \A e \in Entry : In(e, mx_tx_bufs) => content'[e.buf] = content[e.buf]
         /\ n \in Bufs /\ content'[n] = row /\ row \in Rows
         /\ \A c : Cached(c)' <=> Cached(c) /\ c \notin InRow(cached_du_packets[KeyOf(p)])
<1> DEFINE S == InRow(cached_du_packets[KeyOf(p)]) \cup {b}
           filled == Filled(LowestFree(1), row)
<1>1. /\ Handles(b, p) /\ p \in Packet /\ p.kind \in DuKinds /\ b \in Bufs /\ ~Cached(b) /\ stray = 0
      /\ content[b] = RowOf(p) /\ TypeOK /\ CountInv /\ RowsInv
  BY DuHandled DEF Inv, OwnInv
<1>2. CountWith(p) = NumDus
  BY DEF Ready, UlRequests
<1>3. row \in Rows
  BY <1>1, <1>2, MergedRow
<1>4. LowestFree(1) = {n} /\ n \in Free
  BY NewMbuf
<1>5. n \in Bufs /\ {n} \in SUBSET Free
  BY <1>4 DEF Free
<1>6. DOMAIN filled = {n} /\ filled[n] = row
  BY <1>4 DEF Filled
<1>7. FreeAndFill(S, filled)
  BY <1>1, RowOfHandled
<1>8. /\ \A c : Cached(c)' <=> Cached(c) /\ c \notin InRow(cached_du_packets[KeyOf(p)])
      /\ \A l \in Keys, d \in Dus : cached_du_packets'[l][d] # NULL =>
           /\ cached_du_packets'[l][d] = cached_du_packets[l][d]
           /\ cached_du_packets[l][d] \notin InRow(cached_du_packets[KeyOf(p)])
      /\ \A c \in InRow(cached_du_packets[KeyOf(p)]) : Cached(c)
  BY <1>1, RowUsed
<1>9. \A c \in S : Cached(c) \/ c = b
  BY <1>8
<1>10. \A l \in Keys, d \in Dus : cached_du_packets'[l][d] # NULL =>
         cached_du_packets'[l][d] = cached_du_packets[l][d] /\ cached_du_packets[l][d] \notin S
  <2>1. \A l \in Keys, d \in Dus : cached_du_packets[l][d] # b
    BY <1>1, NullAssumption DEF Cached, InRow
  <2> QED BY <1>8, <2>1
<1> HIDE DEF S, filled
<1>11. (\A c \in Bufs \ (S \cup {n}) : content'[c] = content[c]) /\ content'[n] = row
  BY <1>5, <1>6, <1>7, ContentKept
<1>12. OnlyMoves(b, S, {n})
  BY <1>5, <1>9, <1>11 DEF OnlyMoves
<1>13. /\ HeldLess /\ CachedAt' /\ Arrived' = Arrived /\ to_ru' = to_ru
       /\ \A e \in Entry : In(e, mx_tx_bufs) => content'[e.buf] = content[e.buf]
  BY <1>1, <1>10, <1>12, HandlerHolds
<1> QED BY <1>3, <1>5, <1>8, <1>11, <1>13

\* PRACH requests, and what stops the program, are no downlink data.
LEMMA MergeLess ==
  ASSUME Inv, WaitInv, NEW b, NEW p, HandlesDu(b, p), Ready(p), p.kind = "prach_control",
         Free # {}, NEW n, n = Nth(LowestFree(1), 1), NEW row, row = Merged(p, RowWith(p, b)),
         FreeAndFill(Evicted(p) \cup InRow(RowWith(p, b)), Filled(LowestFree(1), row)),
         mx_tx_bufs' = Append(mx_tx_bufs, ToSend(RU, n)), StoreRow(p, EmptyRow, 0)
  PROVE  Less /\ CachedAt'
<1>1. /\ HeldLess /\ CachedAt' /\ Arrived' = Arrived /\ to_ru' = to_ru
      /\ \A e \in Entry : In(e, mx_tx_bufs) => content'[e.buf] = content[e.buf]
      /\ n \in Bufs /\ content'[n] = row
  BY MergingHolds
<1>2. /\ Handles(b, p) /\ p \in Packet /\ p.kind \in DuKinds /\ b \in Bufs /\ content[b] = RowOf(p)
      /\ TypeOK /\ p \in Arrived
  BY DuHandled DEF Inv, IsNew
<1>3. Received(b) /\ CountWith(p) = NumDus
  BY <1>2, Handled DEF Ready, UlRequests
<1>4. ASSUME NEW d \in Dus, IsIq(row[d]) PROVE FALSE
  <2>1. PICK q : q = PacketIn(RowWith(p, b)[d])
    OBVIOUS
  <2>2. q \in Packet /\ KeyOf(q) = KeyOf(p)
    BY <1>2, <1>3, <2>1, MergedPackets
  <2>3. q.kind # "iq"
    BY <2>2 DEF KeyOf, TypeOf
  <2>4. row[d] = NULL \/ row[d] = Section(q)
    BY <2>1 DEF Merged
  <2>5. Section(q).kind = q.kind
    BY <2>2 DEF Section, Packet
  <2> QED BY <1>4, <2>3, <2>4, <2>5 DEF IsIq
<1>5. ToSend(RU, n) \in Entry /\ ToSend(RU, n).buf = n /\ ~Iq(content'[n])
  BY <1>1, <1>4 DEF ToSend, Entry, Iq
<1>6. ComingKept
  BY <1>1, <1>2, <1>5, OtherJoins
<1> QED BY <1>1, <1>6 DEF Less, ArrivedIq, Of

\* A packet of each DU for one port and symbol is put together; what waits in
\* their streams is later.
LEMMA MergedIsOver ==
  ASSUME Inv, WaitInv, NEW b, NEW p, HandlesDu(b, p), Ready(p), p.kind = "iq",
         NEW row, row = Merged(p, RowWith(p, b)), HeldLess,
         \A c : Cached(c)' <=> Cached(c) /\ c \notin InRow(cached_du_packets[KeyOf(p)])
  PROVE  Over(row, ArrivedIq, Pending') /\ \A d \in Dus : row[d] \in Pending
<1>1. /\ Handles(b, p) /\ p \in Packet /\ p.kind \in DuKinds /\ b \in Bufs /\ content[b] = RowOf(p)
      /\ TypeOK /\ CountInv /\ PlacesInv /\ p \in Arrived /\ ~Cached(b)
  BY DuHandled DEF Inv, IsNew, OwnInv
<1>2. /\ Received(b) /\ CountWith(p) = NumDus /\ \A c \in Bufs : Received(c)' <=> Received(c) /\ c # b
  BY <1>1, Handled DEF Ready, UlRequests
<1>3. ASSUME NEW d \in Dus
      PROVE  /\ row[d] \in Packet /\ row[d].kind = "iq" /\ row[d].du = d /\ row[d] \in ArrivedIq
             /\ row[d].port = p.port /\ row[d].symbol = p.symbol /\ KeyOf(row[d]) = KeyOf(p)
             /\ \E c \in Bufs : Holding(c) /\ content[c] = RowOf(row[d]) /\ (Cached(c) \/ c = b)
  <2>1. PICK c, q : c = RowWith(p, b)[d] /\ q = PacketIn(c)
    OBVIOUS
  <2>2. /\ q \in Packet /\ q.kind \in DuKinds /\ q.du = d /\ KeyOf(q) = KeyOf(p) /\ q \in Arrived
        /\ c \in Bufs /\ Holding(c) /\ content[c] = RowOf(q)
    BY <1>1, <1>2, <2>1, MergedPackets
  <2>3. q.kind = "iq" /\ q.port = p.port /\ q.symbol = p.symbol
    BY <2>2 DEF KeyOf, TypeOf
  <2>4. row[d] = q
    BY <2>1, <2>3 DEF Merged, Section
  <2>5. Cached(c) \/ c = b
    <3>1. c \in InRow(RowWith(p, b))
      BY <2>1, <2>2, NullAssumption DEF InRow
    <3>2. c \in InRow(cached_du_packets[KeyOf(p)]) \cup {b}
      BY <1>1, <3>1, RowOfHandled
    <3> QED BY <1>1, <3>2, PacketParts DEF Cached
  <2> QED BY <2>2, <2>3, <2>4, <2>5 DEF ArrivedIq, Of
<1>4. \A d \in Dus : row[d] \in Pending
  BY <1>3 DEF Pending
<1>5. 0 \in Dus
  BY SharingAssumption DEF Dus
<1>6. IqGroup(row)
  BY <1>3, <1>5 DEF IqGroup
<1>7. ASSUME NEW d \in Dus, NEW x \in Pending', Same(row[d], x)
      PROVE  row[d].frame < x.frame
  <2>1. x \in Packet /\ x.kind = "iq" /\ \E c \in Bufs : Holding(c)' /\ content'[c] = RowOf(x)
    BY <1>7 DEF Pending, RowOf, EmptyRow
  <2>2. PICK c \in Bufs : Holding(c)' /\ content'[c] = RowOf(x)
    BY <2>1
  <2>3. Holding(c) /\ content[c] = RowOf(x)
    BY <2>1, <2>2, IqRow DEF HeldLess
  <2>4. x.du = d /\ KeyOf(x) = KeyOf(p) /\ x # NULL
    BY <1>3, <1>7, <2>1, PacketParts DEF Same, KeyOf, TypeOf
  <2>5. CASE Cached(c)'
    <3>1. Cached(c) /\ c \notin InRow(cached_du_packets[KeyOf(p)])
      BY <2>5
    <3>2. PICK l \in Keys, e \in Dus : cached_du_packets[l][e] = c /\ c # NULL
      BY <3>1 DEF Cached, InRow
    <3>3. PICK q \in Packet : q.kind \in DuKinds /\ q.du = e /\ KeyOf(q) = l /\ content[c] = RowOf(q)
      BY <3>2 DEF WaitInv, CachedAt
    <3>4. q = x
      BY <2>1, <2>3, <3>3, RowsDiffer
    <3>5. l = KeyOf(p)
      BY <2>4, <3>3, <3>4
    <3> QED BY <3>1, <3>2, <3>5 DEF InRow
  <2>6. CASE Received(c)'
    <3>1. Received(c) /\ c # b /\ ~Cached(c)
      BY <1>1, <1>2, <2>6 DEF PlacesInv
    <3>2. PacketIn(c) = x
      <4>1. IsOne(content[c], x)
        BY <2>1, <2>3, PacketParts DEF IsOne, RowOf
      <4> QED BY <2>1, <4>1, OnePacket
    <3>3. x \in Arrived /\ x.frame = frame
      BY <2>1, <3>1, <3>2, HandledPacket DEF IsNew, DuKinds, Refused
    <3>4. row[d] \in Arrived /\ row[d].frame \in Int /\ row[d].frame <= frame /\ x.frame \in Int
      BY <1>1, <1>3, <3>3, ArrivedOnce DEF ArrivedIq, Of, WaitInv
    <3>5. row[d].frame # x.frame
      <4> SUFFICES ASSUME row[d].frame = x.frame PROVE FALSE
        OBVIOUS
      <4>1. row[d] = x
        BY <1>1, <1>3, <1>7, <2>1, <3>3, <3>4, ArrivedOnce DEF WaitInv
      <4>2. PICK c2 \in Bufs : Holding(c2) /\ content[c2] = RowOf(x) /\ (Cached(c2) \/ c2 = b)
        BY <1>3, <4>1
      <4>3. c2 = c
        BY <2>1, <2>3, <4>2 DEF WaitInv, OnePending
      <4> QED BY <3>1, <4>2, <4>3
    <3> QED BY <3>3, <3>4, <3>5
  <2> QED BY <2>2, <2>5, <2>6 DEF Holding
<1> QED BY <1>3, <1>4, <1>6, <1>7 DEF Over

\* What waits for the abstract merger: what may still be put together, and what
\* is in the rows to be sent.
HeldIq == Of("iq", HeldPackets)
ToGo(x) == x \in Packet /\ x.kind = "iq"
           /\ \E i \in 1 .. Len(mx_tx_bufs), d \in Dus : content[mx_tx_bufs[i].buf][d] = x
HeldIqIs == \A x : x \in HeldIq <=> x \in Pending \/ ToGo(x)

\* in every state,
LEMMA HeldIqNow == Inv /\ CachedAt => HeldIqIs
<1> SUFFICES ASSUME Inv, CachedAt, NEW x PROVE x \in HeldIq <=> x \in Pending \/ ToGo(x)
  BY DEF HeldIqIs
<1>1. /\ rxq \in Seq(Bufs) /\ mx_bufs \in Seq(Bufs) /\ mx_tx_bufs \in Seq(Entry)
      /\ content \in [Bufs -> Rows] /\ cached_du_packets \in [Keys -> [Dus -> Bufs \cup {NULL}]]
  BY DEF Inv, TypeOK, Entry
<1>2. /\ \A i \in DOMAIN mx_tx_bufs : mx_tx_bufs[i] \in Entry
      /\ DOMAIN mx_tx_bufs = 1 .. Len(mx_tx_bufs)
      /\ DOMAIN rxq = 1 .. Len(rxq) /\ DOMAIN mx_bufs = 1 .. Len(mx_bufs)
      /\ \A i \in DOMAIN rxq : rxq[i] \in Bufs
      /\ \A i \in DOMAIN mx_bufs : mx_bufs[i] \in Bufs
  BY <1>1
<1>3. \A c : c \in HeldBufs <=> Holding(c) \/ \E i \in 1 .. Len(mx_tx_bufs) : c = mx_tx_bufs[i].buf
  BY <1>2 DEF HeldBufs, Holding, Received, Cached, In
<1>4. \A c \in HeldBufs : c \in Bufs
  <2>1. \A e \in Entry : e.buf \in Bufs
    BY DEF Entry
  <2>2. \A c : Cached(c) => c \in Bufs
    BY <1>1 DEF Cached, InRow
  <2> QED BY <1>2, <1>3, <2>1, <2>2 DEF Holding, Received, In
<1>5. ASSUME x \in HeldIq PROVE x \in Pending \/ ToGo(x)
  <2>1. PICK c \in HeldBufs, d \in Dus : x = content[c][d] /\ x # NULL /\ x.kind = "iq"
    BY <1>5 DEF HeldIq, Of, HeldPackets
  <2>2. c \in Bufs /\ x \in Packet
    BY <1>1, <1>4, <2>1 DEF Rows
  <2>3. CASE Holding(c)
    BY <2>1, <2>2, <2>3, HoldingIs DEF IsIq
  <2>4. CASE ~Holding(c)
    <3>1. PICK i \in 1 .. Len(mx_tx_bufs) : c = mx_tx_bufs[i].buf
      BY <1>3, <2>4
    <3> QED BY <2>1, <2>2, <3>1 DEF ToGo
  <2> QED BY <2>3, <2>4
<1>6. ASSUME x \in Pending PROVE x \in HeldIq
  <2>1. PICK c \in Bufs : x \in Packet /\ x.kind = "iq" /\ Holding(c) /\ content[c] = RowOf(x)
    BY <1>6 DEF Pending
  <2>2. x.du \in Dus /\ x # NULL /\ content[c][x.du] = x
    BY <2>1, PacketParts DEF RowOf, EmptyRow
  <2>3. c \in HeldBufs
    BY <1>3, <2>1
  <2> QED BY <2>1, <2>2, <2>3 DEF HeldIq, Of, HeldPackets
<1>7. ASSUME ToGo(x) PROVE x \in HeldIq
  <2>1. PICK i \in 1 .. Len(mx_tx_bufs), d \in Dus : content[mx_tx_bufs[i].buf][d] = x
    BY <1>7 DEF ToGo
  <2>2. x # NULL /\ x.kind = "iq"
    BY <1>7, PacketParts DEF ToGo
  <2>3. mx_tx_bufs[i].buf \in HeldBufs
    BY <1>3
  <2> QED BY <2>1, <2>2, <2>3 DEF HeldIq, Of, HeldPackets
<1> QED BY <1>5, <1>6, <1>7

\* and in the next.
LEMMA HeldIqNext ==
  ASSUME Inv', CachedAt', NEW x
  PROVE  x \in HeldIq' <=> x \in Pending' \/ ToGo(x)'
<1>1. Inv' /\ CachedAt' => HeldIqIs'
  BY HeldIqNow, PTL
<1> QED BY <1>1 DEF HeldIqIs, ToGo

\* No more waits when a step adds no downlink data,
LEMMA HeldLessIq ==
  ASSUME Inv, Inv', CachedAt, CachedAt', Less, Pending' \subseteq Pending
  PROVE  HeldIq' \subseteq HeldIq
<1> SUFFICES ASSUME NEW x \in HeldIq' PROVE x \in HeldIq
  OBVIOUS
<1>1. CASE x \in Pending'
  BY <1>1, HeldIqNow DEF HeldIqIs
<1>2. CASE ToGo(x)'
  <2>1. x \in Packet /\ x.kind = "iq" /\ \E i \in 1 .. Len(mx_tx_bufs'), d \in Dus : content'[mx_tx_bufs'[i].buf][d] = x
    BY <1>2 DEF ToGo
  <2>2. PICK i \in 1 .. Len(mx_tx_bufs'), d \in Dus : content'[mx_tx_bufs'[i].buf][d] = x
    BY <2>1
  <2>3. Iq(content'[mx_tx_bufs'[i].buf])
    BY <2>1, <2>2, PacketParts DEF Iq, IsIq
  <2>4. i \in 1 .. Len(mx_tx_bufs) /\ content[mx_tx_bufs[i].buf][d] = x
    BY <2>2, <2>3 DEF Less, ComingKept
  <2>5. ToGo(x)
    BY <2>1, <2>4 DEF ToGo
  <2> QED BY <2>5, HeldIqNow DEF HeldIqIs
<1> QED BY <1>1, <1>2, HeldIqNext

\* and none when a row is put together: it is of packets that waited.
LEMMA MergeView ==
  ASSUME Inv, Inv', WaitInv, OrderInv, MergePackets
  PROVE  /\ CachedAt' /\ OnePending' /\ OrderInv' /\ HeldIq' \subseteq HeldIq
         /\ ArrivedIq' = ArrivedIq /\ to_ru' = to_ru
<1> DEFINE new == Nth(LowestFree(1), 1)
<1>1. PICK b \in Burst : \E p \in {PacketIn(b)} :
        /\ HandlesDu(b, p) /\ Ready(p) /\ p.kind \in {"iq", "prach_control"}
        /\ IF Free # {}
           THEN /\ FreeAndFill(Evicted(p) \cup InRow(RowWith(p, b)),
                               Filled(LowestFree(1), Merged(p, RowWith(p, b))))
                /\ mx_tx_bufs' = Append(mx_tx_bufs, ToSend(RU, new))
                /\ StoreRow(p, EmptyRow, 0)
           ELSE UNCHANGED <<memory, mx_tx_bufs, cached_du_packets>>
  BY DEF MergePackets
<1>2. PICK p, n, row :
        /\ HandlesDu(b, p) /\ Ready(p) /\ p.kind \in {"iq", "prach_control"}
        /\ n = new /\ row = Merged(p, RowWith(p, b))
        /\ IF Free # {}
           THEN /\ FreeAndFill(Evicted(p) \cup InRow(RowWith(p, b)), Filled(LowestFree(1), row))
                /\ mx_tx_bufs' = Append(mx_tx_bufs, ToSend(RU, n))
                /\ StoreRow(p, EmptyRow, 0)
           ELSE UNCHANGED <<memory, mx_tx_bufs, cached_du_packets>>
  BY <1>1
<1>3. TypeOK /\ TypeOK' /\ OnePending /\ CachedAt
  BY DEF Inv, WaitInv
<1>4. CASE Less /\ CachedAt'
  <2>1. OrderInv' /\ OnePending' /\ Pending' \subseteq Pending
    BY <1>3, <1>4, OrderLess
  <2>2. HeldIq' \subseteq HeldIq
    BY <1>3, <1>4, <2>1, HeldLessIq
  <2> QED BY <1>4, <2>1, <2>2 DEF Less, ArrivedIq, Of
<1>5. CASE Free = {}
  <2>1. Handles(b, p) /\ stray = 0
    BY <1>2, DuHandled
  <2>2. Less /\ CachedAt'
    BY <1>2, <1>5, <2>1, StopLess
  <2> QED BY <1>4, <2>2
<1>6. CASE Free # {} /\ p.kind = "prach_control"
  BY <1>2, <1>4, <1>6, MergeLess
<1>7. CASE Free # {} /\ p.kind = "iq"
  <2>1. /\ HeldLess /\ CachedAt' /\ Arrived' = Arrived /\ to_ru' = to_ru
        /\ \A e \in Entry : In(e, mx_tx_bufs) => content'[e.buf] = content[e.buf]
        /\ n \in Bufs /\ content'[n] = row /\ row \in Rows
        /\ \A c : Cached(c)' <=> Cached(c) /\ c \notin InRow(cached_du_packets[KeyOf(p)])
    BY <1>2, <1>7, MergingHolds
  <2>2. Over(row, ArrivedIq, Pending') /\ \A d \in Dus : row[d] \in Pending
    BY <1>2, <1>7, <2>1, MergedIsOver
  <2>3. OnePending' /\ Pending' \subseteq Pending
    BY <1>3, <2>1, PendingLess
  <2>4. PICK m : m = Len(mx_tx_bufs)
    OBVIOUS
  <2>5. ToSend(RU, n) \in Entry /\ ToSend(RU, n).buf = n /\ mx_tx_bufs' = Append(mx_tx_bufs, ToSend(RU, n))
    BY <1>2, <1>7, <2>1 DEF ToSend, Entry
  <2>6. /\ m \in Nat /\ Len(mx_tx_bufs') = m + 1
        /\ mx_tx_bufs'[m + 1] = ToSend(RU, n)
        /\ \A i \in 1 .. m : mx_tx_bufs'[i] = mx_tx_bufs[i]
        /\ \A i \in 1 .. m + 1 : i \in 1 .. m \/ i = m + 1
        /\ \A i \in 1 .. m : mx_tx_bufs[i] \in Entry /\ In(mx_tx_bufs[i], mx_tx_bufs)
    BY <1>3, <2>4, <2>5, RowJoins
  <2>7. /\ \A i \in 1 .. m : content'[mx_tx_bufs'[i].buf] = content[mx_tx_bufs[i].buf]
        /\ content'[mx_tx_bufs'[m + 1].buf] = row
    BY <2>1, <2>5, <2>6
  <2>8. Coming' = Append(Coming, row)
    <3>1. Coming \in Seq(Rows) /\ Coming = [i \in 1 .. m |-> content[mx_tx_bufs[i].buf]] /\ Len(Coming) = m
      BY <1>3, <2>4, ComingIs DEF Coming
    <3>2. Coming' = [i \in 1 .. m + 1 |-> content'[mx_tx_bufs'[i].buf]]
      BY <2>6 DEF Coming
    <3>3. Append(Coming, row) = [i \in 1 .. m + 1 |-> IF i = m + 1 THEN row ELSE Coming[i]]
      BY <2>1, <2>6, <3>1
    <3>4. \A i \in 1 .. m + 1 : content'[mx_tx_bufs'[i].buf] = IF i = m + 1 THEN row ELSE Coming[i]
      BY <2>6, <2>7, <3>1
    <3> QED BY <3>2, <3>3, <3>4
  <2>9. OrderInv'
    <3>1. PICK pending2 : pending2 = Pending'
      OBVIOUS
    <3>2. InOrder(Append(Coming, row), to_ru, ArrivedIq, pending2)
      BY <1>3, <2>1, <2>2, <2>3, <3>1, ComingIs, OrderMerged DEF OrderInv
    <3>3. ArrivedIq' = ArrivedIq
      BY <2>1 DEF ArrivedIq, Of
    <3> QED BY <2>1, <2>8, <3>1, <3>2, <3>3, OrderIsNext
  <2>10. HeldIq' \subseteq HeldIq
    <3> SUFFICES ASSUME NEW x \in HeldIq' PROVE x \in HeldIq
      OBVIOUS
    <3>1. CASE x \in Pending'
      BY <1>3, <2>3, <3>1, HeldIqNow DEF HeldIqIs
    <3>2. CASE ToGo(x)'
      <4>1. /\ x \in Packet /\ x.kind = "iq"
            /\ \E i \in 1 .. Len(mx_tx_bufs'), d \in Dus : content'[mx_tx_bufs'[i].buf][d] = x
        BY <3>2 DEF ToGo
      <4>2. PICK i \in 1 .. m + 1, d \in Dus : content'[mx_tx_bufs'[i].buf][d] = x
        BY <2>6, <4>1
      <4>3. CASE i = m + 1
        BY <1>3, <2>2, <2>7, <4>2, <4>3, HeldIqNow DEF HeldIqIs
      <4>4. CASE i \in 1 .. m
        <5>1. ToGo(x)
          BY <2>4, <2>7, <4>1, <4>2, <4>4 DEF ToGo
        <5> QED BY <1>3, <5>1, HeldIqNow DEF HeldIqIs
      <4> QED BY <2>6, <4>3, <4>4
    <3> QED BY <2>1, <3>1, <3>2, HeldIqNext
  <2> QED BY <2>1, <2>3, <2>9, <2>10 DEF ArrivedIq, Of
<1> QED BY <1>2, <1>5, <1>6, <1>7

\* A packet of downlink data that comes is later than those of its stream.
LEMMA SendDuView ==
  ASSUME Inv, Inv', WaitInv, OrderInv, SendDu
  PROVE  /\ CachedAt' /\ OnePending' /\ OrderInv' /\ to_ru' = to_ru
         /\ \/ HeldIq' \subseteq HeldIq /\ ArrivedIq' = ArrivedIq
            \/ \E p \in Packet : /\ p.kind = "iq" /\ ArrivedIq' = ArrivedIq \cup {p}
                                 /\ HeldIq' = HeldIq \cup {p}
                                 /\ \A q \in ArrivedIq : Same(q, p) => q.frame < p.frame
<1>1. PICK p \in DuPackets(frame) \ sent :
        /\ sent' = sent \cup {p} /\ NicReceive([EmptyRow EXCEPT ![p.du] = p])
        /\ UNCHANGED <<scenario, frame, missing, stray, owed>>
  BY DEF SendDu
<1>2. NicReceive(RowOf(p))
  BY <1>1 DEF RowOf
<1>3. PICK n : n = Nth(LowestFree(1), 1)
  OBVIOUS
<1>4. /\ p \in Packet /\ p.kind \in DuKinds /\ p \in Arrived'
      /\ n \in Bufs /\ ~Received(n) /\ content'[n] = RowOf(p)
      /\ \A c \in Bufs : Received(c)' <=> Received(c) \/ c = n
      /\ \A c \in Bufs \ {n} : content'[c] = content[c]
  BY <1>1, <1>2, <1>3, DuPacketSent
<1>5. TypeOK /\ TypeOK' /\ CachedAt /\ OnePending /\ SentInv
  BY DEF Inv, WaitInv
<1>6. p \notin Arrived /\ Arrived' = Arrived \cup {p}
  <2>1. p \notin Arrived
    BY <1>1, <1>5, ArrivedPackets
  <2>2. p \notin missing
    BY <1>1, <1>4 DEF Arrived
  <2> QED BY <1>1, <2>1, <2>2 DEF Arrived, DuPackets
<1>7. /\ ~Cached(n) /\ ~Cached(n)' /\ ~ToBeSent(n)
      /\ \A c \in Bufs : Holding(c)' => (Holding(c) /\ c # n /\ content'[c] = content[c]) \/ c = n
      /\ \A c \in Bufs : Holding(c) => Holding(c)'
      /\ mx_tx_bufs' = mx_tx_bufs /\ to_ru' = to_ru /\ ComingKept /\ CachedAt'
  BY <1>2, <1>3, <1>4, <1>6, ReceiveHolds
<1>8. ~Holding(n) /\ Holding(n)'
  BY <1>4, <1>7 DEF Holding
<1>9. CASE p.kind # "iq"
  <2>1. ArrivedIq' = ArrivedIq
    BY <1>6, <1>9 DEF ArrivedIq, Of
  <2>2. ~Iq(content'[n])
    BY <1>4, <1>9, NotIq
  <2>3. Less
    BY <1>7, <2>1, <2>2 DEF Less, HeldLess, ArrivedIq, Of
  <2>4. OrderInv' /\ OnePending' /\ Pending' \subseteq Pending
    BY <1>5, <2>3, OrderLess
  <2>5. HeldIq' \subseteq HeldIq
    BY <1>5, <1>7, <2>3, <2>4, HeldLessIq
  <2> QED BY <1>7, <2>1, <2>4, <2>5
<1>10. CASE p.kind = "iq"
  <2>1. ArrivedIq' = ArrivedIq \cup {p}
    BY <1>6, <1>10 DEF ArrivedIq, Of
  <2>2. ASSUME NEW q \in ArrivedIq, Same(q, p) PROVE q.frame < p.frame
    <3>1. q \in Arrived /\ q.kind = "iq" /\ q # p
      BY <1>6 DEF ArrivedIq, Of
    <3>2. q.frame \in Int /\ q.frame <= frame /\ q.frame # p.frame
      BY <1>1, <1>5, <1>10, <2>2, <3>1, ArrivedOnce
    <3>3. p.frame = frame /\ frame \in Int
      BY <1>1, <1>5, DuPacketParts, SharingAssumption DEF TypeOK, RadioFrames
    <3> QED BY <3>2, <3>3
  <2>3. ASSUME NEW c \in Bufs, Holding(c) PROVE content[c] # RowOf(p)
    <3> SUFFICES ASSUME content[c] = RowOf(p) PROVE FALSE
      OBVIOUS
    <3>1. p.du \in Dus /\ p # NULL /\ content[c][p.du] = p
      BY <1>4, PacketParts DEF RowOf, EmptyRow
    <3>2. p \in ArrivedIq
      BY <1>5, <1>10, <2>3, <3>1, HoldingIs DEF IsIq
    <3> QED BY <1>6, <3>2 DEF ArrivedIq, Of
  <2>4. OnePending'
    <3> SUFFICES ASSUME NEW b \in Bufs, NEW c \in Bufs, NEW q \in Packet, q.kind = "iq",
                        Holding(b)', Holding(c)', content'[b] = RowOf(q), content'[c] = RowOf(q)
                 PROVE  b = c
      BY DEF OnePending, RowOf, EmptyRow
    <3>1. CASE b = n \/ c = n
      <4>1. q = p
        BY <1>4, <3>1, RowsDiffer
      <4> QED BY <1>7, <2>3, <3>1, <4>1
    <3>2. CASE b # n /\ c # n
      <4>1. Holding(b) /\ Holding(c) /\ content[b] = RowOf(q) /\ content[c] = RowOf(q)
        BY <1>7, <3>2
      <4> QED BY <1>5, <4>1 DEF OnePending
    <3> QED BY <3>1, <3>2
  <2>5. \A x : x \in Pending' <=> x \in Pending \/ x = p
    <3>1. ASSUME NEW x \in Pending' PROVE x \in Pending \/ x = p
      <4>1. x \in Packet /\ x.kind = "iq" /\ \E c \in Bufs : Holding(c)' /\ content'[c] = RowOf(x)
        BY <3>1 DEF Pending, RowOf, EmptyRow
      <4>2. PICK c \in Bufs : Holding(c)' /\ content'[c] = RowOf(x)
        BY <4>1
      <4>3. CASE c = n
        BY <1>4, <4>1, <4>2, <4>3, RowsDiffer
      <4>4. CASE c # n
        BY <1>7, <4>1, <4>2, <4>4 DEF Pending
      <4> QED BY <4>3, <4>4
    <3>2. ASSUME NEW x \in Pending PROVE x \in Pending'
      <4>1. PICK c \in Bufs : x \in Packet /\ x.kind = "iq" /\ Holding(c) /\ content[c] = RowOf(x)
        BY <3>2 DEF Pending
      <4>2. Holding(c)' /\ content'[c] = RowOf(x)
        BY <1>4, <1>7, <1>8, <4>1
      <4> QED BY <4>1, <4>2 DEF Pending, RowOf, EmptyRow
    <3>3. p \in Pending'
      BY <1>4, <1>8, <1>10 DEF Pending, RowOf, EmptyRow
    <3> QED BY <3>1, <3>2, <3>3
  <2>6. \A i \in 1 .. Len(mx_tx_bufs) :
          mx_tx_bufs[i].buf \in Bufs /\ content'[mx_tx_bufs[i].buf] = content[mx_tx_bufs[i].buf]
    <3> SUFFICES ASSUME NEW i \in 1 .. Len(mx_tx_bufs)
                 PROVE  mx_tx_bufs[i].buf \in Bufs /\ mx_tx_bufs[i].buf # n
      BY <1>4
    <3>1. mx_tx_bufs[i] \in Entry /\ mx_tx_bufs[i].buf \in Bufs
      BY <1>5, ComingIs
    <3>2. ToBeSent(mx_tx_bufs[i].buf)
      BY <3>1 DEF ToBeSent, In
    <3> QED BY <1>7, <3>1, <3>2
  <2>7. Coming' = Coming
    BY <1>7, <2>6 DEF Coming
  <2>8. OrderInv'
    <3>1. PICK pending2, arrived2 : pending2 = Pending' /\ arrived2 = ArrivedIq'
      OBVIOUS
    <3>2. InOrder(Coming, to_ru, arrived2, pending2)
      <4>1. ArrivedIq \subseteq arrived2 /\ pending2 \subseteq Pending \cup {p}
        BY <2>1, <2>5, <3>1
      <4>2. InOrder(Coming, to_ru, ArrivedIq, Pending)
        BY DEF OrderInv
      <4> QED BY <2>2, <4>1, <4>2, OrderArrived
    <3> QED BY <1>7, <2>7, <3>1, <3>2, OrderIsNext
  <2>9. HeldIq' = HeldIq \cup {p}
    <3>1. ASSUME NEW x PROVE x \in HeldIq' <=> x \in HeldIq \/ x = p
      <4>1. ToGo(x)' <=> ToGo(x)
        BY <1>7, <2>6 DEF ToGo
      <4>2. x \in HeldIq <=> x \in Pending \/ ToGo(x)
        BY <1>5, HeldIqNow DEF HeldIqIs
      <4>3. x \in HeldIq' <=> x \in Pending' \/ ToGo(x)'
        BY <1>7, HeldIqNext
      <4> QED BY <2>5, <4>1, <4>2, <4>3
    <3> QED BY <3>1
  <2> QED BY <1>4, <1>7, <1>10, <2>1, <2>2, <2>4, <2>8, <2>9
<1> QED BY <1>9, <1>10

\* The first row leaves: to a DU, or to the RU.  If it is of downlink data, it
\* is of packets that waited, and what waits on in their streams is later.
GoneBefore(row) == \A i \in 1 .. Len(to_ru) : Iq(to_ru[i]) => IqGroup(to_ru[i]) /\ Before(to_ru[i], row)
Goes(row) ==
  /\ IqGroup(row) /\ GoneBefore(row)
  /\ \A d \in Dus : row[d] \in HeldIq
  /\ \A x \in HeldIq : x \in HeldIq' \/ \E d \in Dus : x = row[d]
  /\ \A x \in HeldIq', d \in Dus : Same(row[d], x) => row[d].frame < x.frame

\* The step by which it leaves.
LEMMA TxView ==
  ASSUME Inv, Inv', WaitInv, OrderInv, TxOne
  PROVE  /\ CachedAt' /\ OnePending' /\ OrderInv' /\ HeldIq' \subseteq HeldIq /\ ArrivedIq' = ArrivedIq
         /\ \/ to_ru' = to_ru
            \/ \E row \in Rows : to_ru' = Append(to_ru, row) /\ (Iq(row) => Goes(row))
<1>1. PICK e : e = Head(mx_tx_bufs)
  OBVIOUS
<1>2. PICK row : row = content[e.buf]
  OBVIOUS
<1>3. /\ mx_tx_bufs # <<>> /\ mx_tx_bufs' = Tail(mx_tx_bufs)
      /\ to_ru' = Append(to_ru, row) \/ to_ru' = to_ru
      /\ FreeAll({e.buf})
      /\ UNCHANGED <<rxq, mx_bufs, cached_du_packets, scenario, frame, sent, missing>>
  BY <1>1, <1>2 DEF TxOne, cacheVars
<1>4. TypeOK /\ TypeOK' /\ OnePending /\ CachedAt /\ mx_tx_bufs \in Seq(Entry) /\ to_ru \in Seq(Rows)
  BY DEF Inv, WaitInv, TypeOK, Entry
<1>5. /\ e \in Entry /\ e.buf \in Bufs /\ ToBeSent(e.buf) /\ row \in Rows
      /\ \A f : In(f, Tail(mx_tx_bufs)) <=> In(f, mx_tx_bufs) /\ f # e
      /\ \A f \in Entry : In(f, mx_tx_bufs) /\ f.buf = e.buf => f = e
  BY <1>1, <1>2, <1>3, HeadEntry
<1>6. /\ HeldLess /\ CachedAt' /\ Arrived' = Arrived /\ \A c \in Bufs \ {e.buf} : content'[c] = content[c]
      /\ \A c \in Bufs : Holding(c) => Holding(c)' /\ content'[c] = content[c]
  BY <1>3, <1>5, SendingHolds
<1>7. OnePending' /\ Pending' = Pending
  <2>1. OnePending' /\ Pending' \subseteq Pending
    BY <1>4, <1>6, PendingLess
  <2>2. ASSUME NEW x \in Pending PROVE x \in Pending'
    <3>1. PICK c \in Bufs : x \in Packet /\ x.kind = "iq" /\ Holding(c) /\ content[c] = RowOf(x)
      BY <2>2 DEF Pending
    <3>2. Holding(c)' /\ content'[c] = RowOf(x)
      BY <1>6, <3>1
    <3> QED BY <3>1, <3>2 DEF Pending, RowOf, EmptyRow
  <2> QED BY <2>1, <2>2
<1>8. PICK n : n \in Nat /\ Len(mx_tx_bufs) = n + 1
  <2>1. Len(mx_tx_bufs) - 1 \in Nat /\ Len(mx_tx_bufs) = Len(mx_tx_bufs) - 1 + 1
    BY <1>3, <1>4
  <2> QED BY <2>1
<1>9. /\ Len(mx_tx_bufs') = n /\ mx_tx_bufs[1] = e
      /\ \A i \in 1 .. n : mx_tx_bufs'[i] = mx_tx_bufs[i + 1] /\ i + 1 \in 1 .. n + 1 /\ 1 < i + 1
  BY <1>1, <1>3, <1>4, <1>8
<1>10. /\ Coming \in Seq(Rows) /\ Len(Coming) = n + 1 /\ 1 \in 1 .. n + 1
       /\ \A i \in 1 .. n + 1 : Coming[i] = content[mx_tx_bufs[i].buf]
  BY <1>4, <1>8, ComingIs
<1>11. /\ \A i \in 1 .. n : content'[mx_tx_bufs'[i].buf] = Coming[i + 1]
       /\ Coming[1] = row
  <2>1. ASSUME NEW i \in 1 .. n PROVE content'[mx_tx_bufs'[i].buf] = Coming[i + 1]
    <3>1. mx_tx_bufs'[i] \in Entry /\ In(mx_tx_bufs'[i], Tail(mx_tx_bufs))
      <4>1. PICK rest : rest = mx_tx_bufs' /\ rest \in Seq(Entry) /\ rest = Tail(mx_tx_bufs) /\ Len(rest) = n
        BY <1>3, <1>4, <1>9 DEF TypeOK, Entry
      <4>2. rest[i] \in Entry /\ In(rest[i], rest)
        BY <4>1 DEF In
      <4> QED BY <4>1, <4>2
    <3>2. mx_tx_bufs'[i].buf # e.buf /\ mx_tx_bufs'[i].buf \in Bufs
      BY <1>5, <3>1 DEF Entry
    <3>3. content'[mx_tx_bufs'[i].buf] = content[mx_tx_bufs[i + 1].buf]
      BY <1>6, <1>9, <3>2
    <3> QED BY <1>9, <1>10, <3>3
  <2> QED BY <1>2, <1>9, <1>10, <2>1
<1>12. Coming' = Tail(Coming) /\ Head(Coming) = row /\ Coming # <<>>
  <2>1. Coming' = [i \in 1 .. n |-> content'[mx_tx_bufs'[i].buf]]
    BY <1>9 DEF Coming
  <2>2. Coming' = [i \in 1 .. n |-> Coming[i + 1]]
    BY <1>11, <2>1
  <2>3. Coming' \in Seq(Rows) /\ Len(Coming') = n
    <3>1. TypeOK' => ComingShape'
      BY ShapeOfComing, PTL
    <3> QED BY <1>4, <1>9, <3>1 DEF ComingShape
  <2>4. PICK coming, rest : coming = Coming /\ rest = Coming'
    OBVIOUS
  <2>5. coming \in Seq(Rows) /\ Len(coming) = n + 1 /\ n \in Nat /\ coming # <<>>
    BY <1>8, <1>10, <2>4
  <2>6. /\ Tail(coming) \in Seq(Rows) /\ Head(coming) = coming[1] /\ Len(Tail(coming)) = n
        /\ \A i \in 1 .. Len(Tail(coming)) : Tail(coming)[i] = coming[i + 1]
    BY <2>5, HeadTailProperties
  <2>7. rest = Tail(coming)
    BY <2>2, <2>3, <2>4, <2>6, SeqEqual
  <2> QED BY <1>11, <2>4, <2>5, <2>6, <2>7
<1>13. ArrivedIq' = ArrivedIq
  BY <1>6 DEF ArrivedIq, Of
<1>14. OrderInv'
  <2>1. PICK pending2 : pending2 = Pending'
    OBVIOUS
  <2>2. InOrder(Tail(Coming), to_ru, ArrivedIq, Pending)
        /\ InOrder(Tail(Coming), Append(to_ru, row), ArrivedIq, Pending)
    BY <1>4, <1>10, <1>12, OrderSent DEF OrderInv
  <2> QED BY <1>3, <1>7, <1>12, <1>13, <2>1, <2>2, OrderIsNext
<1>15. \A x : x \in HeldIq <=> x \in Pending \/ ToGo(x)
  BY <1>4, HeldIqNow DEF HeldIqIs
<1>16. \A x : x \in HeldIq' <=> x \in Pending \/ ToGo(x)'
  BY <1>6, <1>7, HeldIqNext
<1>17. \A x : /\ ToGo(x) <=> x \in Packet /\ x.kind = "iq" /\ \E i \in 1 .. n + 1, d \in Dus : Coming[i][d] = x
              /\ ToGo(x)' <=> x \in Packet /\ x.kind = "iq" /\ \E i \in 1 .. n, d \in Dus : Coming[i + 1][d] = x
  <2>1. ASSUME NEW x
        PROVE  ToGo(x) <=> x \in Packet /\ x.kind = "iq" /\ \E i \in 1 .. n + 1, d \in Dus : Coming[i][d] = x
    BY <1>8, <1>10 DEF ToGo
  <2>2. ASSUME NEW x
        PROVE  ToGo(x)' <=> x \in Packet /\ x.kind = "iq" /\ \E i \in 1 .. n, d \in Dus : Coming[i + 1][d] = x
    BY <1>9, <1>11 DEF ToGo
  <2> QED BY <2>1, <2>2
<1>18. \A i \in 1 .. n + 1 : i = 1 \/ \E j \in 1 .. n : i = j + 1
  <2>1. \A i \in 1 .. n + 1 : i = 1 \/ (i - 1 \in 1 .. n /\ i = (i - 1) + 1)
    BY <1>8
  <2> QED BY <2>1
<1>19. HeldIq' \subseteq HeldIq
  BY <1>9, <1>15, <1>16, <1>17
<1>20. ASSUME Iq(row) PROVE Goes(row)
  <2>1. /\ Over(row, ArrivedIq, Pending) /\ GoneBefore(row)
        /\ \A j \in 1 .. n : Iq(Coming[j + 1]) => IqGroup(Coming[j + 1]) /\ Before(row, Coming[j + 1])
    BY <1>9, <1>10, <1>11, <1>20 DEF OrderInv, InOrder, GoneBefore, Over
  <2>2. ASSUME NEW d \in Dus PROVE row[d] \in HeldIq
    <3>1. row[d] \in Packet /\ row[d].kind = "iq" /\ Coming[1][d] = row[d]
      BY <1>11, <2>1 DEF Over, IqGroup
    <3>2. ToGo(row[d])
      BY <1>10, <1>17, <3>1
    <3> QED BY <1>15, <3>2
  <2>3. ASSUME NEW x \in HeldIq PROVE x \in HeldIq' \/ \E d \in Dus : x = row[d]
    BY <1>11, <1>15, <1>16, <1>17, <1>18
  <2>4. ASSUME NEW x \in HeldIq', NEW d \in Dus, Same(row[d], x) PROVE row[d].frame < x.frame
    <3>1. CASE x \in Pending
      BY <2>1, <2>4, <3>1 DEF Over
    <3>2. CASE ToGo(x)'
      <4>1. PICK j \in 1 .. n, f \in Dus : x \in Packet /\ x.kind = "iq" /\ Coming[j + 1][f] = x
        BY <1>17, <3>2
      <4>2. Iq(Coming[j + 1])
        BY <4>1, PacketParts DEF Iq, IsIq
      <4>3. IqGroup(Coming[j + 1]) /\ Before(row, Coming[j + 1]) /\ IqGroup(row)
        BY <2>1, <4>2 DEF Over
      <4>4. x.du = f /\ x.port = Coming[j + 1][0].port /\ x.symbol = Coming[j + 1][0].symbol
            /\ row[d].du = d /\ row[d].port = row[0].port /\ row[d].symbol = row[0].symbol
        BY <4>1, <4>3 DEF IqGroup
      <4>5. d = f /\ row[0].port = Coming[j + 1][0].port /\ row[0].symbol = Coming[j + 1][0].symbol
        BY <2>4, <4>4 DEF Same
      <4> QED BY <4>1, <4>3, <4>5 DEF Before
    <3> QED BY <1>16, <3>1, <3>2
  <2>5. IqGroup(row)
    BY <2>1 DEF Over
  <2> QED BY <2>1, <2>2, <2>3, <2>4, <2>5 DEF Goes
<1> QED BY <1>3, <1>5, <1>6, <1>7, <1>13, <1>14, <1>19, <1>20

\* No DU sends what is not in the schedule,
LEMMA SentKept == SentInv /\ [Next]_vars => SentInv'
<1> SUFFICES ASSUME SentInv, [Next]_vars PROVE SentInv'
  OBVIOUS
<1>1. ASSUME UNCHANGED <<scenario, frame, sent>> PROVE SentInv'
  BY <1>1 DEF SentInv, DuPackets
<1>2. CASE lcore_main
  BY <1>1, <1>2 DEF lcore_main, RxBurst, IgnoreStray, IgnoreForeign, CachePacket, ForwardControl, RefuseControl,
     MergePackets, ReturnUplink, SplitPrach, TxOne, TxFull, HandlesDu, Handles, envVars
<1>3. CASE SendDu \/ MissDu
  <2>1. PICK p \in DuPackets(frame) \ sent : sent' = sent \cup {p} /\ UNCHANGED <<scenario, frame>>
    BY <1>3 DEF SendDu, MissDu
  <2> QED BY <2>1 DEF SentInv, DuPackets
<1>4. CASE SendRu \/ MissRu \/ SendStray
  BY <1>1, <1>4 DEF SendRu, MissRu, SendStray
<1>5. CASE NextFrame
  BY <1>5 DEF NextFrame, SentInv
<1>6. CASE Spin \/ UNCHANGED vars
  BY <1>1, <1>6 DEF Spin, vars, envVars
<1> QED BY <1>2, <1>3, <1>4, <1>5, <1>6 DEF Next

\* What a step does to downlink data: a packet comes, a row is sent to the RU,
\* or some packets are given up.
GivenUp == HeldIq' \subseteq HeldIq /\ ArrivedIq' = ArrivedIq /\ to_ru' = to_ru
OneCame == \E p \in Packet :
  /\ p.kind = "iq" /\ ArrivedIq' = ArrivedIq \cup {p} /\ HeldIq' = HeldIq \cup {p} /\ to_ru' = to_ru
  /\ \A q \in ArrivedIq : Same(q, p) => q.frame < p.frame
RowSent == \E row \in Rows :
  /\ HeldIq' \subseteq HeldIq /\ ArrivedIq' = ArrivedIq /\ to_ru' = Append(to_ru, row)
  /\ Iq(row) => Goes(row)
View == GivenUp \/ OneCame \/ RowSent

\* Every step is one of these, and keeps the invariants.
LEMMA StepViewed ==
  ASSUME Inv, Inv', WaitInv, OrderInv, [Next]_vars
  PROVE  WaitInv' /\ OrderInv' /\ View
<1>1. TypeOK /\ TypeOK' /\ OnePending /\ CachedAt
  BY DEF Inv, WaitInv
<1>2. SentInv'
  BY SentKept DEF WaitInv
<1>3. CASE Less /\ CachedAt'
  <2>1. OrderInv' /\ OnePending' /\ Pending' \subseteq Pending
    BY <1>1, <1>3, OrderLess
  <2>2. HeldIq' \subseteq HeldIq
    BY <1>1, <1>3, <2>1, HeldLessIq
  <2> QED BY <1>2, <1>3, <2>1, <2>2 DEF Less, View, GivenUp, WaitInv
<1>4. CASE MergePackets
  <2>1. /\ CachedAt' /\ OnePending' /\ OrderInv' /\ HeldIq' \subseteq HeldIq
        /\ ArrivedIq' = ArrivedIq /\ to_ru' = to_ru
    BY <1>4, MergeView
  <2> QED BY <1>2, <2>1 DEF View, GivenUp, WaitInv
<1>5. CASE TxOne
  <2>1. /\ CachedAt' /\ OnePending' /\ OrderInv' /\ HeldIq' \subseteq HeldIq /\ ArrivedIq' = ArrivedIq
        /\ \/ to_ru' = to_ru
           \/ \E row \in Rows : to_ru' = Append(to_ru, row) /\ (Iq(row) => Goes(row))
    BY <1>5, TxView
  <2>2. View
    BY <2>1 DEF View, GivenUp, RowSent
  <2> QED BY <1>2, <2>1, <2>2 DEF WaitInv
<1>6. CASE SendDu
  <2>1. /\ CachedAt' /\ OnePending' /\ OrderInv' /\ to_ru' = to_ru
        /\ \/ HeldIq' \subseteq HeldIq /\ ArrivedIq' = ArrivedIq
           \/ \E p \in Packet : /\ p.kind = "iq" /\ ArrivedIq' = ArrivedIq \cup {p}
                                /\ HeldIq' = HeldIq \cup {p}
                                /\ \A q \in ArrivedIq : Same(q, p) => q.frame < p.frame
    BY <1>6, SendDuView
  <2>2. View
    BY <2>1 DEF View, GivenUp, OneCame
  <2> QED BY <1>2, <2>1, <2>2 DEF WaitInv
<1>7. CASE lcore_main
  BY <1>3, <1>4, <1>5, <1>7, BurstLess, StrayLess, CacheLess, ForwardLess, RefuseLess, ReturnLess, SplitLess,
     FullLess DEF lcore_main
<1>8. CASE MissDu \/ SendRu \/ MissRu \/ SendStray \/ NextFrame
  BY <1>3, <1>8, MissDuLess, SendRuLess, MissRuLess, StraySentLess, FrameLess
<1>9. CASE Spin \/ UNCHANGED vars
  BY <1>3, <1>9, NothingLess DEF Spin
<1> QED BY <1>6, <1>7, <1>8, <1>9 DEF Next

\* The places of a set of numbers, when a greater one is added.
LEMMA NthGrows ==
  ASSUME NEW S \in SUBSET Int, IsFiniteSet(S), NEW m \in Int, \A a \in S : a < m
  PROVE  /\ Cardinality(S) \in Nat /\ Cardinality(S \cup {m}) = Cardinality(S) + 1
         /\ \A i \in 1 .. Cardinality(S) : Nth(S, i) \in S /\ Nth(S \cup {m}, i) = Nth(S, i)
         /\ Nth(S \cup {m}, Cardinality(S) + 1) = m
<1>1. PICK T : T = S \cup {m}
  OBVIOUS
<1>2. m \notin S /\ T \in SUBSET Int /\ IsFiniteSet(T) /\ Cardinality(T) = Cardinality(S) + 1
      /\ Cardinality(S) \in Nat
  <2>1. m \notin S
    <3>1. ~(m < m)
      OBVIOUS
    <3> QED BY <3>1
  <2> QED BY <1>1, <2>1, FS_AddElement, FS_CardinalityType
<1>3. ASSUME NEW A \in SUBSET Int, IsFiniteSet(A), NEW b \in A
      PROVE  Nth(A, Cardinality(UpTo(A, b))) = b
  <2>1. \A c \in A : Cardinality(UpTo(A, c)) = Cardinality(UpTo(A, b)) => c = b
    BY <1>3, Ranks
  <2> QED BY <2>1 DEF Nth, UpTo
<1>4. ASSUME NEW i \in 1 .. Cardinality(S) PROVE Nth(S, i) \in S /\ Nth(T, i) = Nth(S, i)
  <2>1. PICK b \in S : Cardinality(UpTo(S, b)) = i
    BY Ranks
  <2>2. Nth(S, i) = b
    BY <1>3, <2>1
  <2>3. UpTo(T, b) = UpTo(S, b)
    <3>1. b \in Int /\ b < m /\ ~(m <= b)
      OBVIOUS
    <3> QED BY <1>1, <3>1 DEF UpTo
  <2>4. Nth(T, i) = b
    BY <1>1, <1>2, <1>3, <2>1, <2>3
  <2> QED BY <2>2, <2>4
<1>5. Nth(T, Cardinality(S) + 1) = m
  <2>1. UpTo(T, m) = T
    <3>1. m <= m /\ \A a \in S : a \in Int /\ a <= m
      OBVIOUS
    <3> QED BY <1>1, <3>1 DEF UpTo
  <2> QED BY <1>1, <1>2, <1>3, <2>1
<1> QED BY <1>1, <1>2, <1>4, <1>5

\* A sequence with one element more.
LEMMA OneMore ==
  ASSUME NEW T, NEW c \in Nat, NEW old \in Seq(T), Len(old) = c, NEW g \in T, NEW new \in Seq(T),
         Len(new) = c + 1, new[c + 1] = g, \A n \in 1 .. c : new[n] = old[n]
  PROVE  new = Append(old, g)
<1>1. PICK app : app = Append(old, g)
  OBVIOUS
<1>2. app \in Seq(T) /\ Len(app) = c + 1 /\ app[c + 1] = g /\ \A n \in 1 .. c : app[n] = old[n]
  BY <1>1, AppendProperties
<1>3. \A n \in 1 .. c + 1 : n \in 1 .. c \/ n = c + 1
  OBVIOUS
<1>4. \A n \in 1 .. Len(new) : new[n] = app[n]
  BY <1>2, <1>3
<1>5. new = app
  BY <1>2, <1>4, SeqEqual
<1> QED BY <1>1, <1>5

\* What the abstract merger delivers for a row; the places of such rows.
Sum(row) == [d \in Dus |-> AsSource(row[d])]
IsPlace(row, port) == row[0] # NULL /\ row[0].kind = "iq" /\ row[0].port = port

\* They are a finite set of numbers.
LEMMA PlacesIn ==
  ASSUME TypeOK, NEW port
  PROVE  /\ Len(to_ru) \in Nat /\ to_ru \in Seq(Rows)
         /\ IqPlaces(port) = {i \in 1 .. Len(to_ru) : IsPlace(to_ru[i], port)}
         /\ IqPlaces(port) \in SUBSET Int /\ IsFiniteSet(IqPlaces(port))
<1>1. to_ru \in Seq(Rows)
  BY DEF TypeOK
<1>2. DOMAIN to_ru = 1 .. Len(to_ru) /\ Len(to_ru) \in Nat
  BY <1>1
<1>3. IqPlaces(port) = {i \in 1 .. Len(to_ru) : IsPlace(to_ru[i], port)}
  BY <1>2 DEF IqPlaces, IsPlace
<1>4. IsFiniteSet(1 .. Len(to_ru)) /\ 1 .. Len(to_ru) \in SUBSET Int
  BY <1>2, FS_Interval
<1> QED BY <1>1, <1>2, <1>3, <1>4, FS_Subset

\* A row of downlink data that is sent is delivered last; no other counts.
LEMMA DeliveredNext ==
  ASSUME TypeOK, TypeOK', NEW row \in Rows, to_ru' = Append(to_ru, row), NEW port \in Ports
  PROVE  /\ ~IsPlace(row, port) => IqDelivered'[port] = IqDelivered[port]
         /\ IsPlace(row, port) => IqDelivered'[port] = Append(IqDelivered[port], Sum(row))
<1>1. PICK S, m : S = IqPlaces(port) /\ m = Len(to_ru) + 1
  OBVIOUS
<1>2. /\ m \in Nat /\ Len(to_ru) = m - 1 /\ to_ru \in Seq(Rows)
      /\ S = {i \in 1 .. m - 1 : IsPlace(to_ru[i], port)} /\ S \in SUBSET Int /\ IsFiniteSet(S)
  BY <1>1, PlacesIn
<1>3. /\ Len(to_ru') = m /\ to_ru'[m] = row
      /\ \A i \in 1 .. m - 1 : to_ru'[i] = to_ru[i]
      /\ \A i : i \in 1 .. m <=> i \in 1 .. m - 1 \/ i = m
      /\ \A i \in S : i < m
  <2>1. PICK n : n \in Nat /\ n = Len(to_ru) /\ m = n + 1
    BY <1>1, <1>2
  <2>2. /\ Len(Append(to_ru, row)) = n + 1 /\ Append(to_ru, row)[n + 1] = row
        /\ \A i \in 1 .. n : Append(to_ru, row)[i] = to_ru[i]
    BY <1>2, <2>1
  <2>3. m - 1 = n /\ \A i : i \in 1 .. n + 1 <=> i \in 1 .. n \/ i = n + 1
    BY <2>1
  <2>4. \A i \in S : i < m
    BY <1>2
  <2> QED BY <2>1, <2>2, <2>3, <2>4
<1>4. IqPlaces(port)' = {i \in 1 .. m : IsPlace(to_ru'[i], port)}
  <2>1. DOMAIN to_ru' = 1 .. m
    BY <1>3 DEF TypeOK
  <2> QED BY <2>1 DEF IqPlaces, IsPlace
<1>5. PICK c, S2, old, new : /\ c = Cardinality(S) /\ S2 = IqPlaces(port)'
                             /\ old = IqDelivered[port] /\ new = IqDelivered'[port]
  OBVIOUS
<1>6. /\ c \in Nat /\ Cardinality(S \cup {m}) = c + 1 /\ Nth(S \cup {m}, c + 1) = m
      /\ \A n \in 1 .. c : Nth(S, n) \in S /\ Nth(S \cup {m}, n) = Nth(S, n)
  <2>1. m \in Int /\ S \in SUBSET Int /\ IsFiniteSet(S) /\ \A i \in S : i < m
    BY <1>2, <1>3
  <2>2. /\ Cardinality(S) \in Nat /\ Cardinality(S \cup {m}) = Cardinality(S) + 1
        /\ \A i \in 1 .. Cardinality(S) : Nth(S, i) \in S /\ Nth(S \cup {m}, i) = Nth(S, i)
        /\ Nth(S \cup {m}, Cardinality(S) + 1) = m
    BY <2>1, NthGrows
  <2> QED BY <1>5, <2>2
<1>7. old = [n \in 1 .. c |-> Sum(to_ru[Nth(S, n)])]
  BY <1>1, <1>5 DEF IqDelivered, Sum
<1>8. new = [n \in 1 .. Cardinality(S2) |-> Sum(to_ru'[Nth(S2, n)])]
  <2>1. IqDelivered'[port] = [n \in 1 .. Cardinality(IqPlaces(port)') |-> Sum(to_ru'[Nth(IqPlaces(port)', n)])]
    BY DEF IqDelivered, Sum, AsSource, Nth
  <2> QED BY <1>5, <2>1
<1>9. \A n \in 1 .. c : to_ru'[Nth(S, n)] = to_ru[Nth(S, n)] /\ to_ru[Nth(S, n)] \in Rows
  <2>1. \A i \in S : to_ru'[i] = to_ru[i] /\ to_ru[i] \in Rows
    BY <1>2, <1>3
  <2> QED BY <1>6, <2>1
<1>10. CASE ~IsPlace(row, port)
  <2>1. S2 = S
    BY <1>2, <1>3, <1>4, <1>5, <1>10
  <2>2. new = [n \in 1 .. c |-> Sum(to_ru'[Nth(S, n)])]
    BY <1>5, <1>8, <2>1
  <2>3. new = old
    BY <1>7, <1>9, <2>2
  <2> QED BY <1>5, <1>10, <2>3
<1>11. CASE IsPlace(row, port)
  <2>1. S2 = S \cup {m}
    BY <1>2, <1>3, <1>4, <1>5, <1>11
  <2>2. new = [n \in 1 .. c + 1 |-> Sum(to_ru'[Nth(S \cup {m}, n)])]
    BY <1>6, <1>8, <2>1
  <2> DEFINE Sums == {Sum(r) : r \in Rows}
  <2>3. \A n \in 1 .. c + 1 : n \in 1 .. c \/ n = c + 1
    BY <1>6
  <2>4. \A n \in 1 .. c : Sum(to_ru[Nth(S, n)]) \in Sums /\ new[n] = old[n] /\ new[n] \in Sums
    <3>1. \A n \in 1 .. c : n \in 1 .. c + 1
      BY <1>6
    <3>2. \A n \in 1 .. c : new[n] = Sum(to_ru[Nth(S, n)]) /\ old[n] = Sum(to_ru[Nth(S, n)])
      BY <1>6, <1>7, <1>9, <2>2, <3>1
    <3> QED BY <1>9, <3>2
  <2>5. new[c + 1] = Sum(row) /\ Sum(row) \in Sums
    <3>1. c + 1 \in 1 .. c + 1
      BY <1>6
    <3> QED BY <1>3, <1>6, <2>2, <3>1
  <2> HIDE DEF Sums
  <2>6. old \in Seq(Sums) /\ Len(old) = c
    BY <1>6, <1>7, <2>4
  <2>7. new \in Seq(Sums) /\ Len(new) = c + 1
    <3>1. \A n \in 1 .. c + 1 : new[n] \in Sums
      BY <2>3, <2>4, <2>5
    <3>2. new = [n \in 1 .. c + 1 |-> new[n]]
      BY <2>2
    <3>3. PICK k : k = c + 1 /\ k \in Nat
      BY <1>6
    <3>4. \A n \in 1 .. k : new[n] \in Sums
      BY <3>1, <3>3
    <3>5. [n \in 1 .. k |-> new[n]] \in Seq(Sums) /\ Len([n \in 1 .. k |-> new[n]]) = k
      BY <3>3, <3>4
    <3> QED BY <3>2, <3>3, <3>5
  <2>8. new = Append(old, Sum(row))
    BY <1>6, <2>4, <2>5, <2>6, <2>7, OneMore
  <2> QED BY <1>5, <1>11, <2>8
<1> QED BY <1>10, <1>11

\* When none is sent, nothing is delivered.
LEMMA DeliveredSame == to_ru' = to_ru => IqDelivered' = IqDelivered
BY DEF IqDelivered, IqPlaces

\* Each row that was delivered is one that was sent.
LEMMA DeliveredFrom ==
  ASSUME TypeOK, NEW port \in Ports, NEW i \in DOMAIN IqDelivered[port]
  PROVE  \E j \in 1 .. Len(to_ru) : IsPlace(to_ru[j], port) /\ IqDelivered[port][i] = Sum(to_ru[j])
<1>1. PICK S, m, c : S = IqPlaces(port) /\ m = Len(to_ru) + 1 /\ c = Cardinality(S)
  OBVIOUS
<1>2. /\ Len(to_ru) \in Nat /\ S = {j \in 1 .. Len(to_ru) : IsPlace(to_ru[j], port)}
      /\ S \in SUBSET Int /\ IsFiniteSet(S)
  BY <1>1, PlacesIn
<1>3. m \in Int /\ \A j \in S : j < m
  BY <1>1, <1>2
<1>4. IqDelivered[port] = [n \in 1 .. c |-> Sum(to_ru[Nth(S, n)])]
  BY <1>1 DEF IqDelivered, Sum
<1>5. i \in 1 .. c
  BY <1>4
<1>6. Nth(S, i) \in S
  BY <1>1, <1>2, <1>3, <1>5, NthGrows
<1> QED BY <1>2, <1>4, <1>5, <1>6

\* What waits has arrived from a DU.
LEMMA SourcesAre ==
  ASSUME TypeOK, TypeOK'
  PROVE  /\ IqArrived = {AsSource(p) : p \in ArrivedIq} /\ IqArrived' = {AsSource(p) : p \in ArrivedIq'}
         /\ IqWaiting = {AsSource(p) : p \in HeldIq} /\ IqWaiting' = {AsSource(p) : p \in HeldIq'}
         /\ \A p \in Packet : AsSource(p) \in Merge!RuPacket /\ p.frame \in Int
         /\ \A q \in ArrivedIq : q \in Packet
<1>1. /\ IqArrived = {AsSource(p) : p \in ArrivedIq} /\ IqArrived' = {AsSource(p) : p \in ArrivedIq'}
      /\ IqWaiting = {AsSource(p) : p \in HeldIq} /\ IqWaiting' = {AsSource(p) : p \in HeldIq'}
  BY DEF IqArrived, ArrivedIq, IqWaiting, HeldIq, AsSource, Of
<1>2. \A p \in Packet : AsSource(p) \in Merge!RuPacket /\ p.frame \in Int
  BY SharingAssumption DEF AsSource, Merge!RuPacket, Packet, RadioFrames
<1>3. \A q \in ArrivedIq : q \in Packet
  BY ArrivedPackets DEF ArrivedIq, Of
<1> QED BY <1>1, <1>2, <1>3

\* A row of downlink data that is sent is a group, and delivered in its turn.
LEMMA RowDelivers ==
  ASSUME TypeOK, TypeOK', NEW row \in Rows, HeldIq' \subseteq HeldIq, ArrivedIq' = ArrivedIq,
         to_ru' = Append(to_ru, row), Iq(row), Goes(row)
  PROVE  Merge!MergeNext
<1>1. PICK port, key, g : port = row[0].port /\ key = row[0].symbol /\ g = Sum(row)
  OBVIOUS
<1>2. /\ 0 \in Dus /\ IqGroup(row) /\ GoneBefore(row)
      /\ \A d \in Dus : row[d] \in HeldIq
      /\ \A x \in HeldIq : x \in HeldIq' \/ \E d \in Dus : x = row[d]
      /\ \A x \in HeldIq', d \in Dus : Same(row[d], x) => row[d].frame < x.frame
  BY SharingAssumption DEF Goes, Dus
<1>3. port \in Ports /\ key \in Symbols /\ IsPlace(row, port)
  <2>1. row[0] \in Packet /\ row[0].kind = "iq" /\ row[0] # NULL
    BY <1>2, NullAssumption DEF IqGroup
  <2> QED BY <1>1, <2>1 DEF IsPlace, Packet
<1>4. \A d \in Dus : /\ g[d] = AsSource(row[d]) /\ g[d] \in IqWaiting /\ row[d] \in Packet
                     /\ g[d].ru = d /\ g[d].port = port /\ g[d].key = key /\ g[d].frame = row[d].frame
  BY <1>1, <1>2, SourcesAre DEF Sum, IqGroup, AsSource
<1>5. g \in [Dus -> IqWaiting]
  BY <1>1, <1>4 DEF Sum
<1>6. Merge!IsGroup(g, port, key)
  BY <1>4 DEF Merge!IsGroup
<1>7. ASSUME NEW i \in DOMAIN IqDelivered[port], Merge!IsGroup(IqDelivered[port][i], port, key)
      PROVE  Merge!LaterThan(g, IqDelivered[port][i])
  <2>1. PICK j \in 1 .. Len(to_ru) : IsPlace(to_ru[j], port) /\ IqDelivered[port][i] = Sum(to_ru[j])
    BY <1>3, DeliveredFrom
  <2>2. IqGroup(to_ru[j]) /\ Before(to_ru[j], row)
    <3>1. Iq(to_ru[j])
      BY <1>2, <2>1 DEF IsPlace, Iq, IsIq
    <3> QED BY <1>2, <3>1 DEF GoneBefore
  <2>3. to_ru[j][0].port = port /\ to_ru[j][0].symbol = key
    <3>1. Sum(to_ru[j])[0].key = key
      BY <1>2, <1>7, <2>1 DEF Merge!IsGroup
    <3> QED BY <1>2, <2>1, <3>1 DEF IsPlace, Sum, AsSource
  <2>4. ASSUME NEW d \in Dus PROVE g[d].frame > IqDelivered[port][i][d].frame
    <3>1. to_ru[j][d].frame < row[d].frame
      BY <1>1, <2>2, <2>3 DEF Before
    <3>2. IqDelivered[port][i][d].frame = to_ru[j][d].frame
      BY <2>1 DEF Sum, AsSource
    <3>3. to_ru[j][d].frame \in Int /\ row[d].frame \in Int
      BY <1>4, <2>2, SourcesAre DEF IqGroup
    <3> QED BY <1>4, <3>1, <3>2, <3>3
  <2> QED BY <2>4 DEF Merge!LaterThan
<1>8. IqDelivered' = [IqDelivered EXCEPT ![port] = Append(@, g)]
  <2>1. IqDelivered'[port] = Append(IqDelivered[port], g)
    BY <1>1, <1>3, DeliveredNext
  <2>2. \A other \in Ports \ {port} : IqDelivered'[other] = IqDelivered[other]
    BY <1>1, DeliveredNext DEF IsPlace
  <2>3. IqDelivered' = [other \in Ports |-> IqDelivered'[other]]
        /\ IqDelivered = [other \in Ports |-> IqDelivered[other]]
    BY DEF IqDelivered
  <2> QED BY <2>1, <2>2, <2>3
<1>9. IqWaiting' = IqWaiting \ {g[d] : d \in Dus}
  <2>1. ASSUME NEW x \in HeldIq', NEW d \in Dus PROVE AsSource(x) # g[d]
    <3> SUFFICES ASSUME AsSource(x) = AsSource(row[d]) PROVE FALSE
      BY <1>4
    <3>1. Same(row[d], x) /\ row[d].frame = x.frame
      BY DEF Same, AsSource
    <3>2. row[d].frame \in Int
      BY <1>4, SourcesAre
    <3> QED BY <1>2, <3>1, <3>2
  <2>2. \A x \in HeldIq : x \in HeldIq' \/ \E d \in Dus : AsSource(x) = g[d]
    BY <1>2, <1>4
  <2>3. IqWaiting = {AsSource(p) : p \in HeldIq} /\ IqWaiting' = {AsSource(p) : p \in HeldIq'}
    BY SourcesAre
  <2>4. ASSUME NEW y \in IqWaiting' PROVE y \in IqWaiting \ {g[d] : d \in Dus}
    BY <2>1, <2>3, <2>4
  <2>5. ASSUME NEW y \in IqWaiting \ {g[d] : d \in Dus} PROVE y \in IqWaiting'
    BY <2>2, <2>3, <2>5
  <2> QED BY <2>4, <2>5
<1>10. IqArrived' = IqArrived
  BY SourcesAre
<1>11. Merge!Deliver(port, key, g)
  BY <1>4, <1>6, <1>7, <1>8, <1>9, <1>10 DEF Merge!Deliver
<1> QED BY <1>3, <1>5, <1>11 DEF Merge!MergeNext

\* Whatever the thread, the DUs, the RU and the network do is a step of the
\* abstract merger, or none.
LEMMA ViewRefines ==
  ASSUME TypeOK, TypeOK', View
  PROVE  [Merge!MergeNext]_(Merge!mvars)
<1>1. Merge!mvars = <<IqArrived, IqWaiting, IqDelivered>>
  BY DEF Merge!mvars
<1>2. ASSUME HeldIq' \subseteq HeldIq, ArrivedIq' = ArrivedIq, IqDelivered' = IqDelivered
      PROVE  [Merge!MergeNext]_(Merge!mvars)
  <2>1. IqWaiting' \subseteq IqWaiting /\ IqArrived' = IqArrived
    BY <1>2, SourcesAre
  <2>2. CASE IqWaiting' = IqWaiting
    BY <1>1, <1>2, <2>1, <2>2 DEF Merge!mvars
  <2>3. CASE IqWaiting' # IqWaiting
    <3>1. PICK S \in SUBSET IqWaiting : S # {} /\ IqWaiting' = IqWaiting \ S
      <4>1. IqWaiting' = IqWaiting \ (IqWaiting \ IqWaiting') /\ IqWaiting \ IqWaiting' # {}
        BY <2>1, <2>3
      <4> QED BY <4>1
    <3>2. Merge!Discard(S)
      BY <1>2, <2>1, <3>1 DEF Merge!Discard
    <3> QED BY <3>2 DEF Merge!MergeNext
  <2> QED BY <2>2, <2>3
<1>3. CASE GivenUp
  BY <1>2, <1>3, DeliveredSame DEF GivenUp
<1>4. CASE OneCame
  <2>1. PICK p \in Packet :
          /\ p.kind = "iq" /\ ArrivedIq' = ArrivedIq \cup {p} /\ HeldIq' = HeldIq \cup {p} /\ to_ru' = to_ru
          /\ \A q \in ArrivedIq : Same(q, p) => q.frame < p.frame
    BY <1>4 DEF OneCame
  <2>2. AsSource(p) \notin IqArrived
    <3> SUFFICES ASSUME NEW q \in ArrivedIq, AsSource(q) = AsSource(p) PROVE FALSE
      BY SourcesAre
    <3>1. Same(q, p) /\ q.frame = p.frame /\ p.frame \in Int
      BY <2>1, SourcesAre DEF Same, AsSource
    <3> QED BY <2>1, <3>1
  <2>3. IqArrived' = IqArrived \cup {AsSource(p)} /\ IqWaiting' = IqWaiting \cup {AsSource(p)}
    BY <2>1, SourcesAre
  <2>4. Merge!Receive(AsSource(p))
    BY <2>1, <2>2, <2>3, DeliveredSame DEF Merge!Receive
  <2> QED BY <2>4, SourcesAre DEF Merge!MergeNext
<1>5. CASE RowSent
  <2>1. PICK row \in Rows :
          /\ HeldIq' \subseteq HeldIq /\ ArrivedIq' = ArrivedIq /\ to_ru' = Append(to_ru, row)
          /\ Iq(row) => Goes(row)
    BY <1>5 DEF RowSent
  <2>2. CASE Iq(row)
    BY <2>1, <2>2, RowDelivers
  <2>3. CASE ~Iq(row)
    <3>1. \A port \in Ports : ~IsPlace(row, port)
      BY <2>3, SharingAssumption DEF IsPlace, Iq, IsIq, Dus
    <3>2. \A port \in Ports : IqDelivered'[port] = IqDelivered[port]
      BY <2>1, <3>1, DeliveredNext
    <3>3. IqDelivered' = [port \in Ports |-> IqDelivered'[port]] /\ IqDelivered = [port \in Ports |-> IqDelivered[port]]
      BY DEF IqDelivered
    <3>4. IqDelivered' = IqDelivered
      BY <3>2, <3>3
    <3> QED BY <1>2, <2>1, <3>4
  <2> QED BY <2>2, <2>3
<1> QED BY <1>3, <1>4, <1>5 DEF View

\* At the start nothing has arrived.
LEMMA InitRefines == Init => Merge!MergeInit /\ WaitInv /\ OrderInv
<1> SUFFICES ASSUME Init PROVE Merge!MergeInit /\ WaitInv /\ OrderInv
  OBVIOUS
<1>1. TypeOK /\ Inv
  BY InitInv DEF Inv
<1>2. \A k \in Keys, d \in Dus : cached_du_packets[k][d] = NULL
  BY DEF Init, EmptyRow
<1>3. SentInv /\ CachedAt
  BY <1>2 DEF Init, SentInv, CachedAt
<1>4. \A c : ~Holding(c)
  BY <1>2 DEF Init, Holding, Received, Cached, In, InRow
<1>5. OnePending /\ Pending = {}
  BY <1>4 DEF OnePending, Pending
<1>6. mx_tx_bufs = <<>> /\ to_ru = <<>> /\ Len(Coming) = 0
  BY <1>1, ComingIs DEF Init
<1>7. OrderInv
  BY <1>6 DEF OrderInv, InOrder
<1>8. ArrivedIq = {} /\ IqArrived = {}
  <2>1. Arrived = {}
    <3>1. 0 .. frame - 1 = {} /\ sent = {}
      BY DEF Init
    <3>2. UNION {DuPackets(f) : f \in 0 .. frame - 1} = {}
      BY <3>1
    <3> QED BY <3>1, <3>2 DEF Arrived
  <2> QED BY <2>1 DEF ArrivedIq, IqArrived, Of
<1>9. IqWaiting = {}
  <2>1. \A x : ~ToGo(x)
    BY <1>6 DEF ToGo
  <2>2. HeldIq = {}
    BY <1>1, <1>3, <1>5, <2>1, HeldIqNow DEF HeldIqIs
  <2> QED BY <2>2 DEF IqWaiting, HeldIq
<1>10. IqDelivered = [port \in Ports |-> <<>>]
  <2>1. ASSUME NEW port \in Ports PROVE IqDelivered[port] = <<>>
    <3>1. Cardinality(IqPlaces(port)) = 0
      BY <1>6, FS_EmptySet DEF IqPlaces
    <3> QED BY <3>1 DEF IqDelivered
  <2>2. IqDelivered = [port \in Ports |-> IqDelivered[port]]
    BY DEF IqDelivered
  <2> QED BY <2>1, <2>2
<1> QED BY <1>3, <1>5, <1>7, <1>8, <1>9, <1>10 DEF Merge!MergeInit, WaitInv

\* Every packet of downlink data that the RU gets is put together from one
\* packet of each DU for one port and symbol, none is used twice, and each DU's
\* are used in the order of their frames: whatever the thread, the DUs, the RU
\* and the network do is a step of FronthaulMerge or none, in both builds and
\* for any number of DUs, ports, symbols and mbufs.
THEOREM SharingRefinesMerge == Spec => RefinesMerge
<1>1. Inv /\ Inv' /\ WaitInv /\ OrderInv /\ [Next]_vars =>
        (WaitInv /\ OrderInv)' /\ [Merge!MergeNext]_(Merge!mvars)
  <2> SUFFICES ASSUME Inv, Inv', WaitInv, OrderInv, [Next]_vars
               PROVE  (WaitInv /\ OrderInv)' /\ [Merge!MergeNext]_(Merge!mvars)
    OBVIOUS
  <2>1. WaitInv' /\ OrderInv' /\ View
    BY StepViewed
  <2>2. TypeOK /\ TypeOK'
    BY DEF Inv
  <2>3. [Merge!MergeNext]_(Merge!mvars)
    BY <2>1, <2>2, ViewRefines
  <2> QED BY <2>1, <2>3
<1> QED BY <1>1, InvAlways, InitRefines, PTL DEF Spec, RefinesMerge, Merge!MergeSpec
=============================================================================
