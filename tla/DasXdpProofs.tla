---------------------------- MODULE DasXdpProofs ----------------------------
(***************************************************************************)
(* Proofs about the AF_XDP middlebox (DasXdp), for any number of RUs up to *)
(* the number of sockets, any sizes of rings and batches, and any losses.  *)
(***************************************************************************)
EXTENDS DasXdp, FiniteSetTheorems, SequenceTheorems, TLAPS

-----------------------------------------------------------------------------
(* Sequences as places                                                     *)

InSeq(q, x) == \E i \in 1 .. Len(q) : q[i] = x
Once(q) == \A i, j \in 1 .. Len(q) : q[i] = q[j] => i = j
Apart(q, w) == \A x : ~(InSeq(q, x) /\ InSeq(w, x))

LEMMA ElementsIn ==
  ASSUME NEW U, NEW q \in Seq(U), NEW x, InSeq(q, x)
  PROVE  x \in U
BY DEF InSeq

LEMMA Joined ==
  ASSUME NEW U, NEW q \in Seq(U), NEW w \in Seq(U), Once(q), Once(w), Apart(q, w)
  PROVE  /\ q \o w \in Seq(U) /\ Len(q \o w) = Len(q) + Len(w) /\ Once(q \o w)
         /\ \A x : InSeq(q \o w, x) <=> InSeq(q, x) \/ InSeq(w, x)
<1>1. PICK m \in Nat, n \in Nat : m = Len(q) /\ n = Len(w)
  OBVIOUS
<1>2. PICK u : u = q \o w
  OBVIOUS
<1>3. /\ Len(u) = m + n
      /\ \A i \in 1 .. m : u[i] = q[i]
      /\ \A i \in 1 .. n : u[m + i] = w[i]
  BY <1>1, <1>2
<1>4. \A i \in 1 .. m + n : i \in 1 .. m \/ \E j \in 1 .. n : i = m + j
  <2> SUFFICES ASSUME NEW i \in 1 .. m + n, i \notin 1 .. m
               PROVE  \E j \in 1 .. n : i = m + j
    OBVIOUS
  <2>1. i - m \in 1 .. n /\ i = m + (i - m)
    OBVIOUS
  <2> QED BY <2>1
<1>5. \A i \in 1 .. m : i \in 1 .. m + n
  OBVIOUS
<1>6. \A i \in 1 .. n : m + i \in 1 .. m + n
  OBVIOUS
<1>7. \A x : InSeq(u, x) <=> InSeq(q, x) \/ InSeq(w, x)
  <2>1. ASSUME NEW x, NEW i \in 1 .. m + n, u[i] = x
        PROVE  InSeq(q, x) \/ InSeq(w, x)
    BY <1>1, <1>3, <1>4, <2>1 DEF InSeq
  <2>2. ASSUME NEW x, NEW i \in 1 .. m, q[i] = x
        PROVE  InSeq(u, x)
    BY <1>3, <1>5, <2>2 DEF InSeq
  <2>3. ASSUME NEW x, NEW i \in 1 .. n, w[i] = x
        PROVE  InSeq(u, x)
    BY <1>3, <1>6, <2>3 DEF InSeq
  <2> QED BY <1>1, <1>3, <2>1, <2>2, <2>3 DEF InSeq
<1>8. Once(u)
  <2> SUFFICES ASSUME NEW i \in 1 .. m + n, NEW j \in 1 .. m + n, u[i] = u[j]
               PROVE  i = j
    BY <1>3 DEF Once
  <2>1. CASE i \in 1 .. m /\ j \in 1 .. m
    BY <1>1, <1>3, <2>1 DEF Once
  <2>2. ASSUME NEW k \in 1 .. n, NEW l \in 1 .. n, i = m + k, j = m + l
        PROVE  i = j
    <3>1. w[k] = w[l]
      BY <1>3, <2>2
    <3>2. k = l
      BY <1>1, <3>1 DEF Once
    <3> QED BY <2>2, <3>2
  <2>3. ASSUME NEW k \in 1 .. m, NEW l \in 1 .. n, u[k] = u[m + l]
        PROVE  FALSE
    <3>1. InSeq(q, u[k]) /\ InSeq(w, u[k])
      BY <1>1, <1>3, <2>3 DEF InSeq
    <3> QED BY <3>1 DEF Apart
  <2> QED BY <1>4, <2>1, <2>2, <2>3
<1>9. q \o w \in Seq(U)
  OBVIOUS
<1> QED BY <1>1, <1>2, <1>3, <1>7, <1>8, <1>9

LEMMA Cut ==
  ASSUME NEW U, NEW q \in Seq(U), NEW n \in 0 .. Len(q)
  PROVE  LET a == SubSeq(q, 1, n)
             b == SubSeq(q, n + 1, Len(q))
         IN  /\ a \in Seq(U) /\ b \in Seq(U) /\ Len(a) = n /\ Len(b) = Len(q) - n
             /\ \A x : InSeq(q, x) <=> InSeq(a, x) \/ InSeq(b, x)
             /\ Once(q) => Once(a) /\ Once(b) /\ Apart(a, b)
<1> DEFINE a == SubSeq(q, 1, n)
           b == SubSeq(q, n + 1, Len(q))
<1>1. PICK l \in Nat : l = Len(q) /\ n \in 0 .. l
  OBVIOUS
<1>2. PICK c : c \in Seq(U) /\ c = a /\ Len(c) = n /\ \A i \in 1 .. n : c[i] = q[i]
  <2>1. a \in Seq(U) /\ Len(a) = n /\ \A i \in 1 .. n : a[i] = q[i]
    BY <1>1
  <2> QED BY <2>1
<1>3. PICK d : d \in Seq(U) /\ d = b /\ Len(d) = l - n /\ \A i \in 1 .. l - n : d[i] = q[i + n]
  <2>1. b \in Seq(U) /\ Len(b) = l - n /\ \A i \in 1 .. l - n : b[i] = q[i + n]
    BY <1>1
  <2> QED BY <2>1
<1> HIDE DEF a, b
<1>4. /\ \A i \in 1 .. n : i \in 1 .. l
      /\ \A i \in 1 .. l - n : i + n \in 1 .. l /\ i + n \notin 1 .. n
      /\ \A i \in 1 .. l : i \in 1 .. n \/ (i - n \in 1 .. l - n /\ (i - n) + n = i)
  BY <1>1
<1>5. \A x : InSeq(q, x) <=> InSeq(c, x) \/ InSeq(d, x)
  <2> SUFFICES ASSUME NEW x PROVE InSeq(q, x) <=> InSeq(c, x) \/ InSeq(d, x)
    OBVIOUS
  <2>1. ASSUME NEW i \in 1 .. l, q[i] = x PROVE InSeq(c, x) \/ InSeq(d, x)
    <3>1. CASE i \in 1 .. n
      BY <1>2, <2>1, <3>1 DEF InSeq
    <3>2. CASE i \notin 1 .. n
      <4>1. i - n \in 1 .. l - n /\ d[i - n] = x
        BY <1>3, <1>4, <2>1, <3>2
      <4> QED BY <1>3, <4>1 DEF InSeq
    <3> QED BY <3>1, <3>2
  <2>2. InSeq(c, x) => InSeq(q, x)
    BY <1>1, <1>2, <1>4 DEF InSeq
  <2>3. ASSUME NEW i \in 1 .. l - n, d[i] = x PROVE InSeq(q, x)
    BY <1>1, <1>3, <1>4, <2>3 DEF InSeq
  <2> QED BY <1>1, <1>3, <2>1, <2>2, <2>3 DEF InSeq
<1>6. ASSUME Once(q) PROVE Once(c) /\ Once(d) /\ Apart(c, d)
  <2>1. \A i, j \in 1 .. l : q[i] = q[j] => i = j
    BY <1>1, <1>6 DEF Once
  <2>2. ASSUME NEW i \in 1 .. n, NEW j \in 1 .. n, c[i] = c[j] PROVE i = j
    BY <1>2, <1>4, <2>1, <2>2
  <2>3. ASSUME NEW i \in 1 .. l - n, NEW j \in 1 .. l - n, d[i] = d[j] PROVE i = j
    <3>1. i + n = j + n
      BY <1>3, <1>4, <2>1, <2>3
    <3> QED BY <3>1
  <2>4. ASSUME NEW i \in 1 .. n, NEW j \in 1 .. l - n, c[i] = d[j] PROVE FALSE
    <3>1. i = j + n
      BY <1>2, <1>3, <1>4, <2>1, <2>4
    <3> QED BY <1>4, <3>1
  <2> QED BY <1>2, <1>3, <2>2, <2>3, <2>4 DEF Once, Apart, InSeq
<1> QED BY <1>1, <1>2, <1>3, <1>5, <1>6 DEF a, b

LEMMA Popped ==
  ASSUME NEW U, NEW q \in Seq(U), q # <<>>, Once(q)
  PROVE  /\ Head(q) \in U /\ InSeq(q, Head(q))
         /\ Tail(q) \in Seq(U) /\ Len(Tail(q)) = Len(q) - 1 /\ Once(Tail(q))
         /\ \A x : InSeq(Tail(q), x) <=> InSeq(q, x) /\ x # Head(q)
<1>1. PICK l \in Nat : l = Len(q) /\ l # 0
  OBVIOUS
<1>2. PICK t : /\ t \in Seq(U) /\ t = Tail(q) /\ Len(t) = l - 1
               /\ \A i \in 1 .. l - 1 : t[i] = q[i + 1]
  <2>1. /\ Tail(q) \in Seq(U) /\ Len(Tail(q)) = l - 1
        /\ \A i \in 1 .. l - 1 : Tail(q)[i] = q[i + 1]
    BY <1>1
  <2> QED BY <2>1
<1>3. Head(q) = q[1] /\ 1 \in 1 .. l
  BY <1>1
<1>4. /\ \A i \in 1 .. l - 1 : i + 1 \in 1 .. l /\ i + 1 # 1
      /\ \A i \in 1 .. l : i = 1 \/ (i - 1 \in 1 .. l - 1 /\ (i - 1) + 1 = i)
      /\ \A i, j \in 1 .. l : q[i] = q[j] => i = j
  BY <1>1 DEF Once
<1>5. \A i, j \in 1 .. l - 1 : t[i] = t[j] => i = j
  <2> SUFFICES ASSUME NEW i \in 1 .. l - 1, NEW j \in 1 .. l - 1, t[i] = t[j] PROVE i = j
    OBVIOUS
  <2>1. i + 1 = j + 1
    BY <1>2, <1>4
  <2> QED BY <2>1
<1>6. ASSUME NEW x PROVE InSeq(t, x) <=> InSeq(q, x) /\ x # Head(q)
  <2>1. ASSUME NEW i \in 1 .. l - 1, t[i] = x PROVE InSeq(q, x) /\ x # Head(q)
    BY <1>1, <1>2, <1>3, <1>4, <2>1 DEF InSeq
  <2>2. ASSUME NEW i \in 1 .. l, q[i] = x, x # Head(q) PROVE InSeq(t, x)
    <3>1. i - 1 \in 1 .. l - 1 /\ t[i - 1] = x
      BY <1>2, <1>3, <1>4, <2>2
    <3> QED BY <1>2, <3>1 DEF InSeq
  <2> QED BY <1>1, <1>2, <2>1, <2>2 DEF InSeq
<1> QED BY <1>1, <1>2, <1>3, <1>5, <1>6 DEF InSeq, Once

LEMMA One ==
  ASSUME NEW U, NEW x \in U
  PROVE  <<x>> \in Seq(U) /\ Len(<<x>>) = 1 /\ Once(<<x>>) /\ \A y : InSeq(<<x>>, y) <=> y = x
BY DEF InSeq, Once

LEMMA None ==
  ASSUME NEW U
  PROVE  <<>> \in Seq(U) /\ Len(<<>>) = 0 /\ Once(<<>>) /\ \A y : ~InSeq(<<>>, y)
BY DEF InSeq, Once

LEMMA Added ==
  ASSUME NEW U, NEW q \in Seq(U), NEW x \in U, Once(q), ~InSeq(q, x)
  PROVE  /\ Append(q, x) \in Seq(U) /\ Len(Append(q, x)) = Len(q) + 1 /\ Once(Append(q, x))
         /\ \A y : InSeq(Append(q, x), y) <=> InSeq(q, y) \/ y = x
<1>1. Append(q, x) = q \o <<x>>
  OBVIOUS
<1>2. Apart(q, <<x>>)
  BY One DEF Apart
<1>3. PICK w : w = <<x>> /\ w \in Seq(U) /\ Len(w) = 1 /\ Once(w) /\ \A y : InSeq(w, y) <=> y = x
  BY One
<1>4. /\ q \o w \in Seq(U) /\ Len(q \o w) = Len(q) + Len(w) /\ Once(q \o w)
      /\ \A y : InSeq(q \o w, y) <=> InSeq(q, y) \/ InSeq(w, y)
  BY <1>2, <1>3, Joined
<1> QED BY <1>1, <1>3, <1>4

\* A sequence of distinct elements of a finite set is no longer than the set is
\* large.
LEMMA NoLonger ==
  ASSUME NEW U, IsFiniteSet(U), NEW q \in Seq(U), Once(q)
  PROVE  Len(q) <= Cardinality(U)
<1>1. Len(q) \in Nat /\ q \in [1 .. Len(q) -> U]
  OBVIOUS
<1>2. q \in Injection(1 .. Len(q), U)
  BY <1>1 DEF Once, Injection, IsInjective
<1>3. Cardinality(1 .. Len(q)) = Len(q)
  BY <1>1, FS_Interval
<1>4. Cardinality(1 .. Len(q)) <= Cardinality(U)
  BY <1>2, FS_Injection DEF ExistsInjection
<1> QED BY <1>3, <1>4

-----------------------------------------------------------------------------
(* Where the frames of the UMEM are                                        *)

\* TypeOK, with the socket a frame belongs to.
TypeInv ==
  /\ TypeOK
  /\ \A r \in Rus : /\ fq[r] \in Seq(Umem(r)) /\ rx[r] \in Seq(Umem(r))
                    /\ frags_to_be_freed[r] \in Seq(Umem(r))
  /\ pkt_frags \in Seq(Umem(socket_to_process))
  /\ tx \in Seq(Umem(0)) /\ cq \in Seq(Umem(0)) /\ frags_to_be_sent \in Seq(Umem(0))
  /\ \A s \in Slots, r \in Rus : cached_packets[s][r] \in Umem(r) \cup {NULL}

\* The packets of a row are counted, and never all there.
FilledBy(row) == {r \in Rus : row[r] # NULL}
CountInv == \A s \in Slots :
  cached_packets_num[s] = Cardinality(FilledBy(cached_packets[s]))

\* A frame is in one place at most, and once there.  Frames of socket 0 may be
\* gone.
Places == {"fq", "rx", "batch", "freed", "sums", "tx", "cq", "cache", "gone"}
CachedAt(f) == \E s \in Slots : cached_packets[s][f[1]] = f
PlacedBy(w) == \A f \in UmemFrames :
  /\ w[f] = "fq" <=> InSeq(fq[f[1]], f)
  /\ w[f] = "rx" <=> InSeq(rx[f[1]], f)
  /\ w[f] = "batch" <=> InSeq(pkt_frags, f)
  /\ w[f] = "freed" <=> InSeq(frags_to_be_freed[f[1]], f)
  /\ w[f] = "sums" <=> InSeq(frags_to_be_sent, f)
  /\ w[f] = "tx" <=> InSeq(tx, f)
  /\ w[f] = "cq" <=> InSeq(cq, f)
  /\ w[f] = "cache" <=> CachedAt(f)
  /\ w[f] = "gone" => f \in Umem(0)
PlacesInv == \E w \in [UmemFrames -> Places] : PlacedBy(w)

OnceInv ==
  /\ \A r \in Rus : Once(fq[r]) /\ Once(rx[r]) /\ Once(frags_to_be_freed[r])
  /\ Once(pkt_frags) /\ Once(frags_to_be_sent) /\ Once(tx) /\ Once(cq)
  /\ \A s, t \in Slots, r \in Rus :
       cached_packets[s][r] # NULL /\ cached_packets[s][r] = cached_packets[t][r] => s = t

\* Each packet of a batch adds one frame at most to each list.
BatchInv ==
  /\ pc # "frags" => pkt_frags = <<>> /\ frags_to_be_freed = Nothing
  /\ pc \in {"poll", "reap"} => frags_to_be_sent = <<>>
  /\ \A r \in Rus : Len(frags_to_be_freed[r]) + Len(pkt_frags) <= BATCH_SIZE
  /\ Len(frags_to_be_sent) + Len(pkt_frags) <= BATCH_SIZE

FramesInv == TypeInv /\ CountInv /\ PlacesInv /\ OnceInv /\ BatchInv /\ alive

-----------------------------------------------------------------------------
(* Its parts                                                               *)

LEMMA Sockets ==
  /\ NumRus \in Nat /\ 0 \in Rus /\ \A r \in Rus : r \in Nat
  /\ IsFiniteSet(Rus) /\ Cardinality(Rus) = NumRus
<1>1. NumRus \in Nat /\ NumRus >= 1
  BY XdpAssumption DEF NUM_SOCKETS
<1>2. Rus = 0 .. NumRus - 1
  BY DEF Rus
<1>3. 0 \in Rus /\ \A r \in Rus : r \in Nat
  BY <1>1, <1>2
<1>4. IsFiniteSet(0 .. NumRus - 1) /\ Cardinality(0 .. NumRus - 1) = NumRus
  BY <1>1, FS_Interval
<1> QED BY <1>1, <1>2, <1>3, <1>4

LEMMA UmemOf ==
  /\ \A r \in Rus : Umem(r) \subseteq UmemFrames
  /\ \A r \in Rus : \A f \in Umem(r) : f[1] = r /\ f # NULL
  /\ \A f \in UmemFrames : f[1] \in Rus /\ f \in Umem(f[1])
  /\ \A r \in Rus : IsFiniteSet(Umem(r)) /\ Cardinality(Umem(r)) = RING_SIZE
<1>1. /\ \A r \in Rus : Umem(r) \subseteq UmemFrames
      /\ \A r \in Rus : \A f \in Umem(r) : f[1] = r
      /\ \A f \in UmemFrames : f[1] \in Rus /\ f \in Umem(f[1])
  BY DEF Umem, UmemFrames
<1>2. \A r \in Rus : \A f \in Umem(r) : f # NULL
  BY <1>1, XdpAssumption
<1>3. ASSUME NEW r \in Rus
      PROVE  IsFiniteSet(Umem(r)) /\ Cardinality(Umem(r)) = RING_SIZE
  <2>1. RING_SIZE \in Nat
    BY XdpAssumption
  <2>2. IsFiniteSet(1 .. RING_SIZE) /\ Cardinality(1 .. RING_SIZE) = RING_SIZE
    BY <2>1, FS_Interval
  <2>3. IsFiniteSet({r}) /\ Cardinality({r}) = 1
    BY FS_Singleton
  <2>4. /\ IsFiniteSet({r} \X (1 .. RING_SIZE))
        /\ Cardinality({r} \X (1 .. RING_SIZE)) = Cardinality({r}) * Cardinality(1 .. RING_SIZE)
    BY <2>2, <2>3, FS_Product
  <2> QED BY <2>1, <2>2, <2>3, <2>4 DEF Umem
<1> QED BY <1>1, <1>2, <1>3

\* A ring has room for frames of its socket that are in one place.
LEMMA RingHasRoom ==
  ASSUME NEW r \in Rus, NEW q \in Seq(Umem(r)), Once(q)
  PROVE  Len(q) <= RING_SIZE
BY UmemOf, NoLonger

LEMMA FilledFinite ==
  ASSUME NEW row
  PROVE  /\ IsFiniteSet(FilledBy(row)) /\ Cardinality(FilledBy(row)) \in Nat
         /\ FilledBy(row) \subseteq Rus
<1>1. FilledBy(row) \subseteq Rus
  BY DEF FilledBy
<1>2. IsFiniteSet(FilledBy(row))
  BY <1>1, Sockets, FS_Subset
<1> QED BY <1>1, <1>2, FS_CardinalityType

\* The row and its count when a packet has arrived in frame f.
LEMMA RowAndCount ==
  ASSUME TypeInv, CountInv, NEW s \in Slots, NEW r \in Rus, NEW f \in Umem(r)
  PROVE  /\ RowWith(s, r, f) \in [Rus -> UmemFrames \cup {NULL}]
         /\ \A q \in Rus : RowWith(s, r, f)[q] =
              IF q = r THEN f ELSE IF Occupied(s, r) THEN NULL ELSE cached_packets[s][q]
         /\ CountWith(s, r) = Cardinality(FilledBy(RowWith(s, r, f)))
         /\ CountWith(s, r) \in 1 .. NumRus
         /\ Complete(s, r) <=> \A q \in Rus : RowWith(s, r, f)[q] # NULL
<1> DEFINE old == IF Occupied(s, r) THEN EmptyRow ELSE cached_packets[s]
           row == RowWith(s, r, f)
<1>1. /\ old \in [Rus -> UmemFrames \cup {NULL}] /\ old[r] = NULL
      /\ \A q \in Rus : old[q] = IF Occupied(s, r) THEN NULL ELSE cached_packets[s][q]
  BY DEF TypeInv, TypeOK, EmptyRow, Occupied
<1>2. row = [old EXCEPT ![r] = f]
  BY DEF RowWith
<1>3. f \in UmemFrames /\ f # NULL
  BY UmemOf
<1> HIDE DEF old, row
<1>4. /\ row \in [Rus -> UmemFrames \cup {NULL}]
      /\ \A q \in Rus : row[q] = IF q = r THEN f ELSE old[q]
  BY <1>1, <1>2, <1>3
<1>5. FilledBy(row) = FilledBy(old) \cup {r} /\ r \notin FilledBy(old)
  BY <1>1, <1>3, <1>4 DEF FilledBy
<1>6. Cardinality(FilledBy(row)) = Cardinality(FilledBy(old)) + 1
  <2>1. IsFiniteSet(FilledBy(old))
    BY FilledFinite
  <2> QED BY <1>5, <2>1, FS_AddElement
<1>7. CountWith(s, r) = Cardinality(FilledBy(old)) + 1
  <2>1. CASE Occupied(s, r)
    <3>1. FilledBy(old) = {}
      BY <1>1, <2>1 DEF FilledBy
    <3>2. Cardinality(FilledBy(old)) = 0
      BY <3>1, FS_EmptySet
    <3> QED BY <2>1, <3>2 DEF CountWith
  <2>2. CASE ~Occupied(s, r)
    <3>1. old = cached_packets[s]
      BY <2>2 DEF old
    <3>2. cached_packets_num[s] = Cardinality(FilledBy(old))
      BY <3>1 DEF CountInv
    <3>3. Cardinality(FilledBy(old)) \in Nat
      BY FilledFinite
    <3> QED BY <2>2, <3>2, <3>3 DEF CountWith
  <2> QED BY <2>1, <2>2
<1>8. Cardinality(FilledBy(row)) <= NumRus /\ (FilledBy(row) = Rus <=> Cardinality(FilledBy(row)) = NumRus)
  BY FilledFinite, Sockets, FS_Subset
<1>9. Cardinality(FilledBy(old)) \in Nat /\ Cardinality(FilledBy(row)) \in Nat
  BY FilledFinite
<1>10. CountWith(s, r) = Cardinality(FilledBy(row)) /\ CountWith(s, r) \in 1 .. NumRus
  BY <1>6, <1>7, <1>8, <1>9, Sockets
<1>11. Complete(s, r) <=> \A q \in Rus : row[q] # NULL
  BY <1>8, <1>10 DEF Complete, FilledBy
<1> QED BY <1>1, <1>4, <1>10, <1>11 DEF row

\* The one RU of a middlebox has nothing in the cache.
LEMMA EvictsBeforeComplete ==
  ASSUME TypeInv, CountInv, NEW s \in Slots, NEW r \in Rus, Occupied(s, r)
  PROVE  ~Complete(s, r)
<1>1. cached_packets_num[s] = Cardinality(FilledBy(cached_packets[s])) /\ cached_packets_num[s] < NumRus
  BY Sockets DEF CountInv, TypeInv, TypeOK
<1>2. r \in FilledBy(cached_packets[s])
  BY DEF Occupied, FilledBy
<1>3. Cardinality(FilledBy(cached_packets[s])) # 0
  BY <1>2, FilledFinite, FS_EmptySet
<1>4. Cardinality(FilledBy(cached_packets[s])) \in Nat
  BY FilledFinite
<1> QED BY <1>1, <1>3, <1>4, Sockets DEF Complete, CountWith

-----------------------------------------------------------------------------
(* They stay so                                                            *)

LEMMA EmptyOnce == Once(<<>>) /\ \A x : ~InSeq(<<>>, x)
BY DEF Once, InSeq

LEMMA FramesInit == Init => FramesInv
<1> SUFFICES ASSUME Init PROVE FramesInv
  OBVIOUS
<1>1. RING_SIZE \in Nat /\ BATCH_SIZE \in Nat /\ MaxFrame \in Nat
  BY XdpAssumption
<1>2. ASSUME NEW r \in Rus
      PROVE  /\ fq[r] \in Seq(Umem(r)) /\ Once(fq[r])
             /\ \A f \in Umem(r) : InSeq(fq[r], f)
  <2>1. fq[r] = [i \in 1 .. RING_SIZE |-> <<r, i>>]
    BY DEF Init
  <2>2. \A i \in 1 .. RING_SIZE : <<r, i>> \in Umem(r)
    BY DEF Umem
  <2>3. fq[r] \in Seq(Umem(r)) /\ Len(fq[r]) = RING_SIZE
    BY <1>1, <2>1, <2>2
  <2>4. Once(fq[r])
    <3>1. \A i \in 1 .. RING_SIZE : fq[r][i] = <<r, i>>
      BY <2>1
    <3>2. \A i, j \in 1 .. RING_SIZE : <<r, i>> = <<r, j>> => i = j
      OBVIOUS
    <3> QED BY <2>3, <3>1, <3>2 DEF Once
  <2>5. ASSUME NEW f \in Umem(r) PROVE InSeq(fq[r], f)
    <3>1. PICK i \in 1 .. RING_SIZE : f = <<r, i>>
      BY DEF Umem
    <3> QED BY <2>1, <2>3, <3>1 DEF InSeq
  <2> QED BY <2>3, <2>4, <2>5
<1>3. /\ fq \in [Rus -> Seq(UmemFrames)]
  <2>1. \A r \in Rus : Seq(Umem(r)) \subseteq Seq(UmemFrames)
    BY UmemOf
  <2>2. DOMAIN fq = Rus /\ fq = [r \in Rus |-> fq[r]]
    BY DEF Init
  <2> QED BY <1>2, <2>1, <2>2
<1>4. EmptyRow \in Sums /\ EmptyRow \in [Rus -> UmemFrames \cup {NULL}]
      /\ EmptyRow = [r \in Rus |-> NULL]
  BY DEF EmptyRow, Sums
<1>5. NumRus - 1 \in Nat /\ 0 \in Rus
  BY Sockets, XdpAssumption DEF NUM_SOCKETS
<1>6. TypeInv
  <2>1. TypeOK
    BY <1>1, <1>3, <1>4, <1>5 DEF Init, TypeOK, Nothing, RadioFrames
  <2> QED BY <1>2, <1>4, <2>1 DEF Init, TypeInv, Nothing
<1>7. CountInv
  <2>1. FilledBy(EmptyRow) = {}
    BY <1>4 DEF FilledBy
  <2> QED BY <2>1, FS_EmptySet DEF CountInv, Init
<1>8. PlacesInv
  <2> DEFINE w == [f \in UmemFrames |-> "fq"]
  <2>1. w \in [UmemFrames -> Places]
    BY DEF Places
  <2>2. ASSUME NEW f \in UmemFrames
        PROVE  /\ InSeq(fq[f[1]], f) /\ ~InSeq(rx[f[1]], f) /\ ~InSeq(pkt_frags, f)
               /\ ~InSeq(frags_to_be_freed[f[1]], f) /\ ~InSeq(frags_to_be_sent, f)
               /\ ~InSeq(tx, f) /\ ~InSeq(cq, f) /\ ~CachedAt(f)
    <3>1. f[1] \in Rus /\ f \in Umem(f[1]) /\ f # NULL
      BY UmemOf
    <3> QED BY <1>2, <1>4, <3>1, EmptyOnce DEF Init, Nothing, CachedAt
  <2>3. PlacedBy(w)
    BY <2>2 DEF PlacedBy
  <2> QED BY <2>1, <2>3 DEF PlacesInv
<1>9. OnceInv
  BY <1>2, <1>4, EmptyOnce DEF OnceInv, Init, Nothing
<1>10. BatchInv
  BY <1>1 DEF BatchInv, Init, Nothing
<1> QED BY <1>6, <1>7, <1>8, <1>9, <1>10 DEF FramesInv, Init

\* Every frame of S goes to place k.
Moved(w, S, k) == [f \in UmemFrames |-> IF f \in S THEN k ELSE w[f]]

LEMMA MovedType ==
  ASSUME NEW w \in [UmemFrames -> Places], NEW S, NEW k \in Places
  PROVE  /\ Moved(w, S, k) \in [UmemFrames -> Places]
         /\ \A f \in UmemFrames : Moved(w, S, k)[f] = IF f \in S THEN k ELSE w[f]
BY DEF Moved

LEMMA BatchTaken ==
  ASSUME NEW U, NEW q \in Seq(U), Once(q), q # <<>>
  PROVE  LET batch == BatchOf(q)
             rest == SubSeq(q, Len(batch) + 1, Len(q))
         IN  /\ batch \in Seq(U) /\ rest \in Seq(U) /\ Len(batch) <= BATCH_SIZE
             /\ Once(batch) /\ Once(rest) /\ Apart(batch, rest)
             /\ \A x : InSeq(q, x) <=> InSeq(batch, x) \/ InSeq(rest, x)
<1>1. PICK n : n = IF Len(q) < BATCH_SIZE THEN Len(q) ELSE BATCH_SIZE
  OBVIOUS
<1>2. n \in 0 .. Len(q) /\ n <= BATCH_SIZE
  BY <1>1, XdpAssumption
<1>3. BatchOf(q) = SubSeq(q, 1, n)
  BY <1>1 DEF BatchOf
<1>4. Len(SubSeq(q, 1, n)) = n
  BY <1>2, Cut
<1> QED BY <1>2, <1>3, <1>4, Cut

LEMMA FramesRxPackets ==
  ASSUME NEW i \in Rus
  PROVE  FramesInv /\ RxPackets(i) => FramesInv'
<1> SUFFICES ASSUME FramesInv, RxPackets(i) PROVE FramesInv'
  OBVIOUS
<1>1. /\ rx[i] # <<>> /\ rx[i] \in Seq(Umem(i)) /\ Once(rx[i])
      /\ rx \in [Rus -> Seq(UmemFrames)]
  BY DEF RxPackets, FramesInv, TypeInv, TypeOK, OnceInv
<1>2. PICK batch, rest :
        /\ batch \in Seq(Umem(i)) /\ rest \in Seq(Umem(i)) /\ Len(batch) <= BATCH_SIZE
        /\ Once(batch) /\ Once(rest) /\ Apart(batch, rest)
        /\ \A x : InSeq(rx[i], x) <=> InSeq(batch, x) \/ InSeq(rest, x)
        /\ pkt_frags' = batch /\ rx' = [rx EXCEPT ![i] = rest]
  <2>1. /\ pkt_frags' = BatchOf(rx[i])
        /\ rx' = [rx EXCEPT ![i] = SubSeq(rx[i], Len(BatchOf(rx[i])) + 1, Len(rx[i]))]
    BY <1>1 DEF RxPackets
  <2> QED BY <1>1, <2>1, BatchTaken
<1>3. /\ pc = "poll" /\ pc' = "frags" /\ socket_to_process' = i
      /\ UNCHANGED <<fq, tx, cq, content, cached_packets, cached_packets_num,
                     frags_to_be_freed, frags_to_be_sent, alive, frame, sent, lost, to_du>>
  BY DEF RxPackets, cacheVars, envVars
<1>4. rx'[i] = rest /\ \A r \in Rus : r # i => rx'[r] = rx[r]
  BY <1>1, <1>2
<1>5. TypeInv'
  <2>1. batch \in Seq(UmemFrames) /\ rest \in Seq(UmemFrames)
    BY <1>2, UmemOf
  <2>2. rx' \in [Rus -> Seq(UmemFrames)]
    BY <1>1, <1>2, <2>1
  <2>3. TypeOK'
    BY <1>2, <1>3, <2>1, <2>2 DEF FramesInv, TypeInv, TypeOK
  <2> QED BY <1>2, <1>3, <1>4, <2>3 DEF FramesInv, TypeInv
<1>6. PlacesInv'
  <2>1. PICK w \in [UmemFrames -> Places] : PlacedBy(w)
    BY DEF FramesInv, PlacesInv
  <2> DEFINE S == {f \in UmemFrames : InSeq(batch, f)}
             v == Moved(w, S, "batch")
  <2>2. /\ v \in [UmemFrames -> Places]
        /\ \A f \in UmemFrames : v[f] = IF InSeq(batch, f) THEN "batch" ELSE w[f]
    BY <2>1, MovedType DEF Places
  <2> HIDE DEF v
  <2>3. ASSUME NEW f \in UmemFrames
        PROVE  /\ v[f] = "rx" <=> InSeq(rx'[f[1]], f)
               /\ v[f] = "batch" <=> InSeq(pkt_frags', f)
               /\ v[f] # w[f] => w[f] = "rx" /\ v[f] = "batch"
    <3>1. /\ w[f] = "rx" <=> InSeq(rx[f[1]], f)
          /\ w[f] # "batch"
      BY <1>3, <2>1, EmptyOnce DEF PlacedBy, FramesInv, BatchInv
    <3>2. InSeq(batch, f) => f[1] = i
      <4>1. InSeq(batch, f) => f \in Umem(i)
        BY <1>2, ElementsIn
      <4> QED BY <4>1, UmemOf
    <3>3. CASE f[1] = i
      BY <1>2, <1>4, <2>2, <3>1, <3>3 DEF Apart
    <3>4. CASE f[1] # i
      BY <1>2, <1>4, <2>2, <3>1, <3>2, <3>4, UmemOf
    <3> QED BY <3>3, <3>4
  <2>4. PlacedBy(v)'
    BY <1>3, <2>1, <2>3 DEF PlacedBy, CachedAt
  <2> QED BY <2>2, <2>4 DEF PlacesInv
<1>7. OnceInv'
  BY <1>2, <1>3, <1>4 DEF FramesInv, OnceInv
<1>8. BatchInv'
  <2>1. Len(batch) \in Nat
    BY <1>2
  <2>2. frags_to_be_freed = Nothing /\ frags_to_be_sent = <<>>
    BY <1>3 DEF FramesInv, BatchInv
  <2>3. \A r \in Rus : Len(Nothing[r]) = 0
    BY DEF Nothing
  <2> QED BY <1>2, <1>3, <2>1, <2>2, <2>3 DEF BatchInv
<1>9. CountInv'
  BY <1>3 DEF FramesInv, CountInv
<1> QED BY <1>3, <1>5, <1>6, <1>7, <1>8, <1>9 DEF FramesInv

\* The packet that is handled leaves the batch.
LEMMA HandledLeaves ==
  ASSUME FramesInv, NEW f \in Umem(socket_to_process), NEW s \in Slots, Handles(f, s)
  PROVE  /\ socket_to_process \in Rus /\ f \in UmemFrames /\ f[1] = socket_to_process
         /\ InSeq(pkt_frags, f)
         /\ pkt_frags' \in Seq(Umem(socket_to_process)) /\ Once(pkt_frags')
         /\ Len(pkt_frags') = Len(pkt_frags) - 1
         /\ \A x : InSeq(pkt_frags', x) <=> InSeq(pkt_frags, x) /\ x # f
         /\ pc = "frags" /\ alive
         /\ UNCHANGED <<fq, rx, tx, cq, pc, socket_to_process, alive, frame, sent, lost, to_du>>
<1>1. /\ pkt_frags # <<>> /\ pkt_frags \in Seq(Umem(socket_to_process)) /\ Once(pkt_frags)
      /\ f = Head(pkt_frags) /\ pkt_frags' = Tail(pkt_frags)
      /\ socket_to_process \in Rus
  BY DEF Handles, FramesInv, TypeInv, TypeOK, OnceInv
<1>2. f \in UmemFrames /\ f[1] = socket_to_process
  BY <1>1, UmemOf
<1> QED BY <1>1, <1>2, Popped DEF Handles, rings, envVars

\* A list that a frame joins, or none: x is NULL then.
IfAny(x) == IF x # NULL THEN <<x>> ELSE <<>>

LEMMA ListJoined ==
  ASSUME NEW r \in Rus, NEW q \in Seq(Umem(r)), Once(q), NEW x \in Umem(r) \cup {NULL},
         x # NULL => ~InSeq(q, x)
  PROVE  /\ q \o IfAny(x) \in Seq(Umem(r)) /\ Once(q \o IfAny(x))
         /\ Len(q \o IfAny(x)) <= Len(q) + 1
         /\ \A y \in UmemFrames : InSeq(q \o IfAny(x), y) <=> InSeq(q, y) \/ y = x
<1>1. NULL \notin UmemFrames
  BY XdpAssumption
<1>2. CASE x # NULL
  <2>1. PICK w : w = IfAny(x) /\ w \in Seq(Umem(r)) /\ Len(w) = 1 /\ Once(w)
                 /\ \A y : InSeq(w, y) <=> y = x
    <3>1. IfAny(x) = <<x>> /\ x \in Umem(r)
      BY <1>2 DEF IfAny
    <3> QED BY <3>1, One
  <2>2. Apart(q, w)
    BY <1>2, <2>1 DEF Apart
  <2>3. /\ q \o w \in Seq(Umem(r)) /\ Len(q \o w) = Len(q) + Len(w) /\ Once(q \o w)
        /\ \A y : InSeq(q \o w, y) <=> InSeq(q, y) \/ InSeq(w, y)
    BY <2>1, <2>2, Joined
  <2> QED BY <2>1, <2>3
<1>3. CASE x = NULL
  <2>1. q \o IfAny(x) = q
    BY <1>3 DEF IfAny
  <2>2. Len(q) <= Len(q) + 1
    OBVIOUS
  <2> QED BY <1>1, <1>3, <2>1, <2>2
<1> QED BY <1>2, <1>3

\* What is put on the lists of frames to be freed; NULL is nothing.
PutOn(x) == \A k \in Rus : frags_to_be_freed'[k] = frags_to_be_freed[k] \o IfAny(x[k])

LEMMA ListsJoined ==
  ASSUME FramesInv, NEW x, PutOn(x), frags_to_be_freed' = [k \in Rus |-> frags_to_be_freed'[k]],
         \A k \in Rus : x[k] \in Umem(k) \cup {NULL} /\ (x[k] # NULL => ~InSeq(frags_to_be_freed[k], x[k]))
  PROVE  /\ frags_to_be_freed' \in [Rus -> Seq(UmemFrames)]
         /\ \A k \in Rus : /\ frags_to_be_freed'[k] \in Seq(Umem(k))
                           /\ Once(frags_to_be_freed'[k])
                           /\ Len(frags_to_be_freed'[k]) \in Nat
                           /\ Len(frags_to_be_freed'[k]) <= Len(frags_to_be_freed[k]) + 1
         /\ \A f \in UmemFrames :
              InSeq(frags_to_be_freed'[f[1]], f) <=> InSeq(frags_to_be_freed[f[1]], f) \/ x[f[1]] = f
<1>1. ASSUME NEW k \in Rus
      PROVE  /\ frags_to_be_freed'[k] \in Seq(Umem(k)) /\ Once(frags_to_be_freed'[k])
             /\ Len(frags_to_be_freed'[k]) <= Len(frags_to_be_freed[k]) + 1
             /\ \A f \in UmemFrames :
                  InSeq(frags_to_be_freed'[k], f) <=> InSeq(frags_to_be_freed[k], f) \/ x[k] = f
  <2>1. frags_to_be_freed[k] \in Seq(Umem(k)) /\ Once(frags_to_be_freed[k])
    BY DEF FramesInv, TypeInv, OnceInv
  <2>2. PICK q, y : q = frags_to_be_freed[k] /\ y = x[k] /\ frags_to_be_freed'[k] = q \o IfAny(y)
    BY DEF PutOn
  <2>3. /\ q \o IfAny(y) \in Seq(Umem(k)) /\ Once(q \o IfAny(y))
        /\ Len(q \o IfAny(y)) <= Len(q) + 1
        /\ \A f \in UmemFrames : InSeq(q \o IfAny(y), f) <=> InSeq(q, f) \/ f = y
    <3>1. /\ q \in Seq(Umem(k)) /\ Once(q) /\ y \in Umem(k) \cup {NULL}
          /\ y # NULL => ~InSeq(q, y)
      BY <2>1, <2>2
    <3> QED BY <3>1, ListJoined
  <2> QED BY <2>2, <2>3
<1>2. \A k \in Rus : Seq(Umem(k)) \subseteq Seq(UmemFrames)
  BY UmemOf
<1>3. \A k \in Rus : Len(frags_to_be_freed'[k]) \in Nat
  <2> TAKE k \in Rus
  <2>1. frags_to_be_freed'[k] \in Seq(Umem(k))
    BY <1>1
  <2> QED BY <2>1
<1> QED BY <1>1, <1>2, <1>3, UmemOf

\* Frames in the cache and the batch, from where they are to what is said of them.
LEMMA PlaceOf ==
  ASSUME FramesInv, NEW w, PlacedBy(w)
  PROVE  /\ \A t \in Slots, q \in Rus : cached_packets[t][q] # NULL =>
              /\ cached_packets[t][q] \in UmemFrames /\ cached_packets[t][q][1] = q
              /\ w[cached_packets[t][q]] = "cache"
         /\ \A f \in UmemFrames : InSeq(pkt_frags, f) => ~CachedAt(f) /\ w[f] = "batch"
<1>1. ASSUME NEW t \in Slots, NEW q \in Rus, cached_packets[t][q] # NULL
      PROVE  /\ cached_packets[t][q] \in UmemFrames /\ cached_packets[t][q][1] = q
             /\ w[cached_packets[t][q]] = "cache"
  <2>1. PICK f : f = cached_packets[t][q] /\ f \in Umem(q)
    BY <1>1 DEF FramesInv, TypeInv
  <2>2. f \in UmemFrames /\ f[1] = q
    BY <2>1, UmemOf
  <2>3. CachedAt(f)
    BY <2>1, <2>2 DEF CachedAt
  <2> QED BY <2>1, <2>2, <2>3 DEF PlacedBy
<1> QED BY <1>1 DEF PlacedBy

LEMMA FramesCacheFrag == FramesInv /\ CacheFrag => FramesInv'
<1> SUFFICES ASSUME FramesInv, CacheFrag PROVE FramesInv'
  OBVIOUS
<1> DEFINE r == socket_to_process
<1>1. PICK f \in Umem(r), s \in Slots :
        /\ Handles(f, s) /\ ~Complete(s, r)
        /\ cached_packets' = [cached_packets EXCEPT ![s] = RowWith(s, r, f)]
        /\ cached_packets_num' = [cached_packets_num EXCEPT ![s] = CountWith(s, r)]
        /\ frags_to_be_freed' = [k \in Rus |-> frags_to_be_freed[k] \o Evicted(s, r, k)]
        /\ UNCHANGED <<content, frags_to_be_sent>>
  BY DEF CacheFrag
<1>2. /\ r \in Rus /\ f \in UmemFrames /\ f[1] = r
      /\ InSeq(pkt_frags, f)
      /\ pkt_frags' \in Seq(Umem(r)) /\ Once(pkt_frags')
      /\ Len(pkt_frags') = Len(pkt_frags) - 1
      /\ \A x : InSeq(pkt_frags', x) <=> InSeq(pkt_frags, x) /\ x # f
      /\ pc = "frags" /\ alive
      /\ UNCHANGED <<fq, rx, tx, cq, pc, socket_to_process, alive, frame, sent, lost, to_du>>
  BY <1>1, HandledLeaves
<1>3. PICK row, n :
        /\ row = RowWith(s, r, f) /\ n = CountWith(s, r)
        /\ row \in [Rus -> UmemFrames \cup {NULL}]
        /\ \A q \in Rus : row[q] =
              IF q = r THEN f ELSE IF Occupied(s, r) THEN NULL ELSE cached_packets[s][q]
        /\ n = Cardinality(FilledBy(row)) /\ n \in 0 .. NumRus - 1
  <2>1. CountWith(s, r) # NumRus /\ CountWith(s, r) \in 1 .. NumRus /\ NumRus \in Nat
    BY <1>1, <1>2, RowAndCount, Sockets DEF Complete, FramesInv
  <2>2. CountWith(s, r) \in 0 .. NumRus - 1
    BY <2>1
  <2> QED BY <1>2, <2>2, RowAndCount DEF FramesInv
<1>4. PICK w \in [UmemFrames -> Places] : PlacedBy(w)
  BY DEF FramesInv, PlacesInv
<1>5. /\ cached_packets \in [Slots -> [Rus -> UmemFrames \cup {NULL}]]
      /\ cached_packets_num \in [Slots -> 0 .. NumRus - 1]
      /\ \A t \in Slots, q \in Rus : cached_packets[t][q] \in Umem(q) \cup {NULL}
  BY DEF FramesInv, TypeInv, TypeOK
<1>6. /\ cached_packets'[s] = row /\ \A t \in Slots : t # s => cached_packets'[t] = cached_packets[t]
      /\ cached_packets_num'[s] = n
      /\ \A t \in Slots : t # s => cached_packets_num'[t] = cached_packets_num[t]
  BY <1>1, <1>3, <1>5
<1>7. PICK x : /\ x = [k \in Rus |-> IF Occupied(s, r) THEN cached_packets[s][k] ELSE NULL]
  OBVIOUS
<1>8. \A k \in Rus : x[k] = IF Occupied(s, r) THEN cached_packets[s][k] ELSE NULL
  BY <1>7
<1>9. /\ frags_to_be_freed' \in [Rus -> Seq(UmemFrames)]
      /\ \A k \in Rus : /\ frags_to_be_freed'[k] \in Seq(Umem(k))
                        /\ Once(frags_to_be_freed'[k])
                        /\ Len(frags_to_be_freed'[k]) \in Nat
                        /\ Len(frags_to_be_freed'[k]) <= Len(frags_to_be_freed[k]) + 1
      /\ \A g \in UmemFrames :
           InSeq(frags_to_be_freed'[g[1]], g) <=> InSeq(frags_to_be_freed[g[1]], g) \/ x[g[1]] = g
  <2>1. PutOn(x) /\ frags_to_be_freed' = [k \in Rus |-> frags_to_be_freed'[k]]
    BY <1>1, <1>8 DEF PutOn, Evicted, IfAny
  <2>2. ASSUME NEW k \in Rus
        PROVE  /\ x[k] \in Umem(k) \cup {NULL}
               /\ x[k] # NULL => ~InSeq(frags_to_be_freed[k], x[k])
    <3>1. x[k] # NULL => x[k] \in UmemFrames /\ x[k][1] = k /\ w[x[k]] = "cache"
      BY <1>4, <1>8, PlaceOf
    <3> QED BY <1>4, <1>5, <1>8, <3>1 DEF PlacedBy
  <2> QED BY <2>1, <2>2, ListsJoined
<1>10. ASSUME NEW g \in UmemFrames
       PROVE  CachedAt(g)' <=> g = f \/ (CachedAt(g) /\ x[g[1]] # g)
  <2>1. g # NULL /\ g[1] \in Rus
    BY UmemOf
  <2>2. CachedAt(g)' <=> row[g[1]] = g \/ \E t \in Slots : t # s /\ cached_packets[t][g[1]] = g
    BY <1>6 DEF CachedAt
  <2>3. \A t \in Slots : cached_packets[t][g[1]] = g /\ cached_packets[s][g[1]] = g => t = s
    BY <2>1 DEF FramesInv, OnceInv
  <2>4. CASE g[1] = r
    <3>1. row[g[1]] = f
      BY <1>3, <2>1, <2>4
    <3>2. ~Occupied(s, r) => cached_packets[s][r] = NULL
      BY DEF Occupied
    <3> QED BY <1>8, <2>1, <2>2, <2>3, <2>4, <3>1, <3>2 DEF CachedAt
  <2>5. CASE g[1] # r
    <3>1. g # f
      BY <1>2, <2>5
    <3> QED BY <1>3, <1>8, <2>1, <2>2, <2>3, <2>5, <3>1 DEF CachedAt
  <2> QED BY <2>4, <2>5
<1>11. TypeInv'
  <2>1. cached_packets' \in [Slots -> [Rus -> UmemFrames \cup {NULL}]]
    BY <1>1, <1>3, <1>5
  <2>2. cached_packets_num' \in [Slots -> 0 .. NumRus - 1]
    BY <1>1, <1>3, <1>5
  <2>3. pkt_frags' \in Seq(UmemFrames)
    BY <1>2, UmemOf
  <2>4. TypeOK'
    BY <1>1, <1>2, <1>9, <2>1, <2>2, <2>3 DEF FramesInv, TypeInv, TypeOK
  <2>5. \A t \in Slots, q \in Rus : cached_packets'[t][q] \in Umem(q) \cup {NULL}
    BY <1>3, <1>5, <1>6
  <2> QED BY <1>1, <1>2, <1>9, <2>4, <2>5 DEF FramesInv, TypeInv
<1>12. CountInv'
  BY <1>3, <1>6 DEF FramesInv, CountInv
<1>13. PlacesInv'
  <2> DEFINE S == {g \in UmemFrames : x[g[1]] = g}
             v == Moved(Moved(w, S, "freed"), {f}, "cache")
  <2>1. /\ v \in [UmemFrames -> Places]
        /\ \A g \in UmemFrames :
             v[g] = IF g = f THEN "cache" ELSE IF x[g[1]] = g THEN "freed" ELSE w[g]
    <3>1. "freed" \in Places /\ "cache" \in Places
      BY DEF Places
    <3>2. PICK u \in [UmemFrames -> Places] :
            /\ u = Moved(w, S, "freed")
            /\ \A g \in UmemFrames : u[g] = IF x[g[1]] = g THEN "freed" ELSE w[g]
      BY <1>4, <3>1, MovedType
    <3>3. /\ v \in [UmemFrames -> Places]
          /\ \A g \in UmemFrames : v[g] = IF g \in {f} THEN "cache" ELSE u[g]
      BY <3>1, <3>2, MovedType
    <3> QED BY <3>2, <3>3
  <2> HIDE DEF v
  <2>2. ASSUME NEW g \in UmemFrames
        PROVE  /\ g = f => w[g] = "batch"
               /\ x[g[1]] = g => w[g] = "cache"
    <3>1. g[1] \in Rus /\ g # NULL
      BY UmemOf
    <3> QED BY <1>2, <1>4, <1>8, <3>1, PlaceOf
  <2>3. PlacedBy(v)'
    <3> SUFFICES ASSUME NEW g \in UmemFrames
                 PROVE  /\ v[g] = "fq" <=> InSeq(fq'[g[1]], g)
                        /\ v[g] = "rx" <=> InSeq(rx'[g[1]], g)
                        /\ v[g] = "batch" <=> InSeq(pkt_frags', g)
                        /\ v[g] = "freed" <=> InSeq(frags_to_be_freed'[g[1]], g)
                        /\ v[g] = "sums" <=> InSeq(frags_to_be_sent', g)
                        /\ v[g] = "tx" <=> InSeq(tx', g)
                        /\ v[g] = "cq" <=> InSeq(cq', g)
                        /\ v[g] = "cache" <=> CachedAt(g)'
                        /\ v[g] = "gone" => g \in Umem(0)
      BY DEF PlacedBy
    <3>1. /\ w[g] = "fq" <=> InSeq(fq[g[1]], g)
          /\ w[g] = "rx" <=> InSeq(rx[g[1]], g)
          /\ w[g] = "batch" <=> InSeq(pkt_frags, g)
          /\ w[g] = "freed" <=> InSeq(frags_to_be_freed[g[1]], g)
          /\ w[g] = "sums" <=> InSeq(frags_to_be_sent, g)
          /\ w[g] = "tx" <=> InSeq(tx, g)
          /\ w[g] = "cq" <=> InSeq(cq, g)
          /\ w[g] = "cache" <=> CachedAt(g)
          /\ w[g] = "gone" => g \in Umem(0)
      BY <1>4 DEF PlacedBy
    <3>2. CASE g = f
      BY <1>1, <1>2, <1>9, <1>10, <2>1, <2>2, <3>1, <3>2
    <3>3. CASE g # f /\ x[g[1]] = g
      BY <1>1, <1>2, <1>9, <1>10, <2>1, <2>2, <3>1, <3>3
    <3>4. CASE g # f /\ x[g[1]] # g
      BY <1>1, <1>2, <1>9, <1>10, <2>1, <3>1, <3>4
    <3> QED BY <3>2, <3>3, <3>4
  <2> QED BY <2>1, <2>3 DEF PlacesInv
<1>14. OnceInv'
  <2>1. ASSUME NEW t \in Slots, NEW u \in Slots, NEW q \in Rus, cached_packets'[t][q] # NULL,
               cached_packets'[t][q] = cached_packets'[u][q], t # u
        PROVE  FALSE
    <3>1. ASSUME NEW a \in Slots, a # s, cached_packets[a][q] = row[q], row[q] # NULL
          PROVE  FALSE
      <4>1. CASE q = r
        <5>1. CachedAt(f)
          BY <1>2, <1>3, <3>1, <4>1 DEF CachedAt
        <5> QED BY <1>2, <1>4, <5>1, PlaceOf
      <4>2. CASE q # r
        <5>1. cached_packets[s][q] = row[q]
          BY <1>3, <3>1, <4>2
        <5> QED BY <3>1, <5>1 DEF FramesInv, OnceInv
      <4> QED BY <4>1, <4>2
    <3>2. CASE t = s
      BY <1>6, <2>1, <3>1, <3>2
    <3>3. CASE u = s
      BY <1>6, <2>1, <3>1, <3>3
    <3>4. CASE t # s /\ u # s
      BY <1>6, <2>1, <3>4 DEF FramesInv, OnceInv
    <3> QED BY <3>2, <3>3, <3>4
  <2> QED BY <1>1, <1>2, <1>9, <2>1 DEF FramesInv, OnceInv
<1>15. BatchInv'
  <2>1. /\ Len(pkt_frags) \in Nat /\ Len(pkt_frags') \in Nat /\ BATCH_SIZE \in Nat
        /\ Len(frags_to_be_sent) \in Nat
        /\ \A k \in Rus : Len(frags_to_be_freed[k]) \in Nat
    BY <1>2, XdpAssumption DEF FramesInv, TypeInv, TypeOK
  <2>2. \A k \in Rus : Len(frags_to_be_freed'[k]) + Len(pkt_frags') <= BATCH_SIZE
    BY <1>2, <1>9, <2>1 DEF FramesInv, BatchInv
  <2>3. Len(frags_to_be_sent) + Len(pkt_frags') <= BATCH_SIZE
    BY <1>2, <2>1 DEF FramesInv, BatchInv
  <2> QED BY <1>1, <1>2, <2>2, <2>3 DEF BatchInv
<1> QED BY <1>2, <1>11, <1>12, <1>13, <1>14, <1>15 DEF FramesInv

\* The frame of RU 0 goes to the list of sums, those of the others to the lists
\* of frames to be freed.
LEMMA FramesMergeGroup == FramesInv /\ MergeGroup => FramesInv'
<1> SUFFICES ASSUME FramesInv, MergeGroup PROVE FramesInv'
  OBVIOUS
<1> DEFINE r == socket_to_process
<1>1. PICK f \in Umem(r), s \in Slots :
        /\ Handles(f, s) /\ Complete(s, r)
        /\ content' = [content EXCEPT ![RowWith(s, r, f)[0]] = SumOf(RowWith(s, r, f))]
        /\ cached_packets' = [cached_packets EXCEPT ![s] = EmptyRow]
        /\ cached_packets_num' = [cached_packets_num EXCEPT ![s] = 0]
        /\ frags_to_be_freed' = [k \in Rus |-> frags_to_be_freed[k] \o Evicted(s, r, k)
                                                  \o AddedUp(RowWith(s, r, f), k)]
        /\ frags_to_be_sent' = Append(frags_to_be_sent, RowWith(s, r, f)[0])
  BY DEF MergeGroup, Merged
<1>2. /\ r \in Rus /\ f \in UmemFrames /\ f[1] = r
      /\ InSeq(pkt_frags, f)
      /\ pkt_frags' \in Seq(Umem(r)) /\ Once(pkt_frags')
      /\ Len(pkt_frags') = Len(pkt_frags) - 1
      /\ \A x : InSeq(pkt_frags', x) <=> InSeq(pkt_frags, x) /\ x # f
      /\ pc = "frags" /\ alive
      /\ UNCHANGED <<fq, rx, tx, cq, pc, socket_to_process, alive, frame, sent, lost, to_du>>
  BY <1>1, HandledLeaves
<1>3. ~Occupied(s, r)
  BY <1>1, <1>2, EvictsBeforeComplete DEF FramesInv
<1>4. /\ cached_packets \in [Slots -> [Rus -> UmemFrames \cup {NULL}]]
      /\ cached_packets_num \in [Slots -> 0 .. NumRus - 1]
      /\ \A t \in Slots, q \in Rus : cached_packets[t][q] \in Umem(q) \cup {NULL}
      /\ content \in [UmemFrames -> Sums]
      /\ frags_to_be_sent \in Seq(Umem(0)) /\ Once(frags_to_be_sent)
  BY DEF FramesInv, TypeInv, TypeOK, OnceInv
<1>5. PICK row :
        /\ row = RowWith(s, r, f)
        /\ row \in [Rus -> UmemFrames \cup {NULL}]
        /\ \A q \in Rus : row[q] = IF q = r THEN f ELSE cached_packets[s][q]
        /\ \A q \in Rus : row[q] \in Umem(q)
  <2>1. \A q \in Rus : RowWith(s, r, f)[q] # NULL
    BY <1>1, <1>2, RowAndCount DEF FramesInv
  <2>2. /\ RowWith(s, r, f) \in [Rus -> UmemFrames \cup {NULL}]
        /\ \A q \in Rus : RowWith(s, r, f)[q] =
             IF q = r THEN f ELSE IF Occupied(s, r) THEN NULL ELSE cached_packets[s][q]
    BY <1>1, <1>2, RowAndCount DEF FramesInv
  <2>3. \A q \in Rus : RowWith(s, r, f)[q] = IF q = r THEN f ELSE cached_packets[s][q]
    BY <1>3, <2>2
  <2>4. \A q \in Rus : RowWith(s, r, f)[q] \in Umem(q)
    BY <1>4, <2>1, <2>3
  <2> QED BY <2>2, <2>3, <2>4
<1>6. PICK w \in [UmemFrames -> Places] : PlacedBy(w)
  BY DEF FramesInv, PlacesInv
<1>7. /\ cached_packets'[s] = EmptyRow
      /\ \A t \in Slots : t # s => cached_packets'[t] = cached_packets[t]
      /\ cached_packets_num'[s] = 0
      /\ \A t \in Slots : t # s => cached_packets_num'[t] = cached_packets_num[t]
      /\ \A q \in Rus : EmptyRow[q] = NULL
  BY <1>1, <1>4 DEF EmptyRow
<1>8. \A q \in Rus : /\ row[q] \in UmemFrames /\ row[q][1] = q
                     /\ q = r => w[row[q]] = "batch"
                     /\ q # r => w[row[q]] = "cache" /\ row[q] = cached_packets[s][q]
  <2> SUFFICES ASSUME NEW q \in Rus
               PROVE  /\ row[q] \in UmemFrames /\ row[q][1] = q
                      /\ q = r => w[row[q]] = "batch"
                      /\ q # r => w[row[q]] = "cache" /\ row[q] = cached_packets[s][q]
    OBVIOUS
  <2>1. row[q] \in UmemFrames /\ row[q][1] = q /\ row[q] # NULL
    BY <1>5, UmemOf
  <2>2. CASE q = r
    BY <1>2, <1>5, <1>6, <2>1, <2>2, PlaceOf
  <2>3. CASE q # r
    BY <1>5, <1>6, <2>1, <2>3, PlaceOf
  <2> QED BY <2>1, <2>2, <2>3
<1>9. PICK x : x = [k \in Rus |-> IF k > 0 THEN row[k] ELSE NULL]
  OBVIOUS
<1>10. \A k \in Rus : x[k] = IF k > 0 THEN row[k] ELSE NULL
  BY <1>9
<1>11. /\ frags_to_be_freed' \in [Rus -> Seq(UmemFrames)]
       /\ \A k \in Rus : /\ frags_to_be_freed'[k] \in Seq(Umem(k))
                         /\ Once(frags_to_be_freed'[k])
                         /\ Len(frags_to_be_freed'[k]) \in Nat
                         /\ Len(frags_to_be_freed'[k]) <= Len(frags_to_be_freed[k]) + 1
       /\ \A g \in UmemFrames :
            InSeq(frags_to_be_freed'[g[1]], g) <=> InSeq(frags_to_be_freed[g[1]], g) \/ x[g[1]] = g
  <2>1. \A k \in Rus : x[k] # NULL <=> k > 0
    BY <1>5, <1>10, UmemOf
  <2>2. ASSUME NEW k \in Rus
        PROVE  frags_to_be_freed[k] \o Evicted(s, r, k) \o AddedUp(row, k)
                 = frags_to_be_freed[k] \o IfAny(x[k])
    <3>1. Evicted(s, r, k) = <<>> /\ AddedUp(row, k) = IfAny(x[k])
      BY <1>3, <1>10, <2>1 DEF Evicted, AddedUp, IfAny
    <3>2. frags_to_be_freed[k] \in Seq(UmemFrames)
      BY DEF FramesInv, TypeInv, TypeOK
    <3>3. frags_to_be_freed[k] \o <<>> = frags_to_be_freed[k]
      BY <3>2
    <3> QED BY <3>1, <3>3
  <2>3. PutOn(x) /\ frags_to_be_freed' = [k \in Rus |-> frags_to_be_freed'[k]]
    BY <1>1, <1>5, <2>2 DEF PutOn
  <2>4. ASSUME NEW k \in Rus
        PROVE  /\ x[k] \in Umem(k) \cup {NULL}
               /\ x[k] # NULL => ~InSeq(frags_to_be_freed[k], x[k])
    <3>1. x[k] # NULL => x[k] \in UmemFrames /\ x[k][1] = k /\ w[x[k]] # "freed"
      BY <1>8, <1>10
    <3> QED BY <1>5, <1>6, <1>10, <3>1 DEF PlacedBy
  <2> QED BY <2>3, <2>4, ListsJoined
<1>12. /\ frags_to_be_sent' \in Seq(Umem(0)) /\ Once(frags_to_be_sent')
       /\ Len(frags_to_be_sent') = Len(frags_to_be_sent) + 1
       /\ \A g \in UmemFrames : InSeq(frags_to_be_sent', g) <=> InSeq(frags_to_be_sent, g) \/ g = row[0]
  <2>1. ~InSeq(frags_to_be_sent, row[0]) /\ row[0] \in Umem(0)
    <3>1. row[0] \in UmemFrames /\ w[row[0]] # "sums"
      BY <1>8, Sockets
    <3> QED BY <1>5, <1>6, <3>1, Sockets DEF PlacedBy
  <2>2. frags_to_be_sent' = Append(frags_to_be_sent, row[0])
    BY <1>1, <1>5
  <2> QED BY <1>4, <2>1, <2>2, Added
<1>13. ASSUME NEW g \in UmemFrames
       PROVE  CachedAt(g)' <=> CachedAt(g) /\ row[g[1]] # g
  <2>1. g # NULL /\ g[1] \in Rus
    BY UmemOf
  <2>2. CachedAt(g)' <=> \E t \in Slots : t # s /\ cached_packets[t][g[1]] = g
    BY <1>7, <2>1 DEF CachedAt
  <2>3. \A t \in Slots : cached_packets[t][g[1]] = g /\ cached_packets[s][g[1]] = g => t = s
    BY <2>1 DEF FramesInv, OnceInv
  <2>4. CASE g[1] = r
    <3>1. cached_packets[s][g[1]] = NULL /\ row[g[1]] = f
      BY <1>3, <1>5, <2>1, <2>4 DEF Occupied
    <3>2. ~CachedAt(f)
      BY <1>2, <1>6, PlaceOf
    <3> QED BY <2>1, <2>2, <3>1, <3>2 DEF CachedAt
  <2>5. CASE g[1] # r
    <3>1. row[g[1]] = cached_packets[s][g[1]]
      BY <1>5, <2>1, <2>5
    <3> QED BY <2>2, <2>3, <3>1 DEF CachedAt
  <2> QED BY <2>4, <2>5
<1>14. TypeInv'
  <2>1. EmptyRow \in [Rus -> UmemFrames \cup {NULL}]
    BY DEF EmptyRow
  <2>2. cached_packets' \in [Slots -> [Rus -> UmemFrames \cup {NULL}]]
    BY <1>1, <1>4, <2>1
  <2>3. 0 \in 0 .. NumRus - 1
    BY Sockets, XdpAssumption DEF NUM_SOCKETS
  <2>4. cached_packets_num' \in [Slots -> 0 .. NumRus - 1]
    BY <1>1, <1>4, <2>3
  <2>5. pkt_frags' \in Seq(UmemFrames) /\ frags_to_be_sent' \in Seq(UmemFrames)
    BY <1>2, <1>12, UmemOf, Sockets
  <2>6. SumOf(row) \in Sums
    <3>1. \A q \in Rus : content[row[q]][q] \in Packet \cup {NULL}
      BY <1>4, <1>8 DEF Sums
    <3> QED BY <3>1 DEF SumOf, Sums
  <2>7. content' \in [UmemFrames -> Sums]
    BY <1>1, <1>4, <1>5, <2>6
  <2>8. TypeOK'
    BY <1>1, <1>2, <1>11, <2>2, <2>4, <2>5, <2>7 DEF FramesInv, TypeInv, TypeOK
  <2>9. \A t \in Slots, q \in Rus : cached_packets'[t][q] \in Umem(q) \cup {NULL}
    BY <1>4, <1>7
  <2> QED BY <1>2, <1>11, <1>12, <2>8, <2>9 DEF FramesInv, TypeInv
<1>15. CountInv'
  <2>1. FilledBy(EmptyRow) = {}
    BY <1>7 DEF FilledBy
  <2>2. Cardinality(FilledBy(EmptyRow)) = 0
    BY <2>1, FS_EmptySet
  <2> QED BY <1>7, <2>2 DEF FramesInv, CountInv
<1>16. PlacesInv'
  <2> DEFINE S == {g \in UmemFrames : row[g[1]] = g}
             v == [g \in UmemFrames |-> IF row[g[1]] # g THEN w[g]
                                        ELSE IF g = row[0] THEN "sums" ELSE "freed"]
  <2>1. /\ v \in [UmemFrames -> Places]
        /\ \A g \in UmemFrames :
             v[g] = IF row[g[1]] # g THEN w[g] ELSE IF g = row[0] THEN "sums" ELSE "freed"
    <3>1. "freed" \in Places /\ "sums" \in Places /\ \A g \in UmemFrames : w[g] \in Places
      BY DEF Places
    <3> QED BY <3>1
  <2> HIDE DEF v
  <2>2. ASSUME NEW g \in UmemFrames
        PROVE  /\ row[g[1]] = g => w[g] \in {"batch", "cache"}
               /\ row[g[1]] = g /\ g # row[0] => x[g[1]] = g
               /\ row[g[1]] # g => x[g[1]] # g /\ g # row[0] /\ g # f
               /\ g = row[0] => x[g[1]] # g
               /\ row[g[1]] = g /\ w[g] = "batch" => g = f
    <3>1. g[1] \in Rus /\ g # NULL
      BY UmemOf
    <3>2. row[0][1] = 0 /\ 0 \in Rus /\ \A q \in Rus : q > 0 <=> q # 0
      BY <1>8, Sockets
    <3>3. row[r] = f
      BY <1>2, <1>5
    <3> QED BY <1>2, <1>8, <1>10, <3>1, <3>2, <3>3
  <2>3. PlacedBy(v)'
    <3> SUFFICES ASSUME NEW g \in UmemFrames
                 PROVE  /\ v[g] = "fq" <=> InSeq(fq'[g[1]], g)
                        /\ v[g] = "rx" <=> InSeq(rx'[g[1]], g)
                        /\ v[g] = "batch" <=> InSeq(pkt_frags', g)
                        /\ v[g] = "freed" <=> InSeq(frags_to_be_freed'[g[1]], g)
                        /\ v[g] = "sums" <=> InSeq(frags_to_be_sent', g)
                        /\ v[g] = "tx" <=> InSeq(tx', g)
                        /\ v[g] = "cq" <=> InSeq(cq', g)
                        /\ v[g] = "cache" <=> CachedAt(g)'
                        /\ v[g] = "gone" => g \in Umem(0)
      BY DEF PlacedBy
    <3>1. /\ w[g] = "fq" <=> InSeq(fq[g[1]], g)
          /\ w[g] = "rx" <=> InSeq(rx[g[1]], g)
          /\ w[g] = "batch" <=> InSeq(pkt_frags, g)
          /\ w[g] = "freed" <=> InSeq(frags_to_be_freed[g[1]], g)
          /\ w[g] = "sums" <=> InSeq(frags_to_be_sent, g)
          /\ w[g] = "tx" <=> InSeq(tx, g)
          /\ w[g] = "cq" <=> InSeq(cq, g)
          /\ w[g] = "cache" <=> CachedAt(g)
          /\ w[g] = "gone" => g \in Umem(0)
      BY <1>6 DEF PlacedBy
    <3>2. /\ InSeq(pkt_frags', g) <=> InSeq(pkt_frags, g) /\ g # f
          /\ InSeq(frags_to_be_freed'[g[1]], g) <=> InSeq(frags_to_be_freed[g[1]], g) \/ x[g[1]] = g
          /\ InSeq(frags_to_be_sent', g) <=> InSeq(frags_to_be_sent, g) \/ g = row[0]
          /\ CachedAt(g)' <=> CachedAt(g) /\ row[g[1]] # g
      BY <1>2, <1>11, <1>12, <1>13
    <3>3. CASE row[g[1]] # g
      BY <1>2, <2>1, <2>2, <3>1, <3>2, <3>3
    <3>4. CASE row[g[1]] = g /\ g = row[0]
      BY <1>2, <2>1, <2>2, <3>1, <3>2, <3>4
    <3>5. CASE row[g[1]] = g /\ g # row[0]
      BY <1>2, <2>1, <2>2, <3>1, <3>2, <3>5
    <3> QED BY <3>3, <3>4, <3>5
  <2> QED BY <2>1, <2>3 DEF PlacesInv
<1>17. OnceInv'
  <2>1. ASSUME NEW t \in Slots, NEW u \in Slots, NEW q \in Rus, cached_packets'[t][q] # NULL,
               cached_packets'[t][q] = cached_packets'[u][q]
        PROVE  t = u
    BY <1>7, <2>1 DEF FramesInv, OnceInv
  <2> QED BY <1>2, <1>11, <1>12, <2>1 DEF FramesInv, OnceInv
<1>18. BatchInv'
  <2>1. /\ Len(pkt_frags) \in Nat /\ Len(pkt_frags') \in Nat /\ BATCH_SIZE \in Nat
        /\ Len(frags_to_be_sent) \in Nat
        /\ \A k \in Rus : Len(frags_to_be_freed[k]) \in Nat
    BY <1>2, XdpAssumption DEF FramesInv, TypeInv, TypeOK
  <2>2. \A k \in Rus : Len(frags_to_be_freed'[k]) + Len(pkt_frags') <= BATCH_SIZE
    BY <1>2, <1>11, <2>1 DEF FramesInv, BatchInv
  <2>3. Len(frags_to_be_sent') + Len(pkt_frags') <= BATCH_SIZE
    BY <1>2, <1>12, <2>1 DEF FramesInv, BatchInv
  <2> QED BY <1>2, <2>2, <2>3 DEF BatchInv
<1> QED BY <1>2, <1>14, <1>15, <1>16, <1>17, <1>18 DEF FramesInv

\* The steps that only touch the rings and lists keep the rest as it is.
LEMMA FramesReturnFrames == FramesInv /\ ReturnFrames => FramesInv'
<1> SUFFICES ASSUME FramesInv, ReturnFrames PROVE FramesInv'
  OBVIOUS
<1>1. /\ pc = "frags" /\ pkt_frags = <<>>
      /\ fq' = [k \in Rus |-> fq[k] \o Returned(k)]
      /\ alive' = (\A k \in Rus : Len(fq'[k]) <= RING_SIZE)
      /\ frags_to_be_freed' = Nothing
      /\ pc' = IF frags_to_be_sent = <<>> THEN "poll" ELSE "send"
      /\ UNCHANGED <<rx, tx, cq, content, socket_to_process, pkt_frags, frags_to_be_sent,
                     cached_packets, cached_packets_num, frame, sent, lost, to_du>>
  BY DEF ReturnFrames, cacheVars, envVars
<1>2. PICK w \in [UmemFrames -> Places] : PlacedBy(w)
  BY DEF FramesInv, PlacesInv
<1>3. ASSUME NEW k \in Rus
      PROVE  /\ fq'[k] \in Seq(Umem(k)) /\ Once(fq'[k])
             /\ \A g \in UmemFrames : InSeq(fq'[k], g) <=>
                  InSeq(fq[k], g) \/ (k > 0 /\ InSeq(frags_to_be_freed[k], g))
  <2>1. PICK q, l : /\ q = fq[k] /\ l = frags_to_be_freed[k]
                    /\ q \in Seq(Umem(k)) /\ l \in Seq(Umem(k)) /\ Once(q) /\ Once(l)
    BY DEF FramesInv, TypeInv, OnceInv
  <2>2. fq'[k] = IF k > 0 THEN q \o l ELSE q \o <<>>
    BY <1>1, <2>1 DEF Returned
  <2>3. q \o <<>> = q
    BY <2>1
  <2>4. ASSUME NEW g, InSeq(q, g), InSeq(l, g) PROVE FALSE
    <3>1. g \in Umem(k)
      BY <2>1, <2>4, ElementsIn
    <3>2. g \in UmemFrames /\ g[1] = k
      BY <3>1, UmemOf
    <3>3. w[g] = "fq" /\ w[g] = "freed"
      BY <1>2, <2>1, <2>4, <3>2 DEF PlacedBy
    <3> QED BY <3>3
  <2>5. /\ q \o l \in Seq(Umem(k)) /\ Once(q \o l)
        /\ \A g : InSeq(q \o l, g) <=> InSeq(q, g) \/ InSeq(l, g)
    BY <2>1, <2>4, Joined DEF Apart
  <2>6. CASE k > 0
    BY <2>1, <2>2, <2>5, <2>6
  <2>7. CASE ~(k > 0)
    BY <2>1, <2>2, <2>3, <2>7
  <2> QED BY <2>6, <2>7
<1>4. alive'
  BY <1>1, <1>3, RingHasRoom
<1>5. TypeInv'
  <2>1. \A k \in Rus : Seq(Umem(k)) \subseteq Seq(UmemFrames)
    BY UmemOf
  <2>2. fq' = [k \in Rus |-> fq'[k]]
    BY <1>1
  <2>3. fq' \in [Rus -> Seq(UmemFrames)]
    BY <1>3, <2>1, <2>2
  <2>4. /\ frags_to_be_freed' \in [Rus -> Seq(UmemFrames)]
        /\ \A k \in Rus : frags_to_be_freed'[k] \in Seq(Umem(k))
    BY <1>1 DEF Nothing
  <2>5. TypeOK'
    BY <1>1, <1>4, <2>3, <2>4 DEF FramesInv, TypeInv, TypeOK
  <2> QED BY <1>1, <1>3, <2>4, <2>5 DEF FramesInv, TypeInv
<1>6. PlacesInv'
  <2> DEFINE v == [g \in UmemFrames |-> IF w[g] # "freed" THEN w[g]
                                        ELSE IF g[1] > 0 THEN "fq" ELSE "gone"]
  <2>1. /\ v \in [UmemFrames -> Places]
        /\ \A g \in UmemFrames :
             v[g] = IF w[g] # "freed" THEN w[g] ELSE IF g[1] > 0 THEN "fq" ELSE "gone"
    <3>1. "fq" \in Places /\ "gone" \in Places /\ \A g \in UmemFrames : w[g] \in Places
      BY DEF Places
    <3> QED BY <3>1
  <2> HIDE DEF v
  <2>2. PlacedBy(v)'
    <3> SUFFICES ASSUME NEW g \in UmemFrames
                 PROVE  /\ v[g] = "fq" <=> InSeq(fq'[g[1]], g)
                        /\ v[g] = "rx" <=> InSeq(rx'[g[1]], g)
                        /\ v[g] = "batch" <=> InSeq(pkt_frags', g)
                        /\ v[g] = "freed" <=> InSeq(frags_to_be_freed'[g[1]], g)
                        /\ v[g] = "sums" <=> InSeq(frags_to_be_sent', g)
                        /\ v[g] = "tx" <=> InSeq(tx', g)
                        /\ v[g] = "cq" <=> InSeq(cq', g)
                        /\ v[g] = "cache" <=> CachedAt(g)'
                        /\ v[g] = "gone" => g \in Umem(0)
      BY DEF PlacedBy
    <3>1. /\ w[g] = "fq" <=> InSeq(fq[g[1]], g)
          /\ w[g] = "rx" <=> InSeq(rx[g[1]], g)
          /\ w[g] = "batch" <=> InSeq(pkt_frags, g)
          /\ w[g] = "freed" <=> InSeq(frags_to_be_freed[g[1]], g)
          /\ w[g] = "sums" <=> InSeq(frags_to_be_sent, g)
          /\ w[g] = "tx" <=> InSeq(tx, g)
          /\ w[g] = "cq" <=> InSeq(cq, g)
          /\ w[g] = "cache" <=> CachedAt(g)
          /\ w[g] = "gone" => g \in Umem(0)
      BY <1>2 DEF PlacedBy
    <3>2. g[1] \in Rus /\ g \in Umem(g[1]) /\ (g[1] > 0 \/ g[1] = 0)
      BY UmemOf, Sockets
    <3>3. ~InSeq(frags_to_be_freed'[g[1]], g)
      BY <1>1, <3>2, EmptyOnce DEF Nothing
    <3>4. CachedAt(g)' <=> CachedAt(g)
      BY <1>1 DEF CachedAt
    <3>5. InSeq(fq'[g[1]], g) <=> InSeq(fq[g[1]], g) \/ (g[1] > 0 /\ InSeq(frags_to_be_freed[g[1]], g))
      BY <1>3, <3>2
    <3> QED BY <1>1, <2>1, <3>1, <3>2, <3>3, <3>4, <3>5
  <2> QED BY <2>1, <2>2 DEF PlacesInv
<1>7. OnceInv'
  <2>1. \A k \in Rus : Once(frags_to_be_freed'[k])
    BY <1>1, EmptyOnce DEF Nothing
  <2> QED BY <1>1, <1>3, <2>1 DEF FramesInv, OnceInv
<1>8. BatchInv'
  <2>1. \A k \in Rus : Len(Nothing[k]) = 0
    BY DEF Nothing
  <2>2. Len(pkt_frags) = 0 /\ BATCH_SIZE \in Nat
    BY <1>1, XdpAssumption
  <2> QED BY <1>1, <2>1, <2>2 DEF FramesInv, BatchInv
<1>9. CountInv'
  BY <1>1 DEF FramesInv, CountInv
<1> QED BY <1>4, <1>5, <1>6, <1>7, <1>8, <1>9 DEF FramesInv

LEMMA FramesQueueSums == FramesInv /\ QueueSums => FramesInv'
<1> SUFFICES ASSUME FramesInv, QueueSums PROVE FramesInv'
  OBVIOUS
<1>1. /\ pc = "send" /\ tx' = tx \o frags_to_be_sent
      /\ alive' = (Len(tx') <= RING_SIZE)
      /\ frags_to_be_sent' = <<>> /\ pc' = "reap"
      /\ UNCHANGED <<fq, rx, cq, content, socket_to_process, pkt_frags, frags_to_be_freed,
                     cached_packets, cached_packets_num, frame, sent, lost, to_du>>
  BY DEF QueueSums, cacheVars, envVars
<1>2. PICK w \in [UmemFrames -> Places] : PlacedBy(w)
  BY DEF FramesInv, PlacesInv
<1>3. /\ tx \in Seq(Umem(0)) /\ frags_to_be_sent \in Seq(Umem(0))
      /\ Once(tx) /\ Once(frags_to_be_sent)
  BY DEF FramesInv, TypeInv, OnceInv
<1>4. Apart(tx, frags_to_be_sent)
  <2> SUFFICES ASSUME NEW g, InSeq(tx, g), InSeq(frags_to_be_sent, g) PROVE FALSE
    BY DEF Apart
  <2>1. g \in Umem(0)
    BY <1>3, ElementsIn
  <2>2. g \in UmemFrames
    BY <2>1, UmemOf, Sockets
  <2> QED BY <1>2, <2>2 DEF PlacedBy
<1>5. /\ tx' \in Seq(Umem(0)) /\ Once(tx')
      /\ \A g : InSeq(tx', g) <=> InSeq(tx, g) \/ InSeq(frags_to_be_sent, g)
  BY <1>1, <1>3, <1>4, Joined
<1>6. alive'
  BY <1>1, <1>5, RingHasRoom, Sockets
<1>7. TypeInv'
  <2>1. tx' \in Seq(UmemFrames)
    BY <1>5, UmemOf, Sockets
  <2>2. TypeOK'
    BY <1>1, <1>6, <2>1 DEF FramesInv, TypeInv, TypeOK
  <2> QED BY <1>1, <1>5, <2>2 DEF FramesInv, TypeInv
<1>8. PlacesInv'
  <2> DEFINE v == [g \in UmemFrames |-> IF w[g] # "sums" THEN w[g] ELSE "tx"]
  <2>1. /\ v \in [UmemFrames -> Places]
        /\ \A g \in UmemFrames : v[g] = IF w[g] # "sums" THEN w[g] ELSE "tx"
    <3>1. "tx" \in Places /\ \A g \in UmemFrames : w[g] \in Places
      BY DEF Places
    <3> QED BY <3>1
  <2> HIDE DEF v
  <2>2. PlacedBy(v)'
    BY <1>1, <1>2, <1>5, <2>1, EmptyOnce DEF PlacedBy, CachedAt
  <2> QED BY <2>1, <2>2 DEF PlacesInv
<1>9. OnceInv'
  BY <1>1, <1>5, EmptyOnce DEF FramesInv, OnceInv
<1>10. BatchInv'
  <2>1. pkt_frags = <<>> /\ frags_to_be_freed = Nothing /\ Len(pkt_frags) = 0
    BY <1>1 DEF FramesInv, BatchInv
  <2>2. BATCH_SIZE \in Nat /\ Len(<<>>) = 0
    BY XdpAssumption
  <2> QED BY <1>1, <2>1, <2>2 DEF FramesInv, BatchInv
<1>11. CountInv'
  BY <1>1 DEF FramesInv, CountInv
<1> QED BY <1>6, <1>7, <1>8, <1>9, <1>10, <1>11 DEF FramesInv

LEMMA FramesCollectCompleted == FramesInv /\ CollectCompleted => FramesInv'
<1> SUFFICES ASSUME FramesInv, CollectCompleted PROVE FramesInv'
  OBVIOUS
<1>1. /\ pc = "reap" /\ fq' = [fq EXCEPT ![0] = fq[0] \o cq]
      /\ alive' = (Len(fq'[0]) <= RING_SIZE)
      /\ cq' = <<>> /\ pc' = "poll"
      /\ UNCHANGED <<rx, tx, content, socket_to_process, pkt_frags, frags_to_be_freed,
                     frags_to_be_sent, cached_packets, cached_packets_num,
                     frame, sent, lost, to_du>>
  BY DEF CollectCompleted, Completed, cacheVars, envVars
<1>2. PICK w \in [UmemFrames -> Places] : PlacedBy(w)
  BY DEF FramesInv, PlacesInv
<1>3. /\ fq \in [Rus -> Seq(UmemFrames)] /\ 0 \in Rus
      /\ fq[0] \in Seq(Umem(0)) /\ cq \in Seq(Umem(0))
      /\ Once(fq[0]) /\ Once(cq)
  BY Sockets DEF FramesInv, TypeInv, TypeOK, OnceInv
<1>4. Apart(fq[0], cq)
  <2> SUFFICES ASSUME NEW g, InSeq(fq[0], g), InSeq(cq, g) PROVE FALSE
    BY DEF Apart
  <2>1. g \in Umem(0)
    BY <1>3, ElementsIn
  <2>2. g \in UmemFrames /\ g[1] = 0
    BY <1>3, <2>1, UmemOf
  <2> QED BY <1>2, <2>2 DEF PlacedBy
<1>5. PICK q : /\ q = fq[0] \o cq /\ q \in Seq(Umem(0)) /\ Once(q)
               /\ \A g : InSeq(q, g) <=> InSeq(fq[0], g) \/ InSeq(cq, g)
  <2>1. /\ fq[0] \o cq \in Seq(Umem(0)) /\ Once(fq[0] \o cq)
        /\ \A g : InSeq(fq[0] \o cq, g) <=> InSeq(fq[0], g) \/ InSeq(cq, g)
    BY <1>3, <1>4, Joined
  <2> QED BY <2>1
<1>6. fq'[0] = q /\ \A k \in Rus : k # 0 => fq'[k] = fq[k]
  BY <1>1, <1>3, <1>5
<1>7. alive'
  BY <1>1, <1>3, <1>5, <1>6, RingHasRoom
<1>8. TypeInv'
  <2>1. q \in Seq(UmemFrames)
    BY <1>3, <1>5, UmemOf
  <2>2. fq' \in [Rus -> Seq(UmemFrames)]
    BY <1>1, <1>3, <1>5, <2>1
  <2>3. TypeOK'
    BY <1>1, <1>7, <2>2 DEF FramesInv, TypeInv, TypeOK
  <2>4. \A k \in Rus : fq'[k] \in Seq(Umem(k))
    BY <1>5, <1>6 DEF FramesInv, TypeInv
  <2> QED BY <1>1, <2>3, <2>4 DEF FramesInv, TypeInv
<1>9. PlacesInv'
  <2> DEFINE v == [g \in UmemFrames |-> IF w[g] # "cq" THEN w[g] ELSE "fq"]
  <2>1. /\ v \in [UmemFrames -> Places]
        /\ \A g \in UmemFrames : v[g] = IF w[g] # "cq" THEN w[g] ELSE "fq"
    <3>1. "fq" \in Places /\ \A g \in UmemFrames : w[g] \in Places
      BY DEF Places
    <3> QED BY <3>1
  <2> HIDE DEF v
  <2>2. ASSUME NEW g \in UmemFrames
        PROVE  InSeq(fq'[g[1]], g) <=> InSeq(fq[g[1]], g) \/ InSeq(cq, g)
    <3>1. InSeq(cq, g) => g[1] = 0
      <4>1. InSeq(cq, g) => g \in Umem(0)
        BY <1>3, ElementsIn
      <4> QED BY <1>3, <4>1, UmemOf
    <3>2. CASE g[1] = 0
      BY <1>5, <1>6, <3>2
    <3>3. CASE g[1] # 0
      BY <1>6, <3>1, <3>3, UmemOf
    <3> QED BY <3>2, <3>3
  <2>3. PlacedBy(v)'
    BY <1>1, <1>2, <2>1, <2>2, EmptyOnce DEF PlacedBy, CachedAt
  <2> QED BY <2>1, <2>3 DEF PlacesInv
<1>10. OnceInv'
  BY <1>1, <1>5, <1>6, EmptyOnce DEF FramesInv, OnceInv
<1>11. BatchInv'
  BY <1>1 DEF FramesInv, BatchInv
<1>12. CountInv'
  BY <1>1 DEF FramesInv, CountInv
<1> QED BY <1>7, <1>8, <1>9, <1>10, <1>11, <1>12 DEF FramesInv

\* The cards take the frame at the head of a ring.
LEMMA FramesSend ==
  ASSUME NEW r \in Rus, NEW s \in Slots
  PROVE  FramesInv /\ Send(r, s) => FramesInv'
<1> SUFFICES ASSUME FramesInv, Send(r, s) PROVE FramesInv'
  OBVIOUS
<1>1. /\ fq[r] # <<>> /\ fq[r] \in Seq(Umem(r)) /\ Once(fq[r])
      /\ rx[r] \in Seq(Umem(r)) /\ Once(rx[r])
      /\ fq \in [Rus -> Seq(UmemFrames)] /\ rx \in [Rus -> Seq(UmemFrames)]
      /\ content \in [UmemFrames -> Sums] /\ sent \in [Rus -> SUBSET Slots]
      /\ frame \in RadioFrames
  BY DEF Send, FramesInv, TypeInv, TypeOK, OnceInv
<1>2. PICK f, rest : /\ f = Head(fq[r]) /\ rest = Tail(fq[r])
                     /\ f \in Umem(r) /\ InSeq(fq[r], f)
                     /\ rest \in Seq(Umem(r)) /\ Once(rest)
                     /\ \A x : InSeq(rest, x) <=> InSeq(fq[r], x) /\ x # f
  <2>1. /\ Head(fq[r]) \in Umem(r) /\ InSeq(fq[r], Head(fq[r]))
        /\ Tail(fq[r]) \in Seq(Umem(r)) /\ Once(Tail(fq[r]))
        /\ \A x : InSeq(Tail(fq[r]), x) <=> InSeq(fq[r], x) /\ x # Head(fq[r])
    BY <1>1, Popped
  <2> QED BY <2>1
<1>3. f \in UmemFrames /\ f[1] = r
  BY <1>2, UmemOf
<1>4. PICK w \in [UmemFrames -> Places] : PlacedBy(w)
  BY DEF FramesInv, PlacesInv
<1>5. ~InSeq(rx[r], f)
  BY <1>2, <1>3, <1>4 DEF PlacedBy
<1>6. PICK more : /\ more = Append(rx[r], f) /\ more \in Seq(Umem(r)) /\ Once(more)
                  /\ \A y : InSeq(more, y) <=> InSeq(rx[r], y) \/ y = f
  <2>1. /\ Append(rx[r], f) \in Seq(Umem(r)) /\ Once(Append(rx[r], f))
        /\ \A y : InSeq(Append(rx[r], f), y) <=> InSeq(rx[r], y) \/ y = f
    BY <1>1, <1>2, <1>5, Added
  <2> QED BY <2>1
<1>7. /\ sent' = [sent EXCEPT ![r] = sent[r] \cup {s}]
      /\ content' = [content EXCEPT ![f] = [EmptyRow EXCEPT ![r] = UplinkPacket(r, s, frame)]]
      /\ rx' = [rx EXCEPT ![r] = more]
      /\ fq' = [fq EXCEPT ![r] = rest]
      /\ UNCHANGED <<tx, cq, pc, socket_to_process, pkt_frags, frags_to_be_freed, frags_to_be_sent,
                     cached_packets, cached_packets_num, alive, frame, lost, to_du>>
  BY <1>2, <1>6 DEF Send, batchVars, cacheVars
<1>8. /\ fq'[r] = rest /\ rx'[r] = more
      /\ \A k \in Rus : k # r => fq'[k] = fq[k] /\ rx'[k] = rx[k]
  BY <1>1, <1>7
<1>9. TypeInv'
  <2>1. rest \in Seq(UmemFrames) /\ more \in Seq(UmemFrames)
    BY <1>2, <1>6, UmemOf
  <2>2. fq' \in [Rus -> Seq(UmemFrames)] /\ rx' \in [Rus -> Seq(UmemFrames)]
    BY <1>1, <1>7, <2>1
  <2>3. sent' \in [Rus -> SUBSET Slots]
    BY <1>1, <1>7
  <2>4. UplinkPacket(r, s, frame) \in Packet
    BY <1>1 DEF UplinkPacket, Packet, Slots
  <2>5. [EmptyRow EXCEPT ![r] = UplinkPacket(r, s, frame)] \in Sums
    BY <2>4 DEF EmptyRow, Sums
  <2>6. content' \in [UmemFrames -> Sums]
    BY <1>1, <1>7, <2>5
  <2>7. TypeOK'
    BY <1>7, <2>2, <2>3, <2>6 DEF FramesInv, TypeInv, TypeOK
  <2>8. \A k \in Rus : fq'[k] \in Seq(Umem(k)) /\ rx'[k] \in Seq(Umem(k))
    BY <1>2, <1>6, <1>8 DEF FramesInv, TypeInv
  <2> QED BY <1>7, <2>7, <2>8 DEF FramesInv, TypeInv
<1>10. PlacesInv'
  <2> DEFINE v == Moved(w, {f}, "rx")
  <2>1. /\ v \in [UmemFrames -> Places]
        /\ \A g \in UmemFrames : v[g] = IF g = f THEN "rx" ELSE w[g]
    <3>1. /\ v \in [UmemFrames -> Places]
          /\ \A g \in UmemFrames : v[g] = IF g \in {f} THEN "rx" ELSE w[g]
      BY <1>4, MovedType DEF Places
    <3> QED BY <3>1
  <2> HIDE DEF v
  <2>2. ASSUME NEW g \in UmemFrames
        PROVE  /\ InSeq(fq'[g[1]], g) <=> InSeq(fq[g[1]], g) /\ g # f
               /\ InSeq(rx'[g[1]], g) <=> InSeq(rx[g[1]], g) \/ g = f
    <3>1. CASE g[1] = r
      BY <1>2, <1>6, <1>8, <3>1
    <3>2. CASE g[1] # r
      BY <1>3, <1>8, <3>2, UmemOf
    <3> QED BY <3>1, <3>2
  <2>3. w[f] = "fq"
    BY <1>2, <1>3, <1>4 DEF PlacedBy
  <2>4. PlacedBy(v)'
    BY <1>4, <1>7, <2>1, <2>2, <2>3 DEF PlacedBy, CachedAt
  <2> QED BY <2>1, <2>4 DEF PlacesInv
<1>11. OnceInv'
  BY <1>2, <1>6, <1>7, <1>8 DEF FramesInv, OnceInv
<1>12. BatchInv' /\ CountInv'
  BY <1>7 DEF FramesInv, BatchInv, CountInv
<1> QED BY <1>7, <1>9, <1>10, <1>11, <1>12 DEF FramesInv

LEMMA FramesTransmit == FramesInv /\ Transmit => FramesInv'
<1> SUFFICES ASSUME FramesInv, Transmit PROVE FramesInv'
  OBVIOUS
<1>1. /\ tx # <<>> /\ tx \in Seq(Umem(0)) /\ Once(tx) /\ cq \in Seq(Umem(0)) /\ Once(cq)
      /\ content \in [UmemFrames -> Sums] /\ to_du \in [Ports -> Seq(Sums)]
      /\ 0 \in Rus
  BY Sockets DEF Transmit, FramesInv, TypeInv, TypeOK, OnceInv
<1>2. PICK f, rest : /\ f = Head(tx) /\ rest = Tail(tx)
                     /\ f \in Umem(0) /\ InSeq(tx, f)
                     /\ rest \in Seq(Umem(0)) /\ Once(rest)
                     /\ \A x : InSeq(rest, x) <=> InSeq(tx, x) /\ x # f
  <2>1. /\ Head(tx) \in Umem(0) /\ InSeq(tx, Head(tx))
        /\ Tail(tx) \in Seq(Umem(0)) /\ Once(Tail(tx))
        /\ \A x : InSeq(Tail(tx), x) <=> InSeq(tx, x) /\ x # Head(tx)
    BY <1>1, Popped
  <2> QED BY <2>1
<1>3. f \in UmemFrames
  BY <1>1, <1>2, UmemOf
<1>4. PICK w \in [UmemFrames -> Places] : PlacedBy(w)
  BY DEF FramesInv, PlacesInv
<1>5. /\ to_du' = [to_du EXCEPT ![content[f][0].port] =
                               Append(to_du[content[f][0].port], content[f])]
      /\ cq' = Append(cq, f) /\ tx' = rest
      /\ UNCHANGED <<fq, rx, content, pc, socket_to_process, pkt_frags, frags_to_be_freed,
                     frags_to_be_sent, cached_packets, cached_packets_num, alive,
                     frame, sent, lost>>
  BY <1>2 DEF Transmit, batchVars, cacheVars, envVars
<1>6. ~InSeq(cq, f)
  BY <1>2, <1>3, <1>4 DEF PlacedBy
<1>7. /\ cq' \in Seq(Umem(0)) /\ Once(cq')
      /\ \A y : InSeq(cq', y) <=> InSeq(cq, y) \/ y = f
  BY <1>1, <1>2, <1>5, <1>6, Added
<1>8. TypeInv'
  <2>1. cq' \in Seq(UmemFrames) /\ tx' \in Seq(UmemFrames)
    BY <1>1, <1>2, <1>5, <1>7, UmemOf
  <2>2. to_du' \in [Ports -> Seq(Sums)]
    <3>1. PICK p, c : p = content[f][0].port /\ c = content[f] /\ c \in Sums
      BY <1>1, <1>3
    <3>2. \A q \in Ports : to_du'[q] = IF q = p THEN Append(to_du[q], c) ELSE to_du[q]
      BY <1>1, <1>5, <3>1
    <3>3. \A q \in Ports : to_du[q] \in Seq(Sums) /\ Append(to_du[q], c) \in Seq(Sums)
      BY <1>1, <3>1
    <3>4. to_du' = [q \in Ports |-> to_du'[q]]
      BY <1>1, <1>5
    <3> QED BY <3>2, <3>3, <3>4
  <2>3. TypeOK'
    BY <1>5, <2>1, <2>2 DEF FramesInv, TypeInv, TypeOK
  <2> QED BY <1>2, <1>5, <1>7, <2>3 DEF FramesInv, TypeInv
<1>9. PlacesInv'
  <2> DEFINE v == Moved(w, {f}, "cq")
  <2>1. /\ v \in [UmemFrames -> Places]
        /\ \A g \in UmemFrames : v[g] = IF g = f THEN "cq" ELSE w[g]
    <3>1. /\ v \in [UmemFrames -> Places]
          /\ \A g \in UmemFrames : v[g] = IF g \in {f} THEN "cq" ELSE w[g]
      BY <1>4, MovedType DEF Places
    <3> QED BY <3>1
  <2> HIDE DEF v
  <2>2. w[f] = "tx"
    BY <1>2, <1>3, <1>4 DEF PlacedBy
  <2>3. PlacedBy(v)'
    BY <1>2, <1>4, <1>5, <1>7, <2>1, <2>2 DEF PlacedBy, CachedAt
  <2> QED BY <2>1, <2>3 DEF PlacesInv
<1>10. OnceInv'
  BY <1>2, <1>5, <1>7 DEF FramesInv, OnceInv
<1>11. BatchInv' /\ CountInv'
  BY <1>5 DEF FramesInv, BatchInv, CountInv
<1> QED BY <1>5, <1>8, <1>9, <1>10, <1>11 DEF FramesInv

\* A step that leaves the frames where they are.
LEMMA FramesStay ==
  ASSUME FramesInv, TypeOK',
         UNCHANGED <<fq, rx, tx, cq, pc, socket_to_process, pkt_frags, frags_to_be_freed,
                     frags_to_be_sent, cached_packets, cached_packets_num, alive>>
  PROVE  FramesInv'
<1>1. TypeInv' /\ CountInv' /\ OnceInv' /\ BatchInv' /\ alive'
  BY DEF FramesInv, TypeInv, CountInv, OnceInv, BatchInv
<1>2. PICK w \in [UmemFrames -> Places] : PlacedBy(w)
  BY DEF FramesInv, PlacesInv
<1>3. PlacedBy(w)'
  BY <1>2 DEF PlacedBy, CachedAt
<1> QED BY <1>1, <1>2, <1>3 DEF FramesInv, PlacesInv

LEMMA FramesLose ==
  ASSUME NEW r \in Rus, NEW s \in Slots
  PROVE  FramesInv /\ Lose(r, s) => FramesInv'
<1> SUFFICES ASSUME FramesInv, Lose(r, s) PROVE FramesInv'
  OBVIOUS
<1>1. TypeOK
  BY DEF FramesInv, TypeInv
<1>2. /\ sent' = [sent EXCEPT ![r] = sent[r] \cup {s}]
      /\ lost' = lost \cup {UplinkPacket(r, s, frame)}
      /\ UNCHANGED <<fq, rx, tx, cq, content, pc, socket_to_process, pkt_frags, frags_to_be_freed,
                     frags_to_be_sent, cached_packets, cached_packets_num, alive, frame, to_du>>
  BY DEF Lose, rings, batchVars, cacheVars
<1>3. sent' \in [Rus -> SUBSET Slots]
  BY <1>1, <1>2 DEF TypeOK
<1>4. UplinkPacket(r, s, frame) \in Packet
  BY <1>1 DEF UplinkPacket, Packet, Slots, TypeOK
<1>5. TypeOK'
  BY <1>1, <1>2, <1>3, <1>4 DEF TypeOK
<1> QED BY <1>2, <1>5, FramesStay

LEMMA FramesNextFrame == FramesInv /\ NextFrame => FramesInv'
<1> SUFFICES ASSUME FramesInv, NextFrame PROVE FramesInv'
  OBVIOUS
<1>1. TypeOK
  BY DEF FramesInv, TypeInv
<1>2. /\ frame < MaxFrame /\ frame' = frame + 1 /\ sent' = [r \in Rus |-> {}]
      /\ UNCHANGED <<fq, rx, tx, cq, content, pc, socket_to_process, pkt_frags, frags_to_be_freed,
                     frags_to_be_sent, cached_packets, cached_packets_num, alive, lost, to_du>>
  BY DEF NextFrame, rings, batchVars, cacheVars
<1>3. frame' \in RadioFrames
  BY <1>1, <1>2, XdpAssumption DEF TypeOK, RadioFrames
<1>4. TypeOK'
  BY <1>1, <1>2, <1>3 DEF TypeOK
<1> QED BY <1>2, <1>4, FramesStay

LEMMA FramesNext == FramesInv /\ [Next]_vars => FramesInv'
<1> SUFFICES ASSUME FramesInv, [Next]_vars PROVE FramesInv'
  OBVIOUS
<1>1. CASE UNCHANGED vars
  <2>1. TypeOK'
    BY <1>1 DEF vars, rings, batchVars, cacheVars, envVars, FramesInv, TypeInv, TypeOK
  <2> QED BY <1>1, <2>1, FramesStay DEF vars, rings, batchVars, cacheVars
<1>2. CASE Thread
  BY <1>2, FramesRxPackets, FramesCacheFrag, FramesMergeGroup, FramesReturnFrames,
     FramesQueueSums, FramesCollectCompleted DEF Thread
<1>3. ASSUME NEW r \in Rus, NEW s \in Slots, Send(r, s) \/ Lose(r, s) PROVE FramesInv'
  BY <1>3, FramesSend, FramesLose
<1>4. CASE Transmit
  BY <1>4, FramesTransmit
<1>5. CASE NextFrame
  BY <1>5, FramesNextFrame
<1>6. CASE Idle
  BY <1>1, <1>6 DEF Idle
<1> QED BY <1>1, <1>2, <1>3, <1>4, <1>5, <1>6 DEF Next

THEOREM FramesInvariant == Spec => []FramesInv
<1>1. Init => FramesInv
  BY FramesInit
<1>2. FramesInv /\ [Next]_vars => FramesInv'
  BY FramesNext
<1> QED BY <1>1, <1>2, PTL DEF Spec

\* Every assertion of process_rcvd_pkt and tx_free_pkt holds, so the thread
\* never aborts: when it returns frames, the fill ring has room for all of
\* them, the TX ring has room for the sums, the lists on its stack never
\* overflow, and the completion ring never holds more than its entries,
\* whatever the sizes of rings and batches and whatever is lost.
THEOREM RoomForAll == Spec => []EnoughRoom
<1>1. ASSUME FramesInv PROVE EnoughRoom
  <2>1. /\ \A r \in Rus : Len(frags_to_be_freed[r]) \in Nat
        /\ Len(frags_to_be_sent) \in Nat /\ Len(pkt_frags) \in Nat /\ BATCH_SIZE \in Nat
    BY <1>1, XdpAssumption DEF FramesInv, TypeInv, TypeOK
  <2>2. /\ \A r \in Rus : Len(frags_to_be_freed[r]) <= BATCH_SIZE
        /\ Len(frags_to_be_sent) <= BATCH_SIZE
    BY <1>1, <2>1 DEF FramesInv, BatchInv
  <2>3. cq \in Seq(Umem(0)) /\ Once(cq)
    BY <1>1 DEF FramesInv, TypeInv, OnceInv
  <2>4. Len(cq) <= RING_SIZE
    BY <2>3, RingHasRoom, Sockets
  <2> QED BY <1>1, <2>2, <2>4 DEF FramesInv, EnoughRoom
<1> QED BY <1>1, FramesInvariant, PTL

-----------------------------------------------------------------------------
(* Counting the uses of a frame                                            *)

LEMMA OccursOnce ==
  ASSUME NEW U, NEW q \in Seq(U), Once(q), NEW x
  PROVE  Occurrences(x, q) = IF InSeq(q, x) THEN 1 ELSE 0
<1>1. DOMAIN q = 1 .. Len(q)
  OBVIOUS
<1>2. CASE InSeq(q, x)
  <2>1. PICK i \in 1 .. Len(q) : q[i] = x
    BY <1>2 DEF InSeq
  <2>2. {j \in DOMAIN q : q[j] = x} = {i}
    BY <1>1, <2>1 DEF Once
  <2>3. Cardinality({i}) = 1
    BY FS_Singleton
  <2> QED BY <1>2, <2>2, <2>3 DEF Occurrences
<1>3. CASE ~InSeq(q, x)
  <2>1. {j \in DOMAIN q : q[j] = x} = {}
    BY <1>1, <1>3 DEF InSeq
  <2> QED BY <1>3, <2>1, FS_EmptySet DEF Occurrences
<1> QED BY <1>2, <1>3

\* Three lists that share no frame.
LEMMA ThreeJoined ==
  ASSUME NEW U, NEW a \in Seq(U), NEW b \in Seq(U), NEW c \in Seq(U),
         Once(a), Once(b), Once(c), Apart(a, b), Apart(a, c), Apart(b, c)
  PROVE  \A x : Occurrences(x, a \o b \o c) =
                  IF InSeq(a, x) \/ InSeq(b, x) \/ InSeq(c, x) THEN 1 ELSE 0
<1>1. PICK d : /\ d = a \o b /\ d \in Seq(U) /\ Once(d)
               /\ \A x : InSeq(d, x) <=> InSeq(a, x) \/ InSeq(b, x)
  <2>1. /\ a \o b \in Seq(U) /\ Once(a \o b)
        /\ \A x : InSeq(a \o b, x) <=> InSeq(a, x) \/ InSeq(b, x)
    BY Joined
  <2> QED BY <2>1
<1>2. Apart(d, c)
  BY <1>1 DEF Apart
<1>3. PICK e : /\ e = d \o c /\ e \in Seq(U) /\ Once(e)
               /\ \A x : InSeq(e, x) <=> InSeq(d, x) \/ InSeq(c, x)
  <2>1. /\ d \o c \in Seq(U) /\ Once(d \o c)
        /\ \A x : InSeq(d \o c, x) <=> InSeq(d, x) \/ InSeq(c, x)
    BY <1>1, <1>2, Joined
  <2> QED BY <2>1
<1>4. \A x : Occurrences(x, e) = IF InSeq(e, x) THEN 1 ELSE 0
  BY <1>3, OccursOnce
<1> QED BY <1>1, <1>3, <1>4

LEMMA UsesOf ==
  ASSUME FramesInv, NEW w, PlacedBy(w), NEW f \in UmemFrames, w[f] \in Places
  PROVE  Uses(f) = IF w[f] = "gone" THEN 0 ELSE 1
<1> DEFINE r == f[1]
<1>1. r \in Rus /\ f \in Umem(r) /\ f # NULL
  BY UmemOf
<1>2. /\ fq[r] \in Seq(Umem(r)) /\ rx[r] \in Seq(Umem(r)) /\ frags_to_be_freed[r] \in Seq(Umem(r))
      /\ Once(fq[r]) /\ Once(rx[r]) /\ Once(frags_to_be_freed[r])
      /\ frags_to_be_sent \in Seq(Umem(0)) /\ tx \in Seq(Umem(0)) /\ cq \in Seq(Umem(0))
      /\ Once(frags_to_be_sent) /\ Once(tx) /\ Once(cq)
      /\ pkt_frags \in Seq(Umem(socket_to_process)) /\ Once(pkt_frags)
      /\ socket_to_process \in Rus
  BY <1>1 DEF FramesInv, TypeInv, TypeOK, OnceInv
<1>3. /\ Apart(fq[r], rx[r]) /\ Apart(fq[r], frags_to_be_freed[r])
      /\ Apart(rx[r], frags_to_be_freed[r])
  <2>1. ASSUME NEW g, InSeq(fq[r], g) \/ InSeq(rx[r], g)
        PROVE  g \in UmemFrames /\ g[1] = r
    <3>1. g \in Umem(r)
      BY <1>2, <2>1, ElementsIn
    <3> QED BY <1>1, <3>1, UmemOf
  <2> QED BY <2>1 DEF Apart, PlacedBy
<1>4. Apart(frags_to_be_sent, tx) /\ Apart(frags_to_be_sent, cq) /\ Apart(tx, cq)
  <2>1. ASSUME NEW g, InSeq(frags_to_be_sent, g) \/ InSeq(tx, g)
        PROVE  g \in UmemFrames
    <3>1. g \in Umem(0)
      BY <1>2, <2>1, ElementsIn
    <3> QED BY <3>1, UmemOf, Sockets
  <2> QED BY <2>1 DEF Apart, PlacedBy
<1>5. Occurrences(f, fq[r] \o rx[r] \o frags_to_be_freed[r]) =
        IF w[f] \in {"fq", "rx", "freed"} THEN 1 ELSE 0
  <2>1. Occurrences(f, fq[r] \o rx[r] \o frags_to_be_freed[r]) =
          IF InSeq(fq[r], f) \/ InSeq(rx[r], f) \/ InSeq(frags_to_be_freed[r], f) THEN 1 ELSE 0
    BY <1>2, <1>3, ThreeJoined
  <2> QED BY <2>1 DEF PlacedBy
<1>6. (IF r = socket_to_process THEN Occurrences(f, pkt_frags) ELSE 0) =
        IF w[f] = "batch" THEN 1 ELSE 0
  <2>1. Occurrences(f, pkt_frags) = IF w[f] = "batch" THEN 1 ELSE 0
    BY <1>2, OccursOnce DEF PlacedBy
  <2>2. w[f] = "batch" => r = socket_to_process
    <3>1. w[f] = "batch" => f \in Umem(socket_to_process)
      BY <1>2, ElementsIn DEF PlacedBy
    <3> QED BY <1>2, <3>1, UmemOf
  <2> QED BY <2>1, <2>2
<1>7. Cardinality({s \in Slots : cached_packets[s][r] = f}) = IF w[f] = "cache" THEN 1 ELSE 0
  <2>1. CASE w[f] = "cache"
    <3>1. PICK s \in Slots : cached_packets[s][r] = f
      BY <2>1 DEF PlacedBy, CachedAt
    <3>2. {t \in Slots : cached_packets[t][r] = f} = {s}
      BY <1>1, <3>1 DEF FramesInv, OnceInv
    <3> QED BY <2>1, <3>2, FS_Singleton
  <2>2. CASE w[f] # "cache"
    <3>1. {t \in Slots : cached_packets[t][r] = f} = {}
      BY <2>2 DEF PlacedBy, CachedAt
    <3> QED BY <2>2, <3>1, FS_EmptySet
  <2> QED BY <2>1, <2>2
<1>8. (IF r = 0 THEN Occurrences(f, frags_to_be_sent \o tx \o cq) ELSE 0) =
        IF w[f] \in {"sums", "tx", "cq"} THEN 1 ELSE 0
  <2>1. Occurrences(f, frags_to_be_sent \o tx \o cq) =
          IF InSeq(frags_to_be_sent, f) \/ InSeq(tx, f) \/ InSeq(cq, f) THEN 1 ELSE 0
    BY <1>2, <1>4, ThreeJoined
  <2>2. w[f] \in {"sums", "tx", "cq"} => r = 0
    <3>1. w[f] \in {"sums", "tx", "cq"} => f \in Umem(0)
      BY <1>2, ElementsIn DEF PlacedBy
    <3> QED BY <3>1, UmemOf, Sockets
  <2> QED BY <2>1, <2>2 DEF PlacedBy
<1>9. Uses(f) = (IF w[f] \in {"fq", "rx", "freed"} THEN 1 ELSE 0)
                + (IF w[f] = "batch" THEN 1 ELSE 0)
                + (IF w[f] = "cache" THEN 1 ELSE 0)
                + (IF w[f] \in {"sums", "tx", "cq"} THEN 1 ELSE 0)
  BY <1>5, <1>6, <1>7, <1>8 DEF Uses
<1> QED BY <1>9 DEF Places

-----------------------------------------------------------------------------
(* What the frames hold, and what waits to be handled                      *)

\* What a frame holds that RU r's packet for slot s of radio frame g was
\* received into.
Single(r, s, g) == [EmptyRow EXCEPT ![r] = UplinkPacket(r, s, g)]

\* The packet waits in the RX ring or in the batch.
InQueue(r, f) == InSeq(rx[r], f) \/ (r = socket_to_process /\ InSeq(pkt_frags, f))
Waits(r, s, g) == \E f \in Umem(r) : InQueue(r, f) /\ content[f] = Single(r, s, g)

\* The packet is in the cache.
Keeps(s, r, g) == cached_packets[s][r] # NULL /\ content[cached_packets[s][r]] = Single(r, s, g)
Has(s, r) == cached_packets[s][r] # NULL

\* A batch is of one radio frame, b, which may be over before its packets are
\* handled: NextFrame waits for the RX rings, not for the thread.
QueuesHold(b) == \A r \in Rus : \A f \in Umem(r) :
  /\ InSeq(rx[r], f) => \E s \in sent[r] : content[f] = Single(r, s, frame)
  /\ r = socket_to_process /\ InSeq(pkt_frags, f) =>
       \E s \in Slots : content[f] = Single(r, s, b) /\ (b = frame => s \in sent[r])
WaitsOnce == \A r \in Rus : \A f, g \in Umem(r) :
  InQueue(r, f) /\ InQueue(r, g) /\ content[f] = content[g] => f = g
RowsHold(b) == \A s \in Slots, r \in Rus : Has(s, r) =>
  \E g \in RadioFrames : g <= b /\ Keeps(s, r, g)
LostSent == \A p \in lost : p.frame <= frame /\ (p.frame = frame => SlotOf(p) \in sent[p.ru])

\* Since the batch was taken no ring was polled, so that everything sent after
\* its radio frame was lost or waits.
SinceLost(b) == b < frame =>
  \A r \in Rus, s \in Slots :
    /\ \A g \in RadioFrames : b < g /\ g < frame => UplinkPacket(r, s, g) \in lost
    /\ s \in sent[r] /\ ~Waits(r, s, frame) => UplinkPacket(r, s, frame) \in lost

ContentInv(b) ==
  /\ b \in RadioFrames /\ b <= frame /\ (pc # "frags" => b = frame)
  /\ QueuesHold(b) /\ WaitsOnce /\ RowsHold(b) /\ LostSent /\ SinceLost(b)

LEMMA SingleIs ==
  ASSUME NEW r \in Rus, NEW s \in Slots, NEW g \in RadioFrames
  PROVE  LET p == UplinkPacket(r, s, g)
         IN  /\ p \in Packet /\ p.ru = r /\ p.frame = g /\ SlotOf(p) = s
             /\ Single(r, s, g)[r] = p /\ Single(r, s, g) \in Sums
<1>1. s = <<s[1], s[2]>> /\ s[1] \in Ports /\ s[2] \in Keys
  BY DEF Slots
<1>2. UplinkPacket(r, s, g) \in Packet
  BY <1>1 DEF UplinkPacket, Packet
<1>3. /\ UplinkPacket(r, s, g).ru = r /\ UplinkPacket(r, s, g).frame = g
      /\ SlotOf(UplinkPacket(r, s, g)) = s
  BY <1>1 DEF UplinkPacket, SlotOf
<1>4. PICK p : p = UplinkPacket(r, s, g) /\ p \in Packet
  BY <1>2
<1>5. [EmptyRow EXCEPT ![r] = p][r] = p /\ [EmptyRow EXCEPT ![r] = p] \in Sums
  BY <1>4 DEF EmptyRow, Sums
<1> QED BY <1>3, <1>4, <1>5 DEF Single

\* What a frame holds tells the slot and the radio frame.
LEMMA SingleTells ==
  ASSUME NEW r \in Rus, NEW s \in Slots, NEW t \in Slots,
         NEW g \in RadioFrames, NEW h \in RadioFrames, Single(r, s, g) = Single(r, t, h)
  PROVE  s = t /\ g = h
<1>1. UplinkPacket(r, s, g) = UplinkPacket(r, t, h)
  BY SingleIs
<1> QED BY <1>1, SingleIs

LEMMA Numbers ==
  ASSUME TypeOK
  PROVE  /\ frame \in RadioFrames /\ frame \in Nat /\ MaxFrame \in Nat
         /\ \A g \in RadioFrames : g \in Nat
         /\ sent \in [Rus -> SUBSET Slots] /\ lost \subseteq Packet
         /\ content \in [UmemFrames -> Sums]
BY XdpAssumption DEF TypeOK, RadioFrames

LEMMA PacketIs ==
  ASSUME NEW p \in Packet
  PROVE  p.ru \in Rus /\ SlotOf(p) \in Slots /\ p.frame \in RadioFrames
         /\ p = UplinkPacket(p.ru, SlotOf(p), p.frame)
BY DEF Packet, SlotOf, Slots, UplinkPacket

\* What waits is of this radio frame, and was sent, or of the batch's.
LEMMA WaitingIs ==
  ASSUME FramesInv, NEW b, ContentInv(b), NEW r \in Rus, NEW s \in Slots,
         NEW g \in RadioFrames, Waits(r, s, g)
  PROVE  /\ g = frame => s \in sent[r]
         /\ g # frame => g = b /\ r = socket_to_process /\ pc = "frags"
<1>1. TypeOK
  BY DEF FramesInv, TypeInv
<1>2. PICK f \in Umem(r) : InQueue(r, f) /\ content[f] = Single(r, s, g)
  BY DEF Waits
<1>3. b \in RadioFrames /\ frame \in RadioFrames /\ sent \in [Rus -> SUBSET Slots]
  BY <1>1, Numbers DEF ContentInv
<1>4. CASE InSeq(rx[r], f)
  <2>1. PICK t \in sent[r] : content[f] = Single(r, t, frame)
    BY <1>4 DEF ContentInv, QueuesHold
  <2>2. t \in Slots /\ Single(r, s, g) = Single(r, t, frame)
    BY <1>2, <1>3, <2>1
  <2>3. s = t /\ g = frame
    BY <1>3, <2>2, SingleTells
  <2> QED BY <2>1, <2>3
<1>5. CASE ~InSeq(rx[r], f)
  <2>1. r = socket_to_process /\ InSeq(pkt_frags, f)
    BY <1>2, <1>5 DEF InQueue
  <2>2. PICK t \in Slots : content[f] = Single(r, t, b) /\ (b = frame => t \in sent[r])
    BY <2>1 DEF ContentInv, QueuesHold
  <2>3. Single(r, s, g) = Single(r, t, b)
    BY <1>2, <2>2
  <2>4. s = t /\ g = b
    BY <1>3, <2>3, SingleTells
  <2>5. pc = "frags"
    BY <2>1, EmptyOnce DEF FramesInv, BatchInv
  <2> QED BY <2>1, <2>2, <2>4, <2>5
<1> QED BY <1>4, <1>5

\* What is in a row is one packet.
LEMMA KeptIs ==
  ASSUME FramesInv, NEW b, ContentInv(b), NEW s \in Slots, NEW r \in Rus
  PROVE  /\ Has(s, r) <=> \E g \in RadioFrames : Keeps(s, r, g)
         /\ \A g, h \in RadioFrames : Keeps(s, r, g) /\ Keeps(s, r, h) => g = h
         /\ \A g \in RadioFrames : Keeps(s, r, g) => g <= b
<1>1. Has(s, r) <=> \E g \in RadioFrames : Keeps(s, r, g) /\ g <= b
  BY DEF ContentInv, RowsHold, Has, Keeps
<1>2. ASSUME NEW g \in RadioFrames, NEW h \in RadioFrames, Keeps(s, r, g), Keeps(s, r, h)
      PROVE  g = h
  <2>1. Single(r, s, g) = Single(r, s, h)
    BY <1>2 DEF Keeps
  <2> QED BY <2>1, SingleTells
<1>3. \A g \in RadioFrames : Keeps(s, r, g) => g <= b
  BY <1>1, <1>2 DEF Has, Keeps
<1> QED BY <1>1, <1>2, <1>3 DEF Has, Keeps

-----------------------------------------------------------------------------
(* What a step does to the queues and to what the frames hold              *)

\* Most steps touch neither.
ContentSame ==
  UNCHANGED <<rx, pkt_frags, content, cached_packets, socket_to_process, frame, sent, lost>>

LEMMA ContentQuiet ==
  ASSUME NEW b, ContentInv(b), ContentSame, pc' # "frags" => b = frame
  PROVE  ContentInv(b)'
<1>1. QueuesHold(b)' /\ WaitsOnce' /\ RowsHold(b)' /\ LostSent' /\ SinceLost(b)'
  BY DEF ContentInv, ContentSame, QueuesHold, WaitsOnce, RowsHold, LostSent, SinceLost,
         Waits, InQueue, Has, Keeps
<1> QED BY <1>1 DEF ContentInv, ContentSame

\* A batch that has been handled is of this radio frame as well as of its own.
LEMMA CatchUp ==
  ASSUME FramesInv, NEW b, ContentInv(b), pkt_frags = <<>>, NEW c, c = frame
  PROVE  ContentInv(c)
<1>1. frame \in RadioFrames /\ \A g \in RadioFrames : g \in Nat
  BY Numbers DEF FramesInv, TypeInv
<1>2. QueuesHold(c)
  BY EmptyOnce DEF ContentInv, QueuesHold
<1>3. RowsHold(c)
  <2> SUFFICES ASSUME NEW s \in Slots, NEW r \in Rus, Has(s, r)
               PROVE  \E g \in RadioFrames : g <= c /\ Keeps(s, r, g)
    BY DEF RowsHold
  <2>1. PICK g \in RadioFrames : g <= b /\ Keeps(s, r, g)
    BY DEF ContentInv, RowsHold
  <2>2. b \in RadioFrames /\ b <= frame
    BY DEF ContentInv
  <2>3. g <= c
    BY <1>1, <2>1, <2>2
  <2> QED BY <2>1, <2>3
<1>4. SinceLost(c)
  BY <1>1 DEF SinceLost
<1> QED BY <1>1, <1>2, <1>3, <1>4 DEF ContentInv

\* The batch is taken from the RX ring, in the middle of the queue.
LEMMA TakenQueues ==
  ASSUME FramesInv, NEW i \in Rus, RxPackets(i)
  PROVE  /\ pkt_frags = <<>> /\ pc = "poll" /\ pc' = "frags" /\ socket_to_process' = i
         /\ \A r \in Rus : \A f \in Umem(r) :
              /\ InQueue(r, f)' <=> InQueue(r, f)
              /\ InSeq(rx'[r], f) => InSeq(rx[r], f)
              /\ InSeq(pkt_frags', f) => InSeq(rx[i], f) /\ r = i
         /\ UNCHANGED <<fq, tx, cq, content, cached_packets, frags_to_be_sent, frame, sent, lost,
                        to_du>>
<1>1. /\ rx[i] # <<>> /\ rx[i] \in Seq(Umem(i)) /\ Once(rx[i])
      /\ rx \in [Rus -> Seq(UmemFrames)]
  BY DEF RxPackets, FramesInv, TypeInv, TypeOK, OnceInv
<1>2. PICK batch, rest :
        /\ batch \in Seq(Umem(i))
        /\ \A x : InSeq(rx[i], x) <=> InSeq(batch, x) \/ InSeq(rest, x)
        /\ pkt_frags' = batch /\ rx' = [rx EXCEPT ![i] = rest]
  <2>1. /\ pkt_frags' = BatchOf(rx[i])
        /\ rx' = [rx EXCEPT ![i] = SubSeq(rx[i], Len(BatchOf(rx[i])) + 1, Len(rx[i]))]
    BY <1>1 DEF RxPackets
  <2> QED BY <1>1, <2>1, BatchTaken
<1>3. /\ pc = "poll" /\ pc' = "frags" /\ socket_to_process' = i /\ pkt_frags = <<>>
      /\ UNCHANGED <<fq, tx, cq, content, cached_packets, frags_to_be_sent, frame, sent, lost,
                     to_du>>
  BY DEF RxPackets, cacheVars, envVars, FramesInv, BatchInv
<1>4. rx'[i] = rest /\ \A r \in Rus : r # i => rx'[r] = rx[r]
  BY <1>1, <1>2
<1>5. ASSUME NEW r \in Rus, NEW f \in Umem(r)
      PROVE  /\ InQueue(r, f)' <=> InQueue(r, f)
             /\ InSeq(rx'[r], f) => InSeq(rx[r], f)
             /\ InSeq(pkt_frags', f) => InSeq(rx[i], f) /\ r = i
  <2>1. InSeq(batch, f) => r = i
    BY <1>2, ElementsIn, UmemOf
  <2>2. InQueue(r, f) <=> InSeq(rx[r], f)
    BY <1>3, EmptyOnce DEF InQueue
  <2>3. InQueue(r, f)' <=> InSeq(rx'[r], f) \/ (r = i /\ InSeq(batch, f))
    BY <1>2, <1>3 DEF InQueue
  <2> QED BY <1>2, <1>4, <2>1, <2>2, <2>3
<1> QED BY <1>3, <1>5

\* The packet that is handled leaves the queue.
LEMMA HandledQueues ==
  ASSUME FramesInv, NEW f \in Umem(socket_to_process), NEW s \in Slots, Handles(f, s)
  PROVE  \A q \in Rus : \A x \in Umem(q) :
           /\ InQueue(q, x)' <=> InQueue(q, x) /\ x # f
           /\ InSeq(rx'[q], x) <=> InSeq(rx[q], x)
           /\ InSeq(pkt_frags', x) => InSeq(pkt_frags, x)
<1>1. /\ InSeq(pkt_frags, f) /\ f \in UmemFrames /\ f[1] = socket_to_process
      /\ \A x : InSeq(pkt_frags', x) <=> InSeq(pkt_frags, x) /\ x # f
      /\ UNCHANGED <<rx, socket_to_process>>
  BY HandledLeaves
<1>2. ~InSeq(rx[socket_to_process], f)
  BY <1>1 DEF FramesInv, PlacesInv, PlacedBy
<1>3. ASSUME NEW q \in Rus, NEW x \in Umem(q)
      PROVE  InQueue(q, x)' <=> InQueue(q, x) /\ x # f
  <2>1. x = f => q = socket_to_process
    BY <1>1, UmemOf
  <2>2. InQueue(q, x)' <=> InSeq(rx[q], x) \/ (q = socket_to_process /\ InSeq(pkt_frags, x) /\ x # f)
    BY <1>1 DEF InQueue
  <2> QED BY <1>2, <2>1, <2>2 DEF InQueue
<1> QED BY <1>1, <1>3

\* A packet that is received joins the queue, in a frame that was in none of
\* the other places.
LEMMA SentQueues ==
  ASSUME FramesInv, NEW r \in Rus, NEW s \in Slots, Send(r, s)
  PROVE  \E f \in Umem(r) :
           /\ \A q \in Rus : \A x \in Umem(q) :
                /\ InQueue(q, x)' <=> InQueue(q, x) \/ x = f
                /\ InSeq(rx'[q], x) <=> InSeq(rx[q], x) \/ x = f
           /\ ~InQueue(r, f) /\ ~InSeq(pkt_frags, f) /\ ~InSeq(tx, f) /\ ~InSeq(frags_to_be_sent, f)
           /\ \A t \in Slots, q \in Rus : cached_packets[t][q] # f
           /\ \A x \in UmemFrames : content'[x] = IF x = f THEN Single(r, s, frame) ELSE content[x]
           /\ \A x \in Umem(0) : InSeq(fq[0], x) \/ InSeq(rx[0], x) <=>
                                  InSeq(fq'[0], x) \/ InSeq(rx'[0], x)
<1>1. /\ fq[r] # <<>> /\ fq[r] \in Seq(Umem(r)) /\ Once(fq[r])
      /\ rx[r] \in Seq(Umem(r)) /\ Once(rx[r])
      /\ fq \in [Rus -> Seq(UmemFrames)] /\ rx \in [Rus -> Seq(UmemFrames)]
      /\ content \in [UmemFrames -> Sums]
  BY DEF Send, FramesInv, TypeInv, TypeOK, OnceInv
<1>2. PICK f, rest : /\ f = Head(fq[r]) /\ rest = Tail(fq[r])
                     /\ f \in Umem(r) /\ InSeq(fq[r], f)
                     /\ \A x : InSeq(rest, x) <=> InSeq(fq[r], x) /\ x # f
  <2>1. /\ Head(fq[r]) \in Umem(r) /\ InSeq(fq[r], Head(fq[r]))
        /\ \A x : InSeq(Tail(fq[r]), x) <=> InSeq(fq[r], x) /\ x # Head(fq[r])
    BY <1>1, Popped
  <2> QED BY <2>1
<1>3. f \in UmemFrames /\ f[1] = r /\ f # NULL
  BY <1>2, UmemOf
<1>4. PICK w \in [UmemFrames -> Places] : PlacedBy(w)
  BY DEF FramesInv, PlacesInv
<1>5. /\ ~InSeq(rx[r], f) /\ ~InSeq(pkt_frags, f) /\ ~CachedAt(f)
      /\ ~InSeq(tx, f) /\ ~InSeq(frags_to_be_sent, f)
  BY <1>2, <1>3, <1>4 DEF PlacedBy
<1>6. PICK more : more = Append(rx[r], f) /\ \A y : InSeq(more, y) <=> InSeq(rx[r], y) \/ y = f
  <2>1. \A y : InSeq(Append(rx[r], f), y) <=> InSeq(rx[r], y) \/ y = f
    BY <1>1, <1>2, <1>5, Added
  <2> QED BY <2>1
<1>7. /\ content' = [content EXCEPT ![f] = Single(r, s, frame)]
      /\ rx' = [rx EXCEPT ![r] = more] /\ fq' = [fq EXCEPT ![r] = rest]
      /\ UNCHANGED <<socket_to_process, pkt_frags>>
  BY <1>2, <1>6 DEF Send, batchVars, Single
<1>8. /\ fq'[r] = rest /\ rx'[r] = more
      /\ \A k \in Rus : k # r => fq'[k] = fq[k] /\ rx'[k] = rx[k]
  BY <1>1, <1>7
<1>9. ASSUME NEW q \in Rus, NEW x \in Umem(q)
      PROVE  /\ InSeq(rx'[q], x) <=> InSeq(rx[q], x) \/ x = f
             /\ InSeq(fq'[q], x) <=> InSeq(fq[q], x) /\ x # f
             /\ InQueue(q, x)' <=> InQueue(q, x) \/ x = f
  <2>1. x = f => q = r
    BY <1>3, UmemOf
  <2>2. InSeq(rx'[q], x) <=> InSeq(rx[q], x) \/ x = f
    BY <1>6, <1>8, <2>1
  <2>3. InSeq(fq'[q], x) <=> InSeq(fq[q], x) /\ x # f
    BY <1>2, <1>8, <2>1
  <2> QED BY <1>7, <2>2, <2>3 DEF InQueue
<1>10. \A x \in Umem(0) : InSeq(fq[0], x) \/ InSeq(rx[0], x) <=>
                          InSeq(fq'[0], x) \/ InSeq(rx'[0], x)
  <2>1. \A x \in Umem(0) : x = f => r = 0
    BY <1>3, Sockets, UmemOf
  <2> QED BY <1>2, <1>9, <2>1, Sockets
<1>11. \A t \in Slots, q \in Rus : cached_packets[t][q] # f
  <2> SUFFICES ASSUME NEW t \in Slots, NEW q \in Rus, cached_packets[t][q] = f PROVE FALSE
    OBVIOUS
  <2>1. cached_packets[t][q][1] = q
    BY <1>3, <1>4, PlaceOf
  <2> QED BY <1>3, <1>5, <2>1 DEF CachedAt
<1>12. ~InQueue(r, f)
  BY <1>5 DEF InQueue
<1>13. \A x \in UmemFrames : content'[x] = IF x = f THEN Single(r, s, frame) ELSE content[x]
  BY <1>1, <1>7
<1> QED BY <1>2, <1>5, <1>9, <1>10, <1>11, <1>12, <1>13

-----------------------------------------------------------------------------
(* The packet that is handled                                              *)

\* It is in the cache then.  A row that still held one of its RU is emptied
\* first.
LEMMA CacheFragIs ==
  ASSUME FramesInv, CacheFrag
  PROVE  LET r == socket_to_process
         IN  \E f \in Umem(r), s \in Slots :
               /\ Handles(f, s)
               /\ \A q \in Rus : cached_packets'[s][q] =
                    IF q = r THEN f ELSE IF Occupied(s, r) THEN NULL ELSE cached_packets[s][q]
               /\ \A t \in Slots \ {s} : cached_packets'[t] = cached_packets[t]
               /\ UNCHANGED <<content, frags_to_be_sent>>
<1> DEFINE r == socket_to_process
<1>1. PICK f \in Umem(r), s \in Slots :
        /\ Handles(f, s) /\ ~Complete(s, r)
        /\ cached_packets' = [cached_packets EXCEPT ![s] = RowWith(s, r, f)]
        /\ UNCHANGED <<content, frags_to_be_sent>>
  BY DEF CacheFrag
<1>2. r \in Rus
  BY DEF FramesInv, TypeInv, TypeOK
<1>3. cached_packets \in [Slots -> [Rus -> UmemFrames \cup {NULL}]]
  BY DEF FramesInv, TypeInv, TypeOK
<1>4. \A q \in Rus : RowWith(s, r, f)[q] =
         IF q = r THEN f ELSE IF Occupied(s, r) THEN NULL ELSE cached_packets[s][q]
  BY <1>1, <1>2, RowAndCount DEF FramesInv
<1>5. cached_packets'[s] = RowWith(s, r, f)
      /\ \A t \in Slots \ {s} : cached_packets'[t] = cached_packets[t]
  BY <1>1, <1>3
<1>6. \A q \in Rus : cached_packets'[s][q] =
         IF q = r THEN f ELSE IF Occupied(s, r) THEN NULL ELSE cached_packets[s][q]
  BY <1>4, <1>5
<1> QED BY <1>1, <1>5, <1>6

\* Or it was the last of its group; the sum is in RU 0's frame then.
LEMMA MergeGroupIs ==
  ASSUME FramesInv, MergeGroup
  PROVE  LET r == socket_to_process
         IN  \E f \in Umem(r), s \in Slots : \E row :
               /\ Handles(f, s) /\ ~Has(s, r)
               /\ \A q \in Rus : row[q] = (IF q = r THEN f ELSE cached_packets[s][q])
                                 /\ row[q] \in Umem(q)
               /\ content' = [content EXCEPT ![row[0]] = [q \in Rus |-> content[row[q]][q]]]
               /\ \A q \in Rus : cached_packets'[s][q] = NULL
               /\ \A t \in Slots \ {s} : cached_packets'[t] = cached_packets[t]
               /\ frags_to_be_sent' = Append(frags_to_be_sent, row[0])
<1> DEFINE r == socket_to_process
<1>1. PICK f \in Umem(r), s \in Slots :
        /\ Handles(f, s) /\ Complete(s, r)
        /\ content' = [content EXCEPT ![RowWith(s, r, f)[0]] = SumOf(RowWith(s, r, f))]
        /\ cached_packets' = [cached_packets EXCEPT ![s] = EmptyRow]
        /\ frags_to_be_sent' = Append(frags_to_be_sent, RowWith(s, r, f)[0])
  BY DEF MergeGroup, Merged
<1>2. r \in Rus
  BY DEF FramesInv, TypeInv, TypeOK
<1>3. ~Occupied(s, r)
  BY <1>1, <1>2, EvictsBeforeComplete DEF FramesInv
<1>4. /\ cached_packets \in [Slots -> [Rus -> UmemFrames \cup {NULL}]]
      /\ \A t \in Slots, q \in Rus : cached_packets[t][q] \in Umem(q) \cup {NULL}
  BY DEF FramesInv, TypeInv, TypeOK
<1>5. PICK row :
        /\ row = RowWith(s, r, f)
        /\ \A q \in Rus : row[q] = (IF q = r THEN f ELSE cached_packets[s][q]) /\ row[q] \in Umem(q)
  <2>1. \A q \in Rus : RowWith(s, r, f)[q] # NULL
    BY <1>1, <1>2, RowAndCount DEF FramesInv
  <2>2. \A q \in Rus : RowWith(s, r, f)[q] =
             IF q = r THEN f ELSE IF Occupied(s, r) THEN NULL ELSE cached_packets[s][q]
    BY <1>1, <1>2, RowAndCount DEF FramesInv
  <2>3. \A q \in Rus : RowWith(s, r, f)[q] = IF q = r THEN f ELSE cached_packets[s][q]
    BY <1>3, <2>2
  <2>4. \A q \in Rus : RowWith(s, r, f)[q] \in Umem(q)
    BY <1>4, <2>1, <2>3
  <2> QED BY <2>3, <2>4
<1>6. cached_packets'[s] = EmptyRow
      /\ \A t \in Slots \ {s} : cached_packets'[t] = cached_packets[t]
  BY <1>1, <1>4
<1>7. \A q \in Rus : EmptyRow[q] = NULL
  BY DEF EmptyRow
<1>8. content' = [content EXCEPT ![row[0]] = [q \in Rus |-> content[row[q]][q]]]
  BY <1>1, <1>5 DEF SumOf
<1>9. ~Has(s, r) /\ \A q \in Rus : cached_packets'[s][q] = NULL
  BY <1>3, <1>6, <1>7 DEF Occupied, Has
<1>10. Handles(f, s) /\ frags_to_be_sent' = Append(frags_to_be_sent, row[0])
  BY <1>1, <1>5
<1> QED BY <1>5, <1>6, <1>8, <1>9, <1>10

\* Frames in the queues and the cache are apart.
LEMMA QueuedOrCached ==
  ASSUME FramesInv
  PROVE  /\ \A q \in Rus, p \in Rus : \A x \in Umem(q), t \in Slots :
              InQueue(q, x) => cached_packets[t][p] # x
         /\ \A q, p \in Rus, t, u \in Slots :
              Has(t, q) /\ cached_packets[t][q] = cached_packets[u][p] => t = u /\ q = p
<1>1. PICK w \in [UmemFrames -> Places] : PlacedBy(w)
  BY DEF FramesInv, PlacesInv
<1>2. \A t \in Slots, q \in Rus : cached_packets[t][q] # NULL =>
              /\ cached_packets[t][q] \in UmemFrames /\ cached_packets[t][q][1] = q
              /\ w[cached_packets[t][q]] = "cache"
  BY <1>1, PlaceOf
<1>3. ASSUME NEW q \in Rus, NEW x \in Umem(q), InQueue(q, x)
      PROVE  w[x] \in {"rx", "batch"} /\ x # NULL
  <2>1. x \in UmemFrames /\ x[1] = q /\ x # NULL
    BY UmemOf
  <2> QED BY <1>1, <1>3, <2>1 DEF InQueue, PlacedBy
<1>4. ASSUME NEW q \in Rus, NEW p \in Rus, NEW x \in Umem(q), NEW t \in Slots,
             InQueue(q, x), cached_packets[t][p] = x
      PROVE  FALSE
  BY <1>2, <1>3, <1>4
<1>5. ASSUME NEW q \in Rus, NEW p \in Rus, NEW t \in Slots, NEW u \in Slots,
             Has(t, q), cached_packets[t][q] = cached_packets[u][p]
      PROVE  t = u /\ q = p
  <2>1. cached_packets[t][q] # NULL /\ cached_packets[u][p] # NULL
    BY <1>5 DEF Has
  <2>2. q = p
    BY <1>2, <1>5, <2>1
  <2> QED BY <1>5, <2>1, <2>2 DEF FramesInv, OnceInv
<1> QED BY <1>4, <1>5

\* It no longer waits, everything else in the queues does.
LEMMA HandledView ==
  ASSUME FramesInv, NEW b, ContentInv(b), NEW f \in Umem(socket_to_process), NEW s \in Slots,
         Handles(f, s),
         \A q \in Rus : \A x \in Umem(q) : InQueue(q, x) /\ x # f => content'[x] = content[x]
  PROVE  /\ b \in RadioFrames /\ socket_to_process \in Rus /\ InQueue(socket_to_process, f)
         /\ content[f] = Single(socket_to_process, s, b)
         /\ Waits(socket_to_process, s, b) /\ ~Waits(socket_to_process, s, b)'
         /\ \A q \in Rus, t \in Slots, g \in RadioFrames :
              ~(q = socket_to_process /\ t = s /\ g = b) => (Waits(q, t, g)' <=> Waits(q, t, g))
<1> DEFINE r == socket_to_process
<1>1. /\ r \in Rus /\ InSeq(pkt_frags, f) /\ b \in RadioFrames
      /\ s = SlotOf(content[f][r]) /\ UNCHANGED socket_to_process
  BY HandledLeaves DEF Handles, ContentInv
<1>2. InQueue(r, f)
  BY <1>1 DEF InQueue
<1>3. PICK t \in Slots : content[f] = Single(r, t, b)
  BY <1>1 DEF ContentInv, QueuesHold
<1>4. t = s
  <2>1. Single(r, t, b)[r] = UplinkPacket(r, t, b) /\ SlotOf(UplinkPacket(r, t, b)) = t
    BY <1>1, SingleIs
  <2> QED BY <1>1, <1>3, <2>1
<1>5. \A q \in Rus : \A x \in Umem(q) : InQueue(q, x)' <=> InQueue(q, x) /\ x # f
  BY HandledQueues
<1>6. \A q \in Rus, u \in Slots, g \in RadioFrames :
        Waits(q, u, g)' <=> \E x \in Umem(q) : InQueue(q, x) /\ x # f /\ content[x] = Single(q, u, g)
  BY <1>5 DEF Waits
<1>7. ~Waits(r, s, b)'
  <2> SUFFICES ASSUME NEW x \in Umem(r), InQueue(r, x), x # f, content[x] = Single(r, s, b)
               PROVE  FALSE
    BY <1>1, <1>6
  <2>1. x = f
    BY <1>1, <1>2, <1>3, <1>4 DEF ContentInv, WaitsOnce
  <2> QED BY <2>1
<1>8. ASSUME NEW q \in Rus, NEW u \in Slots, NEW g \in RadioFrames, ~(q = r /\ u = s /\ g = b),
             Waits(q, u, g)
      PROVE  Waits(q, u, g)'
  <2>1. PICK x \in Umem(q) : InQueue(q, x) /\ content[x] = Single(q, u, g)
    BY <1>8 DEF Waits
  <2>2. CASE x = f
    <3>1. q = r
      BY <1>1, <2>2, UmemOf
    <3>2. Single(r, u, g) = Single(r, s, b)
      BY <1>3, <1>4, <2>1, <2>2, <3>1
    <3>3. u = s /\ g = b
      BY <1>1, <3>2, SingleTells
    <3> QED BY <1>8, <3>1, <3>3
  <2>3. CASE x # f
    BY <1>6, <2>1, <2>3
  <2> QED BY <2>2, <2>3
<1>9. \A q \in Rus, u \in Slots, g \in RadioFrames : Waits(q, u, g)' => Waits(q, u, g)
  BY <1>6 DEF Waits
<1>10. content[f] = Single(r, s, b) /\ Waits(r, s, b)
  BY <1>1, <1>2, <1>3, <1>4 DEF Waits
<1>11. \A q \in Rus, u \in Slots, g \in RadioFrames :
         ~(q = r /\ u = s /\ g = b) => (Waits(q, u, g)' <=> Waits(q, u, g))
  BY <1>8, <1>9
<1> QED BY <1>1, <1>2, <1>7, <1>10, <1>11

-----------------------------------------------------------------------------
(* ContentInv is kept                                                      *)

LEMMA ContentHandled ==
  ASSUME FramesInv, NEW b, ContentInv(b), NEW f \in Umem(socket_to_process), NEW s \in Slots,
         Handles(f, s),
         \A q \in Rus : \A x \in Umem(q) : InQueue(q, x) /\ x # f => content'[x] = content[x],
         RowsHold(b)'
  PROVE  ContentInv(b)'
<1> DEFINE r == socket_to_process
<1>1. /\ b \in RadioFrames /\ r \in Rus
      /\ \A q \in Rus, t \in Slots, g \in RadioFrames :
           ~(q = r /\ t = s /\ g = b) => (Waits(q, t, g)' <=> Waits(q, t, g))
  BY HandledView
<1>2. UNCHANGED <<rx, pc, socket_to_process, frame, sent, lost>>
  BY HandledLeaves
<1>3. \A q \in Rus : \A x \in Umem(q) :
           /\ InQueue(q, x)' <=> InQueue(q, x) /\ x # f
           /\ InSeq(rx'[q], x) <=> InSeq(rx[q], x)
           /\ InSeq(pkt_frags', x) => InSeq(pkt_frags, x)
  BY HandledQueues
<1>4. \A q \in Rus : \A x \in Umem(q) : InQueue(q, x)' => InQueue(q, x) /\ content'[x] = content[x]
  BY <1>3
<1>5. QueuesHold(b)'
  <2> SUFFICES ASSUME NEW q \in Rus, NEW x \in Umem(q)
               PROVE  /\ InSeq(rx'[q], x) => \E t \in sent[q] : content'[x] = Single(q, t, frame)
                      /\ q = r /\ InSeq(pkt_frags', x) =>
                           \E t \in Slots : content'[x] = Single(q, t, b) /\ (b = frame => t \in sent[q])
    BY <1>2 DEF QueuesHold
  <2>1. InSeq(rx'[q], x) => InQueue(q, x)' /\ InSeq(rx[q], x)
    BY <1>3 DEF InQueue
  <2>2. q = r /\ InSeq(pkt_frags', x) => InQueue(q, x)' /\ InSeq(pkt_frags, x)
    BY <1>2, <1>3 DEF InQueue
  <2> QED BY <1>4, <2>1, <2>2 DEF ContentInv, QueuesHold
<1>6. WaitsOnce'
  BY <1>4 DEF ContentInv, WaitsOnce
<1>7. LostSent'
  BY <1>2 DEF ContentInv, LostSent
<1>8. frame \in RadioFrames /\ \A g \in RadioFrames : g \in Nat
  BY Numbers DEF FramesInv, TypeInv
<1>9. SinceLost(b)'
  <2> SUFFICES ASSUME b < frame, NEW q \in Rus, NEW t \in Slots
               PROVE  /\ \A g \in RadioFrames : b < g /\ g < frame => UplinkPacket(q, t, g) \in lost
                      /\ t \in sent[q] /\ ~Waits(q, t, frame)' => UplinkPacket(q, t, frame) \in lost
    BY <1>2 DEF SinceLost
  <2>1. Waits(q, t, frame)' <=> Waits(q, t, frame)
    <3>1. PICK h : h = frame /\ h \in RadioFrames /\ h # b
      BY <1>1, <1>8
    <3>2. Waits(q, t, h)' <=> Waits(q, t, h)
      BY <1>1, <3>1
    <3> QED BY <1>2, <3>1, <3>2
  <2> QED BY <2>1 DEF ContentInv, SinceLost
<1> QED BY <1>1, <1>2, <1>5, <1>6, <1>7, <1>9 DEF ContentInv

LEMMA ContentCacheFrag ==
  ASSUME FramesInv, NEW b, ContentInv(b), CacheFrag
  PROVE  ContentInv(b)'
<1> DEFINE r == socket_to_process
<1>1. PICK f \in Umem(r), s \in Slots :
        /\ Handles(f, s)
        /\ \A q \in Rus : cached_packets'[s][q] =
             IF q = r THEN f ELSE IF Occupied(s, r) THEN NULL ELSE cached_packets[s][q]
        /\ \A t \in Slots \ {s} : cached_packets'[t] = cached_packets[t]
        /\ UNCHANGED <<content, frags_to_be_sent>>
  BY CacheFragIs
<1>2. content[f] = Single(r, s, b) /\ b \in RadioFrames /\ r \in Rus /\ b <= b
  BY <1>1, HandledView, Numbers DEF FramesInv, TypeInv
<1>3. RowsHold(b)'
  <2> SUFFICES ASSUME NEW t \in Slots, NEW q \in Rus, Has(t, q)'
               PROVE  \E g \in RadioFrames : g <= b /\ Keeps(t, q, g)'
    BY DEF RowsHold
  <2>1. CASE t = s /\ q = r
    <3>1. Keeps(t, q, b)'
      BY <1>1, <1>2, <2>1 DEF Keeps, Has
    <3> QED BY <1>2, <3>1
  <2>2. CASE ~(t = s /\ q = r)
    <3>1. cached_packets'[t][q] = cached_packets[t][q] /\ cached_packets[t][q] # NULL
      BY <1>1, <2>2 DEF Has
    <3>2. PICK g \in RadioFrames : g <= b /\ Keeps(t, q, g)
      BY <3>1 DEF ContentInv, RowsHold, Has
    <3>3. Keeps(t, q, g)'
      BY <1>1, <3>1, <3>2 DEF Keeps
    <3> QED BY <3>2, <3>3
  <2> QED BY <2>1, <2>2
<1>4. \A q \in Rus : \A x \in Umem(q) : InQueue(q, x) /\ x # f => content'[x] = content[x]
  BY <1>1
<1> QED BY <1>1, <1>3, <1>4, ContentHandled

\* The frame that the sum is put in is in no queue and in no other row.
LEMMA SumIsApart ==
  ASSUME FramesInv, NEW f \in Umem(socket_to_process), NEW s \in Slots, Handles(f, s), NEW row,
         ~Has(s, socket_to_process),
         \A q \in Rus : row[q] = (IF q = socket_to_process THEN f ELSE cached_packets[s][q])
                        /\ row[q] \in Umem(q),
         content' = [content EXCEPT ![row[0]] = [q \in Rus |-> content[row[q]][q]]]
  PROVE  /\ \A q \in Rus : \A x \in Umem(q) : InQueue(q, x) /\ x # f => content'[x] = content[x]
         /\ \A t \in Slots \ {s}, q \in Rus : Has(t, q) =>
              content'[cached_packets[t][q]] = content[cached_packets[t][q]]
         /\ \A q \in Rus : \A x \in Umem(q) : InQueue(q, x) /\ x # f => x # row[0]
         /\ \A t \in Slots \ {s}, q \in Rus : Has(t, q) => cached_packets[t][q] # row[0]
<1> DEFINE r == socket_to_process
<1>1. r \in Rus /\ InSeq(pkt_frags, f) /\ 0 \in Rus /\ f # NULL
  BY HandledLeaves, Sockets, UmemOf
<1>2. content \in [UmemFrames -> Sums] /\ row[0] \in UmemFrames /\ row[0] # NULL
  BY <1>1, UmemOf DEF FramesInv, TypeInv, TypeOK
<1>3. \A x \in UmemFrames : x # row[0] => content'[x] = content[x]
  BY <1>2
<1>4. InQueue(r, f)
  BY <1>1 DEF InQueue
<1>5. ASSUME NEW q \in Rus, NEW x \in Umem(q), InQueue(q, x), x # f
      PROVE  x # row[0]
  <2>1. CASE r = 0
    BY <1>1, <1>5, <2>1
  <2>2. CASE r # 0
    <3>1. row[0] = cached_packets[s][0]
      BY <1>1, <2>2
    <3> QED BY <1>1, <1>5, <3>1, QueuedOrCached
  <2> QED BY <2>1, <2>2
<1>6. ASSUME NEW t \in Slots \ {s}, NEW q \in Rus, Has(t, q)
      PROVE  cached_packets[t][q] # row[0]
  <2>1. CASE r = 0
    <3>1. row[0] = f
      BY <1>1, <2>1
    <3> QED BY <1>1, <1>4, <3>1, QueuedOrCached
  <2>2. CASE r # 0
    <3>1. row[0] = cached_packets[s][0]
      BY <1>1, <2>2
    <3> QED BY <1>1, <1>6, <3>1, QueuedOrCached
  <2> QED BY <2>1, <2>2
<1>7. \A t \in Slots, q \in Rus : Has(t, q) => cached_packets[t][q] \in UmemFrames
  BY UmemOf DEF FramesInv, TypeInv, TypeOK, Has
<1>8. \A q \in Rus : \A x \in Umem(q) : x \in UmemFrames
  BY UmemOf
<1> QED BY <1>3, <1>5, <1>6, <1>7, <1>8

LEMMA ContentMergeGroup ==
  ASSUME FramesInv, NEW b, ContentInv(b), MergeGroup
  PROVE  ContentInv(b)'
<1> DEFINE r == socket_to_process
<1>1. PICK f \in Umem(r), s \in Slots : \E row :
               /\ Handles(f, s) /\ ~Has(s, r)
               /\ \A q \in Rus : row[q] = (IF q = r THEN f ELSE cached_packets[s][q])
                                 /\ row[q] \in Umem(q)
               /\ content' = [content EXCEPT ![row[0]] = [q \in Rus |-> content[row[q]][q]]]
               /\ \A q \in Rus : cached_packets'[s][q] = NULL
               /\ \A t \in Slots \ {s} : cached_packets'[t] = cached_packets[t]
               /\ frags_to_be_sent' = Append(frags_to_be_sent, row[0])
  BY MergeGroupIs
<1>2. PICK row :
               /\ Handles(f, s) /\ ~Has(s, r)
               /\ \A q \in Rus : row[q] = (IF q = r THEN f ELSE cached_packets[s][q])
                                 /\ row[q] \in Umem(q)
               /\ content' = [content EXCEPT ![row[0]] = [q \in Rus |-> content[row[q]][q]]]
               /\ \A q \in Rus : cached_packets'[s][q] = NULL
               /\ \A t \in Slots \ {s} : cached_packets'[t] = cached_packets[t]
  BY <1>1
<1>3. /\ \A q \in Rus : \A x \in Umem(q) : InQueue(q, x) /\ x # f => content'[x] = content[x]
      /\ \A t \in Slots \ {s}, q \in Rus : Has(t, q) =>
              content'[cached_packets[t][q]] = content[cached_packets[t][q]]
  BY <1>2, SumIsApart
<1>4. RowsHold(b)'
  <2> SUFFICES ASSUME NEW t \in Slots, NEW q \in Rus, Has(t, q)'
               PROVE  \E g \in RadioFrames : g <= b /\ Keeps(t, q, g)'
    BY DEF RowsHold
  <2>1. t # s /\ cached_packets'[t][q] = cached_packets[t][q] /\ Has(t, q)
    BY <1>2 DEF Has
  <2>2. PICK g \in RadioFrames : g <= b /\ Keeps(t, q, g)
    BY <2>1 DEF ContentInv, RowsHold
  <2>3. Keeps(t, q, g)'
    BY <1>3, <2>1, <2>2 DEF Keeps
  <2> QED BY <2>2, <2>3
<1> QED BY <1>2, <1>3, <1>4, ContentHandled

LEMMA ContentRxPackets ==
  ASSUME FramesInv, NEW b, ContentInv(b), NEW i \in Rus, RxPackets(i)
  PROVE  ContentInv(b)' /\ \A r \in Rus, s \in Slots, g \in RadioFrames : Waits(r, s, g)' <=> Waits(r, s, g)
<1>1. /\ pc = "poll" /\ socket_to_process' = i
      /\ \A r \in Rus : \A f \in Umem(r) :
              /\ InQueue(r, f)' <=> InQueue(r, f)
              /\ InSeq(rx'[r], f) => InSeq(rx[r], f)
              /\ InSeq(pkt_frags', f) => InSeq(rx[i], f) /\ r = i
      /\ UNCHANGED <<content, cached_packets, frame, sent, lost>>
  BY TakenQueues
<1>2. b = frame /\ b \in RadioFrames /\ sent \in [Rus -> SUBSET Slots] /\ b \in Nat
  BY <1>1, Numbers DEF ContentInv, FramesInv, TypeInv
<1>3. QueuesHold(b)'
  <2> SUFFICES ASSUME NEW q \in Rus, NEW x \in Umem(q)
               PROVE  /\ InSeq(rx'[q], x) => \E t \in sent[q] : content[x] = Single(q, t, frame)
                      /\ q = i /\ InSeq(pkt_frags', x) =>
                           \E t \in Slots : content[x] = Single(q, t, b) /\ (b = frame => t \in sent[q])
    BY <1>1 DEF QueuesHold
  <2>1. \A t \in sent[q] : t \in Slots
    BY <1>2
  <2> QED BY <1>1, <1>2, <2>1 DEF ContentInv, QueuesHold
<1>4. WaitsOnce' /\ RowsHold(b)' /\ LostSent'
  BY <1>1 DEF ContentInv, WaitsOnce, RowsHold, LostSent, Has, Keeps
<1>5. SinceLost(b)'
  BY <1>1, <1>2 DEF SinceLost
<1>6. \A r \in Rus, s \in Slots, g \in RadioFrames : Waits(r, s, g)' <=> Waits(r, s, g)
  BY <1>1 DEF Waits
<1> QED BY <1>1, <1>2, <1>3, <1>4, <1>5, <1>6 DEF ContentInv

\* A packet that is received waits from then on; it did not before.
LEMMA ContentSend ==
  ASSUME FramesInv, NEW b, ContentInv(b), NEW r \in Rus, NEW s \in Slots, Send(r, s)
  PROVE  /\ ContentInv(b)'
         /\ \A q \in Rus, t \in Slots, g \in RadioFrames :
              Waits(q, t, g)' <=> Waits(q, t, g) \/ (q = r /\ t = s /\ g = frame)
         /\ ~Waits(r, s, frame)
<1>1. PICK f \in Umem(r) :
        /\ \A q \in Rus : \A x \in Umem(q) :
             /\ InQueue(q, x)' <=> InQueue(q, x) \/ x = f
             /\ InSeq(rx'[q], x) <=> InSeq(rx[q], x) \/ x = f
        /\ ~InQueue(r, f) /\ ~InSeq(pkt_frags, f)
        /\ \A t \in Slots, q \in Rus : cached_packets[t][q] # f
        /\ \A x \in UmemFrames : content'[x] = IF x = f THEN Single(r, s, frame) ELSE content[x]
  BY SentQueues
<1>2. /\ frame \in RadioFrames /\ b \in RadioFrames /\ sent \in [Rus -> SUBSET Slots]
      /\ \A g \in RadioFrames : g \in Nat
  BY Numbers DEF ContentInv, FramesInv, TypeInv
<1>3. /\ sent' = [sent EXCEPT ![r] = sent[r] \cup {s}] /\ s \notin sent[r]
      /\ UNCHANGED <<pc, socket_to_process, pkt_frags, cached_packets, frame, lost>>
  BY DEF Send, batchVars, cacheVars
<1>4. sent'[r] = sent[r] \cup {s} /\ \A q \in Rus : q # r => sent'[q] = sent[q]
  BY <1>2, <1>3
<1>5. \A q \in Rus : \A x \in Umem(q) : x \in UmemFrames /\ (x = f => q = r)
  BY UmemOf
<1>6. ~Waits(r, s, frame)
  BY <1>2, <1>3, WaitingIs
<1>7. \A q \in Rus : \A x \in Umem(q) : InQueue(q, x) => x # f /\ content'[x] = content[x]
  BY <1>1, <1>5
<1>8. InQueue(r, f)' /\ content'[f] = Single(r, s, frame)
  BY <1>1, <1>5
<1>9. ASSUME NEW q \in Rus, NEW t \in Slots, NEW g \in RadioFrames
      PROVE  Waits(q, t, g)' <=> Waits(q, t, g) \/ (q = r /\ t = s /\ g = frame)
  <2>1. Waits(q, t, g) => Waits(q, t, g)'
    BY <1>1, <1>7 DEF Waits
  <2>2. q = r /\ t = s /\ g = frame => Waits(q, t, g)'
    BY <1>8 DEF Waits
  <2>3. ASSUME Waits(q, t, g)', ~Waits(q, t, g)
        PROVE  q = r /\ t = s /\ g = frame
    <3>1. PICK x \in Umem(q) : InQueue(q, x)' /\ content'[x] = Single(q, t, g)
      BY <2>3 DEF Waits
    <3>2. x = f
      BY <1>1, <1>7, <2>3, <3>1 DEF Waits
    <3>3. q = r /\ Single(r, t, g) = Single(r, s, frame)
      BY <1>5, <1>8, <3>1, <3>2
    <3> QED BY <1>2, <3>3, SingleTells
  <2> QED BY <2>1, <2>2, <2>3
<1>10. QueuesHold(b)'
  <2> SUFFICES ASSUME NEW q \in Rus, NEW x \in Umem(q)
               PROVE  /\ InSeq(rx'[q], x) => \E t \in sent'[q] : content'[x] = Single(q, t, frame)
                      /\ q = socket_to_process /\ InSeq(pkt_frags, x) =>
                           \E t \in Slots : content'[x] = Single(q, t, b) /\ (b = frame => t \in sent'[q])
    BY <1>3 DEF QueuesHold
  <2>1. sent[q] \subseteq sent'[q]
    BY <1>4
  <2>2. CASE x = f
    BY <1>1, <1>4, <1>5, <1>8, <2>2
  <2>3. CASE x # f
    <3>1. InSeq(rx'[q], x) => InSeq(rx[q], x) /\ InQueue(q, x)
      BY <1>1, <2>3 DEF InQueue
    <3>2. q = socket_to_process /\ InSeq(pkt_frags, x) => InQueue(q, x)
      BY DEF InQueue
    <3> QED BY <1>7, <2>1, <3>1, <3>2 DEF ContentInv, QueuesHold
  <2> QED BY <2>2, <2>3
<1>11. WaitsOnce'
  <2> SUFFICES ASSUME NEW q \in Rus, NEW x \in Umem(q), NEW y \in Umem(q),
                      InQueue(q, x)', InQueue(q, y)', content'[x] = content'[y]
               PROVE  x = y
    BY DEF WaitsOnce
  <2>1. ASSUME NEW z \in Umem(r), InQueue(r, z), content'[z] = Single(r, s, frame)
        PROVE  FALSE
    <3>1. Waits(r, s, frame)
      BY <1>7, <2>1 DEF Waits
    <3> QED BY <1>6, <3>1
  <2>2. InQueue(q, x) /\ InQueue(q, y) => x = y
    BY <1>7 DEF ContentInv, WaitsOnce
  <2> QED BY <1>1, <1>5, <1>8, <2>1, <2>2
<1>12. RowsHold(b)'
  <2>1. \A t \in Slots, q \in Rus : Has(t, q) => cached_packets[t][q] \in UmemFrames
    BY UmemOf DEF FramesInv, TypeInv, TypeOK, Has
  <2> QED BY <1>1, <1>3, <2>1 DEF ContentInv, RowsHold, Has, Keeps
<1>13. LostSent'
  <2> SUFFICES ASSUME NEW p \in lost
               PROVE  p.frame <= frame /\ (p.frame = frame => SlotOf(p) \in sent'[p.ru])
    BY <1>3 DEF LostSent
  <2>1. p.ru \in Rus
    BY PacketIs DEF FramesInv, TypeInv, TypeOK
  <2> QED BY <1>4, <2>1 DEF ContentInv, LostSent
<1>14. SinceLost(b)'
  <2> SUFFICES ASSUME b < frame, NEW q \in Rus, NEW t \in Slots
               PROVE  /\ \A g \in RadioFrames : b < g /\ g < frame => UplinkPacket(q, t, g) \in lost
                      /\ t \in sent'[q] /\ ~Waits(q, t, frame)' => UplinkPacket(q, t, frame) \in lost
    BY <1>3 DEF SinceLost
  <2>1. PICK h : h = frame /\ h \in RadioFrames
    BY <1>2
  <2>2. Waits(q, t, h)' <=> Waits(q, t, h) \/ (q = r /\ t = s)
    BY <1>9, <2>1
  <2>3. Waits(q, t, frame)' <=> Waits(q, t, frame) \/ (q = r /\ t = s)
    BY <1>3, <2>1, <2>2
  <2>4. t \in sent'[q] => t \in sent[q] \/ (q = r /\ t = s)
    BY <1>4
  <2> QED BY <2>3, <2>4 DEF ContentInv, SinceLost
<1>15. ContentInv(b)'
  BY <1>2, <1>3, <1>10, <1>11, <1>12, <1>13, <1>14 DEF ContentInv
<1> QED BY <1>6, <1>9, <1>15

\* A packet that is lost does not wait, before and after.
LEMMA ContentLose ==
  ASSUME FramesInv, NEW b, ContentInv(b), NEW r \in Rus, NEW s \in Slots, Lose(r, s)
  PROVE  /\ ContentInv(b)'
         /\ \A q \in Rus, t \in Slots, g \in RadioFrames : Waits(q, t, g)' <=> Waits(q, t, g)
         /\ ~Waits(r, s, frame)
<1>1. /\ frame \in RadioFrames /\ b \in RadioFrames /\ sent \in [Rus -> SUBSET Slots]
      /\ \A g \in RadioFrames : g \in Nat
  BY Numbers DEF ContentInv, FramesInv, TypeInv
<1>2. PICK p : p = UplinkPacket(r, s, frame) /\ p.ru = r /\ p.frame = frame /\ SlotOf(p) = s
  BY <1>1, SingleIs
<1>3. /\ sent' = [sent EXCEPT ![r] = sent[r] \cup {s}] /\ s \notin sent[r] /\ lost' = lost \cup {p}
      /\ UNCHANGED <<rx, content, pc, socket_to_process, pkt_frags, cached_packets, frame>>
  BY <1>2 DEF Lose, rings, batchVars, cacheVars
<1>4. sent'[r] = sent[r] \cup {s} /\ \A q \in Rus : q # r => sent'[q] = sent[q]
  BY <1>1, <1>3
<1>5. \A q \in Rus : sent[q] \subseteq sent'[q]
  BY <1>4
<1>6. \A q \in Rus : \A x \in Umem(q) : InQueue(q, x)' <=> InQueue(q, x)
  BY <1>3 DEF InQueue
<1>7. \A q \in Rus, t \in Slots, g \in RadioFrames : Waits(q, t, g)' <=> Waits(q, t, g)
  BY <1>3, <1>6 DEF Waits
<1>8. ~Waits(r, s, frame)
  BY <1>1, <1>3, WaitingIs
<1>9. QueuesHold(b)'
  <2> SUFFICES ASSUME NEW q \in Rus, NEW x \in Umem(q)
               PROVE  /\ InSeq(rx[q], x) => \E t \in sent'[q] : content[x] = Single(q, t, frame)
                      /\ q = socket_to_process /\ InSeq(pkt_frags, x) =>
                           \E t \in Slots : content[x] = Single(q, t, b) /\ (b = frame => t \in sent'[q])
    BY <1>3 DEF QueuesHold
  <2> QED BY <1>5 DEF ContentInv, QueuesHold
<1>10. WaitsOnce' /\ RowsHold(b)'
  BY <1>3, <1>6 DEF ContentInv, WaitsOnce, RowsHold, Has, Keeps
<1>11. LostSent'
  <2> SUFFICES ASSUME NEW u \in lost'
               PROVE  u.frame <= frame /\ (u.frame = frame => SlotOf(u) \in sent'[u.ru])
    BY <1>3 DEF LostSent
  <2>1. CASE u = p
    BY <1>1, <1>2, <1>4, <2>1
  <2>2. CASE u \in lost
    <3>1. u.ru \in Rus
      BY <2>2, PacketIs DEF FramesInv, TypeInv, TypeOK
    <3> QED BY <1>5, <2>2, <3>1 DEF ContentInv, LostSent
  <2> QED BY <1>3, <2>1, <2>2
<1>12. SinceLost(b)'
  <2> SUFFICES ASSUME b < frame, NEW q \in Rus, NEW t \in Slots
               PROVE  /\ \A g \in RadioFrames : b < g /\ g < frame => UplinkPacket(q, t, g) \in lost'
                      /\ t \in sent'[q] /\ ~Waits(q, t, frame)' => UplinkPacket(q, t, frame) \in lost'
    BY <1>3 DEF SinceLost
  <2>1. PICK h : h = frame /\ h \in RadioFrames
    BY <1>1
  <2>2. Waits(q, t, frame)' <=> Waits(q, t, frame)
    BY <1>3, <1>7, <2>1
  <2>3. t \in sent'[q] => t \in sent[q] \/ (q = r /\ t = s)
    BY <1>4
  <2> QED BY <1>2, <1>3, <2>2, <2>3 DEF ContentInv, SinceLost
<1>13. ContentInv(b)'
  BY <1>1, <1>3, <1>9, <1>10, <1>11, <1>12 DEF ContentInv
<1> QED BY <1>7, <1>8, <1>13

\* The radio frame ends when the RX rings are empty: only the batch waits.
LEMMA ContentNextFrame ==
  ASSUME FramesInv, NEW b, ContentInv(b), NextFrame
  PROVE  /\ pc = "frags" => ContentInv(b)'
         /\ pc # "frags" => \A c : c = frame + 1 => ContentInv(c)'
         /\ \A q \in Rus, t \in Slots, g \in RadioFrames :
              /\ Waits(q, t, g)' <=> Waits(q, t, g)
              /\ Waits(q, t, g) => g = b
<1>1. /\ frame \in RadioFrames /\ b \in RadioFrames /\ sent \in [Rus -> SUBSET Slots]
      /\ \A g \in RadioFrames : g \in Nat
      /\ MaxFrame \in Nat
  BY Numbers DEF ContentInv, FramesInv, TypeInv
<1>2. /\ frame < MaxFrame /\ frame' = frame + 1
      /\ \A r \in Rus : sent[r] = Slots /\ rx[r] = <<>> /\ sent'[r] = {}
      /\ UNCHANGED <<rx, content, pc, socket_to_process, pkt_frags, cached_packets, lost>>
  BY DEF NextFrame, rings, batchVars, cacheVars
<1>3. \A q \in Rus : \A x \in Umem(q) : InQueue(q, x)' <=> InQueue(q, x)
  BY <1>2 DEF InQueue
<1>4. \A q \in Rus, t \in Slots, g \in RadioFrames : Waits(q, t, g)' <=> Waits(q, t, g)
  BY <1>2, <1>3 DEF Waits
<1>5. ASSUME NEW q \in Rus, NEW t \in Slots, NEW g \in RadioFrames, Waits(q, t, g)
      PROVE  g = b
  <2>1. PICK x \in Umem(q) : InQueue(q, x) /\ content[x] = Single(q, t, g)
    BY <1>5 DEF Waits
  <2>2. q = socket_to_process /\ InSeq(pkt_frags, x)
    BY <1>2, <2>1, EmptyOnce DEF InQueue
  <2>3. PICK u \in Slots : content[x] = Single(q, u, b)
    BY <2>2 DEF ContentInv, QueuesHold
  <2>4. Single(q, t, g) = Single(q, u, b)
    BY <2>1, <2>3
  <2> QED BY <1>1, <2>4, SingleTells
<1>6. frame + 1 \in RadioFrames /\ frame + 1 \in Nat
  BY <1>1, <1>2 DEF RadioFrames
<1>7. WaitsOnce'
  BY <1>2, <1>3 DEF ContentInv, WaitsOnce
<1>8. LostSent'
  <2> SUFFICES ASSUME NEW p \in lost PROVE p.frame < frame + 1
    BY <1>1, <1>2, PacketIs DEF LostSent, FramesInv, TypeInv, TypeOK
  <2>1. p.frame \in Nat /\ p.frame <= frame
    BY <1>1, PacketIs DEF ContentInv, LostSent, FramesInv, TypeInv, TypeOK
  <2> QED BY <1>1, <2>1
<1>9. ASSUME pc = "frags" PROVE ContentInv(b)'
  <2>1. b <= frame /\ b <= frame + 1 /\ b # frame + 1
    BY <1>1 DEF ContentInv
  <2>2. QueuesHold(b)'
    <3> SUFFICES ASSUME NEW q \in Rus, NEW x \in Umem(q)
                 PROVE  q = socket_to_process /\ InSeq(pkt_frags, x) =>
                           \E t \in Slots : content[x] = Single(q, t, b)
      BY <1>2, <2>1, EmptyOnce DEF QueuesHold
    <3> QED BY DEF ContentInv, QueuesHold
  <2>3. RowsHold(b)'
    BY <1>2 DEF ContentInv, RowsHold, Has, Keeps
  <2>4. SinceLost(b)'
    <3> SUFFICES ASSUME NEW q \in Rus, NEW t \in Slots, NEW g \in RadioFrames, b < g, g < frame + 1
                 PROVE  UplinkPacket(q, t, g) \in lost
      BY <1>2 DEF SinceLost
    <3>1. b < frame
      BY <1>1, <2>1
    <3>2. CASE g < frame
      BY <3>1, <3>2 DEF ContentInv, SinceLost
    <3>3. CASE g = frame
      <4>1. t \in sent[q] /\ ~Waits(q, t, frame)
        BY <1>1, <1>2, <1>5, <3>1
      <4> QED BY <3>1, <3>3, <4>1 DEF ContentInv, SinceLost
    <3> QED BY <1>1, <3>2, <3>3
  <2> QED BY <1>1, <1>2, <1>7, <1>8, <1>9, <2>1, <2>2, <2>3, <2>4 DEF ContentInv
<1>10. ASSUME pc # "frags", NEW c, c = frame + 1
       PROVE  ContentInv(c)'
  <2>1. c = frame + 1 /\ c \in RadioFrames /\ c \in Nat
    BY <1>6, <1>10
  <2>2. pkt_frags = <<>>
    BY <1>10 DEF FramesInv, BatchInv
  <2>3. QueuesHold(c)'
    BY <1>2, <2>2, EmptyOnce DEF QueuesHold
  <2>4. RowsHold(c)'
    <3> SUFFICES ASSUME NEW t \in Slots, NEW q \in Rus, Has(t, q)
                 PROVE  \E g \in RadioFrames : g <= c /\ Keeps(t, q, g)
      BY <1>2 DEF RowsHold, Has, Keeps
    <3>1. PICK g \in RadioFrames : g <= b /\ Keeps(t, q, g)
      BY DEF ContentInv, RowsHold
    <3>2. g <= c
      BY <1>1, <2>1, <3>1 DEF ContentInv
    <3> QED BY <3>1, <3>2
  <2>5. SinceLost(c)'
    BY <1>2, <2>1 DEF SinceLost
  <2> QED BY <1>2, <1>7, <1>8, <2>1, <2>3, <2>4, <2>5 DEF ContentInv
<1> QED BY <1>4, <1>5, <1>9, <1>10

HoldInv == \E b : ContentInv(b)

LEMMA ContentInit == Init => HoldInv
<1> SUFFICES ASSUME Init PROVE HoldInv
  OBVIOUS
<1>1. PICK b : b = 0 /\ b \in RadioFrames /\ b <= 0
  BY Numbers, FramesInit DEF FramesInv, TypeInv, Init, RadioFrames
<1>2. QueuesHold(b) /\ WaitsOnce
  BY EmptyOnce DEF Init, QueuesHold, WaitsOnce, InQueue, Nothing
<1>3. RowsHold(b) /\ LostSent /\ SinceLost(b)
  BY <1>1 DEF Init, RowsHold, Has, EmptyRow, LostSent, SinceLost
<1>4. ContentInv(b)
  BY <1>1, <1>2, <1>3 DEF ContentInv, Init
<1> QED BY <1>4 DEF HoldInv

LEMMA ContentNext == FramesInv /\ HoldInv /\ [Next]_vars => HoldInv'
<1> SUFFICES ASSUME FramesInv, HoldInv, [Next]_vars PROVE HoldInv'
  OBVIOUS
<1>1. PICK b : ContentInv(b)
  BY DEF HoldInv
<1>2. ASSUME ContentSame, pc' = pc PROVE HoldInv'
  <2>1. ContentInv(b)'
    BY <1>1, <1>2, ContentQuiet DEF ContentInv
  <2> QED BY <2>1 DEF HoldInv
<1>3. ASSUME ContentSame, pc # "frags" \/ pkt_frags = <<>> PROVE HoldInv'
  <2>1. PICK c : c = frame /\ ContentInv(c)
    <3>1. CASE pc # "frags"
      BY <1>1, <3>1 DEF ContentInv
    <3>2. CASE pkt_frags = <<>>
      BY <1>1, <3>2, CatchUp
    <3> QED BY <1>3, <3>1, <3>2
  <2>2. ContentInv(c)'
    BY <1>3, <2>1, ContentQuiet
  <2> QED BY <2>2 DEF HoldInv
<1>4. ASSUME NEW i \in Rus, RxPackets(i) PROVE HoldInv'
  BY <1>1, <1>4, ContentRxPackets DEF HoldInv
<1>5. CASE CacheFrag
  BY <1>1, <1>5, ContentCacheFrag DEF HoldInv
<1>6. CASE MergeGroup
  BY <1>1, <1>6, ContentMergeGroup DEF HoldInv
<1>7. CASE ReturnFrames
  BY <1>3, <1>7 DEF ReturnFrames, ContentSame, cacheVars, envVars
<1>8. CASE QueueSums
  BY <1>3, <1>8 DEF QueueSums, ContentSame, cacheVars, envVars
<1>9. CASE CollectCompleted
  BY <1>3, <1>9 DEF CollectCompleted, ContentSame, cacheVars, envVars
<1>10. ASSUME NEW r \in Rus, NEW s \in Slots, Send(r, s) PROVE HoldInv'
  BY <1>1, <1>10, ContentSend DEF HoldInv
<1>11. ASSUME NEW r \in Rus, NEW s \in Slots, Lose(r, s) PROVE HoldInv'
  BY <1>1, <1>11, ContentLose DEF HoldInv
<1>12. CASE Transmit
  BY <1>2, <1>12 DEF Transmit, ContentSame, batchVars, cacheVars, envVars
<1>13. CASE NextFrame
  <2>1. PICK c : c = frame + 1
    OBVIOUS
  <2> QED BY <1>1, <1>13, <2>1, ContentNextFrame DEF HoldInv
<1>14. CASE UNCHANGED vars
  BY <1>2, <1>14 DEF vars, ContentSame, rings, batchVars, cacheVars, envVars
<1> QED BY <1>4, <1>5, <1>6, <1>7, <1>8, <1>9, <1>10, <1>11, <1>12, <1>13, <1>14
        DEF Next, Thread, Idle

-----------------------------------------------------------------------------
(* How many packets of an RU have passed, and which frames are out         *)

Bit(x) == IF x THEN 1 ELSE 0

\* The packets of RU r for slot s that have been handled or lost.
Earlier(r, s) == \E g \in RadioFrames : g # frame /\ Waits(r, s, g)
Passed(r, s) == frame + Bit(s \in sent[r]) - Bit(Waits(r, s, frame)) - Bit(Earlier(r, s))

\* The frames of socket 0 that are gone, or will be when the batch is done.
InUse(f) ==
  \/ InSeq(fq[0], f) \/ InQueue(0, f)
  \/ InSeq(frags_to_be_sent, f) \/ InSeq(tx, f) \/ InSeq(cq, f)
  \/ \E s \in Slots : cached_packets[s][0] = f
Out == {f \in Umem(0) : ~InUse(f)}

LEMMA BitIs ==
  /\ \A x \in BOOLEAN : Bit(x) \in {0, 1}
  /\ Bit(TRUE) = 1 /\ Bit(FALSE) = 0
BY DEF Bit

\* The batch is at most one radio frame behind, and of one RU.
LEMMA PassedIs ==
  ASSUME FramesInv, NEW b, ContentInv(b), NEW r \in Rus, NEW s \in Slots
  PROVE  /\ Passed(r, s) \in Int
         /\ frame \in Nat
         /\ Earlier(r, s) => r = socket_to_process /\ Waits(r, s, b) /\ b # frame
         /\ r # socket_to_process => Passed(r, s) \in {frame, frame + 1}
         /\ Waits(r, s, b) => Passed(r, s) \in {frame - 1, frame}
<1>1. frame \in RadioFrames /\ frame \in Nat /\ b \in RadioFrames
  BY Numbers DEF ContentInv, FramesInv, TypeInv
<1>2. Earlier(r, s) => r = socket_to_process /\ Waits(r, s, b) /\ b # frame
  BY WaitingIs DEF Earlier
<1>3. Waits(r, s, frame) => s \in sent[r]
  BY <1>1, WaitingIs
<1>4. PICK x, y, z : /\ x = Bit(s \in sent[r]) /\ y = Bit(Waits(r, s, frame)) /\ z = Bit(Earlier(r, s))
                     /\ x \in {0, 1} /\ y \in {0, 1} /\ z \in {0, 1}
                     /\ y = 1 => x = 1
                     /\ r # socket_to_process => z = 0
                     /\ Waits(r, s, b) => (b = frame /\ y = 1) \/ z = 1
                     /\ b = frame => z = 0
  <2>1. Waits(r, s, b) => (b = frame /\ Waits(r, s, frame)) \/ Earlier(r, s)
    BY <1>1 DEF Earlier
  <2>2. b = frame => ~Earlier(r, s)
    BY <1>2
  <2> QED BY <1>2, <1>3, <2>1, <2>2 DEF Bit
<1>5. Passed(r, s) = frame + x - y - z
  BY <1>4 DEF Passed
<1>6. Passed(r, s) \in Int
  BY <1>1, <1>4, <1>5
<1>7. r # socket_to_process => Passed(r, s) \in {frame, frame + 1}
  BY <1>1, <1>4, <1>5
<1>8. Waits(r, s, b) => Passed(r, s) \in {frame - 1, frame}
  BY <1>1, <1>4, <1>5
<1> QED BY <1>1, <1>2, <1>6, <1>7, <1>8

\* Nothing passes while the same packets have been sent and wait.
LEMMA PassedStays ==
  ASSUME NEW r, NEW s, frame' = frame, s \in sent'[r] <=> s \in sent[r], frame \in RadioFrames,
         \A g \in RadioFrames : Waits(r, s, g)' <=> Waits(r, s, g)
  PROVE  Passed(r, s)' = Passed(r, s)
<1>1. PICK h : h = frame /\ h \in RadioFrames
  OBVIOUS
<1>2. Waits(r, s, h)' <=> Waits(r, s, h)
  BY <1>1
<1>3. Waits(r, s, frame)' <=> Waits(r, s, frame)
  BY <1>1, <1>2
<1>4. Earlier(r, s)' <=> Earlier(r, s)
  BY DEF Earlier
<1>5. Bit(s \in sent'[r]) = Bit(s \in sent[r]) /\ Bit(Waits(r, s, frame)') = Bit(Waits(r, s, frame))
      /\ Bit(Earlier(r, s)') = Bit(Earlier(r, s))
  BY <1>3, <1>4 DEF Bit
<1>6. /\ Passed(r, s)' = frame + Bit(s \in sent'[r]) - Bit(Waits(r, s, frame)') - Bit(Earlier(r, s)')
      /\ Passed(r, s) = frame + Bit(s \in sent[r]) - Bit(Waits(r, s, frame)) - Bit(Earlier(r, s))
  BY DEF Passed, Bit
<1> QED BY <1>5, <1>6

\* The packet that is handled passes.
LEMMA PassedHandled ==
  ASSUME FramesInv, NEW b, ContentInv(b), NEW f \in Umem(socket_to_process), NEW s \in Slots,
         Handles(f, s),
         \A q \in Rus : \A x \in Umem(q) : InQueue(q, x) /\ x # f => content'[x] = content[x]
  PROVE  /\ Passed(socket_to_process, s)' = Passed(socket_to_process, s) + 1
         /\ \A q \in Rus, t \in Slots :
              ~(q = socket_to_process /\ t = s) => Passed(q, t)' = Passed(q, t)
<1>1. PICK r \in Rus : r = socket_to_process
  BY HandledView
<1>2. /\ b \in RadioFrames /\ Waits(r, s, b) /\ ~Waits(r, s, b)'
      /\ \A q \in Rus, t \in Slots, g \in RadioFrames :
              ~(q = r /\ t = s /\ g = b) => (Waits(q, t, g)' <=> Waits(q, t, g))
  <2>1. /\ b \in RadioFrames /\ Waits(socket_to_process, s, b)
        /\ \A q \in Rus, t \in Slots, g \in RadioFrames :
              ~(q = socket_to_process /\ t = s /\ g = b) => (Waits(q, t, g)' <=> Waits(q, t, g))
    BY HandledView
  <2>2. ~Waits(socket_to_process, s, b)'
    BY HandledView
  <2>3. socket_to_process' = socket_to_process
    BY HandledLeaves
  <2> QED BY <1>1, <2>1, <2>2, <2>3
<1>3. UNCHANGED <<frame, sent>> /\ frame \in RadioFrames /\ frame \in Nat
  BY HandledLeaves, Numbers DEF FramesInv, TypeInv
<1>4. PICK h : h = frame /\ h \in RadioFrames
  BY <1>3
<1>5. ASSUME NEW q \in Rus, NEW t \in Slots, ~(q = r /\ t = s)
      PROVE  Passed(q, t)' = Passed(q, t)
  <2>1. \A g \in RadioFrames : Waits(q, t, g)' <=> Waits(q, t, g)
    BY <1>2, <1>5
  <2> QED BY <1>3, <2>1, PassedStays
<1>6. PICK x, y, z, v, u :
        /\ x = Bit(s \in sent[r]) /\ y = Bit(Waits(r, s, h)) /\ z = Bit(Earlier(r, s))
        /\ v = Bit(Waits(r, s, h)') /\ u = Bit(Earlier(r, s)')
        /\ x \in {0, 1} /\ y \in {0, 1} /\ z \in {0, 1}
        /\ \/ y = 1 /\ v = 0 /\ u = z
           \/ y = v /\ z = 1 /\ u = 0
  <2>1. CASE b = frame
    <3>1. Waits(r, s, h) /\ ~Waits(r, s, h)'
      BY <1>2, <1>4, <2>1
    <3>2. Earlier(r, s)' <=> Earlier(r, s)
      BY <1>2, <1>3, <2>1 DEF Earlier
    <3> QED BY <3>1, <3>2 DEF Bit
  <2>2. CASE b # frame
    <3>1. Waits(r, s, h)' <=> Waits(r, s, h)
      BY <1>2, <1>4, <2>2
    <3>2. Earlier(r, s)
      BY <1>2, <2>2 DEF Earlier
    <3>3. ~Earlier(r, s)'
      <4> SUFFICES ASSUME NEW g \in RadioFrames, g # frame, Waits(r, s, g)' PROVE FALSE
        BY <1>3 DEF Earlier
      <4>1. g # b /\ Waits(r, s, g)
        BY <1>2
      <4> QED BY <4>1, WaitingIs
    <3> QED BY <3>1, <3>2, <3>3 DEF Bit
  <2> QED BY <2>1, <2>2
<1>7. Passed(r, s) = frame + x - y - z /\ Passed(r, s)' = frame + x - v - u
  BY <1>3, <1>4, <1>6 DEF Passed
<1>8. Passed(r, s)' = Passed(r, s) + 1
  BY <1>3, <1>6, <1>7
<1>9. Passed(socket_to_process, s)' = Passed(r, s)' /\ Passed(socket_to_process, s) = Passed(r, s)
  BY <1>1, HandledLeaves
<1> QED BY <1>1, <1>5, <1>8, <1>9

LEMMA JoinedIn ==
  ASSUME NEW U, NEW q \in Seq(U), NEW w \in Seq(U)
  PROVE  \A x : InSeq(q \o w, x) <=> InSeq(q, x) \/ InSeq(w, x)
<1>1. PICK m \in Nat, n \in Nat : m = Len(q) /\ n = Len(w)
  OBVIOUS
<1>2. PICK u : u = q \o w
  OBVIOUS
<1>3. /\ Len(u) = m + n
      /\ \A i \in 1 .. m : u[i] = q[i] /\ i \in 1 .. m + n
      /\ \A i \in 1 .. n : u[m + i] = w[i] /\ m + i \in 1 .. m + n
  BY <1>1, <1>2
<1>4. \A i \in 1 .. m + n : i \in 1 .. m \/ \E j \in 1 .. n : i = m + j
  <2> SUFFICES ASSUME NEW i \in 1 .. m + n, i \notin 1 .. m
               PROVE  \E j \in 1 .. n : i = m + j
    OBVIOUS
  <2>1. i - m \in 1 .. n /\ i = m + (i - m)
    OBVIOUS
  <2> QED BY <2>1
<1>5. ASSUME NEW x, NEW i \in 1 .. m + n, u[i] = x
      PROVE  InSeq(q, x) \/ InSeq(w, x)
  BY <1>1, <1>3, <1>4, <1>5 DEF InSeq
<1>6. ASSUME NEW x, InSeq(q, x) \/ InSeq(w, x)
      PROVE  InSeq(u, x)
  BY <1>1, <1>3, <1>6 DEF InSeq
<1> QED BY <1>2, <1>3, <1>5, <1>6 DEF InSeq

LEMMA AppendedIn ==
  ASSUME NEW U, NEW q \in Seq(U), NEW y \in U
  PROVE  \A x : InSeq(Append(q, y), x) <=> InSeq(q, x) \/ x = y
<1>1. PICK w : w = <<y>> /\ w \in Seq(U) /\ \A x : InSeq(w, x) <=> x = y
  <2>1. <<y>> \in Seq(U) /\ \A x : InSeq(<<y>>, x) <=> x = y
    BY One
  <2> QED BY <2>1
<1>2. Append(q, y) = q \o w
  BY <1>1
<1>3. \A x : InSeq(q \o w, x) <=> InSeq(q, x) \/ InSeq(w, x)
  BY <1>1, JoinedIn
<1> QED BY <1>1, <1>2, <1>3

\* The frames of the last three steps of a sum stay in use.
LEMMA InUseReturned ==
  ASSUME FramesInv, ReturnFrames, NEW f \in Umem(0)
  PROVE  InUse(f)' <=> InUse(f)
<1>1. fq'[0] = fq[0]
  <2>1. 0 \in Rus /\ fq[0] \in Seq(Umem(0))
    BY Sockets DEF FramesInv, TypeInv
  <2>2. fq' = [r \in Rus |-> fq[r] \o Returned(r)] /\ Returned(0) = <<>>
    BY DEF ReturnFrames, Returned
  <2>3. fq'[0] = fq[0] \o <<>>
    BY <2>1, <2>2
  <2> QED BY <2>1, <2>3
<1> QED BY <1>1 DEF ReturnFrames, InUse, InQueue, cacheVars

LEMMA InUseQueued ==
  ASSUME FramesInv, QueueSums, NEW f \in Umem(0)
  PROVE  InUse(f)' <=> InUse(f)
<1>1. tx \in Seq(Umem(0)) /\ frags_to_be_sent \in Seq(Umem(0))
  BY DEF FramesInv, TypeInv
<1>2. tx' = tx \o frags_to_be_sent /\ frags_to_be_sent' = <<>>
      /\ UNCHANGED <<fq, rx, cq, socket_to_process, pkt_frags, cached_packets>>
  BY DEF QueueSums, cacheVars
<1>3. InSeq(tx', f) <=> InSeq(tx, f) \/ InSeq(frags_to_be_sent, f)
  BY <1>1, <1>2, JoinedIn
<1>4. ~InSeq(frags_to_be_sent', f)
  BY <1>2, EmptyOnce
<1> QED BY <1>2, <1>3, <1>4 DEF InUse, InQueue

LEMMA InUseCollected ==
  ASSUME FramesInv, CollectCompleted, NEW f \in Umem(0)
  PROVE  InUse(f)' <=> InUse(f)
<1>1. fq[0] \in Seq(Umem(0)) /\ cq \in Seq(Umem(0)) /\ 0 \in Rus /\ fq \in [Rus -> Seq(UmemFrames)]
  BY Sockets DEF FramesInv, TypeInv, TypeOK
<1>2. fq' = [fq EXCEPT ![0] = fq[0] \o cq] /\ cq' = <<>>
      /\ UNCHANGED <<rx, tx, frags_to_be_sent, socket_to_process, pkt_frags, cached_packets>>
  BY DEF CollectCompleted, Completed, cacheVars
<1>3. fq'[0] = fq[0] \o cq
  BY <1>1, <1>2
<1>4. InSeq(fq'[0], f) <=> InSeq(fq[0], f) \/ InSeq(cq, f)
  BY <1>1, <1>3, JoinedIn
<1>5. ~InSeq(cq', f)
  BY <1>2, EmptyOnce
<1> QED BY <1>2, <1>4, <1>5 DEF InUse, InQueue

LEMMA InUseTransmitted ==
  ASSUME FramesInv, Transmit, NEW f \in Umem(0)
  PROVE  InUse(f)' <=> InUse(f)
<1>1. tx # <<>> /\ tx \in Seq(Umem(0)) /\ Once(tx) /\ cq \in Seq(Umem(0))
  BY DEF Transmit, FramesInv, TypeInv, OnceInv
<1>2. /\ Head(tx) \in Umem(0) /\ InSeq(tx, Head(tx))
      /\ \A x : InSeq(Tail(tx), x) <=> InSeq(tx, x) /\ x # Head(tx)
  BY <1>1, Popped
<1>3. cq' = Append(cq, Head(tx)) /\ tx' = Tail(tx)
      /\ UNCHANGED <<fq, rx, frags_to_be_sent, socket_to_process, pkt_frags, cached_packets>>
  BY DEF Transmit, batchVars, cacheVars
<1>4. InSeq(cq', f) <=> InSeq(cq, f) \/ f = Head(tx)
  BY <1>1, <1>2, <1>3, AppendedIn
<1>5. InSeq(tx', f) <=> InSeq(tx, f) /\ f # Head(tx)
  BY <1>2, <1>3
<1> QED BY <1>2, <1>3, <1>4, <1>5 DEF InUse, InQueue

LEMMA InUseTaken ==
  ASSUME FramesInv, NEW i \in Rus, RxPackets(i), NEW f \in Umem(0)
  PROVE  InUse(f)' <=> InUse(f)
<1>1. InQueue(0, f)' <=> InQueue(0, f)
  BY TakenQueues, Sockets
<1>2. UNCHANGED <<fq, tx, cq, cached_packets, frags_to_be_sent>>
  BY TakenQueues
<1> QED BY <1>1, <1>2 DEF InUse

LEMMA InUseSent ==
  ASSUME FramesInv, NEW r \in Rus, NEW s \in Slots, Send(r, s), NEW f \in Umem(0)
  PROVE  InUse(f)' <=> InUse(f)
<1>1. InSeq(fq[0], f) \/ InSeq(rx[0], f) <=> InSeq(fq'[0], f) \/ InSeq(rx'[0], f)
  BY SentQueues
<1>2. UNCHANGED <<tx, cq, cached_packets, frags_to_be_sent, socket_to_process, pkt_frags>>
  BY DEF Send, batchVars, cacheVars
<1> QED BY <1>1, <1>2 DEF InUse, InQueue

\* A packet that is handled goes to the cache, or to the sums.
LEMMA InUseCached ==
  ASSUME FramesInv, NEW f \in Umem(socket_to_process), NEW s \in Slots, Handles(f, s),
         \A q \in Rus : cached_packets'[s][q] =
           IF q = socket_to_process THEN f
           ELSE IF Occupied(s, socket_to_process) THEN NULL ELSE cached_packets[s][q],
         \A t \in Slots \ {s} : cached_packets'[t] = cached_packets[t],
         UNCHANGED frags_to_be_sent
  PROVE  \A x \in Umem(0) :
           InUse(x)' <=> InUse(x) /\ ~(Occupied(s, socket_to_process) /\ x = cached_packets[s][0])
<1> DEFINE r == socket_to_process
           old == cached_packets[s][0]
<1>1. /\ r \in Rus /\ InSeq(pkt_frags, f) /\ 0 \in Rus /\ f # NULL
      /\ UNCHANGED <<fq, tx, cq, frags_to_be_sent>>
  BY HandledLeaves, Sockets, UmemOf
<1>2. InQueue(r, f)
  BY <1>1 DEF InQueue
<1>3. PICK w \in [UmemFrames -> Places] : PlacedBy(w)
  BY DEF FramesInv, PlacesInv
<1>4. ASSUME NEW x \in Umem(0)
      PROVE  /\ InQueue(0, x)' <=> InQueue(0, x) /\ x # f
             /\ (\E t \in Slots : cached_packets'[t][0] = x) <=>
                  \/ r = 0 /\ x = f
                  \/ (\E t \in Slots : cached_packets[t][0] = x) /\ ~(x = old /\ (Occupied(s, r) \/ r = 0))
  <2>1. InQueue(0, x)' <=> InQueue(0, x) /\ x # f
    BY <1>1, HandledQueues
  <2>2. x # NULL
    BY <1>1, UmemOf
  <2>3. \A t \in Slots : cached_packets[t][0] = x /\ old = x => t = s
    BY <1>1, <2>2, QueuedOrCached DEF Has
  <2>4. cached_packets'[s][0] = IF 0 = r THEN f ELSE IF Occupied(s, r) THEN NULL ELSE old
    BY <1>1
  <2>5. r = 0 => \A t \in Slots : cached_packets[t][0] # f
    BY <1>1, <1>2, QueuedOrCached
  <2>6. (\E t \in Slots : cached_packets'[t][0] = x) <=>
          \/ cached_packets'[s][0] = x
          \/ \E t \in Slots \ {s} : cached_packets[t][0] = x
    OBVIOUS
  <2>7. (\E t \in Slots \ {s} : cached_packets[t][0] = x) <=>
          (\E t \in Slots : cached_packets[t][0] = x) /\ x # old
    BY <2>3
  <2>8. x = old => \E t \in Slots : cached_packets[t][0] = x
    OBVIOUS
  <2> QED BY <2>1, <2>2, <2>4, <2>5, <2>6, <2>7, <2>8
<1>5. r = 0 => f \in Umem(0) /\ InQueue(0, f)
  BY <1>2
<1>6. ASSUME NEW x \in Umem(0), x = f
      PROVE  r = 0
  BY <1>1, <1>6, UmemOf
<1>7. old # NULL => /\ old \in Umem(0) /\ ~InSeq(fq[0], old) /\ ~InQueue(0, old)
                    /\ ~InSeq(frags_to_be_sent, old) /\ ~InSeq(tx, old) /\ ~InSeq(cq, old)
  <2> SUFFICES ASSUME old # NULL
               PROVE  /\ old \in Umem(0) /\ ~InSeq(fq[0], old) /\ ~InQueue(0, old)
                      /\ ~InSeq(frags_to_be_sent, old) /\ ~InSeq(tx, old) /\ ~InSeq(cq, old)
    OBVIOUS
  <2>1. PICK g : g = old /\ g \in UmemFrames /\ g[1] = 0 /\ w[g] = "cache" /\ g \in Umem(0)
    BY <1>1, <1>3, PlaceOf, UmemOf
  <2>2. /\ ~InSeq(fq[0], g) /\ ~InSeq(rx[0], g) /\ ~InSeq(pkt_frags, g)
        /\ ~InSeq(frags_to_be_sent, g) /\ ~InSeq(tx, g) /\ ~InSeq(cq, g)
    BY <1>3, <2>1 DEF PlacedBy
  <2> QED BY <2>1, <2>2 DEF InQueue
<1>8. Occupied(s, r) /\ r = 0 => old # NULL
  BY DEF Occupied
<1>9. ASSUME NEW x \in Umem(0)
      PROVE  InUse(x)' <=> InUse(x) /\ ~(Occupied(s, r) /\ x = old)
  <2>1. InUse(x) <=> \/ InSeq(fq[0], x) \/ InQueue(0, x)
                     \/ InSeq(frags_to_be_sent, x) \/ InSeq(tx, x) \/ InSeq(cq, x)
                     \/ \E t \in Slots : cached_packets[t][0] = x
    BY DEF InUse
  <2>2. InUse(x)' <=> \/ InSeq(fq[0], x) \/ InQueue(0, x)'
                      \/ InSeq(frags_to_be_sent, x) \/ InSeq(tx, x) \/ InSeq(cq, x)
                      \/ \E t \in Slots : cached_packets'[t][0] = x
    BY <1>1 DEF InUse
  <2>3. x # NULL
    BY <1>1, UmemOf
  <2>4. r = 0 /\ ~Occupied(s, r) => old = NULL
    BY DEF Occupied
  <2> QED BY <1>4, <1>5, <1>6, <1>7, <2>1, <2>2, <2>3, <2>4
<1> QED BY <1>9

LEMMA InUseMerged ==
  ASSUME FramesInv, NEW f \in Umem(socket_to_process), NEW s \in Slots, Handles(f, s), NEW row,
         \A q \in Rus : row[q] = (IF q = socket_to_process THEN f ELSE cached_packets[s][q])
                        /\ row[q] \in Umem(q),
         cached_packets'[s][0] = NULL /\ (Has(s, 0) => socket_to_process # 0),
         \A t \in Slots \ {s} : cached_packets'[t] = cached_packets[t],
         frags_to_be_sent' = Append(frags_to_be_sent, row[0])
  PROVE  \A x \in Umem(0) : InUse(x)' <=> InUse(x)
<1> DEFINE r == socket_to_process
           old == cached_packets[s][0]
<1>1. /\ r \in Rus /\ InSeq(pkt_frags, f) /\ 0 \in Rus /\ f # NULL
      /\ UNCHANGED <<fq, tx, cq>>
  BY HandledLeaves, Sockets, UmemOf
<1>2. frags_to_be_sent \in Seq(Umem(0)) /\ row[0] \in Umem(0)
  BY <1>1 DEF FramesInv, TypeInv
<1>3. \A x : InSeq(frags_to_be_sent', x) <=> InSeq(frags_to_be_sent, x) \/ x = row[0]
  BY <1>2, AppendedIn
<1>4. InQueue(r, f)
  BY <1>1 DEF InQueue
<1>5. ASSUME NEW x \in Umem(0)
      PROVE  InUse(x)' <=> InUse(x)
  <2>1. InQueue(0, x)' <=> InQueue(0, x) /\ x # f
    BY <1>1, HandledQueues
  <2>2. x # NULL /\ (x = f => r = 0)
    BY <1>1, UmemOf
  <2>3. \A t \in Slots : cached_packets[t][0] = x /\ old = x => t = s
    BY <1>1, <2>2, QueuedOrCached DEF Has
  <2>4. (\E t \in Slots : cached_packets'[t][0] = x) <=>
          \/ cached_packets'[s][0] = x
          \/ \E t \in Slots \ {s} : cached_packets[t][0] = x
    OBVIOUS
  <2>5. (\E t \in Slots \ {s} : cached_packets[t][0] = x) <=>
          (\E t \in Slots : cached_packets[t][0] = x) /\ x # old
    BY <2>3
  <2>6. x = old => \E t \in Slots : cached_packets[t][0] = x
    OBVIOUS
  <2>7. row[0] = IF r = 0 THEN f ELSE old
    BY <1>1
  <2>8. r = 0 => old = NULL
    BY DEF Has
  <2>9. InUse(x) <=> \/ InSeq(fq[0], x) \/ InQueue(0, x)
                     \/ InSeq(frags_to_be_sent, x) \/ InSeq(tx, x) \/ InSeq(cq, x)
                     \/ \E t \in Slots : cached_packets[t][0] = x
    BY DEF InUse
  <2>10. InUse(x)' <=> \/ InSeq(fq[0], x) \/ InQueue(0, x)'
                       \/ InSeq(frags_to_be_sent', x) \/ InSeq(tx, x) \/ InSeq(cq, x)
                       \/ \E t \in Slots : cached_packets'[t][0] = x
    BY <1>1 DEF InUse
  <2>11. r = 0 /\ x = f => InQueue(0, x)
    BY <1>4
  <2> QED BY <1>3, <2>1, <2>2, <2>4, <2>5, <2>6, <2>7, <2>8, <2>9, <2>10, <2>11
<1> QED BY <1>5

-----------------------------------------------------------------------------
(* The middlebox, step by step, as the counts of a slot see it             *)

HasUnchanged(s) == \A q \in Rus : Has(s, q)' <=> Has(s, q)
NonePasses == \A q \in Rus, t \in Slots : Passed(q, t)' = Passed(q, t)
Passes(r, s) ==
  /\ Passed(r, s)' = Passed(r, s) + 1
  /\ \A q \in Rus, t \in Slots : ~(q = r /\ t = s) => Passed(q, t)' = Passed(q, t)

\* Most steps are quiet.
Quietly ==
  /\ NonePasses
  /\ \A t \in Slots : HasUnchanged(t)
  /\ lost' = lost /\ Out' = Out

\* A packet that is lost passes.
ViewLost(r, s) ==
  /\ Passes(r, s)
  /\ \A t \in Slots : HasUnchanged(t)
  /\ \E p : p \notin lost /\ lost' = lost \cup {p} /\ p = UplinkPacket(r, s, frame)
  /\ Out' = Out

\* A packet that is handled waits in the cache; an old row goes, with a frame
\* of socket 0.
ViewKept(r, s) ==
  /\ Passes(r, s)
  /\ Passed(r, s) \in {frame - 1, frame}
  /\ \A q \in Rus \ {r} : Passed(q, s) \in {frame, frame + 1}
  /\ \A t \in Slots \ {s} : HasUnchanged(t)
  /\ Has(s, r)' /\ \A q \in Rus \ {r} : Has(s, q)' <=> Has(s, q) /\ ~Has(s, r)
  /\ lost' = lost
  /\ ~Has(s, r) => Out' = Out
  /\ Out' \subseteq Out \cup {cached_packets[s][0]}

\* Or it is the last of its group.
ViewMerged(r, s) ==
  /\ Passes(r, s)
  /\ \A t \in Slots \ {s} : HasUnchanged(t)
  /\ \A q \in Rus : ~Has(s, q)' /\ (Has(s, q) <=> q # r)
  /\ lost' = lost /\ Out' = Out

ViewNext == \/ Quietly
            \/ \E r \in Rus, s \in Slots : ViewLost(r, s) \/ ViewKept(r, s) \/ ViewMerged(r, s)

LEMMA SameOut ==
  ASSUME \A f \in Umem(0) : InUse(f)' <=> InUse(f)
  PROVE  Out' = Out
BY DEF Out, Umem

LEMMA QuietlySame ==
  ASSUME FramesInv, \A f \in Umem(0) : InUse(f)' <=> InUse(f), UNCHANGED <<cached_packets, sent, lost, frame>>,
         \A r \in Rus, s \in Slots, g \in RadioFrames : Waits(r, s, g)' <=> Waits(r, s, g)
  PROVE  Quietly
<1>1. Out' = Out
  BY SameOut
<1>2. frame \in RadioFrames
  BY Numbers DEF FramesInv, TypeInv
<1>3. ASSUME NEW r \in Rus, NEW s \in Slots
      PROVE  Passed(r, s)' = Passed(r, s)
  <2>1. \A g \in RadioFrames : Waits(r, s, g)' <=> Waits(r, s, g)
    OBVIOUS
  <2> QED BY <1>2, <2>1, PassedStays
<1> QED BY <1>1, <1>3 DEF Quietly, NonePasses, HasUnchanged, Has

LEMMA WaitsSame ==
  ASSUME UNCHANGED <<rx, pkt_frags, content, socket_to_process>>
  PROVE  \A r \in Rus, s \in Slots, g \in RadioFrames : Waits(r, s, g)' <=> Waits(r, s, g)
BY DEF Waits, InQueue

LEMMA ViewRxPackets ==
  ASSUME FramesInv, HoldInv, NEW i \in Rus, RxPackets(i)
  PROVE  Quietly
<1>1. \A f \in Umem(0) : InUse(f)' <=> InUse(f)
  BY InUseTaken
<1>2. UNCHANGED <<cached_packets, sent, lost, frame>>
  BY TakenQueues
<1>3. PICK b : ContentInv(b)
  BY DEF HoldInv
<1>4. \A r \in Rus, s \in Slots, g \in RadioFrames : Waits(r, s, g)' <=> Waits(r, s, g)
  BY <1>3, ContentRxPackets
<1> QED BY <1>1, <1>2, <1>4, QuietlySame

LEMMA ViewReturnFrames == FramesInv /\ ReturnFrames => Quietly
<1> SUFFICES ASSUME FramesInv, ReturnFrames PROVE Quietly
  OBVIOUS
<1>1. \A f \in Umem(0) : InUse(f)' <=> InUse(f)
  BY InUseReturned
<1>2. /\ UNCHANGED <<cached_packets, sent, lost, frame>>
      /\ UNCHANGED <<rx, pkt_frags, content, socket_to_process>>
  BY DEF ReturnFrames, cacheVars, envVars
<1> QED BY <1>1, <1>2, WaitsSame, QuietlySame

LEMMA ViewQueueSums == FramesInv /\ QueueSums => Quietly
<1> SUFFICES ASSUME FramesInv, QueueSums PROVE Quietly
  OBVIOUS
<1>1. \A f \in Umem(0) : InUse(f)' <=> InUse(f)
  BY InUseQueued
<1>2. /\ UNCHANGED <<cached_packets, sent, lost, frame>>
      /\ UNCHANGED <<rx, pkt_frags, content, socket_to_process>>
  BY DEF QueueSums, cacheVars, envVars
<1> QED BY <1>1, <1>2, WaitsSame, QuietlySame

LEMMA ViewCollectCompleted == FramesInv /\ CollectCompleted => Quietly
<1> SUFFICES ASSUME FramesInv, CollectCompleted PROVE Quietly
  OBVIOUS
<1>1. \A f \in Umem(0) : InUse(f)' <=> InUse(f)
  BY InUseCollected
<1>2. /\ UNCHANGED <<cached_packets, sent, lost, frame>>
      /\ UNCHANGED <<rx, pkt_frags, content, socket_to_process>>
  BY DEF CollectCompleted, cacheVars, envVars
<1> QED BY <1>1, <1>2, WaitsSame, QuietlySame

LEMMA ViewTransmit == FramesInv /\ Transmit => Quietly
<1> SUFFICES ASSUME FramesInv, Transmit PROVE Quietly
  OBVIOUS
<1>1. \A f \in Umem(0) : InUse(f)' <=> InUse(f)
  BY InUseTransmitted
<1>2. /\ UNCHANGED <<cached_packets, sent, lost, frame>>
      /\ UNCHANGED <<rx, pkt_frags, content, socket_to_process>>
  BY DEF Transmit, batchVars, cacheVars, envVars
<1> QED BY <1>1, <1>2, WaitsSame, QuietlySame

\* A packet that is received has been sent, and waits.
LEMMA ViewSend ==
  ASSUME FramesInv, HoldInv, NEW r \in Rus, NEW s \in Slots, Send(r, s)
  PROVE  Quietly
<1>1. PICK b : ContentInv(b)
  BY DEF HoldInv
<1>2. /\ \A q \in Rus, t \in Slots, g \in RadioFrames :
              Waits(q, t, g)' <=> Waits(q, t, g) \/ (q = r /\ t = s /\ g = frame)
      /\ ~Waits(r, s, frame)
  BY <1>1, ContentSend
<1>3. Out' = Out
  BY InUseSent, SameOut
<1>4. /\ sent' = [sent EXCEPT ![r] = sent[r] \cup {s}] /\ s \notin sent[r]
      /\ UNCHANGED <<cached_packets, frame, lost>>
  BY DEF Send, cacheVars
<1>5. frame \in RadioFrames /\ frame \in Nat /\ sent \in [Rus -> SUBSET Slots]
  BY Numbers DEF FramesInv, TypeInv
<1>6. sent'[r] = sent[r] \cup {s} /\ \A q \in Rus : q # r => sent'[q] = sent[q]
  BY <1>4, <1>5
<1>7. ASSUME NEW q \in Rus, NEW t \in Slots, ~(q = r /\ t = s)
      PROVE  Passed(q, t)' = Passed(q, t)
  <2>1. \A g \in RadioFrames : Waits(q, t, g)' <=> Waits(q, t, g)
    BY <1>2, <1>7
  <2>2. t \in sent'[q] <=> t \in sent[q]
    BY <1>6, <1>7
  <2> QED BY <1>4, <1>5, <2>1, <2>2, PassedStays
<1>8. Passed(r, s)' = Passed(r, s)
  <2>1. PICK h : h = frame /\ h \in RadioFrames
    BY <1>5
  <2>2. Waits(r, s, h)' /\ ~Waits(r, s, h)
    BY <1>2, <2>1
  <2>3. Earlier(r, s)' <=> Earlier(r, s)
    BY <1>2, <1>4 DEF Earlier
  <2>4. PICK z : z = Bit(Earlier(r, s)) /\ z = Bit(Earlier(r, s)') /\ z \in {0, 1}
    BY <2>3 DEF Bit
  <2>5. Passed(r, s)' = frame + 1 - 1 - z
    BY <1>4, <1>6, <2>1, <2>2, <2>4 DEF Passed, Bit
  <2>6. Passed(r, s) = frame + 0 - 0 - z
    BY <1>4, <2>1, <2>2, <2>4 DEF Passed, Bit
  <2> QED BY <1>5, <2>4, <2>5, <2>6
<1>9. NonePasses
  BY <1>7, <1>8 DEF NonePasses
<1> QED BY <1>3, <1>4, <1>9 DEF Quietly, HasUnchanged, Has

LEMMA ViewLose ==
  ASSUME FramesInv, HoldInv, NEW r \in Rus, NEW s \in Slots, Lose(r, s)
  PROVE  ViewLost(r, s)
<1>1. PICK b : ContentInv(b)
  BY DEF HoldInv
<1>2. /\ \A q \in Rus, t \in Slots, g \in RadioFrames : Waits(q, t, g)' <=> Waits(q, t, g)
      /\ ~Waits(r, s, frame)
  BY <1>1, ContentLose
<1>3. /\ sent' = [sent EXCEPT ![r] = sent[r] \cup {s}] /\ s \notin sent[r]
      /\ lost' = lost \cup {UplinkPacket(r, s, frame)}
      /\ UNCHANGED <<fq, rx, tx, cq, socket_to_process, pkt_frags, frags_to_be_sent,
                     cached_packets, frame>>
  BY DEF Lose, rings, batchVars, cacheVars
<1>4. Out' = Out
  BY <1>3, SameOut DEF InUse, InQueue
<1>5. frame \in RadioFrames /\ frame \in Nat /\ sent \in [Rus -> SUBSET Slots]
  BY Numbers DEF FramesInv, TypeInv
<1>6. sent'[r] = sent[r] \cup {s} /\ \A q \in Rus : q # r => sent'[q] = sent[q]
  BY <1>3, <1>5
<1>7. PICK p : p = UplinkPacket(r, s, frame) /\ p.ru = r /\ p.frame = frame /\ SlotOf(p) = s
  BY <1>5, SingleIs
<1>8. p \notin lost
  BY <1>1, <1>3, <1>7 DEF ContentInv, LostSent
<1>9. ASSUME NEW q \in Rus, NEW t \in Slots, ~(q = r /\ t = s)
      PROVE  Passed(q, t)' = Passed(q, t)
  <2>1. \A g \in RadioFrames : Waits(q, t, g)' <=> Waits(q, t, g)
    BY <1>2
  <2>2. t \in sent'[q] <=> t \in sent[q]
    BY <1>6, <1>9
  <2> QED BY <1>3, <1>5, <2>1, <2>2, PassedStays
<1>10. Passed(r, s)' = Passed(r, s) + 1
  <2>1. PICK h : h = frame /\ h \in RadioFrames
    BY <1>5
  <2>2. ~Waits(r, s, h)' /\ ~Waits(r, s, h)
    BY <1>2, <2>1
  <2>3. Earlier(r, s)' <=> Earlier(r, s)
    BY <1>2, <1>3 DEF Earlier
  <2>4. PICK z : z = Bit(Earlier(r, s)) /\ z = Bit(Earlier(r, s)') /\ z \in {0, 1}
    BY <2>3 DEF Bit
  <2>5. Passed(r, s)' = frame + 1 - 0 - z
    BY <1>3, <1>6, <2>1, <2>2, <2>4 DEF Passed, Bit
  <2>6. Passed(r, s) = frame + 0 - 0 - z
    BY <1>3, <2>1, <2>2, <2>4 DEF Passed, Bit
  <2> QED BY <1>5, <2>4, <2>5, <2>6
<1>11. Passes(r, s)
  BY <1>9, <1>10 DEF Passes
<1>12. \A t \in Slots : HasUnchanged(t)
  BY <1>3 DEF HasUnchanged, Has
<1>13. lost' = lost \cup {p}
  BY <1>3, <1>7
<1> QED BY <1>4, <1>7, <1>8, <1>11, <1>12, <1>13 DEF ViewLost

\* When the radio frame ends, the batch is all that waits.
LEMMA ViewNextFrame == FramesInv /\ HoldInv /\ NextFrame => Quietly
<1> SUFFICES ASSUME FramesInv, HoldInv, NextFrame PROVE Quietly
  OBVIOUS
<1>1. PICK b : ContentInv(b)
  BY DEF HoldInv
<1>2. \A q \in Rus, t \in Slots, g \in RadioFrames :
              /\ Waits(q, t, g)' <=> Waits(q, t, g)
              /\ Waits(q, t, g) => g = b
  BY <1>1, ContentNextFrame
<1>3. /\ frame < MaxFrame /\ frame' = frame + 1
      /\ \A r \in Rus : sent[r] = Slots /\ sent'[r] = {}
      /\ UNCHANGED <<fq, rx, tx, cq, socket_to_process, pkt_frags, frags_to_be_sent,
                     cached_packets, lost>>
  BY DEF NextFrame, rings, batchVars, cacheVars
<1>4. Out' = Out
  BY <1>3, SameOut DEF InUse, InQueue
<1>5. /\ frame \in RadioFrames /\ frame \in Nat /\ b \in RadioFrames /\ b \in Nat /\ b <= frame
      /\ MaxFrame \in Nat
  BY <1>1, Numbers DEF ContentInv, FramesInv, TypeInv
<1>6. PICK h : h = frame + 1 /\ h \in RadioFrames /\ h # b /\ frame # h
  <2>1. frame + 1 \in RadioFrames /\ frame + 1 # b /\ frame # frame + 1
    BY <1>3, <1>5 DEF RadioFrames
  <2> QED BY <2>1
<1>7. ASSUME NEW q \in Rus, NEW t \in Slots
      PROVE  Passed(q, t)' = Passed(q, t)
  <2>1. ~Waits(q, t, h)'
    BY <1>2, <1>6
  <2>2. Earlier(q, t)' <=> Waits(q, t, b)
    BY <1>2, <1>3, <1>5, <1>6 DEF Earlier
  <2>3. /\ Waits(q, t, frame) <=> b = frame /\ Waits(q, t, b)
        /\ Earlier(q, t) <=> b # frame /\ Waits(q, t, b)
    BY <1>2, <1>5 DEF Earlier
  <2>4. PICK y, z, w : y = Bit(Waits(q, t, frame)) /\ z = Bit(Earlier(q, t)) /\ w = Bit(Earlier(q, t)')
                       /\ y \in {0, 1} /\ z \in {0, 1} /\ w = y + z
    <3>1. Bit(Waits(q, t, frame)) \in {0, 1} /\ Bit(Earlier(q, t)) \in {0, 1}
          /\ Bit(Earlier(q, t)') = Bit(Waits(q, t, frame)) + Bit(Earlier(q, t))
      BY <2>2, <2>3 DEF Bit
    <3> QED BY <3>1
  <2>5. Passed(q, t)' = h + 0 - 0 - w
    BY <1>3, <1>6, <2>1, <2>4 DEF Passed, Bit
  <2>6. Passed(q, t) = frame + 1 - y - z
    BY <1>3, <2>4 DEF Passed, Bit
  <2> QED BY <1>5, <1>6, <2>4, <2>5, <2>6
<1> QED BY <1>3, <1>4, <1>7 DEF Quietly, NonePasses, HasUnchanged, Has

LEMMA ViewCacheFrag ==
  ASSUME FramesInv, HoldInv, CacheFrag
  PROVE  \E r \in Rus, s \in Slots : ViewKept(r, s)
<1>1. PICK b : ContentInv(b)
  BY DEF HoldInv
<1>2. PICK f \in Umem(socket_to_process), s \in Slots :
        /\ Handles(f, s)
        /\ \A q \in Rus : cached_packets'[s][q] =
             IF q = socket_to_process THEN f
             ELSE IF Occupied(s, socket_to_process) THEN NULL ELSE cached_packets[s][q]
        /\ \A t \in Slots \ {s} : cached_packets'[t] = cached_packets[t]
        /\ UNCHANGED <<content, frags_to_be_sent>>
  BY CacheFragIs
<1>3. \A q \in Rus : \A x \in Umem(q) : InQueue(q, x) /\ x # f => content'[x] = content[x]
  BY <1>2
<1>4. /\ Passed(socket_to_process, s)' = Passed(socket_to_process, s) + 1
      /\ \A q \in Rus, t \in Slots :
              ~(q = socket_to_process /\ t = s) => Passed(q, t)' = Passed(q, t)
  BY <1>1, <1>2, <1>3, PassedHandled
<1>5. \A x \in Umem(0) :
           InUse(x)' <=> InUse(x) /\ ~(Occupied(s, socket_to_process) /\ x = cached_packets[s][0])
  BY <1>2, InUseCached
<1>6. Waits(socket_to_process, s, b)
  BY <1>1, <1>2, <1>3, HandledView
<1>7. PICK r \in Rus : r = socket_to_process /\ socket_to_process' = r /\ lost' = lost /\ f # NULL
  BY <1>2, HandledLeaves, UmemOf
<1>8. Passes(r, s)
  BY <1>4, <1>7 DEF Passes
<1>9. Passed(r, s) \in {frame - 1, frame} /\ \A q \in Rus \ {r} : Passed(q, s) \in {frame, frame + 1}
  BY <1>1, <1>6, <1>7, PassedIs
<1>10. \A t \in Slots \ {s} : HasUnchanged(t)
  BY <1>2 DEF HasUnchanged, Has
<1>11. Has(s, r)' /\ \A q \in Rus \ {r} : Has(s, q)' <=> Has(s, q) /\ ~Has(s, r)
  BY <1>2, <1>7 DEF Has, Occupied
<1>12. ~Has(s, r) => Out' = Out
  <2> SUFFICES ASSUME ~Has(s, r) PROVE Out' = Out
    OBVIOUS
  <2>1. \A x \in Umem(0) : InUse(x)' <=> InUse(x)
    BY <1>5, <1>7 DEF Has, Occupied
  <2> QED BY <2>1, SameOut
<1>13. Out' \subseteq Out \cup {cached_packets[s][0]}
  BY <1>5 DEF Out, Umem
<1> QED BY <1>7, <1>8, <1>9, <1>10, <1>11, <1>12, <1>13 DEF ViewKept

LEMMA ViewMergeGroup ==
  ASSUME FramesInv, HoldInv, MergeGroup
  PROVE  \E r \in Rus, s \in Slots : ViewMerged(r, s)
<1>1. PICK b : ContentInv(b)
  BY DEF HoldInv
<1>2. PICK f \in Umem(socket_to_process), s \in Slots : \E row :
               /\ Handles(f, s) /\ ~Has(s, socket_to_process)
               /\ \A q \in Rus : row[q] = (IF q = socket_to_process THEN f ELSE cached_packets[s][q])
                                 /\ row[q] \in Umem(q)
               /\ content' = [content EXCEPT ![row[0]] = [q \in Rus |-> content[row[q]][q]]]
               /\ \A q \in Rus : cached_packets'[s][q] = NULL
               /\ \A t \in Slots \ {s} : cached_packets'[t] = cached_packets[t]
               /\ frags_to_be_sent' = Append(frags_to_be_sent, row[0])
  BY MergeGroupIs
<1>3. PICK row :
               /\ Handles(f, s) /\ ~Has(s, socket_to_process)
               /\ \A q \in Rus : row[q] = (IF q = socket_to_process THEN f ELSE cached_packets[s][q])
                                 /\ row[q] \in Umem(q)
               /\ content' = [content EXCEPT ![row[0]] = [q \in Rus |-> content[row[q]][q]]]
               /\ \A q \in Rus : cached_packets'[s][q] = NULL
               /\ \A t \in Slots \ {s} : cached_packets'[t] = cached_packets[t]
               /\ frags_to_be_sent' = Append(frags_to_be_sent, row[0])
  BY <1>2
<1>4. \A q \in Rus : \A x \in Umem(q) : InQueue(q, x) /\ x # f => content'[x] = content[x]
  BY <1>3, SumIsApart
<1>5. /\ Passed(socket_to_process, s)' = Passed(socket_to_process, s) + 1
      /\ \A q \in Rus, t \in Slots :
              ~(q = socket_to_process /\ t = s) => Passed(q, t)' = Passed(q, t)
  BY <1>1, <1>3, <1>4, PassedHandled
<1>6. Out' = Out
  <2>1. cached_packets'[s][0] = NULL /\ (Has(s, 0) => socket_to_process # 0)
    BY <1>3, Sockets
  <2>2. \A x \in Umem(0) : InUse(x)' <=> InUse(x)
    BY <1>3, <2>1, InUseMerged
  <2> QED BY <2>2, SameOut
<1>7. PICK r \in Rus : r = socket_to_process /\ socket_to_process' = r /\ lost' = lost
  BY <1>3, HandledLeaves
<1>8. Passes(r, s)
  BY <1>5, <1>7 DEF Passes
<1>9. \A t \in Slots \ {s} : HasUnchanged(t)
  BY <1>3 DEF HasUnchanged, Has
<1>10. \A q \in Rus : ~Has(s, q)' /\ (Has(s, q) <=> q # r)
  <2> TAKE q \in Rus
  <2>1. ~Has(s, q)'
    BY <1>3 DEF Has
  <2>2. q = r => ~Has(s, q)
    BY <1>3, <1>7
  <2>3. q # r => Has(s, q)
    BY <1>3, <1>7, UmemOf DEF Has
  <2> QED BY <2>1, <2>2, <2>3
<1> QED BY <1>6, <1>7, <1>8, <1>9, <1>10 DEF ViewMerged

LEMMA NextIsViewStep == FramesInv /\ HoldInv /\ [Next]_vars => ViewNext
<1> SUFFICES ASSUME FramesInv, HoldInv, [Next]_vars PROVE ViewNext
  OBVIOUS
<1>1. CASE UNCHANGED vars
  <2>1. UNCHANGED <<fq, rx, tx, cq, content, pkt_frags, socket_to_process, frags_to_be_sent,
                    cached_packets, sent, lost, frame>>
    BY <1>1 DEF vars, rings, batchVars, cacheVars, envVars
  <2>2. \A f \in Umem(0) : InUse(f)' <=> InUse(f)
    BY <2>1 DEF InUse, InQueue
  <2>3. Quietly
    BY <2>1, <2>2, WaitsSame, QuietlySame
  <2> QED BY <2>3 DEF ViewNext
<1>2. ASSUME NEW i \in Rus, RxPackets(i) PROVE ViewNext
  BY <1>2, ViewRxPackets DEF ViewNext
<1>3. ASSUME NEW r \in Rus, NEW s \in Slots, Send(r, s) PROVE ViewNext
  BY <1>3, ViewSend DEF ViewNext
<1>4. ASSUME NEW r \in Rus, NEW s \in Slots, Lose(r, s) PROVE ViewNext
  BY <1>4, ViewLose DEF ViewNext
<1>5. CacheFrag => ViewNext
  BY ViewCacheFrag DEF ViewNext
<1>6. MergeGroup => ViewNext
  BY ViewMergeGroup DEF ViewNext
<1>7. ReturnFrames \/ QueueSums \/ CollectCompleted \/ Transmit \/ NextFrame => ViewNext
  BY ViewReturnFrames, ViewQueueSums, ViewCollectCompleted, ViewTransmit, ViewNextFrame DEF ViewNext
<1> QED BY <1>1, <1>2, <1>3, <1>4, <1>5, <1>6, <1>7 DEF Next, Thread, Idle

-----------------------------------------------------------------------------
(* Every loss pays for one eviction, and an eviction for one frame.  An RU  *)
(* of a slot is behind by k if some RU's backlog exceeds its own by k; a    *)
(* loss puts one RU behind by one more, and an eviction makes up for at     *)
(* least one such place.                                                    *)

Backlog(s, r) == Bit(Has(s, r)) - Passed(r, s)
Behind(s, r, k) == \E q \in Rus : Backlog(s, q) >= Backlog(s, r) + k
Deficit == {e \in Slots \X Rus \X {1, 2, 3} : Behind(e[1], e[2], e[3])}
LeakInv ==
  /\ IsFiniteSet(Deficit) /\ IsFiniteSet(Out) /\ IsFiniteSet(lost)
  /\ Cardinality(Out) + Cardinality(Deficit) <= Cardinality(lost)

LEMMA BacklogType ==
  ASSUME FramesInv, HoldInv, NEW s \in Slots, NEW r \in Rus
  PROVE  Backlog(s, r) \in Int /\ Passed(r, s) \in Int /\ Bit(Has(s, r)) \in {0, 1}
<1>1. Passed(r, s) \in Int
  BY PassedIs DEF HoldInv
<1>2. Bit(Has(s, r)) \in {0, 1}
  BY DEF Bit
<1> QED BY <1>1, <1>2 DEF Backlog

\* Some packet of a row is always missing.
LEMMA NotAllHeld ==
  ASSUME FramesInv, NEW s \in Slots
  PROVE  \E m \in Rus : ~Has(s, m)
<1> SUFFICES ASSUME \A m \in Rus : Has(s, m) PROVE FALSE
  OBVIOUS
<1>1. FilledBy(cached_packets[s]) = Rus
  BY DEF FilledBy, Has
<1>2. cached_packets_num[s] = Cardinality(Rus) /\ cached_packets_num[s] \in 0 .. NumRus - 1
  BY <1>1 DEF FramesInv, CountInv, TypeInv, TypeOK
<1> QED BY <1>2, Sockets

BacklogsUnchanged(s) == \A q \in Rus : Backlog(s, q)' = Backlog(s, q)

LEMMA BacklogElsewhere ==
  ASSUME NEW t \in Slots, HasUnchanged(t), \A q \in Rus : Passed(q, t)' = Passed(q, t)
  PROVE  BacklogsUnchanged(t)
<1> SUFFICES ASSUME NEW q \in Rus PROVE Backlog(t, q)' = Backlog(t, q)
  BY DEF BacklogsUnchanged
<1>1. Bit(Has(t, q)') = Bit(Has(t, q)) /\ Passed(q, t)' = Passed(q, t)
  BY DEF HasUnchanged, Bit
<1>2. Backlog(t, q)' = Bit(Has(t, q)') - Passed(q, t)' /\ Backlog(t, q) = Bit(Has(t, q)) - Passed(q, t)
  BY DEF Backlog, Bit
<1> QED BY <1>1, <1>2

\* What a step at a slot does to its backlogs.
LEMMA BacklogHere ==
  ASSUME FramesInv, HoldInv, NEW r \in Rus, NEW s \in Slots, Passes(r, s)
  PROVE  /\ Backlog(s, r)' = Bit(Has(s, r)') - (Passed(r, s) + 1)
         /\ \A q \in Rus \ {r} : Backlog(s, q)' = Bit(Has(s, q)') - Passed(q, s)
         /\ \A q \in Rus : Backlog(s, q) = Bit(Has(s, q)) - Passed(q, s)
<1>1. Passed(r, s)' = Passed(r, s) + 1 /\ \A q \in Rus \ {r} : Passed(q, s)' = Passed(q, s)
  BY DEF Passes
<1>2. \A q \in Rus : Backlog(s, q)' = Bit(Has(s, q)') - Passed(q, s)'
  BY DEF Backlog, Bit
<1> QED BY <1>1, <1>2 DEF Backlog

LEMMA SameBehind ==
  ASSUME FramesInv, HoldInv, NEW s \in Slots, NEW d \in Int,
         \A q \in Rus : Backlog(s, q)' = Backlog(s, q) - d
  PROVE  \A r \in Rus, k \in {1, 2, 3} : Behind(s, r, k)' <=> Behind(s, r, k)
<1> SUFFICES ASSUME NEW r \in Rus, NEW k \in {1, 2, 3}
             PROVE  Behind(s, r, k)' <=> Behind(s, r, k)
  OBVIOUS
<1>1. \A q \in Rus : Backlog(s, q) \in Int
  BY BacklogType
<1>2. \A q \in Rus : Backlog(s, q)' >= Backlog(s, r)' + k <=> Backlog(s, q) >= Backlog(s, r) + k
  BY <1>1
<1> QED BY <1>2 DEF Behind

LEMMA BehindElsewhere ==
  ASSUME NEW s \in Slots, BacklogsUnchanged(s)
  PROVE  \A r \in Rus, k \in {1, 2, 3} : Behind(s, r, k)' <=> Behind(s, r, k)
BY DEF Behind, BacklogsUnchanged

\* The places of a deficit, one by one.
LEMMA PlacesOf ==
  /\ \A e \in Slots \X Rus \X {1, 2, 3} : /\ e[1] \in Slots /\ e[2] \in Rus /\ e[3] \in {1, 2, 3}
                                          /\ e = <<e[1], e[2], e[3]>>
  /\ \A e : e \in Deficit <=> e \in Slots \X Rus \X {1, 2, 3} /\ Behind(e[1], e[2], e[3])
  /\ \A e : e \in Deficit' <=> e \in Slots \X Rus \X {1, 2, 3} /\ Behind(e[1], e[2], e[3])'
BY DEF Deficit

LEMMA SameDeficit ==
  ASSUME \A s \in Slots, r \in Rus, k \in {1, 2, 3} : Behind(s, r, k)' <=> Behind(s, r, k)
  PROVE  Deficit' = Deficit
<1>1. \A e \in Slots \X Rus \X {1, 2, 3} : Behind(e[1], e[2], e[3])' <=> Behind(e[1], e[2], e[3])
  BY PlacesOf
<1> QED BY <1>1, PlacesOf

\* A loss adds at most one place.
LEMMA DeficitLost ==
  ASSUME FramesInv, HoldInv, NEW r \in Rus, NEW s \in Slots, ViewLost(r, s)
  PROVE  \E e : Deficit' \subseteq Deficit \cup {e}
<1>1. Passes(r, s) /\ \A t \in Slots : HasUnchanged(t)
  BY DEF ViewLost
<1>2. \A q \in Rus : Backlog(s, q) \in Int /\ Passed(q, s) \in Int /\ Bit(Has(s, q)) \in {0, 1}
                     /\ Bit(Has(s, q)') = Bit(Has(s, q))
  BY <1>1, BacklogType DEF HasUnchanged, Bit
<1>3. /\ Backlog(s, r)' = Bit(Has(s, r)') - (Passed(r, s) + 1)
      /\ \A q \in Rus \ {r} : Backlog(s, q)' = Bit(Has(s, q)') - Passed(q, s)
      /\ \A q \in Rus : Backlog(s, q) = Bit(Has(s, q)) - Passed(q, s)
  BY <1>1, BacklogHere
<1>4. /\ Backlog(s, r)' = Backlog(s, r) - 1
      /\ \A q \in Rus \ {r} : Backlog(s, q)' = Backlog(s, q)
  BY <1>2, <1>3
<1>5. \A t \in Slots \ {s} : \A q \in Rus, k \in {1, 2, 3} : Behind(t, q, k)' <=> Behind(t, q, k)
  BY <1>1, BacklogElsewhere, BehindElsewhere DEF Passes
<1>6. ASSUME NEW q \in Rus \ {r}, NEW k \in {1, 2, 3}, Behind(s, q, k)'
      PROVE  Behind(s, q, k)
  <2>1. PICK p \in Rus : Backlog(s, p)' >= Backlog(s, q)' + k
    BY <1>6 DEF Behind
  <2>2. Backlog(s, p) >= Backlog(s, q) + k
    BY <1>2, <1>4, <2>1
  <2> QED BY <2>2 DEF Behind
<1>7. ASSUME NEW k \in {1, 2, 3}, NEW j \in {1, 2, 3}, Behind(s, r, k)', Behind(s, r, j)', k < j
      PROVE  Behind(s, r, k)
  <2>1. PICK p \in Rus : Backlog(s, p)' >= Backlog(s, r)' + j
    BY <1>7 DEF Behind
  <2>2. p # r
    BY <1>2, <1>4, <2>1
  <2>3. Backlog(s, p) >= Backlog(s, r) + k
    BY <1>2, <1>4, <1>7, <2>1, <2>2
  <2> QED BY <2>3 DEF Behind
<1>8. PICK k \in {1, 2, 3} : \A j \in {1, 2, 3} : Behind(s, r, j)' /\ ~Behind(s, r, j) => j = k
  <2>1. CASE Behind(s, r, 3)'
    BY <1>7, <2>1
  <2>2. CASE ~Behind(s, r, 3)' /\ Behind(s, r, 2)'
    BY <1>7, <2>2
  <2>3. CASE ~Behind(s, r, 3)' /\ ~Behind(s, r, 2)'
    BY <2>3
  <2> QED BY <2>1, <2>2, <2>3
<1>9. ASSUME NEW e \in Deficit' PROVE e \in Deficit \/ e = <<s, r, k>>
  <2>1. /\ e[1] \in Slots /\ e[2] \in Rus /\ e[3] \in {1, 2, 3} /\ e = <<e[1], e[2], e[3]>>
        /\ Behind(e[1], e[2], e[3])' /\ e \in Slots \X Rus \X {1, 2, 3}
    BY PlacesOf
  <2>2. PICK t \in Slots, q \in Rus, j \in {1, 2, 3} : e = <<t, q, j>> /\ Behind(t, q, j)'
    BY <2>1
  <2>3. Behind(t, q, j) => e \in Deficit
    BY <2>2, PlacesOf
  <2>4. CASE t # s
    BY <1>5, <2>2, <2>3, <2>4
  <2>5. CASE t = s /\ q # r
    BY <1>6, <2>2, <2>3, <2>5
  <2>6. CASE t = s /\ q = r
    BY <1>8, <2>2, <2>3, <2>6
  <2> QED BY <2>4, <2>5, <2>6
<1> QED BY <1>9

\* An eviction removes a place and adds none.
LEMMA DeficitEvicted ==
  ASSUME FramesInv, HoldInv, NEW r \in Rus, NEW s \in Slots, ViewKept(r, s), Has(s, r)
  PROVE  \E e \in Deficit : Deficit' \subseteq Deficit \ {e}
<1>1. Passes(r, s) /\ \A t \in Slots \ {s} : HasUnchanged(t)
  BY DEF ViewKept
<1>2. \A q \in Rus : Backlog(s, q) \in Int /\ Passed(q, s) \in Int /\ Bit(Has(s, q)) \in {0, 1}
  BY BacklogType
<1>3. /\ Backlog(s, r)' = Bit(Has(s, r)') - (Passed(r, s) + 1)
      /\ \A q \in Rus \ {r} : Backlog(s, q)' = Bit(Has(s, q)') - Passed(q, s)
      /\ \A q \in Rus : Backlog(s, q) = Bit(Has(s, q)) - Passed(q, s)
  BY <1>1, BacklogHere
<1>4. /\ Bit(Has(s, r)') = 1 /\ Bit(Has(s, r)) = 1
      /\ \A q \in Rus \ {r} : Bit(Has(s, q)') = 0
  BY DEF ViewKept, Bit
<1>5. \A q \in Rus : Backlog(s, q)' = 0 - Passed(q, s)
  BY <1>2, <1>3, <1>4
<1>6. /\ frame \in Nat /\ Passed(r, s) \in {frame - 1, frame}
      /\ \A q \in Rus \ {r} : Passed(q, s) \in {frame, frame + 1}
  BY Numbers DEF ViewKept, FramesInv, TypeInv
<1>7. Backlog(s, r) = 1 - Passed(r, s)
  BY <1>3, <1>4
<1>8. PICK m \in Rus : ~Has(s, m)
  BY NotAllHeld
<1>9. m # r /\ Backlog(s, m) = 0 - Passed(m, s)
  <2>1. Bit(Has(s, m)) = 0
    BY <1>8 DEF Bit
  <2>2. m # r
    BY <1>8
  <2>3. Backlog(s, m) = Bit(Has(s, m)) - Passed(m, s)
    BY <1>3
  <2> QED BY <2>1, <2>2, <2>3
<1>10. \A t \in Slots \ {s} : \A q \in Rus, k \in {1, 2, 3} : Behind(t, q, k)' <=> Behind(t, q, k)
  BY <1>1, BacklogElsewhere, BehindElsewhere DEF Passes
<1>11. ASSUME NEW q \in Rus, NEW k \in {1, 2, 3}, Behind(s, q, k)'
       PROVE  Behind(s, q, k)
  <2>1. PICK p \in Rus : Backlog(s, p)' >= Backlog(s, q)' + k
    BY <1>11 DEF Behind
  <2>2. Backlog(s, p) \in Int /\ Backlog(s, q) \in Int /\ Passed(p, s) \in Int /\ Passed(q, s) \in Int
        /\ Bit(Has(s, p)) \in {0, 1} /\ Bit(Has(s, q)) \in {0, 1}
    BY <1>2
  <2>3. /\ 0 - Passed(p, s) >= (0 - Passed(q, s)) + k
        /\ Backlog(s, p) = Bit(Has(s, p)) - Passed(p, s)
        /\ Backlog(s, q) = Bit(Has(s, q)) - Passed(q, s)
    BY <1>3, <1>5, <2>1
  <2>4. CASE Bit(Has(s, q)) = 0
    <3>1. Backlog(s, p) >= Backlog(s, q) + k
      BY <2>2, <2>3, <2>4
    <3> QED BY <3>1 DEF Behind
  <2>5. CASE Bit(Has(s, p)) = 1
    <3>1. Backlog(s, p) >= Backlog(s, q) + k
      BY <2>2, <2>3, <2>5
    <3> QED BY <3>1 DEF Behind
  <2>6. CASE Bit(Has(s, q)) = 1 /\ Bit(Has(s, p)) = 0
    <3>1. p # r /\ Passed(p, s) \in {frame, frame + 1}
      <4>1. ~Has(s, p)
        BY <2>6 DEF Bit
      <4>2. p # r
        BY <4>1
      <4> QED BY <1>6, <4>2
    <3>2. Backlog(s, r) >= Backlog(s, q) + k
      BY <1>6, <1>7, <2>2, <2>3, <2>6, <3>1
    <3> QED BY <3>2 DEF Behind
  <2> QED BY <2>2, <2>4, <2>5, <2>6
<1>12. PICK k \in {1, 2, 3} : Backlog(s, r) = Backlog(s, m) + k
  BY <1>6, <1>7, <1>9
<1>13. ~Behind(s, m, k)'
  <2> SUFFICES ASSUME NEW q \in Rus PROVE ~(Backlog(s, q)' >= Backlog(s, m)' + k)
    BY DEF Behind
  <2>1. /\ Backlog(s, m)' + k = 1 - Passed(r, s)
        /\ Backlog(s, q)' = 0 - Passed(q, s)
    BY <1>2, <1>5, <1>7, <1>9, <1>12
  <2>2. Passed(q, s) > Passed(r, s) - 1
    BY <1>6
  <2> QED BY <1>2, <2>1, <2>2
<1>14. <<s, m, k>> \in Deficit
  <2>1. Backlog(s, r) >= Backlog(s, m) + k
    BY <1>2, <1>12
  <2>2. Behind(s, m, k)
    BY <2>1 DEF Behind
  <2> QED BY <2>2, PlacesOf
<1>15. ASSUME NEW e \in Deficit' PROVE e \in Deficit /\ e # <<s, m, k>>
  <2>1. /\ e[1] \in Slots /\ e[2] \in Rus /\ e[3] \in {1, 2, 3} /\ e = <<e[1], e[2], e[3]>>
        /\ Behind(e[1], e[2], e[3])' /\ e \in Slots \X Rus \X {1, 2, 3}
    BY PlacesOf
  <2>2. PICK t \in Slots, q \in Rus, j \in {1, 2, 3} : e = <<t, q, j>> /\ Behind(t, q, j)'
    BY <2>1
  <2>3. Behind(t, q, j)
    BY <1>10, <1>11, <2>2
  <2>4. e \in Deficit
    BY <2>2, <2>3, PlacesOf
  <2> QED BY <1>13, <2>2, <2>4
<1> QED BY <1>14, <1>15

LEMMA OutFinite ==
  IsFiniteSet(Out) /\ IsFiniteSet(Out') /\ Cardinality(Out) \in Nat /\ Cardinality(Out') \in Nat
<1>1. IsFiniteSet(Umem(0))
  BY UmemOf, Sockets
<1>2. Out \in SUBSET Umem(0) /\ Out' \in SUBSET Umem(0)
  BY DEF Out, Umem
<1>3. IsFiniteSet(Out) /\ IsFiniteSet(Out')
  BY <1>1, <1>2, FS_Subset
<1> QED BY <1>3, FS_CardinalityType

\* A set that grows by one element at most.
LEMMA GrowsByOne ==
  ASSUME NEW S, IsFiniteSet(S), NEW T, NEW e, T \subseteq S \cup {e}
  PROVE  /\ IsFiniteSet(T) /\ Cardinality(T) \in Nat /\ Cardinality(S) \in Nat
         /\ Cardinality(T) <= Cardinality(S) + 1
<1>1. Cardinality(S) \in Nat
  BY FS_CardinalityType
<1>2. /\ IsFiniteSet(S \cup {e})
      /\ Cardinality(S \cup {e}) = IF e \in S THEN Cardinality(S) ELSE Cardinality(S) + 1
  BY FS_AddElement
<1>3. T \in SUBSET (S \cup {e})
  OBVIOUS
<1>4. IsFiniteSet(T) /\ Cardinality(T) <= Cardinality(S \cup {e})
  BY <1>2, <1>3, FS_Subset
<1>5. Cardinality(T) \in Nat
  BY <1>4, FS_CardinalityType
<1> QED BY <1>1, <1>2, <1>4, <1>5

\* A set that loses one element at least.
LEMMA ShrinksByOne ==
  ASSUME NEW S, IsFiniteSet(S), NEW T, NEW e \in S, T \subseteq S \ {e}
  PROVE  /\ IsFiniteSet(T) /\ Cardinality(T) \in Nat /\ Cardinality(S) \in Nat
         /\ Cardinality(T) <= Cardinality(S) - 1
<1>1. Cardinality(S) \in Nat
  BY FS_CardinalityType
<1>2. IsFiniteSet(S \ {e}) /\ Cardinality(S \ {e}) = Cardinality(S) - 1
  BY FS_RemoveElement
<1>3. T \in SUBSET (S \ {e})
  OBVIOUS
<1>4. IsFiniteSet(T) /\ Cardinality(T) <= Cardinality(S \ {e})
  BY <1>2, <1>3, FS_Subset
<1>5. Cardinality(T) \in Nat
  BY <1>4, FS_CardinalityType
<1> QED BY <1>1, <1>2, <1>4, <1>5

\* A loss adds one to the deficit at most; an eviction takes one away and puts
\* at most one frame out.
LEMMA LeakStep ==
  ASSUME FramesInv, HoldInv, LeakInv, ViewNext
  PROVE  LeakInv'
<1>1. /\ IsFiniteSet(Deficit) /\ IsFiniteSet(lost)
      /\ Cardinality(Out) + Cardinality(Deficit) <= Cardinality(lost)
      /\ Cardinality(Deficit) \in Nat /\ Cardinality(lost) \in Nat
  BY FS_CardinalityType DEF LeakInv
<1>2. CASE Deficit' = Deficit /\ Out' = Out /\ lost' = lost
  BY <1>2 DEF LeakInv
<1>3. CASE Quietly
  <2>1. \A t \in Slots : BacklogsUnchanged(t)
    BY <1>3, BacklogElsewhere DEF Quietly, NonePasses
  <2>2. Deficit' = Deficit
    BY <2>1, BehindElsewhere, SameDeficit
  <2> QED BY <1>2, <1>3, <2>2 DEF Quietly
<1>4. ASSUME NEW r \in Rus, NEW s \in Slots, ViewLost(r, s)
      PROVE  LeakInv'
  <2>1. PICK e : Deficit' \subseteq Deficit \cup {e}
    BY <1>4, DeficitLost
  <2>2. /\ IsFiniteSet(Deficit') /\ Cardinality(Deficit') \in Nat
        /\ Cardinality(Deficit') <= Cardinality(Deficit) + 1
    BY <1>1, <2>1, GrowsByOne
  <2>3. PICK p : p \notin lost /\ lost' = lost \cup {p}
    BY <1>4 DEF ViewLost
  <2>4. IsFiniteSet(lost') /\ Cardinality(lost') = Cardinality(lost) + 1
    BY <1>1, <2>3, FS_AddElement
  <2>5. Out' = Out
    BY <1>4 DEF ViewLost
  <2>6. Cardinality(Out') = Cardinality(Out)
    BY <2>5, Zenon
  <2>7. Cardinality(Out') + Cardinality(Deficit') <= Cardinality(lost')
    BY <1>1, <2>2, <2>4, <2>6, OutFinite
  <2> QED BY <2>2, <2>4, <2>7, OutFinite DEF LeakInv
<1>5. ASSUME NEW r \in Rus, NEW s \in Slots, ViewKept(r, s), Has(s, r)
      PROVE  LeakInv'
  <2>1. PICK e \in Deficit : Deficit' \subseteq Deficit \ {e}
    BY <1>5, DeficitEvicted
  <2>2. /\ IsFiniteSet(Deficit') /\ Cardinality(Deficit') \in Nat
        /\ Cardinality(Deficit') <= Cardinality(Deficit) - 1
    BY <1>1, <2>1, ShrinksByOne
  <2>3. PICK x : Out' \subseteq Out \cup {x}
    BY <1>5 DEF ViewKept
  <2>4. Cardinality(Out') <= Cardinality(Out) + 1
    BY <2>3, OutFinite, GrowsByOne
  <2>5. lost' = lost
    BY <1>5 DEF ViewKept
  <2>6. IsFiniteSet(lost') /\ Cardinality(lost') = Cardinality(lost)
    BY <1>1, <2>5, Zenon
  <2>7. Cardinality(Out') + Cardinality(Deficit') <= Cardinality(lost')
    BY <1>1, <2>2, <2>4, <2>6, OutFinite
  <2> QED BY <2>2, <2>6, <2>7, OutFinite DEF LeakInv
<1>6. ASSUME NEW r \in Rus, NEW s \in Slots, (ViewKept(r, s) /\ ~Has(s, r)) \/ ViewMerged(r, s)
      PROVE  LeakInv'
  <2>1. /\ Passes(r, s) /\ \A t \in Slots \ {s} : HasUnchanged(t)
        /\ Out' = Out /\ lost' = lost
    BY <1>6 DEF ViewKept, ViewMerged
  <2>2. /\ Backlog(s, r)' = Bit(Has(s, r)') - (Passed(r, s) + 1)
        /\ \A q \in Rus \ {r} : Backlog(s, q)' = Bit(Has(s, q)') - Passed(q, s)
        /\ \A q \in Rus : Backlog(s, q) = Bit(Has(s, q)) - Passed(q, s)
    BY <2>1, BacklogHere
  <2>3. PICK d \in {0, 1} : /\ Bit(Has(s, r)) = 0 /\ Bit(Has(s, r)') = 1 - d
                            /\ \A q \in Rus \ {r} : Bit(Has(s, q)') = Bit(Has(s, q)) - d
    <3>1. CASE ViewKept(r, s) /\ ~Has(s, r)
      <4>1. /\ Bit(Has(s, r)) = 0 /\ Bit(Has(s, r)') = 1
            /\ \A q \in Rus \ {r} : Bit(Has(s, q)') = Bit(Has(s, q))
        BY <3>1 DEF ViewKept, Bit
      <4>2. \A q \in Rus : Bit(Has(s, q)) = Bit(Has(s, q)) - 0
        BY BacklogType
      <4> QED BY <4>1, <4>2
    <3>2. CASE ViewMerged(r, s)
      <4>1. /\ Bit(Has(s, r)) = 0 /\ Bit(Has(s, r)') = 0
            /\ \A q \in Rus \ {r} : Bit(Has(s, q)') = 0 /\ Bit(Has(s, q)) = 1
        BY <3>2 DEF ViewMerged, Bit
      <4> QED BY <4>1
    <3> QED BY <1>6, <3>1, <3>2
  <2>4. \A q \in Rus : Backlog(s, q)' = Backlog(s, q) - d
    <3> TAKE q \in Rus
    <3>1. Passed(q, s) \in Int /\ Bit(Has(s, q)) \in {0, 1} /\ Passed(r, s) \in Int
      BY BacklogType
    <3>2. CASE q = r
      <4>1. Backlog(s, r)' = Backlog(s, r) - d
        BY <2>2, <2>3, <3>1
      <4> QED BY <3>2, <4>1
    <3>3. CASE q # r
      <4>1. Backlog(s, q)' = (Bit(Has(s, q)) - d) - Passed(q, s)
        BY <2>2, <2>3, <3>3
      <4>2. Backlog(s, q) = Bit(Has(s, q)) - Passed(q, s)
        BY <2>2
      <4> QED BY <3>1, <4>1, <4>2
    <3> QED BY <3>2, <3>3
  <2>5. \A q \in Rus, k \in {1, 2, 3} : Behind(s, q, k)' <=> Behind(s, q, k)
    BY <2>4, SameBehind
  <2>6. \A t \in Slots \ {s}, q \in Rus, k \in {1, 2, 3} : Behind(t, q, k)' <=> Behind(t, q, k)
    BY <2>1, BacklogElsewhere, BehindElsewhere DEF Passes
  <2>7. Deficit' = Deficit
    BY <2>5, <2>6, SameDeficit
  <2> QED BY <1>2, <2>1, <2>7
<1> QED BY <1>3, <1>4, <1>5, <1>6 DEF ViewNext

LEMMA LeakInit == Init => LeakInv
<1> SUFFICES ASSUME Init PROVE LeakInv
  OBVIOUS
<1>1. \A r \in Rus, s \in Slots, g \in RadioFrames : ~Waits(r, s, g)
  BY EmptyOnce DEF Init, Waits, InQueue, Nothing
<1>2. frame = 0 /\ \A r \in Rus : sent[r] = {}
  BY DEF Init
<1>3. \A r \in Rus, s \in Slots : Passed(r, s) = 0 - Bit(Waits(r, s, 0)) - Bit(Earlier(r, s))
  BY <1>2 DEF Passed, Bit
<1>4. 0 \in RadioFrames
  BY XdpAssumption DEF RadioFrames
<1>5. ASSUME NEW r \in Rus, NEW s \in Slots PROVE Backlog(s, r) = 0
  <2>1. ~Waits(r, s, 0) /\ ~Earlier(r, s) /\ ~Has(s, r)
    BY <1>1, <1>4 DEF Earlier, Init, Has, EmptyRow
  <2>2. Bit(Waits(r, s, 0)) = 0 /\ Bit(Earlier(r, s)) = 0 /\ Bit(Has(s, r)) = 0
    BY <2>1 DEF Bit
  <2>3. Passed(r, s) = 0
    BY <1>3, <2>2
  <2> QED BY <2>2, <2>3 DEF Backlog
<1>6. \A s \in Slots, r \in Rus, k \in {1, 2, 3} : ~Behind(s, r, k)
  BY <1>5 DEF Behind
<1>7. Deficit = {}
  BY <1>6, PlacesOf
<1>8. Out = {}
  <2> SUFFICES ASSUME NEW f \in Umem(0) PROVE InSeq(fq[0], f)
    BY DEF Out, InUse
  <2>1. 0 \in Rus /\ fq[0] = [i \in 1 .. RING_SIZE |-> <<0, i>>] /\ RING_SIZE \in Nat
    BY Sockets, XdpAssumption DEF Init
  <2>2. PICK i \in 1 .. RING_SIZE : f = <<0, i>>
    BY DEF Umem
  <2>3. Len(fq[0]) = RING_SIZE /\ fq[0][i] = f
    BY <2>1, <2>2
  <2> QED BY <2>3 DEF InSeq
<1>9. lost = {}
  BY DEF Init
<1>10. IsFiniteSet({}) /\ Cardinality({}) = 0
  BY FS_EmptySet
<1>11. Cardinality(Deficit) = 0 /\ Cardinality(Out) = 0 /\ Cardinality(lost) = 0
       /\ IsFiniteSet(Deficit) /\ IsFiniteSet(Out) /\ IsFiniteSet(lost)
  BY <1>7, <1>8, <1>9, <1>10, Zenon
<1> QED BY <1>11 DEF LeakInv

\* The frames out are those that are nowhere.
LEMMA LeakFollows ==
  ASSUME FramesInv, LeakInv
  PROVE  LeakBoundedByLoss
<1>1. PICK w \in [UmemFrames -> Places] : PlacedBy(w)
  BY DEF FramesInv, PlacesInv
<1>2. \A f \in UmemFrames : Uses(f) = IF w[f] = "gone" THEN 0 ELSE 1
  BY <1>1, UsesOf
<1>3. \A f \in UmemFrames : w[f] = "gone" => f \in Umem(0)
  BY <1>1 DEF PlacedBy
<1>4. \A f \in UmemFrames : Uses(f) <= 1
  BY <1>2
<1>5. \A f \in UmemFrames \ Umem(0) : Uses(f) = 1
  BY <1>2, <1>3
<1>6. \A f \in Umem(0) : Uses(f) = 0 => f \in Out
  <2> SUFFICES ASSUME NEW f \in Umem(0), Uses(f) = 0, InUse(f) PROVE FALSE
    BY DEF Out
  <2>1. f \in UmemFrames /\ f[1] = 0
    BY UmemOf, Sockets
  <2>2. w[f] = "gone"
    BY <1>2, <2>1
  <2> QED BY <1>1, <2>1, <2>2 DEF InUse, InQueue, PlacedBy, CachedAt
<1>7. PICK S : S = {f \in Umem(0) : Uses(f) = 0}
  OBVIOUS
<1>8. S \in SUBSET Out
  BY <1>6, <1>7
<1>9. IsFiniteSet(Out) /\ IsFiniteSet(S) /\ Cardinality(S) <= Cardinality(Out)
  BY <1>8, FS_Subset DEF LeakInv
<1>10. /\ Cardinality(S) \in Nat /\ Cardinality(Out) \in Nat /\ Cardinality(Deficit) \in Nat
       /\ Cardinality(lost) \in Nat /\ Cardinality(Out) + Cardinality(Deficit) <= Cardinality(lost)
  BY <1>9, FS_CardinalityType DEF LeakInv
<1>11. Cardinality(S) <= Cardinality(lost)
  BY <1>9, <1>10
<1> QED BY <1>4, <1>5, <1>7, <1>11 DEF LeakBoundedByLoss

\* Every frame that is lost for reception has been paid for by a packet lost
\* in the network, and none of sockets 1 and up is: for any number of RUs and
\* slots, and any sizes of the rings.
THEOREM LeaksPaidByLoss == Spec => []LeakBoundedByLoss
<1>1. Init => HoldInv /\ LeakInv
  BY ContentInit, LeakInit
<1>2. FramesInv /\ HoldInv /\ LeakInv /\ [Next]_vars => (HoldInv /\ LeakInv)'
  BY ContentNext, NextIsViewStep, LeakStep
<1>3. FramesInv /\ LeakInv => LeakBoundedByLoss
  BY LeakFollows
<1> QED BY <1>1, <1>2, <1>3, FramesInvariant, PTL DEF Spec

-----------------------------------------------------------------------------
(* How far apart the packets of a row are                                  *)

LostIn(s) == {p \in lost : SlotOf(p) = s}
LostBy(s, b) == {p \in LostIn(s) : p.frame <= b}

\* The packet has been sent, and waits no longer.
Gone(r, s, g) == (g < frame \/ s \in sent[r]) /\ ~Waits(r, s, g)

\* The radio frame of the RU's packet in the row or, if it has none, of the
\* next one that can fill the row after a batch of radio frame b.
KeptFrame(s, r) == content[cached_packets[s][r]][r].frame
Level(s, r, b) == IF Has(s, r) THEN KeptFrame(s, r)
                  ELSE IF Gone(r, s, b) THEN b + 1 ELSE b

\* What is kept has been handled.
KeptGone == \A s \in Slots, r \in Rus, g \in RadioFrames : Keeps(s, r, g) => Gone(r, s, g)

\* Losses of the slot are what levels differ by.
Spread(b) == \A s \in Slots : \A r, q \in Rus :
  Level(s, r, b) <= Level(s, q, b) + Cardinality(LostBy(s, b))

SpreadInv == \E b : ContentInv(b) /\ KeptGone /\ Spread(b)

LEMMA LossesGrow ==
  ASSUME IsFiniteSet(lost'), lost \subseteq lost', NEW s, NEW b
  PROVE  /\ Cardinality(LostBy(s, b)) \in Nat /\ Cardinality(LostBy(s, b)') \in Nat
         /\ Cardinality(LostBy(s, b)) <= Cardinality(LostBy(s, b)')
<1>1. LostBy(s, b) \in SUBSET LostBy(s, b)' /\ LostBy(s, b)' \in SUBSET lost'
  BY DEF LostBy, LostIn
<1>2. IsFiniteSet(LostBy(s, b)')
  BY <1>1, FS_Subset
<1>3. IsFiniteSet(LostBy(s, b)) /\ Cardinality(LostBy(s, b)) <= Cardinality(LostBy(s, b)')
  BY <1>1, <1>2, FS_Subset
<1> QED BY <1>2, <1>3, FS_CardinalityType

\* The losses of an RU after radio frame b, which are apart from those by b.
LEMMA LaterLosses ==
  ASSUME FramesInv, IsFiniteSet(lost), NEW s \in Slots, NEW r \in Rus, NEW b \in RadioFrames,
         NEW c \in RadioFrames, NEW e \in Nat, b < e, e <= c + 1,
         \A g \in RadioFrames : b < g /\ g < e => UplinkPacket(r, s, g) \in lost
  PROVE  /\ Cardinality(LostBy(s, b)) \in Nat /\ Cardinality(LostBy(s, c)) \in Nat
         /\ Cardinality(LostBy(s, b)) + e <= Cardinality(LostBy(s, c)) + b + 1
<1> DEFINE I == b + 1 .. e - 1
           S == {UplinkPacket(r, s, g) : g \in I}
           F == [g \in I |-> UplinkPacket(r, s, g)]
<1>1. b \in Nat /\ c \in Nat /\ MaxFrame \in Nat /\ c <= MaxFrame
  BY XdpAssumption DEF RadioFrames
<1>2. IsFiniteSet(I) /\ Cardinality(I) = e - 1 - b
  <2>1. b + 1 \in Int /\ e - 1 \in Int
    BY <1>1
  <2>2. IsFiniteSet(I) /\ Cardinality(I) = IF b + 1 > e - 1 THEN 0 ELSE e - 1 - (b + 1) + 1
    BY <2>1, FS_Interval
  <2> QED BY <1>1, <2>2
<1>3. \A g \in I : g \in RadioFrames /\ b < g /\ g < e /\ g <= c
  BY <1>1 DEF RadioFrames
<1>4. \A g \in I : /\ UplinkPacket(r, s, g).ru = r /\ UplinkPacket(r, s, g).frame = g
                   /\ SlotOf(UplinkPacket(r, s, g)) = s
  BY <1>3, SingleIs
<1>5. F \in Injection(I, S)
  <2>1. F \in [I -> S]
    OBVIOUS
  <2>2. IsInjective(F)
    BY <1>4 DEF IsInjective
  <2> QED BY <2>1, <2>2 DEF Injection
<1>6. /\ IsFiniteSet(LostBy(s, b)) /\ IsFiniteSet(LostBy(s, c))
      /\ Cardinality(LostBy(s, b)) \in Nat /\ Cardinality(LostBy(s, c)) \in Nat
  <2>1. LostBy(s, b) \in SUBSET lost /\ LostBy(s, c) \in SUBSET lost
    BY DEF LostBy, LostIn
  <2> QED BY <2>1, FS_Subset, FS_CardinalityType
<1>7. S \in SUBSET LostBy(s, c)
  BY <1>3, <1>4 DEF LostBy, LostIn
<1>8. \A p \in S : p.frame \in Nat /\ p.frame > b
  BY <1>1, <1>3, <1>4
<1>9. LostBy(s, b) \cap S = {} /\ LostBy(s, b) \cup S \in SUBSET LostBy(s, c)
  <2>1. \A p \in S : p \notin LostBy(s, b)
    BY <1>1, <1>8 DEF LostBy
  <2>2. b <= c
    BY <1>1
  <2>3. \A p \in LostBy(s, b) : p.frame <= b /\ p \in lost /\ p \in LostIn(s)
    BY DEF LostBy, LostIn
  <2>4. \A p \in LostBy(s, b) : p.frame \in Nat
    BY <2>3, PacketIs, Numbers DEF FramesInv, TypeInv
  <2>5. \A p \in LostBy(s, b) : p \in LostBy(s, c)
    BY <1>1, <2>2, <2>3, <2>4 DEF LostBy
  <2> QED BY <1>7, <2>1, <2>5
<1> HIDE DEF I, S, F
<1>10. IsFiniteSet(S) /\ Cardinality(S) \in Nat
  BY <1>6, <1>7, FS_Subset, FS_CardinalityType
<1>11. e - 1 - b <= Cardinality(S)
  BY <1>2, <1>5, <1>10, FS_Injection
<1>12. Cardinality(LostBy(s, b) \cup S) = Cardinality(LostBy(s, b)) + Cardinality(S)
  <2>1. Cardinality(LostBy(s, b) \cap S) = 0
    BY <1>9, FS_EmptySet, Zenon
  <2>2. Cardinality(LostBy(s, b) \cup S) =
          Cardinality(LostBy(s, b)) + Cardinality(S) - Cardinality(LostBy(s, b) \cap S)
    BY <1>6, <1>10, FS_Union
  <2> QED BY <1>6, <1>10, <2>1, <2>2
<1>13. Cardinality(LostBy(s, b) \cup S) <= Cardinality(LostBy(s, c))
  BY <1>6, <1>9, FS_Subset
<1> QED BY <1>1, <1>6, <1>10, <1>11, <1>12, <1>13

LEMMA LevelType ==
  ASSUME FramesInv, NEW b, ContentInv(b), NEW s \in Slots, NEW r \in Rus
  PROVE  /\ b \in Nat /\ Level(s, r, b) \in Nat
         /\ Has(s, r) => /\ Level(s, r, b) = KeptFrame(s, r) /\ KeptFrame(s, r) \in RadioFrames
                         /\ Keeps(s, r, KeptFrame(s, r)) /\ Level(s, r, b) <= b
         /\ ~Has(s, r) => Level(s, r, b) = IF Gone(r, s, b) THEN b + 1 ELSE b
<1>1. b \in Nat /\ \A g \in RadioFrames : g \in Nat
  BY XdpAssumption DEF ContentInv, RadioFrames
<1>2. CASE ~Has(s, r)
  BY <1>1, <1>2 DEF Level
<1>3. CASE Has(s, r)
  <2>1. PICK g \in RadioFrames : g <= b /\ Keeps(s, r, g)
    BY <1>3, KeptIs
  <2>2. KeptFrame(s, r) = g
    BY <2>1, SingleIs DEF Keeps, KeptFrame
  <2> QED BY <1>1, <1>3, <2>1, <2>2 DEF Level
<1> QED BY <1>2, <1>3

\* A slot whose levels stay.
LEMMA SpreadAt ==
  ASSUME FramesInv, NEW b, ContentInv(b), Spread(b), IsFiniteSet(lost'), lost \subseteq lost',
         NEW t \in Slots, \A q \in Rus : Level(t, q, b)' = Level(t, q, b)
  PROVE  \A r, q \in Rus : Level(t, r, b)' <= Level(t, q, b)' + Cardinality(LostBy(t, b)')
<1> SUFFICES ASSUME NEW r \in Rus, NEW q \in Rus
             PROVE  Level(t, r, b)' <= Level(t, q, b)' + Cardinality(LostBy(t, b)')
  OBVIOUS
<1>1. Level(t, r, b) \in Nat /\ Level(t, q, b) \in Nat
  BY LevelType
<1>2. Level(t, r, b) <= Level(t, q, b) + Cardinality(LostBy(t, b))
  BY DEF Spread
<1>3. /\ Cardinality(LostBy(t, b)) \in Nat /\ Cardinality(LostBy(t, b)') \in Nat
      /\ Cardinality(LostBy(t, b)) <= Cardinality(LostBy(t, b)')
  BY LossesGrow
<1>4. Level(t, r, b)' = Level(t, r, b) /\ Level(t, q, b)' = Level(t, q, b)
  OBVIOUS
<1> QED BY <1>1, <1>2, <1>3, <1>4

\* A slot of which nothing is handled, nor lost.
LEMMA LevelStays ==
  ASSUME NEW b, NEW s, NEW r, Has(s, r)' <=> Has(s, r), Gone(r, s, b)' <=> Gone(r, s, b),
         Has(s, r) => KeptFrame(s, r)' = KeptFrame(s, r)
  PROVE  Level(s, r, b)' = Level(s, r, b)
BY DEF Level

LEMMA SpreadSame ==
  ASSUME FramesInv, NEW b, ContentInv(b), KeptGone, Spread(b), IsFiniteSet(lost'),
         UNCHANGED <<content, cached_packets, frame, sent, lost>>,
         \A r \in Rus, s \in Slots, g \in RadioFrames : Waits(r, s, g)' <=> Waits(r, s, g)
  PROVE  KeptGone' /\ Spread(b)'
<1>1. b \in RadioFrames
  BY DEF ContentInv
<1>2. \A r \in Rus, s \in Slots, g \in RadioFrames : Gone(r, s, g)' <=> Gone(r, s, g)
  BY DEF Gone
<1>3. \A s \in Slots, r \in Rus : /\ Has(s, r)' <=> Has(s, r)
                                  /\ KeptFrame(s, r)' = KeptFrame(s, r)
                                  /\ \A g \in RadioFrames : Keeps(s, r, g)' <=> Keeps(s, r, g)
  BY DEF Has, KeptFrame, Keeps
<1>4. \A s \in Slots, r \in Rus : Level(s, r, b)' = Level(s, r, b)
  BY <1>1, <1>2, <1>3, LevelStays
<1>5. Spread(b)'
  BY <1>4, SpreadAt DEF Spread
<1> QED BY <1>2, <1>3, <1>5 DEF KeptGone

\* When the batch is done, all that was sent since its radio frame has been lost.
LEMMA SpreadCatchUp ==
  ASSUME FramesInv, NEW b, ContentInv(b), KeptGone, Spread(b), IsFiniteSet(lost),
         pkt_frags = <<>>, NEW c, c = frame
  PROVE  Spread(c)
<1>1. CASE b = c
  BY <1>1
<1>2. CASE b # c
  <2>1. /\ b \in RadioFrames /\ c \in RadioFrames /\ b \in Nat /\ c \in Nat /\ b < c /\ c <= MaxFrame
        /\ MaxFrame \in Nat /\ \A g \in RadioFrames : g \in Nat
    BY <1>2, Numbers, XdpAssumption DEF ContentInv, FramesInv, TypeInv, RadioFrames
  <2>2. ContentInv(c)
    BY CatchUp
  <2>3. \A r \in Rus, s \in Slots : ~Waits(r, s, b) /\ Gone(r, s, b)
    <3> SUFFICES ASSUME NEW r \in Rus, NEW s \in Slots PROVE ~Waits(r, s, b)
      BY <2>1 DEF Gone
    <3> QED BY <1>2, <2>1, <2>2, WaitingIs
  <2>4. \A s \in Slots, r \in Rus, g \in RadioFrames :
          (b < g /\ g < c) \/ (g = c /\ Gone(r, s, c)) => UplinkPacket(r, s, g) \in lost
    BY <2>1 DEF ContentInv, SinceLost, Gone
  <2> SUFFICES ASSUME NEW s \in Slots, NEW r \in Rus, NEW q \in Rus
               PROVE  Level(s, r, c) <= Level(s, q, c) + Cardinality(LostBy(s, c))
    BY DEF Spread
  <2>5. /\ Level(s, r, b) <= Level(s, q, b) + Cardinality(LostBy(s, b))
        /\ Level(s, r, b) \in Nat /\ Level(s, q, b) \in Nat
        /\ Level(s, r, c) \in Nat /\ Level(s, q, c) \in Nat
    BY <2>2, LevelType DEF Spread
  <2>6. Level(s, q, b) <= Level(s, q, c)
    <3>1. CASE Has(s, q)
      <4>1. Level(s, q, b) = Level(s, q, c)
        BY <3>1 DEF Level
      <4> QED BY <2>5, <4>1
    <3>2. CASE ~Has(s, q)
      <4>1. Level(s, q, b) = b + 1 /\ Level(s, q, c) \in {c, c + 1}
        BY <2>3, <3>2 DEF Level
      <4> QED BY <2>1, <4>1
    <3> QED BY <3>1, <3>2
  <2>7. /\ Cardinality(LostBy(s, b)) \in Nat /\ Cardinality(LostBy(s, c)) \in Nat
        /\ Cardinality(LostBy(s, b)) + Level(s, r, c) <= Cardinality(LostBy(s, c)) + Level(s, r, b)
    <3>1. CASE Has(s, r)
      <4>1. \A g \in RadioFrames : b < g /\ g < b + 1 => UplinkPacket(r, s, g) \in lost
        BY <2>1
      <4>2. b + 1 \in Nat /\ b < b + 1 /\ b + 1 <= c + 1
        BY <2>1
      <4>3. /\ Cardinality(LostBy(s, b)) \in Nat /\ Cardinality(LostBy(s, c)) \in Nat
            /\ Cardinality(LostBy(s, b)) + (b + 1) <= Cardinality(LostBy(s, c)) + b + 1
        BY <2>1, <4>1, <4>2, LaterLosses
      <4>4. Level(s, r, c) = Level(s, r, b)
        BY <3>1 DEF Level
      <4> QED BY <2>1, <2>5, <4>3, <4>4
    <3>2. CASE ~Has(s, r)
      <4>1. PICK e \in Nat : e = Level(s, r, c)
        BY <2>5
      <4>2. e = (IF Gone(r, s, c) THEN c + 1 ELSE c) /\ Level(s, r, b) = b + 1
        BY <2>3, <3>2, <4>1 DEF Level
      <4>3. \A g \in RadioFrames : b < g /\ g < e => UplinkPacket(r, s, g) \in lost
        <5> SUFFICES ASSUME NEW g \in RadioFrames, b < g, g < e
                     PROVE  UplinkPacket(r, s, g) \in lost
          OBVIOUS
        <5>1. g < c \/ (g = c /\ Gone(r, s, c))
          BY <2>1, <4>2
        <5> QED BY <2>4, <5>1
      <4>4. b < e /\ e <= c + 1
        BY <2>1, <4>2
      <4>5. /\ Cardinality(LostBy(s, b)) \in Nat /\ Cardinality(LostBy(s, c)) \in Nat
            /\ Cardinality(LostBy(s, b)) + e <= Cardinality(LostBy(s, c)) + b + 1
        BY <2>1, <4>3, <4>4, LaterLosses
      <4> QED BY <2>1, <4>1, <4>2, <4>5
    <3> QED BY <3>1, <3>2
  <2> QED BY <2>5, <2>6, <2>7
<1> QED BY <1>1, <1>2

LEMMA SpreadSend ==
  ASSUME FramesInv, NEW b, ContentInv(b), KeptGone, Spread(b), IsFiniteSet(lost'),
         NEW r \in Rus, NEW s \in Slots, Send(r, s)
  PROVE  KeptGone' /\ Spread(b)'
<1>1. /\ b \in RadioFrames /\ frame \in RadioFrames /\ b \in Nat /\ frame \in Nat /\ b <= frame
      /\ sent \in [Rus -> SUBSET Slots] /\ \A g \in RadioFrames : g \in Nat
  BY Numbers DEF ContentInv, FramesInv, TypeInv
<1>2. /\ sent' = [sent EXCEPT ![r] = sent[r] \cup {s}] /\ s \notin sent[r]
      /\ UNCHANGED <<cached_packets, frame, lost>>
  BY DEF Send, cacheVars
<1>3. sent'[r] = sent[r] \cup {s} /\ \A q \in Rus : q # r => sent'[q] = sent[q]
  BY <1>1, <1>2
<1>4. \A q \in Rus, t \in Slots, g \in RadioFrames :
        Waits(q, t, g)' <=> Waits(q, t, g) \/ (q = r /\ t = s /\ g = frame)
  BY ContentSend
<1>5. ASSUME NEW q \in Rus, NEW t \in Slots, NEW g \in RadioFrames, g <= frame
      PROVE  Gone(q, t, g)' <=> Gone(q, t, g)
  <2>1. CASE q = r /\ t = s /\ g = frame
    <3>1. Waits(q, t, g)' /\ t \notin sent[q] /\ ~(g < frame)
      BY <1>1, <1>2, <1>4, <2>1
    <3> QED BY <1>2, <3>1 DEF Gone
  <2>2. CASE ~(q = r /\ t = s /\ g = frame)
    <3>1. Waits(q, t, g)' <=> Waits(q, t, g)
      BY <1>4, <2>2
    <3>2. g < frame \/ g = frame
      BY <1>1, <1>5
    <3>3. g = frame => (t \in sent'[q] <=> t \in sent[q])
      BY <1>3, <2>2
    <3>4. g < frame \/ t \in sent'[q] <=> g < frame \/ t \in sent[q]
      BY <3>2, <3>3
    <3> QED BY <1>2, <3>1, <3>4 DEF Gone
  <2> QED BY <2>1, <2>2
<1>6. \A t \in Slots, q \in Rus : Has(t, q) =>
        content'[cached_packets[t][q]] = content[cached_packets[t][q]]
  <2>1. PICK f \in Umem(r) :
           /\ \A t \in Slots, q \in Rus : cached_packets[t][q] # f
           /\ \A x \in UmemFrames : content'[x] = IF x = f THEN Single(r, s, frame) ELSE content[x]
    BY SentQueues
  <2>2. \A t \in Slots, q \in Rus : Has(t, q) => cached_packets[t][q] \in UmemFrames
    BY UmemOf DEF FramesInv, TypeInv, TypeOK, Has
  <2> QED BY <2>1, <2>2
<1>7. \A t \in Slots, q \in Rus : /\ Has(t, q)' <=> Has(t, q)
                                  /\ Has(t, q) => KeptFrame(t, q)' = KeptFrame(t, q)
                                  /\ \A g \in RadioFrames : Keeps(t, q, g)' <=> Keeps(t, q, g)
  BY <1>2, <1>6 DEF Has, KeptFrame, Keeps
<1>8. \A t \in Slots, q \in Rus : Level(t, q, b)' = Level(t, q, b)
  BY <1>1, <1>5, <1>7, LevelStays
<1>9. Spread(b)'
  BY <1>2, <1>8, SpreadAt DEF Spread
<1>10. KeptGone'
  <2> SUFFICES ASSUME NEW t \in Slots, NEW q \in Rus, NEW g \in RadioFrames, Keeps(t, q, g)'
               PROVE  Gone(q, t, g)'
    BY DEF KeptGone
  <2>1. Keeps(t, q, g)
    BY <1>7
  <2>2. g <= frame /\ Gone(q, t, g)
    BY <1>1, <2>1, KeptIs DEF KeptGone
  <2> QED BY <1>5, <2>2
<1> QED BY <1>9, <1>10

\* A loss moves a level by one at most.
LEMMA SpreadLose ==
  ASSUME FramesInv, NEW b, ContentInv(b), KeptGone, Spread(b), IsFiniteSet(lost), IsFiniteSet(lost'),
         NEW r \in Rus, NEW s \in Slots, Lose(r, s)
  PROVE  KeptGone' /\ Spread(b)'
<1>1. /\ b \in RadioFrames /\ frame \in RadioFrames /\ b \in Nat /\ frame \in Nat /\ b <= frame
      /\ sent \in [Rus -> SUBSET Slots] /\ \A g \in RadioFrames : g \in Nat
  BY Numbers DEF ContentInv, FramesInv, TypeInv
<1>2. PICK p : p = UplinkPacket(r, s, frame) /\ p.ru = r /\ p.frame = frame /\ SlotOf(p) = s
  BY <1>1, SingleIs
<1>3. /\ sent' = [sent EXCEPT ![r] = sent[r] \cup {s}] /\ s \notin sent[r] /\ lost' = lost \cup {p}
      /\ UNCHANGED <<cached_packets, content, frame>>
  BY <1>2 DEF Lose, cacheVars
<1>4. sent'[r] = sent[r] \cup {s} /\ \A q \in Rus : q # r => sent'[q] = sent[q]
  BY <1>1, <1>3
<1>5. /\ \A q \in Rus, t \in Slots, g \in RadioFrames : Waits(q, t, g)' <=> Waits(q, t, g)
  BY ContentLose
<1>6. ASSUME NEW q \in Rus, NEW t \in Slots, NEW g \in RadioFrames, g <= frame
      PROVE  /\ Gone(q, t, g) => Gone(q, t, g)'
             /\ ~(q = r /\ t = s /\ g = frame) => (Gone(q, t, g)' <=> Gone(q, t, g))
  <2>1. Waits(q, t, g)' <=> Waits(q, t, g)
    BY <1>5
  <2>2. /\ g < frame \/ t \in sent[q] => g < frame \/ t \in sent'[q]
        /\ ~(q = r /\ t = s /\ g = frame) => (g < frame \/ t \in sent'[q] <=> g < frame \/ t \in sent[q])
    BY <1>1, <1>4, <1>6
  <2> QED BY <1>3, <2>1, <2>2 DEF Gone
<1>7. \A t \in Slots, q \in Rus : /\ Has(t, q)' <=> Has(t, q)
                                  /\ KeptFrame(t, q)' = KeptFrame(t, q)
                                  /\ \A g \in RadioFrames : Keeps(t, q, g)' <=> Keeps(t, q, g)
  BY <1>3 DEF Has, KeptFrame, Keeps
<1>8. KeptGone'
  <2> SUFFICES ASSUME NEW t \in Slots, NEW q \in Rus, NEW g \in RadioFrames, Keeps(t, q, g)'
               PROVE  Gone(q, t, g)'
    BY DEF KeptGone
  <2>1. Keeps(t, q, g)
    BY <1>7
  <2>2. g <= frame /\ Gone(q, t, g)
    BY <1>1, <2>1, KeptIs DEF KeptGone
  <2> QED BY <1>6, <2>2
<1>9. \A t \in Slots, q \in Rus : ~(q = r /\ t = s /\ b = frame) => Level(t, q, b)' = Level(t, q, b)
  BY <1>1, <1>6, <1>7, LevelStays
<1>10. ASSUME NEW t \in Slots, t # s \/ b # frame
       PROVE  \A u, q \in Rus : Level(t, u, b)' <= Level(t, q, b)' + Cardinality(LostBy(t, b)')
  BY <1>3, <1>9, <1>10, SpreadAt
<1>11. ASSUME b = frame
       PROVE  \A u, q \in Rus : Level(s, u, b)' <= Level(s, q, b)' + Cardinality(LostBy(s, b)')
  <2> SUFFICES ASSUME NEW u \in Rus, NEW q \in Rus
               PROVE  Level(s, u, b)' <= Level(s, q, b)' + Cardinality(LostBy(s, b)')
    OBVIOUS
  <2>1. Level(s, r, b)' \in {Level(s, r, b), Level(s, r, b) + 1}
    <3>1. CASE Has(s, r)
      BY <1>7, <3>1 DEF Level
    <3>2. CASE ~Has(s, r)
      <4>1. /\ Level(s, r, b) = IF Gone(r, s, b) THEN b + 1 ELSE b
            /\ Level(s, r, b)' = IF Gone(r, s, b)' THEN b + 1 ELSE b
        BY <1>7, <3>2 DEF Level
      <4>2. Gone(r, s, b) => Gone(r, s, b)'
        BY <1>1, <1>6
      <4> QED BY <1>1, <4>1, <4>2
    <3> QED BY <3>1, <3>2
  <2>2. \A v \in Rus : Level(s, v, b)' \in {Level(s, v, b), Level(s, v, b) + 1}
    BY <1>9, <2>1
  <2>3. /\ Level(s, u, b) \in Nat /\ Level(s, q, b) \in Nat
        /\ Level(s, u, b) <= Level(s, q, b) + Cardinality(LostBy(s, b))
    BY LevelType DEF Spread
  <2>4. LostBy(s, b)' = LostBy(s, b) \cup {p}
    BY <1>1, <1>2, <1>3, <1>11 DEF LostBy, LostIn
  <2>5. p \notin LostBy(s, b)
    BY <1>2, <1>3 DEF ContentInv, LostSent, LostBy, LostIn
  <2>6. LostBy(s, b) \in SUBSET lost
    BY DEF LostBy, LostIn
  <2>7. IsFiniteSet(LostBy(s, b)) /\ Cardinality(LostBy(s, b)) \in Nat
    BY <2>6, FS_Subset, FS_CardinalityType
  <2>8. Cardinality(LostBy(s, b) \cup {p}) = Cardinality(LostBy(s, b)) + 1
    BY <2>5, <2>7, FS_AddElement
  <2>9. Cardinality(LostBy(s, b)') = Cardinality(LostBy(s, b)) + 1
    BY <2>4, <2>8, Zenon
  <2> QED BY <2>2, <2>3, <2>7, <2>9
<1>12. Spread(b)'
  BY <1>10, <1>11 DEF Spread
<1> QED BY <1>8, <1>12

\* The radio frame ends: the batch keeps its own, if there is one.
LEMMA SpreadNextFrame ==
  ASSUME FramesInv, NEW b, ContentInv(b), KeptGone, Spread(b), IsFiniteSet(lost'), NextFrame
  PROVE  KeptGone' /\ \E c : ContentInv(c)' /\ Spread(c)'
<1>1. /\ b \in RadioFrames /\ frame \in RadioFrames /\ b \in Nat /\ frame \in Nat /\ b <= frame
      /\ \A g \in RadioFrames : g \in Nat
      /\ frame + 1 \in RadioFrames /\ frame' = frame + 1
      /\ MaxFrame \in Nat
  BY Numbers DEF ContentInv, FramesInv, TypeInv, RadioFrames, NextFrame
<1>2. /\ \A r \in Rus : sent[r] = Slots /\ rx[r] = <<>> /\ sent'[r] = {}
      /\ UNCHANGED <<rx, content, pc, socket_to_process, pkt_frags, cached_packets, lost>>
  BY DEF NextFrame, rings, batchVars, cacheVars
<1>3. \A q \in Rus, t \in Slots, g \in RadioFrames : Waits(q, t, g)' <=> Waits(q, t, g)
  BY ContentNextFrame
<1>4. ASSUME NEW q \in Rus, NEW t \in Slots, NEW g \in RadioFrames, g <= frame
      PROVE  Gone(q, t, g)' <=> Gone(q, t, g)
  <2>1. Waits(q, t, g)' <=> Waits(q, t, g)
    BY <1>3
  <2>2. g < frame + 1
    BY <1>1, <1>4
  <2>3. sent[q] = Slots
    BY <1>2
  <2> QED BY <1>1, <2>1, <2>2, <2>3 DEF Gone
<1>5. \A t \in Slots, q \in Rus : /\ Has(t, q)' <=> Has(t, q)
                                  /\ KeptFrame(t, q)' = KeptFrame(t, q)
                                  /\ \A g \in RadioFrames : Keeps(t, q, g)' <=> Keeps(t, q, g)
  BY <1>2 DEF Has, KeptFrame, Keeps
<1>6. KeptGone'
  <2> SUFFICES ASSUME NEW t \in Slots, NEW q \in Rus, NEW g \in RadioFrames, Keeps(t, q, g)'
               PROVE  Gone(q, t, g)'
    BY DEF KeptGone
  <2>1. Keeps(t, q, g)
    BY <1>5
  <2>2. g <= frame /\ Gone(q, t, g)
    BY <1>1, <2>1, KeptIs DEF KeptGone
  <2> QED BY <1>4, <2>2
<1>7. CASE pc = "frags"
  <2>1. \A t \in Slots, q \in Rus : Level(t, q, b)' = Level(t, q, b)
    BY <1>1, <1>4, <1>5, LevelStays
  <2>2. Spread(b)'
    BY <1>2, <2>1, SpreadAt DEF Spread
  <2>3. ContentInv(b)'
    BY <1>7, ContentNextFrame
  <2> QED BY <1>6, <2>2, <2>3
<1>8. CASE pc # "frags"
  <2>1. PICK c : c = frame + 1 /\ c \in RadioFrames /\ c \in Nat
    BY <1>1
  <2>2. b = frame /\ pkt_frags = <<>>
    BY <1>8 DEF ContentInv, FramesInv, BatchInv
  <2>3. \A q \in Rus, t \in Slots, g \in RadioFrames : ~Waits(q, t, g)
    BY <1>2, <2>2, EmptyOnce DEF Waits, InQueue
  <2>4. \A q \in Rus, t \in Slots : Gone(q, t, b) /\ ~Gone(q, t, c)'
    BY <1>1, <1>2, <2>1, <2>2, <2>3 DEF Gone
  <2>5. \A t \in Slots, q \in Rus : Level(t, q, c)' = Level(t, q, b)
    BY <1>5, <2>1, <2>2, <2>4 DEF Level
  <2>6. Spread(c)'
    <3> SUFFICES ASSUME NEW t \in Slots, NEW r \in Rus, NEW q \in Rus
                 PROVE  Level(t, r, c)' <= Level(t, q, c)' + Cardinality(LostBy(t, c)')
      BY DEF Spread
    <3>1. /\ Level(t, r, b) \in Nat /\ Level(t, q, b) \in Nat
          /\ Level(t, r, b) <= Level(t, q, b) + Cardinality(LostBy(t, b))
      BY LevelType DEF Spread
    <3>2. LostBy(t, c)' = LostBy(t, b)
      <4>1. \A p \in lost : p.frame \in Nat /\ p.frame <= b
        BY <1>1, <2>2, PacketIs DEF ContentInv, LostSent, FramesInv, TypeInv, TypeOK
      <4>2. \A p \in lost : p.frame <= b /\ p.frame <= c
        BY <1>1, <2>1, <2>2, <4>1
      <4> QED BY <1>2, <4>2 DEF LostBy, LostIn
    <3>3. Cardinality(LostBy(t, c)') = Cardinality(LostBy(t, b))
      BY <3>2, Zenon
    <3> QED BY <2>5, <3>1, <3>3
  <2>7. ContentInv(c)'
    BY <1>8, <2>1, ContentNextFrame
  <2> QED BY <1>6, <2>6, <2>7
<1> QED BY <1>7, <1>8

\* A row is emptied, and filled anew, only when levels differ by losses: an RU
\* whose packet for the batch's radio frame is yet to come was behind.
LEMMA SpreadCacheFrag ==
  ASSUME FramesInv, NEW b, ContentInv(b), KeptGone, Spread(b), IsFiniteSet(lost'), CacheFrag
  PROVE  KeptGone' /\ Spread(b)'
<1>1. PICK f \in Umem(socket_to_process), s \in Slots :
        /\ Handles(f, s)
        /\ \A q \in Rus : cached_packets'[s][q] =
             IF q = socket_to_process THEN f
             ELSE IF Occupied(s, socket_to_process) THEN NULL ELSE cached_packets[s][q]
        /\ \A t \in Slots \ {s} : cached_packets'[t] = cached_packets[t]
        /\ UNCHANGED <<content, frags_to_be_sent>>
  BY CacheFragIs
<1>2. \A q \in Rus : \A x \in Umem(q) : InQueue(q, x) /\ x # f => content'[x] = content[x]
  BY <1>1
<1>3. PICK r \in Rus : r = socket_to_process /\ f \in Umem(r) /\ f # NULL
  BY <1>1, HandledLeaves, UmemOf
<1>4. /\ b \in RadioFrames /\ b \in Nat /\ content[f] = Single(r, s, b) /\ Waits(r, s, b)
      /\ \A q \in Rus, t \in Slots, g \in RadioFrames :
              ~(q = r /\ t = s /\ g = b) => (Waits(q, t, g)' <=> Waits(q, t, g))
  BY <1>1, <1>2, <1>3, HandledView, LevelType
<1>5. ~Waits(r, s, b)'
  <2>1. ~Waits(socket_to_process, s, b)'
    BY <1>1, <1>2, HandledView
  <2>2. UNCHANGED socket_to_process
    BY <1>1, HandledLeaves
  <2> QED BY <1>3, <2>1, <2>2
<1>6. UNCHANGED <<frame, sent, lost>>
  BY <1>1, HandledLeaves
<1>7. \A q \in Rus, t \in Slots, g \in RadioFrames :
        ~(q = r /\ t = s /\ g = b) => (Gone(q, t, g)' <=> Gone(q, t, g))
  BY <1>4, <1>6 DEF Gone
<1>8. ~Gone(r, s, b) /\ Gone(r, s, b)'
  <2>1. b < frame \/ s \in sent[r]
    <3>1. frame \in RadioFrames /\ frame \in Nat /\ b <= frame
      BY Numbers DEF ContentInv, FramesInv, TypeInv
    <3>2. b = frame => s \in sent[r]
      BY <1>4, WaitingIs
    <3> QED BY <1>4, <3>1, <3>2
  <2> QED BY <1>4, <1>5, <1>6, <2>1 DEF Gone
<1>9. ASSUME NEW t \in Slots, NEW q \in Rus, Has(t, q)', ~(t = s /\ q = r)
      PROVE  /\ ~(t = s /\ Has(s, r)) /\ Has(t, q) /\ KeptFrame(t, q)' = KeptFrame(t, q)
             /\ \A g \in RadioFrames : Keeps(t, q, g)' <=> Keeps(t, q, g)
  <2>1. /\ cached_packets'[t][q] = cached_packets[t][q] /\ cached_packets'[t][q] # NULL
        /\ ~(t = s /\ Has(s, r))
    BY <1>1, <1>3, <1>9 DEF Has, Occupied
  <2> QED BY <1>1, <2>1 DEF Has, KeptFrame, Keeps
<1>10. Has(s, r)' /\ KeptFrame(s, r)' = b
  BY <1>1, <1>3, <1>4, SingleIs DEF Has, KeptFrame
<1>11. KeptGone'
  <2> SUFFICES ASSUME NEW t \in Slots, NEW q \in Rus, NEW g \in RadioFrames, Keeps(t, q, g)'
               PROVE  Gone(q, t, g)'
    BY DEF KeptGone
  <2>1. CASE t = s /\ q = r
    <3>1. cached_packets'[s][r] = f /\ Single(r, s, g) = Single(r, s, b)
      BY <1>1, <1>3, <1>4, <2>1 DEF Keeps
    <3>2. g = b
      <4>1. Single(r, s, g)[r].frame = g /\ Single(r, s, b)[r].frame = b
        BY <1>4, SingleIs
      <4> QED BY <3>1, <4>1
    <3> QED BY <1>8, <2>1, <3>2
  <2>2. CASE ~(t = s /\ q = r)
    <3>1. Keeps(t, q, g)
      BY <1>9, <2>2 DEF Keeps, Has
    <3> QED BY <1>7, <2>2, <3>1 DEF KeptGone
  <2> QED BY <2>1, <2>2
<1>12. ASSUME NEW t \in Slots, t # s
       PROVE  \A q \in Rus : Level(t, q, b)' = Level(t, q, b)
  <2> TAKE q \in Rus
  <2>1. Has(t, q)' <=> Has(t, q)
    BY <1>1, <1>12 DEF Has
  <2>2. Gone(q, t, b)' <=> Gone(q, t, b)
    BY <1>4, <1>7, <1>12
  <2>3. Has(t, q) => KeptFrame(t, q)' = KeptFrame(t, q)
    BY <1>9, <1>12, <2>1
  <2> QED BY <2>1, <2>2, <2>3, LevelStays
<1>13. Level(s, r, b)' = b
  BY <1>10 DEF Level
<1>14. CASE ~Has(s, r)
  <2>1. Level(s, r, b) = b
    BY <1>8, <1>14, LevelType
  <2>2. \A q \in Rus \ {r} : Level(s, q, b)' = Level(s, q, b)
    <3> TAKE q \in Rus \ {r}
    <3>1. Has(s, q)' <=> Has(s, q)
      BY <1>1, <1>3, <1>14 DEF Has, Occupied
    <3>2. Gone(q, s, b)' <=> Gone(q, s, b)
      BY <1>4, <1>7
    <3>3. Has(s, q) => KeptFrame(s, q)' = KeptFrame(s, q)
      BY <1>9, <3>1
    <3> QED BY <3>1, <3>2, <3>3, LevelStays
  <2>3. \A t \in Slots, q \in Rus : Level(t, q, b)' = Level(t, q, b)
    BY <1>12, <1>13, <2>1, <2>2
  <2>4. Spread(b)'
    BY <1>6, <2>3, SpreadAt DEF Spread
  <2> QED BY <1>11, <2>4
<1>15. CASE Has(s, r)
  <2>1. /\ \A q \in Rus \ {r} : ~Has(s, q)'
        /\ \A q \in Rus : Level(s, q, b)' \in {b, b + 1}
    <3>1. \A q \in Rus \ {r} : ~Has(s, q)'
      BY <1>9, <1>15
    <3>2. \A q \in Rus \ {r} : Level(s, q, b)' \in {b, b + 1}
      BY <3>1 DEF Level
    <3> QED BY <1>13, <3>1, <3>2
  <2>2. /\ Cardinality(LostBy(s, b)) \in Nat /\ Cardinality(LostBy(s, b)') \in Nat
        /\ Cardinality(LostBy(s, b)) <= Cardinality(LostBy(s, b)')
    BY <1>6, LossesGrow
  <2>3. Cardinality(LostBy(s, b)) >= 1
    <3>1. PICK m \in Rus : ~Has(s, m)
      BY NotAllHeld
    <3>2. Level(s, m, b) \in {b, b + 1}
      BY <3>1 DEF Level
    <3>3. /\ KeptFrame(s, r) \in RadioFrames /\ Keeps(s, r, KeptFrame(s, r))
          /\ Level(s, r, b) = KeptFrame(s, r) /\ Level(s, r, b) <= b /\ Level(s, r, b) \in Nat
      BY <1>15, LevelType
    <3>4. Level(s, r, b) # b
      BY <1>8, <3>3 DEF KeptGone
    <3>5. Level(s, m, b) <= Level(s, r, b) + Cardinality(LostBy(s, b))
      BY DEF Spread
    <3> QED BY <1>4, <2>2, <3>2, <3>3, <3>4, <3>5
  <2>4. \A u, q \in Rus : Level(s, u, b)' <= Level(s, q, b)' + Cardinality(LostBy(s, b)')
    BY <1>4, <2>1, <2>2, <2>3
  <2>5. \A t \in Slots \ {s} : \A u, q \in Rus :
          Level(t, u, b)' <= Level(t, q, b)' + Cardinality(LostBy(t, b)')
    BY <1>6, <1>12, SpreadAt
  <2>6. Spread(b)'
    BY <2>4, <2>5 DEF Spread
  <2> QED BY <1>11, <2>6
<1> QED BY <1>14, <1>15

\* A sum of one slot's packets, whose radio frames differ by losses.
NearIn(g, s) ==
  /\ \A r \in Rus : \E h \in RadioFrames : g[r] = UplinkPacket(r, s, h)
  /\ \A r, q \in Rus : g[r].frame <= g[q].frame + Cardinality(LostIn(s))
Near(g) == \E s \in Slots : NearIn(g, s)

\* A group is added up when its levels are the frames of its packets.
LEMMA SpreadMergeGroup ==
  ASSUME FramesInv, NEW b, ContentInv(b), KeptGone, Spread(b), IsFiniteSet(lost), IsFiniteSet(lost'),
         NEW f \in Umem(socket_to_process), NEW s \in Slots, NEW row,
         Handles(f, s), ~Has(s, socket_to_process),
         \A q \in Rus : row[q] = (IF q = socket_to_process THEN f ELSE cached_packets[s][q])
                        /\ row[q] \in Umem(q),
         content' = [content EXCEPT ![row[0]] = [q \in Rus |-> content[row[q]][q]]],
         \A q \in Rus : cached_packets'[s][q] = NULL,
         \A t \in Slots \ {s} : cached_packets'[t] = cached_packets[t]
  PROVE  KeptGone' /\ Spread(b)' /\ Near(content'[row[0]])
<1>1. /\ \A q \in Rus : \A x \in Umem(q) : InQueue(q, x) /\ x # f => content'[x] = content[x]
      /\ \A t \in Slots \ {s}, q \in Rus : Has(t, q) =>
              content'[cached_packets[t][q]] = content[cached_packets[t][q]]
  BY SumIsApart
<1>2. PICK r \in Rus : r = socket_to_process /\ f \in Umem(r)
  BY HandledLeaves
<1>3. /\ b \in RadioFrames /\ b \in Nat /\ content[f] = Single(r, s, b) /\ Waits(r, s, b)
      /\ \A q \in Rus, t \in Slots, g \in RadioFrames :
              ~(q = r /\ t = s /\ g = b) => (Waits(q, t, g)' <=> Waits(q, t, g))
  BY <1>1, <1>2, HandledView, LevelType
<1>4. ~Waits(r, s, b)'
  <2>1. ~Waits(socket_to_process, s, b)'
    BY <1>1, HandledView
  <2>2. UNCHANGED socket_to_process
    BY HandledLeaves
  <2> QED BY <1>2, <2>1, <2>2
<1>5. UNCHANGED <<frame, sent, lost>>
  BY HandledLeaves
<1>6. \A q \in Rus, t \in Slots, g \in RadioFrames :
        ~(q = r /\ t = s /\ g = b) => (Gone(q, t, g)' <=> Gone(q, t, g))
  BY <1>3, <1>5 DEF Gone
<1>7. ~Gone(r, s, b)
  BY <1>3 DEF Gone
<1>8. ASSUME NEW t \in Slots, t # s, NEW q \in Rus
      PROVE  /\ Has(t, q)' <=> Has(t, q)
             /\ Has(t, q) => KeptFrame(t, q)' = KeptFrame(t, q)
             /\ \A g \in RadioFrames : Keeps(t, q, g)' <=> Keeps(t, q, g)
  BY <1>1, <1>8 DEF Has, KeptFrame, Keeps
<1>9. \A q \in Rus : ~Has(s, q)'
  BY DEF Has
<1>10. KeptGone'
  <2> SUFFICES ASSUME NEW t \in Slots, NEW q \in Rus, NEW g \in RadioFrames, Keeps(t, q, g)'
               PROVE  Gone(q, t, g)'
    BY DEF KeptGone
  <2>1. t # s
    BY <1>9 DEF Keeps, Has
  <2>2. Keeps(t, q, g)
    BY <1>8, <2>1
  <2> QED BY <1>6, <2>1, <2>2 DEF KeptGone
<1>11. /\ Level(s, r, b) = b
       /\ \A q \in Rus \ {r} : Has(s, q)
  <2>1. \A q \in Rus \ {r} : Has(s, q)
    BY <1>2, UmemOf DEF Has
  <2> QED BY <1>2, <1>7, <2>1, LevelType
<1>12. /\ Cardinality(LostBy(s, b)) \in Nat /\ Cardinality(LostBy(s, b)') \in Nat
       /\ Cardinality(LostBy(s, b)) <= Cardinality(LostBy(s, b)')
  BY <1>5, LossesGrow
<1>13. \A t \in Slots \ {s} : \A u, q \in Rus :
         Level(t, u, b)' <= Level(t, q, b)' + Cardinality(LostBy(t, b)')
  <2> TAKE t \in Slots \ {s}
  <2>1. \A q \in Rus : Level(t, q, b)' = Level(t, q, b)
    BY <1>3, <1>6, <1>8, LevelStays
  <2> QED BY <1>5, <2>1, SpreadAt
<1>14. ASSUME NEW u \in Rus, NEW q \in Rus
       PROVE  Level(s, u, b)' <= Level(s, q, b)' + Cardinality(LostBy(s, b)')
  <2>1. /\ Level(s, u, b)' = IF Gone(u, s, b)' THEN b + 1 ELSE b
        /\ Level(s, q, b)' = IF Gone(q, s, b)' THEN b + 1 ELSE b
    BY <1>9 DEF Level
  <2>2. CASE Gone(q, s, b)' \/ ~Gone(u, s, b)'
    BY <1>3, <1>12, <2>1, <2>2
  <2>3. CASE ~Gone(q, s, b)' /\ Gone(u, s, b)'
    <3>1. CASE q = r
      <4>1. Gone(r, s, b)'
        <5>1. frame \in RadioFrames /\ frame \in Nat /\ b <= frame
          BY Numbers DEF ContentInv, FramesInv, TypeInv
        <5>2. b = frame => s \in sent[r]
          BY <1>3, WaitingIs
        <5>3. b < frame \/ s \in sent[r]
          BY <1>3, <5>1, <5>2
        <5> QED BY <1>4, <1>5, <5>3 DEF Gone
      <4> QED BY <2>3, <3>1, <4>1
    <3>2. CASE q # r
      <4>1. ~Gone(q, s, b) /\ Has(s, q)
        BY <1>3, <1>6, <1>11, <2>3, <3>2
      <4>2. /\ KeptFrame(s, q) \in RadioFrames /\ Keeps(s, q, KeptFrame(s, q))
            /\ Level(s, q, b) = KeptFrame(s, q) /\ Level(s, q, b) <= b /\ Level(s, q, b) \in Nat
        BY <4>1, LevelType
      <4>3. Level(s, q, b) # b
        BY <4>1, <4>2 DEF KeptGone
      <4>4. Level(s, r, b) <= Level(s, q, b) + Cardinality(LostBy(s, b))
        BY DEF Spread
      <4> QED BY <1>3, <1>11, <1>12, <2>1, <4>2, <4>3, <4>4
    <3> QED BY <3>1, <3>2
  <2> QED BY <2>2, <2>3
<1>15. Spread(b)'
  BY <1>13, <1>14 DEF Spread
<1>16. Near(content'[row[0]])
  <2>1. PICK g : g = [q \in Rus |-> content[row[q]][q]] /\ g = content'[row[0]]
    <3>1. row[0] \in UmemFrames /\ content \in [UmemFrames -> Sums]
      BY Sockets, UmemOf DEF FramesInv, TypeInv, TypeOK
    <3> QED BY <3>1
  <2>2. ASSUME NEW q \in Rus
        PROVE  /\ Level(s, q, b) \in RadioFrames /\ g[q] = UplinkPacket(q, s, Level(s, q, b))
               /\ g[q].frame = Level(s, q, b) /\ Level(s, q, b) \in Nat
    <3>1. CASE q = r
      <4>1. g[r] = Single(r, s, b)[r]
        BY <1>2, <1>3, <2>1
      <4>2. g[r] = UplinkPacket(r, s, b) /\ g[r].frame = b
        BY <1>3, <4>1, SingleIs
      <4> QED BY <1>3, <1>11, <3>1, <4>2
    <3>2. CASE q # r
      <4>1. PICK h : /\ h = KeptFrame(s, q) /\ h \in RadioFrames /\ Keeps(s, q, h)
                     /\ h = Level(s, q, b) /\ Level(s, q, b) \in Nat
        BY <1>11, <3>2, LevelType
      <4>2. row[q] = cached_packets[s][q]
        BY <1>2, <3>2
      <4>3. g[q] = Single(q, s, h)[q]
        BY <2>1, <4>1, <4>2 DEF Keeps
      <4>4. g[q] = UplinkPacket(q, s, h) /\ g[q].frame = h
        BY <4>1, <4>3, SingleIs
      <4> QED BY <4>1, <4>4
    <3> QED BY <3>1, <3>2
  <2>3. /\ Cardinality(LostIn(s)) \in Nat /\ Cardinality(LostBy(s, b)) <= Cardinality(LostIn(s))
    <3>1. LostBy(s, b) \in SUBSET LostIn(s) /\ LostIn(s) \in SUBSET lost
      BY DEF LostBy, LostIn
    <3> QED BY <3>1, FS_Subset, FS_CardinalityType
  <2>4. ASSUME NEW u \in Rus, NEW q \in Rus
        PROVE  g[u].frame <= g[q].frame + Cardinality(LostIn(s))
    <3>1. Level(s, u, b) <= Level(s, q, b) + Cardinality(LostBy(s, b))
      BY DEF Spread
    <3> QED BY <1>12, <2>2, <2>3, <3>1
  <2> QED BY <2>1, <2>2, <2>4 DEF Near, NearIn
<1> QED BY <1>10, <1>15, <1>16

\* A sum stays near: the packets are the same, and losses only grow in number.
LEMMA NearStays ==
  ASSUME FramesInv, IsFiniteSet(lost'), lost \subseteq lost', NEW g, Near(g)
  PROVE  Near(g)'
<1>1. PICK s \in Slots : NearIn(g, s)
  BY DEF Near
<1>2. ASSUME NEW r \in Rus
      PROVE  g[r].frame \in Nat /\ \E h \in RadioFrames : g[r] = UplinkPacket(r, s, h)
  <2>1. PICK h \in RadioFrames : g[r] = UplinkPacket(r, s, h)
    BY <1>1 DEF NearIn
  <2>2. g[r].frame = h /\ h \in Nat
    BY <2>1, SingleIs, XdpAssumption DEF RadioFrames
  <2> QED BY <2>1, <2>2
<1>3. /\ Cardinality(LostIn(s)) \in Nat /\ Cardinality(LostIn(s)') \in Nat
      /\ Cardinality(LostIn(s)) <= Cardinality(LostIn(s)')
  <2>1. LostIn(s) \in SUBSET LostIn(s)' /\ LostIn(s)' \in SUBSET lost'
    BY DEF LostIn
  <2>2. IsFiniteSet(LostIn(s)')
    BY <2>1, FS_Subset
  <2> QED BY <2>1, <2>2, FS_Subset, FS_CardinalityType
<1>4. ASSUME NEW r \in Rus, NEW q \in Rus
      PROVE  g[r].frame <= g[q].frame + Cardinality(LostIn(s)')
  <2>1. g[r].frame <= g[q].frame + Cardinality(LostIn(s))
    BY <1>1 DEF NearIn
  <2> QED BY <1>2, <1>3, <2>1
<1>5. NearIn(g, s)'
  BY <1>2, <1>4 DEF NearIn, UplinkPacket
<1> QED BY <1>5 DEF Near

\* What is on its way to the DU, and what has been sent to it.
SumsNear == \A f \in Umem(0), g \in Sums :
  (InSeq(frags_to_be_sent, f) \/ InSeq(tx, f)) /\ content[f] = g => Near(g)
SentNear == \A port \in Ports, g \in Sums : InSeq(to_du[port], g) => Near(g)

SkewInv == SpreadInv /\ SumsNear /\ SentNear

LEMMA SumsStay ==
  ASSUME FramesInv, IsFiniteSet(lost'), lost \subseteq lost', SumsNear,
         \A f \in Umem(0) : InSeq(frags_to_be_sent', f) \/ InSeq(tx', f) =>
           (InSeq(frags_to_be_sent, f) \/ InSeq(tx, f)) /\ content'[f] = content[f]
  PROVE  SumsNear'
<1> SUFFICES ASSUME NEW f \in Umem(0), NEW g \in Sums,
                    InSeq(frags_to_be_sent', f) \/ InSeq(tx', f), content'[f] = g
             PROVE  Near(g)'
  BY DEF SumsNear
<1>1. Near(g)
  BY DEF SumsNear
<1> QED BY <1>1, NearStays

LEMMA SentStays ==
  ASSUME FramesInv, IsFiniteSet(lost'), lost \subseteq lost', SentNear, to_du' = to_du
  PROVE  SentNear'
<1> SUFFICES ASSUME NEW port \in Ports, NEW g \in Sums, InSeq(to_du[port], g)
             PROVE  Near(g)'
  BY DEF SentNear
<1>1. Near(g)
  BY DEF SentNear
<1> QED BY <1>1, NearStays

\* A new sum joins the sums; its frame was none of theirs.
LEMMA SkewMergeGroup ==
  ASSUME FramesInv, NEW b, ContentInv(b), KeptGone, Spread(b), SumsNear,
         IsFiniteSet(lost), IsFiniteSet(lost'), MergeGroup
  PROVE  KeptGone' /\ Spread(b)' /\ SumsNear'
<1>1. PICK f \in Umem(socket_to_process), s \in Slots : \E row :
               /\ Handles(f, s) /\ ~Has(s, socket_to_process)
               /\ \A q \in Rus : row[q] = (IF q = socket_to_process THEN f ELSE cached_packets[s][q])
                                 /\ row[q] \in Umem(q)
               /\ content' = [content EXCEPT ![row[0]] = [q \in Rus |-> content[row[q]][q]]]
               /\ \A q \in Rus : cached_packets'[s][q] = NULL
               /\ \A t \in Slots \ {s} : cached_packets'[t] = cached_packets[t]
               /\ frags_to_be_sent' = Append(frags_to_be_sent, row[0])
  BY MergeGroupIs
<1>2. PICK row :
               /\ Handles(f, s) /\ ~Has(s, socket_to_process)
               /\ \A q \in Rus : row[q] = (IF q = socket_to_process THEN f ELSE cached_packets[s][q])
                                 /\ row[q] \in Umem(q)
               /\ content' = [content EXCEPT ![row[0]] = [q \in Rus |-> content[row[q]][q]]]
               /\ \A q \in Rus : cached_packets'[s][q] = NULL
               /\ \A t \in Slots \ {s} : cached_packets'[t] = cached_packets[t]
               /\ frags_to_be_sent' = Append(frags_to_be_sent, row[0])
  BY <1>1
<1>3. KeptGone' /\ Spread(b)' /\ Near(content'[row[0]])
  BY <1>2, SpreadMergeGroup
<1>4. UNCHANGED <<tx, lost>> /\ InSeq(pkt_frags, f) /\ socket_to_process \in Rus /\ 0 \in Rus
  BY <1>2, HandledLeaves, Sockets
<1>5. PICK new : new = row[0] /\ new \in Umem(0) /\ new \in UmemFrames /\ new # NULL
  BY <1>2, <1>4, UmemOf
<1>6. \A x : InSeq(frags_to_be_sent', x) <=> InSeq(frags_to_be_sent, x) \/ x = new
  <2>1. frags_to_be_sent \in Seq(Umem(0))
    BY DEF FramesInv, TypeInv
  <2> QED BY <1>2, <1>5, <2>1, AppendedIn
<1>7. ~InSeq(frags_to_be_sent, new) /\ ~InSeq(tx, new)
  <2>1. PICK w \in [UmemFrames -> Places] : PlacedBy(w)
    BY DEF FramesInv, PlacesInv
  <2>2. w[new] \in {"batch", "cache"}
    <3>1. CASE socket_to_process = 0
      <4>1. new = f
        BY <1>2, <1>4, <1>5, <3>1
      <4> QED BY <1>4, <1>5, <2>1, <4>1, PlaceOf
    <3>2. CASE socket_to_process # 0
      <4>1. new = cached_packets[s][0] /\ cached_packets[s][0] # NULL
        BY <1>2, <1>4, <1>5, <3>2
      <4> QED BY <1>4, <2>1, <4>1, PlaceOf
    <3> QED BY <3>1, <3>2
  <2> QED BY <1>5, <2>1, <2>2 DEF PlacedBy
<1>8. \A x \in Umem(0) : x # new => content'[x] = content[x]
  <2>1. content \in [UmemFrames -> Sums] /\ \A x \in Umem(0) : x \in UmemFrames
    BY <1>4, UmemOf DEF FramesInv, TypeInv, TypeOK
  <2> QED BY <1>2, <1>5, <2>1
<1>9. SumsNear'
  <2> SUFFICES ASSUME NEW x \in Umem(0), NEW g \in Sums,
                      InSeq(frags_to_be_sent', x) \/ InSeq(tx', x), content'[x] = g
               PROVE  Near(g)'
    BY DEF SumsNear
  <2>1. Near(g)
    <3>1. CASE x = new
      BY <1>3, <1>5, <3>1
    <3>2. CASE x # new
      BY <1>4, <1>6, <1>8, <3>2 DEF SumsNear
    <3> QED BY <3>1, <3>2
  <2> QED BY <1>4, <2>1, NearStays
<1> QED BY <1>3, <1>9

\* The card sends what the next frame of the TX ring holds.
LEMMA SkewTransmit ==
  ASSUME FramesInv, IsFiniteSet(lost'), SumsNear, SentNear, Transmit
  PROVE  SumsNear' /\ SentNear'
<1>1. tx # <<>> /\ tx \in Seq(Umem(0)) /\ Once(tx)
  BY DEF Transmit, FramesInv, TypeInv, OnceInv
<1>2. /\ Head(tx) \in Umem(0) /\ InSeq(tx, Head(tx))
      /\ \A x : InSeq(Tail(tx), x) <=> InSeq(tx, x) /\ x # Head(tx)
  BY <1>1, Popped
<1>3. tx' = Tail(tx) /\ UNCHANGED <<content, frags_to_be_sent, lost>>
  BY DEF Transmit, batchVars, envVars
<1>4. SumsNear'
  BY <1>2, <1>3, SumsStay
<1>5. PICK g : g = content[Head(tx)] /\ g \in Sums /\ Near(g)
  <2>1. content[Head(tx)] \in Sums
    BY <1>2, Sockets, UmemOf DEF FramesInv, TypeInv, TypeOK
  <2> QED BY <1>2, <2>1 DEF SumsNear
<1>6. /\ to_du \in [Ports -> Seq(Sums)]
      /\ to_du' = [to_du EXCEPT ![g[0].port] = Append(to_du[g[0].port], g)]
  BY <1>5 DEF Transmit, FramesInv, TypeInv, TypeOK
<1>7. SentNear'
  <2> SUFFICES ASSUME NEW port \in Ports, NEW h \in Sums, InSeq(to_du'[port], h)
               PROVE  Near(h)'
    BY DEF SentNear
  <2>1. to_du[port] \in Seq(Sums)
    BY <1>6
  <2>2. \A x : InSeq(Append(to_du[port], g), x) <=> InSeq(to_du[port], x) \/ x = g
    BY <1>5, <2>1, AppendedIn
  <2>3. to_du'[port] \in {to_du[port], Append(to_du[port], g)}
    BY <1>6
  <2>4. InSeq(to_du[port], h) \/ h = g
    BY <2>2, <2>3
  <2>5. Near(h)
    BY <1>5, <2>4 DEF SentNear
  <2> QED BY <1>3, <2>5, NearStays
<1> QED BY <1>4, <1>7

LEMMA SpreadNext ==
  ASSUME FramesInv, SkewInv, IsFiniteSet(lost), IsFiniteSet(lost'), lost \subseteq lost', [Next]_vars
  PROVE  SkewInv'
<1>1. PICK b : ContentInv(b) /\ KeptGone /\ Spread(b)
  BY DEF SkewInv, SpreadInv
<1>2. SumsNear /\ SentNear
  BY DEF SkewInv
<1>3. ASSUME NEW c, ContentInv(c), KeptGone, Spread(c), pc' # "frags" => c = frame, ContentSame
      PROVE  SpreadInv'
  <2>1. ContentInv(c)'
    BY <1>3, ContentQuiet
  <2>2. \A r \in Rus, s \in Slots, g \in RadioFrames : Waits(r, s, g)' <=> Waits(r, s, g)
    BY <1>3, WaitsSame DEF ContentSame
  <2>3. KeptGone' /\ Spread(c)'
    BY <1>3, <2>2, SpreadSame DEF ContentSame
  <2> QED BY <2>1, <2>3 DEF SpreadInv
<1>4. ASSUME ContentSame, pc' = pc PROVE SpreadInv'
  BY <1>1, <1>3, <1>4 DEF ContentInv
<1>5. ASSUME ContentSame, pc # "frags" \/ pkt_frags = <<>> PROVE SpreadInv'
  <2>1. PICK c : c = frame /\ ContentInv(c) /\ Spread(c)
    <3>1. CASE pc # "frags"
      BY <1>1, <3>1 DEF ContentInv
    <3>2. CASE pkt_frags = <<>>
      BY <1>1, <3>2, CatchUp, SpreadCatchUp
    <3> QED BY <1>5, <3>1, <3>2
  <2> QED BY <1>1, <1>3, <1>5, <2>1
<1>6. ASSUME UNCHANGED <<content, frags_to_be_sent, tx>> PROVE SumsNear'
  BY <1>2, <1>6, SumsStay
<1>7. to_du' = to_du => SentNear'
  BY <1>2, SentStays
<1>8. ASSUME NEW i \in Rus, RxPackets(i) PROVE SkewInv'
  <2>1. UNCHANGED <<tx, content, cached_packets, frags_to_be_sent, frame, sent, lost, to_du>>
    BY <1>8, TakenQueues
  <2>2. /\ ContentInv(b)'
        /\ \A r \in Rus, s \in Slots, g \in RadioFrames : Waits(r, s, g)' <=> Waits(r, s, g)
    BY <1>1, <1>8, ContentRxPackets
  <2>3. KeptGone' /\ Spread(b)'
    BY <1>1, <2>1, <2>2, SpreadSame
  <2> QED BY <1>6, <1>7, <2>1, <2>2, <2>3 DEF SkewInv, SpreadInv
<1>9. CASE CacheFrag
  <2>1. UNCHANGED <<tx, content, frags_to_be_sent, to_du>>
    BY <1>9, CacheFragIs, HandledLeaves
  <2>2. ContentInv(b)' /\ KeptGone' /\ Spread(b)'
    BY <1>1, <1>9, ContentCacheFrag, SpreadCacheFrag
  <2> QED BY <1>6, <1>7, <2>1, <2>2 DEF SkewInv, SpreadInv
<1>10. CASE MergeGroup
  <2>1. to_du' = to_du
    BY <1>10, MergeGroupIs, HandledLeaves
  <2>2. ContentInv(b)' /\ KeptGone' /\ Spread(b)' /\ SumsNear'
    BY <1>1, <1>2, <1>10, ContentMergeGroup, SkewMergeGroup
  <2> QED BY <1>7, <2>1, <2>2 DEF SkewInv, SpreadInv
<1>11. CASE ReturnFrames
  <2>1. ContentSame /\ pkt_frags = <<>> /\ UNCHANGED <<tx, frags_to_be_sent, to_du>>
    BY <1>11 DEF ReturnFrames, ContentSame, cacheVars, envVars
  <2> QED BY <1>5, <1>6, <1>7, <2>1 DEF SkewInv, ContentSame
<1>12. CASE QueueSums
  <2>1. /\ ContentSame /\ pc # "frags" /\ to_du' = to_du
        /\ tx' = tx \o frags_to_be_sent /\ frags_to_be_sent' = <<>>
    BY <1>12 DEF QueueSums, ContentSame, cacheVars, envVars
  <2>2. tx \in Seq(Umem(0)) /\ frags_to_be_sent \in Seq(Umem(0))
    BY DEF FramesInv, TypeInv
  <2>3. /\ \A x : InSeq(tx', x) <=> InSeq(tx, x) \/ InSeq(frags_to_be_sent, x)
        /\ \A x : ~InSeq(frags_to_be_sent', x)
    BY <2>1, <2>2, JoinedIn, EmptyOnce
  <2>4. SumsNear'
    BY <1>2, <2>1, <2>3, SumsStay DEF ContentSame
  <2> QED BY <1>5, <1>7, <2>1, <2>4 DEF SkewInv
<1>13. CASE CollectCompleted
  <2>1. ContentSame /\ pc # "frags" /\ UNCHANGED <<tx, frags_to_be_sent, to_du>>
    BY <1>13 DEF CollectCompleted, ContentSame, cacheVars, envVars
  <2> QED BY <1>5, <1>6, <1>7, <2>1 DEF SkewInv, ContentSame
<1>14. ASSUME NEW r \in Rus, NEW s \in Slots, Send(r, s) PROVE SkewInv'
  <2>1. ContentInv(b)' /\ KeptGone' /\ Spread(b)'
    BY <1>1, <1>14, ContentSend, SpreadSend
  <2>2. UNCHANGED <<tx, frags_to_be_sent, to_du>>
    BY <1>14 DEF Send, batchVars
  <2>3. PICK f \in Umem(r) :
          /\ ~InSeq(tx, f) /\ ~InSeq(frags_to_be_sent, f)
          /\ \A x \in UmemFrames : content'[x] = IF x = f THEN Single(r, s, frame) ELSE content[x]
    BY <1>14, SentQueues
  <2>4. \A x \in Umem(0) : x \in UmemFrames
    BY UmemOf, Sockets
  <2>5. SumsNear'
    BY <1>2, <2>2, <2>3, <2>4, SumsStay
  <2> QED BY <1>7, <2>1, <2>2, <2>5 DEF SkewInv, SpreadInv
<1>15. ASSUME NEW r \in Rus, NEW s \in Slots, Lose(r, s) PROVE SkewInv'
  <2>1. ContentInv(b)' /\ KeptGone' /\ Spread(b)'
    BY <1>1, <1>15, ContentLose, SpreadLose
  <2>2. UNCHANGED <<content, tx, frags_to_be_sent, to_du>>
    BY <1>15 DEF Lose, rings, batchVars
  <2> QED BY <1>6, <1>7, <2>1, <2>2 DEF SkewInv, SpreadInv
<1>16. CASE Transmit
  <2>1. ContentSame /\ pc' = pc
    BY <1>16 DEF Transmit, ContentSame, batchVars, cacheVars, envVars
  <2> QED BY <1>2, <1>4, <1>16, <2>1, SkewTransmit DEF SkewInv
<1>17. CASE NextFrame
  <2>1. SpreadInv'
    BY <1>1, <1>17, SpreadNextFrame DEF SpreadInv
  <2>2. UNCHANGED <<content, tx, frags_to_be_sent, to_du>>
    BY <1>17 DEF NextFrame, rings, batchVars
  <2> QED BY <1>6, <1>7, <2>1, <2>2 DEF SkewInv
<1>18. CASE UNCHANGED vars
  <2>1. ContentSame /\ pc' = pc /\ UNCHANGED <<tx, frags_to_be_sent, to_du>>
    BY <1>18 DEF vars, ContentSame, rings, batchVars, cacheVars, envVars
  <2> QED BY <1>4, <1>6, <1>7, <2>1 DEF SkewInv, ContentSame
<1> QED BY <1>8, <1>9, <1>10, <1>11, <1>12, <1>13, <1>14, <1>15, <1>16, <1>17, <1>18
        DEF Next, Thread, Idle

LEMMA LossesOnlyGrow == ViewNext => lost \subseteq lost'
BY DEF ViewNext, Quietly, ViewLost, ViewKept, ViewMerged

LEMMA SkewInit == Init => SkewInv
<1> SUFFICES ASSUME Init PROVE SkewInv
  OBVIOUS
<1>1. PICK b : ContentInv(b)
  BY ContentInit DEF HoldInv
<1>2. b = 0 /\ FramesInv /\ 0 \in RadioFrames /\ frame = 0
  BY <1>1, FramesInit, XdpAssumption DEF ContentInv, Init, RadioFrames
<1>3. \A s \in Slots, r \in Rus : ~Has(s, r)
  BY DEF Init, Has, EmptyRow
<1>4. \A s \in Slots, r \in Rus : Level(s, r, b) = 0
  BY <1>2, <1>3 DEF Level, Gone, Init
<1>5. Spread(b)
  <2> SUFFICES ASSUME NEW s \in Slots, NEW r \in Rus, NEW q \in Rus
               PROVE  Level(s, r, b) <= Level(s, q, b) + Cardinality(LostBy(s, b))
    BY DEF Spread
  <2>1. LostBy(s, b) = {}
    BY DEF Init, LostBy, LostIn
  <2>2. Cardinality(LostBy(s, b)) = 0
    BY <2>1, FS_EmptySet, Zenon
  <2> QED BY <1>4, <2>2
<1>6. KeptGone
  BY <1>3 DEF KeptGone, Keeps, Has
<1>7. SumsNear
  BY EmptyOnce DEF Init, SumsNear
<1>8. SentNear
  BY EmptyOnce DEF Init, SentNear
<1> QED BY <1>1, <1>5, <1>6, <1>7, <1>8 DEF SkewInv, SpreadInv

LEMMA SkewFollows ==
  ASSUME FramesInv, SkewInv
  PROVE  SkewBoundedByLoss
<1> SUFFICES ASSUME NEW port \in Ports, NEW i \in DOMAIN to_du[port], NEW r \in Rus, NEW q \in Rus
             PROVE  to_du[port][i][r].frame <= to_du[port][i][q].frame +
                      Cardinality({p \in lost : SlotOf(p) = SlotOf(to_du[port][i][0])})
  BY DEF SkewBoundedByLoss
<1>1. to_du[port] \in Seq(Sums)
  BY DEF FramesInv, TypeInv, TypeOK
<1>2. PICK g : g = to_du[port][i] /\ g \in Sums /\ InSeq(to_du[port], g)
  BY <1>1 DEF InSeq
<1>3. PICK s \in Slots : NearIn(g, s)
  BY <1>2 DEF SkewInv, SentNear, Near
<1>4. PICK h \in RadioFrames : g[0] = UplinkPacket(0, s, h)
  BY <1>3, Sockets DEF NearIn
<1>5. SlotOf(g[0]) = s
  BY <1>4, Sockets, SingleIs
<1>6. {p \in lost : SlotOf(p) = SlotOf(g[0])} = LostIn(s)
  BY <1>5 DEF LostIn
<1>7. g[r].frame <= g[q].frame + Cardinality(LostIn(s))
  BY <1>3 DEF NearIn
<1>8. Cardinality({p \in lost : SlotOf(p) = SlotOf(g[0])}) = Cardinality(LostIn(s))
  BY <1>6, Zenon
<1> QED BY <1>2, <1>7, <1>8

\* The packets of a sum are of radio frames that differ by no more than the
\* packets lost in its slot: for any number of RUs, slots and frames, any batches
\* and any delay between reception and handling.
THEOREM SkewPaidByLoss == Spec => []SkewBoundedByLoss
<1>1. Init => HoldInv /\ LeakInv /\ SkewInv
  BY ContentInit, LeakInit, SkewInit
<1>2. FramesInv /\ HoldInv /\ LeakInv /\ SkewInv /\ [Next]_vars => (HoldInv /\ LeakInv /\ SkewInv)'
  <2> SUFFICES ASSUME FramesInv, HoldInv, LeakInv, SkewInv, [Next]_vars
               PROVE  (HoldInv /\ LeakInv /\ SkewInv)'
    OBVIOUS
  <2>1. HoldInv' /\ LeakInv' /\ lost \subseteq lost'
    BY ContentNext, NextIsViewStep, LeakStep, LossesOnlyGrow
  <2>2. IsFiniteSet(lost) /\ IsFiniteSet(lost')
    BY <2>1 DEF LeakInv
  <2> QED BY <2>1, <2>2, SpreadNext
<1>3. FramesInv /\ SkewInv => SkewBoundedByLoss
  BY SkewFollows
<1> QED BY <1>1, <1>2, <1>3, FramesInvariant, PTL DEF Spec

-----------------------------------------------------------------------------
(* The middlebox implements FronthaulMerge.  A sum is delivered when the   *)
(* card transmits it; until then its packets are collected, as those are   *)
(* that wait in a queue or a row.                                          *)

\* The packet is in a queue or a row.
Pending(r, s, g) == Waits(r, s, g) \/ Keeps(s, r, g)

\* The sums on their way to the DU, as the DU will get them.
OnWay == tx \o frags_to_be_sent
Coming == [i \in 1 .. Len(OnWay) |-> content[OnWay[i]]]

\* What is pending of the RU and slot, and all that is to be sent, is later.
Past(r, s, h) ==
  /\ h < frame \/ (h = frame /\ s \in sent[r])
  /\ \A k \in RadioFrames : Pending(r, s, k) => h < k
Over(g, s) == \A r \in Rus : \E h \in RadioFrames : g[r] = UplinkPacket(r, s, h) /\ Past(r, s, h)

\* If both are groups of one slot, each RU's packet is earlier in g.
GroupOf(g, s) == \A r \in Rus : \E h \in RadioFrames : g[r] = UplinkPacket(r, s, h)
Before(g, w) == \A s \in Slots :
  GroupOf(g, s) /\ GroupOf(w, s) => \A r \in Rus : g[r].frame < w[r].frame

OrderInv ==
  /\ \A i \in 1 .. Len(Coming) : \E s \in Slots : Over(Coming[i], s)
  /\ \A i, j \in 1 .. Len(Coming) : i < j => Before(Coming[i], Coming[j])
  /\ \A port \in Ports : \A i \in 1 .. Len(to_du[port]) :
       /\ \E key \in Keys : Over(to_du[port][i], <<port, key>>)
       /\ \A j \in 1 .. Len(Coming) : Before(to_du[port][i], Coming[j])

\* What the DU will get next, and last.
LEMMA ComingIs ==
  ASSUME FramesInv
  PROVE  /\ OnWay \in Seq(Umem(0)) /\ Len(OnWay) = Len(tx) + Len(frags_to_be_sent)
         /\ Coming \in Seq(Sums) /\ Len(Coming) = Len(OnWay)
         /\ \A i \in 1 .. Len(OnWay) : /\ Coming[i] = content[OnWay[i]] /\ OnWay[i] \in Umem(0)
                                       /\ InSeq(tx, OnWay[i]) \/ InSeq(frags_to_be_sent, OnWay[i])
         /\ \A x : InSeq(OnWay, x) <=> InSeq(tx, x) \/ InSeq(frags_to_be_sent, x)
<1>1. tx \in Seq(Umem(0)) /\ frags_to_be_sent \in Seq(Umem(0)) /\ content \in [UmemFrames -> Sums]
  BY DEF FramesInv, TypeInv, TypeOK
<1>2. PICK q : q = OnWay /\ q \in Seq(Umem(0)) /\ Len(q) = Len(tx) + Len(frags_to_be_sent)
  <2>1. /\ tx \o frags_to_be_sent \in Seq(Umem(0))
        /\ Len(tx \o frags_to_be_sent) = Len(tx) + Len(frags_to_be_sent)
    BY <1>1
  <2> QED BY <2>1 DEF OnWay
<1>3. \A x : InSeq(q, x) <=> InSeq(tx, x) \/ InSeq(frags_to_be_sent, x)
  BY <1>1, <1>2, JoinedIn DEF OnWay
<1>4. \A i \in 1 .. Len(q) : q[i] \in Umem(0) /\ q[i] \in UmemFrames /\ InSeq(q, q[i])
  BY <1>2, UmemOf, Sockets DEF InSeq
<1>5. Coming = [i \in 1 .. Len(q) |-> content[q[i]]]
  BY <1>2 DEF Coming
<1>6. \A i \in 1 .. Len(q) : content[q[i]] \in Sums
  BY <1>1, <1>4
<1>7. PICK n \in Nat : n = Len(q)
  BY <1>2
<1>8. Coming \in Seq(Sums) /\ Len(Coming) = n
  BY <1>5, <1>6, <1>7
<1> QED BY <1>2, <1>3, <1>4, <1>5, <1>7, <1>8

LEMMA ComingStays ==
  ASSUME FramesInv, FramesInv', OnWay' = OnWay,
         \A x \in Umem(0) : InSeq(tx, x) \/ InSeq(frags_to_be_sent, x) => content'[x] = content[x]
  PROVE  Coming' = Coming
<1>1. \A i \in 1 .. Len(OnWay) : content'[OnWay[i]] = content[OnWay[i]]
  BY ComingIs
<1> QED BY <1>1 DEF Coming

LEMMA ComingSame ==
  ASSUME UNCHANGED <<content, tx, frags_to_be_sent>>
  PROVE  Coming' = Coming
BY DEF Coming, OnWay

LEMMA ComingQueued ==
  ASSUME FramesInv, QueueSums
  PROVE  Coming' = Coming
<1>1. tx \in Seq(Umem(0)) /\ frags_to_be_sent \in Seq(Umem(0))
  BY DEF FramesInv, TypeInv
<1>2. tx' = tx \o frags_to_be_sent /\ frags_to_be_sent' = <<>> /\ content' = content
  BY DEF QueueSums
<1>3. PICK q : q \in Seq(Umem(0)) /\ q = tx \o frags_to_be_sent
  <2>1. tx \o frags_to_be_sent \in Seq(Umem(0))
    BY <1>1
  <2> QED BY <2>1
<1>4. q \o <<>> = q
  BY <1>3
<1>5. OnWay' = OnWay
  BY <1>2, <1>3, <1>4 DEF OnWay
<1> QED BY <1>2, <1>5 DEF Coming

\* A new sum is the last to come,
LEMMA ComingMerged ==
  ASSUME FramesInv, tx' = tx, NEW x \in Umem(0), frags_to_be_sent' = Append(frags_to_be_sent, x),
         \A y \in Umem(0) : y # x => content'[y] = content[y],
         ~InSeq(tx, x), ~InSeq(frags_to_be_sent, x)
  PROVE  /\ Len(Coming') = Len(Coming) + 1
         /\ \A i \in 1 .. Len(Coming) : Coming'[i] = Coming[i]
         /\ Coming'[Len(Coming) + 1] = content'[x]
<1>1. tx \in Seq(Umem(0)) /\ frags_to_be_sent \in Seq(Umem(0))
  BY DEF FramesInv, TypeInv
<1>2. PICK q, n : /\ q = OnWay /\ q \in Seq(Umem(0)) /\ n \in Nat /\ n = Len(q) /\ n = Len(Coming)
                  /\ \A i \in 1 .. n : Coming[i] = content[q[i]] /\ q[i] \in Umem(0) /\ q[i] # x
  <2>1. OnWay \in Seq(Umem(0)) /\ Len(OnWay) \in Nat /\ Len(Coming) = Len(OnWay)
    BY ComingIs
  <2>2. \A i \in 1 .. Len(OnWay) : Coming[i] = content[OnWay[i]] /\ OnWay[i] \in Umem(0) /\ OnWay[i] # x
    BY ComingIs
  <2> QED BY <2>1, <2>2
<1>3. OnWay' = Append(q, x)
  <2>1. tx \o Append(frags_to_be_sent, x) = Append(tx \o frags_to_be_sent, x)
    BY <1>1
  <2> QED BY <1>2, <2>1 DEF OnWay
<1>4. PICK w : w = Append(q, x) /\ Len(w) = n + 1 /\ w[n + 1] = x /\ \A i \in 1 .. n : w[i] = q[i]
  <2>1. q \in Seq(Umem(0)) /\ n = Len(q) /\ n \in Nat
    BY <1>2
  <2>2. Len(Append(q, x)) = n + 1
    BY <2>1
  <2>3. Append(q, x)[n + 1] = x /\ \A i \in 1 .. n : Append(q, x)[i] = q[i]
    BY <2>1
  <2> QED BY <2>2, <2>3
<1>5. Coming' = [i \in 1 .. n + 1 |-> content'[w[i]]]
  BY <1>3, <1>4 DEF Coming
<1>6. Len(Coming') = n + 1 /\ \A i \in 1 .. n + 1 : Coming'[i] = content'[w[i]]
  <2>1. n + 1 \in Nat
    BY <1>2
  <2> QED BY <1>5, <2>1
<1>7. n + 1 \in 1 .. n + 1 /\ \A i \in 1 .. n : i \in 1 .. n + 1
  BY <1>2
<1> QED BY <1>2, <1>4, <1>6, <1>7

\* and the card sends the first.
LEMMA ComingSent ==
  ASSUME FramesInv, Transmit
  PROVE  /\ Len(Coming) \in Nat \ {0} /\ Coming[1] = content[Head(tx)] /\ Coming[1] \in Sums
         /\ Len(Coming') = Len(Coming) - 1
         /\ \A i \in 1 .. Len(Coming) - 1 : Coming'[i] = Coming[i + 1]
<1>1. tx \in Seq(Umem(0)) /\ frags_to_be_sent \in Seq(Umem(0)) /\ tx # <<>>
  BY DEF FramesInv, TypeInv, Transmit
<1>2. tx' = Tail(tx) /\ UNCHANGED <<content, frags_to_be_sent>>
  BY DEF Transmit, batchVars
<1>3. PICK m \in Nat, k \in Nat : m = Len(tx) /\ k = Len(frags_to_be_sent) /\ m # 0
  BY <1>1
<1>4. PICK t : t \in Seq(Umem(0)) /\ t = Tail(tx) /\ Len(t) = m - 1 /\ \A i \in 1 .. m - 1 : t[i] = tx[i + 1]
  <2>1. /\ Tail(tx) \in Seq(Umem(0)) /\ Len(Tail(tx)) = m - 1
        /\ \A i \in 1 .. m - 1 : Tail(tx)[i] = tx[i + 1]
    BY <1>1, <1>3
  <2> QED BY <2>1
<1>5. PICK q : /\ q = OnWay /\ q \in Seq(Umem(0)) /\ Len(q) = m + k
               /\ \A i \in 1 .. m : q[i] = tx[i]
               /\ \A i \in 1 .. k : q[m + i] = frags_to_be_sent[i]
  <2>1. /\ tx \o frags_to_be_sent \in Seq(Umem(0)) /\ Len(tx \o frags_to_be_sent) = m + k
        /\ \A i \in 1 .. m : (tx \o frags_to_be_sent)[i] = tx[i]
        /\ \A i \in 1 .. k : (tx \o frags_to_be_sent)[m + i] = frags_to_be_sent[i]
    BY <1>1, <1>3
  <2> QED BY <2>1 DEF OnWay
<1>6. PICK w : /\ w = OnWay' /\ w \in Seq(Umem(0)) /\ Len(w) = m - 1 + k
               /\ \A i \in 1 .. m - 1 : w[i] = t[i]
               /\ \A i \in 1 .. k : w[m - 1 + i] = frags_to_be_sent[i]
  <2>1. OnWay' = t \o frags_to_be_sent
    BY <1>2, <1>4 DEF OnWay
  <2>2. /\ t \o frags_to_be_sent \in Seq(Umem(0)) /\ Len(t \o frags_to_be_sent) = m - 1 + k
        /\ \A i \in 1 .. m - 1 : (t \o frags_to_be_sent)[i] = t[i]
        /\ \A i \in 1 .. k : (t \o frags_to_be_sent)[m - 1 + i] = frags_to_be_sent[i]
    BY <1>1, <1>3, <1>4
  <2> QED BY <2>1, <2>2
<1>7. ASSUME NEW i \in 1 .. m + k - 1
      PROVE  w[i] = q[i + 1]
  <2>1. CASE i \in 1 .. m - 1
    <3>1. w[i] = tx[i + 1] /\ i + 1 \in 1 .. m
      BY <1>3, <1>4, <1>6, <2>1
    <3> QED BY <1>5, <3>1
  <2>2. CASE i \notin 1 .. m - 1
    <3>1. PICK j \in 1 .. k : i = m - 1 + j
      <4>1. i - (m - 1) \in 1 .. k /\ i = m - 1 + (i - (m - 1))
        BY <1>3, <2>2
      <4> QED BY <4>1
    <3>2. i + 1 = m + j
      BY <1>3, <3>1
    <3> QED BY <1>5, <1>6, <3>1, <3>2
  <2> QED BY <2>1, <2>2
<1>8. Len(Coming) = m + k /\ Coming \in Seq(Sums) /\ \A i \in 1 .. m + k : Coming[i] = content[q[i]]
  BY <1>5, ComingIs
<1>9. Coming' = [i \in 1 .. m - 1 + k |-> content[w[i]]]
  BY <1>2, <1>6 DEF Coming
<1>10. Len(Coming') = m - 1 + k /\ \A i \in 1 .. m - 1 + k : Coming'[i] = content[w[i]]
  <2>1. m - 1 + k \in Nat
    BY <1>3
  <2> QED BY <1>9, <2>1
<1>11. ASSUME NEW i \in 1 .. m + k - 1
       PROVE  Coming'[i] = Coming[i + 1]
  <2>1. i \in 1 .. m - 1 + k /\ i + 1 \in 1 .. m + k
    BY <1>3
  <2> QED BY <1>7, <1>8, <1>10, <2>1
<1>12. 1 \in 1 .. m + k /\ 1 \in 1 .. m /\ m + k \in Nat \ {0} /\ m - 1 + k = m + k - 1 /\ Head(tx) = tx[1]
  BY <1>1, <1>3
<1>13. Coming[1] = content[Head(tx)] /\ Coming[1] \in Sums
  BY <1>5, <1>8, <1>12
<1> QED BY <1>8, <1>10, <1>11, <1>12, <1>13

-----------------------------------------------------------------------------
(* What is collected                                                       *)

LEMMA SingleAt ==
  ASSUME NEW r \in Rus, NEW s \in Slots, NEW g \in RadioFrames, NEW q \in Rus
  PROVE  /\ Single(r, s, g)[q] = IF q = r THEN UplinkPacket(r, s, g) ELSE NULL
         /\ UplinkPacket(r, s, g) # NULL
<1>1. UplinkPacket(r, s, g) \in Packet
  BY SingleIs
<1>2. PICK p : p = UplinkPacket(r, s, g) /\ p # NULL
  BY <1>1, NullAssumption
<1>3. [EmptyRow EXCEPT ![r] = p][q] = IF q = r THEN p ELSE NULL
  BY DEF EmptyRow
<1> QED BY <1>2, <1>3 DEF Single

\* A frame that holds packets which may still reach the DU.
Held(f) ==
  \/ \E r \in Rus : InQueue(r, f)
  \/ \E s \in Slots, r \in Rus : Has(s, r) /\ f = cached_packets[s][r]
  \/ InSeq(OnWay, f)

LEMMA HeldIs ==
  ASSUME FramesInv, NEW x
  PROVE  x \in Collecting <=> \E f \in UmemFrames, r \in Rus : Held(f) /\ x = content[f][r] /\ x # NULL
<1>1. /\ tx \in Seq(UmemFrames) /\ frags_to_be_sent \in Seq(UmemFrames) /\ pkt_frags \in Seq(UmemFrames)
      /\ \A r \in Rus : rx[r] \in Seq(UmemFrames)
      /\ \A s \in Slots, r \in Rus : cached_packets[s][r] \in UmemFrames \cup {NULL}
      /\ socket_to_process \in Rus
  BY DEF FramesInv, TypeInv, TypeOK
<1>2. PICK queued : /\ queued = frags_to_be_sent \o tx \o pkt_frags /\ queued \in Seq(UmemFrames)
                    /\ \A y : InSeq(queued, y) <=> \/ InSeq(frags_to_be_sent, y) \/ InSeq(tx, y)
                                                   \/ InSeq(pkt_frags, y)
  <2>1. PICK q : q = frags_to_be_sent \o tx /\ q \in Seq(UmemFrames)
                 /\ \A y : InSeq(q, y) <=> InSeq(frags_to_be_sent, y) \/ InSeq(tx, y)
    <3>1. frags_to_be_sent \o tx \in Seq(UmemFrames)
      BY <1>1
    <3>2. \A y : InSeq(frags_to_be_sent \o tx, y) <=> InSeq(frags_to_be_sent, y) \/ InSeq(tx, y)
      BY <1>1, JoinedIn
    <3> QED BY <3>1, <3>2
  <2>2. q \o pkt_frags \in Seq(UmemFrames)
    BY <1>1, <2>1
  <2>3. \A y : InSeq(q \o pkt_frags, y) <=> InSeq(q, y) \/ InSeq(pkt_frags, y)
    BY <1>1, <2>1, JoinedIn
  <2> QED BY <2>1, <2>2, <2>3
<1>3. PICK held :
        /\ held = (UNION {{rx[r][i] : i \in DOMAIN rx[r]} : r \in Rus})
                    \cup (UNION {{cached_packets[s][r] : r \in Rus} \ {NULL} : s \in Slots})
                    \cup {queued[i] : i \in DOMAIN queued}
  OBVIOUS
<1>4. Collecting = UNION {{content[f][r] : r \in Rus} \ {NULL} : f \in held}
  BY <1>2, <1>3 DEF Collecting
<1>5. ASSUME NEW f
      PROVE  f \in held <=> f \in UmemFrames /\ Held(f)
  <2>1. f \in {queued[i] : i \in DOMAIN queued} <=> InSeq(queued, f)
    <3>1. queued \in Seq(UmemFrames)
      BY <1>2
    <3>2. DOMAIN queued = 1 .. Len(queued)
      BY <3>1
    <3> QED BY <3>2 DEF InSeq
  <2>2. f \in UNION {{rx[r][i] : i \in DOMAIN rx[r]} : r \in Rus} <=> \E r \in Rus : InSeq(rx[r], f)
    BY <1>1 DEF InSeq
  <2>3. f \in UNION {{cached_packets[s][r] : r \in Rus} \ {NULL} : s \in Slots} <=>
          \E s \in Slots, r \in Rus : Has(s, r) /\ f = cached_packets[s][r]
    BY DEF Has
  <2>4. f \in held <=> \/ \E r \in Rus : InSeq(rx[r], f)
                       \/ \E s \in Slots, r \in Rus : Has(s, r) /\ f = cached_packets[s][r]
                       \/ InSeq(queued, f)
    BY <1>3, <2>1, <2>2, <2>3
  <2>5. (\E r \in Rus : InQueue(r, f)) <=> (\E r \in Rus : InSeq(rx[r], f)) \/ InSeq(pkt_frags, f)
    BY <1>1 DEF InQueue
  <2>6. InSeq(OnWay, f) <=> InSeq(tx, f) \/ InSeq(frags_to_be_sent, f)
    BY ComingIs
  <2>7. f \in held <=> Held(f)
    BY <1>2, <2>4, <2>5, <2>6 DEF Held
  <2>8. Held(f) => f \in UmemFrames
    <3>1. \A r \in Rus : InSeq(rx[r], f) => f \in UmemFrames
      BY <1>1, ElementsIn
    <3>2. InSeq(pkt_frags, f) \/ InSeq(tx, f) \/ InSeq(frags_to_be_sent, f) => f \in UmemFrames
      BY <1>1, ElementsIn
    <3>3. \A s \in Slots, r \in Rus : Has(s, r) => cached_packets[s][r] \in UmemFrames
      BY <1>1 DEF Has
    <3> QED BY <2>5, <2>6, <3>1, <3>2, <3>3 DEF Held
  <2> QED BY <2>7, <2>8
<1> QED BY <1>4, <1>5

\* Packets that wait, are kept, or are in a sum that has not been sent.
CollectedIn(p) ==
  \/ Pending(p.ru, SlotOf(p), p.frame)
  \/ \E i \in 1 .. Len(Coming) : Coming[i][p.ru] = p
ComingAreGroups == \A i \in 1 .. Len(Coming) : \E s \in Slots : GroupOf(Coming[i], s)

LEMMA CollectingIs ==
  ASSUME FramesInv, HoldInv, ComingAreGroups
  PROVE  Collecting = {p \in Packet : CollectedIn(p)}
<1>1. PICK b : ContentInv(b)
  BY DEF HoldInv
<1>2. /\ b \in RadioFrames /\ frame \in RadioFrames /\ sent \in [Rus -> SUBSET Slots]
      /\ \A r \in Rus : Umem(r) \subseteq UmemFrames
  BY <1>1, Numbers, UmemOf DEF ContentInv, FramesInv, TypeInv
<1>3. ASSUME NEW f \in UmemFrames, Held(f), NEW r \in Rus, content[f][r] # NULL,
             NEW p, p = content[f][r]
      PROVE  p \in Packet /\ CollectedIn(p)
  <2>1. ASSUME NEW q \in Rus, InQueue(q, f)
        PROVE  p \in Packet /\ CollectedIn(p)
    <3>1. f \in Umem(q)
      <4>1. InSeq(rx[q], f) \/ (InSeq(pkt_frags, f) /\ q = socket_to_process)
        BY <2>1 DEF InQueue
      <4>2. rx[q] \in Seq(Umem(q)) /\ pkt_frags \in Seq(Umem(socket_to_process))
        BY DEF FramesInv, TypeInv
      <4> QED BY <4>1, <4>2, ElementsIn
    <3>2. PICK s \in Slots, g \in RadioFrames : content[f] = Single(q, s, g)
      <4>1. \A s \in sent[q] : s \in Slots
        BY <1>2
      <4> QED BY <1>1, <1>2, <2>1, <3>1, <4>1 DEF InQueue, ContentInv, QueuesHold
    <3>3. r = q /\ p = UplinkPacket(q, s, g)
      BY <1>3, <3>2, SingleAt
    <3>4. p \in Packet /\ p.ru = q /\ SlotOf(p) = s /\ p.frame = g
      BY <3>3, SingleIs
    <3>5. Waits(q, s, g)
      BY <2>1, <3>1, <3>2 DEF Waits
    <3> QED BY <3>4, <3>5 DEF CollectedIn, Pending
  <2>2. ASSUME NEW s \in Slots, NEW q \in Rus, Has(s, q), f = cached_packets[s][q]
        PROVE  p \in Packet /\ CollectedIn(p)
    <3>1. PICK g \in RadioFrames : Keeps(s, q, g)
      BY <1>1, <2>2 DEF ContentInv, RowsHold
    <3>2. content[f] = Single(q, s, g)
      BY <2>2, <3>1 DEF Keeps
    <3>3. r = q /\ p = UplinkPacket(q, s, g)
      BY <1>3, <3>2, SingleAt
    <3>4. p \in Packet /\ p.ru = q /\ SlotOf(p) = s /\ p.frame = g
      BY <3>3, SingleIs
    <3> QED BY <3>1, <3>4 DEF CollectedIn, Pending
  <2>3. ASSUME InSeq(OnWay, f)
        PROVE  p \in Packet /\ CollectedIn(p)
    <3>1. PICK i \in 1 .. Len(OnWay) : OnWay[i] = f
      BY <2>3 DEF InSeq
    <3>2. i \in 1 .. Len(Coming) /\ Coming[i] = content[f]
      BY <3>1, ComingIs
    <3>3. PICK s \in Slots, g \in RadioFrames : p = UplinkPacket(r, s, g)
      BY <1>3, <3>2 DEF ComingAreGroups, GroupOf
    <3>4. p \in Packet /\ p.ru = r
      BY <3>3, SingleIs
    <3> QED BY <1>3, <3>2, <3>4 DEF CollectedIn
  <2> QED BY <1>3, <2>1, <2>2, <2>3 DEF Held
<1>4. ASSUME NEW p \in Packet, CollectedIn(p)
      PROVE  \E f \in UmemFrames, r \in Rus : Held(f) /\ p = content[f][r] /\ p # NULL
  <2>1. PICK r, s, g : /\ r \in Rus /\ s \in Slots /\ g \in RadioFrames
                       /\ r = p.ru /\ s = SlotOf(p) /\ g = p.frame /\ p = UplinkPacket(r, s, g)
    BY PacketIs
  <2>2. p # NULL
    BY NullAssumption
  <2>3. Single(r, s, g)[r] = p
    BY <2>1, SingleIs
  <2>4. CASE Waits(r, s, g)
    <3>1. PICK f \in Umem(r) : InQueue(r, f) /\ content[f] = Single(r, s, g)
      BY <2>4 DEF Waits
    <3> QED BY <1>2, <2>1, <2>2, <2>3, <3>1 DEF Held
  <2>5. CASE Keeps(s, r, g)
    <3>1. PICK f : f = cached_packets[s][r] /\ f # NULL /\ content[f] = Single(r, s, g)
      BY <2>5 DEF Keeps
    <3>2. f \in UmemFrames
      BY <1>2, <2>1, <3>1 DEF FramesInv, TypeInv
    <3>3. Held(f)
      BY <2>1, <3>1 DEF Held, Has
    <3> QED BY <2>1, <2>2, <2>3, <3>1, <3>2, <3>3
  <2>6. CASE \E i \in 1 .. Len(Coming) : Coming[i][r] = p
    <3>1. PICK i \in 1 .. Len(Coming) : Coming[i][r] = p
      BY <2>6
    <3>2. PICK f : f = OnWay[i] /\ f \in Umem(0) /\ Coming[i] = content[f] /\ InSeq(OnWay, f)
      BY <3>1, ComingIs DEF InSeq
    <3> QED BY <1>2, <2>1, <2>2, <3>1, <3>2, Sockets DEF Held
  <2> QED BY <1>4, <2>1, <2>4, <2>5, <2>6 DEF CollectedIn, Pending
<1>5. \A x : x \in Collecting => x \in Packet /\ CollectedIn(x)
  BY <1>3, HeldIs
<1>6. \A x \in Packet : CollectedIn(x) => x \in Collecting
  BY <1>4, HeldIs
<1> QED BY <1>5, <1>6

-----------------------------------------------------------------------------
(* What a step does to them                                                *)

\* Most steps hand packets on, or drop some.
Shrinks == \A r \in Rus, s \in Slots, g \in RadioFrames : Pending(r, s, g)' => Pending(r, s, g)

LEMMA KeepsSame ==
  ASSUME UNCHANGED <<content, cached_packets>>
  PROVE  \A s \in Slots, r \in Rus, g \in RadioFrames : Keeps(s, r, g)' <=> Keeps(s, r, g)
BY DEF Keeps

LEMMA ShrinksSame ==
  ASSUME UNCHANGED <<content, cached_packets>>,
         \A r \in Rus, s \in Slots, g \in RadioFrames : Waits(r, s, g)' <=> Waits(r, s, g)
  PROVE  Shrinks
BY KeepsSame DEF Shrinks, Pending

LEMMA ShrinksCacheFrag ==
  ASSUME FramesInv, NEW b, ContentInv(b), CacheFrag
  PROVE  Shrinks
<1>1. PICK f \in Umem(socket_to_process), s \in Slots :
        /\ Handles(f, s)
        /\ \A q \in Rus : cached_packets'[s][q] =
             IF q = socket_to_process THEN f
             ELSE IF Occupied(s, socket_to_process) THEN NULL ELSE cached_packets[s][q]
        /\ \A t \in Slots \ {s} : cached_packets'[t] = cached_packets[t]
        /\ UNCHANGED <<content, frags_to_be_sent>>
  BY CacheFragIs
<1>2. \A q \in Rus : \A x \in Umem(q) : InQueue(q, x) /\ x # f => content'[x] = content[x]
  BY <1>1
<1>3. PICK r \in Rus : r = socket_to_process
  BY <1>1, HandledLeaves
<1>4. /\ b \in RadioFrames /\ content[f] = Single(r, s, b) /\ Waits(r, s, b)
      /\ \A q \in Rus, t \in Slots, g \in RadioFrames :
              ~(q = r /\ t = s /\ g = b) => (Waits(q, t, g)' <=> Waits(q, t, g))
  BY <1>1, <1>2, <1>3, HandledView
<1>5. ASSUME NEW q \in Rus, NEW t \in Slots, NEW g \in RadioFrames, Keeps(t, q, g)'
      PROVE  Pending(q, t, g)
  <2>1. CASE t = s /\ q = r
    <3>1. cached_packets'[t][q] = f /\ content' = content
      BY <1>1, <1>3, <2>1
    <3>2. Single(r, s, g) = Single(r, s, b)
      BY <1>4, <1>5, <2>1, <3>1 DEF Keeps
    <3>3. g = b
      BY <1>4, <3>2, SingleTells
    <3> QED BY <1>4, <2>1, <3>3 DEF Pending
  <2>2. CASE ~(t = s /\ q = r)
    <3>1. cached_packets'[t][q] # NULL /\ content'[cached_packets'[t][q]] = Single(q, t, g)
      BY <1>5 DEF Keeps
    <3>2. cached_packets'[t][q] = cached_packets[t][q] /\ content' = content
      BY <1>1, <1>3, <2>2, <3>1
    <3> QED BY <3>1, <3>2 DEF Keeps, Pending
  <2> QED BY <2>1, <2>2
<1> QED BY <1>4, <1>5 DEF Shrinks, Pending

\* What is over stays so while what is pending shrinks.
LEMMA PastStays ==
  ASSUME FramesInv, Shrinks, frame' = frame, \A r \in Rus : sent[r] \subseteq sent'[r]
  PROVE  \A r \in Rus, s \in Slots, h \in RadioFrames : Past(r, s, h) => Past(r, s, h)'
BY DEF Past, Shrinks

LEMMA SendPending ==
  ASSUME FramesInv, NEW b, ContentInv(b), NEW r \in Rus, NEW s \in Slots, Send(r, s)
  PROVE  \A q \in Rus, t \in Slots, k \in RadioFrames :
           Pending(q, t, k)' <=> Pending(q, t, k) \/ (q = r /\ t = s /\ k = frame)
<1>1. \A q \in Rus, t \in Slots, k \in RadioFrames :
        Waits(q, t, k)' <=> Waits(q, t, k) \/ (q = r /\ t = s /\ k = frame)
  BY ContentSend
<1>2. PICK f \in Umem(r) :
        /\ \A v \in Slots, u \in Rus : cached_packets[v][u] # f
        /\ \A x \in UmemFrames : content'[x] = IF x = f THEN Single(r, s, frame) ELSE content[x]
  BY SentQueues
<1>3. \A v \in Slots, u \in Rus : cached_packets[v][u] \in UmemFrames \cup {NULL}
  BY DEF FramesInv, TypeInv, TypeOK
<1>4. cached_packets' = cached_packets
  BY DEF Send, cacheVars
<1>5. \A q \in Rus, t \in Slots, k \in RadioFrames : Keeps(t, q, k)' <=> Keeps(t, q, k)
  BY <1>2, <1>3, <1>4 DEF Keeps
<1> QED BY <1>1, <1>5 DEF Pending

LEMMA PastSend ==
  ASSUME FramesInv, NEW b, ContentInv(b), NEW r \in Rus, NEW s \in Slots, Send(r, s)
  PROVE  \A q \in Rus, t \in Slots, h \in RadioFrames : Past(q, t, h) => Past(q, t, h)'
<1> SUFFICES ASSUME NEW q \in Rus, NEW t \in Slots, NEW h \in RadioFrames, Past(q, t, h)
             PROVE  Past(q, t, h)'
  OBVIOUS
<1>1. s \notin sent[r] /\ sent' = [sent EXCEPT ![r] = sent[r] \cup {s}] /\ frame' = frame
  BY DEF Send
<1>2. frame \in RadioFrames /\ sent \in [Rus -> SUBSET Slots]
  BY Numbers DEF FramesInv, TypeInv
<1>3. sent[q] \subseteq sent'[q]
  BY <1>1, <1>2
<1>4. h < frame \/ (h = frame /\ t \in sent[q])
  BY DEF Past
<1>5. ASSUME NEW k \in RadioFrames, Pending(q, t, k)'
      PROVE  h < k
  <2>1. Pending(q, t, k) \/ (q = r /\ t = s /\ k = frame)
    BY <1>5, SendPending
  <2> QED BY <1>1, <1>4, <2>1 DEF Past
<1> QED BY <1>1, <1>3, <1>4, <1>5 DEF Past

LEMMA PastNextFrame ==
  ASSUME FramesInv, NEW b, ContentInv(b), NextFrame
  PROVE  Shrinks /\ \A q \in Rus, t \in Slots, h \in RadioFrames : Past(q, t, h) => Past(q, t, h)'
<1>1. \A q \in Rus, t \in Slots, g \in RadioFrames : Waits(q, t, g)' <=> Waits(q, t, g)
  BY ContentNextFrame
<1>2. frame' = frame + 1 /\ UNCHANGED <<content, cached_packets>>
  BY DEF NextFrame, cacheVars
<1>3. Shrinks
  BY <1>1, <1>2, ShrinksSame
<1>4. frame \in Nat /\ \A h \in RadioFrames : h \in Nat
  BY Numbers DEF FramesInv, TypeInv
<1>5. ASSUME NEW q \in Rus, NEW t \in Slots, NEW h \in RadioFrames, Past(q, t, h)
      PROVE  Past(q, t, h)'
  <2>1. h < frame + 1
    BY <1>4, <1>5 DEF Past
  <2> QED BY <1>2, <1>3, <1>5, <2>1 DEF Past, Shrinks
<1> QED BY <1>3, <1>5

\* A group that is added up was pending, and is over then.
\* g holds a pending packet of every RU, and they are past when g is sent.
PendingGroup(g, s) == \A q \in Rus : \E h \in RadioFrames :
  g[q] = UplinkPacket(q, s, h) /\ Pending(q, s, h) /\ Past(q, s, h)'

LEMMA MergedPackets ==
  ASSUME FramesInv, NEW b, ContentInv(b), KeptGone,
         NEW f \in Umem(socket_to_process), NEW s \in Slots, NEW row,
         Handles(f, s), ~Has(s, socket_to_process),
         \A q \in Rus : row[q] = (IF q = socket_to_process THEN f ELSE cached_packets[s][q])
                        /\ row[q] \in Umem(q),
         content' = [content EXCEPT ![row[0]] = [q \in Rus |-> content[row[q]][q]]],
         \A q \in Rus : cached_packets'[s][q] = NULL,
         \A t \in Slots \ {s} : cached_packets'[t] = cached_packets[t]
  PROVE  /\ Shrinks
         /\ content'[row[0]] \in Sums /\ PendingGroup(content'[row[0]], s)
<1>0. PICK g : g = content'[row[0]]
  OBVIOUS
<1>1. /\ \A q \in Rus : \A x \in Umem(q) : InQueue(q, x) /\ x # f => content'[x] = content[x]
      /\ \A t \in Slots \ {s}, q \in Rus : Has(t, q) =>
              content'[cached_packets[t][q]] = content[cached_packets[t][q]]
  BY SumIsApart
<1>2. PICK r \in Rus : r = socket_to_process
  BY HandledLeaves
<1>3. /\ b \in RadioFrames /\ content[f] = Single(r, s, b) /\ Waits(r, s, b)
      /\ \A q \in Rus, t \in Slots, k \in RadioFrames :
              ~(q = r /\ t = s /\ k = b) => (Waits(q, t, k)' <=> Waits(q, t, k))
  BY <1>1, <1>2, HandledView
<1>4. ~Waits(r, s, b)'
  <2>1. ~Waits(socket_to_process, s, b)'
    BY <1>1, HandledView
  <2>2. UNCHANGED socket_to_process
    BY HandledLeaves
  <2> QED BY <1>2, <2>1, <2>2
<1>5. /\ UNCHANGED <<frame, sent>> /\ frame \in RadioFrames /\ b <= frame
      /\ \A k \in RadioFrames : k \in Nat
  BY HandledLeaves, Numbers DEF FramesInv, TypeInv, ContentInv
<1>6. \A q \in Rus, k \in RadioFrames : ~Keeps(s, q, k)'
  BY DEF Keeps
<1>7. Shrinks
  <2> SUFFICES ASSUME NEW q \in Rus, NEW t \in Slots, NEW k \in RadioFrames, Keeps(t, q, k)'
               PROVE  Keeps(t, q, k)
    BY <1>3 DEF Shrinks, Pending
  <2>1. t # s /\ cached_packets'[t] = cached_packets[t]
    BY <1>6
  <2> QED BY <1>1, <2>1 DEF Keeps, Has
<1>8. /\ g = [q \in Rus |-> content[row[q]][q]] /\ g \in Sums
  <2>1. row[0] \in UmemFrames /\ content \in [UmemFrames -> Sums]
        /\ \A q \in Rus : row[q] \in UmemFrames
    BY Sockets, UmemOf DEF FramesInv, TypeInv, TypeOK
  <2>2. g = [q \in Rus |-> content[row[q]][q]]
    BY <1>0, <2>1
  <2>3. \A q \in Rus : content[row[q]][q] \in Packet \cup {NULL}
    BY <2>1 DEF Sums
  <2> QED BY <2>2, <2>3 DEF Sums
<1>9. ASSUME NEW q \in Rus
      PROVE  \E h \in RadioFrames :
               g[q] = UplinkPacket(q, s, h) /\ Pending(q, s, h) /\ Past(q, s, h)'
  <2>1. CASE q = r
    <3>1. g[q] = UplinkPacket(q, s, b)
      BY <1>2, <1>3, <1>8, <2>1, SingleIs
    <3>2. b < frame \/ (b = frame /\ s \in sent[q])
      <4>1. b = frame => s \in sent[r]
        BY <1>3, WaitingIs
      <4> QED BY <1>3, <1>5, <2>1, <4>1
    <3>3. ASSUME NEW k \in RadioFrames, Pending(q, s, k)'
          PROVE  b < k
      <4>1. k # b /\ Waits(q, s, k)
        BY <1>3, <1>4, <1>6, <2>1, <3>3 DEF Pending
      <4>2. k = frame
        BY <4>1, WaitingIs
      <4> QED BY <1>3, <1>5, <4>1, <4>2
    <3>4. Past(q, s, b)'
      BY <1>5, <3>2, <3>3 DEF Past
    <3> QED BY <1>3, <2>1, <3>1, <3>4 DEF Pending
  <2>2. CASE q # r
    <3>1. row[q] = cached_packets[s][q] /\ Has(s, q)
      BY <1>2, <2>2, UmemOf DEF Has
    <3>2. PICK h \in RadioFrames : Keeps(s, q, h) /\ h <= b
      BY <3>1 DEF ContentInv, RowsHold
    <3>3. g[q] = Single(q, s, h)[q]
      BY <1>8, <3>1, <3>2 DEF Keeps
    <3>4. g[q] = UplinkPacket(q, s, h)
      BY <3>3, SingleIs
    <3>5. (h < frame \/ s \in sent[q]) /\ ~Waits(q, s, h)
      BY <3>2 DEF KeptGone, Gone
    <3>6. h < frame \/ (h = frame /\ s \in sent[q])
      BY <1>3, <1>5, <3>2, <3>5
    <3>7. ASSUME NEW k \in RadioFrames, Pending(q, s, k)'
          PROVE  h < k
      <4>1. Waits(q, s, k)
        BY <1>3, <1>6, <2>2, <3>7 DEF Pending
      <4>2. k # h /\ k \in {frame, b}
        BY <3>5, <4>1, WaitingIs
      <4> QED BY <1>3, <1>5, <3>2, <4>2
    <3>8. Past(q, s, h)'
      BY <1>5, <3>6, <3>7 DEF Past
    <3> QED BY <3>2, <3>4, <3>8 DEF Pending
  <2> QED BY <2>1, <2>2
<1>10. PendingGroup(g, s)
  BY <1>9 DEF PendingGroup
<1> QED BY <1>0, <1>7, <1>8, <1>10

-----------------------------------------------------------------------------
(* Groups of a slot come in the order of their packets                     *)

LEMMA OverGroup ==
  ASSUME NEW g, NEW s \in Slots, Over(g, s)
  PROVE  GroupOf(g, s)
BY DEF Over, GroupOf

LEMMA GroupSlot ==
  ASSUME NEW g, NEW s \in Slots, NEW t \in Slots, GroupOf(g, s), GroupOf(g, t)
  PROVE  s = t
<1>1. PICK h \in RadioFrames, k \in RadioFrames : g[0] = UplinkPacket(0, s, h) /\ g[0] = UplinkPacket(0, t, k)
  BY Sockets DEF GroupOf
<1>2. SlotOf(g[0]) = s /\ SlotOf(g[0]) = t
  BY <1>1, Sockets, SingleIs
<1> QED BY <1>2

PastKept == \A r \in Rus, s \in Slots, h \in RadioFrames : Past(r, s, h) => Past(r, s, h)'

LEMMA OverStays ==
  ASSUME PastKept, NEW g, NEW s \in Slots, Over(g, s)
  PROVE  Over(g, s)'
<1> SUFFICES ASSUME NEW r \in Rus
             PROVE  \E h \in RadioFrames : g[r] = UplinkPacket(r, s, h) /\ Past(r, s, h)'
  BY DEF Over, UplinkPacket
<1>1. PICK h \in RadioFrames : g[r] = UplinkPacket(r, s, h) /\ Past(r, s, h)
  BY DEF Over
<1> QED BY <1>1 DEF PastKept

\* A group of packets that were pending is later than one that was over.
LEMMA BeforeNew ==
  ASSUME NEW g, NEW s \in Slots, NEW w, NEW t \in Slots, Over(w, t),
         PendingGroup(g, s)
  PROVE  Before(w, g)
<1> SUFFICES ASSUME NEW u \in Slots, GroupOf(w, u), GroupOf(g, u), NEW r \in Rus
             PROVE  w[r].frame < g[r].frame
  BY DEF Before
<1>1. GroupOf(g, s) /\ GroupOf(w, t)
  BY OverGroup DEF GroupOf, PendingGroup
<1>2. s = u /\ t = u
  BY <1>1, GroupSlot
<1>3. PICK h \in RadioFrames : g[r] = UplinkPacket(r, s, h) /\ Pending(r, s, h)
  BY DEF PendingGroup
<1>4. PICK k \in RadioFrames : w[r] = UplinkPacket(r, t, k) /\ Past(r, t, k)
  BY DEF Over
<1>5. k < h
  BY <1>2, <1>3, <1>4 DEF Past
<1>6. g[r].frame = h /\ w[r].frame = k
  BY <1>3, <1>4, SingleIs
<1> QED BY <1>5, <1>6

LEMMA OrderSame ==
  ASSUME FramesInv, OrderInv, PastKept, Coming' = Coming, to_du' = to_du
  PROVE  OrderInv'
<1>1. PICK come, du : come = Coming /\ come = Coming' /\ du = to_du /\ du = to_du'
  OBVIOUS
<1>2. ASSUME NEW i \in 1 .. Len(come)
      PROVE  \E s \in Slots : Over(come[i], s)'
  <2>1. PICK g : g = come[i]
    OBVIOUS
  <2>2. PICK s \in Slots : Over(g, s)
    BY <1>1, <2>1 DEF OrderInv
  <2>3. Over(g, s)'
    BY <2>2, OverStays
  <2> QED BY <2>1, <2>3
<1>3. ASSUME NEW port \in Ports, NEW i \in 1 .. Len(du[port])
      PROVE  \E key \in Keys : Over(du[port][i], <<port, key>>)'
  <2>1. PICK g : g = du[port][i]
    OBVIOUS
  <2>2. PICK key \in Keys : Over(g, <<port, key>>)
    BY <1>1, <2>1 DEF OrderInv
  <2>3. PICK s \in Slots : s = <<port, key>>
    BY DEF Slots
  <2>4. Over(g, s)'
    BY <2>2, <2>3, OverStays
  <2> QED BY <2>1, <2>3, <2>4
<1>4. \A i, j \in 1 .. Len(come) : i < j => Before(come[i], come[j])
  BY <1>1 DEF OrderInv
<1>5. \A port \in Ports : \A i \in 1 .. Len(du[port]) : \A j \in 1 .. Len(come) :
        Before(du[port][i], come[j])
  BY <1>1 DEF OrderInv
<1> QED BY <1>1, <1>2, <1>3, <1>4, <1>5 DEF OrderInv

\* A group joins the sums.
LEMMA MergedView ==
  ASSUME FramesInv, NEW b, ContentInv(b), KeptGone, MergeGroup
  PROVE  /\ Shrinks /\ UNCHANGED <<frame, sent, lost, to_du>>
         /\ \E g \in Sums, s \in Slots :
              /\ Len(Coming') = Len(Coming) + 1
              /\ \A i \in 1 .. Len(Coming) : Coming'[i] = Coming[i]
              /\ Coming'[Len(Coming) + 1] = g
              /\ PendingGroup(g, s)
<1>1. PICK f \in Umem(socket_to_process), s \in Slots : \E row :
               /\ Handles(f, s) /\ ~Has(s, socket_to_process)
               /\ \A q \in Rus : row[q] = (IF q = socket_to_process THEN f ELSE cached_packets[s][q])
                                 /\ row[q] \in Umem(q)
               /\ content' = [content EXCEPT ![row[0]] = [q \in Rus |-> content[row[q]][q]]]
               /\ \A q \in Rus : cached_packets'[s][q] = NULL
               /\ \A t \in Slots \ {s} : cached_packets'[t] = cached_packets[t]
               /\ frags_to_be_sent' = Append(frags_to_be_sent, row[0])
  BY MergeGroupIs
<1>2. PICK row :
               /\ Handles(f, s) /\ ~Has(s, socket_to_process)
               /\ \A q \in Rus : row[q] = (IF q = socket_to_process THEN f ELSE cached_packets[s][q])
                                 /\ row[q] \in Umem(q)
               /\ content' = [content EXCEPT ![row[0]] = [q \in Rus |-> content[row[q]][q]]]
               /\ \A q \in Rus : cached_packets'[s][q] = NULL
               /\ \A t \in Slots \ {s} : cached_packets'[t] = cached_packets[t]
               /\ frags_to_be_sent' = Append(frags_to_be_sent, row[0])
  BY <1>1
<1>3. Shrinks /\ content'[row[0]] \in Sums /\ PendingGroup(content'[row[0]], s)
  BY <1>2, MergedPackets
<1>4. PICK g \in Sums : g = content'[row[0]] /\ PendingGroup(g, s)
  BY <1>3
<1>5. /\ UNCHANGED <<tx, frame, sent, lost, to_du>> /\ InSeq(pkt_frags, f)
      /\ socket_to_process \in Rus /\ 0 \in Rus
  BY <1>2, HandledLeaves, Sockets
<1>6. PICK new : new = row[0] /\ new \in Umem(0) /\ new \in UmemFrames /\ new # NULL
  BY <1>2, <1>5, UmemOf
<1>7. ~InSeq(frags_to_be_sent, new) /\ ~InSeq(tx, new)
  <2>1. PICK w \in [UmemFrames -> Places] : PlacedBy(w)
    BY DEF FramesInv, PlacesInv
  <2>2. w[new] \in {"batch", "cache"}
    <3>1. CASE socket_to_process = 0
      <4>1. new = f
        BY <1>2, <1>5, <1>6, <3>1
      <4> QED BY <1>5, <1>6, <2>1, <4>1, PlaceOf
    <3>2. CASE socket_to_process # 0
      <4>1. new = cached_packets[s][0] /\ cached_packets[s][0] # NULL
        BY <1>2, <1>5, <1>6, <3>2
      <4> QED BY <1>5, <2>1, <4>1, PlaceOf
    <3> QED BY <3>1, <3>2
  <2> QED BY <1>6, <2>1, <2>2 DEF PlacedBy
<1>8. \A x \in Umem(0) : x # new => content'[x] = content[x]
  <2>1. content \in [UmemFrames -> Sums] /\ \A x \in Umem(0) : x \in UmemFrames
    BY <1>5, UmemOf DEF FramesInv, TypeInv, TypeOK
  <2> QED BY <1>2, <1>6, <2>1
<1>9. frags_to_be_sent' = Append(frags_to_be_sent, new) /\ tx' = tx
  BY <1>2, <1>5, <1>6
<1>10. /\ Len(Coming') = Len(Coming) + 1
       /\ \A i \in 1 .. Len(Coming) : Coming'[i] = Coming[i]
       /\ Coming'[Len(Coming) + 1] = content'[new]
  BY <1>6, <1>7, <1>8, <1>9, ComingMerged
<1> QED BY <1>3, <1>4, <1>5, <1>6, <1>10

LEMMA OrderMerged ==
  ASSUME FramesInv, NEW b, ContentInv(b), KeptGone, OrderInv, MergeGroup
  PROVE  OrderInv'
<1>1. /\ Shrinks /\ UNCHANGED <<frame, sent, to_du>>
      /\ \E g \in Sums, s \in Slots :
              /\ Len(Coming') = Len(Coming) + 1
              /\ \A i \in 1 .. Len(Coming) : Coming'[i] = Coming[i]
              /\ Coming'[Len(Coming) + 1] = g
              /\ PendingGroup(g, s)
  BY MergedView
<1>2. PICK g \in Sums, s \in Slots :
              /\ Len(Coming') = Len(Coming) + 1
              /\ \A i \in 1 .. Len(Coming) : Coming'[i] = Coming[i]
              /\ Coming'[Len(Coming) + 1] = g
              /\ PendingGroup(g, s)
  BY <1>1
<1>3. PastKept
  BY <1>1, PastStays DEF PastKept
<1>4. PICK n \in Nat : n = Len(Coming)
  BY ComingIs
<1>5. PICK come : /\ come = Coming' /\ Len(come) = n + 1 /\ come[n + 1] = g
                  /\ \A i \in 1 .. n : come[i] = Coming[i]
  BY <1>2, <1>4
<1>6. \A i \in 1 .. n + 1 : i \in 1 .. n \/ i = n + 1
  BY <1>4
<1>7. Over(g, s)'
  <2> SUFFICES ASSUME NEW q \in Rus
               PROVE  \E h \in RadioFrames : g[q] = UplinkPacket(q, s, h) /\ Past(q, s, h)'
    BY DEF Over, UplinkPacket
  <2> QED BY <1>2 DEF PendingGroup
<1>8. ASSUME NEW i \in 1 .. n
      PROVE  (\E t \in Slots : Over(come[i], t)') /\ Before(come[i], g)
  <2>1. PICK w : w = come[i] /\ w = Coming[i]
    BY <1>5
  <2>2. PICK t \in Slots : Over(w, t)
    BY <1>4, <2>1 DEF OrderInv
  <2>3. Over(w, t)'
    BY <1>3, <2>2, OverStays
  <2>4. Before(w, g)
    BY <1>2, <2>2, BeforeNew
  <2> QED BY <2>1, <2>3, <2>4
<1>9. \A i \in 1 .. n + 1 : \E t \in Slots : Over(come[i], t)'
  BY <1>5, <1>6, <1>7, <1>8
<1>10. ASSUME NEW i \in 1 .. n + 1, NEW j \in 1 .. n + 1, i < j
       PROVE  Before(come[i], come[j])
  <2>1. i \in 1 .. n
    BY <1>4, <1>10
  <2>2. CASE j = n + 1
    BY <1>5, <1>8, <2>1, <2>2
  <2>3. CASE j \in 1 .. n
    BY <1>4, <1>5, <1>10, <2>1, <2>3 DEF OrderInv
  <2> QED BY <1>6, <2>2, <2>3
<1>11. PICK du : du = to_du /\ du = to_du'
  BY <1>1
<1>12. ASSUME NEW port \in Ports, NEW i \in 1 .. Len(du[port])
       PROVE  /\ \E key \in Keys : Over(du[port][i], <<port, key>>)'
              /\ \A j \in 1 .. n + 1 : Before(du[port][i], come[j])
  <2>1. PICK w : w = du[port][i]
    OBVIOUS
  <2>2. PICK key \in Keys : Over(w, <<port, key>>)
    BY <1>11, <2>1 DEF OrderInv
  <2>3. PICK t \in Slots : t = <<port, key>>
    BY DEF Slots
  <2>4. Over(w, t)'
    BY <1>3, <2>2, <2>3, OverStays
  <2>5. Before(w, g)
    BY <1>2, <2>2, <2>3, BeforeNew
  <2>6. \A j \in 1 .. n : Before(w, come[j])
    BY <1>4, <1>5, <1>11, <2>1 DEF OrderInv
  <2> QED BY <1>5, <1>6, <2>1, <2>3, <2>4, <2>5, <2>6
<1> QED BY <1>5, <1>9, <1>10, <1>11, <1>12 DEF OrderInv


\* The first sum is transmitted: a group of one slot, later than what was
\* transmitted before and earlier than what is to come.
LEMMA TransmitView ==
  ASSUME FramesInv, OrderInv, Transmit
  PROVE  \E g \in Sums, s \in Slots :
           /\ Over(g, s) /\ s = <<s[1], s[2]>> /\ s[1] \in Ports /\ s[2] \in Keys
           /\ to_du' = [to_du EXCEPT ![s[1]] = Append(@, g)]
           /\ g = Coming[1] /\ Len(Coming) \in Nat \ {0} /\ Len(Coming') = Len(Coming) - 1
           /\ \A i \in 1 .. Len(Coming) - 1 : Coming'[i] = Coming[i + 1]
<1>1. /\ Len(Coming) \in Nat \ {0} /\ Coming[1] = content[Head(tx)] /\ Coming[1] \in Sums
      /\ Len(Coming') = Len(Coming) - 1
      /\ \A i \in 1 .. Len(Coming) - 1 : Coming'[i] = Coming[i + 1]
  BY ComingSent
<1>2. PICK g \in Sums : g = Coming[1]
  BY <1>1
<1>3. PICK s \in Slots : Over(g, s)
  <2>1. 1 \in 1 .. Len(Coming)
    BY <1>1
  <2> QED BY <1>2, <2>1 DEF OrderInv
<1>4. s = <<s[1], s[2]>> /\ s[1] \in Ports /\ s[2] \in Keys
  BY DEF Slots
<1>5. g[0].port = s[1]
  <2>1. PICK h \in RadioFrames : g[0] = UplinkPacket(0, s, h)
    BY <1>3, Sockets DEF Over
  <2> QED BY <2>1 DEF UplinkPacket
<1>6. to_du' = [to_du EXCEPT ![s[1]] = Append(@, g)]
  BY <1>1, <1>2, <1>5 DEF Transmit
<1> QED BY <1>1, <1>2, <1>3, <1>4, <1>6

\* Nothing pending changes when a sum is transmitted.
LEMMA TransmitPending ==
  ASSUME FramesInv, Transmit
  PROVE  /\ UNCHANGED <<frame, sent, lost>> /\ PastKept
         /\ \A r \in Rus, s \in Slots, k \in RadioFrames : Pending(r, s, k)' <=> Pending(r, s, k)
<1>1. UNCHANGED <<rx, content, pkt_frags, socket_to_process, cached_packets, frame, sent, lost>>
  BY DEF Transmit, batchVars, cacheVars, envVars
<1>2. \A r \in Rus, s \in Slots, k \in RadioFrames :
        (Waits(r, s, k)' <=> Waits(r, s, k)) /\ (Keeps(s, r, k)' <=> Keeps(s, r, k))
  BY <1>1, KeepsSame DEF Waits, InQueue
<1>3. \A r \in Rus, s \in Slots, k \in RadioFrames : Pending(r, s, k)' <=> Pending(r, s, k)
  BY <1>2 DEF Pending
<1>4. Shrinks
  BY <1>3 DEF Shrinks
<1> QED BY <1>1, <1>3, <1>4, PastStays DEF PastKept

LEMMA OrderTransmit ==
  ASSUME FramesInv, OrderInv, Transmit
  PROVE  OrderInv'
<1>1. PICK g \in Sums, s \in Slots :
           /\ Over(g, s) /\ s = <<s[1], s[2]>> /\ s[1] \in Ports /\ s[2] \in Keys
           /\ to_du' = [to_du EXCEPT ![s[1]] = Append(@, g)]
           /\ g = Coming[1] /\ Len(Coming) \in Nat \ {0} /\ Len(Coming') = Len(Coming) - 1
           /\ \A i \in 1 .. Len(Coming) - 1 : Coming'[i] = Coming[i + 1]
  BY TransmitView
<1>2. PastKept
  BY TransmitPending
<1>3. PICK come, next, n :
        /\ n \in Nat /\ Len(come) = n + 1 /\ Len(next) = n /\ g = come[1]
        /\ come = Coming /\ next = Coming' /\ \A i \in 1 .. n : next[i] = come[i + 1]
  <2>1. Len(Coming) - 1 \in Nat /\ Len(Coming) = Len(Coming) - 1 + 1
    BY <1>1
  <2> QED BY <1>1, <2>1
<1>4. /\ 1 \in 1 .. n + 1
      /\ \A i \in 1 .. n : i + 1 \in 1 .. n + 1 /\ 1 < i + 1
      /\ \A i, j \in 1 .. n : i < j => i + 1 < j + 1
  BY <1>3
<1>5. PICK du, due : /\ du = to_du /\ due = to_du' /\ due = [du EXCEPT ![s[1]] = Append(@, g)]
                     /\ du \in [Ports -> Seq(Sums)]
  <2>1. to_du \in [Ports -> Seq(Sums)]
    BY DEF FramesInv, TypeInv, TypeOK
  <2> QED BY <1>1, <2>1
<1>6. ASSUME NEW i \in 1 .. n
      PROVE  \E t \in Slots : Over(next[i], t)'
  <2>1. PICK w : w = next[i] /\ w = come[i + 1]
    BY <1>3
  <2>2. PICK t \in Slots : Over(w, t)
    BY <1>3, <1>4, <2>1 DEF OrderInv
  <2>3. Over(w, t)'
    BY <1>2, <2>2, OverStays
  <2> QED BY <2>1, <2>3
<1>7. ASSUME NEW i \in 1 .. n, NEW j \in 1 .. n, i < j
      PROVE  Before(next[i], next[j])
  <2>1. Before(come[i + 1], come[j + 1])
    BY <1>3, <1>4, <1>7 DEF OrderInv
  <2> QED BY <1>3, <2>1
<1>8. \A j \in 1 .. n : Before(g, next[j])
  BY <1>3, <1>4 DEF OrderInv
<1>9. ASSUME NEW port \in Ports, NEW i \in 1 .. Len(due[port])
      PROVE  /\ \E key \in Keys : Over(due[port][i], <<port, key>>)'
             /\ \A j \in 1 .. n : Before(due[port][i], next[j])
  <2>1. PICK w : w = due[port][i]
    OBVIOUS
  <2>2. (w = g /\ port = s[1]) \/ \E k \in 1 .. Len(du[port]) : w = du[port][k]
    <3>1. du[port] \in Seq(Sums)
      BY <1>5
    <3>2. CASE port = s[1]
      <4>1. due[port] = Append(du[port], g)
        BY <1>5, <3>2
      <4> QED BY <2>1, <3>1, <3>2, <4>1
    <3>3. CASE port # s[1]
      BY <1>5, <2>1, <3>3
    <3> QED BY <3>2, <3>3
  <2>3. CASE w = g /\ port = s[1]
    <3>1. Over(g, s)'
      BY <1>1, <1>2, OverStays
    <3> QED BY <1>1, <1>8, <2>1, <2>3, <3>1
  <2>4. CASE \E k \in 1 .. Len(du[port]) : w = du[port][k]
    <3>1. PICK k \in 1 .. Len(du[port]) : w = du[port][k]
      BY <2>4
    <3>2. PICK key \in Keys : Over(w, <<port, key>>)
      BY <1>5, <3>1 DEF OrderInv
    <3>3. PICK t \in Slots : t = <<port, key>>
      BY DEF Slots
    <3>4. Over(w, t)'
      BY <1>2, <3>2, <3>3, OverStays
    <3>5. \A j \in 1 .. n : Before(w, next[j])
      BY <1>3, <1>4, <1>5, <3>1 DEF OrderInv
    <3> QED BY <2>1, <3>3, <3>4, <3>5
  <2> QED BY <2>2, <2>3, <2>4
<1> QED BY <1>3, <1>5, <1>6, <1>7, <1>9 DEF OrderInv


-----------------------------------------------------------------------------
(* Steps that only drop packets, and the steps of the other kinds          *)

Drops ==
  /\ Shrinks /\ PastKept
  /\ Coming' = Coming /\ to_du' = to_du /\ Arrived' = Arrived

LEMMA ArrivedSame ==
  ASSUME UNCHANGED <<frame, sent, lost>>
  PROVE  Arrived' = Arrived
BY DEF Arrived, SlotOf

LEMMA ArrivedLose ==
  ASSUME FramesInv, NEW r \in Rus, NEW s \in Slots, Lose(r, s)
  PROVE  Arrived' = Arrived
<1>1. frame \in RadioFrames /\ frame \in Nat /\ sent \in [Rus -> SUBSET Slots]
  BY Numbers DEF FramesInv, TypeInv
<1>2. PICK p : p = UplinkPacket(r, s, frame) /\ p.ru = r /\ SlotOf(p) = s /\ p.frame = frame
  BY <1>1, SingleIs
<1>3. \A x \in Packet : x.ru = r /\ SlotOf(x) = s /\ x.frame = frame => x = p
  BY <1>2, PacketIs
<1>4. s \notin sent[r] /\ frame' = frame /\ lost' = lost \cup {p}
      /\ \A q \in Rus, t \in Slots : t \in sent'[q] <=> t \in sent[q] \/ (q = r /\ t = s)
  BY <1>1, <1>2 DEF Lose
<1>5. ASSUME NEW x
      PROVE  x \in Arrived' <=> x \in Arrived
  <2>1. x \in Packet => x.ru \in Rus /\ SlotOf(x) \in Slots /\ SlotOf(x)' = SlotOf(x)
    BY PacketIs DEF SlotOf
  <2>2. x \in Arrived' <=> /\ x \in Packet /\ x \notin lost'
                           /\ x.frame < frame \/ (x.frame = frame /\ SlotOf(x) \in sent'[x.ru])
    BY <1>4, <2>1 DEF Arrived
  <2>3. x \in Arrived <=> /\ x \in Packet /\ x \notin lost
                          /\ x.frame < frame \/ (x.frame = frame /\ SlotOf(x) \in sent[x.ru])
    BY DEF Arrived
  <2>4. x = p => x \notin Arrived
    BY <1>1, <1>2, <1>4, <2>3
  <2> QED BY <1>2, <1>3, <1>4, <2>1, <2>2, <2>3, <2>4
<1> QED BY <1>5

LEMMA ArrivedNextFrame ==
  ASSUME FramesInv, NextFrame
  PROVE  Arrived' = Arrived
<1>1. frame \in RadioFrames /\ frame \in Nat /\ \A k \in RadioFrames : k \in Nat
  BY Numbers DEF FramesInv, TypeInv
<1>2. /\ frame' = frame + 1 /\ lost' = lost
      /\ \A q \in Rus : sent[q] = Slots /\ sent'[q] = {}
  BY DEF NextFrame
<1>3. ASSUME NEW x
      PROVE  x \in Arrived' <=> x \in Arrived
  <2>1. x \in Packet => /\ x.ru \in Rus /\ SlotOf(x) \in Slots /\ SlotOf(x)' = SlotOf(x)
                        /\ x.frame \in Nat
    BY <1>1, PacketIs DEF SlotOf
  <2>2. x \in Arrived' <=> x \in Packet /\ x \notin lost /\ x.frame < frame + 1
    BY <1>2, <2>1 DEF Arrived
  <2>3. x \in Arrived <=> x \in Packet /\ x \notin lost /\ (x.frame < frame \/ x.frame = frame)
    BY <1>2, <2>1 DEF Arrived
  <2> QED BY <1>1, <2>1, <2>2, <2>3
<1> QED BY <1>3

LEMMA StepIs ==
  ASSUME FramesInv, FramesInv', NEW b, ContentInv(b), [Next]_vars
  PROVE  \/ Drops \/ MergeGroup \/ Transmit
         \/ \E r \in Rus, s \in Slots : Send(r, s)
<1>1. ASSUME Shrinks, UNCHANGED <<frame, sent, lost, to_du>>, Coming' = Coming
      PROVE  Drops
  <2>1. PastKept
    BY <1>1, PastStays DEF PastKept
  <2> QED BY <1>1, <2>1, ArrivedSame DEF Drops
<1>2. ASSUME ContentSame, to_du' = to_du, Coming' = Coming
      PROVE  Drops
  <2>1. \A r \in Rus, s \in Slots, g \in RadioFrames : Waits(r, s, g)' <=> Waits(r, s, g)
    BY <1>2, WaitsSame DEF ContentSame
  <2>2. Shrinks
    BY <1>2, <2>1, ShrinksSame DEF ContentSame
  <2> QED BY <1>1, <1>2, <2>2 DEF ContentSame
<1>3. ASSUME NEW i \in Rus, RxPackets(i) PROVE Drops
  <2>1. UNCHANGED <<tx, content, cached_packets, frags_to_be_sent, frame, sent, lost, to_du>>
    BY <1>3, TakenQueues
  <2>2. \A r \in Rus, s \in Slots, g \in RadioFrames : Waits(r, s, g)' <=> Waits(r, s, g)
    BY <1>3, ContentRxPackets
  <2>3. Shrinks
    BY <2>1, <2>2, ShrinksSame
  <2> QED BY <1>1, <2>1, <2>3, ComingSame
<1>4. CASE CacheFrag
  <2>1. UNCHANGED <<tx, content, frags_to_be_sent, frame, sent, lost, to_du>>
    BY <1>4, CacheFragIs, HandledLeaves
  <2>2. Shrinks
    BY <1>4, ShrinksCacheFrag
  <2> QED BY <1>1, <2>1, <2>2, ComingSame
<1>5. CASE ReturnFrames
  <2>1. ContentSame /\ UNCHANGED <<tx, frags_to_be_sent, to_du>>
    BY <1>5 DEF ReturnFrames, ContentSame, cacheVars, envVars
  <2> QED BY <1>2, <2>1, ComingSame DEF ContentSame
<1>6. CASE QueueSums
  <2>1. ContentSame /\ to_du' = to_du
    BY <1>6 DEF QueueSums, ContentSame, cacheVars, envVars
  <2> QED BY <1>2, <1>6, <2>1, ComingQueued
<1>7. CASE CollectCompleted
  <2>1. ContentSame /\ UNCHANGED <<tx, frags_to_be_sent, to_du>>
    BY <1>7 DEF CollectCompleted, ContentSame, cacheVars, envVars
  <2> QED BY <1>2, <2>1, ComingSame DEF ContentSame
<1>8. ASSUME NEW r \in Rus, NEW s \in Slots, Lose(r, s) PROVE Drops
  <2>1. UNCHANGED <<tx, content, cached_packets, frags_to_be_sent, frame, to_du>>
    BY <1>8 DEF Lose, rings, batchVars, cacheVars
  <2>2. \A q \in Rus, t \in Slots, g \in RadioFrames : Waits(q, t, g)' <=> Waits(q, t, g)
    BY <1>8, ContentLose
  <2>3. Shrinks
    BY <2>1, <2>2, ShrinksSame
  <2>4. \A q \in Rus : sent[q] \subseteq sent'[q]
    <3>1. sent \in [Rus -> SUBSET Slots]
      BY DEF FramesInv, TypeInv, TypeOK
    <3> QED BY <1>8, <3>1 DEF Lose
  <2>5. PastKept
    BY <2>1, <2>3, <2>4, PastStays DEF PastKept
  <2> QED BY <1>8, <2>1, <2>3, <2>5, ComingSame, ArrivedLose DEF Drops
<1>9. CASE NextFrame
  <2>1. UNCHANGED <<tx, content, frags_to_be_sent, to_du>>
    BY <1>9 DEF NextFrame, rings, batchVars
  <2>2. Shrinks /\ PastKept
    BY <1>9, PastNextFrame DEF PastKept
  <2> QED BY <1>9, <2>1, <2>2, ComingSame, ArrivedNextFrame DEF Drops
<1>10. CASE UNCHANGED vars
  <2>1. ContentSame /\ UNCHANGED <<tx, frags_to_be_sent, to_du>>
    BY <1>10 DEF vars, ContentSame, rings, batchVars, cacheVars, envVars
  <2> QED BY <1>2, <2>1, ComingSame DEF ContentSame
<1> QED BY <1>3, <1>4, <1>5, <1>6, <1>7, <1>8, <1>9, <1>10 DEF Next, Thread, Idle

\* A packet that is sent waits from then on.
LEMMA SendView ==
  ASSUME FramesInv, FramesInv', NEW b, ContentInv(b), NEW r \in Rus, NEW s \in Slots, Send(r, s)
  PROVE  /\ PastKept /\ Coming' = Coming /\ to_du' = to_du
         /\ \E p \in Packet :
              /\ p = UplinkPacket(r, s, frame) /\ p.ru = r /\ SlotOf(p) = s /\ p.frame = frame
              /\ p \notin Arrived /\ Arrived' = Arrived \cup {p}
<1>1. frame \in RadioFrames /\ frame \in Nat /\ sent \in [Rus -> SUBSET Slots]
  BY Numbers DEF FramesInv, TypeInv
<1>2. PICK p \in Packet : p = UplinkPacket(r, s, frame) /\ p.ru = r /\ SlotOf(p) = s /\ p.frame = frame
  BY <1>1, SingleIs
<1>3. \A x \in Packet : x.ru = r /\ SlotOf(x) = s /\ x.frame = frame => x = p
  BY <1>2, PacketIs
<1>4. s \notin sent[r] /\ frame' = frame /\ lost' = lost
      /\ \A q \in Rus, t \in Slots : t \in sent'[q] <=> t \in sent[q] \/ (q = r /\ t = s)
  BY <1>1, <1>2 DEF Send
<1>5. p \notin lost
  BY <1>2, <1>4 DEF ContentInv, LostSent
<1>6. p \notin Arrived
  BY <1>1, <1>2, <1>4 DEF Arrived
<1>7. ASSUME NEW x
      PROVE  x \in Arrived' <=> x \in Arrived \/ x = p
  <2>1. x \in Packet => x.ru \in Rus /\ SlotOf(x) \in Slots /\ SlotOf(x)' = SlotOf(x)
    BY PacketIs DEF SlotOf
  <2>2. x \in Arrived' <=> /\ x \in Packet /\ x \notin lost
                           /\ x.frame < frame \/ (x.frame = frame /\ SlotOf(x) \in sent'[x.ru])
    BY <1>4, <2>1 DEF Arrived
  <2>3. x \in Arrived <=> /\ x \in Packet /\ x \notin lost
                          /\ x.frame < frame \/ (x.frame = frame /\ SlotOf(x) \in sent[x.ru])
    BY DEF Arrived
  <2> QED BY <1>2, <1>3, <1>4, <1>5, <2>1, <2>2, <2>3
<1>8. UNCHANGED <<tx, frags_to_be_sent, to_du>>
  BY DEF Send, batchVars
<1>9. Coming' = Coming
  <2>1. PICK f \in Umem(r) :
          /\ ~InSeq(tx, f) /\ ~InSeq(frags_to_be_sent, f)
          /\ \A x \in UmemFrames : content'[x] = IF x = f THEN Single(r, s, frame) ELSE content[x]
    BY SentQueues
  <2>2. \A x \in Umem(0) : x \in UmemFrames
    BY UmemOf, Sockets
  <2>3. OnWay' = OnWay
    BY <1>8 DEF OnWay
  <2> QED BY <2>1, <2>2, <2>3, ComingStays
<1>10. PastKept
  BY PastSend DEF PastKept
<1>11. Arrived' = Arrived \cup {p}
  BY <1>7
<1> QED BY <1>2, <1>6, <1>8, <1>9, <1>10, <1>11

LEMMA OrderNext ==
  ASSUME FramesInv, FramesInv', NEW b, ContentInv(b), KeptGone, OrderInv, [Next]_vars
  PROVE  OrderInv'
<1>1. CASE Drops
  BY <1>1, OrderSame DEF Drops
<1>2. CASE MergeGroup
  BY <1>2, OrderMerged
<1>3. CASE Transmit
  BY <1>3, OrderTransmit
<1>4. ASSUME NEW r \in Rus, NEW s \in Slots, Send(r, s) PROVE OrderInv'
  BY <1>4, SendView, OrderSame
<1> QED BY <1>1, <1>2, <1>3, <1>4, StepIs

LEMMA OrderInit == Init => OrderInv
<1> SUFFICES ASSUME Init PROVE OrderInv
  OBVIOUS
<1>1. tx = <<>> /\ frags_to_be_sent = <<>> /\ to_du = [p \in Ports |-> <<>>]
  BY DEF Init
<1>2. OnWay = <<>> /\ Len(OnWay) = 0
  BY <1>1 DEF OnWay
<1>3. Coming = [i \in 1 .. 0 |-> content[OnWay[i]]] /\ 0 \in Nat
  BY <1>2 DEF Coming
<1>4. Len(Coming) = 0
  BY <1>3
<1>5. \A port \in Ports : Len(to_du[port]) = 0
  BY <1>1
<1> QED BY <1>4, <1>5 DEF OrderInv


-----------------------------------------------------------------------------
(* Every step is one of the abstract merger, or none                       *)

LEMMA CollectingNow ==
  FramesInv /\ HoldInv /\ OrderInv => Collecting = {p \in Packet : CollectedIn(p)}
<1> SUFFICES ASSUME FramesInv, HoldInv, OrderInv
             PROVE  Collecting = {p \in Packet : CollectedIn(p)}
  OBVIOUS
<1>1. ASSUME NEW i \in 1 .. Len(Coming)
      PROVE  \E s \in Slots : GroupOf(Coming[i], s)
  <2>1. PICK g : g = Coming[i]
    OBVIOUS
  <2>2. PICK s \in Slots : Over(g, s)
    BY <2>1 DEF OrderInv
  <2> QED BY <2>1, <2>2, OverGroup
<1> QED BY <1>1, CollectingIs DEF ComingAreGroups

LEMMA CollectingNext ==
  FramesInv' /\ HoldInv' /\ OrderInv' => Collecting' = {p \in Packet : CollectedIn(p)'}
<1>1. (FramesInv /\ HoldInv /\ OrderInv => Collecting = {p \in Packet : CollectedIn(p)})'
  BY CollectingNow, PTL
<1> QED BY <1>1

\* What a step that only drops packets leaves was there before,
LEMMA DropsRefines ==
  ASSUME FramesInv, FramesInv', HoldInv, HoldInv', OrderInv, OrderInv', Drops
  PROVE  Collecting' \subseteq Collecting
<1>1. PICK come : come = Coming /\ come = Coming'
  BY DEF Drops
<1>2. ASSUME NEW p \in Packet, CollectedIn(p)'
      PROVE  CollectedIn(p)
  <2>1. PICK r \in Rus, s \in Slots, k \in RadioFrames : r = p.ru /\ s = SlotOf(p) /\ k = p.frame
    BY PacketIs
  <2>2. Pending(r, s, k)' \/ \E i \in 1 .. Len(come) : come[i][r] = p
    BY <1>1, <1>2, <2>1 DEF CollectedIn, SlotOf
  <2>3. Pending(r, s, k) \/ \E i \in 1 .. Len(come) : come[i][r] = p
    BY <2>2 DEF Drops, Shrinks
  <2> QED BY <1>1, <2>1, <2>3 DEF CollectedIn
<1> QED BY <1>2, CollectingNow, CollectingNext

\* and so was what a new sum is made of.
LEMMA MergedRefines ==
  ASSUME FramesInv, FramesInv', HoldInv, HoldInv', OrderInv, OrderInv',
         NEW b, ContentInv(b), KeptGone, MergeGroup
  PROVE  Collecting' \subseteq Collecting /\ Arrived' = Arrived /\ to_du' = to_du
<1>1. Shrinks /\ UNCHANGED <<frame, sent, lost, to_du>>
  BY MergedView
<1>2. PICK g \in Sums, s \in Slots :
              /\ Len(Coming') = Len(Coming) + 1
              /\ \A i \in 1 .. Len(Coming) : Coming'[i] = Coming[i]
              /\ Coming'[Len(Coming) + 1] = g
              /\ PendingGroup(g, s)
  BY MergedView
<1>3. PICK come, next, n : /\ n \in Nat /\ Len(come) = n /\ Len(next) = n + 1
                           /\ come = Coming /\ next = Coming' /\ next[n + 1] = g
                           /\ \A i \in 1 .. n : next[i] = come[i]
  <2>1. Len(Coming) \in Nat
    BY ComingIs
  <2> QED BY <1>2, <2>1
<1>4. ASSUME NEW p \in Packet, CollectedIn(p)'
      PROVE  CollectedIn(p)
  <2>1. PICK r \in Rus, t \in Slots, k \in RadioFrames : r = p.ru /\ t = SlotOf(p) /\ k = p.frame
    BY PacketIs
  <2>2. Pending(r, t, k)' \/ \E i \in 1 .. n + 1 : next[i][r] = p
    BY <1>3, <1>4, <2>1 DEF CollectedIn, SlotOf
  <2>3. CASE Pending(r, t, k)'
    BY <1>1, <2>1, <2>3 DEF CollectedIn, Shrinks
  <2>4. CASE \E i \in 1 .. n : next[i][r] = p
    <3>1. PICK i \in 1 .. n : come[i][r] = p
      BY <1>3, <2>4
    <3> QED BY <1>3, <2>1, <3>1 DEF CollectedIn
  <2>5. CASE g[r] = p
    <3>1. PICK h \in RadioFrames : g[r] = UplinkPacket(r, s, h) /\ Pending(r, s, h)
      BY <1>2 DEF PendingGroup
    <3>2. t = s /\ k = h
      BY <2>1, <2>5, <3>1, SingleIs
    <3> QED BY <2>1, <3>1, <3>2 DEF CollectedIn
  <2>6. \A i \in 1 .. n + 1 : i \in 1 .. n \/ i = n + 1
    BY <1>3
  <2> QED BY <1>3, <2>2, <2>3, <2>4, <2>5, <2>6
<1> QED BY <1>1, <1>4, ArrivedSame, CollectingNow, CollectingNext

\* A packet that is sent is received by the abstract merger.
LEMMA SendRefines ==
  ASSUME FramesInv, FramesInv', HoldInv, HoldInv', OrderInv, OrderInv',
         NEW b, ContentInv(b), NEW r \in Rus, NEW s \in Slots, Send(r, s)
  PROVE  \E p \in Packet : /\ p \notin Arrived /\ Arrived' = Arrived \cup {p}
                           /\ Collecting' = Collecting \cup {p} /\ to_du' = to_du
<1>1. PICK p \in Packet :
              /\ p = UplinkPacket(r, s, frame) /\ p.ru = r /\ SlotOf(p) = s /\ p.frame = frame
              /\ p \notin Arrived /\ Arrived' = Arrived \cup {p}
  BY SendView
<1>2. PICK come : come = Coming /\ come = Coming' /\ to_du' = to_du
  BY SendView
<1>3. ASSUME NEW x \in Packet
      PROVE  CollectedIn(x)' <=> CollectedIn(x) \/ x = p
  <2>1. PICK q \in Rus, t \in Slots, k \in RadioFrames :
          q = x.ru /\ t = SlotOf(x) /\ k = x.frame /\ x = UplinkPacket(q, t, k)
    BY PacketIs
  <2>2. CollectedIn(x)' <=> Pending(q, t, k)' \/ \E i \in 1 .. Len(come) : come[i][q] = x
    BY <1>2, <2>1 DEF CollectedIn, SlotOf
  <2>3. CollectedIn(x) <=> Pending(q, t, k) \/ \E i \in 1 .. Len(come) : come[i][q] = x
    BY <1>2, <2>1 DEF CollectedIn
  <2>4. Pending(q, t, k)' <=> Pending(q, t, k) \/ (q = r /\ t = s /\ k = frame)
    BY SendPending
  <2>5. x = p <=> q = r /\ t = s /\ k = frame
    BY <1>1, <2>1
  <2> QED BY <2>2, <2>3, <2>4, <2>5
<1>4. Collecting' = Collecting \cup {p}
  <2>1. \A x : x \in Collecting' <=> x \in Collecting \/ x = p
    BY <1>3, CollectingNow, CollectingNext
  <2> QED BY <2>1
<1> QED BY <1>1, <1>2, <1>4


\* What is transmitted is used up: each packet of it was collected in the sum
\* alone, and is earlier than that of a later sum of the slot.
LEMMA TransmitRefines ==
  ASSUME FramesInv, FramesInv', HoldInv, HoldInv', OrderInv, OrderInv', Transmit
  PROVE  \E g \in Sums, s \in Slots :
           /\ s[1] \in Ports /\ s[2] \in Keys /\ Arrived' = Arrived
           /\ to_du' = [to_du EXCEPT ![s[1]] = Append(@, g)]
           /\ \A r \in Rus : /\ g[r] \in Collecting /\ g[r].frame \in Nat
                             /\ g[r].ru = r /\ g[r].port = s[1] /\ g[r].key = s[2]
           /\ \A x : x \in Collecting' <=> x \in Collecting /\ \A r \in Rus : x # g[r]
           /\ \A i \in 1 .. Len(to_du[s[1]]) :
                to_du[s[1]][i][0].key = s[2] =>
                  \A r \in Rus : to_du[s[1]][i][r].frame < g[r].frame
<1>1. PICK g \in Sums, s \in Slots :
           /\ Over(g, s) /\ s = <<s[1], s[2]>> /\ s[1] \in Ports /\ s[2] \in Keys
           /\ to_du' = [to_du EXCEPT ![s[1]] = Append(@, g)]
           /\ g = Coming[1] /\ Len(Coming) \in Nat \ {0} /\ Len(Coming') = Len(Coming) - 1
           /\ \A i \in 1 .. Len(Coming) - 1 : Coming'[i] = Coming[i + 1]
  BY TransmitView
<1>2. Arrived' = Arrived
  BY TransmitPending, ArrivedSame
<1>3. PICK come, next, n :
        /\ n \in Nat /\ Len(come) = n + 1 /\ Len(next) = n /\ g = come[1]
        /\ come = Coming /\ next = Coming' /\ \A i \in 1 .. n : next[i] = come[i + 1]
  <2>1. Len(Coming) - 1 \in Nat /\ Len(Coming) = Len(Coming) - 1 + 1
    BY <1>1
  <2> QED BY <1>1, <2>1
<1>4. /\ 1 \in 1 .. n + 1
      /\ \A i \in 1 .. n : i + 1 \in 1 .. n + 1 /\ 1 < i + 1
      /\ \A i \in 1 .. n + 1 : i = 1 \/ \E j \in 1 .. n : i = j + 1
  <2>1. \A i \in 1 .. n + 1 : i = 1 \/ (i - 1 \in 1 .. n /\ i = i - 1 + 1)
    BY <1>3
  <2> QED BY <1>3, <2>1
<1>5. ASSUME NEW r \in Rus
      PROVE  \E h \in RadioFrames :
               /\ g[r] = UplinkPacket(r, s, h) /\ Past(r, s, h) /\ h \in Nat /\ g[r].frame = h
               /\ g[r] \in Packet /\ g[r].ru = r /\ SlotOf(g[r]) = s
               /\ g[r].port = s[1] /\ g[r].key = s[2]
  <2>1. PICK h \in RadioFrames : g[r] = UplinkPacket(r, s, h) /\ Past(r, s, h)
    BY <1>1 DEF Over
  <2>2. g[r].port = s[1] /\ g[r].key = s[2]
    BY <2>1 DEF UplinkPacket
  <2>3. h \in Nat
    BY XdpAssumption DEF RadioFrames
  <2> QED BY <2>1, <2>2, <2>3, SingleIs
<1>6. \A r \in Rus : g[r] \in Collecting
  <2> SUFFICES ASSUME NEW r \in Rus PROVE g[r] \in Collecting
    OBVIOUS
  <2>1. g[r] \in Packet /\ g[r].ru = r /\ Coming[1][r] = g[r] /\ 1 \in 1 .. Len(Coming)
    BY <1>3, <1>4, <1>5
  <2>2. CollectedIn(g[r])
    BY <2>1 DEF CollectedIn
  <2> QED BY <2>1, <2>2, CollectingNow
<1>7. ASSUME NEW x \in Packet
      PROVE  CollectedIn(x)' <=> CollectedIn(x) /\ x # g[x.ru]
  <2>1. PICK q \in Rus, t \in Slots, k \in RadioFrames :
          q = x.ru /\ t = SlotOf(x) /\ k = x.frame /\ x = UplinkPacket(q, t, k)
    BY PacketIs
  <2>2. CollectedIn(x)' <=> Pending(q, t, k)' \/ \E i \in 1 .. n : next[i][q] = x
    BY <1>3, <2>1 DEF CollectedIn, SlotOf
  <2>3. CollectedIn(x) <=> Pending(q, t, k) \/ \E i \in 1 .. n + 1 : come[i][q] = x
    BY <1>3, <2>1 DEF CollectedIn
  <2>4. Pending(q, t, k)' <=> Pending(q, t, k)
    BY TransmitPending
  <2>5. PICK h \in RadioFrames :
          g[q] = UplinkPacket(q, s, h) /\ Past(q, s, h) /\ h \in Nat /\ g[q].frame = h /\ SlotOf(g[q]) = s
    BY <1>5
  <2>6. x = g[q] => t = s /\ k = h
    BY <2>1, <2>5
  <2>7. x = g[q] => ~Pending(q, t, k)
    BY <2>5, <2>6 DEF Past
  <2>8. ASSUME NEW i \in 1 .. n, next[i][q] = x
        PROVE  x # g[q]
    <3>1. PICK w : w = come[i + 1] /\ w[q] = x
      BY <1>3, <2>8
    <3>2. Before(g, w)
      BY <1>3, <1>4, <3>1 DEF OrderInv
    <3>3. PICK u \in Slots : GroupOf(w, u)
      BY <1>3, <1>4, <3>1, OverGroup DEF OrderInv
    <3>4. SlotOf(x) = u
      <4>1. PICK j \in RadioFrames : w[q] = UplinkPacket(q, u, j)
        BY <3>3 DEF GroupOf
      <4> QED BY <3>1, <4>1, SingleIs
    <3>5. ASSUME x = g[q] PROVE FALSE
      <4>1. u = s /\ k = h
        BY <2>1, <2>6, <3>4, <3>5
      <4>2. g[q].frame < w[q].frame
        BY <1>1, <3>2, <3>3, <4>1, OverGroup DEF Before
      <4> QED BY <2>1, <2>5, <3>1, <4>1, <4>2
    <3> QED BY <3>5
  <2>9. (\E i \in 1 .. n + 1 : come[i][q] = x) <=> x = g[q] \/ \E i \in 1 .. n : next[i][q] = x
    BY <1>3, <1>4
  <2> QED BY <2>1, <2>2, <2>3, <2>4, <2>7, <2>8, <2>9
<1>8. \A x : x \in Collecting' <=> x \in Collecting /\ \A r \in Rus : x # g[r]
  <2>1. ASSUME NEW x \in Packet
        PROVE  x = g[x.ru] <=> \E r \in Rus : x = g[r]
    <3>1. x.ru \in Rus
      BY PacketIs
    <3> QED BY <1>5, <3>1
  <2> QED BY <1>7, <2>1, CollectingNow, CollectingNext
<1>9. ASSUME NEW i \in 1 .. Len(to_du[s[1]]), to_du[s[1]][i][0].key = s[2], NEW r \in Rus
      PROVE  to_du[s[1]][i][r].frame < g[r].frame
  <2>1. PICK w : w = to_du[s[1]][i]
    OBVIOUS
  <2>2. PICK key \in Keys : Over(w, <<s[1], key>>)
    BY <1>1, <2>1 DEF OrderInv
  <2>3. PICK t \in Slots : t = <<s[1], key>>
    BY <1>1 DEF Slots
  <2>4. w[0].key = key
    <3>1. PICK h \in RadioFrames : w[0] = UplinkPacket(0, t, h)
      BY <2>2, <2>3, Sockets DEF Over
    <3> QED BY <2>3, <3>1 DEF UplinkPacket
  <2>5. t = s
    BY <1>1, <1>9, <2>1, <2>3, <2>4
  <2>6. GroupOf(w, s) /\ GroupOf(g, s)
    BY <1>1, <2>2, <2>3, <2>5, OverGroup
  <2>7. Before(w, g)
    BY <1>1, <1>3, <1>4, <2>1 DEF OrderInv
  <2> QED BY <2>1, <2>6, <2>7 DEF Before
<1>10. \A r \in Rus : /\ g[r].frame \in Nat /\ g[r].ru = r
                      /\ g[r].port = s[1] /\ g[r].key = s[2]
  BY <1>5
<1>11. \A i \in 1 .. Len(to_du[s[1]]) :
         to_du[s[1]][i][0].key = s[2] =>
           \A r \in Rus : to_du[s[1]][i][r].frame < g[r].frame
  BY <1>9
<1>12. Arrived' = Arrived /\ to_du' = [to_du EXCEPT ![s[1]] = Append(@, g)]
  BY <1>1, <1>2
<1> WITNESS g \in Sums, s \in Slots
<1> QED BY <1>1, <1>6, <1>8, <1>10, <1>11, <1>12

LEMMA StepRefines ==
  ASSUME FramesInv, FramesInv', HoldInv, HoldInv', OrderInv, OrderInv',
         NEW b, ContentInv(b), KeptGone, [Next]_vars
  PROVE  [Merge!MergeNext]_(Merge!mvars)
<1>1. Merge!mvars = <<Arrived, Collecting, to_du>> /\ Merge!RuPacket = Packet
  BY DEF Merge!mvars, Merge!RuPacket, Packet
<1>2. ASSUME Collecting' \subseteq Collecting, Arrived' = Arrived, to_du' = to_du
      PROVE  [Merge!MergeNext]_(Merge!mvars)
  <2>1. PICK S \in SUBSET Collecting : S = Collecting \ Collecting' /\ Collecting' = Collecting \ S
    <3>1. Collecting' = Collecting \ (Collecting \ Collecting')
      BY <1>2
    <3> QED BY <3>1
  <2>2. CASE S = {}
    <3>1. Collecting' = Collecting
      BY <2>1, <2>2
    <3> QED BY <1>2, <3>1 DEF Merge!mvars
  <2>3. CASE S # {}
    <3>1. Merge!Discard(S)
      BY <1>2, <2>1, <2>3 DEF Merge!Discard
    <3> QED BY <3>1 DEF Merge!MergeNext
  <2> QED BY <2>2, <2>3
<1>3. CASE Drops
  BY <1>2, <1>3, DropsRefines DEF Drops
<1>4. CASE MergeGroup
  BY <1>2, <1>4, MergedRefines
<1>5. ASSUME NEW r \in Rus, NEW s \in Slots, Send(r, s)
      PROVE  Merge!MergeNext
  <2>1. PICK p \in Packet : /\ p \notin Arrived /\ Arrived' = Arrived \cup {p}
                            /\ Collecting' = Collecting \cup {p} /\ to_du' = to_du
    BY <1>5, SendRefines
  <2>2. Merge!Receive(p)
    BY <2>1 DEF Merge!Receive
  <2> QED BY <1>1, <2>2 DEF Merge!MergeNext
<1>6. CASE Transmit
  <2>1. PICK g \in Sums, s \in Slots :
           /\ s[1] \in Ports /\ s[2] \in Keys /\ Arrived' = Arrived
           /\ to_du' = [to_du EXCEPT ![s[1]] = Append(@, g)]
           /\ \A r \in Rus : /\ g[r] \in Collecting /\ g[r].frame \in Nat
                             /\ g[r].ru = r /\ g[r].port = s[1] /\ g[r].key = s[2]
           /\ \A x : x \in Collecting' <=> x \in Collecting /\ \A r \in Rus : x # g[r]
           /\ \A i \in 1 .. Len(to_du[s[1]]) :
                to_du[s[1]][i][0].key = s[2] =>
                  \A r \in Rus : to_du[s[1]][i][r].frame < g[r].frame
    BY <1>6, TransmitRefines
  <2>2. g \in [Rus -> Collecting]
    BY <2>1 DEF Sums
  <2>3. Merge!IsGroup(g, s[1], s[2])
    BY <2>1 DEF Merge!IsGroup
  <2>4. ASSUME NEW i \in DOMAIN to_du[s[1]], Merge!IsGroup(to_du[s[1]][i], s[1], s[2])
        PROVE  Merge!LaterThan(g, to_du[s[1]][i])
    <3>1. i \in 1 .. Len(to_du[s[1]])
      <4>1. to_du[s[1]] \in Seq(Sums)
        BY <2>1 DEF FramesInv, TypeInv, TypeOK
      <4> QED BY <4>1
    <3>2. to_du[s[1]][i][0].key = s[2]
      BY <2>4, Sockets DEF Merge!IsGroup
    <3> QED BY <2>1, <3>1, <3>2 DEF Merge!LaterThan
  <2>5. Collecting' = Collecting \ {g[r] : r \in Rus}
    BY <2>1
  <2>6. Merge!Deliver(s[1], s[2], g)
    BY <2>1, <2>3, <2>4, <2>5 DEF Merge!Deliver
  <2> QED BY <2>1, <2>2, <2>6 DEF Merge!MergeNext
<1> QED BY <1>3, <1>4, <1>5, <1>6, StepIs

LEMMA InitRefines == Init => Merge!MergeInit
<1> SUFFICES ASSUME Init PROVE Merge!MergeInit
  OBVIOUS
<1>1. FramesInv /\ HoldInv /\ OrderInv
  BY FramesInit, ContentInit, OrderInit
<1>2. Arrived = {}
  <2>1. ASSUME NEW p \in Packet PROVE ~(p.frame < frame) /\ SlotOf(p) \notin sent[p.ru]
    <3>1. frame = 0 /\ p.frame \in Nat /\ p.ru \in Rus
      BY PacketIs, XdpAssumption DEF Init, RadioFrames
    <3> QED BY <3>1 DEF Init
  <2> QED BY <2>1 DEF Arrived
<1>3. Collecting = {}
  <2>1. ASSUME NEW p \in Packet, CollectedIn(p) PROVE FALSE
    <3>1. Len(Coming) = 0
      <4>1. Len(Coming) = Len(tx) + Len(frags_to_be_sent)
        BY <1>1, ComingIs
      <4>2. tx = <<>> /\ frags_to_be_sent = <<>>
        BY DEF Init
      <4> QED BY <4>1, <4>2
    <3>2. Pending(p.ru, SlotOf(p), p.frame)
      BY <2>1, <3>1 DEF CollectedIn
    <3>3. p.ru \in Rus /\ SlotOf(p) \in Slots
      BY PacketIs
    <3> QED BY <3>2, <3>3, EmptyOnce DEF Pending, Waits, Keeps, InQueue, Init, Nothing, EmptyRow
  <2> QED BY <1>1, <2>1, CollectingNow
<1> QED BY <1>2, <1>3 DEF Merge!MergeInit, Init

\* What the DU gets are groups of one packet of each RU for one symbol, no
\* packet in two of them and each RU's packets in the order it sent them:
\* whatever the thread, the cards, the RUs and the network do is a step of
\* FronthaulMerge or none, for all ring, batch and schedule sizes.
THEOREM XdpRefinesMerge == Spec => RefinesMerge
<1>1. Init => HoldInv /\ LeakInv /\ SkewInv /\ OrderInv
  BY ContentInit, LeakInit, SkewInit, OrderInit
<1>2. FramesInv /\ FramesInv' /\ HoldInv /\ LeakInv /\ SkewInv /\ OrderInv /\ [Next]_vars =>
        (HoldInv /\ LeakInv /\ SkewInv /\ OrderInv)' /\ [Merge!MergeNext]_(Merge!mvars)
  <2> SUFFICES ASSUME FramesInv, FramesInv', HoldInv, LeakInv, SkewInv, OrderInv, [Next]_vars
               PROVE  (HoldInv /\ LeakInv /\ SkewInv /\ OrderInv)' /\ [Merge!MergeNext]_(Merge!mvars)
    OBVIOUS
  <2>1. HoldInv' /\ LeakInv' /\ lost \subseteq lost'
    BY ContentNext, NextIsViewStep, LeakStep, LossesOnlyGrow
  <2>2. IsFiniteSet(lost) /\ IsFiniteSet(lost')
    BY <2>1 DEF LeakInv
  <2>3. SkewInv'
    BY <2>1, <2>2, SpreadNext
  <2>4. PICK b : ContentInv(b) /\ KeptGone
    BY DEF SkewInv, SpreadInv
  <2>5. OrderInv'
    BY <2>4, OrderNext
  <2>6. [Merge!MergeNext]_(Merge!mvars)
    BY <2>1, <2>4, <2>5, StepRefines
  <2> QED BY <2>1, <2>3, <2>5, <2>6
<1> QED BY <1>1, <1>2, FramesInvariant, InitRefines, PTL DEF Spec, RefinesMerge, Merge!MergeSpec
=============================================================================
