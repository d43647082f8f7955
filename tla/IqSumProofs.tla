---------------------------- MODULE IqSumProofs ----------------------------
(***************************************************************************)
(* Proof that what the DAS mergers send is exact (IqSum), for every number *)
(* of RUs and cores and every length of packets and chunks.                *)
(***************************************************************************)
EXTENDS IqSum, TLAPS

\* The samples of c's packets are compressed or, for xdp, the loop leaves the
\* first RU's out: the cases DataIsExact speaks of.
Data(c) == program = "xdp" \/ job[c].compressed

\* How many RUs the sample at place k of the sum stands for.
Summed(c, k) ==
  CASE pc[c] = "add" -> IF k < iq_idx[c] THEN id[c] + 1 ELSE id[c]
    [] pc[c] = "compress" -> NumRus
    [] OTHER -> id[c]

\* Before the first packet is decompressed, the sum of xdp is not set yet.
SumStarted(c) ==
  pc[c] \in {"decompress", "add", "compress"} /\ (id[c] >= FirstAdded \/ pc[c] = "compress")

\* Where the samples of a packet are as they came.
Untouched(c, r) == r > 0 \/ (job[c].compressed /\ pc[c] \in {"decompress", "add"})
                         \/ (id[c] = 0 /\ pc[c] = "decompress")
PacketsHeld(c) == pc[c] \in {"decompress", "add"} => \A r \in Rus, k \in Index :
  Untouched(c, r) /\ k < job[c].len => payload[c][r][k] = Sample(job[c].group, r)

\* Row c of iq_buffer holds the samples of the packet that is to be added.
AddendHeld(c) == pc[c] = "add" /\ job[c].compressed => \A k \in Index :
  k < job[c].len => iq_buffer[Row(c)][id[c]][k] = Sample(job[c].group, id[c])

\* The sum holds one sample of each RU that was added.
SumSoFar(c) == Data(c) /\ SumStarted(c) => \A k \in Index :
  k < job[c].len => Sum(c)[k] = FirstRus(job[c].group, Summed(c, k))

Ready(c) == pc[c] = "transmit" /\ Data(c) => \A k \in Index :
  k < job[c].len => payload[c][0][k] = FirstRus(job[c].group, NumRus)

AddsFirst(c) == pc[c] = "add" => id[c] >= FirstAdded
LastRu(c) == pc[c] = "compress" => id[c] = NumRus - 1
CoreInv(c) ==
  /\ PacketsHeld(c) /\ AddendHeld(c) /\ SumSoFar(c) /\ Ready(c)
  /\ AddsFirst(c) /\ LastRu(c)
  /\ program = "xdp" => ~avx

Inv == TypeOK /\ InBounds /\ DataIsExact /\ \A c \in Cores : CoreInv(c)

\* A core d the step does not belong to keeps all it has.
Same(d) ==
  /\ pc'[d] = pc[d] /\ job'[d] = job[d] /\ id'[d] = id[d] /\ iq_idx'[d] = iq_idx[d]
  /\ tmp_buf'[d] = tmp_buf[d] /\ iq_buffer'[d] = iq_buffer[d] /\ payload'[d] = payload[d]

(* Adding.                                                                 *)

\* Adding the sample of the next RU counts that RU too.
LEMMA OneMore ==
  ASSUME NEW g, NEW r \in Rus
  PROVE  /\ Plus(FirstRus(g, r), Sample(g, r)) = FirstRus(g, r + 1)
         /\ FirstRus(g, 1) = Sample(g, 0)
         /\ FirstRus(g, 0) = Zero
<1>1. ASSUME NEW s \in Groups \X Rus
      PROVE  FirstRus(g, r)[s] + Sample(g, r)[s] = FirstRus(g, r + 1)[s]
  <2>1. CASE s[1] = g /\ s[2] = r
    BY <1>1, <2>1, IqSumAssumption DEF FirstRus, Sample, Rus
  <2>2. CASE ~(s[1] = g /\ s[2] = r)
    <3>1. s # <<g, r>> /\ s[2] \in Nat /\ r \in Nat
      BY <1>1, <2>2, IqSumAssumption DEF Rus
    <3>2. Sample(g, r)[s] = 0
      BY <3>1, <1>1 DEF Sample
    <3> QED BY <1>1, <2>2, <3>1, <3>2 DEF FirstRus
  <2> QED BY <2>1, <2>2
<1>2. Plus(FirstRus(g, r), Sample(g, r)) = FirstRus(g, r + 1)
  BY <1>1 DEF Plus, FirstRus
<1>3. ASSUME NEW s \in Groups \X Rus
      PROVE  (s[1] = g /\ s[2] < 1) <=> s = <<g, 0>>
  BY <1>3, IqSumAssumption DEF Rus
<1>4. FirstRus(g, 1) = Sample(g, 0)
  BY <1>3 DEF FirstRus, Sample
<1>5. FirstRus(g, 0) = Zero
  BY IqSumAssumption DEF FirstRus, Zero, Rus
<1> QED BY <1>2, <1>4, <1>5

\* Cells count, and sums of cells are cells.
LEMMA Cells ==
  ASSUME NEW g, NEW r, NEW a \in Cell, NEW b \in Cell
  PROVE  Plus(a, b) \in Cell /\ Sample(g, r) \in Cell /\ FirstRus(g, r) \in Cell /\ Zero \in Cell
BY DEF Plus, Sample, FirstRus, Zero, Cell

(* The invariant.                                                          *)

\* What a core that does not step has done stays right.
LEMMA Others ==
  ASSUME NEW d \in Cores, Same(d), program' = program, avx' = avx,
         CoreInv(d), pc[d] = "add" => iq_idx[d] <= job[d].len
  PROVE  CoreInv(d)' /\ (pc[d] = "add" => iq_idx[d] <= job[d].len)'
BY DEF Same, CoreInv, PacketsHeld, AddendHeld, SumSoFar, Ready, AddsFirst, LastRu, Data,
       Summed, SumStarted, Untouched, Sum, Row, FirstAdded

\* What the variables of a core are.
LEMMA CoreTypes ==
  ASSUME TypeOK, NEW c \in Cores
  PROVE  /\ id[c] \in Rus /\ id[c] \in Nat /\ id[c] < NumRus /\ 0 \in Rus
         /\ job[c].len \in Nat /\ iq_idx[c] \in Nat
<1>1. id[c] \in Rus /\ iq_idx[c] \in Nat /\ job[c] \in Job
  BY DEF TypeOK
<1>2. job[c].len \in Nat
  BY <1>1, IqSumAssumption DEF Job, Samples
<1> QED BY <1>1, <1>2, IqSumAssumption DEF Rus

\* The sum is an array, and adding to it or storing an array keeps the types.
LEMMA SumTypes ==
  ASSUME TypeOK, NEW c \in Cores
  PROVE  /\ Sum(c) \in Array /\ Addend(c) \in Array
         /\ \A lo, hi : Added(c, lo, hi) \in Array
<1>1. 0 \in Rus
  BY IqSumAssumption DEF Rus
<1>2. Sum(c) \in Array /\ Addend(c) \in Array
  BY <1>1 DEF TypeOK, Sum, Addend, Row
<1>3. ASSUME NEW lo, NEW hi
      PROVE  Added(c, lo, hi) \in Array
  <2>1. ASSUME NEW k \in Index
        PROVE  Sum(c)[k] \in Cell /\ Plus(Sum(c)[k], Addend(c)[k]) \in Cell
    BY <1>2, <2>1, Cells DEF Array
  <2> QED BY <2>1 DEF Added, Array
<1> QED BY <1>2, <1>3

LEMMA StoreTypes ==
  ASSUME TypeOK, NEW c \in Cores, NEW array \in Array, StoreSum(c, array)
  PROVE  /\ tmp_buf' \in [Cores -> Array]
         /\ iq_buffer' \in [Cores -> [Rus -> Array]]
         /\ payload' \in [Cores -> [Rus -> Array]]
         /\ \A d \in Cores \ {c} : /\ tmp_buf'[d] = tmp_buf[d]
                                   /\ iq_buffer'[d] = iq_buffer[d]
                                   /\ payload'[d] = payload[d]
<1>1. 0 \in Rus
  BY IqSumAssumption DEF Rus
<1>2. /\ tmp_buf \in [Cores -> Array] /\ iq_buffer \in [Cores -> [Rus -> Array]]
      /\ payload \in [Cores -> [Rus -> Array]]
  BY DEF TypeOK
<1>3. CASE payload' = [payload EXCEPT ![c][0] = array] /\ UNCHANGED <<tmp_buf, iq_buffer>>
  BY <1>1, <1>2, <1>3
<1>4. CASE tmp_buf' = [tmp_buf EXCEPT ![c] = array] /\ UNCHANGED <<payload, iq_buffer>>
  BY <1>2, <1>4
<1>5. CASE iq_buffer' = [iq_buffer EXCEPT ![c][0] = array] /\ UNCHANGED <<payload, tmp_buf>>
  BY <1>1, <1>2, <1>5
<1> QED BY <1>3, <1>4, <1>5 DEF StoreSum, Row

\* Each step keeps the types and what belongs to other cores.
LEMMA Types ==
  ASSUME TypeOK, NEW c \in Cores, Begin(c) \/ Work(c)
  PROVE  /\ TypeOK' /\ program' = program /\ avx' = avx
         /\ \A d \in Cores \ {c} : Same(d)
<1> USE IqSumAssumption
<1>1. CASE Begin(c)
  <2>1. PICK j \in Jobs(c) : 
          /\ taken < NumGroups /\ taken' = taken + 1
          /\ job' = [job EXCEPT ![c] = j]
          /\ payload' = [payload EXCEPT ![c] = [r \in Rus |->
                   [k \in Index |-> IF k < j.len THEN Sample(taken + 1, r) ELSE Zero]]]
          /\ tmp_buf' = [tmp_buf EXCEPT ![c] = Zeros]
          /\ id' = [id EXCEPT ![c] = 0]
          /\ pc' = [pc EXCEPT ![c] = "decompress"]
          /\ UNCHANGED <<program, avx, iq_idx, iq_buffer, sent>>
    BY <1>1 DEF Begin
  <2>2. j \in Job /\ taken + 1 \in 0 .. NumGroups /\ 0 \in Rus
    BY <2>1 DEF Jobs, TypeOK, Rus
  <2>3. Zeros \in Array
    BY Cells DEF Zeros, Array, Zero, FirstRus, Cell
  <2>4. ASSUME NEW r \in Rus
        PROVE  [k \in Index |-> IF k < j.len THEN Sample(taken + 1, r) ELSE Zero] \in Array
    BY DEF Array, Sample, Cell, Zero, FirstRus
  <2> QED BY <2>1, <2>2, <2>3, <2>4 DEF TypeOK, Same
<1>2. CASE Decompress(c)
  <2>1. iq_buffer' \in [Cores -> [Rus -> Array]]
        /\ \A d \in Cores \ {c} : iq_buffer'[d] = iq_buffer[d]
    <3> DEFINE v == [k \in Index |-> IF k < job[c].len THEN payload[c][id[c]][k]
                                                       ELSE iq_buffer[c][id[c]][k]]
    <3>1. v \in Array /\ id[c] \in Rus /\ iq_buffer \in [Cores -> [Rus -> Array]]
      BY DEF TypeOK, Array
    <3>2. iq_buffer' = [iq_buffer EXCEPT ![c][id[c]] = v] \/ iq_buffer' = iq_buffer
      BY <1>2, <3>1 DEF Decompress, Row
    <3> HIDE DEF v
    <3>3. CASE iq_buffer' = [iq_buffer EXCEPT ![c][id[c]] = v]
      BY <3>1, <3>3
    <3> QED BY <3>1, <3>2, <3>3
  <2>2. id' \in [Cores -> Rus] /\ iq_idx' \in [Cores -> Nat]
        /\ \A d \in Cores \ {c} : id'[d] = id[d] /\ iq_idx'[d] = iq_idx[d] /\ pc'[d] = pc[d]
    <3>1. id[c] + 1 < NumRus => id[c] + 1 \in Rus
      BY DEF TypeOK, Rus
    <3>2. (id' = [id EXCEPT ![c] = id[c] + 1] /\ id[c] + 1 \in Rus) \/ id' = id
      BY <1>2, <3>1 DEF Decompress, NextRu
    <3>3. iq_idx' = [iq_idx EXCEPT ![c] = 0] \/ iq_idx' = iq_idx
      BY <1>2 DEF Decompress
    <3>4. \E l : pc' = [pc EXCEPT ![c] = l]
      BY <1>2 DEF Decompress, NextRu
    <3>5. id' \in [Cores -> Rus] /\ \A d \in Cores \ {c} : id'[d] = id[d]
      BY <3>2 DEF TypeOK
    <3>6. iq_idx' \in [Cores -> Nat] /\ \A d \in Cores \ {c} : iq_idx'[d] = iq_idx[d]
      <4>1. iq_idx \in [Cores -> Nat]
        BY DEF TypeOK
      <4> QED BY <3>3, <4>1
    <3>7. \A d \in Cores \ {c} : pc'[d] = pc[d]
      BY <3>4 DEF TypeOK
    <3> QED BY <3>5, <3>6, <3>7
  <2>3. pc' \in [Cores -> {"idle", "decompress", "add", "compress", "transmit"}]
    BY <1>2 DEF Decompress, NextRu, TypeOK
  <2>4. UNCHANGED <<program, avx, taken, job, tmp_buf, payload, sent>>
    BY <1>2 DEF Decompress
  <2> QED BY <2>1, <2>2, <2>3, <2>4 DEF TypeOK, Same
<1>3. CASE AddChunk(c) \/ AddOne(c)
  <2>1. PICK hi \in Nat : /\ StoreSum(c, Added(c, iq_idx[c], hi))
                          /\ iq_idx' = [iq_idx EXCEPT ![c] = hi]
                          /\ UNCHANGED <<program, avx, taken, pc, job, id, sent>>
    BY <1>3 DEF AddChunk, AddOne, TypeOK
  <2>2. Added(c, iq_idx[c], hi) \in Array
    BY SumTypes
  <2> QED BY <2>1, <2>2, StoreTypes DEF TypeOK, Same
<1>4. CASE EndAdd(c)
  <2>1. id[c] + 1 < NumRus => id[c] + 1 \in Rus
    BY DEF TypeOK, Rus
  <2>2. (id' = [id EXCEPT ![c] = id[c] + 1] /\ id[c] + 1 \in Rus) \/ id' = id
    BY <1>4, <2>1 DEF EndAdd, NextRu
  <2>3. \E l \in {"decompress", "compress"} : pc' = [pc EXCEPT ![c] = l]
    BY <1>4 DEF EndAdd, NextRu
  <2>4. UNCHANGED <<program, avx, taken, job, iq_idx, tmp_buf, iq_buffer, payload, sent>>
    BY <1>4 DEF EndAdd
  <2>5. id' \in [Cores -> Rus] /\ \A d \in Cores \ {c} : id'[d] = id[d]
    BY <2>2 DEF TypeOK
  <2>6. pc' \in [Cores -> {"idle", "decompress", "add", "compress", "transmit"}]
        /\ \A d \in Cores \ {c} : pc'[d] = pc[d]
    BY <2>3 DEF TypeOK
  <2> QED BY <2>4, <2>5, <2>6 DEF TypeOK, Same
<1>5. CASE Compress(c)
  <2>1. payload' \in [Cores -> [Rus -> Array]]
        /\ \A d \in Cores \ {c} : payload'[d] = payload[d]
    BY <1>5, SumTypes DEF Compress, TypeOK, Rus
  <2> QED BY <1>5, <2>1 DEF Compress, TypeOK, Same
<1>6. CASE Transmit(c)
  <2>1. job[c] \in Job /\ payload[c][0] \in Array
    BY DEF TypeOK, Rus
  <2>2. /\ sent' = sent \cup {[job |-> job[c], content |-> payload[c][0]]}
        /\ pc' = [pc EXCEPT ![c] = "idle"]
        /\ UNCHANGED <<program, avx, taken, job, id, iq_idx, tmp_buf, iq_buffer, payload>>
    BY <1>6 DEF Transmit
  <2>3. \A p \in sent' : p.job \in Job /\ p.content \in Array
    BY <2>1, <2>2 DEF TypeOK
  <2>4. pc' \in [Cores -> {"idle", "decompress", "add", "compress", "transmit"}]
        /\ \A d \in Cores \ {c} : pc'[d] = pc[d]
    BY <2>2 DEF TypeOK
  <2> QED BY <2>2, <2>3, <2>4 DEF TypeOK, Same
<1> QED BY <1>1, <1>2, <1>3, <1>4, <1>5, <1>6 DEF Work

\* What a core holds after each of its steps.
LEMMA BeginInv ==
  ASSUME TypeOK, NEW c \in Cores, Begin(c), CoreInv(c)
  PROVE  CoreInv(c)' /\ pc'[c] # "add"
<1> USE IqSumAssumption
<1>1. PICK j \in Jobs(c) : 
          /\ c \in Running /\ taken' = taken + 1
          /\ job' = [job EXCEPT ![c] = j]
          /\ payload' = [payload EXCEPT ![c] = [r \in Rus |->
                   [k \in Index |-> IF k < j.len THEN Sample(taken + 1, r) ELSE Zero]]]
          /\ tmp_buf' = [tmp_buf EXCEPT ![c] = Zeros]
          /\ id' = [id EXCEPT ![c] = 0]
          /\ pc' = [pc EXCEPT ![c] = "decompress"]
          /\ UNCHANGED <<program, avx, iq_idx, iq_buffer, sent>>
  BY DEF Begin
<1>2. /\ job'[c] = j /\ j.group = taken + 1 /\ id'[c] = 0 /\ pc'[c] = "decompress"
      /\ tmp_buf'[c] = Zeros
      /\ \A r \in Rus, k \in Index : k < j.len => payload'[c][r][k] = Sample(taken + 1, r)
  BY <1>1 DEF TypeOK, Jobs
<1>3. PacketsHeld(c)'
  BY <1>2 DEF PacketsHeld
<1>4. SumSoFar(c)'
  <2>1. SUFFICES ASSUME Data(c)', SumStarted(c)', NEW k \in Index, k < j.len
                 PROVE  Sum(c)'[k] = FirstRus(taken + 1, 0)
    BY <1>2 DEF SumSoFar, Summed
  <2>2. program = "dpdk" /\ j.compressed
    BY <1>1, <1>2, <2>1 DEF SumStarted, Data, FirstAdded, TypeOK
  <2>3. Sum(c)'[k] = Zero
    BY <1>1, <1>2, <2>2 DEF Sum, Zeros
  <2> QED BY <2>3, OneMore, IqSumAssumption DEF Rus
<1> QED BY <1>1, <1>2, <1>3, <1>4
        DEF CoreInv, AddendHeld, Ready, AddsFirst, LastRu

LEMMA DecompressInv ==
  ASSUME TypeOK, NEW c \in Cores, Decompress(c), CoreInv(c)
  PROVE  CoreInv(c)' /\ (pc[c] = "add" => iq_idx[c] <= job[c].len)'
<1> USE IqSumAssumption
<1> DEFINE g == job[c].group
           n == job[c].len
<1>1. /\ pc[c] = "decompress" /\ id[c] \in Rus /\ id[c] \in Nat /\ 0 \in Rus /\ n \in Nat
      /\ payload' = payload /\ job' = job /\ tmp_buf' = tmp_buf
      /\ program' = program /\ avx' = avx
  BY CoreTypes DEF Decompress
<1>2. \A k \in Index : k < n /\ (job[c].compressed \/ id[c] = 0) =>
        payload[c][id[c]][k] = Sample(g, id[c])
  BY <1>1 DEF CoreInv, PacketsHeld, Untouched
<1>3. \A k \in Index : job[c].compressed /\ k < n => 
        iq_buffer'[c][id[c]][k] = Sample(g, id[c])
  <2>1. SUFFICES ASSUME job[c].compressed
                 PROVE  \A k \in Index : k < n => iq_buffer'[c][id[c]][k] = Sample(g, id[c])
    OBVIOUS
  <2>2. iq_buffer' = [iq_buffer EXCEPT ![c][id[c]] =
              [k \in Index |-> IF k < n THEN payload[c][id[c]][k] ELSE @[k]]]
    BY <2>1 DEF Decompress, Row
  <2>3. iq_buffer'[c][id[c]] =
              [k \in Index |-> IF k < n THEN payload[c][id[c]][k] ELSE iq_buffer[c][id[c]][k]]
    BY <1>1, <2>2 DEF TypeOK
  <2> QED BY <1>2, <2>1, <2>3
<1>4. id[c] # 0 => iq_buffer'[c][0] = iq_buffer[c][0]
  BY <1>1 DEF Decompress, Row, TypeOK
<1>5. CASE id[c] >= FirstAdded
  <2>1. pc'[c] = "add" /\ iq_idx'[c] = 0 /\ id' = id
    BY <1>5 DEF Decompress, TypeOK
  <2>2. PacketsHeld(c)'
    BY <1>1, <2>1 DEF CoreInv, PacketsHeld, Untouched
  <2>3. AddendHeld(c)'
    BY <1>1, <1>3, <2>1 DEF AddendHeld, Row
  <2>4. SumSoFar(c)'
    <3>1. SUFFICES ASSUME Data(c), NEW k \in Index, k < n
                   PROVE  Sum(c)'[k] = FirstRus(g, id[c])
      BY <1>1, <2>1 DEF SumSoFar, Summed, Data, Index
    <3>2. Sum(c)' = Sum(c)
      BY <1>1, <1>4, <1>5, <3>1 DEF Sum, Row, FirstAdded, Data, TypeOK
    <3> QED BY <1>1, <1>5, <3>1, <3>2 DEF CoreInv, SumSoFar, SumStarted, Summed
  <2> QED BY <1>1, <2>1, <2>2, <2>3, <2>4, <1>5
          DEF CoreInv, Ready, AddsFirst, LastRu, FirstAdded
<1>6. CASE ~(id[c] >= FirstAdded)
  <2>1. id[c] = 0 /\ program = "xdp"
    BY <1>1, <1>6 DEF FirstAdded, TypeOK
  <2>2. \/ 1 < NumRus /\ id'[c] = 1 /\ pc'[c] = "decompress"
        \/ 1 = NumRus /\ id'[c] = 0 /\ pc'[c] = "compress"
    <3>1. NextRu(c) /\ NumRus >= 1 /\ DOMAIN pc = Cores /\ id \in [Cores -> Rus]
      BY <1>6 DEF Decompress, TypeOK
    <3>2. CASE 1 < NumRus
      BY <2>1, <3>1, <3>2 DEF NextRu
    <3>3. CASE ~(1 < NumRus)
      BY <2>1, <3>1, <3>3 DEF NextRu
    <3> QED BY <3>2, <3>3
  <2>3. PacketsHeld(c)'
    BY <1>1, <2>1, <2>2 DEF CoreInv, PacketsHeld, Untouched
  <2>4. SumSoFar(c)'
    <3>1. \A k \in Index : k < n => Sum(c)'[k] = Sample(g, 0)
      BY <1>1, <1>2, <1>3, <2>1 DEF Sum, Row
    <3> QED BY <1>1, <2>2, <3>1, OneMore DEF SumSoFar, Summed
  <2> QED BY <1>1, <2>1, <2>2, <2>3, <2>4
          DEF CoreInv, AddendHeld, Ready, AddsFirst, LastRu
<1> QED BY <1>5, <1>6

LEMMA AddInv ==
  ASSUME TypeOK, NEW c \in Cores, AddChunk(c) \/ AddOne(c), CoreInv(c),
         pc[c] = "add" => iq_idx[c] <= job[c].len
  PROVE  CoreInv(c)' /\ (pc[c] = "add" => iq_idx[c] <= job[c].len)'
<1> USE IqSumAssumption
<1> DEFINE g == job[c].group
           n == job[c].len
           lo == iq_idx[c]
<1>1. /\ pc[c] = "add" /\ id[c] \in Rus /\ id[c] \in Nat /\ 0 \in Rus /\ n \in Nat /\ lo \in Nat
      /\ id[c] >= FirstAdded
      /\ UNCHANGED <<program, avx, taken, pc, job, id, sent>>
  BY CoreTypes DEF AddChunk, AddOne, CoreInv, AddsFirst
<1>2. PICK hi \in Nat : /\ StoreSum(c, Added(c, lo, hi)) /\ lo <= hi /\ hi <= n
                        /\ iq_idx' = [iq_idx EXCEPT ![c] = hi]
  <2>1. CASE AddChunk(c)
    <3>1. lo + Chunk \in Nat /\ lo <= lo + Chunk /\ lo + Chunk <= n
      BY <1>1, <2>1 DEF AddChunk, ChunkLeft
    <3>2. iq_idx' = [iq_idx EXCEPT ![c] = lo + Chunk]
      BY <2>1 DEF AddChunk
    <3>3. StoreSum(c, Added(c, lo, lo + Chunk))
      BY <2>1 DEF AddChunk
    <3> HIDE DEF lo, n
    <3> QED BY <3>1, <3>2, <3>3
  <2>2. CASE AddOne(c)
    <3>1. lo + 1 \in Nat /\ lo <= lo + 1 /\ lo + 1 <= n
      BY <1>1, <2>2 DEF AddOne
    <3>2. iq_idx' = [iq_idx EXCEPT ![c] = lo + 1]
      BY <2>2 DEF AddOne
    <3>3. StoreSum(c, Added(c, lo, lo + 1))
      BY <2>2 DEF AddOne
    <3> HIDE DEF lo, n
    <3> QED BY <3>1, <3>2, <3>3
  <2> QED BY <2>1, <2>2
<1>3. iq_idx'[c] = hi
  BY <1>2 DEF TypeOK
<1>4. \A k \in Index : k \in Nat
  BY DEF Index
<1>5. Data(c) => Sum(c)' = Added(c, lo, hi)
  BY <1>1, <1>2 DEF StoreSum, Sum, Row, TypeOK
<1>6. \A r \in Rus : r > 0 \/ job[c].compressed => payload'[c][r] = payload[c][r]
  BY <1>1, <1>2 DEF StoreSum, TypeOK, Rus
<1>7. id[c] > 0 \/ program = "dpdk" => iq_buffer'[c][id[c]] = iq_buffer[c][id[c]]
  BY <1>1, <1>2 DEF StoreSum, TypeOK, Rus, Row
<1>8. PacketsHeld(c)'
  BY <1>1, <1>6 DEF CoreInv, PacketsHeld, Untouched, Rus
<1>9. AddendHeld(c)'
  BY <1>1, <1>7 DEF CoreInv, AddendHeld, Row, FirstAdded, TypeOK
<1>10. SumSoFar(c)'
  <2>1. SUFFICES ASSUME Data(c), NEW k \in Index, k < n
                 PROVE  Added(c, lo, hi)[k] =
                          FirstRus(g, IF k < hi THEN id[c] + 1 ELSE id[c])
    BY <1>1, <1>3, <1>5 DEF SumSoFar, Summed, Data
  <2>2. Sum(c)[k] = FirstRus(g, IF k < lo THEN id[c] + 1 ELSE id[c])
    BY <1>1, <2>1 DEF CoreInv, SumSoFar, SumStarted, Summed
  <2>3. Addend(c)[k] = Sample(g, id[c])
    <3>1. CASE job[c].compressed
      BY <1>1, <2>1, <3>1 DEF CoreInv, AddendHeld, Addend
    <3>2. CASE ~job[c].compressed
      <4>1. id[c] > 0
        BY <1>1, <2>1, <3>2 DEF FirstAdded, Data
      <4> QED BY <1>1, <2>1, <3>2, <4>1 DEF CoreInv, PacketsHeld, Untouched, Addend
    <3> QED BY <3>1, <3>2
  <2>4. CASE lo <= k /\ k < hi
    <3>1. Sum(c)[k] = FirstRus(g, id[c])
      BY <1>1, <1>4, <2>2, <2>4
    <3>2. Added(c, lo, hi)[k] = Plus(Sum(c)[k], Addend(c)[k])
      BY <2>4 DEF Added
    <3> QED BY <1>1, <2>3, <2>4, <3>1, <3>2, OneMore
  <2>5. CASE ~(lo <= k /\ k < hi)
    <3>1. Added(c, lo, hi)[k] = Sum(c)[k]
      BY <2>5 DEF Added
    <3>2. (k < lo) <=> (k < hi)
      BY <1>1, <1>2, <1>4, <2>5
    <3> QED BY <2>2, <3>1, <3>2
  <2> QED BY <2>4, <2>5
<1> QED BY <1>1, <1>2, <1>3, <1>8, <1>9, <1>10
        DEF CoreInv, Ready, AddsFirst, LastRu, FirstAdded

LEMMA EndAddInv ==
  ASSUME TypeOK, NEW c \in Cores, EndAdd(c), CoreInv(c)
  PROVE  CoreInv(c)' /\ pc'[c] # "add"
<1> USE IqSumAssumption
<1> DEFINE g == job[c].group
           n == job[c].len
<1>1. /\ pc[c] = "add" /\ id[c] \in Nat /\ 0 <= id[c] /\ id[c] < NumRus /\ n \in Nat
      /\ iq_idx[c] \in Nat /\ n <= iq_idx[c] /\ id[c] >= FirstAdded
      /\ UNCHANGED <<program, avx, taken, job, iq_idx, tmp_buf, iq_buffer, payload, sent>>
  BY CoreTypes DEF EndAdd, ChunkLeft, CoreInv, AddsFirst
<1>2. \/ id'[c] = id[c] + 1 /\ pc'[c] = "decompress"
      \/ id'[c] = id[c] /\ id[c] + 1 = NumRus /\ pc'[c] = "compress"
  <2>1. NextRu(c) /\ DOMAIN pc = Cores /\ id \in [Cores -> Rus]
    BY DEF EndAdd, TypeOK
  <2>2. CASE id[c] + 1 < NumRus
    BY <2>1, <2>2 DEF NextRu
  <2>3. CASE ~(id[c] + 1 < NumRus)
    BY <1>1, <2>1, <2>3 DEF NextRu
  <2> QED BY <2>2, <2>3
<1>3. PacketsHeld(c)'
  <2>1. SUFFICES ASSUME pc'[c] = "decompress", NEW r \in Rus, Untouched(c, r)',
                        NEW k \in Index, k < n
                 PROVE  payload[c][r][k] = Sample(g, r)
    BY <1>1, <1>2 DEF PacketsHeld
  <2>2. id'[c] # 0
    BY <1>1, <1>2, <2>1
  <2>3. Untouched(c, r)
    BY <1>1, <2>1, <2>2 DEF Untouched
  <2> QED BY <1>1, <2>1, <2>3 DEF CoreInv, PacketsHeld
<1>4. SumSoFar(c)'
  <2>1. SUFFICES ASSUME Data(c), NEW k \in Index, k < n
                 PROVE  Sum(c)[k] = FirstRus(g, id[c] + 1)
    BY <1>1, <1>2 DEF SumSoFar, Summed, Data, Sum, Row
  <2>2. k < iq_idx[c]
    BY <1>1, <2>1 DEF Index
  <2> QED BY <1>1, <2>1, <2>2 DEF CoreInv, SumSoFar, SumStarted, Summed
<1> QED BY <1>1, <1>2, <1>3, <1>4
        DEF CoreInv, AddendHeld, Ready, AddsFirst, LastRu

LEMMA CompressInv ==
  ASSUME TypeOK, NEW c \in Cores, Compress(c), CoreInv(c)
  PROVE  CoreInv(c)' /\ pc'[c] # "add"
<1>1. /\ pc[c] = "compress" /\ pc'[c] = "transmit" /\ job' = job /\ program' = program
      /\ avx' = avx /\ payload'[c][0] = Sum(c)
  BY CoreTypes DEF Compress, TypeOK
<1>2. Ready(c)'
  BY <1>1 DEF Ready, Data, CoreInv, SumSoFar, SumStarted, Summed
<1> QED BY <1>1, <1>2
        DEF CoreInv, PacketsHeld, AddendHeld, SumSoFar, SumStarted, AddsFirst, LastRu

LEMMA TransmitInv ==
  ASSUME TypeOK, NEW c \in Cores, Transmit(c), CoreInv(c), DataIsExact
  PROVE  CoreInv(c)' /\ pc'[c] # "add" /\ DataIsExact'
<1>1. /\ pc[c] = "transmit" /\ pc'[c] = "idle" /\ program' = program /\ avx' = avx
      /\ sent' = sent \cup {[job |-> job[c], content |-> payload[c][0]]}
  BY DEF Transmit, TypeOK
<1>2. DataIsExact'
  BY <1>1 DEF DataIsExact, Exact, CoreInv, Ready, Data
<1> QED BY <1>1, <1>2
        DEF CoreInv, PacketsHeld, AddendHeld, SumSoFar, SumStarted, Ready, AddsFirst, LastRu

\* Each core's step keeps the invariant.
LEMMA StepInv ==
  ASSUME Inv, NEW c \in Cores, Begin(c) \/ Work(c)
  PROVE  Inv'
<1>1. TypeOK' /\ program' = program /\ avx' = avx /\ \A d \in Cores \ {c} : Same(d)
  BY Types DEF Inv
<1>2. CoreInv(c)' /\ (pc[c] = "add" => iq_idx[c] <= job[c].len)'
  BY BeginInv, DecompressInv, AddInv, EndAddInv, CompressInv, TransmitInv
     DEF Inv, InBounds, Work
<1>3. ASSUME NEW d \in Cores \ {c}
      PROVE  CoreInv(d)' /\ (pc[d] = "add" => iq_idx[d] <= job[d].len)'
  BY <1>1, Others DEF Inv, InBounds
<1>4. DataIsExact'
  <2>1. CASE Transmit(c)
    BY <2>1, TransmitInv DEF Inv
  <2>2. CASE ~Transmit(c)
    <3>1. sent' = sent
      BY <2>2 DEF Begin, Work, Decompress, AddChunk, AddOne, EndAdd, Compress
    <3> QED BY <1>1, <3>1 DEF Inv, DataIsExact, Exact
  <2> QED BY <2>1, <2>2
<1> QED BY <1>1, <1>2, <1>3, <1>4 DEF Inv, InBounds

LEMMA InitInv == Init => Inv
<1> SUFFICES ASSUME Init PROVE Inv
  OBVIOUS
<1>1. Zeros \in Array /\ 0 \in Rus /\ NoJob \in Job
  BY IqSumAssumption, Cells DEF Zeros, Array, Zero, FirstRus, Cell, Rus, NoJob, Job, Samples
<1>2. TypeOK
  <2>1. program \in Programs /\ avx \in BOOLEAN /\ taken \in 0 .. NumGroups
    BY IqSumAssumption DEF Init
  <2>2. pc \in [Cores -> {"idle", "decompress", "add", "compress", "transmit"}]
    BY DEF Init
  <2>3. job \in [Cores -> Job] /\ id \in [Cores -> Rus] /\ iq_idx \in [Cores -> Nat]
    BY <1>1 DEF Init
  <2>4. tmp_buf \in [Cores -> Array] /\ iq_buffer \in [Cores -> [Rus -> Array]]
        /\ payload \in [Cores -> [Rus -> Array]]
    BY <1>1 DEF Init
  <2> QED BY <2>1, <2>2, <2>3, <2>4 DEF Init, TypeOK
<1>3. \A c \in Cores : pc[c] = "idle"
  BY DEF Init
<1>4. program = "xdp" => ~avx
  BY DEF Init
<1> QED BY <1>2, <1>3, <1>4 DEF Inv, InBounds, CoreInv, PacketsHeld, AddendHeld, SumSoFar,
        SumStarted, Ready, AddsFirst, LastRu, Init, DataIsExact

LEMMA Invariance == Spec => []Inv
<1>1. Inv /\ UNCHANGED vars => Inv'
  BY DEF Inv, vars, TypeOK, InBounds, DataIsExact, Exact, CoreInv, PacketsHeld, AddendHeld,
         SumSoFar, SumStarted, Summed, Data, Untouched, Sum, Row, FirstAdded, Ready,
         AddsFirst, LastRu
<1>2. Inv /\ [Next]_vars => Inv'
  BY <1>1, StepInv DEF Next, Idle
<1> QED BY InitInv, <1>2, PTL DEF Spec

\* Every packet that is sent is the exact sum, one sample of each RU of its group:
\* the chunks and the rest add each place once, and cores do not share memory
\* (process_pkts and process_rcvd_pkt).
THEOREM SumsAreExact == Spec => []DataIsExact
<1>1. Inv => DataIsExact
  BY DEF Inv
<1> QED BY <1>1, Invariance, PTL

\* The loops of process_pkts and sum_arrays_avx512 stay inside the packets.
THEOREM LoopsStayInBounds == Spec => []InBounds
<1>1. Inv => InBounds
  BY DEF Inv
<1> QED BY <1>1, Invariance, PTL
=============================================================================
