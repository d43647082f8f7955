-------------------------- MODULE DasUplinkProofs --------------------------
(***************************************************************************)
(* Proofs about DasUplink, for every number of RUs, workers, ports,        *)
(* symbols and mbufs, and any loss: the types, the count of every cache    *)
(* slot and the groups in the rings, in every build and configuration; the *)
(* ownership of every mbuf and what is sent to the DU, without workers or  *)
(* in a Release build.  (In a Debug build with workers an mbuf may have    *)
(* two owners from the second frame on: run das_debug_stale_entry.)        *)
(***************************************************************************)
EXTENDS DasUplink, Integers, FiniteSetTheorems, TLAPS

\* The RUs with a packet in a row.
Filled(row) == {r \in Rus : row[r] # NULL}

\* The invariant: types, and the count of every cache slot.
CacheInv == TypeOK /\ CountMatchesCache

\* A row has a packet of every RU exactly when as many are counted.
LEMMA FilledFinite ==
  ASSUME NEW row
  PROVE  /\ IsFiniteSet(Filled(row))
         /\ Cardinality(Filled(row)) \in Nat
         /\ Cardinality(Filled(row)) <= NumRus
         /\ Cardinality(Filled(row)) = NumRus => Filled(row) = Rus
<1>1. IsFiniteSet(Rus) /\ Cardinality(Rus) = NumRus
  <2>1. NumRus - 1 \in Int /\ 0 \in Int
    BY DasAssumption
  <2>2. IsFiniteSet(0 .. NumRus - 1)
        /\ Cardinality(0 .. NumRus - 1) = IF 0 > NumRus - 1 THEN 0 ELSE NumRus - 1 - 0 + 1
    BY <2>1, FS_Interval
  <2> QED BY <2>2, DasAssumption DEF Rus
<1>2. Filled(row) \in SUBSET Rus
  BY DEF Filled
<1> QED BY <1>1, <1>2, FS_Subset, FS_CardinalityType

\* What the arrival of a packet makes of its slot.
LEMMA RowAndCount ==
  ASSUME CacheInv, NEW s \in Slots, NEW r \in Rus, NEW b \in Bufs
  PROVE  /\ RowWith(s, r, b) \in [Rus -> Bufs \cup {NULL}]
         /\ CountWith(s, r) = Cardinality(Filled(RowWith(s, r, b)))
         /\ CountWith(s, r) \in 1 .. NumRus
         /\ Complete(s, r) => \A q \in Rus : RowWith(s, r, b)[q] \in Bufs
<1> DEFINE row == cached_packets[s]
           new == RowWith(s, r, b)
<1>1. row \in [Rus -> Bufs \cup {NULL}] /\ b # NULL
  BY DasAssumption DEF CacheInv, TypeOK
<1>2. new \in [Rus -> Bufs \cup {NULL}]
  BY <1>1 DEF RowWith, EmptyRow
<1>3. r \in Filled(new)
  BY <1>1 DEF Filled, RowWith, EmptyRow
<1>4. CountWith(s, r) = Cardinality(Filled(new))
  <2>1. CASE LooksWrong(s, r)
    <3>1. Filled(new) = {r}
      BY <1>1, <2>1 DEF Filled, RowWith, EmptyRow
    <3> QED BY <3>1, <2>1, FS_Singleton DEF CountWith
  <2>2. CASE ~LooksWrong(s, r)
    <3>1. Filled(new) = Filled(row) \cup {r} /\ r \notin Filled(row)
      BY <1>1, <2>2 DEF Filled, RowWith, LooksWrong
    <3>2. Cardinality(Filled(new)) = Cardinality(Filled(row)) + 1
      BY <3>1, FilledFinite, FS_AddElement
    <3>3. cached_packets_num[s] = Cardinality(Filled(row))
      BY <2>2 DEF CacheInv, CountMatchesCache, LooksWrong, Filled
    <3> QED BY <2>2, <3>2, <3>3, FilledFinite DEF CountWith
  <2> QED BY <2>1, <2>2
<1>5. CountWith(s, r) \in 1 .. NumRus
  <2>1. Filled(new) # {} /\ IsFiniteSet(Filled(new))
    BY <1>3, FilledFinite
  <2>2. Cardinality(Filled(new)) # 0
    BY <2>1, FS_EmptySet
  <2> QED BY <1>4, <2>2, FilledFinite, DasAssumption
<1>6. Complete(s, r) => \A q \in Rus : new[q] \in Bufs
  <2>1. Complete(s, r) => Filled(new) = Rus
    BY <1>4, FilledFinite DEF Complete
  <2> QED BY <1>2, <2>1 DEF Filled
<1> QED BY <1>2, <1>4, <1>5, <1>6

LEMMA FreeAllType ==
  ASSUME TypeOK, NEW S
  PROVE  FreeAll(S) \in [Bufs -> Nat]
BY DEF FreeAll, TypeOK

\* The DU's streams stay streams of groups.
LEMMA ProcessType ==
  ASSUME TypeOK, NEW row \in [Rus -> Bufs], NEW ok \in BOOLEAN, process_pkts(row, ok)
  PROVE  to_du' \in [Ports -> Seq(Groups)]
<1> DEFINE group == [r \in Rus |-> content[row[r]]]
<1>1. group \in Groups
  BY DEF TypeOK, Groups
<1>2. CASE ok
  <2> DEFINE e == group[0].port
  <2>1. to_du' = [to_du EXCEPT ![e] = Append(@, group)]
    BY <1>2 DEF process_pkts
  <2> HIDE DEF e, group
  <2>2. \A p \in Ports : to_du[p] \in Seq(Groups)
    BY DEF TypeOK
  <2>3. \A p \in Ports : Append(to_du[p], group) \in Seq(Groups)
    BY <1>1, <2>2
  <2>4. to_du' = [p \in Ports |-> IF p = e THEN Append(to_du[p], group) ELSE to_du[p]]
    BY <2>1 DEF TypeOK
  <2> QED BY <2>2, <2>3, <2>4
<1>3. CASE ~ok
  BY <1>3 DEF process_pkts, TypeOK
<1> QED BY <1>2, <1>3


\* The cache after an action that leaves slot s with a row and a count.
LEMMA CacheUpdate ==
  ASSUME CacheInv, NEW s \in Slots,
         NEW row \in [Rus -> Bufs \cup {NULL}], NEW n \in 0 .. NumRus - 1,
         cached_packets' = [cached_packets EXCEPT ![s] = row],
         cached_packets_num' = [cached_packets_num EXCEPT ![s] = n],
         \/ n = Cardinality(Filled(row))
         \/ n = 0 /\ WorkerOf(s[1]) # 0 /\ \A r \in Rus : row[r] # NULL
  PROVE  /\ cached_packets' \in [Slots -> [Rus -> Bufs \cup {NULL}]]
         /\ cached_packets_num' \in [Slots -> 0 .. NumRus - 1]
         /\ CountMatchesCache'
<1>1. /\ cached_packets \in [Slots -> [Rus -> Bufs \cup {NULL}]]
      /\ cached_packets_num \in [Slots -> 0 .. NumRus - 1]
  BY DEF CacheInv, TypeOK
<1>2. ASSUME NEW t \in Slots
      PROVE  \/ /\ cached_packets_num'[t] = Cardinality(Filled(cached_packets'[t]))
                /\ cached_packets_num'[t] < NumRus
             \/ /\ cached_packets_num'[t] = 0
                /\ WorkerOf(t[1]) # 0
                /\ \A r \in Rus : cached_packets'[t][r] # NULL
  <2>1. CASE t = s
    BY <1>1, <2>1, DasAssumption
  <2>2. CASE t # s
    BY <1>1, <2>2 DEF CacheInv, CountMatchesCache, Filled
  <2> QED BY <2>1, <2>2
<1> QED BY <1>1, <1>2 DEF CountMatchesCache, Filled

\* An action that leaves the cache alone keeps its counts.
LEMMA CacheUnchanged ==
  ASSUME CacheInv, UNCHANGED <<cached_packets, cached_packets_num>>
  PROVE  CountMatchesCache'
BY DEF CacheInv, CountMatchesCache

-----------------------------------------------------------------------------
(* Every action preserves CacheInv.                                        *)

LEMMA CacheInit == Init => CacheInv
<1> SUFFICES ASSUME Init PROVE CacheInv
  OBVIOUS
<1>1. TypeOK
  BY DasAssumption DEF Init, TypeOK, EmptyRow, Frames
<1>2. CountMatchesCache
  <2>1. ASSUME NEW s \in Slots PROVE {r \in Rus : cached_packets[s][r] # NULL} = {}
    BY DEF Init, EmptyRow
  <2>2. Cardinality({}) = 0
    BY FS_EmptySet
  <2>3. ASSUME NEW s \in Slots PROVE cached_packets_num[s] = 0 /\ 0 < NumRus
    BY DasAssumption DEF Init
  <2>4. ASSUME NEW s \in Slots
        PROVE  cached_packets_num[s] = Cardinality({r \in Rus : cached_packets[s][r] # NULL})
    BY <2>1, <2>2, <2>3
  <2> QED BY <2>3, <2>4 DEF CountMatchesCache
<1> QED BY <1>1, <1>2 DEF CacheInv

\* What all the ways of handling a packet have in common.
LEMMA TakesType ==
  ASSUME TypeOK, NEW r \in Rus, NEW b \in Bufs, NEW s \in Slots, Takes(r, b, s)
  PROVE  rxq' \in [Rus -> Seq(Bufs)] /\ num_errors' \in Nat
<1>1. rxq[r] \in Seq(Bufs) /\ rxq[r] # <<>>
  BY DEF TypeOK, Takes
<1>2. Tail(rxq[r]) \in Seq(Bufs)
  BY <1>1
<1> QED BY <1>2 DEF TypeOK, Takes

LEMMA CacheFreeForeign ==
  ASSUME CacheInv, NEW r \in Rus, FreeForeign(r)
  PROVE  CacheInv'
<1>1. rxq[r] \in Seq(Bufs) /\ rxq[r] # <<>>
  BY DEF CacheInv, TypeOK, FreeForeign
<1>2. rxq' \in [Rus -> Seq(Bufs)]
  BY <1>1 DEF CacheInv, TypeOK, FreeForeign
<1>3. pool' \in [Bufs -> Nat]
  BY FreeAllType DEF CacheInv, FreeForeign
<1>4. CountMatchesCache'
  BY CacheUnchanged DEF FreeForeign
<1> QED BY <1>2, <1>3, <1>4 DEF CacheInv, TypeOK, FreeForeign, workerVars, envVars

\* Storing a packet: the first of its RU in the row counts one more;
\* an eviction starts the row again, with this one.
LEMMA CacheStorePacket ==
  ASSUME CacheInv, NEW r \in Rus, StorePacket(r)
  PROVE  CacheInv'
<1> PICK b \in Bufs, s \in Slots :
      /\ Takes(r, b, s)
      /\ ~Complete(s, r)
      /\ cached_packets' = [cached_packets EXCEPT ![s] = RowWith(s, r, b)]
      /\ cached_packets_num' = [cached_packets_num EXCEPT ![s] = CountAfter(s, r)]
      /\ pool' = FreeAll(Evicted(s, r))
      /\ UNCHANGED <<content, alive, workerVars, envVars, to_du>>
  BY DEF StorePacket
<1>1. /\ RowWith(s, r, b) \in [Rus -> Bufs \cup {NULL}]
      /\ CountAfter(s, r) = Cardinality(Filled(RowWith(s, r, b)))
      /\ CountAfter(s, r) \in 0 .. NumRus - 1
  <2>1. /\ RowWith(s, r, b) \in [Rus -> Bufs \cup {NULL}]
        /\ CountWith(s, r) = Cardinality(Filled(RowWith(s, r, b)))
        /\ CountWith(s, r) \in 1 .. NumRus
    BY RowAndCount
  <2>2. CountWith(s, r) # NumRus /\ CountAfter(s, r) = CountWith(s, r)
    BY DEF CountAfter, Complete
  <2> QED BY <2>1, <2>2, DasAssumption
<1>2. /\ cached_packets' \in [Slots -> [Rus -> Bufs \cup {NULL}]]
      /\ cached_packets_num' \in [Slots -> 0 .. NumRus - 1]
      /\ CountMatchesCache'
  BY <1>1, CacheUpdate
<1>3. rxq' \in [Rus -> Seq(Bufs)] /\ num_errors' \in Nat
  BY TakesType DEF CacheInv
<1>4. pool' \in [Bufs -> Nat]
  BY FreeAllType DEF CacheInv
<1> QED BY <1>2, <1>3, <1>4 DEF CacheInv, TypeOK, workerVars, envVars

\* Combining empties the row.
LEMMA CacheMergeLocally ==
  ASSUME CacheInv, NEW r \in Rus, MergeLocally(r)
  PROVE  CacheInv'
<1> PICK b \in Bufs, s \in Slots, sentOK \in TxOutcomes :
      /\ Takes(r, b, s)
      /\ Complete(s, r)
      /\ cached_packets_num' = [cached_packets_num EXCEPT ![s] = CountAfter(s, r)]
      /\ process_pkts(RowWith(s, r, b), sentOK)
      /\ cached_packets' = [cached_packets EXCEPT ![s] = Cleared(@)]
      /\ pool' = FreeAll(Evicted(s, r) \cup InRow(RowWith(s, r, b)))
      /\ alive' = (Asserts => sentOK)
      /\ UNCHANGED <<content, workerVars, envVars>>
  BY DEF MergeLocally
<1>1. RowWith(s, r, b) \in [Rus -> Bufs]
  BY RowAndCount
<1>2. to_du' \in [Ports -> Seq(Groups)]
  BY <1>1, ProcessType DEF CacheInv, TxOutcomes
<1>3. /\ cached_packets' \in [Slots -> [Rus -> Bufs \cup {NULL}]]
      /\ cached_packets_num' \in [Slots -> 0 .. NumRus - 1]
      /\ CountMatchesCache'
  <2> DEFINE row == [q \in Rus |-> NULL]
  <2>1. row \in [Rus -> Bufs \cup {NULL}] /\ 0 \in 0 .. NumRus - 1
    BY DasAssumption
  <2>2. Filled(row) = {} /\ Cardinality(Filled(row)) = 0
    BY FS_EmptySet DEF Filled
  <2>3. cached_packets' = [cached_packets EXCEPT ![s] = row]
    BY DEF Cleared
  <2>4. cached_packets_num' = [cached_packets_num EXCEPT ![s] = 0]
    BY DEF CountAfter
  <2> HIDE DEF row
  <2> QED BY <2>1, <2>2, <2>3, <2>4, CacheUpdate
<1>4. rxq' \in [Rus -> Seq(Bufs)] /\ num_errors' \in Nat
  BY TakesType DEF CacheInv
<1>5. pool' \in [Bufs -> Nat]
  BY FreeAllType DEF CacheInv
<1> QED BY <1>2, <1>3, <1>4, <1>5 DEF CacheInv, TypeOK, workerVars, envVars

LEMMA CachePushToWorker ==
  ASSUME CacheInv, NEW r \in Rus, PushToWorker(r)
  PROVE  CacheInv'
<1> PICK b \in Bufs, s \in Slots :
      LET w == WorkerOf(s[1])
          row == RowWith(s, r, b)
          free == RingCap - Len(ru_ring[w])
          burst == IF NumRus <= free THEN NumRus ELSE free
      IN
      /\ Takes(r, b, s)
      /\ Complete(s, r)
      /\ w \in Workers
      /\ cached_packets_num' = [cached_packets_num EXCEPT ![s] = CountAfter(s, r)]
      /\ cached_packets' = [cached_packets EXCEPT ![s] = row]
      /\ pool' = FreeAll(Evicted(s, r))
      /\ ru_ring' = IF Asserts
                    THEN [ru_ring EXCEPT ![w] = @ \o SubSeq(AsBurst(row), 1, burst)]
                    ELSE ru_ring
      /\ alive' = (Asserts => EnqueuedAll(burst))
      /\ UNCHANGED <<content, bufs, envVars, to_du>>
  BY DEF PushToWorker
<1> DEFINE w == WorkerOf(s[1])
           row == RowWith(s, r, b)
           free == RingCap - Len(ru_ring[w])
           burst == IF NumRus <= free THEN NumRus ELSE free
<1>1. /\ row \in [Rus -> Bufs]
      /\ w \in Workers
      /\ \A q \in Rus : row[q] # NULL
  <2>1. row \in [Rus -> Bufs \cup {NULL}] /\ \A q \in Rus : row[q] \in Bufs
    BY RowAndCount
  <2> QED BY <2>1, DasAssumption
<1>2. ru_ring' \in [Workers -> Seq(Bufs)]
  <2>1. ru_ring[w] \in Seq(Bufs) /\ free \in Int /\ burst \in Int /\ burst <= NumRus
    BY <1>1, DasAssumption DEF CacheInv, TypeOK
  <2>2. AsBurst(row) \in [1 .. NumRus -> Bufs]
    BY <1>1, DasAssumption DEF AsBurst, Rus
  <2>3. AsBurst(row) \in Seq(Bufs) /\ Len(AsBurst(row)) = NumRus
    BY <2>2, DasAssumption
  <2> HIDE DEF w, row, free, burst
  <2>4. SubSeq(AsBurst(row), 1, burst) \in Seq(Bufs)
    BY <2>1, <2>3
  <2>5. ru_ring[w] \o SubSeq(AsBurst(row), 1, burst) \in Seq(Bufs)
    BY <2>1, <2>4
  <2>6. ru_ring' = IF Asserts
                   THEN [ru_ring EXCEPT ![w] = @ \o SubSeq(AsBurst(row), 1, burst)]
                   ELSE ru_ring
    BY DEF w, row, free, burst
  <2> QED BY <1>1, <2>5, <2>6 DEF CacheInv, TypeOK
<1>3. /\ cached_packets' \in [Slots -> [Rus -> Bufs \cup {NULL}]]
      /\ cached_packets_num' \in [Slots -> 0 .. NumRus - 1]
      /\ CountMatchesCache'
  <2>1. row \in [Rus -> Bufs \cup {NULL}] /\ 0 \in 0 .. NumRus - 1
    BY <1>1, DasAssumption
  <2>2. w # 0
    BY <1>1, DasAssumption DEF Workers
  <2>3. cached_packets_num' = [cached_packets_num EXCEPT ![s] = 0]
    BY DEF CountAfter
  <2>4. cached_packets' = [cached_packets EXCEPT ![s] = row]
    OBVIOUS
  <2> HIDE DEF row
  <2> QED BY <1>1, <2>1, <2>2, <2>3, <2>4, CacheUpdate
<1>4. rxq' \in [Rus -> Seq(Bufs)] /\ num_errors' \in Nat
  BY TakesType DEF CacheInv
<1>5. pool' \in [Bufs -> Nat]
  BY FreeAllType DEF CacheInv
<1>6. alive' \in BOOLEAN
  BY DEF EnqueuedAll
<1> QED BY <1>2, <1>3, <1>4, <1>5, <1>6 DEF CacheInv, TypeOK, envVars

LEMMA CacheDequeueGroup ==
  ASSUME CacheInv, NEW w \in Workers, DequeueGroup(w)
  PROVE  CacheInv'
<1> DEFINE n == IF Len(ru_ring[w]) < NumRus THEN Len(ru_ring[w]) ELSE NumRus
<1>1. ru_ring[w] \in Seq(Bufs) /\ n \in Nat /\ n <= Len(ru_ring[w]) /\ n <= NumRus
  BY DasAssumption DEF CacheInv, TypeOK
<1>2. SubSeq(ru_ring[w], n + 1, Len(ru_ring[w])) \in Seq(Bufs)
  BY <1>1
<1>3. n = NumRus => SubSeq(ru_ring[w], 1, n) \in [1 .. NumRus -> Bufs]
  <2> HIDE DEF n
  <2> SUFFICES ASSUME n = NumRus PROVE SubSeq(ru_ring[w], 1, n) \in [1 .. NumRus -> Bufs]
    OBVIOUS
  <2>1. SubSeq(ru_ring[w], 1, n) = [i \in 1 .. n |-> ru_ring[w][i]]
    BY <1>1
  <2>2. \A i \in 1 .. n : ru_ring[w][i] \in Bufs
    BY <1>1
  <2> QED BY <2>1, <2>2
<1>4. ru_ring' \in [Workers -> Seq(Bufs)]
  BY <1>2 DEF CacheInv, TypeOK, DequeueGroup
<1>5. bufs' \in [Workers -> {<<>>} \cup [1 .. NumRus -> Bufs]]
  BY <1>1, <1>3, DasAssumption DEF CacheInv, TypeOK, DequeueGroup
<1>6. CountMatchesCache'
  BY CacheUnchanged DEF DequeueGroup
<1> QED BY <1>4, <1>5, <1>6 DEF CacheInv, TypeOK, DequeueGroup, envVars

LEMMA CacheProcessGroup ==
  ASSUME CacheInv, NEW w \in Workers, ProcessGroup(w)
  PROVE  CacheInv'
<1> DEFINE ul_pkts == [r \in Rus |-> bufs[w][r + 1]]
<1>1. PICK sentOK \in TxOutcomes : process_pkts(ul_pkts, sentOK)
  BY DEF ProcessGroup
<1>2. ul_pkts \in [Rus -> Bufs]
  <2>1. bufs[w] \in [1 .. NumRus -> Bufs]
    BY DEF CacheInv, TypeOK, ProcessGroup
  <2> QED BY <2>1, DasAssumption DEF Rus
<1>3. to_du' \in [Ports -> Seq(Groups)]
  BY <1>1, <1>2, ProcessType DEF CacheInv, TxOutcomes
<1>4. pool' \in [Bufs -> Nat]
  BY FreeAllType DEF CacheInv, ProcessGroup
<1>5. CountMatchesCache'
  BY CacheUnchanged DEF ProcessGroup
<1> QED BY <1>3, <1>4, <1>5 DEF CacheInv, TypeOK, ProcessGroup, envVars

\* The environment fills mbufs but never touches the cache.
LEMMA CacheNicReceive ==
  ASSUME TypeOK, NEW r \in Rus, NEW p \in Packet \cup {FOREIGN}, NicReceive(r, p)
  PROVE  /\ pool' \in [Bufs -> Nat]
         /\ content' \in [Bufs -> Packet \cup {FOREIGN}]
         /\ rxq' \in [Rus -> Seq(Bufs)]
<1> PICK b \in Bufs :
      /\ pool[b] > 0
      /\ pool' = [pool EXCEPT ![b] = @ - 1]
      /\ content' = [content EXCEPT ![b] = p]
      /\ rxq' = [rxq EXCEPT ![r] = Append(@, b)]
  BY DEF NicReceive
<1>1. Append(rxq[r], b) \in Seq(Bufs)
  BY DEF TypeOK
<1> QED BY <1>1 DEF TypeOK

LEMMA PacketType ==
  ASSUME TypeOK, NEW r \in Rus, NEW s \in Slots
  PROVE  UplinkPacket(r, s, frame) \in Packet
BY DEF UplinkPacket, Packet, TypeOK, Slots

LEMMA CacheEnvironment ==
  ASSUME CacheInv,
         \/ \E r \in Rus, s \in Slots : Send(r, s) \/ Lose(r, s)
         \/ \E r \in Rus : SendForeign(r)
         \/ NextFrame
         \/ Spin
  PROVE  CacheInv'
<1>1. ASSUME NEW r \in Rus, NEW s \in Slots, Send(r, s)
      PROVE  CacheInv'
  <2>1. /\ pool' \in [Bufs -> Nat]
        /\ content' \in [Bufs -> Packet \cup {FOREIGN}]
        /\ rxq' \in [Rus -> Seq(Bufs)]
    BY <1>1, CacheNicReceive, PacketType DEF CacheInv, Send
  <2>2. CountMatchesCache'
    BY <1>1, CacheUnchanged DEF Send, NicReceive
  <2> QED BY <1>1, <2>1, <2>2 DEF CacheInv, TypeOK, Send, NicReceive, workerVars
<1>2. ASSUME NEW r \in Rus, NEW s \in Slots, Lose(r, s)
      PROVE  CacheInv'
  <2>1. CountMatchesCache'
    BY <1>2, CacheUnchanged DEF Lose, mainVars
  <2>2. lost' \subseteq Packet
    BY <1>2, PacketType DEF CacheInv, TypeOK, Lose
  <2> QED BY <1>2, <2>1, <2>2 DEF CacheInv, TypeOK, Lose, mainVars, workerVars
<1>3. ASSUME NEW r \in Rus, SendForeign(r)
      PROVE  CacheInv'
  <2>1. /\ pool' \in [Bufs -> Nat]
        /\ content' \in [Bufs -> Packet \cup {FOREIGN}]
        /\ rxq' \in [Rus -> Seq(Bufs)]
    BY <1>3, CacheNicReceive DEF CacheInv, SendForeign
  <2>2. CountMatchesCache'
    BY <1>3, CacheUnchanged DEF SendForeign, NicReceive
  <2>3. foreign' \in 0 .. MaxForeign
    BY <1>3, DasAssumption DEF CacheInv, TypeOK, SendForeign
  <2> QED BY <1>3, <2>1, <2>2, <2>3 DEF CacheInv, TypeOK, SendForeign, NicReceive, workerVars
<1>4. CASE NextFrame
  <2>1. CountMatchesCache'
    BY <1>4, CacheUnchanged DEF NextFrame, mainVars
  <2>2. frame' \in Frames /\ sent' \in [Rus -> SUBSET Slots]
    BY <1>4, DasAssumption DEF CacheInv, TypeOK, NextFrame, Frames
  <2> QED BY <1>4, <2>1, <2>2 DEF CacheInv, TypeOK, NextFrame, mainVars, workerVars
<1>5. CASE Spin
  <2>1. CountMatchesCache'
    BY <1>5, CacheUnchanged DEF Spin, vars, mainVars
  <2> QED BY <1>5, <2>1 DEF CacheInv, TypeOK, Spin, vars, mainVars, workerVars, envVars
<1> QED BY <1>1, <1>2, <1>3, <1>4, <1>5

LEMMA CacheNext == CacheInv /\ [Next]_vars => CacheInv'
<1> SUFFICES ASSUME CacheInv, [Next]_vars PROVE CacheInv'
  OBVIOUS
<1>1. ASSUME NEW r \in Rus, HandleRu(r) PROVE CacheInv'
  BY <1>1, CacheFreeForeign, CacheStorePacket, CacheMergeLocally, CachePushToWorker
     DEF HandleRu
<1>2. ASSUME NEW w \in Workers, Worker(w) PROVE CacheInv'
  BY <1>2, CacheDequeueGroup, CacheProcessGroup DEF Worker
<1>3. CASE UNCHANGED vars
  <2>1. CountMatchesCache'
    BY <1>3, CacheUnchanged DEF vars, mainVars
  <2> QED BY <1>3, <2>1 DEF CacheInv, TypeOK, vars, mainVars, workerVars, envVars
<1> QED BY <1>1, <1>2, <1>3, CacheEnvironment DEF Next

-----------------------------------------------------------------------------

\* In every state every variable has its type: in particular a worker never
\* holds part of a group, and no count reaches the number of RUs.
THEOREM TypeCorrect == Spec => []TypeOK
<1>1. CacheInv => TypeOK
  BY DEF CacheInv
<1> QED BY CacheInit, CacheNext, <1>1, PTL DEF Spec

\* The counter of every slot of cached_packets tells how many packets the
\* slot holds, in both builds and whatever is lost, evicted or refused.
THEOREM CountCorrect == Spec => []CountMatchesCache
<1>1. CacheInv => CountMatchesCache
  BY DEF CacheInv
<1> QED BY CacheInit, CacheNext, <1>1, PTL DEF Spec

-----------------------------------------------------------------------------
(* The rings hold whole groups                                             *)

\* The length of a ring is a multiple of the number of RUs.
LEMMA Multiples ==
  ASSUME NEW n \in Nat \ {0}, NEW k \in Nat
  PROVE  /\ k * n \in Nat /\ (k * n) % n = 0
         /\ (k + 1) * n = k * n + n
         /\ k # 0 => k * n >= n /\ k - 1 \in Nat /\ (k - 1) * n = k * n - n
<1>1. k * n \in Nat /\ (k + 1) * n = k * n + n /\ (k - 1) * n = k * n - n
  OBVIOUS
<1>2. (k * n) % n = 0
  OBVIOUS
<1>3. k # 0 => k * n >= n
  OBVIOUS
<1> QED BY <1>1, <1>2, <1>3

RingsWhole == alive => \A w \in Workers : \E k \in Nat : Len(ru_ring[w]) = k * NumRus

LEMMA RingsUnchanged ==
  ASSUME RingsWhole, ru_ring' = ru_ring, alive' => alive
  PROVE  RingsWhole'
BY DEF RingsWhole

\* A group enters a ring whole, or an assertion fails,
LEMMA PushKeepsGroups ==
  ASSUME TypeOK, RingsWhole, NEW r \in Rus, PushToWorker(r)
  PROVE  RingsWhole'
<1>1. PICK b \in Bufs, s \in Slots :
        LET w == WorkerOf(s[1])
            row == RowWith(s, r, b)
            free == RingCap - Len(ru_ring[w])
            burst == IF NumRus <= free THEN NumRus ELSE free
        IN  /\ alive /\ w \in Workers
            /\ ru_ring' = IF Asserts
                          THEN [ru_ring EXCEPT ![w] = @ \o SubSeq(AsBurst(row), 1, burst)]
                          ELSE ru_ring
            /\ alive' = (Asserts => EnqueuedAll(burst))
  BY DEF PushToWorker, Takes
<1>2. CASE ~Asserts \/ ~alive'
  BY <1>1, <1>2, RingsUnchanged DEF RingsWhole
<1>3. CASE Asserts /\ alive'
  <2> DEFINE w == WorkerOf(s[1])
             all == AsBurst(RowWith(s, r, b))
  <2>1. w \in Workers /\ NumRus \in Nat /\ alive
    BY <1>1, DasAssumption
  <2>2. ru_ring' = [ru_ring EXCEPT ![w] = @ \o SubSeq(all, 1, NumRus)]
    BY <1>1, <1>3 DEF EnqueuedAll
  <2>3. PICK S : S = {RowWith(s, r, b)[i - 1] : i \in 1 .. NumRus}
    OBVIOUS
  <2>4. all \in [1 .. NumRus -> S]
    BY <2>3 DEF AsBurst
  <2> HIDE DEF all, w
  <2>5. all \in Seq(S) /\ Len(all) = NumRus
    BY <2>4, <2>1
  <2>6. SubSeq(all, 1, NumRus) \in Seq(S) /\ Len(SubSeq(all, 1, NumRus)) = NumRus
    BY <2>1, <2>5
  <2>7. ru_ring \in [Workers -> Seq(Bufs)]
    BY DEF TypeOK
  <2>8. Len(ru_ring'[w]) = Len(ru_ring[w]) + NumRus
    <3>1. ru_ring'[w] = ru_ring[w] \o SubSeq(all, 1, NumRus)
      BY <2>1, <2>2, <2>7
    <3>2. ru_ring[w] \in Seq(Bufs)
      BY <2>1, <2>7
    <3> HIDE DEF w
    <3> QED BY <2>6, <3>1, <3>2
  <2>9. ASSUME NEW v \in Workers
        PROVE  \E k \in Nat : Len(ru_ring'[v]) = k * NumRus
    <3>1. PICK k \in Nat : Len(ru_ring[v]) = k * NumRus
      BY <2>1 DEF RingsWhole
    <3>2. CASE v # w
      BY <2>2, <2>7, <3>1, <3>2
    <3>3. CASE v = w
      <4>1. (k + 1) * NumRus = k * NumRus + NumRus /\ k + 1 \in Nat
        BY DasAssumption, Multiples
      <4> QED BY <2>8, <3>1, <3>3, <4>1
    <3> QED BY <3>2, <3>3
  <2> QED BY <2>9 DEF RingsWhole
<1> QED BY <1>2, <1>3 DEF TypeOK

\* and leaves it whole.
LEMMA DequeueKeepsGroups ==
  ASSUME TypeOK, RingsWhole, NEW w \in Workers, DequeueGroup(w)
  PROVE  RingsWhole'
<1>1. /\ alive /\ ru_ring[w] # <<>> /\ ru_ring \in [Workers -> Seq(Bufs)]
      /\ ru_ring[w] \in Seq(Bufs) /\ NumRus \in Nat \ {0}
  BY DasAssumption DEF DequeueGroup, TypeOK
<1>2. PICK k \in Nat : Len(ru_ring[w]) = k * NumRus
  BY <1>1 DEF RingsWhole
<1>3. k # 0
  BY <1>1, <1>2
<1>4. /\ Len(ru_ring[w]) >= NumRus /\ k - 1 \in Nat
      /\ Len(ru_ring[w]) - NumRus = (k - 1) * NumRus
  BY <1>1, <1>2, <1>3, Multiples
<1>5. ~(Len(ru_ring[w]) < NumRus)
  BY <1>1, <1>4
<1>6. ru_ring' = [ru_ring EXCEPT ![w] = SubSeq(@, NumRus + 1, Len(@))]
  BY <1>5 DEF DequeueGroup
<1>7. Len(ru_ring'[w]) = Len(ru_ring[w]) - NumRus
  <2>1. ru_ring'[w] = SubSeq(ru_ring[w], NumRus + 1, Len(ru_ring[w]))
    BY <1>1, <1>6
  <2> QED BY <1>1, <1>4, <2>1
<1>8. \A v \in Workers \ {w} : ru_ring'[v] = ru_ring[v]
  BY <1>1, <1>6
<1> QED BY <1>1, <1>4, <1>7, <1>8 DEF RingsWhole

LEMMA RingsStep ==
  ASSUME TypeOK, RingsWhole, [Next]_vars
  PROVE  RingsWhole'
<1>1. ASSUME NEW r \in Rus, HandleRu(r)
      PROVE  RingsWhole'
  <2>1. CASE PushToWorker(r)
    BY <2>1, PushKeepsGroups
  <2>2. CASE FreeForeign(r) \/ StorePacket(r) \/ MergeLocally(r)
    BY <2>2, RingsUnchanged DEF FreeForeign, StorePacket, MergeLocally, Takes, workerVars
  <2> QED BY <1>1, <2>1, <2>2 DEF HandleRu
<1>2. ASSUME NEW w \in Workers, Worker(w)
      PROVE  RingsWhole'
  BY <1>2, DequeueKeepsGroups, RingsUnchanged DEF Worker, ProcessGroup
<1>3. ASSUME NEW r \in Rus, NEW s \in Slots, Send(r, s) \/ Lose(r, s)
      PROVE  RingsWhole'
  BY <1>3, RingsUnchanged DEF Send, NicReceive, Lose, mainVars, workerVars
<1>4. CASE NextFrame \/ Spin \/ UNCHANGED vars
  BY <1>4, RingsUnchanged DEF NextFrame, Spin, vars, mainVars, workerVars
<1>5. ASSUME NEW r \in Rus, SendForeign(r)
      PROVE  RingsWhole'
  BY <1>5, RingsUnchanged DEF SendForeign, NicReceive, workerVars
<1> QED BY <1>1, <1>2, <1>3, <1>4, <1>5 DEF Next

\* Until an assertion fails, the ring of a worker holds whole groups: a worker
\* that finds a group in its ring finds all of it.
THEOREM RingsHoldGroups == Spec => []WholeGroupsInRings
<1>1. Init => RingsWhole
  <2>1. 0 * NumRus = 0 /\ Len(<<>>) = 0
    BY DasAssumption
  <2> QED BY <2>1 DEF Init, RingsWhole
<1>2. CacheInv => TypeOK
  BY DEF CacheInv
<1>3. TypeOK /\ RingsWhole /\ [Next]_vars => RingsWhole'
  BY RingsStep
<1>4. RingsWhole => WholeGroupsInRings
  <2>1. \A k \in Nat : (k * NumRus) % NumRus = 0
    BY DasAssumption, Multiples
  <2> QED BY <2>1 DEF RingsWhole, WholeGroupsInRings
<1> QED BY CacheInit, CacheNext, <1>1, <1>2, <1>3, <1>4, PTL DEF Spec

-----------------------------------------------------------------------------
(* Who owns an mbuf, without workers or in a Release build                 *)

Queued(b) == \E i \in 1 .. Len(rxq[PoolOf[b]]) : rxq[PoolOf[b]][i] = b
CachedAt(b, s) == cached_packets[s][PoolOf[b]] = b
Cached(b) == \E s \in Slots : CachedAt(b, s)

\* RX queues and cache rows hold mbufs of their RU, each once.
QueuesInv == \A r \in Rus :
  /\ \A i \in 1 .. Len(rxq[r]) : PoolOf[rxq[r][i]] = r
  /\ \A i, j \in 1 .. Len(rxq[r]) : rxq[r][i] = rxq[r][j] => i = j
RowsInv == \A s \in Slots, r \in Rus : cached_packets[s][r] # NULL =>
  /\ PoolOf[cached_packets[s][r]] = r
  /\ \A t \in Slots : cached_packets[t][r] = cached_packets[s][r] => t = s

\* An mbuf is free, or in a queue, or in the cache.
PlacesInv == \A b \in Bufs :
  /\ pool[b] \in {0, 1}
  /\ pool[b] = 1 <=> ~Queued(b) /\ ~Cached(b)
  /\ ~(Queued(b) /\ Cached(b))

RingsEmpty == \A w \in Workers : ru_ring[w] = <<>> /\ bufs[w] = <<>>

OwnInv == QueuesInv /\ RowsInv /\ PlacesInv /\ RingsEmpty

-----------------------------------------------------------------------------
(* The parts of a handler                                                  *)

\* The mbuf at the head of an RX queue is nowhere else, and leaves the queue.
LEMMA HeadLeaves ==
  ASSUME TypeOK, OwnInv, NEW r \in Rus, rxq[r] # <<>>, rxq' = [rxq EXCEPT ![r] = Tail(@)]
  PROVE  LET b == Head(rxq[r])
         IN  /\ b \in Bufs /\ PoolOf[b] = r /\ Queued(b) /\ ~Cached(b) /\ pool[b] = 0
             /\ QueuesInv'
             /\ \A c \in Bufs : Queued(c)' <=> Queued(c) /\ c # b
<1> DEFINE q == rxq[r]
           b == Head(q)
           t == Tail(q)
<1>1. q \in Seq(Bufs) /\ q # <<>> /\ rxq \in [Rus -> Seq(Bufs)]
  BY DEF TypeOK
<1>2. b \in Bufs /\ b = q[1] /\ 1 \in 1 .. Len(q)
  BY <1>1
<1>3. /\ t \in Seq(Bufs) /\ Len(t) = Len(q) - 1
      /\ \A i \in 1 .. Len(q) - 1 : i + 1 \in 1 .. Len(q) /\ t[i] = q[i + 1]
  BY <1>1
<1>4. /\ \A i \in 1 .. Len(q) : PoolOf[q[i]] = r
      /\ \A i, j \in 1 .. Len(q) : q[i] = q[j] => i = j
  BY DEF OwnInv, QueuesInv
<1>5. PoolOf[b] = r /\ Queued(b)
  BY <1>2, <1>4 DEF Queued
<1>6. ~Cached(b) /\ pool[b] = 0
  BY <1>2, <1>5 DEF OwnInv, PlacesInv
<1>7. rxq'[r] = t /\ \A p \in Rus \ {r} : rxq'[p] = rxq[p]
  BY <1>1
<1> HIDE DEF q, b, t
<1>8. QueuesInv'
  <2>1. \A i \in 1 .. Len(t) : PoolOf[t[i]] = r
    BY <1>3, <1>4
  <2>2. ASSUME NEW i \in 1 .. Len(t), NEW j \in 1 .. Len(t), t[i] = t[j]
        PROVE  i = j
    <3>1. i + 1 \in 1 .. Len(q) /\ j + 1 \in 1 .. Len(q) /\ q[i + 1] = q[j + 1]
      BY <1>3, <2>2
    <3>2. i + 1 = j + 1
      BY <1>4, <3>1
    <3> QED BY <3>2
  <2> DEFINE Own(s, p) == /\ \A i \in 1 .. Len(s) : PoolOf[s[i]] = p
                          /\ \A i, j \in 1 .. Len(s) : s[i] = s[j] => i = j
  <2>3. Own(t, r)
    BY <2>1, <2>2
  <2>4. \A p \in Rus : Own(rxq[p], p)
    BY DEF OwnInv, QueuesInv
  <2> HIDE DEF Own
  <2>5. \A p \in Rus : Own(rxq'[p], p)
    BY <1>7, <2>3, <2>4
  <2> QED BY <2>5 DEF QueuesInv, Own
<1>9. ASSUME NEW c \in Bufs
      PROVE  Queued(c)' <=> Queued(c) /\ c # b
  <2>1. PoolOf[c] \in Rus
    BY DasAssumption
  <2>2. CASE PoolOf[c] # r
    BY <1>5, <1>7, <2>1, <2>2 DEF Queued
  <2>3. CASE PoolOf[c] = r
    <3>1. Queued(c) <=> \E i \in 1 .. Len(q) : q[i] = c
      BY <2>3 DEF Queued, q
    <3>2. Queued(c)' <=> \E i \in 1 .. Len(q) - 1 : q[i + 1] = c
      <4>1. Queued(c)' <=> \E i \in 1 .. Len(t) : t[i] = c
        BY <1>7, <2>3 DEF Queued
      <4> QED BY <1>3, <4>1
    <3>3. ASSUME NEW i \in 1 .. Len(q), q[i] = c, c # b
          PROVE  \E j \in 1 .. Len(q) - 1 : q[j + 1] = c
      <4>1. i # 1 /\ Len(q) \in Nat
        BY <1>1, <1>2, <3>3
      <4>2. i - 1 \in 1 .. Len(q) - 1 /\ (i - 1) + 1 = i
        BY <4>1
      <4> QED BY <3>3, <4>2
    <3>4. ASSUME NEW i \in 1 .. Len(q) - 1, q[i + 1] = c
          PROVE  (\E j \in 1 .. Len(q) : q[j] = c) /\ c # b
      BY <1>1, <1>2, <1>3, <1>4, <3>4
    <3> QED BY <3>1, <3>2, <3>3, <3>4
  <2> QED BY <2>2, <2>3
<1> QED BY <1>2, <1>5, <1>6, <1>8, <1>9 DEF q, b

\* The mbufs of a row are those cached there.
LEMMA RowOf ==
  ASSUME TypeOK, OwnInv, NEW s \in Slots, NEW c \in Bufs
  PROVE  c \in InRow(cached_packets[s]) <=> CachedAt(c, s)
<1>1. PoolOf[c] \in Rus /\ c # NULL
  BY DasAssumption
<1>2. \A r \in Rus : cached_packets[s][r] = c => PoolOf[c] = r
  BY <1>1 DEF OwnInv, RowsInv
<1> QED BY <1>1, <1>2 DEF InRow, CachedAt

\* A packet is stored: the evicted mbufs are freed, b is in the cache.
LEMMA StoreInv ==
  ASSUME TypeOK, OwnInv, NEW r \in Rus, rxq[r] # <<>>, rxq' = [rxq EXCEPT ![r] = Tail(@)],
         NEW s \in Slots, NEW b, b = Head(rxq[r]),
         cached_packets' = [cached_packets EXCEPT ![s] = RowWith(s, r, b)],
         pool' = FreeAll(Evicted(s, r)), UNCHANGED <<ru_ring, bufs>>
  PROVE  OwnInv'
<1>1. /\ b \in Bufs /\ PoolOf[b] = r /\ Queued(b) /\ ~Cached(b) /\ pool[b] = 0 /\ QueuesInv'
      /\ \A c \in Bufs : Queued(c)' <=> Queued(c) /\ c # b
  BY HeadLeaves
<1>2. cached_packets \in [Slots -> [Rus -> Bufs \cup {NULL}]] /\ pool \in [Bufs -> Nat]
  BY DEF TypeOK
<1>3. /\ cached_packets'[s][r] = b
      /\ \A q \in Rus \ {r} : cached_packets'[s][q] = IF LooksWrong(s, r) THEN NULL
                                                      ELSE cached_packets[s][q]
      /\ \A t \in Slots \ {s} : cached_packets'[t] = cached_packets[t]
  BY <1>2 DEF RowWith, EmptyRow
<1>4. \A t \in Slots : cached_packets[t][r] # b
  BY <1>1 DEF Cached, CachedAt
<1>5. b # NULL
  BY <1>1, DasAssumption
<1>6. RowsInv'
  <2> SUFFICES ASSUME NEW t \in Slots, NEW q \in Rus, cached_packets'[t][q] # NULL
               PROVE  /\ PoolOf[cached_packets'[t][q]] = q
                      /\ \A u \in Slots : cached_packets'[u][q] = cached_packets'[t][q] => u = t
    BY DEF RowsInv
  <2>1. CASE q = r
    BY <1>1, <1>3, <1>4, <2>1 DEF OwnInv, RowsInv
  <2>2. CASE q # r
    <3>1. \A u \in Slots : cached_packets'[u][q] \in {NULL, cached_packets[u][q]}
      BY <1>3, <2>2
    <3> QED BY <3>1 DEF OwnInv, RowsInv
  <2> QED BY <2>1, <2>2
<1>7. ASSUME NEW c \in Bufs
      PROVE  /\ Cached(c)' <=> c = b \/ (Cached(c) /\ c \notin Evicted(s, r))
             /\ c \in Evicted(s, r) => Cached(c)
             /\ pool'[c] = IF c \in Evicted(s, r) THEN pool[c] + 1 ELSE pool[c]
  <2>1. PoolOf[c] \in Rus /\ c # NULL
    BY DasAssumption
  <2>2. c \in Evicted(s, r) <=> LooksWrong(s, r) /\ CachedAt(c, s)
    BY RowOf DEF Evicted
  <2>3. pool'[c] = IF c \in Evicted(s, r) THEN pool[c] + 1 ELSE pool[c]
    BY DEF FreeAll
  <2>4. \A t \in Slots : CachedAt(c, s) /\ CachedAt(c, t) => t = s
    BY <2>1 DEF OwnInv, RowsInv, CachedAt
  <2>5. c = b => Cached(c)'
    BY <1>1, <1>3 DEF Cached, CachedAt
  <2>6. CASE c # b /\ PoolOf[c] = r
    <3>1. \A t \in Slots : CachedAt(c, t)' <=> t # s /\ CachedAt(c, t)
      BY <1>3, <2>6 DEF CachedAt
    <3>2. CachedAt(c, s) => LooksWrong(s, r)
      BY <2>1, <2>6 DEF LooksWrong, CachedAt
    <3> QED BY <2>2, <2>3, <2>4, <2>6, <3>1, <3>2 DEF Cached
  <2>7. CASE PoolOf[c] # r
    <3>1. \A t \in Slots : CachedAt(c, t)' <=> CachedAt(c, t) /\ ~(t = s /\ LooksWrong(s, r))
      BY <1>3, <2>1, <2>7 DEF CachedAt
    <3> QED BY <1>1, <2>2, <2>3, <2>4, <2>7, <3>1 DEF Cached
  <2>8. c = b => c \notin Evicted(s, r)
    BY <1>1, <2>2 DEF Cached
  <2> QED BY <2>2, <2>3, <2>5, <2>6, <2>7, <2>8 DEF Cached
<1>8. PlacesInv'
  BY <1>1, <1>7 DEF OwnInv, PlacesInv
<1> QED BY <1>1, <1>6, <1>8 DEF OwnInv, RingsEmpty

\* A complete group is combined: its mbufs, with the evicted ones, are freed.
LEMMA MergeInv ==
  ASSUME TypeOK, OwnInv, NEW r \in Rus, MergeLocally(r)
  PROVE  OwnInv'
<1>1. PICK b \in Bufs, s \in Slots :
        /\ rxq[r] # <<>> /\ b = Head(rxq[r]) /\ rxq' = [rxq EXCEPT ![r] = Tail(@)]
        /\ cached_packets' = [cached_packets EXCEPT ![s] = Cleared(@)]
        /\ pool' = FreeAll(Evicted(s, r) \cup InRow(RowWith(s, r, b)))
        /\ UNCHANGED <<ru_ring, bufs>>
  BY DEF MergeLocally, Takes, workerVars
<1>2. /\ PoolOf[b] = r /\ Queued(b) /\ ~Cached(b) /\ pool[b] = 0 /\ QueuesInv'
      /\ \A c \in Bufs : Queued(c)' <=> Queued(c) /\ c # b
  BY <1>1, HeadLeaves
<1>3. cached_packets \in [Slots -> [Rus -> Bufs \cup {NULL}]] /\ pool \in [Bufs -> Nat]
  BY DEF TypeOK
<1>4. /\ \A q \in Rus : cached_packets'[s][q] = NULL
      /\ \A t \in Slots \ {s} : cached_packets'[t] = cached_packets[t]
  BY <1>1, <1>3 DEF Cleared
<1>5. RowsInv'
  BY <1>4 DEF OwnInv, RowsInv
<1>6. ASSUME NEW c \in Bufs
      PROVE  /\ Cached(c)' <=> Cached(c) /\ ~CachedAt(c, s)
             /\ pool'[c] = IF c = b \/ CachedAt(c, s) THEN pool[c] + 1 ELSE pool[c]
  <2>1. PoolOf[c] \in Rus /\ c # NULL
    BY DasAssumption
  <2>2. c \in Evicted(s, r) <=> LooksWrong(s, r) /\ CachedAt(c, s)
    BY RowOf DEF Evicted
  <2>3. c \in InRow(RowWith(s, r, b)) <=> c = b \/ (~LooksWrong(s, r) /\ CachedAt(c, s))
    <3> DEFINE row == RowWith(s, r, b)
    <3>1. row[r] = b /\ \A q \in Rus \ {r} : row[q] = IF LooksWrong(s, r) THEN NULL
                                                     ELSE cached_packets[s][q]
      BY <1>3 DEF RowWith, EmptyRow
    <3>2. ~LooksWrong(s, r) => cached_packets[s][r] = NULL
      BY DEF LooksWrong
    <3> HIDE DEF row
    <3>3. c \in InRow(row) <=> c = b \/ (~LooksWrong(s, r) /\ c \in InRow(cached_packets[s]))
      <4>1. c \in InRow(row) <=> \E q \in Rus : row[q] = c
        BY <2>1 DEF InRow
      <4>2. c \in InRow(cached_packets[s]) <=> \E q \in Rus : cached_packets[s][q] = c
        BY <2>1 DEF InRow
      <4>3. CASE LooksWrong(s, r)
        BY <2>1, <3>1, <4>1, <4>3
      <4>4. CASE ~LooksWrong(s, r)
        BY <2>1, <3>1, <3>2, <4>1, <4>2, <4>4
      <4> QED BY <4>3, <4>4
    <3> QED BY <3>3, RowOf DEF row
  <2>4. pool'[c] = IF c = b \/ CachedAt(c, s) THEN pool[c] + 1 ELSE pool[c]
    <3> DEFINE freed == Evicted(s, r) \cup InRow(RowWith(s, r, b))
    <3>1. c \in freed <=> c = b \/ CachedAt(c, s)
      BY <2>2, <2>3
    <3> HIDE DEF freed
    <3>2. pool' = FreeAll(freed)
      BY <1>1 DEF freed
    <3> QED BY <3>1, <3>2 DEF FreeAll
  <2>5. \A t \in Slots : CachedAt(c, s) /\ CachedAt(c, t) => t = s
    BY <2>1 DEF OwnInv, RowsInv, CachedAt
  <2>6. \A t \in Slots : CachedAt(c, t)' <=> t # s /\ CachedAt(c, t)
    BY <1>4, <2>1 DEF CachedAt
  <2> QED BY <2>4, <2>5, <2>6 DEF Cached
<1>7. PlacesInv'
  <2> SUFFICES ASSUME NEW c \in Bufs
               PROVE  /\ pool'[c] \in {0, 1}
                      /\ pool'[c] = 1 <=> ~Queued(c)' /\ ~Cached(c)'
                      /\ ~(Queued(c)' /\ Cached(c)')
    BY DEF PlacesInv
  <2>1. CachedAt(c, s) => Cached(c)
    BY DEF Cached
  <2> QED BY <1>2, <1>6, <2>1 DEF OwnInv, PlacesInv
<1> QED BY <1>1, <1>2, <1>5, <1>7 DEF OwnInv, RingsEmpty

-----------------------------------------------------------------------------
(* The other actions                                                       *)

LEMMA FreeForeignInv ==
  ASSUME TypeOK, OwnInv, NEW r \in Rus, FreeForeign(r)
  PROVE  OwnInv'
<1> DEFINE b == Head(rxq[r])
<1>1. /\ rxq[r] # <<>> /\ rxq' = [rxq EXCEPT ![r] = Tail(@)] /\ pool' = FreeAll({b})
      /\ UNCHANGED <<cached_packets, ru_ring, bufs>>
  BY DEF FreeForeign, workerVars
<1>2. /\ b \in Bufs /\ PoolOf[b] = r /\ Queued(b) /\ ~Cached(b) /\ pool[b] = 0 /\ QueuesInv'
      /\ \A c \in Bufs : Queued(c)' <=> Queued(c) /\ c # b
  BY <1>1, HeadLeaves
<1> HIDE DEF b
<1>3. \A c \in Bufs : Cached(c)' <=> Cached(c)
  BY <1>1 DEF Cached, CachedAt
<1>4. \A c \in Bufs : pool'[c] = IF c = b THEN pool[c] + 1 ELSE pool[c]
  BY <1>1 DEF FreeAll
<1>5. PlacesInv'
  BY <1>2, <1>3, <1>4 DEF OwnInv, PlacesInv
<1>6. RowsInv' /\ RingsEmpty'
  BY <1>1 DEF OwnInv, RowsInv, RingsEmpty
<1> QED BY <1>2, <1>5, <1>6 DEF OwnInv

\* The card takes a free mbuf.
LEMMA ReceiveInv ==
  ASSUME TypeOK, OwnInv, NEW r \in Rus, NEW p, NicReceive(r, p)
  PROVE  OwnInv'
<1>1. PICK b \in Bufs :
        /\ PoolOf[b] = r /\ pool[b] > 0 /\ pool' = [pool EXCEPT ![b] = @ - 1]
        /\ rxq' = [rxq EXCEPT ![r] = Append(@, b)]
        /\ UNCHANGED <<cached_packets, ru_ring, bufs>>
  BY DEF NicReceive, workerVars
<1> DEFINE q == rxq[r]
<1>2. q \in Seq(Bufs) /\ rxq \in [Rus -> Seq(Bufs)] /\ pool \in [Bufs -> Nat] /\ Len(q) \in Nat
  BY DEF TypeOK
<1>3. pool[b] = 1 /\ ~Queued(b) /\ ~Cached(b)
  BY <1>1 DEF OwnInv, PlacesInv
<1>4. /\ rxq'[r] = Append(q, b) /\ \A s \in Rus \ {r} : rxq'[s] = rxq[s]
      /\ Len(Append(q, b)) = Len(q) + 1 /\ Append(q, b)[Len(q) + 1] = b
      /\ \A i \in 1 .. Len(q) : Append(q, b)[i] = q[i]
  BY <1>1, <1>2
<1>5. /\ \A i \in 1 .. Len(q) : PoolOf[q[i]] = r /\ q[i] # b
      /\ \A i, j \in 1 .. Len(q) : q[i] = q[j] => i = j
  BY <1>1, <1>3 DEF OwnInv, QueuesInv, Queued
<1>6. \A i : i \in 1 .. Len(q) + 1 <=> i \in 1 .. Len(q) \/ i = Len(q) + 1
  BY <1>2
<1> DEFINE new == Append(q, b)
<1> HIDE DEF q
<1>7. QueuesInv'
  <2>1. \A i \in 1 .. Len(new) : PoolOf[new[i]] = r
    BY <1>1, <1>4, <1>5, <1>6
  <2>2. \A i, j \in 1 .. Len(new) : new[i] = new[j] => i = j
    BY <1>4, <1>5, <1>6
  <2> HIDE DEF new
  <2>3. rxq'[r] = new
    BY <1>4 DEF new
  <2> QED BY <1>4, <2>1, <2>2, <2>3 DEF QueuesInv, OwnInv
<1>8. ASSUME NEW c \in Bufs
      PROVE  Queued(c)' <=> Queued(c) \/ c = b
  <2>1. PoolOf[c] \in Rus
    BY DasAssumption
  <2>2. CASE PoolOf[c] # r
    BY <1>1, <1>4, <2>1, <2>2 DEF Queued
  <2>3. CASE PoolOf[c] = r
    <3>1. Queued(c) <=> \E i \in 1 .. Len(q) : q[i] = c
      BY <2>3 DEF Queued, q
    <3>2. Queued(c)' <=> \E i \in 1 .. Len(q) + 1 : new[i] = c
      BY <1>4, <2>3 DEF Queued
    <3> QED BY <1>4, <1>6, <3>1, <3>2
  <2> QED BY <2>2, <2>3
<1>9. \A c \in Bufs : (Cached(c)' <=> Cached(c)) /\ pool'[c] = IF c = b THEN 0 ELSE pool[c]
  BY <1>1, <1>2, <1>3 DEF Cached, CachedAt
<1>10. PlacesInv'
  BY <1>3, <1>8, <1>9 DEF OwnInv, PlacesInv
<1>11. RowsInv' /\ RingsEmpty'
  BY <1>1 DEF OwnInv, RowsInv, RingsEmpty
<1> QED BY <1>7, <1>10, <1>11 DEF OwnInv

LEMMA OwnInit == Init => OwnInv
<1> SUFFICES ASSUME Init PROVE OwnInv
  OBVIOUS
<1>1. QueuesInv /\ RowsInv /\ RingsEmpty
  BY DEF Init, QueuesInv, RowsInv, RingsEmpty, EmptyRow
<1>2. \A b \in Bufs : PoolOf[b] \in Rus /\ b # NULL
  BY DasAssumption
<1>3. PlacesInv
  BY <1>2 DEF Init, PlacesInv, Queued, Cached, CachedAt, EmptyRow
<1> QED BY <1>1, <1>3 DEF OwnInv

LEMMA OwnUnchanged ==
  ASSUME OwnInv, UNCHANGED <<pool, rxq, cached_packets, ru_ring, bufs>>
  PROVE  OwnInv'
<1>1. QueuesInv' /\ RowsInv' /\ RingsEmpty'
  BY DEF OwnInv, QueuesInv, RowsInv, RingsEmpty
<1>2. \A b \in Bufs : (Queued(b)' <=> Queued(b)) /\ (Cached(b)' <=> Cached(b))
  BY DEF Queued, Cached, CachedAt
<1>3. PlacesInv'
  BY <1>2 DEF OwnInv, PlacesInv
<1> QED BY <1>1, <1>3 DEF OwnInv

LEMMA OwnNext ==
  ASSUME NumWorkers = 0 \/ ~Asserts, TypeOK, OwnInv, [Next]_vars
  PROVE  OwnInv'
<1>1. ASSUME NEW r \in Rus, StorePacket(r) \/ PushToWorker(r)
      PROVE  OwnInv'
  <2>1. NumWorkers = 0 => Workers = {}
    BY DEF Workers
  <2>2. PICK b \in Bufs, s \in Slots :
          /\ rxq[r] # <<>> /\ b = Head(rxq[r]) /\ rxq' = [rxq EXCEPT ![r] = Tail(@)]
          /\ cached_packets' = [cached_packets EXCEPT ![s] = RowWith(s, r, b)]
          /\ pool' = FreeAll(Evicted(s, r))
          /\ UNCHANGED <<ru_ring, bufs>>
    <3>1. CASE StorePacket(r)
      BY <3>1 DEF StorePacket, Takes, workerVars
    <3>2. CASE PushToWorker(r)
      BY <2>1, <3>2 DEF PushToWorker, Takes
    <3> QED BY <1>1, <3>1, <3>2
  <2> QED BY <2>2, StoreInv
<1>2. ASSUME NEW w \in Workers, Worker(w)
      PROVE  OwnInv'
  BY <1>2 DEF Worker, DequeueGroup, ProcessGroup, OwnInv, RingsEmpty
<1>3. ASSUME NEW r \in Rus, HandleRu(r)
      PROVE  OwnInv'
  BY <1>1, <1>3, FreeForeignInv, MergeInv DEF HandleRu
<1>4. ASSUME NEW r \in Rus, NEW s \in Slots, Send(r, s) \/ Lose(r, s)
      PROVE  OwnInv'
  <2>1. CASE Send(r, s)
    BY <2>1, ReceiveInv DEF Send
  <2>2. CASE Lose(r, s)
    BY <2>2, OwnUnchanged DEF Lose, mainVars, workerVars
  <2> QED BY <1>4, <2>1, <2>2
<1>5. ASSUME NEW r \in Rus, SendForeign(r)
      PROVE  OwnInv'
  BY <1>5, ReceiveInv DEF SendForeign
<1>6. CASE NextFrame \/ Spin \/ UNCHANGED vars
  BY <1>6, OwnUnchanged DEF NextFrame, Spin, vars, mainVars, workerVars
<1> QED BY <1>2, <1>3, <1>4, <1>5, <1>6 DEF Next

-----------------------------------------------------------------------------

\* The count of a row that holds a packet is not zero, if there are no workers.
LEMMA RowIsCounted ==
  ASSUME CacheInv, NumWorkers = 0, NEW s \in Slots, NEW r \in Rus, cached_packets[s][r] # NULL
  PROVE  cached_packets_num[s] > 0
<1> DEFINE filled == {q \in Rus : cached_packets[s][q] # NULL}
<1>1. cached_packets_num[s] = Cardinality(filled)
  BY DEF CacheInv, CountMatchesCache, WorkerOf
<1>2. IsFiniteSet(filled) /\ Cardinality(filled) \in Nat
  BY FilledFinite DEF Filled
<1>3. filled # {}
  OBVIOUS
<1>4. Cardinality(filled) # 0
  BY <1>2, <1>3, FS_EmptySet
<1> QED BY <1>1, <1>2, <1>4

\* An mbuf that is in one place only has one owner.
LEMMA OneOwner ==
  ASSUME NumWorkers = 0 \/ ~Asserts, CacheInv, OwnInv
  PROVE  SingleOwner
<1> SUFFICES ASSUME NEW b \in Bufs
             PROVE  /\ pool[b] + Occurrences(b, rxq[PoolOf[b]]) + Cardinality(CachedIn(b)) = 1
                    /\ \A w \in Workers : HeldByWorker(b, w) = 0
  BY DEF SingleOwner
<1>1. PoolOf[b] \in Rus /\ b # NULL /\ TypeOK
  BY DasAssumption DEF CacheInv
<1>2. \A w \in Workers : HeldByWorker(b, w) = 0
  <2>1. Occurrences(b, <<>>) = 0
    <3>1. {i \in DOMAIN <<>> : <<>>[i] = b} = {}
      OBVIOUS
    <3> QED BY <3>1, FS_EmptySet DEF Occurrences
  <2> QED BY <2>1 DEF HeldByWorker, OwnInv, RingsEmpty
<1>3. Occurrences(b, rxq[PoolOf[b]]) = IF Queued(b) THEN 1 ELSE 0
  <2> DEFINE q == rxq[PoolOf[b]]
             places == {i \in DOMAIN q : q[i] = b}
  <2>1. DOMAIN q = 1 .. Len(q)
    BY <1>1 DEF TypeOK
  <2>2. CASE Queued(b)
    <3>1. PICK i \in 1 .. Len(q) : q[i] = b
      BY <2>2 DEF Queued
    <3>2. places = {i}
      BY <1>1, <2>1, <3>1 DEF OwnInv, QueuesInv
    <3> QED BY <2>2, <3>2, FS_Singleton DEF Occurrences
  <2>3. CASE ~Queued(b)
    <3>1. places = {}
      BY <2>1, <2>3 DEF Queued
    <3> QED BY <2>3, <3>1, FS_EmptySet DEF Occurrences
  <2> QED BY <2>2, <2>3
<1>4. Cardinality(CachedIn(b)) = IF Cached(b) THEN 1 ELSE 0
  <2>1. \A s \in Slots : CachedAt(b, s) => (Asserts => cached_packets_num[s] > 0)
    BY <1>1, RowIsCounted DEF CachedAt
  <2>2. CachedIn(b) = {s \in Slots : CachedAt(b, s)}
    BY <2>1 DEF CachedIn, CachedAt
  <2>3. CASE Cached(b)
    <3>1. PICK s \in Slots : CachedAt(b, s)
      BY <2>3 DEF Cached
    <3>2. \A t \in Slots : CachedAt(b, t) => t = s
      BY <1>1, <3>1 DEF OwnInv, RowsInv, CachedAt
    <3>3. CachedIn(b) = {s}
      BY <2>2, <3>1, <3>2
    <3> QED BY <2>3, <3>3, FS_Singleton
  <2>4. CASE ~Cached(b)
    <3>1. CachedIn(b) = {}
      BY <2>2, <2>4 DEF Cached
    <3> QED BY <2>4, <3>1, FS_EmptySet
  <2> QED BY <2>3, <2>4
<1>5. /\ pool[b] \in {0, 1}
      /\ pool[b] = 1 <=> ~Queued(b) /\ ~Cached(b)
      /\ ~(Queued(b) /\ Cached(b))
  BY DEF OwnInv, PlacesInv
<1> QED BY <1>2, <1>3, <1>4, <1>5

\* Every mbuf of ranbooster_handle_rus has one owner: it is on its free list, in
\* an RX queue or in the cache, once, after any losses and evictions, if the
\* program has one core or its asserts are compiled out.
THEOREM BuffersHaveOneOwner ==
  ASSUME NumWorkers = 0 \/ ~Asserts
  PROVE  Spec => []SingleOwner
<1>1. Init => CacheInv /\ OwnInv
  BY CacheInit, OwnInit
<1>2. CacheInv /\ OwnInv /\ [Next]_vars => (CacheInv /\ OwnInv)'
  BY CacheNext, OwnNext DEF CacheInv
<1>3. CacheInv /\ OwnInv => SingleOwner
  BY OneOwner
<1> QED BY <1>1, <1>2, <1>3, PTL DEF Spec

-----------------------------------------------------------------------------
(* What is sent to the DU, without workers or in a Release build: the      *)
(* middlebox implements FronthaulMerge, and its errors and the frames it   *)
(* mixes are bounded by what is lost.                                      *)
(*                                                                         *)
(* The proofs look at the middlebox through two questions, whether the     *)
(* current packet of an RU for a slot waits in an RX queue and which       *)
(* packet is kept in the cache; each action is one of a few view steps.    *)

\* The packet that RU r has sent for slot s in this frame is in its RX queue,
\* or has left it, for the cache, the DU or nowhere.
Waits(r, s) == \E i \in 1 .. Len(rxq[r]) : content[rxq[r][i]] = UplinkPacket(r, s, frame)
Handled(r, s) == s \in sent[r] /\ ~Waits(r, s)

\* The packet of RU r that is kept for slot s.
Counted(s, r) == cached_packets_num[s] > 0 /\ cached_packets[s][r] # NULL
Kept(s, r) == IF Counted(s, r) THEN content[cached_packets[s][r]] ELSE FOREIGN

\* A queue holds packets of its RU and of this frame, each once.
InThisFrame(r, p) == \E s \in sent[r] : p = UplinkPacket(r, s, frame)
QueuedInv == \A r \in Rus :
  /\ \A i \in 1 .. Len(rxq[r]) :
       content[rxq[r][i]] # FOREIGN => InThisFrame(r, content[rxq[r][i]])
  /\ \A i, j \in 1 .. Len(rxq[r]) :
       content[rxq[r][i]] # FOREIGN /\ content[rxq[r][i]] = content[rxq[r][j]] => i = j
\* A row holds packets of its RUs for its slot.
RowPacketsInv == \A s \in Slots, r \in Rus : Counted(s, r) =>
  \E f \in Frames : content[cached_packets[s][r]] = UplinkPacket(r, s, f)

ContentInv == QueuedInv /\ RowPacketsInv
MboxInv == CacheInv /\ OwnInv /\ ContentInv

-----------------------------------------------------------------------------
(* The steps of the middlebox and of the RUs, as far as packets go.        *)

WaitsUnchanged == \A q \in Rus, t \in Slots : Waits(q, t)' <=> Waits(q, t)
KeptUnchanged == \A t \in Slots, q \in Rus : Kept(t, q)' = Kept(t, q)
KeptUnchangedBut(s) == \A t \in Slots \ {s}, q \in Rus : Kept(t, q)' = Kept(t, q)

\* RU r's packet for slot s reaches the queue, or is lost.
ViewArrives(r, s) ==
  /\ s \notin sent[r]
  /\ sent' = [sent EXCEPT ![r] = @ \cup {s}]
  /\ \A q \in Rus, t \in Slots : Waits(q, t)' <=> Waits(q, t) \/ (q = r /\ t = s)
  /\ KeptUnchanged
  /\ UNCHANGED <<frame, lost, num_errors, to_du>>
ViewLost(r, s) ==
  /\ s \notin sent[r]
  /\ sent' = [sent EXCEPT ![r] = @ \cup {s}]
  /\ lost' = lost \cup {UplinkPacket(r, s, frame)}
  /\ WaitsUnchanged /\ KeptUnchanged
  /\ UNCHANGED <<frame, num_errors, to_du>>

\* It leaves the queue.
Leaves(r, s) ==
  /\ Waits(r, s)
  /\ \A q \in Rus, t \in Slots : Waits(q, t)' <=> Waits(q, t) /\ ~(q = r /\ t = s)
  /\ KeptUnchangedBut(s)
  /\ UNCHANGED <<frame, sent, lost>>

\* It is kept, and takes the place of the row of an earlier one.
ViewKept(r, s) ==
  /\ Leaves(r, s)
  /\ \A q \in Rus : Kept(s, q)' = IF q = r THEN UplinkPacket(r, s, frame)
                                 ELSE IF Kept(s, r) # FOREIGN THEN FOREIGN ELSE Kept(s, q)
  /\ UNCHANGED to_du
  /\ NumWorkers = 0 =>
       num_errors' = IF Kept(s, r) # FOREIGN THEN num_errors + 1 ELSE num_errors

\* It completes the group, which goes to the DU or, where the queue to it is
\* full or missing, nowhere.
GroupWith(r, s) == [q \in Rus |-> IF q = r THEN UplinkPacket(r, s, frame) ELSE Kept(s, q)]
ViewMerged(r, s) ==
  /\ Leaves(r, s)
  /\ Kept(s, r) = FOREIGN /\ \A q \in Rus \ {r} : Kept(s, q) # FOREIGN
  /\ \A q \in Rus : Kept(s, q)' = FOREIGN
  /\ to_du' \in {to_du, [to_du EXCEPT ![s[1]] = Append(@, GroupWith(r, s))]}
  /\ NumWorkers = 0 => num_errors' = num_errors

ViewNextFrame ==
  /\ \A r \in Rus, s \in Slots : s \in sent[r] /\ ~Waits(r, s) /\ s \notin sent'[r] /\ ~Waits(r, s)'
  /\ frame' = frame + 1
  /\ KeptUnchanged
  /\ UNCHANGED <<lost, num_errors, to_du>>

ViewStutters ==
  /\ WaitsUnchanged /\ KeptUnchanged
  /\ UNCHANGED <<frame, sent, lost, num_errors, to_du>>

ViewNext ==
  \/ \E r \in Rus, s \in Slots :
       ViewArrives(r, s) \/ ViewLost(r, s) \/ ViewKept(r, s) \/ ViewMerged(r, s)
  \/ ViewNextFrame
  \/ ViewStutters

-----------------------------------------------------------------------------
(* Every action is a view step.                                            *)

LEMMA PacketFields ==
  ASSUME NEW r \in Rus, NEW s \in Slots, NEW f \in Frames
  PROVE  LET p == UplinkPacket(r, s, f)
         IN  /\ p \in Packet /\ p # FOREIGN
             /\ p.ru = r /\ p.port = s[1] /\ p.key = s[2] /\ p.frame = f
             /\ SlotOf(p) = s /\ s = <<s[1], s[2]>>
<1>1. s = <<s[1], s[2]>> /\ s[1] \in Ports /\ s[2] \in Keys
  BY DEF Slots
<1>2. UplinkPacket(r, s, f) \in Packet
  BY <1>1 DEF UplinkPacket, Packet
<1> QED BY <1>1, <1>2, ForeignAssumption DEF UplinkPacket, SlotOf

\* The first packet of a queue leaves it.
LEMMA HeadPopped ==
  ASSUME TypeOK, OwnInv, QueuedInv, NEW r \in Rus, rxq[r] # <<>>,
         rxq' = [rxq EXCEPT ![r] = Tail(@)], UNCHANGED <<content, frame, sent>>
  PROVE  /\ QueuedInv'
         /\ content[Head(rxq[r])] # FOREIGN => InThisFrame(r, content[Head(rxq[r])])
         /\ \A q \in Rus, t \in Slots : Waits(q, t)' <=>
              Waits(q, t) /\ ~(q = r /\ content[Head(rxq[r])] = UplinkPacket(r, t, frame))
<1> DEFINE q == rxq[r]
           b == Head(q)
           t == Tail(q)
<1>1. q \in Seq(Bufs) /\ q # <<>> /\ rxq \in [Rus -> Seq(Bufs)]
  BY DEF TypeOK
<1>2. b \in Bufs /\ b = q[1] /\ 1 \in 1 .. Len(q)
  BY <1>1
<1>3. /\ t \in Seq(Bufs) /\ Len(t) = Len(q) - 1
      /\ \A i \in 1 .. Len(q) - 1 : i + 1 \in 1 .. Len(q) /\ t[i] = q[i + 1]
  BY <1>1
<1>4. \A i \in 1 .. Len(q) : i = 1 \/ \E j \in 1 .. Len(q) - 1 : i = j + 1
  <2> SUFFICES ASSUME NEW i \in 1 .. Len(q), i # 1
               PROVE  \E j \in 1 .. Len(q) - 1 : i = j + 1
    OBVIOUS
  <2>1. i - 1 \in 1 .. Len(q) - 1 /\ i = (i - 1) + 1
    BY <1>1
  <2> QED BY <2>1
<1>5. rxq'[r] = t /\ \A p \in Rus \ {r} : rxq'[p] = rxq[p]
  BY <1>1
<1> DEFINE AllSent(s, p) == \A i \in 1 .. Len(s) : content[s[i]] # FOREIGN => InThisFrame(p, content[s[i]])
           Once(s) == \A i, j \in 1 .. Len(s) :
                        content[s[i]] # FOREIGN /\ content[s[i]] = content[s[j]] => i = j
<1>6. \A p \in Rus : AllSent(rxq[p], p) /\ Once(rxq[p])
  BY DEF QueuedInv
<1>7. AllSent(q, r) /\ Once(q)
  BY <1>6
<1> HIDE DEF q, b, t
<1>8. AllSent(t, r)
  BY <1>3, <1>7
<1>9. Once(t)
  <2> SUFFICES ASSUME NEW i \in 1 .. Len(t), NEW j \in 1 .. Len(t),
                      content[t[i]] # FOREIGN, content[t[i]] = content[t[j]]
               PROVE  i = j
    OBVIOUS
  <2>1. i + 1 \in 1 .. Len(q) /\ j + 1 \in 1 .. Len(q) /\ t[i] = q[i + 1] /\ t[j] = q[j + 1]
    BY <1>3
  <2>2. i + 1 = j + 1
    BY <1>7, <2>1
  <2> QED BY <2>2
<1>10. \A p \in Rus : AllSent(rxq'[p], p) /\ Once(rxq'[p])
  <2> HIDE DEF AllSent, Once
  <2> SUFFICES ASSUME NEW p \in Rus PROVE AllSent(rxq'[p], p) /\ Once(rxq'[p])
    OBVIOUS
  <2>1. CASE p = r
    BY <1>5, <1>8, <1>9, <2>1
  <2>2. CASE p # r
    BY <1>5, <1>6, <2>2
  <2> QED BY <2>1, <2>2
<1>11. \A p \in Rus : \A x : InThisFrame(p, x)' <=> InThisFrame(p, x)
  BY DEF InThisFrame, UplinkPacket
<1>12. QueuedInv'
  <2> SUFFICES ASSUME NEW p \in Rus
               PROVE  (/\ \A i \in 1 .. Len(rxq[p]) :
                            content[rxq[p][i]] # FOREIGN => InThisFrame(p, content[rxq[p][i]])
                       /\ \A i, j \in 1 .. Len(rxq[p]) :
                            content[rxq[p][i]] # FOREIGN /\ content[rxq[p][i]] = content[rxq[p][j]]
                              => i = j)'
    BY DEF QueuedInv
  <2>1. AllSent(rxq'[p], p) /\ Once(rxq'[p])
    BY <1>10
  <2> QED BY <1>11, <2>1
<1>13. content[b] # FOREIGN => InThisFrame(r, content[b])
  BY <1>2, <1>7
<1>14. ASSUME NEW s \in Slots
       PROVE  Waits(r, s)' <=> Waits(r, s) /\ content[b] # UplinkPacket(r, s, frame)
  <2> DEFINE p == UplinkPacket(r, s, frame)
  <2>1. p # FOREIGN /\ UplinkPacket(r, s, frame') = p
    BY PacketFields DEF TypeOK
  <2> HIDE DEF p
  <2>2. Waits(r, s) <=> \E i \in 1 .. Len(q) : content[q[i]] = p
    BY DEF Waits, q, p
  <2>3. Waits(r, s)' <=> \E i \in 1 .. Len(t) : content[t[i]] = p
    BY <1>5, <2>1 DEF Waits
  <2>4. Waits(r, s)' <=> \E i \in 1 .. Len(q) - 1 : content[q[i + 1]] = p
    BY <1>3, <2>3
  <2>5. \A i \in 1 .. Len(q) - 1 : i + 1 # 1
    BY <1>1
  <2>6. content[b] = p => \A i \in 1 .. Len(q) - 1 : content[q[i + 1]] # p
    BY <1>2, <1>3, <1>7, <2>1, <2>5
  <2>7. content[b] # p => (Waits(r, s) <=> \E i \in 1 .. Len(q) - 1 : content[q[i + 1]] = p)
    BY <1>2, <1>3, <1>4, <2>2
  <2> QED BY <2>4, <2>6, <2>7 DEF p
<1>15. ASSUME NEW p \in Rus \ {r}, NEW s \in Slots PROVE Waits(p, s)' <=> Waits(p, s)
  BY <1>5 DEF Waits, UplinkPacket
<1> QED BY <1>12, <1>13, <1>14, <1>15 DEF q, b

\* A packet enters a queue, in an mbuf that was free.
LEMMA PacketReceived ==
  ASSUME TypeOK, OwnInv, ContentInv, NEW r \in Rus, NEW p, NicReceive(r, p),
         frame' = frame, \A q \in Rus : sent[q] \subseteq sent'[q],
         p # FOREIGN => \E s \in sent'[r] \ sent[r] : s \in Slots /\ p = UplinkPacket(r, s, frame)
  PROVE  /\ ContentInv' /\ KeptUnchanged
         /\ \A q \in Rus, t \in Slots :
              Waits(q, t)' <=> Waits(q, t) \/ (q = r /\ p = UplinkPacket(r, t, frame))
<1>1. PICK b \in Bufs :
        /\ PoolOf[b] = r /\ pool[b] > 0
        /\ content' = [content EXCEPT ![b] = p]
        /\ rxq' = [rxq EXCEPT ![r] = Append(@, b)]
        /\ UNCHANGED <<cached_packets, cached_packets_num>>
  BY DEF NicReceive
<1>2. /\ rxq \in [Rus -> Seq(Bufs)] /\ content \in [Bufs -> Packet \cup {FOREIGN}]
      /\ cached_packets \in [Slots -> [Rus -> Bufs \cup {NULL}]] /\ frame \in Frames
  BY DEF TypeOK
<1>3. pool[b] = 1 /\ ~Queued(b) /\ ~Cached(b)
  BY <1>1 DEF OwnInv, PlacesInv
<1>4. ASSUME NEW q \in Rus, NEW i \in 1 .. Len(rxq[q])
      PROVE  rxq[q][i] # b /\ content'[rxq[q][i]] = content[rxq[q][i]]
  <2>1. rxq[q][i] \in Bufs /\ PoolOf[rxq[q][i]] = q
    BY <1>2 DEF OwnInv, QueuesInv
  <2>2. rxq[q][i] # b
    BY <1>3, <2>1 DEF Queued
  <2> QED BY <1>1, <1>2, <2>1, <2>2
<1>5. ASSUME NEW s \in Slots, NEW q \in Rus, cached_packets[s][q] # NULL
      PROVE  content'[cached_packets[s][q]] = content[cached_packets[s][q]]
  <2>1. cached_packets[s][q] \in Bufs /\ PoolOf[cached_packets[s][q]] = q
    BY <1>2, <1>5 DEF OwnInv, RowsInv
  <2>2. cached_packets[s][q] # b
    BY <1>3, <2>1 DEF Cached, CachedAt
  <2> QED BY <1>1, <1>2, <2>1, <2>2
<1>6. RowPacketsInv' /\ KeptUnchanged
  <2>1. \A s \in Slots, q \in Rus : Counted(s, q)' <=> Counted(s, q)
    BY <1>1 DEF Counted
  <2>2. \A s \in Slots, q \in Rus : Counted(s, q) =>
          content'[cached_packets'[s][q]] = content[cached_packets[s][q]]
    BY <1>1, <1>5 DEF Counted
  <2>3. KeptUnchanged
    BY <2>1, <2>2 DEF KeptUnchanged, Kept
  <2>4. \A q, s, f : UplinkPacket(q, s, f)' = UplinkPacket(q, s, f)
    BY DEF UplinkPacket
  <2>5. RowPacketsInv'
    BY <2>1, <2>2, <2>4 DEF ContentInv, RowPacketsInv
  <2> QED BY <2>3, <2>5
<1> DEFINE q == rxq[r]
           n == Len(q)
           new == Append(q, b)
<1>7. /\ n \in Nat /\ Len(new) = n + 1 /\ new[n + 1] = b
      /\ \A i \in 1 .. n : new[i] = q[i]
      /\ \A i : i \in 1 .. n + 1 <=> i \in 1 .. n \/ i = n + 1
      /\ rxq'[r] = new /\ \A s \in Rus \ {r} : rxq'[s] = rxq[s]
      /\ content'[b] = p
  BY <1>1, <1>2
<1> HIDE DEF q, n, new
<1>8. ASSUME NEW i \in 1 .. n
      PROVE  content'[new[i]] = content[q[i]]
  BY <1>4, <1>7 DEF q, n
<1>9. \A i \in 1 .. n : content[q[i]] # FOREIGN => content[q[i]] # p
  <2> SUFFICES ASSUME NEW i \in 1 .. n, content[q[i]] # FOREIGN, content[q[i]] = p
               PROVE  FALSE
    OBVIOUS
  <2>1. p # FOREIGN
    OBVIOUS
  <2>2. PICK s \in Slots : s \notin sent[r] /\ p = UplinkPacket(r, s, frame)
    BY <2>1
  <2>3. PICK t \in sent[r] : p = UplinkPacket(r, t, frame)
    BY DEF ContentInv, QueuedInv, InThisFrame, q, n
  <2>4. t \in Slots
    BY DEF TypeOK
  <2> QED BY <1>2, <2>2, <2>3, <2>4, PacketFields
<1> DEFINE Later(s, x) == \E t \in sent'[s] : x = UplinkPacket(s, t, frame)
<1>10. \A s \in Rus : \A x : InThisFrame(s, x) => Later(s, x)
  BY DEF InThisFrame
<1>11. p # FOREIGN => Later(r, p)
  OBVIOUS
<1>12. QueuedInv'
  <2>1. ASSUME NEW s \in Rus, s # r
        PROVE  /\ \A i \in 1 .. Len(rxq'[s]) :
                    content'[rxq'[s][i]] # FOREIGN => Later(s, content'[rxq'[s][i]])
               /\ \A i, j \in 1 .. Len(rxq'[s]) :
                    content'[rxq'[s][i]] # FOREIGN /\ content'[rxq'[s][i]] = content'[rxq'[s][j]]
                      => i = j
    <3>1. rxq'[s] = rxq[s] /\ \A i \in 1 .. Len(rxq[s]) : content'[rxq[s][i]] = content[rxq[s][i]]
      BY <1>4, <1>7, <2>1
    <3> HIDE DEF Later
    <3> QED BY <1>10, <3>1 DEF ContentInv, QueuedInv
  <2>2. \A i \in 1 .. n + 1 : content'[new[i]] # FOREIGN => Later(r, content'[new[i]])
    <3>1. \A i \in 1 .. n : content[q[i]] # FOREIGN => InThisFrame(r, content[q[i]])
      BY DEF ContentInv, QueuedInv, q, n
    <3> HIDE DEF Later
    <3> QED BY <1>7, <1>8, <1>10, <1>11, <3>1
  <2>3. ASSUME NEW i \in 1 .. n + 1, NEW j \in 1 .. n + 1,
               content'[new[i]] # FOREIGN, content'[new[i]] = content'[new[j]]
        PROVE  i = j
    <3>1. \A k, l \in 1 .. n : content[q[k]] # FOREIGN /\ content[q[k]] = content[q[l]] => k = l
      BY DEF ContentInv, QueuedInv, q, n
    <3> QED BY <1>7, <1>8, <1>9, <2>3, <3>1
  <2>4. rxq'[r] = new /\ Len(new) = n + 1
    BY <1>7
  <2>5. \A s \in Rus :
          /\ \A i \in 1 .. Len(rxq'[s]) :
               content'[rxq'[s][i]] # FOREIGN => Later(s, content'[rxq'[s][i]])
          /\ \A i, j \in 1 .. Len(rxq'[s]) :
               content'[rxq'[s][i]] # FOREIGN /\ content'[rxq'[s][i]] = content'[rxq'[s][j]]
                 => i = j
    <3> HIDE DEF Later
    <3> QED BY <2>1, <2>2, <2>3, <2>4
  <2> QED BY <2>5 DEF QueuedInv, InThisFrame, UplinkPacket
<1>13. ASSUME NEW t \in Slots
       PROVE  Waits(r, t)' <=> Waits(r, t) \/ p = UplinkPacket(r, t, frame)
  <2>1. Waits(r, t) <=> \E i \in 1 .. n : content[q[i]] = UplinkPacket(r, t, frame)
    BY DEF Waits, q, n
  <2>2. Waits(r, t)' <=> \E i \in 1 .. n + 1 : content'[new[i]] = UplinkPacket(r, t, frame)
    BY <1>7 DEF Waits, UplinkPacket
  <2> QED BY <1>7, <1>8, <2>1, <2>2
<1>14. ASSUME NEW s \in Rus, s # r, NEW t \in Slots
       PROVE  Waits(s, t)' <=> Waits(s, t)
  <2>1. rxq'[s] = rxq[s] /\ \A i \in 1 .. Len(rxq[s]) : content'[rxq[s][i]] = content[rxq[s][i]]
    BY <1>4, <1>7, <1>14
  <2> QED BY <2>1 DEF Waits, UplinkPacket
<1> QED BY <1>6, <1>12, <1>13, <1>14 DEF ContentInv

\* The packet that is handled is that of its RU and slot in this frame.
LEMMA TakesView ==
  ASSUME TypeOK, OwnInv, ContentInv, NEW r \in Rus, NEW b \in Bufs, NEW s \in Slots,
         Takes(r, b, s), UNCHANGED <<content, frame, sent>>
  PROVE  /\ QueuedInv' /\ Waits(r, s) /\ content[b] = UplinkPacket(r, s, frame)
         /\ \A q \in Rus, t \in Slots : Waits(q, t)' <=> Waits(q, t) /\ ~(q = r /\ t = s)
<1>1. /\ rxq[r] # <<>> /\ rxq' = [rxq EXCEPT ![r] = Tail(@)] /\ b = Head(rxq[r])
      /\ content[b] # FOREIGN /\ s = SlotOf(content[b])
  BY DEF Takes
<1>2. /\ QueuedInv' /\ InThisFrame(r, content[b])
      /\ \A q \in Rus, t \in Slots : Waits(q, t)' <=>
           Waits(q, t) /\ ~(q = r /\ content[b] = UplinkPacket(r, t, frame))
  BY <1>1, HeadPopped DEF ContentInv
<1>3. PICK t \in sent[r] : content[b] = UplinkPacket(r, t, frame)
  BY <1>2 DEF InThisFrame
<1>4. t \in Slots /\ frame \in Frames
  BY DEF TypeOK
<1>5. t = s
  BY <1>1, <1>3, <1>4, PacketFields
<1>6. \A u \in Slots : content[b] = UplinkPacket(r, u, frame) <=> u = s
  BY <1>3, <1>4, <1>5, PacketFields
<1>7. Waits(r, s)
  <2>1. rxq[r] \in Seq(Bufs)
    BY DEF TypeOK
  <2>2. 1 \in 1 .. Len(rxq[r]) /\ rxq[r][1] = b
    BY <1>1, <2>1
  <2> QED BY <1>3, <1>5, <2>2 DEF Waits
<1> QED BY <1>2, <1>3, <1>5, <1>6, <1>7

\* The cache after an action on slot s, and what the kept packets are.
PacketIn(row, n, q) == IF n > 0 /\ row[q] # NULL THEN content[row[q]] ELSE FOREIGN
HoldsPackets(row, n, s) == \A q \in Rus : n > 0 /\ row[q] # NULL =>
  \E f \in Frames : content[row[q]] = UplinkPacket(q, s, f)

SetsSlot(s, row, n) ==
  /\ cached_packets' = [cached_packets EXCEPT ![s] = row]
  /\ cached_packets_num' = [cached_packets_num EXCEPT ![s] = n]
  /\ content' = content

\* What an action that writes the row of one slot does to what is kept.
LEMMA SlotChanged ==
  ASSUME TypeOK, ContentInv, NEW s \in Slots, NEW row, NEW n, SetsSlot(s, row, n)
  PROVE  /\ KeptUnchangedBut(s)
         /\ \A q \in Rus : Kept(s, q)' = PacketIn(row, n, q)
         /\ HoldsPackets(row, n, s) => RowPacketsInv'
<1>1. /\ cached_packets' = [t \in Slots |-> IF t = s THEN row ELSE cached_packets[t]]
      /\ cached_packets_num' = [t \in Slots |-> IF t = s THEN n ELSE cached_packets_num[t]]
  BY DEF TypeOK, SetsSlot
<1>2. \A t \in Slots \ {s}, q \in Rus : (Counted(t, q)' <=> Counted(t, q))
  BY <1>1 DEF Counted
<1>3. \A q \in Rus : Counted(s, q)' <=> n > 0 /\ row[q] # NULL
  BY <1>1 DEF Counted
<1>4. KeptUnchangedBut(s)
  BY <1>1, <1>2 DEF KeptUnchangedBut, Kept, SetsSlot
<1>5. \A q, t, f : UplinkPacket(q, t, f)' = UplinkPacket(q, t, f)
  BY DEF UplinkPacket
<1>6. HoldsPackets(row, n, s) => RowPacketsInv'
  BY <1>1, <1>2, <1>3, <1>5 DEF ContentInv, RowPacketsInv, HoldsPackets, SetsSlot
<1> QED BY <1>1, <1>3, <1>4, <1>6 DEF Kept, PacketIn, SetsSlot

\* What is kept of a slot: its packets while they are counted.
LEMMA KeptOfSlot ==
  ASSUME CacheInv, ContentInv, NEW s \in Slots, NEW r \in Rus
  PROVE  /\ Kept(s, r) # FOREIGN <=> Counted(s, r)
         /\ Counted(s, r) => \E f \in Frames : Kept(s, r) = UplinkPacket(r, s, f)
         /\ ~Counted(s, r) /\ ~LooksWrong(s, r) /\ cached_packets_num[s] = 0
              => \A q \in Rus : cached_packets[s][q] = NULL
         /\ NumWorkers = 0 => (Counted(s, r) <=> LooksWrong(s, r))
<1>1. Counted(s, r) => \E f \in Frames : Kept(s, r) = UplinkPacket(r, s, f)
  BY DEF ContentInv, RowPacketsInv, Kept
<1>2. Kept(s, r) # FOREIGN <=> Counted(s, r)
  BY <1>1, PacketFields DEF Kept
<1>3. ASSUME ~LooksWrong(s, r), cached_packets_num[s] = 0
      PROVE  \A q \in Rus : cached_packets[s][q] = NULL
  <2>1. Cardinality(Filled(cached_packets[s])) = 0
    BY <1>3 DEF CacheInv, CountMatchesCache, LooksWrong, Filled
  <2>2. Filled(cached_packets[s]) = {}
    BY <2>1, FilledFinite, FS_EmptySet
  <2> QED BY <2>2 DEF Filled
<1>4. NumWorkers = 0 => (Counted(s, r) <=> LooksWrong(s, r))
  BY RowIsCounted DEF Counted, LooksWrong
<1> QED BY <1>1, <1>2, <1>3, <1>4

\* A packet that is stored is kept, and evicts an earlier one of its RU.
LEMMA StoreIsViewStep ==
  ASSUME MboxInv, NEW r \in Rus, StorePacket(r)
  PROVE  ContentInv' /\ \E s \in Slots : ViewKept(r, s)
<1> USE DEF MboxInv
<1>1. PICK b \in Bufs, s \in Slots :
        /\ Takes(r, b, s)
        /\ ~Complete(s, r)
        /\ cached_packets' = [cached_packets EXCEPT ![s] = RowWith(s, r, b)]
        /\ cached_packets_num' = [cached_packets_num EXCEPT ![s] = CountAfter(s, r)]
        /\ UNCHANGED <<content, frame, sent, lost, to_du>>
  BY DEF StorePacket, envVars
<1>2. PICK row, n :
        row = RowWith(s, r, b) /\ n = CountAfter(s, r) /\ SetsSlot(s, row, n)
  BY <1>1 DEF SetsSlot
<1>3. TypeOK /\ ContentInv
  BY DEF CacheInv
<1>4. n = CountWith(s, r) /\ n \in 1 .. NumRus
  BY <1>2, <1>1, RowAndCount DEF CountAfter
<1>5. /\ QueuedInv' /\ Waits(r, s) /\ content[b] = UplinkPacket(r, s, frame)
      /\ \A q \in Rus, t \in Slots : Waits(q, t)' <=> Waits(q, t) /\ ~(q = r /\ t = s)
  BY <1>1, <1>3, TakesView
<1>6. /\ row[r] = b /\ b # NULL
      /\ \A q \in Rus \ {r} : row[q] = IF LooksWrong(s, r) THEN NULL ELSE cached_packets[s][q]
  BY <1>2, <1>3, DasAssumption DEF RowWith, EmptyRow, TypeOK
<1>7. n > 0
  BY <1>4, DasAssumption
<1>8. ASSUME NEW q \in Rus, q # r
      PROVE  /\ (IF n > 0 /\ row[q] # NULL THEN content[row[q]] ELSE FOREIGN)
                = IF Kept(s, r) # FOREIGN THEN FOREIGN ELSE Kept(s, q)
             /\ row[q] # NULL => Counted(s, q) /\ row[q] = cached_packets[s][q]
  <2>1. CASE LooksWrong(s, r)
    <3>1. row[q] = NULL
      BY <1>6, <1>8, <2>1
    <3>2. Kept(s, r) = FOREIGN => Kept(s, q) = FOREIGN
      <4>1. Kept(s, r) = FOREIGN => ~(cached_packets_num[s] > 0)
        BY <2>1, KeptOfSlot DEF Counted, LooksWrong
      <4> QED BY <4>1 DEF Kept, Counted
    <3> QED BY <3>1, <3>2
  <2>2. CASE ~LooksWrong(s, r)
    <3>1. row[q] = cached_packets[s][q] /\ Kept(s, r) = FOREIGN
      BY <1>6, <1>8, <2>2 DEF Kept, Counted, LooksWrong
    <3>2. cached_packets_num[s] \in Nat
      BY <1>3 DEF TypeOK
    <3>3. row[q] # NULL => cached_packets_num[s] > 0
      BY <2>2, <3>1, <3>2, KeptOfSlot DEF LooksWrong, Counted
    <3> QED BY <1>7, <3>1, <3>3 DEF Kept, Counted
  <2> QED BY <2>1, <2>2
<1>9. /\ KeptUnchangedBut(s)
      /\ \A q \in Rus : Kept(s, q)' = PacketIn(row, n, q)
      /\ HoldsPackets(row, n, s) => RowPacketsInv'
  BY <1>2, <1>3, SlotChanged
<1>10. HoldsPackets(row, n, s)
  <2>1. frame \in Frames
    BY <1>3 DEF TypeOK
  <2>2. \A q \in Rus : Counted(s, q) =>
          \E f \in Frames : content[cached_packets[s][q]] = UplinkPacket(q, s, f)
    BY DEF ContentInv, RowPacketsInv
  <2> QED BY <1>5, <1>6, <1>8, <2>1, <2>2 DEF HoldsPackets
<1>11. NumWorkers = 0 =>
         num_errors' = IF Kept(s, r) # FOREIGN THEN num_errors + 1 ELSE num_errors
  BY <1>1, KeptOfSlot DEF Takes
<1>12. \A q \in Rus : Kept(s, q)' = IF q = r THEN UplinkPacket(r, s, frame)
                                 ELSE IF Kept(s, r) # FOREIGN THEN FOREIGN ELSE Kept(s, q)
  BY <1>5, <1>6, <1>7, <1>8, <1>9 DEF PacketIn
<1> QED BY <1>1, <1>5, <1>9, <1>10, <1>11, <1>12 DEF ContentInv, ViewKept, Leaves

\* The packet completes its group, whatever then becomes of the row.
LEMMA GroupCompleted ==
  ASSUME MboxInv, NEW r \in Rus, NEW b \in Bufs, NEW s \in Slots, NEW row,
         Takes(r, b, s), Complete(s, r), UNCHANGED <<content, frame, sent, lost>>,
         cached_packets' = [cached_packets EXCEPT ![s] = row],
         cached_packets_num' = [cached_packets_num EXCEPT ![s] = CountAfter(s, r)]
  PROVE  /\ ContentInv' /\ Leaves(r, s)
         /\ Kept(s, r) = FOREIGN /\ \A q \in Rus \ {r} : Kept(s, q) # FOREIGN
         /\ \A q \in Rus : Kept(s, q)' = FOREIGN
         /\ NumWorkers = 0 => num_errors' = num_errors
         /\ \A q \in Rus : content[RowWith(s, r, b)[q]] = GroupWith(r, s)[q]
<1> DEFINE full == RowWith(s, r, b)
<1>1. CacheInv /\ ContentInv /\ OwnInv /\ TypeOK
  BY DEF MboxInv, CacheInv
<1>2. /\ QueuedInv' /\ Waits(r, s) /\ content[b] = UplinkPacket(r, s, frame)
      /\ \A q \in Rus, t \in Slots : Waits(q, t)' <=> Waits(q, t) /\ ~(q = r /\ t = s)
  BY <1>1, TakesView
<1>3. cached_packets_num' = [cached_packets_num EXCEPT ![s] = 0] /\ ~(0 > 0)
  BY DEF CountAfter
<1>4. KeptUnchangedBut(s) /\ RowPacketsInv' /\ \A q \in Rus : Kept(s, q)' = FOREIGN
  <2>1. SetsSlot(s, row, 0)
    BY <1>3 DEF SetsSlot
  <2>2. KeptUnchangedBut(s) /\ (\A q \in Rus : Kept(s, q)' = PacketIn(row, 0, q))
        /\ (HoldsPackets(row, 0, s) => RowPacketsInv')
    BY <1>1, <2>1, SlotChanged
  <2> QED BY <1>3, <2>2 DEF PacketIn, HoldsPackets
<1>5. /\ full[r] = b /\ b # NULL /\ cached_packets_num[s] \in 0 .. NumRus - 1 /\ NumRus \in Nat \ {0}
      /\ \A q \in Rus \ {r} : full[q] = IF LooksWrong(s, r) THEN NULL ELSE cached_packets[s][q]
      /\ \A q \in Rus : full[q] \in Bufs /\ full[q] # NULL
  <2>1. cached_packets[s] \in [Rus -> Bufs \cup {NULL}] /\ cached_packets_num[s] \in 0 .. NumRus - 1
    BY <1>1 DEF TypeOK
  <2>2. NumRus \in Nat \ {0} /\ b # NULL /\ NULL \notin Bufs
    BY DasAssumption
  <2>3. /\ full[r] = b
        /\ \A q \in Rus \ {r} : full[q] = IF LooksWrong(s, r) THEN NULL ELSE cached_packets[s][q]
    BY <2>1 DEF RowWith, EmptyRow
  <2>4. \A q \in Rus : full[q] \in Bufs
    BY <1>1, RowAndCount
  <2> QED BY <2>1, <2>2, <2>3, <2>4
<1>6. CASE LooksWrong(s, r)
  <2>1. NumRus = 1
    BY <1>6 DEF Complete, CountWith
  <2>2. \A q \in Rus : q = r
    BY <2>1 DEF Rus
  <2>3. ~Counted(s, r) /\ Kept(s, r) = FOREIGN
    BY <1>5, <2>1 DEF Counted, Kept
  <2>4. NumWorkers = 0 => FALSE
    BY <1>1, <1>6, <2>3, KeptOfSlot
  <2>5. \A q \in Rus : content[full[q]] = GroupWith(r, s)[q]
    BY <1>2, <1>5, <2>2 DEF GroupWith
  <2> QED BY <1>2, <1>4, <2>2, <2>3, <2>4, <2>5 DEF Leaves, ContentInv
<1>7. CASE ~LooksWrong(s, r)
  <2>1. Kept(s, r) = FOREIGN /\ num_errors' = num_errors
    BY <1>7 DEF Kept, Counted, LooksWrong, Takes
  <2>2. cached_packets_num[s] = NumRus - 1
    BY <1>5, <1>7 DEF Complete, CountWith
  <2>3. ASSUME NEW q \in Rus \ {r}
        PROVE  Counted(s, q) /\ full[q] = cached_packets[s][q]
    <3>1. NumRus > 1
      BY <1>5, <2>3 DEF Rus
    <3> QED BY <1>5, <1>7, <2>2, <3>1 DEF Counted
  <2>4. \A q \in Rus \ {r} : Kept(s, q) # FOREIGN
    BY <1>1, <2>3, KeptOfSlot
  <2>5. \A q \in Rus : content[full[q]] = GroupWith(r, s)[q]
    BY <1>2, <1>5, <2>3 DEF GroupWith, Kept
  <2> QED BY <1>2, <1>4, <2>1, <2>4, <2>5 DEF Leaves, ContentInv
<1> QED BY <1>6, <1>7

\* A packet that completes its group on the main core goes to the DU.
LEMMA MergeIsViewStep ==
  ASSUME MboxInv, NEW r \in Rus, MergeLocally(r)
  PROVE  ContentInv' /\ \E s \in Slots : ViewMerged(r, s)
<1>1. PICK b \in Bufs, s \in Slots, sentOK \in TxOutcomes :
        /\ Takes(r, b, s)
        /\ Complete(s, r)
        /\ cached_packets_num' = [cached_packets_num EXCEPT ![s] = CountAfter(s, r)]
        /\ process_pkts(RowWith(s, r, b), sentOK)
        /\ cached_packets' = [cached_packets EXCEPT ![s] = Cleared(@)]
        /\ UNCHANGED <<content, frame, sent, lost>>
  BY DEF MergeLocally, envVars
<1>2. /\ ContentInv' /\ Leaves(r, s)
      /\ Kept(s, r) = FOREIGN /\ \A q \in Rus \ {r} : Kept(s, q) # FOREIGN
      /\ \A q \in Rus : Kept(s, q)' = FOREIGN
      /\ NumWorkers = 0 => num_errors' = num_errors
      /\ \A q \in Rus : content[RowWith(s, r, b)[q]] = GroupWith(r, s)[q]
  BY <1>1, GroupCompleted
<1>3. [q \in Rus |-> content[RowWith(s, r, b)[q]]] = GroupWith(r, s)
  BY <1>2 DEF GroupWith
<1>4. 0 \in Rus /\ GroupWith(r, s)[0].port = s[1]
  <2>1. 0 \in Rus /\ frame \in Frames
    BY DasAssumption DEF Rus, MboxInv, CacheInv, TypeOK
  <2>2. CASE r = 0
    BY <2>1, <2>2, PacketFields DEF GroupWith
  <2>3. CASE r # 0
    <3>1. Kept(s, 0) # FOREIGN
      BY <1>2, <2>1, <2>3
    <3>2. \E f \in Frames : Kept(s, 0) = UplinkPacket(0, s, f)
      BY <2>1, <3>1, KeptOfSlot DEF MboxInv
    <3> QED BY <2>1, <2>3, <3>2, PacketFields DEF GroupWith
  <2> QED BY <2>2, <2>3
<1>5. to_du' \in {to_du, [to_du EXCEPT ![s[1]] = Append(@, GroupWith(r, s))]}
  BY <1>1, <1>3, <1>4 DEF process_pkts
<1> QED BY <1>2, <1>5 DEF ViewMerged

\* One that completes it for a worker, in a Release build, goes nowhere.
LEMMA PushIsViewStep ==
  ASSUME MboxInv, NEW r \in Rus, PushToWorker(r)
  PROVE  ContentInv' /\ \E s \in Slots : ViewMerged(r, s)
<1>1. PICK b \in Bufs, s \in Slots :
        /\ Takes(r, b, s)
        /\ Complete(s, r)
        /\ cached_packets_num' = [cached_packets_num EXCEPT ![s] = CountAfter(s, r)]
        /\ cached_packets' = [cached_packets EXCEPT ![s] = RowWith(s, r, b)]
        /\ UNCHANGED <<content, frame, sent, lost, to_du>>
  BY DEF PushToWorker, envVars
<1> QED BY <1>1, GroupCompleted DEF ViewMerged

\* All actions together.  A worker has nothing to do: its ring is empty.
LEMMA NextIsViewStep ==
  ASSUME MboxInv, [Next]_vars
  PROVE  ContentInv' /\ ViewNext
<1> USE DEF MboxInv
<1>1. CacheInv /\ ContentInv /\ OwnInv /\ TypeOK
  BY DEF CacheInv
<1>2. ASSUME NEW r \in Rus, FreeForeign(r)
      PROVE  ContentInv' /\ ViewStutters
  <2>1. /\ rxq[r] # <<>> /\ content[Head(rxq[r])] = FOREIGN /\ rxq' = [rxq EXCEPT ![r] = Tail(@)]
        /\ UNCHANGED <<content, cached_packets, cached_packets_num, num_errors, frame, sent, lost, to_du>>
    BY <1>2 DEF FreeForeign, envVars
  <2>2. /\ QueuedInv'
        /\ \A q \in Rus, t \in Slots : Waits(q, t)' <=>
              Waits(q, t) /\ ~(q = r /\ content[Head(rxq[r])] = UplinkPacket(r, t, frame))
    BY <1>1, <2>1, HeadPopped DEF ContentInv
  <2>3. WaitsUnchanged
    BY <1>1, <2>1, <2>2, PacketFields DEF WaitsUnchanged, TypeOK
  <2>4. KeptUnchanged /\ RowPacketsInv'
    BY <1>1, <2>1 DEF KeptUnchanged, Kept, Counted, RowPacketsInv, ContentInv, UplinkPacket
  <2> QED BY <2>1, <2>2, <2>3, <2>4 DEF ViewStutters, ContentInv
<1>3. ASSUME NEW r \in Rus, HandleRu(r)
      PROVE  ContentInv' /\ ViewNext
  BY <1>2, <1>3, StoreIsViewStep, MergeIsViewStep, PushIsViewStep DEF HandleRu, ViewNext
<1>4. ASSUME NEW w \in Workers, Worker(w)
      PROVE  FALSE
  BY <1>1, <1>4 DEF Worker, DequeueGroup, ProcessGroup, OwnInv, RingsEmpty
<1>5. ASSUME NEW r \in Rus, NEW s \in Slots, Send(r, s)
      PROVE  ContentInv' /\ ViewArrives(r, s)
  <2> DEFINE p == UplinkPacket(r, s, frame)
  <2>1. /\ s \notin sent[r] /\ sent' = [sent EXCEPT ![r] = @ \cup {s}] /\ NicReceive(r, p)
        /\ UNCHANGED <<frame, lost, num_errors, to_du>>
    BY <1>5 DEF Send, NicReceive
  <2>2. sent \in [Rus -> SUBSET Slots] /\ frame \in Frames
    BY <1>1 DEF TypeOK
  <2>3. (\A q \in Rus : sent[q] \subseteq sent'[q]) /\ s \in sent'[r] \ sent[r]
    BY <2>1, <2>2
  <2>4. p # FOREIGN => \E t \in sent'[r] \ sent[r] : t \in Slots /\ p = UplinkPacket(r, t, frame)
    BY <2>3
  <2>5. \A t \in Slots : p = UplinkPacket(r, t, frame) <=> t = s
    BY <2>2, PacketFields
  <2> HIDE DEF p
  <2>6. /\ ContentInv' /\ KeptUnchanged
        /\ \A q \in Rus, t \in Slots :
              Waits(q, t)' <=> Waits(q, t) \/ (q = r /\ p = UplinkPacket(r, t, frame))
    BY <1>1, <2>1, <2>3, <2>4, PacketReceived
  <2> QED BY <2>1, <2>5, <2>6 DEF ViewArrives
<1>6. ASSUME NEW r \in Rus, SendForeign(r)
      PROVE  ContentInv' /\ ViewStutters
  <2>1. NicReceive(r, FOREIGN) /\ UNCHANGED <<frame, sent, lost, num_errors, to_du>>
    BY <1>6 DEF SendForeign, NicReceive
  <2>2. /\ ContentInv' /\ KeptUnchanged
        /\ \A q \in Rus, t \in Slots :
              Waits(q, t)' <=> Waits(q, t) \/ (q = r /\ FOREIGN = UplinkPacket(r, t, frame))
    BY <1>1, <2>1, PacketReceived
  <2>3. WaitsUnchanged
    BY <1>1, <2>2, PacketFields DEF WaitsUnchanged, TypeOK
  <2> QED BY <2>1, <2>2, <2>3 DEF ViewStutters
<1>7. ASSUME UNCHANGED <<rxq, content, cached_packets, cached_packets_num, frame>>,
             \A r \in Rus : sent[r] \subseteq sent'[r]
      PROVE  ContentInv' /\ WaitsUnchanged /\ KeptUnchanged
  <2>1. WaitsUnchanged /\ KeptUnchanged
    BY <1>7 DEF WaitsUnchanged, Waits, KeptUnchanged, Kept, Counted, UplinkPacket
  <2>2. QueuedInv'
    BY <1>1, <1>7 DEF ContentInv, QueuedInv, InThisFrame, UplinkPacket
  <2>3. RowPacketsInv'
    BY <1>1, <1>7 DEF ContentInv, RowPacketsInv, Counted, UplinkPacket
  <2> QED BY <2>1, <2>2, <2>3 DEF ContentInv
<1>8. ASSUME NEW r \in Rus, NEW s \in Slots, Lose(r, s)
      PROVE  ContentInv' /\ ViewLost(r, s)
  <2>1. /\ UNCHANGED <<rxq, content, cached_packets, cached_packets_num, frame, num_errors, to_du>>
        /\ s \notin sent[r] /\ sent' = [sent EXCEPT ![r] = @ \cup {s}]
        /\ lost' = lost \cup {UplinkPacket(r, s, frame)}
    BY <1>8 DEF Lose, mainVars
  <2>2. \A q \in Rus : sent[q] \subseteq sent'[q]
    BY <1>1, <2>1 DEF TypeOK
  <2> QED BY <1>7, <2>1, <2>2 DEF ViewLost
<1>9. CASE NextFrame
  <2>1. /\ UNCHANGED <<rxq, content, cached_packets, cached_packets_num, num_errors, lost, to_du>>
        /\ frame' = frame + 1 /\ sent' = [r \in Rus |-> {}]
        /\ \A r \in Rus : sent[r] = Slots /\ rxq[r] = <<>>
    BY <1>9 DEF NextFrame, mainVars
  <2>2. \A r \in Rus : Len(rxq[r]) = 0
    BY <2>1
  <2>3. \A r \in Rus, s \in Slots : ~Waits(r, s) /\ ~Waits(r, s)'
    BY <2>1, <2>2 DEF Waits
  <2>4. QueuedInv'
    BY <2>1, <2>2 DEF QueuedInv
  <2>5. RowPacketsInv' /\ KeptUnchanged
    BY <1>1, <2>1 DEF ContentInv, RowPacketsInv, KeptUnchanged, Kept, Counted, UplinkPacket
  <2>6. ViewNextFrame
    BY <2>1, <2>3, <2>5 DEF ViewNextFrame
  <2> QED BY <2>4, <2>5, <2>6 DEF ContentInv, ViewNext
<1>10. CASE UNCHANGED vars
  <2>1. UNCHANGED <<rxq, content, cached_packets, cached_packets_num, frame, sent, lost, num_errors, to_du>>
    BY <1>10 DEF vars, mainVars, envVars
  <2> QED BY <1>7, <2>1 DEF ViewStutters, ViewNext
<1> QED BY <1>3, <1>4, <1>5, <1>6, <1>8, <1>9, <1>10 DEF Next, Spin, ViewNext

(* Invariants of what is kept, lost and delivered.                         *)

\* The number of frames whose packet of RU r for slot s has been handled or
\* lost: the packets of frames 0 .. Passed(r, s) - 1.
Passed(r, s) == IF Handled(r, s) THEN frame + 1 ELSE frame

\* A kept packet is not lost, and all later ones of its RU that have passed are.
NewerLost(r, s, f) == \A g \in Frames : f < g /\ g < Passed(r, s) => UplinkPacket(r, s, g) \in lost
KeptOnlyWhileNewest(s, r) == Kept(s, r) # FOREIGN =>
  \E f \in Frames : /\ Kept(s, r) = UplinkPacket(r, s, f)
                    /\ f < Passed(r, s)
                    /\ Kept(s, r) \notin lost
                    /\ NewerLost(r, s, f)
KeptInv == \A s \in Slots, r \in Rus : KeptOnlyWhileNewest(s, r)
LostInv == \A p \in lost : p.frame < Passed(p.ru, SlotOf(p))

-----------------------------------------------------------------------------
(* How the packets pass                                                    *)

NonePasses == \A q \in Rus, t \in Slots : Passed(q, t)' = Passed(q, t)
Passes(r, s) ==
  /\ Passed(r, s) = frame /\ frame' = frame
  /\ \A q \in Rus, t \in Slots :
       Passed(q, t)' = IF q = r /\ t = s THEN frame + 1 ELSE Passed(q, t)

Quietly ==
  /\ NonePasses /\ KeptUnchanged
  /\ UNCHANGED <<lost, num_errors, to_du>>
  /\ frame' = frame \/ ViewNextFrame

\* What waits has been sent.
LEMMA WaitingWasSent ==
  ASSUME TypeOK, QueuedInv, NEW r \in Rus, NEW s \in Slots, Waits(r, s)
  PROVE  s \in sent[r]
<1>1. frame \in Frames
  BY DEF TypeOK
<1>2. UplinkPacket(r, s, frame) # FOREIGN
  BY <1>1, PacketFields
<1>3. InThisFrame(r, UplinkPacket(r, s, frame))
  BY <1>2 DEF Waits, QueuedInv
<1>4. PICK t \in sent[r] : UplinkPacket(r, s, frame) = UplinkPacket(r, t, frame)
  BY <1>3 DEF InThisFrame
<1>5. t \in Slots
  BY DEF TypeOK
<1> QED BY <1>1, <1>4, <1>5, PacketFields

LEMMA PassedType ==
  ASSUME TypeOK, NEW r \in Rus, NEW s \in Slots
  PROVE  /\ frame \in Nat /\ Passed(r, s) \in {frame, frame + 1} /\ Passed(r, s) \in Nat
         /\ Handled(r, s) <=> Passed(r, s) = frame + 1
<1>1. frame \in Nat
  BY DasAssumption DEF TypeOK, Frames
<1> QED BY <1>1 DEF Passed

(* A packet that leaves the mailbox to be handled is one that now has      *)
(* passed, and the only one.                                               *)
LEMMA LeavesPasses ==
  ASSUME MboxInv, NEW r \in Rus, NEW s \in Slots, Leaves(r, s)
  PROVE  Passes(r, s)
<1>1. TypeOK /\ QueuedInv
  BY DEF MboxInv, CacheInv, ContentInv
<1>2. s \in sent[r]
  BY <1>1, WaitingWasSent DEF Leaves
<1>3. ~Handled(r, s) /\ \A q \in Rus, t \in Slots :
        Handled(q, t)' <=> Handled(q, t) \/ (q = r /\ t = s)
  BY <1>2 DEF Leaves, Handled
<1> QED BY <1>3 DEF Passes, Passed, Leaves

\* A step lets one packet pass, or none.
LEMMA ViewCases ==
  ASSUME MboxInv, ViewNext
  PROVE  \/ Quietly
         \/ \E r \in Rus, s \in Slots :
              Passes(r, s) /\ (ViewLost(r, s) \/ ViewKept(r, s) \/ ViewMerged(r, s))
<1>1. TypeOK /\ QueuedInv
  BY DEF MboxInv, CacheInv, ContentInv
<1>2. \A q \in Rus, t \in Slots : Waits(q, t) => t \in sent[q]
  BY <1>1, WaitingWasSent
<1>3. sent \in [Rus -> SUBSET Slots] /\ frame \in Nat
  BY <1>1, DasAssumption DEF TypeOK, Frames
<1>4. ASSUME NEW r \in Rus, NEW s \in Slots, ViewArrives(r, s)
      PROVE  Quietly
  <2>1. \A q \in Rus, t \in Slots : t \in sent'[q] <=> t \in sent[q] \/ (q = r /\ t = s)
    BY <1>3, <1>4 DEF ViewArrives
  <2>2. \A q \in Rus, t \in Slots : Handled(q, t)' <=> Handled(q, t)
    BY <1>2, <1>4, <2>1 DEF ViewArrives, Handled
  <2>3. NonePasses
    BY <1>4, <2>2 DEF NonePasses, Passed, ViewArrives
  <2> QED BY <1>4, <2>3 DEF ViewArrives, Quietly
<1>5. ASSUME NEW r \in Rus, NEW s \in Slots, ViewLost(r, s)
      PROVE  Passes(r, s)
  <2>1. \A q \in Rus, t \in Slots : t \in sent'[q] <=> t \in sent[q] \/ (q = r /\ t = s)
    BY <1>3, <1>5 DEF ViewLost
  <2>2. ~Handled(r, s) /\ \A q \in Rus, t \in Slots :
          Handled(q, t)' <=> Handled(q, t) \/ (q = r /\ t = s)
    BY <1>2, <1>5, <2>1 DEF ViewLost, Handled, WaitsUnchanged
  <2> QED BY <1>5, <2>2 DEF Passes, Passed, ViewLost
<1>6. ASSUME NEW r \in Rus, NEW s \in Slots, Leaves(r, s)
      PROVE  Passes(r, s)
  BY <1>6, LeavesPasses
<1>7. CASE ViewNextFrame
  <2>1. \A q \in Rus, t \in Slots : Handled(q, t) /\ ~Handled(q, t)'
    BY <1>7 DEF ViewNextFrame, Handled
  <2>2. NonePasses
    BY <1>7, <2>1 DEF NonePasses, Passed, ViewNextFrame
  <2> QED BY <1>7, <2>2 DEF ViewNextFrame, Quietly
<1>8. CASE ViewStutters
  <2>1. NonePasses
    BY <1>8 DEF NonePasses, Passed, Handled, ViewStutters, WaitsUnchanged
  <2> QED BY <1>8, <2>1 DEF ViewStutters, Quietly
<1>9. \A r \in Rus, s \in Slots : ViewKept(r, s) \/ ViewMerged(r, s) => Leaves(r, s)
  BY DEF ViewKept, ViewMerged
<1> QED BY <1>4, <1>5, <1>6, <1>7, <1>8, <1>9 DEF ViewNext

-----------------------------------------------------------------------------
(* What is lost and what is kept                                           *)

LEMMA PacketIs ==
  ASSUME NEW p \in Packet
  PROVE  p.ru \in Rus /\ SlotOf(p) \in Slots /\ p.frame \in Frames
         /\ p = UplinkPacket(p.ru, SlotOf(p), p.frame)
BY DEF Packet, SlotOf, Slots, UplinkPacket

\* A lost packet has passed, and stays so.
LEMMA LostStep ==
  ASSUME MboxInv, LostInv, ViewNext
  PROVE  LostInv'
<1>1. TypeOK /\ lost \subseteq Packet /\ frame \in Frames /\ frame \in Nat
  BY DasAssumption DEF MboxInv, CacheInv, TypeOK, Frames
<1>2. \A p \in Packet : p.ru \in Rus /\ SlotOf(p) \in Slots
  BY PacketIs
<1>3. \A p \in lost : p.frame < Passed(p.ru, SlotOf(p))
  BY DEF LostInv
<1>4. \A p : SlotOf(p)' = SlotOf(p)
  BY DEF SlotOf
<1>5. CASE Quietly
  <2>1. \A p \in lost : Passed(p.ru, SlotOf(p))' = Passed(p.ru, SlotOf(p))
    BY <1>1, <1>2, <1>5 DEF Quietly, NonePasses
  <2> QED BY <1>3, <1>4, <1>5, <2>1 DEF Quietly, LostInv
<1>6. ASSUME NEW r \in Rus, NEW s \in Slots, Passes(r, s)
      PROVE  \A p \in lost : p.frame < Passed(p.ru, SlotOf(p))'
  <2>1. ASSUME NEW p \in lost PROVE p.frame < Passed(p.ru, SlotOf(p))'
    <3>1. /\ p.frame < Passed(p.ru, SlotOf(p)) /\ p.frame \in Nat
          /\ Passed(p.ru, SlotOf(p))' = IF p.ru = r /\ SlotOf(p) = s THEN frame + 1
                                        ELSE Passed(p.ru, SlotOf(p))
      BY <1>1, <1>2, <1>3, <1>6 DEF Passes, Packet, Frames
    <3> QED BY <1>1, <1>6, <3>1 DEF Passes
  <2> QED BY <2>1
<1>7. ASSUME NEW r \in Rus, NEW s \in Slots, Passes(r, s), ViewKept(r, s) \/ ViewMerged(r, s)
      PROVE  LostInv'
  BY <1>4, <1>6, <1>7 DEF ViewKept, ViewMerged, Leaves, LostInv
<1>8. ASSUME NEW r \in Rus, NEW s \in Slots, Passes(r, s), ViewLost(r, s)
      PROVE  LostInv'
  <2> DEFINE p == UplinkPacket(r, s, frame)
  <2>1. p.ru = r /\ SlotOf(p) = s /\ p.frame = frame
    BY <1>1, PacketFields
  <2>2. frame < Passed(r, s)'
    BY <1>1, <1>8 DEF Passes
  <2>3. ASSUME NEW x \in lost' PROVE x.frame < Passed(x.ru, SlotOf(x))'
    <3>1. x \in lost \/ x = p
      BY <1>8 DEF ViewLost
    <3>2. x \in lost => x.frame < Passed(x.ru, SlotOf(x))'
      BY <1>6, <1>8
    <3>3. x = p => x.frame = frame /\ x.ru = r /\ SlotOf(x) = s
      BY <2>1
    <3> QED BY <1>4, <2>2, <3>1, <3>2, <3>3
  <2> QED BY <1>4, <2>3 DEF LostInv
<1> QED BY <1>5, <1>7, <1>8, ViewCases

\* What an invariant of one kept packet depends on.
LEMMA StillNewest ==
  ASSUME NEW s \in Slots, NEW r \in Rus, KeptOnlyWhileNewest(s, r),
         Kept(s, r)' = Kept(s, r), Passed(r, s)' = Passed(r, s),
         lost \subseteq lost', Kept(s, r) \in lost' => Kept(s, r) \in lost
  PROVE  KeptOnlyWhileNewest(s, r)'
<1>1. \A g : UplinkPacket(r, s, g)' = UplinkPacket(r, s, g)
  BY DEF UplinkPacket
<1> QED BY <1>1 DEF KeptOnlyWhileNewest, NewerLost

\* What is kept is the newest packet of its RU that was not lost.
LEMMA KeptStep ==
  ASSUME MboxInv, LostInv, KeptInv, ViewNext
  PROVE  KeptInv'
<1>1. TypeOK /\ frame \in Frames /\ frame \in Nat
  BY DasAssumption DEF MboxInv, CacheInv, TypeOK, Frames
<1>2. \A s \in Slots, r \in Rus : KeptOnlyWhileNewest(s, r)
  BY DEF KeptInv
<1>3. \A q, t, f : UplinkPacket(q, t, f)' = UplinkPacket(q, t, f)
  BY DEF UplinkPacket
<1>4. CASE Quietly
  <2>1. \A s \in Slots, r \in Rus : KeptOnlyWhileNewest(s, r)'
    BY <1>2, <1>4, StillNewest DEF Quietly, NonePasses, KeptUnchanged
  <2> QED BY <2>1 DEF KeptInv
<1>5. ASSUME NEW r \in Rus, NEW s \in Slots, Passes(r, s), ViewLost(r, s)
      PROVE  KeptInv'
  <2> DEFINE p == UplinkPacket(r, s, frame)
  <2>1. lost' = lost \cup {p}
    BY <1>5 DEF ViewLost
  <2>2. ASSUME NEW t \in Slots, NEW q \in Rus, ~(t = s /\ q = r)
        PROVE  KeptOnlyWhileNewest(t, q)'
    <3>1. Kept(t, q) # FOREIGN => Kept(t, q) # p
      BY <1>1, <1>2, <2>2, PacketFields DEF KeptOnlyWhileNewest
    <3>2. p # FOREIGN
      BY <1>1, PacketFields
    <3> HIDE DEF p
    <3>3. /\ Kept(t, q)' = Kept(t, q) /\ Passed(q, t)' = Passed(q, t)
          /\ lost \subseteq lost' /\ (Kept(t, q) \in lost' => Kept(t, q) \in lost)
      BY <1>5, <2>1, <2>2, <3>1, <3>2 DEF ViewLost, Passes, KeptUnchanged
    <3> QED BY <1>2, <3>3, StillNewest
  <2>3. KeptOnlyWhileNewest(s, r)'
    <3> SUFFICES ASSUME Kept(s, r) # FOREIGN
                 PROVE  KeptOnlyWhileNewest(s, r)'
      BY <1>5 DEF KeptOnlyWhileNewest, ViewLost, KeptUnchanged
    <3>1. PICK f \in Frames : /\ Kept(s, r) = UplinkPacket(r, s, f) /\ f < frame
                              /\ Kept(s, r) \notin lost
                              /\ \A g \in Frames : f < g /\ g < frame => UplinkPacket(r, s, g) \in lost
      BY <1>2, <1>5 DEF KeptOnlyWhileNewest, NewerLost, Passes
    <3>2. Kept(s, r) # p /\ f \in Nat
      BY <1>1, <3>1, PacketFields DEF Frames
    <3>3. ASSUME NEW g \in Frames, f < g, g < frame + 1
          PROVE  UplinkPacket(r, s, g) \in lost'
      <4>1. g < frame \/ g = frame
        BY <1>1, <3>3 DEF Frames
      <4> QED BY <2>1, <3>1, <3>3, <4>1
    <3>4. Kept(s, r)' = Kept(s, r) /\ Passed(r, s)' = frame + 1
      BY <1>5 DEF ViewLost, KeptUnchanged, Passes
    <3>5. f < frame + 1 /\ Kept(s, r) \notin lost'
      BY <1>1, <2>1, <3>1, <3>2
    <3> HIDE DEF p
    <3> QED BY <1>3, <3>1, <3>3, <3>4, <3>5 DEF KeptOnlyWhileNewest, NewerLost
  <2> QED BY <2>2, <2>3 DEF KeptInv
<1>6. ASSUME NEW r \in Rus, NEW s \in Slots, Passes(r, s), Leaves(r, s),
             NEW t \in Slots, NEW q \in Rus, ~(t = s /\ q = r),
             t = s => Kept(s, q)' \in {FOREIGN, Kept(s, q)}
      PROVE  KeptOnlyWhileNewest(t, q)'
  <2>1. CASE Kept(t, q)' = FOREIGN
    BY <2>1 DEF KeptOnlyWhileNewest
  <2>2. CASE Kept(t, q)' = Kept(t, q)
    <3>1. Passed(q, t)' = Passed(q, t) /\ lost' = lost
      BY <1>6 DEF Passes, Leaves
    <3> QED BY <1>2, <2>2, <3>1, StillNewest
  <2>3. Kept(t, q)' \in {FOREIGN, Kept(t, q)}
    BY <1>6 DEF Leaves, KeptUnchangedBut
  <2> QED BY <2>1, <2>2, <2>3
<1>7. ASSUME NEW r \in Rus, NEW s \in Slots, Passes(r, s), ViewKept(r, s)
      PROVE  KeptInv'
  <2> DEFINE p == UplinkPacket(r, s, frame)
  <2>1. /\ Leaves(r, s) /\ Kept(s, r)' = p /\ lost' = lost
        /\ \A q \in Rus \ {r} : Kept(s, q)' \in {FOREIGN, Kept(s, q)}
    BY <1>7 DEF ViewKept, Leaves
  <2>2. \A t \in Slots, q \in Rus : ~(t = s /\ q = r) => KeptOnlyWhileNewest(t, q)'
    BY <1>6, <1>7, <2>1
  <2>3. KeptOnlyWhileNewest(s, r)'
    <3>1. Passed(r, s)' = frame + 1 /\ Passed(r, s) = frame
      BY <1>7 DEF Passes
    <3>2. p.ru = r /\ SlotOf(p) = s /\ p.frame = frame
      BY <1>1, PacketFields
    <3>3. p \notin lost
      BY <1>1, <3>1, <3>2 DEF LostInv
    <3>4. \A g \in Frames : ~(frame < g /\ g < frame + 1)
      BY <1>1 DEF Frames
    <3>5. frame < frame + 1
      BY <1>1
    <3>6. \A g \in Frames : frame < g /\ g < Passed(r, s)' => UplinkPacket(r, s, g)' \in lost'
      BY <3>1, <3>4
    <3> QED BY <1>1, <1>3, <2>1, <3>1, <3>3, <3>5, <3>6 DEF KeptOnlyWhileNewest, NewerLost
  <2> QED BY <2>2, <2>3 DEF KeptInv
<1>8. ASSUME NEW r \in Rus, NEW s \in Slots, Passes(r, s), ViewMerged(r, s)
      PROVE  KeptInv'
  <2>1. Leaves(r, s) /\ \A q \in Rus : Kept(s, q)' = FOREIGN
    BY <1>8 DEF ViewMerged
  <2>2. \A t \in Slots, q \in Rus : ~(t = s /\ q = r) => KeptOnlyWhileNewest(t, q)'
    BY <1>6, <1>8, <2>1
  <2>3. KeptOnlyWhileNewest(s, r)'
    BY <2>1 DEF KeptOnlyWhileNewest
  <2> QED BY <2>2, <2>3 DEF KeptInv
<1> QED BY <1>4, <1>5, <1>7, <1>8, ViewCases

-----------------------------------------------------------------------------
(* Losses make the RUs of a slot uneven                                    *)

LostIn(s) == {p \in lost : SlotOf(p) = s}

\* How far RU r is ahead in slot s: a missing packet puts it behind the others.
NumKept(s, r) == IF Kept(s, r) # FOREIGN THEN 1 ELSE 0
Backlog(s, r) == NumKept(s, r) - Passed(r, s)

\* RUs get uneven through losses only.
EvenInv == \A s \in Slots : LostIn(s) = {} => \A r, q \in Rus : Backlog(s, r) = Backlog(s, q)

\* A packet kept since an earlier frame waits because of some loss before it,
\* or of another RU's packet.
OtherLoss(s, r) == \E p \in LostIn(s) : ~(p.ru = r /\ p.frame > Kept(s, r).frame)
StaleInv == \A s \in Slots, r \in Rus :
  Kept(s, r) # FOREIGN /\ Kept(s, r).frame < frame => OtherLoss(s, r)

\* Some packet of a group is always missing.
LEMMA NotAllKept ==
  ASSUME MboxInv, NEW s \in Slots
  PROVE  \E r \in Rus : Kept(s, r) = FOREIGN
<1> SUFFICES ASSUME \A r \in Rus : Kept(s, r) # FOREIGN
             PROVE  FALSE
  OBVIOUS
<1>1. \A r \in Rus : Counted(s, r)
  BY DEF Kept
<1>2. 0 \in Rus
  BY DasAssumption DEF Rus
<1>3. Filled(cached_packets[s]) = Rus /\ cached_packets_num[s] > 0
  BY <1>1, <1>2 DEF Counted, Filled
<1>4. cached_packets_num[s] = Cardinality(Rus) /\ cached_packets_num[s] < NumRus
  BY <1>3 DEF MboxInv, CacheInv, CountMatchesCache, Filled
<1>5. Cardinality(Rus) = NumRus
  <2>1. Cardinality(0 .. NumRus - 1) = IF 0 > NumRus - 1 THEN 0 ELSE NumRus - 1 - 0 + 1
    BY FS_Interval, DasAssumption
  <2> QED BY <2>1, DasAssumption DEF Rus
<1> QED BY <1>4, <1>5, DasAssumption

LEMMA BacklogType ==
  ASSUME TypeOK, NEW s \in Slots, NEW r \in Rus
  PROVE  Backlog(s, r) \in Int /\ NumKept(s, r) \in {0, 1}
<1>1. NumKept(s, r) \in {0, 1}
  BY DEF NumKept
<1> QED BY <1>1, PassedType DEF Backlog

\* What the steps do to the backlogs.
BacklogsUnchanged(s) == \A q \in Rus : Backlog(s, q)' = Backlog(s, q)

LEMMA BacklogQuiet ==
  ASSUME Quietly, NEW s \in Slots
  PROVE  BacklogsUnchanged(s)
BY DEF BacklogsUnchanged, Backlog, NumKept, Quietly, NonePasses, KeptUnchanged

\* A packet that passes changes the backlogs of its slot only,
LEMMA BacklogElsewhere ==
  ASSUME NEW r \in Rus, NEW s \in Slots, Passes(r, s),
         ViewLost(r, s) \/ Leaves(r, s), NEW t \in Slots \ {s}
  PROVE  BacklogsUnchanged(t)
<1>1. \A q \in Rus : Kept(t, q)' = Kept(t, q)
  BY DEF ViewLost, Leaves, KeptUnchanged, KeptUnchangedBut
<1> QED BY <1>1 DEF BacklogsUnchanged, Backlog, NumKept, Passes

\* by one less for its RU when it is lost,
LEMMA BacklogLost ==
  ASSUME MboxInv, NEW r \in Rus, NEW s \in Slots, Passes(r, s), ViewLost(r, s)
  PROVE  /\ Backlog(s, r)' = Backlog(s, r) - 1
         /\ \A q \in Rus \ {r} : Backlog(s, q)' = Backlog(s, q)
<1>1. \A q \in Rus : Kept(s, q)' = Kept(s, q)
  BY DEF ViewLost, KeptUnchanged
<1>2. frame \in Nat /\ NumKept(s, r) \in {0, 1} /\ NumKept(s, r)' = NumKept(s, r)
  BY <1>1, PassedType DEF NumKept, MboxInv, CacheInv
<1>3. Passed(r, s) = frame /\ Passed(r, s)' = frame + 1
      /\ \A q \in Rus \ {r} : Passed(q, s)' = Passed(q, s)
  BY DEF Passes
<1> QED BY <1>1, <1>2, <1>3 DEF Backlog, NumKept

\* A stored packet leaves the backlogs as they are; if it takes the place of an
\* old row, then those of the row shrink.
LEMMA BacklogKept ==
  ASSUME MboxInv, NEW r \in Rus, NEW s \in Slots, Passes(r, s), ViewKept(r, s)
  PROVE  /\ Kept(s, r) = FOREIGN => BacklogsUnchanged(s)
         /\ Kept(s, r) # FOREIGN => \A q \in Rus : Backlog(s, q)' = Backlog(s, q) - NumKept(s, q)
<1>1. /\ frame \in Nat /\ frame \in Frames
      /\ \A q \in Rus : NumKept(s, q) \in {0, 1} /\ Passed(q, s) \in Nat
  BY PassedType DEF NumKept, MboxInv, CacheInv, TypeOK
<1>2. Passed(r, s) = frame /\ Passed(r, s)' = frame + 1
      /\ \A q \in Rus \ {r} : Passed(q, s)' = Passed(q, s)
  BY DEF Passes
<1>3. /\ Kept(s, r)' # FOREIGN
      /\ \A q \in Rus \ {r} : Kept(s, q)' = IF Kept(s, r) # FOREIGN THEN FOREIGN ELSE Kept(s, q)
  BY <1>1, PacketFields DEF ViewKept
<1>4. NumKept(s, r)' = 1 /\ \A q \in Rus \ {r} :
        NumKept(s, q)' = IF Kept(s, r) # FOREIGN THEN 0 ELSE NumKept(s, q)
  BY <1>3 DEF NumKept
<1>5. NumKept(s, r) = IF Kept(s, r) # FOREIGN THEN 1 ELSE 0
  BY DEF NumKept
<1>6. \A q \in Rus : /\ Backlog(s, q) = NumKept(s, q) - Passed(q, s)
                     /\ Backlog(s, q)' = NumKept(s, q)' - Passed(q, s)'
  BY DEF Backlog
<1>7. ASSUME Kept(s, r) = FOREIGN PROVE BacklogsUnchanged(s)
  <2>1. Backlog(s, r)' = Backlog(s, r)
    BY <1>1, <1>2, <1>4, <1>5, <1>6, <1>7
  <2>2. \A q \in Rus \ {r} : Backlog(s, q)' = Backlog(s, q)
    BY <1>2, <1>4, <1>6, <1>7
  <2> QED BY <2>1, <2>2 DEF BacklogsUnchanged
<1>8. ASSUME Kept(s, r) # FOREIGN, NEW q \in Rus
      PROVE  Backlog(s, q)' = Backlog(s, q) - NumKept(s, q)
  <2>1. Backlog(s, r)' = Backlog(s, r) - NumKept(s, r)
    BY <1>1, <1>2, <1>4, <1>5, <1>6, <1>8
  <2>2. q # r => Backlog(s, q)' = Backlog(s, q) - NumKept(s, q)
    BY <1>1, <1>2, <1>4, <1>6, <1>8
  <2> QED BY <2>1, <2>2
<1> QED BY <1>7, <1>8

\* and by one less for every RU when it completes a group.
LEMMA BacklogMerged ==
  ASSUME MboxInv, NEW r \in Rus, NEW s \in Slots, Passes(r, s), ViewMerged(r, s)
  PROVE  \A q \in Rus : Backlog(s, q)' = Backlog(s, q) - 1
<1>1. frame \in Nat /\ \A q \in Rus : Passed(q, s) \in Nat
  BY PassedType DEF MboxInv, CacheInv
<1>2. Passed(r, s) = frame /\ Passed(r, s)' = frame + 1
      /\ \A q \in Rus \ {r} : Passed(q, s)' = Passed(q, s)
  BY DEF Passes
<1>3. /\ NumKept(s, r) = 0 /\ NumKept(s, r)' = 0
      /\ \A q \in Rus \ {r} : NumKept(s, q) = 1 /\ NumKept(s, q)' = 0
  BY DEF NumKept, ViewMerged
<1>4. Backlog(s, r)' = Backlog(s, r) - 1
  BY <1>1, <1>2, <1>3 DEF Backlog
<1>5. \A q \in Rus \ {r} : Backlog(s, q)' = Backlog(s, q) - 1
  BY <1>1, <1>2, <1>3 DEF Backlog
<1> QED BY <1>4, <1>5

-----------------------------------------------------------------------------

LEMMA MonotoneLoss ==
  ASSUME ViewNext
  PROVE  lost \subseteq lost' /\ \A s \in Slots : LostIn(s) \subseteq LostIn(s)'
<1>1. lost \subseteq lost'
  BY DEF ViewNext, ViewArrives, ViewLost, ViewKept, ViewMerged, Leaves, ViewNextFrame, ViewStutters
<1> QED BY <1>1 DEF LostIn, SlotOf

\* Which RUs of a slot have a packet once an even slot has been left.
LEMMA EvenSlot ==
  ASSUME MboxInv, NEW s \in Slots, NEW r \in Rus, Kept(s, r) # FOREIGN, Passed(r, s) = frame,
         \A q \in Rus : Backlog(s, q) = Backlog(s, r)
  PROVE  FALSE
<1>1. PICK m \in Rus : Kept(s, m) = FOREIGN
  BY NotAllKept
<1>2. frame \in Nat /\ Passed(m, s) \in {frame, frame + 1}
  BY PassedType DEF MboxInv, CacheInv
<1>3. Backlog(s, m) = 0 - Passed(m, s) /\ Backlog(s, r) = 1 - frame
  BY <1>1 DEF Backlog, NumKept
<1>4. Backlog(s, m) = Backlog(s, r)
  OBVIOUS
<1> QED BY <1>2, <1>3, <1>4

\* RUs stay even while nothing is lost.
LEMMA EvenStep ==
  ASSUME MboxInv, EvenInv, ViewNext
  PROVE  EvenInv'
<1> SUFFICES ASSUME NEW t \in Slots, LostIn(t)' = {}, NEW x \in Rus, NEW y \in Rus
             PROVE  Backlog(t, x)' = Backlog(t, y)'
  BY DEF EvenInv
<1>1. TypeOK /\ frame \in Frames
  BY DEF MboxInv, CacheInv, TypeOK
<1>2. LostIn(t) = {}
  BY MonotoneLoss
<1>3. \A q, p \in Rus : Backlog(t, q) = Backlog(t, p)
  BY <1>2 DEF EvenInv
<1>4. CASE BacklogsUnchanged(t)
  BY <1>3, <1>4 DEF BacklogsUnchanged
<1>5. CASE Quietly
  BY <1>4, <1>5, BacklogQuiet
<1>6. ASSUME NEW r \in Rus, NEW s \in Slots, Passes(r, s), ViewLost(r, s) \/ Leaves(r, s), t # s
      PROVE  BacklogsUnchanged(t)
  BY <1>6, BacklogElsewhere
<1>7. ASSUME NEW r \in Rus, Passes(r, t), ViewLost(r, t)
      PROVE  FALSE
  <2>1. SlotOf(UplinkPacket(r, t, frame)) = t
    BY <1>1, PacketFields
  <2>2. PICK p : p = UplinkPacket(r, t, frame)
    OBVIOUS
  <2>3. p \in lost' /\ SlotOf(p) = t
    BY <1>7, <2>1, <2>2 DEF ViewLost
  <2> QED BY <2>3 DEF LostIn, SlotOf
<1>8. ASSUME NEW r \in Rus, Passes(r, t), ViewKept(r, t)
      PROVE  BacklogsUnchanged(t)
  <2>1. CASE Kept(t, r) = FOREIGN
    BY <1>8, <2>1, BacklogKept
  <2>2. CASE Kept(t, r) # FOREIGN
    BY <1>3, <1>8, <2>2, EvenSlot DEF Passes
  <2> QED BY <2>1, <2>2
<1>9. ASSUME NEW r \in Rus, Passes(r, t), ViewMerged(r, t)
      PROVE  Backlog(t, x)' = Backlog(t, y)'
  BY <1>3, <1>9, BacklogMerged
<1>10. \A r \in Rus, s \in Slots : ViewKept(r, s) \/ ViewMerged(r, s) => Leaves(r, s)
  BY DEF ViewKept, ViewMerged
<1> QED BY <1>4, <1>5, <1>6, <1>7, <1>8, <1>9, <1>10, ViewCases

\* A kept packet is older than the current frame only after a loss.
LEMMA StaleStep ==
  ASSUME MboxInv, LostInv, KeptInv, EvenInv, StaleInv, ViewNext
  PROVE  StaleInv'
<1> SUFFICES ASSUME NEW t \in Slots, NEW x \in Rus, Kept(t, x)' # FOREIGN,
                    Kept(t, x)'.frame < frame'
             PROVE  OtherLoss(t, x)'
  BY DEF StaleInv
<1>1. TypeOK /\ frame \in Frames /\ frame \in Nat
  BY DasAssumption DEF MboxInv, CacheInv, TypeOK, Frames
<1>2. Kept(t, x) # FOREIGN => Kept(t, x).frame \in Nat /\ Kept(t, x).frame < Passed(x, t)
  BY PacketFields DEF KeptInv, KeptOnlyWhileNewest, Frames
<1>3. ASSUME Kept(t, x)' = Kept(t, x), OtherLoss(t, x)
      PROVE  OtherLoss(t, x)'
  <2>1. LostIn(t) \subseteq LostIn(t)'
    BY MonotoneLoss
  <2> QED BY <1>3, <2>1 DEF OtherLoss
<1>4. ASSUME Kept(t, x)' = Kept(t, x), frame' = frame
      PROVE  OtherLoss(t, x)'
  BY <1>3, <1>4 DEF StaleInv
<1>5. CASE Quietly /\ ViewNextFrame
  <2>1. Kept(t, x)' = Kept(t, x) /\ frame' = frame + 1
    BY <1>5 DEF Quietly, KeptUnchanged, ViewNextFrame
  <2>2. CASE Kept(t, x).frame < frame
    BY <1>3, <2>1, <2>2 DEF StaleInv
  <2>3. CASE ~(Kept(t, x).frame < frame)
    <3>1. \A q \in Rus : Passed(q, t) = frame + 1
      BY <1>5 DEF ViewNextFrame, Passed, Handled
    <3>2. Kept(t, x).frame = frame
      BY <1>1, <1>2, <2>1, <2>3, <3>1
    <3>3. PICK m \in Rus : Kept(t, m) = FOREIGN
      BY NotAllKept
    <3>4. Backlog(t, x) # Backlog(t, m)
      BY <1>1, <2>1, <3>1, <3>3 DEF Backlog, NumKept
    <3>5. PICK p : p \in LostIn(t)
      BY <3>4 DEF EvenInv
    <3>6. p.frame < Passed(p.ru, SlotOf(p)) /\ p \in Packet /\ SlotOf(p) = t
      BY <1>1, <3>5 DEF LostIn, LostInv, TypeOK
    <3>7. p.frame \in Nat /\ p.ru \in Rus
      BY <3>6 DEF Packet, Frames
    <3>8. ~(p.frame > Kept(t, x).frame)
      BY <1>1, <3>1, <3>2, <3>6, <3>7
    <3> QED BY <1>3, <2>1, <3>5, <3>8 DEF OtherLoss
  <2> QED BY <2>2, <2>3
<1>6. CASE Quietly /\ frame' = frame
  BY <1>4, <1>6 DEF Quietly, KeptUnchanged
<1>7. ASSUME NEW r \in Rus, NEW s \in Slots, Passes(r, s), ViewLost(r, s)
      PROVE  OtherLoss(t, x)'
  BY <1>4, <1>7 DEF ViewLost, KeptUnchanged, Passes
<1>8. ASSUME NEW r \in Rus, NEW s \in Slots, Passes(r, s), ViewKept(r, s)
      PROVE  OtherLoss(t, x)'
  <2>1. frame' = frame
    BY <1>8 DEF Passes
  <2>2. CASE t = s /\ x = r
    <3>1. Kept(t, x)' = UplinkPacket(r, s, frame)
      BY <1>8, <2>2 DEF ViewKept
    <3>2. Kept(t, x)'.frame = frame
      BY <1>1, <3>1, PacketFields
    <3> QED BY <1>1, <2>1, <3>2
  <2>3. CASE ~(t = s /\ x = r)
    <3>1. Kept(t, x)' = Kept(t, x)
      BY <1>8, <2>3 DEF ViewKept, Leaves, KeptUnchangedBut
    <3> QED BY <1>4, <2>1, <3>1
  <2> QED BY <2>2, <2>3
<1>9. ASSUME NEW r \in Rus, NEW s \in Slots, Passes(r, s), ViewMerged(r, s)
      PROVE  OtherLoss(t, x)'
  <2>1. Kept(t, x)' = Kept(t, x)
    BY <1>9 DEF ViewMerged, Leaves, KeptUnchangedBut
  <2> QED BY <1>4, <1>9, <2>1 DEF Passes
<1> QED BY <1>5, <1>6, <1>7, <1>8, <1>9, ViewCases DEF Quietly

-----------------------------------------------------------------------------
(* What is delivered                                                       *)

FiniteLoss == IsFiniteSet(lost)

\* A delivered group is of one slot, and its packets are over: the RU's kept
\* packet, and every one to come, is later.
UsedUp(g, s) == \A r \in Rus :
  /\ \E f \in Frames : g[r] = UplinkPacket(r, s, f)
  /\ g[r].frame < Passed(r, s)
  /\ Kept(s, r) # FOREIGN => g[r].frame < Kept(s, r).frame

\* Its frames are apart by at most the losses of the slot.
Near(g, s) == \A r, q \in Rus : g[r].frame <= g[q].frame + Cardinality(LostIn(s))

DeliveredInv == \A port \in Ports : \A i \in 1 .. Len(to_du[port]) :
  \E key \in Keys : UsedUp(to_du[port][i], <<port, key>>) /\ Near(to_du[port][i], <<port, key>>)

\* Losses of one RU between two frames, and perhaps one more loss.
LEMMA LossesCounted ==
  ASSUME FiniteLoss, NEW s \in Slots, NEW r \in Rus, NEW a \in Frames, NEW b \in Nat,
         a < b, b <= MaxFrame + 1,
         \A g \in Frames : a < g /\ g < b => UplinkPacket(r, s, g) \in lost
  PROVE  /\ Cardinality(LostIn(s)) \in Nat
         /\ b <= a + 1 + Cardinality(LostIn(s))
         /\ (\E p \in LostIn(s) : ~(p.ru = r /\ p.frame > a)) => b <= a + Cardinality(LostIn(s))
<1> DEFINE I == a + 1 .. b - 1
           S == {UplinkPacket(r, s, g) : g \in I}
           F == [g \in I |-> UplinkPacket(r, s, g)]
<1>1. a \in Nat /\ MaxFrame \in Nat
  BY DasAssumption DEF Frames
<1>2. IsFiniteSet(I) /\ Cardinality(I) = b - 1 - a
  <2>1. a + 1 \in Int /\ b - 1 \in Int
    BY <1>1
  <2>2. IsFiniteSet(I) /\ Cardinality(I) = IF a + 1 > b - 1 THEN 0 ELSE b - 1 - (a + 1) + 1
    BY <2>1, FS_Interval
  <2> QED BY <1>1, <2>2
<1>3. \A g \in I : g \in Frames /\ a < g /\ g < b
  BY <1>1 DEF Frames
<1>4. \A g \in I : /\ UplinkPacket(r, s, g).ru = r /\ UplinkPacket(r, s, g).frame = g
                   /\ SlotOf(UplinkPacket(r, s, g)) = s
  BY <1>3, PacketFields
<1>5. F \in Injection(I, S)
  <2>1. F \in [I -> S]
    OBVIOUS
  <2>2. IsInjective(F)
    BY <1>4 DEF IsInjective
  <2> QED BY <2>1, <2>2 DEF Injection
<1>6. LostIn(s) \in SUBSET lost /\ IsFiniteSet(LostIn(s))
  BY FS_Subset DEF LostIn, FiniteLoss
<1>7. Cardinality(LostIn(s)) \in Nat
  BY <1>6, FS_CardinalityType
<1>8. S \in SUBSET LostIn(s)
  BY <1>3, <1>4 DEF LostIn
<1>9. IsFiniteSet(S) /\ Cardinality(S) <= Cardinality(LostIn(s))
  BY <1>6, <1>8, FS_Subset
<1>10. \A p \in S : p.ru = r /\ p.frame > a
  BY <1>3, <1>4
<1> HIDE DEF I, S, F
<1>11. b - 1 - a <= Cardinality(S) /\ Cardinality(S) \in Nat
  BY <1>2, <1>5, <1>9, FS_Injection, FS_CardinalityType
<1>12. b <= a + 1 + Cardinality(LostIn(s))
  BY <1>1, <1>7, <1>9, <1>11
<1>13. ASSUME NEW p \in LostIn(s), ~(p.ru = r /\ p.frame > a)
       PROVE  b <= a + Cardinality(LostIn(s))
  <2>1. p \notin S
    BY <1>10, <1>13
  <2>2. Cardinality(S \cup {p}) = Cardinality(S) + 1
    BY <1>9, <2>1, FS_AddElement
  <2>3. S \cup {p} \in SUBSET LostIn(s)
    BY <1>8
  <2>4. Cardinality(S \cup {p}) <= Cardinality(LostIn(s))
    BY <1>6, <2>3, FS_Subset
  <2> QED BY <1>1, <1>7, <1>11, <2>2, <2>4
<1> QED BY <1>7, <1>12, <1>13

\* A packet that is kept is behind the current frame by losses only.
LEMMA KeptIsNear ==
  ASSUME MboxInv, KeptInv, StaleInv, FiniteLoss, NEW s \in Slots, NEW r \in Rus,
         Kept(s, r) # FOREIGN
  PROVE  /\ Kept(s, r).frame \in Nat /\ Kept(s, r).frame <= frame
         /\ Cardinality(LostIn(s)) \in Nat
         /\ frame <= Kept(s, r).frame + Cardinality(LostIn(s))
<1>1. TypeOK /\ frame \in Frames /\ frame \in Nat /\ MaxFrame \in Nat /\ frame <= MaxFrame
  BY DasAssumption DEF MboxInv, CacheInv, TypeOK, Frames
<1>2. PICK f \in Frames : /\ Kept(s, r) = UplinkPacket(r, s, f) /\ f < Passed(r, s)
                          /\ \A g \in Frames : f < g /\ g < Passed(r, s) => UplinkPacket(r, s, g) \in lost
  BY DEF KeptInv, KeptOnlyWhileNewest, NewerLost
<1>3. Kept(s, r).frame = f /\ f \in Nat
  BY <1>2, PacketFields DEF Frames
<1>4. Passed(r, s) \in {frame, frame + 1} /\ Passed(r, s) \in Nat
  BY <1>1, PassedType
<1>5. /\ Cardinality(LostIn(s)) \in Nat
      /\ Passed(r, s) <= f + 1 + Cardinality(LostIn(s))
      /\ (\E p \in LostIn(s) : ~(p.ru = r /\ p.frame > f)) => Passed(r, s) <= f + Cardinality(LostIn(s))
  <2>1. Passed(r, s) <= MaxFrame + 1
    BY <1>1, <1>4
  <2> QED BY <1>2, <1>4, <2>1, LossesCounted
<1>6. CASE Passed(r, s) = frame + 1
  BY <1>1, <1>2, <1>3, <1>5, <1>6
<1>7. CASE Passed(r, s) = frame
  <2>1. OtherLoss(s, r)
    BY <1>2, <1>3, <1>7 DEF StaleInv
  <2>2. frame <= f + Cardinality(LostIn(s))
    BY <1>3, <1>5, <1>7, <2>1 DEF OtherLoss
  <2> QED BY <1>1, <1>2, <1>3, <1>5, <1>7, <2>2
<1> QED BY <1>4, <1>6, <1>7

\* A new group mixes frames by no more than what was lost.
LEMMA NewGroupIsNear ==
  ASSUME MboxInv, KeptInv, StaleInv, FiniteLoss, NEW s \in Slots, NEW r \in Rus, ViewMerged(r, s)
  PROVE  Near(GroupWith(r, s), s)
<1> SUFFICES ASSUME NEW x \in Rus, NEW y \in Rus
             PROVE  GroupWith(r, s)[x].frame <= GroupWith(r, s)[y].frame + Cardinality(LostIn(s))
  BY DEF Near
<1>1. frame \in Nat /\ frame \in Frames
  BY DasAssumption DEF MboxInv, CacheInv, TypeOK, Frames
<1>2. Cardinality(LostIn(s)) \in Nat
  <2>1. LostIn(s) \in SUBSET lost
    BY DEF LostIn
  <2> QED BY <2>1, FS_Subset, FS_CardinalityType DEF FiniteLoss
<1>3. ASSUME NEW q \in Rus
      PROVE  /\ GroupWith(r, s)[q].frame \in Nat /\ GroupWith(r, s)[q].frame <= frame
             /\ frame <= GroupWith(r, s)[q].frame + Cardinality(LostIn(s))
  <2>1. CASE q = r
    <3>1. GroupWith(r, s)[q] = UplinkPacket(r, s, frame)
      BY <2>1 DEF GroupWith
    <3>2. GroupWith(r, s)[q].frame = frame
      BY <1>1, <3>1, PacketFields
    <3> QED BY <1>1, <1>2, <3>2
  <2>2. CASE q # r
    <3>1. GroupWith(r, s)[q] = Kept(s, q) /\ Kept(s, q) # FOREIGN
      BY <2>2 DEF GroupWith, ViewMerged
    <3> QED BY <3>1, KeptIsNear
  <2> QED BY <2>1, <2>2
<1>4. /\ GroupWith(r, s)[x].frame \in Nat /\ GroupWith(r, s)[x].frame <= frame
      /\ GroupWith(r, s)[y].frame \in Nat
      /\ frame <= GroupWith(r, s)[y].frame + Cardinality(LostIn(s))
  BY <1>3
<1> QED BY <1>1, <1>2, <1>4

\* Finitely many packets are lost.
LEMMA FiniteStep ==
  ASSUME FiniteLoss, ViewNext
  PROVE  FiniteLoss'
<1>1. lost' = lost \/ \E p : lost' = lost \cup {p}
  BY DEF ViewNext, ViewArrives, ViewLost, ViewKept, ViewMerged, Leaves, ViewNextFrame, ViewStutters
<1> QED BY <1>1, FS_AddElement DEF FiniteLoss

\* A packet that replaces a kept one, or comes where none was, is the next of
\* its RU.
LEMMA KeptMoves ==
  ASSUME MboxInv, ViewNext, NEW s \in Slots, NEW r \in Rus
  PROVE  /\ Passed(r, s) \in Nat /\ Passed(r, s)' \in Nat /\ Passed(r, s)' >= Passed(r, s)
         /\ \/ Kept(s, r)' \in {Kept(s, r), FOREIGN}
            \/ Kept(s, r)'.frame = Passed(r, s)
<1>1. TypeOK /\ frame \in Frames /\ frame \in Nat /\ Passed(r, s) \in Nat
  BY PassedType, DasAssumption DEF MboxInv, CacheInv, TypeOK, Frames
<1>2. CASE Quietly
  BY <1>1, <1>2 DEF Quietly, NonePasses, KeptUnchanged
<1>3. ASSUME NEW q \in Rus, NEW t \in Slots, Passes(q, t)
      PROVE  Passed(r, s)' \in Nat /\ Passed(r, s)' >= Passed(r, s)
  BY <1>1, <1>3 DEF Passes
<1>4. ASSUME NEW q \in Rus, NEW t \in Slots, Passes(q, t), ViewKept(q, t)
      PROVE  Kept(s, r)' \in {Kept(s, r), FOREIGN} \/ Kept(s, r)'.frame = Passed(r, s)
  <2>1. CASE s # t
    BY <1>4, <2>1 DEF ViewKept, Leaves, KeptUnchangedBut
  <2>2. CASE s = t /\ r # q
    BY <1>4, <2>2 DEF ViewKept
  <2>3. CASE s = t /\ r = q
    <3>1. Kept(s, r)' = UplinkPacket(r, s, frame) /\ Passed(r, s) = frame
      BY <1>4, <2>3 DEF ViewKept, Passes
    <3> QED BY <1>1, <3>1, PacketFields
  <2> QED BY <2>1, <2>2, <2>3
<1>5. ASSUME NEW q \in Rus, NEW t \in Slots, ViewLost(q, t) \/ ViewMerged(q, t)
      PROVE  Kept(s, r)' \in {Kept(s, r), FOREIGN}
  BY <1>5 DEF ViewLost, KeptUnchanged, ViewMerged, Leaves, KeptUnchangedBut
<1> QED BY <1>1, <1>2, <1>3, <1>4, <1>5, ViewCases


\* A delivered group stays used up, and near.
LEMMA StillDelivered ==
  ASSUME MboxInv, FiniteLoss, ViewNext, NEW s \in Slots, NEW g, UsedUp(g, s), Near(g, s)
  PROVE  UsedUp(g, s)' /\ Near(g, s)'
<1>1. \A q, t, f : UplinkPacket(q, t, f)' = UplinkPacket(q, t, f)
  BY DEF UplinkPacket
<1>2. ASSUME NEW r \in Rus
      PROVE  /\ \E f \in Frames : g[r] = UplinkPacket(r, s, f) /\ g[r].frame = f /\ f \in Nat
             /\ g[r].frame < Passed(r, s)'
             /\ Kept(s, r)' # FOREIGN => g[r].frame < Kept(s, r)'.frame
  <2>1. PICK f \in Frames : g[r] = UplinkPacket(r, s, f) /\ f < Passed(r, s)
                            /\ g[r].frame = f /\ f \in Nat
    BY PacketFields DEF UsedUp, Frames
  <2>2. g[r].frame < Passed(r, s)'
    BY <2>1, KeptMoves
  <2>3. Kept(s, r)' # FOREIGN => g[r].frame < Kept(s, r)'.frame
    BY <2>1, KeptMoves DEF UsedUp
  <2> QED BY <2>1, <2>2, <2>3
<1>3. UsedUp(g, s)'
  BY <1>1, <1>2 DEF UsedUp
<1>4. /\ Cardinality(LostIn(s)) \in Nat /\ Cardinality(LostIn(s))' \in Nat
      /\ Cardinality(LostIn(s)) <= Cardinality(LostIn(s))'
  <2>1. LostIn(s) \in SUBSET lost /\ LostIn(s)' \in SUBSET lost' /\ LostIn(s) \in SUBSET LostIn(s)'
    BY MonotoneLoss DEF LostIn
  <2>2. IsFiniteSet(lost) /\ IsFiniteSet(lost')
    BY FiniteStep DEF FiniteLoss
  <2>3. IsFiniteSet(LostIn(s)) /\ IsFiniteSet(LostIn(s)')
    BY <2>1, <2>2, FS_Subset
  <2> QED BY <2>1, <2>3, FS_Subset, FS_CardinalityType
<1>5. \A r, q \in Rus : g[r].frame <= g[q].frame + Cardinality(LostIn(s))'
  <2> SUFFICES ASSUME NEW r \in Rus, NEW q \in Rus
               PROVE  g[r].frame <= g[q].frame + Cardinality(LostIn(s))'
    OBVIOUS
  <2>1. g[r].frame \in Nat /\ g[q].frame \in Nat
    BY <1>2
  <2>2. g[r].frame <= g[q].frame + Cardinality(LostIn(s))
    BY DEF Near
  <2> QED BY <1>4, <2>1, <2>2
<1> QED BY <1>3, <1>5 DEF Near

\* The packets of a new group are over as well.
LEMMA NewGroupIsUsedUp ==
  ASSUME MboxInv, KeptInv, NEW s \in Slots, NEW r \in Rus, Passes(r, s), ViewMerged(r, s),
         NEW g, g = GroupWith(r, s)
  PROVE  UsedUp(g, s)'
<1>1. frame \in Frames /\ frame \in Nat
  BY DasAssumption DEF MboxInv, CacheInv, TypeOK, Frames
<1>2. ASSUME NEW q \in Rus
      PROVE  /\ \E f \in Frames : g[q] = UplinkPacket(q, s, f)
             /\ g[q].frame < Passed(q, s)'
  <2>1. CASE q = r
    <3>1. g[q] = UplinkPacket(r, s, frame) /\ Passed(r, s)' = frame + 1
      BY <2>1 DEF GroupWith, Passes
    <3>2. g[q].frame = frame
      BY <1>1, <3>1, PacketFields
    <3> QED BY <1>1, <2>1, <3>1, <3>2
  <2>2. CASE q # r
    <3>1. g[q] = Kept(s, q) /\ Kept(s, q) # FOREIGN /\ Passed(q, s)' = Passed(q, s)
      BY <2>2 DEF GroupWith, ViewMerged, Passes
    <3>2. PICK f \in Frames : g[q] = UplinkPacket(q, s, f) /\ f < Passed(q, s)
      BY <3>1 DEF KeptInv, KeptOnlyWhileNewest
    <3>3. g[q].frame = f
      BY <3>2, PacketFields
    <3> QED BY <3>1, <3>2, <3>3
  <2> QED BY <2>1, <2>2
<1>3. \A q, t, f : UplinkPacket(q, t, f)' = UplinkPacket(q, t, f)
  BY DEF UplinkPacket
<1>4. \A q \in Rus : Kept(s, q)' = FOREIGN
  BY DEF ViewMerged
<1> QED BY <1>2, <1>3, <1>4 DEF UsedUp

\* Delivered groups are used up and near, and stay so.
LEMMA DeliveredStep ==
  ASSUME MboxInv, KeptInv, StaleInv, FiniteLoss, DeliveredInv, ViewNext
  PROVE  DeliveredInv'
<1> DEFINE Later(g, s) ==
             /\ \A r \in Rus :
                  /\ \E f \in Frames : g[r] = UplinkPacket(r, s, f)
                  /\ g[r].frame < Passed(r, s)'
                  /\ Kept(s, r)' # FOREIGN => g[r].frame < Kept(s, r)'.frame
             /\ \A r, q \in Rus : g[r].frame <= g[q].frame + Cardinality(LostIn(s))'
           Still(g, port) == \E key \in Keys : Later(g, <<port, key>>)
<1>1. \A q, t, f : UplinkPacket(q, t, f)' = UplinkPacket(q, t, f)
  BY DEF UplinkPacket
<1>2. ASSUME NEW s \in Slots, NEW g, UsedUp(g, s)', Near(g, s)'
      PROVE  Later(g, s)
  BY <1>1, <1>2 DEF UsedUp, Near
<1>3. ASSUME NEW port \in Ports, NEW i \in 1 .. Len(to_du[port])
      PROVE  Still(to_du[port][i], port)
  <2>1. PICK g : g = to_du[port][i]
    OBVIOUS
  <2>2. PICK key \in Keys : UsedUp(g, <<port, key>>) /\ Near(g, <<port, key>>)
    BY <2>1 DEF DeliveredInv
  <2>3. PICK s \in Slots : s = <<port, key>>
    BY DEF Slots
  <2>4. Later(g, s)
    BY <1>2, <2>2, <2>3, StillDelivered
  <2> HIDE DEF Later
  <2> QED BY <2>1, <2>3, <2>4
<1>4. (\A port \in Ports : \A i \in 1 .. Len(to_du'[port]) : Still(to_du'[port][i], port))
        => DeliveredInv'
  BY <1>1 DEF DeliveredInv, UsedUp, Near
<1> HIDE DEF Later
<1>5. CASE to_du' = to_du
  BY <1>3, <1>4, <1>5
<1>6. ASSUME NEW r \in Rus, NEW s \in Slots, Passes(r, s), ViewMerged(r, s),
             to_du' = [to_du EXCEPT ![s[1]] = Append(@, GroupWith(r, s))]
      PROVE  DeliveredInv'
  <2>1. PICK g : g = GroupWith(r, s)
    OBVIOUS
  <2>2. s[1] \in Ports /\ s[2] \in Keys /\ s = <<s[1], s[2]>>
    BY DEF Slots
  <2>3. UsedUp(g, s)'
    BY <1>6, <2>1, NewGroupIsUsedUp
  <2>4. Near(g, s)
    BY <1>6, <2>1, NewGroupIsNear
  <2>5. Near(g, s)'
    <3>1. LostIn(s)' = LostIn(s)
      BY <1>6 DEF ViewMerged, Leaves, LostIn, SlotOf
    <3> QED BY <2>4, <3>1 DEF Near
  <2>6. Still(g, s[1])
    BY <1>2, <2>2, <2>3, <2>5
  <2>7. /\ to_du \in [Ports -> Seq(Groups)] /\ to_du[s[1]] \in Seq(Groups)
        /\ to_du' = [to_du EXCEPT ![s[1]] = Append(@, g)]
    BY <1>6, <2>1, <2>2 DEF MboxInv, CacheInv, TypeOK
  <2>8. /\ \A port \in Ports \ {s[1]} : to_du'[port] = to_du[port]
        /\ to_du'[s[1]] = Append(to_du[s[1]], g)
    BY <2>2, <2>7
  <2>9. \A i \in 1 .. Len(to_du'[s[1]]) : i \in 1 .. Len(to_du[s[1]]) \/ i = Len(to_du[s[1]]) + 1
    BY <2>7, <2>8
  <2>10. \A i \in 1 .. Len(to_du'[s[1]]) :
           \/ i \in 1 .. Len(to_du[s[1]]) /\ to_du'[s[1]][i] = to_du[s[1]][i]
           \/ to_du'[s[1]][i] = g
    BY <2>7, <2>8, <2>9
  <2> HIDE DEF Still
  <2> QED BY <1>3, <1>4, <2>6, <2>8, <2>10
<1>7. \/ to_du' = to_du
      \/ \E r \in Rus, s \in Slots : /\ Passes(r, s) /\ ViewMerged(r, s)
                                     /\ to_du' = [to_du EXCEPT ![s[1]] = Append(@, GroupWith(r, s))]
  <2>1. CASE Quietly
    BY <2>1 DEF Quietly
  <2>2. CASE \E r \in Rus, s \in Slots : ViewLost(r, s) \/ ViewKept(r, s)
    BY <2>2 DEF ViewLost, ViewKept
  <2>3. CASE \E r \in Rus, s \in Slots : Passes(r, s) /\ ViewMerged(r, s)
    BY <2>3 DEF ViewMerged
  <2> QED BY <2>1, <2>2, <2>3, ViewCases
<1> QED BY <1>5, <1>6, <1>7

\* Nearness is the property that the runs check.
LEMMA SkewFollows ==
  ASSUME MboxInv, DeliveredInv
  PROVE  SkewBoundedByLoss
<1>1. SUFFICES ASSUME NEW port \in Ports, NEW i \in DOMAIN to_du[port]
               PROVE  LET g == to_du[port][i]
                          lostInSlot == {p \in lost : SlotOf(p) = SlotOf(g[0])}
                      IN  \A r, q \in Rus : g[r].frame <= g[q].frame + Cardinality(lostInSlot)
  BY DEF SkewBoundedByLoss
<1>2. i \in 1 .. Len(to_du[port])
  BY DEF MboxInv, CacheInv, TypeOK
<1>3. PICK key \in Keys : UsedUp(to_du[port][i], <<port, key>>) /\ Near(to_du[port][i], <<port, key>>)
  BY <1>2 DEF DeliveredInv
<1>4. 0 \in Rus /\ <<port, key>> \in Slots
  BY DasAssumption DEF Rus, Slots
<1>5. SlotOf(to_du[port][i][0]) = <<port, key>>
  BY <1>3, <1>4, PacketFields DEF UsedUp
<1> QED BY <1>3, <1>5 DEF Near, LostIn

-----------------------------------------------------------------------------
(* Every loss pays for one eviction.  RU r of slot s is behind by k if some *)
(* RU's backlog exceeds its own by k; a loss puts one RU behind by one more *)
(* and an eviction makes up for at least one such place.                    *)

Behind(s, r, k) == \E q \in Rus : Backlog(s, q) >= Backlog(s, r) + k
Deficit == {e \in Slots \X Rus \X {1, 2} : Behind(e[1], e[2], e[3])}
ErrorsInv ==
  /\ IsFiniteSet(Deficit)
  /\ num_errors + Cardinality(Deficit) <= Cardinality(lost)

LEMMA SameBehind ==
  ASSUME TypeOK, NEW s \in Slots, NEW d \in Int,
         \A q \in Rus : Backlog(s, q)' = Backlog(s, q) - d
  PROVE  \A r \in Rus, k \in {1, 2} : Behind(s, r, k)' <=> Behind(s, r, k)
<1> SUFFICES ASSUME NEW r \in Rus, NEW k \in {1, 2}
             PROVE  Behind(s, r, k)' <=> Behind(s, r, k)
  OBVIOUS
<1>1. \A q \in Rus : Backlog(s, q) \in Int
  BY BacklogType
<1>2. \A q \in Rus : Backlog(s, q)' >= Backlog(s, r)' + k <=> Backlog(s, q) >= Backlog(s, r) + k
  BY <1>1
<1> QED BY <1>2 DEF Behind

\* A step at one slot leaves the deficits of the others alone.
LEMMA BehindElsewhere ==
  ASSUME NEW s \in Slots, BacklogsUnchanged(s)
  PROVE  \A r \in Rus, k \in {1, 2} : Behind(s, r, k)' <=> Behind(s, r, k)
BY DEF Behind, BacklogsUnchanged

\* The places of a deficit, one by one.
LEMMA PlacesOf ==
  /\ \A e \in Slots \X Rus \X {1, 2} : /\ e[1] \in Slots /\ e[2] \in Rus /\ e[3] \in {1, 2}
                                       /\ e = <<e[1], e[2], e[3]>>
  /\ \A e : e \in Deficit <=> e \in Slots \X Rus \X {1, 2} /\ Behind(e[1], e[2], e[3])
  /\ \A e : e \in Deficit' <=> e \in Slots \X Rus \X {1, 2} /\ Behind(e[1], e[2], e[3])'
BY DEF Deficit

LEMMA SameDeficit ==
  ASSUME \A s \in Slots, r \in Rus, k \in {1, 2} : Behind(s, r, k)' <=> Behind(s, r, k)
  PROVE  Deficit' = Deficit
<1>1. \A e \in Slots \X Rus \X {1, 2} : Behind(e[1], e[2], e[3])' <=> Behind(e[1], e[2], e[3])
  BY PlacesOf
<1> QED BY <1>1, PlacesOf

\* A loss adds at most one place.
LEMMA DeficitLost ==
  ASSUME MboxInv, NEW r \in Rus, NEW s \in Slots, Passes(r, s), ViewLost(r, s)
  PROVE  \E e : Deficit' \subseteq Deficit \cup {e}
<1>1. TypeOK
  BY DEF MboxInv, CacheInv
<1>2. /\ \A q \in Rus : Backlog(s, q) \in Int
      /\ Backlog(s, r)' = Backlog(s, r) - 1
      /\ \A q \in Rus \ {r} : Backlog(s, q)' = Backlog(s, q)
  BY <1>1, BacklogType, BacklogLost
<1>3. \A t \in Slots \ {s} : \A q \in Rus, k \in {1, 2} : Behind(t, q, k)' <=> Behind(t, q, k)
  BY BacklogElsewhere, BehindElsewhere
<1>4. ASSUME NEW q \in Rus \ {r}, NEW k \in {1, 2}, Behind(s, q, k)'
      PROVE  Behind(s, q, k)
  <2>1. PICK p \in Rus : Backlog(s, p)' >= Backlog(s, q)' + k
    BY <1>4 DEF Behind
  <2>2. Backlog(s, p) >= Backlog(s, q) + k
    BY <1>2, <2>1
  <2> QED BY <2>2 DEF Behind
<1>5. ASSUME NEW k \in {1, 2}, NEW j \in {1, 2}, Behind(s, r, k)', Behind(s, r, j)', k < j
      PROVE  Behind(s, r, k)
  <2>1. PICK p \in Rus : Backlog(s, p)' >= Backlog(s, r)' + j
    BY <1>5 DEF Behind
  <2>2. p # r
    BY <1>2, <2>1
  <2>3. Backlog(s, p) >= Backlog(s, r) + k
    BY <1>2, <1>5, <2>1, <2>2
  <2> QED BY <2>3 DEF Behind
<1>6. PICK k \in {1, 2} : \A j \in {1, 2} : Behind(s, r, j)' /\ ~Behind(s, r, j) => j = k
  <2>1. CASE Behind(s, r, 2)'
    BY <1>5, <2>1
  <2>2. CASE ~Behind(s, r, 2)'
    BY <2>2
  <2> QED BY <2>1, <2>2
<1> DEFINE e0 == <<s, r, k>>
<1>7. ASSUME NEW e \in Deficit' PROVE e \in Deficit \/ e = e0
  <2>1. /\ e[1] \in Slots /\ e[2] \in Rus /\ e[3] \in {1, 2} /\ e = <<e[1], e[2], e[3]>>
        /\ Behind(e[1], e[2], e[3])' /\ e \in Slots \X Rus \X {1, 2}
    BY PlacesOf
  <2>2. PICK t \in Slots, q \in Rus, j \in {1, 2} : e = <<t, q, j>> /\ Behind(t, q, j)'
    BY <2>1
  <2>3. Behind(t, q, j) => e \in Deficit
    BY <2>2, PlacesOf
  <2>4. CASE t # s
    BY <1>3, <2>2, <2>3, <2>4
  <2>5. CASE t = s /\ q # r
    BY <1>4, <2>2, <2>3, <2>5
  <2>6. CASE t = s /\ q = r
    BY <1>6, <2>2, <2>3, <2>6
  <2> QED BY <2>4, <2>5, <2>6
<1> QED BY <1>7

\* An eviction removes a place and adds none.
LEMMA DeficitEvicted ==
  ASSUME MboxInv, NEW r \in Rus, NEW s \in Slots, Passes(r, s), ViewKept(r, s),
         Kept(s, r) # FOREIGN
  PROVE  \E e \in Deficit : Deficit' \subseteq Deficit \ {e}
<1>1. TypeOK
  BY DEF MboxInv, CacheInv
<1>2. /\ frame \in Nat /\ Passed(r, s) = frame /\ NumKept(s, r) = 1
      /\ \A q \in Rus : /\ NumKept(s, q) \in {0, 1} /\ Passed(q, s) \in {frame, frame + 1}
                        /\ Backlog(s, q) = NumKept(s, q) - Passed(q, s)
                        /\ Backlog(s, q)' = Backlog(s, q) - NumKept(s, q)
  BY <1>1, PassedType, BacklogType, BacklogKept DEF Passes, NumKept, Backlog
<1>3. PICK m \in Rus : NumKept(s, m) = 0
  BY NotAllKept DEF NumKept
<1>4. \A t \in Slots \ {s} : \A q \in Rus, k \in {1, 2} : Behind(t, q, k)' <=> Behind(t, q, k)
  BY BacklogElsewhere, BehindElsewhere DEF ViewKept
<1>5. ASSUME NEW q \in Rus, NEW k \in {1, 2}, Behind(s, q, k)'
      PROVE  Behind(s, q, k)
  <2>1. PICK p \in Rus : Backlog(s, p)' >= Backlog(s, q)' + k
    BY <1>5 DEF Behind
  <2>2. \/ Backlog(s, p) >= Backlog(s, q) + k
        \/ Backlog(s, r) >= Backlog(s, q) + k
    BY <1>2, <2>1
  <2> QED BY <2>2 DEF Behind
<1>6. PICK k \in {1, 2} : Backlog(s, r) = Backlog(s, m) + k
  <2>1. Backlog(s, r) = 1 - frame /\ Backlog(s, m) \in {0 - frame, 0 - (frame + 1)}
    BY <1>2, <1>3
  <2> QED BY <1>2, <2>1
<1>7. ~Behind(s, m, k)'
  <2> SUFFICES ASSUME NEW q \in Rus PROVE ~(Backlog(s, q)' >= Backlog(s, m)' + k)
    BY DEF Behind
  <2> QED BY <1>2, <1>3, <1>6
<1> DEFINE e0 == <<s, m, k>>
<1>8. e0 \in Deficit
  <2>1. Behind(s, m, k)
    <3>1. Backlog(s, r) >= Backlog(s, m) + k
      BY <1>1, <1>6, BacklogType
    <3> QED BY <3>1 DEF Behind
  <2> QED BY <2>1, PlacesOf
<1>9. ASSUME NEW e \in Deficit' PROVE e \in Deficit /\ e # e0
  <2>1. /\ e[1] \in Slots /\ e[2] \in Rus /\ e[3] \in {1, 2} /\ e = <<e[1], e[2], e[3]>>
        /\ Behind(e[1], e[2], e[3])' /\ e \in Slots \X Rus \X {1, 2}
    BY PlacesOf
  <2>2. PICK t \in Slots, q \in Rus, j \in {1, 2} : e = <<t, q, j>> /\ Behind(t, q, j)'
    BY <2>1
  <2>3. Behind(t, q, j)
    BY <1>4, <1>5, <2>2
  <2>4. e \in Deficit
    BY <2>2, <2>3, PlacesOf
  <2> QED BY <1>7, <2>2, <2>4
<1> QED BY <1>8, <1>9

\* A loss adds one to the deficit at most; an error takes one away.
LEMMA ErrorsStep ==
  ASSUME NumWorkers = 0, MboxInv, LostInv, FiniteLoss, ErrorsInv, ViewNext
  PROVE  ErrorsInv'
<1>1. TypeOK /\ frame \in Frames /\ frame \in Nat /\ num_errors \in Nat
  BY DasAssumption DEF MboxInv, CacheInv, TypeOK, Frames
<1>2. Cardinality(Deficit) \in Nat /\ Cardinality(lost) \in Nat
  BY FS_CardinalityType DEF ErrorsInv, FiniteLoss
<1>3. CASE Deficit' = Deficit /\ num_errors' = num_errors /\ lost' = lost
  BY <1>3 DEF ErrorsInv
<1>4. CASE Quietly
  <2>1. Deficit' = Deficit
    BY <1>4, BacklogQuiet, BehindElsewhere, SameDeficit
  <2> QED BY <1>3, <1>4, <2>1 DEF Quietly
<1>5. ASSUME NEW r \in Rus, NEW s \in Slots, Passes(r, s), ViewLost(r, s)
      PROVE  ErrorsInv'
  <2>1. PICK e : Deficit' \subseteq Deficit \cup {e}
    BY <1>5, DeficitLost
  <2>2. /\ IsFiniteSet(Deficit \cup {e}) /\ Cardinality(Deficit \cup {e}) \in Nat
        /\ Cardinality(Deficit \cup {e}) <= Cardinality(Deficit) + 1
    <3>1. IsFiniteSet(Deficit)
      BY DEF ErrorsInv
    <3>2. IsFiniteSet(Deficit \cup {e})
      BY <3>1, FS_AddElement
    <3>3. Cardinality(Deficit \cup {e}) = IF e \in Deficit THEN Cardinality(Deficit) ELSE Cardinality(Deficit) + 1
      BY <3>1, FS_AddElement
    <3> QED BY <1>2, <3>2, <3>3
  <2>3. /\ IsFiniteSet(Deficit') /\ Cardinality(Deficit') \in Nat
        /\ Cardinality(Deficit') <= Cardinality(Deficit) + 1
    <3>1. Deficit' \in SUBSET (Deficit \cup {e})
      BY <2>1
    <3>2. IsFiniteSet(Deficit') /\ Cardinality(Deficit') <= Cardinality(Deficit \cup {e})
      BY <2>2, <3>1, FS_Subset
    <3>3. Cardinality(Deficit') \in Nat
      BY <3>2, FS_CardinalityType
    <3> QED BY <1>2, <2>2, <3>2, <3>3
  <2> DEFINE p == UplinkPacket(r, s, frame)
  <2>4. p \notin lost
    <3>1. p.ru = r /\ SlotOf(p) = s /\ p.frame = frame
      BY <1>1, PacketFields
    <3> QED BY <1>1, <1>5, <3>1 DEF LostInv, Passes
  <2>5. Cardinality(lost') = Cardinality(lost) + 1
    BY <1>5, <2>4, FS_AddElement DEF ViewLost, FiniteLoss
  <2>6. num_errors' = num_errors
    BY <1>5 DEF ViewLost
  <2>7. Cardinality(Deficit)' = Cardinality(Deficit') /\ Cardinality(lost)' = Cardinality(lost')
    OBVIOUS
  <2> QED BY <1>1, <1>2, <2>3, <2>5, <2>6 DEF ErrorsInv
<1>6. ASSUME NEW r \in Rus, NEW s \in Slots, Passes(r, s), ViewKept(r, s)
      PROVE  ErrorsInv'
  <2>1. lost' = lost
    BY <1>6 DEF ViewKept, Leaves
  <2>2. CASE Kept(s, r) = FOREIGN
    <3>1. \A t \in Slots : BacklogsUnchanged(t)
      BY <1>6, <2>2, BacklogKept, BacklogElsewhere DEF ViewKept
    <3>2. Deficit' = Deficit
      BY <3>1, BehindElsewhere, SameDeficit
    <3> QED BY <1>3, <1>6, <2>1, <2>2, <3>2 DEF ViewKept
  <2>3. CASE Kept(s, r) # FOREIGN
    <3>1. PICK e \in Deficit : Deficit' \subseteq Deficit \ {e}
      BY <1>6, <2>3, DeficitEvicted
    <3>2. IsFiniteSet(Deficit \ {e}) /\ Cardinality(Deficit \ {e}) = Cardinality(Deficit) - 1
      BY FS_RemoveElement DEF ErrorsInv
    <3>3. Deficit' \in SUBSET (Deficit \ {e})
      BY <3>1
    <3>4. IsFiniteSet(Deficit') /\ Cardinality(Deficit') <= Cardinality(Deficit) - 1
      BY <3>2, <3>3, FS_Subset
    <3>5. Cardinality(Deficit') \in Nat
      BY <3>4, FS_CardinalityType
    <3>6. num_errors' = num_errors + 1
      BY <1>6, <2>3 DEF ViewKept
    <3>7. num_errors + Cardinality(Deficit) <= Cardinality(lost)
      BY DEF ErrorsInv
    <3>8. num_errors' + Cardinality(Deficit') <= Cardinality(lost')
      BY <1>1, <1>2, <2>1, <3>4, <3>5, <3>6, <3>7
    <3> QED BY <3>4, <3>8 DEF ErrorsInv
  <2> QED BY <2>2, <2>3
<1>7. ASSUME NEW r \in Rus, NEW s \in Slots, Passes(r, s), ViewMerged(r, s)
      PROVE  ErrorsInv'
  <2>1. \A q \in Rus, k \in {1, 2} : Behind(s, q, k)' <=> Behind(s, q, k)
    BY <1>1, <1>7, BacklogMerged, SameBehind
  <2>2. \A t \in Slots \ {s}, q \in Rus, k \in {1, 2} : Behind(t, q, k)' <=> Behind(t, q, k)
    BY <1>7, BacklogElsewhere, BehindElsewhere DEF ViewMerged
  <2>3. Deficit' = Deficit
    BY <2>1, <2>2, SameDeficit
  <2> QED BY <1>3, <1>7, <2>3 DEF ViewMerged, Leaves
<1> QED BY <1>4, <1>5, <1>6, <1>7, ViewCases

-----------------------------------------------------------------------------
(* The invariant                                                           *)

ViewInv == MboxInv /\ LostInv /\ KeptInv /\ EvenInv /\ StaleInv /\ FiniteLoss /\ DeliveredInv

\* Nothing waits, nothing is kept and nothing has passed at the start.
LEMMA InitialView ==
  ASSUME Init
  PROVE  /\ \A r \in Rus, s \in Slots : ~Waits(r, s) /\ ~Handled(r, s) /\ Passed(r, s) = 0
         /\ \A s \in Slots, r \in Rus : Kept(s, r) = FOREIGN /\ ~Counted(s, r) /\ Backlog(s, r) = 0
<1>1. \A s \in Slots, r \in Rus : ~Counted(s, r) /\ Kept(s, r) = FOREIGN
  BY DEF Init, Counted, Kept
<1>2. \A r \in Rus, s \in Slots : ~Waits(r, s) /\ ~Handled(r, s)
  BY DEF Init, Waits, Handled
<1>3. \A r \in Rus, s \in Slots : Passed(r, s) = 0
  BY <1>2 DEF Passed, Init
<1> QED BY <1>1, <1>2, <1>3 DEF Backlog, NumKept

LEMMA ViewInit == Init => ViewInv
<1> SUFFICES ASSUME Init PROVE ViewInv
  OBVIOUS
<1>1. MboxInv
  <2>1. ContentInv
    BY InitialView DEF Init, ContentInv, QueuedInv, RowPacketsInv
  <2> QED BY <2>1, CacheInit, OwnInit DEF MboxInv
<1>2. LostInv /\ FiniteLoss
  BY FS_EmptySet DEF Init, LostInv, FiniteLoss
<1>3. KeptInv /\ EvenInv /\ StaleInv
  BY InitialView DEF KeptInv, KeptOnlyWhileNewest, EvenInv, StaleInv
<1>4. DeliveredInv
  BY DEF Init, DeliveredInv
<1> QED BY <1>1, <1>2, <1>3, <1>4 DEF ViewInv

\* Every step is a view step and keeps the invariant.
LEMMA ViewStep ==
  ASSUME NumWorkers = 0 \/ ~Asserts, ViewInv, [Next]_vars
  PROVE  ViewInv' /\ ViewNext
<1>1. MboxInv' /\ ViewNext
  BY NextIsViewStep, CacheNext, OwnNext DEF ViewInv, MboxInv, CacheInv
<1>2. LostInv' /\ KeptInv' /\ EvenInv' /\ StaleInv' /\ FiniteLoss' /\ DeliveredInv'
  BY <1>1, LostStep, KeptStep, EvenStep, StaleStep, FiniteStep, DeliveredStep DEF ViewInv
<1> QED BY <1>1, <1>2 DEF ViewInv

LEMMA ErrorsInit == Init => ErrorsInv
<1> SUFFICES ASSUME Init PROVE ErrorsInv
  OBVIOUS
<1>1. ASSUME NEW s \in Slots, NEW r \in Rus, NEW k \in {1, 2}
      PROVE  ~Behind(s, r, k)
  <2>1. \A q \in Rus : Backlog(s, q) = 0
    BY InitialView
  <2>2. \A q \in Rus : ~(Backlog(s, q) >= Backlog(s, r) + k)
    BY <2>1
  <2> QED BY <2>2 DEF Behind
<1>2. Deficit = {}
  BY <1>1, PlacesOf
<1>3. num_errors = 0 /\ lost = {}
  BY DEF Init
<1> QED BY <1>2, <1>3, FS_EmptySet DEF ErrorsInv

\* Frames are mixed by losses only: the frames of a combined group are apart
\* by at most the number of packets lost in its slot, for any number of RUs.
THEOREM FramesMixedByLossOnly ==
  ASSUME NumWorkers = 0 \/ ~Asserts
  PROVE  Spec => []SkewBoundedByLoss
<1>1. ViewInv /\ [Next]_vars => ViewInv'
  BY ViewStep
<1>2. ViewInv => SkewBoundedByLoss
  BY SkewFollows DEF ViewInv
<1> QED BY ViewInit, <1>1, <1>2, PTL DEF Spec

\* On one core, "This looks wrong" is reported at most once for every packet
\* that is lost, and never while none is.
THEOREM ErrorsPaidByLoss ==
  ASSUME NumWorkers = 0
  PROVE  Spec => []ErrorsBoundedByLoss
<1>1. Init => ViewInv /\ ErrorsInv
  BY ViewInit, ErrorsInit
<1>2. ViewInv /\ ErrorsInv /\ [Next]_vars => (ViewInv /\ ErrorsInv)'
  BY ViewStep, ErrorsStep DEF ViewInv
<1>3. ViewInv /\ ErrorsInv => ErrorsBoundedByLoss
  <2> SUFFICES ASSUME ViewInv, ErrorsInv PROVE ErrorsBoundedByLoss
    OBVIOUS
  <2>1. Cardinality(Deficit) \in Nat /\ Cardinality(lost) \in Nat /\ num_errors \in Nat
    BY FS_CardinalityType DEF ViewInv, FiniteLoss, ErrorsInv, MboxInv, CacheInv, TypeOK
  <2> QED BY <2>1 DEF ErrorsInv, ErrorsBoundedByLoss
<1> QED BY <1>1, <1>2, <1>3, PTL DEF Spec

-----------------------------------------------------------------------------
(* The middlebox implements FronthaulMerge                                 *)

Waiting == {content[b] : b \in Collecting} \ {FOREIGN}
StillWaits(p) ==
  \/ p.frame = frame /\ Waits(p.ru, SlotOf(p))
  \/ Kept(SlotOf(p), p.ru) = p

\* The mbufs that may still be combined: counted in a row, or in a queue.
LEMMA CollectingIs ==
  ASSUME TypeOK, RingsEmpty, NEW b
  PROVE  b \in Collecting <=>
           \/ \E s \in Slots, r \in Rus : Counted(s, r) /\ b = cached_packets[s][r]
           \/ \E r \in Rus : \E i \in 1 .. Len(rxq[r]) : b = rxq[r][i]
<1>1. \A w \in Workers : DOMAIN ru_ring[w] = {} /\ DOMAIN bufs[w] = {}
  BY DEF RingsEmpty
<1>2. \A r \in Rus : DOMAIN rxq[r] = 1 .. Len(rxq[r])
  BY DEF TypeOK
<1>3. InRings = {} /\ WithWorkers = {}
  BY <1>1 DEF InRings, WithWorkers
<1>4. b \in InQueues <=> \E r \in Rus : \E i \in 1 .. Len(rxq[r]) : b = rxq[r][i]
  BY <1>2 DEF InQueues
<1>5. b \in InCache <=> \E s \in Slots, r \in Rus : Counted(s, r) /\ b = cached_packets[s][r]
  BY DEF InCache, InRow, Counted
<1> QED BY <1>3, <1>4, <1>5 DEF Collecting

\* The packets that may still be combined are those that wait or are kept.
LEMMA WaitingIs ==
  MboxInv => Waiting = {p \in Packet : StillWaits(p)}
<1> SUFFICES ASSUME MboxInv, NEW p
             PROVE  p \in Waiting <=> p \in Packet /\ StillWaits(p)
  OBVIOUS
<1>1. TypeOK /\ RingsEmpty /\ frame \in Frames
  BY DEF MboxInv, CacheInv, TypeOK, OwnInv
<1>2. ASSUME p \in Waiting
      PROVE  p \in Packet /\ StillWaits(p)
  <2>1. PICK b \in Collecting : p = content[b] /\ p # FOREIGN
    BY <1>2 DEF Waiting
  <2>2. CASE \E s \in Slots, r \in Rus : Counted(s, r) /\ b = cached_packets[s][r]
    <3>1. PICK s \in Slots, r \in Rus : Counted(s, r) /\ b = cached_packets[s][r]
      BY <2>2
    <3>2. PICK f \in Frames : p = UplinkPacket(r, s, f)
      BY <2>1, <3>1 DEF MboxInv, ContentInv, RowPacketsInv
    <3>3. p \in Packet /\ p.ru = r /\ SlotOf(p) = s
      BY <3>2, PacketFields
    <3>4. Kept(s, r) = p
      BY <2>1, <3>1 DEF Kept
    <3> QED BY <3>3, <3>4 DEF StillWaits
  <2>3. CASE \E r \in Rus : \E i \in 1 .. Len(rxq[r]) : b = rxq[r][i]
    <3>1. PICK r \in Rus : \E i \in 1 .. Len(rxq[r]) : b = rxq[r][i]
      BY <2>3
    <3>2. PICK i \in 1 .. Len(rxq[r]) : b = rxq[r][i]
      BY <3>1
    <3>3. PICK s \in sent[r] : p = UplinkPacket(r, s, frame)
      BY <2>1, <3>2 DEF MboxInv, ContentInv, QueuedInv, InThisFrame
    <3>4. s \in Slots
      BY <1>1 DEF TypeOK
    <3>5. p \in Packet /\ p.ru = r /\ SlotOf(p) = s /\ p.frame = frame
      BY <1>1, <3>3, <3>4, PacketFields
    <3>6. Waits(r, s)
      BY <2>1, <3>2, <3>3 DEF Waits
    <3> QED BY <3>5, <3>6 DEF StillWaits
  <2> QED BY <1>1, <2>2, <2>3, CollectingIs
<1>3. ASSUME p \in Packet, StillWaits(p)
      PROVE  p \in Waiting
  <2>1. p.ru \in Rus /\ SlotOf(p) \in Slots /\ p = UplinkPacket(p.ru, SlotOf(p), p.frame)
    BY <1>3, PacketIs
  <2>2. p # FOREIGN
    BY <1>3, ForeignAssumption
  <2>3. CASE p.frame = frame /\ Waits(p.ru, SlotOf(p))
    <3>1. PICK i \in 1 .. Len(rxq[p.ru]) : content[rxq[p.ru][i]] = p
      BY <2>1, <2>3 DEF Waits
    <3>2. rxq[p.ru][i] \in Collecting
      BY <1>1, <2>1, CollectingIs
    <3> QED BY <2>2, <3>1, <3>2 DEF Waiting
  <2>4. CASE Kept(SlotOf(p), p.ru) = p
    <3>1. Counted(SlotOf(p), p.ru) /\ content[cached_packets[SlotOf(p)][p.ru]] = p
      BY <2>2, <2>4 DEF Kept
    <3>2. cached_packets[SlotOf(p)][p.ru] \in Collecting
      BY <1>1, <2>1, <3>1, CollectingIs
    <3> QED BY <2>2, <3>1, <3>2 DEF Waiting
  <2> QED BY <1>3, <2>3, <2>4 DEF StillWaits
<1> QED BY <1>2, <1>3

LEMMA WaitingNext ==
  MboxInv' => Waiting' = {p \in Packet : StillWaits(p)'}
<1>1. (MboxInv => Waiting = {p \in Packet : StillWaits(p)})'
  BY WaitingIs, PTL
<1> QED BY <1>1

\* The waiting packets change as the kept and queued ones do.
LEMMA SameWaiting ==
  ASSUME MboxInv, MboxInv', \A p \in Packet : StillWaits(p)' <=> StillWaits(p)
  PROVE  Waiting' = Waiting
BY WaitingIs, WaitingNext

LEMMA SameArrived ==
  ASSUME UNCHANGED <<frame, sent, lost>>
  PROVE  Arrived' = Arrived
BY DEF Arrived, SlotOf

\* A packet that arrives is received by the abstract merger,
LEMMA ArrivesRefines ==
  ASSUME ViewInv, MboxInv', NEW r \in Rus, NEW s \in Slots, ViewArrives(r, s)
  PROVE  \E p \in Packet : /\ p \notin Arrived /\ Arrived' = Arrived \cup {p}
                           /\ Waiting' = Waiting \cup {p}
<1>1. TypeOK /\ QueuedInv /\ frame \in Frames /\ frame \in Nat /\ sent \in [Rus -> SUBSET Slots]
  BY DasAssumption DEF ViewInv, MboxInv, CacheInv, ContentInv, TypeOK, Frames
<1>2. PICK p : p = UplinkPacket(r, s, frame)
  OBVIOUS
<1>3. p \in Packet /\ p.ru = r /\ SlotOf(p) = s /\ p.frame = frame
  BY <1>1, <1>2, PacketFields
<1>4. \A x \in Packet : x.ru = r /\ SlotOf(x) = s /\ x.frame = frame => x = p
  BY <1>2, PacketIs
<1>5. p \notin lost
  <2>1. ~Handled(r, s) /\ Passed(r, s) = frame
    BY DEF ViewArrives, Handled, Passed
  <2> QED BY <1>1, <1>3, <2>1 DEF ViewInv, LostInv
<1>6. s \notin sent[r] /\ frame' = frame /\ lost' = lost
      /\ \A q \in Rus, t \in Slots : t \in sent'[q] <=> t \in sent[q] \/ (q = r /\ t = s)
  BY <1>1 DEF ViewArrives
<1>7. p \notin Arrived
  BY <1>1, <1>3, <1>6 DEF Arrived
<1>8. ASSUME NEW x
      PROVE  x \in Arrived' <=> x \in Arrived \/ x = p
  <2>1. x \in Packet => x.ru \in Rus /\ SlotOf(x) \in Slots /\ SlotOf(x)' = SlotOf(x)
    BY PacketIs DEF SlotOf
  <2>2. x \in Arrived' <=> /\ x \in Packet /\ x \notin lost
                           /\ x.frame < frame \/ (x.frame = frame /\ SlotOf(x) \in sent'[x.ru])
    BY <1>6, <2>1 DEF Arrived
  <2>3. x \in Arrived <=> /\ x \in Packet /\ x \notin lost
                          /\ x.frame < frame \/ (x.frame = frame /\ SlotOf(x) \in sent[x.ru])
    BY DEF Arrived
  <2> QED BY <1>3, <1>4, <1>5, <1>6, <2>1, <2>2, <2>3
<1>9. ASSUME NEW x
      PROVE  x \in Waiting' <=> x \in Waiting \/ x = p
  <2>1. x \in Packet => x.ru \in Rus /\ SlotOf(x) \in Slots /\ SlotOf(x)' = SlotOf(x)
    BY PacketIs DEF SlotOf
  <2>2. x \in Packet => (Waits(x.ru, SlotOf(x))' <=>
                           Waits(x.ru, SlotOf(x)) \/ (x.ru = r /\ SlotOf(x) = s))
    BY <2>1 DEF ViewArrives
  <2>3. x \in Packet => Kept(SlotOf(x), x.ru)' = Kept(SlotOf(x), x.ru)
    BY <2>1 DEF ViewArrives, KeptUnchanged
  <2>4. x \in Packet => (StillWaits(x)' <=> StillWaits(x) \/ x = p)
    BY <1>3, <1>4, <1>6, <2>1, <2>2, <2>3 DEF StillWaits
  <2> QED BY <1>3, <2>4, WaitingIs, WaitingNext DEF ViewInv
<1> QED BY <1>3, <1>7, <1>8, <1>9

\* a lost one never reaches it,
LEMMA LostRefines ==
  ASSUME ViewInv, MboxInv', NEW r \in Rus, NEW s \in Slots, ViewLost(r, s)
  PROVE  Arrived' = Arrived /\ Waiting' = Waiting
<1>1. frame \in Frames /\ frame \in Nat /\ sent \in [Rus -> SUBSET Slots]
  BY DasAssumption DEF ViewInv, MboxInv, CacheInv, TypeOK, Frames
<1>2. PICK p : p = UplinkPacket(r, s, frame)
  OBVIOUS
<1>3. p \in Packet /\ p.ru = r /\ SlotOf(p) = s /\ p.frame = frame
  BY <1>1, <1>2, PacketFields
<1>4. \A x \in Packet : x.ru = r /\ SlotOf(x) = s /\ x.frame = frame => x = p
  BY <1>2, PacketIs
<1>5. s \notin sent[r] /\ frame' = frame /\ lost' = lost \cup {p}
      /\ \A q \in Rus, t \in Slots : t \in sent'[q] <=> t \in sent[q] \/ (q = r /\ t = s)
  BY <1>1, <1>2 DEF ViewLost
<1>6. ASSUME NEW x
      PROVE  x \in Arrived' <=> x \in Arrived
  <2>1. x \in Packet => x.ru \in Rus /\ SlotOf(x) \in Slots /\ SlotOf(x)' = SlotOf(x)
    BY PacketIs DEF SlotOf
  <2>2. x \in Arrived' <=> /\ x \in Packet /\ x \notin lost'
                           /\ x.frame < frame \/ (x.frame = frame /\ SlotOf(x) \in sent'[x.ru])
    BY <1>5, <2>1 DEF Arrived
  <2>3. x \in Arrived <=> /\ x \in Packet /\ x \notin lost
                          /\ x.frame < frame \/ (x.frame = frame /\ SlotOf(x) \in sent[x.ru])
    BY DEF Arrived
  <2>4. x = p => x \notin Arrived
    BY <1>1, <1>3, <1>5, <2>3
  <2> QED BY <1>3, <1>4, <1>5, <2>1, <2>2, <2>3, <2>4
<1>7. ASSUME NEW x \in Packet
      PROVE  StillWaits(x)' <=> StillWaits(x)
  <2>1. x.ru \in Rus /\ SlotOf(x) \in Slots /\ SlotOf(x)' = SlotOf(x)
    BY PacketIs DEF SlotOf
  <2>2. Waits(x.ru, SlotOf(x))' <=> Waits(x.ru, SlotOf(x))
    BY <2>1 DEF ViewLost, WaitsUnchanged
  <2>3. Kept(SlotOf(x), x.ru)' = Kept(SlotOf(x), x.ru)
    BY <2>1 DEF ViewLost, KeptUnchanged
  <2> QED BY <1>5, <2>1, <2>2, <2>3 DEF StillWaits
<1> QED BY <1>6, <1>7, SameWaiting DEF ViewInv

\* and a new frame is no step of its.
LEMMA NextFrameRefines ==
  ASSUME ViewInv, MboxInv', ViewNextFrame
  PROVE  Arrived' = Arrived /\ Waiting' = Waiting
<1>1. frame \in Nat /\ frame' = frame + 1 /\ lost' = lost
  BY DasAssumption DEF ViewInv, MboxInv, CacheInv, TypeOK, Frames, ViewNextFrame
<1>2. ASSUME NEW x \in Packet
      PROVE  /\ x.frame \in Nat /\ x.ru \in Rus /\ SlotOf(x) \in Slots /\ SlotOf(x)' = SlotOf(x)
             /\ SlotOf(x) \in sent[x.ru] /\ SlotOf(x) \notin sent'[x.ru]
             /\ ~Waits(x.ru, SlotOf(x)) /\ ~Waits(x.ru, SlotOf(x))'
             /\ Kept(SlotOf(x), x.ru)' = Kept(SlotOf(x), x.ru)
  <2>1. x.frame \in Nat /\ x.ru \in Rus /\ SlotOf(x) \in Slots /\ SlotOf(x)' = SlotOf(x)
    BY PacketIs DEF SlotOf, Frames
  <2> QED BY <2>1 DEF ViewNextFrame, KeptUnchanged
<1>3. ASSUME NEW x
      PROVE  x \in Arrived' <=> x \in Arrived
  <2>1. x \in Arrived' <=> /\ x \in Packet /\ x \notin lost /\ x.frame < frame + 1
    BY <1>1, <1>2 DEF Arrived
  <2>2. x \in Arrived <=> /\ x \in Packet /\ x \notin lost /\ (x.frame < frame \/ x.frame = frame)
    BY <1>2 DEF Arrived
  <2>3. x \in Packet => (x.frame < frame + 1 <=> x.frame < frame \/ x.frame = frame)
    BY <1>1, <1>2
  <2> QED BY <2>1, <2>2, <2>3
<1>4. \A x \in Packet : StillWaits(x)' <=> StillWaits(x)
  BY <1>2 DEF StillWaits
<1> QED BY <1>3, <1>4, SameWaiting DEF ViewInv

\* A packet that leaves its queue and the packets S that go with it.
LEMMA LeavingPackets ==
  ASSUME ViewInv, MboxInv', NEW r \in Rus, NEW s \in Slots, Passes(r, s), Leaves(r, s),
         NEW p, p = UplinkPacket(r, s, frame), NEW S,
         \A x \in S : SlotOf(x) = s /\ (x = p \/ x = Kept(s, x.ru)),
         \A q \in Rus \ {r} : Kept(s, q)' = IF Kept(s, q) \in S THEN FOREIGN ELSE Kept(s, q),
         Kept(s, r)' = IF p \in S THEN FOREIGN ELSE p,
         Kept(s, r) # FOREIGN => Kept(s, r) \in S
  PROVE  Waiting' = Waiting \ S
<1>1. frame \in Frames /\ frame \in Nat /\ frame' = frame /\ Waits(r, s)
  BY DasAssumption DEF ViewInv, MboxInv, CacheInv, TypeOK, Frames, Leaves
<1>2. p \in Packet /\ p.ru = r /\ SlotOf(p) = s /\ p.frame = frame
  BY <1>1, PacketFields
<1>3. ASSUME NEW x \in Packet
      PROVE  StillWaits(x)' <=> StillWaits(x) /\ x \notin S
  <2>1. /\ x.ru \in Rus /\ SlotOf(x) \in Slots /\ SlotOf(x)' = SlotOf(x) /\ x # FOREIGN
        /\ x = UplinkPacket(x.ru, SlotOf(x), x.frame)
    BY PacketIs, ForeignAssumption DEF SlotOf
  <2>2. /\ StillWaits(x) <=> (x.frame = frame /\ Waits(x.ru, SlotOf(x))) \/ Kept(SlotOf(x), x.ru) = x
        /\ StillWaits(x)' <=> (x.frame = frame /\ Waits(x.ru, SlotOf(x))') \/ Kept(SlotOf(x), x.ru)' = x
    BY <1>1, <2>1 DEF StillWaits
  <2>3. Waits(x.ru, SlotOf(x))' <=> Waits(x.ru, SlotOf(x)) /\ ~(x.ru = r /\ SlotOf(x) = s)
    BY <2>1 DEF Leaves
  <2>4. CASE SlotOf(x) # s
    <3>1. Kept(SlotOf(x), x.ru)' = Kept(SlotOf(x), x.ru) /\ x \notin S
      BY <2>1, <2>4 DEF Leaves, KeptUnchangedBut
    <3> QED BY <2>2, <2>3, <2>4, <3>1
  <2>5. CASE SlotOf(x) = s /\ x.ru # r
    <3>1. Kept(s, x.ru)' = IF Kept(s, x.ru) \in S THEN FOREIGN ELSE Kept(s, x.ru)
      BY <2>1, <2>5
    <3>2. x \in S => Kept(s, x.ru) = x
      BY <1>2, <2>5
    <3>3. Kept(s, x.ru) = x => ~(x.frame = frame /\ Waits(x.ru, s))
      <4>1. SUFFICES ASSUME Kept(s, x.ru) = x, x.frame = frame, Waits(x.ru, s) PROVE FALSE
        OBVIOUS
      <4>2. PICK f \in Frames : x = UplinkPacket(x.ru, s, f) /\ f < Passed(x.ru, s)
        BY <2>1, <4>1 DEF ViewInv, KeptInv, KeptOnlyWhileNewest
      <4>3. f = frame
        BY <2>1, <4>1, <4>2, PacketFields
      <4>4. Passed(x.ru, s) = frame
        BY <4>1 DEF Passed, Handled
      <4> QED BY <1>1, <4>2, <4>3, <4>4
    <3> QED BY <2>1, <2>2, <2>3, <2>5, <3>1, <3>2, <3>3
  <2>6. CASE SlotOf(x) = s /\ x.ru = r
    <3>1. x.frame = frame <=> x = p
      BY <1>2, <2>1, <2>6
    <3>2. x \in S => x = p \/ x = Kept(s, r)
      BY <2>6
    <3>3. StillWaits(x)' <=> x = p /\ p \notin S
      BY <1>2, <2>1, <2>2, <2>3, <2>6
    <3>4. StillWaits(x) <=> x = p \/ Kept(s, r) = x
      BY <1>1, <2>2, <2>6, <3>1
    <3> QED BY <2>1, <3>2, <3>3, <3>4
  <2> QED BY <2>4, <2>5, <2>6
<1>4. \A x : x \in Waiting' <=> x \in Waiting /\ x \notin S
  BY <1>3, WaitingIs, WaitingNext DEF ViewInv
<1> QED BY <1>4

\* The packet is kept, alone or in the place of the row of an earlier one.
LEMMA KeptRefines ==
  ASSUME ViewInv, MboxInv', NEW r \in Rus, NEW s \in Slots, Passes(r, s), ViewKept(r, s)
  PROVE  /\ Arrived' = Arrived
         /\ Waiting' = Waiting \/ \E S \in SUBSET Waiting : S # {} /\ Waiting' = Waiting \ S
<1>1. frame \in Frames /\ frame \in Nat /\ Leaves(r, s) /\ Passed(r, s) = frame
  BY DasAssumption DEF ViewInv, MboxInv, CacheInv, TypeOK, Frames, ViewKept, Passes
<1>2. PICK p : p = UplinkPacket(r, s, frame)
  OBVIOUS
<1>3. PICK S : S = IF Kept(s, r) = FOREIGN THEN {} ELSE {Kept(s, q) : q \in Rus} \ {FOREIGN}
  OBVIOUS
<1>4. ASSUME NEW q \in Rus, Kept(s, q) # FOREIGN
      PROVE  \E f \in Frames : /\ Kept(s, q) = UplinkPacket(q, s, f) /\ Kept(s, q).ru = q
                               /\ SlotOf(Kept(s, q)) = s /\ Kept(s, q).frame = f
                               /\ f < Passed(q, s) /\ Kept(s, q) \in Packet
  <2>1. PICK f \in Frames : Kept(s, q) = UplinkPacket(q, s, f) /\ f < Passed(q, s)
    BY <1>4 DEF ViewInv, KeptInv, KeptOnlyWhileNewest
  <2> QED BY <2>1, PacketFields
<1>5. \A x \in S : SlotOf(x) = s /\ x = Kept(s, x.ru) /\ x \in Packet
  BY <1>3, <1>4
<1>6. p \notin S /\ p # FOREIGN
  <2>1. p.ru = r /\ p.frame = frame /\ p # FOREIGN
    BY <1>1, <1>2, PacketFields
  <2>2. p \in S => p = Kept(s, r) /\ Kept(s, r) # FOREIGN
    BY <1>3, <1>5, <2>1
  <2>3. p # Kept(s, r) \/ Kept(s, r) = FOREIGN
    BY <1>1, <1>4, <2>1
  <2> QED BY <2>1, <2>2, <2>3
<1>7. /\ \A q \in Rus \ {r} : Kept(s, q)' = IF Kept(s, q) \in S THEN FOREIGN ELSE Kept(s, q)
      /\ Kept(s, r)' = p /\ (Kept(s, r) # FOREIGN => Kept(s, r) \in S)
  BY <1>2, <1>3 DEF ViewKept
<1>8. Waiting' = Waiting \ S
  BY <1>1, <1>2, <1>5, <1>6, <1>7, LeavingPackets
<1>9. S \in SUBSET Waiting
  <2>1. \A x \in S : StillWaits(x)
    BY <1>5 DEF StillWaits
  <2> QED BY <1>5, <2>1, WaitingIs DEF ViewInv
<1>10. Arrived' = Arrived
  BY <1>1, SameArrived DEF Leaves
<1> QED BY <1>8, <1>9, <1>10

\* The packet completes its group.
LEMMA MergedRefines ==
  ASSUME ViewInv, MboxInv', NEW r \in Rus, NEW s \in Slots, Passes(r, s), ViewMerged(r, s),
         NEW g, g = GroupWith(r, s)
  PROVE  /\ Arrived' = Arrived
         /\ \A q \in Rus : /\ g[q] \in Waiting /\ g[q].ru = q /\ g[q].port = s[1]
                           /\ g[q].key = s[2] /\ SlotOf(g[q]) = s
         /\ Waiting' = Waiting \ {g[q] : q \in Rus}
         /\ \A h : UsedUp(h, s) => \A q \in Rus : g[q].frame > h[q].frame
<1>1. frame \in Frames /\ frame \in Nat /\ Leaves(r, s) /\ Passed(r, s) = frame /\ Waits(r, s)
  BY DasAssumption DEF ViewInv, MboxInv, CacheInv, TypeOK, Frames, ViewMerged, Passes, Leaves
<1>2. PICK p : p = UplinkPacket(r, s, frame)
  OBVIOUS
<1>3. g[r] = p /\ \A q \in Rus \ {r} : g[q] = Kept(s, q) /\ Kept(s, q) # FOREIGN
  BY <1>2 DEF GroupWith, ViewMerged
<1>4. ASSUME NEW q \in Rus
      PROVE  \E f \in Frames : /\ g[q] = UplinkPacket(q, s, f) /\ g[q].ru = q /\ g[q].port = s[1]
                               /\ g[q].key = s[2] /\ SlotOf(g[q]) = s /\ g[q].frame = f
                               /\ g[q] \in Packet /\ g[q] # FOREIGN
                               /\ (q # r => f < Passed(q, s))
  <2>1. CASE q = r
    BY <1>1, <1>2, <1>3, <2>1, PacketFields
  <2>2. CASE q # r
    <3>1. PICK f \in Frames : g[q] = UplinkPacket(q, s, f) /\ f < Passed(q, s)
      BY <1>3, <2>2 DEF ViewInv, KeptInv, KeptOnlyWhileNewest
    <3> QED BY <3>1, PacketFields
  <2> QED BY <2>1, <2>2
<1>5. PICK S : S = {g[q] : q \in Rus}
  OBVIOUS
<1>6. \A x \in S : SlotOf(x) = s /\ (x = p \/ x = Kept(s, x.ru))
  BY <1>3, <1>4, <1>5
<1>7. p \in S /\ Kept(s, r) = FOREIGN /\ Kept(s, r)' = FOREIGN
      /\ \A q \in Rus \ {r} : Kept(s, q) \in S /\ Kept(s, q)' = FOREIGN
  BY <1>3, <1>5 DEF ViewMerged
<1>8. Waiting' = Waiting \ S
  BY <1>1, <1>2, <1>6, <1>7, LeavingPackets
<1>9. \A q \in Rus : g[q] \in Waiting
  <2>1. \A q \in Rus : StillWaits(g[q])
    <3>1. ASSUME NEW q \in Rus PROVE StillWaits(g[q])
      <4>1. CASE q = r
        BY <1>1, <1>2, <1>3, <1>4, <4>1, PacketFields DEF StillWaits
      <4>2. CASE q # r
        BY <1>3, <1>4, <4>2 DEF StillWaits
      <4> QED BY <4>1, <4>2
    <3> QED BY <3>1
  <2> QED BY <1>4, <2>1, WaitingIs DEF ViewInv
<1>10. ASSUME NEW h, UsedUp(h, s), NEW q \in Rus
       PROVE  g[q].frame > h[q].frame
  <2>1. h[q].frame \in Nat /\ h[q].frame < Passed(q, s)
        /\ (Kept(s, q) # FOREIGN => h[q].frame < Kept(s, q).frame)
    BY <1>10, PacketFields DEF UsedUp, Frames
  <2>2. g[q].frame \in Nat
    BY <1>4 DEF Frames
  <2>3. CASE q = r
    <3>1. g[q].frame = frame
      BY <1>1, <1>2, <1>3, <2>3, PacketFields
    <3> QED BY <1>1, <2>1, <2>3, <3>1
  <2>4. CASE q # r
    BY <1>3, <2>1, <2>2, <2>4
  <2> QED BY <2>3, <2>4
<1>11. Arrived' = Arrived
  BY <1>1, SameArrived DEF Leaves
<1> QED BY <1>4, <1>5, <1>8, <1>9, <1>10, <1>11

\* Every view step is a step of the abstract merger, or none.
LEMMA ViewStepRefines ==
  ASSUME ViewInv, MboxInv', ViewNext
  PROVE  [Merge!MergeNext]_(Merge!mvars)
<1>1. Merge!mvars = <<Arrived, Waiting, to_du>> /\ Merge!RuPacket = Packet
  BY DEF Merge!mvars, Merge!RuPacket, Waiting, Packet
<1>2. ASSUME Arrived' = Arrived, Waiting' = Waiting, to_du' = to_du
      PROVE  UNCHANGED Merge!mvars
  BY <1>2 DEF Merge!mvars, Waiting
<1>3. ASSUME NEW r \in Rus, NEW s \in Slots, ViewArrives(r, s)
      PROVE  Merge!MergeNext
  <2>1. PICK p \in Packet : p \notin Arrived /\ Arrived' = Arrived \cup {p} /\ Waiting' = Waiting \cup {p}
    BY <1>3, ArrivesRefines
  <2>2. Merge!Receive(p)
    BY <1>3, <2>1 DEF Merge!Receive, Waiting, ViewArrives
  <2> QED BY <1>1, <2>2 DEF Merge!MergeNext
<1>4. ASSUME NEW S \in SUBSET Waiting, S # {}, Waiting' = Waiting \ S, Arrived' = Arrived, to_du' = to_du
      PROVE  Merge!MergeNext
  <2>1. Merge!Discard(S)
    BY <1>4 DEF Merge!Discard, Waiting
  <2> QED BY <2>1 DEF Merge!MergeNext, Waiting
<1>5. ASSUME NEW r \in Rus, NEW s \in Slots, Passes(r, s), ViewKept(r, s)
      PROVE  [Merge!MergeNext]_(Merge!mvars)
  BY <1>2, <1>4, <1>5, KeptRefines DEF ViewKept
<1>6. ASSUME NEW r \in Rus, NEW s \in Slots, Passes(r, s), ViewMerged(r, s)
      PROVE  Merge!MergeNext
  <2>1. PICK g : g = GroupWith(r, s)
    OBVIOUS
  <2>2. /\ Arrived' = Arrived
        /\ \A q \in Rus : /\ g[q] \in Waiting /\ g[q].ru = q /\ g[q].port = s[1]
                          /\ g[q].key = s[2] /\ SlotOf(g[q]) = s
        /\ Waiting' = Waiting \ {g[q] : q \in Rus}
        /\ \A h : UsedUp(h, s) => \A q \in Rus : g[q].frame > h[q].frame
    BY <1>6, <2>1, MergedRefines
  <2>3. 0 \in Rus /\ s[1] \in Ports /\ s[2] \in Keys /\ s = <<s[1], s[2]>>
    BY DasAssumption DEF Rus, Slots
  <2>4. CASE to_du' = to_du
    <3>1. {g[q] : q \in Rus} \in SUBSET Waiting /\ {g[q] : q \in Rus} # {}
      BY <2>2, <2>3
    <3> QED BY <1>4, <2>2, <2>4, <3>1
  <2>5. CASE to_du' = [to_du EXCEPT ![s[1]] = Append(@, g)]
    <3>1. g \in [Rus -> Waiting]
      <4>1. g = [q \in Rus |-> g[q]]
        BY <2>1 DEF GroupWith
      <4> QED BY <2>2, <4>1
    <3>2. Merge!IsGroup(g, s[1], s[2])
      BY <2>2 DEF Merge!IsGroup
    <3>3. ASSUME NEW i \in DOMAIN to_du[s[1]], Merge!IsGroup(to_du[s[1]][i], s[1], s[2])
          PROVE  Merge!LaterThan(g, to_du[s[1]][i])
      <4>1. i \in 1 .. Len(to_du[s[1]])
        BY <2>3 DEF ViewInv, MboxInv, CacheInv, TypeOK
      <4>2. PICK h : h = to_du[s[1]][i]
        OBVIOUS
      <4>3. PICK key \in Keys : UsedUp(h, <<s[1], key>>)
        BY <2>3, <4>1, <4>2 DEF ViewInv, DeliveredInv
      <4>4. PICK t \in Slots : t = <<s[1], key>>
        BY <2>3 DEF Slots
      <4>5. h[0].key = key
        BY <2>3, <4>3, <4>4, PacketFields DEF UsedUp
      <4>6. h[0].key = s[2]
        BY <2>3, <3>3, <4>2 DEF Merge!IsGroup
      <4>7. UsedUp(h, s)
        BY <2>3, <4>3, <4>5, <4>6
      <4> QED BY <2>2, <4>2, <4>7 DEF Merge!LaterThan
    <3>4. Merge!Deliver(s[1], s[2], g)
      BY <2>2, <2>5, <3>2, <3>3 DEF Merge!Deliver, Waiting
    <3> QED BY <2>3, <3>1, <3>4 DEF Merge!MergeNext, Waiting
  <2> QED BY <1>6, <2>1, <2>4, <2>5 DEF ViewMerged
<1>7. CASE ViewNextFrame
  BY <1>2, <1>7, NextFrameRefines DEF ViewNextFrame
<1>8. CASE ViewStutters
  <2>1. \A x \in Packet : StillWaits(x)' <=> StillWaits(x)
    <3> SUFFICES ASSUME NEW x \in Packet PROVE StillWaits(x)' <=> StillWaits(x)
      OBVIOUS
    <3>1. x.ru \in Rus /\ SlotOf(x) \in Slots /\ SlotOf(x)' = SlotOf(x)
      BY PacketIs DEF SlotOf
    <3> QED BY <1>8, <3>1 DEF StillWaits, ViewStutters, WaitsUnchanged, KeptUnchanged
  <2>2. Waiting' = Waiting /\ Arrived' = Arrived
    BY <1>8, <2>1, SameWaiting, SameArrived DEF ViewStutters, ViewInv
  <2> QED BY <1>2, <1>8, <2>2 DEF ViewStutters
<1>9. ASSUME NEW r \in Rus, NEW s \in Slots, ViewLost(r, s)
      PROVE  [Merge!MergeNext]_(Merge!mvars)
  BY <1>2, <1>9, LostRefines DEF ViewLost
<1>10. \A r \in Rus, s \in Slots : ViewKept(r, s) \/ ViewMerged(r, s) => Passes(r, s)
  BY LeavesPasses DEF ViewKept, ViewMerged, ViewInv
<1> QED BY <1>3, <1>5, <1>6, <1>7, <1>8, <1>9, <1>10 DEF ViewNext

LEMMA ViewInitRefines == Init => Merge!MergeInit
<1> SUFFICES ASSUME Init PROVE Merge!MergeInit
  OBVIOUS
<1>1. MboxInv
  BY ViewInit DEF ViewInv
<1>2. \A p \in Packet : p.ru \in Rus /\ SlotOf(p) \in Slots /\ p.frame \in Frames
  BY PacketIs
<1>3. Arrived = {}
  <2>1. \A p \in Packet : ~(p.frame < frame \/ SlotOf(p) \in sent[p.ru])
    BY <1>2, DasAssumption DEF Init, Frames
  <2> QED BY <2>1 DEF Arrived
<1>4. \A p \in Packet : ~StillWaits(p)
  <2>1. \A p \in Packet : p # FOREIGN
    BY ForeignAssumption
  <2> QED BY <1>2, <2>1, InitialView DEF StillWaits
<1>5. Waiting = {}
  BY <1>1, <1>4, WaitingIs
<1> QED BY <1>3, <1>5 DEF Merge!MergeInit, Init, Waiting

\* The middlebox implements the abstract merger.
THEOREM UplinkRefinesMerge ==
  ASSUME NumWorkers = 0 \/ ~Asserts
  PROVE  Spec => RefinesMerge
<1>1. ViewInv /\ [Next]_vars => ViewInv' /\ [Merge!MergeNext]_(Merge!mvars)
  <2> SUFFICES ASSUME ViewInv, [Next]_vars
               PROVE  ViewInv' /\ [Merge!MergeNext]_(Merge!mvars)
    OBVIOUS
  <2>1. ViewInv' /\ ViewNext
    BY ViewStep
  <2> QED BY <2>1, ViewStepRefines DEF ViewInv
<1> QED BY ViewInit, ViewInitRefines, <1>1, PTL DEF Spec, RefinesMerge, Merge!MergeSpec
=============================================================================
