------------------------------ MODULE DasUplink ------------------------------
(***************************************************************************)
(* The uplink half of the DPDK distributed antenna system (DAS) middlebox, *)
(* src/src/dpdk/das/das_dpdk.c: ranbooster_handle_rus on the main lcore,   *)
(* process_pkts, the per-worker RU rings and process_packets_worker.       *)
(*                                                                         *)
(* Every RU sends one packet per antenna port and symbol of the schedule   *)
(* and per radio frame.  The main lcore stores the packets in              *)
(* cached_packets, counts them, and hands a complete group to process_pkts *)
(* on its own core or to the ring of a worker.  process_pkts adds the IQ   *)
(* samples into the packet of RU 0, sends that packet to the DU and frees  *)
(* the others.                                                             *)
(*                                                                         *)
(* One action handles one packet of a burst: the threads share nothing but *)
(* the rings and the mbuf pools, so finer steps add no outcome.  The order *)
(* in which the poll loop visits the RU ports is left open.  The actions   *)
(* of the environment (the RUs and their network cards) follow those of    *)
(* the middlebox.                                                          *)
(***************************************************************************)
EXTENDS Naturals, Sequences, FiniteSets

CONSTANTS
  NumRus,      \* config->num_rus
  NumWorkers,  \* config->num_workers, the lcores besides the main one
  Ports,       \* antenna ports in use
  Keys,        \* symbols of the schedule: (symbol, subframe, slot)
  Bufs,        \* mbufs of the RU pools
  PoolOf,      \* the RU whose pool an mbuf belongs to
  RingCap,     \* mbufs a worker ring holds: WORKER_RING_SIZE - 1
  Asserts,     \* TRUE: a Debug build.  FALSE: a Release build, where
               \* assert(e) is compiled out together with the effects of e
  TxMayFail,   \* TRUE: rte_eth_tx_burst may find the TX queue full
  MaxFrame,    \* bound: radio frames are numbered 0..MaxFrame
  MaxLost,     \* bound: packets the fronthaul network may lose
  MaxForeign,  \* bound: packets with other MAC addresses
  FOREIGN,     \* a packet with other MAC addresses than the fronthaul's
  NULL

Rus == 0 .. NumRus - 1
Workers == 1 .. NumWorkers
Slots == Ports \X Keys
Frames == 0 .. MaxFrame

ASSUME DasAssumption ==
  /\ NumRus \in Nat \ {0}
  /\ NumWorkers \in Nat
  /\ Ports \subseteq Nat /\ Ports # {} /\ Keys # {}
  /\ PoolOf \in [Bufs -> Rus]
  /\ RingCap \in Nat /\ MaxFrame \in Nat /\ MaxLost \in Nat /\ MaxForeign \in Nat
  /\ Asserts \in BOOLEAN /\ TxMayFail \in BOOLEAN
  /\ NULL \notin Bufs

\* What the middlebox reads of an RU's packet, and the frame it does not read.
Packet == [ru : Rus, port : Ports, key : Keys, frame : Frames]

ASSUME ForeignAssumption == FOREIGN \notin Packet

VARIABLES
  \* memory
  pool,        \* how often each mbuf is on the free list of its pool
  content,     \* the packet in each mbuf's data room
  \* main lcore
  rxq,         \* per RU, the RX queue of its network port
  cached_packets, cached_packets_num,
  num_errors,
  alive,       \* FALSE once an assertion has failed
  \* workers
  ru_ring,     \* worker_ru_rings
  bufs,        \* the group each worker has dequeued, or <<>>
  \* environment
  frame,       \* the current radio frame
  sent,        \* per RU, the slots it has sent in this frame
  lost,        \* history: the packets that never reached an RX queue
  foreign,     \* number of foreign packets so far
  to_du        \* history: per port, the groups combined and sent to the DU

mainVars == <<rxq, cached_packets, cached_packets_num, num_errors, alive>>
workerVars == <<ru_ring, bufs>>
envVars == <<frame, sent, lost, foreign>>
vars == <<pool, content, mainVars, workerVars, envVars, to_du>>

EmptyRow == [r \in Rus |-> NULL]

Init ==
  /\ pool = [b \in Bufs |-> 1]
  /\ content = [b \in Bufs |-> FOREIGN]
  /\ rxq = [r \in Rus |-> <<>>]
  /\ cached_packets = [s \in Slots |-> EmptyRow]
  /\ cached_packets_num = [s \in Slots |-> 0]
  /\ num_errors = 0
  /\ alive = TRUE
  /\ ru_ring = [w \in Workers |-> <<>>]
  /\ bufs = [w \in Workers |-> <<>>]
  /\ frame = 0
  /\ sent = [r \in Rus |-> {}]
  /\ lost = {}
  /\ foreign = 0
  /\ to_du = [p \in Ports |-> <<>>]

-----------------------------------------------------------------------------
(* process_pkts and the cache.  The operators named ...Mut are deliberate  *)
(* mistakes for the definition that follows them; only the sensitivity     *)
(* checks use them.                                                        *)

MAX_PDSCH_PUSCH_PORT == 4

\* The index of a packet in the cache.
SlotOfNoSymbolMut(p) == <<p.port, CHOOSE k \in Keys : TRUE>>
SlotOf(p) == <<p.port, p.key>>

\* The core a complete group goes to: 0 is the main lcore.  PRACH ports are
\* always processed there.
WorkerOf(port) ==
  IF NumWorkers > 0 /\ port < MAX_PDSCH_PUSCH_PORT THEN port % (NumWorkers + 1) ELSE 0

\* The mbufs of a row of cached_packets.
InRowFromOneMut(row) == {row[r] : r \in Rus \ {0}} \ {NULL}
InRow(row) == {row[r] : r \in Rus} \ {NULL}

\* rte_pktmbuf_free of every mbuf of S.
FreeAll(S) == [b \in Bufs |-> IF b \in S THEN pool[b] + 1 ELSE pool[b]]

\* process_pkts: RU 0's mbuf carries the sum to the DU, where tx_burst takes
\* it, and the others are freed.  The card returns what it sent to the pool;
\* if it refuses the mbuf, a Release build frees it and a Debug build aborts.
\* The header of RU 0's packet says which stream the DU takes it for.
process_pktsFirstMut(ul_pkts, sentOK) ==
  LET group == [r \in Rus |-> content[ul_pkts[0]]]
  IN  to_du' = IF sentOK THEN [to_du EXCEPT ![group[0].port] = Append(@, group)]
                         ELSE to_du
process_pkts(ul_pkts, sentOK) ==
  LET group == [r \in Rus |-> content[ul_pkts[r]]]
  IN  to_du' = IF sentOK THEN [to_du EXCEPT ![group[0].port] = Append(@, group)]
                         ELSE to_du

\* What process_pkts leaves of the array it was given.
ClearedMut(row) == [row EXCEPT ![0] = NULL]
Cleared(row) == [r \in Rus |-> NULL]

\* The outcomes of rte_eth_tx_burst: can the packet be queued?
TxOutcomes == IF TxMayFail THEN {TRUE, FALSE} ELSE {TRUE}

\* The cache slot already holds a packet of this RU: "This looks wrong".
LooksWrong(s, r) == cached_packets[s][r] # NULL

\* What the eviction of an incomplete group frees.
EvictedMut(s, r) == {}
Evicted(s, r) == IF LooksWrong(s, r) THEN InRow(cached_packets[s]) ELSE {}

\* The slot's row after the eviction and the arrival of mbuf b from RU r.
RowWith(s, r, b) ==
  [IF LooksWrong(s, r) THEN EmptyRow ELSE cached_packets[s] EXCEPT ![r] = b]

\* The slot's count after the eviction and the increment.
CountWithOldMut(s, r) == IF LooksWrong(s, r) THEN 0 ELSE cached_packets_num[s]
CountWith(s, r) == 1 + (IF LooksWrong(s, r) THEN 0 ELSE cached_packets_num[s])

\* "If we have all the expected packets, then time to modify and send out."
Complete(s, r) == CountWith(s, r) = NumRus

\* The count that remains: zero again once the group is complete.
CountAfterMut(s, r) == CountWith(s, r)
CountAfter(s, r) == IF Complete(s, r) THEN 0 ELSE CountWith(s, r)

\* The mbufs of a row in the order of the RUs, as a burst for a ring.
AsBurst(row) == [i \in 1 .. NumRus |-> row[i - 1]]

\* The assertion on the number of mbufs enqueued.
EnqueuedAllMut(n) == n > 0
EnqueuedAll(n) == n = NumRus

-----------------------------------------------------------------------------
(* ranbooster_handle_rus: one packet of a burst from RU r                  *)

\* The packet is of the middlebox's fronthaul, and fills slot s.
Takes(r, b, s) ==
  /\ alive
  /\ rxq[r] # <<>>
  /\ b = Head(rxq[r])
  /\ content[b] # FOREIGN
  /\ s = SlotOf(content[b])
  /\ rxq' = [rxq EXCEPT ![r] = Tail(@)]
  /\ num_errors' = IF LooksWrong(s, r) THEN num_errors + 1 ELSE num_errors

\* A packet with other MAC addresses is freed.
FreeForeign(r) ==
  /\ alive
  /\ rxq[r] # <<>>
  /\ content[Head(rxq[r])] = FOREIGN
  /\ pool' = FreeAll({Head(rxq[r])})
  /\ rxq' = [rxq EXCEPT ![r] = Tail(@)]
  /\ UNCHANGED <<content, cached_packets, cached_packets_num, num_errors, alive,
                 workerVars, envVars, to_du>>

\* The group is not complete yet.
StorePacket(r) == \E b \in Bufs, s \in Slots :
  /\ Takes(r, b, s)
  /\ ~Complete(s, r)
  /\ cached_packets' = [cached_packets EXCEPT ![s] = RowWith(s, r, b)]
  /\ cached_packets_num' = [cached_packets_num EXCEPT ![s] = CountAfter(s, r)]
  /\ pool' = FreeAll(Evicted(s, r))
  /\ UNCHANGED <<content, alive, workerVars, envVars, to_du>>

\* The group is complete and processed on the main lcore, in place:
\* process_pkts clears the entries of cached_packets.
MergeLocally(r) == \E b \in Bufs, s \in Slots, sentOK \in TxOutcomes :
  /\ Takes(r, b, s)
  /\ Complete(s, r)
  /\ WorkerOf(s[1]) = 0
  /\ cached_packets_num' = [cached_packets_num EXCEPT ![s] = CountAfter(s, r)]
  /\ process_pkts(RowWith(s, r, b), sentOK)
  /\ cached_packets' = [cached_packets EXCEPT ![s] = Cleared(@)]
  /\ pool' = FreeAll(Evicted(s, r) \cup InRow(RowWith(s, r, b)))
  /\ alive' = (Asserts => sentOK)
  /\ UNCHANGED <<content, workerVars, envVars>>

\* The group is complete and belongs to a worker.  The enqueue is the operand
\* of an assert: a Release build does not contain it.  Either way the row
\* keeps its pointers.
PushToWorker(r) == \E b \in Bufs, s \in Slots :
  LET w == WorkerOf(s[1])
      row == RowWith(s, r, b)
      free == RingCap - Len(ru_ring[w])
      burst == IF NumRus <= free THEN NumRus ELSE free
  IN
  /\ Takes(r, b, s)
  /\ Complete(s, r)
  /\ w \in Workers
  /\ cached_packets_num' = [cached_packets_num EXCEPT ![s] = CountAfter(s, r)]
  /\ cached_packets' = [cached_packets EXCEPT ![s] = row]
  /\ pool' = FreeAll(Evicted(s, r))
  /\ ru_ring' = IF Asserts
                THEN [ru_ring EXCEPT ![w] = @ \o SubSeq(AsBurst(row), 1, burst)]
                ELSE ru_ring
  /\ alive' = (Asserts => EnqueuedAll(burst))
  /\ UNCHANGED <<content, bufs, envVars, to_du>>

HandleRu(r) == FreeForeign(r) \/ StorePacket(r) \/ MergeLocally(r) \/ PushToWorker(r)

-----------------------------------------------------------------------------
(* process_packets_worker                                                  *)

\* The burst is a whole group.  (With less, a Debug build aborts.)
DequeueGroup(w) ==
  LET n == IF Len(ru_ring[w]) < NumRus THEN Len(ru_ring[w]) ELSE NumRus
  IN
  /\ alive
  /\ bufs[w] = <<>>
  /\ ru_ring[w] # <<>>
  /\ ru_ring' = [ru_ring EXCEPT ![w] = SubSeq(@, n + 1, Len(@))]
  /\ bufs' = IF n < NumRus THEN bufs ELSE [bufs EXCEPT ![w] = SubSeq(ru_ring[w], 1, n)]
  /\ alive' = (Asserts => n = NumRus)
  /\ UNCHANGED <<pool, content, rxq, cached_packets, cached_packets_num, num_errors,
                 envVars, to_du>>

\* The worker combines the group it has dequeued.
ProcessGroup(w) == \E sentOK \in TxOutcomes :
  LET ul_pkts == [r \in Rus |-> bufs[w][r + 1]]
  IN
  /\ alive
  /\ bufs[w] # <<>>
  /\ process_pkts(ul_pkts, sentOK)
  /\ pool' = FreeAll(InRow(ul_pkts))
  /\ bufs' = [bufs EXCEPT ![w] = <<>>]
  /\ alive' = (Asserts => sentOK)
  /\ UNCHANGED <<content, rxq, cached_packets, cached_packets_num, num_errors,
                 ru_ring, envVars>>

Worker(w) == DequeueGroup(w) \/ ProcessGroup(w)

-----------------------------------------------------------------------------
(* The environment: RUs, the fronthaul network and the network cards       *)

UplinkPacket(r, s, f) == [ru |-> r, port |-> s[1], key |-> s[2], frame |-> f]

\* The card of RU r's port takes an mbuf from its pool and fills it.
NicReceive(r, p) == \E b \in Bufs :
  /\ PoolOf[b] = r
  /\ pool[b] > 0
  /\ pool' = [pool EXCEPT ![b] = @ - 1]
  /\ content' = [content EXCEPT ![b] = p]
  /\ rxq' = [rxq EXCEPT ![r] = Append(@, b)]
  /\ UNCHANGED <<cached_packets, cached_packets_num, num_errors, alive, workerVars, to_du>>

\* RU r sends its packet for slot s.
Send(r, s) ==
  /\ s \notin sent[r]
  /\ sent' = [sent EXCEPT ![r] = @ \cup {s}]
  /\ NicReceive(r, UplinkPacket(r, s, frame))
  /\ UNCHANGED <<frame, lost, foreign>>

\* The packet is lost: in the network, or because the card has no mbuf.
Lose(r, s) ==
  /\ s \notin sent[r]
  /\ \/ Cardinality(lost) < MaxLost
     \/ \A b \in Bufs : PoolOf[b] = r => pool[b] = 0
  /\ sent' = [sent EXCEPT ![r] = @ \cup {s}]
  /\ lost' = lost \cup {UplinkPacket(r, s, frame)}
  /\ UNCHANGED <<pool, content, mainVars, workerVars, frame, foreign, to_du>>

\* Something else reaches RU r's port.
SendForeign(r) ==
  /\ foreign < MaxForeign
  /\ foreign' = foreign + 1
  /\ NicReceive(r, FOREIGN)
  /\ UNCHANGED <<frame, sent, lost>>

\* The slots of the schedule come round again 10 ms later.  The RX queues
\* have been polled by then.
NextFrame ==
  /\ frame < MaxFrame
  /\ \A r \in Rus : sent[r] = Slots /\ rxq[r] = <<>>
  /\ frame' = frame + 1
  /\ sent' = [r \in Rus |-> {}]
  /\ UNCHANGED <<pool, content, mainVars, workerVars, lost, foreign, to_du>>

\* The poll loops find nothing to do, or the program has aborted.
Spin ==
  /\ \/ ~alive
     \/ /\ frame = MaxFrame
        /\ \A r \in Rus : sent[r] = Slots /\ rxq[r] = <<>>
        /\ \A w \in Workers : ru_ring[w] = <<>> /\ bufs[w] = <<>>
  /\ UNCHANGED vars

Next ==
  \/ \E r \in Rus : HandleRu(r)
  \/ \E w \in Workers : Worker(w)
  \/ \E r \in Rus, s \in Slots : Send(r, s) \/ Lose(r, s)
  \/ \E r \in Rus : SendForeign(r)
  \/ NextFrame
  \/ Spin

Spec == Init /\ [][Next]_vars

\* The main loop polls every RU for ever, and each worker its ring; both are
\* busy loops on lcores of their own.
Fairness ==
  /\ \A r \in Rus : WF_vars(HandleRu(r))
  /\ \A w \in Workers : WF_vars(Worker(w))

FairSpec == Spec /\ Fairness
-----------------------------------------------------------------------------
(* Properties                                                              *)

Groups == [Rus -> Packet \cup {FOREIGN}]

TypeOK ==
  /\ pool \in [Bufs -> Nat]
  /\ content \in [Bufs -> Packet \cup {FOREIGN}]
  /\ rxq \in [Rus -> Seq(Bufs)]
  /\ cached_packets \in [Slots -> [Rus -> Bufs \cup {NULL}]]
  /\ cached_packets_num \in [Slots -> 0 .. NumRus - 1]
  /\ num_errors \in Nat
  /\ alive \in BOOLEAN
  /\ ru_ring \in [Workers -> Seq(Bufs)]
  /\ bufs \in [Workers -> {<<>>} \cup [1 .. NumRus -> Bufs]]
  /\ frame \in Frames
  /\ sent \in [Rus -> SUBSET Slots]
  /\ lost \subseteq Packet
  /\ foreign \in 0 .. MaxForeign
  /\ to_du \in [Ports -> Seq(Groups)]

\* The counter that decides when a group is complete tells how many packets
\* the slot holds, whatever was lost, evicted or merged before.  The only
\* other state of a slot is that of a group given to a worker, whose pointers
\* stay behind with the counter at zero.
CountMatchesCache == \A s \in Slots :
  \/ /\ cached_packets_num[s] = Cardinality({r \in Rus : cached_packets[s][r] # NULL})
     /\ cached_packets_num[s] < NumRus
  \/ /\ cached_packets_num[s] = 0
     /\ WorkerOf(s[1]) # 0
     /\ \A r \in Rus : cached_packets[s][r] # NULL

\* The places mbuf b is in.  A Debug build has given the rows whose count is
\* zero to a worker; in a Release build nobody else holds them.
Occurrences(b, seq) == Cardinality({i \in DOMAIN seq : seq[i] = b})
CachedIn(b) == {s \in Slots : /\ cached_packets[s][PoolOf[b]] = b
                              /\ Asserts => cached_packets_num[s] > 0}
HeldByWorker(b, w) == Occurrences(b, ru_ring[w]) + Occurrences(b, bufs[w])
OnlyIn(b, w) == \A v \in Workers \ {w} : HeldByWorker(b, v) = 0

\* Every mbuf is in one place: on its free list, in an RX queue, in the cache
\* or with a worker.  None is leaked, freed twice, sent and still cached, or
\* overwritten by the card while its group is being combined.
SingleOwner == alive => \A b \in Bufs :
  LET here == pool[b] + Occurrences(b, rxq[PoolOf[b]]) + Cardinality(CachedIn(b))
  IN  \/ here = 1 /\ \A w \in Workers : HeldByWorker(b, w) = 0
      \/ here = 0 /\ \E w \in Workers : HeldByWorker(b, w) = 1 /\ OnlyIn(b, w)

\* Packets of different frames are added up only after losses: at least one
\* for every frame that they are apart, in the same slot.  Without loss,
\* every sum is of one frame.
SkewBoundedByLoss == \A port \in Ports : \A i \in DOMAIN to_du[port] :
  LET g == to_du[port][i]
      lostInSlot == {p \in lost : SlotOf(p) = SlotOf(g[0])}
  IN  \A r, q \in Rus : g[r].frame <= g[q].frame + Cardinality(lostInSlot)

\* The eviction path runs at most once for every packet that is lost, and so
\* never while nothing is.
ErrorsBoundedByLoss == num_errors <= Cardinality(lost)

\* A worker finds whole groups in its ring: assert(nb_rx == 0) on line 697.
WholeGroupsInRings ==
  alive => \A w \in Workers : Len(ru_ring[w]) % NumRus = 0

\* The packets that reached an RX queue.
Arrived == {p \in Packet : \/ p.frame < frame
                           \/ p.frame = frame /\ SlotOf(p) \in sent[p.ru]} \ lost

\* The mbufs that may still be combined.
InCache == UNION {InRow(cached_packets[s]) : s \in {t \in Slots : cached_packets_num[t] > 0}}
InQueues == UNION {{rxq[r][i] : i \in DOMAIN rxq[r]} : r \in Rus}
InRings == UNION {{ru_ring[w][i] : i \in DOMAIN ru_ring[w]} : w \in Workers}
WithWorkers == UNION {{bufs[w][i] : i \in DOMAIN bufs[w]} : w \in Workers}
Collecting == InCache \cup InQueues \cup InRings \cup WithWorkers

\* The middlebox implements the promise to the DU.
Merge == INSTANCE FronthaulMerge WITH
  arrived <- Arrived,
  waiting <- {content[b] : b \in Collecting} \ {FOREIGN},
  delivered <- to_du
RefinesMerge == Merge!MergeSpec

\* So long as no packet is lost and no assertion fails, the DU gets the sum of
\* every group that has arrived in full: again and again, none is left over.
GroupArrived(s, f) == \A r \in Rus : UplinkPacket(r, s, f) \in Arrived
GroupDelivered(s, f) ==
  \E i \in DOMAIN to_du[s[1]] : to_du[s[1]][i] = [r \in Rus |-> UplinkPacket(r, s, f)]
EveryGroupDelivered ==
  []<>(lost = {} /\ alive =>
         \A s \in Slots, f \in Frames : GroupArrived(s, f) => GroupDelivered(s, f))

\* The commented-out assertion on line 611: an RU's packet finds its entry of
\* cached_packets empty (so long as no packet was lost).
EntryEmptyOnArrival == \A r \in Rus :
  (alive /\ lost = {} /\ rxq[r] # <<>> /\ content[Head(rxq[r])] # FOREIGN)
    => cached_packets[SlotOf(content[Head(rxq[r])])][r] = NULL
=============================================================================
