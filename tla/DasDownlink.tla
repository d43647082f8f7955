---------------------------- MODULE DasDownlink ----------------------------
(***************************************************************************)
(* The downlink half of the DPDK distributed antenna system (DAS)          *)
(* middlebox, src/src/dpdk/das/das_dpdk.c: every packet that the           *)
(* distributed unit (DU) sends to the middlebox goes to all radio units    *)
(* (RUs).  The main lcore takes bursts from the network port and deals     *)
(* them out in turn to itself and the workers (start_middlebox,            *)
(* ranbooster_handle_du); each core multiplies its bursts                  *)
(* (_handle_du_burst) and has a TX queue of its own.                       *)
(*                                                                         *)
(* Control packets are copied in full, into mbufs of the same pool.  IQ    *)
(* packets are not: an RU's packet is two small mbufs of that RU's clone   *)
(* pool, a header and a clone that refers to the data of the original,     *)
(* which stays allocated until the last reference is freed.                *)
(*                                                                         *)
(* One action handles one packet of a burst.  Polling the RUs, which the   *)
(* main lcore does in between, is the subject of DasUplink.                *)
(***************************************************************************)
EXTENDS Naturals, Sequences, FiniteSets, Functions

CONSTANTS
  NumRus,         \* config->num_rus
  MaxWorkers,     \* bound: lcores besides the main one
  NumBufs,        \* mbufs of config->mbuf_pool
  NumClones,      \* mbufs of each RU's mbuf_pool_clone
  RX_BURST_SIZE, TX_BURST_SIZE, TX_OUT_BUFS,
  RingCap,        \* mbufs a worker ring holds: WORKER_RING_SIZE - 1
  Kinds,          \* kinds of packets the DU's network port receives
  Deployments,    \* the builds and machines considered, see Deployment
  MaxPackets      \* bound: packets received

\* A control or IQ packet from the DU to the middlebox, a packet of another
\* eCPRI type, or one with other MAC addresses.
AllKinds == {"control", "iq", "other", "stray"}

\* num_workers: config->num_workers.  asserts: a Debug build; in a Release
\* build assert(e) is compiled out together with the effects of e.
\* tx_may_fail: rte_eth_tx_burst may take part of a burst only.
Deployment == [num_workers : 0 .. MaxWorkers, asserts : BOOLEAN, tx_may_fail : BOOLEAN]

ASSUME DownlinkAssumption ==
  /\ NumRus \in Nat \ {0} /\ MaxWorkers \in Nat
  /\ NumBufs \in Nat /\ NumClones \in Nat /\ RingCap \in Nat /\ MaxPackets \in Nat
  /\ RX_BURST_SIZE \in Nat \ {0} /\ TX_BURST_SIZE \in Nat \ {0} /\ TX_OUT_BUFS \in Nat
  /\ Kinds \subseteq AllKinds
  /\ Deployments \subseteq Deployment

Rus == 0 .. NumRus - 1
Cores == 0 .. MaxWorkers
Workers == 1 .. MaxWorkers
Bufs == 1 .. NumBufs
Packet == [id : 1 .. MaxPackets, kind : Kinds]
NoPacket == [id |-> 0, kind |-> "other"]

VARIABLES
  deployment,
  \* memory
  refcnt,       \* references to each mbuf's data; 0: the mbuf is free
  content,      \* the packet in each mbuf
  clones,       \* free mbufs of each RU's clone pool
  \* main lcore
  rxq,          \* RX queue of the DU's network port
  target_core,  \* the core the next burst goes to
  \* every core
  du_ring,      \* worker_du_rings
  mx_bufs,      \* per core, the packets of the burst still to be handled
  mx_tx_bufs,   \* per core, the packets to be sent
  tx,           \* per core, its TX queue
  alive,        \* FALSE once an assertion has failed, or NULL was followed
  \* environment
  received,     \* history: the packets received, in order
  to_ru         \* history: per RU, the packets sent, and by which core

memory == <<refcnt, content, clones>>
vars == <<deployment, memory, rxq, target_core, du_ring, mx_bufs, mx_tx_bufs, tx,
          alive, received, to_ru>>

Init ==
  /\ deployment \in Deployments
  /\ refcnt = [b \in Bufs |-> 0]
  /\ content = [b \in Bufs |-> NoPacket]
  /\ clones = [r \in Rus |-> NumClones]
  /\ rxq = <<>>
  /\ target_core = 0
  /\ du_ring = [w \in Workers |-> <<>>]
  /\ mx_bufs = [c \in Cores |-> <<>>]
  /\ mx_tx_bufs = [c \in Cores |-> <<>>]
  /\ tx = [c \in Cores |-> <<>>]
  /\ alive = TRUE
  /\ received = <<>>
  /\ to_ru = [r \in Rus |-> <<>>]

-----------------------------------------------------------------------------
(* The operators named ...Mut are deliberate mistakes for the definition   *)
(* that follows them; only the sensitivity checks use them.                *)

AtMostMut(n, seq) == IF Len(seq) <= n THEN Len(seq) ELSE n + 1
AtMost(n, seq) == IF Len(seq) < n THEN Len(seq) ELSE n

\* rte_ring_enqueue_burst.
EnqueuedMut(ring, burst) == burst \o ring
Enqueued(ring, burst) == ring \o burst

\* The core after core c.
NextCore(c) == (c + 1) % (deployment.num_workers + 1)

\* ranbooster_handle_du, called by start_middlebox.  An assert holds the
\* enqueue: a Release build does not contain it.
HandleDu ==
  LET n == AtMost(RX_BURST_SIZE, rxq)
      burst == SubSeq(rxq, 1, n)
      w == target_core
      room == RingCap - Len(du_ring[w])
      pushed == SubSeq(burst, 1, AtMost(room, burst))
  IN
  /\ alive
  /\ mx_bufs[0] = <<>> /\ mx_tx_bufs[0] = <<>>
  /\ rxq' = SubSeq(rxq, n + 1, Len(rxq))
  /\ target_core' = NextCore(target_core)
  /\ IF w = 0
     THEN /\ mx_bufs' = [mx_bufs EXCEPT ![0] = burst]
          /\ UNCHANGED <<du_ring, alive>>
     ELSE /\ du_ring' = IF deployment.asserts
                          THEN [du_ring EXCEPT ![w] = Enqueued(@, pushed)]
                          ELSE du_ring
          /\ alive' = (deployment.asserts => pushed = burst)
          /\ UNCHANGED mx_bufs
  /\ UNCHANGED <<deployment, memory, mx_tx_bufs, tx, received, to_ru>>

\* process_packets_worker: worker w takes a burst from its ring.
DequeueDu(w) ==
  LET n == AtMost(TX_BURST_SIZE, du_ring[w])
  IN
  /\ alive
  /\ mx_bufs[w] = <<>> /\ mx_tx_bufs[w] = <<>>
  /\ du_ring[w] # <<>>
  /\ mx_bufs' = [mx_bufs EXCEPT ![w] = SubSeq(du_ring[w], 1, n)]
  /\ du_ring' = [du_ring EXCEPT ![w] = SubSeq(@, n + 1, Len(@))]
  /\ UNCHANGED <<deployment, memory, rxq, target_core, mx_tx_bufs, tx, alive, received, to_ru>>

\* A packet on its way to an RU.  The original, or a copy, holds the data
\* itself; a clone is two mbufs that refer to it.
ToRu(r, b, isClone) == [ru |-> r, buf |-> b, clone |-> isClone]

IsClone(e, r) == e.ru = r /\ e.clone

\* What the free of the packets of S gives back, in the order of the fields.
RefsTo(b, S) == Cardinality({i \in DOMAIN S : S[i].buf = b})
ClonesOf(r, S) == Cardinality({i \in DOMAIN S : IsClone(S[i], r)})
FreePacketsMut(S) ==
  /\ refcnt' = [b \in Bufs |-> IF RefsTo(b, S) > 0 THEN 0 ELSE refcnt[b]]
  /\ clones' = [r \in Rus |-> clones[r] + 2 * ClonesOf(r, S)]
FreePackets(S) ==
  /\ refcnt' = [b \in Bufs |-> refcnt[b] - RefsTo(b, S)]
  /\ clones' = [r \in Rus |-> clones[r] + 2 * ClonesOf(r, S)]

\* Core c handles mbuf b, the next of its burst.
Handles(c, b) ==
  /\ alive
  /\ mx_bufs[c] # <<>>
  /\ b = Head(mx_bufs[c])
  /\ mx_bufs' = [mx_bufs EXCEPT ![c] = Tail(@)]
  /\ UNCHANGED <<deployment, rxq, target_core, du_ring, tx, received, to_ru>>

Free == {b \in Bufs : refcnt[b] = 0}
\* n mbufs of the pool.  Which it gives makes no difference.
Allocated(n) == CHOOSE f \in Injection(1 .. n, Free) : TRUE

\* The RUs that do not get the original.
Others == 1 .. NumRus - 1

\* What RU 0 gets.
Original(b) == <<ToRu(0, b, FALSE)>>

\* n copies of control packet b, for RUs 1 to n; after them, last.
Copied(c, b, n, last) ==
  LET copy == Allocated(n)
      copies == Range(copy)
  IN
  /\ refcnt' = [f \in Bufs |-> IF f \in copies THEN 1 ELSE refcnt[f]]
  /\ content' = [f \in Bufs |-> IF f \in copies THEN content[b] ELSE content[f]]
  /\ mx_tx_bufs' = [mx_tx_bufs EXCEPT ![c] =
       @ \o [i \in 1 .. n |-> ToRu(i, copy[i], FALSE)] \o last]
  /\ UNCHANGED clones

CopyControl(c) == \E b \in Bufs :
  /\ Handles(c, b)
  /\ content[b].kind = "control"
  /\ Cardinality(Free) >= NumRus - 1
  /\ Copied(c, b, NumRus - 1, Original(b))
  /\ UNCHANGED alive

\* The pool runs out: the program stops at the first copy it cannot make.
CopyControlFails(c) == \E b \in Bufs :
  /\ Handles(c, b)
  /\ content[b].kind = "control"
  /\ Cardinality(Free) < NumRus - 1
  /\ Copied(c, b, Cardinality(Free), <<>>)
  /\ alive' = FALSE

\* mcast_out_pkt of IQ packet b for RUs 1 to n, each of which gets a header and
\* a clone of its pool; after them, last.
RefsAddedMut(n) == n - 1
RefsAdded(n) == n
Cloned(c, b, n, last) ==
  /\ refcnt' = [refcnt EXCEPT ![b] = @ + RefsAdded(n)]
  /\ mx_tx_bufs' = [mx_tx_bufs EXCEPT ![c] = @ \o [i \in 1 .. n |-> ToRu(i, b, TRUE)] \o last]
  /\ UNCHANGED content
LessTwo(n) == [r \in Rus |-> IF r \in 1 .. n THEN clones[r] - 2 ELSE clones[r]]

CloneIq(c) == \E b \in Bufs :
  /\ Handles(c, b)
  /\ content[b].kind = "iq"
  /\ \A r \in Others : clones[r] >= 2
  /\ clones' = LessTwo(NumRus - 1)
  /\ Cloned(c, b, NumRus - 1, Original(b))
  /\ UNCHANGED alive

\* The pool of RU r is the first to run out: the program stops there, and a
\* header without a clone is lost.
CloneIqFails(c) == \E b \in Bufs, r \in Others :
  /\ Handles(c, b)
  /\ content[b].kind = "iq"
  /\ clones[r] < 2 /\ \A q \in 1 .. r - 1 : clones[q] >= 2
  /\ clones' = [LessTwo(r - 1) EXCEPT ![r] = 0]
  /\ Cloned(c, b, r - 1, <<>>)
  /\ alive' = FALSE

\* Anything else is freed.
DropOther(c) == \E b \in Bufs :
  /\ Handles(c, b)
  /\ content[b].kind \in {"other", "stray"}
  /\ refcnt' = [refcnt EXCEPT ![b] = @ - 1]
  /\ UNCHANGED <<content, clones, mx_tx_bufs, alive>>

\* rte_eth_tx_burst at the end of the burst.  What the TX queue does not take
\* is freed by a Release build; a Debug build aborts.
TxBurst(c) == \E nb_tx \in 0 .. Len(mx_tx_bufs[c]) :
  LET out == mx_tx_bufs[c]
  IN
  /\ alive
  /\ mx_bufs[c] = <<>> /\ out # <<>>
  /\ deployment.tx_may_fail \/ nb_tx = Len(out)
  /\ tx' = [tx EXCEPT ![c] = @ \o SubSeq(out, 1, nb_tx)]
  /\ FreePackets(SubSeq(out, nb_tx + 1, Len(out)))
  /\ mx_tx_bufs' = [mx_tx_bufs EXCEPT ![c] = <<>>]
  /\ alive' = (deployment.asserts => nb_tx = Len(out))
  /\ UNCHANGED <<deployment, content, rxq, target_core, du_ring, mx_bufs, received, to_ru>>

HandlePacket(c) ==
  \/ CopyControl(c) \/ CopyControlFails(c)
  \/ CloneIq(c) \/ CloneIqFails(c)
  \/ DropOther(c)

Main == HandleDu \/ HandlePacket(0) \/ TxBurst(0)
Worker(w) == DequeueDu(w) \/ HandlePacket(w) \/ TxBurst(w)

-----------------------------------------------------------------------------
(* The environment: the DU and the network port                            *)

NicReceive == \E kind \in Kinds :
  LET p == [id |-> Len(received) + 1, kind |-> kind]
      b == Allocated(1)[1]
  IN
  /\ Len(received) < MaxPackets
  /\ Free # {}
  /\ refcnt' = [refcnt EXCEPT ![b] = 1]
  /\ content' = [content EXCEPT ![b] = p]
  /\ rxq' = Append(rxq, b)
  /\ received' = Append(received, p)
  /\ UNCHANGED <<deployment, clones, target_core, du_ring, mx_bufs, mx_tx_bufs, tx,
                 alive, to_ru>>

\* The port transmits the next packet of a TX queue and frees it.
Transmit(c) ==
  LET e == Head(tx[c])
  IN
  /\ tx[c] # <<>>
  /\ to_ru' = [to_ru EXCEPT ![e.ru] = Append(@, [packet |-> content[e.buf], core |-> c])]
  /\ tx' = [tx EXCEPT ![c] = Tail(@)]
  /\ FreePackets(<<e>>)
  /\ UNCHANGED <<deployment, content, rxq, target_core, du_ring, mx_bufs, mx_tx_bufs,
                 alive, received>>

Aborted == ~alive /\ UNCHANGED vars

Next ==
  \/ Main
  \/ \E w \in Workers : Worker(w)
  \/ NicReceive
  \/ \E c \in Cores : Transmit(c)
  \/ Aborted

Spec == Init /\ [][Next]_vars

\* Every lcore runs a busy loop, and the port transmits what is queued.
Fairness ==
  /\ WF_vars(Main)
  /\ \A w \in Workers : WF_vars(Worker(w))
  /\ \A c \in Cores : WF_vars(Transmit(c))

FairSpec == Spec /\ Fairness
-----------------------------------------------------------------------------
(* Properties                                                              *)

Outgoing == [ru : Rus, buf : Bufs, clone : BOOLEAN]

TypeOK ==
  /\ deployment \in Deployment
  /\ refcnt \in [Bufs -> 0 .. NumRus]
  /\ content \in [Bufs -> Packet \cup {NoPacket}]
  /\ clones \in [Rus -> 0 .. NumClones]
  /\ rxq \in Seq(Bufs)
  /\ target_core \in Cores
  /\ du_ring \in [Workers -> Seq(Bufs)]
  /\ mx_bufs \in [Cores -> Seq(Bufs)]
  /\ mx_tx_bufs \in [Cores -> Seq(Outgoing)]
  /\ tx \in [Cores -> Seq(Outgoing)]
  /\ alive \in BOOLEAN
  /\ received \in Seq(Packet)
  /\ to_ru \in [Rus -> Seq([packet : Packet, core : Cores])]

\* The array of packets to be sent is filled without a check of its bounds
\* (mx_tx_bufs, line 271).  What is in it, and what the rest of the burst can add
\* to it, never exceeds the copies of one burst for all RUs.
BurstSize(c) == IF c = 0 THEN RX_BURST_SIZE ELSE TX_BURST_SIZE
OutputBounded == \A c \in Cores :
  Len(mx_tx_bufs[c]) + NumRus * Len(mx_bufs[c]) <= NumRus * BurstSize(c)

\* The array holds them.  It does for up to six RUs, and MAX_NUM_RUS is nine:
\* 32 packets for seven RUs are more than 192.
OutputFits == \A c \in Cores : Len(mx_tx_bufs[c]) <= TX_OUT_BUFS

\* The places that refer to mbuf b, and those that hold mbufs of RU r's clone
\* pool: a queue, its core and the position in it.
Input(c) == IF c = 0 THEN rxq ELSE du_ring[c]
References(b) ==
  UNION {{<<"input", c, i>> : i \in {i \in DOMAIN Input(c) : Input(c)[i] = b}}
           \cup {<<"burst", c, i>> : i \in {i \in DOMAIN mx_bufs[c] : mx_bufs[c][i] = b}}
           \cup {<<"out", c, i>> : i \in {i \in DOMAIN mx_tx_bufs[c] : mx_tx_bufs[c][i].buf = b}}
           \cup {<<"tx", c, i>> : i \in {i \in DOMAIN tx[c] : tx[c][i].buf = b}} : c \in Cores}
CloneReferences(r) ==
  UNION {{<<"out", c, i>> : i \in {i \in DOMAIN mx_tx_bufs[c] : IsClone(mx_tx_bufs[c][i], r)}}
           \cup {<<"tx", c, i>> : i \in {i \in DOMAIN tx[c] : IsClone(tx[c][i], r)}} : c \in Cores}

\* Never are there fewer references to an mbuf than places that refer to it, so
\* that none is freed too often, or reused while an RU's clone waits to be sent,
\* not even when a pool ran out in the middle of a packet; and the clone pools
\* lack what the packets on their way hold.  Nor are there more, which would be a
\* leak, unless the program has stopped, or a Release build with workers does not
\* enqueue the bursts it deals out.
MayLeak == ~alive \/ (~deployment.asserts /\ deployment.num_workers > 0)
RefsCounted ==
  /\ \A b \in Bufs : LET places == Cardinality(References(b)) IN
       refcnt[b] = places \/ (MayLeak /\ refcnt[b] > places)
  /\ \A r \in Rus : LET n == clones[r] + 2 * Cardinality(CloneReferences(r)) IN
       n = NumClones \/ (~alive /\ n < NumClones)

\* An RU gets only packets that the DU sent through the middlebox, unchanged,
\* and none twice.  Those that the same core handled reach it in the order in
\* which the DU sent them.  With one core, all do; across cores there is no
\* order.
SentOnceInOrder == \A r \in Rus : \A j \in DOMAIN to_ru[r] :
  LET p == to_ru[r][j].packet
  IN  /\ p.kind \in {"control", "iq"}
      /\ p = received[p.id]
      /\ \A i \in 1 .. j - 1 : LET q == to_ru[r][i].packet IN
           q.id # p.id /\ (to_ru[r][i].core = to_ru[r][j].core => q.id < p.id)

\* "Send to all the RUs" (line 325): every control and IQ packet from the DU
\* reaches every RU, unless the program stops for want of memory or ring
\* space.  Left out are the deployments that drop packets by themselves: full
\* TX queues, and a Release build with workers, which does not enqueue.
SentTo(r, id) == \E i \in DOMAIN to_ru[r] : to_ru[r][i].packet.id = id
Lossless == ~deployment.tx_may_fail /\ (deployment.asserts \/ deployment.num_workers = 0)
EveryPacketBroadcast == \A id \in 1 .. MaxPackets :
  (Lossless /\ id <= Len(received) /\ received[id].kind \in {"control", "iq"})
    ~> (~alive \/ \A r \in Rus : SentTo(r, id))
=============================================================================
