# TLA+ models of RANBooster

RANBooster is a set of middleboxes for the O-RAN fronthaul, the packet network
between a distributed unit (DU, the base station software) and its radio units
(RUs, the radios).  A middlebox sits between them, looks at eCPRI/O-RAN headers and
forwards, copies or combines packets.  This directory holds TLA+ models of these
middleboxes, TLC configurations that check them, and TLAPS proofs.

Paths such as `das_dpdk.c:652` are lines of the files under `src/dpdk` and `src/xdp`
of the repository.

- [1 The system](#1-the-system)
- [2 The modules](#2-the-modules)
- [3 The runs](#3-the-runs)
- [4 Fairness](#4-fairness)
- [5 What is proved](#5-what-is-proved)
- [6 Where the code disagrees with what it says](#6-where-the-code-disagrees-with-what-it-says)
- [7 What is not modelled](#7-what-is-not-modelled)
- [8 Plan](#8-plan)

To check a run, `tlc -config das_lossy.cfg MCDasUplink.tla`; to check the proofs,
`tlapm DasUplinkProofs.tla` and
likewise for `DasDownlinkProofs`, `DasXdpProofs`, `DmimoProofs`, `PrbMonProofs`,
`IqSumProofs`, `RuSharingProofs` and `XdpForwardProofs`.

## 1 The system

### Inventory

| Component | State | Operations | Interacts with |
|---|---|---|---|
| DAS, DPDK, uplink (`das_dpdk.c` 422-720) | cache of waiting packets per (port, symbol, subframe, slot) and RU, a counter per cache entry, worker rings | receive from an RU, evict an incomplete group, merge a complete one or hand it to a worker, transmit | workers through `rte_ring`; shared mbuf pools |
| DAS, DPDK, downlink (`das_dpdk.c` 214-418, 674-720) | worker rings, round-robin target, output arrays, reference counts of payloads | deal bursts to cores, copy control packets, clone IQ packets, transmit | workers; per-RU clone pools |
| DAS, XDP, merger (`das_rx_handler.c`) | four AF_XDP rings and a UMEM per RU, the same cache, lists of frames to free and to send | poll, merge, return frames to fill rings, queue sums, collect completions | kernel and NIC through the rings |
| DAS, XDP, kernel programs (`das_egress.c`, `das_ingress.c`) | configuration maps | drop, rewrite and send, or redirect a packet | loader (maps), switch, merger (socket) |
| Distributed MIMO, DPDK (`dmimo_dpdk.c`) | port bitmaps and the two port maps made from them, stored SSB samples | forward by antenna port in both directions, replicate the SSB | NIC |
| Distributed MIMO, XDP (`dmimo_egress.c`, `dmimo_ingress.c`) | configuration maps | drop, or rewrite and send | loader, switch, the other instances |
| PRB monitoring, XDP, kernel programs (`prb_mon_egress.c`, `prb_mon_ingress.c`) | configuration maps, ring buffers | rewrite and send, or drop; the monitoring code behind the first `return` is not reached | loader, reader |
| Loaders and scripts (`das_load.c`, `dmimo_load.c`, `prb_mon_load.c`, `load_prog.sh`, `unload_prog.sh`) | pins in the BPF file system, attached programs | fill maps, pin, attach, detach, remove pins | kernel, user process |
| User process of an XDP middlebox (set-up of `das_rx_handler.c`, `prb_mon.c`) | descriptors of the maps it found by their pins | start, open the map of each program, exit | pins; programs redirect packets or write to the maps |
| Sums of samples (`das_dpdk.c` 214-262, 422-535, `das_rx_handler.c` 413-492) | rows of decompressed samples per core, a temporary buffer, the packets of a group | decompress, add in chunks and singly, compress | called by the mergers, on several cores |
| PRB monitoring, DPDK (`prb_mon_dpdk.c`) | four atomic counters | forward and count; read, print and reset once a second | two threads share the counters |
| RU sharing, DPDK (`ru_sharing_dpdk.c`) | cache of the DUs' packets, pending uplink requests, the DU whose centre frequency places PRACH sections (`next_prach`) | merge downlink and PRACH requests, forward control, split uplink and PRACH data | one mempool for everything |

What is hard in these programs:

- **Concurrency.**  Cores exchange groups of buffers through rings and free into the
  same pools; the statistics thread resets counters the forwarding thread adds to;
  the NIC and the kernel own buffers the program believes it knows about.
- **Loss.**  A lost fronthaul packet leaves a group incomplete.  The next frame, 10 ms
  later, reuses the cache entry; the code has to evict, restart the count, and give
  every buffer back once.
- **Full queues and pools.**  TX queues, rings and mempools are finite.  What a burst
  call does not take must be freed, or a Debug build stops.
- **The build type.**  Several calls with side effects stand inside `assert(...)`.
  The documented build (`README.md:47`) is Release, in which they disappear.
- **Order.**  The SSB replication depends on the order of packets; programs are
  attached while packets flow.
- **What is looked up once.**  The user process finds maps by their pins when it starts;
  the scripts may load, fail, unload and load again while it runs.
- **Reuse.**  Rows of samples and temporary buffers serve one group after another, and
  are divided among the cores; packets have several lengths.

### What makes each part correct

- *DAS uplink*: what the DU receives is a sum of exactly one packet of each RU for
  one symbol; without loss, of one frame, every group is delivered, and buffers have
  one owner.  With loss, the damage is bounded by the number of lost packets.
- *DAS downlink*: every packet reaches every RU once; references balance.
- *dMIMO*: the port maps of the two directions are inverse; every antenna sends the
  current SSB; buffers are conserved; over XDP, each port is sent by one RU.
- *PRB monitoring*: forwarding is unaffected, no sample is counted twice.
- *RU sharing*: the downlink is the merge specification with DUs in place of RUs;
  uplink data goes to those who asked, and all who asked get it.
- *Loaders*: a program that sees packets is completely configured, and its pins are its
  own.
- *User process*: the maps it holds are those of the programs that run.
- *XDP programs of the DAS*: a socket gets the packets of its RU only, for the merger
  has no other way to tell RUs apart.
- *Sums*: what is sent holds each RU's sample of its own group once at every place.

## 2 The modules

```
FronthaulMerge                     abstract: what a merger promises
  ^ implemented by  DasUplink   <- MCDasUplink
  ^ implemented by  DasXdp      <- DasXdpProofs
  ^ implemented by  RuSharing   <- MCRuSharing, RuSharingProofs   (its downlink)
DasUplink   <- DasUplinkProofs
DasDownlink <- MCDasDownlink, DasDownlinkProofs
Dmimo       <- MCDmimo, DmimoProofs
PrbMon      <- MCPrbMon, PrbMonProofs
IqSum       <- IqSumProofs         the sums DasUplink and DasXdp leave out
XdpLoader   <- XdpReader <- XdpForward <- MCXdpForward, XdpForwardProofs
```

`A <- B` says that B extends A.  `XdpLoader`, `XdpReader` and `XdpForward` extend each other: scripts, then scripts
and the user process, then both with packets.

`PROJECT.json` maps each definition to the source lines it stands for.  Operators
whose names end in `Mut` are plausible mistakes for the definition that follows
them; they are used by nothing but the sensitivity checks, which show that a
property notices the mistake.

**FronthaulMerge** is the promise to the DU: packets arrive, are discarded, or are
combined in groups of one packet per RU for one port and symbol, each used once, in
the order of frames.

**DasUplink**: `rxq`, `cached_packets`, `cached_packets_num`, `num_errors`,
`ru_ring` are the variables of the same names in the code; `pool` counts how often
an mbuf is on its free list, so that a double free is visible; `content` is what an
mbuf holds.  One action handles one packet of a burst to its end:
`FreeForeign`, `StorePacket`, `MergeLocally` and `PushToWorker` are the paths through
`ranbooster_handle_rus` (556-672), `DequeueGroup` and `ProcessGroup` those through
`process_packets_worker` (674-703), and `process_pkts` is part of the last action of
each path.  The eviction of an incomplete group (612-630) is part of whichever of
these happens.  `Asserts` is the build type: with FALSE the enqueue on line 652 does
not exist.  A sum is represented by the function RU -> packet it was made from.
Radio frames are in the packets of the model but are read by no guard: the code
does not look at the frame number, which is where the difficulty with loss comes from.

**DasDownlink**: `HandleDu` (398-418) deals a burst to a core, `DequeueDu` (687-694)
is the worker's side, `CopyControl`, `CloneIq` and `DropOther` the branches of
`_handle_du_burst` (268-395), `TxBurst` its end.  When a pool runs out the program stops
(`CopyControlFails`, `CloneIqFails`), with the copies or clones made so far in the output array, the
original not in it, and perhaps a header that has no clone.  `refcnt` is the reference count of
a payload: a clone is two small mbufs and a reference.  `Allocated(n)` is what the pool
gives for n mbufs: some n different free ones, of which nothing else is used.

**DasXdp**: every UMEM frame is in a fill, RX, TX or completion ring, in the cache or
in a list; the thread's `pc` separates polling a batch, handling its packets,
returning frames (500-523), queueing sums (`tx_free_pkt` 244-275) and collecting
completions (275-294).

**IqSum**: what the mergers do with the samples of a complete group: `process_pkts`
of `das_dpdk.c`, on the main core and the workers, with `sum_arrays_avx512` or its scalar
loop, and the merge of `das_rx_handler.c`.  A memory cell is a function from (group, RU) to
the number of times that packet's sample was added to it, so that a sample added twice,
left out or left over from an earlier group is visible.  `Begin` takes a group,
`Decompress`, `AddChunk`, `AddOne` and `EndAdd` are one RU's turn in the loop,
`Compress` and `Transmit` end it.  `program` and `avx` are chosen in `Init`.

**Dmimo**: `antenna_fwd_map_dl` and `antenna_fwd_map_ul` are computed from the bitmap
as `main` does (459-490); `RxBurst` polls the ports in turn, whatever they have received; `ForwardControl`, `ForwardIq` and `ForwardUplink` are the
branches of `lcore_main`.  `to_ru` and `to_du` are sets of what was sent, since no
property asks for its order.

**PrbMon**: every atomic operation of both threads is an action.

**RuSharing**: `CachePacket`, `ForwardControl`, `MergePackets`, `RefuseControl` (the
program exits) and `IgnoreStray` are
the paths of a DU's packet, `ReturnUplink` and `SplitPrach` those of the RU's;
`IgnoreForeign` is the path of everybody else's.  A request for uplink data that the program does not
support ends it at the first DU's packet, after its note is set; other refused packets (`Refused`) end it when
those of all DUs are there.  In a Release build a PRACH request holds DU 0's section only
(`InRequest`), the RU answers what it is asked for (`AnswerRow`), and the split cuts the answer to
its header (`SectionFor`).  `TurnPrach` rotates `next_prach`, whose
DU's centre frequency (`centre` of a section) places the sections of a PRACH request.

**XdpLoader**: a run of `load_prog.sh` is a sequence of calls of the loader, each a
sequence of steps (`DmimoSteps`, `DasSteps`) of which any may fail.  What a call has
pinned stays; the object it filled is lost.  `XDP_FLAGS_REPLACE` without an old
program attaches only to an interface that has none.

**XdpReader** adds the process that reads the maps: `StartProcess`, `OpenMap` once per
map, `OutOfMemory` (the error of `setup_xsk_socket` that `main` does not notice) and
`Exit`, at any time.  `held` is the object each of its maps belongs to; a map lives on
while it is held, also when its program is gone.  `outdated` records that
`unload_prog.sh` has run since the process started.

**XdpForward** adds packets.  There is an instance of the program for
each RU and direction; `Transmitted` is the verdict and rewritten header of an
instance, using only those maps that its loader has filled (others read as zero), and
`Redirected` what the DAS ingress program hands to the merger: the socket must be in
the map of the object that runs, `held[i] = running[i]`.  The PRB monitor's programs
forward, and return before they monitor.  A packet without a tag is dropped if it is eCPRI, and
else forwarded without one (`Accepted`, `Rewritten`).
With `Loopback`, a packet that is sent comes back to every interface, with or
without its tag, as the comment at `dmimo_egress.c:166` says packets do.

## 3 The runs

Bounds are chosen so that each hazard happens and TLC finishes in about a minute.
Two RUs are the smallest number with an incomplete group; two symbols the smallest with
which packets of different symbols could mix; two frames the smallest in which a
cache entry is reused.

| Run | Shows | Bounds that matter |
|---|---|---|
| `das_lossy` | one core, with loss: the counter matches the cache, buffers have one owner, evictions and age skew are bounded by the number of losses, and the merger refines FronthaulMerge | 2 RUs, 2 symbols, 2 frames, 2 losses, 1 foreign packet, 3 mbufs per RU, full TX queue (Release) |
| `das_workers` | with a worker: buffers have one owner, rings hold whole groups, every group that arrives complete is delivered | 2 RUs, 2 ports (one per core), 2 symbols, a ring of 3 for groups of 2, 2 mbufs per RU, so that cards run out of them; **1 frame** (Debug) |
| `das_downlink` | an output array gets at most one burst for all RUs, references balance also when a pool runs out within a packet, no RU gets a packet twice or, per core, out of order, and every packet reaches every RU unless memory or a queue is full | 3 RUs, 3 packets, 5 mbufs (so that copies run out), 5 mbufs in a clone pool (two clones and a header), a ring of 2, bursts of 2; four deployments |
| `das_xdp` | all rings have room, the leak and the skew are bounded by losses, every group is delivered, refinement | 2 RUs, 2 symbols, 2 frames, 2 losses, rings of 3, batches of 2 |
| `iq_sum` | no loop passes the end of a packet; what is sent holds each RU's samples of its own group once | 2 RUs, main core and a worker or the XDP merger, chunks of 4, packets of 3, 6 and 9 samples, 3 groups |
| `dmimo` | the port maps of the two directions are inverse, the SSB of port 0 is on all antennas, only packets of unserved ports leak | 2 RUs, every pair of bitmaps over 3 ports, 2 packets, both builds |
| `prb_mon` | what leaves is what arrived, no sample is counted twice, every sample leaves the counters | both directions, 2 packets of 5 kinds, both builds |
| `ru_sharing` | no buffer is lost, no DU gets more answers than it has sent requests, every request is answered, each DU gets its PRACH section (Debug), downlink refines FronthaulMerge | 2 DUs, 2 frames; eleven scenarios of traffic, memory and build, among them control packets that share a cache entry and packets that are refused; `next_prach` turns after every request |
| `xdp_forward` | scripts, process and packets together: attached programs are pinned and configured, the process holds the maps of the programs that run, unload followed by load attaches everything; one RU per antenna port, no forwarding loop, sockets get their RU's packets, every IQ packet arrives | all three middleboxes, 2 RUs and 2 ports, 4 scripts, 2 failures at any step, 1 start of the process; one packet, looped back, for which there are 1 script and no failure (`PacketScripts`) |

Three further runs each violate one property: see 6.

Remarks:

- Some modules choose their deployment in `Init` instead of from a constant, so that
  one run covers several: `deployment` in DasDownlink (number of workers, build, can
  the TX queue be full), `asserts` (the build) in PrbMon and Dmimo, `booster` in
  XdpLoader, `scenario` in RuSharing, `program` and `avx` in IqSum.  No action changes them.  The sets they are
  chosen from are in the MC modules.
- `das_workers` has one frame: in a Debug build the second frame meets stale
  pointers (`das_debug_stale_entry`), after which nothing holds.  In a Release build
  workers get nothing (`das_release_lost_group`).  Hence the lossy run, whose subject
  is the second frame, is without workers.
- The XDP programs keep no state between packets, so one packet that may be handled
  by every instance, at every moment of the scripts, covers their behaviour.  The scripts
  and the process are explored with four runs and two failures, as long as no packet
  was sent; with packets, loading happens once.  That suffices for the packets because the
  proofs (5) cover any number of scripts, failures and packets.
- Packets of 3, 6 and 9 samples with chunks of 4 are those shorter than a chunk, with a
  rest after one chunk, and after two; the third group of a core meets what two others left.
- Bursts and rings of two or three packets have all the cases of the code's 32 and
  1024: empty, partly filled, full.
- Free buffers are taken in an order that the model fixes (`LowestFirst`, and
  `Allocated` of DasDownlink): buffers differ in nothing but their name.
- Deadlock is checked in every run.  Where a program has stopped, or a bounded
  environment is exhausted, a stuttering action (`Spin`, `Idle`, `Aborted`,
  `LoaderIdle`) says so, with the condition as its guard.
- In RU sharing, the DUs have the same schedule in every frame: they never ask for different symbols.  What
  a missing or late packet of one of them does is covered.
- Downlink and uplink control packets of one start symbol share an entry of the cache of RU
  sharing, whose index does not contain the direction (`ru_sharing_dpdk.c:413-425`).  One scenario
  sends both; `NothingLeftToSend` excepts it (`NoneShared`), see 6.
  Of the DUs' messages, only requests for uplink data ask for symbols (`IsScenario`).
- Liveness properties have the form `[]<>(undisturbed => nothing is left over)`:
  again and again, unless a packet was lost, memory ran out or the program aborted,
  all that has arrived in full has been delivered.

## 4 Fairness

Only what the code schedules itself is fair, and weakly:

- the busy loops of DPDK cores (`start_middlebox`, `process_packets_worker`,
  `lcore_main`), each on a core of its own: `DasUplink!Fairness` has one condition
  per RU polled and per worker, since the loop visits each RU in turn;
- the thread of `das_rx_handler.c`, which runs at real-time priority, and the
  transmission of packets that were queued;
- `sleep(1)` ends (`PrbMon`), the driver runs the XDP program for each packet it
  has received (`XdpForward`: one condition `WF_vars(Handle(i))` per interface, since
  interfaces have queues of their own).

Senders are not fair: no packet has to arrive.  The exceptions are the RU's answers
in `RuSharing`, without which a request could not be answered, and
`DasXdp!RuFairness`, which no run uses: it serves `ReceptionResumes`, see 6.  Scripts, loaders
and the user process are never fair: nobody has to run them, and they may stop anywhere.

## 5 What is proved

Each theorem holds for every value of the constants its module's assumption allows.

**`DasUplinkProofs`**: every number of RUs, workers, ports, symbols and
buffers, every ring size, both builds, and any pattern of loss and TX failure.

- `TypeCorrect`: `Spec => []TypeOK`.
- `CountCorrect`: `Spec => []CountMatchesCache`.  The counter that decides when a group is complete
  (`cached_packets_num`) is the number of packets in the cache entry, or the entry
  is that of a complete group which was given to a worker.

Neither is inductive alone.  The row of a complete group is used as an array of
buffers, so that types need the count to be right (a count of `NumRus` means that no
pointer is NULL); and the count needs types for the arithmetic.  The invariant is
`CacheInv == TypeOK /\ CountMatchesCache`.  Its core is lemma `RowAndCount`: after an arrival,
with or without eviction, the count is the cardinality of the filled places and lies
in `1 .. NumRus`.  `CacheUpdate` carries that over to an action that writes one row.
There is then one lemma per group of actions, and `CacheNext` combines them.

- `RingsHoldGroups`: `Spec => []WholeGroupsInRings`, by `RingsWhole`: the length of a ring is
  a multiple of the number of RUs.  A burst that does not fit entirely ends the program
  (`PushKeepsGroups`), and a worker takes a group at a time (`DequeueKeepsGroups`).
- `BuffersHaveOneOwner`: `NumWorkers = 0 \/ ~Asserts` implies `Spec => []SingleOwner`.
  Every mbuf is on its free list, in an RX queue or in the cache, exactly once.

The assumption of the last one says that no group goes through a ring: there is no worker, or the
enqueue is compiled out.  It cannot be dropped: a Debug build with workers breaks the
property in the second frame (`das_debug_stale_entry`), and `das_workers` checks the first.
`OwnInv` says per place what it holds (`QueuesInv`: an RX queue has distinct buffers of
its RU; `RowsInv`: so do the rows of the cache), that places exclude each other (`PlacesInv`) and
that the rings are empty (`RingsEmpty`).  A step moves one buffer, or frees a row: `StoreInv`,
`MergeInv`, `FreeForeignInv` and `ReceiveInv`.  `OneOwner` counts the places.

The second half of the module is about what is sent to the DU, under the same assumption, for any
losses:

- `FramesMixedByLossOnly`: `Spec => []SkewBoundedByLoss`;
- `ErrorsPaidByLoss`: `Spec => []ErrorsBoundedByLoss`, with no worker (in a
  Release build the group of a worker stays in the cache, and is later taken for an incomplete one
  although nothing was lost);
- `UplinkRefinesMerge`: `Spec => RefinesMerge`.

First the mbufs are left behind.  `Waits(r, s)` says that RU r's packet of this frame is in
its queue, and `Kept(s, r)` is the packet cached for it; with ownership (`OwnInv`) and what
queues and rows hold (`ContentInv`), `NextIsViewStep` shows that every action is one of six steps
on these two, on `lost`, `num_errors` and `to_du` (`ViewNext`): a packet arrives, is lost, is kept,
or completes a group; the frame ends; nothing happens.  All that follows is about these steps:

- *What is kept*: of the packets of an RU that have passed, the newest that is not lost
  (`KeptInv`), for nothing but a later packet of its own RU evicts a row.  This is what makes
  the rest inductive: a packet that is kept from an earlier frame proves losses.
- *Skew*: `Backlog(s, r)` is how far RU r is ahead of the others in slot s.  Backlogs are equal
  until the slot loses a packet (`EvenInv`), and a packet left over from an earlier frame tells
  of a loss other than of its own successors (`StaleInv`).  Hence the
  frames of a delivered group are `Near` (`DeliveredInv`): `LossesCounted` counts a lost packet per frame
  of difference.
- *Errors*: a potential.  `Deficit` is the set of (slot, RU, k) with k in {1, 2} for which the RU
  is behind some other by k; `num_errors + |Deficit| <= |lost|` is inductive, as a loss adds one
  element at most (`DeficitLost`) and an eviction removes at least one (`DeficitEvicted`).
- *Refinement*: what `Collecting` and `Arrived` show is, by `WaitingIs`, what waits or is
  kept.  `UsedUp` says that a delivered group's packets are over: whatever is kept or still to come
  of its RUs is later, which is the order that `Deliver` asks for.

**`DasXdpProofs`**: any number of sockets up to `NUM_SOCKETS`, rings and batches of any size, any
number of ports, symbols and frames, and any losses.

- `FramesInvariant`: `Spec => []FramesInv`, which contains `TypeOK`;
- `RoomForAll`: `Spec => []EnoughRoom`;
- `LeaksPaidByLoss`: `Spec => []LeakBoundedByLoss`;
- `SkewPaidByLoss`: `Spec => []SkewBoundedByLoss`;
- `XdpRefinesMerge`: `Spec => RefinesMerge`.

That a ring has room when frames are returned to it is not a matter of counting calls: it holds
because a ring has an entry for each frame of its UMEM (`RING_SIZE`) and no frame is returned twice.
So `FramesInv` says where each frame is: in one ring, list, row of the cache or the batch at most
(`PlacesInv`, with a function from frames to `Places`), once there (`OnceInv`), and in memory of its
own socket (`TypeInv`).  `RingHasRoom` turns this into the assertions.  That the lists on the stack
have room is a matter of the batch: each packet adds one frame at most to each list (`BatchInv`), which
takes that a row is never emptied and added up for the same packet (`EvictsBeforeComplete`), and
that what is counted is in the row (`CountInv`).  Frames of socket 0 may be "gone": `ReturnFrames`
leaves them out.

How many are gone is a question about the packets in the frames, and so about the fronthaul:
`ContentInv(b)`, where b is the radio frame of the batch being handled, which may be behind
`frame`, says what waits in the queues (`QueuesHold`), that a packet waits once (`WaitsOnce`), what
each row of the cache holds (`RowsHold`), and what must have been lost if a row's packet is not of
the batch's frame (`SinceLost`).  From it, every step either leaves what each RU has passed
(`Passed`), keeps (`Has`) and what has gone (`Out`) as it was, or loses one packet, keeps one, evicting the
row it finds, or adds up a row (`Quietly`, `ViewLost`, `ViewKept`, `ViewMerged`; lemma
`NextIsViewStep`).  The bound is then a potential: `Deficit` is the set of (slot, RU, k) with k in
{1, 2, 3} for which the RU is behind some other by k, and `|Out| + |Deficit| <= |lost|` is inductive.

That the frames of a sum differ no more than packets were lost is a question about the same view.
`Level(s, r, b)` is the frame of the packet an RU has in its row, or else of the next one that can
fill it after a batch of frame b, and `Spread(b)` says that two levels of a slot differ by no more
than the packets lost in it up to frame b (`LostBy`).  A loss moves one level by one; a packet that
evicts, and a row that is added up, move levels only where an RU was behind; and when all of a
batch's frame is behind the port, what was sent since for a slot and is neither waiting nor kept was
lost (`LaterLosses`, `SpreadCatchUp`).  That needs `KeptGone`: what is kept no longer waits.  A row that
is added up holds a packet of every RU, so that its frames are the slot's levels and the group is
`Near`; and the group's frames stay what they are in the lists, the TX ring and at the DU
(`SumsNear`, `SentNear`).  `SkewInv` is these together.

For the refinement a sum is delivered when the card transmits it, not when it is made: until then its
packets are `Collecting`, as those are that wait in a queue or a row (`Pending`; lemma
`CollectingIs`).  `Coming` is what the list and the TX ring hold, in the order in which it will be
transmitted.  `OrderInv` says that each sum to come and each that was transmitted is of one slot and
`Over` (whatever is still pending of its RUs is later), that sums to come are in the order of their
packets (`Before`), and after those that were transmitted.  A new sum is made of packets that are
pending, the batch's last and the row's before it, so it is later than all that were `Over`
(`MergedPackets`, `BeforeNew`); it leaves what is collected as it was or less, as every step does but a
packet's arrival, which is a `Receive`, and a transmission, which is a `Deliver`: `OrderInv` makes it
later than what was delivered, and says that no packet of it is collected elsewhere
(`TransmitRefines`).

**`DasDownlinkProofs`**: any number of RUs, workers, mbufs and packets, bursts, rings and
pools of any size, both builds, and any part of a burst taken by a TX queue.

- `MemoryInvariant`: `Spec => []MemInv`, which contains `TypeOK`;
- `ReferencesAreCounted`: `Spec => []RefsCounted`;
- `OutputIsBounded`: `Spec => []OutputBounded`;
- `SentOnceAndInOrder`: `Spec => []SentOnceInOrder`.

The queues are two families: those of mbufs that wait to be handled (`Waits`: the port's
queue or ring, and the burst, of each core) and those of packets on their way (`Leaves`: the output
array and TX queue of each core).  The first section is about families of queues in
general: a part of one queue moves to the end of another, or is lost (`Moved`), or new elements
join one (`JoinedQueue`); which elements are then in which queue, that none is in two places, and
which are before which.  Each action is shown to be such a step, by `MoveOfWaits`,
`MoveOfLeaves`, `SentOn` and `PacketStored`.

`MemInv` says that no place is used twice and that an mbuf waits, or leaves for some RUs, or is
nowhere (`PlacesInv`); that the count of references is 1, the number of these RUs, or 0, and that a
clone pool lacks two mbufs for each packet cloned from it, but for one reference and the mbufs of a
pool that are lost when the program stops within a packet (`CountsInv`); and that an mbuf that is
somewhere holds the packet that arrived (`ContentInv`).  `RefsCounted` counts places, `MemInv`
RUs: the same number, because an RU gets the data of an mbuf once, which is why
`PlacesInv` has to say so (`LeavingOf`, `WaitingOf`).  `BurstHandled` and `PacketsFreed` are
the two arguments about counts: what a core sends on, and what is freed.

`PacketsOfAll` says which packets handling an mbuf adds when it comes to the first k of the other
RUs, and to RU 0 or not: all of them and RU 0 when nothing runs out (`ClonesSent`, `CopiesSent`).

`OutputBounded` charges every packet of a burst that is still to be handled with one entry of the
array per RU, so that handling it only moves what is charged (`FitsPacket`), and a burst starts with
an empty array (`FitsBurst`).  The code has no check and an array of 192: bursts of 32 on the main
core fit for six RUs, while `MAX_NUM_RUS` is 9 (`das_dpdk.c:34-38`, 271); see 6.

For the order, `TurnInv` compares the numbers of packets, which are those of their arrival: on every core
what is sent came before what leaves, and that before what waits; what waits at the port is the
latest; no packet is on two cores, or twice on its way to an RU (`OrderInv`, `Sent`).
Steps that only move or free keep all of this (`OrderShrinks`), because a
queue is joined at its end by what no other queue can overtake (`PlacesJoined`).  `OrderSends` is for a
core that handles an mbuf, `NicTurns` and `TransmitTurns` for the two ends.

**`PrbMonProofs`**: any carrier, traffic and order of the atomic operations.

- `ReportedOnce`: `Spec => []NothingCountedTwice`.

The statistics thread loads a counter and resets it in two steps, between which the
other thread may add.  What it loaded is still in the counter until the reset, which is
what makes the sums right: `Balance(d)` says that what was loaded does not exceed the counter, and what was
reported, together with what is in the counter, does not exceed what was measured; the part of a sample whose second
addition is outstanding (`Due`) is accounted for separately.

- `ForwardingIsTransparent`: `Spec => []Transparent`.

What arrived in a direction is, in this order, what was handled, what is in the burst, and what is in
the RX queue (`InOrder`); of what was handled, the packets of the fronthaul were sent, refused or are in
the TX array, in their order so long as none was refused (`HandledSent`).  `CountUpTo` counts
the packets to forward of a part of a sequence in the whole.

**`DmimoProofs`**: any number of RUs and ports, any bitmaps, overlapping ones included, and
any traffic.

- `MapsAgree`: `Spec => []PortsRoundTrip`.

The two maps come from two loops.  `RankIsAntenna` and `EveryAntennaIsARank` show that the
rank of a set bit is a bijection from the bitmap onto `0 .. |bitmap| - 1`, from which
`MapsInverse` follows; `FirstServes` finds the RU the downlink map names where bitmaps overlap.
`ForwardInv` then says that everything queued or sent has gone through a map entry.

- `OnlyUnservedLeak`: `Spec => []LeaksOnlyUnserved`.  A step holds h mbufs of the polled port less,
  and gives back k of them (`Freed`, `MbufsFreed`); k < h for a packet that no RU serves only.
- `SsbReachesAllAntennas`: `Port0First => (Spec => []SsbOnAllAntennas)`.  The hypothesis is about the
  DU, and necessary: the samples that are kept are those of the last packet on port 0.
  `InOrder(q, k, n)` says of the DU's packets that have not been handled (those of the burst,
  then those of the queue) that their symbols lie between that of the samples kept, k, and
  the latest, n, in order, the packet for port 0 ahead of the others.  Hence the next packet of another
  port is in symbol k (`OrderOfTail`).

**`RuSharingProofs`**: one DU or two (`MAX_NUM_DUS`), any number of ports, symbols, mbufs and frames, any schedule of the
DUs, packets for nobody, losses, both builds.

- `TypesCorrect`: `Spec => []TypeOK`;
- `NoMbufIsLost`: `Spec => []NoMbufLost`;
- `PrachReachesAllDus`: `Spec => []PrachOfAllDus`;
- `AnswersHaveRequests`: `Spec => []AnswersMatchRequests`;
- `SharingRefinesMerge`: `Spec => RefinesMerge`.

The first three follow from one invariant, `Inv`, whose parts need each other.  No mbuf is in two
places, or twice in a queue or in the cache (`QueuesInv`, `RowsInv`, `PlacesInv`), and until the
program stops each is somewhere (`NoneLost`).  What a received mbuf holds is a packet that has
arrived, what the cache holds for a DU is a packet of that DU, a PRACH request to be sent has, in a Debug
build, a section of every DU, and so does its answer (`ContentInv`): types depend on it, since the handlers take an
mbuf's packet from its contents.  The count of a row is the number of its packets (`CountInv`).  Packets that are not for
the middlebox break ownership, as they are freed twice (`sharing_stray`): from then on an mbuf on
the free list may also be received, and the invariant holds on because nothing else is on its way
(`StrayInv`).

Each handler frees some mbufs, fills some that were free, leaves some in the cache and some to
be sent.  `InvAfterHandling` is the argument they share; `MbufsMoved`, `CacheMoved` and
`EntriesAdded` say what a handler has to show of itself.  `NthAreDistinct` and `RanksGrow`
are about the choice of the lowest free mbufs.

`AnswersMatchRequests` counts what was sent to a DU, and holds because of what was not sent yet:
per DU, port and symbol, the answers sent, those to be sent and the note that
one is expected are together no more than the requests that the thread has handled (`Bounded`).
A request is handled once, since one mbuf at most holds it while it waits
(`OneMbuf`), which sets the note, to 1, however often it was set; an answer is put in the queue
when the note is cleared.  `AnswersKept`, `RequestCounted` and `AnswerCounted` are for the three kinds
of steps: neither, a request, an answer.

The refinement is about downlink data only.  `WaitInv` says that a packet in the cache
is in the place of its DU, port and symbol (`CachedAt`) and that no packet is in two mbufs that wait
(`OnePending`).  `OrderInv` is about the rows that were sent to the RU and those that are to be sent: each is a
group, all that waits in the streams of its packets is later (`Over`), and two rows of one port
and symbol are in order (`Before`).  It is needed before a row is sent, since a row may be put together while
earlier ones are still in the queue.  A step that neither receives nor puts together downlink
data does not disturb it (`Less`, `OrderLess`); `MergedIsOver` is about the row that is put together,
which has the packets of the cache and the newest of one DU, and relies on `ArrivedOnce`: there is one
packet of a stream in a frame.  `StepViewed` sums up: a packet comes, a row is sent, or
some packets are given up (`View`), and `ViewRefines` maps these to `Receive`, `Deliver`, and
`Discard` or a stutter.  The packets delivered for a port are a part of `to_ru`; `NthGrows`
says that a greater place comes last.

**`IqSumProofs`**: any number of RUs, cores and groups, any chunk size and any
lengths of packets, with and without AVX-512.

- `SumsAreExact`: `Spec => []DataIsExact`;
- `LoopsStayInBounds`: `Spec => []InBounds`.

The invariant has four parts per core: its packets are those of its group until they are
overwritten (`PacketsHeld`), the row being added holds the RU's samples (`AddendHeld`), the
samples below `iq_idx` hold one RU more than those above (`SumSoFar`), and what is to be sent
is complete (`Ready`).  Other cores keep all a core has (`Same`), because rows and temporary
buffers are divided among them.

**`XdpForwardProofs`**, of the scripts and the process: any number of RUs, of script runs, of
starts of the process and of failing system calls, and all three middleboxes.

- `ConfiguredWhenAttached`: `LoaderSpec => []AttachedAreConfigured`;
- `PinnedWhenAttached`: `LoaderSpec => []AttachedArePinned`;
- `LoaderTypeCorrect`: `LoaderSpec => []LoaderTypeOK`.

Both properties speak of attached programs only, so the invariant `LoaderInv` has to say
what holds on the way there: while a call runs, the object holds exactly the maps of the
steps done (`ObjOfSteps`) and what it has pinned so far is its own (`PinnedOfSteps`); a
file belongs to an object of a script that has run; while
`unload_prog.sh` runs, the programs whose turn has come are
detached (`DetachedOfSteps`).  With `StepsOfLoad` (the attachment is the last step, after
all map updates and the pins) and `StepsOfUnload` (every "off" comes before any "rm"),
`AttachInv` and `UnloadStepInv` follow: when the first pin goes, nothing is attached.

`LoadingCompletes` (`ReaderSpec => UnloadedLoadsCompletely`) is about whole scripts: a load
that follows an unload and meets no failing call attaches everything.  Its invariant,
`CompleteInv`, follows the pins through both: while `unload_prog.sh` runs, those of the steps
done are gone (`RemovedOfSteps`; `StepsOfUnload` finds a step for every pin a loader can
have made), so that nothing is pinned when it ends (`CleanWhenEmpty`); while `load_prog.sh` runs,
the programs before the current one are attached, and nothing is pinned or attached where the others
go (`LoadedInOrder`), since the script names no instance twice (`ScriptOrderOnce`) and a
call makes no pin twice (`PinnedOnce`).

Of the process, `ProcessReadsRunning`: `ReaderSpec => []HeldAreRunning`.  Between two
unloads a pin, once made, is not made again (`PinsStay`: a second load fails at the pin), so
what the process found is what is pinned (`HeldArePinned`), and by `AttachedArePinned` what
runs.

Of the programs with their packets, and any number of packets too:

- `ForwardRefinesReader`: `Spec => ReaderSpec`.  A step of the composition is one of the
  scripts or the process, or leaves their variables alone, so that the theorems about them
  hold while packets flow; `ConfiguredWhileForwarding` and `LoadingCompletesWhileForwarding`
  are two of them.
- `NeverForwardedTwice`: `Spec => []NoForwardingLoop`.  `ForwardInv` says of each waiting
  packet that it is either as its sender made it, or rewritten by a program and no longer
  forwarded by any (`Fresh`, `Forwarded`; lemmas `OnlyFresh`, `TransmitsFresh`).
- `OneRuSends`: `Spec => []OneRuPerAntenna`, with `IdsTell` (a packet's number tells its port)
  and `PortsServed` (an RU gets IQ packets of its ports only).
- `SocketsOfOneRu`: `Spec => []SocketsTellRusApart`, with an invariant of its own, `SocketInv`.

The proofs assume only `DasAssumption`, `ForeignAssumption`, `DownlinkAssumption`,
`XdpAssumption`, `PrbMonAssumption`, `DmimoAssumption`, `SharingAssumption`, `NullAssumption`
(of RuSharing and of DasXdp: NULL is no mbuf and no packet), `IqSumAssumption`,
`XdpLoaderAssumption`, `XdpReaderAssumption` and `XdpForwardAssumption`, which TLC evaluates in
the runs, and the hypotheses named above.

Only model-checked, and why:

- liveness, which is out of the prover's reach;
- `SingleOwner` and `RefinesMerge` of DasUplink with workers in a Debug build, where they hold
  in the first frame only (`das_debug_stale_entry`).

## 6 Where the code disagrees with what it says

Three runs end in a counterexample; `PROJECT.json` quotes the lines they contradict.

| Run | Property | What happens |
|---|---|---|
| `das_release_lost_group` | `EveryGroupDelivered` | the enqueue to a worker (`das_dpdk.c:652`) is the operand of an `assert`, which a Release build does not contain: the group stays in the cache, and later is freed.  The downlink (line 410) does the same with a whole burst |
| `das_debug_stale_entry` | `EntryEmptyOnArrival` | in a Debug build, pointers handed to a worker stay in the cache; one frame later they are taken for a packet that was not merged, and freed again |
| `sharing_stray` | `MbufsConserved` | a packet that is not for the middlebox is freed twice |

More was met while modelling.  A property that shows it is in the module but in no
run's configuration; setting the constants as below makes TLC find a counterexample.

| Property | Constants | What happens |
|---|---|---|
| `DasDownlink!EveryPacketBroadcast` without its first guard | a Release deployment with a worker | a burst dealt to a worker vanishes |
| `DasDownlink!OutputFits` | `Kinds` {"iq"}, `TX_OUT_BUFS` 12, `RX_BURST_SIZE` 2, `NumBufs` 2, `NumClones` 4, `MaxPackets` 2, `MaxWorkers` 0 with the deployments without a worker; `NumRus` 7 (with 6 it holds) | `mx_tx_bufs` has 192 entries, filled without a check (`das_dpdk.c:271`), and a burst of 32 needs 32 for each RU, of which there may be nine (`MAX_NUM_RUS`, line 38): with seven or more, a full burst on the main core writes past its end |
| `DasXdp!FramesConserved` | `MaxLost` 1, `MaxFrame` 1 | after a loss, evicted frames of socket 0 are never returned to its fill ring |
| `DasXdp!ReceptionResumes`, specification `ScheduledSpec` | `RING_SIZE` 2, `Ports` {0, 1}, `MaxFrame` 2 | completions are collected only when something is sent, which takes reception, which may need completions |
| `PrbMon!AverageWithinCarrier` | those of `prb_mon` | total and count are read and reset separately: the printed average may exceed the carrier |
| `Dmimo!MbufsConserved` | those of `dmimo` | an IQ packet of a port no RU serves is neither sent nor freed |
| `Dmimo!SsbOnAllAntennas` | `Port0First` FALSE | a packet that overtakes port 0's carries an old SSB |
| `RuSharing!OnlyToWhoAsked` | those of `ru_sharing` | an uplink request is noted for the slot, not for a symbol or a frame, and never expires (`ru_sharing_dpdk.c:461`): after a lost answer, data of the next frame goes to a DU that has not asked for it |
| `RuSharing!PrachDelivered` | those of `ru_sharing` with the Release scenario `Release({Prach}, 5, 0, 0)` alone | the append of the further PRACH sections is the operand of an `assert` (line 516): in a Release build the RU is asked for one section, and the split leaves a header of its answer, whose only section it cuts off (277-293) |
| `RuSharing!NothingLeftToSend` without `NoneShared` | those of `ru_sharing` | downlink and uplink control of one start symbol share a cache entry (`ru_sharing_dpdk.c:425`): an uplink request evicts or frees what waits there (436-445, 500-506), and the downlink control of that symbol may never be sent |
| `RuSharing!PrachInOwnBand` | those of `ru_sharing` | the centre frequency used for a PRACH section is that of DU `next_prach`, not of the section's DU (line 549) |
| `IqSum!PrachIsExact` | those of `iq_sum` | an uncompressed sum starts as RU 0's packet, to which RU 0's samples are added again (`das_dpdk.c:441`, 470-491); the merger over XDP begins with the second RU |
| `XdpReader!NeverOutdated` | specification `ReaderSpec` of XdpReader, `NumRus` 2, all three middleboxes, `MaxScripts` 4, `MaxFailures` 1, `MaxStarts` 2 | a process that outlives `unload_prog.sh` keeps the maps of the old programs; after the next load, packets go to maps it does not hold |
| `XdpReader!EveryRuHasASocket` | the same | `setup_xsk_socket` returns `EXIT_FAILURE`, which is positive, and `main` tests for a negative value (`das_rx_handler.c:648`) |
| `XdpForward!RuSeesItsDu` | those of `xdp_forward` | C-plane packets do not carry the DU address configured at the RU |

One disagreement needs no state: both XDP programs of the PRB monitor return before the
code that monitors (`prb_mon_egress.c:183`, `prb_mon_ingress.c:175`), so that the reader prints
averages of nothing.  The unreachable ingress code would count a PRB as used when its exponent
is above 2 (`prb_mon_ingress.c:244`), the other programs when it is above 0.

## 7 What is not modelled

- *PRB monitoring over XDP*: what the two programs would do after their early return
  (`prb_mon_egress.c:183`, `prb_mon_ingress.c:175`), and the averages the reader prints.
- *Lengths*: the packets of a group have the same length, as the mergers take it from one of them
  (`das_dpdk.c:605-608`) or from a constant (`das_rx_handler.c:377`, 409).
- *Assertions about the contents of packets* in RU sharing (`ru_sharing_dpdk.c:319`, 344, 355, 475, 595):
  the packets satisfy them.  The trim inside the one at 355 is absent from a Release build, so that a
  packet for a DU keeps the RU's length.  eCPRI types are within the caches (`ECPRI_TYPE`, line 49).
- *A malformed PRACH request*, which a Release build of RU sharing sends: the RU answers the sections
  that are in it.
- *Samples*: the rounding of the 9-bit format, the saturation of exponents, and the
  wrap-around of 16-bit sums.  IqSum counts samples instead of adding numbers.
- *RU sharing*: the frequency arithmetic (539-556) is abstracted to the DU whose centre
  frequency it starts from.
- *Set-up*: arguments, mempools, ports, scheduling.
- *Index bounds*: antenna ports above those of the caches and maps are not sent.
- *Packets that are too short*, which the XDP programs drop, and IP fragments in the
  merger (`NUM_FRAGMENTS` is 1).
- The *O-RAN library* (a submodule that is not in the repository) and the scripts
  that configure switches.

## 8 Plan

Done, in this order: FronthaulMerge, DasUplink with its proofs, PrbMon, DasXdp,
DasDownlink, Dmimo, RuSharing, XdpLoader with its proofs, XdpForward; then
XdpReader and the PRB monitor's programs, with XdpForward as their composition and its
proofs, IqSum with its proofs, `next_prach` in RuSharing, the proofs about mbufs in DasUplinkProofs, PrbMonProofs and
DmimoProofs, what DasUplink sends to the DU, RuSharingProofs, DasDownlinkProofs, and the frames,
leaks and skew of DasXdp in DasXdpProofs, with its refinement of FronthaulMerge, and that of
RuSharing.

Left:

1. A composition of DasXdp with the ingress programs: sockets fed by `XdpForward`.
