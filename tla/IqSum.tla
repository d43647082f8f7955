------------------------------- MODULE IqSum -------------------------------
(***************************************************************************)
(* How the DAS mergers add the samples of a group of packets, one packet   *)
(* of each RU:                                                             *)
(*   "dpdk": process_pkts of src/src/dpdk/das/das_dpdk.c, called by the    *)
(*           main core and by the workers, with sum_arrays_avx512 or the   *)
(*           scalar loop;                                                  *)
(*   "xdp":  the merge in process_rcvd_pkt of                              *)
(*           src/src/xdp/das/das_rx_handler.c, by a single thread.         *)
(*                                                                         *)
(* Addition is modulo 2^16 in the code and commutes, so what a memory cell *)
(* holds is told by how often the sample of each packet was added to it.   *)
(* A packet's payload stands for the samples it encodes; the rounding of   *)
(* the 9-bit block floating point format is left out.                      *)
(***************************************************************************)
EXTENDS Naturals, FiniteSets

CONSTANTS
  NumRus,       \* radio units
  NumWorkers,   \* dpdk: worker cores next to the main core
  Programs,     \* subset of {"dpdk", "xdp"}
  Chunk,        \* samples sum_arrays_avx512 adds at once (32)
  Carrier,      \* samples of a packet with NUM_PRB resource blocks
  Lengths,      \* samples of other packets
  NumGroups     \* bound: groups

Rus == 0 .. NumRus - 1
Groups == 1 .. NumGroups
Samples == Lengths \cup {Carrier}

ASSUME IqSumAssumption ==
  /\ NumRus \in Nat \ {0} /\ NumWorkers \in Nat
  /\ Programs \subseteq {"dpdk", "xdp"}
  /\ Chunk \in Nat \ {0} /\ Carrier \in Nat /\ Lengths \subseteq Nat
  /\ NumGroups \in Nat

VARIABLES
  program, avx,   \* the program, and whether its build has AVX-512
  taken,          \* number of groups that were taken from the cache
  pc,             \* core -> what it does
  job,            \* core -> the group it adds
  id,             \* core -> index of the RU (sock_id)
  iq_idx,         \* core -> next sample to add
  tmp_buf,        \* core -> its temporary buffer
  iq_buffer,      \* row -> RU -> decompressed samples
  payload,        \* core -> RU -> samples in the packet
  sent            \* the packets that were sent, with what they hold

vars == <<program, avx, taken, pc, job, id, iq_idx, tmp_buf, iq_buffer, payload, sent>>

\* A worker's index is its worker_id + 1; the main core has 0.
Cores == 0 .. NumWorkers
Running == IF program = "dpdk" THEN Cores ELSE {0}

Cell == [Groups \X Rus -> Nat]
Index == {k \in 0 .. 2 * Carrier : \E n \in Samples : k < n}
Array == [Index -> Cell]

Job == [group : 0 .. NumGroups, len : Samples, compressed : BOOLEAN]
NoJob == [group |-> 0, len |-> Carrier, compressed |-> FALSE]

\* A cell with the samples of the first m RUs of group g, and one with RU r's.
FirstRus(g, m) == [s \in Groups \X Rus |-> IF s[1] = g /\ s[2] < m THEN 1 ELSE 0]
Sample(g, r) == [s \in Groups \X Rus |-> IF s = <<g, r>> THEN 1 ELSE 0]
Zero == FirstRus(0, 0)
Plus(a, b) == [s \in Groups \X Rus |-> a[s] + b[s]]

Zeros == [k \in Index |-> Zero]

Init ==
  /\ program \in Programs
  /\ avx \in BOOLEAN /\ (program = "xdp" => ~avx)
  /\ taken = 0
  /\ pc = [c \in Cores |-> "idle"]
  /\ job = [c \in Cores |-> NoJob]
  /\ id = [c \in Cores |-> 0]
  /\ iq_idx = [c \in Cores |-> 0]
  /\ tmp_buf = [c \in Cores |-> Zeros]
  /\ iq_buffer = [c \in Cores |-> [r \in Rus |-> Zeros]]
  /\ payload = [c \in Cores |-> [r \in Rus |-> Zeros]]
  /\ sent = {}

(* Where the samples are.  Operators named ...Mut are deliberate mistakes  *)
(* for the sensitivity checks.                                             *)

\* The row of iq_buffer of a core (out_port_idx).
RowMut(c) == 0
Row(c) == c

\* iq_sum points into the first RU's packet if that is not compressed; else to
\* tmp_buf, for xdp to the first RU's row of iq_buffer.
Sum(c) ==
  IF ~job[c].compressed THEN payload[c][0]
  ELSE IF program = "dpdk" THEN tmp_buf[c]
  ELSE iq_buffer[Row(c)][0]
\* iq_sum2
Addend(c) == IF job[c].compressed THEN iq_buffer[Row(c)][id[c]] ELSE payload[c][id[c]]

\* xdp adds the packets of the other RUs to that of the first.
FirstAdded == IF program = "dpdk" THEN 0 ELSE 1

\* The samples from lo on, below hi, are added.
Added(c, lo, hi) ==
  [k \in Index |-> IF lo <= k /\ k < hi THEN Plus(Sum(c)[k], Addend(c)[k]) ELSE Sum(c)[k]]
StoreSum(c, array) ==
  IF ~job[c].compressed
    THEN payload' = [payload EXCEPT ![c][0] = array] /\ UNCHANGED <<tmp_buf, iq_buffer>>
  ELSE IF program = "dpdk"
    THEN tmp_buf' = [tmp_buf EXCEPT ![c] = array] /\ UNCHANGED <<payload, iq_buffer>>
  ELSE iq_buffer' = [iq_buffer EXCEPT ![Row(c)][0] = array] /\ UNCHANGED <<payload, tmp_buf>>

(* The steps.                                                              *)

\* A complete group.  Compressed packets (those of the data ports) always have
\* the length of the carrier for dpdk; workers get no others.
Jobs(c) ==
  {[group |-> taken + 1, len |-> n, compressed |-> b] : n \in Samples, b \in BOOLEAN}
  \cap {j \in Job : /\ program = "dpdk" /\ j.compressed => j.len = Carrier
                    /\ c > 0 => j.compressed}
Begin(c) == \E j \in Jobs(c) :
  /\ c \in Running /\ pc[c] = "idle" /\ taken < NumGroups
  /\ taken' = taken + 1
  /\ job' = [job EXCEPT ![c] = j]
  /\ payload' = [payload EXCEPT ![c] = [r \in Rus |->
                   [k \in Index |-> IF k < j.len THEN Sample(taken + 1, r) ELSE Zero]]]
  /\ tmp_buf' = [tmp_buf EXCEPT ![c] = Zeros]
  /\ id' = [id EXCEPT ![c] = 0]
  /\ pc' = [pc EXCEPT ![c] = "decompress"]
  /\ UNCHANGED <<program, avx, iq_idx, iq_buffer, sent>>

NextRu(c) ==
  IF id[c] + 1 < NumRus
    THEN id' = [id EXCEPT ![c] = @ + 1] /\ pc' = [pc EXCEPT ![c] = "decompress"]
    ELSE pc' = [pc EXCEPT ![c] = "compress"] /\ UNCHANGED id

\* xranlib_decompress, if the packet is compressed.
Decompress(c) ==
  /\ pc[c] = "decompress"
  /\ IF job[c].compressed
       THEN iq_buffer' = [iq_buffer EXCEPT ![Row(c)][id[c]] =
              [k \in Index |-> IF k < job[c].len THEN payload[c][id[c]][k] ELSE @[k]]]
       ELSE UNCHANGED iq_buffer
  /\ IF id[c] >= FirstAdded
       THEN pc' = [pc EXCEPT ![c] = "add"] /\ iq_idx' = [iq_idx EXCEPT ![c] = 0] /\ UNCHANGED id
       ELSE NextRu(c) /\ UNCHANGED iq_idx
  /\ UNCHANGED <<program, avx, taken, job, tmp_buf, payload, sent>>

\* The loop over chunks, if there is AVX-512, ...
ChunkLeftMut(c) == avx /\ iq_idx[c] < job[c].len
ChunkLeft(c) == avx /\ iq_idx[c] + Chunk <= job[c].len
AddChunk(c) ==
  /\ pc[c] = "add" /\ ChunkLeft(c)
  /\ StoreSum(c, Added(c, iq_idx[c], iq_idx[c] + Chunk))
  /\ iq_idx' = [iq_idx EXCEPT ![c] = @ + Chunk]
  /\ UNCHANGED <<program, avx, taken, pc, job, id, sent>>

\* ... and the one over the remaining samples, or all.
AddOne(c) ==
  /\ pc[c] = "add" /\ ~ChunkLeft(c) /\ iq_idx[c] < job[c].len
  /\ StoreSum(c, Added(c, iq_idx[c], iq_idx[c] + 1))
  /\ iq_idx' = [iq_idx EXCEPT ![c] = @ + 1]
  /\ UNCHANGED <<program, avx, taken, pc, job, id, sent>>

EndAdd(c) ==
  /\ pc[c] = "add" /\ ~ChunkLeft(c) /\ ~(iq_idx[c] < job[c].len)
  /\ NextRu(c)
  /\ UNCHANGED <<program, avx, taken, job, iq_idx, tmp_buf, iq_buffer, payload, sent>>

\* xranlib_compress into the first RU's packet, which is sent.
Compress(c) ==
  /\ pc[c] = "compress"
  /\ payload' = [payload EXCEPT ![c][0] = Sum(c)]
  /\ pc' = [pc EXCEPT ![c] = "transmit"]
  /\ UNCHANGED <<program, avx, taken, job, id, iq_idx, tmp_buf, iq_buffer, sent>>

Transmit(c) ==
  /\ pc[c] = "transmit"
  /\ sent' = sent \cup {[job |-> job[c], content |-> payload[c][0]]}
  /\ pc' = [pc EXCEPT ![c] = "idle"]
  /\ UNCHANGED <<program, avx, taken, job, id, iq_idx, tmp_buf, iq_buffer, payload>>

Work(c) == Decompress(c) \/ AddChunk(c) \/ AddOne(c) \/ EndAdd(c) \/ Compress(c) \/ Transmit(c)

\* No group comes any more.
Idle == taken = NumGroups /\ (\A c \in Cores : pc[c] = "idle") /\ UNCHANGED vars

Next == (\E c \in Cores : Begin(c) \/ Work(c)) \/ Idle

Spec == Init /\ [][Next]_vars

(* Properties.                                                             *)

TypeOK ==
  /\ program \in Programs /\ avx \in BOOLEAN
  /\ taken \in 0 .. NumGroups
  /\ pc \in [Cores -> {"idle", "decompress", "add", "compress", "transmit"}]
  /\ job \in [Cores -> Job]
  /\ id \in [Cores -> Rus]
  /\ iq_idx \in [Cores -> Nat]
  /\ tmp_buf \in [Cores -> Array]
  /\ iq_buffer \in [Cores -> [Rus -> Array]]
  /\ payload \in [Cores -> [Rus -> Array]]
  /\ \A p \in sent : p.job \in Job /\ p.content \in Array

\* No loop reads or writes a sample behind the end of the packet.
InBounds == \A c \in Cores : pc[c] = "add" => iq_idx[c] <= job[c].len

\* The packet p holds the sum of one sample of each RU of its group.
Exact(p) == \A k \in Index : k < p.job.len => p.content[k] = FirstRus(p.job.group, NumRus)

\* What is sent is exact at each place of the packet, whatever its length and the
\* program's build, the other cores' work at the time and what earlier groups
\* left in the buffers.  Excepted are, for dpdk, packets that are not compressed.
DataIsExact == \A p \in sent : program = "xdp" \/ p.job.compressed => Exact(p)

\* "Add the IQ samples of the new buffer" (das_dpdk.c:471): the same of all packets,
\* PRACH included.  The code of dpdk breaks it: the sum starts as the samples of RU
\* 0, to which the loop adds those of RU 0.
PrachIsExact == \A p \in sent : Exact(p)
=============================================================================
