------------------------------- MODULE DasXdp -------------------------------
(***************************************************************************)
(* The AF_XDP distributed antenna system (DAS) middlebox,                  *)
(* src/src/xdp/das/das_rx_handler.c.  One thread polls one AF_XDP socket   *)
(* per radio unit (RU), adds up the uplink packets of a symbol and sends   *)
(* the sum to the distributed unit (DU) from socket 0.                     *)
(*                                                                         *)
(* Every socket has a memory (UMEM) of packet frames of its own.  A frame  *)
(* goes round from the fill ring to the network card, the RX ring, the     *)
(* batch, the cache, and back to the fill ring; frames of socket 0 make a  *)
(* detour over the TX ring and the completion ring.  Nobody else allocates *)
(* or frees frames, so a frame that is not put back is lost for reception. *)
(*                                                                         *)
(* The thread is a sequence of steps between which the cards receive and   *)
(* transmit: take a batch from a socket, handle each packet of it, return  *)
(* the frames to the fill rings, queue the sums, collect completions.      *)
(***************************************************************************)
EXTENDS Naturals, Sequences, FiniteSets

CONSTANTS
  NumRus,        \* num_rus, the number of sockets in use
  Ports,         \* antenna ports in use
  Keys,          \* symbols of the schedule: (symbol, subframe, slot)
  RING_SIZE,     \* entries of each ring, and frames put into each fill ring:
                 \* XSK_RING_PROD__DEFAULT_NUM_DESCS
  BATCH_SIZE,    \* packets taken from a socket at a time
  MaxFrame,      \* bound: radio frames are numbered 0..MaxFrame
  MaxLost,       \* bound: packets the fronthaul network may lose
  NULL

NUM_SOCKETS == 3

Rus == 0 .. NumRus - 1
Slots == Ports \X Keys
RadioFrames == 0 .. MaxFrame
Umem(r) == {r} \X (1 .. RING_SIZE)     \* the frames of socket r's UMEM in use
UmemFrames == UNION {Umem(r) : r \in Rus}

ASSUME XdpAssumption ==
  /\ NumRus \in 1 .. NUM_SOCKETS
  /\ Ports # {} /\ Keys # {}
  /\ RING_SIZE \in Nat \ {0} /\ BATCH_SIZE \in Nat \ {0}
  /\ MaxFrame \in Nat /\ MaxLost \in Nat
  /\ NULL \notin UmemFrames

\* An RU's packet, and what a frame can hold: packets added up, by RU.  A
\* packet as it was received is a sum of one.
Packet == [ru : Rus, port : Ports, key : Keys, frame : RadioFrames]
Sums == [Rus -> Packet \cup {NULL}]
EmptyRow == [r \in Rus |-> NULL]

ASSUME NullAssumption == NULL \notin Packet

VARIABLES
  \* rings, shared with the kernel
  fq,                 \* per socket, the fill ring
  rx,                 \* per socket, the RX ring
  tx, cq,             \* TX and completion ring of socket 0
  content,            \* what each frame holds
  \* the thread
  pc,                 \* "poll", "frags", "send" or "reap"
  socket_to_process,
  pkt_frags,          \* the packets of the batch still to be handled
  cached_packets, cached_packets_num,
  frags_to_be_freed,  \* per socket
  frags_to_be_sent,
  alive,              \* FALSE once an assertion has failed
  \* environment
  frame, sent, lost,
  to_du               \* history: per port, the sums transmitted to the DU

rings == <<fq, rx, tx, cq>>
batchVars == <<pc, socket_to_process, pkt_frags, frags_to_be_freed, frags_to_be_sent>>
cacheVars == <<cached_packets, cached_packets_num>>
envVars == <<frame, sent, lost>>
vars == <<rings, content, batchVars, cacheVars, alive, envVars, to_du>>

Nothing == [r \in Rus |-> <<>>]

\* setup_xsk_socket has put RING_SIZE frames into each fill ring.
Init ==
  /\ fq = [r \in Rus |-> [i \in 1 .. RING_SIZE |-> <<r, i>>]]
  /\ rx = Nothing
  /\ tx = <<>> /\ cq = <<>>
  /\ content = [f \in UmemFrames |-> EmptyRow]
  /\ pc = "poll"
  /\ socket_to_process = 0
  /\ pkt_frags = <<>>
  /\ cached_packets = [s \in Slots |-> EmptyRow]
  /\ cached_packets_num = [s \in Slots |-> 0]
  /\ frags_to_be_freed = Nothing
  /\ frags_to_be_sent = <<>>
  /\ alive = TRUE
  /\ frame = 0
  /\ sent = [r \in Rus |-> {}]
  /\ lost = {}
  /\ to_du = [p \in Ports |-> <<>>]

-----------------------------------------------------------------------------
(* rx_packets and process_rcvd_pkt.  The operators named ...Mut are        *)
(* deliberate mistakes for the definition that follows them; only the      *)
(* sensitivity checks use them.                                            *)

\* A batch is what the RX ring holds, up to BATCH_SIZE.
BatchOf(seq) == SubSeq(seq, 1, IF Len(seq) < BATCH_SIZE THEN Len(seq) ELSE BATCH_SIZE)

\* rx_packets: the socket's RX ring gives up a batch.
RxPackets(i) ==
  LET batch == BatchOf(rx[i])
  IN
  /\ alive
  /\ pc = "poll"
  /\ rx[i] # <<>>
  /\ pkt_frags' = batch
  /\ rx' = [rx EXCEPT ![i] = SubSeq(@, Len(batch) + 1, Len(@))]
  /\ socket_to_process' = i
  /\ pc' = "frags"
  /\ UNCHANGED <<fq, tx, cq, content, cacheVars, frags_to_be_freed, frags_to_be_sent,
                 alive, envVars, to_du>>

SlotOfMut(p) == <<p.port, CHOOSE k \in Keys : TRUE>>
SlotOf(p) == <<p.port, p.key>>

\* The cache still holds an earlier packet of this RU in the slot.
Occupied(s, r) == cached_packets[s][r] # NULL

\* The slot's row when the packet in frame f has arrived from RU r.  An
\* occupied entry empties the whole row first.
RowWith(s, r, f) == [IF Occupied(s, r) THEN EmptyRow ELSE cached_packets[s] EXCEPT ![r] = f]

CountWith(s, r) == 1 + (IF Occupied(s, r) THEN 0 ELSE cached_packets_num[s])

CompleteMut(s, r) == CountWith(s, r) > NumRus
Complete(s, r) == CountWith(s, r) = NumRus

\* The frames put on socket k's list of frames to be freed: the whole row
\* when it is emptied, and all but socket 0's frame when it has been added up.
EvictedMut(s, r, k) == <<>>
Evicted(s, r, k) ==
  IF Occupied(s, r) /\ cached_packets[s][k] # NULL THEN <<cached_packets[s][k]>> ELSE <<>>
AddedUp(row, k) == IF k > 0 THEN <<row[k]>> ELSE <<>>

\* Handles the first packet of the batch, in frame f, which fills slot s.
Handles(f, s) ==
  /\ alive
  /\ pc = "frags"
  /\ pkt_frags # <<>>
  /\ f = Head(pkt_frags)
  /\ s = SlotOf(content[f][socket_to_process])
  /\ pkt_frags' = Tail(pkt_frags)
  /\ UNCHANGED <<rings, pc, socket_to_process, alive, envVars, to_du>>

\* The packet waits in the cache for those of the other RUs.
CacheFrag == \E f \in Umem(socket_to_process), s \in Slots :
  LET r == socket_to_process
  IN
  /\ Handles(f, s)
  /\ ~Complete(s, r)
  /\ cached_packets' = [cached_packets EXCEPT ![s] = RowWith(s, r, f)]
  /\ cached_packets_num' = [cached_packets_num EXCEPT ![s] = CountWith(s, r)]
  /\ frags_to_be_freed' = [k \in Rus |-> frags_to_be_freed[k] \o Evicted(s, r, k)]
  /\ UNCHANGED <<content, frags_to_be_sent>>

\* The packet completes its group: the sum replaces what RU 0's frame holds.
SumOfMut(row) == [r \in Rus |-> content[row[0]][0]]
SumOf(row) == [r \in Rus |-> content[row[r]][r]]
MergedMut(row) == row
Merged(row) == EmptyRow
MergeGroup == \E f \in Umem(socket_to_process), s \in Slots :
  LET r == socket_to_process
      row == RowWith(s, r, f)
  IN
  /\ Handles(f, s)
  /\ Complete(s, r)
  /\ content' = [content EXCEPT ![row[0]] = SumOf(row)]
  /\ cached_packets' = [cached_packets EXCEPT ![s] = Merged(row)]
  /\ cached_packets_num' = [cached_packets_num EXCEPT ![s] = 0]
  /\ frags_to_be_freed' =
       [k \in Rus |-> frags_to_be_freed[k] \o Evicted(s, r, k) \o AddedUp(row, k)]
  /\ frags_to_be_sent' = Append(frags_to_be_sent, row[0])

\* At the end of the batch the frames go back to their fill rings.  The loop
\* starts at socket 1.
Returned(r) == IF r > 0 THEN frags_to_be_freed[r] ELSE <<>>
ReturnFrames ==
  /\ alive
  /\ pc = "frags"
  /\ pkt_frags = <<>>
  /\ fq' = [r \in Rus |-> fq[r] \o Returned(r)]
  /\ alive' = (\A r \in Rus : Len(fq'[r]) <= RING_SIZE)
  /\ frags_to_be_freed' = Nothing
  /\ pc' = IF frags_to_be_sent = <<>> THEN "poll" ELSE "send"
  /\ UNCHANGED <<rx, tx, cq, content, socket_to_process, pkt_frags, frags_to_be_sent,
                 cacheVars, envVars, to_du>>

\* tx_free_pkt, called with at least one sum: it queues the sums ...
QueueSums ==
  /\ alive
  /\ pc = "send"
  /\ tx' = tx \o frags_to_be_sent
  /\ alive' = (Len(tx') <= RING_SIZE)
  /\ frags_to_be_sent' = <<>>
  /\ pc' = "reap"
  /\ UNCHANGED <<fq, rx, cq, content, socket_to_process, pkt_frags, frags_to_be_freed,
                 cacheVars, envVars, to_du>>

\* ... and then puts the frames transmitted by now back into the fill ring.
Completed == cq
CollectCompleted ==
  /\ alive
  /\ pc = "reap"
  /\ fq' = [fq EXCEPT ![0] = @ \o Completed]
  /\ alive' = (Len(fq'[0]) <= RING_SIZE)
  /\ cq' = <<>>
  /\ pc' = "poll"
  /\ UNCHANGED <<rx, tx, content, socket_to_process, pkt_frags, frags_to_be_freed,
                 frags_to_be_sent, cacheVars, envVars, to_du>>

Thread ==
  \/ \E i \in Rus : RxPackets(i)
  \/ CacheFrag \/ MergeGroup
  \/ ReturnFrames \/ QueueSums \/ CollectCompleted

-----------------------------------------------------------------------------
(* The environment: the RUs, the fronthaul network and the network cards   *)

UplinkPacket(r, s, f) == [ru |-> r, port |-> s[1], key |-> s[2], frame |-> f]

\* RU r sends its packet for slot s, and the card writes it to the next frame
\* of the fill ring.
Send(r, s) ==
  /\ s \notin sent[r]
  /\ fq[r] # <<>>
  /\ sent' = [sent EXCEPT ![r] = @ \cup {s}]
  /\ content' = [content EXCEPT ![Head(fq[r])] =
                               [EmptyRow EXCEPT ![r] = UplinkPacket(r, s, frame)]]
  /\ rx' = [rx EXCEPT ![r] = Append(@, Head(fq[r]))]
  /\ fq' = [fq EXCEPT ![r] = Tail(@)]
  /\ UNCHANGED <<tx, cq, batchVars, cacheVars, alive, frame, lost, to_du>>

\* The packet is lost: in the network, or because the fill ring is empty.
Lose(r, s) ==
  /\ s \notin sent[r]
  /\ Cardinality(lost) < MaxLost \/ fq[r] = <<>>
  /\ sent' = [sent EXCEPT ![r] = @ \cup {s}]
  /\ lost' = lost \cup {UplinkPacket(r, s, frame)}
  /\ UNCHANGED <<rings, content, batchVars, cacheVars, alive, frame, to_du>>

\* The card of socket 0 transmits what the next frame of the TX ring holds.
Transmit ==
  /\ tx # <<>>
  /\ to_du' = [to_du EXCEPT ![content[Head(tx)][0].port] = Append(@, content[Head(tx)])]
  /\ cq' = Append(cq, Head(tx))
  /\ tx' = Tail(tx)
  /\ UNCHANGED <<fq, rx, content, batchVars, cacheVars, alive, envVars>>

\* The slots of the schedule come round again 10 ms later.  The RX rings have
\* been polled by then.
NextFrame ==
  /\ frame < MaxFrame
  /\ \A r \in Rus : sent[r] = Slots /\ rx[r] = <<>>
  /\ frame' = frame + 1
  /\ sent' = [r \in Rus |-> {}]
  /\ UNCHANGED <<rings, content, batchVars, cacheVars, alive, lost, to_du>>

\* The thread waits in poll, or the program has aborted.
Idle ==
  /\ \/ ~alive
     \/ /\ frame = MaxFrame
        /\ \A r \in Rus : sent[r] = Slots /\ rx[r] = <<>>
        /\ pc = "poll" /\ tx = <<>>
  /\ UNCHANGED vars

Next ==
  \/ Thread
  \/ \E r \in Rus, s \in Slots : Send(r, s) \/ Lose(r, s)
  \/ Transmit
  \/ NextFrame
  \/ Idle

Spec == Init /\ [][Next]_vars

\* The thread runs at real-time priority, and the card transmits what is
\* queued.
Fairness == WF_vars(Thread) /\ WF_vars(Transmit)

\* The RUs follow the schedule.
RuFairness ==
  /\ WF_vars(NextFrame)
  /\ WF_vars(\E r \in Rus, s \in Slots : Send(r, s) \/ Lose(r, s))

FairSpec == Spec /\ Fairness
ScheduledSpec == FairSpec /\ RuFairness
-----------------------------------------------------------------------------
(* Properties                                                              *)

TypeOK ==
  /\ fq \in [Rus -> Seq(UmemFrames)] /\ rx \in [Rus -> Seq(UmemFrames)]
  /\ tx \in Seq(UmemFrames) /\ cq \in Seq(UmemFrames)
  /\ content \in [UmemFrames -> Sums]
  /\ pc \in {"poll", "frags", "send", "reap"}
  /\ socket_to_process \in Rus
  /\ pkt_frags \in Seq(UmemFrames)
  /\ cached_packets \in [Slots -> [Rus -> UmemFrames \cup {NULL}]]
  /\ cached_packets_num \in [Slots -> 0 .. NumRus - 1]
  /\ frags_to_be_freed \in [Rus -> Seq(UmemFrames)]
  /\ frags_to_be_sent \in Seq(UmemFrames)
  /\ alive \in BOOLEAN
  /\ frame \in RadioFrames
  /\ sent \in [Rus -> SUBSET Slots]
  /\ lost \subseteq Packet
  /\ to_du \in [Ports -> Seq(Sums)]

\* How often frame f of socket f[1] occurs among the rings, the batch, the
\* cache and the lists.
Occurrences(f, seq) == Cardinality({i \in DOMAIN seq : seq[i] = f})
Uses(f) ==
  LET r == f[1]
      inBatch == IF r = socket_to_process THEN Occurrences(f, pkt_frags) ELSE 0
      cached == Cardinality({s \in Slots : cached_packets[s][r] = f})
      toDu == IF r = 0 THEN Occurrences(f, frags_to_be_sent \o tx \o cq) ELSE 0
  IN  Occurrences(f, fq[r] \o rx[r] \o frags_to_be_freed[r]) + inBatch + cached + toDu

\* No frame is leaked or in two places: it is never received into while its
\* packet waits in the cache, and never while a sum is being transmitted.
FramesConserved == \A f \in UmemFrames : Uses(f) = 1

\* Losses in the fronthaul network cost no frame of sockets 1 and up, and at
\* most one frame of socket 0 each.
LeakBoundedByLoss ==
  /\ \A f \in UmemFrames : Uses(f) <= 1
  /\ \A f \in UmemFrames \ Umem(0) : Uses(f) = 1
  /\ Cardinality({f \in Umem(0) : Uses(f) = 0}) <= Cardinality(lost)

\* The assertions of process_rcvd_pkt and tx_free_pkt hold: a ring always has
\* room for the frames returned to it.  Nor do the local arrays overflow.
EnoughRoom ==
  /\ alive
  /\ \A r \in Rus : Len(frags_to_be_freed[r]) <= BATCH_SIZE
  /\ Len(frags_to_be_sent) <= BATCH_SIZE
  /\ Len(cq) <= RING_SIZE

\* Packets of different frames are added up only after losses: at least one
\* in the same slot for every frame that they are apart.
SkewBoundedByLoss == \A port \in Ports : \A i \in DOMAIN to_du[port] :
  LET g == to_du[port][i]
      lostInSlot == {p \in lost : SlotOf(p) = SlotOf(g[0])}
  IN  \A r, q \in Rus : g[r].frame <= g[q].frame + Cardinality(lostInSlot)

\* The packets that reached an RX ring.
Arrived == {p \in Packet : \/ p.frame < frame
                           \/ p.frame = frame /\ SlotOf(p) \in sent[p.ru]} \ lost

\* The packets that may still reach the DU, on their own or in a sum.
Collecting ==
  LET queued == frags_to_be_sent \o tx \o pkt_frags
      held == (UNION {{rx[r][i] : i \in DOMAIN rx[r]} : r \in Rus})
                \cup (UNION {{cached_packets[s][r] : r \in Rus} \ {NULL} : s \in Slots})
                \cup {queued[i] : i \in DOMAIN queued}
  IN  UNION {{content[f][r] : r \in Rus} \ {NULL} : f \in held}

\* The middlebox implements the promise to the DU.
Merge == INSTANCE FronthaulMerge WITH
  Frames <- RadioFrames,
  arrived <- Arrived,
  waiting <- Collecting,
  delivered <- to_du
RefinesMerge == Merge!MergeSpec

\* So long as no packet is lost, the DU gets the sum of every group that has
\* arrived in full: again and again, none is left over.
GroupArrived(s, f) == \A r \in Rus : UplinkPacket(r, s, f) \in Arrived
GroupDelivered(s, f) ==
  \E i \in DOMAIN to_du[s[1]] : to_du[s[1]][i] = [r \in Rus |-> UplinkPacket(r, s, f)]
EveryGroupDelivered ==
  []<>(lost = {} =>
         \A s \in Slots, f \in RadioFrames : GroupArrived(s, f) => GroupDelivered(s, f))

\* "Collect/free completed TX buffers" (line 275): a frame of the schedule
\* that begins when socket 0 has nothing to receive into, but has completed
\* transmissions, does not go by before it can receive again.
ReceptionResumes ==
  (fq[0] = <<>> /\ cq # <<>> /\ frame < MaxFrame /\ sent = [r \in Rus |-> {}])
    ~> (fq[0] # <<>>)
=============================================================================
