----------------------------- MODULE RuSharing -----------------------------
(***************************************************************************)
(* The DPDK RU sharing middlebox, src/src/dpdk/ru_sharing/                 *)
(* ru_sharing_dpdk.c: several distributed units (DUs) use one radio unit   *)
(* (RU), each a part of its spectrum.  One thread (lcore_main) polls one   *)
(* network port.                                                           *)
(*                                                                         *)
(* Downlink, the packets of the DUs for the same symbol are cached until   *)
(* there is one of each.  Their IQ samples are then put side by side in a  *)
(* new packet, and so are the sections of PRACH requests; of other control *)
(* packets the last one is forwarded for all.  A request for uplink data   *)
(* does not wait: it is forwarded, for the whole spectrum, and the DU is   *)
(* noted in pending_ul_packet.  A packet of uplink data goes to the first  *)
(* DU noted for its symbol; of PRACH data every DU gets its section.       *)
(*                                                                         *)
(* One action handles one packet of a burst.  The part of the spectrum     *)
(* that is copied for a DU is represented by the DU whose it is.           *)
(***************************************************************************)
EXTENDS Integers, Sequences, FiniteSets

CONSTANTS
  NumDus,      \* config->num_dus, at most MAX_NUM_DUS
  Ports,       \* antenna ports
  Symbols,     \* the symbols of a slot
  BURST_SIZE,
  PRACH_TURN,  \* PRACH requests until next_prach changes (256)
  Scenarios,   \* the builds and the traffic considered, see Scenario
  MaxBufs,     \* bound: mbufs of config->mbuf_pool in any scenario
  MaxFrame,    \* bound: radio frames are numbered 0..MaxFrame
  NULL

\* dl_control: control packet for downlink data.  ul_control: request for
\* uplink data, asking for a set of symbols from its start symbol on.
\* prach_control: request for PRACH data.  iq: downlink data.  unsupported:
\* control packet of another section type, or for downlink data with other PRBs
\* than du_prb_size; unsupported_ul: request for uplink data with other PRBs;
\* unsupported_type: of another eCPRI type.
Refused == {"unsupported", "unsupported_ul", "unsupported_type"}
DuKinds == {"dl_control", "ul_control", "prach_control", "iq"} \cup Refused
UlRequests == {"ul_control", "unsupported_ul"}

\* prach_header: PRACH data of which nothing is left but the header.
RuKinds == {"ul_data", "prach_data", "prach_header"}

Message == [kind : DuKinds, port : Ports, symbol : Symbols, asks : SUBSET Symbols]

\* schedule: what a DU may send in a radio frame; only requests for uplink data
\* ask for symbols.  asserts: a Debug build; in
\* a Release build assert(e) is compiled out together with the effects of e.
\* tx_may_fail: rte_eth_tx_burst may take part of a burst only.  num_bufs:
\* the size of config->mbuf_pool.  Bounds: the last frame, the packets that
\* are not sent or lost, and the packets that are not the middlebox's.
IsScenario(s) ==
  /\ s.schedule \subseteq Message
  /\ \A m \in s.schedule : m.kind # "ul_control" => m.asks = {}
  /\ s.asserts \in BOOLEAN /\ s.tx_may_fail \in BOOLEAN
  /\ s.num_bufs \in 1 .. MaxBufs
  /\ s.max_frame \in 0 .. MaxFrame /\ s.max_missing \in Nat /\ s.max_stray \in Nat

ASSUME SharingAssumption ==
  /\ NumDus \in 1 .. 2 /\ BURST_SIZE \in Nat \ {0} /\ PRACH_TURN \in Nat \ {0}
  /\ Ports # {} /\ Symbols # {}
  /\ MaxBufs \in Nat /\ MaxFrame \in Nat
  /\ \A s \in Scenarios : IsScenario(s)

Dus == 0 .. NumDus - 1
Bufs == 1 .. MaxBufs
RadioFrames == 0 .. MaxFrame
RU == -1

\* A DU's packet of the schedule; an answer of the RU to DU du's request; a
\* packet of a DU that is not for the middlebox ("stray"), and one of somebody
\* else, or of the RU to somebody else ("foreign").  centre: the DU by whose
\* center_of_frequency the part of the spectrum is placed.
DuPacket(d, m, f) ==
  [kind |-> m.kind, du |-> d, port |-> m.port, symbol |-> m.symbol, asks |-> m.asks,
   frame |-> f, centre |-> d]
RuPacket(kind, request, symbol) ==
  [request EXCEPT !.kind = kind, !.symbol = symbol, !.asks = {}]
StrayKinds == {"stray", "foreign"}
Stray(kind, d) == [kind |-> kind, du |-> d, port |-> CHOOSE p \in Ports : TRUE,
             symbol |-> CHOOSE s \in Symbols : TRUE, asks |-> {}, frame |-> 0, centre |-> d]
Packet == [kind : DuKinds \cup RuKinds \cup StrayKinds, du : Dus, port : Ports,
           symbol : Symbols, asks : SUBSET Symbols, frame : RadioFrames, centre : Dus \cup {0, 1}]

ASSUME NullAssumption == NULL \notin Bufs /\ NULL \notin Packet

VARIABLES
  scenario,
  \* memory
  pool,       \* how often each mbuf is on the free list
  content,    \* what each mbuf holds: per DU, its packet or the part for it
  \* lcore_main
  rxq,        \* RX queue of the network port
  mx_bufs,    \* the packets of the burst still to be handled
  mx_tx_bufs, \* the packets to be sent: [to, buf]
  cached_du_packets, cached_du_packets_num,
  pending_ul_packet,
  next_prach_counter, next_prach,
  alive,      \* FALSE once an assertion has failed, NULL was followed, or exit called
  \* environment
  frame,      \* the current radio frame
  sent,       \* the packets of this frame that the DUs have sent, or left out
  missing,    \* history: packets of the schedule, and answers, that never arrived
  stray,      \* number of stray packets so far
  owed,       \* the answers that the RU has still to give
  to_ru,      \* history: the packets sent to the RU
  to_du       \* history: the packets sent to DUs: [du, packet]

DuPackets(f) == {DuPacket(d, m, f) : d \in Dus, m \in scenario.schedule}

memory == <<pool, content>>
cacheVars == <<cached_du_packets, cached_du_packets_num, pending_ul_packet>>
envVars == <<scenario, frame, sent, missing, stray, owed>>
prachVars == <<next_prach_counter, next_prach>>
vars == <<memory, rxq, mx_bufs, mx_tx_bufs, cacheVars, prachVars, alive, envVars, to_ru, to_du>>

EmptyRow == [d \in Dus |-> NULL]

\* The index of the caches.
EcpriTypes == {"control", "iq", "other"}
TypeOf(p) ==
  IF p.kind = "iq" THEN "iq" ELSE IF p.kind = "unsupported_type" THEN "other" ELSE "control"
Keys == EcpriTypes \X Ports \X Symbols
KeyOfMut(p) == <<TypeOf(p), p.port, CHOOSE s \in Symbols : TRUE>>
KeyOf(p) == <<TypeOf(p), p.port, p.symbol>>

Init ==
  /\ scenario \in Scenarios
  /\ pool = [b \in Bufs |-> IF b <= scenario.num_bufs THEN 1 ELSE 0]
  /\ content = [b \in Bufs |-> EmptyRow]
  /\ rxq = <<>>
  /\ mx_bufs = <<>> /\ mx_tx_bufs = <<>>
  /\ cached_du_packets = [k \in Keys |-> EmptyRow]
  /\ cached_du_packets_num = [k \in Keys |-> 0]
  /\ pending_ul_packet = [i \in Dus \X Ports \X Symbols |-> 0]
  /\ next_prach_counter = 0 /\ next_prach = 0
  /\ alive = TRUE
  /\ frame = 0
  /\ sent = {} /\ missing = {} /\ stray = 0
  /\ owed = {}
  /\ to_ru = <<>> /\ to_du = <<>>

-----------------------------------------------------------------------------
(* lcore_main.  The operators named ...Mut are deliberate mistakes for the *)
(* definition that follows them; only the sensitivity checks use them.     *)

\* What a DU's or the RU's packet in mbuf b is.
PacketIn(b) == content[b][CHOOSE d \in Dus : content[b][d] # NULL]

InRow(row) == {row[d] : d \in Dus} \ {NULL}
ToSend(dest, b) == [to |-> dest, buf |-> b]

Free == {b \in Bufs : pool[b] > 0}
LowestFree(n) == CHOOSE S \in SUBSET Free :
                   Cardinality(S) = n /\ \A b \in S, f \in Free \ S : b < f
Nth(S, i) == CHOOSE b \in S : Cardinality({a \in S : a <= b}) = i

\* The mbufs of S are freed, those of DOMAIN filled allocated and filled.  What
\* is left in a free mbuf is of no account.
FreeAndFill(S, filled) ==
  /\ pool' = [b \in Bufs |-> pool[b] + (IF b \in S THEN 1 ELSE 0)
                                    - (IF b \in DOMAIN filled THEN 1 ELSE 0)]
  /\ content' = [b \in Bufs |->
       IF b \in DOMAIN filled THEN filled[b] ELSE IF b \in S THEN EmptyRow ELSE content[b]]
Filled(new, row) == [b \in new |-> row]
FreeAll(S) == FreeAndFill(S, <<>>)

AtMostBurst(seq) == IF Len(seq) < BURST_SIZE THEN Len(seq) ELSE BURST_SIZE
RxBurst ==
  LET n == AtMostBurst(rxq)
  IN
  /\ alive
  /\ mx_bufs = <<>> /\ mx_tx_bufs = <<>>
  /\ rxq # <<>>
  /\ mx_bufs' = SubSeq(rxq, 1, n)
  /\ rxq' = SubSeq(rxq, n + 1, Len(rxq))
  /\ UNCHANGED <<memory, mx_tx_bufs, cacheVars, prachVars, alive, envVars, to_ru, to_du>>

\* Handles mbuf b, the next of the burst, with packet p in it.
Burst == {mx_bufs[i] : i \in DOMAIN mx_bufs}
Handles(b, p) ==
  /\ alive
  /\ mx_bufs # <<>>
  /\ b = Head(mx_bufs)
  /\ p = PacketIn(b)
  /\ mx_bufs' = Tail(mx_bufs)
  /\ UNCHANGED <<rxq, envVars, to_ru, to_du>>

\* A packet of a DU to somebody else is freed twice: where its destination
\* is found to be wrong, and as a packet that nothing matched.
IgnoreStray == \E b \in Burst : \E p \in {PacketIn(b)} :
  /\ Handles(b, p)
  /\ p.kind = "stray"
  /\ pool' = [pool EXCEPT ![b] = @ + 2]
  /\ UNCHANGED <<content, mx_tx_bufs, cacheVars, prachVars, alive>>

IgnoreForeign == \E b \in Burst : \E p \in {PacketIn(b)} :
  /\ Handles(b, p)
  /\ p.kind = "foreign"
  /\ FreeAll({b})
  /\ UNCHANGED <<mx_tx_bufs, cacheVars, prachVars, alive>>

\* An outdated packet of the same DU in the cache: its row is emptied.
Outdated(p) == cached_du_packets[KeyOf(p)][p.du] # NULL
EvictedMut(p) == {}
Evicted(p) == IF Outdated(p) THEN InRow(cached_du_packets[KeyOf(p)]) ELSE {}

\* The row and its count once mbuf b is in the cache.
RowWith(p, b) ==
  [IF Outdated(p) THEN EmptyRow ELSE cached_du_packets[KeyOf(p)] EXCEPT ![p.du] = b]
CountWith(p) == 1 + (IF Outdated(p) THEN 0 ELSE cached_du_packets_num[KeyOf(p)])

\* "We have all the packets, so time to send them down."  A request for
\* uplink data is sent when it is the only one.
ReadyMut(p) == CountWith(p) > NumDus
Ready(p) == CountWith(p) = NumDus \/ (p.kind \in UlRequests /\ CountWith(p) = 1)

\* A packet of a DU, to the middlebox.  A request for uplink data notes the
\* DU for every symbol of the slot.
HandlesDu(b, p) ==
  /\ p.kind \in DuKinds
  /\ Handles(b, p)
  /\ pending_ul_packet' =
       IF p.kind \in UlRequests
       THEN [i \in DOMAIN pending_ul_packet |->
               IF i[1] = p.du /\ i[2] = p.port THEN 1 ELSE pending_ul_packet[i]]
       ELSE pending_ul_packet

\* The cache after the packet: it waits there, or the row is used up.
StoreRow(p, row, n) ==
  /\ cached_du_packets' = [cached_du_packets EXCEPT ![KeyOf(p)] = row]
  /\ cached_du_packets_num' = [cached_du_packets_num EXCEPT ![KeyOf(p)] = n]

CachePacket == \E b \in Burst : \E p \in {PacketIn(b)} :
  /\ HandlesDu(b, p)
  /\ ~Ready(p)
  /\ StoreRow(p, RowWith(p, b), CountWith(p))
  /\ FreeAll(Evicted(p))
  /\ UNCHANGED <<mx_tx_bufs, prachVars, alive>>

\* A control packet for data is forwarded itself; the others are freed.
ForwardControl == \E b \in Burst : \E p \in {PacketIn(b)} :
  /\ HandlesDu(b, p)
  /\ Ready(p)
  /\ p.kind \in {"dl_control", "ul_control"}
  /\ mx_tx_bufs' = Append(mx_tx_bufs, ToSend(RU, b))
  /\ StoreRow(p, EmptyRow, 0)
  /\ FreeAll(Evicted(p) \cup (InRow(RowWith(p, b)) \ {b}))
  /\ UNCHANGED <<prachVars, alive>>

\* The program exits when it is to forward what it does not support: at the
\* first request for uplink data, at the last of the DUs' packets otherwise.
RefuseControl == \E b \in Burst : \E p \in {PacketIn(b)} :
  /\ HandlesDu(b, p)
  /\ Ready(p)
  /\ p.kind \in Refused
  /\ alive' = FALSE
  /\ UNCHANGED <<memory, mx_tx_bufs, cached_du_packets, cached_du_packets_num, prachVars>>

\* IQ data, and PRACH requests, are put together in a new packet.  An assert
\* holds the extension of the latter by the further sections: without it they
\* are outside the packet.  All sections are placed by the same DU's centre.
InRequest(d) == d = 0 \/ scenario.asserts
Section(q) == IF q.kind = "prach_control" THEN [q EXCEPT !.centre = next_prach] ELSE q
Merged(p, row) ==
  [d \in Dus |-> IF p.kind = "prach_control" /\ ~InRequest(d) THEN NULL
                 ELSE Section(PacketIn(row[d]))]

\* The DU whose centre is used changes after PRACH_TURN requests.
TurnPrach ==
  /\ next_prach_counter' = (next_prach_counter + 1) % PRACH_TURN
  /\ next_prach' = IF next_prach_counter' = 0 THEN (next_prach + 1) % 2 ELSE next_prach

MergePackets == \E b \in Burst : \E p \in {PacketIn(b)} :
  LET row == RowWith(p, b)
      new == LowestFree(1)
  IN
  /\ HandlesDu(b, p)
  /\ Ready(p)
  /\ p.kind \in {"iq", "prach_control"}
  /\ IF Free # {}
     THEN /\ FreeAndFill(Evicted(p) \cup InRow(row), Filled(new, Merged(p, row)))
          /\ mx_tx_bufs' = Append(mx_tx_bufs, ToSend(RU, Nth(new, 1)))
          /\ StoreRow(p, EmptyRow, 0)
          /\ IF p.kind = "prach_control" THEN TurnPrach ELSE UNCHANGED prachVars
          /\ UNCHANGED alive
     ELSE /\ alive' = FALSE
          /\ UNCHANGED <<memory, mx_tx_bufs, cached_du_packets, cached_du_packets_num, prachVars>>

\* Uplink data from the RU goes to the first DU that is noted for it.
ExpectingMut(p) == Dus
Expecting(p) == {d \in Dus : pending_ul_packet[<<d, p.port, p.symbol>>] = 1}
FirstExpecting(p) == CHOOSE d \in Expecting(p) : \A e \in Expecting(p) : d <= e
AnsweredMut(p) == Expecting(p)
Answered(p) == {FirstExpecting(p)}
ReturnUplink == \E b \in Burst : \E p \in {PacketIn(b)} :
  LET new == LowestFree(1)
  IN
  /\ Handles(b, p)
  /\ p.kind = "ul_data"
  /\ UNCHANGED <<cached_du_packets, cached_du_packets_num, prachVars>>
  /\ IF Expecting(p) = {}
     THEN /\ FreeAll({b})
          /\ UNCHANGED <<mx_tx_bufs, pending_ul_packet, alive>>
     ELSE IF Free = {}
     THEN /\ alive' = FALSE
          /\ UNCHANGED <<memory, mx_tx_bufs, pending_ul_packet>>
     ELSE /\ FreeAndFill({b}, Filled(new, content[b]))
          /\ mx_tx_bufs' = Append(mx_tx_bufs, ToSend(FirstExpecting(p), Nth(new, 1)))
          /\ pending_ul_packet' = [i \in DOMAIN pending_ul_packet |->
               IF i[1] \in Answered(p) /\ i[2] = p.port /\ i[3] = p.symbol
               THEN 0 ELSE pending_ul_packet[i]]
          /\ UNCHANGED alive

\* PRACH data: section d goes to DU d.  The packet is cut by the length of the
\* other DUs' sections, whether they are there or not.
SectionForMut(b, d) == content[b][0]
SectionFor(b, d) ==
  IF NULL \in {content[b][e] : e \in Dus} THEN [PacketIn(b) EXCEPT !.kind = "prach_header"]
  ELSE content[b][d]
SplitPrach == \E b \in Burst : \E p \in {PacketIn(b)} :
  LET new == LowestFree(NumDus)
      BufFor(d) == Nth(new, d + 1)
  IN
  /\ Handles(b, p)
  /\ p.kind = "prach_data"
  /\ UNCHANGED <<cacheVars, prachVars>>
  /\ IF Cardinality(Free) >= NumDus
     THEN /\ FreeAndFill({b}, [c \in new |->
               [d \in Dus |-> IF c = BufFor(d) THEN SectionFor(b, d) ELSE NULL]])
          /\ mx_tx_bufs' = mx_tx_bufs \o [i \in 1 .. NumDus |-> ToSend(i - 1, BufFor(i - 1))]
          /\ UNCHANGED alive
     ELSE alive' = FALSE /\ UNCHANGED <<memory, mx_tx_bufs>>

\* rte_eth_tx_burst at the end of the burst, a packet at a time.  The RU then
\* owes an answer for each symbol that a request for uplink data asks for,
\* and one, with a section for each of its sections, for a PRACH request.
Answers(group) ==
  LET requests == {group[d] : d \in Dus} \ {NULL}
      answersTo(p) == {RuPacket("ul_data", p, s) : s \in p.asks}
  IN  (UNION {answersTo(p) : p \in {q \in requests : q.kind = "ul_control"}})
        \cup {RuPacket("prach_data", p, p.symbol) :
                p \in {q \in requests : q.kind = "prach_control" /\ q.du = 0}}
TxOne ==
  LET e == Head(mx_tx_bufs)
      row == content[e.buf]
  IN
  /\ alive
  /\ mx_bufs = <<>> /\ mx_tx_bufs # <<>>
  /\ IF e.to = RU
     THEN to_ru' = Append(to_ru, row) /\ owed' = owed \cup Answers(row) /\ UNCHANGED to_du
     ELSE /\ to_du' = Append(to_du, [du |-> e.to, packet |-> PacketIn(e.buf)])
          /\ UNCHANGED <<to_ru, owed>>
  /\ FreeAll({e.buf})
  /\ mx_tx_bufs' = Tail(mx_tx_bufs)
  /\ UNCHANGED <<rxq, mx_bufs, cacheVars, prachVars, alive, scenario, frame, sent,
                 missing, stray>>

\* The TX queue is full: a Debug build aborts, a Release build frees the rest.
TxFull ==
  /\ alive
  /\ scenario.tx_may_fail
  /\ mx_bufs = <<>> /\ mx_tx_bufs # <<>>
  /\ FreeAll({mx_tx_bufs[i].buf : i \in DOMAIN mx_tx_bufs})
  /\ mx_tx_bufs' = <<>>
  /\ alive' = ~scenario.asserts
  /\ UNCHANGED <<rxq, mx_bufs, cacheVars, prachVars, envVars, to_ru, to_du>>

lcore_main ==
  \/ RxBurst
  \/ IgnoreStray \/ IgnoreForeign
  \/ CachePacket \/ ForwardControl \/ RefuseControl \/ MergePackets
  \/ ReturnUplink \/ SplitPrach
  \/ TxOne \/ TxFull

-----------------------------------------------------------------------------
(* The environment: the DUs, the RU and the network port                   *)

\* The network port receives what row describes.
NicReceive(row) ==
  /\ Free # {}
  /\ FreeAndFill({}, Filled(LowestFree(1), row))
  /\ rxq' = Append(rxq, Nth(LowestFree(1), 1))
  /\ UNCHANGED <<mx_bufs, mx_tx_bufs, cacheVars, prachVars, alive, to_ru, to_du>>

\* A DU sends a packet of the schedule, or does not; or it is lost.
SendDu == \E p \in DuPackets(frame) \ sent :
  /\ sent' = sent \cup {p}
  /\ NicReceive([EmptyRow EXCEPT ![p.du] = p])
  /\ UNCHANGED <<scenario, frame, missing, stray, owed>>
MayMiss == Cardinality(missing) < scenario.max_missing \/ Free = {}
MissDu == \E p \in DuPackets(frame) \ sent :
  /\ MayMiss
  /\ sent' = sent \cup {p}
  /\ missing' = missing \cup {p}
  /\ UNCHANGED <<memory, rxq, mx_bufs, mx_tx_bufs, cacheVars, prachVars, alive, scenario, frame,
                 stray, owed, to_ru, to_du>>

\* The RU answers, or its answer is lost.
AnswerRow(p) == [d \in Dus |->
  IF p.kind = "prach_data" /\ InRequest(d) THEN [p EXCEPT !.du = d]
  ELSE IF d = p.du THEN p ELSE NULL]
SendRu == \E p \in owed :
  /\ owed' = owed \ {p}
  /\ NicReceive(AnswerRow(p))
  /\ UNCHANGED <<scenario, frame, sent, missing, stray>>

MissRu == \E p \in owed :
  /\ MayMiss
  /\ owed' = owed \ {p}
  /\ missing' = missing \cup {p}
  /\ UNCHANGED <<memory, rxq, mx_bufs, mx_tx_bufs, cacheVars, prachVars, alive, scenario, frame,
                 sent, stray, to_ru, to_du>>

\* The schedule begins anew 10 ms later; all has been handled by then.
Quiet == rxq = <<>> /\ mx_bufs = <<>> /\ mx_tx_bufs = <<>> /\ owed = {}
NextFrame ==
  /\ frame < scenario.max_frame
  /\ sent = DuPackets(frame) /\ Quiet
  /\ frame' = frame + 1
  /\ sent' = {}
  /\ UNCHANGED <<memory, rxq, mx_bufs, mx_tx_bufs, cacheVars, prachVars, alive, scenario,
                 missing, stray, owed, to_ru, to_du>>

\* A packet that is not the middlebox's, the last to come: what becomes of an mbuf that is
\* used again after it has been freed twice is not modelled.
SendStray == \E d \in Dus, kind \in StrayKinds :
  /\ frame = scenario.max_frame /\ sent = DuPackets(frame) /\ Quiet
  /\ stray < scenario.max_stray
  /\ stray' = stray + 1
  /\ NicReceive([EmptyRow EXCEPT ![d] = Stray(kind, d)])
  /\ UNCHANGED <<scenario, frame, sent, missing, owed>>

\* The poll loop finds nothing, or the program has stopped.
Spin ==
  /\ ~alive \/ (frame = scenario.max_frame /\ sent = DuPackets(frame) /\ Quiet)
  /\ UNCHANGED vars

Next ==
  \/ lcore_main
  \/ SendDu \/ MissDu \/ SendRu \/ MissRu \/ SendStray
  \/ NextFrame
  \/ Spin

Spec == Init /\ [][Next]_vars

\* The thread never sleeps, and the RU answers.
FairSpec == Spec /\ WF_vars(lcore_main) /\ WF_vars(SendRu \/ MissRu)
-----------------------------------------------------------------------------
(* Properties                                                              *)

Rows == [Dus -> Packet \cup {NULL}]

TypeOK ==
  /\ scenario \in Scenarios
  /\ pool \in [Bufs -> Nat]
  /\ content \in [Bufs -> Rows]
  /\ rxq \in Seq(Bufs) /\ mx_bufs \in Seq(Bufs)
  /\ mx_tx_bufs \in Seq([to : Dus \cup {RU}, buf : Bufs])
  /\ cached_du_packets \in [Keys -> [Dus -> Bufs \cup {NULL}]]
  /\ cached_du_packets_num \in [Keys -> 0 .. NumDus - 1]
  /\ pending_ul_packet \in [Dus \X Ports \X Symbols -> {0, 1}]
  /\ next_prach_counter \in 0 .. PRACH_TURN - 1 /\ next_prach \in {0, 1}
  /\ alive \in BOOLEAN
  /\ frame \in RadioFrames
  /\ sent \subseteq Packet /\ missing \subseteq Packet /\ owed \subseteq Packet
  /\ stray \in 0 .. scenario.max_stray
  /\ to_ru \in Seq(Rows)
  /\ to_du \in Seq([du : Dus, packet : Packet])

\* How often an mbuf is on the free list, in the RX queue or the burst, in the
\* cache, or about to be sent.
Occurrences(b, seq) == Cardinality({i \in DOMAIN seq : seq[i] = b})
CachedIn(b) == {i \in Keys \X Dus : cached_du_packets[i[1]][i[2]] = b}
Places(b) ==
  pool[b] + Occurrences(b, rxq \o mx_bufs) + Cardinality(CachedIn(b))
    + Cardinality({i \in DOMAIN mx_tx_bufs : mx_tx_bufs[i].buf = b})

\* Whatever packets come, go missing or are not sent, every mbuf of the pool
\* is in one place; stray packets are freed too often (see MbufsConserved),
\* but even with them none is lost.
PoolBufs == 1 .. scenario.num_bufs
NoMbufLost == alive => \A b \in PoolBufs :
  Places(b) >= 1 /\ (stray = 0 => Places(b) = 1)

\* "If this was not going to the middlebox, ignore it" (line 645), and all
\* else that the thread does with mbufs: each of them is in one place.
MbufsConserved == alive => \A b \in PoolBufs : Places(b) = 1

\* The packets of the DUs that arrived, and those of a kind.
Arrived == ((UNION {DuPackets(f) : f \in 0 .. frame - 1}) \cup sent) \ missing
Of(kind, S) == {p \in S : p.kind = kind}

\* The downlink data keeps the promise that a DAS makes for the uplink, with
\* DUs in the place of RUs: every packet sent to the RU is put together from
\* one packet of each DU, for the same port and symbol, none is used twice,
\* and the packets of a symbol are used in order.
AsSource(p) == [ru |-> p.du, port |-> p.port, key |-> p.symbol, frame |-> p.frame]
IqPlaces(port) == {i \in DOMAIN to_ru :
  to_ru[i][0] # NULL /\ to_ru[i][0].kind = "iq" /\ to_ru[i][0].port = port}
HeldBufs ==
  {rxq[i] : i \in DOMAIN rxq} \cup {mx_bufs[i] : i \in DOMAIN mx_bufs}
    \cup (UNION {InRow(cached_du_packets[k]) : k \in Keys})
    \cup {mx_tx_bufs[i].buf : i \in DOMAIN mx_tx_bufs}
HeldPackets == UNION {{content[b][d] : d \in Dus} \ {NULL} : b \in HeldBufs}
IqArrived == {AsSource(p) : p \in Of("iq", Arrived)}
IqWaiting == {AsSource(p) : p \in Of("iq", HeldPackets)}
IqDelivered == [port \in Ports |-> [n \in 1 .. Cardinality(IqPlaces(port)) |->
  [d \in Dus |-> AsSource(to_ru[Nth(IqPlaces(port), n)][d])]]]
Merge == INSTANCE FronthaulMerge WITH
  Rus <- Dus,
  Keys <- Symbols,
  Frames <- RadioFrames,
  arrived <- IqArrived,
  waiting <- IqWaiting,
  delivered <- IqDelivered
RefinesMerge == Merge!MergeSpec

\* What every DU has sent for a symbol has reached the RU.
Groups(m, f) == {DuPacket(d, m, f) : d \in Dus}
SentToRu(m, f) == \E i \in DOMAIN to_ru, q \in Groups(m, f) :
  to_ru[i][q.du] # NULL /\ [to_ru[i][q.du] EXCEPT !.centre = q.du] = q
EveryGroupSent ==
  \A m \in scenario.schedule, f \in RadioFrames :
    Groups(m, f) \subseteq Arrived => SentToRu(m, f)

\* "This DU is expecting a response, so let's send it" (line 327): a DU gets
\* uplink data of the symbols it has asked for in this frame.  The code breaks it:
\* after a lost answer the note is still there in the next frame.
OnlyToWhoAsked == \A i \in DOMAIN to_du :
  LET e == to_du[i]
  IN  e.packet.kind = "ul_data" =>
        \E q \in Of("ul_control", Arrived) :
          /\ q.du = e.du /\ q.port = e.packet.port
          /\ q.frame = e.packet.frame /\ e.packet.symbol \in q.asks

\* The DUs have data for each symbol they have asked for.
GotData(d, port, s, f) == \E i \in DOMAIN to_du :
  LET e == to_du[i]
  IN  /\ e.du = d /\ e.packet.kind = "ul_data" /\ e.packet.port = port
      /\ e.packet.symbol = s /\ e.packet.frame = f
EveryRequestAnswered == \A q \in Of("ul_control", Arrived) : \A s \in q.asks :
  GotData(q.du, q.port, s, q.frame)

\* Again and again, nothing is left to send in either direction, so long as no
\* packet is missing, the TX queue has room, there is memory for the merged
\* packet (the program stops without), and no entry of the cache is shared by
\* different packets.
NoneShared == \A m, n \in scenario.schedule : KeyOf(m) = KeyOf(n) => m = n
Undisturbed == missing = {} /\ alive /\ ~scenario.tx_may_fail /\ NoneShared
NothingLeftToSend == []<>(Undisturbed => EveryGroupSent /\ EveryRequestAnswered)

\* Even if answers are lost, and with requests left over from earlier frames,
\* a DU never gets more packets for a port and a symbol than it has sent
\* requests for that port: what another DU has asked for does not add to them.
AnswersMatchRequests == \A d \in Dus, port \in Ports, s \in Symbols :
  Cardinality({i \in DOMAIN to_du : LET e == to_du[i] IN
                 /\ e.du = d /\ e.packet.kind = "ul_data"
                 /\ e.packet.port = port /\ e.packet.symbol = s})
    <= Cardinality({q \in Arrived : q.kind \in UlRequests /\ q.du = d /\ q.port = port})

\* The PRACH sections are about the DUs' own parts of the spectrum.  The code
\* breaks it: only the sections of DU next_prach are (line 549).
PrachInOwnBand ==
  \A i \in DOMAIN to_du :
    to_du[i].packet.kind = "prach_data" => to_du[i].packet.centre = to_du[i].du

\* "Copy the data section to the correct location", "Trim the rest of the
\* sections" (lines 277 and 292): a DU that gets PRACH data gets its own section.
\* A Release build breaks it.
PrachDelivered == \A i \in DOMAIN to_du :
  to_du[i].packet.kind \in {"prach_data", "prach_header"} =>
    to_du[i].packet.kind = "prach_data" /\ to_du[i].packet.du = to_du[i].du

\* With the effects of the assert on line 516, a PRACH request asks for a section
\* for each DU, and the answer reaches each DU with the section that is its own.
PrachOfAllDus == scenario.asserts =>
  /\ \A i \in DOMAIN to_ru :
       (\E d \in Dus : to_ru[i][d] # NULL /\ to_ru[i][d].kind = "prach_control")
         => \A d \in Dus : to_ru[i][d] # NULL /\ to_ru[i][d].du = d
  /\ PrachDelivered
=============================================================================
