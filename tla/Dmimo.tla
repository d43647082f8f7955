------------------------------- MODULE Dmimo -------------------------------
(***************************************************************************)
(* The DPDK distributed MIMO middlebox, src/src/dpdk/dmimo/dmimo_dpdk.c.   *)
(* The antenna ports of one distributed unit (DU) are spread over several  *)
(* radio units (RUs): a bitmap per RU says which ports of the DU it        *)
(* serves, and they become its ports 0, 1, ... in that order.  One thread  *)
(* (lcore_main) forwards the DU's packets to the RU that serves their      *)
(* port, and the RUs' packets to the DU.  It also keeps the samples of the *)
(* synchronization signal block (SSB) that the DU sends on port 0, to      *)
(* write them into the packets of the other ports.                         *)
(*                                                                         *)
(* One action handles one packet of a burst.  Packets are forwarded in     *)
(* place; what matters of an mbuf is whether it has been given back.       *)
(***************************************************************************)
EXTENDS Integers, Sequences, FiniteSets

CONSTANTS
  NumRus,             \* config->num_rus
  NUM_ANTENNA_PORTS,
  BURST_SIZE,
  NumBufs,            \* mbufs of each pool
  Bitmaps,            \* the antenna bitmaps an RU may be given: sets of ports
  Kinds,              \* kinds of packets received
  Builds,             \* values of asserts to consider
  TxMayFail,          \* TRUE: rte_eth_tx_burst may take part of a burst only
  Port0First,         \* TRUE: the DU's packet for port 0 is the first one of
                      \* each SSB symbol, and is not lost
  MaxPackets          \* bound: packets received

\* Control or IQ packets to the middlebox, packets of another eCPRI type, and
\* packets with other MAC addresses.
AllKinds == {"control", "iq", "other", "stray"}

ASSUME DmimoAssumption ==
  /\ NumRus \in Nat \ {0} /\ NUM_ANTENNA_PORTS \in Nat \ {0}
  /\ BURST_SIZE \in Nat \ {0} /\ NumBufs \in Nat /\ MaxPackets \in Nat
  /\ Bitmaps \subseteq SUBSET (0 .. NUM_ANTENNA_PORTS - 1)
  /\ Kinds \subseteq AllKinds
  /\ Builds \subseteq BOOLEAN /\ TxMayFail \in BOOLEAN /\ Port0First \in BOOLEAN

Rus == 0 .. NumRus - 1
AntennaPorts == 0 .. NUM_ANTENNA_PORTS - 1

\* Network ports in the order in which they are polled: the DU's, then one
\* per RU.
DuNic == 0
RuNic(r) == r + 1
Nics == 0 .. NumRus

VARIABLES
  asserts,   \* TRUE: a Debug build.  FALSE: a Release build
  bitmap,    \* per RU, ru_port_fwd_bitmap as a set
  \* lcore_main
  nic,       \* the network port polled last
  bufs,      \* the packets of its burst still to be handled
  tx_bufs,   \* mx_tx_bufs, ru_tx_bufs: the packets to be sent
  payload,   \* the SSB samples kept: number of the symbol they were sent for
  alive,     \* FALSE once an assertion has failed
  \* memory and network ports
  in_use,    \* per network port, the mbufs taken from its pool
  rxq,       \* per network port, its RX queue
  \* environment
  num_rx,    \* number of packets received
  ssb,       \* number of SSB symbols so far
  to_ru,     \* history: per RU, the set of packets sent to it
  to_du      \* history: the set of packets sent to the DU

vars == <<asserts, bitmap, nic, bufs, tx_bufs, payload, alive, in_use, rxq, num_rx, ssb,
          to_ru, to_du>>

\* A packet: the antenna port in its header, the SSB symbol it is sent in (0
\* for none), the SSB samples it carries, and where it came from.
Origins == [nic : Nics, port : AntennaPorts]
Packet == [kind : Kinds, port : AntennaPorts, symbol : Nat, samples : Nat, from : Origins]

Init ==
  /\ asserts \in Builds
  /\ bitmap \in [Rus -> Bitmaps]
  /\ nic = NumRus
  /\ bufs = <<>> /\ tx_bufs = <<>>
  /\ payload = 0
  /\ alive = TRUE
  /\ in_use = [n \in Nics |-> 0]
  /\ rxq = [n \in Nics |-> <<>>]
  /\ num_rx = 0 /\ ssb = 0
  /\ to_ru = [r \in Rus |-> {}]
  /\ to_du = {}

-----------------------------------------------------------------------------
(* The forwarding maps built by main.  The operators named ...Mut are      *)
(* deliberate mistakes for the definition that follows them; only the      *)
(* sensitivity checks use them.                                            *)

\* antenna_fwd_map_dl: the number of set bits below the port's own.
antenna_fwd_map_dl(r) == [p \in AntennaPorts |->
  IF p \in bitmap[r] THEN Cardinality({q \in bitmap[r] : q < p}) ELSE -1]

\* antenna_fwd_map_ul: entry i is the i-th set bit.
antenna_fwd_map_ulMut(r) == [i \in AntennaPorts |->
  IF i < Cardinality(bitmap[r]) /\ i \in bitmap[r] THEN i ELSE -1]
antenna_fwd_map_ul(r) == [i \in AntennaPorts |->
  IF i < Cardinality(bitmap[r])
  THEN CHOOSE p \in bitmap[r] : Cardinality({q \in bitmap[r] : q < p}) = i
  ELSE -1]

\* The RU a DL packet goes to: the first whose bitmap has the port.
Serving(p) == {r \in Rus : antenna_fwd_map_dl(r)[p] >= 0}
FirstServing(p) == CHOOSE r \in Serving(p) : \A q \in Serving(p) : r <= q

-----------------------------------------------------------------------------
(* lcore_main                                                              *)

\* Polls the next network port, whether or not the last burst had a packet, or
\* one to be sent.
NextNic == (nic + 1) % (NumRus + 1)
AtMostBurst(seq) == IF Len(seq) < BURST_SIZE THEN Len(seq) ELSE BURST_SIZE
RxBurst ==
  LET m == NextNic
      n == AtMostBurst(rxq[m])
  IN
  /\ alive
  /\ bufs = <<>> /\ tx_bufs = <<>>
  /\ nic' = m
  /\ bufs' = SubSeq(rxq[m], 1, n)
  /\ rxq' = [rxq EXCEPT ![m] = SubSeq(@, n + 1, Len(@))]
  /\ UNCHANGED <<asserts, bitmap, tx_bufs, payload, alive, in_use, num_rx, ssb, to_ru, to_du>>

\* Handles packet p, the next of the burst.
Handles(p) ==
  /\ alive
  /\ bufs # <<>>
  /\ p = Head(bufs)
  /\ bufs' = Tail(bufs)
  /\ UNCHANGED <<asserts, bitmap, nic, alive, rxq, num_rx, ssb, to_ru, to_du>>

\* rte_pktmbuf_free.
FreeBuf == in_use' = [in_use EXCEPT ![nic] = @ - 1]

\* A packet to be sent: the RU or -1 for the DU, and its port there.
ToSend(r, port, p) == [ru |-> r, port |-> port, packet |-> p]

\* A packet with other MAC addresses, or of another type.
Ignore == \E p \in {bufs[i] : i \in DOMAIN bufs} :
  /\ Handles(p)
  /\ p.kind = "stray" \/ (nic = DuNic /\ p.kind = "other")
  /\ FreeBuf
  /\ UNCHANGED <<tx_bufs, payload>>

\* A control packet of the DU.
ForwardControl == \E p \in {bufs[i] : i \in DOMAIN bufs} :
  /\ nic = DuNic
  /\ Handles(p)
  /\ p.kind = "control"
  /\ IF Serving(p.port) # {}
     THEN LET r == FirstServing(p.port)
          IN  /\ tx_bufs' = Append(tx_bufs, ToSend(r, antenna_fwd_map_dl(r)[p.port], p))
              /\ UNCHANGED in_use
     ELSE FreeBuf /\ UNCHANGED tx_bufs
  /\ UNCHANGED payload

\* An IQ packet of the DU.  In an SSB symbol the samples of port 0 are kept,
\* and replace those of the other ports.  A packet for a port that no RU
\* serves is not freed.
WithSsbMut(p) == p
WithSsb(p) == IF p.symbol > 0 /\ p.port # 0 THEN [p EXCEPT !.samples = payload] ELSE p
ForwardIq == \E p \in {bufs[i] : i \in DOMAIN bufs} :
  /\ nic = DuNic
  /\ Handles(p)
  /\ p.kind = "iq"
  /\ payload' = IF p.symbol > 0 /\ p.port = 0 THEN p.samples ELSE payload
  /\ tx_bufs' = IF Serving(p.port) = {} THEN tx_bufs
                ELSE LET r == FirstServing(p.port)
                     IN  Append(tx_bufs, ToSend(r, antenna_fwd_map_dl(r)[p.port], WithSsb(p)))
  /\ UNCHANGED in_use

\* A packet of an RU.
ForwardUplink == \E p \in {bufs[i] : i \in DOMAIN bufs}, r \in Rus :
  /\ nic = RuNic(r)
  /\ Handles(p)
  /\ p.kind # "stray"
  /\ IF antenna_fwd_map_ul(r)[p.port] >= 0
     THEN /\ tx_bufs' = Append(tx_bufs, ToSend(-1, antenna_fwd_map_ul(r)[p.port], p))
          /\ UNCHANGED in_use
     ELSE FreeBuf /\ UNCHANGED tx_bufs
  /\ UNCHANGED payload

\* rte_eth_tx_burst at the end of the burst.  What has been sent, and what a
\* Release build could not send, is given back.
FreedAfterTxMut(nb_tx) == nb_tx + Len(tx_bufs)
FreedAfterTx(nb_tx) == Len(tx_bufs)
TxBurst == \E nb_tx \in 0 .. Len(tx_bufs) :
  LET out == {tx_bufs[i] : i \in 1 .. nb_tx}
  IN
  /\ alive
  /\ bufs = <<>> /\ tx_bufs # <<>>
  /\ TxMayFail \/ nb_tx = Len(tx_bufs)
  /\ to_ru' = [r \in Rus |-> to_ru[r] \cup {e \in out : e.ru = r}]
  /\ to_du' = to_du \cup {e \in out : e.ru = -1}
  /\ in_use' = [in_use EXCEPT ![nic] = @ - FreedAfterTx(nb_tx)]
  /\ tx_bufs' = <<>>
  /\ alive' = (asserts => nb_tx = Len(tx_bufs))
  /\ UNCHANGED <<asserts, bitmap, nic, bufs, payload, rxq, num_rx, ssb>>

lcore_main == RxBurst \/ Ignore \/ ForwardControl \/ ForwardIq \/ ForwardUplink \/ TxBurst

-----------------------------------------------------------------------------
(* The environment: the DU and the RUs                                     *)

\* Network port n receives packet p.
Receive(n, p) ==
  /\ num_rx < MaxPackets
  /\ in_use[n] < NumBufs
  /\ num_rx' = num_rx + 1
  /\ in_use' = [in_use EXCEPT ![n] = @ + 1]
  /\ rxq' = [rxq EXCEPT ![n] = Append(@, p)]
  /\ UNCHANGED <<asserts, bitmap, nic, bufs, tx_bufs, payload, alive, to_ru, to_du>>

NewPacket(n, kind, port, symbol) ==
  [kind |-> kind, port |-> port, symbol |-> symbol,
   samples |-> IF port = 0 THEN symbol ELSE 0, from |-> [nic |-> n, port |-> port]]

\* A packet that has nothing to do with the SSB.
ReceiveAny == \E n \in Nics, kind \in Kinds, port \in AntennaPorts :
  /\ Receive(n, NewPacket(n, kind, port, 0))
  /\ UNCHANGED ssb

\* The DU's first packet for the next SSB symbol, and a further one for the
\* current symbol.
ReceiveNewSsb == \E port \in AntennaPorts :
  /\ "iq" \in Kinds
  /\ Port0First => port = 0
  /\ Receive(DuNic, NewPacket(DuNic, "iq", port, ssb + 1))
  /\ ssb' = ssb + 1
ReceiveSsb == \E port \in AntennaPorts \ {0} :
  /\ "iq" \in Kinds
  /\ ssb > 0
  /\ Receive(DuNic, NewPacket(DuNic, "iq", port, ssb))
  /\ UNCHANGED ssb

Aborted == ~alive /\ UNCHANGED vars

Next == lcore_main \/ ReceiveAny \/ ReceiveNewSsb \/ ReceiveSsb \/ Aborted

Spec == Init /\ [][Next]_vars
-----------------------------------------------------------------------------
(* Properties                                                              *)

Outgoing == [ru : Rus \cup {-1}, port : AntennaPorts, packet : Packet]

TypeOK ==
  /\ asserts \in Builds
  /\ bitmap \in [Rus -> Bitmaps]
  /\ nic \in Nics
  /\ bufs \in Seq(Packet)
  /\ tx_bufs \in Seq(Outgoing)
  /\ payload \in 0 .. ssb
  /\ alive \in BOOLEAN
  /\ in_use \in [Nics -> 0 .. NumBufs]
  /\ rxq \in [Nics -> Seq(Packet)]
  /\ num_rx \in 0 .. MaxPackets /\ ssb \in 0 .. MaxPackets
  /\ to_ru \in [Rus -> SUBSET Outgoing]
  /\ to_du \in SUBSET Outgoing

DownlinkRoundTrip == \A r \in Rus : \A e \in to_ru[r] :
  antenna_fwd_map_ul(r)[e.port] = e.packet.from.port

Disjoint == \A r, q \in Rus : r # q => bitmap[r] \cap bitmap[q] = {}
UplinkRoundTrip == Disjoint => \A e \in to_du :
  LET r == FirstServing(e.port)
  IN  /\ Serving(e.port) # {}
      /\ e.packet.from.nic = RuNic(r)
      /\ antenna_fwd_map_dl(r)[e.port] = e.packet.from.port

\* The two forwarding maps, built by different loops, undo each other.  What
\* goes to an antenna of an RU was sent on the port whose uplink comes from
\* that antenna; and, when no two RUs serve the same port, what comes from an
\* antenna carries the port whose downlink goes to that antenna.
PortsRoundTrip == DownlinkRoundTrip /\ UplinkRoundTrip

\* The mbufs of network port n that the program or its RX queue holds.
Held(n) == Len(rxq[n]) + (IF n = nic THEN Len(bufs) + Len(tx_bufs) ELSE 0)

\* No mbuf of an RU's port is leaked; one of the DU's port is, at most for
\* every packet received, and only if some port is served by no RU.
LeaksOnlyUnserved == alive =>
  /\ \A n \in Nics : in_use[n] >= Held(n)
  /\ \A r \in Rus : in_use[RuNic(r)] = Held(RuNic(r))
  /\ (\A p \in AntennaPorts : Serving(p) # {}) => in_use[DuNic] = Held(DuNic)

\* "Find the correct RU to send the packet to" (line 277): with a packet that
\* has none, as with any other that is not sent, the mbuf is given back.
MbufsConserved == alive => \A n \in Nics : in_use[n] = Held(n)

\* "Send the SSB to all the antennas" (line 258): every antenna sends, in a
\* symbol of the SSB, the samples of that symbol.
SsbOnAllAntennas == \A r \in Rus : \A e \in to_ru[r] :
  e.packet.symbol > 0 => e.packet.samples = e.packet.symbol
=============================================================================
