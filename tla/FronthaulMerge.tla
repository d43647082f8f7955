--------------------------- MODULE FronthaulMerge ---------------------------
(***************************************************************************)
(* What an uplink DAS middlebox promises to the distributed unit (DU),     *)
(* whatever I/O framework it is built on: the DU sees one stream per       *)
(* antenna port, and every packet of that stream is the combination of     *)
(* one packet of each radio unit (RU) for one and the same symbol of the   *)
(* schedule.  No RU packet contributes twice, and the packets an RU sent   *)
(* for a symbol contribute in the order of their radio frames.  Packets    *)
(* may be thrown away, which is all the promise says about loss.           *)
(*                                                                         *)
(* DasUplink (src/src/dpdk/das/das_dpdk.c) and DasXdp                      *)
(* (src/src/xdp/das/das_rx_handler.c) implement this specification, and,   *)
(* with DUs in the place of RUs, so does the downlink of RuSharing         *)
(* (src/src/dpdk/ru_sharing/ru_sharing_dpdk.c).                            *)
(***************************************************************************)
EXTENDS Naturals, Sequences

CONSTANTS
  Rus,       \* radio units whose signals are combined
  Ports,     \* antenna ports (the eAxC id of the eCPRI header)
  Keys,      \* symbols of the schedule: (symbol, subframe, slot)
  Frames     \* radio frame numbers, a set of naturals

VARIABLES
  arrived,   \* every packet the middlebox ever received
  waiting,   \* the received packets that may still be combined
  delivered  \* per port, the combined packets sent to the DU, in order

mvars == <<arrived, waiting, delivered>>

RuPacket == [ru : Rus, port : Ports, key : Keys, frame : Frames]

MergeInit ==
  /\ arrived = {}
  /\ waiting = {}
  /\ delivered = [p \in Ports |-> <<>>]

\* A packet of an RU reaches the middlebox.
Receive(p) ==
  /\ p \notin arrived
  /\ arrived' = arrived \cup {p}
  /\ waiting' = waiting \cup {p}
  /\ UNCHANGED delivered

\* The middlebox gives up some of the packets it holds.
Discard(S) ==
  /\ S # {}
  /\ waiting' = waiting \ S
  /\ UNCHANGED <<arrived, delivered>>

\* A group of one packet per RU, all for one port and one symbol.
IsGroup(g, port, key) ==
  \A r \in Rus : g[r].ru = r /\ g[r].port = port /\ g[r].key = key

\* Every RU's packet in g is from a later frame than its packet in h.
LaterThan(g, h) == \A r \in Rus : g[r].frame > h[r].frame

\* A group is combined and sent; its packets are used up.
Deliver(port, key, g) ==
  /\ IsGroup(g, port, key)
  /\ \A r \in Rus : g[r] \in waiting
  /\ \A i \in DOMAIN delivered[port] :
        IsGroup(delivered[port][i], port, key) => LaterThan(g, delivered[port][i])
  /\ delivered' = [delivered EXCEPT ![port] = Append(@, g)]
  /\ waiting' = waiting \ {g[r] : r \in Rus}
  /\ UNCHANGED arrived

MergeNext ==
  \/ \E p \in RuPacket : Receive(p)
  \/ \E S \in SUBSET waiting : Discard(S)
  \/ \E port \in Ports, key \in Keys : \E g \in [Rus -> waiting] : Deliver(port, key, g)

MergeSpec == MergeInit /\ [][MergeNext]_mvars
=============================================================================
