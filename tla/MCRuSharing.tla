---------------------------- MODULE MCRuSharing ----------------------------
(* Instances of RuSharing for TLC: what the DUs may send in a frame, on    *)
(* antenna port 0 and, for PRACH, port 4.                                  *)
EXTENDS RuSharing

MCMessage(kind, port, symbol, asks) ==
  [kind |-> kind, port |-> port, symbol |-> symbol, asks |-> asks]

\* Downlink data of two symbols; control and data of one.
DownlinkData == {MCMessage("iq", 0, s, {}) : s \in {1, 2}}
DownlinkSlot == {MCMessage("dl_control", 0, 1, {}), MCMessage("iq", 0, 1, {})}

\* A request for uplink data of two symbols, one for PRACH data.
Uplink(asks) == MCMessage("ul_control", 0, 1, asks)
Prach == MCMessage("prach_control", 4, 1, {})

\* Packets that the middlebox does not support.
Unsupported(kind) == MCMessage(kind, 0, 1, {})

Debug(schedule, num_bufs, max_frame, max_missing, max_stray) ==
  [schedule |-> schedule, asserts |-> TRUE, tx_may_fail |-> FALSE, num_bufs |-> num_bufs,
   max_frame |-> max_frame, max_missing |-> max_missing, max_stray |-> max_stray]
Release(schedule, num_bufs, max_frame, max_missing) ==
  [schedule |-> schedule, asserts |-> FALSE, tx_may_fail |-> TRUE, num_bufs |-> num_bufs,
   max_frame |-> max_frame, max_missing |-> max_missing, max_stray |-> 0]

\* Downlink with a missing packet; a stray packet after it; uplink of one and
\* of two symbols, with an answer that is lost; control packets for both that
\* share an entry of the cache; PRACH, in one frame and in two; packets that are
\* not supported; and two kinds of traffic with little memory and a TX queue that
\* may be full.
AllScenarios ==
  {Debug(DownlinkData, 4, 1, 1, 0),
   Debug(DownlinkSlot, 3, 1, 1, 1),
   Debug({Uplink({1})}, 4, 1, 1, 0),
   Debug({Uplink({1, 2})}, 4, 0, 1, 0),
   Debug({Uplink({1}), Prach}, 6, 0, 0, 0),
   Debug({Prach}, 5, 1, 1, 0),
   Debug({MCMessage("dl_control", 0, 1, {}), Uplink({1})}, 3, 0, 1, 0),
   Debug({Unsupported("unsupported"), MCMessage("iq", 0, 1, {})}, 4, 0, 1, 0),
   Debug({Unsupported("unsupported_type"), Unsupported("unsupported_ul")}, 4, 0, 1, 0),
   Release({Uplink({1}), Prach}, 3, 0, 0),
   Release({Uplink({1}), MCMessage("iq", 0, 1, {})}, 3, 0, 0)}

\* One stray packet.
StrayScenario == {Debug(DownlinkSlot, 3, 0, 1, 1)}
=============================================================================
