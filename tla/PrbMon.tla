------------------------------- MODULE PrbMon -------------------------------
(***************************************************************************)
(* The DPDK PRB monitoring middlebox, src/src/dpdk/prb_mon/prb_mon_dpdk.c: *)
(* lcore_main forwards the fronthaul between one DU and one RU and, for    *)
(* one symbol of antenna port 0, adds the number of physical resource      *)
(* blocks (PRBs) in use to a pair of atomic counters; stats_thread_func    *)
(* reads, prints and resets the counters once a second.                    *)
(*                                                                         *)
(* Every atomic operation of either thread is a step of its own.           *)
(***************************************************************************)
EXTENDS Naturals, Sequences, FiniteSets

CONSTANTS
  NUM_PRB,     \* PRBs of the carrier: 273
  BURST_SIZE,  \* packets of one rte_eth_rx_burst
  Packets,     \* per direction, the packets that may arrive
  MaxPackets,  \* bound: packets that arrive
  TxMayFail,   \* TRUE: rte_eth_tx_burst may take only part of a burst
  Builds       \* values of asserts to consider

Dirs == {"dl", "ul"}

\* What lcore_main looks at.  "mine": the MAC addresses are those of the
\* sender and of the middlebox port; num_prbu and the exponent of every PRB
\* are those of the first section.
PacketType ==
  [plane : {"C", "U", "other"}, mine : BOOLEAN, port : Nat, symbol : Nat,
   num_prbu : 0 .. NUM_PRB, exponent : [1 .. NUM_PRB -> Nat]]

ASSUME PrbMonAssumption ==
  /\ NUM_PRB \in Nat \ {0} /\ BURST_SIZE \in Nat \ {0} /\ MaxPackets \in Nat
  /\ \A d \in Dirs : \A p \in Packets[d] : p \in PacketType
  /\ TxMayFail \in BOOLEAN /\ Builds \subseteq BOOLEAN

VARIABLES
  asserts,     \* TRUE: Debug build, a failed assert aborts
  \* shared counters
  total_prbs,  \* total_dl_prbs_used and total_ul_prbs_used
  prbs_count,  \* dl_prbs_count and ul_prbs_count
  \* lcore_main
  phase,       \* the direction it serves and the part of the loop it is in
  burst,       \* the packets received and not yet handled
  tx,          \* mx_tx_bufs / ru_tx_bufs
  counting,    \* the PRBs were added, the count not yet
  alive,       \* FALSE once an assertion has failed
  \* stats_thread_func
  stats_pc, loaded_total, loaded_count,
  \* environment and history
  nic,         \* RX queues
  input,       \* packets that arrived, per direction
  output,      \* packets sent on, per direction
  dropped,     \* number of packets refused by tx_burst, per direction
  samples,     \* monitored packets whose PRBs were added
  reports      \* per direction, sums of all printed totals and counts

counters == <<total_prbs, prbs_count>>
lcoreVars == <<phase, burst, tx, counting, alive, output, dropped, samples>>
statsVars == <<stats_pc, loaded_total, loaded_count, reports>>
envVars == <<asserts, nic, input>>
vars == <<counters, lcoreVars, statsVars, envVars>>

Zero == [d \in Dirs |-> 0]
Empty == [d \in Dirs |-> <<>>]

Init ==
  /\ asserts \in Builds
  /\ total_prbs = Zero /\ prbs_count = Zero
  /\ phase = <<"dl", "rx">> /\ burst = <<>> /\ tx = <<>> /\ counting = FALSE
  /\ alive = TRUE
  /\ stats_pc = "sleep" /\ loaded_total = Zero /\ loaded_count = Zero
  /\ nic = Empty /\ input = Empty /\ output = Empty /\ dropped = Zero
  /\ samples = [d \in Dirs |-> [prbs |-> 0, n |-> 0]]
  /\ reports = [d \in Dirs |-> [prbs |-> 0, n |-> 0]]

-----------------------------------------------------------------------------
(* lcore_main.  Operators named ...Mut are deliberate mistakes for the     *)
(* sensitivity checks.                                                     *)

SELECTED_RU_PORT_ID == 0
MONITORING_SYMBOL == [dl |-> 1, ul |-> 0]

\* Downlink packets are forwarded by message type, uplink ones all.
Forwards(d, p) == p.mine /\ (d = "dl" => p.plane \in {"C", "U"})

Monitors(d, p) ==
  /\ d = "dl" => p.plane = "U"
  /\ p.port = SELECTED_RU_PORT_ID
  /\ p.symbol = MONITORING_SYMBOL[d]

\* The PRBs of the packet whose compression exponent is not zero; a PRB
\* count of zero stands for the whole carrier.
UsedPrbs(p) ==
  LET num_prbs == IF p.num_prbu = 0 THEN NUM_PRB ELSE p.num_prbu
  IN  Cardinality({rb \in 1 .. num_prbs : p.exponent[rb] > 0})

Other(d) == IF d = "dl" THEN "ul" ELSE "dl"

RxBurst(d) ==
  LET n == IF Len(nic[d]) < BURST_SIZE THEN Len(nic[d]) ELSE BURST_SIZE
  IN
  /\ alive
  /\ phase = <<d, "rx">>
  /\ burst' = SubSeq(nic[d], 1, n)
  /\ nic' = [nic EXCEPT ![d] = SubSeq(@, n + 1, Len(@))]
  /\ phase' = <<d, "handle">>
  /\ UNCHANGED <<counters, tx, counting, alive, output, dropped, samples, statsVars, asserts, input>>

\* A packet that is not of the fronthaul is freed; one that is not monitored
\* goes straight to the TX array.
PassPacket(d) ==
  /\ alive
  /\ phase = <<d, "handle">> /\ burst # <<>>
  /\ ~(Forwards(d, Head(burst)) /\ Monitors(d, Head(burst)))
  /\ tx' = IF Forwards(d, Head(burst)) THEN Append(tx, Head(burst)) ELSE tx
  /\ burst' = Tail(burst)
  /\ UNCHANGED <<counters, phase, counting, alive, output, dropped, samples,
                 statsVars, envVars>>

\* atomic_fetch_add of the PRBs in use.
AddPrbs(d) ==
  /\ alive
  /\ phase = <<d, "handle">> /\ burst # <<>>
  /\ Forwards(d, Head(burst)) /\ Monitors(d, Head(burst))
  /\ ~counting
  /\ counting' = TRUE
  /\ total_prbs' = [total_prbs EXCEPT ![d] = @ + UsedPrbs(Head(burst))]
  /\ samples' = [samples EXCEPT ![d].prbs = @ + UsedPrbs(Head(burst)), ![d].n = @ + 1]
  /\ UNCHANGED <<prbs_count, phase, burst, tx, alive, output, dropped, statsVars, envVars>>

\* atomic_fetch_add of one to the count, after which the packet is forwarded.
AddCountMut(d) ==
  /\ alive
  /\ counting
  /\ phase[1] = d
  /\ counting' = FALSE
  /\ prbs_count' = [prbs_count EXCEPT ![d] = @ + 1]
  /\ burst' = Tail(burst)
  /\ UNCHANGED <<total_prbs, phase, tx, alive, output, dropped, samples, statsVars, envVars>>
AddCount(d) ==
  /\ alive
  /\ counting
  /\ phase[1] = d
  /\ counting' = FALSE
  /\ prbs_count' = [prbs_count EXCEPT ![d] = @ + 1]
  /\ tx' = Append(tx, Head(burst))
  /\ burst' = Tail(burst)
  /\ UNCHANGED <<total_prbs, phase, alive, output, dropped, samples, statsVars, envVars>>

\* The TX array starts empty in every turn of the loop.
AfterTx == <<>>

\* rte_eth_tx_burst takes a prefix of the array, the rest is freed.
TxBurst(d) == \E nb_tx \in (IF TxMayFail THEN 0 .. Len(tx) ELSE {Len(tx)}) :
  /\ alive
  /\ phase = <<d, "handle">> /\ burst = <<>>
  /\ output' = [output EXCEPT ![d] = @ \o SubSeq(tx, 1, nb_tx)]
  /\ dropped' = [dropped EXCEPT ![d] = @ + (Len(tx) - nb_tx)]
  /\ tx' = AfterTx
  /\ alive' = (asserts => nb_tx = Len(tx))
  /\ phase' = <<Other(d), "rx">>
  /\ UNCHANGED <<counters, burst, counting, samples, statsVars, envVars>>

Lcore == \E d \in Dirs :
  RxBurst(d) \/ PassPacket(d) \/ AddPrbs(d) \/ AddCount(d) \/ TxBurst(d)

-----------------------------------------------------------------------------
(* stats_thread_func                                                       *)

\* The program counter names the atomic operation that comes next.  The
\* counters of a direction are reset only if its count was not zero.
AfterLoadsMut == IF loaded_count["dl"] > 1 THEN "reset_dl_total"
                 ELSE IF loaded_count'["ul"] > 1 THEN "reset_ul_total" ELSE "sleep"
AfterLoads == IF loaded_count["dl"] > 0 THEN "reset_dl_total"
              ELSE IF loaded_count'["ul"] > 0 THEN "reset_ul_total" ELSE "sleep"
AfterDl == IF loaded_count["ul"] > 0 THEN "reset_ul_total" ELSE "sleep"

Wake ==
  /\ alive
  /\ stats_pc = "sleep"
  /\ stats_pc' = "load_dl_total"
  /\ UNCHANGED <<counters, lcoreVars, loaded_total, loaded_count, reports, envVars>>

LoadTotal(d) ==
  /\ alive
  /\ stats_pc = (IF d = "dl" THEN "load_dl_total" ELSE "load_ul_total")
  /\ loaded_total' = [loaded_total EXCEPT ![d] = total_prbs[d]]
  /\ stats_pc' = (IF d = "dl" THEN "load_dl_count" ELSE "load_ul_count")
  /\ UNCHANGED <<counters, lcoreVars, loaded_count, reports, envVars>>

LoadCount(d) ==
  /\ alive
  /\ stats_pc = (IF d = "dl" THEN "load_dl_count" ELSE "load_ul_count")
  /\ loaded_count' = [loaded_count EXCEPT ![d] = prbs_count[d]]
  /\ stats_pc' = (IF d = "dl" THEN "load_ul_total" ELSE AfterLoads)
  /\ UNCHANGED <<counters, lcoreVars, loaded_total, reports, envVars>>

\* The average is printed (that of the uplink only computed) and the total set
\* to zero.
ResetTotalMut(d) ==
  /\ alive
  /\ stats_pc = (IF d = "dl" THEN "reset_dl_total" ELSE "reset_ul_total")
  /\ reports' = [reports EXCEPT ![d] =
       [prbs |-> @.prbs + loaded_total[d], n |-> @.n + loaded_count[d]]]
  /\ stats_pc' = (IF d = "dl" THEN "reset_dl_count" ELSE "reset_ul_count")
  /\ UNCHANGED <<total_prbs, prbs_count, lcoreVars, loaded_total, loaded_count, envVars>>
ResetTotal(d) ==
  /\ alive
  /\ stats_pc = (IF d = "dl" THEN "reset_dl_total" ELSE "reset_ul_total")
  /\ reports' = [reports EXCEPT ![d] =
       [prbs |-> @.prbs + loaded_total[d], n |-> @.n + loaded_count[d]]]
  /\ total_prbs' = [total_prbs EXCEPT ![d] = 0]
  /\ stats_pc' = (IF d = "dl" THEN "reset_dl_count" ELSE "reset_ul_count")
  /\ UNCHANGED <<prbs_count, lcoreVars, loaded_total, loaded_count, envVars>>

ResetCount(d) ==
  /\ alive
  /\ stats_pc = (IF d = "dl" THEN "reset_dl_count" ELSE "reset_ul_count")
  /\ prbs_count' = [prbs_count EXCEPT ![d] = 0]
  /\ stats_pc' = (IF d = "dl" THEN AfterDl ELSE "sleep")
  /\ UNCHANGED <<total_prbs, lcoreVars, loaded_total, loaded_count, reports, envVars>>

Stats == Wake \/ \E d \in Dirs :
  LoadTotal(d) \/ LoadCount(d) \/ ResetTotal(d) \/ ResetCount(d)

-----------------------------------------------------------------------------

Arrive(d) == \E p \in Packets[d] :
  /\ Len(input["dl"]) + Len(input["ul"]) < MaxPackets
  /\ input' = [input EXCEPT ![d] = Append(@, p)]
  /\ nic' = [nic EXCEPT ![d] = Append(@, p)]
  /\ UNCHANGED <<counters, lcoreVars, statsVars, asserts>>

Aborted == ~alive /\ UNCHANGED vars

Next == Lcore \/ Stats \/ (\E d \in Dirs : Arrive(d)) \/ Aborted

Spec == Init /\ [][Next]_vars

\* lcore_main never blocks, and sleep(1) always ends.
FairSpec == Spec /\ WF_vars(Lcore) /\ WF_vars(Stats)

-----------------------------------------------------------------------------
(* Properties                                                              *)

Counter == [prbs : Nat, n : Nat]

TypeOK ==
  /\ asserts \in Builds
  /\ total_prbs \in [Dirs -> Nat] /\ prbs_count \in [Dirs -> Nat]
  /\ phase \in Dirs \X {"rx", "handle"}
  /\ counting \in BOOLEAN /\ alive \in BOOLEAN
  /\ \A i \in DOMAIN burst : burst[i] \in Packets[phase[1]]
  /\ \A i \in DOMAIN tx : tx[i] \in Packets[phase[1]]
  /\ Len(burst) + Len(tx) <= BURST_SIZE
  /\ loaded_total \in [Dirs -> Nat] /\ loaded_count \in [Dirs -> Nat]
  /\ samples \in [Dirs -> Counter] /\ reports \in [Dirs -> Counter]
  /\ dropped \in [Dirs -> Nat]

\* No sample is reported twice: over all reports, the printed totals and
\* counts never exceed what was measured, although the counters are read and
\* reset without a lock.
NothingCountedTwice == \A d \in Dirs :
  /\ reports[d].prbs <= samples[d].prbs
  /\ reports[d].n <= samples[d].n

\* Monitoring is transparent: every packet of the fronthaul that arrived leaves,
\* waits or was refused by tx_burst, and so long as none was refused the k-th
\* packet that leaves in a direction is the k-th of those that arrived.
ToForward(d, seq) == {i \in DOMAIN seq : Forwards(d, seq[i])}
Kth(I, i) == Cardinality({j \in I : j <= i})
InFlight(d) == IF phase[1] = d THEN Cardinality(ToForward(d, burst)) + Len(tx) ELSE 0
Waiting(d) == Cardinality(ToForward(d, nic[d]))
Transparent == \A d \in Dirs :
  LET received == ToForward(d, input[d])
  IN  /\ Len(output[d]) + dropped[d] + InFlight(d) + Waiting(d) = Cardinality(received)
      /\ dropped[d] = 0 => \A k \in DOMAIN output[d] : \E i \in received :
           Kth(received, i) = k /\ output[d][k] = input[d][i]

\* A sample that was counted is reported or wiped out by a reset; it does not
\* stay in the counters for ever.
EverySampleLeaves == \A d \in Dirs : prbs_count[d] > 0 ~> (prbs_count[d] = 0 \/ ~alive)

\* "Average DL PRBs used": what is printed is the average of some packets, so
\* never more than a packet has.
AverageWithinCarrier == \A d \in Dirs :
  stats_pc = (IF d = "dl" THEN "reset_dl_total" ELSE "reset_ul_total")
    => loaded_total[d] <= NUM_PRB * loaded_count[d]
=============================================================================
