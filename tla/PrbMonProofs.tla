---------------------------- MODULE PrbMonProofs ----------------------------
(***************************************************************************)
(* Proofs about the PRB monitor (PrbMon), for any carrier, burst size,     *)
(* traffic and build: no sample is reported twice, although the two        *)
(* threads share the counters without a lock, and what is forwarded is     *)
(* what arrived, in its order.                                             *)
(***************************************************************************)
EXTENDS PrbMon, FiniteSetTheorems, FunctionTheorems, TLAPS

\* What the argument needs of types, and where the forwarding thread is while
\* it counts a packet.
CounterTypes ==
  /\ total_prbs \in [Dirs -> Nat] /\ prbs_count \in [Dirs -> Nat]
  /\ loaded_total \in [Dirs -> Nat] /\ loaded_count \in [Dirs -> Nat]
  /\ samples \in [Dirs -> Counter] /\ reports \in [Dirs -> Counter]
PacketTypes ==
  /\ nic \in [Dirs -> Seq(PacketType)] /\ burst \in Seq(PacketType)
PcTypes ==
  /\ phase \in Dirs \X {"rx", "handle"} /\ counting \in BOOLEAN
  /\ counting => /\ phase[2] = "handle" /\ burst # <<>>
                 /\ Forwards(phase[1], Head(burst)) /\ Monitors(phase[1], Head(burst))
  /\ stats_pc \in {"sleep", "load_dl_total", "load_dl_count", "load_ul_total", "load_ul_count",
                   "reset_dl_total", "reset_dl_count", "reset_ul_total", "reset_ul_count"}

\* From its load to its reset, a counter can only grow.
TotalLoaded(d) == stats_pc \in
  IF d = "dl" THEN {"load_dl_count", "load_ul_total", "load_ul_count", "reset_dl_total"}
  ELSE {"load_ul_count", "reset_dl_total", "reset_dl_count", "reset_ul_total"}
CountLoaded(d) == stats_pc \in
  IF d = "dl" THEN {"load_ul_total", "load_ul_count", "reset_dl_total", "reset_dl_count"}
  ELSE {"reset_dl_total", "reset_dl_count", "reset_ul_total", "reset_ul_count"}

\* A report is made when the total is reset; the count it contains stays in the
\* counter until the next step.
Reported(d) == IF stats_pc = (IF d = "dl" THEN "reset_dl_count" ELSE "reset_ul_count")
               THEN loaded_count[d] ELSE 0
\* The PRBs of a packet were added, the count not yet.
Due(d) == IF counting /\ phase[1] = d THEN 1 ELSE 0

Balance(d) ==
  /\ TotalLoaded(d) => loaded_total[d] <= total_prbs[d]
  /\ CountLoaded(d) => loaded_count[d] <= prbs_count[d]
  /\ reports[d].prbs + total_prbs[d] <= samples[d].prbs
  /\ reports[d].n + prbs_count[d] + Due(d) <= samples[d].n + Reported(d)

CountersInv == CounterTypes /\ PacketTypes /\ PcTypes /\ \A d \in Dirs : Balance(d)

-----------------------------------------------------------------------------
(* Packets                                                                 *)

LEMMA UsedPrbsIsNat ==
  ASSUME NEW p \in PacketType
  PROVE  UsedPrbs(p) \in Nat
<1> DEFINE num_prbs == IF p.num_prbu = 0 THEN NUM_PRB ELSE p.num_prbu
           used == {rb \in 1 .. num_prbs : p.exponent[rb] > 0}
<1>1. num_prbs \in Nat
  BY PrbMonAssumption DEF PacketType
<1>2. IsFiniteSet(1 .. num_prbs)
  BY <1>1, FS_Interval
<1>3. IsFiniteSet(used)
  BY <1>2, FS_Subset
<1>4. Cardinality(used) \in Nat
  BY <1>3, FS_CardinalityType
<1> QED BY <1>4 DEF UsedPrbs

LEMMA Parts ==
  ASSUME NEW S, NEW q \in Seq(S), NEW n \in 0 .. Len(q)
  PROVE  SubSeq(q, 1, n) \in Seq(S) /\ SubSeq(q, n + 1, Len(q)) \in Seq(S)
OBVIOUS

-----------------------------------------------------------------------------
(* lcore_main: the forwarding thread                                       *)

\* Moving packets leaves the counters alone.
LEMMA MoveInv ==
  ASSUME CountersInv, NEW d \in Dirs, RxBurst(d) \/ PassPacket(d) \/ TxBurst(d) \/ Arrive(d)
  PROVE  CountersInv'
<1>1. /\ UNCHANGED <<total_prbs, prbs_count, stats_pc, loaded_total, loaded_count, reports,
                     samples, counting>>
      /\ phase' = phase \/ ~counting
  <2>1. UNCHANGED <<total_prbs, prbs_count, stats_pc, loaded_total, loaded_count, reports,
                    samples, counting>>
    BY DEF RxBurst, PassPacket, TxBurst, Arrive, counters, statsVars, envVars, lcoreVars
  <2>2. CASE RxBurst(d)
    <3>1. phase[2] = "rx"
      BY <2>2 DEF RxBurst
    <3> QED BY <2>1, <3>1 DEF CountersInv, PcTypes
  <2>3. CASE TxBurst(d)
    <3>1. burst = <<>>
      BY <2>3 DEF TxBurst
    <3> QED BY <2>1, <3>1 DEF CountersInv, PcTypes
  <2>4. CASE PassPacket(d) \/ Arrive(d)
    <3>1. phase' = phase
      BY <2>4 DEF PassPacket, Arrive, lcoreVars
    <3> QED BY <2>1, <3>1
  <2> QED BY <2>2, <2>3, <2>4
<1>2. CounterTypes' /\ \A e \in Dirs : Balance(e)'
  <2>1. \A e \in Dirs : Due(e)' = Due(e)
    BY <1>1 DEF Due
  <2> QED BY <1>1, <2>1 DEF CountersInv, CounterTypes, Balance, TotalLoaded, CountLoaded, Reported
<1>3. CASE RxBurst(d)
  <2> DEFINE n == IF Len(nic[d]) < BURST_SIZE THEN Len(nic[d]) ELSE BURST_SIZE
  <2>1. nic[d] \in Seq(PacketType) /\ n \in 0 .. Len(nic[d])
    BY PrbMonAssumption DEF CountersInv, PacketTypes
  <2>2. /\ phase = <<d, "rx">> /\ phase' = <<d, "handle">>
        /\ burst' = SubSeq(nic[d], 1, n)
        /\ nic' = [nic EXCEPT ![d] = SubSeq(nic[d], n + 1, Len(nic[d]))]
    BY <1>3 DEF RxBurst
  <2> HIDE DEF n
  <2>3. PacketTypes'
    BY <2>1, <2>2, Parts DEF CountersInv, PacketTypes
  <2>4. PcTypes'
    BY <1>1, <2>2 DEF CountersInv, PcTypes
  <2> QED BY <1>2, <2>3, <2>4 DEF CountersInv
<1>4. CASE PassPacket(d)
  <2>1. ~counting
    BY <1>4 DEF PassPacket, CountersInv, PcTypes
  <2>2. burst' = Tail(burst) /\ burst # <<>> /\ phase' = phase /\ nic' = nic
    BY <1>4 DEF PassPacket, envVars
  <2> QED BY <1>1, <1>2, <2>1, <2>2 DEF CountersInv, PacketTypes, PcTypes
<1>5. CASE TxBurst(d)
  <2>1. phase' = <<Other(d), "rx">> /\ burst = <<>> /\ burst' = burst /\ nic' = nic
    BY <1>5 DEF TxBurst, envVars
  <2>2. Other(d) \in Dirs
    BY DEF Other, Dirs
  <2> QED BY <1>1, <1>2, <2>1, <2>2 DEF CountersInv, PacketTypes, PcTypes
<1>6. CASE Arrive(d)
  <2>1. PICK p \in Packets[d] : nic' = [nic EXCEPT ![d] = Append(nic[d], p)]
    BY <1>6 DEF Arrive
  <2>2. p \in PacketType /\ burst' = burst /\ phase' = phase
    BY <1>6, PrbMonAssumption DEF Arrive, lcoreVars
  <2> QED BY <1>1, <1>2, <2>1, <2>2 DEF CountersInv, PacketTypes, PcTypes
<1> QED BY <1>3, <1>4, <1>5, <1>6

\* A sample is in the history before it is in a counter.
LEMMA AddInv ==
  ASSUME CountersInv, NEW d \in Dirs, AddPrbs(d) \/ AddCount(d)
  PROVE  CountersInv'
<1>1. CASE AddPrbs(d)
  <2> DEFINE u == UsedPrbs(Head(burst))
  <2>1. Head(burst) \in PacketType /\ burst # <<>>
    BY <1>1 DEF AddPrbs, CountersInv, PacketTypes
  <2>2. u \in Nat
    BY <2>1, UsedPrbsIsNat
  <2>3. /\ total_prbs' = [total_prbs EXCEPT ![d] = total_prbs[d] + u]
        /\ samples' = [samples EXCEPT ![d].prbs = @ + u, ![d].n = @ + 1]
        /\ ~counting /\ counting' /\ phase = <<d, "handle">>
        /\ Forwards(d, Head(burst)) /\ Monitors(d, Head(burst))
        /\ UNCHANGED <<prbs_count, phase, burst, nic, stats_pc, loaded_total, loaded_count, reports>>
    BY <1>1 DEF AddPrbs, statsVars, envVars
  <2> HIDE DEF u
  <2>4. samples[d].prbs \in Nat /\ samples[d].n \in Nat /\ samples \in [Dirs -> Counter]
    BY DEF CountersInv, CounterTypes, Counter
  <2>5. samples'[d].prbs = samples[d].prbs + u /\ samples'[d].n = samples[d].n + 1
    BY <2>3, <2>4 DEF Counter
  <2>6. samples' \in [Dirs -> Counter] /\ \A e \in Dirs \ {d} : samples'[e] = samples[e]
    BY <2>2, <2>3, <2>4 DEF Counter
  <2>7. CounterTypes'
    BY <2>2, <2>3, <2>6 DEF CountersInv, CounterTypes
  <2>8. Balance(d)'
    BY <2>2, <2>3, <2>5, <2>4
       DEF CountersInv, CounterTypes, Counter, Balance, TotalLoaded, CountLoaded, Reported, Due
  <2>9. \A e \in Dirs \ {d} : Balance(e)'
    BY <2>3, <2>6 DEF CountersInv, CounterTypes, Balance, TotalLoaded, CountLoaded, Reported, Due
  <2>10. PacketTypes' /\ PcTypes'
    BY <2>1, <2>3 DEF CountersInv, PacketTypes, PcTypes
  <2> QED BY <2>7, <2>8, <2>9, <2>10 DEF CountersInv
<1>2. CASE AddCount(d)
  <2>1. /\ prbs_count' = [prbs_count EXCEPT ![d] = prbs_count[d] + 1]
        /\ counting /\ counting' = FALSE /\ phase[1] = d /\ burst' = Tail(burst)
        /\ UNCHANGED <<total_prbs, samples, phase, nic, stats_pc, loaded_total, loaded_count, reports>>
    BY <1>2 DEF AddCount, statsVars, envVars
  <2>2. burst # <<>>
    BY <2>1 DEF CountersInv, PcTypes
  <2>3. CounterTypes' /\ PacketTypes' /\ PcTypes'
    <3>1. CounterTypes'
      BY <2>1 DEF CountersInv, CounterTypes
    <3>2. PacketTypes'
      BY <2>1, <2>2 DEF CountersInv, PacketTypes
    <3>3. PcTypes'
      BY <2>1 DEF CountersInv, PcTypes
    <3> QED BY <3>1, <3>2, <3>3
  <2>4. Balance(d)'
    BY <2>1 DEF CountersInv, CounterTypes, Counter, Balance, TotalLoaded, CountLoaded, Reported, Due
  <2>5. \A e \in Dirs \ {d} : Balance(e)'
    BY <2>1 DEF CountersInv, CounterTypes, Balance, TotalLoaded, CountLoaded, Reported, Due
  <2> QED BY <2>3, <2>4, <2>5 DEF CountersInv
<1> QED BY <1>1, <1>2

-----------------------------------------------------------------------------
(* stats_thread_func                                                       *)

\* What the thread's steps leave alone.
LEMMA StatsFrame ==
  ASSUME CountersInv, Stats
  PROVE  /\ UNCHANGED <<samples, phase, counting, burst, nic>>
         /\ PacketTypes'
         /\ \A e \in Dirs : Due(e)' = Due(e)
<1>1. UNCHANGED <<samples, phase, counting, burst, nic>>
  BY DEF Stats, Wake, LoadTotal, LoadCount, ResetTotal, ResetCount, lcoreVars, envVars
<1> QED BY <1>1 DEF CountersInv, PacketTypes, Due

\* Waking and loading change no counter and no report.
LEMMA LoadInv ==
  ASSUME CountersInv, Wake \/ \E d \in Dirs : LoadTotal(d) \/ LoadCount(d)
  PROVE  CountersInv'
<1>0. /\ UNCHANGED <<samples, phase, counting, burst, nic>> /\ PacketTypes'
      /\ \A e \in Dirs : Due(e)' = Due(e)
  BY StatsFrame DEF Stats
<1>2. UNCHANGED <<total_prbs, prbs_count, reports>>
  BY DEF Wake, LoadTotal, LoadCount, counters
<1>3. CASE Wake
  <2>1. stats_pc = "sleep" /\ stats_pc' = "load_dl_total" /\ UNCHANGED <<loaded_total, loaded_count>>
    BY <1>3 DEF Wake
  <2>2. CounterTypes' /\ PcTypes'
    BY <1>0, <1>2, <2>1 DEF CountersInv, CounterTypes, PcTypes
  <2>3. \A e \in Dirs : Balance(e)'
    BY <1>0, <1>2, <2>1
       DEF CountersInv, CounterTypes, Balance, TotalLoaded, CountLoaded, Reported
  <2> QED BY <1>0, <2>2, <2>3 DEF CountersInv
<1>4. ASSUME NEW d \in Dirs, LoadTotal(d)
      PROVE  CountersInv'
  <2>1. /\ stats_pc = (IF d = "dl" THEN "load_dl_total" ELSE "load_ul_total")
        /\ stats_pc' = (IF d = "dl" THEN "load_dl_count" ELSE "load_ul_count")
        /\ loaded_total' = [loaded_total EXCEPT ![d] = total_prbs[d]] /\ loaded_count' = loaded_count
    BY <1>4 DEF LoadTotal
  <2>2. CounterTypes' /\ PcTypes'
    BY <1>0, <1>2, <2>1 DEF CountersInv, CounterTypes, PcTypes
  <2>3. \A e \in Dirs : Balance(e)'
    BY <1>0, <1>2, <2>1
       DEF CountersInv, CounterTypes, Balance, TotalLoaded, CountLoaded, Reported, Dirs
  <2> QED BY <1>0, <2>2, <2>3 DEF CountersInv
<1>5. ASSUME NEW d \in Dirs, LoadCount(d)
      PROVE  CountersInv'
  <2>1. /\ stats_pc = (IF d = "dl" THEN "load_dl_count" ELSE "load_ul_count")
        /\ stats_pc' = (IF d = "dl" THEN "load_ul_total" ELSE AfterLoads)
        /\ loaded_count' = [loaded_count EXCEPT ![d] = prbs_count[d]] /\ loaded_total' = loaded_total
    BY <1>5 DEF LoadCount
  <2>2. AfterLoads \in {"reset_dl_total", "reset_ul_total", "sleep"}
    BY DEF AfterLoads
  <2>3. CounterTypes' /\ PcTypes'
    BY <1>0, <1>2, <2>1, <2>2 DEF CountersInv, CounterTypes, PcTypes
  <2>4. \A e \in Dirs : Balance(e)'
    BY <1>0, <1>2, <2>1, <2>2
       DEF CountersInv, CounterTypes, Balance, TotalLoaded, CountLoaded, Reported, Dirs
  <2> QED BY <1>0, <2>3, <2>4 DEF CountersInv
<1> QED BY <1>3, <1>4, <1>5

\* What is reported leaves the counters: the total at once, the count with the
\* next step.
LEMMA ResetInv ==
  ASSUME CountersInv, NEW d \in Dirs, ResetTotal(d) \/ ResetCount(d)
  PROVE  CountersInv'
<1>0. /\ UNCHANGED <<samples, phase, counting, burst, nic>> /\ PacketTypes'
      /\ \A e \in Dirs : Due(e)' = Due(e)
  BY StatsFrame DEF Stats
<1>2. CASE ResetTotal(d)
  <2>1. /\ stats_pc = (IF d = "dl" THEN "reset_dl_total" ELSE "reset_ul_total")
        /\ stats_pc' = (IF d = "dl" THEN "reset_dl_count" ELSE "reset_ul_count")
        /\ reports' = [reports EXCEPT ![d] =
             [prbs |-> @.prbs + loaded_total[d], n |-> @.n + loaded_count[d]]]
        /\ total_prbs' = [total_prbs EXCEPT ![d] = 0]
        /\ UNCHANGED <<prbs_count, loaded_total, loaded_count>>
    BY <1>2 DEF ResetTotal
  <2>2. /\ reports \in [Dirs -> Counter] /\ reports[d].prbs \in Nat /\ reports[d].n \in Nat
        /\ loaded_total[d] \in Nat /\ loaded_count[d] \in Nat
    BY DEF CountersInv, CounterTypes, Counter
  <2>3. /\ reports' \in [Dirs -> Counter] /\ \A e \in Dirs \ {d} : reports'[e] = reports[e]
        /\ reports'[d].prbs = reports[d].prbs + loaded_total[d]
        /\ reports'[d].n = reports[d].n + loaded_count[d]
    BY <2>1, <2>2 DEF Counter
  <2>4. CounterTypes' /\ PcTypes'
    BY <1>0, <2>1, <2>3 DEF CountersInv, CounterTypes, PcTypes
  <2>5. Balance(d)'
    BY <1>0, <2>1, <2>2, <2>3
       DEF CountersInv, CounterTypes, Counter, Balance, TotalLoaded, CountLoaded, Reported, Due, Dirs
  <2>6. \A e \in Dirs \ {d} : Balance(e)'
    BY <1>0, <2>1, <2>3
       DEF CountersInv, CounterTypes, Balance, TotalLoaded, CountLoaded, Reported, Dirs
  <2> QED BY <1>0, <2>4, <2>5, <2>6 DEF CountersInv
<1>3. CASE ResetCount(d)
  <2>1. /\ stats_pc = (IF d = "dl" THEN "reset_dl_count" ELSE "reset_ul_count")
        /\ stats_pc' = (IF d = "dl" THEN AfterDl ELSE "sleep")
        /\ prbs_count' = [prbs_count EXCEPT ![d] = 0]
        /\ UNCHANGED <<total_prbs, loaded_total, loaded_count, reports>>
    BY <1>3 DEF ResetCount
  <2>2. AfterDl \in {"reset_ul_total", "sleep"}
    BY DEF AfterDl
  <2>3. CounterTypes' /\ PcTypes'
    BY <1>0, <2>1, <2>2 DEF CountersInv, CounterTypes, PcTypes
  <2>4. Balance(d)'
    BY <1>0, <2>1, <2>2
       DEF CountersInv, CounterTypes, Counter, Balance, TotalLoaded, CountLoaded, Reported, Due, Dirs
  <2>5. \A e \in Dirs \ {d} : Balance(e)'
    BY <1>0, <2>1, <2>2
       DEF CountersInv, CounterTypes, Balance, TotalLoaded, CountLoaded, Reported, Dirs
  <2> QED BY <1>0, <2>3, <2>4, <2>5 DEF CountersInv
<1> QED BY <1>2, <1>3

-----------------------------------------------------------------------------

LEMMA CountersInit == Init => CountersInv
<1> SUFFICES ASSUME Init PROVE CountersInv
  OBVIOUS
<1>1. CounterTypes
  BY DEF Init, CounterTypes, Zero, Counter
<1>2. PacketTypes
  BY DEF Init, PacketTypes, Empty
<1>3. PcTypes
  BY DEF Init, PcTypes, Dirs
<1>4. \A d \in Dirs : Balance(d)
  BY DEF Init, Balance, TotalLoaded, CountLoaded, Reported, Due, Zero
<1> QED BY <1>1, <1>2, <1>3, <1>4 DEF CountersInv

LEMMA CountersStep == CountersInv /\ [Next]_vars => CountersInv'
<1> SUFFICES ASSUME CountersInv, [Next]_vars PROVE CountersInv'
  OBVIOUS
<1>1. CASE Lcore
  BY <1>1, MoveInv, AddInv DEF Lcore
<1>2. CASE Stats
  BY <1>2, LoadInv, ResetInv DEF Stats
<1>3. CASE \E d \in Dirs : Arrive(d)
  BY <1>3, MoveInv
<1>4. CASE UNCHANGED vars
  BY <1>4 DEF CountersInv, CounterTypes, PacketTypes, PcTypes, Balance, TotalLoaded, CountLoaded,
              Reported, Due, vars, counters, lcoreVars, statsVars, envVars
<1> QED BY <1>1, <1>2, <1>3, <1>4 DEF Next, Aborted

\* No sample is reported twice: over all reports, the totals and the counts that
\* stats_thread_func prints never exceed what lcore_main measured, in whatever
\* order the atomic operations of the two threads happen.
THEOREM ReportedOnce == Spec => []NothingCountedTwice
<1>1. CountersInv => NothingCountedTwice
  <2> SUFFICES ASSUME CountersInv, NEW d \in Dirs
               PROVE  reports[d].prbs <= samples[d].prbs /\ reports[d].n <= samples[d].n
    BY DEF NothingCountedTwice
  <2>1. /\ reports[d].prbs \in Nat /\ reports[d].n \in Nat /\ samples[d].prbs \in Nat
        /\ samples[d].n \in Nat /\ total_prbs[d] \in Nat /\ prbs_count[d] \in Nat
        /\ loaded_count[d] \in Nat
    BY DEF CountersInv, CounterTypes, Counter
  <2>2. Due(d) \in 0 .. 1
    BY DEF Due
  <2>3. Reported(d) <= prbs_count[d]
    BY <2>1 DEF CountersInv, Balance, CountLoaded, Reported, Dirs
  <2> QED BY <2>1, <2>2, <2>3 DEF CountersInv, Balance, Reported
<1> QED BY <1>1, CountersInit, CountersStep, PTL DEF Spec


-----------------------------------------------------------------------------
(* Monitoring is transparent                                               *)

\* A direction's packets are handled in the order of their arrival: those
\* handled, those in the burst, those in the RX queue.
InBurst(d) == IF phase[1] = d THEN burst ELSE <<>>
InTx(d) == IF phase[1] = d THEN tx ELSE <<>>
Handled(d) == Len(input[d]) - (Len(InBurst(d)) + Len(nic[d]))
Done(d) == {i \in ToForward(d, input[d]) : i <= Handled(d)}
Sent(d) == output[d] \o InTx(d)

ForwardTypes ==
  /\ input \in [Dirs -> Seq(PacketType)] /\ output \in [Dirs -> Seq(PacketType)]
  /\ tx \in Seq(PacketType) /\ dropped \in [Dirs -> Nat]
  /\ phase[2] = "rx" => burst = <<>> /\ tx = <<>>
InOrder(d) ==
  /\ Handled(d) \in Nat
  /\ \A i \in 1 .. Len(InBurst(d)) : InBurst(d)[i] = input[d][Handled(d) + i]
  /\ \A i \in 1 .. Len(nic[d]) : nic[d][i] = input[d][Handled(d) + (Len(InBurst(d)) + i)]
\* What was handled and is of the fronthaul has left, was refused, or is in the
\* TX array, in its order so long as nothing was refused.
HandledSent(d) ==
  /\ Len(Sent(d)) + dropped[d] = Cardinality(Done(d))
  /\ dropped[d] = 0 => \A k \in 1 .. Len(Sent(d)) : \E i \in Done(d) :
       Kth(ToForward(d, input[d]), i) = k /\ Sent(d)[k] = input[d][i]
ForwardInv == ForwardTypes /\ \A d \in Dirs : InOrder(d) /\ HandledSent(d)


LEMMA PositionsOf ==
  ASSUME NEW d \in Dirs, NEW q \in Seq(PacketType)
  PROVE  /\ ToForward(d, q) \subseteq 1 .. Len(q) /\ IsFiniteSet(ToForward(d, q))
         /\ Cardinality(ToForward(d, q)) \in Nat
<1>1. ToForward(d, q) \subseteq 1 .. Len(q)
  BY DEF ToForward
<1>2. IsFiniteSet(1 .. Len(q))
  BY FS_Interval
<1>3. IsFiniteSet(ToForward(d, q))
  BY <1>1, <1>2, FS_Subset
<1> QED BY <1>1, <1>3, FS_CardinalityType

\* The packets to forward of a part of a sequence, counted in the whole.
LEMMA CountOfPart ==
  ASSUME NEW d \in Dirs, NEW q \in Seq(PacketType), NEW t \in Seq(PacketType), NEW h \in Nat,
         h + Len(q) <= Len(t), \A i \in 1 .. Len(q) : q[i] = t[h + i]
  PROVE  Cardinality(ToForward(d, q)) =
           Cardinality({i \in ToForward(d, t) : h < i /\ i <= h + Len(q)})
<1> DEFINE Part == {i \in ToForward(d, t) : h < i /\ i <= h + Len(q)}
           f == [i \in ToForward(d, q) |-> h + i]
<1>1. IsFiniteSet(ToForward(d, q)) /\ ToForward(d, q) \subseteq 1 .. Len(q)
  BY PositionsOf
<1>2. \A i \in ToForward(d, q) : h + i \in Part
  BY <1>1 DEF ToForward
<1>3. \A j \in Part : j - h \in ToForward(d, q) /\ h + (j - h) = j
  <2> SUFFICES ASSUME NEW j \in Part PROVE j - h \in ToForward(d, q) /\ h + (j - h) = j
    OBVIOUS
  <2>1. j \in 1 .. Len(t) /\ h < j /\ j <= h + Len(q) /\ Forwards(d, t[j])
    BY DEF ToForward
  <2>2. j - h \in 1 .. Len(q) /\ h + (j - h) = j
    BY <2>1
  <2>3. q[j - h] = t[j]
    BY <2>2
  <2> QED BY <2>1, <2>2, <2>3 DEF ToForward
<1>4. f \in Bijection(ToForward(d, q), Part)
  <2>1. f \in [ToForward(d, q) -> Part]
    BY <1>2
  <2>2. \A a, b \in ToForward(d, q) : f[a] = f[b] => a = b
    BY <1>1
  <2>3. \A j \in Part : \E i \in ToForward(d, q) : f[i] = j
    <3> SUFFICES ASSUME NEW j \in Part PROVE \E i \in ToForward(d, q) : f[i] = j
      OBVIOUS
    <3>1. j - h \in ToForward(d, q) /\ f[j - h] = j
      BY <1>3
    <3> QED BY <3>1
  <2> QED BY <2>1, <2>2, <2>3, Fun_IsBij
<1> QED BY <1>1, <1>4, FS_Bijection DEF ExistsBijection

\* How much of what arrived was handled, and how long the parts are.
LEMMA PartsOf ==
  ASSUME CountersInv, ForwardInv, NEW d \in Dirs
  PROVE  /\ input[d] \in Seq(PacketType) /\ InBurst(d) \in Seq(PacketType)
         /\ nic[d] \in Seq(PacketType) /\ output[d] \in Seq(PacketType)
         /\ InTx(d) \in Seq(PacketType) /\ Sent(d) \in Seq(PacketType)
         /\ Len(Sent(d)) = Len(output[d]) + Len(InTx(d)) /\ dropped[d] \in Nat
         /\ Handled(d) \in Nat
         /\ Len(input[d]) = Handled(d) + (Len(InBurst(d)) + Len(nic[d]))
<1>1. /\ input[d] \in Seq(PacketType) /\ InBurst(d) \in Seq(PacketType)
      /\ nic[d] \in Seq(PacketType) /\ output[d] \in Seq(PacketType)
      /\ InTx(d) \in Seq(PacketType) /\ dropped[d] \in Nat
  BY DEF ForwardInv, ForwardTypes, CountersInv, PacketTypes, InBurst, InTx
<1>2. Handled(d) \in Nat
  BY DEF ForwardInv, InOrder
<1>3. Len(input[d]) = Handled(d) + (Len(InBurst(d)) + Len(nic[d]))
  <2>1. Len(input[d]) \in Nat /\ Len(InBurst(d)) \in Nat /\ Len(nic[d]) \in Nat
    BY <1>1
  <2>2. \A x, y, z \in Nat : x = (x - (y + z)) + (y + z)
    OBVIOUS
  <2> QED BY <2>1, <2>2 DEF Handled
<1>4. Sent(d) \in Seq(PacketType) /\ Len(Sent(d)) = Len(output[d]) + Len(InTx(d))
  BY <1>1 DEF Sent
<1> QED BY <1>1, <1>2, <1>3, <1>4

\* A part counts with what is before it.
LEMMA CountUpTo ==
  ASSUME NEW d \in Dirs, NEW q \in Seq(PacketType), NEW t \in Seq(PacketType), NEW h \in Nat,
         h + Len(q) <= Len(t), \A i \in 1 .. Len(q) : q[i] = t[h + i]
  PROVE  /\ Cardinality({i \in ToForward(d, t) : i <= h}) \in Nat
         /\ Cardinality({i \in ToForward(d, t) : i <= h + Len(q)}) =
              Cardinality({i \in ToForward(d, t) : i <= h}) + Cardinality(ToForward(d, q))
<1>1. PICK P : P = ToForward(d, t) /\ IsFiniteSet(P) /\ P \subseteq 1 .. Len(t)
  BY PositionsOf
<1>2. PICK First : First = {i \in P : i <= h}
  OBVIOUS
<1>3. PICK Second : Second = {i \in P : h < i /\ i <= h + Len(q)}
  OBVIOUS
<1>4. Cardinality(ToForward(d, q)) = Cardinality(Second)
  <2>1. Cardinality(ToForward(d, q)) =
          Cardinality({i \in ToForward(d, t) : h < i /\ i <= h + Len(q)})
    BY CountOfPart
  <2> QED BY <1>1, <1>3, <2>1
<1>5. IsFiniteSet(First) /\ IsFiniteSet(Second)
  BY <1>1, <1>2, <1>3, FS_Subset
<1>6. First \cap Second = {} /\ First \cup Second = {i \in P : i <= h + Len(q)}
  <2>1. Len(q) \in Nat
    OBVIOUS
  <2> QED BY <1>1, <1>2, <1>3, <2>1
<1>7. Cardinality(First \cup Second) =
        Cardinality(First) + Cardinality(Second) - Cardinality(First \cap Second)
  BY <1>5, FS_Union
<1>8. Cardinality(First) \in Nat /\ Cardinality(Second) \in Nat /\ Cardinality({}) = 0
  BY <1>5, FS_CardinalityType, FS_EmptySet
<1>9. Cardinality(First \cap Second) = 0
  BY <1>6, <1>8, Zenon
<1>10. Cardinality(First \cup Second) = Cardinality(First) + Cardinality(Second)
  BY <1>7, <1>8, <1>9
<1> QED BY <1>1, <1>2, <1>4, <1>6, <1>8, <1>10

LEMMA InvTransparent ==
  ASSUME CountersInv, ForwardInv
  PROVE  Transparent
<1> SUFFICES ASSUME NEW d \in Dirs
             PROVE  /\ Len(output[d]) + dropped[d] + InFlight(d) + Waiting(d)
                         = Cardinality(ToForward(d, input[d]))
                    /\ dropped[d] = 0 => \A k \in DOMAIN output[d] :
                         \E i \in ToForward(d, input[d]) :
                           Kth(ToForward(d, input[d]), i) = k /\ output[d][k] = input[d][i]
  BY DEF Transparent
<1>1. /\ Cardinality(Done(d)) \in Nat
      /\ Cardinality(ToForward(d, input[d])) =
           Cardinality(Done(d)) + (Cardinality(ToForward(d, InBurst(d))) + Waiting(d))
  <2>1. PICK t, b, n, h : t = input[d] /\ b = InBurst(d) /\ n = nic[d] /\ h = Handled(d)
    OBVIOUS
  <2>2. /\ t \in Seq(PacketType) /\ b \in Seq(PacketType) /\ n \in Seq(PacketType)
        /\ h \in Nat /\ Len(t) = h + (Len(b) + Len(n))
    BY <2>1, PartsOf
  <2>3. /\ \A i \in 1 .. Len(b) : b[i] = t[h + i]
        /\ \A i \in 1 .. Len(n) : n[i] = t[h + (Len(b) + i)]
    BY <2>1 DEF ForwardInv, InOrder
  <2>4. PICK k \in Nat : k = h + Len(b) /\ k <= Len(t) /\ k + Len(n) = Len(t) /\ k + Len(n) <= Len(t)
    BY <2>2
  <2>5. \A i \in 1 .. Len(n) : n[i] = t[k + i]
    <3>1. \A i \in 1 .. Len(n) : h + (Len(b) + i) = k + i
      BY <2>2, <2>4
    <3> QED BY <2>3, <3>1
  <2>6. /\ Cardinality({i \in ToForward(d, t) : i <= h}) \in Nat
        /\ Cardinality({i \in ToForward(d, t) : i <= h + Len(b)}) =
             Cardinality({i \in ToForward(d, t) : i <= h}) + Cardinality(ToForward(d, b))
    BY <2>2, <2>3, <2>4, CountUpTo
  <2>7. Cardinality({i \in ToForward(d, t) : i <= k + Len(n)}) =
          Cardinality({i \in ToForward(d, t) : i <= k}) + Cardinality(ToForward(d, n))
    BY <2>2, <2>4, <2>5, CountUpTo
  <2>8. {i \in ToForward(d, t) : i <= k + Len(n)} = ToForward(d, t)
    BY <2>2, <2>4, PositionsOf
  <2>9. Cardinality(ToForward(d, b)) \in Nat /\ Cardinality(ToForward(d, n)) \in Nat
    BY <2>2, PositionsOf
  <2>10. Done(d) = {i \in ToForward(d, t) : i <= h} /\ Waiting(d) = Cardinality(ToForward(d, n))
    BY <2>1 DEF Done, Waiting
  <2>11. Cardinality(ToForward(d, t)) =
           (Cardinality(Done(d)) + Cardinality(ToForward(d, b))) + Waiting(d)
    BY <2>4, <2>6, <2>7, <2>8, <2>10
  <2> QED BY <2>1, <2>6, <2>9, <2>10, <2>11
<1>2. InFlight(d) = Cardinality(ToForward(d, InBurst(d))) + Len(InTx(d))
  <2>1. CASE phase[1] = d
    BY <2>1 DEF InFlight, InBurst, InTx
  <2>2. CASE phase[1] # d
    <3>1. ToForward(d, <<>>) = {}
      BY DEF ToForward
    <3> QED BY <2>2, <3>1, FS_EmptySet DEF InFlight, InBurst, InTx
  <2> QED BY <2>1, <2>2
<1>3. Len(output[d]) + dropped[d] + InFlight(d) + Waiting(d) = Cardinality(ToForward(d, input[d]))
  <2>1. Len(output[d]) + Len(InTx(d)) + dropped[d] = Cardinality(Done(d))
    BY PartsOf DEF ForwardInv, HandledSent
  <2>2. /\ Cardinality(ToForward(d, InBurst(d))) \in Nat /\ Waiting(d) \in Nat
        /\ Len(output[d]) \in Nat /\ Len(InTx(d)) \in Nat /\ dropped[d] \in Nat
    BY PartsOf, PositionsOf DEF Waiting
  <2> QED BY <1>1, <1>2, <2>1, <2>2
<1>4. ASSUME dropped[d] = 0, NEW k \in DOMAIN output[d]
      PROVE  \E i \in ToForward(d, input[d]) :
               Kth(ToForward(d, input[d]), i) = k /\ output[d][k] = input[d][i]
  <2>1. k \in 1 .. Len(Sent(d)) /\ Sent(d)[k] = output[d][k]
    BY PartsOf DEF Sent
  <2>2. PICK i \in Done(d) : Kth(ToForward(d, input[d]), i) = k /\ Sent(d)[k] = input[d][i]
    BY <1>4, <2>1 DEF ForwardInv, HandledSent
  <2> QED BY <2>1, <2>2 DEF Done
<1> QED BY <1>3, <1>4

\* The packets that came first keep their places.
LEMMA KthOf ==
  ASSUME NEW I, NEW J, NEW i, {j \in I : j <= i} = {j \in J : j <= i}
  PROVE  Kth(I, i) = Kth(J, i)
BY DEF Kth

\* A direction in which nothing is received or handled stays in order.
LEMMA SameOrder ==
  ASSUME ForwardInv, NEW e \in Dirs, InBurst(e)' = InBurst(e), Handled(e)' = Handled(e),
         nic'[e] = nic[e], input'[e] = input[e]
  PROVE  InOrder(e)'
<1>1. PICK t, n, b, h : t = input[e] /\ n = nic[e] /\ b = InBurst(e) /\ h = Handled(e)
  OBVIOUS
<1>2. /\ h \in Nat /\ \A i \in 1 .. Len(b) : b[i] = t[h + i]
      /\ \A i \in 1 .. Len(n) : n[i] = t[h + (Len(b) + i)]
  BY <1>1 DEF ForwardInv, InOrder
<1> QED BY <1>1, <1>2 DEF InOrder

\* Nothing moves.
LEMMA StillForward ==
  ASSUME ForwardInv, UNCHANGED <<input, nic, phase, burst, tx, output, dropped>>
  PROVE  ForwardInv'
<1>1. \A d \in Dirs : InBurst(d)' = InBurst(d) /\ InTx(d)' = InTx(d)
  BY DEF InBurst, InTx
<1>2. \A d \in Dirs : Handled(d)' = Handled(d) /\ Sent(d)' = Sent(d)
  BY <1>1 DEF Handled, Sent
<1>3. \A d \in Dirs : Done(d)' = Done(d)
  BY <1>2 DEF Done
<1>4. \A d \in Dirs : InOrder(d)' /\ HandledSent(d)'
  <2> SUFFICES ASSUME NEW d \in Dirs PROVE InOrder(d)' /\ HandledSent(d)'
    OBVIOUS
  <2>1. InOrder(d)'
    BY <1>1, <1>2, SameOrder
  <2>2. HandledSent(d)'
    BY <1>2, <1>3 DEF ForwardInv, HandledSent
  <2> QED BY <2>1, <2>2
<1> QED BY <1>4 DEF ForwardInv, ForwardTypes

\* A packet arrives.
LEMMA ArriveForward ==
  ASSUME CountersInv, ForwardInv, NEW d \in Dirs, Arrive(d)
  PROVE  ForwardInv'
<1>1. PICK p \in PacketType : input' = [input EXCEPT ![d] = Append(input[d], p)]
                              /\ nic' = [nic EXCEPT ![d] = Append(nic[d], p)]
  BY PrbMonAssumption DEF Arrive
<1>2. UNCHANGED <<phase, burst, tx, output, dropped>>
  BY DEF Arrive, lcoreVars
<1>3. ForwardTypes'
  BY <1>1, <1>2 DEF ForwardInv, ForwardTypes
<1>4. input \in [Dirs -> Seq(PacketType)] /\ nic \in [Dirs -> Seq(PacketType)]
  BY DEF ForwardInv, ForwardTypes, CountersInv, PacketTypes
<1>5. ASSUME NEW e \in Dirs PROVE InOrder(e)' /\ HandledSent(e)'
  <2>1. InBurst(e)' = InBurst(e) /\ InTx(e)' = InTx(e) /\ Sent(e)' = Sent(e)
        /\ dropped'[e] = dropped[e]
    BY <1>2 DEF InBurst, InTx, Sent
  <2>2. CASE e # d
    <3>1. input'[e] = input[e] /\ nic'[e] = nic[e]
      BY <1>1, <1>4, <2>2
    <3>2. Handled(e)' = Handled(e)
      BY <2>1, <3>1 DEF Handled
    <3>3. Done(e)' = Done(e)
      BY <3>1, <3>2 DEF Done
    <3> QED BY <2>1, <3>1, <3>2, <3>3 DEF ForwardInv, InOrder, HandledSent
  <2>3. CASE e = d
    <3>1. PICK t, n, b : t = input[d] /\ n = nic[d] /\ b = InBurst(d)
      OBVIOUS
    <3>2. t \in Seq(PacketType) /\ n \in Seq(PacketType) /\ b \in Seq(PacketType)
      BY <3>1, PartsOf
    <3>3. input'[d] = Append(t, p) /\ nic'[d] = Append(n, p)
      BY <1>1, <1>4, <3>1
    <3>4. PICK h \in Nat : h = Handled(d) /\ Len(t) = h + (Len(b) + Len(n))
      BY <3>1, PartsOf
    <3>5. Handled(d)' = h
      <4>1. Handled(d)' = Len(Append(t, p)) - (Len(b) + Len(Append(n, p)))
        BY <2>1, <2>3, <3>1, <3>3 DEF Handled
      <4>2. /\ Len(Append(t, p)) = Len(t) + 1 /\ Len(Append(n, p)) = Len(n) + 1
            /\ Len(t) \in Nat /\ Len(b) \in Nat /\ Len(n) \in Nat
        BY <3>2
      <4> QED BY <3>4, <4>1, <4>2
    <3>6. \A i \in 1 .. h : i \in 1 .. Len(t) /\ Append(t, p)[i] = t[i]
      BY <3>2, <3>4
    <3>7. PICK P, Q : P = ToForward(d, t) /\ Q = ToForward(d, Append(t, p))
      OBVIOUS
    <3>8. P \subseteq 1 .. Len(t) /\ Q \subseteq 1 .. (Len(t) + 1)
      <4>1. Append(t, p) \in Seq(PacketType) /\ Len(Append(t, p)) = Len(t) + 1
        BY <3>2
      <4>2. ToForward(d, Append(t, p)) \subseteq 1 .. Len(Append(t, p))
        BY <4>1, PositionsOf
      <4> QED BY <3>2, <3>7, <4>1, <4>2, PositionsOf
    <3>9. \A i \in 1 .. Len(t) : i \in P <=> i \in Q
      BY <3>2, <3>7 DEF ToForward
    <3>10. Done(d)' = Done(d) /\ Done(d) = {i \in P : i <= h}
      <4>1. Done(d) = {i \in P : i <= h} /\ Done(d)' = {i \in Q : i <= h}
        BY <3>1, <3>3, <3>4, <3>5, <3>7 DEF Done
      <4>2. \A i \in Q : i <= h => i \in 1 .. Len(t)
        BY <3>2, <3>4, <3>8
      <4> QED BY <3>8, <3>9, <4>1, <4>2
    <3>11. \A i \in Done(d) : Kth(Q, i) = Kth(P, i) /\ Append(t, p)[i] = t[i]
      <4> SUFFICES ASSUME NEW i \in Done(d)
                   PROVE  Kth(Q, i) = Kth(P, i) /\ Append(t, p)[i] = t[i]
        OBVIOUS
      <4>1. i \in 1 .. h
        <5>1. i \in 1 .. Len(t) /\ i <= h
          BY <3>8, <3>10
        <5> QED BY <3>4, <5>1
      <4>2. {j \in Q : j <= i} = {j \in P : j <= i}
        <5>1. \A j \in Q : j <= i => j \in 1 .. Len(t)
          BY <3>2, <3>4, <3>8, <4>1
        <5> QED BY <3>8, <3>9, <5>1
      <4> QED BY <3>6, <4>1, <4>2, KthOf
    <3>12. InOrder(d)'
      <4>1. /\ \A i \in 1 .. Len(b) : b[i] = t[h + i]
            /\ \A i \in 1 .. Len(n) : n[i] = t[h + (Len(b) + i)]
        BY <3>1, <3>4 DEF ForwardInv, InOrder
      <4>2. \A i \in 1 .. Len(b) : b[i] = Append(t, p)[h + i]
        BY <3>2, <3>4, <4>1
      <4>3. \A i \in 1 .. Len(Append(n, p)) : Append(n, p)[i] = Append(t, p)[h + (Len(b) + i)]
        <5> SUFFICES ASSUME NEW i \in 1 .. Len(Append(n, p))
                     PROVE  Append(n, p)[i] = Append(t, p)[h + (Len(b) + i)]
          OBVIOUS
        <5>1. CASE i \in 1 .. Len(n)
          <6>1. Append(n, p)[i] = n[i] /\ n[i] = t[h + (Len(b) + i)]
            BY <3>2, <4>1, <5>1
          <6>2. h + (Len(b) + i) \in 1 .. Len(t)
            BY <3>2, <3>4, <5>1
          <6>3. \A k \in 1 .. Len(t) : Append(t, p)[k] = t[k]
            BY <3>2
          <6> QED BY <6>1, <6>2, <6>3
        <5>2. CASE i = Len(n) + 1
          <6>1. h + (Len(b) + i) = Len(t) + 1
            BY <3>2, <3>4, <5>2
          <6>2. Append(n, p)[Len(n) + 1] = p /\ Append(t, p)[Len(t) + 1] = p
            BY <3>2
          <6> QED BY <5>2, <6>1, <6>2
        <5>3. i \in 1 .. Len(n) \/ i = Len(n) + 1
          <6>1. Len(Append(n, p)) = Len(n) + 1 /\ Len(n) \in Nat
            BY <3>2
          <6> QED BY <6>1
        <5> QED BY <5>1, <5>2, <5>3
      <4> QED BY <2>1, <2>3, <3>1, <3>3, <3>5, <4>2, <4>3 DEF InOrder
    <3>13. HandledSent(d)'
      <4>1. /\ Len(Sent(d)) + dropped[d] = Cardinality(Done(d))
            /\ dropped[d] = 0 => \A k \in 1 .. Len(Sent(d)) : \E i \in Done(d) :
                 Kth(P, i) = k /\ Sent(d)[k] = t[i]
        BY <3>1, <3>7 DEF ForwardInv, HandledSent
      <4>2. dropped[d] = 0 => \A k \in 1 .. Len(Sent(d)) : \E i \in Done(d) :
              Kth(Q, i) = k /\ Sent(d)[k] = Append(t, p)[i]
        BY <3>11, <4>1
      <4>3. ToForward(d, input[d])' = Q
        BY <3>3, <3>7
      <4>4. Len(Sent(d)') + dropped'[d] = Cardinality(Done(d)')
        BY <2>1, <2>3, <3>10, <4>1
      <4>5. dropped'[d] = 0 => \A k \in 1 .. Len(Sent(d)') : \E i \in Done(d)' :
              Kth(Q, i) = k /\ Sent(d)'[k] = input'[d][i]
        BY <2>1, <2>3, <3>3, <3>10, <4>2
      <4> QED BY <4>3, <4>4, <4>5 DEF HandledSent
    <3> QED BY <2>3, <3>12, <3>13
  <2> QED BY <2>2, <2>3
<1> QED BY <1>3, <1>5 DEF ForwardInv

\* A burst is taken from the RX queue.
LEMMA RxForward ==
  ASSUME CountersInv, ForwardInv, NEW d \in Dirs, RxBurst(d)
  PROVE  ForwardInv'
<1>1. PICK q, m : q = nic[d] /\ m = IF Len(nic[d]) < BURST_SIZE THEN Len(nic[d]) ELSE BURST_SIZE
  OBVIOUS
<1>2. q \in Seq(PacketType) /\ m \in 0 .. Len(q)
  BY <1>1, PrbMonAssumption DEF CountersInv, PacketTypes
<1>3. PICK b, n : b = SubSeq(q, 1, m) /\ n = SubSeq(q, m + 1, Len(q))
  OBVIOUS
<1>4. /\ b \in Seq(PacketType) /\ n \in Seq(PacketType)
      /\ Len(b) = m /\ Len(n) = Len(q) - m
      /\ \A i \in 1 .. m : b[i] = q[i]
      /\ \A i \in 1 .. Len(n) : n[i] = q[m + i]
  BY <1>2, <1>3
<1>5. /\ phase = <<d, "rx">> /\ phase' = <<d, "handle">> /\ burst' = b
      /\ nic' = [nic EXCEPT ![d] = n] /\ UNCHANGED <<tx, output, dropped, input>>
  BY <1>1, <1>3 DEF RxBurst
<1>6. burst = <<>> /\ tx = <<>>
  BY <1>5 DEF ForwardInv, ForwardTypes
<1>7. ForwardTypes'
  BY <1>4, <1>5 DEF ForwardInv, ForwardTypes
<1>8. ASSUME NEW e \in Dirs PROVE InOrder(e)' /\ HandledSent(e)'
  <2>1. InTx(e)' = InTx(e)
    BY <1>5, <1>6 DEF InTx
  <2>2. Sent(e)' = Sent(e)
    BY <1>5, <2>1 DEF Sent
  <2>3. Handled(e)' = Handled(e) /\ InOrder(e)'
    <3>1. nic \in [Dirs -> Seq(PacketType)]
      BY DEF CountersInv, PacketTypes
    <3>2. CASE e # d
      <4>1. InBurst(e)' = InBurst(e) /\ nic'[e] = nic[e]
        BY <1>5, <3>1, <3>2 DEF InBurst
      <4>2. Handled(e)' = Handled(e)
        BY <1>5, <4>1 DEF Handled
      <4> QED BY <1>5, <4>1, <4>2 DEF ForwardInv, InOrder
    <3>3. CASE e = d
      <4>1. InBurst(d)' = b /\ nic'[d] = n /\ InBurst(d) = <<>>
        BY <1>5, <1>6, <3>1 DEF InBurst
      <4>2. PICK h \in Nat : h = Handled(d) /\ Len(input[d]) = h + (Len(InBurst(d)) + Len(q))
        BY <1>1, PartsOf
      <4>3. Len(InBurst(d)) + Len(q) = Len(q) /\ Len(q) \in Nat
        BY <1>2, <4>1
      <4>4. Handled(d)' = h
        <5>1. Handled(d)' = Len(input[d]) - (Len(b) + Len(n))
          BY <1>5, <4>1 DEF Handled
        <5> QED BY <1>2, <1>4, <4>2, <4>3, <5>1
      <4>5. \A i \in 1 .. Len(q) : q[i] = input[d][h + i]
        <5>1. \A i \in 1 .. Len(q) : q[i] = input[d][h + (Len(InBurst(d)) + i)]
          BY <1>1, <4>2 DEF ForwardInv, InOrder
        <5>2. \A i \in 1 .. Len(q) : Len(InBurst(d)) + i = i
          BY <4>1
        <5> QED BY <5>1, <5>2
      <4>6. \A i \in 1 .. Len(b) : b[i] = input[d][h + i]
        BY <1>2, <1>4, <4>5
      <4>7. \A i \in 1 .. Len(n) : n[i] = input[d][h + (Len(b) + i)]
        BY <1>2, <1>4, <4>5
      <4> QED BY <1>5, <3>3, <4>1, <4>2, <4>4, <4>6, <4>7 DEF InOrder
    <3> QED BY <3>2, <3>3
  <2>4. Done(e)' = Done(e)
    BY <1>5, <2>3 DEF Done
  <2> QED BY <1>5, <2>2, <2>3, <2>4 DEF ForwardInv, HandledSent
<1> QED BY <1>7, <1>8 DEF ForwardInv

\* The burst's first packet is put into the TX array, or freed if it is not of
\* the fronthaul.
LEMMA HandleForward ==
  ASSUME CountersInv, ForwardInv, NEW d \in Dirs, PassPacket(d) \/ AddCount(d)
  PROVE  ForwardInv'
<1>1. /\ phase[1] = d /\ burst # <<>> /\ burst' = Tail(burst)
      /\ tx' = IF Forwards(d, Head(burst)) THEN Append(tx, Head(burst)) ELSE tx
      /\ UNCHANGED <<phase, nic, input, output, dropped>>
  <2>1. CASE PassPacket(d)
    BY <2>1 DEF PassPacket, envVars
  <2>2. CASE AddCount(d)
    BY <2>2 DEF AddCount, envVars, CountersInv, PcTypes
  <2> QED BY <2>1, <2>2
<1>2. PICK b, x : b = burst /\ x = Head(burst)
  OBVIOUS
<1>3. /\ b \in Seq(PacketType) /\ x \in PacketType /\ Len(b) \in Nat /\ Len(b) > 0
      /\ Tail(b) \in Seq(PacketType) /\ Len(Tail(b)) = Len(b) - 1
      /\ x = b[1] /\ \A i \in 1 .. Len(Tail(b)) : Tail(b)[i] = b[i + 1]
  BY <1>1, <1>2 DEF CountersInv, PacketTypes
<1>4. ForwardTypes'
  <2>1. tx' \in Seq(PacketType) /\ phase[2] # "rx"
    BY <1>1, <1>2, <1>3 DEF ForwardInv, ForwardTypes
  <2> QED BY <1>1, <2>1 DEF ForwardInv, ForwardTypes
<1>5. ASSUME NEW e \in Dirs, e # d PROVE InOrder(e)' /\ HandledSent(e)'
  <2>1. InBurst(e)' = InBurst(e) /\ InTx(e)' = InTx(e)
    BY <1>1, <1>5 DEF InBurst, InTx
  <2>2. Handled(e)' = Handled(e) /\ Sent(e)' = Sent(e)
    BY <1>1, <2>1 DEF Handled, Sent
  <2>3. Done(e)' = Done(e)
    BY <1>1, <2>2 DEF Done
  <2>4. InOrder(e)'
    BY <1>1, <2>1, <2>2, SameOrder
  <2> QED BY <1>1, <2>2, <2>3, <2>4 DEF ForwardInv, HandledSent
<1>6. PICK t, n, h : t = input[d] /\ n = nic[d] /\ h = Handled(d)
  OBVIOUS
<1>7. InBurst(d) = b /\ InBurst(d)' = Tail(b) /\ InTx(d) = tx /\ InTx(d)' = tx'
  BY <1>1, <1>2 DEF InBurst, InTx
<1>8. /\ t \in Seq(PacketType) /\ n \in Seq(PacketType) /\ h \in Nat
      /\ Len(t) = h + (Len(b) + Len(n))
      /\ \A i \in 1 .. Len(b) : b[i] = t[h + i]
      /\ \A i \in 1 .. Len(n) : n[i] = t[h + (Len(b) + i)]
  BY <1>6, <1>7, PartsOf DEF ForwardInv, InOrder
<1>9. Handled(d)' = h + 1 /\ h + 1 \in 1 .. Len(t) /\ x = t[h + 1]
  <2>1. Handled(d)' = Len(t) - (Len(Tail(b)) + Len(n))
    BY <1>1, <1>6, <1>7 DEF Handled
  <2>2. Len(n) \in Nat
    BY <1>8
  <2> QED BY <1>3, <1>8, <2>1, <2>2
<1>10. InOrder(d)'
  <2>1. \A i \in 1 .. Len(Tail(b)) : Tail(b)[i] = t[(h + 1) + i]
    <3> SUFFICES ASSUME NEW i \in 1 .. Len(Tail(b)) PROVE Tail(b)[i] = t[(h + 1) + i]
      OBVIOUS
    <3>1. i + 1 \in 1 .. Len(b) /\ h + (i + 1) = (h + 1) + i
      BY <1>3, <1>8
    <3>2. b[i + 1] = t[h + (i + 1)]
      BY <1>8, <3>1
    <3> QED BY <1>3, <3>1, <3>2
  <2>2. \A i \in 1 .. Len(n) : n[i] = t[(h + 1) + (Len(Tail(b)) + i)]
    <3>1. \A i \in 1 .. Len(n) : h + (Len(b) + i) = (h + 1) + (Len(Tail(b)) + i)
      BY <1>3, <1>8
    <3> QED BY <1>8, <3>1
  <2> QED BY <1>1, <1>6, <1>7, <1>8, <1>9, <2>1, <2>2 DEF InOrder
<1>11. PICK P, D : P = ToForward(d, t) /\ D = {i \in P : i <= h}
  OBVIOUS
<1>12. P \subseteq 1 .. Len(t) /\ IsFiniteSet(P) /\ IsFiniteSet(D) /\ Cardinality(D) \in Nat
  <2>1. P \subseteq 1 .. Len(t) /\ IsFiniteSet(P)
    BY <1>8, <1>11, PositionsOf
  <2>2. IsFiniteSet(D)
    BY <1>11, <2>1, FS_Subset
  <2> QED BY <2>1, <2>2, FS_CardinalityType
<1>13. Done(d) = D /\ Done(d)' = {i \in P : i <= h + 1}
  BY <1>1, <1>6, <1>9, <1>11 DEF Done
<1>14. PICK s : s = Sent(d) /\ s \in Seq(PacketType)
  BY PartsOf
<1>15. /\ Len(s) + dropped[d] = Cardinality(D) /\ dropped[d] \in Nat
       /\ dropped[d] = 0 => \A k \in 1 .. Len(s) : \E i \in D : Kth(P, i) = k /\ s[k] = t[i]
  BY <1>6, <1>11, <1>13, <1>14 DEF ForwardInv, HandledSent, ForwardTypes
<1>16. CASE ~Forwards(d, x)
  <2>1. Sent(d)' = s
    BY <1>1, <1>2, <1>7, <1>14, <1>16 DEF Sent
  <2>2. Done(d)' = D
    <3>1. h + 1 \notin P
      BY <1>9, <1>11, <1>16 DEF ToForward
    <3>2. \A i \in P : i <= h + 1 <=> i <= h \/ i = h + 1
      BY <1>8, <1>12
    <3> QED BY <1>11, <1>13, <3>1, <3>2
  <2>3. HandledSent(d)'
    BY <1>1, <1>6, <1>11, <1>15, <2>1, <2>2 DEF HandledSent
  <2> QED BY <1>4, <1>5, <1>10, <2>3 DEF ForwardInv
<1>17. CASE Forwards(d, x)
  <2>1. Sent(d)' = Append(s, x)
    <3>1. output[d] \in Seq(PacketType) /\ tx \in Seq(PacketType) /\ tx' = Append(tx, x)
      BY <1>1, <1>2, <1>17 DEF ForwardInv, ForwardTypes
    <3>2. s = output[d] \o tx /\ Sent(d)' = output[d] \o Append(tx, x)
      BY <1>1, <1>7, <1>14, <3>1 DEF Sent
    <3>3. \A o, q \in Seq(PacketType) : o \o Append(q, x) = Append(o \o q, x)
      BY <1>3
    <3> QED BY <3>1, <3>2, <3>3
  <2>2. Done(d)' = D \cup {h + 1} /\ h + 1 \notin D /\ h + 1 \in P
    <3>1. h + 1 \in P
      BY <1>8, <1>9, <1>11, <1>17 DEF ToForward
    <3>2. \A i \in P : i <= h + 1 <=> i <= h \/ i = h + 1
      BY <1>8, <1>12
    <3> QED BY <1>8, <1>11, <1>13, <3>1, <3>2
  <2>3. Cardinality(D \cup {h + 1}) = Cardinality(D) + 1
    BY <1>12, <2>2, FS_AddElement
  <2>4. Kth(P, h + 1) = Cardinality(D) + 1
    <3>1. {j \in P : j <= h + 1} = D \cup {h + 1}
      BY <1>13, <2>2
    <3> QED BY <2>3, <3>1 DEF Kth
  <2>5. Len(Append(s, x)) = Len(s) + 1 /\ Append(s, x)[Len(s) + 1] = x /\ Len(s) \in Nat
        /\ \A k \in 1 .. Len(s) : Append(s, x)[k] = s[k]
    BY <1>3, <1>14
  <2>6. Len(Append(s, x)) + dropped[d] = Cardinality(D \cup {h + 1})
    BY <1>12, <1>15, <2>3, <2>5
  <2>7. ASSUME dropped[d] = 0, NEW k \in 1 .. Len(Append(s, x))
        PROVE  \E i \in D \cup {h + 1} : Kth(P, i) = k /\ Append(s, x)[k] = t[i]
    <3>1. CASE k \in 1 .. Len(s)
      BY <1>15, <2>5, <2>7, <3>1
    <3>2. CASE k = Len(s) + 1
      <4>1. Len(s) = Cardinality(D)
        BY <1>15, <2>5, <2>7
      <4> QED BY <1>9, <2>4, <2>5, <3>2, <4>1
    <3>3. k \in 1 .. Len(s) \/ k = Len(s) + 1
      BY <2>5
    <3> QED BY <3>1, <3>2, <3>3
  <2>8. HandledSent(d)'
    <3>1. ToForward(d, input[d])' = P /\ input'[d] = t /\ dropped'[d] = dropped[d]
      BY <1>1, <1>6, <1>11
    <3>2. Len(Sent(d)') + dropped'[d] = Cardinality(Done(d)')
      BY <2>1, <2>2, <2>6, <3>1
    <3>3. dropped'[d] = 0 => \A k \in 1 .. Len(Sent(d)') : \E i \in Done(d)' :
            Kth(P, i) = k /\ Sent(d)'[k] = input'[d][i]
      BY <2>1, <2>2, <2>7, <3>1
    <3> QED BY <3>1, <3>2, <3>3 DEF HandledSent
  <2> QED BY <1>4, <1>5, <1>10, <2>8 DEF ForwardInv
<1> QED BY <1>16, <1>17

\* The card takes a prefix of the TX array, the rest is freed.
LEMMA TxForward ==
  ASSUME CountersInv, ForwardInv, NEW d \in Dirs, TxBurst(d)
  PROVE  ForwardInv'
<1>1. PICK nb \in 0 .. Len(tx) :
        /\ output' = [output EXCEPT ![d] = output[d] \o SubSeq(tx, 1, nb)]
        /\ dropped' = [dropped EXCEPT ![d] = dropped[d] + (Len(tx) - nb)]
  <2>1. tx \in Seq(PacketType)
    BY DEF ForwardInv, ForwardTypes
  <2>2. (IF TxMayFail THEN 0 .. Len(tx) ELSE {Len(tx)}) \subseteq 0 .. Len(tx)
    BY <2>1
  <2> QED BY <2>2 DEF TxBurst
<1>2. /\ phase = <<d, "handle">> /\ phase' = <<Other(d), "rx">> /\ Other(d) \in Dirs \ {d}
      /\ burst = <<>> /\ burst' = burst /\ tx' = <<>> /\ UNCHANGED <<nic, input>>
  BY DEF TxBurst, AfterTx, envVars, Other, Dirs
<1>3. PICK a, b : a = SubSeq(tx, 1, nb) /\ b = output[d]
  OBVIOUS
<1>4. /\ tx \in Seq(PacketType) /\ a \in Seq(PacketType) /\ b \in Seq(PacketType)
      /\ Len(a) = nb /\ (nb = Len(tx) => a = tx)
      /\ output \in [Dirs -> Seq(PacketType)] /\ dropped \in [Dirs -> Nat]
      /\ b \o a \in Seq(PacketType) /\ Len(b \o a) = Len(b) + nb
  BY <1>3 DEF ForwardInv, ForwardTypes
<1>5. output'[d] = b \o a /\ dropped'[d] = dropped[d] + (Len(tx) - nb)
      /\ \A e \in Dirs \ {d} : output'[e] = output[e] /\ dropped'[e] = dropped[e]
  BY <1>1, <1>3, <1>4
<1>6. ForwardTypes'
  <2>1. output' \in [Dirs -> Seq(PacketType)]
    BY <1>1, <1>3, <1>4
  <2>2. Len(tx) - nb \in Nat
    BY <1>4
  <2>3. dropped' \in [Dirs -> Nat]
    BY <1>1, <1>4, <2>2
  <2> QED BY <1>2, <2>1, <2>3 DEF ForwardInv, ForwardTypes
<1>7. \A e \in Dirs : /\ InBurst(e)' = InBurst(e) /\ InTx(e)' = <<>>
                      /\ (e # d => InTx(e) = <<>>)
  BY <1>2 DEF InBurst, InTx
<1>8. \A e \in Dirs : Handled(e)' = Handled(e)
  BY <1>2, <1>7 DEF Handled
<1>9. \A e \in Dirs : Done(e)' = Done(e)
  BY <1>2, <1>8 DEF Done
<1>10. \A e \in Dirs : InOrder(e)'
  <2> SUFFICES ASSUME NEW e \in Dirs PROVE InOrder(e)'
    OBVIOUS
  <2> QED BY <1>2, <1>7, <1>8, SameOrder
<1>11. ASSUME NEW e \in Dirs \ {d} PROVE HandledSent(e)'
  <2>1. Sent(e)' = Sent(e)
    BY <1>5, <1>7 DEF Sent
  <2> QED BY <1>2, <1>5, <1>9, <2>1 DEF ForwardInv, HandledSent
<1>12. HandledSent(d)'
  <2>1. Sent(d) = b \o tx /\ Sent(d)' = b \o a
    <3>1. InTx(d) = tx
      BY <1>2 DEF InTx
    <3>2. Sent(d)' = (b \o a) \o <<>>
      BY <1>5, <1>7 DEF Sent
    <3> QED BY <1>3, <1>4, <3>1, <3>2 DEF Sent
  <2>2. Len(b \o tx) = Len(b) + Len(tx) /\ Len(b) \in Nat /\ Len(tx) \in Nat /\ dropped[d] \in Nat
    BY <1>4
  <2>3. Len(b \o tx) + dropped[d] = Cardinality(Done(d))
    BY <2>1 DEF ForwardInv, HandledSent
  <2>4. Len(b \o a) + dropped'[d] = Cardinality(Done(d))
    BY <1>4, <1>5, <2>2, <2>3
  <2>5. dropped'[d] = 0 => b \o a = b \o tx /\ dropped[d] = 0
    <3>1. dropped'[d] = 0 => nb = Len(tx) /\ dropped[d] = 0
      BY <1>5, <2>2
    <3> QED BY <1>4, <3>1
  <2>6. dropped'[d] = 0 => \A k \in 1 .. Len(b \o a) : \E i \in Done(d) :
          Kth(ToForward(d, input[d]), i) = k /\ (b \o a)[k] = input[d][i]
    BY <2>1, <2>5 DEF ForwardInv, HandledSent
  <2> QED BY <1>2, <1>9, <2>1, <2>4, <2>6 DEF HandledSent
<1> QED BY <1>6, <1>10, <1>11, <1>12 DEF ForwardInv

LEMMA ForwardInit == Init => ForwardInv
<1> SUFFICES ASSUME Init PROVE ForwardInv
  OBVIOUS
<1>1. ForwardTypes
  BY DEF Init, ForwardTypes, Zero, Empty
<1>2. ASSUME NEW d \in Dirs PROVE InOrder(d) /\ HandledSent(d)
  <2>1. input[d] = <<>> /\ nic[d] = <<>> /\ InBurst(d) = <<>> /\ InTx(d) = <<>>
        /\ output[d] = <<>> /\ dropped[d] = 0
    BY DEF Init, Zero, Empty, InBurst, InTx
  <2>2. Handled(d) = 0 /\ Sent(d) = <<>>
    <3>1. Len(input[d]) = 0 /\ Len(nic[d]) = 0 /\ Len(InBurst(d)) = 0
      BY <2>1
    <3>2. Handled(d) = 0
      BY <3>1 DEF Handled
    <3> QED BY <2>1, <3>2 DEF Sent
  <2>3. Done(d) = {}
    BY <2>1 DEF Done, ToForward
  <2>4. InOrder(d)
    BY <2>1, <2>2 DEF InOrder
  <2>5. HandledSent(d)
    BY <2>1, <2>2, <2>3, FS_EmptySet DEF HandledSent
  <2> QED BY <2>4, <2>5
<1> QED BY <1>1, <1>2 DEF ForwardInv

LEMMA ForwardStep == CountersInv /\ ForwardInv /\ [Next]_vars => ForwardInv'
<1> SUFFICES ASSUME CountersInv, ForwardInv, [Next]_vars PROVE ForwardInv'
  OBVIOUS
<1>1. ASSUME NEW d \in Dirs, AddPrbs(d) PROVE ForwardInv'
  BY <1>1, StillForward DEF AddPrbs, envVars
<1>2. CASE Lcore
  BY <1>1, <1>2, RxForward, HandleForward, TxForward DEF Lcore
<1>3. CASE Stats
  BY <1>3, StillForward
     DEF Stats, Wake, LoadTotal, LoadCount, ResetTotal, ResetCount, lcoreVars, envVars
<1>4. CASE \E d \in Dirs : Arrive(d)
  BY <1>4, ArriveForward
<1>5. CASE UNCHANGED vars
  BY <1>5, StillForward DEF vars, lcoreVars, envVars
<1> QED BY <1>2, <1>3, <1>4, <1>5 DEF Next, Aborted

\* Monitoring is transparent: in either direction every packet of the fronthaul
\* that arrived waits, was sent on, or was refused by rte_eth_tx_burst; and so
\* long as none was refused, the k-th packet sent on is the k-th that arrived.
THEOREM ForwardingIsTransparent == Spec => []Transparent
<1>1. Init => CountersInv /\ ForwardInv
  BY CountersInit, ForwardInit
<1>2. CountersInv /\ ForwardInv /\ [Next]_vars => (CountersInv /\ ForwardInv)'
  BY CountersStep, ForwardStep
<1>3. CountersInv /\ ForwardInv => Transparent
  BY InvTransparent
<1> QED BY <1>1, <1>2, <1>3, PTL DEF Spec
=============================================================================
