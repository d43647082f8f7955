---------------------------- MODULE DmimoProofs -----------------------------
(***************************************************************************)
(* Proofs about the distributed MIMO middlebox (Dmimo), for any number of  *)
(* RUs, any bitmaps and any traffic: the two forwarding maps that main     *)
(* builds from the bitmaps undo each other, and so does forwarding; mbufs  *)
(* are leaked for packets that no RU serves only; and every antenna sends  *)
(* the samples of the SSB symbol it is in.                                 *)
(***************************************************************************)
EXTENDS Dmimo, FiniteSetTheorems, SequenceTheorems, TLAPS

-----------------------------------------------------------------------------
(* The maps                                                                *)

\* The set bits of a bitmap below p.
Below(B, p) == {q \in B : q < p}

\* Bitmaps, and parts of them, are finite sets of ports.
LEMMA BitmapFinite ==
  ASSUME NEW B \in SUBSET AntennaPorts
  PROVE  /\ IsFiniteSet(B) /\ Cardinality(B) \in 0 .. NUM_ANTENNA_PORTS
         /\ \A p : IsFiniteSet(Below(B, p)) /\ Cardinality(Below(B, p)) \in Nat
<1>1. IsFiniteSet(AntennaPorts) /\ Cardinality(AntennaPorts) = NUM_ANTENNA_PORTS
  BY FS_Interval, DmimoAssumption DEF AntennaPorts
<1>2. IsFiniteSet(B) /\ Cardinality(B) <= NUM_ANTENNA_PORTS
  BY <1>1, FS_Subset
<1>3. Cardinality(B) \in Nat
  BY <1>2, FS_CardinalityType
<1>4. ASSUME NEW p
      PROVE  IsFiniteSet(Below(B, p)) /\ Cardinality(Below(B, p)) \in Nat
  <2>1. Below(B, p) \in SUBSET B
    BY DEF Below
  <2>2. IsFiniteSet(Below(B, p))
    BY <1>2, <2>1, FS_Subset
  <2> QED BY <2>2, FS_CardinalityType
<1> QED BY <1>2, <1>3, <1>4, DmimoAssumption

\* A strictly smaller set has fewer elements.
LEMMA Fewer ==
  ASSUME NEW T, IsFiniteSet(T), NEW S \in SUBSET T, S # T
  PROVE  Cardinality(S) < Cardinality(T)
<1>1. Cardinality(S) <= Cardinality(T) /\ Cardinality(S) # Cardinality(T) /\ IsFiniteSet(S)
  BY FS_Subset
<1>2. Cardinality(S) \in Nat /\ Cardinality(T) \in Nat
  BY <1>1, FS_CardinalityType
<1> QED BY <1>1, <1>2

\* The rank of a port of the bitmap is an antenna of the RU, and different
\* ports have different ranks.
LEMMA RankIsAntenna ==
  ASSUME NEW B \in SUBSET AntennaPorts, NEW p \in B
  PROVE  /\ Cardinality(Below(B, p)) \in 0 .. Cardinality(B) - 1
         /\ \A q \in B : q # p => Cardinality(Below(B, q)) # Cardinality(Below(B, p))
<1>1. \A a, b \in B : a < b => Cardinality(Below(B, a)) < Cardinality(Below(B, b))
  <2> SUFFICES ASSUME NEW a \in B, NEW b \in B, a < b
               PROVE  Cardinality(Below(B, a)) < Cardinality(Below(B, b))
    OBVIOUS
  <2>1. a \in Below(B, b) /\ a \notin Below(B, a) /\ Below(B, a) \in SUBSET Below(B, b)
    <3>1. \A q \in B : q \in Int
      BY DmimoAssumption DEF AntennaPorts
    <3>2. ~(a < a) /\ \A q \in B : q < a => q < b
      BY <3>1
    <3> QED BY <3>2 DEF Below
  <2>2. IsFiniteSet(Below(B, b))
    BY BitmapFinite
  <2> QED BY <2>1, <2>2, Fewer
<1>2. \A q \in B : q # p => Cardinality(Below(B, q)) # Cardinality(Below(B, p))
  <2> SUFFICES ASSUME NEW q \in B, q # p
               PROVE  Cardinality(Below(B, q)) # Cardinality(Below(B, p))
    OBVIOUS
  <2>1. q < p \/ p < q
    BY DEF AntennaPorts
  <2>2. Cardinality(Below(B, p)) \in Nat /\ Cardinality(Below(B, q)) \in Nat
    BY BitmapFinite
  <2> QED BY <1>1, <2>1, <2>2
<1>3. Cardinality(Below(B, p)) < Cardinality(B)
  <2>1. p \notin Below(B, p) /\ Below(B, p) \in SUBSET B
    BY DEF Below, AntennaPorts
  <2> QED BY <2>1, BitmapFinite, Fewer
<1> QED BY <1>2, <1>3, BitmapFinite

\* Every antenna below the number of set bits is the rank of some port.
LEMMA EveryAntennaIsARank ==
  ASSUME NEW B \in SUBSET AntennaPorts, NEW i \in 0 .. Cardinality(B) - 1
  PROVE  \E p \in B : Cardinality(Below(B, p)) = i
<1> DEFINE rank == [p \in B |-> Cardinality(Below(B, p))]
           T == 0 .. Cardinality(B) - 1
<1>1. Cardinality(B) \in Nat
  BY BitmapFinite
<1>2. IsFiniteSet(T) /\ Cardinality(T) = Cardinality(B)
  BY <1>1, FS_Interval
<1>3. rank \in [B -> T]
  BY RankIsAntenna
<1>4. IsInjective(rank)
  BY RankIsAntenna DEF IsInjective
<1>5. rank \in Injection(B, T)
  BY <1>3, <1>4 DEF Injection
<1> HIDE DEF rank, T
<1>6. rank \in Surjection(B, T)
  BY <1>2, <1>5, FS_Injection
<1>7. PICK p \in B : rank[p] = i
  BY <1>6 DEF Surjection, T
<1> QED BY <1>7 DEF rank

\* Both maps of an RU, each undoing the other.
LEMMA MapsInverse ==
  ASSUME NEW r \in Rus, bitmap[r] \in SUBSET AntennaPorts, NEW p \in AntennaPorts
  PROVE  /\ antenna_fwd_map_dl(r)[p] >= 0 <=> p \in bitmap[r]
         /\ antenna_fwd_map_dl(r)[p] >= 0 =>
              /\ antenna_fwd_map_dl(r)[p] \in AntennaPorts
              /\ antenna_fwd_map_ul(r)[antenna_fwd_map_dl(r)[p]] = p
         /\ antenna_fwd_map_ul(r)[p] >= 0 =>
              /\ antenna_fwd_map_ul(r)[p] \in bitmap[r]
              /\ antenna_fwd_map_dl(r)[antenna_fwd_map_ul(r)[p]] = p
<1> DEFINE B == bitmap[r]
           rank(q) == Cardinality(Below(B, q))
<1>1. \A q \in AntennaPorts : antenna_fwd_map_dl(r)[q] = IF q \in B THEN rank(q) ELSE -1
  BY DEF antenna_fwd_map_dl, Below
<1>2. \A i \in AntennaPorts : antenna_fwd_map_ul(r)[i] =
        IF i < Cardinality(B) THEN CHOOSE q \in B : rank(q) = i ELSE -1
  BY DEF antenna_fwd_map_ul, Below
<1>3. Cardinality(B) \in 0 .. NUM_ANTENNA_PORTS
  BY BitmapFinite
<1>4. \A q \in B : rank(q) \in 0 .. Cardinality(B) - 1
  BY RankIsAntenna
<1>5. \A q, s \in B : rank(q) = rank(s) => q = s
  BY RankIsAntenna
<1>6. \A i \in 0 .. Cardinality(B) - 1 : \E q \in B : rank(q) = i
  BY EveryAntennaIsARank
<1> HIDE DEF B, rank
<1>7. B \subseteq AntennaPorts
  BY DEF B
<1>8. \A q \in B : rank(q) \in AntennaPorts /\ rank(q) < Cardinality(B)
  BY <1>3, <1>4, DmimoAssumption DEF AntennaPorts
<1>9. ASSUME p \in B PROVE antenna_fwd_map_ul(r)[rank(p)] = p
  <2>1. antenna_fwd_map_ul(r)[rank(p)] = CHOOSE q \in B : rank(q) = rank(p)
    BY <1>2, <1>8, <1>9
  <2> QED BY <1>5, <1>9, <2>1
<1>10. ASSUME antenna_fwd_map_ul(r)[p] >= 0
       PROVE  /\ antenna_fwd_map_ul(r)[p] \in B
              /\ antenna_fwd_map_dl(r)[antenna_fwd_map_ul(r)[p]] = p
  <2>1. p < Cardinality(B) /\ antenna_fwd_map_ul(r)[p] = CHOOSE q \in B : rank(q) = p
    BY <1>2, <1>10
  <2>2. p \in 0 .. Cardinality(B) - 1
    BY <1>3, <2>1 DEF AntennaPorts
  <2>3. antenna_fwd_map_ul(r)[p] \in B /\ rank(antenna_fwd_map_ul(r)[p]) = p
    BY <1>6, <2>1, <2>2
  <2> QED BY <1>1, <1>7, <2>3
<1>11. p \in B <=> antenna_fwd_map_dl(r)[p] >= 0
  BY <1>1, <1>4, <1>3
<1> QED BY <1>1, <1>8, <1>9, <1>10, <1>11 DEF B

\* A port that some RU serves has a first one.
LEMMA FirstServes ==
  ASSUME NEW p, Serving(p) # {}
  PROVE  FirstServing(p) \in Serving(p)
<1> DEFINE S == Serving(p)
           R == {ss \in Nat \X Nat : ss[1] < ss[2]}
<1>1. IsWellFoundedOn(R, Nat)
  BY NatLessThanWellFounded DEF OpToRel
<1>2. S \subseteq Nat
  BY DmimoAssumption DEF Serving, Rus
<1> HIDE DEF S, R
<1>3. PICK r \in S : \A q \in S : ~ (<<q, r>> \in R)
  BY <1>1, <1>2, WFMin DEF S
<1>4. \A q \in S : r <= q
  <2> SUFFICES ASSUME NEW q \in S PROVE r <= q
    OBVIOUS
  <2>1. q \in Nat /\ r \in Nat
    BY <1>2
  <2>2. q < r => <<q, r>> \in R
    BY <2>1 DEF R
  <2> QED BY <1>3, <2>1, <2>2
<1> QED BY <1>3, <1>4 DEF FirstServing, S
-----------------------------------------------------------------------------
(* Forwarding                                                              *)

\* A packet that waits at network port n came from there, unchanged.
Waiting(n) == {p \in Packet : p.from = [nic |-> n, port |-> p.port]}

\* A packet to be sent, or sent, with the antenna port the maps give it.
ToAntenna == {e \in Outgoing :
  e.ru \in Rus /\ antenna_fwd_map_ul(e.ru)[e.port] = e.packet.from.port}
ToDu == {e \in Outgoing :
  /\ e.ru = -1
  /\ \E r \in Rus : /\ e.packet.from.nic = RuNic(r)
                     /\ antenna_fwd_map_dl(r)[e.port] = e.packet.from.port}
Mapped == ToAntenna \cup ToDu

ForwardInv ==
  /\ bitmap \in [Rus -> SUBSET AntennaPorts] /\ nic \in Nics
  /\ payload \in Nat /\ ssb \in Nat
  /\ \A n \in Nics : rxq[n] \in Seq(Waiting(n))
  /\ DOMAIN rxq = Nics
  /\ bufs \in Seq(Waiting(nic))
  /\ tx_bufs \in Seq(Mapped)
  /\ to_ru \in [Rus -> SUBSET ToAntenna] /\ to_du \in SUBSET ToDu
  /\ \A r \in Rus : \A e \in to_ru[r] : e.ru = r

\* Nothing waits and nothing has been sent at the start.
LEMMA ForwardInit == Init => ForwardInv
<1> SUFFICES ASSUME Init PROVE ForwardInv
  OBVIOUS
<1>1. bitmap \in [Rus -> SUBSET AntennaPorts]
  BY DmimoAssumption DEF Init, AntennaPorts
<1>2. nic \in Nics
  BY DmimoAssumption DEF Init, Nics
<1> QED BY <1>1, <1>2 DEF Init, ForwardInv

\* The parts of a sequence.
LEMMA Parts ==
  ASSUME NEW S, NEW q \in Seq(S), NEW n \in 0 .. Len(q)
  PROVE  SubSeq(q, 1, n) \in Seq(S) /\ SubSeq(q, n + 1, Len(q)) \in Seq(S)
OBVIOUS

\* What is mapped depends on the bitmaps only.
LEMMA SameMaps ==
  ASSUME bitmap' = bitmap
  PROVE  Mapped' = Mapped /\ ToAntenna' = ToAntenna /\ ToDu' = ToDu
BY DEF Mapped, ToAntenna, ToDu, antenna_fwd_map_dl, antenna_fwd_map_ul

\* The network ports are polled in turn.
LEMMA NextIsNic == nic \in Nics => NextNic \in Nics
<1> SUFFICES ASSUME nic \in Nics PROVE NextNic \in Nics
  OBVIOUS
<1> QED BY DmimoAssumption DEF NextNic, Nics

\* A burst is taken from the queue of the next network port.
LEMMA RxInv == ASSUME ForwardInv, RxBurst PROVE ForwardInv'
<1>1. PICK m \in Nics : m = NextNic
  BY NextIsNic DEF ForwardInv
<1> DEFINE n == AtMostBurst(rxq[m])
<1>2. rxq[m] \in Seq(Waiting(m)) /\ n \in 0 .. Len(rxq[m])
  BY <1>1, DmimoAssumption DEF ForwardInv, AtMostBurst
<1>3. /\ bufs' = SubSeq(rxq[m], 1, n)
      /\ rxq' = [rxq EXCEPT ![m] = SubSeq(rxq[m], n + 1, Len(rxq[m]))]
      /\ nic' = m
      /\ UNCHANGED <<bitmap, tx_bufs, payload, ssb, to_ru, to_du>>
  BY <1>1 DEF RxBurst
<1> HIDE DEF n
<1>4. bufs' \in Seq(Waiting(nic'))
  BY <1>2, <1>3, Parts
<1>5. DOMAIN rxq' = Nics /\ \A c \in Nics : rxq'[c] \in Seq(Waiting(c))
  BY <1>1, <1>2, <1>3, Parts DEF ForwardInv
<1> QED BY <1>1, <1>3, <1>4, <1>5, SameMaps DEF ForwardInv

\* Handling a packet p of the burst adds at most one packet to those to be sent.
LEMMA HandleInv ==
  ASSUME ForwardInv, NEW p \in {bufs[i] : i \in DOMAIN bufs}, Handles(p), payload' \in Nat,
         NEW e \in Mapped, tx_bufs' = tx_bufs \/ tx_bufs' = Append(tx_bufs, e)
  PROVE  ForwardInv'
<1>1. /\ bufs' = Tail(bufs) /\ bufs # <<>>
      /\ UNCHANGED <<bitmap, nic, rxq, ssb, to_ru, to_du>>
  BY DEF Handles
<1>2. bufs' \in Seq(Waiting(nic))
  BY <1>1 DEF ForwardInv
<1>3. tx_bufs' \in Seq(Mapped)
  <2>1. tx_bufs \in Seq(Mapped)
    BY DEF ForwardInv
  <2> QED BY <2>1
<1> QED BY <1>1, <1>2, <1>3, SameMaps DEF ForwardInv

\* The packet that is handled came from the network port that is polled.
LEMMA HeadOfBurst ==
  ASSUME ForwardInv, NEW p, Handles(p)
  PROVE  p \in Waiting(nic) /\ p.from \in Origins /\ p.from.nic = nic /\ p.from.port = p.port
         /\ p.port \in AntennaPorts
<1>1. p \in Waiting(nic)
  BY DEF Handles, ForwardInv
<1> QED BY <1>1 DEF Waiting, Packet, Origins

\* Nothing was added.
LEMMA DropInv ==
  ASSUME ForwardInv, NEW p, Handles(p), payload' \in Nat, tx_bufs' = tx_bufs
  PROVE  ForwardInv'
<1>1. /\ bufs' = Tail(bufs) /\ bufs # <<>>
      /\ UNCHANGED <<bitmap, nic, rxq, ssb, to_ru, to_du>>
  BY DEF Handles
<1>2. bufs' \in Seq(Waiting(nic))
  BY <1>1 DEF ForwardInv
<1> QED BY <1>1, <1>2, SameMaps DEF ForwardInv

\* What goes to an RU goes to the antenna whose uplink the packet's port gets.
LEMMA DownlinkEntry ==
  ASSUME ForwardInv, NEW p, Handles(p), Serving(p.port) # {}, NEW s \in Nat
  PROVE  LET r == FirstServing(p.port)
         IN  /\ ToSend(r, antenna_fwd_map_dl(r)[p.port], p) \in Mapped
             /\ ToSend(r, antenna_fwd_map_dl(r)[p.port], [p EXCEPT !.samples = s]) \in Mapped
<1> DEFINE r == FirstServing(p.port)
           a == antenna_fwd_map_dl(r)[p.port]
           w == [p EXCEPT !.samples = s]
<1>1. r \in Rus /\ a >= 0
  BY FirstServes DEF Serving
<1>2. bitmap[r] \in SUBSET AntennaPorts
  BY <1>1 DEF ForwardInv
<1>3. a \in AntennaPorts /\ antenna_fwd_map_ul(r)[a] = p.port
  BY <1>1, <1>2, HeadOfBurst, MapsInverse
<1>4. p \in Packet /\ p.from.port = p.port
  BY HeadOfBurst DEF Waiting
<1>5. w \in Packet /\ w.from = p.from
  BY <1>4 DEF Packet
<1> HIDE DEF r, a, w
<1>6. \A x \in Packet : x.from = p.from => ToSend(r, a, x) \in Mapped
  BY <1>1, <1>3, <1>4 DEF ToSend, Mapped, ToAntenna, Outgoing
<1> QED BY <1>4, <1>5, <1>6 DEF r, a, w

\* What goes to an RU goes through the downlink map.
LEMMA ForwardDownlinkInv == ASSUME ForwardInv, ForwardControl \/ ForwardIq PROVE ForwardInv'
<1>1. ASSUME NEW p \in {bufs[i] : i \in DOMAIN bufs}, Handles(p), payload' = payload,
             IF Serving(p.port) # {}
             THEN LET r == FirstServing(p.port)
                  IN  tx_bufs' = Append(tx_bufs, ToSend(r, antenna_fwd_map_dl(r)[p.port], p))
             ELSE tx_bufs' = tx_bufs
      PROVE  ForwardInv'
  <2>1. payload' \in Nat
    BY <1>1 DEF ForwardInv
  <2>2. CASE Serving(p.port) # {}
    <3> DEFINE e == ToSend(FirstServing(p.port), antenna_fwd_map_dl(FirstServing(p.port))[p.port], p)
    <3>1. e \in Mapped /\ tx_bufs' = Append(tx_bufs, e)
      BY <1>1, <2>2, DownlinkEntry
    <3> HIDE DEF e
    <3> QED BY <1>1, <2>1, <3>1, HandleInv
  <2> QED BY <1>1, <2>1, <2>2, DropInv
<1>2. ASSUME ForwardIq PROVE ForwardInv'
  <2>1. PICK p \in {bufs[i] : i \in DOMAIN bufs} :
          /\ Handles(p)
          /\ payload' = IF p.symbol > 0 /\ p.port = 0 THEN p.samples ELSE payload
          /\ tx_bufs' = IF Serving(p.port) = {} THEN tx_bufs
                        ELSE LET r == FirstServing(p.port)
                             IN  Append(tx_bufs, ToSend(r, antenna_fwd_map_dl(r)[p.port], WithSsb(p)))
    BY <1>2 DEF ForwardIq
  <2>2. p \in Packet /\ payload \in Nat
    BY <2>1, HeadOfBurst DEF Waiting, ForwardInv
  <2>3. payload' \in Nat
    BY <2>1, <2>2 DEF Packet
  <2>4. CASE Serving(p.port) # {}
    <3> DEFINE e == ToSend(FirstServing(p.port),
                           antenna_fwd_map_dl(FirstServing(p.port))[p.port], WithSsb(p))
    <3>1. e \in Mapped
      BY <2>1, <2>2, <2>4, DownlinkEntry DEF WithSsb
    <3>2. tx_bufs' = Append(tx_bufs, e)
      BY <2>1, <2>4
    <3> HIDE DEF e
    <3> QED BY <2>1, <2>3, <3>1, <3>2, HandleInv
  <2> QED BY <2>1, <2>3, <2>4, DropInv
<1> QED BY <1>1, <1>2 DEF ForwardControl

\* What goes to the DU carries the port whose downlink goes to the antenna it
\* came from.
LEMMA ForwardUplinkInv == ASSUME ForwardInv, ForwardUplink PROVE ForwardInv'
<1>1. PICK p \in {bufs[i] : i \in DOMAIN bufs}, r \in Rus :
        /\ nic = RuNic(r) /\ Handles(p) /\ payload' = payload
        /\ IF antenna_fwd_map_ul(r)[p.port] >= 0
           THEN tx_bufs' = Append(tx_bufs, ToSend(-1, antenna_fwd_map_ul(r)[p.port], p))
           ELSE tx_bufs' = tx_bufs
  BY DEF ForwardUplink
<1>2. payload' \in Nat /\ bitmap[r] \in SUBSET AntennaPorts
  BY <1>1 DEF ForwardInv
<1>3. CASE antenna_fwd_map_ul(r)[p.port] >= 0
  <2> DEFINE a == antenna_fwd_map_ul(r)[p.port]
  <2>1. a \in bitmap[r] /\ antenna_fwd_map_dl(r)[a] = p.port
    BY <1>1, <1>2, <1>3, HeadOfBurst, MapsInverse
  <2>2. p \in Packet /\ p.from.port = p.port /\ p.from.nic = RuNic(r)
    BY <1>1, HeadOfBurst DEF Waiting
  <2>3. tx_bufs' = Append(tx_bufs, ToSend(-1, a, p))
    BY <1>1, <1>3
  <2> HIDE DEF a
  <2>4. ToSend(-1, a, p) \in Mapped
    BY <1>2, <2>1, <2>2 DEF ToSend, Mapped, ToDu, Outgoing
  <2> QED BY <1>1, <1>2, <2>3, <2>4, HandleInv
<1> QED BY <1>1, <1>2, <1>3, DropInv

\* What has been sent had gone through a map.
LEMMA TxInv == ASSUME ForwardInv, TxBurst PROVE ForwardInv'
<1>1. PICK nb_tx \in 0 .. Len(tx_bufs) :
        LET out == {tx_bufs[i] : i \in 1 .. nb_tx}
        IN  /\ to_ru' = [r \in Rus |-> to_ru[r] \cup {e \in out : e.ru = r}]
            /\ to_du' = to_du \cup {e \in out : e.ru = -1}
  BY DEF TxBurst
<1> DEFINE out == {tx_bufs[i] : i \in 1 .. nb_tx}
<1>2. /\ tx_bufs' = <<>> /\ nic' = nic /\ bufs = <<>> /\ bufs' = bufs
      /\ UNCHANGED <<bitmap, payload, rxq, ssb>>
  BY DEF TxBurst
<1>3. out \subseteq Mapped
  BY DEF ForwardInv
<1>4. /\ to_ru' = [r \in Rus |-> to_ru[r] \cup {e \in out : e.ru = r}]
      /\ to_du' = to_du \cup {e \in out : e.ru = -1}
  BY <1>1
<1> HIDE DEF out
<1>5. \A r \in Rus : r # -1
  BY DEF Rus
<1>6. /\ to_ru' \in [Rus -> SUBSET ToAntenna] /\ to_du' \in SUBSET ToDu
      /\ \A r \in Rus : \A e \in to_ru'[r] : e.ru = r
  BY <1>3, <1>4, <1>5 DEF ForwardInv, Mapped, ToAntenna, ToDu
<1> QED BY <1>2, <1>6, SameMaps DEF ForwardInv

\* A packet arrives, its port and its origin being the same.
LEMMA ReceiveInv ==
  ASSUME ForwardInv, NEW n \in Nics, NEW kind \in Kinds, NEW port \in AntennaPorts,
         NEW symbol \in Nat, Receive(n, NewPacket(n, kind, port, symbol)), ssb' \in Nat
  PROVE  ForwardInv'
<1> DEFINE p == NewPacket(n, kind, port, symbol)
<1>1. p \in Waiting(n)
  BY DEF NewPacket, Waiting, Packet, Origins
<1>2. /\ rxq' = [rxq EXCEPT ![n] = Append(rxq[n], p)]
      /\ UNCHANGED <<bitmap, nic, bufs, tx_bufs, payload, to_ru, to_du>>
  BY DEF Receive
<1> HIDE DEF p
<1>3. DOMAIN rxq' = Nics /\ \A m \in Nics : rxq'[m] \in Seq(Waiting(m))
  BY <1>1, <1>2 DEF ForwardInv
<1> QED BY <1>2, <1>3, SameMaps DEF ForwardInv

\* Every step keeps the invariant.
LEMMA ForwardStep == ForwardInv /\ [Next]_vars => ForwardInv'
<1> SUFFICES ASSUME ForwardInv, [Next]_vars PROVE ForwardInv'
  OBVIOUS
<1>1. CASE lcore_main
  <2>1. CASE Ignore
    <3>1. PICK p \in {bufs[i] : i \in DOMAIN bufs} : Handles(p) /\ UNCHANGED <<tx_bufs, payload>>
      BY <2>1 DEF Ignore
    <3>2. payload' \in Nat
      BY <3>1 DEF ForwardInv
    <3> QED BY <3>1, <3>2, DropInv
  <2> QED BY <1>1, <2>1, RxInv, ForwardDownlinkInv, ForwardUplinkInv, TxInv DEF lcore_main
<1>2. CASE ReceiveAny
  <2>1. PICK n \in Nics, kind \in Kinds, port \in AntennaPorts :
          Receive(n, NewPacket(n, kind, port, 0)) /\ ssb' = ssb
    BY <1>2 DEF ReceiveAny
  <2>2. ssb' \in Nat /\ 0 \in Nat
    BY <2>1 DEF ForwardInv
  <2> QED BY <2>1, <2>2, ReceiveInv
<1>3. CASE ReceiveNewSsb \/ ReceiveSsb
  <2>1. DuNic \in Nics /\ ssb \in Nat /\ ssb + 1 \in Nat
    BY DmimoAssumption DEF DuNic, Nics, ForwardInv
  <2>2. CASE ReceiveNewSsb
    <3>1. PICK port \in AntennaPorts :
            "iq" \in Kinds /\ Receive(DuNic, NewPacket(DuNic, "iq", port, ssb + 1)) /\ ssb' = ssb + 1
      BY <2>2 DEF ReceiveNewSsb
    <3> QED BY <2>1, <3>1, ReceiveInv
  <2>3. CASE ReceiveSsb
    <3>1. PICK port \in AntennaPorts :
            "iq" \in Kinds /\ Receive(DuNic, NewPacket(DuNic, "iq", port, ssb)) /\ ssb' = ssb
      BY <2>3 DEF ReceiveSsb
    <3> QED BY <2>1, <3>1, ReceiveInv
  <2> QED BY <1>3, <2>2, <2>3
<1>4. CASE UNCHANGED vars
  BY <1>4, SameMaps DEF ForwardInv, vars
<1> QED BY <1>1, <1>2, <1>3, <1>4 DEF Next, Aborted

\* What has gone through one map is undone by the other.
LEMMA InvImpliesRoundTrip == ForwardInv => PortsRoundTrip
<1> SUFFICES ASSUME ForwardInv PROVE PortsRoundTrip
  OBVIOUS
<1>1. DownlinkRoundTrip
  <2> SUFFICES ASSUME NEW r \in Rus, NEW e \in to_ru[r]
               PROVE  antenna_fwd_map_ul(r)[e.port] = e.packet.from.port
    BY DEF DownlinkRoundTrip
  <2>1. e \in ToAntenna /\ e.ru = r
    BY DEF ForwardInv
  <2> QED BY <2>1 DEF ToAntenna
<1>2. UplinkRoundTrip
  <2> SUFFICES ASSUME Disjoint, NEW e \in to_du
               PROVE  LET r == FirstServing(e.port)
                      IN  /\ Serving(e.port) # {}
                          /\ e.packet.from.nic = RuNic(r)
                          /\ antenna_fwd_map_dl(r)[e.port] = e.packet.from.port
    BY DEF UplinkRoundTrip
  <2>1. e \in ToDu
    BY DEF ForwardInv
  <2>2. PICK r \in Rus : /\ e.packet.from.nic = RuNic(r)
                         /\ antenna_fwd_map_dl(r)[e.port] = e.packet.from.port
    BY <2>1 DEF ToDu
  <2>3. e.port \in AntennaPorts /\ e.packet.from.port \in AntennaPorts
    BY <2>1 DEF ToDu, Outgoing, Packet, Origins
  <2>4. r \in Serving(e.port)
    BY <2>2, <2>3 DEF Serving, AntennaPorts
  <2>5. \A q \in Serving(e.port) : q \in Rus /\ e.port \in bitmap[q]
    BY <2>3, MapsInverse DEF Serving, ForwardInv
  <2>6. \A q \in Serving(e.port) : q = r
    BY <2>4, <2>5 DEF Disjoint
  <2>7. FirstServing(e.port) = r
    BY <2>4, <2>6, FirstServes
  <2> QED BY <2>2, <2>4, <2>7
<1> QED BY <1>1, <1>2 DEF PortsRoundTrip

\* What leaves for an antenna was sent on the port whose uplink comes from that
\* antenna and, when no two RUs serve the same port, the other way round, for
\* any bitmaps: the loops of main that build the two maps (459-490) agree.
THEOREM MapsAgree == Spec => []PortsRoundTrip
BY ForwardInit, ForwardStep, InvImpliesRoundTrip, PTL DEF Spec

-----------------------------------------------------------------------------
(* Mbufs                                                                   *)

\* The mbufs taken from a pool are those that the program or a queue holds,
\* and those leaked; of the latter there are some only in the DU's pool, when
\* a port is served by no RU.
AllServed == \A p \in AntennaPorts : Serving(p) # {}
MbufInv ==
  /\ in_use \in [Nics -> 0 .. NumBufs]
  /\ alive => \A n \in Nics : /\ Held(n) <= in_use[n]
                              /\ n # DuNic \/ AllServed => in_use[n] = Held(n)

\* What is held is counted by natural numbers, which depend on Len only.
LEMMA HeldTypes ==
  ASSUME ForwardInv
  PROVE  /\ nic \in Nics /\ Len(bufs) \in Nat /\ Len(tx_bufs) \in Nat
         /\ \A n \in Nics : Len(rxq[n]) \in Nat /\ Held(n) \in Nat
         /\ \A n \in Nics : n # nic => Held(n) = Len(rxq[n])
         /\ Held(nic) = Len(rxq[nic]) + Len(bufs) + Len(tx_bufs)
<1>1. nic \in Nics /\ bufs \in Seq(Waiting(nic)) /\ tx_bufs \in Seq(Mapped)
      /\ \A n \in Nics : rxq[n] \in Seq(Waiting(n))
  BY DEF ForwardInv
<1>2. Len(bufs) \in Nat /\ Len(tx_bufs) \in Nat /\ \A n \in Nics : Len(rxq[n]) \in Nat
  BY <1>1
<1>3. \A n \in Nics : n # nic => Held(n) = Len(rxq[n])
  BY <1>1, <1>2 DEF Held
<1>4. Held(nic) = Len(rxq[nic]) + (Len(bufs) + Len(tx_bufs))
  BY <1>1 DEF Held
<1>5. Len(rxq[nic]) \in Nat
  BY <1>1, <1>2
<1>6. Held(nic) = Len(rxq[nic]) + Len(bufs) + Len(tx_bufs) /\ Held(nic) \in Nat
  <2>1. PICK a \in Nat, b \in Nat, c \in Nat :
          a = Len(rxq[nic]) /\ b = Len(bufs) /\ c = Len(tx_bufs)
    BY <1>2, <1>5
  <2>2. Held(nic) = a + (b + c)
    BY <1>4, <2>1
  <2>3. a + (b + c) = a + b + c /\ a + b + c \in Nat
    OBVIOUS
  <2> QED BY <2>1, <2>2, <2>3
<1>7. \A n \in Nics : Held(n) \in Nat
  BY <1>2, <1>3, <1>6
<1> QED BY <1>1, <1>2, <1>3, <1>6, <1>7

\* The length of a sequence that something joins, whatever it is.
LEMMA AppendTypes ==
  ASSUME NEW S, NEW q \in Seq(S), NEW e
  PROVE  Len(Append(q, e)) = Len(q) + 1 /\ Len(q) \in Nat /\ Len(Append(q, e)) \in Nat
<1>1. q \in Seq(S \cup {e}) /\ e \in S \cup {e}
  OBVIOUS
<1> QED BY <1>1

\* No mbuf is taken at the start.
LEMMA MbufInit == Init => MbufInv
<1> SUFFICES ASSUME Init PROVE MbufInv
  OBVIOUS
<1>1. in_use \in [Nics -> 0 .. NumBufs]
  BY DmimoAssumption DEF Init
<1>2. \A n \in Nics : Held(n) = 0 /\ in_use[n] = 0
  BY DEF Init, Held
<1> QED BY <1>1, <1>2 DEF MbufInv

\* A step of the program holds h mbufs of pool m less, and gives back k of them;
\* the others leak.
Freed(m, k, h) ==
  /\ bitmap' = bitmap
  /\ in_use' = [n \in Nics |-> IF n = m THEN in_use[n] - k ELSE in_use[n]]
  /\ Held(m)' = Held(m) - h /\ h <= Held(m)
  /\ \A n \in Nics : n # m => Held(n)' = Held(n)
\* A step that frees what it no longer holds keeps the invariant, and so does one
\* that leaks when it may.
LEMMA MbufsFreed ==
  ASSUME ForwardInv, MbufInv, alive, NEW m \in Nics, NEW k \in Nat, NEW h \in Nat,
         Freed(m, k, h), k <= h, k = h \/ (m = DuNic /\ ~AllServed)
  PROVE  MbufInv'
<1>1. in_use \in [Nics -> 0 .. NumBufs] /\ NumBufs \in Nat
  BY DmimoAssumption DEF MbufInv
<1>2. AllServed' = AllServed
  BY DEF Freed, AllServed, Serving, antenna_fwd_map_dl
<1>3. \A n \in Nics : /\ Held(n) \in Nat /\ Held(n) <= in_use[n]
                      /\ n # DuNic \/ AllServed => in_use[n] = Held(n)
  BY HeldTypes DEF MbufInv
<1>4. ASSUME NEW n \in Nics
      PROVE  /\ in_use'[n] \in 0 .. NumBufs /\ Held(n)' <= in_use'[n]
             /\ n # DuNic \/ AllServed => in_use'[n] = Held(n)'
  <2>1. CASE n = m
    <3>1. in_use'[n] = in_use[n] - k /\ Held(n)' = Held(n) - h /\ h <= Held(n)
      BY <2>1 DEF Freed
    <3> QED BY <1>1, <1>3, <2>1, <3>1
  <2>2. CASE n # m
    BY <1>1, <1>3, <2>2 DEF Freed
  <2> QED BY <2>1, <2>2
<1>5. in_use' \in [Nics -> 0 .. NumBufs]
  BY <1>4 DEF Freed
<1> QED BY <1>2, <1>4, <1>5 DEF MbufInv

\* A packet of the burst is handled: it is to be sent, or freed, or leaks.
LEMMA HandleMbufs ==
  ASSUME ForwardInv, MbufInv, NEW p, Handles(p), NEW e,
         \/ tx_bufs' = Append(tx_bufs, e) /\ in_use' = in_use
         \/ tx_bufs' = tx_bufs /\ FreeBuf
         \/ tx_bufs' = tx_bufs /\ in_use' = in_use /\ nic = DuNic /\ ~AllServed
  PROVE  MbufInv'
<1>1. PICK m \in Nics : m = nic
  BY HeldTypes
<1>2. /\ alive /\ bufs # <<>> /\ bufs' = Tail(bufs)
      /\ UNCHANGED <<bitmap, nic, rxq>>
  BY DEF Handles
<1>3. Len(bufs') = Len(bufs) - 1 /\ Len(bufs) \in Nat \ {0}
  <2>1. bufs \in Seq(Waiting(nic))
    BY DEF ForwardInv
  <2> QED BY <1>2, <2>1
<1>4. \A n \in Nics : n # m => Held(n)' = Held(n)
  BY <1>1, <1>2 DEF Held
<1>5. Held(m)' = Len(rxq[m]) + Len(bufs') + Len(tx_bufs')
      /\ Held(m) = Len(rxq[m]) + Len(bufs) + Len(tx_bufs)
      /\ Len(rxq[m]) \in Nat /\ Len(tx_bufs) \in Nat
  <2>1. Held(m)' = Len(rxq[m]) + (Len(bufs') + Len(tx_bufs'))
    BY <1>1, <1>2 DEF Held
  <2>2. Len(tx_bufs') \in Nat
    <3>1. tx_bufs \in Seq(Mapped)
      BY DEF ForwardInv
    <3>2. CASE tx_bufs' = Append(tx_bufs, e)
      BY <3>1, <3>2, AppendTypes
    <3> QED BY <3>1, <3>2
  <2>3. Held(m) = Len(rxq[m]) + (Len(bufs) + Len(tx_bufs))
    BY <1>1 DEF Held
  <2>4. Len(rxq[m]) \in Nat /\ Len(tx_bufs) \in Nat
    BY HeldTypes
  <2>5. Len(bufs') \in Nat /\ Len(bufs) \in Nat
    BY <1>3
  <2>6. \A a, b, c \in Nat : a + (b + c) = a + b + c
    OBVIOUS
  <2> QED BY <2>1, <2>2, <2>3, <2>4, <2>5, <2>6
<1>6. in_use \in [Nics -> 0 .. NumBufs]
  BY DEF MbufInv
<1>7. CASE tx_bufs' = Append(tx_bufs, e) /\ in_use' = in_use
  <2>1. Len(tx_bufs') = Len(tx_bufs) + 1
    <3>1. tx_bufs \in Seq(Mapped)
      BY DEF ForwardInv
    <3> QED BY <1>7, <3>1, AppendTypes
  <2>2. Held(m)' = Held(m) - 0 /\ 0 <= Held(m)
    <3>1. PICK a \in Nat, b \in Nat, c \in Nat : a = Len(rxq[m]) /\ b = Len(bufs) /\ c = Len(tx_bufs)
      BY <1>3, <1>5
    <3>2. Held(m)' = a + (b - 1) + (c + 1) /\ Held(m) = a + b + c
      BY <1>3, <1>5, <2>1, <3>1
    <3> QED BY <3>2
  <2>3. in_use' = [n \in Nics |-> IF n = m THEN in_use[n] - 0 ELSE in_use[n]]
    BY <1>6, <1>7, DmimoAssumption
  <2>4. Freed(m, 0, 0)
    BY <1>2, <1>4, <2>2, <2>3 DEF Freed
  <2> QED BY <1>2, <2>4, MbufsFreed
<1>8. CASE tx_bufs' = tx_bufs /\ FreeBuf
  <2>1. Held(m)' = Held(m) - 1 /\ 1 <= Held(m)
    BY <1>3, <1>5, <1>8
  <2>2. in_use' = [n \in Nics |-> IF n = m THEN in_use[n] - 1 ELSE in_use[n]]
    BY <1>1, <1>6, <1>8 DEF FreeBuf
  <2>3. Freed(m, 1, 1)
    BY <1>2, <1>4, <2>1, <2>2 DEF Freed
  <2> QED BY <1>2, <2>3, MbufsFreed
<1>9. CASE tx_bufs' = tx_bufs /\ in_use' = in_use /\ nic = DuNic /\ ~AllServed
  <2>1. Held(m)' = Held(m) - 1 /\ 1 <= Held(m)
    BY <1>3, <1>5, <1>9
  <2>2. in_use' = [n \in Nics |-> IF n = m THEN in_use[n] - 0 ELSE in_use[n]]
    BY <1>6, <1>9, DmimoAssumption
  <2>3. Freed(m, 0, 1)
    BY <1>2, <1>4, <2>1, <2>2 DEF Freed
  <2> QED BY <1>1, <1>2, <1>9, <2>3, MbufsFreed
<1> QED BY <1>7, <1>8, <1>9

\* The steps of the thread.
LEMMA RxMbufs == ASSUME ForwardInv, MbufInv, RxBurst PROVE MbufInv'
<1>1. PICK m \in Nics : m = NextNic
  BY HeldTypes, NextIsNic
<1>2. PICK n : n = AtMostBurst(rxq[m])
  OBVIOUS
<1>3. /\ alive /\ bufs = <<>> /\ tx_bufs = <<>> /\ tx_bufs' = tx_bufs
      /\ bufs' = SubSeq(rxq[m], 1, n)
      /\ rxq' = [rxq EXCEPT ![m] = SubSeq(rxq[m], n + 1, Len(rxq[m]))]
      /\ nic' = m
      /\ UNCHANGED <<bitmap, in_use>>
  BY <1>1, <1>2 DEF RxBurst
<1>4. DOMAIN rxq = Nics /\ rxq[m] \in Seq(Waiting(m)) /\ n \in 0 .. Len(rxq[m])
  BY <1>2, DmimoAssumption DEF ForwardInv, AtMostBurst
<1>5. Len(rxq[m]) \in Nat /\ n \in Nat /\ Len(bufs') = n /\ Len(rxq'[m]) = Len(rxq[m]) - n
  BY <1>3, <1>4
<1>6. \A c \in Nics : c # m => rxq'[c] = rxq[c]
  BY <1>3, <1>4
<1>7. \A c \in Nics : Len(rxq[c]) \in Nat /\ Held(c) = Len(rxq[c])
  BY <1>3, HeldTypes
<1>8. Len(tx_bufs') = 0
  BY <1>3
<1>9. \A c \in Nics : Held(c)' = Held(c)
  <2> SUFFICES ASSUME NEW c \in Nics PROVE Held(c)' = Held(c)
    OBVIOUS
  <2>1. Held(c)' = Len(rxq'[c]) + (IF c = nic' THEN Len(bufs') + Len(tx_bufs') ELSE 0)
    BY DEF Held
  <2>2. Len(rxq'[c]) = (IF c = m THEN Len(rxq[c]) - n ELSE Len(rxq[c])) /\ Len(rxq[c]) \in Nat
    BY <1>5, <1>6, <1>7
  <2>3. Held(c)' = Len(rxq'[c]) + (IF c = nic' THEN n + 0 ELSE 0)
    BY <1>5, <1>8, <2>1
  <2>4. Held(c)' = Len(rxq[c])
    BY <1>3, <1>5, <2>2, <2>3
  <2> QED BY <1>7, <2>4
<1>10. in_use' = [c \in Nics |-> IF c = m THEN in_use[c] - 0 ELSE in_use[c]]
  BY <1>3, DmimoAssumption DEF MbufInv
<1>11. Freed(m, 0, 0)
  BY <1>3, <1>7, <1>9, <1>10 DEF Freed
<1> QED BY <1>3, <1>11, MbufsFreed

\* What was to be sent is no longer held, and freed, sent or not.
LEMMA TxMbufs == ASSUME ForwardInv, MbufInv, TxBurst PROVE MbufInv'
<1>1. PICK m \in Nics : m = nic
  BY HeldTypes
<1>2. /\ alive /\ bufs = <<>> /\ bufs' = bufs /\ tx_bufs' = <<>>
      /\ in_use' = [in_use EXCEPT ![m] = @ - Len(tx_bufs)]
      /\ UNCHANGED <<bitmap, rxq>>
  BY <1>1 DEF TxBurst, FreedAfterTx
<1>3. Len(bufs) = 0 /\ Len(bufs') = 0 /\ Len(tx_bufs') = 0
  BY <1>2
<1>4. PICK k : k = Len(tx_bufs)
  OBVIOUS
<1>5. k \in Nat /\ \A n \in Nics : Len(rxq[n]) \in Nat
  BY <1>4, HeldTypes
<1>6. \A n \in Nics : Held(n)' = Len(rxq[n])
  <2> SUFFICES ASSUME NEW n \in Nics PROVE Held(n)' = Len(rxq[n])
    OBVIOUS
  <2>1. Held(n)' = Len(rxq[n]) + (IF n = nic' THEN 0 + 0 ELSE 0)
    BY <1>2, <1>3 DEF Held
  <2> QED BY <1>5, <2>1
<1>7. in_use' = [n \in Nics |-> IF n = m THEN in_use[n] - k ELSE in_use[n]]
  BY <1>2, <1>4 DEF MbufInv
<1>8. Held(m)' = Held(m) - k /\ k <= Held(m)
  <2>1. Held(m) = Len(rxq[m]) + (0 + k)
    BY <1>1, <1>3, <1>4 DEF Held
  <2>2. Held(m)' = Len(rxq[m])
    BY <1>6
  <2> QED BY <1>5, <2>1, <2>2
<1>9. \A n \in Nics : n # m => Held(n)' = Held(n)
  <2>1. \A n \in Nics : n # m => Held(n) = Len(rxq[n])
    BY <1>1, HeldTypes
  <2> QED BY <1>6, <2>1
<1>10. Freed(m, k, k)
  BY <1>2, <1>7, <1>8, <1>9 DEF Freed
<1> QED BY <1>2, <1>5, <1>10, MbufsFreed

\* A packet is received in an mbuf of the pool.
LEMMA ReceiveMbufs ==
  ASSUME ForwardInv, MbufInv, NEW n \in Nics, NEW p, Receive(n, p)
  PROVE  MbufInv'
<1>1. /\ in_use[n] < NumBufs /\ in_use' = [in_use EXCEPT ![n] = @ + 1]
      /\ rxq' = [rxq EXCEPT ![n] = Append(rxq[n], p)]
      /\ UNCHANGED <<bitmap, nic, bufs, tx_bufs, alive>>
  BY DEF Receive
<1>2. in_use \in [Nics -> 0 .. NumBufs] /\ NumBufs \in Nat
  BY DmimoAssumption DEF MbufInv
<1>3. in_use' \in [Nics -> 0 .. NumBufs]
  BY <1>1, <1>2
<1>4. DOMAIN rxq = Nics /\ rxq[n] \in Seq(Waiting(n))
  BY DEF ForwardInv
<1>5. Len(rxq'[n]) = Len(rxq[n]) + 1 /\ Len(rxq[n]) \in Nat
  BY <1>1, <1>4, AppendTypes
<1>6. \A c \in Nics : Held(c) \in Nat /\ Held(c)' = IF c = n THEN Held(c) + 1 ELSE Held(c)
  <2> SUFFICES ASSUME NEW c \in Nics
               PROVE  Held(c) \in Nat /\ Held(c)' = IF c = n THEN Held(c) + 1 ELSE Held(c)
    OBVIOUS
  <2>1. Len(bufs) \in Nat /\ Len(tx_bufs) \in Nat /\ Len(rxq[c]) \in Nat /\ Held(c) \in Nat
    BY HeldTypes
  <2>2. Held(c)' = Len(rxq'[c]) + (IF c = nic THEN Len(bufs) + Len(tx_bufs) ELSE 0)
    BY <1>1 DEF Held
  <2>3. Held(c) = Len(rxq[c]) + (IF c = nic THEN Len(bufs) + Len(tx_bufs) ELSE 0)
    BY DEF Held
  <2>4. CASE c = n
    <3>1. \A a, b \in Nat : (a + 1) + b = (a + b) + 1
      OBVIOUS
    <3>2. PICK b : b = IF c = nic THEN Len(bufs) + Len(tx_bufs) ELSE 0
      OBVIOUS
    <3>3. b \in Nat
      BY <2>1, <3>2
    <3>4. Held(c)' = Len(rxq[c]) + 1 + b /\ Held(c) = Len(rxq[c]) + b
      BY <1>5, <2>2, <2>3, <2>4, <3>2
    <3> QED BY <2>1, <2>4, <3>1, <3>3, <3>4
  <2>5. CASE c # n
    <3>1. rxq'[c] = rxq[c]
      BY <1>1, <1>4, <2>5
    <3> QED BY <2>1, <2>2, <2>3, <2>5, <3>1
  <2> QED BY <2>4, <2>5
<1>7. AllServed' = AllServed
  BY <1>1 DEF AllServed, Serving, antenna_fwd_map_dl
<1>8. ASSUME alive, NEW c \in Nics
      PROVE  Held(c)' <= in_use'[c] /\ (c # DuNic \/ AllServed => in_use'[c] = Held(c)')
  <2>1. Held(c) <= in_use[c] /\ (c # DuNic \/ AllServed => in_use[c] = Held(c)) /\ in_use[c] \in Nat
    BY <1>2, <1>8 DEF MbufInv
  <2>2. in_use'[c] = IF c = n THEN in_use[c] + 1 ELSE in_use[c]
    BY <1>1, <1>2
  <2> QED BY <1>6, <2>1, <2>2
<1> QED BY <1>1, <1>3, <1>7, <1>8 DEF MbufInv

\* Every step keeps the invariant.
LEMMA MbufStep == ForwardInv /\ MbufInv /\ [Next]_vars => MbufInv'
<1> SUFFICES ASSUME ForwardInv, MbufInv, [Next]_vars PROVE MbufInv'
  OBVIOUS
<1>1. CASE Ignore
  <2>1. PICK p : Handles(p) /\ FreeBuf /\ tx_bufs' = tx_bufs
    BY <1>1 DEF Ignore
  <2> QED BY <2>1, HandleMbufs
<1>2. CASE ForwardControl
  <2>1. PICK p : /\ Handles(p)
                 /\ \/ \E e : tx_bufs' = Append(tx_bufs, e) /\ in_use' = in_use
                    \/ tx_bufs' = tx_bufs /\ FreeBuf
    BY <1>2 DEF ForwardControl
  <2> QED BY <2>1, HandleMbufs
<1>3. CASE ForwardIq
  <2>1. PICK p \in {bufs[i] : i \in DOMAIN bufs} :
          /\ nic = DuNic /\ Handles(p) /\ in_use' = in_use
          /\ \/ \E e : tx_bufs' = Append(tx_bufs, e)
             \/ tx_bufs' = tx_bufs /\ Serving(p.port) = {}
    BY <1>3 DEF ForwardIq
  <2>2. Serving(p.port) = {} => ~AllServed
    BY <2>1, HeadOfBurst DEF AllServed
  <2> QED BY <2>1, <2>2, HandleMbufs
<1>4. CASE ForwardUplink
  <2>1. PICK p : /\ Handles(p)
                 /\ \/ \E e : tx_bufs' = Append(tx_bufs, e) /\ in_use' = in_use
                    \/ tx_bufs' = tx_bufs /\ FreeBuf
    BY <1>4 DEF ForwardUplink
  <2> QED BY <2>1, HandleMbufs
<1>5. CASE ReceiveAny \/ ReceiveNewSsb \/ ReceiveSsb
  <2>1. DuNic \in Nics
    BY DmimoAssumption DEF DuNic, Nics
  <2>2. PICK n \in Nics : \E p : Receive(n, p)
    BY <1>5, <2>1 DEF ReceiveAny, ReceiveNewSsb, ReceiveSsb
  <2> QED BY <2>2, ReceiveMbufs
<1>6. CASE UNCHANGED vars
  <2>1. \A n \in Nics : Held(n)' = Held(n)
    BY <1>6 DEF Held, vars
  <2>2. AllServed' = AllServed
    BY <1>6 DEF AllServed, Serving, antenna_fwd_map_dl, vars
  <2>3. in_use' = in_use /\ alive' = alive
    BY <1>6 DEF vars
  <2> QED BY <2>1, <2>2, <2>3 DEF MbufInv
<1> QED BY <1>1, <1>2, <1>3, <1>4, <1>5, <1>6, RxMbufs, TxMbufs DEF Next, lcore_main, Aborted

\* Until an assertion fails, whatever cannot be sent and whoever sends it, no mbuf
\* of an RU's pool is leaked, nor one of the DU's pool if each port has an RU.
THEOREM OnlyUnservedLeak == Spec => []LeaksOnlyUnserved
<1>1. MbufInv => LeaksOnlyUnserved
  <2> SUFFICES ASSUME MbufInv, alive
               PROVE  /\ \A n \in Nics : in_use[n] >= Held(n)
                      /\ \A r \in Rus : in_use[RuNic(r)] = Held(RuNic(r))
                      /\ AllServed => in_use[DuNic] = Held(DuNic)
    BY DEF LeaksOnlyUnserved, AllServed
  <2>1. DuNic \in Nics /\ \A r \in Rus : RuNic(r) \in Nics /\ RuNic(r) # DuNic
    BY DmimoAssumption DEF DuNic, Nics, Rus, RuNic
  <2>2. \A n \in Nics : Held(n) <= in_use[n] <=> in_use[n] >= Held(n)
    OBVIOUS
  <2> QED BY <2>1, <2>2 DEF MbufInv
<1> QED BY <1>1, ForwardInit, ForwardStep, MbufInit, MbufStep, PTL DEF Spec

-----------------------------------------------------------------------------
(* The SSB                                                                 *)

\* The DU's packets that have not been handled yet.
OfDu == IF nic = DuNic THEN bufs \o rxq[DuNic] ELSE rxq[DuNic]

\* They come in the order of their symbols, the packet for port 0 first; n symbols
\* have been sent, and the samples of symbol k are kept.
IsSsb(p) == p.symbol > 0 => p.kind = "iq" /\ (p.port = 0 => p.samples = p.symbol)
InOrder(q, k, n) ==
  /\ \A i \in 1 .. Len(q) : IsSsb(q[i]) /\ (q[i].symbol > 0 => k <= q[i].symbol /\ q[i].symbol <= n)
  /\ \A i, j \in 1 .. Len(q) :
       i < j /\ q[i].symbol > 0 /\ q[j].symbol > 0 => q[i].symbol <= q[j].symbol
  /\ \A j \in 1 .. Len(q) : q[j].port # 0 /\ q[j].symbol > k =>
       \E i \in 1 .. Len(q) : i < j /\ q[i].port = 0 /\ q[i].symbol = q[j].symbol
  /\ k <= n
  /\ n > k => \E i \in 1 .. Len(q) : q[i].port = 0 /\ q[i].symbol = n

\* Only the DU's packets are of the SSB; those handled have its samples.
NoSsb(q) == \A i \in 1 .. Len(q) : q[i].symbol = 0
HasSsb(p) == p.symbol > 0 => p.samples = p.symbol
SsbInv ==
  /\ InOrder(OfDu, payload, ssb)
  /\ \A r \in Rus : NoSsb(rxq[RuNic(r)])
  /\ nic # DuNic => NoSsb(bufs)
  /\ \A i \in 1 .. Len(tx_bufs) : HasSsb(tx_bufs[i].packet)
  /\ \A r \in Rus : \A e \in to_ru[r] : HasSsb(e.packet)

\* The first packet for a symbol sets the samples that are kept; the others
\* find them there.
LEMMA OrderOfTail ==
  ASSUME NEW q \in Seq(Packet), q # <<>>, NEW k \in Nat, NEW n \in Nat, InOrder(q, k, n)
  PROVE  /\ IsSsb(Head(q))
         /\ Head(q).symbol > 0 /\ Head(q).port # 0 => k = Head(q).symbol
         /\ InOrder(Tail(q), IF Head(q).symbol > 0 /\ Head(q).port = 0 THEN Head(q).symbol ELSE k, n)
<1> DEFINE t == Tail(q)
<1>1. /\ Len(q) \in Nat /\ 1 \in 1 .. Len(q) /\ Head(q) = q[1] /\ t \in Seq(Packet)
      /\ Len(t) \in Nat /\ Len(q) = Len(t) + 1
      /\ \A i \in 1 .. Len(t) : t[i] = q[i + 1]
      /\ \A i \in 1 .. Len(q) : q[i] \in Packet
  OBVIOUS
<1>2. \A i \in 1 .. Len(t) : i \in Int /\ i + 1 \in 1 .. Len(q) /\ 1 < i + 1
  BY <1>1
<1>3. \A i \in 1 .. Len(q) : i \in Int /\ (i = 1 \/ (i - 1 \in 1 .. Len(t) /\ (i - 1) + 1 = i))
  BY <1>1
<1>4. \A i \in 1 .. Len(q) : q[i].symbol \in Nat
  BY <1>1 DEF Packet
<1> HIDE DEF t
<1>5. PICK h : h = IF q[1].symbol > 0 /\ q[1].port = 0 THEN q[1].symbol ELSE k
  OBVIOUS
<1>6. q[1].symbol > 0 /\ q[1].port # 0 => k = q[1].symbol
  <2> SUFFICES ASSUME q[1].symbol > 0, q[1].port # 0 PROVE k = q[1].symbol
    OBVIOUS
  <2>1. k <= q[1].symbol
    BY <1>1 DEF InOrder
  <2>2. ASSUME q[1].symbol > k PROVE FALSE
    <3>1. PICK i \in 1 .. Len(q) : i < 1
      BY <1>1, <2>2 DEF InOrder
    <3> QED BY <3>1, <1>1
  <2> QED BY <1>1, <1>4, <2>1, <2>2
<1>7. h \in Nat /\ k <= h /\ h <= n
  BY <1>1, <1>4, <1>5 DEF InOrder
<1>8. ASSUME NEW i \in 1 .. Len(q), q[i].symbol > 0 PROVE h <= q[i].symbol
  <2>1. k <= q[i].symbol
    BY <1>8 DEF InOrder
  <2>2. CASE i = 1
    BY <1>4, <1>5, <1>8, <2>1, <2>2
  <2>3. CASE i # 1
    <3>1. 1 < i
      BY <2>3
    <3>2. q[1].symbol > 0 => q[1].symbol <= q[i].symbol
      BY <1>1, <1>8, <3>1 DEF InOrder
    <3> QED BY <1>5, <2>1, <3>2
  <2> QED BY <2>2, <2>3
<1>9. \A i \in 1 .. Len(t) : IsSsb(t[i]) /\ (t[i].symbol > 0 => h <= t[i].symbol /\ t[i].symbol <= n)
  BY <1>1, <1>2, <1>8 DEF InOrder
<1>10. \A i, j \in 1 .. Len(t) :
         i < j /\ t[i].symbol > 0 /\ t[j].symbol > 0 => t[i].symbol <= t[j].symbol
  <2>1. \A i, j \in 1 .. Len(t) : i < j => i + 1 < j + 1
    BY <1>2
  <2> QED BY <1>1, <1>2, <2>1 DEF InOrder
\* What is not the head is in the tail.
<1>11. ASSUME NEW i \in 1 .. Len(q), q[i].port = 0, q[i].symbol > h PROVE i # 1
  BY <1>4, <1>5, <1>7, <1>11
<1>12. ASSUME NEW j \in 1 .. Len(t), t[j].port # 0, t[j].symbol > h
       PROVE  \E i \in 1 .. Len(t) : i < j /\ t[i].port = 0 /\ t[i].symbol = t[j].symbol
  <2>1. j + 1 \in 1 .. Len(q) /\ t[j] = q[j + 1] /\ q[j + 1].symbol > k
    BY <1>1, <1>2, <1>4, <1>7, <1>12
  <2>2. PICK i \in 1 .. Len(q) : i < j + 1 /\ q[i].port = 0 /\ q[i].symbol = t[j].symbol
    BY <1>12, <2>1 DEF InOrder
  <2>3. i - 1 \in 1 .. Len(t) /\ (i - 1) + 1 = i
    BY <1>3, <1>11, <1>12, <2>2
  <2>4. i - 1 < j /\ t[i - 1] = q[i]
    BY <1>1, <1>2, <2>2, <2>3
  <2> QED BY <2>2, <2>3, <2>4
<1>13. n > h => \E i \in 1 .. Len(t) : t[i].port = 0 /\ t[i].symbol = n
  <2> SUFFICES ASSUME n > h PROVE \E i \in 1 .. Len(t) : t[i].port = 0 /\ t[i].symbol = n
    OBVIOUS
  <2>1. n > k
    BY <1>7
  <2>2. PICK i \in 1 .. Len(q) : q[i].port = 0 /\ q[i].symbol = n
    BY <2>1 DEF InOrder
  <2>3. i - 1 \in 1 .. Len(t) /\ (i - 1) + 1 = i
    BY <1>3, <1>11, <2>2
  <2> QED BY <1>1, <2>2, <2>3
<1>14. InOrder(t, h, n)
  BY <1>7, <1>9, <1>10, <1>12, <1>13 DEF InOrder
<1> QED BY <1>1, <1>5, <1>6, <1>14 DEF t, InOrder

\* A packet joins the queue: one that has nothing to do with the SSB, the first of
\* a symbol, or a further one of the latest symbol.
LEMMA OrderOfAppended ==
  ASSUME NEW q \in Seq(Packet), NEW k \in Nat, NEW n \in Nat, InOrder(q, k, n), NEW p \in Packet,
         NEW m \in Nat, IsSsb(p),
         \/ p.symbol = 0 /\ m = n
         \/ p.port = 0 /\ p.symbol = n + 1 /\ m = n + 1
         \/ p.port # 0 /\ p.symbol = n /\ m = n
  PROVE  InOrder(Append(q, p), k, m)
<1> DEFINE r == Append(q, p)
<1>1. /\ Len(q) \in Nat /\ r \in Seq(Packet) /\ Len(r) = Len(q) + 1 /\ r[Len(q) + 1] = p
      /\ \A i \in 1 .. Len(q) : r[i] = q[i] /\ i \in 1 .. Len(r) /\ i < Len(q) + 1
      /\ \A i \in 1 .. Len(r) : i \in 1 .. Len(q) \/ i = Len(q) + 1
      /\ Len(q) + 1 \in 1 .. Len(r)
      /\ \A i \in 1 .. Len(q) : q[i] \in Packet
  OBVIOUS
<1>2. p.symbol \in Nat /\ \A i \in 1 .. Len(q) : q[i].symbol \in Nat
  BY <1>1 DEF Packet
<1> HIDE DEF r
<1>3. n <= m /\ k <= n /\ p.symbol <= m /\ (p.symbol > 0 => n <= p.symbol)
  BY <1>2 DEF InOrder
<1>4. \A i \in 1 .. Len(q) : q[i].symbol > 0 => q[i].symbol <= n
  BY DEF InOrder
<1>5. \A i \in 1 .. Len(r) : IsSsb(r[i]) /\ (r[i].symbol > 0 => k <= r[i].symbol /\ r[i].symbol <= m)
  <2> SUFFICES ASSUME NEW i \in 1 .. Len(r)
               PROVE  IsSsb(r[i]) /\ (r[i].symbol > 0 => k <= r[i].symbol /\ r[i].symbol <= m)
    OBVIOUS
  <2>1. CASE i \in 1 .. Len(q)
    <3>1. IsSsb(q[i]) /\ (q[i].symbol > 0 => k <= q[i].symbol /\ q[i].symbol <= n)
      BY <2>1 DEF InOrder
    <3> QED BY <1>1, <1>2, <1>3, <2>1, <3>1
  <2>2. CASE i = Len(q) + 1
    BY <1>1, <1>2, <1>3, <2>2
  <2> QED BY <1>1, <2>1, <2>2
<1>6. ASSUME NEW i \in 1 .. Len(r), NEW j \in 1 .. Len(r), i < j, r[i].symbol > 0, r[j].symbol > 0
      PROVE  r[i].symbol <= r[j].symbol
  <2>1. i \in 1 .. Len(q)
    BY <1>1, <1>6
  <2>2. CASE j \in 1 .. Len(q)
    BY <1>1, <1>6, <2>1, <2>2 DEF InOrder
  <2>3. CASE j = Len(q) + 1
    BY <1>1, <1>2, <1>3, <1>4, <1>6, <2>1, <2>3
  <2> QED BY <1>1, <2>2, <2>3
<1>7. ASSUME NEW j \in 1 .. Len(r), r[j].port # 0, r[j].symbol > k
      PROVE  \E i \in 1 .. Len(r) : i < j /\ r[i].port = 0 /\ r[i].symbol = r[j].symbol
  <2>1. CASE j \in 1 .. Len(q)
    <3>1. PICK i \in 1 .. Len(q) : i < j /\ q[i].port = 0 /\ q[i].symbol = q[j].symbol
      BY <1>1, <1>7, <2>1 DEF InOrder
    <3> QED BY <1>1, <2>1, <3>1
  <2>2. CASE j = Len(q) + 1
    <3>1. p.symbol = n /\ n > k
      BY <1>1, <1>2, <1>3, <1>7, <2>2
    <3>2. PICK i \in 1 .. Len(q) : q[i].port = 0 /\ q[i].symbol = n
      BY <3>1 DEF InOrder
    <3> QED BY <1>1, <2>2, <3>1, <3>2
  <2> QED BY <1>1, <2>1, <2>2
<1>8. m > k => \E i \in 1 .. Len(r) : r[i].port = 0 /\ r[i].symbol = m
  <2>1. CASE m = n
    <3>1. n > k => \E i \in 1 .. Len(q) : q[i].port = 0 /\ q[i].symbol = n
      BY DEF InOrder
    <3> QED BY <1>1, <2>1, <3>1
  <2>2. CASE m # n
    BY <1>1, <2>2
  <2> QED BY <2>1, <2>2
<1>9. InOrder(r, k, m)
  BY <1>3, <1>5, <1>6, <1>7, <1>8 DEF InOrder
<1> QED BY <1>9 DEF r

\* The types of the queues.
LEMMA QueuesOfPackets ==
  ASSUME ForwardInv
  PROVE  /\ nic \in Nics /\ DuNic \in Nics /\ bufs \in Seq(Packet) /\ OfDu \in Seq(Packet)
         /\ payload \in Nat /\ ssb \in Nat
         /\ DOMAIN rxq = Nics /\ \A n \in Nics : rxq[n] \in Seq(Packet)
<1>1. ASSUME NEW n, NEW q \in Seq(Waiting(n)) PROVE q \in Seq(Packet)
  <2>1. Waiting(n) \in SUBSET Packet
    BY DEF Waiting
  <2> HIDE DEF Waiting
  <2> QED BY <2>1
<1>2. nic \in Nics /\ DuNic \in Nics /\ bufs \in Seq(Packet) /\ DOMAIN rxq = Nics
      /\ \A n \in Nics : rxq[n] \in Seq(Packet)
  BY <1>1, DmimoAssumption DEF ForwardInv, DuNic, Nics
<1>3. OfDu \in Seq(Packet)
  BY <1>2 DEF OfDu
<1> QED BY <1>2, <1>3 DEF ForwardInv

\* A packet of the DU is handled: the next one, and the others stay.
LEMMA NextOfDu ==
  ASSUME NEW S, NEW q \in Seq(S), NEW r \in Seq(S), q # <<>>
  PROVE  q \o r # <<>> /\ Head(q \o r) = Head(q) /\ Tail(q \o r) = Tail(q) \o r
<1>1. q \o r \in Seq(S) /\ Len(q \o r) = Len(q) + Len(r) /\ Len(q) \in Nat \ {0} /\ Len(r) \in Nat
  OBVIOUS
<1>2. q \o r # <<>> /\ Head(q \o r) = (q \o r)[1] /\ (q \o r)[1] = q[1] /\ Head(q) = q[1]
  BY <1>1
<1>3. Tail(q \o r) \in Seq(S) /\ Len(Tail(q \o r)) = Len(q) + Len(r) - 1
  BY <1>1, <1>2
<1>4. Tail(q) \in Seq(S) /\ Len(Tail(q)) = Len(q) - 1
  BY <1>1
<1>5. Tail(q) \o r \in Seq(S) /\ Len(Tail(q) \o r) = Len(q) - 1 + Len(r)
  BY <1>1, <1>4
<1>6. ASSUME NEW i \in 1 .. Len(q) + Len(r) - 1 PROVE Tail(q \o r)[i] = (Tail(q) \o r)[i]
  <2>1. Tail(q \o r)[i] = (q \o r)[i + 1]
    BY <1>1, <1>2, <1>3
  <2>2. CASE i <= Len(q) - 1
    BY <1>1, <1>4, <2>1, <2>2
  <2>3. CASE i > Len(q) - 1
    BY <1>1, <1>4, <2>1, <2>3
  <2> QED BY <1>1, <2>2, <2>3
<1>7. Len(Tail(q \o r)) = Len(Tail(q) \o r)
  BY <1>1, <1>3, <1>5
<1>8. Tail(q \o r) = Tail(q) \o r
  BY <1>1, <1>3, <1>5, <1>6, <1>7
<1> QED BY <1>2, <1>8

\* Nothing has been sent at the start.
LEMMA SsbInit == Init => SsbInv
<1> SUFFICES ASSUME Init PROVE SsbInv
  OBVIOUS
<1>1. /\ bufs = <<>> /\ tx_bufs = <<>> /\ payload = 0 /\ ssb = 0
      /\ \A n \in Nics : rxq[n] = <<>>
      /\ \A r \in Rus : to_ru[r] = {}
  BY DEF Init
<1>2. DuNic \in Nics /\ \A r \in Rus : RuNic(r) \in Nics
  BY DmimoAssumption DEF DuNic, RuNic, Nics, Rus
<1>3. OfDu = <<>>
  BY <1>1, <1>2 DEF OfDu
<1>4. InOrder(<<>>, 0, 0)
  BY DEF InOrder
<1>5. NoSsb(<<>>)
  BY DEF NoSsb
<1> QED BY <1>1, <1>2, <1>3, <1>4, <1>5 DEF SsbInv

\* What a packet that is handled leaves of the queue of the DU's packets.
LEMMA HandledOfDu ==
  ASSUME ForwardInv, NEW p, Handles(p)
  PROVE  /\ p \in Packet /\ p = Head(bufs)
         /\ nic = DuNic => OfDu # <<>> /\ Head(OfDu) = p /\ OfDu' = Tail(OfDu)
         /\ nic # DuNic => OfDu' = OfDu
<1>1. /\ bufs # <<>> /\ p = Head(bufs) /\ bufs' = Tail(bufs) /\ nic' = nic /\ rxq' = rxq
  BY DEF Handles
<1>2. bufs \in Seq(Packet) /\ rxq[DuNic] \in Seq(Packet)
  BY QueuesOfPackets
<1>3. p \in Packet
  BY <1>1, <1>2
<1>4. ASSUME nic = DuNic PROVE OfDu # <<>> /\ Head(OfDu) = p /\ OfDu' = Tail(OfDu)
  <2>1. OfDu = bufs \o rxq[DuNic] /\ OfDu' = Tail(bufs) \o rxq[DuNic]
    BY <1>1, <1>4 DEF OfDu
  <2> QED BY <1>1, <1>2, <2>1, NextOfDu
<1> QED BY <1>1, <1>3, <1>4 DEF OfDu

\* A packet is handled, and one with the right samples may be sent.
LEMMA HandleSsb ==
  ASSUME ForwardInv, SsbInv, NEW p, Handles(p), InOrder(OfDu', payload', ssb),
         \/ tx_bufs' = tx_bufs
         \/ \E e : tx_bufs' = Append(tx_bufs, e) /\ HasSsb(e.packet)
  PROVE  SsbInv'
<1>1. /\ bufs # <<>> /\ bufs' = Tail(bufs) /\ UNCHANGED <<nic, rxq, ssb, to_ru>>
  BY DEF Handles
<1>2. nic' # DuNic => NoSsb(bufs')
  <2>1. bufs \in Seq(Packet)
    BY QueuesOfPackets
  <2>2. /\ Len(bufs) \in Nat
        /\ \A i \in 1 .. Len(bufs') : bufs'[i] = bufs[i + 1] /\ i + 1 \in 1 .. Len(bufs)
    BY <1>1, <2>1
  <2> QED BY <1>1, <2>2 DEF SsbInv, NoSsb
<1>3. \A i \in 1 .. Len(tx_bufs') : HasSsb(tx_bufs'[i].packet)
  <2>1. tx_bufs \in Seq(Mapped)
    BY DEF ForwardInv
  <2>2. CASE tx_bufs' = tx_bufs
    BY <2>2 DEF SsbInv
  <2>3. ASSUME NEW e, tx_bufs' = Append(tx_bufs, e), HasSsb(e.packet)
        PROVE  \A i \in 1 .. Len(tx_bufs') : HasSsb(tx_bufs'[i].packet)
    <3>1. tx_bufs \in Seq(Mapped \cup {e}) /\ e \in Mapped \cup {e}
      BY <2>1
    <3>2. \A i \in 1 .. Len(tx_bufs') : (i \in 1 .. Len(tx_bufs) /\ tx_bufs'[i] = tx_bufs[i])
                                        \/ tx_bufs'[i] = e
      BY <2>3, <3>1
    <3> QED BY <2>3, <3>2 DEF SsbInv
  <2> QED BY <2>2, <2>3
<1>4. (\A r \in Rus : NoSsb(rxq'[RuNic(r)])) /\ \A r \in Rus : \A e \in to_ru'[r] : HasSsb(e.packet)
  BY <1>1 DEF SsbInv
<1>5. InOrder(OfDu', payload', ssb')
  BY <1>1
<1> QED BY <1>2, <1>3, <1>4, <1>5 DEF SsbInv

\* A sequence that is cut in two.
LEMMA TwoParts ==
  ASSUME NEW S, NEW q \in Seq(S), NEW n \in 0 .. Len(q)
  PROVE  SubSeq(q, 1, n) \o SubSeq(q, n + 1, Len(q)) = q
<1> DEFINE a == SubSeq(q, 1, n)
           c == SubSeq(q, n + 1, Len(q))
<1>1. /\ Len(q) \in Nat /\ n \in Nat /\ n <= Len(q)
      /\ a \in Seq(S) /\ Len(a) = n /\ \A i \in 1 .. n : a[i] = q[i]
      /\ c \in Seq(S) /\ Len(c) = Len(q) - n /\ \A i \in 1 .. Len(q) - n : c[i] = q[i + n]
  OBVIOUS
<1> HIDE DEF a, c
<1>2. a \o c \in Seq(S) /\ Len(a \o c) = Len(a) + Len(c)
  BY <1>1
<1>3. Len(a \o c) = Len(q)
  BY <1>1, <1>2
<1>4. ASSUME NEW i \in 1 .. Len(q) PROVE (a \o c)[i] = q[i]
  <2>1. CASE i <= n
    BY <1>1, <2>1
  <2>2. CASE i > n
    <3>1. i - n \in 1 .. Len(q) - n /\ (i - n) + n = i
      BY <1>1, <2>2
    <3>2. (a \o c)[i] = c[i - n]
      BY <1>1, <2>2
    <3> QED BY <1>1, <3>1, <3>2
  <2> QED BY <1>1, <2>1, <2>2
<1>5. a \o c = q
  <2>1. \A i \in 1 .. Len(a \o c) : (a \o c)[i] = q[i]
    BY <1>3, <1>4
  <2> QED BY <1>2, <1>3, <2>1, SeqEqual
<1> QED BY <1>5 DEF a, c

\* However the queue is cut into bursts, it keeps its order.
LEMMA RxSsb == ASSUME ForwardInv, SsbInv, RxBurst PROVE SsbInv'
<1>1. PICK m \in Nics : m = NextNic
  BY QueuesOfPackets, NextIsNic
<1>2. PICK n : n = AtMostBurst(rxq[m])
  OBVIOUS
<1>3. /\ bufs = <<>> /\ tx_bufs' = tx_bufs
      /\ bufs' = SubSeq(rxq[m], 1, n)
      /\ rxq' = [rxq EXCEPT ![m] = SubSeq(rxq[m], n + 1, Len(rxq[m]))]
      /\ nic' = m
      /\ UNCHANGED <<payload, ssb, to_ru>>
  BY <1>1, <1>2 DEF RxBurst
<1>4. DOMAIN rxq = Nics /\ rxq[m] \in Seq(Packet) /\ n \in 0 .. Len(rxq[m])
      /\ DuNic \in Nics /\ rxq[DuNic] \in Seq(Packet)
  BY <1>2, QueuesOfPackets, DmimoAssumption DEF AtMostBurst
\* The queue is cut in two.
<1>5. /\ rxq'[m] = SubSeq(rxq[m], n + 1, Len(rxq[m]))
      /\ \A c \in Nics : c # m => rxq'[c] = rxq[c]
      /\ Len(rxq[m]) \in Nat /\ n \in Nat
      /\ Len(bufs') = n /\ \A i \in 1 .. n : bufs'[i] = rxq[m][i] /\ i \in 1 .. Len(rxq[m])
      /\ Len(rxq'[m]) = Len(rxq[m]) - n
      /\ \A i \in 1 .. Len(rxq[m]) - n : rxq'[m][i] = rxq[m][i + n] /\ i + n \in 1 .. Len(rxq[m])
  BY <1>3, <1>4
<1>6. bufs' \o rxq'[m] = rxq[m]
  BY <1>3, <1>4, <1>5, TwoParts
<1>7. OfDu = rxq[DuNic]
  <2>1. <<>> \o rxq[DuNic] = rxq[DuNic]
    BY <1>4
  <2> QED BY <1>3, <2>1 DEF OfDu
<1>8. OfDu' = rxq[DuNic]
  <2>1. CASE m = DuNic
    BY <1>3, <1>6, <2>1 DEF OfDu
  <2>2. CASE m # DuNic
    BY <1>3, <1>4, <1>5, <2>2 DEF OfDu
  <2> QED BY <2>1, <2>2
<1>9. \A r \in Rus : RuNic(r) \in Nics /\ RuNic(r) # DuNic
  BY DmimoAssumption DEF RuNic, DuNic, Nics, Rus
<1>10. ASSUME m # DuNic PROVE NoSsb(rxq[m])
  <2>1. m - 1 \in Rus /\ RuNic(m - 1) = m
    BY <1>10, DmimoAssumption DEF RuNic, DuNic, Nics, Rus
  <2> QED BY <2>1 DEF SsbInv
<1>11. nic' # DuNic => NoSsb(bufs')
  BY <1>3, <1>5, <1>10 DEF NoSsb
<1>12. ASSUME NEW r \in Rus PROVE NoSsb(rxq'[RuNic(r)])
  <2>1. NoSsb(rxq[RuNic(r)])
    BY DEF SsbInv
  <2>2. CASE RuNic(r) # m
    BY <1>5, <1>9, <2>1, <2>2
  <2>3. CASE RuNic(r) = m
    <3>1. NoSsb(rxq[m])
      BY <2>1, <2>3
    <3>2. ASSUME NEW i \in 1 .. Len(rxq[m]) - n PROVE rxq'[m][i].symbol = 0
      <4>1. rxq'[m][i] = rxq[m][i + n] /\ i + n \in 1 .. Len(rxq[m])
        BY <1>5
      <4> QED BY <3>1, <4>1 DEF NoSsb
    <3>3. NoSsb(rxq'[m])
      BY <1>5, <3>2 DEF NoSsb
    <3> QED BY <2>3, <3>3
  <2> QED BY <2>2, <2>3
<1>13. InOrder(OfDu', payload', ssb')
  BY <1>3, <1>7, <1>8 DEF SsbInv
<1>14. (\A i \in 1 .. Len(tx_bufs') : HasSsb(tx_bufs'[i].packet))
       /\ \A r \in Rus : \A e \in to_ru'[r] : HasSsb(e.packet)
  BY <1>3 DEF SsbInv
<1> QED BY <1>11, <1>12, <1>13, <1>14 DEF SsbInv

\* What is sent had the right samples already.
LEMMA TxSsb == ASSUME ForwardInv, SsbInv, TxBurst PROVE SsbInv'
<1>1. PICK nb_tx \in 0 .. Len(tx_bufs) :
        LET out == {tx_bufs[i] : i \in 1 .. nb_tx}
        IN  to_ru' = [r \in Rus |-> to_ru[r] \cup {e \in out : e.ru = r}]
  BY DEF TxBurst
<1>2. bufs = <<>> /\ bufs' = <<>> /\ tx_bufs' = <<>> /\ UNCHANGED <<payload, rxq, ssb>>
  BY DEF TxBurst
<1>3. \A r \in Rus : \A e \in to_ru'[r] : HasSsb(e.packet)
  <2> SUFFICES ASSUME NEW r \in Rus, NEW e \in to_ru'[r] PROVE HasSsb(e.packet)
    OBVIOUS
  <2>1. e \in to_ru[r] \/ \E i \in 1 .. nb_tx : e = tx_bufs[i]
    BY <1>1
  <2>2. \A i \in 1 .. nb_tx : i \in 1 .. Len(tx_bufs)
    <3>1. Len(tx_bufs) \in Nat
      BY HeldTypes
    <3> QED BY <1>1, <3>1
  <2> QED BY <2>1, <2>2 DEF SsbInv
<1>4. OfDu' = OfDu
  <2>1. <<>> \o rxq[DuNic] = rxq[DuNic]
    BY QueuesOfPackets
  <2> QED BY <1>2, <2>1 DEF OfDu
<1>5. NoSsb(bufs') /\ \A i \in 1 .. Len(tx_bufs') : HasSsb(tx_bufs'[i].packet)
  BY <1>2 DEF NoSsb
<1> QED BY <1>2, <1>3, <1>4, <1>5 DEF SsbInv

\* The samples that replace those of an IQ packet are those of its symbol.
LEMMA IqSsb == ASSUME ForwardInv, SsbInv, ForwardIq PROVE SsbInv'
<1>1. PICK p \in {bufs[i] : i \in DOMAIN bufs} :
        /\ nic = DuNic /\ Handles(p)
        /\ payload' = IF p.symbol > 0 /\ p.port = 0 THEN p.samples ELSE payload
        /\ tx_bufs' = tx_bufs \/ \E r, port : tx_bufs' = Append(tx_bufs, ToSend(r, port, WithSsb(p)))
  BY DEF ForwardIq
<1>2. /\ OfDu \in Seq(Packet) /\ OfDu # <<>> /\ Head(OfDu) = p /\ OfDu' = Tail(OfDu) /\ p \in Packet
      /\ payload \in Nat /\ ssb \in Nat /\ InOrder(OfDu, payload, ssb)
  BY <1>1, HandledOfDu, QueuesOfPackets DEF SsbInv
<1>3. PICK h : h = IF p.symbol > 0 /\ p.port = 0 THEN p.symbol ELSE payload
  OBVIOUS
<1>4. /\ IsSsb(p) /\ (p.symbol > 0 /\ p.port # 0 => payload = p.symbol)
      /\ InOrder(Tail(OfDu), h, ssb)
  BY <1>2, <1>3, OrderOfTail
<1>5. payload' = h
  BY <1>1, <1>3, <1>4 DEF IsSsb
<1>6. InOrder(OfDu', payload', ssb)
  BY <1>2, <1>4, <1>5
<1>7. HasSsb(WithSsb(p))
  BY <1>2, <1>4 DEF WithSsb, HasSsb, IsSsb, Packet
<1>8. \A r, port : ToSend(r, port, WithSsb(p)).packet = WithSsb(p)
  BY DEF ToSend
<1> QED BY <1>1, <1>6, <1>7, <1>8, HandleSsb

\* A packet of another kind, or of an RU, is not of the SSB.
LEMMA OtherSsb ==
  ASSUME ForwardInv, SsbInv, NEW p, Handles(p), nic = DuNic => p.kind # "iq", payload' = payload,
         tx_bufs' = tx_bufs \/ \E r, port : tx_bufs' = Append(tx_bufs, ToSend(r, port, p))
  PROVE  SsbInv'
<1>1. /\ p \in Packet /\ p = Head(bufs) /\ bufs # <<>> /\ bufs \in Seq(Packet)
      /\ OfDu \in Seq(Packet) /\ payload \in Nat /\ ssb \in Nat /\ InOrder(OfDu, payload, ssb)
  BY HandledOfDu, QueuesOfPackets DEF Handles, SsbInv
<1>2. p.symbol \in Nat
  BY <1>1 DEF Packet
<1>3. p.symbol = 0 /\ InOrder(OfDu', payload, ssb)
  <2>1. CASE nic = DuNic
    <3>1. OfDu # <<>> /\ Head(OfDu) = p /\ OfDu' = Tail(OfDu)
      BY <2>1, HandledOfDu
    <3>2. PICK h : h = IF p.symbol > 0 /\ p.port = 0 THEN p.symbol ELSE payload
      OBVIOUS
    <3>3. IsSsb(p) /\ InOrder(Tail(OfDu), h, ssb)
      BY <1>1, <3>1, <3>2, OrderOfTail
    <3>4. p.symbol = 0
      BY <1>2, <2>1, <3>3 DEF IsSsb
    <3> QED BY <3>1, <3>2, <3>3, <3>4
  <2>2. CASE nic # DuNic
    <3>1. 1 \in 1 .. Len(bufs) /\ p = bufs[1]
      BY <1>1
    <3>2. p.symbol = 0
      BY <2>2, <3>1 DEF SsbInv, NoSsb
    <3>3. OfDu' = OfDu
      BY <2>2, HandledOfDu
    <3> QED BY <1>1, <3>2, <3>3
  <2> QED BY <2>1, <2>2
<1>4. HasSsb(p) /\ \A r, port : ToSend(r, port, p).packet = p
  BY <1>3 DEF HasSsb, ToSend
<1>5. InOrder(OfDu', payload', ssb)
  BY <1>3
<1> QED BY <1>4, <1>5, HandleSsb

\* What joins the second of two queues joins both.
LEMMA AppendToSecond ==
  ASSUME NEW S, NEW q \in Seq(S), NEW r \in Seq(S), NEW e \in S
  PROVE  q \o Append(r, e) = Append(q \o r, e)
<1>1. <<e>> \in Seq(S) /\ q \o r \in Seq(S)
  OBVIOUS
<1>2. (q \o r) \o <<e>> = q \o (r \o <<e>>)
  BY <1>1, ConcatAssociative
<1>3. Append(r, e) = r \o <<e>>
  BY AppendIsConcat
<1>4. Append(q \o r, e) = (q \o r) \o <<e>>
  BY <1>1, AppendIsConcat
<1> QED BY <1>2, <1>3, <1>4

\* A packet arrives at the DU's network port, in the order of the DU, or at an RU's.
LEMMA ReceiveSsbInv ==
  ASSUME ForwardInv, SsbInv, NEW n \in Nics, NEW p \in Packet, Receive(n, p), ssb' \in Nat, IsSsb(p),
         \/ p.symbol = 0 /\ ssb' = ssb
         \/ n = DuNic /\ p.port = 0 /\ p.symbol = ssb + 1 /\ ssb' = ssb + 1
         \/ n = DuNic /\ p.port # 0 /\ p.symbol = ssb /\ ssb' = ssb
  PROVE  SsbInv'
<1>1. /\ rxq' = [rxq EXCEPT ![n] = Append(rxq[n], p)]
      /\ UNCHANGED <<nic, bufs, tx_bufs, payload, to_ru>>
  BY DEF Receive
<1>2. /\ DOMAIN rxq = Nics /\ rxq[n] \in Seq(Packet) /\ rxq[DuNic] \in Seq(Packet)
      /\ bufs \in Seq(Packet) /\ OfDu \in Seq(Packet) /\ payload \in Nat /\ ssb \in Nat
      /\ DuNic \in Nics /\ InOrder(OfDu, payload, ssb)
  BY QueuesOfPackets DEF SsbInv
<1>3. rxq'[n] = Append(rxq[n], p) /\ \A c \in Nics : c # n => rxq'[c] = rxq[c]
  BY <1>1, <1>2
<1>4. PICK m \in Nat : m = ssb'
  OBVIOUS
<1>5. InOrder(OfDu', payload, m)
  <2>1. CASE n = DuNic
    <3>1. InOrder(Append(OfDu, p), payload, m)
      BY <1>2, <1>4, OrderOfAppended
    <3>2. bufs \o Append(rxq[DuNic], p) = Append(bufs \o rxq[DuNic], p)
      <4>1. \A q, r \in Seq(Packet) : q \o Append(r, p) = Append(q \o r, p)
        BY AppendToSecond
      <4> QED BY <1>2, <4>1
    <3>3. OfDu' = Append(OfDu, p)
      BY <1>1, <1>3, <2>1, <3>2 DEF OfDu
    <3> QED BY <3>1, <3>3
  <2>2. CASE n # DuNic
    <3>1. OfDu' = OfDu
      BY <1>1, <1>2, <1>3, <2>2 DEF OfDu
    <3> QED BY <1>2, <1>4, <2>2, <3>1
  <2> QED BY <2>1, <2>2
<1>6. ASSUME NEW r \in Rus PROVE NoSsb(rxq'[RuNic(r)])
  <2>1. NoSsb(rxq[RuNic(r)]) /\ RuNic(r) \in Nics /\ RuNic(r) # DuNic
    BY DmimoAssumption DEF SsbInv, RuNic, DuNic, Nics, Rus
  <2>2. CASE RuNic(r) # n
    BY <1>3, <2>1, <2>2
  <2>3. CASE RuNic(r) = n
    <3>1. NoSsb(rxq[n]) /\ p.symbol = 0
      BY <2>1, <2>3
    <3>2. \A i \in 1 .. Len(rxq'[n]) : (i \in 1 .. Len(rxq[n]) /\ rxq'[n][i] = rxq[n][i])
                                       \/ rxq'[n][i] = p
      BY <1>2, <1>3
    <3>3. NoSsb(rxq'[n])
      BY <3>1, <3>2 DEF NoSsb
    <3> QED BY <2>3, <3>3
  <2> QED BY <2>2, <2>3
<1>7. /\ nic' # DuNic => NoSsb(bufs')
      /\ \A i \in 1 .. Len(tx_bufs') : HasSsb(tx_bufs'[i].packet)
      /\ \A r \in Rus : \A e \in to_ru'[r] : HasSsb(e.packet)
  BY <1>1 DEF SsbInv
<1>8. InOrder(OfDu', payload', ssb')
  BY <1>1, <1>4, <1>5
<1> QED BY <1>6, <1>7, <1>8 DEF SsbInv

\* The packets that arrive carry the samples of their symbol on port 0.
LEMMA NewPackets ==
  ASSUME NEW n \in Nics, NEW kind \in Kinds, NEW port \in AntennaPorts, NEW symbol \in Nat
  PROVE  LET p == NewPacket(n, kind, port, symbol)
         IN  /\ p \in Packet /\ p.port = port /\ p.symbol = symbol
             /\ symbol = 0 \/ kind = "iq" => IsSsb(p)
BY DEF NewPacket, Packet, Origins, IsSsb

\* Every step keeps the invariant.
LEMMA SsbStep ==
  ASSUME Port0First
  PROVE  ForwardInv /\ SsbInv /\ [Next]_vars => SsbInv'
<1> SUFFICES ASSUME ForwardInv, SsbInv, [Next]_vars PROVE SsbInv'
  OBVIOUS
<1>1. CASE Ignore
  <2>1. PICK p : Handles(p) /\ (nic = DuNic => p.kind # "iq") /\ UNCHANGED <<tx_bufs, payload>>
    BY <1>1 DEF Ignore
  <2> QED BY <2>1, OtherSsb
<1>2. CASE ForwardControl
  <2>1. PICK p : /\ Handles(p) /\ p.kind = "control" /\ payload' = payload
                 /\ tx_bufs' = tx_bufs \/ \E r, port : tx_bufs' = Append(tx_bufs, ToSend(r, port, p))
    BY <1>2 DEF ForwardControl
  <2> QED BY <2>1, OtherSsb
<1>3. CASE ForwardUplink
  <2>1. PICK p :
          /\ \E r \in Rus : nic = RuNic(r)
          /\ Handles(p) /\ payload' = payload
          /\ tx_bufs' = tx_bufs \/ \E q, port : tx_bufs' = Append(tx_bufs, ToSend(q, port, p))
    BY <1>3 DEF ForwardUplink
  <2>2. nic # DuNic
    BY <2>1, DmimoAssumption DEF RuNic, DuNic, Rus
  <2> QED BY <2>1, <2>2, OtherSsb
<1>4. ssb \in Nat /\ DuNic \in Nics /\ ssb + 1 \in Nat /\ 0 \in Nat
  BY QueuesOfPackets
<1>5. CASE ReceiveAny
  <2>1. PICK n \in Nics, kind \in Kinds, port \in AntennaPorts :
          Receive(n, NewPacket(n, kind, port, 0)) /\ ssb' = ssb
    BY <1>5 DEF ReceiveAny
  <2> DEFINE p == NewPacket(n, kind, port, 0)
  <2>2. p \in Packet /\ p.symbol = 0 /\ IsSsb(p) /\ Receive(n, p)
    BY <1>4, <2>1, NewPackets
  <2> HIDE DEF p
  <2> QED BY <1>4, <2>1, <2>2, ReceiveSsbInv
<1>6. CASE ReceiveNewSsb
  <2>1. PICK port \in AntennaPorts :
          /\ "iq" \in Kinds /\ port = 0
          /\ Receive(DuNic, NewPacket(DuNic, "iq", port, ssb + 1)) /\ ssb' = ssb + 1
    BY <1>6 DEF ReceiveNewSsb
  <2> DEFINE p == NewPacket(DuNic, "iq", port, ssb + 1)
  <2>2. p \in Packet /\ p.port = 0 /\ p.symbol = ssb + 1 /\ IsSsb(p) /\ Receive(DuNic, p)
    BY <1>4, <2>1, NewPackets
  <2> HIDE DEF p
  <2> QED BY <1>4, <2>1, <2>2, ReceiveSsbInv
<1>7. CASE ReceiveSsb
  <2>1. PICK port \in AntennaPorts \ {0} :
          "iq" \in Kinds /\ Receive(DuNic, NewPacket(DuNic, "iq", port, ssb)) /\ ssb' = ssb
    BY <1>7 DEF ReceiveSsb
  <2> DEFINE p == NewPacket(DuNic, "iq", port, ssb)
  <2>2. p \in Packet /\ p.port # 0 /\ p.symbol = ssb /\ IsSsb(p) /\ Receive(DuNic, p)
    BY <1>4, <2>1, NewPackets
  <2> HIDE DEF p
  <2> QED BY <1>4, <2>1, <2>2, ReceiveSsbInv
<1>8. CASE UNCHANGED vars
  BY <1>8 DEF SsbInv, OfDu, vars
<1> QED BY <1>1, <1>2, <1>3, <1>5, <1>6, <1>7, <1>8, RxSsb, IqSsb, TxSsb DEF Next, lcore_main, Aborted

\* When the DU's packet for port 0 is the first one of each SSB symbol, every
\* antenna of every RU sends the samples of the symbol it is in: the samples
\* kept are neither overtaken nor outdated, however the bursts are cut.
THEOREM SsbReachesAllAntennas == Port0First => (Spec => []SsbOnAllAntennas)
<1> SUFFICES ASSUME Port0First PROVE Spec => []SsbOnAllAntennas
  OBVIOUS
<1>1. SsbInv => SsbOnAllAntennas
  BY DEF SsbInv, HasSsb, SsbOnAllAntennas
<1>2. ForwardInv /\ SsbInv /\ [Next]_vars => SsbInv'
  BY SsbStep
<1> QED BY <1>1, <1>2, ForwardInit, ForwardStep, SsbInit, PTL DEF Spec
=============================================================================
