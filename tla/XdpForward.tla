---------------------------- MODULE XdpForward ----------------------------
(***************************************************************************)
(* The XDP programs of the middleboxes,                                    *)
(*   src/src/xdp/das/das_egress.c, das_ingress.c,                          *)
(*   src/src/xdp/dmimo/dmimo_egress.c, dmimo_ingress.c,                    *)
(*   src/src/xdp/prb_mon/prb_mon_egress.c, prb_mon_ingress.c,              *)
(* while the scripts of XdpLoader load and unload them and the processes   *)
(* of XdpReader start and stop.                                            *)
(*                                                                         *)
(* There is one program per RU and direction, each on an interface of its  *)
(* own.  The interfaces of the egress programs share the middlebox address *)
(* so each of them sees every packet of the DU; a packet a program sends   *)
(* may come back to all of them (the programs expect that: "Packets we get *)
(* from loopback can be dropped").                                         *)
(***************************************************************************)
EXTENDS XdpReader

CONSTANTS
  Ports,       \* antenna ports
  DuVlan,      \* VLAN of the DU
  RuVlan,      \* RU -> its VLAN
  Bitmaps,     \* dmimo: the RU -> set of ports a user may configure
  Loopback,    \* TRUE: packets that were sent come back to every interface
  MaxPackets,  \* bound: packets that the DU and the RUs send
  PacketScripts  \* bound: scripts run if they send any, and then no call fails

Interfaces == {"egress", "ingress"} \X Rus
Planes == {"C", "U", "other"}

\* MAC addresses; ru_du(r) is the address RU r takes for its DU's.
NoAddr == <<"zero", 0>>
Du == <<"du", 0>>
BoosterMac == <<"booster", 0>>
Ru(r) == <<"ru", r>>
RuDu(r) == <<"ru_du", r>>
Addresses == {NoAddr, Du, BoosterMac} \cup {Ru(r) : r \in Rus} \cup {RuDu(r) : r \in Rus}

\* 0: the packet has no VLAN tag.
Vlans == {0, DuVlan} \cup {RuVlan[r] : r \in Rus}

ASSUME XdpForwardAssumption ==
  /\ DuVlan \in Nat \ {0} /\ RuVlan \in [Rus -> Nat \ {0}]
  /\ Bitmaps \subseteq [Rus -> SUBSET Ports]
  /\ Loopback \in BOOLEAN /\ MaxPackets \in Nat /\ PacketScripts \in Nat

\* ecpri: the type it has, if it has no tag.  plane and port are what a program
\* reads where an eCPRI packet has them.  hops: how often a program has sent it.
Packet ==
  [id : 1 .. MaxPackets, plane : Planes, port : Ports, ecpri : BOOLEAN,
   src : Addresses, dst : Addresses, vlan : Vlans, hops : 0 .. 2]

VARIABLES
  bitmap,   \* dmimo: the argument of every dmimo_load
  rx,       \* interface -> packets that wait for its program
  sent,     \* number of packets the DU and the RUs have sent
  due,      \* history: for each of them, the interfaces that owe it to somebody
  to_ru,    \* RU -> packets addressed to it
  to_du,    \* packets addressed to the DU
  to_user   \* das: RU -> packets the merger gets from the socket of its interface

packetVars == <<bitmap, rx, sent, due, to_ru, to_du, to_user>>
vars == <<loaderVars, readerVars, packetVars>>

Init ==
  /\ LoaderInit /\ ReaderInit
  /\ bitmap \in IF booster = "dmimo" THEN Bitmaps ELSE {[r \in Rus |-> {}]}
  /\ rx = [i \in Instances |-> <<>>]
  /\ sent = 0 /\ due = <<>>
  /\ to_ru = [r \in 1 .. Served |-> {}]
  /\ to_du = {}
  /\ to_user = [r \in 1 .. Served |-> {}]

(* The programs.  Operators named ...Mut are deliberate mistakes for the   *)
(* sensitivity checks.                                                     *)

\* bpf_map_lookup_elem: what the loader wrote, or zero.
Filled(i, name) == name \in maps[i]
ru_mac(i) == IF Filled(i, "ru_mac_address") THEN Ru(i[2]) ELSE NoAddr
du_mac(i) ==
  IF Filled(i, "du_mac_address") \/ Filled(i, "du_mac_address_local") THEN Du ELSE NoAddr
ranbooster_du_mac(i) ==
  IF Filled(i, "ranbooster_du_mac_address") \/ Filled(i, "du_mac_address_ru")
    THEN RuDu(i[2]) ELSE NoAddr
\* The PRB monitor's programs have the address compiled in.
booster_mac(i) ==
  IF booster = "prb_mon" \/ Filled(i, "booster_mac") THEN BoosterMac ELSE NoAddr
rvlan(i) == IF Filled(i, "ru_vlan") THEN RuVlan[i[2]] ELSE 0
dvlan(i) == IF Filled(i, "du_vlan") THEN DuVlan ELSE 0
port_fwd(i) == IF Filled(i, "ports_to_forward") THEN bitmap[i[2]] ELSE {}

\* An untagged eCPRI packet and one of another VLAN are dropped; the PRB
\* monitor also drops what comes from the wrong side.  What else has no tag is
\* taken for a packet of the fronthaul.
AcceptedMut(i, p) == IF p.vlan = 0 THEN ~p.ecpri ELSE p.vlan = rvlan(i)
Accepted(i, p) ==
  IF p.vlan = 0 THEN ~p.ecpri
  ELSE p.vlan \in IF booster # "prb_mon" THEN {dvlan(i), rvlan(i)}
                  ELSE IF i[1] = "egress" THEN {dvlan(i)} ELSE {rvlan(i)}

FromDu(i, p) == p.src = du_mac(i) /\ p.dst = booster_mac(i)

\* Only a packet with a tag gets another.
Rewritten(p, src, dst, vlan) ==
  [p EXCEPT !.src = src, !.dst = dst, !.vlan = IF @ = 0 THEN 0 ELSE vlan, !.hops = @ + 1]

\* The packets a program sends for packet p: at most one.
EgressDas(i, p) ==
  IF FromDu(i, p) THEN {Rewritten(p, ranbooster_du_mac(i), ru_mac(i), rvlan(i))} ELSE {}
EgressDmimoMut(i, p) ==
  IF ~FromDu(i, p) THEN {}
  ELSE IF p.plane = "C" THEN {Rewritten(p, booster_mac(i), ru_mac(i), rvlan(i))}
  ELSE IF p.plane = "U" THEN {Rewritten(p, ranbooster_du_mac(i), ru_mac(i), rvlan(i))}
  ELSE {}
EgressDmimo(i, p) ==
  IF ~FromDu(i, p) THEN {}
  ELSE IF p.plane = "C" THEN {Rewritten(p, booster_mac(i), ru_mac(i), rvlan(i))}
  ELSE IF p.plane = "U" /\ p.port \in port_fwd(i)
    THEN {Rewritten(p, ranbooster_du_mac(i), ru_mac(i), rvlan(i))}
  ELSE {}
IngressDmimoMut(i, p) ==
  IF p.src = ru_mac(i) /\ p.port \in port_fwd(i)
    THEN {Rewritten(p, p.src, du_mac(i), dvlan(i))} ELSE {}
IngressDmimo(i, p) ==
  IF p.src = ru_mac(i) /\ p.port \in port_fwd(i)
    THEN {Rewritten(p, booster_mac(i), du_mac(i), dvlan(i))} ELSE {}

\* Both programs of the PRB monitor return before they monitor.
EgressPrbMon(i, p) ==
  IF FromDu(i, p) THEN {Rewritten(p, ranbooster_du_mac(i), ru_mac(i), rvlan(i))} ELSE {}
IngressPrbMon(i, p) ==
  IF p.src = ru_mac(i) THEN {Rewritten(p, booster_mac(i), du_mac(i), dvlan(i))} ELSE {}

Transmitted(i, p) ==
  LET egress == [das |-> EgressDas(i, p), dmimo |-> EgressDmimo(i, p),
                 prb_mon |-> EgressPrbMon(i, p)]
      ingress == [das |-> {}, dmimo |-> IngressDmimo(i, p), prb_mon |-> IngressPrbMon(i, p)]
  IN  IF ~Accepted(i, p) THEN {}
      ELSE IF i[1] = "egress" THEN egress[booster] ELSE ingress[booster]

\* bpf_redirect_map of the DAS ingress program: the packet is dropped unless
\* the merger's socket is in the map of the object that runs.
FromRuMut(i, p) == p.vlan = rvlan(i)
FromRu(i, p) == p.src = ru_mac(i)
Redirected(i, p) ==
  IF booster = "das" /\ i[1] = "ingress" /\ Accepted(i, p) /\ FromRu(i, p)
     /\ held[i] = running[i]
    THEN {p} ELSE {}

\* Where a packet a program sends goes: to the station it is addressed to
\* and, by way of the switch, back to every interface, the tag still there
\* or stripped.
Deliver(out) ==
  /\ to_ru' = [r \in 1 .. Served |-> to_ru[r] \cup {p \in out : p.dst = Ru(r)}]
  /\ to_du' = to_du \cup {p \in out : p.dst = Du}
LoopedBack(i, out) ==
  IF Loopback /\ out # {}
    THEN LET p == CHOOSE q \in out : TRUE IN
         IF p.hops >= 2 THEN {<<>>} ELSE {<<p>>, <<[p EXCEPT !.vlan = 0]>>}
    ELSE {<<>>}

\* The program of an interface handles the packet received next; without a
\* program the packet goes up the network stack, where nobody wants it.
Handle(i) ==
  /\ i \in Instances /\ rx[i] # <<>>
  /\ LET p == Head(rx[i])
         out == IF i \in attached THEN Transmitted(i, p) ELSE {}
     IN
     /\ Deliver(out)
     /\ to_user' = [to_user EXCEPT ![i[2]] =
                      @ \cup (IF i \in attached THEN Redirected(i, p) ELSE {})]
     /\ \E back \in LoopedBack(i, out) :
          rx' = [j \in Instances |-> (IF j = i THEN Tail(rx[j]) ELSE rx[j]) \o back]
  /\ UNCHANGED <<loaderVars, readerVars, bitmap, sent, due>>

(* The DU, the RUs and the switch.                                         *)

FewScripts == scripts <= PacketScripts /\ failures = 0

\* All programs are attached.  For the DAS, packets of an RU go to the merger,
\* which has to run, and to have been started since the programs were loaded.
Connected(i) ==
  /\ i \in Instances /\ attached = Instances
  /\ booster = "das" /\ i[1] = "ingress" => held[i] # 0 /\ ~outdated

\* An IQ packet of the DU is for all RUs, or for those that serve its port for
\* the distributed MIMO.
IsFor(p, i) ==
  /\ p.ecpri /\ p.plane = "U"
  /\ booster = "dmimo" => p.port \in bitmap[i[2]]
  /\ i[1] = "ingress" => p.src = Ru(i[2])

Send(packet, interfaces) ==
  /\ sent < MaxPackets /\ FewScripts
  /\ sent' = sent + 1
  /\ LET p == [packet EXCEPT !.id = sent + 1] IN
       /\ rx' = [i \in Instances |-> IF i \in interfaces THEN Append(rx[i], p) ELSE rx[i]]
       /\ due' = Append(due, {<<i, scripts, starts>> :
                               i \in {j \in interfaces : Connected(j) /\ IsFor(p, j)}})
  /\ UNCHANGED <<loaderVars, readerVars, bitmap, to_ru, to_du, to_user>>

\* Packets of the fronthaul are tagged; a station also sends others, untagged.
Tags(vlan) == {[ecpri |-> TRUE, vlan |-> vlan], [ecpri |-> FALSE, vlan |-> 0]}

\* Every egress interface has the address of the middlebox.  Nobody reads the
\* port of a packet without IQ data.
SendDl == \E plane \in Planes, port \in Ports, tag \in Tags(DuVlan) :
  /\ plane # "U" => port = CHOOSE any \in Ports : TRUE
  /\ Send([id |-> 0, plane |-> plane, port |-> port, ecpri |-> tag.ecpri, src |-> Du,
           dst |-> BoosterMac, vlan |-> tag.vlan, hops |-> 0],
          {i \in Instances : i[1] = "egress"})

\* A packet of an RU may reach the interfaces of the other RUs too.
SendUl == \E r \in 1 .. Served, port \in Ports : \E tag \in Tags(RuVlan[r]) :
  Send([id |-> 0, plane |-> "U", port |-> port, ecpri |-> tag.ecpri, src |-> Ru(r),
        dst |-> RuDu(r), vlan |-> tag.vlan, hops |-> 0],
       {i \in Instances : i[1] = "ingress" /\ (Loopback \/ i[2] = r)})

\* Nobody runs a script any more.
Idle == sent > 0 /\ script = "none" /\ scripts = PacketScripts /\ UNCHANGED vars

Next ==
  \/ Idle
  \/ ReaderNext /\ (sent = 0 \/ FewScripts') /\ UNCHANGED packetVars
  \/ \E i \in Interfaces : Handle(i)
  \/ SendDl \/ SendUl

Spec == Init /\ [][Next]_vars

\* The driver runs the program of an interface for every packet it receives.
FairSpec == Spec /\ \A i \in Interfaces : WF_vars(Handle(i))

(* Properties.                                                             *)

TypeOK ==
  /\ ReaderTypeOK
  /\ bitmap \in [Rus -> SUBSET Ports]
  /\ \A i \in Instances : \A k \in DOMAIN rx[i] : rx[i][k] \in Packet
  /\ sent \in 0 .. MaxPackets /\ DOMAIN due = 1 .. sent
  /\ \A r \in 1 .. Served : to_ru[r] \subseteq Packet /\ to_user[r] \subseteq Packet
  /\ to_du \subseteq Packet

\* The DAS merger tells the RUs apart by the socket a packet comes from: a
\* socket gets packets of its RU only, though RUs may share a VLAN and every
\* interface may see the packets of all.
SocketsTellRusApart == \A r \in 1 .. Served : \A p \in to_user[r] : p.src = Ru(r)

Disjoint == \A r, q \in Rus : r # q => bitmap[r] \cap bitmap[q] = {}

\* Every antenna port is sent by one RU only: though every egress program
\* sees every packet of the DU, at any time during the loading and unloading
\* of the programs, and though packets come back to them.
OneRuPerAntenna == booster = "dmimo" /\ Disjoint =>
  \A r, q \in Rus : r # q =>
    \A a \in to_ru[r], b \in to_ru[q] : a.plane = "U" /\ b.plane = "U" => a.id # b.id

\* No packet is sent twice on its way, by the same or by another program,
\* although all of them may see it again after it was rewritten.
NoForwardingLoop == \A p \in to_du \cup UNION {to_ru[r] : r \in 1 .. Served} : p.hops = 1

\* An IQ packet that was sent when all programs were attached arrives if they
\* stay so: one of the DU at the RUs it is for, one of an RU at the DU or at
\* the merger of the DAS.
Arrived(id, i) == \E p \in IF i[1] = "egress" THEN to_ru[i[2]]
                            ELSE IF booster = "das" THEN to_user[i[2]]
                            ELSE to_du : p.id = id
EveryIqPacketArrives == []<>(\A id \in DOMAIN due : \A i \in Instances :
  <<i, scripts, starts>> \in due[id] /\ Connected(i) => Arrived(id, i))

\* An RU only accepts packets of the DU it was configured with
\* (the last argument of the loaders).
RuSeesItsDu == \A r \in 1 .. Served : \A p \in to_ru[r] : p.src = RuDu(r)
=============================================================================
