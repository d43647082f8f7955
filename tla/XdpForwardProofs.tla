------------------------- MODULE XdpForwardProofs -------------------------
(***************************************************************************)
(* Proofs about the XDP middleboxes, for any number of RUs, antenna ports, *)
(* packets, scripts, starts and failing system calls, and for every        *)
(* middlebox: first what the loaders and scripts (XdpLoader) and the       *)
(* process that reads their maps (XdpReader) keep true; then, while        *)
(* packets flow (XdpForward), that this still holds, that no packet is     *)
(* forwarded twice, and that no antenna is sent by two RUs.                *)
(***************************************************************************)
EXTENDS XdpForward, SequenceTheorems, TLAPS

-----------------------------------------------------------------------------
(* The steps of the scripts                                                *)

LEMMA Counts == Served \in Nat /\ Served >= 1 /\ 2 * Served \in Nat
BY XdpLoaderAssumption DEF Served

\* load_prog.sh names instances, and every instance.
LEMMA ScriptOrderOnto ==
  /\ \A k \in 1 .. 2 * Served : ScriptOrder[k] \in Instances
  /\ \A i \in Instances : \E k \in 1 .. 2 * Served : ScriptOrder[k] = i
<1>1. \A k \in 1 .. 2 * Served : ScriptOrder[k] \in Instances
  <2> TAKE k \in 1 .. 2 * Served
  <2>1. CASE k <= Served
    BY <2>1, Counts DEF ScriptOrder, Instances
  <2>2. CASE ~(k <= Served)
    <3>1. k - Served \in 1 .. Served
      BY <2>2, Counts
    <3> QED BY <2>2, <3>1 DEF ScriptOrder, Instances
  <2> QED BY <2>1, <2>2
<1>2. ASSUME NEW i \in Instances
      PROVE  \E k \in 1 .. 2 * Served : ScriptOrder[k] = i
  <2>1. PICK dir \in {"egress", "ingress"}, r \in 1 .. Served : i = <<dir, r>>
    BY DEF Instances
  <2>2. CASE dir = "egress"
    <3>1. r \in 1 .. 2 * Served /\ r <= Served
      BY Counts
    <3> QED BY <2>1, <2>2, <3>1 DEF ScriptOrder
  <2>3. CASE dir = "ingress"
    <3>1. /\ r + Served \in 1 .. 2 * Served
          /\ ~(r + Served <= Served)
          /\ (r + Served) - Served = r
      BY Counts
    <3>2. ScriptOrder[r + Served] = <<"ingress", r>>
      BY <3>1 DEF ScriptOrder
    <3> QED BY <2>1, <2>3, <3>1, <3>2
  <2> QED BY <2>1, <2>2, <2>3
<1> QED BY <1>1, <1>2

\* The maps and steps depend on the middlebox only.
LEMMA SameBooster ==
  ASSUME booster' = booster
  PROVE  /\ Served' = Served /\ Instances' = Instances /\ MapNames' = MapNames
         /\ PinnedKinds' = PinnedKinds /\ LoadSteps' = LoadSteps
         /\ ScriptOrder' = ScriptOrder /\ UnloadSteps' = UnloadSteps
<1>1. Served' = Served
  BY DEF Served
<1>2. Instances' = Instances /\ ScriptOrder' = ScriptOrder
  BY <1>1 DEF Instances, ScriptOrder
<1>3. UnloadSteps' = UnloadSteps
  BY <1>1, <1>2 DEF UnloadSteps, Off, Rm
<1> QED BY <1>1, <1>2, <1>3 DEF MapNames, PinnedKinds, LoadSteps

\* A call attaches in its last step, after all maps are filled and the files
\* are pinned.
LEMMA StepsOfLoad ==
  ASSUME LoaderTypeOK
  PROVE  /\ Len(LoadSteps) \in Nat /\ Len(LoadSteps) > 1
         /\ \A k \in 1 .. Len(LoadSteps) :
              LoadSteps[k] = "attach" <=> k = Len(LoadSteps)
         /\ MapNames \cap {"attach", "pin_program", "pin_map"} = {}
         /\ MapNames \subseteq {LoadSteps[k] : k \in 1 .. Len(LoadSteps) - 1}
         /\ \A kind \in PinnedKinds :
              \E k \in 1 .. Len(LoadSteps) - 1 : LoadSteps[k] = PinStep[kind]
<1>0. booster \in {"das", "dmimo", "prb_mon"}
  BY XdpLoaderAssumption DEF LoaderTypeOK
<1>1. CASE booster = "dmimo"
  <2>1. LoadSteps = DmimoSteps
    BY <1>1 DEF LoadSteps
  <2>2. /\ LoadSteps[1] = "ru_vlan" /\ LoadSteps[2] = "booster_mac"
        /\ LoadSteps[3] = "ru_mac_address" /\ LoadSteps[4] = "du_vlan"
        /\ LoadSteps[5] = "du_mac_address"
        /\ LoadSteps[6] = "ranbooster_du_mac_address"
        /\ LoadSteps[7] = "ports_to_forward" /\ LoadSteps[8] = "pin_program"
        /\ LoadSteps[9] = "attach" /\ Len(LoadSteps) = 9
    BY <2>1 DEF DmimoSteps
  <2>3. \A kind \in PinnedKinds : PinStep[kind] = LoadSteps[8]
    BY <1>1, <2>2 DEF PinnedKinds, PinStep
  <2> QED BY <1>1, <2>2, <2>3 DEF MapNames
<1>2. CASE booster = "das"
  <2>1. LoadSteps = DasSteps
    BY <1>2 DEF LoadSteps
  <2>2. /\ LoadSteps[1] = "ru_vlan" /\ LoadSteps[2] = "ru_mac_address"
        /\ LoadSteps[3] = "du_vlan" /\ LoadSteps[4] = "du_mac_address"
        /\ LoadSteps[5] = "ranbooster_du_mac_address"
        /\ LoadSteps[6] = "booster_mac" /\ LoadSteps[7] = "pin_program"
        /\ LoadSteps[8] = "pin_map"
        /\ LoadSteps[9] = "attach" /\ Len(LoadSteps) = 9
    BY <2>1 DEF DasSteps
  <2>3. \A kind \in PinnedKinds :
          PinStep[kind] = LoadSteps[7] \/ PinStep[kind] = LoadSteps[8]
    BY <2>2 DEF PinnedKinds, PinStep, Kinds
  <2> QED BY <1>2, <2>2, <2>3 DEF MapNames
<1>3. CASE booster = "prb_mon"
  <2>1. LoadSteps = PrbMonSteps
    BY <1>3 DEF LoadSteps
  <2>2. /\ LoadSteps[1] = "pin_map" /\ LoadSteps[2] = "ru_vlan"
        /\ LoadSteps[3] = "ru_mac_address" /\ LoadSteps[4] = "du_mac_address_ru"
        /\ LoadSteps[5] = "du_mac_address_local" /\ LoadSteps[6] = "du_vlan"
        /\ LoadSteps[7] = "pin_program"
        /\ LoadSteps[8] = "attach" /\ Len(LoadSteps) = 8
    BY <2>1 DEF PrbMonSteps
  <2>3. \A kind \in PinnedKinds :
          PinStep[kind] = LoadSteps[1] \/ PinStep[kind] = LoadSteps[7]
    BY <2>2 DEF PinnedKinds, PinStep, Kinds
  <2> QED BY <1>3, <2>2, <2>3 DEF MapNames
<1> QED BY <1>0, <1>1, <1>2, <1>3

\* unload_prog.sh detaches first, then removes pins: all that the calls make.
LEMMA StepsOfUnload ==
  /\ Len(UnloadSteps) \in Nat /\ Len(UnloadSteps) >= 4 * Served
  /\ \A k \in 1 .. Len(UnloadSteps) :
       /\ k <= 2 * Served => UnloadSteps[k] = <<"off", ScriptOrder[k]>>
       /\ k > 2 * Served => \E i \in Instances, kind \in Kinds :
                              UnloadSteps[k] = <<"rm", i, kind>>
  /\ \A i \in Instances, kind \in PinnedKinds :
       \E k \in 1 .. Len(UnloadSteps) : UnloadSteps[k] = <<"rm", i, kind>>
<1> DEFINE Removals == {"rm"} \X Instances \X Kinds
           Steps == ({"off"} \X Instances) \cup Removals
           Maps == IF booster = "dmimo" THEN <<>> ELSE Rm("map")
<1>0. "map" \in Kinds /\ "program" \in Kinds
  BY DEF Kinds
<1>1. Off \in Seq(Steps) /\ Len(Off) = 2 * Served
  BY Counts, ScriptOrderOnto DEF Off
<1>2. ASSUME NEW kind \in Kinds
      PROVE  /\ Rm(kind) \in Seq(Steps) /\ Len(Rm(kind)) = 2 * Served
             /\ \A k \in 1 .. 2 * Served : Rm(kind)[k] \in Removals
             /\ \A i \in Instances : \E k \in 1 .. 2 * Served : Rm(kind)[k] = <<"rm", i, kind>>
  <2>1. \A k \in 1 .. 2 * Served : Rm(kind)[k] = <<"rm", ScriptOrder[k], kind>>
    BY DEF Rm
  <2>2. Rm(kind) \in Seq(Steps) /\ Len(Rm(kind)) = 2 * Served
    BY Counts, ScriptOrderOnto DEF Rm
  <2> QED BY <2>1, <2>2, ScriptOrderOnto
<1>3. /\ Maps \in Seq(Steps) /\ Len(Maps) \in Nat
      /\ \A k \in 1 .. Len(Maps) : Maps[k] \in Removals
      /\ "map" \in PinnedKinds =>
           \A i \in Instances : \E k \in 1 .. Len(Maps) : Maps[k] = <<"rm", i, "map">>
  <2>1. CASE booster # "dmimo"
    BY <2>1, <1>2, <1>0, Counts
  <2>2. CASE booster = "dmimo"
    BY <2>2 DEF PinnedKinds
  <2> QED BY <2>1, <2>2
<1> HIDE DEF Maps, Steps
<1> DEFINE Detach == Off \o Rm("program")
<1>4. /\ Detach \in Seq(Steps) /\ Len(Detach) = 2 * Served + 2 * Served
      /\ \A k \in 1 .. 2 * Served + 2 * Served :
           Detach[k] = IF k <= 2 * Served THEN Off[k] ELSE Rm("program")[k - 2 * Served]
  <2>1. Rm("program") \in Seq(Steps) /\ Len(Rm("program")) = 2 * Served
    BY <1>2, <1>0
  <2> HIDE DEF Steps
  <2> QED BY <1>1, <2>1, ConcatProperties
<1> HIDE DEF Detach, Removals
<1>5. /\ Len(Detach \o Maps) = 2 * Served + 2 * Served + Len(Maps)
      /\ \A k \in 1 .. 2 * Served + 2 * Served + Len(Maps) :
           (Detach \o Maps)[k] = IF k <= 2 * Served + 2 * Served THEN Detach[k]
                                 ELSE Maps[k - (2 * Served + 2 * Served)]
  <2>1. /\ Len(Detach \o Maps) = Len(Detach) + Len(Maps)
        /\ \A k \in 1 .. Len(Detach) + Len(Maps) :
             (Detach \o Maps)[k] = IF k <= Len(Detach) THEN Detach[k]
                                   ELSE Maps[k - Len(Detach)]
    BY <1>3, <1>4, ConcatProperties
  <2> QED BY <2>1, <1>4
<1>6. UnloadSteps = Detach \o Maps
  BY DEF UnloadSteps, Detach, Maps
<1>7. Len(UnloadSteps) \in Nat /\ Len(UnloadSteps) >= 4 * Served
  BY <1>3, <1>5, <1>6, Counts
<1>8. ASSUME NEW k \in 1 .. Len(UnloadSteps)
      PROVE  /\ k <= 2 * Served => UnloadSteps[k] = <<"off", ScriptOrder[k]>>
             /\ k > 2 * Served => UnloadSteps[k] \in Removals
  <2>0. k \in 1 .. 2 * Served + 2 * Served + Len(Maps)
    BY <1>5, <1>6
  <2>1. CASE k <= 2 * Served
    <3>1. UnloadSteps[k] = Off[k]
      BY <2>0, <2>1, <1>3, <1>4, <1>5, <1>6, Counts
    <3> QED BY <2>0, <2>1, <3>1, <1>3, Counts DEF Off
  <2>2. CASE k > 2 * Served /\ k <= 2 * Served + 2 * Served
    <3>1. /\ UnloadSteps[k] = Rm("program")[k - 2 * Served]
          /\ k - 2 * Served \in 1 .. 2 * Served
      BY <2>0, <2>2, <1>3, <1>4, <1>5, <1>6, Counts
    <3> QED BY <2>2, <3>1, <1>2, <1>0, Counts
  <2>3. CASE k > 2 * Served + 2 * Served
    <3>1. /\ UnloadSteps[k] = Maps[k - (2 * Served + 2 * Served)]
          /\ k - (2 * Served + 2 * Served) \in 1 .. Len(Maps)
      BY <2>0, <2>3, <1>3, <1>5, <1>6, Counts
    <3> QED BY <2>3, <3>1, <1>3, Counts
  <2> QED BY <2>0, <2>1, <2>2, <2>3, <1>3, Counts
<1>9. ASSUME NEW i \in Instances, NEW kind \in PinnedKinds
      PROVE  \E k \in 1 .. Len(UnloadSteps) : UnloadSteps[k] = <<"rm", i, kind>>
  <2>1. CASE kind = "program"
    <3>1. PICK k \in 1 .. 2 * Served : Rm("program")[k] = <<"rm", i, kind>>
      BY <1>0, <1>2, <2>1
    <3>2. /\ k + 2 * Served \in 1 .. 2 * Served + 2 * Served + Len(Maps)
          /\ k + 2 * Served \in 1 .. 2 * Served + 2 * Served
          /\ ~(k + 2 * Served <= 2 * Served) /\ k + 2 * Served <= 2 * Served + 2 * Served
          /\ (k + 2 * Served) - 2 * Served = k
      BY <1>3, Counts
    <3>3. UnloadSteps[k + 2 * Served] = Rm("program")[k]
      BY <3>2, <1>4, <1>5, <1>6
    <3> QED BY <3>1, <3>2, <3>3, <1>5, <1>6
  <2>2. CASE kind = "map"
    <3>1. PICK k \in 1 .. Len(Maps) : Maps[k] = <<"rm", i, kind>>
      BY <1>3, <2>2
    <3>2. /\ k + (2 * Served + 2 * Served) \in 1 .. 2 * Served + 2 * Served + Len(Maps)
          /\ ~(k + (2 * Served + 2 * Served) <= 2 * Served + 2 * Served)
          /\ (k + (2 * Served + 2 * Served)) - (2 * Served + 2 * Served) = k
      BY <1>3, Counts
    <3>3. UnloadSteps[k + (2 * Served + 2 * Served)] = Maps[k]
      BY <3>2, <1>5, <1>6
    <3> QED BY <3>1, <3>2, <3>3, <1>5, <1>6
  <2> QED BY <2>1, <2>2 DEF PinnedKinds, Kinds
<1>10. \A s \in Removals : \E i \in Instances, kind \in Kinds : s = <<"rm", i, kind>>
  BY DEF Removals
<1> QED BY <1>7, <1>8, <1>9, <1>10

-----------------------------------------------------------------------------
(* The invariant                                                           *)

\* While a call runs, the object holds the maps of the steps it has done ...
ObjOfSteps == script = "load" =>
  obj = {LoadSteps[k] : k \in 1 .. step - 1} \cap MapNames

\* ... and what it has pinned are its own program and map.
PinnedOfSteps == script = "load" =>
  \A k \in 1 .. step - 1 : \A kind \in Kinds :
    LoadSteps[k] = PinStep[kind] => pinned[<<Current, kind>>] = scripts

\* While unload_prog.sh runs, the programs of the steps it has done are off
\* their interfaces: all of them before the first pin is removed.
DetachedOfSteps == script = "unload" =>
  \A k \in 1 .. 2 * Served : k < step => running[ScriptOrder[k]] = 0

\* 0, which stands for no object, names none.
Numbered == script = "load" => scripts # 0

LoaderInv ==
  /\ LoaderTypeOK
  /\ ObjOfSteps /\ PinnedOfSteps /\ DetachedOfSteps /\ Numbered
  /\ AttachedAreConfigured /\ AttachedArePinned

-----------------------------------------------------------------------------
(* Its steps                                                               *)

LEMMA InitInv == LoaderInit => LoaderInv
<1> SUFFICES ASSUME LoaderInit PROVE LoaderInv
  OBVIOUS
<1>1. LoaderTypeOK
  BY Counts, XdpLoaderAssumption DEF LoaderInit, LoaderTypeOK
<1> QED BY <1>1 DEF LoaderInit, LoaderInv, ObjOfSteps, PinnedOfSteps, DetachedOfSteps,
                    Numbered, AttachedAreConfigured, AttachedArePinned, attached

\* The types of step and command, with the cases of script told apart.
LEMMA StepType ==
  ASSUME LoaderTypeOK
  PROVE  /\ step \in Nat /\ step >= 1 /\ command \in 1 .. 2 * Served
         /\ script = "load" => step \in 1 .. Len(LoadSteps)
         /\ script = "unload" => step \in 1 .. Len(UnloadSteps)
         /\ script = "none" => step = 1
         /\ Current \in Instances
<1>1. Len(LoadSteps) \in Nat /\ Len(UnloadSteps) \in Nat
  BY StepsOfLoad, StepsOfUnload
<1>2. command \in 1 .. 2 * Served /\ Current \in Instances
  BY ScriptOrderOnto DEF LoaderTypeOK, Current
<1> QED BY <1>1, <1>2 DEF LoaderTypeOK

\* The two properties of attached programs, if nothing they speak of changes.
LEMMA SameAttached ==
  ASSUME LoaderInv, UNCHANGED <<booster, running, maps, pinned>>
  PROVE  AttachedAreConfigured' /\ AttachedArePinned'
BY SameBooster DEF LoaderInv, AttachedAreConfigured, AttachedArePinned, attached

\* The call that ends leaves no steps that say anything of the next one.
LEMMA ReturnInv ==
  ASSUME LoaderInv, script = "load", Return,
         UNCHANGED <<booster, scripts>>,
         running' \in [Instances -> 0 .. MaxScripts],
         maps' \in [Instances -> SUBSET MapNames], pinned' = pinned,
         failures' \in 0 .. MaxFailures, healthy' \in BOOLEAN,
         AttachedAreConfigured', AttachedArePinned'
  PROVE  LoaderInv'
<1>1. /\ script' \in {"load", "none"} /\ step' = 1 /\ obj' = {}
      /\ command' \in 1 .. 2 * Served
  BY Counts DEF Return, LoaderInv, LoaderTypeOK
<1>2. LoaderTypeOK'
  BY <1>1, SameBooster, StepsOfLoad DEF LoaderInv, LoaderTypeOK
<1>3. ObjOfSteps' /\ PinnedOfSteps' /\ DetachedOfSteps' /\ Numbered'
  BY <1>1 DEF ObjOfSteps, PinnedOfSteps, DetachedOfSteps, Numbered, LoaderInv
<1> QED BY <1>2, <1>3 DEF LoaderInv

LEMMA StartLoadInv == LoaderInv /\ StartLoad => LoaderInv'
<1> SUFFICES ASSUME LoaderInv, StartLoad PROVE LoaderInv'
  OBVIOUS
<1>1. scripts' \in 0 .. MaxScripts /\ scripts' # 0
  BY XdpLoaderAssumption DEF LoaderInv, LoaderTypeOK, StartLoad
<1>2. healthy' \in BOOLEAN
  BY DEF LoaderInv, LoaderTypeOK, StartLoad
<1>3. LoaderTypeOK'
  BY <1>1, <1>2, SameBooster, StepsOfLoad, Counts DEF LoaderInv, LoaderTypeOK, StartLoad
<1>4. ObjOfSteps' /\ PinnedOfSteps' /\ DetachedOfSteps' /\ Numbered'
  BY <1>1 DEF StartLoad, ObjOfSteps, PinnedOfSteps, DetachedOfSteps, Numbered
<1>5. AttachedAreConfigured' /\ AttachedArePinned'
  BY SameAttached DEF StartLoad
<1> QED BY <1>3, <1>4, <1>5 DEF LoaderInv

LEMMA UpdateMapInv == LoaderInv /\ UpdateMap => LoaderInv'
<1> SUFFICES ASSUME LoaderInv, UpdateMap PROVE LoaderInv'
  OBVIOUS
<1>1. /\ MapNames' = MapNames /\ LoadSteps' = LoadSteps /\ Current' = Current
      /\ Instances' = Instances /\ Served' = Served
  BY SameBooster DEF UpdateMap, Current
<1>2. /\ Len(LoadSteps) \in Nat /\ step \in 1 .. Len(LoadSteps) - 1
      /\ \A kind \in Kinds : LoadSteps[step] # PinStep[kind]
  BY StepsOfLoad, StepType DEF LoaderInv, UpdateMap, PinStep, Kinds
<1>3. LoaderTypeOK'
  BY <1>1, <1>2, SameBooster DEF LoaderInv, LoaderTypeOK, UpdateMap
<1>4. 1 .. step' - 1 = (1 .. step - 1) \cup {step}
  BY <1>2 DEF UpdateMap
<1>5. ObjOfSteps'
  <2>1. /\ obj' = obj \cup {LoadSteps[step]} /\ LoadSteps[step] \in MapNames
        /\ obj = {LoadSteps[k] : k \in 1 .. step - 1} \cap MapNames
    BY DEF LoaderInv, ObjOfSteps, UpdateMap
  <2>2. obj' = {LoadSteps[k] : k \in 1 .. step' - 1} \cap MapNames
    BY <2>1, <1>4
  <2> QED BY <1>1, <2>2 DEF ObjOfSteps
<1>6. PinnedOfSteps'
  BY <1>1, <1>2, <1>4 DEF LoaderInv, PinnedOfSteps, UpdateMap
<1>7. DetachedOfSteps' /\ Numbered' /\ AttachedAreConfigured' /\ AttachedArePinned'
  BY SameAttached DEF LoaderInv, UpdateMap, DetachedOfSteps, Numbered
<1> QED BY <1>3, <1>5, <1>6, <1>7 DEF LoaderInv

\* A new pin takes the place of none, so that it disturbs no attached program.
LEMMA PinInv ==
  ASSUME NEW kind \in Kinds
  PROVE  LoaderInv /\ Pin(kind) => LoaderInv'
<1> SUFFICES ASSUME LoaderInv, Pin(kind) PROVE LoaderInv'
  OBVIOUS
<1>1. /\ MapNames' = MapNames /\ LoadSteps' = LoadSteps /\ Current' = Current
      /\ Instances' = Instances /\ Served' = Served /\ PinnedKinds' = PinnedKinds
  BY SameBooster DEF Pin, Current
<1>2. /\ Len(LoadSteps) \in Nat /\ step \in 1 .. Len(LoadSteps) - 1
      /\ LoadSteps[step] = PinStep[kind] /\ LoadSteps[step] \notin MapNames
  <2>1. PinStep[kind] \in {"pin_program", "pin_map"}
    BY DEF PinStep, Kinds
  <2> QED BY <2>1, StepsOfLoad, StepType DEF LoaderInv, Pin
<1>3. 1 .. step' - 1 = (1 .. step - 1) \cup {step}
  BY <1>2 DEF Pin
<1>4. /\ Current \in Instances /\ scripts \in 0 .. MaxScripts /\ scripts # 0
      /\ pinned \in [Instances \X Kinds -> 0 .. MaxScripts]
      /\ pinned' = [pinned EXCEPT ![<<Current, kind>>] = scripts]
      /\ pinned[<<Current, kind>>] = 0
  BY StepType DEF LoaderInv, LoaderTypeOK, Numbered, Pin
<1>5. \A i \in Instances, k \in Kinds :
        pinned'[<<i, k>>] = IF <<i, k>> = <<Current, kind>> THEN scripts ELSE pinned[<<i, k>>]
  BY <1>4
<1>6. LoaderTypeOK'
  <2>1. pinned' \in [Instances \X Kinds -> 0 .. MaxScripts]
    BY <1>4
  <2> QED BY <2>1, <1>1, <1>2, SameBooster DEF LoaderInv, LoaderTypeOK, Pin
<1>7. ObjOfSteps'
  <2>1. obj' = obj /\ obj = {LoadSteps[k] : k \in 1 .. step - 1} \cap MapNames
    BY DEF LoaderInv, ObjOfSteps, Pin
  <2>2. obj' = {LoadSteps[k] : k \in 1 .. step' - 1} \cap MapNames
    BY <2>1, <1>2, <1>3
  <2> QED BY <1>1, <2>2 DEF ObjOfSteps
<1>8. PinnedOfSteps'
  <2> SUFFICES ASSUME NEW k \in 1 .. step' - 1, NEW other \in Kinds,
                      LoadSteps[k] = PinStep[other]
               PROVE  pinned'[<<Current, other>>] = scripts
    BY <1>1 DEF PinnedOfSteps, Pin
  <2>1. CASE other = kind
    BY <2>1, <1>4, <1>5
  <2>2. CASE other # kind
    <3>1. k \in 1 .. step - 1
      BY <2>2, <1>2, <1>3 DEF PinStep, Kinds
    <3>2. pinned[<<Current, other>>] = scripts
      BY <3>1 DEF LoaderInv, PinnedOfSteps, Pin
    <3> QED BY <2>2, <3>2, <1>4, <1>5
  <2> QED BY <2>1, <2>2
<1>9. AttachedArePinned'
  <2> SUFFICES ASSUME NEW i \in Instances, running[i] # 0, NEW k \in PinnedKinds
               PROVE  pinned'[<<i, k>>] = running[i]
    BY <1>1 DEF AttachedArePinned, attached, Pin
  <2>1. pinned[<<i, k>>] = running[i] /\ k \in Kinds
    BY DEF LoaderInv, AttachedArePinned, attached, PinnedKinds, Kinds
  <2> QED BY <2>1, <1>4, <1>5
<1>10. DetachedOfSteps' /\ Numbered' /\ AttachedAreConfigured'
  BY <1>1 DEF LoaderInv, Pin, DetachedOfSteps, Numbered, AttachedAreConfigured, attached
<1> QED BY <1>6, <1>7, <1>8, <1>9, <1>10 DEF LoaderInv

\* Attachment is the last step: by then all maps are filled and the files are
\* pinned.
LEMMA AttachInv == LoaderInv /\ Attach => LoaderInv'
<1> SUFFICES ASSUME LoaderInv, Attach PROVE LoaderInv'
  OBVIOUS
<1>1. /\ Len(LoadSteps) \in Nat /\ step = Len(LoadSteps) /\ Current \in Instances
      /\ script = "load"
  BY StepsOfLoad, StepType DEF LoaderInv, Attach
<1>2. obj = MapNames
  <2>1. obj = {LoadSteps[k] : k \in 1 .. Len(LoadSteps) - 1} \cap MapNames
    BY <1>1 DEF LoaderInv, ObjOfSteps
  <2> QED BY <2>1, StepsOfLoad DEF LoaderInv
<1>3. \A kind \in PinnedKinds : pinned[<<Current, kind>>] = scripts
  <2> TAKE kind \in PinnedKinds
  <2>1. PICK k \in 1 .. Len(LoadSteps) - 1 : LoadSteps[k] = PinStep[kind]
    BY StepsOfLoad DEF LoaderInv
  <2>2. kind \in Kinds
    BY DEF PinnedKinds, Kinds
  <2> QED BY <2>1, <2>2, <1>1 DEF LoaderInv, PinnedOfSteps
<1>4. /\ running' = [running EXCEPT ![Current] = scripts]
      /\ maps' = [maps EXCEPT ![Current] = obj]
      /\ running \in [Instances -> 0 .. MaxScripts] /\ scripts \in 0 .. MaxScripts
      /\ maps \in [Instances -> SUBSET MapNames]
      /\ pinned' = pinned
  BY DEF LoaderInv, LoaderTypeOK, Attach
<1>5. /\ running' \in [Instances -> 0 .. MaxScripts]
      /\ maps' \in [Instances -> SUBSET MapNames]
  BY <1>1, <1>2, <1>4
<1>6. /\ Instances' = Instances /\ MapNames' = MapNames /\ PinnedKinds' = PinnedKinds
      /\ UNCHANGED <<booster, scripts, failures, healthy>>
  BY SameBooster DEF Attach
<1>7. AttachedAreConfigured'
  BY <1>1, <1>2, <1>4, <1>6 DEF LoaderInv, AttachedAreConfigured, attached
<1>8. AttachedArePinned'
  BY <1>1, <1>3, <1>4, <1>6 DEF LoaderInv, AttachedArePinned, attached
<1>9. Return /\ failures \in 0 .. MaxFailures /\ healthy \in BOOLEAN
  BY DEF LoaderInv, LoaderTypeOK, Attach
<1> QED BY <1>1, <1>4, <1>5, <1>6, <1>7, <1>8, <1>9, ReturnInv

LEMMA AlreadyPinnedInv ==
  ASSUME NEW kind \in Kinds
  PROVE  LoaderInv /\ AlreadyPinned(kind) => LoaderInv'
<1> SUFFICES ASSUME LoaderInv, AlreadyPinned(kind) PROVE LoaderInv'
  OBVIOUS
<1>1. AttachedAreConfigured' /\ AttachedArePinned'
  BY SameAttached DEF AlreadyPinned
<1> QED BY <1>1, ReturnInv DEF LoaderInv, LoaderTypeOK, AlreadyPinned

LEMMA StepFailsInv == LoaderInv /\ StepFails => LoaderInv'
<1> SUFFICES ASSUME LoaderInv, StepFails PROVE LoaderInv'
  OBVIOUS
<1>1. AttachedAreConfigured' /\ AttachedArePinned'
  BY SameAttached DEF StepFails
<1>2. failures' \in 0 .. MaxFailures
  BY XdpLoaderAssumption DEF LoaderInv, LoaderTypeOK, StepFails
<1>3. healthy' \in BOOLEAN
  BY DEF StepFails
<1> QED BY <1>1, <1>2, <1>3, ReturnInv DEF LoaderInv, LoaderTypeOK, StepFails

LEMMA StartUnloadInv == LoaderInv /\ StartUnload => LoaderInv'
<1> SUFFICES ASSUME LoaderInv, StartUnload PROVE LoaderInv'
  OBVIOUS
<1>1. scripts' \in 0 .. MaxScripts /\ 1 <= Len(UnloadSteps)
  BY XdpLoaderAssumption, StepsOfUnload, Counts DEF LoaderInv, LoaderTypeOK, StartUnload
<1>2. LoaderTypeOK'
  BY <1>1, SameBooster DEF LoaderInv, LoaderTypeOK, StartUnload
<1>3. ObjOfSteps' /\ PinnedOfSteps' /\ DetachedOfSteps' /\ Numbered'
  BY Counts, SameBooster DEF StartUnload, ObjOfSteps, PinnedOfSteps, DetachedOfSteps, Numbered
<1>4. AttachedAreConfigured' /\ AttachedArePinned'
  BY SameAttached DEF StartUnload
<1> QED BY <1>2, <1>3, <1>4 DEF LoaderInv

\* unload_prog.sh removes pins only after it has detached every program.
LEMMA UnloadStepInv == LoaderInv /\ UnloadStep => LoaderInv'
<1> SUFFICES ASSUME LoaderInv, UnloadStep PROVE LoaderInv'
  OBVIOUS
<1>1. /\ MapNames' = MapNames /\ UnloadSteps' = UnloadSteps /\ Instances' = Instances
      /\ Served' = Served /\ ScriptOrder' = ScriptOrder /\ PinnedKinds' = PinnedKinds
      /\ script = "unload" /\ UNCHANGED <<booster, command, obj, maps, scripts, failures>>
  BY SameBooster DEF UnloadStep
<1>2. step \in 1 .. Len(UnloadSteps) /\ Len(UnloadSteps) \in Nat
  BY <1>1, StepType, StepsOfUnload DEF LoaderInv
<1>3. /\ running \in [Instances -> 0 .. MaxScripts]
      /\ pinned \in [Instances \X Kinds -> 0 .. MaxScripts]
  BY DEF LoaderInv, LoaderTypeOK
<1>4. ASSUME running' \in [Instances -> 0 .. MaxScripts],
             pinned' \in [Instances \X Kinds -> 0 .. MaxScripts]
      PROVE  LoaderTypeOK'
  <2>1. /\ step' \in Nat \ {0}
        /\ \/ script' = "unload" /\ step' <= Len(UnloadSteps)
           \/ script' = "none" /\ step' = 1
    BY <1>2, <1>1 DEF UnloadStep
  <2>2. healthy' \in BOOLEAN
    BY DEF UnloadStep, LoaderInv, LoaderTypeOK
  <2> QED BY <1>1, <1>4, <2>1, <2>2 DEF LoaderInv, LoaderTypeOK
<1>5. ObjOfSteps' /\ PinnedOfSteps' /\ Numbered'
  BY <1>1 DEF ObjOfSteps, PinnedOfSteps, Numbered, UnloadStep
<1>6. CASE step <= 2 * Served
  <2>1. UnloadSteps[step] = <<"off", ScriptOrder[step]>> /\ ScriptOrder[step] \in Instances
    BY <1>2, <1>6, StepsOfUnload, ScriptOrderOnto, Counts
  <2>2. running' = [running EXCEPT ![ScriptOrder[step]] = 0] /\ pinned' = pinned
    BY <2>1 DEF UnloadStep
  <2>3. \A i \in Instances : running'[i] = IF i = ScriptOrder[step] THEN 0 ELSE running[i]
    BY <2>1, <2>2, <1>3
  <2>4. LoaderTypeOK'
    <3>1. running' \in [Instances -> 0 .. MaxScripts]
      BY <2>1, <2>2, <1>3, XdpLoaderAssumption
    <3> QED BY <3>1, <2>2, <1>3, <1>4
  <2>5. AttachedArePinned' /\ AttachedAreConfigured'
    BY <2>2, <2>3, <1>1 DEF LoaderInv, AttachedArePinned, AttachedAreConfigured, attached
  <2>6. DetachedOfSteps'
    <3> SUFFICES ASSUME script' = "unload", NEW k \in 1 .. 2 * Served, k < step'
                 PROVE  running'[ScriptOrder[k]] = 0
      BY <1>1 DEF DetachedOfSteps
    <3>1. step' = step + 1
      BY DEF UnloadStep
    <3>2. k = step \/ k < step
      BY <3>1, <1>2, Counts
    <3>3. ScriptOrder[k] \in Instances
      BY ScriptOrderOnto
    <3> QED BY <3>2, <3>3, <2>3, <1>1 DEF LoaderInv, DetachedOfSteps
  <2> QED BY <2>4, <2>5, <2>6, <1>5 DEF LoaderInv
<1>7. CASE ~(step <= 2 * Served)
  <2>1. \A i \in Instances : running[i] = 0
    <3>1. \A k \in 1 .. 2 * Served : running[ScriptOrder[k]] = 0
      BY <1>1, <1>2, <1>7, Counts DEF LoaderInv, DetachedOfSteps
    <3> QED BY <3>1, ScriptOrderOnto
  <2>2. UnloadSteps[step][1] = "rm"
    <3>1. \E i \in Instances, kind \in Kinds : UnloadSteps[step] = <<"rm", i, kind>>
      BY <1>2, <1>7, StepsOfUnload, Counts
    <3> QED BY <3>1
  <2>3. /\ running' = running
        /\ pinned' = [pinned EXCEPT ![<<UnloadSteps[step][2], UnloadSteps[step][3]>>] = 0]
    BY <2>2 DEF UnloadStep
  <2>4. pinned' \in [Instances \X Kinds -> 0 .. MaxScripts]
    <3>1. PICK f : pinned' = [pinned EXCEPT ![f] = 0]
      BY <2>3
    <3>2. 0 \in 0 .. MaxScripts
      BY XdpLoaderAssumption
    <3> QED BY <3>1, <3>2, <1>3
  <2>5. LoaderTypeOK'
    BY <2>3, <2>4, <1>3, <1>4
  <2>6. AttachedArePinned' /\ AttachedAreConfigured' /\ DetachedOfSteps'
    BY <2>1, <2>3, <1>1, ScriptOrderOnto
    DEF AttachedArePinned, AttachedAreConfigured, DetachedOfSteps, attached
  <2> QED BY <2>5, <2>6, <1>5 DEF LoaderInv
<1> QED BY <1>6, <1>7

\* Steps of others than the scripts.
LEMMA IdleInv == LoaderInv /\ UNCHANGED loaderVars => LoaderInv'
<1> SUFFICES ASSUME LoaderInv, UNCHANGED loaderVars PROVE LoaderInv'
  OBVIOUS
<1>1. /\ MapNames' = MapNames /\ LoadSteps' = LoadSteps /\ Instances' = Instances
      /\ UnloadSteps' = UnloadSteps /\ Current' = Current /\ Served' = Served
      /\ ScriptOrder' = ScriptOrder
  BY SameBooster DEF loaderVars, Current
<1>2. LoaderTypeOK'
  BY <1>1 DEF loaderVars, LoaderInv, LoaderTypeOK
<1>3. ObjOfSteps' /\ PinnedOfSteps' /\ DetachedOfSteps' /\ Numbered'
  BY <1>1 DEF loaderVars, LoaderInv, ObjOfSteps, PinnedOfSteps, DetachedOfSteps, Numbered
<1>4. AttachedAreConfigured' /\ AttachedArePinned'
  BY SameAttached DEF loaderVars
<1> QED BY <1>2, <1>3, <1>4 DEF LoaderInv

LEMMA LoaderInvInductive == LoaderInv /\ [LoaderNext]_loaderVars => LoaderInv'
<1> SUFFICES ASSUME LoaderInv, [LoaderNext]_loaderVars PROVE LoaderInv'
  OBVIOUS
<1>1. CASE StartLoad
  BY <1>1, StartLoadInv
<1>2. CASE UpdateMap
  BY <1>2, UpdateMapInv
<1>3. CASE Attach
  BY <1>3, AttachInv
<1>4. CASE StepFails
  BY <1>4, StepFailsInv
<1>5. ASSUME NEW kind \in Kinds, Pin(kind) \/ AlreadyPinned(kind)
      PROVE  LoaderInv'
  BY <1>5, PinInv, AlreadyPinnedInv
<1>6. CASE StartUnload
  BY <1>6, StartUnloadInv
<1>7. CASE UnloadStep
  BY <1>7, UnloadStepInv
<1>8. CASE UNCHANGED loaderVars
  BY <1>8, IdleInv
<1> QED BY <1>1, <1>2, <1>3, <1>4, <1>5, <1>6, <1>7, <1>8
        DEF LoaderNext, Load, LoaderIdle

LEMMA LoaderInvariant == LoaderSpec => []LoaderInv
BY InitInv, LoaderInvInductive, PTL DEF LoaderSpec

-----------------------------------------------------------------------------
(* Loading completes after unloading                                       *)

\* dmimo_load pins no map, so that unload_prog.sh has none to remove.
NoMapPinned == booster = "dmimo" => \A i \in Instances : pinned[<<i, "map">>] = 0

\* While unload_prog.sh runs, the pins of the steps it has done are gone.
RemovedOfSteps == script = "unload" =>
  \A i \in Instances, kind \in Kinds : \A k \in 1 .. step - 1 :
    UnloadSteps[k] = <<"rm", i, kind>> => pinned[<<i, kind>>] = 0

\* What unload_prog.sh left is still so when nothing was attached since ...
CleanWhenEmpty == script = "none" /\ healthy /\ attached = {} =>
  \A i \in Instances, kind \in Kinds : pinned[<<i, kind>>] = 0

\* ... and while load_prog.sh runs without a failure: the programs before the
\* current one are attached, and nothing stands in the way of the others, nor of
\* the pins the current call has still to make.
LoadedInOrder == script = "load" /\ healthy =>
  /\ \A k \in 1 .. command - 1 : running[ScriptOrder[k]] # 0
  /\ \A k \in command .. 2 * Served : running[ScriptOrder[k]] = 0
  /\ \A k \in command + 1 .. 2 * Served : \A kind \in Kinds :
       pinned[<<ScriptOrder[k], kind>>] = 0
  /\ \A kind \in Kinds : pinned[<<Current, kind>>] # 0 =>
       \E k \in 1 .. step - 1 : LoadSteps[k] = PinStep[kind]

CompleteInv ==
  /\ LoaderInv
  /\ NoMapPinned /\ RemovedOfSteps /\ CleanWhenEmpty /\ LoadedInOrder

\* load_prog.sh names no instance twice ...
LEMMA ScriptOrderOnce ==
  \A j, k \in 1 .. 2 * Served : ScriptOrder[j] = ScriptOrder[k] => j = k
<1> SUFFICES ASSUME NEW j \in 1 .. 2 * Served, NEW k \in 1 .. 2 * Served,
                    ScriptOrder[j] = ScriptOrder[k]
             PROVE  j = k
  OBVIOUS
<1>1. ASSUME NEW m \in 1 .. 2 * Served
      PROVE  /\ m <= Served => ScriptOrder[m][1] = "egress" /\ ScriptOrder[m][2] = m
             /\ ~(m <= Served) => ScriptOrder[m][1] = "ingress" /\ ScriptOrder[m][2] = m - Served
  <2>1. ScriptOrder[m] = IF m <= Served THEN <<"egress", m>> ELSE <<"ingress", m - Served>>
    BY DEF ScriptOrder
  <2>2. CASE m <= Served
    BY <2>1, <2>2
  <2>3. CASE ~(m <= Served)
    BY <2>1, <2>3
  <2> QED BY <2>2, <2>3
<1>2. j <= Served <=> k <= Served
  BY <1>1
<1>3. CASE j <= Served
  BY <1>1, <1>2, <1>3
<1>4. CASE ~(j <= Served)
  <2>1. j - Served = k - Served
    BY <1>1, <1>2, <1>4
  <2> QED BY <2>1, Counts
<1> QED BY <1>3, <1>4

\* ... and no call pins a file twice; dmimo_load pins no map.
LEMMA PinnedOnce ==
  ASSUME LoaderTypeOK
  PROVE  /\ \A kind \in Kinds : \A j, k \in 1 .. Len(LoadSteps) :
              LoadSteps[j] = PinStep[kind] /\ LoadSteps[k] = PinStep[kind] => j = k
         /\ booster = "dmimo" => \A k \in 1 .. Len(LoadSteps) : LoadSteps[k] # PinStep["map"]
<1>0. /\ booster \in {"das", "dmimo", "prb_mon"}
      /\ \A kind \in Kinds : PinStep[kind] \in {"pin_program", "pin_map"}
      /\ PinStep["map"] = "pin_map"
  BY XdpLoaderAssumption DEF LoaderTypeOK, PinStep, Kinds
<1>1. CASE booster = "dmimo"
  <2>1. LoadSteps = DmimoSteps
    BY <1>1 DEF LoadSteps
  <2>2. /\ Len(LoadSteps) = 9
        /\ \A k \in 1 .. 9 : LoadSteps[k] # "pin_map"
        /\ \A k \in 1 .. 9 : LoadSteps[k] = "pin_program" => k = 8
    BY <2>1 DEF DmimoSteps
  <2> QED BY <1>0, <2>2
<1>2. CASE booster = "das"
  <2>1. LoadSteps = DasSteps
    BY <1>2 DEF LoadSteps
  <2>2. /\ Len(LoadSteps) = 9
        /\ \A k \in 1 .. 9 : LoadSteps[k] = "pin_map" => k = 8
        /\ \A k \in 1 .. 9 : LoadSteps[k] = "pin_program" => k = 7
    BY <2>1 DEF DasSteps
  <2> QED BY <1>0, <1>2, <2>2
<1>3. CASE booster = "prb_mon"
  <2>1. LoadSteps = PrbMonSteps
    BY <1>3 DEF LoadSteps
  <2>2. /\ Len(LoadSteps) = 8
        /\ \A k \in 1 .. 8 : LoadSteps[k] = "pin_map" => k = 1
        /\ \A k \in 1 .. 8 : LoadSteps[k] = "pin_program" => k = 7
    BY <2>1 DEF PrbMonSteps
  <2> QED BY <1>0, <1>3, <2>2
<1> QED BY <1>0, <1>1, <1>2, <1>3

LEMMA CompleteInit == LoaderInit => CompleteInv
<1> SUFFICES ASSUME LoaderInit PROVE CompleteInv
  OBVIOUS
<1>1. \A i \in Instances, kind \in Kinds : pinned[<<i, kind>>] = 0
  BY DEF LoaderInit
<1>2. \A i \in Instances : pinned[<<i, "map">>] = 0
  BY <1>1 DEF Kinds
<1> QED BY <1>1, <1>2, InitInv
        DEF LoaderInit, CompleteInv, NoMapPinned, RemovedOfSteps, CleanWhenEmpty, LoadedInOrder

LEMMA CompleteStartLoad == CompleteInv /\ StartLoad => CompleteInv'
<1> SUFFICES ASSUME CompleteInv, StartLoad PROVE CompleteInv'
  OBVIOUS
<1>1. /\ UNCHANGED <<running, pinned>> /\ Instances' = Instances /\ Served' = Served
      /\ ScriptOrder' = ScriptOrder /\ booster' = booster
      /\ script = "none" /\ script' = "load" /\ command' = 1
      /\ healthy' = (healthy /\ attached = {})
  BY SameBooster DEF StartLoad
<1>2. ASSUME healthy'
      PROVE  /\ \A i \in Instances : running'[i] = 0
             /\ \A i \in Instances, kind \in Kinds : pinned'[<<i, kind>>] = 0
  BY <1>1, <1>2 DEF CompleteInv, CleanWhenEmpty, attached
<1>3. LoadedInOrder'
  <2> SUFFICES ASSUME healthy' PROVE LoadedInOrder'
    BY DEF LoadedInOrder
  <2>1. Current' \in Instances /\ 1 .. command' - 1 = {}
    BY <1>1, Counts, ScriptOrderOnto DEF Current
  <2>2. /\ \A k \in command' .. 2 * Served : ScriptOrder[k] \in Instances
        /\ \A k \in command' + 1 .. 2 * Served : ScriptOrder[k] \in Instances
    BY <1>1, Counts, ScriptOrderOnto
  <2> QED BY <1>1, <1>2, <2>1, <2>2 DEF LoadedInOrder
<1>4. NoMapPinned' /\ RemovedOfSteps' /\ CleanWhenEmpty'
  BY <1>1 DEF CompleteInv, NoMapPinned, RemovedOfSteps, CleanWhenEmpty
<1> QED BY <1>3, <1>4, StartLoadInv DEF CompleteInv

LEMMA CompleteUpdateMap == CompleteInv /\ UpdateMap => CompleteInv'
<1> SUFFICES ASSUME CompleteInv, UpdateMap PROVE CompleteInv'
  OBVIOUS
<1>1. /\ UNCHANGED <<booster, script, command, running, pinned, healthy>>
      /\ step' = step + 1 /\ script = "load"
      /\ Instances' = Instances /\ Served' = Served
      /\ ScriptOrder' = ScriptOrder /\ LoadSteps' = LoadSteps /\ Current' = Current
  BY SameBooster DEF UpdateMap, Current
<1>2. \A k \in 1 .. step - 1 : k \in 1 .. step' - 1
  BY <1>1, StepType DEF CompleteInv, LoaderInv
<1>3. LoadedInOrder'
  BY <1>1, <1>2 DEF CompleteInv, LoadedInOrder
<1>4. NoMapPinned' /\ RemovedOfSteps' /\ CleanWhenEmpty'
  BY <1>1 DEF CompleteInv, NoMapPinned, RemovedOfSteps, CleanWhenEmpty
<1> QED BY <1>3, <1>4, UpdateMapInv DEF CompleteInv

LEMMA CompletePin ==
  ASSUME NEW kind \in Kinds
  PROVE  CompleteInv /\ Pin(kind) => CompleteInv'
<1> SUFFICES ASSUME CompleteInv, Pin(kind) PROVE CompleteInv'
  OBVIOUS
<1>1. /\ UNCHANGED <<booster, script, command, running, healthy>>
      /\ step' = step + 1 /\ script = "load" /\ LoadSteps[step] = PinStep[kind]
      /\ pinned' = [pinned EXCEPT ![<<Current, kind>>] = scripts]
      /\ Instances' = Instances /\ Served' = Served
      /\ ScriptOrder' = ScriptOrder /\ LoadSteps' = LoadSteps /\ Current' = Current
  BY SameBooster DEF Pin, Current
<1>2. /\ step \in 1 .. Len(LoadSteps) /\ step \in 1 .. step' - 1
      /\ \A k \in 1 .. step - 1 : k \in 1 .. step' - 1
      /\ command \in 1 .. 2 * Served /\ Current \in Instances
      /\ pinned \in [Instances \X Kinds -> 0 .. MaxScripts]
  BY <1>1, StepType DEF CompleteInv, LoaderInv, LoaderTypeOK
<1>3. \A i \in Instances, other \in Kinds :
        <<i, other>> # <<Current, kind>> => pinned'[<<i, other>>] = pinned[<<i, other>>]
  BY <1>1, <1>2
<1>4. LoadedInOrder'
  <2> SUFFICES ASSUME healthy PROVE LoadedInOrder'
    BY <1>1 DEF LoadedInOrder
  <2>1. ASSUME NEW k \in command + 1 .. 2 * Served, NEW other \in Kinds
        PROVE  pinned'[<<ScriptOrder[k], other>>] = 0
    <3>1. k \in 1 .. 2 * Served /\ k # command
      BY <1>2, Counts
    <3>2. ScriptOrder[k] \in Instances /\ ScriptOrder[k] # Current
      BY <1>2, <3>1, ScriptOrderOnto, ScriptOrderOnce DEF Current
    <3> QED BY <1>1, <1>3, <3>2 DEF CompleteInv, LoadedInOrder
  <2>2. ASSUME NEW other \in Kinds, pinned'[<<Current, other>>] # 0
        PROVE  \E k \in 1 .. step' - 1 : LoadSteps[k] = PinStep[other]
    <3>1. CASE other = kind
      BY <1>1, <1>2, <3>1
    <3>2. CASE other # kind
      <4>1. pinned[<<Current, other>>] # 0
        BY <1>2, <1>3, <2>2, <3>2
      <4> QED BY <1>1, <1>2, <4>1 DEF CompleteInv, LoadedInOrder
    <3> QED BY <3>1, <3>2
  <2> QED BY <1>1, <2>1, <2>2 DEF CompleteInv, LoadedInOrder
<1>5. NoMapPinned'
  <2> SUFFICES ASSUME booster = "dmimo", NEW i \in Instances
               PROVE  pinned'[<<i, "map">>] = 0
    BY <1>1 DEF NoMapPinned
  <2>1. kind # "map"
    BY <1>1, <1>2, PinnedOnce DEF CompleteInv, LoaderInv
  <2>2. pinned[<<i, "map">>] = 0 /\ "map" \in Kinds
    BY DEF CompleteInv, NoMapPinned, Kinds
  <2> QED BY <1>3, <2>1, <2>2
<1>6. RemovedOfSteps' /\ CleanWhenEmpty'
  BY <1>1 DEF RemovedOfSteps, CleanWhenEmpty
<1> QED BY <1>4, <1>5, <1>6, PinInv DEF CompleteInv

LEMMA CompleteAttach == CompleteInv /\ Attach => CompleteInv'
<1> SUFFICES ASSUME CompleteInv, Attach PROVE CompleteInv'
  OBVIOUS
<1>1. /\ UNCHANGED <<booster, pinned, healthy>> /\ script = "load"
      /\ running' = [running EXCEPT ![Current] = scripts]
      /\ Instances' = Instances /\ Served' = Served
      /\ ScriptOrder' = ScriptOrder /\ LoadSteps' = LoadSteps
  BY SameBooster DEF Attach
<1>2. /\ command \in 1 .. 2 * Served /\ Current \in Instances /\ scripts # 0
      /\ running \in [Instances -> 0 .. MaxScripts]
  BY <1>1, StepType DEF CompleteInv, LoaderInv, LoaderTypeOK, Numbered
<1>3. \A i \in Instances : running'[i] = IF i = Current THEN scripts ELSE running[i]
  BY <1>1, <1>2
<1>4. CleanWhenEmpty'
  BY <1>1, <1>2, <1>3 DEF CleanWhenEmpty, attached
<1>5. LoadedInOrder'
  <2> SUFFICES ASSUME script' = "load", healthy PROVE LoadedInOrder'
    BY <1>1 DEF LoadedInOrder
  <2>1. command' = command + 1 /\ step' = 1 /\ command' \in 1 .. 2 * Served
    BY <1>2, Counts DEF Attach, Return
  <2>2. ASSUME NEW k \in 1 .. command' - 1
        PROVE  running'[ScriptOrder[k]] # 0
    <3>1. k \in 1 .. 2 * Served /\ (k = command \/ k \in 1 .. command - 1)
      BY <1>2, <2>1, Counts
    <3>2. CASE k = command
      BY <1>2, <1>3, <3>2 DEF Current
    <3>3. CASE k \in 1 .. command - 1
      BY <1>1, <1>2, <1>3, <3>1, <3>3, ScriptOrderOnto DEF CompleteInv, LoadedInOrder
    <3> QED BY <3>1, <3>2, <3>3
  <2>3. ASSUME NEW k \in command' .. 2 * Served
        PROVE  /\ ScriptOrder[k] \in Instances
               /\ running'[ScriptOrder[k]] = 0
               /\ \A kind \in Kinds : pinned'[<<ScriptOrder[k], kind>>] = 0
    <3>1. k \in 1 .. 2 * Served /\ k \in command + 1 .. 2 * Served /\ k # command
          /\ k \in command .. 2 * Served
      BY <1>2, <2>1, Counts
    <3>2. ScriptOrder[k] \in Instances /\ ScriptOrder[k] # Current
      BY <1>2, <3>1, ScriptOrderOnto, ScriptOrderOnce DEF Current
    <3> QED BY <1>1, <1>3, <3>1, <3>2 DEF CompleteInv, LoadedInOrder
  <2>4. Current' = ScriptOrder[command'] /\ command' \in command' .. 2 * Served
    BY <1>1, <2>1, Counts DEF Current
  <2>5. \A k \in command' + 1 .. 2 * Served : k \in command' .. 2 * Served
    BY <2>1, Counts
  <2> QED BY <1>1, <2>2, <2>3, <2>4, <2>5 DEF LoadedInOrder
<1>6. NoMapPinned' /\ RemovedOfSteps'
  BY <1>1 DEF CompleteInv, NoMapPinned, RemovedOfSteps, Attach, Return
<1> QED BY <1>4, <1>5, <1>6, AttachInv DEF CompleteInv

\* Without a failure, no call finds its file pinned.
LEMMA NothingInTheWay ==
  ASSUME CompleteInv, NEW kind \in Kinds, AlreadyPinned(kind)
  PROVE  ~healthy
<1> SUFFICES ASSUME healthy PROVE FALSE
  OBVIOUS
<1>1. PICK k \in 1 .. step - 1 : LoadSteps[k] = PinStep[kind]
  BY DEF AlreadyPinned, CompleteInv, LoadedInOrder
<1>2. step \in 1 .. Len(LoadSteps) /\ Len(LoadSteps) \in Nat /\ LoadSteps[step] = PinStep[kind]
  BY StepType, StepsOfLoad DEF AlreadyPinned, CompleteInv, LoaderInv
<1>3. k \in 1 .. Len(LoadSteps) /\ k # step
  BY <1>2
<1> QED BY <1>1, <1>2, <1>3, PinnedOnce DEF CompleteInv, LoaderInv

\* A call that fails leaves the pins as they are, and the rest unsaid.
LEMMA CompleteFailure ==
  ASSUME CompleteInv, StepFails \/ \E kind \in Kinds : AlreadyPinned(kind)
  PROVE  CompleteInv' /\ ~healthy'
<1>1. /\ ~healthy' /\ UNCHANGED <<booster, pinned>>
      /\ script' # "unload"
  <2>1. CASE StepFails
    BY <2>1 DEF StepFails, Return
  <2>2. ASSUME NEW kind \in Kinds, AlreadyPinned(kind)
        PROVE  /\ ~healthy' /\ UNCHANGED <<booster, pinned>>
               /\ script' # "unload"
    <3>1. ~healthy /\ healthy' = healthy
      BY <2>2, NothingInTheWay DEF AlreadyPinned
    <3> QED BY <2>2, <3>1 DEF AlreadyPinned, Return
  <2> QED BY <2>1, <2>2
<1>2. Instances' = Instances
  BY <1>1, SameBooster
<1>3. NoMapPinned' /\ RemovedOfSteps' /\ CleanWhenEmpty' /\ LoadedInOrder'
  BY <1>1, <1>2
  DEF CompleteInv, NoMapPinned, RemovedOfSteps, CleanWhenEmpty, LoadedInOrder
<1> QED BY <1>1, <1>3, StepFailsInv, AlreadyPinnedInv DEF CompleteInv

LEMMA CompleteStartUnload == CompleteInv /\ StartUnload => CompleteInv'
<1> SUFFICES ASSUME CompleteInv, StartUnload PROVE CompleteInv'
  OBVIOUS
<1>1. /\ booster' = booster /\ pinned' = pinned /\ script' = "unload" /\ step' = 1
      /\ Instances' = Instances
  BY SameBooster DEF StartUnload
<1>2. NoMapPinned' /\ RemovedOfSteps' /\ CleanWhenEmpty' /\ LoadedInOrder'
  BY <1>1 DEF CompleteInv, NoMapPinned, RemovedOfSteps, CleanWhenEmpty, LoadedInOrder
<1> QED BY <1>2, StartUnloadInv DEF CompleteInv

LEMMA CompleteUnloadStep == CompleteInv /\ UnloadStep => CompleteInv'
<1> SUFFICES ASSUME CompleteInv, UnloadStep PROVE CompleteInv'
  OBVIOUS
<1>1. /\ booster' = booster /\ script = "unload" /\ script' # "load"
      /\ Instances' = Instances /\ UnloadSteps' = UnloadSteps
      /\ PinnedKinds' = PinnedKinds
  BY SameBooster DEF UnloadStep
<1>2. /\ step \in 1 .. Len(UnloadSteps) /\ Len(UnloadSteps) \in Nat
      /\ pinned \in [Instances \X Kinds -> 0 .. MaxScripts]
  BY <1>1, StepType, StepsOfUnload DEF CompleteInv, LoaderInv, LoaderTypeOK
<1>3. ASSUME NEW i \in Instances, NEW kind \in Kinds
      PROVE  /\ pinned[<<i, kind>>] = 0 => pinned'[<<i, kind>>] = 0
             /\ UnloadSteps[step] = <<"rm", i, kind>> => pinned'[<<i, kind>>] = 0
  <2>1. CASE step <= 2 * Served
    <3>1. UnloadSteps[step] = <<"off", ScriptOrder[step]>>
      BY <1>2, <2>1, StepsOfUnload
    <3>2. UnloadSteps[step][1] = "off"
      BY <3>1
    <3>3. UnloadSteps[step] # <<"rm", i, kind>>
      BY <3>2
    <3> QED BY <3>2, <3>3 DEF UnloadStep
  <2>2. CASE ~(step <= 2 * Served)
    <3>1. PICK j \in Instances, other \in Kinds : UnloadSteps[step] = <<"rm", j, other>>
      BY <1>2, <2>2, StepsOfUnload, Counts
    <3>2. pinned' = [pinned EXCEPT ![<<j, other>>] = 0]
      BY <3>1 DEF UnloadStep
    <3>3. UnloadSteps[step] = <<"rm", i, kind>> => i = j /\ kind = other
      BY <3>1
    <3>4. <<i, kind>> \in Instances \X Kinds
      OBVIOUS
    <3> QED BY <1>2, <3>2, <3>3, <3>4
  <2> QED BY <2>1, <2>2
<1>4. ASSUME NEW i \in Instances, NEW kind \in Kinds, NEW k \in 1 .. step,
             UnloadSteps[k] = <<"rm", i, kind>>
      PROVE  pinned'[<<i, kind>>] = 0
  <2>1. CASE k = step
    BY <1>3, <1>4, <2>1
  <2>2. CASE k # step
    <3>1. k \in 1 .. step - 1
      BY <1>2, <2>2
    <3> QED BY <1>1, <1>3, <1>4, <3>1 DEF CompleteInv, RemovedOfSteps
  <2> QED BY <2>1, <2>2
<1>5. NoMapPinned'
  BY <1>1, <1>3 DEF CompleteInv, NoMapPinned, Kinds
<1>6. RemovedOfSteps'
  <2> SUFFICES ASSUME script' = "unload", NEW i \in Instances, NEW kind \in Kinds,
                      NEW k \in 1 .. step' - 1, UnloadSteps[k] = <<"rm", i, kind>>
               PROVE  pinned'[<<i, kind>>] = 0
    BY <1>1 DEF RemovedOfSteps
  <2>1. step' = step + 1
    BY DEF UnloadStep
  <2>2. k \in 1 .. step
    BY <1>2, <2>1
  <2> QED BY <1>4, <2>2
<1>7. CleanWhenEmpty'
  <2> SUFFICES ASSUME script' = "none", NEW i \in Instances, NEW kind \in Kinds
               PROVE  pinned'[<<i, kind>>] = 0
    BY <1>1 DEF CleanWhenEmpty
  <2>1. step = Len(UnloadSteps)
    BY <1>1, <1>2 DEF UnloadStep
  <2>2. CASE kind \in PinnedKinds
    <3>1. PICK k \in 1 .. step : UnloadSteps[k] = <<"rm", i, kind>>
      BY <2>1, <2>2, StepsOfUnload
    <3> QED BY <1>4, <3>1
  <2>3. CASE kind \notin PinnedKinds
    <3>1. booster = "dmimo" /\ kind = "map"
      BY <2>3 DEF PinnedKinds, Kinds
    <3> QED BY <1>5, <1>1, <3>1 DEF NoMapPinned
  <2> QED BY <2>2, <2>3
<1>8. LoadedInOrder'
  BY <1>1 DEF LoadedInOrder
<1> QED BY <1>5, <1>6, <1>7, <1>8, UnloadStepInv DEF CompleteInv

\* Steps that change at most the number of failures.
LEMMA CompleteIdle ==
  ASSUME CompleteInv, LoaderInv',
         UNCHANGED <<booster, script, command, step, running, pinned, healthy>>
  PROVE  CompleteInv'
<1>1. /\ Instances' = Instances /\ UnloadSteps' = UnloadSteps /\ LoadSteps' = LoadSteps
      /\ Served' = Served /\ ScriptOrder' = ScriptOrder /\ Current' = Current
      /\ PinnedKinds' = PinnedKinds
  BY SameBooster DEF Current
<1>2. attached' = attached
  BY <1>1 DEF attached
<1> QED BY <1>1, <1>2
        DEF CompleteInv, NoMapPinned, RemovedOfSteps, CleanWhenEmpty, LoadedInOrder

\* The step that ends load_prog.sh, if no call has failed, attaches the last of
\* the programs.
Completes == script = "load" /\ script' = "none" /\ healthy' => attached' = Instances

LEMMA LastAttach == CompleteInv /\ Attach => Completes
<1> SUFFICES ASSUME CompleteInv, Attach, script' = "none", healthy'
             PROVE  attached' = Instances
  BY DEF Completes
<1>1. /\ healthy /\ script = "load" /\ command = 2 * Served
      /\ running' = [running EXCEPT ![Current] = scripts]
      /\ command \in 1 .. 2 * Served /\ Current \in Instances /\ scripts # 0
      /\ running \in [Instances -> 0 .. MaxScripts] /\ Instances' = Instances
  <2>1. script = "load" /\ ~(command < 2 * Served)
    BY DEF Attach, Return
  <2>2. command \in 1 .. 2 * Served
    BY StepType DEF CompleteInv, LoaderInv
  <2>3. command = 2 * Served
    BY <2>1, <2>2, Counts
  <2> QED BY <2>1, <2>3, StepType, SameBooster
          DEF Attach, CompleteInv, LoaderInv, LoaderTypeOK, Numbered
<1>2. ASSUME NEW i \in Instances PROVE running'[i] # 0
  <2>1. PICK k \in 1 .. 2 * Served : ScriptOrder[k] = i
    BY ScriptOrderOnto
  <2>2. CASE k = command
    BY <1>1, <2>1, <2>2 DEF Current
  <2>3. CASE k # command
    <3>1. k \in 1 .. command - 1
      BY <1>1, <2>3, Counts
    <3>2. running[i] # 0
      BY <1>1, <2>1, <3>1 DEF CompleteInv, LoadedInOrder
    <3> QED BY <1>1, <3>2
  <2> QED BY <2>2, <2>3
<1> QED BY <1>1, <1>2 DEF attached

LEMMA CompleteInductive ==
  CompleteInv /\ [LoaderNext]_loaderVars => CompleteInv' /\ Completes
<1> SUFFICES ASSUME CompleteInv, [LoaderNext]_loaderVars PROVE CompleteInv' /\ Completes
  OBVIOUS
<1>1. CASE StartLoad
  BY <1>1, CompleteStartLoad DEF StartLoad, Completes
<1>2. CASE UpdateMap
  BY <1>2, CompleteUpdateMap DEF UpdateMap, Completes
<1>3. CASE Attach
  BY <1>3, CompleteAttach, LastAttach
<1>4. CASE StepFails \/ \E kind \in Kinds : AlreadyPinned(kind)
  BY <1>4, CompleteFailure DEF Completes
<1>5. ASSUME NEW kind \in Kinds, Pin(kind)
      PROVE  CompleteInv' /\ Completes
  BY <1>5, CompletePin DEF Pin, Completes
<1>6. CASE StartUnload
  BY <1>6, CompleteStartUnload DEF StartUnload, Completes
<1>7. CASE UnloadStep
  BY <1>7, CompleteUnloadStep DEF UnloadStep, Completes
<1>8. CASE UNCHANGED loaderVars
  <2>1. LoaderInv'
    BY <1>8, IdleInv DEF CompleteInv
  <2>2. UNCHANGED <<booster, script, command, step, running, pinned, healthy>>
    BY <1>8 DEF loaderVars
  <2> QED BY <2>1, <2>2, CompleteIdle DEF Completes
<1> QED BY <1>1, <1>2, <1>3, <1>4, <1>5, <1>6, <1>7, <1>8
        DEF LoaderNext, Load, LoaderIdle

-----------------------------------------------------------------------------
(* Theorems                                                                *)

\* The types of the loader's state, for every middlebox.
THEOREM LoaderTypeCorrect == LoaderSpec => []LoaderTypeOK
<1>1. LoaderInv => LoaderTypeOK
  BY DEF LoaderInv
<1> QED BY <1>1, LoaderInvariant, PTL

\* Whatever calls fail and however often the scripts run, a program that is
\* attached has all its maps filled (das_load.c, dmimo_load.c and
\* prb_mon_load.c attach last).
THEOREM ConfiguredWhenAttached == LoaderSpec => []AttachedAreConfigured
<1>1. LoaderInv => AttachedAreConfigured
  BY DEF LoaderInv
<1> QED BY <1>1, LoaderInvariant, PTL

\* What is pinned for an attached program is its own object: the calls pin
\* before they attach and stop at a pin that exists, and unload_prog.sh detaches
\* all programs before it removes a pin.
THEOREM PinnedWhenAttached == LoaderSpec => []AttachedArePinned
<1>1. LoaderInv => AttachedArePinned
  BY DEF LoaderInv
<1> QED BY <1>1, LoaderInvariant, PTL

-----------------------------------------------------------------------------
(* The process reads the maps of the programs that run                     *)

\* A process that no unload_prog.sh has disturbed holds what is pinned.
HeldArePinned ==
  /\ held \in [Instances -> 0 .. MaxScripts]
  /\ process = "off" => held = NoneHeld
  /\ booster = "dmimo" => process = "off"
  /\ ~outdated =>
       /\ process # "off" => script # "unload"
       /\ \A i \in Instances : held[i] # 0 => pinned[<<i, "map">>] = held[i]

ReaderInv ==
  /\ LoaderInv
  /\ opening \in 1 .. Len(OpenOrder) /\ outdated \in BOOLEAN
  /\ HeldArePinned

\* The maps that are opened are those of instances.
LEMMA OpenOrderInstances ==
  /\ Len(OpenOrder) \in Nat /\ Len(OpenOrder) >= 1
  /\ \A k \in 1 .. Len(OpenOrder) : OpenOrder[k] \in Instances
<1>1. CASE booster = "prb_mon"
  <2>1. Served = 1 /\ OpenOrder = << <<"ingress", 1>>, <<"egress", 1>> >>
    BY <1>1 DEF Served, OpenOrder
  <2> QED BY <2>1 DEF Instances
<1>2. CASE booster # "prb_mon"
  <2>1. OpenOrder = [r \in 1 .. Served |-> <<"ingress", r>>] /\ Len(OpenOrder) = Served
    BY <1>2, Counts DEF OpenOrder
  <2> QED BY <2>1, Counts DEF Instances
<1> QED BY <1>1, <1>2

LEMMA ReaderInitInv == LoaderInit /\ ReaderInit => ReaderInv
<1> SUFFICES ASSUME LoaderInit, ReaderInit PROVE ReaderInv
  OBVIOUS
<1>1. LoaderInv
  BY InitInv
<1>2. held \in [Instances -> 0 .. MaxScripts] /\ held = NoneHeld
  BY XdpLoaderAssumption DEF ReaderInit, NoneHeld
<1>3. HeldArePinned
  BY <1>2 DEF HeldArePinned, ReaderInit, NoneHeld
<1>4. opening \in 1 .. Len(OpenOrder)
  BY OpenOrderInstances DEF ReaderInit
<1>5. outdated \in BOOLEAN
  BY DEF ReaderInit
<1> QED BY <1>1, <1>3, <1>4, <1>5 DEF ReaderInv

\* Outside unload_prog.sh, what is pinned stays pinned.
LEMMA PinsStay ==
  ASSUME LoaderInv, LoaderNext, script # "unload"
  PROVE  \A f \in Instances \X Kinds : pinned[f] # 0 => pinned'[f] = pinned[f]
<1>1. ASSUME NEW kind \in Kinds, Pin(kind)
      PROVE  \A f \in Instances \X Kinds : pinned[f] # 0 => pinned'[f] = pinned[f]
  BY <1>1 DEF Pin, LoaderInv, LoaderTypeOK
<1>2. CASE pinned' = pinned
  BY <1>2
<1> QED BY <1>1, <1>2 DEF LoaderNext, Load, StartLoad, UpdateMap, Attach, StepFails,
     AlreadyPinned, StartUnload, UnloadStep, LoaderIdle, loaderVars

LEMMA ScriptStepInv ==
  ASSUME ReaderInv, LoaderNext, UNCHANGED <<process, opening, held, starts>>,
         outdated' = (outdated \/ script' = "unload")
  PROVE  ReaderInv'
<1>1. LoaderInv'
  BY LoaderInvInductive DEF ReaderInv
<1>2. booster' = booster
  BY DEF LoaderNext, Load, StartLoad, UpdateMap, Attach, StepFails, Pin,
         AlreadyPinned, StartUnload, UnloadStep, LoaderIdle, loaderVars
<1>3. Instances' = Instances /\ OpenOrder' = OpenOrder /\ NoneHeld' = NoneHeld
  BY <1>2, SameBooster DEF OpenOrder, NoneHeld
<1>4. ASSUME ~outdated'
      PROVE  /\ process' # "off" => script' # "unload"
             /\ \A i \in Instances : held'[i] # 0 => pinned'[<<i, "map">>] = held'[i]
  <2>1. ~outdated /\ script' # "unload"
    BY <1>4 DEF ReaderInv
  <2>2. CASE process = "off"
    BY <2>1, <2>2 DEF ReaderInv, HeldArePinned, NoneHeld
  <2>3. CASE process # "off"
    <3> SUFFICES ASSUME NEW i \in Instances, held[i] # 0
                 PROVE  pinned'[<<i, "map">>] = held[i]
      BY <2>1
    <3>1. script # "unload" /\ pinned[<<i, "map">>] = held[i]
      BY <2>1, <2>3 DEF ReaderInv, HeldArePinned
    <3>2. <<i, "map">> \in Instances \X Kinds
      BY DEF Kinds
    <3> QED BY <3>1, <3>2, PinsStay DEF ReaderInv
  <2> QED BY <2>2, <2>3
<1>5. outdated' \in BOOLEAN
  BY DEF ReaderInv
<1>6. HeldArePinned'
  BY <1>2, <1>3, <1>4 DEF ReaderInv, HeldArePinned
<1> QED BY <1>1, <1>3, <1>5, <1>6 DEF ReaderInv

\* A step of the process changes nothing the scripts' invariant speaks of.
LEMMA ProcessStepKeepsLoaderInv ==
  ASSUME LoaderInv, Process
  PROVE  LoaderInv' /\ booster' = booster
<1>1. CASE UNCHANGED loaderVars
  BY <1>1, IdleInv DEF loaderVars
<1>2. CASE OutOfMemory
  <2>1. /\ UNCHANGED <<booster, script, command, step, obj, running, maps, pinned,
                       scripts, healthy>>
        /\ failures' \in 0 .. MaxFailures
    BY <1>2, XdpLoaderAssumption DEF OutOfMemory, LoaderInv, LoaderTypeOK
  <2>2. /\ MapNames' = MapNames /\ LoadSteps' = LoadSteps /\ Instances' = Instances
        /\ UnloadSteps' = UnloadSteps /\ Current' = Current /\ Served' = Served
        /\ ScriptOrder' = ScriptOrder
    BY <2>1, SameBooster DEF Current
  <2>3. LoaderTypeOK'
    BY <2>1, <2>2 DEF LoaderInv, LoaderTypeOK
  <2>4. ObjOfSteps' /\ PinnedOfSteps' /\ DetachedOfSteps' /\ Numbered'
    BY <2>1, <2>2 DEF LoaderInv, ObjOfSteps, PinnedOfSteps, DetachedOfSteps, Numbered
  <2>5. AttachedAreConfigured' /\ AttachedArePinned'
    BY <2>1, SameAttached
  <2> QED BY <2>1, <2>3, <2>4, <2>5 DEF LoaderInv
<1> QED BY <1>1, <1>2 DEF Process, StartProcess, OpenMap, Exit

LEMMA ProcessStepInv == ReaderInv /\ Process => ReaderInv'
<1> SUFFICES ASSUME ReaderInv, Process PROVE ReaderInv'
  OBVIOUS
<1>1. LoaderInv' /\ booster' = booster
  BY ProcessStepKeepsLoaderInv DEF ReaderInv
<1>2. Instances' = Instances /\ OpenOrder' = OpenOrder /\ NoneHeld' = NoneHeld
  BY <1>1, SameBooster DEF OpenOrder, NoneHeld
<1>3. /\ opening \in 1 .. Len(OpenOrder) /\ Opening \in Instances
      /\ Len(OpenOrder) \in Nat /\ Len(OpenOrder) >= 1
  BY OpenOrderInstances DEF ReaderInv, Opening
<1>4. ASSUME NextMap PROVE opening' \in 1 .. Len(OpenOrder) /\ process' # "off"
  BY <1>3, <1>4 DEF NextMap
<1>5. CASE StartProcess
  <2>1. HeldArePinned'
    BY <1>2, <1>5 DEF StartProcess, ReaderInv, HeldArePinned, NoneHeld, loaderVars
  <2> QED BY <1>1, <1>2, <1>3, <1>5, <2>1 DEF StartProcess, ReaderInv
<1>6. CASE OpenMap
  <2>1. /\ held' = [held EXCEPT ![Opening] = pinned[<<Opening, "map">>]]
        /\ pinned' = pinned /\ script' = script /\ outdated' = outdated
        /\ process # "off"
    BY <1>6 DEF OpenMap, loaderVars
  <2>2. pinned[<<Opening, "map">>] \in 0 .. MaxScripts
    BY <1>3 DEF ReaderInv, LoaderInv, LoaderTypeOK, Kinds
  <2>3. held' \in [Instances -> 0 .. MaxScripts]
    BY <2>1, <2>2 DEF ReaderInv, HeldArePinned
  <2>4. HeldArePinned'
    BY <1>1, <1>2, <1>3, <1>4, <1>6, <2>1, <2>3
    DEF OpenMap, ReaderInv, HeldArePinned
  <2> QED BY <1>1, <1>2, <1>4, <1>6, <2>1, <2>4 DEF OpenMap, ReaderInv
<1>7. CASE OutOfMemory
  <2>1. HeldArePinned'
    BY <1>1, <1>2, <1>4, <1>7 DEF OutOfMemory, ReaderInv, HeldArePinned
  <2> QED BY <1>1, <1>2, <1>4, <1>7, <2>1 DEF OutOfMemory, ReaderInv
<1>8. CASE Exit
  <2>1. held' = NoneHeld /\ NoneHeld \in [Instances -> 0 .. MaxScripts]
    BY <1>8, XdpLoaderAssumption DEF Exit, NoneHeld
  <2>2. HeldArePinned'
    BY <1>1, <1>2, <1>8, <2>1 DEF Exit, HeldArePinned, NoneHeld
  <2> QED BY <1>1, <1>2, <1>3, <1>8, <2>2 DEF Exit, ReaderInv
<1> QED BY <1>5, <1>6, <1>7, <1>8 DEF Process

LEMMA ReaderInvInductive ==
  ReaderInv /\ [ReaderNext]_<<loaderVars, readerVars>> => ReaderInv'
<1> SUFFICES ASSUME ReaderInv, [ReaderNext]_<<loaderVars, readerVars>> PROVE ReaderInv'
  OBVIOUS
<1>1. CASE LoaderNext /\ UNCHANGED <<process, opening, held, starts>>
                      /\ outdated' = (outdated \/ script' = "unload")
  BY <1>1, ScriptStepInv
<1>2. CASE Process
  BY <1>2, ProcessStepInv
<1>3. CASE UNCHANGED <<loaderVars, readerVars>>
  <2>1. LoaderInv' /\ booster' = booster
    BY <1>3, IdleInv DEF ReaderInv, loaderVars
  <2>2. Instances' = Instances /\ OpenOrder' = OpenOrder /\ NoneHeld' = NoneHeld
    BY <2>1, SameBooster DEF OpenOrder, NoneHeld
  <2>3. HeldArePinned'
    BY <1>3, <2>2 DEF loaderVars, readerVars, ReaderInv, HeldArePinned
  <2> QED BY <1>3, <2>1, <2>2, <2>3 DEF readerVars, ReaderInv
<1> QED BY <1>1, <1>2, <1>3 DEF ReaderNext

\* The same next to a process that reads the maps.
LEMMA CompleteNextToReader ==
  CompleteInv /\ [ReaderNext]_<<loaderVars, readerVars>> => CompleteInv' /\ Completes
<1> SUFFICES ASSUME CompleteInv, [ReaderNext]_<<loaderVars, readerVars>>
             PROVE  CompleteInv' /\ Completes
  OBVIOUS
<1>1. CASE LoaderNext \/ UNCHANGED loaderVars
  BY <1>1, CompleteInductive
<1>2. CASE Process
  <2>1. UNCHANGED <<booster, script, command, step, running, pinned, healthy>>
    BY <1>2 DEF Process, StartProcess, OpenMap, OutOfMemory, Exit, loaderVars
  <2> QED BY <1>2, <2>1, ProcessStepKeepsLoaderInv, CompleteIdle DEF CompleteInv, Completes
<1> QED BY <1>1, <1>2 DEF ReaderNext

\* After unload_prog.sh and with no failing call, load_prog.sh attaches every
\* program: no pin of an earlier run, whatever failed in it, is left to stop a
\* call (the three unload_prog.sh name every path the loaders pin), and no call
\* pins or attaches what another of the same run did.
THEOREM LoadingCompletes == ReaderSpec => UnloadedLoadsCompletely
<1>1. LoaderInit /\ ReaderInit => CompleteInv
  BY CompleteInit
<1>2. CompleteInv /\ [ReaderNext]_<<loaderVars, readerVars>> => CompleteInv'
  BY CompleteNextToReader
<1>3. CompleteInv /\ [ReaderNext]_<<loaderVars, readerVars>> =>
        [script = "load" /\ script' = "none" /\ healthy' => attached' = Instances]_loaderVars
  BY CompleteNextToReader DEF Completes
<1> QED BY <1>1, <1>2, <1>3, PTL DEF ReaderSpec, UnloadedLoadsCompletely

\* A process that was started after the last unload_prog.sh holds the maps of
\* the programs that run (bpf_obj_get in das_rx_handler.c and prb_mon.c), no
\* matter which calls of the loaders fail and how often they are repeated.
THEOREM ProcessReadsRunning == ReaderSpec => []HeldAreRunning
<1>1. ReaderInv => HeldAreRunning
  <2> SUFFICES ASSUME ReaderInv, ~outdated, NEW i \in Instances,
                      held[i] # 0, running[i] # 0
               PROVE  held[i] = running[i]
    BY DEF HeldAreRunning
  <2>1. pinned[<<i, "map">>] = held[i]
    BY DEF ReaderInv, HeldArePinned
  <2>2. "map" \in PinnedKinds
    BY DEF ReaderInv, HeldArePinned, NoneHeld, PinnedKinds, Kinds
  <2>3. pinned[<<i, "map">>] = running[i]
    BY <2>2 DEF ReaderInv, LoaderInv, AttachedArePinned, attached
  <2> QED BY <2>1, <2>3
<1> QED BY <1>1, ReaderInitInv, ReaderInvInductive, PTL DEF ReaderSpec

-----------------------------------------------------------------------------
(* While packets flow                                                      *)

\* Packets alone change, or no packet does.
LEMMA StepIsReaderStep ==
  [Next]_vars => [ReaderNext]_<<loaderVars, readerVars>>
BY DEF Next, Idle, Handle, SendDl, SendUl, Send, vars

\* The programs with their packets are an instance of the scripts and the
\* process without: all that is proved of these holds here.
THEOREM ForwardRefinesReader == Spec => ReaderSpec
<1>1. Init => LoaderInit /\ ReaderInit
  BY DEF Init
<1> QED BY <1>1, StepIsReaderStep, PTL DEF Spec, ReaderSpec

\* A load that follows an unload attaches every program also while packets flow
\* and the process starts, opens maps and exits.
THEOREM LoadingCompletesWhileForwarding == Spec => UnloadedLoadsCompletely
BY ForwardRefinesReader, LoadingCompletes, PTL

LEMMA ForwardReaderInvariant == Spec => []ReaderInv
BY ForwardRefinesReader, ReaderInitInv, ReaderInvInductive, PTL DEF ReaderSpec

\* While packets flow, a program that sees them has all its maps.
THEOREM ConfiguredWhileForwarding == Spec => []AttachedAreConfigured
<1>1. ReaderInv => AttachedAreConfigured
  BY DEF ReaderInv, LoaderInv
<1> QED BY <1>1, ForwardReaderInvariant, PTL

(* What a packet is on its way.                                            *)

\* As the DU or an RU sent it, or rewritten by a program.
Fresh == {p \in Packet : p.hops = 0 /\ (p.src = Du \/ \E r \in Rus : p.src = Ru(r))}
Forwarded ==
  {p \in Packet : p.hops = 1 /\ (p.src = BoosterMac \/ \E r \in Rus : p.src = RuDu(r))}

PacketsInv ==
  /\ sent \in 0 .. MaxPackets
  /\ rx \in [Instances -> Seq(Fresh \cup Forwarded)]
  /\ to_ru \in [1 .. Served -> SUBSET Forwarded]
  /\ to_du \subseteq Forwarded

\* A packet on its way to an interface or at an RU.
Known(p) ==
  \/ \E i \in Instances : \E k \in 1 .. Len(rx[i]) : rx[i][k] = p
  \/ \E r \in 1 .. Served : p \in to_ru[r]

\* The identity tells what a packet is, however often it was rewritten.
SameData(p, q) == p.id = q.id /\ p.port = q.port /\ p.plane = q.plane
IdsTell ==
  /\ \A p : Known(p) => p.id <= sent
  /\ \A p, q : Known(p) /\ Known(q) /\ p.id = q.id => SameData(p, q)

\* IQ packets only reach an RU of the distributed MIMO that serves their port.
PortsServed == booster = "dmimo" =>
  \A r \in 1 .. Served : \A p \in to_ru[r] : p.plane = "U" => p.port \in bitmap[r]

ForwardInv == ReaderInv /\ PacketsInv /\ IdsTell /\ PortsServed

\* A program that is attached has its addresses.
LEMMA Addressing ==
  ASSUME AttachedAreConfigured, NEW i \in attached
  PROVE  /\ i \in Instances /\ i[2] \in Rus /\ i[2] \in 1 .. Served
         /\ ru_mac(i) = Ru(i[2]) /\ du_mac(i) = Du /\ booster_mac(i) = BoosterMac
         /\ ranbooster_du_mac(i) = RuDu(i[2])
         /\ rvlan(i) \in Vlans /\ dvlan(i) \in Vlans
<1>1. i \in Instances /\ maps[i] = MapNames
  BY DEF attached, AttachedAreConfigured
<1>2. i[2] \in 1 .. Served /\ i[2] \in Rus
  BY <1>1, XdpLoaderAssumption DEF Instances, Rus, Served
<1>3. CASE booster = "prb_mon"
  BY <1>1, <1>2, <1>3 DEF MapNames, Filled, ru_mac, du_mac, booster_mac, ranbooster_du_mac,
     rvlan, dvlan, Vlans
<1>4. CASE booster # "prb_mon"
  BY <1>1, <1>2, <1>4 DEF MapNames, Filled, ru_mac, du_mac, booster_mac, ranbooster_du_mac,
     rvlan, dvlan, Vlans
<1> QED BY <1>1, <1>2, <1>3, <1>4

\* The addresses of different stations differ.
LEMMA AddressesDiffer ==
  /\ Du # BoosterMac /\ Du \in Addresses /\ BoosterMac \in Addresses
  /\ \A r \in Rus : /\ Ru(r) \in Addresses /\ RuDu(r) \in Addresses
                    /\ Ru(r) # Du /\ RuDu(r) # Du /\ Ru(r) # BoosterMac
                    /\ \A q \in Rus : Ru(r) # RuDu(q) /\ (Ru(r) = Ru(q) => r = q)
BY DEF Du, BoosterMac, Ru, RuDu, Addresses

\* A packet that was rewritten is not a DU's or an RU's any more.
LEMMA OnlyFresh ==
  ASSUME NEW p \in Fresh \cup Forwarded, p.src = Du \/ \E r \in Rus : p.src = Ru(r)
  PROVE  p \in Fresh
BY AddressesDiffer DEF Fresh, Forwarded

\* The tags of packets.
LEMMA TagTypes ==
  ASSUME NEW vlan \in Vlans, NEW tag \in Tags(vlan)
  PROVE  tag.ecpri \in BOOLEAN /\ tag.vlan \in Vlans
<1>1. CASE tag = [ecpri |-> TRUE, vlan |-> vlan]
  BY <1>1
<1>2. CASE tag = [ecpri |-> FALSE, vlan |-> 0]
  BY <1>2 DEF Vlans
<1> QED BY <1>1, <1>2 DEF Tags

\* What it is rewritten to.
LEMMA RewrittenIsForwarded ==
  ASSUME NEW p \in Fresh, NEW src, src = BoosterMac \/ \E r \in Rus : src = RuDu(r),
         NEW dst \in Addresses, NEW vlan \in Vlans
  PROVE  /\ Rewritten(p, src, dst, vlan) \in Forwarded
         /\ Rewritten(p, src, dst, vlan).id = p.id
         /\ Rewritten(p, src, dst, vlan).port = p.port
         /\ Rewritten(p, src, dst, vlan).plane = p.plane
         /\ Rewritten(p, src, dst, vlan).dst = dst
<1> DEFINE v == IF p.vlan = 0 THEN 0 ELSE vlan
<1>1. src \in Addresses
  BY AddressesDiffer
<1>2. p \in Packet /\ p.hops = 0
  BY DEF Fresh
<1>3. Rewritten(p, src, dst, vlan) =
        [id |-> p.id, plane |-> p.plane, port |-> p.port, ecpri |-> p.ecpri,
         src |-> src, dst |-> dst, vlan |-> v, hops |-> 1]
  <2>1. p \in [id : 1 .. MaxPackets, plane : Planes, port : Ports, ecpri : BOOLEAN,
               src : Addresses, dst : Addresses, vlan : Vlans, hops : 0 .. 2]
    BY <1>2 DEF Packet
  <2>2. Rewritten(p, src, dst, vlan) =
          [p EXCEPT !.src = src, !.dst = dst, !.vlan = v, !.hops = 1]
    BY <1>2 DEF Rewritten
  <2> HIDE DEF v
  <2> QED BY <2>1, <2>2
<1>4. /\ p.id \in 1 .. MaxPackets /\ p.plane \in Planes /\ p.port \in Ports
      /\ p.ecpri \in BOOLEAN /\ v \in Vlans
  BY <1>2 DEF Packet, Vlans
<1> HIDE DEF v
<1>5. Rewritten(p, src, dst, vlan) \in Packet
  BY <1>1, <1>3, <1>4 DEF Packet
<1> QED BY <1>3, <1>5 DEF Forwarded

\* A program sends a packet on only if a station sent it; where to depends on
\* the direction, and for the distributed MIMO on the port.
LEMMA TransmitsFresh ==
  ASSUME AttachedAreConfigured, booster \in Boosters, NEW i \in attached,
         NEW p \in Fresh \cup Forwarded, NEW q \in Transmitted(i, p)
  PROVE  /\ p \in Fresh /\ q \in Forwarded
         /\ q.id = p.id /\ q.port = p.port /\ q.plane = p.plane
         /\ q.dst = IF i[1] = "egress" THEN Ru(i[2]) ELSE Du
         /\ booster = "dmimo" /\ p.plane = "U" => p.port \in bitmap[i[2]]
<1> DEFINE down == {Rewritten(p, ranbooster_du_mac(i), ru_mac(i), rvlan(i)),
                    Rewritten(p, booster_mac(i), ru_mac(i), rvlan(i))}
           up == {Rewritten(p, booster_mac(i), du_mac(i), dvlan(i))}
<1>1. booster \in {"das", "dmimo", "prb_mon"}
  BY XdpLoaderAssumption
<1>2. port_fwd(i) \subseteq bitmap[i[2]]
  BY DEF port_fwd
<1>3. CASE i[1] = "egress"
  <2>1. \/ booster = "das" /\ q \in EgressDas(i, p)
        \/ booster = "dmimo" /\ q \in EgressDmimo(i, p)
        \/ booster = "prb_mon" /\ q \in EgressPrbMon(i, p)
    BY <1>1, <1>3 DEF Transmitted
  <2>2. /\ FromDu(i, p) /\ q \in down
        /\ booster = "dmimo" /\ p.plane = "U" => p.port \in bitmap[i[2]]
    BY <1>2, <2>1 DEF EgressDas, EgressDmimo, EgressPrbMon
  <2>3. p \in Fresh
    BY <2>2, OnlyFresh, Addressing DEF FromDu
  <2> QED BY <1>3, <2>2, <2>3, Addressing, AddressesDiffer, RewrittenIsForwarded
<1>4. CASE i[1] # "egress"
  <2>1. \/ booster = "dmimo" /\ q \in IngressDmimo(i, p)
        \/ booster = "prb_mon" /\ q \in IngressPrbMon(i, p)
    BY <1>1, <1>4 DEF Transmitted
  <2>2. /\ p.src = ru_mac(i) /\ q \in up
        /\ booster = "dmimo" => p.port \in bitmap[i[2]]
    BY <1>2, <2>1 DEF IngressDmimo, IngressPrbMon
  <2>3. p \in Fresh
    BY <2>2, OnlyFresh, Addressing
  <2> QED BY <1>4, <2>2, <2>3, Addressing, AddressesDiffer, RewrittenIsForwarded
<1> QED BY <1>3, <1>4

\* Taking the head off a queue and adding a packet.
LEMMA Queues ==
  ASSUME NEW S, NEW s \in Seq(S), NEW back \in {<<>>} \cup {<<p>> : p \in S}
  PROVE  /\ s \o back \in Seq(S)
         /\ \A k \in 1 .. Len(s \o back) :
              \/ \E m \in 1 .. Len(s) : (s \o back)[k] = s[m]
              \/ Len(back) = 1 /\ (s \o back)[k] = back[1]
         /\ s # <<>> => /\ Tail(s) \in Seq(S) /\ Head(s) \in S /\ Head(s) = s[1] /\ 1 \in 1 .. Len(s)
                        /\ \A k \in 1 .. Len(Tail(s)) :
                             \E m \in 1 .. Len(s) : Tail(s)[k] = s[m]
<1>1. back \in Seq(S) /\ Len(s) \in Nat /\ Len(back) \in {0, 1}
  <2>1. CASE back = <<>>
    BY <2>1
  <2>2. ASSUME NEW p \in S, back = <<p>>
        PROVE  back \in Seq(S) /\ Len(back) = 1
    BY <2>2
  <2> QED BY <2>1, <2>2
<1>2. s \o back \in Seq(S)
  BY <1>1
<1>3. ASSUME NEW k \in 1 .. Len(s \o back)
      PROVE  \/ \E m \in 1 .. Len(s) : (s \o back)[k] = s[m]
             \/ Len(back) = 1 /\ (s \o back)[k] = back[1]
  <2>1. CASE k <= Len(s)
    BY <1>1, <1>3, <2>1
  <2>2. CASE ~(k <= Len(s))
    BY <1>1, <1>3, <2>2
  <2> QED BY <2>1, <2>2
<1>4. ASSUME s # <<>>
      PROVE  /\ Tail(s) \in Seq(S) /\ Head(s) \in S /\ Head(s) = s[1] /\ 1 \in 1 .. Len(s)
             /\ \A k \in 1 .. Len(Tail(s)) : \E m \in 1 .. Len(s) : Tail(s)[k] = s[m]
  <2>1. Tail(s) \in Seq(S) /\ Head(s) \in S /\ Head(s) = s[1] /\ 1 \in 1 .. Len(s)
    BY <1>4
  <2>2. ASSUME NEW k \in 1 .. Len(Tail(s))
        PROVE  k + 1 \in 1 .. Len(s) /\ Tail(s)[k] = s[k + 1]
    BY <1>4, <2>2
  <2> QED BY <2>1, <2>2
<1> QED BY <1>2, <1>3, <1>4

\* A program handles a packet: what it sends has the data of what it received.
LEMMA HandleInv ==
  ASSUME ForwardInv, NEW i \in Instances, Handle(i)
  PROVE  PacketsInv' /\ IdsTell' /\ PortsServed'
<1> DEFINE S == Fresh \cup Forwarded
           p == Head(rx[i])
           out == IF i \in attached THEN Transmitted(i, p) ELSE {}
<1>1. PICK back \in LoopedBack(i, out) :
        /\ Deliver(out) /\ rx[i] # <<>>
        /\ rx' = [j \in Instances |-> (IF j = i THEN Tail(rx[j]) ELSE rx[j]) \o back]
        /\ UNCHANGED <<loaderVars, readerVars, bitmap, sent, due>>
  BY DEF Handle
<1>2. booster' = booster /\ Served' = Served /\ Instances' = Instances
  BY <1>1, SameBooster DEF loaderVars
<1>3. rx[i] \in Seq(S) /\ p \in S /\ Known(p)
  <2>1. rx[i] \in Seq(S)
    BY DEF ForwardInv, PacketsInv
  <2>2. p \in S /\ p = rx[i][1] /\ 1 \in 1 .. Len(rx[i])
    BY <1>1, <2>1, Queues
  <2> QED BY <2>1, <2>2 DEF Known
<1>4. ASSUME NEW q \in out
      PROVE  /\ q \in Forwarded /\ SameData(p, q)
             /\ q.dst = IF i[1] = "egress" THEN Ru(i[2]) ELSE Du
             /\ booster = "dmimo" /\ q.plane = "U" => q.port \in bitmap[i[2]]
             /\ i[2] \in Rus
  <2>1. i \in attached /\ q \in Transmitted(i, p)
    BY <1>4
  <2>2. AttachedAreConfigured /\ booster \in Boosters
    BY DEF ForwardInv, ReaderInv, LoaderInv, LoaderTypeOK
  <2> HIDE DEF p, out
  <2> QED BY <1>3, <2>1, <2>2, TransmitsFresh, Addressing DEF SameData
<1>5. /\ back \in {<<>>} \cup {<<q>> : q \in S}
      /\ Len(back) = 1 => SameData(p, back[1])
  <2>1. CASE back = <<>>
    BY <2>1
  <2>2. CASE back # <<>>
    <3>1. PICK q \in out : back = <<q>> \/ back = <<[q EXCEPT !.vlan = 0]>>
      BY <2>2 DEF LoopedBack
    <3>2. q \in Forwarded /\ SameData(p, q)
      BY <1>4, <3>1
    <3>3. [q EXCEPT !.vlan = 0] \in Forwarded /\ SameData(p, [q EXCEPT !.vlan = 0])
      BY <3>2 DEF Forwarded, Packet, Vlans, SameData
    <3> QED BY <3>1, <3>2, <3>3
  <2> QED BY <2>1, <2>2
<1> HIDE DEF p, out
<1>6. /\ rx' \in [Instances -> Seq(S)]
      /\ \A j \in Instances : \A k \in 1 .. Len(rx'[j]) :
           (\E m \in 1 .. Len(rx[j]) : rx'[j][k] = rx[j][m]) \/ SameData(p, rx'[j][k])
  <2> SUFFICES ASSUME NEW j \in Instances
               PROVE  /\ rx'[j] \in Seq(S)
                      /\ \A k \in 1 .. Len(rx'[j]) :
                           \/ \E m \in 1 .. Len(rx[j]) : rx'[j][k] = rx[j][m]
                           \/ SameData(p, rx'[j][k])
    BY <1>1
  <2>1. rx[j] \in Seq(S)
    BY DEF ForwardInv, PacketsInv
  <2> DEFINE s == IF j = i THEN Tail(rx[j]) ELSE rx[j]
  <2>2. s \in Seq(S) /\ \A k \in 1 .. Len(s) : \E m \in 1 .. Len(rx[j]) : s[k] = rx[j][m]
    BY <1>1, <2>1, Queues
  <2>3. rx'[j] = s \o back
    BY <1>1
  <2> HIDE DEF s, S
  <2>4. /\ rx'[j] \in Seq(S)
        /\ \A k \in 1 .. Len(s \o back) :
              \/ \E m \in 1 .. Len(s) : (s \o back)[k] = s[m]
              \/ Len(back) = 1 /\ (s \o back)[k] = back[1]
    BY <1>5, <2>2, <2>3, Queues
  <2> QED BY <1>5, <2>2, <2>3, <2>4
<1>7. /\ to_ru' \in [1 .. Served -> SUBSET Forwarded] /\ to_du' \subseteq Forwarded
      /\ \A r \in 1 .. Served : \A q \in to_ru'[r] : q \in to_ru[r] \/
           (q \in out /\ r = i[2])
  <2>1. Served \in Nat /\ 1 .. Served \subseteq Rus
    BY Counts, XdpLoaderAssumption DEF Served, Rus
  <2>2. ASSUME NEW r \in Rus, NEW q \in out, q.dst = Ru(r)
        PROVE  r = i[2]
    BY <1>4, <2>2, AddressesDiffer
  <2> QED BY <1>1, <1>4, <2>1, <2>2 DEF Deliver, ForwardInv, PacketsInv
<1>8. ASSUME NEW q, Known(q)'
      PROVE  \E o : Known(o) /\ SameData(o, q)
  <2>1. ASSUME NEW j \in Instances, NEW k \in 1 .. Len(rx'[j]), rx'[j][k] = q
        PROVE  \E o : Known(o) /\ SameData(o, q)
    BY <1>3, <1>6, <2>1 DEF Known, SameData
  <2>2. ASSUME NEW r \in 1 .. Served, q \in to_ru'[r]
        PROVE  \E o : Known(o) /\ SameData(o, q)
    BY <1>3, <1>4, <1>7, <2>2 DEF Known, SameData
  <2> QED BY <1>2, <1>8, <2>1, <2>2 DEF Known
<1>9. IdsTell'
  BY <1>1, <1>8 DEF ForwardInv, IdsTell, SameData
<1>10. PortsServed'
  BY <1>1, <1>2, <1>4, <1>7 DEF ForwardInv, PortsServed
<1>11. PacketsInv'
  BY <1>1, <1>2, <1>6, <1>7 DEF ForwardInv, PacketsInv
<1> QED BY <1>9, <1>10, <1>11

\* The DU or an RU sends a packet: its identity is new.
LEMMA SendInv ==
  ASSUME ForwardInv, NEW packet, NEW interfaces, Send(packet, interfaces),
         [packet EXCEPT !.id = sent + 1] \in Fresh,
         [packet EXCEPT !.id = sent + 1].id = sent + 1
  PROVE  PacketsInv' /\ IdsTell' /\ PortsServed'
<1> DEFINE S == Fresh \cup Forwarded
           p == [packet EXCEPT !.id = sent + 1]
<1>1. /\ sent < MaxPackets /\ sent' = sent + 1
      /\ rx' = [i \in Instances |-> IF i \in interfaces THEN Append(rx[i], p) ELSE rx[i]]
      /\ UNCHANGED <<loaderVars, readerVars, bitmap, to_ru, to_du, to_user>>
  BY DEF Send
<1>2. booster' = booster /\ Served' = Served /\ Instances' = Instances
  BY <1>1, SameBooster DEF loaderVars
<1>3. p \in S /\ p.id = sent + 1
  OBVIOUS
<1> HIDE DEF p
<1>4. /\ rx' \in [Instances -> Seq(S)]
      /\ \A j \in Instances : \A k \in 1 .. Len(rx'[j]) :
           (\E m \in 1 .. Len(rx[j]) : rx'[j][k] = rx[j][m]) \/ rx'[j][k] = p
  <2> SUFFICES ASSUME NEW j \in Instances
               PROVE  /\ rx'[j] \in Seq(S)
                      /\ \A k \in 1 .. Len(rx'[j]) :
                           \/ \E m \in 1 .. Len(rx[j]) : rx'[j][k] = rx[j][m]
                           \/ rx'[j][k] = p
    BY <1>1
  <2>1. rx[j] \in Seq(S)
    BY DEF ForwardInv, PacketsInv
  <2>2. CASE rx'[j] = rx[j]
    BY <2>1, <2>2
  <2>3. CASE rx'[j] = Append(rx[j], p)
    <3> HIDE DEF S
    <3> QED BY <1>3, <2>1, <2>3
  <2> QED BY <1>1, <2>2, <2>3
<1>5. ASSUME NEW q, Known(q)'
      PROVE  Known(q) \/ q = p
  BY <1>1, <1>2, <1>4, <1>5 DEF Known
<1>6. sent \in Nat /\ sent + 1 \in 0 .. MaxPackets
  BY <1>1, XdpForwardAssumption DEF ForwardInv, PacketsInv
<1>7. IdsTell'
  <2>1. ASSUME NEW q, Known(q)'
        PROVE  q.id <= sent + 1
    <3>1. CASE Known(q)
      <4>1. \A i \in Instances : \A k \in 1 .. Len(rx[i]) : rx[i][k] \in S
        <5> SUFFICES ASSUME NEW i \in Instances, NEW k \in 1 .. Len(rx[i])
                     PROVE  rx[i][k] \in S
          OBVIOUS
        <5>1. rx[i] \in Seq(S)
          BY DEF ForwardInv, PacketsInv
        <5> HIDE DEF S
        <5> QED BY <5>1
      <4>2. q \in S
        BY <3>1, <4>1 DEF Known, ForwardInv, PacketsInv
      <4>3. q.id \in Nat
        BY <4>2 DEF Fresh, Forwarded, Packet
      <4>4. q.id <= sent
        BY <3>1 DEF ForwardInv, IdsTell
      <4> QED BY <1>6, <4>3, <4>4
    <3>2. CASE q = p
      BY <1>3, <1>6, <3>2
    <3> QED BY <1>5, <2>1, <3>1, <3>2
  <2>2. ASSUME NEW q, NEW o, Known(q)', Known(o)', q.id = o.id
        PROVE  SameData(q, o)
    <3>1. Known(q) /\ Known(o) => SameData(q, o)
      BY <2>2 DEF ForwardInv, IdsTell
    <3>2. ASSUME NEW a, Known(a) PROVE a.id # p.id
      BY <1>3, <1>6, <3>2 DEF ForwardInv, IdsTell
    <3> QED BY <1>5, <2>2, <3>1, <3>2 DEF SameData
  <2> QED BY <1>1, <2>1, <2>2 DEF IdsTell
<1>8. PortsServed' /\ PacketsInv'
  BY <1>1, <1>2, <1>4, <1>6 DEF ForwardInv, PortsServed, PacketsInv
<1> QED BY <1>7, <1>8

\* A script or the process steps, or nothing does.
LEMMA QuietInv ==
  ASSUME ForwardInv, booster' = booster, UNCHANGED packetVars
  PROVE  PacketsInv' /\ IdsTell' /\ PortsServed'
<1>1. Served' = Served /\ Instances' = Instances
  BY SameBooster
<1>2. \A q : Known(q)' <=> Known(q)
  BY <1>1 DEF Known, packetVars
<1> QED BY <1>1, <1>2 DEF ForwardInv, PacketsInv, IdsTell, PortsServed, packetVars

LEMMA ForwardInitInv == Init => ForwardInv
<1> SUFFICES ASSUME Init PROVE ForwardInv
  OBVIOUS
<1>1. ReaderInv
  BY ReaderInitInv DEF Init
<1>2. PacketsInv
  BY XdpForwardAssumption DEF Init, PacketsInv
<1>3. \A q : ~Known(q)
  BY DEF Known, Init
<1> QED BY <1>1, <1>2, <1>3 DEF ForwardInv, IdsTell, PortsServed, Init

LEMMA ForwardInvInductive == ForwardInv /\ [Next]_vars => ForwardInv'
<1> SUFFICES ASSUME ForwardInv, [Next]_vars PROVE ForwardInv'
  OBVIOUS
<1>1. ReaderInv'
  BY StepIsReaderStep, ReaderInvInductive DEF ForwardInv
<1>2. CASE UNCHANGED vars
  BY <1>1, <1>2, QuietInv DEF ForwardInv, vars, loaderVars
<1>3. CASE ReaderNext /\ UNCHANGED packetVars
  <2>1. booster' = booster
    BY <1>3 DEF ReaderNext, Process, StartProcess, OpenMap, OutOfMemory, Exit, LoaderNext,
       Load, StartLoad, UpdateMap, Attach, StepFails, Pin, AlreadyPinned, StartUnload,
       UnloadStep, LoaderIdle, loaderVars
  <2> QED BY <1>1, <1>3, <2>1, QuietInv DEF ForwardInv
<1>4. ASSUME NEW i \in Interfaces, Handle(i) PROVE ForwardInv'
  BY <1>1, <1>4, HandleInv DEF ForwardInv, Handle
<1>5. CASE SendDl
  <2>1. PICK plane \in Planes, port \in Ports, tag \in Tags(DuVlan) :
          Send([id |-> 0, plane |-> plane, port |-> port, ecpri |-> tag.ecpri, src |-> Du,
                dst |-> BoosterMac, vlan |-> tag.vlan, hops |-> 0],
               {i \in Instances : i[1] = "egress"})
    BY <1>5 DEF SendDl
  <2>2. sent + 1 \in 1 .. MaxPackets
    BY <2>1, XdpForwardAssumption DEF Send, ForwardInv, PacketsInv
  <2>3. [id |-> sent + 1, plane |-> plane, port |-> port, ecpri |-> tag.ecpri, src |-> Du,
         dst |-> BoosterMac, vlan |-> tag.vlan, hops |-> 0] \in Fresh
    <3>1. DuVlan \in Vlans
      BY DEF Vlans
    <3>2. tag.ecpri \in BOOLEAN /\ tag.vlan \in Vlans
      BY <3>1, TagTypes
    <3>3. PICK e \in BOOLEAN, v \in Vlans : e = tag.ecpri /\ v = tag.vlan
      BY <3>2
    <3>4. [id |-> sent + 1, plane |-> plane, port |-> port, ecpri |-> e, src |-> Du,
           dst |-> BoosterMac, vlan |-> v, hops |-> 0] \in Fresh
      BY <2>2, AddressesDiffer DEF Fresh, Packet
    <3> QED BY <3>3, <3>4
  <2> QED BY <1>1, <2>1, <2>3, SendInv DEF ForwardInv
<1>6. CASE SendUl
  <2>1. PICK r \in 1 .. Served, port \in Ports : \E tag \in Tags(RuVlan[r]) :
          Send([id |-> 0, plane |-> "U", port |-> port, ecpri |-> tag.ecpri, src |-> Ru(r),
                dst |-> RuDu(r), vlan |-> tag.vlan, hops |-> 0],
               {i \in Instances : i[1] = "ingress" /\ (Loopback \/ i[2] = r)})
    BY <1>6 DEF SendUl
  <2> PICK tag \in Tags(RuVlan[r]) :
          Send([id |-> 0, plane |-> "U", port |-> port, ecpri |-> tag.ecpri, src |-> Ru(r),
                dst |-> RuDu(r), vlan |-> tag.vlan, hops |-> 0],
               {i \in Instances : i[1] = "ingress" /\ (Loopback \/ i[2] = r)})
    BY <2>1
  <2>2. sent + 1 \in 1 .. MaxPackets /\ r \in Rus
    BY <2>1, XdpForwardAssumption, XdpLoaderAssumption
    DEF Send, ForwardInv, PacketsInv, Served, Rus
  <2>3. [id |-> sent + 1, plane |-> "U", port |-> port, ecpri |-> tag.ecpri, src |-> Ru(r),
         dst |-> RuDu(r), vlan |-> tag.vlan, hops |-> 0] \in Fresh
    <3>1. RuVlan[r] \in Vlans
      BY <2>2 DEF Vlans
    <3>2. tag.ecpri \in BOOLEAN /\ tag.vlan \in Vlans
      BY <3>1, TagTypes
    <3>3. PICK e \in BOOLEAN, v \in Vlans : e = tag.ecpri /\ v = tag.vlan
      BY <3>2
    <3>4. [id |-> sent + 1, plane |-> "U", port |-> port, ecpri |-> e, src |-> Ru(r),
           dst |-> RuDu(r), vlan |-> v, hops |-> 0] \in Fresh
      BY <2>2, AddressesDiffer DEF Fresh, Packet, Planes
    <3> QED BY <3>3, <3>4
  <2> QED BY <1>1, <2>1, <2>3, SendInv DEF ForwardInv
<1> QED BY <1>2, <1>3, <1>4, <1>5, <1>6 DEF Next, Idle

LEMMA ForwardInvariance == Spec => []ForwardInv
BY ForwardInitInv, ForwardInvInductive, PTL DEF Spec

\* Whatever comes back to the programs, none of them forwards a packet that
\* one of them has rewritten (the early returns of the egress and ingress
\* programs on the addresses).
THEOREM NeverForwardedTwice == Spec => []NoForwardingLoop
<1>1. ForwardInv => NoForwardingLoop
  BY DEF ForwardInv, PacketsInv, NoForwardingLoop, Forwarded
<1> QED BY <1>1, ForwardInvariance, PTL

\* If the bitmaps given to dmimo_load.c divide the antenna ports, no port is
\* sent by two RUs, at any time while programs are loaded and unloaded.
THEOREM OneRuSends == Spec => []OneRuPerAntenna
<1>1. ForwardInv => OneRuPerAntenna
  <2> SUFFICES ASSUME ForwardInv, booster = "dmimo", Disjoint,
                      NEW r \in Rus, NEW q \in Rus, r # q,
                      NEW a \in to_ru[r], NEW b \in to_ru[q], a.plane = "U", b.plane = "U",
                      a.id = b.id
               PROVE  FALSE
    BY DEF OneRuPerAntenna
  <2>1. 1 .. Served = Rus
    BY DEF Served, Rus
  <2>2. Known(a) /\ Known(b)
    BY <2>1 DEF Known
  <2>3. a.port = b.port
    BY <2>2 DEF ForwardInv, IdsTell, SameData
  <2>4. a.port \in bitmap[r] /\ b.port \in bitmap[q]
    BY <2>1 DEF ForwardInv, PortsServed
  <2> QED BY <2>3, <2>4 DEF Disjoint
<1> QED BY <1>1, ForwardInvariance, PTL

\* The boosters' variable never changes.
LEMMA BoosterStays == [Next]_vars => booster' = booster
BY DEF Next, Idle, Handle, SendDl, SendUl, Send, ReaderNext, Process, StartProcess, OpenMap,
   OutOfMemory, Exit, LoaderNext, Load, StartLoad, UpdateMap, Attach, StepFails, Pin,
   AlreadyPinned, StartUnload, UnloadStep, LoaderIdle, loaderVars, vars

SocketInv == DOMAIN to_user = 1 .. Served /\ SocketsTellRusApart

LEMMA SocketInvInductive ==
  AttachedAreConfigured /\ SocketInv /\ [Next]_vars => SocketInv'
<1> SUFFICES ASSUME AttachedAreConfigured, SocketInv, [Next]_vars PROVE SocketInv'
  OBVIOUS
<1>1. Served' = Served
  BY BoosterStays, SameBooster
<1>2. CASE UNCHANGED to_user
  BY <1>1, <1>2 DEF SocketInv, SocketsTellRusApart
<1>3. ASSUME NEW i \in Interfaces, Handle(i)
      PROVE  SocketInv'
  <2> DEFINE got == IF i \in attached THEN Redirected(i, Head(rx[i])) ELSE {}
  <2>1. to_user' = [to_user EXCEPT ![i[2]] = @ \cup got]
    BY <1>3 DEF Handle
  <2>2. \A p \in got : p.src = Ru(i[2])
    BY Addressing DEF Redirected, FromRu
  <2> HIDE DEF got
  <2> QED BY <1>1, <2>1, <2>2 DEF SocketInv, SocketsTellRusApart
<1> QED BY <1>2, <1>3 DEF Next, Idle, SendDl, SendUl, Send, packetVars, vars

\* A socket of the DAS merger gets packets of its own RU only (the comparison
\* of the source address in das_ingress.c), so that the merger may tell the
\* RUs apart by their sockets.
THEOREM SocketsOfOneRu == Spec => []SocketsTellRusApart
<1>1. Init => SocketInv
  BY DEF Init, SocketInv, SocketsTellRusApart
<1>2. SocketInv => SocketsTellRusApart
  BY DEF SocketInv
<1> QED BY <1>1, <1>2, SocketInvInductive, ConfiguredWhileForwarding, PTL DEF Spec
=============================================================================
