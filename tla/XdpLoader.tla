----------------------------- MODULE XdpLoader -----------------------------
(***************************************************************************)
(* The life of the XDP programs of a middlebox in the kernel:              *)
(* src/src/xdp/das/das_load.c, src/src/xdp/dmimo/dmimo_load.c and          *)
(* src/src/xdp/prb_mon/prb_mon_load.c, called once per program by the      *)
(* load_prog.sh scripts and undone by the unload_prog.sh scripts.          *)
(*                                                                         *)
(* A call opens and loads an object file, fills its maps one by one, pins  *)
(* it in the BPF file system and attaches it to an interface.  Any system  *)
(* call may fail; the call then ends, what it pinned stays, and the script *)
(* goes on with the next program.                                          *)
(***************************************************************************)
EXTENDS Naturals, Sequences, FiniteSets

CONSTANTS
  NumRus,       \* radio units, with one program for each direction
  Boosters,     \* the middleboxes that may be installed
  MaxScripts,   \* bound: scripts run
  MaxFailures   \* bound: system calls that fail

Rus == 1 .. NumRus
Kinds == {"program", "map"}

ASSUME XdpLoaderAssumption ==
  /\ NumRus \in Nat \ {0} /\ Boosters \subseteq {"das", "dmimo", "prb_mon"}
  /\ MaxScripts \in Nat /\ MaxFailures \in Nat

VARIABLES
  booster,   \* the middlebox that is installed
  script,    \* "none", "load" or "unload": the script that runs
  command,   \* load_prog.sh: index of the program it loads
  step,      \* index of the next step of the loader, or of unload_prog.sh
  obj,       \* maps filled so far in the object being loaded
  running,   \* instance -> the object attached to its interface, 0 if there is none
  maps,      \* instance -> maps that were filled when it was attached
  pinned,    \* <<instance, kind>> -> the object its file belongs to, 0 if there is none
  scripts, failures,  \* how many there were
  healthy    \* history: everything was unloaded and no call has failed since

\* The PRB monitor serves one RU.  An object is named by the script run that
\* loads it.
Served == IF booster = "prb_mon" THEN 1 ELSE NumRus
Instances == {"egress", "ingress"} \X (1 .. Served)
attached == {i \in Instances : running[i] # 0}

MapNames ==
  IF booster = "prb_mon"
    THEN {"ru_vlan", "ru_mac_address", "du_mac_address_ru", "du_mac_address_local", "du_vlan"}
    ELSE {"ru_vlan", "ru_mac_address", "du_vlan", "du_mac_address",
          "ranbooster_du_mac_address", "booster_mac"}
         \cup (IF booster = "dmimo" THEN {"ports_to_forward"} ELSE {})

\* What is pinned: the ring buffer or redirect map too, for the process that reads it.
PinnedKinds == IF booster = "dmimo" THEN {"program"} ELSE Kinds

loaderVars == <<booster, script, command, step, obj, running, maps, pinned,
                scripts, failures, healthy>>

LoaderInit ==
  /\ booster \in Boosters
  /\ script = "none" /\ command = 1 /\ step = 1
  /\ obj = {}
  /\ running = [i \in Instances |-> 0]
  /\ maps = [i \in Instances |-> {}]
  /\ pinned = [f \in Instances \X Kinds |-> 0]
  /\ scripts = 0 /\ failures = 0
  /\ healthy = TRUE

(* The main functions of the loaders.  Operators named ...Mut are          *)
(* deliberate mistakes for the sensitivity checks.                         *)

\* The steps of a call, in order: map updates, pins, attachment.
DmimoStepsMut ==
  <<"ru_vlan", "booster_mac", "ru_mac_address", "du_vlan", "du_mac_address",
    "ranbooster_du_mac_address", "pin_program", "attach", "ports_to_forward">>
DmimoSteps ==
  <<"ru_vlan", "booster_mac", "ru_mac_address", "du_vlan", "du_mac_address",
    "ranbooster_du_mac_address", "ports_to_forward", "pin_program", "attach">>
DasSteps ==
  <<"ru_vlan", "ru_mac_address", "du_vlan", "du_mac_address",
    "ranbooster_du_mac_address", "booster_mac", "pin_program", "pin_map", "attach">>
PrbMonStepsMut ==
  <<"ru_vlan", "ru_mac_address", "du_mac_address_ru", "du_mac_address_local",
    "du_vlan", "pin_program", "attach", "pin_map">>
PrbMonSteps ==
  <<"pin_map", "ru_vlan", "ru_mac_address", "du_mac_address_ru",
    "du_mac_address_local", "du_vlan", "pin_program", "attach">>
LoadSteps == [das |-> DasSteps, dmimo |-> DmimoSteps, prb_mon |-> PrbMonSteps][booster]

\* load_prog.sh loads the egress programs, then the ingress programs.
ScriptOrder == [k \in 1 .. 2 * Served |->
  IF k <= Served THEN <<"egress", k>> ELSE <<"ingress", k - Served>>]
Current == ScriptOrder[command]

\* The call returns: the object is closed and the script goes on.
Return ==
  /\ obj' = {}
  /\ step' = 1
  /\ IF command < 2 * Served
       THEN command' = command + 1 /\ script' = script
       ELSE command' = 1 /\ script' = "none"

StartLoad ==
  /\ script = "none" /\ scripts < MaxScripts
  /\ script' = "load" /\ command' = 1 /\ step' = 1
  /\ obj' = {}
  /\ scripts' = scripts + 1
  /\ healthy' = (healthy /\ attached = {})
  /\ UNCHANGED <<booster, running, maps, pinned, failures>>

\* bpf_map_update_elem on one of the maps of the object.
UpdateMap ==
  /\ script = "load" /\ LoadSteps[step] \in MapNames
  /\ obj' = obj \cup {LoadSteps[step]}
  /\ step' = step + 1
  /\ UNCHANGED <<booster, script, command, running, maps, pinned, scripts, failures, healthy>>

PinStep == [program |-> "pin_program", map |-> "pin_map"]

\* bpf_program__pin or bpf_map__pin of a path that does not exist yet.
Pin(kind) ==
  /\ script = "load" /\ LoadSteps[step] = PinStep[kind]
  /\ pinned[<<Current, kind>>] = 0
  /\ pinned' = [pinned EXCEPT ![<<Current, kind>>] = scripts]
  /\ step' = step + 1
  /\ UNCHANGED <<booster, script, command, obj, running, maps, scripts, failures, healthy>>

\* bpf_xdp_attach to an interface that has no program.
Attach ==
  /\ script = "load" /\ LoadSteps[step] = "attach"
  /\ running[Current] = 0
  /\ running' = [running EXCEPT ![Current] = scripts]
  /\ maps' = [maps EXCEPT ![Current] = obj]
  /\ Return
  /\ UNCHANGED <<booster, pinned, scripts, failures, healthy>>

\* The step fails because the path is pinned already ...
AlreadyPinnedMut(kind) ==
  /\ script = "load" /\ LoadSteps[step] = PinStep[kind]
  /\ pinned[<<Current, kind>>] # 0
  /\ step' = step + 1
  /\ UNCHANGED <<booster, script, command, obj, running, maps, pinned, scripts, failures, healthy>>
AlreadyPinned(kind) ==
  /\ script = "load" /\ LoadSteps[step] = PinStep[kind]
  /\ pinned[<<Current, kind>>] # 0
  /\ Return
  /\ UNCHANGED <<booster, running, maps, pinned, scripts, failures, healthy>>

\* ... or for any other reason, from opening the object file on.
StepFails ==
  /\ script = "load" /\ failures < MaxFailures
  /\ Return
  /\ failures' = failures + 1
  /\ healthy' = FALSE
  /\ UNCHANGED <<booster, running, maps, pinned, scripts>>

Load ==
  \/ StartLoad \/ UpdateMap \/ Attach \/ StepFails
  \/ \E kind \in Kinds : Pin(kind) \/ AlreadyPinned(kind)

(* unload_prog.sh: all interfaces are detached, then all pins removed.     *)

Off == [k \in 1 .. 2 * Served |-> <<"off", ScriptOrder[k]>>]
Rm(kind) == [k \in 1 .. 2 * Served |-> <<"rm", ScriptOrder[k], kind>>]
UnloadStepsMut == Off \o Rm("program")
UnloadSteps == Off \o Rm("program") \o (IF booster = "dmimo" THEN <<>> ELSE Rm("map"))

StartUnload ==
  /\ script = "none" /\ scripts < MaxScripts
  /\ script' = "unload" /\ step' = 1
  /\ scripts' = scripts + 1
  /\ UNCHANGED <<booster, command, obj, running, maps, pinned, failures, healthy>>

UnloadStep ==
  /\ script = "unload"
  /\ LET s == UnloadSteps[step] IN
       IF s[1] = "off"
         THEN running' = [running EXCEPT ![s[2]] = 0] /\ UNCHANGED pinned
         ELSE pinned' = [pinned EXCEPT ![<<s[2], s[3]>>] = 0] /\ UNCHANGED running
  /\ IF step < Len(UnloadSteps)
       THEN step' = step + 1 /\ UNCHANGED <<script, healthy>>
       ELSE step' = 1 /\ script' = "none" /\ healthy' = TRUE
  /\ UNCHANGED <<booster, command, obj, maps, scripts, failures>>

\* Nobody runs a script any more.
LoaderIdle == script = "none" /\ scripts = MaxScripts /\ UNCHANGED loaderVars

LoaderNext == Load \/ StartUnload \/ UnloadStep \/ LoaderIdle

LoaderSpec == LoaderInit /\ [][LoaderNext]_loaderVars

(* Properties.                                                             *)

LoaderTypeOK ==
  /\ booster \in Boosters
  /\ script \in {"none", "load", "unload"}
  /\ command \in 1 .. 2 * Served
  /\ step \in Nat \ {0}
  /\ script = "load" => step <= Len(LoadSteps)
  /\ script = "unload" => step <= Len(UnloadSteps)
  /\ script = "none" => step = 1
  /\ obj \subseteq MapNames
  /\ running \in [Instances -> 0 .. MaxScripts]
  /\ maps \in [Instances -> SUBSET MapNames]
  /\ pinned \in [Instances \X Kinds -> 0 .. MaxScripts]
  /\ scripts \in 0 .. MaxScripts /\ failures \in 0 .. MaxFailures
  /\ healthy \in BOOLEAN

\* A program that sees packets has all its maps, whichever call failed, in
\* this run of the script or an earlier one, and however often it is run: an
\* array map nobody filled would read as address 0 or an empty port bitmap.
AttachedAreConfigured == \A i \in attached : maps[i] = MapNames

\* The files of a running program are those of the object that runs: loading
\* again stops at a pin and never mixes new maps with an old program, and a
\* process that opens the pinned map gets the map the program uses.
AttachedArePinned == \A i \in attached : \A kind \in PinnedKinds :
  pinned[<<i, kind>>] = running[i]

\* unload_prog.sh leaves nothing behind that a later load_prog.sh trips over:
\* after it, and with no failing call, loading attaches every program.
UnloadedLoadsCompletely ==
  [][script = "load" /\ script' = "none" /\ healthy' => attached' = Instances]_loaderVars
=============================================================================
