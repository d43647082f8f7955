----------------------------- MODULE XdpReader -----------------------------
(***************************************************************************)
(* The user-space process of an XDP middlebox and its life next to the     *)
(* scripts of XdpLoader: the merger of the DAS (das_rx_handler.c, which    *)
(* opens the redirect map of every ingress program and puts a socket into  *)
(* it) and the reader of the PRB monitor (prb_mon.c, which opens two ring  *)
(* buffers).  Both find the maps by their pins, once, when they start, and *)
(* hold them as long as they run; a map lives on while a process holds it. *)
(***************************************************************************)
EXTENDS XdpLoader

CONSTANT MaxStarts   \* bound: starts of the process

ASSUME XdpReaderAssumption == MaxStarts \in Nat

VARIABLES
  process,   \* "off", "setup" or "up"
  opening,   \* index of the map it opens next
  held,      \* instance -> the object whose map the process holds, 0 if none
  starts,    \* how often it was started
  outdated   \* history: unload_prog.sh has run since it was started

readerVars == <<process, opening, held, starts, outdated>>

NoneHeld == [i \in Instances |-> 0]

ReaderInit ==
  /\ process = "off" /\ opening = 1
  /\ held = NoneHeld
  /\ starts = 0
  /\ outdated = FALSE

\* The maps in the order they are opened.
OpenOrder ==
  IF booster = "prb_mon" THEN << <<"ingress", 1>>, <<"egress", 1>> >>
  ELSE [r \in 1 .. Served |-> <<"ingress", r>>]
Opening == OpenOrder[opening]

\* load_prog.sh of the DAS ends with it; load_monitor.sh starts prb_mon.
StartProcess ==
  /\ process = "off" /\ booster # "dmimo" /\ starts < MaxStarts
  /\ process' = "setup" /\ opening' = 1
  /\ starts' = starts + 1
  /\ outdated' = (script = "unload")
  /\ UNCHANGED <<loaderVars, held>>

NextMap ==
  IF opening < Len(OpenOrder)
    THEN opening' = opening + 1 /\ process' = "setup"
    ELSE opening' = 1 /\ process' = "up"

\* bpf_obj_get of the pinned map, for the DAS with the socket for it.
OpenMap ==
  /\ process = "setup" /\ pinned[<<Opening, "map">>] # 0
  /\ held' = [held EXCEPT ![Opening] = pinned[<<Opening, "map">>]]
  /\ NextMap
  /\ UNCHANGED <<loaderVars, starts, outdated>>

\* setup_xsk_socket is out of memory: it returns EXIT_FAILURE, which is
\* positive, and main only stops at negative values.
OutOfMemory ==
  /\ process = "setup" /\ booster = "das" /\ failures < MaxFailures
  /\ failures' = failures + 1
  /\ NextMap
  /\ UNCHANGED <<booster, script, command, step, obj, running, maps, pinned, scripts,
                 healthy, held, starts, outdated>>

\* The map is missing, another call fails, or somebody stops the process: its
\* sockets and descriptors are closed.
Exit ==
  /\ process # "off"
  /\ process' = "off" /\ opening' = 1
  /\ held' = NoneHeld
  /\ UNCHANGED <<loaderVars, starts, outdated>>

Process == StartProcess \/ OpenMap \/ OutOfMemory \/ Exit

ReaderNext ==
  \/ LoaderNext /\ UNCHANGED <<process, opening, held, starts>>
                /\ outdated' = (outdated \/ script' = "unload")
  \/ Process

ReaderSpec == LoaderInit /\ ReaderInit /\ [][ReaderNext]_<<loaderVars, readerVars>>

(* Properties.                                                             *)

ReaderTypeOK ==
  /\ LoaderTypeOK
  /\ process \in {"off", "setup", "up"}
  /\ opening \in 1 .. Len(OpenOrder)
  /\ held \in [Instances -> 0 .. MaxScripts]
  /\ starts \in 0 .. MaxStarts
  /\ outdated \in BOOLEAN

\* Unless unload_prog.sh has run since it was started, the maps the process
\* holds are those of the programs that run, however often load_prog.sh is
\* run or fails, before or after the start: setup_xsk_socket and prb_mon
\* trust the pin and never look again.
HeldAreRunning == ~outdated =>
  \A i \in Instances : held[i] # 0 /\ running[i] # 0 => held[i] = running[i]

\* The same without the exception: a process that outlives the programs it was
\* started for listens to maps nobody writes.
NeverOutdated ==
  \A i \in Instances : held[i] # 0 /\ running[i] # 0 => held[i] = running[i]

\* main stops when the set-up of an RU fails, so that a process that polls has
\* a socket for every RU.
EveryRuHasASocket == process = "up" =>
  \A k \in DOMAIN OpenOrder : held[OpenOrder[k]] # 0
=============================================================================
