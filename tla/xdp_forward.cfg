SPECIFICATION FairSpec
CONSTANTS
  NumRus = 2
  Boosters = {"das", "dmimo", "prb_mon"}
  MaxScripts = 4
  MaxFailures = 2
  MaxStarts = 1
  Ports = {0, 1}
  DuVlan = 1
  RuVlan <- MCRuVlan
  Bitmaps <- Divided
  Loopback = TRUE
  MaxPackets = 1
  PacketScripts = 1
INVARIANTS SocketsTellRusApart AttachedAreConfigured AttachedArePinned HeldAreRunning OneRuPerAntenna NoForwardingLoop
PROPERTIES UnloadedLoadsCompletely EveryIqPacketArrives
