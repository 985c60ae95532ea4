SPECIFICATION FairSpec
CONSTANTS
  RunIds = {r1, r2}
  Chats = {c1}
  Clients = {p1, p2}
  None = None
  CheckpointEvery = 2
  MaxDeltas = 2
  MaxCommands = 3
  MaxDrops = 1
  MaxCrashes = 1
  MaxFaults = 0
CHECK_DEADLOCK FALSE
PROPERTIES
  ImplementsLedger
  CallerAnswered
  EveryRunEnds
