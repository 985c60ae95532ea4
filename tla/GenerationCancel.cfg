SPECIFICATION Spec
CONSTANTS
  RunIds = {r1}
  Chats = {c1}
  Clients = {p1}
  None = None
  CheckpointEvery = 2
  MaxDeltas = 1
  MaxCommands = 2
  MaxDrops = 0
  MaxCrashes = 0
  MaxFaults = 0
CHECK_DEADLOCK FALSE
INVARIANT AckedCancelEndsCancelled
