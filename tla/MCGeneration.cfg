SPECIFICATION Spec
CONSTANTS
  RunIds = {r1, r2}
  Chats = {c1}
  Clients = {p1, p2}
  None = None
  CheckpointEvery = 2
  MaxDeltas = 2
  MaxCommands = 4
  MaxDrops = 1
  MaxCrashes = 1
  MaxFaults = 1
SYMMETRY Symmetry
INVARIANTS
    TypeOK
    EventLogGapless
    CasFresh
    RunsSound
PROPERTIES
    TerminalIsFinal
    NoOutputAfterCancel
CHECK_DEADLOCK FALSE
