SPECIFICATION Spec
CONSTANTS
    RPlugins = {p1}
    MaxActs = 2
    MaxGens = 2
    MaxShutdowns = 1
    MaxFaults = 1
    MaxFrames = 1
INVARIANTS
    WorkersTracked
PROPERTIES
    WorkersEnd
CHECK_DEADLOCK FALSE
