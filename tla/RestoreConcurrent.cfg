CONSTANTS
    Procs = {p1, p2}
    Containers = {b1, b2, b3}
    Taken = {b1, b2}
    p1 = p1
    p2 = p2
    b1 = b1
    b2 = b2
    b3 = b3
    Original = Original
    Fresh = Fresh
    Absent = Absent
    MaxBackups = 3
    Hosts <- HastyHosts
    MaxFaulted = 0
    MaxRestores = 1
    Ids = {a1, a2}
    Keys = {k1, k2}
    Blobs = {x1, x2}
    a1 = a1
    a2 = a2
    k1 = k1
    k2 = k2
    x1 = x1
    x2 = x2
    None = None
    MaxCalls = 4
    MaxKills = 1
    MaxFaults = 1
    Workers = {w1, w2}
    Pollers = {i1}
    RemoteRuns = {r1}
    LocalRuns = {l1}
    r1 = r1
    l1 = l1
    Creds = {c1, c2}
    MaxStreams = 1
    PageLimit = 1
    Plans <- MCPlans
    NoRun = NoRun
    NoCred = NoCred
    NoReader = NoReader
SPECIFICATION NativeSpec
PROPERTIES
    OpensVerified
CHECK_DEADLOCK FALSE
