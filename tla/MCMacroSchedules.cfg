SPECIFICATION ScheduleFairSpec
CONSTANTS
    s1 = s1
    s2 = s2
    Servers = {p, q}
    Scheds = {s1}
    Jobs = {j1, j2}
    Every <- EveryOf
    MaxRuns <- MaxRunsOf
    Stale = 1
    MaxTime = 4
    NoServer = NoServer
    NoJob = NoJob
    NoItem = NoItem
INVARIANTS NeverTooOften
PROPERTIES RetiredForGood 
