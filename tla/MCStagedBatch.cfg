SPECIFICATION BatchFairSpec
CONSTANTS
    Runs = {r1, r2}
    Items = {i1, i2}
    Last = 2
    Terminal = {2}
    Approved <- ApprovedByAll
    Concurrency = 1
INVARIANTS SentOnce StagesInOrder
PROPERTIES RunEnds
CHECK_DEADLOCK FALSE
