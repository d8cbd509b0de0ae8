SPECIFICATION LinkFairSpec
CONSTANTS
    Sockets = {s1, s2}
    NoSocket = NoSocket
    MaxCalls = 2
    MaxTrouble = 2
INVARIANTS VerifiedIsCurrent  ChainUnbroken
PROPERTIES EnabledGetsThrough
CHECK_DEADLOCK FALSE
