CONSTANTS
    old = old
    new = new
    Servers <- MCServers
    Daemons <- MCDaemons
    Expected <- MCExpected
    Disk <- MCDisk
    MaxReplacements = 2
    MaxTrouble = 1
SPECIFICATION ReplacementFairSpec
CHECK_DEADLOCK FALSE
PROPERTY EveryServerSettles
 
PROPERTY NobodyLeftBehind
