SPECIFICATION BookFairSpec
CONSTANTS
    Tabs = {t1}
    MaxLinks = 3
    MaxRuns = 2
    MaxCalls = 2
 
PROPERTIES ClaimsComeBack
CHECK_DEADLOCK FALSE
