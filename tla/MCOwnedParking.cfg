SPECIFICATION ParkingFairSpec
CONSTANTS
    s1 = s1
    s2 = s2
    s3 = s3
    c1 = c1
    c2 = c2
    c3 = c3
    Servers = {s1, s2}
    Calls = {c1, c2}
    Of <- OfCalls
    Browsers = {b1, b2}
    MaxToken = 3
    Nobody = Nobody
    NoBrowser = NoBrowser
INVARIANTS   KeptOnRecord
PROPERTIES ExpiredIsRetired
CHECK_DEADLOCK FALSE
