SPECIFICATION LedgerSpec
CONSTANTS
    Callers = {c1, c2, c3}
    Tokens = {k1, k2}
    Targets = {i1, i2}
    Resources = {r1, r2}
    NoToken = NoToken
    NoTarget = NoTarget
    NoResource = NoResource
    NoCaller = NoCaller
SYMMETRY Symmetric
INVARIANTS FiredOnceAtMost
PROPERTIES ImplementsOneShot
