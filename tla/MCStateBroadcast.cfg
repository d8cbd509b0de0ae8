SPECIFICATION Spec
CONSTANTS
    Exts = {e1, e2}
    Clients = {a, b}
    WireRoom = 1
    NoExt = NoExt
    NoPicture = NoPicture
SYMMETRY Symmetric
VIEW WhoIsTold
INVARIANTS NobodyLeftOut
