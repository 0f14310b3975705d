SPECIFICATION Spec
CONSTANTS
    Ids = {a1, a2, a3}
    Codes = {"1000", "1200", "1020", "1021", "2100", "3900"}
    Requests = {r1, r2, r3}
    Creations <- MCCreations
    Patches <- MCPatches
    Starter <- MCStarter
    FreeCodes <- MCFreeCodes
    VatRegistered = FALSE
    Keep = Keep
    None = None
SYMMETRY MCSymmetry
INVARIANT
    NeverUnderItself
CHECK_DEADLOCK FALSE
