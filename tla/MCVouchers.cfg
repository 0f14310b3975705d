SPECIFICATION VSpec
CONSTANTS
    Ids = {a1, a2, a3, a4}
    a1 = a1
    a2 = a2
    a3 = a3
    a4 = a4
    customer = customer
    leaf = leaf
    Codes = {"1000", "1010", "1020", "2100"}
    Requests = {r1}
    Documents = {d1, d2}
    Parties = {customer}
    Leaves = {leaf}
    Orders <- MCOrders
    Creations <- MCCreations
    Patches <- MCPatches
    Starter <- MCStarter
    FreeCodes <- MCFreeCodes
    VatRegistered = TRUE
    Keep = Keep
    None = None
SYMMETRY MCSymmetry
INVARIANTS
    VouchersGapless
    BalancesFollowDocuments
    PostedAsFoundUnlessChanged
CHECK_DEADLOCK FALSE
