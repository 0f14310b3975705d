SPECIFICATION Spec
CONSTANTS
    Requests = {r1, r2}
    Users = {alice, bob}
    NoUser = nobody
    ClientUuids = {c1, c2}
    RandomUuid = random
    HandSources = {"MANUAL"}
    Periods = {"past", "current"}
    CurrentPeriod = "current"
    Amounts = {2}
    ApprovalThreshold = 2
    MaxJournals = 3
SYMMETRY Symmetry
INVARIANTS AtMostOneReversal
