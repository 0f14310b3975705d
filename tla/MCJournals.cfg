\* Two requests at a time of two people on two periods, which are closed and
\* reopened; amounts below and at the threshold; one hand-entered journal or
\* document, with a retry of it, beside reversals and opening balances.
SPECIFICATION Spec
CONSTANTS
    Requests = {r1, r2}
    Users = {alice, bob}
    NoUser = nobody
    ClientUuids = {c1}
    RandomUuid = random
    HandSources = {"MANUAL"}
    Periods = {"past", "current"}
    CurrentPeriod = "current"
    Amounts = {1, 2}
    ApprovalThreshold = 2
    MaxJournals = 3
SYMMETRY Symmetry
INVARIANTS SegregationOfDuties ReversalsCorrectPosted
PROPERTIES ImplementsLedger OnlyOvertakenPostings
