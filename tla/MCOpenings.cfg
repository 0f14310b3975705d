\* Five journals: an opening journal and two replacements of it, each a
\* reversal and a new opening; or one by hand, which waits for approval, or one
\* of a document, with a retry of it, beside the opening journals.
\* One period is enough, it is closed and reopened all the same.
SPECIFICATION Spec
CONSTANTS
    Requests = {r1, r2}
    Users = {alice, bob}
    NoUser = nobody
    ClientUuids = {c1}
    RandomUuid = random
    HandSources = {"MANUAL", "OPENING"}
    Periods = {"current"}
    CurrentPeriod = "current"
    Amounts = {2}
    ApprovalThreshold = 2
    MaxJournals = 5
SYMMETRY Symmetry
INVARIANTS GaplessNumbers
PROPERTIES OpeningReplacedOnce
