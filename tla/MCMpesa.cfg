SPECIFICATION FairSpec
CONSTANTS
    Workers = {w1, w2}
    MaxCrashes = 1
INVARIANTS OnlyConfirmedMoneyCounts OnePoster LinkedIsPosted
PROPERTIES ReportedIsSettled UnknownOutcomeEnds ArrivedIsAccountedFor
CHECK_DEADLOCK FALSE
