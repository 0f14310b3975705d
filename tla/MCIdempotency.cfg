\* Two requests at a time with one key, sent with either of two bodies, one of
\* which has a clientUuid; two deaths or failed settlements.
CONSTANTS
    Requests = {w1, w2}
    Bodies = {guarded, plain}
    NoBody = noBody
    GuardedBodies = {guarded}
    MaxFailures = 2
    MaxEffects = 3
SPECIFICATION KeyFairSpec
INVARIANTS AnsweredIsReplayed ReExecutedOnlyAfterTrouble
PROPERTY ClaimsEnd
CHECK_DEADLOCK FALSE
