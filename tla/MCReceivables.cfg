SPECIFICATION Spec
CONSTANTS
    Requests = {r1, r2}
    Nobody = Nobody
    Mains = {3}
    Notes = {2}
    Receipts = {4}
    Amounts = {1, 2}
    CreditLimit = 2
    MaxByHand = 1
SYMMETRY Symmetry
INVARIANTS LedgerFollowsDocuments BalanceIsOpenItems NoCircularWait
PROPERTIES LimitExceededOnlyInARace ImplementsOpenItems
CHECK_DEADLOCK FALSE
