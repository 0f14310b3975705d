\* One customer, two documents, a payment and one report; three journals over two days.
CONSTANTS
    Customers = {c1}
    Docs = {i1, i2}
    Payments = {p1}
    Requests = {r1}
    None = none
    AccountType <- MCAccountType
    LateAccounts = {"sales"}
    Receivable = "receivable"
    Bank = "bank"
    Questions <- MCQuestions
    Dates <- MCDates
    Terms = {0}
    Totals = {2}
    Amounts = {1}
    ByHand <- MCByHand
    Collections <- MCCollections
    AsOfs <- MCAsOfs
    OvertakenOnce = TRUE
    MaxDay = 1
    MaxJournals = 3
SPECIFICATION Spec
INVARIANTS
    StatementsAddUp
    NamesStand
    UndocumentedIsExplained
    ReportsTie
    BalancedUnlessTheChartGrew
SYMMETRY Symmetry
CHECK_DEADLOCK FALSE
