SPECIFICATION Spec
CONSTANTS
    d1 = d1
    d2 = d2
    c1 = c1
    c2 = c2
    i1 = i1
    sales = sales
    services = services
    vat = vat
    Docs = {d1, d2, d3, d4}
    Parties = {c1, c2}
    Items = {i1}
    Accounts = {sales, services, vat}
    VatAccount = vat
    Requests = {r1, r2, r3}
    Orders <- MCOrders
    Patches <- MCPatches
    PartyChanges <- MCPartyChanges
    ItemChanges <- MCItemChanges
    Initial <- MCInitial
    InitialParty <- MCInitialParty
    InitialItem <- MCInitialItem
    BaseCurrency = "KES"
    Currencies = {"KES", "USD"}
    Days = {1, 2}
    MaxClock = 1
    Keep = Keep
    None = None
SYMMETRY MCSymmetry
INVARIANTS
    PostedAsWritten
    OverwrittenOnlyInARace
    ConversionsCopy
    EstimatesSettle
    PartyCurrencyKept
CHECK_DEADLOCK FALSE
