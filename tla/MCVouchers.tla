----------------------------- MODULE MCVouchers -----------------------------
(* Model-checking instance of Vouchers: a small chart and a few orders.    *)
EXTENDS Vouchers, TLC

CONSTANTS a1, a2, a3, a4, customer, leaf

Starter_(type, code, key) == [type |-> type, code |-> code, vatOnly |-> FALSE, key |-> key]
MCStarter == <<Starter_("ASSET", "1000", "CASH"), Starter_("LIABILITY", "2100", "VAT_OUTPUT"),
               Starter_("ASSET", "1010", None)>>

MCFreeCodes == [k \in SystemKeys |-> <<"1020">>]
MCCreations == {}
Unchanged == [parent |-> Keep, key |-> Keep, code |-> Keep]
MCPatches == {[Unchanged EXCEPT !.key = k] : k \in {"CASH", "BANK"}}

Plain == [kind |-> "CASH_SALE", method |-> "CASH", money |-> None, line |-> a2, vat |-> None,
          net |-> 2, tax |-> 0, party |-> None, leaf |-> None]
MCOrders ==
    {[Plain EXCEPT !.tax = 1],
     [Plain EXCEPT !.method = "BANK", !.net = 0, !.tax = 1],
     [Plain EXCEPT !.method = "MPESA"],
     [Plain EXCEPT !.kind = "CHEQUE", !.method = "BANK", !.leaf = leaf],
     [Plain EXCEPT !.kind = "credit sale", !.money = a1, !.party = customer],
     [Plain EXCEPT !.kind = "cash sale", !.money = a1],
     [Plain EXCEPT !.kind = "bill", !.money = a2, !.line = a1, !.party = customer],
     [Plain EXCEPT !.kind = "cash expense", !.money = a1, !.vat = a2, !.tax = 1],
     [Plain EXCEPT !.kind = "cheque", !.money = a3, !.line = a1]}
MCSymmetry == Permutations(Documents) \cup Permutations(Requests)
=============================================================================
