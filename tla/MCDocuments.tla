---------------------------- MODULE MCDocuments ----------------------------
(* Model-checking instance of Documents: two drafts, three requests.       *)
EXTENDS Documents

CONSTANTS d1, d2, c1, c2, i1, sales, services

Line_(i, quantity, price, amount, account, rate) ==
    [item |-> i, quantity |-> quantity, price |-> price, amount |-> amount,
     account |-> account, rate |-> rate, vat |-> None]

(* Half a unit at 33, of which 16 % makes neither way a whole cent; an     *)
(* item at its own price; an amount of 50 for 1.5 units, 33 each.          *)
Half == Line_(None, 500, 33, None, sales, 1600)
OfItem == Line_(i1, 1000, None, None, None, 0)
Whole == Line_(None, 1500, None, 50, services, 800)

Order_(kind, lines, mode) ==
    [kind |-> kind, party |-> c1, mode |-> mode, lines |-> lines, date |-> 1,
     due |-> IF kind = "PROFORMA" THEN 1 ELSE None, terms |-> None, note |-> "first"]

Estimate == Order_("PROFORMA", <<Half, OfItem>>, "INCLUSIVE")
Invoice == Order_("INVOICE", <<Half>>, "EXCLUSIVE")
Bill == Order_("BILL", <<Whole, [Half EXCEPT !.vat = services]>>, "EXCLUSIVE")

MCOrders == {[Invoice EXCEPT !.mode = "NONE", !.lines = <<OfItem>>]}
MCInitial == {(d1 :> Estimate) @@ (d2 :> Invoice), (d1 :> Estimate) @@ (d2 :> Bill)}

Nothing == [f \in Fields |-> Keep]
MCPatches == {[Nothing EXCEPT !.note = "second"], [Nothing EXCEPT !.lines = <<OfItem>>],
              [Nothing EXCEPT !.party = c2], [Nothing EXCEPT !.mode = "INCLUSIVE", !.due = None]}

MCInitialParty == (c1 :> [currency |-> None, terms |-> None]) @@
                  (c2 :> [currency |-> BaseCurrency, terms |-> 1])
MCPartyChanges == {[party |-> c1, currency |-> "USD", terms |-> Keep]}
MCInitialItem == [i \in Items |-> [price |-> 7, income |-> sales, purchase |-> services, active |-> TRUE]]
MCItemChanges == {[item |-> i1, price |-> 9], [item |-> i1, price |-> Keep]}
MCSymmetry == Permutations(Requests)
=============================================================================
