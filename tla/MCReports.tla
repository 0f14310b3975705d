----------------------------- MODULE MCReports -----------------------------
(* Small instances of Reports for TLC. *)
EXTENDS Reports, TLC

MCAccountType == [receivable |-> "ASSET", bank |-> "ASSET", equity |-> "EQUITY", sales |-> "INCOME"]
MCQuestions ==
    {[kind |-> "statement", customer |-> c, from |-> 0, to |-> 2] : c \in Customers}
    \cup {[kind |-> "trial", customer |-> None, from |-> None, to |-> 2]}
MCByHand ==
    {[source |-> "OPENING", date |-> 0, amount |-> 1, posted |-> FALSE, account |-> "receivable", contra |-> "equity"]}
MCCollections == {[date |-> 0, amount |-> 1, account |-> "sales"]}
MCAsOfs == {0}
MCDates == {-1, 2}
Symmetry == Permutations(Docs)
=============================================================================
