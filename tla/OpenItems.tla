----------------------------- MODULE OpenItems -----------------------------
(***************************************************************************)
(* What the documents and payments of a party promise, with nothing of how *)
(* it is done: debts that are charged once and only ever given against,    *)
(* and credit that arises when more is given than is owed and is then used *)
(* or paid back.  Nothing is taken from a debt that was not given, nothing *)
(* of a credit is used twice, and a debt is waived only while it is whole. *)
(***************************************************************************)
EXTENDS Integers, Functions

CONSTANTS
    Debts,      \* what may be owed
    Credits     \* what may hold credit

VARIABLES
    charged,    \* what was charged, 0 until then
    owed,       \* what of it is still owed
    credit      \* what is left of a credit

items == <<charged, owed, credit>>

Init ==
    /\ charged = [d \in Debts |-> 0]
    /\ owed = charged
    /\ credit = [c \in Credits |-> 0]

Charge(d) ==
    /\ charged[d] = 0
    /\ charged'[d] \in Nat \ {0}
    /\ charged' = [charged EXCEPT ![d] = charged'[d]]
    /\ owed' = [owed EXCEPT ![d] = charged'[d]]
    /\ UNCHANGED credit

Waive(d) ==
    /\ charged[d] > 0 /\ owed[d] = charged[d]
    /\ owed' = [owed EXCEPT ![d] = 0]
    /\ UNCHANGED <<charged, credit>>

(* Parts are taken of what there is, and nothing is added. *)
Falls(f, g) ==
    /\ g = [x \in DOMAIN f |-> g[x]]
    /\ \A x \in DOMAIN f : g[x] \in 0 .. f[x]

(* Something is given: parts of debts, the rest becomes a new credit. *)
Give ==
    /\ Falls(owed, owed')
    /\ \/ credit' = credit /\ owed' # owed
       \/ \E c \in Credits :
             /\ credit[c] = 0
             /\ credit'[c] \in Nat \ {0}
             /\ credit' = [credit EXCEPT ![c] = credit'[c]]
    /\ UNCHANGED charged

(* Credit is used on one debt, which falls by exactly what was used. *)
Use(d) ==
    LET used == SumFunction([c \in Credits |-> credit[c] - credit'[c]]) IN
    /\ Falls(credit, credit')
    /\ used \in 1 .. owed[d]
    /\ owed' = [owed EXCEPT ![d] = @ - used]
    /\ UNCHANGED charged

PayBack ==
    /\ Falls(credit, credit')
    /\ UNCHANGED <<charged, owed>>

Next == Give \/ PayBack \/ \E d \in Debts : Charge(d) \/ Waive(d) \/ Use(d)

Spec == Init /\ [][Next]_items
=============================================================================
