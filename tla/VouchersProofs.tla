--------------------------- MODULE VouchersProofs ---------------------------
(***************************************************************************)
(* Proofs about Chart and about Vouchers, which are posted to it, for any  *)
(* number of documents, accounts and concurrent requests and any template. *)
(*                                                                         *)
(* After what journals put on accounts comes a part about the chart alone. *)
(* Its inductive invariant is                                              *)
(* IInv: besides the properties it says what a request still knows, at its *)
(* step, of the snapshot it checked against, or else which commit it has   *)
(* missed, and that two requests never hold the same row.                  *)
(*                                                                         *)
(* The chart under the vouchers behaves as Chart says, so this carries     *)
(* over.  What vouchers add is VInv: what a document's request still knows *)
(* of the accounts it found (Stands), or else which change of them it has  *)
(* missed, and that a number is taken by one document at a time.           *)
(* Balances follow from Recorded: the journals are those of the documents  *)
(* that are posted, each as its kind prepares it.                          *)
(***************************************************************************)
EXTENDS Vouchers, Sums

(***************************************************************************)
(* The balances.  A journal is put together from lines and is weighed line *)
(* by line (Weight, of Sums): once by its debits, once by its credits and  *)
(* once for every account.                                                 *)
(***************************************************************************)
JournalLine == [account : Ids \cup {None}, debit : Nat, credit : Nat, party : Parties \cup {None}]

Debits == [l \in JournalLine |-> l.debit]
Credits == [l \in JournalLine |-> l.credit]
Worth(l, a, side) == IF l.account = a THEN side * (l.debit - l.credit) ELSE 0
OnAccount(a, side) == [l \in JournalLine |-> Worth(l, a, side)]

(* What an amount entered on account b means to account a. *)
Share(a, b, amount) == IF a = b THEN amount ELSE 0

LEMMA Scales ==
  /\ Debits \in [JournalLine -> Int] /\ Credits \in [JournalLine -> Int]
  /\ \A a : \A side \in Signs : OnAccount(a, side) \in [JournalLine -> Int]
<1>1. ASSUME NEW l \in JournalLine
      PROVE  /\ l.debit \in Int /\ l.credit \in Int
             /\ \A a : \A side \in Signs : Worth(l, a, side) \in Int
  <2>1. l.debit \in Int /\ l.credit \in Int
    BY DEF JournalLine
  <2>2. PICK n \in Int : n = l.debit - l.credit
    BY <2>1
  <2> QED
    BY <2>1, <2>2 DEF Worth, Signs
<1> HIDE DEF Worth
<1> QED
  BY <1>1 DEF Debits, Credits, OnAccount

(* One entry. *)
LEMMA DebitWeighs ==
  ASSUME NEW b \in Ids \cup {None}, NEW n \in Nat, NEW p \in Parties \cup {None}
  PROVE  /\ Debit(b, n, p) \in Seq(JournalLine)
         /\ Weight(Debit(b, n, p), Debits) = n /\ Weight(Debit(b, n, p), Credits) = 0
         /\ \A a : \A side \in Signs :
                Weight(Debit(b, n, p), OnAccount(a, side)) = side * Share(a, b, n)
<1> DEFINE l == [account |-> b, debit |-> n, credit |-> 0, party |-> p]
<1>1. l \in JournalLine /\ l.account = b /\ l.debit = n /\ l.credit = 0
  BY DEF JournalLine
<1>2. Debit(b, n, p) = <<l>>
  BY DEF Debit
<1> HIDE DEF l
<1>3. <<l>> \in Seq(JournalLine)
  BY <1>1
<1>4. Debits[l] = n /\ Credits[l] = 0
  BY <1>1 DEF Debits, Credits
<1>5. Weight(<<l>>, Debits) = Debits[l] /\ Weight(<<l>>, Credits) = Credits[l]
  BY <1>1, Scales, WeightOfOne
<1>6. ASSUME NEW a, NEW side \in Signs PROVE Weight(<<l>>, OnAccount(a, side)) = side * Share(a, b, n)
  <2>0. PICK w \in [JournalLine -> Int] : w = OnAccount(a, side)
    BY Scales, Zenon
  <2>1. Weight(<<l>>, OnAccount(a, side)) = OnAccount(a, side)[l]
    BY <1>1, <2>0, WeightOfOne
  <2>2. OnAccount(a, side)[l] = Worth(l, a, side)
    BY <1>1 DEF OnAccount
  <2>3. Worth(l, a, side) = side * Share(a, b, n)
    <3>1. l.debit - l.credit = n /\ side * 0 = 0
      BY <1>1 DEF Signs
    <3> QED
      BY <1>1, <3>1, Zenon DEF Worth, Share
  <2> QED
    BY <2>1, <2>2, <2>3, Zenon
<1> QED
  BY <1>2, <1>3, <1>4, <1>5, <1>6, Zenon

LEMMA CreditWeighs ==
  ASSUME NEW b \in Ids \cup {None}, NEW n \in Nat, NEW p \in Parties \cup {None}
  PROVE  /\ Credit(b, n, p) \in Seq(JournalLine)
         /\ Weight(Credit(b, n, p), Debits) = 0 /\ Weight(Credit(b, n, p), Credits) = n
         /\ \A a : \A side \in Signs :
                Weight(Credit(b, n, p), OnAccount(a, side)) = side * Share(a, b, -n)
<1> DEFINE l == [account |-> b, debit |-> 0, credit |-> n, party |-> p]
<1>1. l \in JournalLine /\ l.account = b /\ l.debit = 0 /\ l.credit = n
  BY DEF JournalLine
<1>2. Credit(b, n, p) = <<l>>
  BY DEF Credit
<1> HIDE DEF l
<1>3. <<l>> \in Seq(JournalLine)
  BY <1>1
<1>4. Debits[l] = 0 /\ Credits[l] = n
  BY <1>1 DEF Debits, Credits
<1>5. Weight(<<l>>, Debits) = Debits[l] /\ Weight(<<l>>, Credits) = Credits[l]
  BY <1>1, Scales, WeightOfOne
<1>6. ASSUME NEW a, NEW side \in Signs PROVE Weight(<<l>>, OnAccount(a, side)) = side * Share(a, b, -n)
  <2>0. PICK w \in [JournalLine -> Int] : w = OnAccount(a, side)
    BY Scales, Zenon
  <2>1. Weight(<<l>>, OnAccount(a, side)) = OnAccount(a, side)[l]
    BY <1>1, <2>0, WeightOfOne
  <2>2. OnAccount(a, side)[l] = Worth(l, a, side)
    BY <1>1 DEF OnAccount
  <2>3. Worth(l, a, side) = side * Share(a, b, -n)
    <3>1. l.debit - l.credit = -n /\ side * 0 = 0
      BY <1>1 DEF Signs
    <3> QED
      BY <1>1, <3>1, Zenon DEF Worth, Share
  <2> QED
    BY <2>1, <2>2, <2>3, Zenon
<1> QED
  BY <1>2, <1>3, <1>4, <1>5, <1>6, Zenon

(* Lines with these totals, and that much on account a. *)
Comes(s, d, c, a, side, x) ==
    /\ s \in Seq(JournalLine) /\ d \in Int /\ c \in Int /\ x \in Int
    /\ Weight(s, Debits) = d /\ Weight(s, Credits) = c
    /\ Weight(s, OnAccount(a, side)) = side * x

LEMMA NothingComes ==
  ASSUME NEW a, NEW side \in Signs
  PROVE  Comes(<<>>, 0, 0, a, side, 0)
<1>1. side * 0 = 0
  BY DEF Signs
<1> QED
  BY <1>1, WeightOfNone DEF Comes

LEMMA DebitComes ==
  ASSUME NEW b \in Ids \cup {None}, NEW n \in Nat, NEW p \in Parties \cup {None},
         NEW a, NEW side \in Signs
  PROVE  /\ Comes(Debit(b, n, p), n, 0, a, side, Share(a, b, n))
         /\ Comes(IfAny(n, Debit(b, n, p)), n, 0, a, side, Share(a, b, n))
<1>1. Share(a, b, n) \in Int /\ n \in Int /\ (n = 0 => Share(a, b, n) = 0)
  BY DEF Share
<1>2. Comes(Debit(b, n, p), n, 0, a, side, Share(a, b, n))
  <2>1. 0 \in Int
    OBVIOUS
  <2>2. Weight(Debit(b, n, p), OnAccount(a, side)) = side * Share(a, b, n)
    BY DebitWeighs
  <2>3. /\ Debit(b, n, p) \in Seq(JournalLine)
        /\ Weight(Debit(b, n, p), Debits) = n /\ Weight(Debit(b, n, p), Credits) = 0
    BY DebitWeighs
  <2> QED
    BY <1>1, <2>1, <2>2, <2>3, Zenon DEF Comes
<1>3. CASE n = 0
  <2>1. IfAny(n, Debit(b, n, p)) = <<>>
    BY <1>3 DEF IfAny
  <2> QED
    BY <1>1, <1>2, <1>3, <2>1, NothingComes
<1>4. CASE n > 0
  BY <1>2, <1>4 DEF IfAny
<1> QED
  BY <1>3, <1>4

LEMMA CreditComes ==
  ASSUME NEW b \in Ids \cup {None}, NEW n \in Nat, NEW p \in Parties \cup {None},
         NEW a, NEW side \in Signs
  PROVE  /\ Comes(Credit(b, n, p), 0, n, a, side, Share(a, b, -n))
         /\ Comes(IfAny(n, Credit(b, n, p)), 0, n, a, side, Share(a, b, -n))
<1>1. Share(a, b, -n) \in Int /\ n \in Int /\ (n = 0 => Share(a, b, -n) = 0)
  BY DEF Share
<1>2. Comes(Credit(b, n, p), 0, n, a, side, Share(a, b, -n))
  <2>1. 0 \in Int
    OBVIOUS
  <2>2. Weight(Credit(b, n, p), OnAccount(a, side)) = side * Share(a, b, -n)
    BY CreditWeighs
  <2>3. /\ Credit(b, n, p) \in Seq(JournalLine)
        /\ Weight(Credit(b, n, p), Debits) = 0 /\ Weight(Credit(b, n, p), Credits) = n
    BY CreditWeighs
  <2> QED
    BY <1>1, <2>1, <2>2, <2>3, Zenon DEF Comes
<1>3. CASE n = 0
  <2>1. IfAny(n, Credit(b, n, p)) = <<>>
    BY <1>3 DEF IfAny
  <2> QED
    BY <1>1, <1>2, <1>3, <2>1, NothingComes
<1>4. CASE n > 0
  BY <1>2, <1>4 DEF IfAny
<1> QED
  BY <1>3, <1>4

LEMMA DebitsJoined ==
  ASSUME NEW s \in Seq(JournalLine), NEW t \in Seq(JournalLine)
  PROVE  Weight(s \o t, Debits) = Weight(s, Debits) + Weight(t, Debits)
BY Scales, WeightJoined

LEMMA CreditsJoined ==
  ASSUME NEW s \in Seq(JournalLine), NEW t \in Seq(JournalLine)
  PROVE  Weight(s \o t, Credits) = Weight(s, Credits) + Weight(t, Credits)
BY Scales, WeightJoined

LEMMA BothCome ==
  ASSUME NEW a, NEW side \in Signs,
         NEW s, NEW d, NEW c, NEW x, Comes(s, d, c, a, side, x),
         NEW t, NEW e, NEW f, NEW y, Comes(t, e, f, a, side, y)
  PROVE  Comes(s \o t, d + e, c + f, a, side, x + y)
<1>1. s \in Seq(JournalLine) /\ t \in Seq(JournalLine)
  BY DEF Comes
<1>2. PICK on \in [JournalLine -> Int] : on = OnAccount(a, side)
  BY Scales, Zenon
<1>3. s \o t \in Seq(JournalLine) /\ Weight(s \o t, on) = Weight(s, on) + Weight(t, on)
  BY <1>1, WeightJoined
<1>4. Weight(s \o t, Debits) = Weight(s, Debits) + Weight(t, Debits)
  BY <1>1, DebitsJoined
<1>5. Weight(s \o t, Credits) = Weight(s, Credits) + Weight(t, Credits)
  BY <1>1, CreditsJoined
<1>6. /\ d \in Int /\ c \in Int /\ x \in Int /\ e \in Int /\ f \in Int /\ y \in Int
      /\ Weight(s, Debits) = d /\ Weight(t, Debits) = e
      /\ Weight(s, Credits) = c /\ Weight(t, Credits) = f
      /\ Weight(s, on) = side * x /\ Weight(t, on) = side * y
  BY <1>2, Zenon DEF Comes
<1>7. side * x + side * y = side * (x + y)
  BY <1>6 DEF Signs
<1>8. d + e \in Int /\ c + f \in Int /\ x + y \in Int
  BY <1>6
<1>9. Weight(s \o t, OnAccount(a, side)) = side * (x + y)
  BY <1>2, <1>3, <1>6, <1>7, Zenon
<1>10. Weight(s \o t, Debits) = d + e /\ Weight(s \o t, Credits) = c + f
  BY <1>4, <1>5, <1>6, Zenon
<1> QED
  BY <1>3, <1>8, <1>9, <1>10, Zenon DEF Comes

LEMMA ThreeCome ==
  ASSUME NEW a, NEW side \in Signs,
         NEW s, NEW d, NEW c, NEW x, Comes(s, d, c, a, side, x),
         NEW t, NEW e, NEW f, NEW y, Comes(t, e, f, a, side, y),
         NEW u, NEW g, NEW h, NEW z, Comes(u, g, h, a, side, z),
         NEW debits, debits = (d + e) + g, NEW credits, credits = (c + f) + h,
         NEW v, v = (x + y) + z
  PROVE  Comes(s \o t \o u, debits, credits, a, side, v)
<1>1. Comes(s \o t, d + e, c + f, a, side, x + y)
  BY BothCome
<1>2. Comes((s \o t) \o u, (d + e) + g, (c + f) + h, a, side, (x + y) + z)
  BY <1>1, BothCome
<1> QED
  BY <1>2, Zenon

(* What a document does to account a. *)
Moved(v, a) ==
    LET o == v.order
        sign == IF Purchase(o) THEN 1 ELSE -1
    IN  Share(a, v.money, IF Purchase(o) THEN -Total(o) ELSE Total(o))
        + Share(a, o.line, sign * o.net) + Share(a, v.vat, sign * o.tax)

LEMMA ShareInt ==
  ASSUME NEW a, NEW b, NEW n \in Int
  PROVE  Share(a, b, n) \in Int
BY DEF Share

(* On a sale money comes in, on a purchase it goes out. *)
LEMMA MovedIs ==
  ASSUME NEW v, NEW a, NEW net \in Nat, NEW tax \in Nat, NEW total \in Nat,
         v.order.net = net, v.order.tax = tax, total = net + tax
  PROVE  /\ Total(v.order) = total
         /\ ~Purchase(v.order) => Moved(v, a) = (Share(a, v.money, total) + Share(a, v.order.line, -net))
                                                  + Share(a, v.vat, -tax)
         /\ Purchase(v.order) => Moved(v, a) = (Share(a, v.order.line, net) + Share(a, v.vat, tax))
                                                 + Share(a, v.money, -total)
<1>1. Total(v.order) = total
  BY Zenon DEF Total
<1>2. CASE ~Purchase(v.order)
  <2>1. Moved(v, a) = Share(a, v.money, total) + Share(a, v.order.line, (-1) * net) + Share(a, v.vat, (-1) * tax)
    BY <1>1, <1>2, Zenon DEF Moved
  <2>2. (-1) * net = -net /\ (-1) * tax = -tax
    OBVIOUS
  <2> QED
    BY <1>1, <1>2, <2>1, <2>2, Zenon
<1>3. CASE Purchase(v.order)
  <2>1. Moved(v, a) = Share(a, v.money, -total) + Share(a, v.order.line, 1 * net) + Share(a, v.vat, 1 * tax)
    BY <1>1, <1>3, Zenon DEF Moved
  <2>2. 1 * net = net /\ 1 * tax = tax
    OBVIOUS
  <2>3. Moved(v, a) = Share(a, v.money, -total) + Share(a, v.order.line, net) + Share(a, v.vat, tax)
    BY <2>1, <2>2, Zenon
  <2>4. PICK x \in Int : x = Share(a, v.money, -total)
    BY ShareInt
  <2>5. PICK y \in Int : y = Share(a, v.order.line, net)
    BY ShareInt
  <2>6. PICK z \in Int : z = Share(a, v.vat, tax)
    BY ShareInt
  <2>7. x + y + z = (y + z) + x
    OBVIOUS
  <2>8. Moved(v, a) = (Share(a, v.order.line, net) + Share(a, v.vat, tax)) + Share(a, v.money, -total)
    BY <2>3, <2>4, <2>5, <2>6, <2>7, Zenon
  <2> QED
    BY <1>1, <1>3, <2>8
<1> QED
  BY <1>2, <1>3

(* Every journal balances and moves what the document says. *)
LEMMA JournalComes ==
  ASSUME NEW v, v.order \in Order, Valid(v.order), v.money \in Ids, v.vat \in Ids \cup {None},
         NEW a, NEW side \in Signs
  PROVE  Comes(JournalLines(v), Total(v.order), Total(v.order), a, side, Moved(v, a))
<1>1. PICK o \in Order : o = v.order
  OBVIOUS
<1>2. /\ o.net \in Nat /\ o.tax \in Nat /\ o.line \in Ids /\ o.party \in Parties \cup {None}
      /\ o.kind \in Kinds
  BY DEF Order
<1>3. PICK net \in Nat : net = o.net
  BY <1>2
<1>4. PICK tax \in Nat : tax = o.tax
  BY <1>2
<1>5. PICK total \in Nat : total = net + tax
  OBVIOUS
<1>6. PICK x : x = Moved(v, a)
  OBVIOUS
<1>7. Total(o) = total
  BY <1>3, <1>4, <1>5, Zenon DEF Total
<1>8. PICK line \in Ids \cup {None} : line = o.line
  BY <1>2
<1>9. PICK money \in Ids \cup {None} : money = v.money
  OBVIOUS
<1>10. PICK vat \in Ids \cup {None} : vat = v.vat
  OBVIOUS
<1>11. PICK party \in Parties \cup {None} : party = o.party
  BY <1>2
<1>12. PICK nobody \in Parties \cup {None} : nobody = None
  OBVIOUS
<1>13. total = (total + 0) + 0 /\ total = (0 + net) + tax /\ total = (0 + 0) + total /\ total = (net + tax) + 0
  BY <1>5
<1>14. ASSUME ~Purchase(o), NEW p \in Parties \cup {None}, NEW q \in Parties \cup {None}
       PROVE  /\ Comes(Debit(money, total, p) \o IfAny(net, Credit(line, net, q)) \o IfAny(tax, Credit(vat, tax, q)),
                       total, total, a, side, x)
              /\ Comes(Debit(money, total, p) \o Credit(line, net, q) \o IfAny(tax, Credit(vat, tax, q)),
                       total, total, a, side, x)
  <2>1. x = (Share(a, money, total) + Share(a, line, -net)) + Share(a, vat, -tax)
    BY <1>1, <1>3, <1>4, <1>5, <1>6, <1>8, <1>9, <1>10, <1>14, MovedIs
  <2>2. Comes(Debit(money, total, p), total, 0, a, side, Share(a, money, total))
    BY DebitComes
  <2>3. /\ Comes(Credit(line, net, q), 0, net, a, side, Share(a, line, -net))
        /\ Comes(IfAny(net, Credit(line, net, q)), 0, net, a, side, Share(a, line, -net))
    BY CreditComes
  <2>4. Comes(IfAny(tax, Credit(vat, tax, q)), 0, tax, a, side, Share(a, vat, -tax))
    BY CreditComes
  <2>5. total = (total + 0) + 0 /\ total = (0 + net) + tax
    BY <1>13
  <2>6. Comes(Debit(money, total, p) \o IfAny(net, Credit(line, net, q)) \o IfAny(tax, Credit(vat, tax, q)),
              total, total, a, side, x)
    <3>1. Comes(IfAny(net, Credit(line, net, q)), 0, net, a, side, Share(a, line, -net))
      BY <2>3
    <3> QED
      BY <2>1, <2>2, <3>1, <2>4, <2>5, ThreeCome
  <2>7. Comes(Debit(money, total, p) \o Credit(line, net, q) \o IfAny(tax, Credit(vat, tax, q)),
              total, total, a, side, x)
    <3>1. Comes(Credit(line, net, q), 0, net, a, side, Share(a, line, -net))
      BY <2>3
    <3> QED
      BY <2>1, <2>2, <3>1, <2>4, <2>5, ThreeCome
  <2> QED
    BY <2>6, <2>7
<1>15. ASSUME Purchase(o), NEW p \in Parties \cup {None}, NEW q \in Parties \cup {None}
       PROVE  /\ Comes(IfAny(net, Debit(line, net, q)) \o IfAny(tax, Debit(vat, tax, q)) \o Credit(money, total, p),
                       total, total, a, side, x)
              /\ Comes(Debit(line, net, q) \o IfAny(tax, Debit(vat, tax, q)) \o Credit(money, total, p),
                       total, total, a, side, x)
  <2>1. x = (Share(a, line, net) + Share(a, vat, tax)) + Share(a, money, -total)
    BY <1>1, <1>3, <1>4, <1>5, <1>6, <1>8, <1>9, <1>10, <1>15, MovedIs
  <2>2. Comes(Credit(money, total, p), 0, total, a, side, Share(a, money, -total))
    BY CreditComes
  <2>3. /\ Comes(Debit(line, net, q), net, 0, a, side, Share(a, line, net))
        /\ Comes(IfAny(net, Debit(line, net, q)), net, 0, a, side, Share(a, line, net))
    BY DebitComes
  <2>4. Comes(IfAny(tax, Debit(vat, tax, q)), tax, 0, a, side, Share(a, vat, tax))
    BY DebitComes
  <2>5. total = (net + tax) + 0 /\ total = (0 + 0) + total
    BY <1>13
  <2>6. Comes(IfAny(net, Debit(line, net, q)) \o IfAny(tax, Debit(vat, tax, q)) \o Credit(money, total, p),
              total, total, a, side, x)
    <3>1. Comes(IfAny(net, Debit(line, net, q)), net, 0, a, side, Share(a, line, net))
      BY <2>3
    <3> QED
      BY <2>1, <2>2, <3>1, <2>4, <2>5, ThreeCome
  <2>7. Comes(Debit(line, net, q) \o IfAny(tax, Debit(vat, tax, q)) \o Credit(money, total, p),
              total, total, a, side, x)
    <3>1. Comes(Debit(line, net, q), net, 0, a, side, Share(a, line, net))
      BY <2>3
    <3> QED
      BY <2>1, <2>2, <3>1, <2>4, <2>5, ThreeCome
  <2> QED
    BY <2>6, <2>7
<1>16. CASE o.kind = "CASH_SALE"
  <2>1. ~Purchase(o)
    BY <1>16 DEF Purchase
  <2>2. JournalLines(v) = Debit(money, total, nobody) \o IfAny(net, Credit(line, net, nobody))
                              \o IfAny(tax, Credit(vat, tax, nobody))
    BY <1>1, <1>3, <1>4, <1>7, <1>8, <1>9, <1>10, <1>12, <1>16 DEF JournalLines, SalesReceiptLines
  <2> QED
    BY <1>1, <1>6, <1>7, <1>14, <2>1, <2>2, Zenon
<1>17. CASE o.kind = "CHEQUE"
  <2>1. Purchase(o)
    BY <1>17 DEF Purchase
  <2>2. JournalLines(v) = IfAny(net, Debit(line, net, nobody)) \o IfAny(tax, Debit(vat, tax, nobody))
                              \o Credit(money, total, nobody)
    BY <1>1, <1>3, <1>4, <1>7, <1>8, <1>9, <1>10, <1>12, <1>17 DEF JournalLines, ChequePaymentLines
  <2> QED
    BY <1>1, <1>6, <1>7, <1>15, <2>1, <2>2, Zenon
<1>18. CASE o.kind = "credit sale"
  <2>1. ~Purchase(o)
    BY <1>18 DEF Purchase
  <2>2. JournalLines(v) = Debit(money, total, party) \o Credit(line, net, nobody)
                              \o IfAny(tax, Credit(vat, tax, nobody))
    BY <1>1, <1>3, <1>4, <1>7, <1>8, <1>9, <1>10, <1>11, <1>12, <1>18 DEF JournalLines, CreditSaleLines
  <2> QED
    BY <1>1, <1>6, <1>7, <1>14, <2>1, <2>2, Zenon
<1>19. CASE o.kind = "cash sale"
  <2>1. ~Purchase(o)
    BY <1>19 DEF Purchase
  <2>2. JournalLines(v) = Debit(money, total, nobody) \o Credit(line, net, nobody)
                              \o IfAny(tax, Credit(vat, tax, nobody))
    BY <1>1, <1>3, <1>4, <1>7, <1>8, <1>9, <1>10, <1>12, <1>19 DEF JournalLines, CashSaleLines
  <2> QED
    BY <1>1, <1>6, <1>7, <1>14, <2>1, <2>2, Zenon
<1>20. CASE o.kind = "bill"
  <2>1. Purchase(o)
    BY <1>20 DEF Purchase
  <2>2. JournalLines(v) = Debit(line, net, nobody) \o IfAny(tax, Debit(vat, tax, nobody))
                              \o Credit(money, total, party)
    BY <1>1, <1>3, <1>4, <1>7, <1>8, <1>9, <1>10, <1>11, <1>12, <1>20 DEF JournalLines, BillLines
  <2> QED
    BY <1>1, <1>6, <1>7, <1>15, <2>1, <2>2, Zenon
<1>21. CASE o.kind = "cash expense"
  <2>1. Purchase(o)
    BY <1>21 DEF Purchase
  <2>2. JournalLines(v) = Debit(line, net, nobody) \o IfAny(tax, Debit(vat, tax, nobody))
                              \o Credit(money, total, nobody)
    BY <1>1, <1>3, <1>4, <1>7, <1>8, <1>9, <1>10, <1>12, <1>21 DEF JournalLines, CashExpenseLines
  <2> QED
    BY <1>1, <1>6, <1>7, <1>15, <2>1, <2>2, Zenon
<1>22. CASE o.kind = "cheque"
  <2>1. Purchase(o) /\ tax = 0
    BY <1>1, <1>4, <1>22 DEF Purchase, Valid, ValidCheque
  <2>2. JournalLines(v) = Debit(line, net, party) \o Credit(money, net, nobody)
    BY <1>1, <1>3, <1>8, <1>9, <1>11, <1>12, <1>22 DEF JournalLines, ChequeLines
  <2>3. x = (Share(a, line, net) + Share(a, vat, tax)) + Share(a, money, -total)
    <3>1. Purchase(v.order) /\ v.order.net = net /\ v.order.tax = tax
      BY <1>1, <1>3, <1>4, <2>1
    <3>2. Moved(v, a) = (Share(a, v.order.line, net) + Share(a, v.vat, tax)) + Share(a, v.money, -total)
      BY <1>5, <3>1, MovedIs
    <3> QED
      BY <1>1, <1>6, <1>8, <1>9, <1>10, <3>2, Zenon
  <2>4. Share(a, vat, tax) = 0 /\ total = net
    BY <1>5, <2>1 DEF Share
  <2>5. PICK y \in Int : y = Share(a, line, net)
    BY ShareInt
  <2>6. y + 0 = y
    OBVIOUS
  <2>7. x = Share(a, line, net) + Share(a, money, -net)
    BY <2>3, <2>4, <2>5, <2>6, Zenon
  <2>8. Comes(Debit(line, net, party), net, 0, a, side, Share(a, line, net))
    BY DebitComes
  <2>9. Comes(Credit(money, net, nobody), 0, net, a, side, Share(a, money, -net))
    BY CreditComes
  <2>10. Comes(JournalLines(v), net + 0, 0 + net, a, side, x)
    BY <2>2, <2>7, <2>8, <2>9, BothCome, Zenon
  <2>11. net + 0 = total /\ 0 + net = total
    BY <2>4
  <2> QED
    BY <1>1, <1>6, <1>7, <2>10, <2>11, Zenon
<1> QED
  BY <1>2, <1>16, <1>17, <1>18, <1>19, <1>20, <1>21, <1>22 DEF Kinds, NumberedKinds, GuidedKinds

(* The sums of Vouchers are weights. *)
LEMMA LinesWeigh ==
  ASSUME NEW s \in Seq(JournalLine), NEW a, NEW side \in Signs
  PROVE  /\ SumLines(s, LAMBDA l : l.debit) = Weight(s, Debits)
         /\ SumLines(s, LAMBDA l : l.credit) = Weight(s, Credits)
         /\ SumLines(s, LAMBDA l : IF l.account = a THEN side * (l.debit - l.credit) ELSE 0)
              = Weight(s, OnAccount(a, side))
<1>1. ASSUME NEW n \in DOMAIN s
      PROVE  s[n].debit = Debits[s[n]] /\ s[n].credit = Credits[s[n]]
             /\ Worth(s[n], a, side) = OnAccount(a, side)[s[n]]
  <2>1. s[n] \in JournalLine
    OBVIOUS
  <2> QED
    BY <2>1, Zenon DEF Debits, Credits, OnAccount
<1>2. [n \in DOMAIN s |-> s[n].debit] = [n \in DOMAIN s |-> Debits[s[n]]]
  BY <1>1, Zenon
<1>3. [n \in DOMAIN s |-> s[n].credit] = [n \in DOMAIN s |-> Credits[s[n]]]
  BY <1>1, Zenon
<1>4. [n \in DOMAIN s |-> Worth(s[n], a, side)] = [n \in DOMAIN s |-> OnAccount(a, side)[s[n]]]
  BY <1>1, Zenon
<1>5. SumLines(s, LAMBDA l : l.debit) = Weight(s, Debits)
  BY <1>2, Zenon DEF SumLines, Weight, Weights
<1>6. SumLines(s, LAMBDA l : l.credit) = Weight(s, Credits)
  BY <1>3, Zenon DEF SumLines, Weight, Weights
<1>7. SumLines(s, LAMBDA l : IF l.account = a THEN side * (l.debit - l.credit) ELSE 0)
        = Weight(s, OnAccount(a, side))
  BY <1>4, Zenon DEF SumLines, Weight, Weights, Worth
<1> QED
  BY <1>5, <1>6, <1>7

-----------------------------------------------------------------------------
(* The chart. *)

Rooted ==
    \A a \in Known : Parent(a) # None =>
        Parent(a) \in Known /\ accounts[Parent(a)].type = accounts[a].type

KeysHeldOnce ==
    /\ \A a, b \in Known : accounts[a].key = accounts[b].key /\ accounts[a].key # None => a = b
    /\ \A a \in Known : accounts[a].key # None => accounts[a].type = SystemType(accounts[a].key)

(* What the update of request q relies on. *)
KnowsOfTree(q) ==
    LET r == request[q]
    IN  /\ r.account \in Known
        /\ r.parent \in Ids =>
              /\ r.parent \in Known
              /\ accounts[r.parent].type = accounts[r.account].type
              /\ "tree" \in r.missed \/ r.account \notin Ancestors(r.parent)

KnowsOfKey(q) ==
    LET r == request[q]
    IN  r.key # Keep =>
            /\ r.key \in AssignableKeys
            /\ accounts[r.account].type = SystemType(r.key)
            /\ accounts[r.account].key \in {None, r.key} \/ r.account \in r.missed

(* What request q knows at its step. *)
Knows(q) ==
    LET r == request[q]
    IN  /\ r.pc \in {"checked", "row", "chart", "ready"} => KnowsOfTree(q) /\ KnowsOfKey(q)
        /\ r.pc \in {"checked", "row", "chart"} => r.freed = {}
        /\ r.pc \in {"row", "chart"} => r.key # Keep
        /\ r.pc \in {"chart", "insert"} => chartLock = q
        /\ r.pc = "ready" /\ r.key = Keep => r.freed = {}
        /\ r.pc = "ready" /\ r.key # Keep =>
              /\ chartLock = q
              /\ \A a \in r.freed : a \in Known /\ accounts[a].key = r.key /\ a # r.account
              /\ Holders(r.key) \subseteq {r.account} \cup r.freed \/ r.key \in r.missed
        /\ r.pc \in {"lookup", "insert"} => r.key \in SystemKeys \ AssignableKeys
        /\ r.pc = "insert" => r.code \in Codes /\ (Holders(r.key) = {} \/ r.key \in r.missed)
        /\ r.pc = "key_taken" => r.key \in r.missed

RequestsKnow == \A q \in Requests : Knows(q)

RowsLockedOnce == \A p, q \in Requests : p # q => Locked(p) \cap Locked(q) = {}

IInv ==
    /\ TypeOK
    /\ Rooted
    /\ Acyclic \/ treeRaced
    /\ KeysHeldOnce
    /\ RequestsKnow
    /\ RowsLockedOnce

USE ChartAssumption

-----------------------------------------------------------------------------
(* What a step of p leaves to request q.                                   *)

Grown == \A a \in Known : accounts'[a] # None /\ accounts'[a].type = accounts[a].type

SameFields(q) ==
    /\ request'[q].pc = request[q].pc
    /\ request'[q].account = request[q].account
    /\ request'[q].parent = request[q].parent
    /\ request'[q].key = request[q].key
    /\ request'[q].code = request[q].code
    /\ request'[q].freed = request[q].freed
    /\ request[q].missed \subseteq request'[q].missed

Left(q) ==
    /\ SameFields(q)
    /\ chartLock = q => chartLock' = q
    /\ \A a \in Known :
          \/ accounts'[a].key = accounts[a].key
          \/ a \notin Locked(q) /\ (InFlight(request[q]) => a \in request'[q].missed)
    /\ InFlight(request[q]) /\ "tree" \notin request'[q].missed =>
          \A a \in Known : accounts'[a].parent = accounts[a].parent \/ accounts'[a].parent \notin Ids
    /\ chartLock = q /\ InFlight(request[q]) =>
          \A k \in SystemKeys : Holders(k)' \subseteq Holders(k) \/ k \in request'[q].missed

(* No account gets below another by a step that re-parents none.           *)
LEMMA NotBelowKept ==
  ASSUME TypeOK, Rooted, Grown, NEW a \in Known, NEW p \in Known, a \notin Ancestors(p),
         \A b \in Known : accounts'[b].parent = accounts[b].parent \/ accounts'[b].parent \notin Ids
  PROVE  a \notin Ancestors(p)'
<1>1. PICK S \in SUBSET Known : /\ p \in S /\ a \notin S
                                /\ \A c \in S : Parent(c) \in Known => Parent(c) \in S
  BY DEF Ancestors
<1>2. S \in SUBSET Known'
  BY DEF Grown, Known
<1>3. ASSUME NEW c \in S, Parent(c)' \in Known' PROVE Parent(c)' \in S
  BY <1>1, <1>3 DEF Parent, Known, Rooted
<1> QED
  BY <1>1, <1>2, <1>3 DEF Ancestors

LEMMA KnowsOfTreeKept ==
  ASSUME NEW q \in Requests, TypeOK, Rooted, Grown, Left(q), KnowsOfTree(q), InFlight(request[q])
  PROVE  KnowsOfTree(q)'
<1> DEFINE r == request[q]
<1>1. r.account \in Known /\ r.account \in Known'
  BY DEF KnowsOfTree, Grown, Known
<1>2. ASSUME r.parent \in Ids
      PROVE  /\ r.parent \in Known /\ r.parent \in Known'
             /\ accounts'[r.parent].type = accounts'[r.account].type
  BY <1>1, <1>2 DEF KnowsOfTree, Grown, Known
<1>3. ASSUME NEW a \in Known, NEW p \in Known, a = r.account, p = r.parent,
             "tree" \notin request'[q].missed
      PROVE  a \notin Ancestors(p)'
  <2>1. a \notin Ancestors(p)
    BY <1>3 DEF Left, SameFields, KnowsOfTree, Known
  <2>2. \A b \in Known : accounts'[b].parent = accounts[b].parent \/ accounts'[b].parent \notin Ids
    BY <1>3 DEF Left
  <2> QED
    BY <2>1, <2>2, NotBelowKept
<1>4. request'[q].account = r.account /\ request'[q].parent = r.parent
  BY DEF Left, SameFields
<1>5. ASSUME r.parent \in Ids, "tree" \notin request'[q].missed
      PROVE  (request[q].account \notin Ancestors(request[q].parent))'
  BY <1>1, <1>2, <1>3, <1>4, <1>5 DEF Ancestors
<1> QED
  BY <1>1, <1>2, <1>4, <1>5 DEF KnowsOfTree

LEMMA KnowsKept ==
  ASSUME NEW q \in Requests, TypeOK, TypeOK', Rooted, Grown, Left(q), Knows(q)
  PROVE  Knows(q)'
<1> DEFINE r == request[q]
<1>1. SameFields(q)
  BY DEF Left
<1>2. ASSUME r.pc \in {"checked", "row", "chart", "ready"} PROVE KnowsOfTree(q)' /\ KnowsOfKey(q)'
  <2>1. InFlight(r) /\ KnowsOfTree(q) /\ KnowsOfKey(q) /\ r.account \in Known
    BY <1>2 DEF InFlight, Knows, KnowsOfTree
  <2>2. KnowsOfTree(q)'
    BY <2>1, KnowsOfTreeKept
  <2>3. ASSUME r.key # Keep
        PROVE  accounts'[r.account].key \in {None, r.key} \/ r.account \in request'[q].missed
    BY <2>1, <2>3, <1>1 DEF Left, KnowsOfKey, SameFields
  <2>4. KnowsOfKey(q)'
    BY <2>1, <2>3, <1>1 DEF KnowsOfKey, SameFields, Grown
  <2> QED
    BY <2>2, <2>4
<1>3. ASSUME r.pc = "ready", r.key # Keep
      PROVE  /\ chartLock' = q
             /\ \A a \in r.freed : a \in Known' /\ accounts'[a].key = r.key /\ a # r.account
             /\ Holders(r.key)' \subseteq {r.account} \cup r.freed \/ r.key \in request'[q].missed
  <2>1. r.key \in SystemKeys /\ InFlight(r) /\ chartLock = q
    BY <1>3 DEF Knows, KnowsOfKey, AssignableKeys, InFlight
  <2>2. \A a \in r.freed : a \in Locked(q)
    BY <1>3 DEF Locked
  <2>3. \A a \in r.freed : a \in Known' /\ accounts'[a].key = r.key /\ a # r.account
    BY <2>2, <1>3 DEF Left, Knows, Grown, Known
  <2>4. Holders(r.key)' \subseteq {r.account} \cup r.freed \/ r.key \in request'[q].missed
    BY <2>1, <1>1, <1>3 DEF Left, Knows, SameFields
  <2> QED
    BY <2>1, <2>3, <2>4 DEF Left
<1>4. ASSUME r.pc = "insert"
      PROVE  chartLock' = q /\ r.code \in Codes /\ (Holders(r.key)' = {} \/ r.key \in request'[q].missed)
  <2>1. r.key \in SystemKeys /\ InFlight(r) /\ chartLock = q
    BY <1>4 DEF Knows, InFlight
  <2> QED
    BY <2>1, <1>1, <1>4 DEF Left, Knows, SameFields
<1>5. r.pc = "chart" => chartLock' = q
  BY DEF Left, Knows
<1>6. Holders(request[q].key)' = {a \in Known' : accounts'[a].key = r.key}
  BY <1>1 DEF Holders, SameFields
<1>7. Holders(r.key)' = {a \in Known' : accounts'[a].key = r.key}
  BY <1>1 DEF Holders, SameFields
<1> QED
  BY <1>1, <1>2, <1>3, <1>4, <1>5, <1>6, <1>7 DEF Knows, SameFields

(* The invariant after a step of p, from its parts. *)
LEMMA Assemble ==
  ASSUME NEW p, IInv, TypeOK', Grown, Rooted', (Acyclic \/ treeRaced)', KeysHeldOnce',
         \A q \in Requests \ {p} : Left(q),
         p \in Requests =>
            Knows(p)' /\ \A q \in Requests \ {p} : Locked(p)' \cap Locked(q) = {}
  PROVE  IInv'
<1>1. RequestsKnow'
  <2> SUFFICES ASSUME NEW q \in Requests PROVE Knows(q)'
    BY DEF RequestsKnow
  <2>1. Knows(q)
    BY DEF IInv, RequestsKnow
  <2> QED
    BY <2>1, KnowsKept DEF IInv
<1>2. \A q \in Requests \ {p} : Locked(q)' = Locked(q)
  BY DEF Left, SameFields, Locked
<1>3. RowsLockedOnce'
  BY <1>2 DEF RowsLockedOnce, IInv
<1> QED
  BY <1>1, <1>3 DEF IInv

-----------------------------------------------------------------------------
THEOREM InitInv == Init => IInv
<1> SUFFICES ASSUME Init PROVE IInv
  OBVIOUS
<1>1. Known = {}
  BY DEF Init, Known
<1>2. Idle \in Request
  BY DEF Idle, Request
<1>3. TypeOK
  <2>1. 0 \in 0 .. Len(Starter)
    OBVIOUS
  <2> QED
    BY <1>2, <2>1 DEF Init, TypeOK
<1>4. RequestsKnow
  BY DEF Init, RequestsKnow, Knows, Idle
<1>5. RowsLockedOnce
  BY DEF Init, RowsLockedOnce, Locked, Idle
<1> QED
  BY <1>1, <1>3, <1>4, <1>5 DEF IInv, Rooted, KeysHeldOnce, Acyclic

-----------------------------------------------------------------------------
(* A step of request p that leaves the chart alone.                        *)

LEMMA QuietStep ==
  ASSUME NEW p \in Requests, IInv, NEW row \in Request,
         request' = [request EXCEPT ![p] = row],
         UNCHANGED <<accounts, seeded, treeRaced>>,
         chartLock' \in Requests \cup {None},
         \A q \in Requests \ {p} : chartLock = q => chartLock' = q,
         Knows(p)',
         \A q \in Requests \ {p} : Locked(p)' \cap Locked(q) = {}
  PROVE  IInv'
<1>1. TypeOK'
  BY DEF IInv, TypeOK
<1>2. Known' = Known /\ Grown
  BY DEF Known, Grown
<1>3. Rooted' /\ KeysHeldOnce' /\ (Acyclic \/ treeRaced)'
  BY <1>2 DEF IInv, Rooted, KeysHeldOnce, Acyclic, Parent
<1>4. ASSUME NEW q \in Requests \ {p} PROVE Left(q)
  BY <1>2 DEF IInv, TypeOK, Left, SameFields, Holders
<1> QED
  BY <1>1, <1>2, <1>3, <1>4, Assemble

-----------------------------------------------------------------------------
(* A new account is a leaf.                                                *)

LEMMA NewIdFree == Free # {} => NewId \in Free
  BY DEF NewId, Free

LEMMA LeafAdded ==
  ASSUME IInv, NEW n \in Free, NEW row \in Account,
         accounts' = [accounts EXCEPT ![n] = row], treeRaced' = treeRaced,
         row.parent # None => row.parent \in Known /\ accounts[row.parent].type = row.type,
         row.key # None => row.type = SystemType(row.key) /\ Holders(row.key) = {}
  PROVE  /\ accounts' \in [Ids -> Account \cup {None}]
         /\ Grown /\ Rooted' /\ KeysHeldOnce' /\ (Acyclic \/ treeRaced)'
         /\ \A a \in Known : accounts'[a] = accounts[a]
         /\ \A k \in SystemKeys : k # row.key => Holders(k)' = Holders(k)
<1>1. n \in Ids \ Known
  BY DEF Free
<1>2. row # None
  OBVIOUS
<1>3. accounts' \in [Ids -> Account \cup {None}]
  BY <1>1, <1>2 DEF IInv, TypeOK
<1>4. /\ accounts'[n] = row
      /\ \A a \in Known : accounts'[a] = accounts[a]
      /\ Known' = Known \cup {n}
  BY <1>1, <1>2 DEF IInv, TypeOK, Known
<1>5. Grown
  BY <1>4 DEF Grown, Known
<1>6. Rooted'
  <2> SUFFICES ASSUME NEW a \in Known', Parent(a)' # None
               PROVE  Parent(a)' \in Known' /\ accounts'[Parent(a)'].type = accounts'[a].type
    BY DEF Rooted
  <2>1. CASE a = n
    BY <2>1, <1>4 DEF Parent
  <2>2. CASE a # n
    BY <2>2, <1>4 DEF Parent, IInv, Rooted
  <2> QED
    BY <2>1, <2>2
<1>7. KeysHeldOnce'
  BY <1>4 DEF KeysHeldOnce, IInv, Holders
<1>8. ASSUME Acyclic PROVE Acyclic'
  <2> SUFFICES ASSUME NEW S \in SUBSET Known', S # {} PROVE \E a \in S : Parent(a)' \notin S
    BY DEF Acyclic
  <2>1. CASE S = {n}
    BY <2>1, <1>1, <1>4 DEF Parent, Known
  <2>2. CASE S # {n}
    <3>1. S \ {n} \in SUBSET Known /\ S \ {n} # {}
      BY <2>2, <1>4
    <3>2. PICK a \in S \ {n} : Parent(a) \notin S \ {n}
      BY <3>1, <1>8 DEF Acyclic
    <3>3. Parent(a) = None \/ Parent(a) \in Known
      BY <3>1, <3>2 DEF IInv, Rooted
    <3>4. Parent(a)' = Parent(a) /\ Parent(a) \notin S
      BY <3>1, <3>2, <3>3, <1>1, <1>4 DEF Parent, Known
    <3> QED
      BY <3>2, <3>4
  <2> QED
    BY <2>1, <2>2
<1>9. \A k \in SystemKeys : k # row.key => Holders(k)' = Holders(k)
  BY <1>4 DEF Holders, Known
<1> QED
  BY <1>3, <1>4, <1>5, <1>6, <1>7, <1>8, <1>9 DEF IInv

-----------------------------------------------------------------------------
(* What a commit leaves of the requests.                                   *)

LEMMA AfterCommit ==
  ASSUME NEW p, IInv, NEW changed \in SUBSET (Ids \cup SystemKeys \cup {"tree"}),
         Committed(p, changed)
  PROVE  /\ request' \in [Requests -> Request]
         /\ \A q \in Requests \ {p} :
               /\ SameFields(q)
               /\ InFlight(request[q]) => changed \subseteq request'[q].missed
         /\ p \in Requests => Knows(p)' /\ Locked(p)' = {}
<1>1. request \in [Requests -> Request]
  BY DEF IInv, TypeOK
<1>2. ASSUME NEW q \in Requests PROVE request'[q] \in Request
  <2>1. request[q] \in Request
    BY <1>1
  <2>2. [request[q] EXCEPT !.pc = "done"] \in Request
    BY <2>1 DEF Request
  <2>3. [request[q] EXCEPT !.missed = @ \cup changed] \in Request
    BY <2>1 DEF Request
  <2> QED
    BY <2>1, <2>2, <2>3 DEF Committed
<1>3. ASSUME NEW q \in Requests \ {p}
      PROVE  SameFields(q) /\ (InFlight(request[q]) => changed \subseteq request'[q].missed)
  <2>1. request[q] \in Request
    BY <1>1
  <2> QED
    BY <2>1 DEF Committed, SameFields, Request
<1>4. ASSUME p \in Requests PROVE request'[p].pc = "done"
  <2>1. request[p] \in Request
    BY <1>1, <1>4
  <2> QED
    BY <2>1, <1>4 DEF Committed, Request
<1> QED
  BY <1>1, <1>2, <1>3, <1>4 DEF Committed, Knows, Locked

LEMMA SeedStep ==
  ASSUME IInv, Seed
  PROVE  IInv'
<1>1. PICK i \in TemplateAccounts :
        LET starter == Starter[i]
        IN  /\ ~CodeTaken(starter.code)
            /\ starter.key # None => Holders(starter.key) = {}
            /\ Insert(starter.type, None, starter.code, starter.key)
            /\ Committed(None, {starter.key} \ {None})
            /\ seeded' = i
  BY DEF Seed
<1> DEFINE starter == Starter[i]
<1>2. /\ Free # {} /\ treeRaced' = treeRaced /\ chartLock' = chartLock
      /\ i \in 1 .. Len(Starter)
  BY DEF Seed, TemplateAccounts
<1>3. starter \in StarterAccount
  BY <1>2
<1>4. /\ starter.type \in AccountTypes /\ starter.code \in Codes
      /\ starter.key \in SystemKeys \cup {None}
      /\ starter.key # None => starter.type = SystemType(starter.key)
  BY <1>2, <1>3 DEF StarterAccount
<1> HIDE DEF starter
<1>5. /\ starter.key # None => Holders(starter.key) = {}
      /\ Insert(starter.type, None, starter.code, starter.key)
      /\ Committed(None, {starter.key} \ {None})
  BY <1>1 DEF starter
<1>6. /\ accounts' \in [Ids -> Account \cup {None}]
      /\ Grown /\ Rooted' /\ KeysHeldOnce' /\ (Acyclic \/ treeRaced)'
      /\ \A a \in Known : accounts'[a] = accounts[a]
      /\ \A k \in SystemKeys : k # starter.key => Holders(k)' = Holders(k)
  <2> DEFINE row == [type |-> starter.type, parent |-> None, code |-> starter.code,
                     key |-> starter.key, active |-> TRUE]
  <2>1. row \in Account /\ NewId \in Free
    BY <1>2, <1>4, NewIdFree DEF Account
  <2>2. accounts' = [accounts EXCEPT ![NewId] = row]
    BY <1>5 DEF Insert
  <2>3. /\ row.parent # None => row.parent \in Known /\ accounts[row.parent].type = row.type
        /\ row.key # None => row.type = SystemType(row.key) /\ Holders(row.key) = {}
        /\ row.key = starter.key
    BY <1>4, <1>5
  <2> HIDE DEF row
  <2> QED
    BY <1>2, <1>4, <1>5, <2>1, <2>2, <2>3, LeafAdded
<1>7. /\ request' \in [Requests -> Request]
      /\ \A q \in Requests \ {None} :
            /\ SameFields(q)
            /\ InFlight(request[q]) => {starter.key} \ {None} \subseteq request'[q].missed
  <2>1. {starter.key} \ {None} \in SUBSET (Ids \cup SystemKeys \cup {"tree"})
    BY <1>4
  <2> QED
    BY <2>1, <1>5, AfterCommit
<1>8. TypeOK'
  <2>1. seeded' \in 0 .. Len(Starter)
    BY <1>1, <1>2
  <2> QED
    BY <2>1, <1>2, <1>6, <1>7 DEF TypeOK, IInv
<1>9. ASSUME NEW q \in Requests \ {None} PROVE Left(q)
  BY <1>2, <1>6, <1>7 DEF Left
<1> QED
  BY <1>6, <1>8, <1>9, Assemble

LEMMA CreateAccountStep ==
  ASSUME IInv, NEW r \in Requests, NEW new \in Creations, NEW parent \in Known \cup {None},
         CreateAccount(r, new, parent)
  PROVE  IInv'
<1>1. new.type \in AccountTypes /\ new.code \in Codes
  BY DEF NewAccount
<1>2. /\ accounts' \in [Ids -> Account \cup {None}]
      /\ Grown /\ Rooted' /\ KeysHeldOnce' /\ (Acyclic \/ treeRaced)'
      /\ \A a \in Known : accounts'[a] = accounts[a]
      /\ \A k \in SystemKeys : Holders(k)' = Holders(k)
  <2>1. /\ Free # {} /\ Insert(new.type, parent, new.code, None) /\ treeRaced' = treeRaced
        /\ parent # None => accounts[parent].type = new.type
    BY DEF CreateAccount
  <2> DEFINE row == [type |-> new.type, parent |-> parent, code |-> new.code,
                     key |-> None, active |-> TRUE]
  <2>2. parent \in Ids \cup {None} /\ NewId \in Free
    BY <2>1, NewIdFree DEF Known
  <2>3. row \in Account
    BY <1>1, <2>2 DEF Account
  <2>4. accounts' = [accounts EXCEPT ![NewId] = row]
    BY <2>1 DEF Insert
  <2>5. /\ row.parent # None => row.parent \in Known /\ accounts[row.parent].type = row.type
        /\ row.key # None => row.type = SystemType(row.key) /\ Holders(row.key) = {}
        /\ row.key = None
    BY <2>1
  <2> HIDE DEF row
  <2> QED
    BY <2>1, <2>2, <2>3, <2>4, <2>5, LeafAdded
<1>3. request' = [request EXCEPT ![r].pc = "done"] /\ request[r] \in Request
  BY DEF CreateAccount, Goto, IInv, TypeOK
<1>4. [request[r] EXCEPT !.pc = "done"] \in Request
  BY <1>3 DEF Request
<1>5. /\ request' \in [Requests -> Request] /\ request'[r].pc = "done"
      /\ \A q \in Requests \ {r} : request'[q] = request[q]
  BY <1>3, <1>4, ZenonT(30) DEF IInv, TypeOK, Request
<1>6. TypeOK'
  BY <1>2, <1>5 DEF TypeOK, IInv, CreateAccount
<1>7. ASSUME NEW q \in Requests \ {r} PROVE Left(q)
  BY <1>2, <1>5 DEF Left, SameFields, CreateAccount
<1>8. Knows(r)' /\ Locked(r)' = {}
  BY <1>5 DEF Knows, Locked
<1> QED
  BY <1>2, <1>6, <1>7, <1>8, Assemble

LEMMA SetActiveStep ==
  ASSUME IInv, NEW r \in Requests, NEW a \in Known, NEW active \in BOOLEAN,
         SetActive(r, a, active)
  PROVE  IInv'
<1>1. accounts[a] \in Account /\ a \in Ids
  BY DEF IInv, TypeOK, Known
<1> DEFINE row == [accounts[a] EXCEPT !.active = active]
<1>2. row \in Account
  BY <1>1 DEF Account
<1>3. row.type = accounts[a].type /\ row.parent = accounts[a].parent /\ row.key = accounts[a].key
  BY <1>1 DEF Account
<1>4. accounts' = [accounts EXCEPT ![a] = row]
  BY DEF SetActive
<1> HIDE DEF row
<1>5. /\ accounts' \in [Ids -> Account \cup {None}]
      /\ Known' = Known
      /\ \A b \in Known : /\ accounts'[b].type = accounts[b].type
                          /\ accounts'[b].parent = accounts[b].parent
                          /\ accounts'[b].key = accounts[b].key
  BY <1>1, <1>2, <1>3, <1>4 DEF IInv, TypeOK, Known
<1>6. Grown /\ Rooted' /\ KeysHeldOnce' /\ (Acyclic \/ treeRaced)'
  BY <1>5 DEF IInv, Grown, Known, Rooted, KeysHeldOnce, Acyclic, Parent, SetActive
<1>7. \A k \in SystemKeys : Holders(k)' = Holders(k)
  BY <1>5 DEF Holders
<1>8. /\ request' \in [Requests -> Request]
      /\ \A q \in Requests \ {r} : SameFields(q)
      /\ Knows(r)' /\ Locked(r)' = {}
  BY <1>1, AfterCommit DEF SetActive
<1>9. TypeOK'
  BY <1>5, <1>8 DEF TypeOK, IInv, SetActive
<1>10. ASSUME NEW q \in Requests \ {r} PROVE Left(q)
  BY <1>5, <1>7, <1>8 DEF Left, SetActive
<1> QED
  BY <1>6, <1>8, <1>9, <1>10, Assemble

-----------------------------------------------------------------------------
(* The other steps that leave the chart alone.                             *)

(* A request that is past its step knows nothing and holds nothing. *)
LEMMA EndStep ==
  ASSUME IInv, NEW r \in Requests, NEW pc \in {"looping", "done", "code_taken", "key_taken", "deadlock"},
         Goto(r, pc), pc = "key_taken" => request[r].key \in request[r].missed,
         UNCHANGED <<accounts, seeded, treeRaced>>,
         chartLock' = chartLock \/ Release(r)
  PROVE  IInv'
<1> DEFINE row == [request[r] EXCEPT !.pc = pc]
<1>1. request[r] \in Request
  BY DEF IInv, TypeOK
<1>2. /\ row \in Request /\ row.pc = pc /\ row.key = request[r].key
      /\ row.missed = request[r].missed
  BY <1>1 DEF Request
<1>3. request' = [request EXCEPT ![r] = row]
  BY DEF Goto
<1> HIDE DEF row
<1>4. request'[r] = row
  BY <1>1, <1>3 DEF IInv, TypeOK
<1>5. Knows(r)' /\ Locked(r)' = {}
  BY <1>2, <1>4 DEF Knows, Locked
<1>6. /\ chartLock' \in Requests \cup {None}
      /\ \A q \in Requests \ {r} : chartLock = q => chartLock' = q
  BY DEF Release, IInv, TypeOK
<1> QED
  BY <1>2, <1>3, <1>5, <1>6, QuietStep

LEMMA CheckUpdateStep ==
  ASSUME IInv, NEW r \in Requests, NEW a \in Known, NEW patch \in Patches, CheckUpdate(r, a, patch)
  PROVE  IInv'
<1> DEFINE row == [Idle EXCEPT !.pc = "checked", !.account = a, !.parent = patch.parent,
                               !.key = patch.key, !.code = patch.code]
<1>1. /\ patch.parent \in Ids \cup {None, Keep} /\ patch.key \in AssignableKeys \cup {Keep}
      /\ patch.code \in Codes \cup {Keep} /\ a \in Ids
  BY DEF Patch, Known
<1>2. /\ row.pc = "checked" /\ row.account = a /\ row.parent = patch.parent
      /\ row.key = patch.key /\ row.freed = {} /\ row.missed = {}
  BY DEF Idle
<1>3. row \in Request
  BY <1>1 DEF Idle, Request, AssignableKeys
<1>4. request' = [request EXCEPT ![r] = row]
  BY DEF CheckUpdate
<1> HIDE DEF row
<1>5. request'[r] = row
  BY <1>4 DEF IInv, TypeOK
<1>6. Known' = Known /\ UNCHANGED <<accounts, chartLock, seeded, treeRaced>>
  BY DEF Known, CheckUpdate
<1>7. KnowsOfTree(r)'
  <2>1. patch.parent \in Ids => /\ patch.parent \in Known
                                /\ accounts[patch.parent].type = accounts[a].type
                                /\ a \notin Ancestors(patch.parent)
    BY DEF CheckUpdate, ParentAllowed
  <2>2. Ancestors(request[r].parent)' = Ancestors(patch.parent)
    BY <1>2, <1>5, <1>6 DEF Ancestors, Parent
  <2> QED
    BY <2>1, <2>2, <1>2, <1>5, <1>6 DEF KnowsOfTree
<1>8. KnowsOfKey(r)'
  BY <1>2, <1>5, <1>6 DEF KnowsOfKey, CheckUpdate, KeyAllowed
<1>9. Knows(r)' /\ Locked(r)' = {}
  BY <1>2, <1>5, <1>7, <1>8 DEF Knows, Locked
<1> QED
  BY <1>3, <1>4, <1>6, <1>9, QuietStep DEF IInv, TypeOK

LEMMA FindSystemAccountStep ==
  ASSUME IInv, NEW r \in Requests, NEW key \in SystemKeys, FindSystemAccount(r, key)
  PROVE  IInv'
<1> DEFINE row == [Idle EXCEPT !.pc = "lookup", !.key = key]
<1>1. row \in Request /\ row.pc = "lookup" /\ row.key = key
  BY DEF Idle, Request
<1>2. request' = [request EXCEPT ![r] = row] /\ key \in SystemKeys \ AssignableKeys
      /\ UNCHANGED <<accounts, chartLock, seeded, treeRaced>>
  BY DEF FindSystemAccount
<1> HIDE DEF row
<1>3. request'[r] = row
  BY <1>2 DEF IInv, TypeOK
<1>4. Knows(r)' /\ Locked(r)' = {}
  BY <1>1, <1>2, <1>3 DEF Knows, Locked
<1> QED
  BY <1>1, <1>2, <1>4, QuietStep DEF IInv, TypeOK

LEMMA LockForCreateStep ==
  ASSUME IInv, NEW r \in Requests, LockForCreate(r)
  PROVE  IInv'
<1>1. /\ request[r] \in Request /\ request[r].pc = "lookup" /\ chartLock = None
      /\ request[r].key \in SystemKeys \ AssignableKeys
      /\ UNCHANGED <<accounts, seeded, treeRaced>>
  BY DEF LockForCreate, At, IInv, TypeOK, RequestsKnow, Knows
<1>2. CASE Holders(request[r].key) # {} \/ FreeCode(request[r].key) = {}
  <2>1. Goto(r, "done") /\ UNCHANGED chartLock
    BY <1>2 DEF LockForCreate
  <2> QED
    BY <2>1, <1>1, EndStep
<1>3. CASE ~(Holders(request[r].key) # {} \/ FreeCode(request[r].key) = {})
  <2>1. PICK code \in FreeCode(request[r].key) :
          request' = [request EXCEPT ![r].pc = "insert", ![r].code = code]
    BY <1>3 DEF LockForCreate
  <2>2. chartLock' = r
    BY <1>3 DEF LockForCreate
  <2>3. code \in Codes
    <3>1. FreeCodes[request[r].key] \in Seq(Codes)
      BY <1>1
    <3> QED
      BY <3>1 DEF FreeCode
  <2> DEFINE row == [request[r] EXCEPT !.pc = "insert", !.code = code]
  <2>4. row \in Request /\ row.pc = "insert" /\ row.code = code /\ row.key = request[r].key
    BY <1>1, <2>3 DEF Request
  <2>5. request' = [request EXCEPT ![r] = row]
    BY <2>1
  <2> HIDE DEF row
  <2>6. request'[r] = row
    BY <2>5 DEF IInv, TypeOK
  <2>7. Holders(request[r].key)' = Holders(request[r].key)
    BY <1>1, <2>4, <2>6 DEF Holders, Known
  <2>8. Knows(r)' /\ Locked(r)' = {}
    BY <1>1, <1>3, <2>2, <2>3, <2>4, <2>6, <2>7 DEF Knows, Locked
  <2> QED
    BY <1>1, <2>2, <2>4, <2>5, <2>8, QuietStep
<1> QED
  BY <1>2, <1>3

LEMMA LoopStep ==
  ASSUME IInv, NEW r \in Requests, NEW a, NEW parent, Loop(r, a, parent)
  PROVE  IInv'
  BY EndStep DEF Loop

LEMMA AbortDeadlockStep ==
  ASSUME IInv, NEW r \in Requests, AbortDeadlock(r)
  PROVE  IInv'
  BY EndStep DEF AbortDeadlock

-----------------------------------------------------------------------------
(* Taking the locks.                                                       *)

MovesOn(r) ==
    /\ request'[r].account = request[r].account
    /\ request'[r].parent = request[r].parent
    /\ request'[r].key = request[r].key
    /\ request'[r].missed = request[r].missed

(* A request that moves on keeps what it knows of the chart. *)
LEMMA StillKnows ==
  ASSUME IInv, NEW r \in Requests, UNCHANGED accounts, MovesOn(r),
         KnowsOfTree(r), KnowsOfKey(r)
  PROVE  KnowsOfTree(r)' /\ KnowsOfKey(r)'
<1>1. Known' = Known
  BY DEF Known
<1>2. Ancestors(request[r].parent)' = Ancestors(request[r].parent)
  BY <1>1 DEF Ancestors, Parent, MovesOn
<1> QED
  BY <1>1, <1>2 DEF KnowsOfTree, KnowsOfKey, MovesOn

LEMMA LockRowStep ==
  ASSUME IInv, NEW r \in Requests, LockRow(r)
  PROVE  IInv'
<1> DEFINE pc == IF request[r].key = Keep THEN "ready" ELSE "row"
           row == [request[r] EXCEPT !.pc = pc]
<1>1. /\ request[r] \in Request /\ request[r].pc = "checked" /\ request[r].freed = {}
      /\ KnowsOfTree(r) /\ KnowsOfKey(r)
      /\ UNCHANGED <<accounts, chartLock, seeded, treeRaced>>
  BY DEF LockRow, At, IInv, TypeOK, RequestsKnow, Knows
<1>2. /\ row \in Request /\ row.pc = pc /\ row.account = request[r].account
      /\ row.parent = request[r].parent /\ row.key = request[r].key
      /\ row.freed = {} /\ row.missed = request[r].missed
  BY <1>1 DEF Request
<1>3. request' = [request EXCEPT ![r] = row]
  BY DEF LockRow, Goto
<1>4. (pc = "ready" /\ row.key = Keep) \/ (pc = "row" /\ row.key # Keep)
  BY <1>2
<1> HIDE DEF pc, row
<1>5. request'[r] = row
  BY <1>3 DEF IInv, TypeOK
<1>6. KnowsOfTree(r)' /\ KnowsOfKey(r)'
  BY <1>1, <1>2, <1>5, StillKnows DEF MovesOn
<1>7. Knows(r)'
  BY <1>2, <1>4, <1>5, <1>6 DEF Knows
<1>8. \A q \in Requests \ {r} : Locked(r)' \cap Locked(q) = {}
  <2>1. Locked(r)' \subseteq {request[r].account}
    BY <1>2, <1>5 DEF Locked
  <2>2. \A q \in Requests \ {r} : request[r].account \notin Locked(q)
    BY DEF LockRow, LockedByOther
  <2> QED
    BY <2>1, <2>2
<1> QED
  BY <1>1, <1>2, <1>3, <1>7, <1>8, QuietStep DEF IInv, TypeOK

LEMMA LockChartStep ==
  ASSUME IInv, NEW r \in Requests, LockChart(r)
  PROVE  IInv'
<1> DEFINE row == [request[r] EXCEPT !.pc = "chart"]
<1>1. /\ request[r] \in Request /\ request[r].pc = "row" /\ request[r].freed = {}
      /\ request[r].key # Keep /\ KnowsOfTree(r) /\ KnowsOfKey(r)
      /\ chartLock = None /\ chartLock' = r /\ UNCHANGED <<accounts, seeded, treeRaced>>
  BY DEF LockChart, At, IInv, TypeOK, RequestsKnow, Knows
<1>2. /\ row \in Request /\ row.pc = "chart" /\ row.account = request[r].account
      /\ row.parent = request[r].parent /\ row.key = request[r].key
      /\ row.freed = {} /\ row.missed = request[r].missed
  BY <1>1 DEF Request
<1>3. request' = [request EXCEPT ![r] = row]
  BY DEF LockChart, Goto
<1> HIDE DEF row
<1>4. request'[r] = row
  BY <1>3 DEF IInv, TypeOK
<1>5. KnowsOfTree(r)' /\ KnowsOfKey(r)'
  BY <1>1, <1>2, <1>4, StillKnows DEF MovesOn
<1>6. Knows(r)'
  BY <1>1, <1>2, <1>4, <1>5 DEF Knows
<1>7. \A q \in Requests \ {r} : Locked(r)' \cap Locked(q) = {}
  <2>1. Locked(r)' = Locked(r)
    BY <1>1, <1>2, <1>4 DEF Locked
  <2> QED
    BY <2>1 DEF IInv, RowsLockedOnce
<1> QED
  BY <1>1, <1>2, <1>3, <1>6, <1>7, QuietStep

LEMMA FreeKeyStep ==
  ASSUME IInv, NEW r \in Requests, FreeKey(r)
  PROVE  IInv'
<1> DEFINE others == Holders(request[r].key) \ {request[r].account}
           row == [request[r] EXCEPT !.pc = "ready", !.freed = others]
<1>1. /\ request[r] \in Request /\ request[r].pc = "chart" /\ request[r].freed = {}
      /\ request[r].key # Keep /\ KnowsOfTree(r) /\ KnowsOfKey(r) /\ chartLock = r
      /\ UNCHANGED <<accounts, chartLock, seeded, treeRaced>>
      /\ \A a \in others : ~LockedByOther(a, r)
  BY DEF FreeKey, At, IInv, TypeOK, RequestsKnow, Knows
<1>2. /\ others \subseteq Ids /\ others \subseteq Known
      /\ \A a \in others : accounts[a].key = request[r].key /\ a # request[r].account
      /\ Holders(request[r].key) \subseteq {request[r].account} \cup others
  BY DEF Holders, Known
<1>3. request' = [request EXCEPT ![r] = row]
  BY DEF FreeKey
<1> HIDE DEF others
<1>4. /\ row \in Request /\ row.pc = "ready" /\ row.account = request[r].account
      /\ row.parent = request[r].parent /\ row.key = request[r].key
      /\ row.freed = others /\ row.missed = request[r].missed
  BY <1>1, <1>2 DEF Request
<1> HIDE DEF row
<1>5. request'[r] = row
  BY <1>3 DEF IInv, TypeOK
<1>6. KnowsOfTree(r)' /\ KnowsOfKey(r)'
  BY <1>1, <1>4, <1>5, StillKnows DEF MovesOn
<1>7. Known' = Known /\ Holders(request[r].key)' = Holders(request[r].key)
  BY <1>1, <1>4, <1>5 DEF Holders, Known
<1>8. Knows(r)'
  BY <1>1, <1>2, <1>4, <1>5, <1>6, <1>7 DEF Knows
<1>9. ASSUME NEW q \in Requests \ {r} PROVE Locked(r)' \cap Locked(q) = {}
  <2>1. Locked(r)' = {request[r].account} \cup others /\ request[r].account \in Locked(r)
    BY <1>1, <1>4, <1>5 DEF Locked
  <2>2. request[r].account \notin Locked(q)
    BY <2>1 DEF IInv, RowsLockedOnce
  <2> QED
    BY <2>1, <2>2, <1>1 DEF LockedByOther
<1> QED
  BY <1>1, <1>3, <1>4, <1>8, <1>9, QuietStep DEF IInv, TypeOK

-----------------------------------------------------------------------------
(* The account the server makes.                                           *)

LEMMA InsertSystemAccountStep ==
  ASSUME IInv, NEW r \in Requests, InsertSystemAccount(r)
  PROVE  IInv'
<1> DEFINE key == request[r].key
           code == request[r].code
<1>1. /\ request[r] \in Request /\ request[r].pc = "insert" /\ chartLock = r
      /\ key \in SystemKeys \ AssignableKeys /\ code \in Codes
      /\ Holders(key) = {} \/ key \in request[r].missed
      /\ Free # {} /\ Release(r) /\ UNCHANGED <<seeded, treeRaced>>
  BY DEF InsertSystemAccount, At, IInv, TypeOK, RequestsKnow, Knows
<1>2. CASE CodeTaken(code) \/ Holders(key) # {}
  <2> DEFINE pc == IF CodeTaken(code) THEN "code_taken" ELSE "key_taken"
  <2>1. Goto(r, pc) /\ UNCHANGED accounts
    BY <1>2 DEF InsertSystemAccount
  <2>2. pc \in {"looping", "done", "code_taken", "key_taken", "deadlock"}
        /\ (pc = "key_taken" => key \in request[r].missed)
    BY <1>1, <1>2
  <2> HIDE DEF pc
  <2> QED
    BY <2>1, <2>2, <1>1, EndStep
<1>3. CASE ~(CodeTaken(code) \/ Holders(key) # {})
  <2> DEFINE new == [type |-> SystemType(key), parent |-> None, code |-> code,
                     key |-> key, active |-> TRUE]
             row == [request[r] EXCEPT !.pc = "done"]
  <2>1. accounts' = [accounts EXCEPT ![NewId] = new] /\ request' = [request EXCEPT ![r] = row]
    BY <1>3 DEF InsertSystemAccount, Insert, Goto
  <2>2. SystemType(key) \in AccountTypes
    BY DEF SystemType, AccountTypes
  <2>3. new \in Account /\ new.parent = None /\ new.key = key /\ new.type = SystemType(key)
    BY <1>1, <2>2 DEF Account
  <2>4. row \in Request /\ row.pc = "done"
    BY <1>1 DEF Request
  <2> HIDE DEF new, row
  <2>5. /\ NewId \in Free
        /\ new.parent # None => new.parent \in Known /\ accounts[new.parent].type = new.type
        /\ new.key # None => new.type = SystemType(new.key) /\ Holders(new.key) = {}
    BY <1>1, <1>3, <2>3, NewIdFree
  <2>6. /\ accounts' \in [Ids -> Account \cup {None}]
        /\ Grown /\ Rooted' /\ KeysHeldOnce' /\ (Acyclic \/ treeRaced)'
        /\ \A a \in Known : accounts'[a] = accounts[a]
    BY <1>1, <2>1, <2>3, <2>5, LeafAdded
  <2>7. request'[r] = row /\ \A q \in Requests \ {r} : request'[q] = request[q]
    BY <2>1 DEF IInv, TypeOK
  <2>8. chartLock' = None
    BY <1>1 DEF Release
  <2>9. TypeOK'
    BY <1>1, <2>1, <2>4, <2>6, <2>8 DEF TypeOK, IInv
  <2>10. ASSUME NEW q \in Requests \ {r} PROVE Left(q)
    BY <1>1, <2>6, <2>7 DEF Left, SameFields
  <2>11. Knows(r)' /\ Locked(r)' = {}
    BY <2>4, <2>7 DEF Knows, Locked
  <2> QED
    BY <2>6, <2>9, <2>10, <2>11, Assemble
<1> QED
  BY <1>2, <1>3

-----------------------------------------------------------------------------
(* PATCH writes.                                                           *)

(* The rows it writes. *)
LEMMA UpdatedRows ==
  ASSUME IInv, NEW r \in Requests, At(r, "ready"), NEW a \in Known
  PROVE  LET q == request[r]
         IN  /\ Updated(a, q) \in Account
             /\ Updated(a, q).type = accounts[a].type
             /\ Updated(a, q).parent =
                   IF a = q.account /\ q.parent # Keep THEN q.parent ELSE accounts[a].parent
             /\ Updated(a, q).key =
                   IF a = q.account THEN (IF q.key = Keep THEN accounts[a].key ELSE q.key)
                   ELSE IF a \in q.freed THEN None ELSE accounts[a].key
<1> DEFINE q == request[r]
<1>1. accounts[a] \in Account
  BY DEF IInv, TypeOK, Known
<1>2. /\ q.parent \in Ids \cup {None, Keep} /\ q.key \in SystemKeys \cup {Keep}
      /\ q.code \in Codes \cup {Keep}
  BY DEF IInv, TypeOK, Request
<1> HIDE DEF q
<1>3. CASE a = q.account
  <2> DEFINE code == IF q.code = Keep THEN accounts[a].code ELSE q.code
             key == IF q.key = Keep THEN accounts[a].key ELSE q.key
             parent == IF q.parent = Keep THEN accounts[a].parent ELSE q.parent
  <2>1. Updated(a, q) = [accounts[a] EXCEPT !.code = code, !.key = key, !.parent = parent]
    BY <1>3 DEF Updated
  <2>2. code \in Codes /\ key \in SystemKeys \cup {None} /\ parent \in Ids \cup {None}
    BY <1>1, <1>2 DEF Account
  <2> HIDE DEF code, key, parent
  <2>3. Updated(a, q) \in Account /\ Updated(a, q).type = accounts[a].type
        /\ Updated(a, q).parent = parent /\ Updated(a, q).key = key
    BY <2>1, <2>2, <1>1 DEF Account
  <2> QED
    BY <2>3, <1>3 DEF q, parent, key
<1>4. CASE a # q.account /\ a \in q.freed
  <2>1. Updated(a, q) = [accounts[a] EXCEPT !.key = None]
    BY <1>4 DEF Updated
  <2>2. Updated(a, q) \in Account /\ Updated(a, q).type = accounts[a].type
        /\ Updated(a, q).parent = accounts[a].parent /\ Updated(a, q).key = None
    BY <2>1, <1>1 DEF Account
  <2> QED
    BY <2>2, <1>4 DEF q
<1>5. CASE a # q.account /\ a \notin q.freed
  <2>1. Updated(a, q) = accounts[a]
    BY <1>5 DEF Updated
  <2> QED
    BY <2>1, <1>1, <1>5 DEF q
<1> QED
  BY <1>3, <1>4, <1>5

LEMMA CommitUpdateStep ==
  ASSUME IInv, NEW r \in Requests, CommitUpdate(r)
  PROVE  IInv'
<1> DEFINE q == request[r]
<1>1. /\ q \in Request /\ At(r, "ready") /\ KnowsOfTree(r) /\ KnowsOfKey(r) /\ seeded' = seeded
      /\ Release(r)
  BY DEF CommitUpdate, At, IInv, TypeOK, RequestsKnow, Knows
<1>2. /\ q.key = Keep => q.freed = {}
      /\ q.key # Keep => /\ chartLock = r
                         /\ \A a \in q.freed : a \in Known /\ accounts[a].key = q.key /\ a # q.account
                         /\ Holders(q.key) \subseteq {q.account} \cup q.freed \/ q.key \in q.missed
  BY <1>1 DEF At, IInv, RequestsKnow, Knows
<1>3. CASE Outcome(q) # "ok"
  <2>1. Outcome(q) \in {"code_taken", "key_taken"} /\ (Outcome(q) = "key_taken" => q.key \in q.missed)
    BY <1>2, <1>3 DEF Outcome
  <2>2. Goto(r, Outcome(q)) /\ UNCHANGED <<accounts, treeRaced>>
    BY <1>3 DEF CommitUpdate, IInv, TypeOK
  <2> QED
    BY <2>1, <2>2, <1>1, EndStep
<1>4. CASE Outcome(q) = "ok"
  <2>1. /\ accounts' = [a \in Ids |-> Updated(a, q)]
        /\ treeRaced' = (treeRaced \/ (q.parent \in Ids /\ "tree" \in q.missed))
        /\ Committed(r, Changed(q))
    BY <1>4 DEF CommitUpdate
  <2>2. /\ q.parent \in Ids \cup {None, Keep} /\ q.key \in SystemKeys \cup {Keep}
        /\ q.freed \subseteq Known /\ q.account \in Known
        /\ q.key # Keep => Holders(q.key) \subseteq {q.account} \cup q.freed
    BY <1>1, <1>2, <1>4 DEF Request, Outcome, KnowsOfTree
  <2>3. ASSUME NEW a \in Known
        PROVE  /\ accounts'[a] \in Account
               /\ accounts'[a].type = accounts[a].type
               /\ accounts'[a].parent =
                     IF a = q.account /\ q.parent # Keep THEN q.parent ELSE accounts[a].parent
               /\ accounts'[a].key =
                     IF a = q.account THEN (IF q.key = Keep THEN accounts[a].key ELSE q.key)
                     ELSE IF a \in q.freed THEN None ELSE accounts[a].key
    <3>1. accounts'[a] = Updated(a, q)
      BY <2>1 DEF Known
    <3> QED
      BY <3>1, <1>1, UpdatedRows
  <2>4. \A a \in Ids \ Known : accounts'[a] = None
    BY <2>1, <2>2 DEF Updated, Known
  <2> HIDE DEF q
  <2>5. /\ accounts' \in [Ids -> Account \cup {None}]
        /\ Known' = Known
    <3>1. \A a \in Ids : accounts'[a] \in Account \cup {None}
      BY <2>3, <2>4
    <3> QED
      BY <2>1, <2>3, <2>4, <3>1 DEF Known
  <2>6. Grown
    BY <2>3 DEF Grown
  <2>7. Rooted'
    <3>1. q.parent \in Ids => q.parent \in Known /\ accounts[q.parent].type = accounts[q.account].type
      BY <1>1 DEF KnowsOfTree, q
    <3> SUFFICES ASSUME NEW a \in Known, accounts'[a].parent # None
                 PROVE  /\ accounts'[a].parent \in Known
                        /\ accounts'[accounts'[a].parent].type = accounts'[a].type
      BY <2>5 DEF Rooted, Parent
    <3> QED
      BY <2>2, <2>3, <3>1 DEF IInv, Rooted, Parent
  <2>8. KeysHeldOnce'
    <3>1. ASSUME q.key = Keep PROVE KeysHeldOnce'
      <4>1. q.freed = {}
        BY <1>2, <3>1 DEF q
      <4> QED
        BY <2>3, <2>5, <3>1, <4>1 DEF KeysHeldOnce, IInv
    <3>2. ASSUME q.key # Keep PROVE KeysHeldOnce'
      <4>1. accounts[q.account].type = SystemType(q.key)
        BY <1>1, <3>2 DEF KnowsOfKey, q
      <4>2. \A a \in Known : accounts'[a].key = q.key => a = q.account
        BY <2>2, <2>3, <3>2 DEF Holders
      <4>3. \A a \in Known : a # q.account /\ accounts'[a].key # None =>
                accounts'[a].key = accounts[a].key /\ accounts'[a].type = accounts[a].type
        BY <2>3
      <4>4. accounts'[q.account].key = q.key /\ accounts'[q.account].type = accounts[q.account].type
        BY <2>2, <2>3, <3>2
      <4>5. \A a, b \in Known :
                accounts'[a].key = accounts'[b].key /\ accounts'[a].key # None => a = b
        BY <4>2, <4>3, <4>4 DEF KeysHeldOnce, IInv
      <4>6. \A a \in Known : accounts'[a].key # None => accounts'[a].type = SystemType(accounts'[a].key)
        BY <4>1, <4>3, <4>4 DEF KeysHeldOnce, IInv
      <4> QED
        BY <2>5, <4>5, <4>6 DEF KeysHeldOnce
    <3> QED
      BY <3>1, <3>2
  <2>9. ASSUME ~treeRaced' PROVE Acyclic'
    <3>1. Acyclic /\ (q.parent \in Ids => "tree" \notin q.missed)
      BY <2>1, <2>9 DEF IInv
    <3> SUFFICES ASSUME NEW S \in SUBSET Known, S # {},
                        \A a \in S : accounts'[a].parent \in S
                 PROVE  FALSE
      BY <2>5 DEF Acyclic, Parent
    <3>2. CASE q.parent \notin Ids
      <4>1. \A a \in S : Parent(a) \in S
        BY <2>3, <3>2 DEF Parent, Known
      <4> QED
        BY <3>1, <4>1 DEF Acyclic
    <3>3. CASE q.parent \in Ids
      <4>1. q.parent \in Known /\ q.account \notin Ancestors(q.parent) /\ q.parent # Keep
        BY <1>1, <3>1, <3>3 DEF KnowsOfTree, q
      <4>2. PICK T \in SUBSET Known : /\ q.parent \in T /\ q.account \notin T
                                      /\ \A c \in T : Parent(c) \in Known => Parent(c) \in T
        BY <2>2, <4>1 DEF Ancestors
      <4>3. q.account \in S
        <5>1. ASSUME q.account \notin S PROVE \A a \in S : Parent(a) \in S
          BY <2>3, <5>1 DEF Parent
        <5> QED
          BY <5>1, <3>1 DEF Acyclic
      <4>4. q.parent \in S \cap T
        BY <2>2, <2>3, <4>1, <4>2, <4>3
      <4>5. \A a \in S \cap T : Parent(a) \in S \cap T
        BY <2>3, <4>2 DEF Parent
      <4>6. S \cap T \in SUBSET Known
        OBVIOUS
      <4> QED
        BY <3>1, <4>4, <4>5, <4>6 DEF Acyclic
    <3> QED
      BY <3>2, <3>3
  <2>10. /\ request' \in [Requests -> Request]
         /\ \A s \in Requests \ {r} :
               SameFields(s) /\ (InFlight(request[s]) => Changed(q) \subseteq request'[s].missed)
         /\ Knows(r)' /\ Locked(r)' = {}
    <3>1. Changed(q) \in SUBSET (Ids \cup SystemKeys \cup {"tree"})
      BY <2>2 DEF Changed, Known
    <3> QED
      BY <2>1, <3>1, AfterCommit
  <2>11. chartLock' \in Requests \cup {None} /\ (\A s \in Requests \ {r} : chartLock = s => chartLock' = s)
    BY <1>1 DEF Release, IInv, TypeOK
  <2>12. TypeOK'
    BY <1>1, <2>1, <2>5, <2>10, <2>11 DEF TypeOK, IInv
  <2>13. ASSUME NEW s \in Requests \ {r} PROVE Left(s)
    <3>1. ASSUME NEW a \in Known, accounts'[a].key # accounts[a].key
          PROVE  a \notin Locked(s) /\ a \in Changed(q)
      <4>1. q.key # Keep /\ a \in {q.account} \cup q.freed
        BY <1>2, <2>3, <3>1 DEF q
      <4>2. a \in Locked(r)
        BY <1>1, <4>1 DEF Locked, At, q
      <4> QED
        BY <4>1, <4>2 DEF Changed, IInv, RowsLockedOnce
    <3>2. "tree" \notin Changed(q) =>
            \A a \in Known : accounts'[a].parent = accounts[a].parent \/ accounts'[a].parent \notin Ids
      BY <2>3 DEF Changed
    <3>3. chartLock = s => \A k \in SystemKeys : Holders(k)' \subseteq Holders(k)
      <4>1. chartLock = s => q.key = Keep /\ q.freed = {}
        BY <1>2 DEF q
      <4> QED
        BY <4>1, <2>3, <2>5 DEF Holders
    <3> QED
      BY <2>10, <2>11, <3>1, <3>2, <3>3 DEF Left
  <2> QED
    BY <2>6, <2>7, <2>8, <2>9, <2>10, <2>12, <2>13, Assemble
<1> QED
  BY <1>3, <1>4

-----------------------------------------------------------------------------
THEOREM StepInv == IInv /\ [Next]_vars => IInv'
<1> SUFFICES ASSUME IInv, [Next]_vars PROVE IInv'
  OBVIOUS
<1>1. CASE UNCHANGED vars
  <2>1. Known' = Known /\ Grown /\ TypeOK'
    BY <1>1 DEF vars, Known, Grown, IInv, TypeOK
  <2>2. Rooted' /\ KeysHeldOnce' /\ (Acyclic \/ treeRaced)'
    BY <1>1, <2>1 DEF vars, IInv, Rooted, KeysHeldOnce, Acyclic, Parent
  <2>3. ASSUME NEW q \in Requests PROVE Left(q)
    BY <1>1, <2>1 DEF vars, Left, SameFields, Holders
  <2>4. PICK p : p \notin Requests
    OBVIOUS
  <2> QED
    BY <2>1, <2>2, <2>3, <2>4, Assemble
<1>2. CASE Seed
  BY <1>2, SeedStep
<1>3. ASSUME NEW r \in Requests, Begin(r) PROVE IInv'
  <2>1. CASE \E new \in Creations, parent \in Known \cup {None} : CreateAccount(r, new, parent)
    BY <2>1, CreateAccountStep
  <2>2. CASE \E a \in Known, patch \in Patches : CheckUpdate(r, a, patch)
    BY <2>2, CheckUpdateStep
  <2>3. CASE \E a \in Known, patch \in Patches : Loop(r, a, patch.parent)
    BY <2>3, LoopStep
  <2>4. CASE \E a \in Known : Deactivate(r, a) \/ Reactivate(r, a)
    BY <2>4, SetActiveStep DEF Deactivate, Reactivate
  <2>5. CASE \E k \in SystemKeys : FindSystemAccount(r, k)
    BY <2>5, FindSystemAccountStep
  <2> QED
    BY <1>3, <2>1, <2>2, <2>3, <2>4, <2>5 DEF Begin
<1>4. ASSUME NEW r \in Requests, Proceed(r) PROVE IInv'
  BY <1>4, LockRowStep, LockChartStep, FreeKeyStep, CommitUpdateStep, AbortDeadlockStep,
     LockForCreateStep, InsertSystemAccountStep DEF Proceed
<1> QED
  BY <1>1, <1>2, <1>3, <1>4 DEF Next

LEMMA Inductive == Spec => []IInv
<1> QED
  BY InitInv, StepInv, PTL DEF Spec

(* Every account, lock and request has its type. *)
THEOREM TypeCorrect == Spec => []TypeOK
<1>1. IInv => TypeOK
  BY DEF IInv
<1> QED
  BY <1>1, Inductive, PTL

(* No chart has a cycle unless two requests re-parented at once: one that  *)
(* missed no re-parenting puts its account under one that is not below it. *)
THEOREM CyclesNeedARace == Spec => []CyclesOnlyInARace
<1>1. IInv => CyclesOnlyInARace
  BY DEF IInv, CyclesOnlyInARace, Rooted
<1> QED
  BY <1>1, Inductive, PTL

(* No purpose has two accounts, and only the seeding of the chart makes a  *)
(* request fail on the index that says so.                                 *)
THEOREM KeysStayUnique == Spec => []KeysNeverCollide
<1>1. IInv => KeysNeverCollide
  BY DEF IInv, KeysNeverCollide, KeysHeldOnce, RequestsKnow, Knows, At
<1> QED
  BY <1>1, Inductive, PTL

(* A purpose that has an account keeps one, unless the account a request   *)
(* gives another purpose got this one after the request's check.           *)
THEOREM PurposesKeepAccounts == Spec => KeysStayHeld
<1> DEFINE Held == \A k \in SystemKeys : Holders(k) # {} =>
                      \/ Holders(k)' # {}
                      \/ \E r \in Requests : At(r, "ready") /\ request[r].account \in request[r].missed
<1>1. ASSUME IInv, [Next]_vars, NEW k \in SystemKeys, NEW h \in Holders(k), Holders(k)' = {}
      PROVE  \E r \in Requests : At(r, "ready") /\ request[r].account \in request[r].missed
  <2>1. h \in Known /\ accounts[h].key = k /\ h \in Ids
    BY DEF Holders, Known
  <2>2. ~(accounts'[h] # None /\ accounts'[h].key = k)
    BY <1>1, <2>1 DEF Holders, Known
  <2>3. accounts'[h] # accounts[h]
    BY <2>1, <2>2, SMTT(30) DEF Known
  <2>4. PICK r \in Requests :
          CommitUpdate(r) \/ \E a \in Known, active \in BOOLEAN : SetActive(r, a, active)
    <3>1. ASSUME NEW type, NEW parent, NEW code, NEW key, Free # {}, Insert(type, parent, code, key)
          PROVE  FALSE
      BY <2>1, <2>3, <3>1, NewIdFree DEF Insert, Free, IInv, TypeOK
    <3> QED
      BY <1>1, <2>3, <3>1 DEF vars, Next, Begin, Proceed, Seed, CreateAccount, CheckUpdate, Loop, LockRow,
           LockChart, FreeKey, AbortDeadlock, FindSystemAccount, LockForCreate, InsertSystemAccount,
           Deactivate, Reactivate
  <2>5. ASSUME NEW a \in Known, NEW active \in BOOLEAN, SetActive(r, a, active) PROVE FALSE
    <3>1. accounts[h] \in Account /\ accounts \in [Ids -> Account \cup {None}]
      BY <1>1, <2>1 DEF IInv, TypeOK, Known
    <3>2. [accounts[h] EXCEPT !.active = active] \in Account
          /\ [accounts[h] EXCEPT !.active = active].key = k
      BY <2>1, <3>1 DEF Account
    <3>3. accounts'[h] \in {accounts[h], [accounts[h] EXCEPT !.active = active]}
      BY <2>1, <2>5, <3>1 DEF SetActive
    <3> QED
      BY <2>1, <2>2, <3>1, <3>2, <3>3
  <2> DEFINE q == request[r]
  <2>6. CommitUpdate(r) /\ At(r, "ready") /\ Knows(r)
    BY <2>4, <2>5, <1>1 DEF CommitUpdate, IInv, RequestsKnow
  <2>7. Outcome(q) = "ok" /\ accounts' = [a \in Ids |-> Updated(a, q)]
    BY <2>3, <2>6 DEF CommitUpdate
  <2>8. /\ q.key = Keep => q.freed = {}
        /\ q.key # Keep => \A a \in q.freed : accounts[a].key = q.key
        /\ q.account \in Known /\ KnowsOfKey(r)
    BY <2>6 DEF At, Knows, KnowsOfTree
  <2>9. ASSUME q.key # Keep PROVE accounts'[q.account] # None /\ accounts'[q.account].key = q.key
    <3>1. accounts'[q.account] = Updated(q.account, q)
      BY <2>7, <2>8 DEF Known
    <3>2. Updated(q.account, q) \in Account /\ Updated(q.account, q).key = q.key
      BY <1>1, <2>6, <2>8, <2>9, UpdatedRows
    <3> QED
      BY <3>1, <3>2
  <2>10. k # q.key
    BY <1>1, <2>8, <2>9 DEF Holders, Known
  <2>11. Updated(h, q) \in Account
         /\ Updated(h, q).key = IF h = q.account THEN (IF q.key = Keep THEN accounts[h].key ELSE q.key)
                                 ELSE IF h \in q.freed THEN None ELSE accounts[h].key
    BY <1>1, <2>1, <2>6, UpdatedRows
  <2>12. h = q.account /\ q.key # Keep
    BY <2>1, <2>2, <2>7, <2>8, <2>10, <2>11
  <2>13. q.account \in q.missed
    BY <2>1, <2>8, <2>10, <2>12 DEF KnowsOfKey
  <2> QED
    BY <2>6, <2>13
<1>2. IInv /\ [Next]_vars => Held
  BY <1>1
<1>3. IInv /\ [Next]_vars => [Held]_vars
  BY <1>2
<1> QED
  BY <1>3, Inductive, PTL DEF Spec, KeysStayHeld

-----------------------------------------------------------------------------
(***************************************************************************)
(* The vouchers.                                                           *)
(***************************************************************************)
AccountsOf(v) ==
    {v.money, v.order.line} \cup (IF v.order.tax > 0 THEN {v.vat} ELSE {})

(* The default account is the one marked for how the document was paid. *)
AsPaid(v) ==
    v.order.kind \in NumberedKinds /\ v.order.money = None =>
        /\ v.money \in Known
        /\ accounts[v.money].key = v.order.method \/ v.money \in v.missed

Fit(v) ==
    \A a \in AccountsOf(v) : a \in Known /\ (accounts[a].active \/ a \in v.missed)

(* What is known of a document at its step. *)
Stands(v) ==
    /\ v.pc # "new" => v.order \in Orders
    /\ v.pc \in {"money", "mpesa"} => v.order.kind \in NumberedKinds /\ v.order.money = None
    /\ v.pc = "mpesa" => v.caller \in Requests /\ v.order.method = "MPESA"
    /\ v.pc \in {"money", "mpesa", "vat"} => v.vat = v.order.vat
    /\ v.pc \in {"vat", "lines", "prepared", "numbered", "posted"} => v.money \in Ids
    /\ v.pc \in {"lines", "prepared", "numbered", "posted"} => AccountsOf(v) \subseteq Ids
    /\ v.pc \in {"vat", "lines", "prepared", "numbered"} => AsPaid(v)
    /\ v.pc \in {"prepared", "numbered"} => Fit(v)
    /\ v.pc = "numbered" => v.order.kind \in NumberedKinds
    /\ v.pc = "posted" => v.amiss \subseteq v.missed

(* The number of a document is the next one of its kind, and its alone. *)
NumbersTaken ==
    /\ \A d \in Documents : Is(d, "numbered") => doc[d].number = sequence[doc[d].order.kind] + 1
    /\ \A d, e \in Documents :
            Is(d, "numbered") /\ Is(e, "numbered") /\ doc[d].order.kind = doc[e].order.kind => d = e

VInv ==
    /\ IInv
    /\ doc \in [Documents -> Document]
    /\ sequence \in [NumberedKinds -> Nat]
    /\ \A d \in Documents : Stands(doc[d])
    /\ NumbersTaken
    /\ VouchersGapless

USE VouchersAssumption

-----------------------------------------------------------------------------
(* The chart under the vouchers.                                           *)

LEMMA ChartUnder == [VNext]_<<vars, docVars>> => [Next]_vars
<1> SUFFICES ASSUME [VNext]_<<vars, docVars>> PROVE [Next]_vars
  OBVIOUS
<1>1. ASSUME NEW d \in Documents, VoucherStep(d), Running PROVE [Next]_vars
  <2>1. ASSUME NEW r \in Requests, FindSystemAccount(r, "MPESA") PROVE Next
    BY <1>1, <2>1 DEF Next, Begin, SystemKeys
  <2>2. UNCHANGED vars \/ \E r \in Requests : FindSystemAccount(r, "MPESA")
    BY <1>1 DEF VoucherStep, Receive, FindMoneyAccount, CreateMpesaAccount, TakeMpesaAccount,
         FindVatAccount, PrepareJournal, CreateJournal, NextSequence, InsertSettledDocument
  <2> QED
    BY <2>1, <2>2
<1>2. CASE UNCHANGED <<vars, docVars>>
  BY <1>2
<1> QED
  BY <1>1, <1>2 DEF VNext, ChartStep

(* Vouchers only look up accounts, have one made, and post to them: the    *)
(* chart of accounts changes as Chart says and in no other way.            *)
THEOREM ChartKept == VSpec => Spec
<1>1. VInit => Init
  BY SMTT(30) DEF VInit
<1> QED
  BY <1>1, ChartUnder, PTL DEF VSpec, Spec

(* Accounts are never deleted.                                             *)
LEMMA KnownStays ==
  ASSUME IInv, [Next]_vars
  PROVE  Known \subseteq Known'
<1> SUFFICES ASSUME NEW a \in Known PROVE accounts'[a] # None
  BY DEF Known
<1>1. a \in Ids /\ accounts[a] \in Account /\ accounts \in [Ids -> Account \cup {None}]
  BY DEF IInv, TypeOK, Known
<1>2. ASSUME NEW type, NEW parent, NEW code, NEW key, Free # {}, Insert(type, parent, code, key)
      PROVE  accounts'[a] # None
  BY <1>1, <1>2, NewIdFree DEF Insert, Free
<1>3. ASSUME NEW r \in Requests, NEW b \in Known, NEW active \in BOOLEAN, SetActive(r, b, active)
      PROVE  accounts'[a] # None
  <2>1. [accounts[a] EXCEPT !.active = active] \in Account
    BY <1>1 DEF Account
  <2>2. accounts'[a] \in {accounts[a], [accounts[a] EXCEPT !.active = active]}
    BY <1>1, <1>3 DEF SetActive
  <2> QED
    BY <1>1, <2>1, <2>2
<1>4. ASSUME NEW r \in Requests, CommitUpdate(r) PROVE accounts'[a] # None
  <2>1. At(r, "ready") /\ Knows(r)
    BY <1>4 DEF CommitUpdate, IInv, RequestsKnow
  <2>2. Updated(a, request[r]) \in Account
    BY <2>1, UpdatedRows
  <2>3. accounts'[a] \in {accounts[a], Updated(a, request[r])}
    BY <1>1, <1>4 DEF CommitUpdate
  <2> QED
    BY <1>1, <2>2, <2>3
<1> QED
  BY <1>1, <1>2, <1>3, <1>4 DEF vars, Next, Begin, Proceed, Seed, CreateAccount, CheckUpdate, Loop,
     LockRow, LockChart, FreeKey, AbortDeadlock, FindSystemAccount, LockForCreate,
     InsertSystemAccount, Deactivate, Reactivate

-----------------------------------------------------------------------------
(* What an order settles.                                                  *)

LEMMA OrderFacts ==
  ASSUME NEW o \in Orders
  PROVE  /\ o \in Order
         /\ o.line \in Ids /\ o.money \in Ids \cup {None} /\ o.vat \in Ids \cup {None}
         /\ o.tax \in Nat /\ o.kind \in NumberedKinds \cup GuidedKinds
         /\ o.kind \in GuidedKinds => o.money \in Ids /\ (o.tax > 0 => o.vat \in Ids)
         /\ o.kind \in NumberedKinds /\ o.money = None => DefaultMoneyKey(o) = o.method
<1>1. o \in Order /\ Valid(o)
  OBVIOUS
<1>2. ASSUME o.kind \in GuidedKinds PROVE TaxNamed(o)
  BY <1>1, <1>2 DEF Valid, GuidedKinds, ValidCreditSale, ValidCashSale, ValidBill, ValidCashExpense, ValidCheque
<1>3. ASSUME o.kind \in NumberedKinds, o.money = None PROVE o.method # "OTHER"
  BY <1>1, <1>3 DEF Valid, NumberedKinds, ValidReceipt, ValidChequePayment
<1> QED
  BY <1>1, <1>2, <1>3 DEF Order, Kinds, TaxNamed, DefaultMoneyKey, PaymentMethods

LEMMA HolderFound ==
  ASSUME NEW k, Holders(k) # {}
  PROVE  Holder(k) \in Known /\ accounts[Holder(k)].key = k
BY DEF Holder, Holders, Known

(* What is known does not depend on anything but the rows of accounts.     *)
LEMMA StandsStill ==
  ASSUME accounts' = accounts, NEW v, Stands(v)
  PROVE  Stands(v)'
BY DEF Stands, AsPaid, Fit, Known, AccountsOf

(* A step of one document that takes no number and posts none.             *)
LEMMA OneDocument ==
  ASSUME VInv, IInv', accounts' = accounts, sequence' = sequence,
         NEW d \in Documents, NEW v \in Document, doc' = [doc EXCEPT ![d] = v],
         doc[d].pc # "posted", Stands(v), v.pc # "numbered",
         v.pc = "posted" => v.order.kind \in GuidedKinds
  PROVE  VInv'
<1>1. doc' \in [Documents -> Document] /\ sequence' \in [NumberedKinds -> Nat]
  BY DEF VInv
<1>2. ASSUME NEW e \in Documents PROVE Stands(doc[e])'
  <2>1. ASSUME NEW w, w = doc'[e] PROVE Stands(w)'
    <3>1. Stands(w)
      BY <2>1 DEF VInv
    <3> QED
      BY <3>1, StandsStill
  <2> QED
    BY <2>1 DEF Stands, AsPaid, Fit, AccountsOf
<1>3. NumbersTaken'
  BY DEF VInv, NumbersTaken, Is
<1>4. VouchersGapless'
  <2>1. ASSUME NEW k \in NumberedKinds
        PROVE  \A e \in Documents : e \in Posted' /\ doc'[e].order.kind = k
                                    <=> e \in Posted /\ doc[e].order.kind = k
    BY <2>1 DEF VInv, Posted, Is, NumberedKinds, GuidedKinds
  <2>2. \A e \in Posted : doc'[e] = doc[e]
    BY DEF VInv, Posted, Is
  <2> SUFFICES ASSUME NEW k \in NumberedKinds
               PROVE  LET those == {e \in Posted : doc[e].order.kind = k}
                      IN  (/\ {doc[e].number : e \in those} = 1 .. sequence[k]
                           /\ \A e, f \in those : doc[e].number = doc[f].number => e = f)'
    BY DEF VouchersGapless
  <2> DEFINE those == {e \in Posted : doc[e].order.kind = k}
  <2>3. those' = those /\ those \subseteq Posted
    BY <2>1 DEF Posted
  <2>4. {doc[e].number : e \in those} = 1 .. sequence[k]
        /\ \A e, f \in those : doc[e].number = doc[f].number => e = f
    BY DEF VInv, VouchersGapless
  <2>5. {doc'[e].number : e \in those} = {doc[e].number : e \in those}
    BY <2>2, <2>3
  <2> QED
    BY <2>2, <2>3, <2>4, <2>5
<1> QED
  BY <1>1, <1>2, <1>3, <1>4 DEF VInv

-----------------------------------------------------------------------------
(* The steps.                                                              *)

LEMMA ReceiveStep ==
  ASSUME VInv, IInv', NEW d \in Documents, NEW o \in Orders, Receive(d, o)
  PROVE  VInv'
<1> DEFINE step == IF o.kind \in GuidedKinds THEN "lines"
                   ELSE IF o.money # None THEN "vat" ELSE "money"
           v == [Blank EXCEPT !.pc = step, !.order = o, !.money = o.money, !.vat = o.vat]
<1>2. doc' = [doc EXCEPT ![d] = v] /\ doc[d].pc = "new" /\ UNCHANGED <<accounts, sequence>>
  BY DEF Receive, Is, vars
<1>0. step \in {"lines", "vat", "money"} /\ (step = "lines" <=> o.kind \in GuidedKinds)
      /\ (step = "vat" => o.money # None) /\ (step = "money" => o.money = None)
  OBVIOUS
<1> HIDE DEF step
<1>1. Blank \in Document
  BY DEF Blank, Document
<1>3. /\ v \in Document
      /\ v.pc = step /\ v.order = o /\ v.money = o.money /\ v.vat = o.vat
  BY <1>0, <1>1, OrderFacts DEF Document
<1> HIDE DEF v
<1>4. Stands(v)
  <2>1. /\ o.line \in Ids /\ o.money \in Ids \cup {None} /\ o.kind \in NumberedKinds \cup GuidedKinds
        /\ o.kind \in GuidedKinds => o.money \in Ids /\ (o.tax > 0 => o.vat \in Ids)
        /\ o.kind \in GuidedKinds => o.kind \notin NumberedKinds
    BY OrderFacts DEF NumberedKinds, GuidedKinds
  <2>2. v.pc = "lines" => v.money \in Ids /\ AccountsOf(v) \subseteq Ids /\ AsPaid(v)
    BY <1>0, <1>3, <2>1 DEF AsPaid, AccountsOf
  <2>3. v.pc = "vat" => v.money \in Ids /\ AsPaid(v)
    BY <1>0, <1>3, <2>1 DEF AsPaid
  <2> QED
    BY <1>0, <1>3, <2>1, <2>2, <2>3 DEF Stands
<1> QED
  BY <1>0, <1>1, <1>2, <1>3, <1>4, OneDocument

LEMMA FindMoneyAccountStep ==
  ASSUME VInv, IInv', NEW d \in Documents, FindMoneyAccount(d)
  PROVE  VInv'
<1> DEFINE key == DefaultMoneyKey(doc[d].order)
           v == [doc[d] EXCEPT !.pc = IF Holders(key) = {} THEN "failed" ELSE "vat",
                               !.money = IF Holders(key) = {} THEN None ELSE Holder(key)]
<1>1. doc[d] \in Document /\ Stands(doc[d]) /\ doc[d].pc = "money"
  BY DEF VInv, FindMoneyAccount, Is
<1>2. doc' = [doc EXCEPT ![d] = v] /\ UNCHANGED <<accounts, sequence>>
  BY DEF VInv, FindMoneyAccount, vars
<1>3. doc[d].order \in Orders /\ key = doc[d].order.method
  BY <1>1, OrderFacts DEF Stands
<1>4. Holders(key) # {} => Holder(key) \in Known /\ accounts[Holder(key)].key = key /\ Holder(key) \in Ids
  BY HolderFound DEF Known
<1> HIDE DEF key
<1>5. /\ v.pc = IF Holders(key) = {} THEN "failed" ELSE "vat"
      /\ v.money = IF Holders(key) = {} THEN None ELSE Holder(key)
      /\ v.order = doc[d].order /\ v.vat = doc[d].vat /\ v.missed = doc[d].missed
      /\ v \in Document
  BY <1>1, <1>4 DEF Document
<1> HIDE DEF v
<1>6. Stands(v)
  BY <1>1, <1>3, <1>4, <1>5 DEF Stands, AsPaid
<1> QED
  BY <1>1, <1>2, <1>5, <1>6, OneDocument

LEMMA CreateMpesaAccountStep ==
  ASSUME VInv, IInv', NEW d \in Documents, NEW r \in Requests, CreateMpesaAccount(d, r)
  PROVE  VInv'
<1> DEFINE v == [doc[d] EXCEPT !.pc = "mpesa", !.caller = r]
<1>1. doc[d] \in Document /\ Stands(doc[d]) /\ doc[d].pc = "money"
      /\ DefaultMoneyKey(doc[d].order) = "MPESA"
  BY DEF VInv, CreateMpesaAccount, Is
<1>2. doc' = [doc EXCEPT ![d] = v] /\ UNCHANGED <<accounts, sequence>>
  BY DEF VInv, CreateMpesaAccount, FindSystemAccount
<1>3. /\ v.pc = "mpesa" /\ v.caller = r /\ v.order = doc[d].order /\ v.vat = doc[d].vat
      /\ v \in Document
  BY <1>1 DEF Document
<1> HIDE DEF v
<1>4. Stands(v)
  BY <1>1, <1>3 DEF Stands, DefaultMoneyKey
<1> QED
  BY <1>1, <1>2, <1>3, <1>4, OneDocument

LEMMA TakeMpesaAccountStep ==
  ASSUME VInv, IInv', NEW d \in Documents, TakeMpesaAccount(d)
  PROVE  VInv'
<1> DEFINE found == At(doc[d].caller, "done") /\ Holders("MPESA") # {}
           v == [doc[d] EXCEPT !.pc = IF found THEN "vat" ELSE "failed",
                               !.money = IF found THEN Holder("MPESA") ELSE None]
<1>1. doc[d] \in Document /\ Stands(doc[d]) /\ doc[d].pc = "mpesa"
  BY DEF VInv, TakeMpesaAccount, Is
<1>2. doc' = [doc EXCEPT ![d] = v] /\ UNCHANGED <<accounts, sequence>>
  BY DEF VInv, TakeMpesaAccount, vars
<1>3. Holders("MPESA") # {} => /\ Holder("MPESA") \in Known /\ Holder("MPESA") \in Ids
                               /\ accounts[Holder("MPESA")].key = "MPESA"
  BY HolderFound DEF Known
<1>4. /\ v.pc \in {"vat", "failed"} /\ v.order = doc[d].order /\ v.vat = doc[d].vat
      /\ v.pc = "vat" => v.money = Holder("MPESA") /\ Holders("MPESA") # {}
      /\ v \in Document
  BY <1>1, <1>3 DEF Document
<1> HIDE DEF v
<1>5. Stands(v)
  BY <1>1, <1>3, <1>4 DEF Stands, AsPaid
<1> QED
  BY <1>1, <1>2, <1>4, <1>5, OneDocument

LEMMA FindVatAccountStep ==
  ASSUME VInv, IInv', NEW d \in Documents, FindVatAccount(d)
  PROVE  VInv'
<1> DEFINE o == doc[d].order
           key == IF Purchase(o) THEN "VAT_INPUT" ELSE "VAT_OUTPUT"
           needed == o.tax > 0 /\ o.vat = None
           ok == (o.tax > 0 => VatRegistered) /\ (needed => Holders(key) # {})
           v == [doc[d] EXCEPT !.pc = IF ok THEN "lines" ELSE "failed",
                               !.vat = IF needed /\ ok THEN Holder(key) ELSE @]
<1>1. doc[d] \in Document /\ Stands(doc[d]) /\ doc[d].pc = "vat"
  BY DEF VInv, FindVatAccount, Is
<1>2. doc' = [doc EXCEPT ![d] = v] /\ UNCHANGED <<accounts, sequence>>
  BY ZenonT(30) DEF VInv, FindVatAccount, vars
<1>3. needed /\ ok => Holder(key) \in Ids
  BY HolderFound DEF Known
<1> HIDE DEF key
<1>4. /\ v.pc \in {"lines", "failed"} /\ v.order = o /\ v.money = doc[d].money /\ v.missed = doc[d].missed
      /\ v.vat = IF needed /\ ok THEN Holder(key) ELSE doc[d].vat
      /\ v.pc = "lines" => ok
      /\ v \in Document
  BY <1>1, <1>3, ZenonT(30) DEF Document
<1> HIDE DEF v
<1>5. /\ o \in Orders /\ o.tax \in Nat /\ o.line \in Ids /\ o.vat \in Ids \cup {None}
      /\ doc[d].vat = o.vat /\ doc[d].money \in Ids /\ AsPaid(doc[d])
  BY <1>1, OrderFacts DEF Stands
<1>6. Stands(v)
  BY <1>3, <1>4, <1>5 DEF Stands, AsPaid, AccountsOf
<1> QED
  BY <1>1, <1>2, <1>4, <1>6, OneDocument

LEMMA PrepareJournalStep ==
  ASSUME VInv, IInv', NEW d \in Documents, PrepareJournal(d)
  PROVE  VInv'
<1> DEFINE ok == \A a \in Accounts(d) : Postable(a)
           v == [doc[d] EXCEPT !.pc = IF ok THEN "prepared" ELSE "failed"]
<1>1. doc[d] \in Document /\ Stands(doc[d]) /\ doc[d].pc = "lines"
  BY DEF VInv, PrepareJournal, Is
<1>2. doc' = [doc EXCEPT ![d] = v] /\ UNCHANGED <<accounts, sequence>>
  BY DEF VInv, PrepareJournal, vars
<1>3. /\ v.pc \in {"prepared", "failed"}
      /\ v.pc = "prepared" => ok
      /\ v.order = doc[d].order /\ v.money = doc[d].money /\ v.vat = doc[d].vat
      /\ v.missed = doc[d].missed /\ v \in Document
  BY <1>1 DEF Document
<1> HIDE DEF v
<1>4. v.pc = "prepared" => Fit(v)
  BY <1>3 DEF Fit, AccountsOf, Accounts, Postable
<1>5. Stands(v)
  BY <1>1, <1>3, <1>4 DEF Stands, AsPaid, AccountsOf
<1> QED
  BY <1>1, <1>2, <1>3, <1>5, OneDocument

(* Whatever is amiss when a document is posted has changed on its way.     *)
LEMMA AmissIsMissed ==
  ASSUME VInv, NEW d \in Documents, doc[d].pc \in {"prepared", "numbered"}
  PROVE  /\ Amiss(d) \subseteq doc[d].missed
         /\ Amiss(d) \subseteq Ids
<1>1. doc[d] \in Document /\ Stands(doc[d])
  BY DEF VInv
<1>2. Fit(doc[d]) /\ AsPaid(doc[d]) /\ doc[d].money \in Ids /\ AccountsOf(doc[d]) \subseteq Ids
  BY <1>1 DEF Stands
<1>3. \A a \in Accounts(d) : a \in Ids /\ (accounts[a].active \/ a \in doc[d].missed)
  BY <1>2 DEF Fit, Accounts, AccountsOf
<1> QED
  BY <1>2, <1>3 DEF Amiss, AsPaid

LEMMA PostedValue ==
  ASSUME VInv, NEW d \in Documents, doc[d].pc \in {"prepared", "numbered"},
         NEW v, v = [doc[d] EXCEPT !.pc = "posted", !.amiss = Amiss(d)]
  PROVE  /\ v \in Document /\ v.pc = "posted"
         /\ v.order = doc[d].order /\ v.number = doc[d].number
         /\ Stands(v)
<1>1. doc[d] \in Document /\ Stands(doc[d])
  BY DEF VInv
<1>2. /\ v \in Document /\ v.pc = "posted" /\ v.order = doc[d].order /\ v.number = doc[d].number
      /\ v.money = doc[d].money /\ v.vat = doc[d].vat /\ v.missed = doc[d].missed
      /\ v.amiss = Amiss(d)
  BY <1>1, AmissIsMissed DEF Document
<1>3. Stands(v)
  BY <1>1, <1>2, AmissIsMissed DEF Stands, AccountsOf
<1> QED
  BY <1>2, <1>3

LEMMA CreateJournalStep ==
  ASSUME VInv, IInv', NEW d \in Documents, CreateJournal(d)
  PROVE  VInv'
<1> DEFINE v == [doc[d] EXCEPT !.pc = "posted", !.amiss = Amiss(d)]
<1>1. doc[d].pc = "prepared" /\ doc[d].order.kind \in GuidedKinds
      /\ doc' = [doc EXCEPT ![d] = v] /\ UNCHANGED <<accounts, sequence>>
  BY DEF VInv, CreateJournal, Post, Is, vars
<1>2. v \in Document /\ v.pc = "posted" /\ v.order = doc[d].order /\ Stands(v)
  BY <1>1, PostedValue
<1> HIDE DEF v
<1> QED
  BY <1>1, <1>2, OneDocument

LEMMA NextSequenceStep ==
  ASSUME VInv, IInv', NEW d \in Documents, NextSequence(d)
  PROVE  VInv'
<1> DEFINE k == doc[d].order.kind
           v == [doc[d] EXCEPT !.pc = "numbered", !.number = sequence[k] + 1]
<1>1. /\ doc[d] \in Document /\ Stands(doc[d]) /\ doc[d].pc = "prepared"
      /\ k \in NumberedKinds
      /\ \A e \in Documents : Is(e, "numbered") => doc[e].order.kind # k
  BY DEF VInv, NextSequence, Is
<1>2. doc' = [doc EXCEPT ![d] = v] /\ UNCHANGED <<accounts, sequence>>
  BY DEF VInv, NextSequence, vars
<1>3. sequence[k] + 1 \in Nat
  BY <1>1 DEF VInv
<1>4. /\ v.pc = "numbered" /\ v.order = doc[d].order /\ v.number = sequence[k] + 1
      /\ v.money = doc[d].money /\ v.vat = doc[d].vat /\ v.missed = doc[d].missed
      /\ v \in Document
  BY <1>1, <1>3 DEF Document
<1> HIDE DEF v
<1>5. Stands(v)
  BY <1>1, <1>4 DEF Stands, AsPaid, Fit, AccountsOf
<1>6. doc' \in [Documents -> Document] /\ sequence' \in [NumberedKinds -> Nat]
  BY <1>2, <1>4 DEF VInv
<1>7. ASSUME NEW e \in Documents PROVE Stands(doc[e])'
  <2>1. ASSUME NEW w, w = doc'[e] PROVE Stands(w)'
    <3>1. Stands(w)
      BY <1>2, <1>5, <2>1 DEF VInv
    <3> QED
      BY <1>2, <3>1, StandsStill
  <2> QED
    BY <2>1 DEF Stands, AsPaid, Fit, AccountsOf
<1>8. NumbersTaken'
  BY <1>1, <1>2, <1>4 DEF VInv, NumbersTaken, Is
<1>9. VouchersGapless'
  <2>1. Posted' = Posted /\ \A e \in Posted : doc'[e] = doc[e]
    BY <1>1, <1>2, <1>4 DEF VInv, Posted, Is
  <2> QED
    BY <1>2, <2>1 DEF VInv, VouchersGapless
<1> QED
  BY <1>6, <1>7, <1>8, <1>9 DEF VInv

LEMMA InsertSettledDocumentStep ==
  ASSUME VInv, IInv', NEW d \in Documents, InsertSettledDocument(d)
  PROVE  VInv'
<1>1. doc[d] \in Document /\ Stands(doc[d]) /\ doc[d].pc = "numbered" /\ UNCHANGED accounts
  BY DEF VInv, InsertSettledDocument, Is, vars
<1>2. CASE LeafTaken(d)
  <2> DEFINE v == [doc[d] EXCEPT !.pc = "failed"]
  <2>1. doc' = [doc EXCEPT ![d] = v] /\ UNCHANGED sequence
    BY <1>2 DEF VInv, InsertSettledDocument
  <2>2. v \in Document /\ v.pc = "failed" /\ v.order = doc[d].order
    BY <1>1 DEF Document
  <2> HIDE DEF v
  <2>3. Stands(v)
    BY <1>1, <2>2 DEF Stands
  <2> QED
    BY <1>1, <2>1, <2>2, <2>3, OneDocument
<1>3. CASE ~LeafTaken(d)
  <2> DEFINE k == doc[d].order.kind
             n == doc[d].number
             v == [doc[d] EXCEPT !.pc = "posted", !.amiss = Amiss(d)]
  <2>1. doc' = [doc EXCEPT ![d] = v] /\ sequence' = [sequence EXCEPT ![k] = n]
    BY <1>3 DEF VInv, InsertSettledDocument, Post
  <2>2. v \in Document /\ v.pc = "posted" /\ v.order = doc[d].order /\ v.number = n /\ Stands(v)
    BY <1>1, PostedValue
  <2> HIDE DEF v
  <2>3. k \in NumberedKinds /\ n = sequence[k] + 1 /\ sequence[k] \in Nat /\ n \in Nat
    BY <1>1 DEF VInv, Stands, NumbersTaken, Is
  <2>4. doc' \in [Documents -> Document] /\ sequence' \in [NumberedKinds -> Nat]
    BY <2>1, <2>2, <2>3 DEF VInv
  <2>5. ASSUME NEW e \in Documents PROVE Stands(doc[e])'
    <3>1. ASSUME NEW w, w = doc'[e] PROVE Stands(w)'
      <4>1. Stands(w)
        BY <2>1, <2>2, <3>1 DEF VInv
      <4> QED
        BY <1>1, <4>1, StandsStill
    <3> QED
      BY <3>1 DEF Stands, AsPaid, Fit, AccountsOf
  <2>6. NumbersTaken'
    <3>1. ASSUME NEW e \in Documents, Is(e, "numbered")'
          PROVE  e # d /\ doc'[e] = doc[e] /\ Is(e, "numbered") /\ doc[e].order.kind # k
      BY <1>1, <2>1, <2>2, <3>1 DEF VInv, NumbersTaken, Is
    <3>2. ASSUME NEW e \in Documents, Is(e, "numbered")'
          PROVE  sequence'[doc[e].order.kind] = sequence[doc[e].order.kind]
      BY <2>1, <2>3, <3>1, <3>2 DEF VInv, Stands, Is
    <3> QED
      BY <3>1, <3>2, ZenonT(30) DEF VInv, NumbersTaken
  <2>7. ASSUME NEW j \in NumberedKinds
        PROVE  (LET those == {e \in Posted : doc[e].order.kind = j}
                IN  /\ {doc[e].number : e \in those} = 1 .. sequence[j]
                    /\ \A e, f \in those : doc[e].number = doc[f].number => e = f)'
    <3> DEFINE those == {e \in Posted : doc[e].order.kind = j}
    <3>1. {doc[e].number : e \in those} = 1 .. sequence[j]
          /\ \A e, f \in those : doc[e].number = doc[f].number => e = f
      BY <2>7 DEF VInv, VouchersGapless
    <3>2. d \notin Posted /\ those \subseteq Documents
          /\ \A e \in Documents : e # d => doc'[e] = doc[e]
      BY <1>1, <2>1 DEF VInv, Posted, Is
    <3>3. CASE j # k
      <4>1. those' = those /\ d \notin those
        BY <2>1, <2>2, <3>2, <3>3 DEF VInv, Posted, Is
      <4>2. {doc'[e].number : e \in those} = {doc[e].number : e \in those}
        BY <3>2, <4>1
      <4>3. sequence'[j] = sequence[j]
        BY <2>1, <2>3, <3>3 DEF VInv
      <4> QED
        BY <3>1, <3>2, <4>1, <4>2, <4>3, SMTT(30)
    <3>4. CASE j = k
      <4>1. those' = those \cup {d} /\ d \notin those /\ doc'[d].number = n
        BY <2>1, <2>2, <3>2, <3>4 DEF VInv, Posted, Is
      <4>2. {doc'[e].number : e \in those \cup {d}} = {doc[e].number : e \in those} \cup {n}
        BY <3>2, <4>1
      <4>3. sequence'[j] = n /\ 1 .. n = 1 .. sequence[j] \cup {n} /\ n \notin 1 .. sequence[j]
        BY <2>1, <2>3, <3>4 DEF VInv
      <4>4. \A e \in those : doc'[e].number = doc[e].number /\ doc[e].number # n
        BY <3>1, <3>2, <4>1, <4>3
      <4>5. \A e, f \in those \cup {d} : doc'[e].number = doc'[f].number => e = f
        BY <3>1, <4>1, <4>4
      <4> QED
        BY <3>1, <4>1, <4>2, <4>3, <4>5
    <3> QED
      BY <3>3, <3>4
  <2> QED
    BY <2>4, <2>5, <2>6, <2>7 DEF VInv, VouchersGapless
<1> QED
  BY <1>2, <1>3

(* What the chart changes under a document, its request has missed.        *)
LEMMA ChartStepKeeps ==
  ASSUME VInv, IInv', ChartStep
  PROVE  VInv'
<1>1. Known \subseteq Known'
  BY KnownStays DEF VInv, ChartStep
<1>2. sequence' = sequence
  BY DEF ChartStep
<1>3. ASSUME NEW e \in Documents
      PROVE  /\ doc'[e] \in Document /\ doc'[e].pc = doc[e].pc
             /\ doc'[e].number = doc[e].number /\ doc'[e].order = doc[e].order
             /\ Stands(doc[e])'
  <2> DEFINE v == doc[e]
             w == IF v.pc \in {"new", "posted", "failed"} THEN v
                  ELSE [v EXCEPT !.missed = @ \cup ChangedRows]
  <2>1. doc'[e] = w
    BY DEF ChartStep
  <2>2. v \in Document /\ Stands(v) /\ ChangedRows \subseteq Ids
    BY DEF VInv, ChangedRows, Known
  <2>3. /\ w \in Document /\ w.pc = v.pc /\ w.order = v.order /\ w.money = v.money
        /\ w.vat = v.vat /\ w.caller = v.caller /\ w.number = v.number /\ w.amiss = v.amiss
        /\ v.pc \in {"new", "posted", "failed"} => w.missed = v.missed
        /\ v.pc \notin {"new", "posted", "failed"} => w.missed = v.missed \cup ChangedRows
    BY <2>2 DEF Document
  <2> HIDE DEF w
  <2>4. ASSUME NEW u, u = w PROVE Stands(u)'
    <3>1. ASSUME v.pc \in {"vat", "lines", "prepared", "numbered"} PROVE AsPaid(u)'
      <4>1. AsPaid(v) /\ u.missed = v.missed \cup ChangedRows /\ u.order = v.order /\ u.money = v.money
        BY <2>2, <2>3, <2>4, <3>1 DEF Stands
      <4> QED
        BY <1>1, <4>1 DEF AsPaid, ChangedRows
    <3>2. ASSUME v.pc \in {"prepared", "numbered"} PROVE Fit(u)'
      <4>1. Fit(v) /\ u.missed = v.missed \cup ChangedRows /\ AccountsOf(u) = AccountsOf(v)
        BY <2>2, <2>3, <2>4, <3>2 DEF Stands, AccountsOf
      <4> QED
        BY <1>1, <4>1 DEF Fit, ChangedRows, AccountsOf
    <3>3. AccountsOf(u) = AccountsOf(v)
      BY <2>3, <2>4 DEF AccountsOf
    <3> QED
      BY <2>2, <2>3, <2>4, <3>1, <3>2, <3>3 DEF Stands, AccountsOf
  <2> QED
    BY <2>1, <2>3, <2>4 DEF Stands, AsPaid, Fit, AccountsOf
<1>4. doc' \in [Documents -> Document]
  BY <1>3 DEF ChartStep
<1>5. NumbersTaken'
  BY <1>2, <1>3, SMTT(30) DEF VInv, NumbersTaken, Is
<1>6. VouchersGapless'
  <2>1. Posted' = Posted /\ \A e \in Posted : doc'[e].number = doc[e].number /\ doc'[e].order = doc[e].order
    BY <1>3 DEF Posted, Is
  <2>2. ASSUME NEW k \in NumberedKinds
        PROVE  (LET those == {e \in Posted : doc[e].order.kind = k}
                IN  /\ {doc[e].number : e \in those} = 1 .. sequence[k]
                    /\ \A e, f \in those : doc[e].number = doc[f].number => e = f)'
    <3> DEFINE those == {e \in Posted : doc[e].order.kind = k}
    <3>1. {doc[e].number : e \in those} = 1 .. sequence[k]
          /\ \A e, f \in those : doc[e].number = doc[f].number => e = f
      BY <2>2 DEF VInv, VouchersGapless
    <3>2. those' = those
      BY <2>1
    <3>3. {doc'[e].number : e \in those} = {doc[e].number : e \in those}
      BY <2>1
    <3> QED
      BY <1>2, <2>1, <3>1, <3>2, <3>3
  <2> QED
    BY <2>2 DEF VouchersGapless
<1> QED
  BY <1>2, <1>3, <1>4, <1>5, <1>6 DEF VInv

-----------------------------------------------------------------------------
(* The theorems.                                                           *)

(* To begin with no document was received and no number taken.             *)
THEOREM VouchersInit == VInit => VInv
<1> SUFFICES ASSUME VInit PROVE VInv
  OBVIOUS
<1>1. IInv
  BY InitInv DEF VInit
<1>2. Blank \in Document /\ Blank.pc = "new"
  BY DEF Blank, Document
<1>3. Stands(Blank)
  BY <1>2 DEF Stands
<1>4. doc = [d \in Documents |-> Blank] /\ sequence = [k \in NumberedKinds |-> 0]
  BY DEF VInit
<1>5. Posted = {}
  BY <1>2, <1>4 DEF Posted, Is
<1>6. VouchersGapless
  BY <1>4, <1>5 DEF VouchersGapless
<1>7. NumbersTaken
  BY <1>2, <1>4 DEF NumbersTaken, Is
<1> QED
  BY <1>1, <1>2, <1>3, <1>4, <1>6, <1>7 DEF VInv

(* Every step of a voucher or of the chart under it keeps VInv.            *)
THEOREM VouchersStep == VInv /\ [VNext]_<<vars, docVars>> => VInv'
<1> SUFFICES ASSUME VInv, [VNext]_<<vars, docVars>> PROVE VInv'
  OBVIOUS
<1>1. IInv'
  BY ChartUnder, StepInv DEF VInv
<1>2. ASSUME NEW d \in Documents, VoucherStep(d) PROVE VInv'
  BY <1>1, <1>2, ReceiveStep, FindMoneyAccountStep, CreateMpesaAccountStep, TakeMpesaAccountStep,
     FindVatAccountStep, PrepareJournalStep, CreateJournalStep, NextSequenceStep,
     InsertSettledDocumentStep DEF VoucherStep
<1>3. CASE UNCHANGED <<vars, docVars>>
  BY <1>1, <1>3 DEF VInv, Stands, AsPaid, Fit, AccountsOf, Known, NumbersTaken, VouchersGapless,
     Posted, Is, vars, docVars
<1> QED
  BY <1>1, <1>2, <1>3, ChartStepKeeps DEF VNext

LEMMA VouchersInductive == VSpec => []VInv
BY VouchersInit, VouchersStep, PTL DEF VSpec

(* Every document has its type and, once they were looked up, its          *)
(* accounts; none ever fails on the check constraints of its row.          *)
THEOREM DocumentsKeepTheirType == VSpec => []DocumentsTyped
<1>1. ASSUME VInv PROVE DocumentsTyped
  <2>1. ASSUME NEW d \in Documents, doc[d].pc \in {"lines", "prepared", "numbered", "posted"}
        PROVE  Accounts(d) \subseteq Ids
    BY <1>1, <2>1 DEF VInv, Stands, Accounts, AccountsOf
  <2>2. ASSUME NEW d \in Posted PROVE ReceiptRow(doc[d]) /\ ChequeRow(doc[d])
    <3>1. d \in Documents /\ doc[d].money \in Ids
      BY <1>1 DEF VInv, Stands, Posted, Is
    <3>2. ASSUME doc[d].order.kind \in NumberedKinds PROVE doc[d].number > 0
      <4>1. doc[d].number \in 1 .. sequence[doc[d].order.kind]
        BY <1>1, <3>2 DEF VInv, VouchersGapless
      <4> QED
        BY <1>1, <3>2, <4>1 DEF VInv
    <3> QED
      BY <3>1, <3>2 DEF ReceiptRow, ChequeRow, NumberedKinds
  <2> QED
    BY <1>1, <2>1, <2>2 DEF DocumentsTyped, VInv, IInv
<1> QED
  BY <1>1, VouchersInductive, PTL

(* The numbers of the cash sales and of the cheques that are there have no *)
(* gaps, however many requests take them and fail afterwards.              *)
THEOREM NumbersHaveNoGaps == VSpec => []VouchersGapless
<1>1. VInv => VouchersGapless
  BY DEF VInv
<1> QED
  BY <1>1, VouchersInductive, PTL

(* A document is posted to accounts that take postings and, when it named  *)
(* none, to the one marked for how it was paid, unless the chart changed   *)
(* that account while the request was on its way.                          *)
THEOREM PostedAsFound == VSpec => []PostedAsFoundUnlessChanged
<1>1. VInv => PostedAsFoundUnlessChanged
  BY DEF VInv, Stands, PostedAsFoundUnlessChanged, Posted, Is
<1> QED
  BY <1>1, VouchersInductive, PTL

-----------------------------------------------------------------------------
(* The balances: the journals are those of the posted documents.           *)

Recorded ==
    journals = [d \in Documents |-> IF Is(d, "posted") THEN JournalLines(doc[d]) ELSE <<>>]

LEMMA SameLines ==
  ASSUME NEW v, NEW w, v.order = w.order, v.money = w.money, v.vat = w.vat
  PROVE  JournalLines(v) = JournalLines(w)
BY Zenon DEF JournalLines, SalesReceiptLines, ChequePaymentLines, CreditSaleLines, CashSaleLines,
       BillLines, CashExpenseLines, ChequeLines

(* Neither posted before nor after. *)
LEMMA NotPosted ==
  ASSUME VInv, Recorded, NEW d \in Documents, NEW v, doc' = [doc EXCEPT ![d] = v],
         doc[d].pc # "posted", v.pc # "posted", journals' = journals
  PROVE  Recorded'
<1>1. doc \in [Documents -> Document]
  BY DEF VInv
<1>2. \A e \in Documents : e # d => doc'[e] = doc[e]
  BY <1>1
<1>3. doc'[d] = v
  BY <1>1
<1> DEFINE lines(w) == IF w.pc = "posted" THEN JournalLines(w) ELSE <<>>
<1>4. lines(v) = <<>> /\ lines(doc[d]) = <<>>
  OBVIOUS
<1> HIDE DEF lines
<1>5. \A e \in Documents : lines(doc'[e]) = lines(doc[e])
  <2> SUFFICES ASSUME NEW e \in Documents PROVE lines(doc'[e]) = lines(doc[e])
    OBVIOUS
  <2>1. CASE e = d
    BY <1>3, <1>4, <2>1
  <2>2. CASE e # d
    BY <1>2, <2>2
  <2> QED
    BY <2>1, <2>2
<1>6. [e \in Documents |-> lines(doc'[e])] = [e \in Documents |-> lines(doc[e])]
  BY <1>5
<1>7. journals = [e \in Documents |-> lines(doc[e])]
  BY Zenon DEF Recorded, Is, lines
<1> QED
  BY <1>6, <1>7, Zenon DEF Recorded, Is, lines

LEMMA PostRecords ==
  ASSUME VInv, Recorded, NEW d \in Documents, doc[d].pc # "posted", Post(d)
  PROVE  Recorded'
<1> DEFINE v == [doc[d] EXCEPT !.pc = "posted", !.amiss = Amiss(d)]
<1>1. doc \in [Documents -> Document]
  BY DEF VInv
<1>2. doc' = [doc EXCEPT ![d] = v]
  BY <1>1 DEF Post
<1>3. v.pc = "posted" /\ v.order = doc[d].order /\ v.money = doc[d].money /\ v.vat = doc[d].vat
  BY <1>1 DEF Document
<1> HIDE DEF v
<1>4. JournalLines(v) = JournalLines(doc[d])
  BY <1>3, SameLines
<1>5. \A e \in Documents : e # d => doc'[e] = doc[e]
  BY <1>1, <1>2
<1>6. doc'[d] = v
  BY <1>1, <1>2
<1>7. journals' = [journals EXCEPT ![d] = JournalLines(doc[d])]
  BY DEF Post
<1>8. journals' = [e \in Documents |-> IF doc'[e].pc = "posted" THEN JournalLines(doc'[e]) ELSE <<>>]
  <2>1. DOMAIN journals = Documents
        /\ \A e \in Documents : journals[e] = IF doc[e].pc = "posted" THEN JournalLines(doc[e]) ELSE <<>>
    BY Zenon DEF Recorded, Is
  <2>2. \A e \in Documents : journals'[e] = IF doc'[e].pc = "posted" THEN JournalLines(doc'[e]) ELSE <<>>
    <3> SUFFICES ASSUME NEW e \in Documents
                 PROVE  journals'[e] = IF doc'[e].pc = "posted" THEN JournalLines(doc'[e]) ELSE <<>>
      OBVIOUS
    <3>1. CASE e = d
      BY <1>3, <1>4, <1>6, <1>7, <2>1, <3>1
    <3>2. CASE e # d
      BY <1>5, <1>7, <2>1, <3>2
    <3> QED
      BY <3>1, <3>2
  <2>3. journals' = [e \in Documents |-> journals'[e]]
    BY <1>7, <2>1
  <2> QED
    BY <2>2, <2>3, Zenon
<1> QED
  BY <1>8, Zenon DEF Recorded, Is

LEMMA RecordedStays ==
  ASSUME VInv, Recorded, [VNext]_<<vars, docVars>>
  PROVE  Recorded'
<1>0. doc \in [Documents -> Document]
  BY DEF VInv
<1>1. CASE UNCHANGED <<vars, docVars>>
  BY <1>1 DEF Recorded, Is, vars, docVars
<1>2. CASE ChartStep
  <2>1. ASSUME NEW e \in Documents
        PROVE  /\ doc'[e].pc = doc[e].pc
               /\ doc[e].pc = "posted" => doc'[e] = doc[e]
    BY <1>0, <1>2, <2>1 DEF ChartStep, Document
  <2>2. journals' = journals
    BY <1>2 DEF ChartStep
  <2>3. \A e \in Documents : (IF doc'[e].pc = "posted" THEN JournalLines(doc'[e]) ELSE <<>>)
                             = (IF doc[e].pc = "posted" THEN JournalLines(doc[e]) ELSE <<>>)
    BY <2>1, Zenon
  <2> QED
    BY <2>2, <2>3, Zenon DEF Recorded, Is
<1>3. ASSUME NEW d \in Documents, VoucherStep(d) PROVE Recorded'
  <2> USE <1>0
  <2>0. doc[d] \in Document
    OBVIOUS
  <2>1. ASSUME NEW o \in Orders, Receive(d, o) PROVE Recorded'
    <3> DEFINE pc == IF o.kind \in GuidedKinds THEN "lines"
                     ELSE IF o.money # None THEN "vat" ELSE "money"
               v == [Blank EXCEPT !.pc = pc, !.order = o, !.money = o.money, !.vat = o.vat]
    <3>1. v.pc = pc /\ pc # "posted"
      BY DEF Blank
    <3>2. doc' = [doc EXCEPT ![d] = v] /\ doc[d].pc = "new" /\ journals' = journals
      BY <2>1 DEF Receive, Is
    <3> HIDE DEF v, pc
    <3> QED
      BY <3>1, <3>2, NotPosted
  <2>2. CASE FindMoneyAccount(d)
    <3> DEFINE k == DefaultMoneyKey(doc[d].order)
               v == [doc[d] EXCEPT !.pc = IF Holders(k) = {} THEN "failed" ELSE "vat",
                                   !.money = IF Holders(k) = {} THEN None ELSE Holder(k)]
    <3>1. doc' = [doc EXCEPT ![d] = v] /\ doc[d].pc = "money" /\ journals' = journals
      BY <2>2 DEF FindMoneyAccount, Is
    <3>2. v.pc # "posted"
      BY <2>0 DEF Document
    <3> HIDE DEF v
    <3> QED
      BY <3>1, <3>2, NotPosted
  <2>3. ASSUME NEW r \in Requests, CreateMpesaAccount(d, r) PROVE Recorded'
    <3> DEFINE v == [doc[d] EXCEPT !.pc = "mpesa", !.caller = r]
    <3>1. doc' = [doc EXCEPT ![d] = v] /\ doc[d].pc = "money" /\ journals' = journals
      BY <2>3 DEF CreateMpesaAccount, Is
    <3>2. v.pc # "posted"
      BY <2>0 DEF Document
    <3> HIDE DEF v
    <3> QED
      BY <3>1, <3>2, NotPosted
  <2>4. CASE TakeMpesaAccount(d)
    <3> DEFINE found == At(doc[d].caller, "done") /\ Holders("MPESA") # {}
               v == [doc[d] EXCEPT !.pc = IF found THEN "vat" ELSE "failed",
                                   !.money = IF found THEN Holder("MPESA") ELSE None]
    <3>1. doc' = [doc EXCEPT ![d] = v] /\ doc[d].pc = "mpesa" /\ journals' = journals
      BY <2>4 DEF TakeMpesaAccount, Is
    <3>2. v.pc # "posted"
      BY <2>0 DEF Document
    <3> HIDE DEF v
    <3> QED
      BY <3>1, <3>2, NotPosted
  <2>5. CASE FindVatAccount(d)
    <3> DEFINE o == doc[d].order
               key == IF Purchase(o) THEN "VAT_INPUT" ELSE "VAT_OUTPUT"
               needed == o.tax > 0 /\ o.vat = None
               ok == (o.tax > 0 => VatRegistered) /\ (needed => Holders(key) # {})
               v == [doc[d] EXCEPT !.pc = IF ok THEN "lines" ELSE "failed",
                                   !.vat = IF needed /\ ok THEN Holder(key) ELSE @]
    <3>1. doc' = [doc EXCEPT ![d] = v] /\ doc[d].pc = "vat" /\ journals' = journals
      BY <2>5 DEF FindVatAccount, Is
    <3>2. v.pc # "posted"
      BY <2>0 DEF Document
    <3> HIDE DEF v
    <3> QED
      BY <3>1, <3>2, NotPosted
  <2>6. CASE PrepareJournal(d)
    <3> DEFINE ok == \A a \in Accounts(d) : Postable(a)
               v == [doc[d] EXCEPT !.pc = IF ok THEN "prepared" ELSE "failed"]
    <3>1. doc' = [doc EXCEPT ![d] = v] /\ doc[d].pc = "lines" /\ journals' = journals
      BY <2>6 DEF PrepareJournal, Is
    <3>2. v.pc # "posted"
      BY <2>0 DEF Document
    <3> HIDE DEF v
    <3> QED
      BY <3>1, <3>2, NotPosted
  <2>7. CASE CreateJournal(d)
    BY <2>7, PostRecords DEF CreateJournal, Is
  <2>8. CASE NextSequence(d)
    <3> DEFINE v == [doc[d] EXCEPT !.pc = "numbered", !.number = sequence[doc[d].order.kind] + 1]
    <3>1. doc' = [doc EXCEPT ![d] = v] /\ doc[d].pc = "prepared" /\ journals' = journals
      BY <2>8 DEF NextSequence, Is
    <3>2. v.pc # "posted"
      BY <2>0 DEF Document
    <3> HIDE DEF v
    <3> QED
      BY <3>1, <3>2, NotPosted
  <2>9. CASE InsertSettledDocument(d)
    <3>1. doc[d].pc = "numbered"
      BY <2>9 DEF InsertSettledDocument, Is
    <3>2. CASE Post(d)
      BY <3>1, <3>2, PostRecords
    <3>3. CASE doc' = [doc EXCEPT ![d].pc = "failed"] /\ UNCHANGED journals
      <4> DEFINE v == [doc[d] EXCEPT !.pc = "failed"]
      <4>1. doc' = [doc EXCEPT ![d] = v] /\ v.pc # "posted"
        BY <2>0, <3>3 DEF Document
      <4> HIDE DEF v
      <4> QED
        BY <3>1, <3>3, <4>1, NotPosted
    <3> QED
      BY <2>9, <3>2, <3>3 DEF InsertSettledDocument
  <2> QED
    BY <1>3, <2>1, <2>2, <2>3, <2>4, <2>5, <2>6, <2>7, <2>8, <2>9 DEF VoucherStep
<1> QED
  BY <1>1, <1>2, <1>3 DEF VNext

LEMMA RecordedFirst ==
  ASSUME VInit
  PROVE  Recorded
<1>1. doc = [d \in Documents |-> Blank] /\ journals = [d \in Documents |-> <<>>]
  BY DEF VInit
<1>2. Blank.pc # "posted"
  BY DEF Blank
<1>3. ASSUME NEW d \in Documents PROVE ~Is(d, "posted")
  BY <1>1, <1>2 DEF Is
<1> QED
  BY <1>1, <1>3 DEF Recorded

(* What a document, once posted, does to an account. *)
Moves(d, a) == IF d \in Posted THEN Effect(d, a) ELSE 0

LEMMA DocumentMoves ==
  ASSUME VInv, Recorded, NEW d \in Documents, NEW a, NEW side \in Signs
  PROVE  /\ journals[d] # <<>> <=> d \in Posted
         /\ SumLines(journals[d], LAMBDA l : l.debit) = SumLines(journals[d], LAMBDA l : l.credit)
         /\ Moves(d, a) \in Int
         /\ SumLines(journals[d], LAMBDA l : IF l.account = a THEN side * (l.debit - l.credit) ELSE 0)
              = side * Moves(d, a)
<1> DEFINE v == doc[d]  s == journals[d]
<1>1. d \in Posted <=> v.pc = "posted"
  BY DEF Posted, Is
<1>2. CASE d \in Posted
  <2>1. s = JournalLines(v)
    BY <1>1, <1>2 DEF Recorded, Is
  <2>2. v \in Document /\ v.order \in Orders /\ v.money \in Ids
    BY <1>1, <1>2 DEF VInv, Stands
  <2>3. v.order \in Order /\ Valid(v.order) /\ v.vat \in Ids \cup {None}
    BY <2>2 DEF Document
  <2>4. PICK total : total = Total(v.order)
    OBVIOUS
  <2>5. PICK x : x = Moved(v, a)
    OBVIOUS
  <2>6. total > 0
    BY <2>3, <2>4 DEF Valid
  <2>7. Moves(d, a) = x
    BY <1>2, <2>5, Zenon DEF Moves, Effect, MoneyMoved, Moved, Share
  <2> HIDE DEF v, s
  <2>8. Comes(s, total, total, a, side, x)
    BY <2>1, <2>2, <2>3, <2>4, <2>5, JournalComes
  <2>9. /\ s \in Seq(JournalLine) /\ total \in Int /\ x \in Int
        /\ Weight(s, Debits) = total /\ Weight(s, Credits) = total
        /\ Weight(s, OnAccount(a, side)) = side * x
    BY <2>8, Zenon DEF Comes
  <2>10. s # <<>>
    <3>1. ASSUME s = <<>> PROVE FALSE
      <4>1. total = 0
        BY <2>9, <3>1, WeightOfNone, Zenon
      <4> QED
        BY <2>6, <4>1
    <3> QED
      BY <3>1
  <2>11. /\ SumLines(s, LAMBDA l : l.debit) = total /\ SumLines(s, LAMBDA l : l.credit) = total
         /\ SumLines(s, LAMBDA l : IF l.account = a THEN side * (l.debit - l.credit) ELSE 0) = side * x
    BY <2>9, LinesWeigh, Zenon
  <2> QED
    BY <1>2, <2>7, <2>9, <2>10, <2>11, Zenon DEF s
<1>3. CASE d \notin Posted
  <2>1. s = <<>>
    BY <1>1, <1>3 DEF Recorded, Is
  <2>2. Moves(d, a) = 0
    BY <1>3 DEF Moves
  <2>3. s \in Seq(JournalLine) /\ side * 0 = 0 /\ 0 \in Int
    BY <2>1 DEF Signs
  <2> HIDE DEF s
  <2>4. /\ SumLines(s, LAMBDA l : l.debit) = 0 /\ SumLines(s, LAMBDA l : l.credit) = 0
        /\ SumLines(s, LAMBDA l : IF l.account = a THEN side * (l.debit - l.credit) ELSE 0) = 0
    <3>1. Weight(s, Debits) = 0 /\ Weight(s, Credits) = 0 /\ Weight(s, OnAccount(a, side)) = 0
      BY <2>1, WeightOfNone, Zenon
    <3> QED
      BY <2>3, <3>1, LinesWeigh, Zenon
  <2> QED
    BY <1>3, <2>1, <2>2, <2>3, <2>4, Zenon DEF s
<1> QED
  BY <1>2, <1>3

LEMMA BalancesFollow ==
  ASSUME IsFiniteSet(Documents), VInv, Recorded
  PROVE  BalancesFollowDocuments
<1>1. ASSUME NEW d \in Documents
      PROVE  /\ journals[d] # <<>> <=> d \in Posted
             /\ SumLines(journals[d], LAMBDA l : l.debit) = SumLines(journals[d], LAMBDA l : l.credit)
  <2>1. 1 \in Signs
    BY DEF Signs
  <2> QED
    BY <2>1, DocumentMoves, Zenon
<1>2. ASSUME NEW a \in Known
      PROVE  Balance(a) = (IF accounts[a].type \in {"ASSET", "EXPENSE"} THEN 1 ELSE -1)
                            * SumFunction([d \in Posted |-> Effect(d, a)])
  <2> DEFINE side == IF accounts[a].type \in {"ASSET", "EXPENSE"} THEN 1 ELSE -1
  <2>1. side \in Signs
    BY DEF Signs
  <2> DEFINE On(d) == SumLines(journals[d], LAMBDA l :
                          IF l.account = a THEN side * (l.debit - l.credit) ELSE 0)
             f == [d \in Documents |-> Moves(d, a)]
             g == [d \in Documents |-> On(d)]
             h == [d \in Posted |-> Effect(d, a)]
  <2>2. Balance(a) = SumFunction(g)
    BY Zenon DEF Balance
  <2> HIDE DEF side
  <2>3. ASSUME NEW d \in Documents PROVE Moves(d, a) \in Int /\ On(d) = side * Moves(d, a)
    BY <2>1, DocumentMoves, Zenon
  <2> HIDE DEF On
  <2>4. f \in [Documents -> Int]
    BY <2>3
  <2>5. ASSUME NEW d \in Documents PROVE On(d) \in Int
    <3>1. PICK n \in Int : n = Moves(d, a)
      BY <2>3
    <3>2. side * n \in Int
      BY <2>1 DEF Signs
    <3> QED
      BY <2>3, <3>1, <3>2, Zenon
  <2>6. g \in [Documents -> Int]
    BY <2>5
  <2>7. Signed(g, side, f, Documents)
    BY <2>3, Zenon DEF Signed
  <2>8. Posted \in SUBSET Documents /\ (\A d \in Posted : h[d] = f[d] /\ h[d] = Moves(d, a))
        /\ \A d \in Documents \ Posted : f[d] = 0
    BY DEF Moves, Posted
  <2>9. h \in [Posted -> Int]
    BY <2>3, <2>8, ZenonT(30)
  <2> HIDE DEF f, g, h
  <2>10. SumFunction(g) = side * SumFunction(f)
    BY <2>1, <2>4, <2>6, <2>7, SumSigned, ZenonT(30)
  <2>11. PartOf(h, f, Posted, Documents)
    BY <2>4, <2>8, <2>9 DEF PartOf
  <2>13. SumFunction(h) = SumFunction(f)
    BY <2>11, SumPartOf, Zenon
  <2>12. Balance(a) = side * SumFunction(h)
    BY <2>2, <2>10, <2>13, Zenon
  <2> QED
    BY <2>12, Zenon DEF h, side
<1> QED
  BY <1>1, <1>2, Zenon DEF BalancesFollowDocuments

(* The balances of the chart are what the documents say and nothing else:  *)
(* every cash sale, cheque and guided entry that was posted moves its      *)
(* total on its money account once, in its direction, with the income, the *)
(* expense and the tax it names, whatever changed in the chart since.  In  *)
(* the balance of an account the lines are summed as BALANCE_EXPR does.    *)
THEOREM BalancesTellTheDocuments ==
  ASSUME IsFiniteSet(Documents)
  PROVE  VSpec => []BalancesFollowDocuments
<1>1. VInit => Recorded
  BY RecordedFirst
<1>2. VInv /\ Recorded /\ [VNext]_<<vars, docVars>> => Recorded'
  BY RecordedStays
<1>3. VInv /\ Recorded => BalancesFollowDocuments
  BY BalancesFollow
<1> QED
  BY <1>1, <1>2, <1>3, VouchersInductive, PTL DEF VSpec
=============================================================================
