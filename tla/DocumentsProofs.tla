--------------------------- MODULE DocumentsProofs ---------------------------
(***************************************************************************)
(* What Documents promises, for any number of documents, requests, parties *)
(* and items, and whatever they order.                                     *)
(*                                                                         *)
(* None of the properties is inductive: a step writes what its request     *)
(* read and worked out several transactions earlier.  IInv adds what every *)
(* request knows in each of its states, as of which edition of which       *)
(* document (Sound), that a stored line is one which building it again     *)
(* would leave as it is (Built), and what a party's currency rests on      *)
(* (Settled).  The history only grows, so what was true of an edition      *)
(* stays true; the writes have to show that the edition is still the last  *)
(* one, or that they race.                                                 *)
(***************************************************************************)
EXTENDS Documents, Sums

(* A line that was built would be built the same again. *)
Built(l, mode) ==
    /\ l \in StoredLine
    /\ l = BuildLine(LineFromRow(l), mode)
    /\ LineAddsUp(l, mode)
    /\ l.tax > 0 => l.vat # None

Stored(row) ==
    /\ row \in Row
    /\ \A n \in DOMAIN row.lines : Built(row.lines[n], row.mode)
    /\ row.total = ComputeTotal(row.lines)

(* Journals, what has been written, and requests. *)
JournalLine == [account : {None} \cup Accounts, debit : Int, credit : Int,
                party : {None} \cup Parties]

Journal == {j \in [currency : {BaseCurrency}, lines : Seq(JournalLine)] :
                j.lines # <<>> /\ j.lines[1].party \in Parties}

Changes == {None} \cup Patches \cup Nat

Origins == {"create", "convert", "update", "issue", "cancel", "answer"}

Edit == [row : Row, by : Origins, patch : Changes, base : Nat, linesBase : Nat]

Request == [pc : {"new", "read", "checked", "done", "refused"},
            op : {None, "create", "convert", "update", "issue", "item"},
            doc : {None} \cup Docs \cup Items, patch : Changes, row : {None} \cup Row,
            base : Nat, linesBase : Nat, journal : {None} \cup Journal, since : Nat]

TypeOK ==
    /\ party \in [Parties -> Party] /\ item \in [Items -> Item]
    /\ clock \in Nat
    /\ document \in [Docs -> {None} \cup Row]
    /\ history \in [Docs -> Seq(Edit)]
    /\ journals \in [Docs -> Seq(Journal)]
    /\ request \in [Requests -> Request]

(* What is there is what was written last, by edits that keep the origin.  *)
Latest ==
    \A d \in Docs : Exists(d) =>
        history[d] # <<>> /\ document[d] = history[d][Len(history[d])].row

Edits ==
    \A d \in Docs : \A n \in 1 .. Len(history[d]) :
        /\ Stored(history[d][n].row) /\ history[d][n].row.source = history[d][1].row.source
        /\ history[d][n].by = "issue" => history[d][n].base # 0

(* An edition of a document, and what requests have made of one; h is the  *)
(* history.                                                                *)
Edited(h, d, base) == d \in Docs /\ base \in 1 .. Len(h[d])
Read(h, q) == Edited(h, q.doc, q.base) /\ q.row = h[q.doc][q.base].row

Copies(row, old) ==
    /\ \A f \in {"party", "mode", "note", "terms"} : row[f] = old[f]
    /\ row.lines = old.lines /\ row.total = old.total

Copied(h, row, base, linesBase) ==
    /\ Edited(h, row.source, base)
    /\ h[row.source][base].row.response # "DECLINED"
    /\ Copies(row, h[row.source][base].row) \/ linesBase # base

Converted(h) ==
    \A d \in Docs : h[d] # <<>> =>
        /\ h[d][1].by = "convert" => Copied(h, h[d][1].row, h[d][1].base, h[d][1].linesBase)
        /\ h[d][1].row.source # None => h[d][1].by = "convert"

ConvertedOnce ==
    \A u, v \in Docs :
        Exists(u) /\ Exists(v) /\ document[u].source = document[v].source
            => u = v \/ document[u].source = None

(* What a request knows in each of its states. *)
Working(q) == q.pc \in {"read", "checked"}

Creating(q) == Working(q) /\ q.op = "create" => Stored(q.row) /\ q.row.source = None

ReadEstimate(h, q) == q.op = "convert" /\ q.pc = "read" =>
    Read(h, q) /\ q.row.response # "DECLINED"

Converting(h, q) == q.op = "convert" /\ q.pc = "checked" =>
    Stored(q.row) /\ q.row.source # None /\ Copied(h, q.row, q.base, q.linesBase)

ReadEdit(h, q) == q.op = "update" /\ q.pc = "read" => q.patch \in Patches /\ Read(h, q)

Updating(h, q) == q.op = "update" /\ q.pc = "checked" =>
    /\ Edited(h, q.doc, q.base)
    /\ Stored(q.row) /\ q.row.source = h[q.doc][1].row.source
    /\ \/ Follows(q.row, h[q.doc][q.base].row, q.patch)
       \/ q.base < Len(h[q.doc])

ReadIssue(h, q) == Working(q) /\ q.op = "issue" => Read(h, q)

Prepared(h, q) ==
    /\ q.journal.lines[1].party = q.row.party
    /\ q.base <= q.linesBase /\ q.linesBase <= Len(h[q.doc])
    /\ q.linesBase = q.base => Tells(q.journal, q.row)

Issuing(h, q) == q.pc = "checked" /\ q.op = "issue" /\ q.journal # None => Prepared(h, q)

Repricing(q) == Working(q) /\ q.op = "item" => q.doc \in Items /\ q.patch \in {None} \cup Nat

Sound(h, q) ==
    /\ Creating(q) /\ ReadEstimate(h, q) /\ Converting(h, q) /\ ReadEdit(h, q) /\ Updating(h, q)
    /\ ReadIssue(h, q) /\ Issuing(h, q) /\ Repricing(q)

(* Only what is no draft any more is in the ledger. *)
Posted ==
    \A d \in Docs : journals[d] # <<>> =>
        /\ Exists(d) /\ document[d].status # "DRAFT"
        /\ Tells(journals[d][1], document[d]) \/ SameMillisecond(d)

(* A party that a draft, a request or a journal relies on. *)
Held(q, c) == q.row # None /\ q.row.party = c /\ (q.pc = "checked" \/ q.op = "issue")
Drafted(c) == \E d \in Docs : Is(d, "DRAFT") /\ document[d].party = c
Journalled(c) == \E d \in Docs : \E k \in DOMAIN journals[d] : journals[d][k].lines[1].party = c

Fixed(c) == Trades(c) \/ c \in unsettled

Settled ==
    \A c \in Parties :
        Drafted(c) \/ Journalled(c) \/ (\E r \in Requests : Held(request[r], c)) => Fixed(c)

IInv ==
    /\ TypeOK /\ Latest /\ Edits /\ Converted(history) /\ ConvertedOnce
    /\ \A r \in Requests : Sound(history, request[r])
    /\ OverwrittenOnlyInARace /\ Posted /\ Settled

-----------------------------------------------------------------------------
(***************************************************************************)
(* Rounding.                                                               *)
(***************************************************************************)
LEMMA Quotient ==
  ASSUME NEW n \in Int, NEW d \in Nat \ {0}
  PROVE  n \div d \in Int /\ d * (n \div d) <= n /\ n < d * (n \div d) + d
  OBVIOUS

LEMMA TimesMore ==
  ASSUME NEW a \in Int, NEW b \in Int, a <= b, NEW c \in Nat
  PROVE  a * c <= b * c
  <1>1. PICK k \in Nat : b = a + k
    OBVIOUS
  <1>2. k * c \in Nat /\ (a + k) * c = a * c + k * c /\ a * c \in Int
    OBVIOUS
  <1>. QED BY <1>1, <1>2

LEMMA HalfUp ==
  ASSUME NEW n \in Int, NEW d \in Nat \ {0}
  PROVE  LET q == DivideHalfUp(n, d)
         IN  q \in Int /\ 2 * (q * d - n) <= d /\ 0 - d <= 2 * (q * d - n)
  <1>. DEFINE q == DivideHalfUp(n, d)
  <1>1. 2 * d \in Nat \ {0} /\ 2 * n + d \in Int
    OBVIOUS
  <1>2. q \in Int /\ (2 * d) * q <= 2 * n + d /\ 2 * n + d < (2 * d) * q + 2 * d
    BY <1>1, Quotient DEF DivideHalfUp
  <1>3. PICK m \in Int : m = q * d
    BY <1>2
  <1>4. (2 * d) * q = 2 * m
    BY <1>2, <1>3
  <1>. QED  BY <1>2, <1>3, <1>4

LEMMA TimesNat ==
  ASSUME NEW a \in Nat, NEW b \in Nat
  PROVE  a * b \in Nat
  OBVIOUS

LEMMA HalfUpNat ==
  ASSUME NEW n \in Nat, NEW d \in Nat \ {0}
  PROVE  DivideHalfUp(n, d) \in Nat
  <1>1. ASSUME NEW m \in Nat, NEW e \in Nat \ {0} PROVE m \div e \in Nat
    OBVIOUS
  <1>2. 2 * d \in Nat \ {0} /\ 2 * n + d \in Nat
    OBVIOUS
  <1>. QED  BY <1>1, <1>2 DEF DivideHalfUp

LEMMA QuotientZero ==
  ASSUME NEW m \in Nat, NEW e \in Nat, m < e
  PROVE  m \div e = 0
  <1>1. e \in Nat \ {0}
    OBVIOUS
  <1>2. PICK q \in Int : q = m \div e /\ e * q <= m /\ m < e * q + e
    BY <1>1, Quotient
  <1>3. CASE q >= 1
    <2>1. 1 * e <= q * e
      BY <1>1, <1>3, TimesMore
    <2>. QED  BY <1>1, <1>2, <2>1
  <1>4. CASE q <= 0 - 1
    <2>1. q * e <= (0 - 1) * e
      BY <1>1, <1>4, TimesMore
    <2>. QED  BY <1>1, <1>2, <2>1
  <1>. QED  BY <1>2, <1>3, <1>4

LEMMA HalfUpZero ==
  ASSUME NEW d \in Nat \ {0}
  PROVE  DivideHalfUp(0, d) = 0
  <1>1. d \in Nat /\ 2 * d \in Nat /\ d < 2 * d /\ 2 * 0 + d = d
    OBVIOUS
  <1>. QED  BY <1>1, QuotientZero DEF DivideHalfUp

-----------------------------------------------------------------------------
(***************************************************************************)
(* Lines.                                                                  *)
(***************************************************************************)
Priced(line) == line \in Line /\ line.price # None /\ line.account # None

LEMMA AmountNat ==
  ASSUME DocumentsAssumption, NEW quantity \in Nat, NEW price \in Nat, NEW amount \in {None} \cup Nat,
         NEW line, line.quantity = quantity, line.price = price, line.amount = amount
  PROVE  Amount(line) \in Nat
  <1>1. quantity * price \in Nat
    OBVIOUS
  <1>2. DivideHalfUp(quantity * price, 1000) \in Nat
    BY <1>1, HalfUpNat
  <1>. QED  BY <1>2 DEF Amount

LEMMA OneMore ==
  ASSUME NEW a \in Nat, NEW tax \in Nat, NEW w \in Nat, ~(tax <= a)
  PROVE  (a + 1) * w <= tax * w
  BY TimesMore

LEMMA Whole ==
  ASSUME NEW a \in Nat, NEW rate \in Nat, NEW w \in Nat, NEW k \in Nat, w = k + rate
  PROVE  (a + 1) * w = a * rate + k * a + w
  OBVIOUS

LEMMA TooMuch ==
  ASSUME NEW x \in Int, NEW t \in Int, NEW n \in Int, NEW a \in Nat, NEW w \in Nat \ {0},
         NEW k \in Nat, x = n + k * a + w, x <= t, 2 * (t - n) <= w
  PROVE  FALSE
  OBVIOUS

(* Tax that is part of an amount is at most the amount. *)
LEMMA TaxWithin ==
  ASSUME NEW a \in Nat, NEW rate \in Nat, NEW tax \in Nat, NEW w \in Nat, NEW t \in Nat,
         NEW n \in Nat, NEW k \in Nat \ {0}
  PROVE  w = k + rate /\ t = tax * w /\ n = a * rate /\ 2 * (t - n) <= w => tax <= a
  <1>1. SUFFICES ASSUME w = k + rate, t = tax * w, n = a * rate, 2 * (t - n) <= w, ~(tax <= a)
                 PROVE  FALSE
    OBVIOUS
  <1>2. w = k + rate
    BY <1>1
  <1>3. ~(tax <= a)
    BY <1>1
  <1>4. t = tax * w /\ n = a * rate
    BY <1>1
  <1>5. 2 * (t - n) <= w
    BY <1>1
  <1>6. (a + 1) * w = a * rate + k * a + w
    BY <1>2, Whole
  <1>7. (a + 1) * w <= tax * w
    BY <1>3, OneMore
  <1>8. PICK x : x = (a + 1) * w
    OBVIOUS
  <1>9. x = n + k * a + w
    BY <1>4, <1>6, <1>8, Zenon
  <1>10. x <= t
    BY <1>4, <1>7, <1>8, Zenon
  <1>11. w \in Nat \ {0}
    BY <1>2
  <1>12. x \in Int
    BY <1>9
  <1>. QED  BY <1>5, <1>9, <1>10, <1>11, <1>12, TooMuch

(* What of an amount is tax, on top of it or as part of it. *)
LEMMA ShareOf ==
  ASSUME NEW a \in Nat, NEW rate \in Nat, NEW whole \in Nat \ {0}
  PROVE  LET tax == DivideHalfUp(a * rate, whole)
         IN  /\ tax \in Nat /\ Rounded(tax, a, rate, whole)
             /\ \A k \in Nat \ {0} : whole = k + rate => tax <= a
             /\ rate = 0 => tax = 0
  <1>1. rate \in Nat /\ whole \in Nat \ {0}
    OBVIOUS
  <1>2. PICK n, tax : n = a * rate /\ tax = DivideHalfUp(n, whole)
    OBVIOUS
  <1>3. n \in Nat
    BY <1>1, <1>2, TimesNat
  <1>4. tax \in Nat
    BY <1>1, <1>2, <1>3, HalfUpNat
  <1>5. PICK t : t = tax * whole
    OBVIOUS
  <1>6. t \in Nat
    BY <1>1, <1>4, <1>5, TimesNat
  <1>7. 2 * (t - n) <= whole /\ 0 - whole <= 2 * (t - n)
    <2>1. 2 * (tax * whole - n) <= whole /\ 0 - whole <= 2 * (tax * whole - n)
      BY <1>1, <1>2, <1>3, HalfUp
    <2>. QED  BY <1>5, <2>1
  <1>8. Rounded(tax, a, rate, whole)
    <2>1. PICK off : off = t - n
      OBVIOUS
    <2>2. 2 * off <= whole /\ -2 * off <= whole
      BY <1>1, <1>3, <1>6, <1>7, <2>1
    <2>. QED  BY <1>2, <1>5, <2>1, <2>2 DEF Rounded
  <1>9. ASSUME NEW k \in Nat \ {0}, whole = k + rate PROVE tax <= a
    <2>1. whole \in Nat
      BY <1>1
    <2>2. 2 * (t - n) <= whole
      BY <1>7
    <2>. QED  BY <1>2, <1>3, <1>4, <1>5, <1>6, <1>9, <2>1, <2>2, TaxWithin, Zenon
  <1>10. rate = 0 => tax = 0
    <2>1. rate = 0 => n = 0
      BY <1>2
    <2>. QED  BY <1>1, <1>2, <2>1, HalfUpZero
  <1>. QED  BY <1>2, <1>4, <1>8, <1>9, <1>10

LEMMA RateNat ==
  /\ Rates \subseteq Nat /\ 0 \in Rates
  BY DEF Rates, BasisPoints

(* The amounts of a line, whatever the tax mode. *)
LEMMA Computed ==
  ASSUME NEW line, Amount(line) \in Nat, line.rate \in Rates, NEW mode \in TaxModes
  PROVE  LET c == ComputeLine(line, mode)
             rate == IF mode = "NONE" THEN 0 ELSE line.rate
         IN  /\ c = [net |-> c.net, tax |-> c.tax, total |-> c.total]
             /\ c.net \in Nat /\ c.tax \in Nat /\ c.total \in Nat /\ c.total = c.net + c.tax
             /\ Amount(line) = IF mode = "INCLUSIVE" THEN c.total ELSE c.net
             /\ Rounded(c.tax, Amount(line), rate, IF mode = "INCLUSIVE" THEN BasisPoints + rate ELSE BasisPoints)
             /\ rate = 0 => c.tax = 0
  <1>1. PICK a \in Nat : a = Amount(line)
    OBVIOUS
  <1>2. PICK rate : rate = IF mode = "NONE" THEN 0 ELSE line.rate
    OBVIOUS
  <1>3. rate \in Nat
    <2>1. 0 \in Nat /\ line.rate \in Nat
      BY RateNat
    <2>. QED  BY <1>2, <2>1, Zenon
  <1>4. PICK k \in Nat \ {0} : k = BasisPoints
    BY DEF BasisPoints
  <1>5. PICK whole : whole = IF mode = "INCLUSIVE" THEN k + rate ELSE k
    OBVIOUS
  <1>6. whole \in Nat \ {0}
    BY <1>3, <1>4, <1>5
  <1>7. PICK tax : tax = DivideHalfUp(a * rate, whole)
    OBVIOUS
  <1>8. /\ tax \in Nat /\ Rounded(tax, a, rate, whole)
        /\ whole = k + rate => tax <= a
        /\ rate = 0 => tax = 0
    <2>1. k \in Nat \ {0}
      BY <1>4
    <2>. QED  BY <1>3, <1>6, <1>7, <2>1, ShareOf, Zenon
  <1>9. PICK net : net = IF mode = "INCLUSIVE" THEN a - tax ELSE a
    OBVIOUS
  <1>10. ComputeLine(line, mode) = [net |-> net, tax |-> tax, total |-> net + tax]
    BY <1>1, <1>2, <1>4, <1>5, <1>7, <1>9 DEF ComputeLine
  <1>11. net \in Nat /\ net + tax \in Nat /\ a = IF mode = "INCLUSIVE" THEN net + tax ELSE net
    <2>1. CASE mode = "INCLUSIVE"
      <3>1. whole = k + rate /\ net = a - tax
        <4>1. ASSUME NEW x, NEW y PROVE (IF mode = "INCLUSIVE" THEN x ELSE y) = x
          BY <2>1
        <4>. QED  BY <1>5, <1>9, <4>1, Zenon
      <3>. QED  BY <1>8, <2>1, <3>1
    <2>2. CASE mode # "INCLUSIVE"
      BY <1>8, <1>9, <2>2
    <2>. QED  BY <2>1, <2>2
  <1>. QED  BY <1>1, <1>2, <1>4, <1>5, <1>8, <1>10, <1>11

LEMMA BuildLineBuilt ==
  ASSUME DocumentsAssumption, NEW line, Priced(line), NEW mode \in TaxModes
  PROVE  /\ Built(BuildLine(line, mode), mode)
         /\ BuildLine(line, mode).net \in Nat
  <1>. DEFINE b == BuildLine(line, mode)  c == ComputeLine(line, mode)  back == LineFromRow(b)
              rate == IF mode = "NONE" THEN 0 ELSE line.rate
              vat == IF mode # "NONE" /\ line.rate > 0 THEN Either(line.vat, VatAccount) ELSE None
  <1>1. /\ line.item \in {None} \cup Items /\ line.quantity \in Nat \ {0} /\ line.price \in Nat
        /\ line.amount \in {None} \cup Nat /\ line.account \in Accounts /\ line.rate \in Rates
        /\ line.vat \in {None} \cup Accounts
    BY DEF Priced, Line
  <1>2. b = [item |-> line.item, quantity |-> line.quantity, price |-> line.price,
             amount |-> line.amount, account |-> line.account, rate |-> rate, vat |-> vat,
             net |-> c.net, tax |-> c.tax, total |-> c.total]
    BY Zenon DEF BuildLine
  <1>3. Amount(line) \in Nat /\ Amount(b) = Amount(line) /\ Amount(back) = Amount(line)
    <2>1. Amount(line) \in Nat
      BY <1>1, AmountNat
    <2>2. /\ b.amount = line.amount /\ b.quantity = line.quantity /\ b.price = line.price
          /\ back.amount = line.amount /\ back.quantity = line.quantity /\ back.price = line.price
      BY <1>2 DEF LineFromRow
    <2>. QED  BY <2>1, <2>2 DEF Amount
  <1>4. /\ c = [net |-> c.net, tax |-> c.tax, total |-> c.total]
        /\ c.net \in Nat /\ c.tax \in Nat /\ c.total \in Nat /\ c.total = c.net + c.tax
        /\ Amount(line) = IF mode = "INCLUSIVE" THEN c.total ELSE c.net
        /\ Rounded(c.tax, Amount(line), rate, IF mode = "INCLUSIVE" THEN BasisPoints + rate ELSE BasisPoints)
        /\ rate = 0 => c.tax = 0
    BY <1>1, <1>3, Computed, Zenon
  <1>5. b.rate = rate /\ b.vat = vat /\ b.net = c.net /\ b.tax = c.tax /\ b.total = c.total
    BY <1>2
  <1>6. back.rate = rate /\ back.vat = vat
    BY <1>5 DEF LineFromRow
  <1>7. rate \in Rates /\ vat \in {None} \cup Accounts /\ (vat = None => rate = 0)
    <2>1. CASE mode # "NONE" /\ line.rate > 0
      <3>1. vat = Either(line.vat, VatAccount) /\ rate = line.rate
        BY <2>1
      <3>. QED  BY <1>1, <3>1 DEF Either, DocumentsAssumption
    <2>2. CASE ~(mode # "NONE" /\ line.rate > 0)
      <3>1. vat = None
        BY <2>2
      <3>2. rate = 0
        <4>1. line.rate \in Nat /\ (mode = "NONE" \/ ~(line.rate > 0))
          BY <1>1, <2>2, RateNat
        <4>2. mode = "NONE" \/ line.rate = 0
          BY <4>1
        <4>. QED  BY <4>2
      <3>. QED  BY <3>1, <3>2, RateNat
    <2>. QED  BY <2>1, <2>2
  <1>8. b \in StoredLine
    BY <1>1, <1>2, <1>4, <1>7 DEF StoredLine
  <1>9. LineAddsUp(b, mode)
    BY <1>3, <1>4, <1>5 DEF LineAddsUp
  <1>10. b.tax > 0 => b.vat # None
    <2>1. b.vat = None => b.tax = 0
      BY <1>4, <1>5, <1>7
    <2>. QED  BY <2>1
  <1>11. b = BuildLine(back, mode)
    <2>1. ComputeLine(back, mode) = c
      BY <1>3, <1>6 DEF ComputeLine
    <2>2. /\ (IF mode = "NONE" THEN 0 ELSE back.rate) = rate
          /\ (IF mode # "NONE" /\ back.rate > 0 THEN Either(back.vat, VatAccount) ELSE None) = vat
      BY <1>6, <1>7 DEF Either
    <2>3. /\ back.item = line.item /\ back.quantity = line.quantity /\ back.price = line.price
          /\ back.amount = line.amount /\ back.account = line.account
      BY <1>2 DEF LineFromRow
    <2>4. BuildLine(back, mode) =
            [item |-> back.item, quantity |-> back.quantity, price |-> back.price,
             amount |-> back.amount, account |-> back.account, rate |-> rate, vat |-> vat,
             net |-> c.net, tax |-> c.tax, total |-> c.total]
      BY <2>1, <2>2, Zenon DEF BuildLine
    <2>5. BuildLine(back, mode) = b
      <3>. HIDE DEF back, c, rate, vat
      <3>. QED  BY <1>2, <2>3, <2>4, Zenon
    <2>. QED  BY <2>5, Zenon
  <1>12. b.net \in Nat
    BY <1>4, <1>5
  <1>. QED  BY <1>8, <1>9, <1>10, <1>11, <1>12 DEF Built

(* A stored line can be built again, in whatever mode. *)
LEMMA BuiltPriced ==
  ASSUME DocumentsAssumption, NEW l \in StoredLine
  PROVE  Priced(LineFromRow(l))
  <1>1. /\ l.item \in {None} \cup Items /\ l.quantity \in Nat \ {0} /\ l.price \in Nat
        /\ l.amount \in {None} \cup Nat /\ l.account \in Accounts /\ l.rate \in Rates
        /\ l.vat \in {None} \cup Accounts
    BY DEF StoredLine
  <1>2. l.price # None /\ l.account # None
    BY <1>1 DEF DocumentsAssumption
  <1>3. LineFromRow(l) \in Line
    BY <1>1 DEF LineFromRow, Line
  <1>. QED  BY <1>2, <1>3 DEF LineFromRow, Priced

LEMMA ResolvedPriced ==
  ASSUME DocumentsAssumption, item \in [Items -> Item], NEW line \in Line, NEW kind,
         ResolvedPrice(line) # None, ResolvedAccount(line, kind) # None
  PROVE  Priced(ResolveLine(line, kind))
  <1>1. /\ line.item \in {None} \cup Items /\ line.quantity \in Nat \ {0}
        /\ line.price \in {None} \cup Nat /\ line.amount \in {None} \cup Nat
        /\ line.account \in {None} \cup Accounts
    BY DEF Line
  <1>2. ResolvedPrice(line) \in {None} \cup Nat
    <2>1. line.amount # None => UnitPriceFromAmount(line.amount, line.quantity) \in Nat
      <3>1. SUFFICES ASSUME NEW amount \in Nat, amount = line.amount
                     PROVE  UnitPriceFromAmount(amount, line.quantity) \in Nat
        BY <1>1
      <3>2. amount * 1000 \in Nat
        OBVIOUS
      <3>. QED  BY <1>1, <3>2, HalfUpNat DEF UnitPriceFromAmount
    <2>2. line.item # None => item[line.item].price \in {None} \cup Nat
      BY <1>1 DEF Item
    <2>. QED  BY <1>1, <2>1, <2>2, Zenon DEF ResolvedPrice
  <1>3. ResolvedAccount(line, kind) \in {None} \cup Accounts
    <2>1. line.item # None => ItemAccount(line.item, kind) \in {None} \cup Accounts
      BY <1>1 DEF Item, ItemAccount
    <2>. QED  BY <1>1, <2>1, Zenon DEF ResolvedAccount
  <1>. DEFINE p == ResolvedPrice(line)  a == ResolvedAccount(line, kind)
  <1>4. p # None /\ a # None /\ p \in {None} \cup Nat /\ a \in {None} \cup Accounts
    BY <1>2, <1>3
  <1>5. ResolveLine(line, kind) = [line EXCEPT !.price = p, !.account = a]
    BY DEF ResolveLine
  <1>. HIDE DEF p, a
  <1>6. [line EXCEPT !.price = p, !.account = a] \in Line
    BY <1>4 DEF Line
  <1>7. /\ [line EXCEPT !.price = p, !.account = a].price = p
        /\ [line EXCEPT !.price = p, !.account = a].account = a
    BY DEF Line
  <1>. QED  BY <1>4, <1>5, <1>6, <1>7 DEF Priced

LEMMA PricedResolved ==
  ASSUME NEW line, Priced(line), NEW kind
  PROVE  ResolveLine(line, kind) = line
  <1>1. line \in Line /\ ResolvedPrice(line) = line.price /\ ResolvedAccount(line, kind) = line.account
    BY DEF Priced, ResolvedPrice, ResolvedAccount
  <1>2. [line EXCEPT !.price = line.price, !.account = line.account] = line
    BY <1>1 DEF Line
  <1>. QED  BY <1>1, <1>2 DEF ResolveLine

-----------------------------------------------------------------------------
(* Sequences of lines. *)
PricedLines(lines) == lines \in Seq(Line) /\ \A n \in DOMAIN lines : Priced(lines[n])

BuiltLines(lines, mode) ==
    lines \in Seq(StoredLine) /\ \A n \in DOMAIN lines : Built(lines[n], mode)

LEMMA IsSeq ==
  ASSUME NEW S, NEW n \in Nat, NEW f \in [1 .. n -> S]
  PROVE  f \in Seq(S) /\ Len(f) = n /\ DOMAIN f = 1 .. n
  OBVIOUS

LEMMA SumOfLines ==
  ASSUME NEW S, NEW lines \in Seq(S), NEW part \in [DOMAIN lines -> Int]
  PROVE  SumFunction(part) \in Int /\ IsFiniteSet(DOMAIN lines)
  <1>1. DOMAIN lines = 1 .. Len(lines) /\ Len(lines) \in Int
    OBVIOUS
  <1>2. IsFiniteSet(DOMAIN lines)
    BY <1>1, FS_Interval
  <1>. QED  BY <1>2, SumOfInts

LEMMA TotalInt ==
  ASSUME NEW lines \in Seq(StoredLine)
  PROVE  ComputeTotal(lines) \in Int
  <1>. DEFINE nets == [n \in DOMAIN lines |-> lines[n].net]
              taxes == [n \in DOMAIN lines |-> lines[n].tax]
  <1>1. nets \in [DOMAIN lines -> Int] /\ taxes \in [DOMAIN lines -> Int]
    <2>1. \A n \in DOMAIN lines : lines[n] \in StoredLine
      OBVIOUS
    <2>2. \A n \in DOMAIN lines : lines[n].net \in Int /\ lines[n].tax \in Int
      BY <2>1, SMTT(30) DEF StoredLine
    <2>. QED  BY <2>2, Zenon
  <1>2. ComputeTotal(lines) = SumFunction(nets) + SumFunction(taxes)
    BY DEF ComputeTotal, SumOf
  <1>. HIDE DEF nets, taxes
  <1>3. SumFunction(nets) \in Int /\ SumFunction(taxes) \in Int
    BY <1>1, SumOfLines
  <1>. QED  BY <1>2, <1>3

LEMMA LinesBuilt ==
  ASSUME DocumentsAssumption, NEW lines, PricedLines(lines), NEW mode \in TaxModes
  PROVE  /\ BuiltLines(BuildLines(lines, mode), mode)
         /\ Len(BuildLines(lines, mode)) = Len(lines)
         /\ ComputeTotal(BuildLines(lines, mode)) \in Int
  <1>. DEFINE built == BuildLines(lines, mode)
  <1>1. DOMAIN lines = 1 .. Len(lines) /\ Len(lines) \in Nat
    BY DEF PricedLines
  <1>2. \A n \in DOMAIN lines : Built(BuildLine(lines[n], mode), mode)
    BY BuildLineBuilt DEF PricedLines
  <1>3. built = [n \in DOMAIN lines |-> BuildLine(lines[n], mode)]
    BY DEF BuildLines
  <1>. HIDE DEF built
  <1>4. /\ DOMAIN built = 1 .. Len(lines)
        /\ \A n \in DOMAIN built : Built(built[n], mode)
        /\ built \in [1 .. Len(lines) -> StoredLine]
    <2>1. DOMAIN built = DOMAIN lines /\ \A n \in DOMAIN lines : built[n] = BuildLine(lines[n], mode)
      BY <1>3
    <2>2. \A n \in DOMAIN lines : Built(built[n], mode) /\ built[n] \in StoredLine
      BY <1>2, <2>1, Zenon DEF Built
    <2>. QED  BY <1>1, <1>3, <2>1, <2>2
  <1>5. built \in Seq(StoredLine) /\ Len(built) = Len(lines)
    BY <1>1, <1>4, IsSeq
  <1>. QED  BY <1>4, <1>5, TotalInt DEF BuiltLines, built

LEMMA LinesRead ==
  ASSUME DocumentsAssumption, NEW rows \in Seq(StoredLine)
  PROVE  /\ PricedLines(LinesFromRows(rows)) /\ Len(LinesFromRows(rows)) = Len(rows)
         /\ \A mode : BuiltLines(rows, mode) => BuildLines(LinesFromRows(rows), mode) = rows
  <1>. DEFINE lines == LinesFromRows(rows)
  <1>1. DOMAIN rows = 1 .. Len(rows) /\ Len(rows) \in Nat /\ \A n \in DOMAIN rows : rows[n] \in StoredLine
    OBVIOUS
  <1>2. \A n \in DOMAIN rows : Priced(LineFromRow(rows[n]))
    BY <1>1, BuiltPriced
  <1>3. lines = [n \in DOMAIN rows |-> LineFromRow(rows[n])]
    BY DEF LinesFromRows
  <1>. HIDE DEF lines
  <1>4. /\ DOMAIN lines = DOMAIN rows
        /\ \A n \in DOMAIN lines : lines[n] = LineFromRow(rows[n]) /\ Priced(lines[n])
        /\ lines \in [1 .. Len(rows) -> Line]
    <2>1. DOMAIN lines = DOMAIN rows /\ \A n \in DOMAIN rows : lines[n] = LineFromRow(rows[n])
      BY <1>3
    <2>2. \A n \in DOMAIN rows : Priced(lines[n]) /\ lines[n] \in Line
      BY <1>2, <2>1, Zenon DEF Priced
    <2>. QED  BY <1>1, <1>3, <2>1, <2>2
  <1>5. lines \in Seq(Line) /\ Len(lines) = Len(rows)
    BY <1>1, <1>4, IsSeq
  <1>6. ASSUME NEW mode, BuiltLines(rows, mode) PROVE BuildLines(lines, mode) = rows
    <2>1. BuildLines(lines, mode) = [n \in DOMAIN rows |-> BuildLine(LineFromRow(rows[n]), mode)]
      BY <1>4, Zenon DEF BuildLines
    <2>2. \A n \in DOMAIN rows : BuildLine(LineFromRow(rows[n]), mode) = rows[n]
      BY <1>6 DEF BuiltLines, Built
    <2>3. BuildLines(lines, mode) = [n \in DOMAIN rows |-> rows[n]]
      BY <2>1, <2>2, Zenon
    <2>4. rows = [n \in DOMAIN rows |-> rows[n]]
      OBVIOUS
    <2>. QED  BY <2>3, <2>4, Zenon
  <1>. QED  BY <1>4, <1>5, <1>6 DEF PricedLines, lines

LEMMA LinesResolved ==
  ASSUME DocumentsAssumption, item \in [Items -> Item], NEW lines \in Seq(Line), NEW kind,
         NEW allowInactive, Resolvable(lines, kind, allowInactive)
  PROVE  PricedLines(ResolveLines(lines, kind)) /\ Len(ResolveLines(lines, kind)) = Len(lines)
  <1>. DEFINE resolved == ResolveLines(lines, kind)
  <1>1. DOMAIN lines = 1 .. Len(lines) /\ Len(lines) \in Nat /\ \A n \in DOMAIN lines : lines[n] \in Line
    OBVIOUS
  <1>2. \A n \in DOMAIN lines : Priced(ResolveLine(lines[n], kind))
    BY <1>1, ResolvedPriced DEF Resolvable
  <1>3. resolved = [n \in DOMAIN lines |-> ResolveLine(lines[n], kind)]
    BY DEF ResolveLines
  <1>. HIDE DEF resolved
  <1>4. /\ DOMAIN resolved = DOMAIN lines /\ \A n \in DOMAIN resolved : Priced(resolved[n])
        /\ resolved \in [1 .. Len(lines) -> Line]
    <2>1. DOMAIN resolved = DOMAIN lines /\ \A n \in DOMAIN lines : resolved[n] = ResolveLine(lines[n], kind)
      BY <1>3
    <2>2. \A n \in DOMAIN lines : Priced(resolved[n]) /\ resolved[n] \in Line
      BY <1>2, <2>1, ZenonT(30) DEF Priced
    <2>. QED  BY <1>1, <1>3, <2>1, <2>2
  <1>5. resolved \in Seq(Line) /\ Len(resolved) = Len(lines)
    BY <1>1, <1>4, IsSeq
  <1>. QED  BY <1>4, <1>5 DEF PricedLines, resolved

LEMMA LinesKept ==
  ASSUME NEW lines, PricedLines(lines), NEW kind
  PROVE  ResolveLines(lines, kind) = lines
  <1>1. \A n \in DOMAIN lines : ResolveLine(lines[n], kind) = lines[n]
    BY PricedResolved DEF PricedLines
  <1>2. ResolveLines(lines, kind) = [n \in DOMAIN lines |-> lines[n]]
    BY <1>1, Zenon DEF ResolveLines
  <1>3. lines = [n \in DOMAIN lines |-> lines[n]]
    BY DEF PricedLines
  <1>. QED  BY <1>2, <1>3, Zenon

(* A document without lines is no document. *)
LEMMA NothingToBuild ==
  ASSUME NEW mode
  PROVE  ~Buildable(<<>>, mode)
  <1>1. BuildLines(<<>>, mode) = <<>>
    BY DEF BuildLines
  <1>2. ASSUME NEW f, DOMAIN f = {} PROVE SumFunction(f) = 0
    BY <1>2, SumEmpty DEF SumFunction
  <1>3. ComputeTotal(<<>>) = 0 + 0
    BY <1>2 DEF ComputeTotal, SumOf
  <1>. QED  BY <1>1, <1>3 DEF Buildable

-----------------------------------------------------------------------------
(* Rows. *)
LEMMA RowFields ==
  ASSUME NEW row \in Row
  PROVE  /\ row.kind \in Kinds /\ row.status \in {"DRAFT", "ISSUED", "CANCELLED"}
         /\ row.response \in {None, "ACCEPTED", "DECLINED"} /\ row.source \in {None} \cup Docs
         /\ row.party \in Parties /\ row.mode \in TaxModes /\ row.lines \in Seq(StoredLine)
         /\ row.total \in Int /\ row.date \in Nat /\ row.terms \in Nat
         /\ row.due \in {None} \cup Nat /\ row.note \in STRING /\ row.stamp \in Nat
  BY DEF Row

LEMMA StoredSame ==
  ASSUME NEW row, Stored(row), NEW new \in Row,
         new.mode = row.mode, new.lines = row.lines, new.total = row.total
  PROVE  Stored(new)
  BY Zenon DEF Stored

(* What edits leave alone. *)
SameTerms(new, row) ==
    \A f \in {"kind", "source", "party", "mode", "lines", "total", "date", "terms", "due", "note"} :
        new[f] = row[f]

LEMMA Restamped ==
  ASSUME NEW row, Stored(row), NEW stamp \in Nat
  PROVE  LET new == [row EXCEPT !.stamp = stamp]
         IN  /\ Stored(new) /\ new.stamp = stamp /\ SameTerms(new, row)
             /\ new.status = row.status /\ new.response = row.response
  <1>. DEFINE new == [row EXCEPT !.stamp = stamp]
  <1>1. new \in Row /\ SameTerms(new, row)
    BY DEF Row, Stored, SameTerms
  <1>2. new.stamp = stamp /\ new.status = row.status /\ new.response = row.response
    BY DEF Row, Stored
  <1>. HIDE DEF new
  <1>3. new.mode = row.mode /\ new.lines = row.lines /\ new.total = row.total
    BY <1>1 DEF SameTerms
  <1>4. Stored(new)
    BY <1>1, <1>3, StoredSame
  <1>. QED  BY <1>1, <1>2, <1>4 DEF new

LEMMA StatusSet ==
  ASSUME NEW row, Stored(row), NEW status \in {"DRAFT", "ISSUED", "CANCELLED"}
  PROVE  LET new == [row EXCEPT !.status = status]
         IN  /\ Stored(new) /\ new.status = status /\ SameTerms(new, row)
             /\ new.response = row.response /\ new.stamp = row.stamp
  <1>. DEFINE new == [row EXCEPT !.status = status]
  <1>1. new \in Row /\ SameTerms(new, row)
    BY DEF Row, Stored, SameTerms
  <1>2. new.status = status /\ new.response = row.response /\ new.stamp = row.stamp
    BY DEF Row, Stored
  <1>. HIDE DEF new
  <1>3. new.mode = row.mode /\ new.lines = row.lines /\ new.total = row.total
    BY <1>1 DEF SameTerms
  <1>4. Stored(new)
    BY <1>1, <1>3, StoredSame
  <1>. QED  BY <1>1, <1>2, <1>4 DEF new

LEMMA ResponseSet ==
  ASSUME NEW row, Stored(row), NEW response \in {"ACCEPTED", "DECLINED"}
  PROVE  LET new == [row EXCEPT !.response = response]
         IN  Stored(new) /\ SameTerms(new, row) /\ new.status = row.status /\ new.stamp = row.stamp
  <1>. DEFINE new == [row EXCEPT !.response = response]
  <1>1. new \in Row /\ SameTerms(new, row) /\ new.status = row.status /\ new.stamp = row.stamp
    BY DEF Row, Stored, SameTerms
  <1>. HIDE DEF new
  <1>2. new.mode = row.mode /\ new.lines = row.lines /\ new.total = row.total
    BY <1>1 DEF SameTerms
  <1>3. Stored(new)
    BY <1>1, <1>2, StoredSame
  <1>. QED  BY <1>1, <1>3 DEF new

LEMMA DueDateNat ==
  ASSUME NEW kind, NEW date \in Nat, NEW terms \in Nat
  PROVE  DueDate(kind, date, terms) \in {None} \cup Nat
  BY DEF DueDate

LEMMA NewRowStored ==
  ASSUME DocumentsAssumption, NEW o,
         o.kind \in Kinds, o.party \in Parties, o.mode \in TaxModes, o.date \in Nat,
         o.due \in {None} \cup Nat, o.terms \in {None} \cup Nat, o.note \in STRING,
         NEW lines, PricedLines(lines), NEW source \in {None} \cup Docs, NEW p \in [Parties -> Party]
  PROVE  LET row == NewRow(o, lines, source, p)
             built == BuildLines(lines, o.mode)
         IN  /\ Stored(row) /\ row.source = source /\ row.status = "DRAFT" /\ row.kind = o.kind
             /\ row.party = o.party /\ row.mode = o.mode /\ row.note = o.note
             /\ row.lines = built /\ row.total = ComputeTotal(built)
             /\ o.terms # None => row.terms = o.terms
  <1>. DEFINE row == NewRow(o, lines, source, p)
              built == BuildLines(lines, o.mode)
              terms == Either(o.terms, Either(p[o.party].terms, 0))
              due == Either(o.due, DueDate(o.kind, o.date, terms))
              total == ComputeTotal(built)
  <1>1. terms \in Nat
    <2>1. p[o.party].terms \in {None} \cup Nat
      BY DEF Party
    <2>. QED  BY <2>1 DEF Either
  <1>2. due \in {None} \cup Nat
    BY <1>1, DueDateNat DEF Either
  <1>3. BuiltLines(built, o.mode) /\ total \in Int
    BY LinesBuilt, Zenon
  <1>4. o.terms # None => terms = o.terms
    BY DEF Either
  <1>5. row = [kind |-> o.kind, status |-> "DRAFT", response |-> None, source |-> source,
               party |-> o.party, mode |-> o.mode, lines |-> built, total |-> total,
               date |-> o.date, terms |-> terms, due |-> due, note |-> o.note, stamp |-> 0]
    BY Zenon DEF NewRow
  <1>. HIDE DEF row, built, terms, due, total
  <1>6. row \in Row
    BY <1>1, <1>2, <1>3, <1>5 DEF Row, BuiltLines
  <1>7. /\ row.source = source /\ row.status = "DRAFT" /\ row.kind = o.kind
        /\ row.party = o.party /\ row.mode = o.mode /\ row.note = o.note
        /\ row.lines = built /\ row.total = total /\ row.terms = terms
    BY <1>5
  <1>8. Stored(row)
    BY <1>3, <1>6, <1>7, Zenon DEF Stored, BuiltLines, total
  <1>. QED  BY <1>4, <1>7, <1>8 DEF row, built, total

(* The lines of an edit are those it sends or those of the row. *)
Fitting(row, p, lines) ==
    IF p.lines = Keep THEN lines = LinesFromRows(row.lines) ELSE Len(lines) = Len(p.lines)

LEMMA PatchedStored ==
  ASSUME DocumentsAssumption, party \in [Parties -> Party], NEW row, Stored(row), NEW p \in Patches,
         NEW lines, PricedLines(lines)
  PROVE  LET new == Patched(row, p, lines)
         IN  /\ Stored(new) /\ new.source = row.source /\ new.party = Named(p.party, row.party)
             /\ Fitting(row, p, lines) => Follows(new, row, p)
  <1>. DEFINE new == Patched(row, p, lines)
              to == Named(p.party, row.party)
              mode == Named(p.mode, row.mode)
              date == Named(p.date, row.date)
              note == Named(p.note, row.note)
              terms == PatchedTerms(row, p)
              due == PatchedDue(row, p)
              built == BuildLines(lines, mode)
              total == ComputeTotal(built)
  <1>1. /\ p.party \in {Keep} \cup Parties /\ p.mode \in {Keep} \cup TaxModes
        /\ p.date \in {Keep} \cup Nat /\ p.due \in {Keep, None} \cup Nat
        /\ p.terms \in {Keep, None} \cup Nat /\ p.note \in {Keep} \cup STRING
    BY DEF DocumentsAssumption, Patch
  <1>2. row \in Row /\ row.total = ComputeTotal(row.lines) /\ BuiltLines(row.lines, row.mode)
    BY RowFields DEF Stored, BuiltLines
  <1>3. to \in Parties /\ mode \in TaxModes /\ date \in Nat /\ note \in STRING
    BY <1>1, <1>2, RowFields DEF Named
  <1>4. terms \in Nat /\ (p.party = Keep /\ p.terms = Keep => terms = row.terms)
    <2>1. Either(party[to].terms, 0) \in Nat
      BY <1>3 DEF Either, Party
    <2>2. row.terms \in Nat
      BY <1>2, RowFields
    <2>3. CASE p.terms # Keep
      <3>1. terms = Either(p.terms, Either(party[to].terms, 0))
        BY <2>3, Zenon DEF PatchedTerms
      <3>. QED  BY <1>1, <2>1, <2>3, <3>1 DEF Either
    <2>4. CASE p.terms = Keep
      <3>1. terms = IF to # row.party THEN Either(party[to].terms, 0) ELSE row.terms
        BY <2>4, Zenon DEF PatchedTerms
      <3>2. p.party = Keep => to = row.party
        BY DEF Named
      <3>. HIDE DEF terms, to
      <3>. QED  BY <2>1, <2>2, <3>1, <3>2
    <2>. QED  BY <2>3, <2>4
  <1>5. /\ due \in {None} \cup Nat
        /\ (\A f \in {"party", "date", "due", "terms"} : p[f] = Keep) => due = row.due
    <2>1. DueDate(row.kind, date, terms) \in {None} \cup Nat
      BY <1>3, <1>4, DueDateNat
    <2>2. row.due \in {None} \cup Nat
      BY <1>2, RowFields
    <2>3. CASE p.due \notin {Keep, None}
      <3>1. due = p.due
        BY <2>3, Zenon DEF PatchedDue
      <3>. QED  BY <1>1, <2>3, <3>1
    <2>4. CASE p.due \in {Keep, None}
      <3>1. due = IF \E f \in {"due", "date", "party", "terms"} : p[f] # Keep
                  THEN DueDate(row.kind, date, terms) ELSE row.due
        BY <2>4, Zenon DEF PatchedDue
      <3>. HIDE DEF terms, due, date
      <3>. QED  BY <2>1, <2>2, <3>1, Zenon
    <2>. QED  BY <2>3, <2>4
  <1>6. BuiltLines(built, mode) /\ total \in Int /\ Len(built) = Len(lines)
    BY <1>3, LinesBuilt, Zenon
  <1>7. p.lines = Keep /\ p.mode = Keep /\ lines = LinesFromRows(row.lines) => built = row.lines
    <2>1. SUFFICES ASSUME p.lines = Keep, p.mode = Keep, lines = LinesFromRows(row.lines)
                   PROVE  built = row.lines
      OBVIOUS
    <2>2. mode = row.mode /\ lines = LinesFromRows(row.lines)
      BY <2>1 DEF Named
    <2>3. row.lines \in Seq(StoredLine)
      BY <1>2 DEF BuiltLines
    <2>4. BuildLines(LinesFromRows(row.lines), row.mode) = row.lines
      BY <1>2, <2>3, LinesRead
    <2>. QED  BY <2>2, <2>4, Zenon
  <1>8. new = [row EXCEPT !.party = to, !.mode = mode, !.lines = built, !.total = total,
                          !.date = date, !.terms = terms, !.due = due, !.note = note]
    BY Zenon DEF Patched
  <1>. HIDE DEF new, to, mode, date, note, terms, due, built, total
  <1>9. new \in Row
    BY <1>2, <1>3, <1>4, <1>5, <1>6, <1>8 DEF Row, BuiltLines
  <1>10. /\ new.source = row.source /\ new.party = to /\ new.mode = mode /\ new.lines = built
         /\ new.total = total /\ new.date = date /\ new.terms = terms /\ new.due = due
         /\ new.note = note
    BY <1>2, <1>8 DEF Row
  <1>11. Stored(new)
    BY <1>6, <1>9, <1>10, Zenon DEF Stored, BuiltLines, total
  <1>12. ASSUME Fitting(row, p, lines)
         PROVE  Follows(new, row, p)
    <2>1. \A f \in {"party", "mode", "date", "note"} : new[f] = Named(p[f], row[f])
      BY <1>10 DEF to, mode, date, note
    <2>2. p.lines = Keep /\ p.mode = Keep => new.lines = row.lines /\ new.total = row.total
      BY <1>2, <1>7, <1>10, <1>12, Zenon DEF total, Fitting
    <2>3. p.lines # Keep => Len(new.lines) = Len(p.lines)
      BY <1>6, <1>10, <1>12 DEF Fitting
    <2>4. (\A f \in {"party", "date", "due", "terms"} : p[f] = Keep)
            => new.due = row.due /\ new.terms = row.terms
      BY <1>4, <1>5, <1>10
    <2>. QED  BY <2>1, <2>2, <2>3, <2>4 DEF Follows
  <1>. QED  BY <1>10, <1>11, <1>12 DEF new, to

-----------------------------------------------------------------------------
(***************************************************************************)
(* Histories only grow, and what was known of one stays known.             *)
(***************************************************************************)
Histories == [Docs -> Seq(Edit)]

Grows(h, g) ==
    \A d \in Docs : Len(h[d]) <= Len(g[d]) /\ \A n \in 1 .. Len(h[d]) : g[d][n] = h[d][n]

Appended(h, d, e) == [h EXCEPT ![d] = Append(@, e)]

LEMMA HistoryAppended ==
  ASSUME NEW h \in Histories, NEW d \in Docs, NEW e \in Edit
  PROVE  LET g == Appended(h, d, e)
         IN  /\ g \in Histories /\ Grows(h, g)
             /\ Len(h[d]) \in Nat /\ Len(g[d]) = Len(h[d]) + 1 /\ g[d][Len(h[d]) + 1] = e
             /\ \A v \in Docs : v # d => g[v] = h[v]
  <1>. DEFINE g == Appended(h, d, e)
  <1>1. h[d] \in Seq(Edit) /\ Append(h[d], e) \in Seq(Edit)
    BY DEF Histories
  <1>2. g \in Histories /\ g[d] = Append(h[d], e) /\ \A v \in Docs : v # d => g[v] = h[v]
    BY <1>1 DEF Histories, Appended
  <1>3. /\ Len(h[d]) \in Nat /\ Len(g[d]) = Len(h[d]) + 1 /\ g[d][Len(h[d]) + 1] = e
        /\ \A n \in 1 .. Len(h[d]) : g[d][n] = h[d][n]
    BY <1>1, <1>2
  <1>. HIDE DEF g
  <1>4. \A v \in Docs : Len(h[v]) \in Nat
    BY DEF Histories
  <1>5. Grows(h, g)
    BY <1>2, <1>3, <1>4 DEF Grows
  <1>. QED  BY <1>2, <1>3, <1>5 DEF g

LEMMA EditedStays ==
  ASSUME NEW h \in Histories, NEW g \in Histories, Grows(h, g), NEW d, NEW base, Edited(h, d, base)
  PROVE  /\ Edited(g, d, base) /\ g[d][base] = h[d][base] /\ g[d][1] = h[d][1]
         /\ d \in Docs /\ Len(h[d]) \in Nat /\ Len(g[d]) \in Nat /\ Len(h[d]) <= Len(g[d])
         /\ base \in 1 .. Len(h[d])
  <1>1. d \in Docs /\ base \in 1 .. Len(h[d])
    BY DEF Edited
  <1>2. Len(h[d]) \in Nat /\ Len(g[d]) \in Nat
    BY <1>1 DEF Histories
  <1>3. 1 \in 1 .. Len(h[d])
    BY <1>1, <1>2
  <1>. QED  BY <1>1, <1>2, <1>3 DEF Grows, Edited

LEMMA CopiedStays ==
  ASSUME NEW h \in Histories, NEW g \in Histories, Grows(h, g), NEW row, NEW base, NEW linesBase,
         Copied(h, row, base, linesBase)
  PROVE  Copied(g, row, base, linesBase)
  <1>1. Edited(g, row.source, base) /\ g[row.source][base] = h[row.source][base]
    BY EditedStays DEF Copied
  <1>. QED  BY <1>1 DEF Copied

LEMMA ReadStays ==
  ASSUME NEW h \in Histories, NEW g \in Histories, Grows(h, g), NEW q, Read(h, q)
  PROVE  Read(g, q)
  <1>1. Edited(g, q.doc, q.base) /\ g[q.doc][q.base] = h[q.doc][q.base]
    BY EditedStays DEF Read
  <1>. QED  BY <1>1 DEF Read

LEMMA SoundStays ==
  ASSUME NEW h \in Histories, NEW g \in Histories, Grows(h, g), NEW q \in Request, Sound(h, q)
  PROVE  Sound(g, q)
  <1>1. ReadEstimate(g, q)
    BY ReadStays DEF Sound, ReadEstimate
  <1>2. Converting(g, q)
    BY CopiedStays DEF Sound, Converting
  <1>3. ReadEdit(g, q)
    BY ReadStays DEF Sound, ReadEdit
  <1>4. Updating(g, q)
    <2>1. SUFFICES ASSUME q.op = "update", q.pc = "checked"
                   PROVE  /\ Edited(g, q.doc, q.base)
                          /\ Stored(q.row) /\ q.row.source = g[q.doc][1].row.source
                          /\ \/ Follows(q.row, g[q.doc][q.base].row, q.patch)
                             \/ q.base < Len(g[q.doc])
      BY DEF Updating
    <2>2. /\ Edited(h, q.doc, q.base)
          /\ Stored(q.row) /\ q.row.source = h[q.doc][1].row.source
          /\ \/ Follows(q.row, h[q.doc][q.base].row, q.patch)
             \/ q.base < Len(h[q.doc])
      BY <2>1 DEF Sound, Updating
    <2>3. /\ Edited(g, q.doc, q.base) /\ g[q.doc][q.base] = h[q.doc][q.base]
          /\ g[q.doc][1] = h[q.doc][1] /\ Len(h[q.doc]) \in Nat /\ Len(g[q.doc]) \in Nat
          /\ Len(h[q.doc]) <= Len(g[q.doc]) /\ q.base \in 1 .. Len(h[q.doc])
      BY <2>2, EditedStays
    <2>4. q.base < Len(h[q.doc]) => q.base < Len(g[q.doc])
      BY <2>3
    <2>. QED  BY <2>2, <2>3, <2>4, Zenon
  <1>5. ReadIssue(g, q)
    BY ReadStays DEF Sound, ReadIssue
  <1>6. Issuing(g, q)
    <2>1. SUFFICES ASSUME q.pc = "checked", q.op = "issue", q.journal # None PROVE Prepared(g, q)
      BY DEF Issuing
    <2>2. Prepared(h, q) /\ Edited(h, q.doc, q.base)
      BY <2>1 DEF Sound, Issuing, ReadIssue, Read, Working
    <2>3. Len(h[q.doc]) \in Nat /\ Len(g[q.doc]) \in Nat /\ Len(h[q.doc]) <= Len(g[q.doc])
      BY <2>2, EditedStays
    <2>4. q.linesBase \in Nat
      BY DEF Request
    <2>5. q.linesBase <= Len(h[q.doc]) => q.linesBase <= Len(g[q.doc])
      BY <2>3, <2>4
    <2>. QED  BY <2>2, <2>5 DEF Prepared
  <1>. QED  BY <1>1, <1>2, <1>3, <1>4, <1>5, <1>6 DEF Sound

-----------------------------------------------------------------------------
(***************************************************************************)
(* Steps that change what one request knows, and nothing that is stored.   *)
(***************************************************************************)
Thinks(r, q) ==
    /\ request' = [request EXCEPT ![r] = q]
    /\ UNCHANGED <<document, journals, history, party, unsettled>>

LEMMA RequestSet ==
  ASSUME NEW r \in Requests, NEW q \in Request, request \in [Requests -> Request],
         request' = [request EXCEPT ![r] = q]
  PROVE  /\ request' \in [Requests -> Request] /\ request'[r] = q
         /\ \A s \in Requests : s # r => request'[s] = request[s]
  OBVIOUS

LEMMA Thinking ==
  ASSUME IInv, NEW r \in Requests, NEW q \in Request, Thinks(r, q), Sound(history, q),
         item' \in [Items -> Item], clock' \in Nat,
         \A c \in Parties : Held(q, c) => Held(request[r], c) \/ Drafted(c) \/ Fixed(c)
  PROVE  IInv'
  <1>1. /\ request' \in [Requests -> Request] /\ request'[r] = q
        /\ \A s \in Requests : s # r => request'[s] = request[s]
    BY RequestSet DEF IInv, TypeOK, Thinks
  <1>2. /\ document' = document /\ journals' = journals /\ history' = history /\ party' = party
        /\ unsettled' = unsettled
    BY DEF Thinks
  <1>3. TypeOK'
    BY <1>1, <1>2 DEF IInv, TypeOK
  <1>4. Latest' /\ Edits' /\ ConvertedOnce' /\ Posted'
    BY <1>2 DEF IInv, Latest, Edits, ConvertedOnce, Posted, Exists, SameMillisecond
  <1>5. Converted(history') /\ OverwrittenOnlyInARace'
    BY <1>2 DEF IInv, OverwrittenOnlyInARace
  <1>6. \A s \in Requests : Sound(history', request'[s])
    BY <1>1, <1>2 DEF IInv
  <1>7. Settled'
    <2>1. /\ \A c : Drafted(c)' <=> Drafted(c)
          /\ \A c : Journalled(c)' <=> Journalled(c)
          /\ \A c : Fixed(c)' <=> Fixed(c)
      BY <1>2 DEF Drafted, Journalled, Fixed, Is, Trades
    <2>2. ASSUME NEW c \in Parties, NEW s \in Requests, Held(request'[s], c)
          PROVE  Fixed(c)
      <3>1. Held(request[s], c) \/ Drafted(c) \/ Fixed(c)
        BY <1>1, <2>2
      <3>. QED  BY <3>1 DEF IInv, Settled
    <2>. QED  BY <2>1, <2>2 DEF IInv, Settled
  <1>. QED  BY <1>3, <1>4, <1>5, <1>6, <1>7 DEF IInv

(* A request that is over knows nothing and holds nothing. *)
LEMMA Resting ==
  ASSUME NEW pc \in {"refused", "done"}
  PROVE  LET q == [Idle EXCEPT !.pc = pc]
         IN  q \in Request /\ (\A h : Sound(h, q)) /\ (\A c : ~Held(q, c))
  <1>. DEFINE q == [Idle EXCEPT !.pc = pc]
  <1>1. q \in Request /\ q.pc = pc /\ q.row = None
    BY DEF Idle, Request, Changes
  <1>. HIDE DEF q
  <1>2. \A h : Sound(h, q)
    BY <1>1 DEF Sound, Creating, ReadEstimate, Converting, ReadEdit, Updating, ReadIssue, Issuing,
                Repricing, Working
  <1>3. \A c : ~Held(q, c)
    BY <1>1 DEF Held
  <1>. QED  BY <1>1, <1>2, <1>3 DEF q

LEMMA Refusing ==
  ASSUME IInv, NEW r \in Requests, Refuse(r),
         UNCHANGED <<document, journals, party, item, clock, history, unsettled>>
  PROVE  IInv'
  <1>. DEFINE q == [Idle EXCEPT !.pc = "refused"]
  <1>1. q \in Request /\ Sound(history, q) /\ \A c : ~Held(q, c)
    BY Resting
  <1>2. Thinks(r, q)
    BY DEF Thinks, Refuse
  <1>3. item' \in [Items -> Item] /\ clock' \in Nat
    BY DEF IInv, TypeOK
  <1>. HIDE DEF q
  <1>. QED  BY <1>1, <1>2, <1>3, Thinking

-----------------------------------------------------------------------------
(***************************************************************************)
(* Steps that write a row.                                                 *)
(***************************************************************************)
Writes(r, d, e) ==
    /\ history' = Appended(history, d, e)
    /\ document' = [document EXCEPT ![d] = e.row]
    /\ request' = [request EXCEPT ![r] = [Idle EXCEPT !.pc = "done"]]
    /\ UNCHANGED <<party, item, clock, unsettled>>

(* An edit that can be written to a document as it is now. *)
Fits(d, e) ==
    /\ e \in Edit /\ Stored(e.row)
    /\ history[d] # <<>> => e.row.source = history[d][1].row.source
    /\ history[d] = <<>> => /\ e.by = "convert" => Copied(history, e.row, e.base, e.linesBase)
                            /\ e.row.source # None => e.by = "convert"
    /\ \A v \in Docs : v # d /\ Exists(v) /\ document[v].source = e.row.source => e.row.source = None
    /\ e.by = "update" /\ history[d] # <<>> =>
            Follows(e.row, history[d][Len(history[d])].row, e.patch) \/ e.base < Len(history[d])
    /\ e.row.status = "DRAFT" => Fixed(e.row.party)
    /\ e.by = "issue" => e.base # 0

(* What its journals are then. *)
Posts(d, row) ==
    /\ journals' \in [Docs -> Seq(Journal)]
    /\ \A v \in Docs : v # d => journals'[v] = journals[v]
    /\ journals'[d] # <<>> =>
            row.status # "DRAFT" /\ (Tells(journals'[d][1], row) \/ SameMillisecond(d)')
    /\ \A k \in DOMAIN journals'[d] :
            \/ Fixed(journals'[d][k].lines[1].party)
            \/ Journalled(journals'[d][k].lines[1].party)

LEMMA Writing ==
  ASSUME DocumentsAssumption, IInv, NEW r \in Requests, NEW d \in Docs, NEW e,
         Writes(r, d, e), Fits(d, e), Posts(d, e.row)
  PROVE  IInv'
  <1>. DEFINE q == [Idle EXCEPT !.pc = "done"]  L == Len(history[d])
  <1>1. q \in Request /\ (\A h : Sound(h, q)) /\ \A c : ~Held(q, c)
    BY Resting
  <1>2. request' = [request EXCEPT ![r] = q]
    BY DEF Writes
  <1>. HIDE DEF q
  <1>3. /\ request' \in [Requests -> Request] /\ request'[r] = q
        /\ \A s \in Requests : s # r => request'[s] = request[s]
    BY <1>1, <1>2, RequestSet DEF IInv, TypeOK
  <1>4. history \in Histories
    BY DEF IInv, TypeOK, Histories
  <1>5. e \in Edit /\ Stored(e.row) /\ e.row \in Row /\ e.row # None
    BY DEF Fits, Stored, DocumentsAssumption
  <1>6. /\ history' \in Histories /\ Grows(history, history')
        /\ L \in Nat /\ Len(history'[d]) = L + 1 /\ history'[d][L + 1] = e
        /\ \A v \in Docs : v # d => history'[v] = history[v]
    <2>1. history' = Appended(history, d, e)
      BY DEF Writes
    <2>. QED  BY <1>4, <1>5, <2>1, HistoryAppended
  <1>7. /\ document' \in [Docs -> {None} \cup Row] /\ document'[d] = e.row
        /\ \A v \in Docs : v # d => document'[v] = document[v]
    BY <1>5 DEF Writes, IInv, TypeOK
  <1>8. \A n \in 1 .. L : history'[d][n] = history[d][n]
    BY <1>6 DEF Grows
  <1>9. history[d] = <<>> <=> L = 0
    BY <1>4 DEF Histories
  <1>10. history'[d][1] = IF history[d] = <<>> THEN e ELSE history[d][1]
    <2>1. CASE L = 0
      BY <1>6, <1>9, <2>1
    <2>2. CASE L # 0
      <3>1. 1 \in 1 .. L
        BY <1>6, <2>2
      <3>. QED  BY <1>8, <1>9, <2>2, <3>1
    <2>. QED  BY <2>1, <2>2
  <1>11. TypeOK'
    BY <1>3, <1>6, <1>7 DEF IInv, TypeOK, Writes, Posts, Histories
  <1>12. Latest'
    <2>1. ASSUME NEW v \in Docs, document'[v] # None
          PROVE  history'[v] # <<>> /\ document'[v] = history'[v][Len(history'[v])].row
      <3>1. CASE v = d
        <4>1. history'[d] # <<>>
          BY <1>6
        <4>. QED  BY <1>6, <1>7, <3>1, <4>1
      <3>2. CASE v # d
        <4>1. document'[v] = document[v] /\ history'[v] = history[v]
          BY <1>6, <1>7, <3>2
        <4>. QED  BY <2>1, <4>1 DEF IInv, Latest, Exists
      <3>. QED  BY <3>1, <3>2
    <2>. QED  BY <2>1 DEF Latest, Exists
  <1>13. Edits'
    <2>1. ASSUME NEW v \in Docs, NEW n \in 1 .. Len(history'[v])
          PROVE  /\ Stored(history'[v][n].row) /\ history'[v][n].row.source = history'[v][1].row.source
                 /\ history'[v][n].by = "issue" => history'[v][n].base # 0
      <3>1. CASE v = d
        <4>1. CASE n = L + 1
          <5>1. history'[v][n] = e
            BY <1>6, <3>1, <4>1
          <5>2. e.row.source = history'[v][1].row.source /\ (e.by = "issue" => e.base # 0)
            BY <1>10, <3>1 DEF Fits
          <5>. QED  BY <1>5, <5>1, <5>2
        <4>2. CASE n # L + 1
          <5>1. n \in 1 .. L
            BY <1>6, <2>1, <3>1, <4>2
          <5>2. history'[d][n] = history[d][n] /\ history'[d][1] = history[d][1]
            BY <1>6, <1>8, <1>9, <1>10, <5>1
          <5>. QED  BY <3>1, <5>1, <5>2 DEF IInv, Edits
        <4>. QED  BY <4>1, <4>2
      <3>2. CASE v # d
        <4>1. history'[v] = history[v]
          BY <1>6, <3>2
        <4>. QED  BY <2>1, <4>1 DEF IInv, Edits
      <3>. QED  BY <3>1, <3>2
    <2>. QED  BY <2>1 DEF Edits
  <1>14. Converted(history')
    <2>1. ASSUME NEW v \in Docs, history'[v] # <<>>
          PROVE  LET new == history'[v][1]
                 IN  /\ new.by = "convert" => Copied(history', new.row, new.base, new.linesBase)
                     /\ new.row.source # None => new.by = "convert"
      <3>. DEFINE new == history'[v][1]
      <3>1. /\ new.by = "convert" => Copied(history, new.row, new.base, new.linesBase)
            /\ new.row.source # None => new.by = "convert"
        <4>1. CASE v = d /\ history[d] = <<>>
          BY <1>10, <4>1 DEF Fits
        <4>2. CASE v # d \/ history[d] # <<>>
          <5>1. new = history[v][1] /\ history[v] # <<>>
            BY <1>6, <1>10, <2>1, <4>2
          <5>. HIDE DEF new
          <5>. QED  BY <5>1 DEF IInv, Converted
        <4>. QED  BY <4>1, <4>2
      <3>2. \A row, base, linesBase :
              Copied(history, row, base, linesBase) => Copied(history', row, base, linesBase)
        BY <1>4, <1>6, CopiedStays
      <3>. QED  BY <3>1, <3>2
    <2>. QED  BY <2>1 DEF Converted
  <1>15. ConvertedOnce'
    <2>1. ASSUME NEW u \in Docs, NEW v \in Docs, document'[u] # None, document'[v] # None,
                 document'[u].source = document'[v].source
          PROVE  u = v \/ document'[u].source = None
      <3>1. \A w \in Docs : w # d /\ document'[w] # None /\ document'[w].source = e.row.source
                => e.row.source = None
        BY <1>7 DEF Fits, Exists
      <3>2. CASE u = d \/ v = d
        BY <1>7, <2>1, <3>1, <3>2
      <3>3. CASE u # d /\ v # d
        <4>1. document'[u] = document[u] /\ document'[v] = document[v]
          BY <1>7, <3>3
        <4>. QED  BY <2>1, <4>1 DEF IInv, ConvertedOnce, Exists
      <3>. QED  BY <3>2, <3>3
    <2>. QED  BY <2>1 DEF ConvertedOnce, Exists
  <1>16. \A s \in Requests : Sound(history', request'[s])
    <2>1. ASSUME NEW s \in Requests, s # r PROVE Sound(history', request[s])
      <3>1. request[s] \in Request /\ Sound(history, request[s])
        BY DEF IInv, TypeOK
      <3>. QED  BY <1>4, <1>6, <3>1, SoundStays
    <2>. QED  BY <1>1, <1>3, <2>1
  <1>17. OverwrittenOnlyInARace'
    <2>1. ASSUME NEW v \in Docs, NEW n \in 2 .. Len(history'[v]), history'[v][n].by = "update"
          PROVE  \/ Follows(history'[v][n].row, history'[v][n - 1].row, history'[v][n].patch)
                 \/ history'[v][n].base < n - 1
      <3>1. CASE v = d /\ n = L + 1
        <4>1. history'[v][n] = e
          BY <1>6, <3>1
        <4>2. L \in 1 .. L /\ n - 1 = L
          BY <1>6, <2>1, <3>1
        <4>3. history'[v][n - 1] = history[d][L] /\ history[d] # <<>>
          BY <1>6, <1>8, <1>9, <3>1, <4>2
        <4>. QED  BY <2>1, <4>1, <4>2, <4>3 DEF Fits
      <3>2. CASE v # d \/ n # L + 1
        <4>1. n \in 2 .. Len(history[v]) /\ n \in 1 .. Len(history[v]) /\ n - 1 \in 1 .. Len(history[v])
          <5>1. CASE v = d
            BY <1>6, <2>1, <3>2, <5>1
          <5>2. CASE v # d
            <6>1. history'[v] = history[v] /\ Len(history[v]) \in Nat
              BY <1>4, <1>6, <5>2 DEF Histories
            <6>. QED  BY <2>1, <6>1
          <5>. QED  BY <5>1, <5>2
        <4>2. history'[v][n] = history[v][n] /\ history'[v][n - 1] = history[v][n - 1]
          BY <1>6, <4>1 DEF Grows
        <4>. QED  BY <2>1, <4>1, <4>2 DEF IInv, OverwrittenOnlyInARace
      <3>. QED  BY <3>1, <3>2
    <2>. QED  BY <2>1 DEF OverwrittenOnlyInARace
  <1>18. Posted'
    <2>1. ASSUME NEW v \in Docs, journals'[v] # <<>>
          PROVE  /\ document'[v] # None /\ document'[v].status # "DRAFT"
                 /\ Tells(journals'[v][1], document'[v]) \/ SameMillisecond(v)'
      <3>1. CASE v = d
        BY <1>5, <1>7, <2>1, <3>1 DEF Posts
      <3>2. CASE v # d
        <4>1. journals'[v] = journals[v] /\ document'[v] = document[v] /\ history'[v] = history[v]
          BY <1>6, <1>7, <3>2 DEF Posts
        <4>2. SameMillisecond(v)' <=> SameMillisecond(v)
          BY <4>1 DEF SameMillisecond
        <4>. QED  BY <2>1, <4>1, <4>2 DEF IInv, Posted, Exists
      <3>. QED  BY <3>1, <3>2
    <2>. QED  BY <2>1 DEF Posted, Exists
  <1>19. Settled'
    <2>1. \A c : Fixed(c)' <=> Fixed(c)
      BY DEF Fixed, Trades, Writes
    <2>2. ASSUME NEW c \in Parties, NEW v \in Docs, document'[v] # None,
                 document'[v].status = "DRAFT", document'[v].party = c
          PROVE  Fixed(c)
      <3>1. CASE v = d
        BY <1>7, <2>2, <3>1 DEF Fits
      <3>2. CASE v # d
        <4>1. document'[v] = document[v]
          BY <1>7, <3>2
        <4>. QED  BY <2>2, <4>1 DEF IInv, Settled, Drafted, Is
      <3>. QED  BY <3>1, <3>2
    <2>3. ASSUME NEW c \in Parties, NEW v \in Docs, NEW k \in DOMAIN journals'[v],
                 journals'[v][k].lines[1].party = c
          PROVE  Fixed(c)
      <3>1. CASE v = d
        <4>1. Fixed(c) \/ Journalled(c)
          BY <2>3, <3>1 DEF Posts
        <4>. QED  BY <4>1 DEF IInv, Settled
      <3>2. CASE v # d
        <4>1. journals'[v] = journals[v]
          BY <3>2 DEF Posts
        <4>. QED  BY <2>3, <4>1 DEF IInv, Settled, Journalled
      <3>. QED  BY <3>1, <3>2
    <2>4. ASSUME NEW c \in Parties, NEW s \in Requests, Held(request'[s], c)
          PROVE  Fixed(c)
      <3>1. Held(request[s], c)
        BY <1>1, <1>3, <2>4
      <3>. QED  BY <3>1 DEF IInv, Settled
    <2>. QED  BY <2>1, <2>2, <2>3, <2>4 DEF Settled, Drafted, Journalled, Is
  <1>. QED  BY <1>11, <1>12, <1>13, <1>14, <1>15, <1>16, <1>17, <1>18, <1>19 DEF IInv

-----------------------------------------------------------------------------
(***************************************************************************)
(* The actions.                                                            *)
(***************************************************************************)
LEMMA Current ==
  ASSUME IInv, NEW d \in Docs, Exists(d)
  PROVE  /\ Stored(document[d]) /\ document[d] \in Row /\ Edited(history, d, Edition(d))
         /\ document[d] = history[d][Edition(d)].row /\ history[d] # <<>>
         /\ document[d].source = history[d][1].row.source
  <1>1. history[d] \in Seq(Edit) /\ history[d] # <<>> /\ document[d] = history[d][Edition(d)].row
    BY DEF IInv, TypeOK, Latest, Edition
  <1>2. Edition(d) \in 1 .. Len(history[d])
    BY <1>1 DEF Edition
  <1>. QED  BY <1>1, <1>2 DEF IInv, Edits, Stored, Edited

LEMMA EditionStored ==
  ASSUME IInv, NEW d, NEW base, Edited(history, d, base)
  PROVE  Stored(history[d][base].row) /\ history[d][base].row.source = history[d][1].row.source
  BY DEF IInv, Edits, Edited

LEMMA OrderFields ==
  ASSUME DocumentsAssumption, NEW o \in Order
  PROVE  /\ o.kind \in Kinds /\ o.party \in Parties /\ o.mode \in TaxModes /\ o.date \in Nat
         /\ o.due \in {None} \cup Nat /\ o.terms \in {None} \cup Nat /\ o.note \in STRING
         /\ o.lines \in Seq(Line)
  BY DEF Order

LEMMA Creates ==
  ASSUME DocumentsAssumption, IInv, NEW r \in Requests, NEW o \in Orders, CheckCreate(r, o)
  PROVE  IInv'
  <1>1. CASE ~Creatable(o)
    BY <1>1, Refusing DEF CheckCreate
  <1>2. CASE Creatable(o)
    <2>. DEFINE row == NewRow(o, ResolveLines(o.lines, o.kind), None, party)
                q == [Idle EXCEPT !.pc = "checked", !.op = "create", !.since = clock, !.row = row]
    <2>1. item \in [Items -> Item] /\ party \in [Parties -> Party] /\ clock \in Nat
      BY DEF IInv, TypeOK
    <2>2. o \in Order
      BY DEF DocumentsAssumption
    <2>3. PricedLines(ResolveLines(o.lines, o.kind))
      BY <1>2, <2>1, <2>2, OrderFields, LinesResolved DEF Creatable
    <2>4. None \in {None} \cup Docs
      OBVIOUS
    <2>5. Stored(row) /\ row.source = None /\ row.party = o.party
      BY <2>1, <2>2, <2>3, <2>4, OrderFields, NewRowStored
    <2>6. Thinks(r, q)
      BY <1>2, Zenon DEF CheckCreate, Thinks
    <2>7. item' \in [Items -> Item] /\ clock' \in Nat
      BY <2>1 DEF CheckCreate
    <2>. HIDE DEF row
    <2>8. q \in Request /\ q.pc = "checked" /\ q.op = "create" /\ q.row = row
      BY <2>1, <2>5 DEF Idle, Request, Changes, Stored
    <2>. HIDE DEF q
    <2>9. Sound(history, q)
      BY <2>5, <2>8 DEF Sound, Creating, ReadEstimate, Converting, ReadEdit, Updating, ReadIssue,
                        Issuing, Repricing
    <2>10. \A c \in Parties : Held(q, c) => Fixed(c)
      BY <1>2, <2>5, <2>8 DEF Held, Fixed, Creatable
    <2>. QED  BY <2>6, <2>7, <2>8, <2>9, <2>10, Thinking
  <1>. QED  BY <1>1, <1>2

LEMMA ReadsProforma ==
  ASSUME DocumentsAssumption, IInv, NEW r \in Requests, NEW p \in Docs, ReadProforma(r, p)
  PROVE  IInv'
  <1>1. CASE ~Convertible(document[p])
    BY <1>1, Refusing DEF ReadProforma
  <1>2. CASE Convertible(document[p])
    <2>. DEFINE row == document[p]  base == Edition(p)
                q == [Idle EXCEPT !.pc = "read", !.op = "convert", !.doc = p, !.row = row, !.base = base]
    <2>1. item \in [Items -> Item] /\ clock \in Nat
      BY DEF IInv, TypeOK
    <2>2. row \in Row /\ row = history[p][base].row /\ Edited(history, p, base)
      BY Current DEF ReadProforma
    <2>3. base \in Nat
      BY DEF Edition, IInv, TypeOK
    <2>4. Thinks(r, q)
      BY <1>2, Zenon DEF ReadProforma, Thinks
    <2>5. item' \in [Items -> Item] /\ clock' \in Nat
      BY <2>1 DEF ReadProforma
    <2>6. row.response # "DECLINED"
      BY <1>2 DEF Convertible
    <2>. HIDE DEF row, base
    <2>7. /\ q \in Request /\ q.pc = "read" /\ q.op = "convert" /\ q.row = row /\ q.doc = p
          /\ q.base = base
      BY <2>2, <2>3 DEF Idle, Request, Changes
    <2>. HIDE DEF q
    <2>8. Sound(history, q)
      BY <2>2, <2>6, <2>7 DEF Sound, Creating, ReadEstimate, Converting, ReadEdit, Updating, ReadIssue,
                              Issuing, Repricing, Read
    <2>9. \A c \in Parties : ~Held(q, c)
      BY <2>7 DEF Held
    <2>. QED  BY <2>4, <2>5, <2>7, <2>8, <2>9, Thinking
  <1>. QED  BY <1>1, <1>2

LEMMA Converts ==
  ASSUME DocumentsAssumption, IInv, NEW r \in Requests, NEW today \in Nat, CheckConvert(r, today)
  PROVE  IInv'
  <1>. DEFINE p == request[r].doc
              row == request[r].row
              base == request[r].base
              linesBase == Edition(p)
              stored == IF Exists(p) THEN document[p].lines ELSE <<>>
              lines == LinesFromRows(stored)
              order == [row EXCEPT !.kind = "INVOICE", !.date = today, !.due = None]
              resolved == ResolveLines(lines, "INVOICE")
              new == NewRow(order, resolved, p, party)
              fits == /\ Trades(row.party) /\ Resolvable(lines, "INVOICE", TRUE)
                      /\ Buildable(resolved, row.mode)
  <1>1. At(r, "read", "convert") /\ request[r] \in Request /\ Sound(history, request[r])
    BY DEF CheckConvert, IInv, TypeOK
  <1>2. CASE ~fits
    BY <1>2, Refusing DEF CheckConvert
  <1>3. CASE fits
    <2>. DEFINE q == [request[r] EXCEPT !.pc = "checked", !.since = clock, !.linesBase = linesBase,
                                        !.row = new]
    <2>1. item \in [Items -> Item] /\ party \in [Parties -> Party] /\ clock \in Nat
      BY DEF IInv, TypeOK
    <2>2. Edited(history, p, base) /\ row = history[p][base].row /\ row.response # "DECLINED"
      BY <1>1 DEF At, Sound, ReadEstimate, Read
    <2>3. Stored(row) /\ p \in Docs /\ p # None
      BY <2>2, EditionStored DEF Edited, DocumentsAssumption
    <2>4. Exists(p)
      <3>1. SUFFICES ASSUME ~Exists(p) PROVE FALSE
        OBVIOUS
      <3>2. stored = <<>>
        BY <3>1
      <3>3. LinesFromRows(<<>>) = <<>> /\ ResolveLines(<<>>, "INVOICE") = <<>>
        BY DEF LinesFromRows, ResolveLines
      <3>4. resolved = <<>>
        BY <3>2, <3>3, Zenon
      <3>. QED  BY <1>3, <3>4, NothingToBuild
    <2>5. Stored(document[p]) /\ document[p] = history[p][linesBase].row
      BY <2>3, <2>4, Current, SMTT(30)
    <2>6. stored = document[p].lines /\ stored \in Seq(StoredLine)
      BY <2>4, <2>5, RowFields DEF Stored
    <2>7. PricedLines(lines) /\ resolved = lines
      BY <2>6, LinesRead, LinesKept
    <2>8. row \in Row /\ row.terms \in Nat /\ row.terms # None
      BY <2>3, RowFields DEF Stored, DocumentsAssumption
    <2>9. /\ order.kind \in Kinds /\ order.party \in Parties /\ order.mode \in TaxModes
          /\ order.date \in Nat /\ order.due \in {None} \cup Nat /\ order.terms \in {None} \cup Nat
          /\ order.note \in STRING
          /\ order.party = row.party /\ order.mode = row.mode /\ order.note = row.note
          /\ order.terms = row.terms
      BY <2>8 DEF Row, Kinds
    <2>. HIDE DEF order
    <2>10. /\ Stored(new) /\ new.source = p /\ new.party = row.party /\ new.mode = row.mode
           /\ new.note = row.note /\ new.terms = row.terms
           /\ new.lines = BuildLines(resolved, row.mode)
           /\ new.total = ComputeTotal(BuildLines(resolved, row.mode))
      <3>1. p \in {None} \cup Docs
        BY <2>3
      <3>2. PricedLines(resolved)
        BY <2>7
      <3>. HIDE DEF p, row, resolved
      <3>. QED  BY <2>1, <2>8, <2>9, <3>1, <3>2, NewRowStored
    <2>11. linesBase = base => Copies(new, row)
      <3>1. SUFFICES ASSUME linesBase = base PROVE Copies(new, row)
        OBVIOUS
      <3>2. document[p] = row
        BY <2>2, <2>5, <3>1
      <3>3. BuiltLines(row.lines, row.mode) /\ row.lines \in Seq(StoredLine) /\ stored = row.lines
            /\ row.total = ComputeTotal(row.lines)
        BY <2>3, <2>6, <3>2, RowFields DEF Stored, BuiltLines
      <3>4. BuildLines(resolved, row.mode) = row.lines
        BY <2>7, <3>3, LinesRead
      <3>. HIDE DEF new, row, resolved
      <3>. QED  BY <2>10, <3>3, <3>4 DEF Copies
    <2>12. Thinks(r, q)
      <3>1. fits => request' = [request EXCEPT ![r] = q]
        BY Zenon DEF CheckConvert, order
      <3>. QED  BY <1>3, <3>1 DEF CheckConvert, Thinks
    <2>13. item' \in [Items -> Item] /\ clock' \in Nat
      BY <2>1 DEF CheckConvert
    <2>14. linesBase \in Nat
      BY <2>3 DEF Edition, IInv, TypeOK
    <2>. HIDE DEF new, linesBase
    <2>15. /\ q \in Request /\ q.pc = "checked" /\ q.op = "convert" /\ q.row = new
           /\ q.base = base /\ q.linesBase = linesBase
      BY <1>1, <2>1, <2>10, <2>14 DEF Request, Stored, At
    <2>. HIDE DEF q, p, row, base
    <2>16. Copied(history, new, base, linesBase)
      BY <2>2, <2>10, <2>11 DEF Copied
    <2>17. Sound(history, q)
      BY <2>3, <2>10, <2>15, <2>16 DEF Sound, Creating, ReadEstimate, Converting, ReadEdit, Updating,
                        ReadIssue, Issuing, Repricing
    <2>18. \A c \in Parties : Held(q, c) => Fixed(c)
      BY <1>3, <2>10, <2>15 DEF Held, Fixed
    <2>. QED  BY <2>12, <2>13, <2>15, <2>17, <2>18, Thinking
  <1>. QED  BY <1>2, <1>3

LEMMA ReadsDraft ==
  ASSUME DocumentsAssumption, IInv, NEW r \in Requests, NEW d \in Docs, NEW p \in Patches,
         ReadDraft(r, d, p)
  PROVE  IInv'
  <1>1. CASE document[d].status # "DRAFT"
    BY <1>1, Refusing DEF ReadDraft
  <1>2. CASE document[d].status = "DRAFT"
    <2>. DEFINE row == document[d]  base == Edition(d)
                q == [Idle EXCEPT !.pc = "read", !.op = "update", !.doc = d, !.patch = p, !.row = row,
                                  !.base = base]
    <2>1. item \in [Items -> Item] /\ clock \in Nat
      BY DEF IInv, TypeOK
    <2>2. row \in Row /\ row = history[d][base].row /\ Edited(history, d, base)
      BY Current DEF ReadDraft
    <2>3. base \in Nat
      BY DEF Edition, IInv, TypeOK
    <2>4. Thinks(r, q)
      BY <1>2, Zenon DEF ReadDraft, Thinks
    <2>5. item' \in [Items -> Item] /\ clock' \in Nat
      BY <2>1 DEF ReadDraft
    <2>. HIDE DEF row, base
    <2>6. /\ q \in Request /\ q.pc = "read" /\ q.op = "update" /\ q.row = row /\ q.doc = d
          /\ q.base = base /\ q.patch = p
      BY <2>2, <2>3 DEF Idle, Request, Changes
    <2>. HIDE DEF q
    <2>7. Sound(history, q)
      BY <2>2, <2>6 DEF Sound, Creating, ReadEstimate, Converting, ReadEdit, Updating, ReadIssue,
                        Issuing, Repricing, Read
    <2>8. \A c \in Parties : ~Held(q, c)
      BY <2>6 DEF Held
    <2>. QED  BY <2>4, <2>5, <2>6, <2>7, <2>8, Thinking
  <1>. QED  BY <1>1, <1>2

(* Follows is about what an edit writes, whenever it is written. *)
LEMMA FollowsSame ==
  ASSUME NEW new, NEW row, SameTerms(new, row), NEW old, NEW p, Follows(row, old, p)
  PROVE  Follows(new, old, p)
  <1>1. /\ new.party = row.party /\ new.mode = row.mode /\ new.lines = row.lines
        /\ new.total = row.total /\ new.date = row.date /\ new.terms = row.terms
        /\ new.due = row.due /\ new.note = row.note
    BY DEF SameTerms
  <1>2. \A f \in {"party", "mode", "date", "note"} : new[f] = Named(p[f], old[f])
    BY <1>1 DEF Follows
  <1>. QED  BY <1>1, <1>2 DEF Follows

LEMMA ChecksUpdate ==
  ASSUME DocumentsAssumption, IInv, NEW r \in Requests, CheckUpdate(r)
  PROVE  IInv'
  <1>. DEFINE d == request[r].doc
              row == request[r].row
              p == request[r].patch
              base == request[r].base
              linesBase == IF p.lines # Keep THEN request[r].base ELSE Edition(d)
              stored == IF Exists(d) THEN document[d].lines ELSE <<>>
              lines == IF p.lines # Keep THEN ResolveLines(p.lines, row.kind) ELSE LinesFromRows(stored)
              new == Patched(row, p, lines)
              due == PatchedDue(row, p)
              to == Named(p.party, row.party)
              mode == Named(p.mode, row.mode)
              fits == /\ Trades(to)
                      /\ p.lines # Keep => Resolvable(p.lines, row.kind, FALSE)
                      /\ Buildable(lines, mode)
                      /\ due # None => due >= Named(p.date, row.date)
  <1>1. At(r, "read", "update") /\ request[r] \in Request /\ Sound(history, request[r])
    BY DEF CheckUpdate, IInv, TypeOK
  <1>2. CASE ~fits
    BY <1>2, Refusing DEF CheckUpdate
  <1>3. CASE fits
    <2>. DEFINE q == [request[r] EXCEPT !.pc = "checked", !.since = clock, !.row = new,
                                        !.linesBase = linesBase]
    <2>1. item \in [Items -> Item] /\ party \in [Parties -> Party] /\ clock \in Nat
      BY DEF IInv, TypeOK
    <2>2. Edited(history, d, base) /\ row = history[d][base].row /\ p \in Patches
      BY <1>1 DEF At, Sound, ReadEdit, Read
    <2>3. Stored(row) /\ d \in Docs /\ row.source = history[d][1].row.source
      BY <2>2, EditionStored DEF Edited
    <2>4. p.lines \in {Keep} \cup Seq(Line)
      BY <2>2 DEF DocumentsAssumption, Patch
    <2>5. Thinks(r, q)
      <3>1. fits => request' = [request EXCEPT ![r] = q]
        BY Zenon DEF CheckUpdate
      <3>. QED  BY <1>3, <3>1 DEF CheckUpdate, Thinks
    <2>6. item' \in [Items -> Item] /\ clock' \in Nat
      BY <2>1 DEF CheckUpdate
    <2>7. linesBase \in Nat
      <3>1. Edition(d) \in Nat /\ base \in Nat
        BY <1>1, <2>3 DEF Edition, IInv, TypeOK, Request
      <3>. QED  BY <3>1
    <2>8. /\ Stored(new) /\ new.source = row.source /\ new.party = to
          /\ Follows(new, row, p) \/ base < Len(history[d])
      <3>0. PricedLines(lines) =>
              /\ Stored(new) /\ new.source = row.source /\ new.party = to
              /\ Fitting(row, p, lines) => Follows(new, row, p)
        <4>. HIDE DEF row, p, lines
        <4>1. SUFFICES ASSUME PricedLines(lines)
                       PROVE  /\ Stored(new) /\ new.source = row.source /\ new.party = to
                              /\ Fitting(row, p, lines) => Follows(new, row, p)
          OBVIOUS
        <4>2. Stored(row) /\ p \in Patches /\ PricedLines(lines) /\ party \in [Parties -> Party]
          BY <2>1, <2>2, <2>3, <4>1
        <4>3. Stored(new) /\ new.source = row.source
          BY <4>2, PatchedStored
        <4>4. new.party = to
          BY <4>2, PatchedStored DEF to
        <4>5. Fitting(row, p, lines) => Follows(new, row, p)
          BY <4>2, PatchedStored
        <4>. QED  BY <4>3, <4>4, <4>5
      <3>1. CASE p.lines # Keep
        <4>1. lines = ResolveLines(p.lines, row.kind) /\ p.lines \in Seq(Line)
              /\ Resolvable(p.lines, row.kind, FALSE)
          BY <1>3, <2>4, <3>1
        <4>. HIDE DEF row, p, lines
        <4>2. /\ PricedLines(ResolveLines(p.lines, row.kind))
              /\ Len(ResolveLines(p.lines, row.kind)) = Len(p.lines)
          BY <2>1, <4>1, LinesResolved
        <4>3. PricedLines(lines) /\ Len(lines) = Len(p.lines)
          BY <4>1, <4>2, Zenon
        <4>4. Fitting(row, p, lines)
          BY <3>1, <4>3 DEF Fitting
        <4>. QED  BY <3>0, <4>3, <4>4
      <3>2. CASE p.lines = Keep
        <4>1. Exists(d)
          <5>1. SUFFICES ASSUME ~Exists(d) PROVE FALSE
            OBVIOUS
          <5>2. stored = <<>>
            BY <5>1
          <5>3. LinesFromRows(<<>>) = <<>>
            BY DEF LinesFromRows
          <5>4. lines = <<>>
            BY <3>2, <5>2, <5>3, Zenon
          <5>. QED  BY <1>3, <5>4, NothingToBuild
        <4>2. Stored(document[d]) /\ document[d] = history[d][Edition(d)].row
          BY <2>3, <4>1, Current, SMTT(30)
        <4>3. stored = document[d].lines /\ stored \in Seq(StoredLine)
          BY <4>1, <4>2, RowFields DEF Stored
        <4>4. lines = LinesFromRows(stored)
          BY <3>2, Zenon
        <4>5. PricedLines(lines)
          BY <4>3, <4>4, LinesRead, ZenonT(30)
        <4>6. CASE base = Len(history[d])
          <5>1. lines = LinesFromRows(row.lines)
            BY <2>2, <4>2, <4>3, <4>4, <4>6 DEF Edition
          <5>. HIDE DEF row, p, lines
          <5>2. Fitting(row, p, lines)
            BY <3>2, <5>1, SMTT(30) DEF Fitting
          <5>. QED  BY <3>0, <4>5, <5>2
        <4>7. CASE base # Len(history[d])
          <5>1. base < Len(history[d])
            BY <2>2, <2>3, <4>7 DEF Edited, IInv, TypeOK
          <5>. QED  BY <3>0, <4>5, <5>1
        <4>. QED  BY <4>6, <4>7
      <3>. QED  BY <3>1, <3>2
    <2>. HIDE DEF new, linesBase
    <2>9. /\ q \in Request /\ q.pc = "checked" /\ q.op = "update" /\ q.row = new /\ q.doc = d
          /\ q.base = base /\ q.patch = p
      BY <1>1, <2>1, <2>7, <2>8 DEF Request, Stored, At
    <2>. HIDE DEF q, d, row, p, base
    <2>10. Updating(history, q)
      BY <2>2, <2>3, <2>8, <2>9, Zenon DEF Updating
    <2>11. Sound(history, q)
      BY <2>9, <2>10 DEF Sound, Creating, ReadEstimate, Converting, ReadEdit, ReadIssue, Issuing, Repricing
    <2>12. \A c \in Parties : Held(q, c) => Fixed(c)
      BY <1>3, <2>8, <2>9 DEF Held, Fixed
    <2>. QED  BY <2>5, <2>6, <2>9, <2>11, <2>12, Thinking
  <1>. QED  BY <1>2, <1>3

LEMMA ReadsForIssue ==
  ASSUME DocumentsAssumption, IInv, NEW r \in Requests, NEW d \in Docs, ReadForIssue(r, d)
  PROVE  IInv'
  <1>1. CASE document[d].status # "DRAFT"
    BY <1>1, Refusing DEF ReadForIssue
  <1>2. CASE document[d].status = "DRAFT"
    <2>. DEFINE row == document[d]  base == Edition(d)
                pc == IF document[d].kind = "PROFORMA" THEN "checked" ELSE "read"
                q == [Idle EXCEPT !.pc = pc, !.op = "issue", !.doc = d, !.row = row, !.base = base,
                                  !.since = clock]
    <2>1. item \in [Items -> Item] /\ clock \in Nat
      BY DEF IInv, TypeOK
    <2>2. row \in Row /\ row = history[d][base].row /\ Edited(history, d, base)
      BY Current DEF ReadForIssue
    <2>3. base \in Nat
      BY DEF Edition, IInv, TypeOK
    <2>4. Thinks(r, q)
      BY <1>2, Zenon DEF ReadForIssue, Thinks
    <2>5. item' \in [Items -> Item] /\ clock' \in Nat
      BY <2>1 DEF ReadForIssue
    <2>6. \A c : row.party = c => Drafted(c)
      BY <1>2 DEF ReadForIssue, Drafted, Is, Exists
    <2>7. pc \in {"read", "checked"}
      OBVIOUS
    <2>. HIDE DEF row, base, pc
    <2>8. /\ q \in Request /\ q.pc = pc /\ q.op = "issue" /\ q.row = row /\ q.doc = d
          /\ q.base = base /\ q.journal = None
      BY <2>1, <2>2, <2>3, <2>7 DEF Idle, Request, Changes
    <2>. HIDE DEF q
    <2>9. Sound(history, q)
      BY <2>2, <2>8 DEF Sound, Creating, ReadEstimate, Converting, ReadEdit, Updating, ReadIssue,
                        Issuing, Repricing, Read
    <2>10. \A c \in Parties : Held(q, c) => Drafted(c)
      BY <2>6, <2>8 DEF Held
    <2>. QED  BY <2>4, <2>5, <2>8, <2>9, <2>10, Thinking
  <1>. QED  BY <1>1, <1>2

LEMMA ReadsItem ==
  ASSUME DocumentsAssumption, IInv, NEW r \in Requests, NEW change \in ItemChanges,
         ReadItem(r, change)
  PROVE  IInv'
  <1>. DEFINE price == Named(change.price, item[change.item].price)
              q == [Idle EXCEPT !.pc = "checked", !.op = "item", !.doc = change.item, !.patch = price]
  <1>1. item \in [Items -> Item] /\ clock \in Nat
    BY DEF IInv, TypeOK
  <1>2. change \in ItemChange
    BY DEF DocumentsAssumption
  <1>3. change.item \in Items /\ price \in {None} \cup Nat
    <2>1. change.item \in Items /\ change.price \in {Keep, None} \cup Nat
      BY <1>2 DEF ItemChange
    <2>2. item[change.item].price \in {None} \cup Nat
      BY <1>1, <2>1 DEF Item
    <2>. QED  BY <2>1, <2>2 DEF Named
  <1>4. Thinks(r, q)
    BY Zenon DEF ReadItem, Thinks
  <1>5. item' \in [Items -> Item] /\ clock' \in Nat
    BY <1>1 DEF ReadItem
  <1>. HIDE DEF price
  <1>6. /\ q \in Request /\ q.pc = "checked" /\ q.op = "item" /\ q.row = None
        /\ q.doc = change.item /\ q.patch = price
    BY <1>3 DEF Idle, Request, Changes
  <1>. HIDE DEF q
  <1>7. Sound(history, q)
    BY <1>3, <1>6 DEF Sound, Creating, ReadEstimate, Converting, ReadEdit, Updating, ReadIssue,
                      Issuing, Repricing
  <1>8. \A c \in Parties : ~Held(q, c)
    BY <1>6 DEF Held
  <1>. QED  BY <1>4, <1>5, <1>6, <1>7, <1>8, Thinking

(* A request that is done with something that is no document. *)
LEMMA Finishing ==
  ASSUME IInv, NEW r \in Requests, request' = Done(r),
         UNCHANGED <<document, journals, party, clock, history, unsettled>>, item' \in [Items -> Item]
  PROVE  IInv'
  <1>. DEFINE q == [Idle EXCEPT !.pc = "done"]
  <1>1. q \in Request /\ Sound(history, q) /\ \A c : ~Held(q, c)
    BY Resting
  <1>2. Thinks(r, q)
    BY DEF Thinks, Done
  <1>3. clock' \in Nat
    BY DEF IInv, TypeOK
  <1>. HIDE DEF q
  <1>. QED  BY <1>1, <1>2, <1>3, Thinking

LEMMA UpdatesItem ==
  ASSUME DocumentsAssumption, IInv, NEW r \in Requests, UpdateItem(r)
  PROVE  IInv'
  <1>1. item \in [Items -> Item] /\ Sound(history, request[r])
    BY DEF IInv, TypeOK
  <1>2. request[r].doc \in Items /\ request[r].patch \in {None} \cup Nat
    BY <1>1 DEF UpdateItem, At, Sound, Repricing, Working
  <1>3. [item[request[r].doc] EXCEPT !.price = request[r].patch] \in Item
    BY <1>1, <1>2 DEF Item
  <1>4. item' \in [Items -> Item]
    BY <1>1, <1>2, <1>3 DEF UpdateItem
  <1>. QED  BY <1>4, Finishing DEF UpdateItem

LEMMA SetsItemActive ==
  ASSUME IInv, NEW r \in Requests, NEW i \in Items, NEW active \in BOOLEAN, SetItemActive(r, i, active)
  PROVE  IInv'
  <1>1. item \in [Items -> Item]
    BY DEF IInv, TypeOK
  <1>2. [item[i] EXCEPT !.active = active] \in Item
    BY <1>1 DEF Item
  <1>3. item' \in [Items -> Item]
    BY <1>1, <1>2 DEF SetItemActive
  <1>. QED  BY <1>3, Finishing DEF SetItemActive

LEMMA Ticks ==
  ASSUME IInv, Tick
  PROVE  IInv'
  <1>1. clock' \in Nat
    BY DEF Tick, IInv, TypeOK
  <1>2. TypeOK'
    BY <1>1 DEF Tick, IInv, TypeOK
  <1>3. Latest' /\ Edits' /\ ConvertedOnce' /\ Posted'
    BY DEF Tick, IInv, Latest, Edits, ConvertedOnce, Posted, Exists, SameMillisecond
  <1>4. Converted(history') /\ OverwrittenOnlyInARace' /\ \A s \in Requests : Sound(history', request'[s])
    BY DEF Tick, IInv, OverwrittenOnlyInARace
  <1>5. Settled'
    BY DEF Tick, IInv, Settled, Drafted, Journalled, Fixed, Is, Trades
  <1>. QED  BY <1>2, <1>3, <1>4, <1>5 DEF IInv

LEMMA Stutters ==
  ASSUME IInv, UNCHANGED vars
  PROVE  IInv'
  <1>1. TypeOK'
    BY DEF vars, IInv, TypeOK
  <1>2. Latest' /\ Edits' /\ ConvertedOnce' /\ Posted'
    BY DEF vars, IInv, Latest, Edits, ConvertedOnce, Posted, Exists, SameMillisecond
  <1>3. Converted(history') /\ OverwrittenOnlyInARace' /\ \A s \in Requests : Sound(history', request'[s])
    BY DEF vars, IInv, OverwrittenOnlyInARace
  <1>4. Settled'
    BY DEF vars, IInv, Settled, Drafted, Journalled, Fixed, Is, Trades
  <1>. QED  BY <1>1, <1>2, <1>3, <1>4 DEF IInv

LEMMA Deletes ==
  ASSUME DocumentsAssumption, IInv, NEW r \in Requests, NEW d \in Docs, DeleteDraft(r, d)
  PROVE  IInv'
  <1>1. CASE ~(Is(d, "DRAFT") /\ ConvertedInto(d) = {})
    BY <1>1, Refusing DEF DeleteDraft
  <1>2. CASE Is(d, "DRAFT") /\ ConvertedInto(d) = {}
    <2>. DEFINE q == [Idle EXCEPT !.pc = "done"]
    <2>1. q \in Request /\ (\A h : Sound(h, q)) /\ \A c : ~Held(q, c)
      BY Resting
    <2>2. request' = [request EXCEPT ![r] = q] /\ document' = [document EXCEPT ![d] = None]
      BY <1>2 DEF DeleteDraft, Done
    <2>. HIDE DEF q
    <2>3. /\ request' \in [Requests -> Request] /\ request'[r] = q
          /\ \A s \in Requests : s # r => request'[s] = request[s]
      BY <2>1, <2>2, RequestSet DEF IInv, TypeOK
    <2>4. /\ document' \in [Docs -> {None} \cup Row] /\ document'[d] = None
          /\ \A v \in Docs : v # d => document'[v] = document[v]
      BY <2>2 DEF IInv, TypeOK
    <2>5. /\ journals' = journals /\ party' = party /\ item' = item /\ clock' = clock
          /\ history' = history /\ unsettled' = unsettled
      BY DEF DeleteDraft
    <2>6. TypeOK'
      BY <2>3, <2>4, <2>5 DEF IInv, TypeOK
    <2>7. Latest'
      BY <2>4, <2>5 DEF IInv, Latest, Exists
    <2>8. Edits' /\ Converted(history') /\ OverwrittenOnlyInARace'
      BY <2>5 DEF IInv, Edits, OverwrittenOnlyInARace
    <2>9. ConvertedOnce'
      BY <2>4 DEF IInv, ConvertedOnce, Exists
    <2>10. \A s \in Requests : Sound(history', request'[s])
      BY <2>1, <2>3, <2>5 DEF IInv
    <2>11. Posted'
      <3>1. journals[d] = <<>>
        BY <1>2 DEF IInv, Posted, Is
      <3>2. \A v : SameMillisecond(v)' <=> SameMillisecond(v)
        BY <2>5 DEF SameMillisecond
      <3>. QED  BY <2>4, <2>5, <3>1, <3>2 DEF IInv, Posted, Exists
    <2>12. Settled'
      <3>1. \A c : (Fixed(c)' <=> Fixed(c)) /\ (Journalled(c)' <=> Journalled(c))
        BY <2>5 DEF Fixed, Trades, Journalled
      <3>2. \A c : Drafted(c)' => Drafted(c)
        BY <2>4 DEF Drafted, Is
      <3>3. \A c \in Parties, s \in Requests : Held(request'[s], c) => Held(request[s], c)
        BY <2>1, <2>3
      <3>. QED  BY <3>1, <3>2, <3>3 DEF IInv, Settled
    <2>. QED  BY <2>6, <2>7, <2>8, <2>9, <2>10, <2>11, <2>12 DEF IInv
  <1>. QED  BY <1>1, <1>2

LEMMA UpdatesParty ==
  ASSUME DocumentsAssumption, IInv, NEW r \in Requests, NEW change \in PartyChanges,
         UpdateParty(r, change)
  PROVE  IInv'
  <1>. DEFINE c == change.party
              currency == Named(change.currency, party[c].currency)
              terms == Named(change.terms, party[c].terms)
              changed == currency # party[c].currency
  <1>1. CASE ~(changed => CurrencyFree(c))
    BY <1>1, Refusing DEF UpdateParty
  <1>2. CASE changed => CurrencyFree(c)
    <2>. DEFINE q == [Idle EXCEPT !.pc = "done"]
    <2>1. q \in Request /\ (\A h : Sound(h, q)) /\ \A x : ~Held(q, x)
      BY Resting
    <2>2. request' = [request EXCEPT ![r] = q]
      BY <1>2 DEF UpdateParty, Done
    <2>. HIDE DEF q
    <2>3. /\ request' \in [Requests -> Request] /\ request'[r] = q
          /\ \A s \in Requests : s # r => request'[s] = request[s]
      BY <2>1, <2>2, RequestSet DEF IInv, TypeOK
    <2>4. c \in Parties /\ currency \in {None} \cup Currencies /\ terms \in {None} \cup Nat
      <3>1. change \in PartyChange /\ party \in [Parties -> Party]
        BY DEF DocumentsAssumption, IInv, TypeOK
      <3>2. c \in Parties /\ change.currency \in {Keep, None} \cup Currencies
            /\ change.terms \in {Keep, None} \cup Nat
        BY <3>1 DEF PartyChange
      <3>3. party[c].currency \in {None} \cup Currencies /\ party[c].terms \in {None} \cup Nat
        BY <3>1, <3>2 DEF Party
      <3>. QED  BY <3>2, <3>3 DEF Named
    <2>5. /\ party' \in [Parties -> Party] /\ party'[c].currency = currency
          /\ \A x \in Parties : x # c => party'[x] = party[x]
      <3>1. party \in [Parties -> Party] /\ party[c] \in Party
        BY <2>4 DEF IInv, TypeOK
      <3>2. party' = [party EXCEPT ![c] = [party[c] EXCEPT !.currency = currency, !.terms = terms]]
        BY <1>2, <3>1 DEF UpdateParty, Party
      <3>. HIDE DEF currency, terms, c
      <3>3. [party[c] EXCEPT !.currency = currency, !.terms = terms] \in Party
            /\ [party[c] EXCEPT !.currency = currency, !.terms = terms].currency = currency
        BY <2>4, <3>1 DEF Party
      <3>. QED  BY <2>4, <3>1, <3>2, <3>3
    <2>6. /\ journals' = journals /\ document' = document /\ item' = item /\ clock' = clock
          /\ history' = history
      BY DEF UpdateParty
    <2>7. unsettled' = IF changed /\ UnderWay(c) THEN unsettled \cup {c} ELSE unsettled
      BY <1>2, Zenon DEF UpdateParty
    <2>8. TypeOK'
      BY <2>3, <2>5, <2>6 DEF IInv, TypeOK
    <2>9. Latest' /\ Edits' /\ ConvertedOnce' /\ Posted'
      BY <2>6 DEF IInv, Latest, Edits, ConvertedOnce, Posted, Exists, SameMillisecond
    <2>10. Converted(history') /\ OverwrittenOnlyInARace'
      BY <2>6 DEF IInv, OverwrittenOnlyInARace
    <2>11. \A s \in Requests : Sound(history', request'[s])
      BY <2>1, <2>3, <2>6 DEF IInv
    <2>12. Settled'
      <3>1. \A x : (Drafted(x)' <=> Drafted(x)) /\ (Journalled(x)' <=> Journalled(x))
        BY <2>6 DEF Drafted, Is, Journalled
      <3>2. \A x \in Parties, s \in Requests : Held(request'[s], x) => Held(request[s], x)
        BY <2>1, <2>3
      <3>3. ASSUME NEW x \in Parties,
                   Drafted(x) \/ Journalled(x) \/ \E s \in Requests : Held(request[s], x)
            PROVE  Fixed(x)'
        <4>1. Fixed(x)
          BY <3>3 DEF IInv, Settled
        <4>2. unsettled \subseteq unsettled'
          BY <2>7
        <4>3. CASE x # c \/ ~changed
          <5>1. party'[x].currency = party[x].currency
            BY <2>5, <3>3, <4>3
          <5>. QED  BY <4>1, <4>2, <5>1 DEF Fixed, Trades
        <4>4. CASE x = c /\ changed
          <5>1. ~Tagged(c)
            BY <1>2, <4>4 DEF CurrencyFree
          <5>2. ~Journalled(c)
            <6>1. SUFFICES ASSUME NEW d \in Docs, NEW k \in DOMAIN journals[d],
                                  journals[d][k].lines[1].party = c
                           PROVE  FALSE
              BY DEF Journalled
            <6>2. 1 \in DOMAIN journals[d][k].lines
              <7>1. journals[d][k] \in Journal
                BY DEF IInv, TypeOK
              <7>2. journals[d][k].lines \in Seq(JournalLine) /\ journals[d][k].lines # <<>>
                BY <7>1 DEF Journal
              <7>. QED  BY <7>2
            <6>. QED  BY <5>1, <6>1, <6>2 DEF Tagged
          <5>3. UnderWay(c)
            BY <3>3, <4>4, <5>2 DEF UnderWay, Drafted, Held
          <5>4. c \in unsettled'
            BY <2>7, <4>4, <5>3
          <5>. QED  BY <4>4, <5>4 DEF Fixed
        <4>. QED  BY <4>3, <4>4
      <3>. QED  BY <3>1, <3>2, <3>3 DEF Settled
    <2>. QED  BY <2>8, <2>9, <2>10, <2>11, <2>12 DEF IInv
  <1>. QED  BY <1>1, <1>2

-----------------------------------------------------------------------------
(* An edit of request r that writes row, but for the time of change. *)
Records(r, e, row, by) ==
    /\ e \in Edit /\ Stored(e.row) /\ SameTerms(e.row, row)
    /\ e.row.status = row.status /\ e.row.response = row.response
    /\ e.by = by /\ e.patch = request[r].patch
    /\ e.base = request[r].base /\ e.linesBase = request[r].linesBase

LEMMA EntryIs ==
  ASSUME IInv, NEW r \in Requests, NEW row \in Row, NEW by \in Origins
  PROVE  LET e == Entry(row, r, by)
         IN  /\ e \in Edit /\ e.row = row /\ e.by = by /\ e.patch = request[r].patch
             /\ e.base = request[r].base /\ e.linesBase = request[r].linesBase
  <1>1. request[r] \in Request
    BY DEF IInv, TypeOK
  <1>2. /\ request[r].patch \in Changes /\ request[r].base \in Nat /\ request[r].linesBase \in Nat
    BY <1>1 DEF Request
  <1>. QED  BY <1>2 DEF Entry, Edit

LEMMA Wrote ==
  ASSUME IInv, NEW r \in Requests, NEW d \in Docs, NEW row, Stored(row), NEW by \in Origins,
         Write(r, d, row, by), request' = Done(r), UNCHANGED <<party, item, clock, unsettled>>
  PROVE  \E e : Writes(r, d, e) /\ Records(r, e, row, by)
  <1>1. PICK stamp \in request[r].since .. clock :
            LET written == [row EXCEPT !.stamp = stamp]
            IN  /\ document' = [document EXCEPT ![d] = written]
                /\ history' = [history EXCEPT ![d] = Append(@, Entry(written, r, by))]
    BY Zenon DEF Write
  <1>. DEFINE written == [row EXCEPT !.stamp = stamp]  e == Entry(written, r, by)
  <1>2. stamp \in Nat
    <2>1. request[r] \in Request /\ clock \in Nat
      BY DEF IInv, TypeOK
    <2>2. request[r].since \in Nat
      BY <2>1 DEF Request
    <2>. QED  BY <1>1, <2>1, <2>2
  <1>3. /\ Stored(written) /\ SameTerms(written, row)
        /\ written.status = row.status /\ written.response = row.response
    BY <1>2, Restamped
  <1>4. document' = [document EXCEPT ![d] = written] /\ history' = [history EXCEPT ![d] = Append(@, e)]
    BY <1>1
  <1>. HIDE DEF written
  <1>5. /\ e \in Edit /\ e.row = written /\ e.by = by /\ e.patch = request[r].patch
        /\ e.base = request[r].base /\ e.linesBase = request[r].linesBase
    BY <1>3, EntryIs DEF Stored
  <1>. HIDE DEF e
  <1>6. Writes(r, d, e)
    BY <1>4, <1>5 DEF Writes, Appended, Done
  <1>. QED  BY <1>3, <1>5, <1>6 DEF Records

(* Journals that stay as they are, under a row that stays as it was. *)
LEMMA LedgerStays ==
  ASSUME IInv, NEW d \in Docs, NEW row, journals' = journals,
         journals[d] # <<>> => row.status # "DRAFT" /\ (Tells(journals[d][1], row) \/ SameMillisecond(d)')
  PROVE  Posts(d, row)
  BY DEF Posts, IInv, TypeOK, Journalled

LEMMA Inserts ==
  ASSUME DocumentsAssumption, IInv, NEW r \in Requests, InsertInvoice(r)
  PROVE  IInv'
  <1>. DEFINE row == request[r].row  by == request[r].op
  <1>1. CASE ~Insertable(row)
    BY <1>1, Refusing DEF InsertInvoice
  <1>2. CASE Insertable(row)
    <2>1. request[r].pc = "checked" /\ by \in {"create", "convert"} /\ Sound(history, request[r])
      BY DEF InsertInvoice, IInv
    <2>2. PICK d \in Docs : d = NewId /\ history[d] = <<>>
      BY DEF InsertInvoice, NewId
    <2>3. /\ Stored(row) /\ (by = "convert" => row.source # None)
          /\ by = "convert" => Copied(history, row, request[r].base, request[r].linesBase)
          /\ row.source # None => by = "convert"
      BY <2>1 DEF Sound, Creating, Converting, Working
    <2>4. by \in Origins
      BY <2>1 DEF Origins
    <2>5. Write(r, d, row, by) /\ request' = Done(r) /\ UNCHANGED <<party, item, clock, unsettled>>
      BY <1>2, <2>2 DEF InsertInvoice
    <2>6. PICK e : Writes(r, d, e) /\ Records(r, e, row, by)
      BY <2>3, <2>4, <2>5, Wrote
    <2>7. /\ e \in Edit /\ Stored(e.row) /\ SameTerms(e.row, row) /\ e.by = by
          /\ e.base = request[r].base /\ e.linesBase = request[r].linesBase
      BY <2>6 DEF Records
    <2>8. e.row.source = row.source /\ e.row.party = row.party
      BY <2>7, SMTT(30) DEF SameTerms
    <2>9. by = "convert" => Copied(history, e.row, e.base, e.linesBase)
      <3>1. \A old : Copies(row, old) => Copies(e.row, old)
        BY <2>7 DEF Copies, SameTerms
      <3>. QED  BY <2>3, <2>7, <2>8, <3>1 DEF Copied
    <2>10. ASSUME NEW v \in Docs, Exists(v), document[v].source = e.row.source PROVE e.row.source = None
      <3>1. SUFFICES ASSUME row.source # None PROVE FALSE
        BY <2>8
      <3>2. ConvertedInto(row.source) = {}
        BY <1>2, <3>1 DEF Insertable
      <3>. QED  BY <2>8, <2>10, <3>2 DEF ConvertedInto
    <2>11. Fixed(e.row.party)
      <3>1. row.party \in Parties /\ row # None
        BY <2>3, RowFields DEF Stored, DocumentsAssumption
      <3>2. Held(request[r], row.party)
        BY <2>1, <3>1 DEF Held
      <3>. QED  BY <2>8, <3>1, <3>2 DEF IInv, Settled
    <2>12. Fits(d, e)
      BY <2>1, <2>2, <2>3, <2>7, <2>8, <2>9, <2>10, <2>11 DEF Fits
    <2>13. journals[d] = <<>>
      <3>1. ~Exists(d)
        BY <2>2 DEF IInv, Latest
      <3>. QED  BY <3>1 DEF IInv, Posted
    <2>14. journals' = journals
      BY DEF InsertInvoice
    <2>15. Posts(d, e.row)
      BY <2>13, <2>14, LedgerStays
    <2>. QED  BY <2>6, <2>12, <2>15, Writing
  <1>. QED  BY <1>1, <1>2

LEMMA UpdatesDraft ==
  ASSUME DocumentsAssumption, IInv, NEW r \in Requests, UpdateDraft(r)
  PROVE  IInv'
  <1>0. PICK d : d = request[r].doc
    OBVIOUS
  <1>. DEFINE row == request[r].row  base == request[r].base
  <1>1. CASE ~Is(d, "DRAFT")
    BY <1>0, <1>1, Refusing DEF UpdateDraft
  <1>2. CASE Is(d, "DRAFT")
    <2>1. At(r, "checked", "update") /\ Updating(history, request[r])
      BY DEF UpdateDraft, IInv, Sound
    <2>2. /\ Edited(history, d, base) /\ Stored(row) /\ row.source = history[d][1].row.source
          /\ Follows(row, history[d][base].row, request[r].patch) \/ base < Len(history[d])
      BY <1>0, <2>1 DEF At, Updating
    <2>3. d \in Docs /\ Exists(d) /\ "update" \in Origins
      BY <1>2, <2>2 DEF Edited, Is, Exists, Origins
    <2>4. Write(r, d, row, "update") /\ request' = Done(r) /\ UNCHANGED <<party, item, clock, unsettled>>
      BY <1>0, <1>2 DEF UpdateDraft
    <2>. HIDE DEF row, base
    <2>5. PICK e : Writes(r, d, e) /\ Records(r, e, row, "update")
      BY <2>2, <2>3, <2>4, Wrote
    <2>6. /\ e \in Edit /\ Stored(e.row) /\ SameTerms(e.row, row) /\ e.by = "update"
          /\ e.base = base /\ e.patch = request[r].patch
      BY <2>5 DEF Records, base
    <2>7. e.row.source = row.source /\ e.row.party = row.party
      BY <2>6 DEF SameTerms
    <2>8. history[d] # <<>> /\ document[d].source = history[d][1].row.source
      BY <2>3, Current
    <2>9. ASSUME NEW v \in Docs, v # d, Exists(v), document[v].source = e.row.source
          PROVE  e.row.source = None
      BY <2>2, <2>3, <2>7, <2>8, <2>9 DEF IInv, ConvertedOnce
    <2>10. Fixed(e.row.party)
      <3>1. row.party \in Parties /\ row # None
        BY <2>2, RowFields DEF Stored, DocumentsAssumption
      <3>2. Held(request[r], row.party)
        BY <2>1, <3>1 DEF Held, At, row
      <3>. QED  BY <2>7, <3>1, <3>2 DEF IInv, Settled
    <2>11. \/ Follows(e.row, history[d][Len(history[d])].row, e.patch)
           \/ e.base < Len(history[d])
      <3>1. CASE base < Len(history[d])
        BY <2>6, <3>1
      <3>2. CASE ~(base < Len(history[d]))
        <4>1. base = Len(history[d])
          BY <2>2, <2>3, <3>2 DEF Edited, IInv, TypeOK
        <4>2. Follows(row, history[d][Len(history[d])].row, request[r].patch)
          BY <2>2, <3>2, <4>1
        <4>. QED  BY <2>6, <4>2, FollowsSame
      <3>. QED  BY <3>1, <3>2
    <2>12. Fits(d, e)
      BY <2>2, <2>6, <2>7, <2>8, <2>9, <2>10, <2>11 DEF Fits
    <2>13. journals[d] = <<>> /\ journals' = journals
      BY <1>2, <2>3 DEF UpdateDraft, IInv, Posted, Is
    <2>14. Posts(d, e.row)
      BY <2>3, <2>13, LedgerStays
    <2>. QED  BY <2>3, <2>5, <2>12, <2>14, Writing
  <1>. QED  BY <1>1, <1>2

(* What the journal tells is what edits leave alone. *)
LEMMA TellsSame ==
  ASSUME NEW j, NEW row, NEW new, SameTerms(new, row), Tells(j, row)
  PROVE  Tells(j, new)
  <1>1. new.kind = row.kind /\ new.lines = row.lines /\ new.party = row.party
    BY SMTT(30) DEF SameTerms
  <1>. QED  BY <1>1, Zenon DEF Tells

LEMMA MillisecondStays ==
  ASSUME IInv, NEW d \in Docs, history' \in Histories, Grows(history, history'), SameMillisecond(d)
  PROVE  SameMillisecond(d)'
  <1>1. PICK n \in 2 .. Len(history[d]) :
            /\ history[d][n].by = "issue"
            /\ history[d][n].base < n - 1
            /\ history[d][history[d][n].base].row.stamp = history[d][n - 1].row.stamp
    BY DEF SameMillisecond
  <1>2. /\ Len(history[d]) \in Nat /\ Len(history'[d]) \in Nat /\ Len(history[d]) <= Len(history'[d])
        /\ \A k \in 1 .. Len(history[d]) : history'[d][k] = history[d][k]
    BY DEF Grows, Histories, IInv, TypeOK
  <1>3. n \in 2 .. Len(history'[d]) /\ n \in 1 .. Len(history[d]) /\ n - 1 \in 1 .. Len(history[d])
    BY <1>1, <1>2
  <1>4. history[d][n].base \in Nat /\ history[d][n].base # 0
    <2>1. history[d][n] \in Edit
      BY <1>3 DEF IInv, TypeOK
    <2>. QED  BY <1>1, <1>3, <2>1 DEF IInv, Edits, Edit
  <1>5. history[d][n].base \in 1 .. Len(history[d])
    BY <1>1, <1>2, <1>3, <1>4
  <1>6. /\ history'[d][n] = history[d][n] /\ history'[d][n - 1] = history[d][n - 1]
        /\ history'[d][history[d][n].base] = history[d][history[d][n].base]
    BY <1>2, <1>3, <1>5
  <1>. QED  BY <1>1, <1>3, <1>6 DEF SameMillisecond

LEMMA GrowsBy ==
  ASSUME IInv, NEW r, NEW d \in Docs, NEW e \in Edit, Writes(r, d, e)
  PROVE  /\ history' \in Histories /\ Grows(history, history')
         /\ Len(history[d]) \in Nat /\ Len(history'[d]) = Len(history[d]) + 1
         /\ history'[d][Len(history[d]) + 1] = e
  <1>1. history \in Histories /\ history' = Appended(history, d, e)
    BY DEF IInv, TypeOK, Histories, Writes
  <1>. QED  BY <1>1, HistoryAppended

LEMMA Responds ==
  ASSUME DocumentsAssumption, IInv, NEW r \in Requests, NEW d \in Docs,
         NEW answer \in {"ACCEPTED", "DECLINED"}, Respond(r, d, answer)
  PROVE  IInv'
  <1>. DEFINE fits == Is(d, "ISSUED") /\ ConvertedInto(d) = {}
  <1>1. CASE ~fits
    BY <1>1, Refusing DEF Respond
  <1>2. CASE fits
    <2>1. Exists(d)
      BY <1>2 DEF Is, Exists
    <2>. DEFINE row == [document[d] EXCEPT !.response = answer]
                e == Entry(row, r, "answer")
    <2>2. /\ Stored(document[d]) /\ document[d].status = "ISSUED" /\ history[d] # <<>>
          /\ document[d].source = history[d][1].row.source
      BY <1>2, <2>1, Current DEF Is
    <2>3. Stored(row) /\ SameTerms(row, document[d]) /\ row.status = "ISSUED"
      BY <2>2, ResponseSet
    <2>4. document \in [Docs -> {None} \cup Row]
      BY DEF IInv, TypeOK
    <2>5. document' = [document EXCEPT ![d] = row]
      BY <1>2, <2>4 DEF Respond
    <2>6. document'[d] = row
      BY <2>4, <2>5
    <2>7. history' = [history EXCEPT ![d] = Append(@, e)]
      BY <1>2, <2>6, Zenon DEF Respond
    <2>. HIDE DEF row
    <2>8. e \in Edit /\ e.row = row /\ e.by = "answer"
      BY <2>3, EntryIs DEF Stored, Origins
    <2>. HIDE DEF e
    <2>9. Writes(r, d, e)
      BY <1>2, <2>5, <2>7, <2>8 DEF Respond, Writes, Appended, Done
    <2>10. row.source = document[d].source
      BY <2>3 DEF SameTerms
    <2>11. ASSUME NEW v \in Docs, v # d, Exists(v), document[v].source = row.source PROVE row.source = None
      BY <2>1, <2>10, <2>11 DEF IInv, ConvertedOnce
    <2>12. Fits(d, e)
      BY <2>2, <2>3, <2>8, <2>10, <2>11 DEF Fits
    <2>13. journals' = journals
      BY DEF Respond
    <2>14. journals[d] # <<>> => Tells(journals[d][1], row) \/ SameMillisecond(d)'
      <3>1. history' \in Histories /\ Grows(history, history')
        BY <2>8, <2>9, GrowsBy
      <3>. QED  BY <2>3, <3>1, TellsSame, MillisecondStays DEF IInv, Posted
    <2>15. Posts(d, e.row)
      BY <2>3, <2>8, <2>13, <2>14, LedgerStays
    <2>. QED  BY <2>9, <2>12, <2>15, Writing
  <1>. QED  BY <1>1, <1>2

-----------------------------------------------------------------------------
(***************************************************************************)
(* The journal of a document: its lines, and what they add up to.          *)
(***************************************************************************)
NetLines(lines) == {n \in DOMAIN lines : lines[n].net > 0}
TaxLines(lines) == {n \in DOMAIN lines : lines[n].tax > 0}
VatAccounts(lines) == {lines[n].vat : n \in TaxLines(lines)}
SignOf(row) == IF row.kind = "BILL" THEN -1 ELSE 1

LEMMA SetListed ==
  ASSUME NEW S, IsFiniteSet(S)
  PROVE  /\ Cardinality(S) \in Nat /\ Lists(SetToSeq(S), Cardinality(S), S)
         /\ DOMAIN SetToSeq(S) = 1 .. Cardinality(S)
  <1>. DEFINE n == Cardinality(S)  b == SetToSeq(S)
  <1>1. n \in Nat /\ Bijection(1 .. n, S) # {}
    BY FS_CardinalityType DEF ExistsBijection
  <1>2. \E f \in [1 .. n -> S] : IsInjective(f)
    BY <1>1 DEF Bijection, Injection
  <1>3. b \in [1 .. n -> S] /\ IsInjective(b)
    BY <1>2 DEF SetToSeq
  <1>. HIDE DEF b
  <1>4. b \in Injection(1 .. n, S) /\ Cardinality(1 .. n) = n
    BY <1>1, <1>3, FS_Interval DEF Injection
  <1>5. b \in Surjection(1 .. n, S)
    BY <1>4, FS_Injection
  <1>6. Lists(b, n, S)
    BY <1>3, <1>5 DEF Lists, Names, IsInjective, Surjection
  <1>. QED  BY <1>1, <1>3, <1>6 DEF b

LEMMA LinesFinite ==
  ASSUME NEW lines \in Seq(StoredLine)
  PROVE  /\ IsFiniteSet(DOMAIN lines)
         /\ IsFiniteSet(NetLines(lines)) /\ IsFiniteSet(VatAccounts(lines))
  <1>1. IsFiniteSet(DOMAIN lines)
    BY FS_Interval
  <1>2. IsFiniteSet(NetLines(lines)) /\ IsFiniteSet(TaxLines(lines))
    <2>1. NetLines(lines) \subseteq DOMAIN lines /\ TaxLines(lines) \subseteq DOMAIN lines
      BY DEF NetLines, TaxLines
    <2>. QED  BY <1>1, <2>1, FS_Subset
  <1>3. [n \in TaxLines(lines) |-> lines[n].vat] \in Surjection(TaxLines(lines), VatAccounts(lines))
    BY DEF Surjection, VatAccounts
  <1>. QED  BY <1>1, <1>2, <1>3, FS_Surjection

Joined(h, u, v) == <<h>> \o u \o v

HasParts(L, h, u, v) ==
    /\ DOMAIN L = 1 .. 1 + Len(u) + Len(v) /\ L[1] = h
    /\ \A x \in 1 .. Len(u) : L[1 + x] = u[x]
    /\ \A x \in 1 .. Len(v) : L[1 + Len(u) + x] = v[x]

LEMMA HeadThenTails ==
  ASSUME NEW S, NEW h \in S, NEW u \in Seq(S), NEW v \in Seq(S)
  PROVE  Joined(h, u, v) \in Seq(S) /\ HasParts(Joined(h, u, v), h, u, v)
  <1>. DEFINE k == <<h>> \o u
  <1>1. /\ k \in Seq(S) /\ Len(k) = 1 + Len(u) /\ k[1] = h
        /\ \A x \in 1 .. Len(u) : k[1 + x] = u[x]
    OBVIOUS
  <1>. HIDE DEF k
  <1>. DEFINE L == k \o v
  <1>2. /\ L \in Seq(S) /\ DOMAIN L = 1 .. Len(k) + Len(v)
        /\ \A x \in 1 .. Len(k) : L[x] = k[x]
        /\ \A x \in 1 .. Len(v) : L[Len(k) + x] = v[x]
    BY <1>1
  <1>3. Len(u) \in Nat /\ Len(v) \in Nat
    OBVIOUS
  <1>. HIDE DEF L
  <1>4. L[1] = h /\ \A x \in 1 .. Len(u) : L[1 + x] = u[x]
    BY <1>1, <1>2, <1>3
  <1>5. \A x \in 1 .. Len(v) : L[1 + Len(u) + x] = v[x]
    BY <1>1, <1>2
  <1>6. L = Joined(h, u, v)
    BY DEF k, L, Joined
  <1>. QED  BY <1>1, <1>2, <1>4, <1>5, <1>6 DEF HasParts

LEMMA PostingIs ==
  ASSUME NEW account \in {None} \cup Accounts, NEW amount \in Int, NEW credit \in BOOLEAN,
         NEW c \in {None} \cup Parties
  PROVE  LET l == Posting(account, amount, credit, c)
         IN  /\ l \in JournalLine /\ l.account = account /\ l.party = c
             /\ l.credit - l.debit = IF credit THEN amount ELSE -amount
  BY DEF Posting, JournalLine

LEMMA LineFields ==
  ASSUME NEW l \in StoredLine
  PROVE  /\ l.account \in Accounts /\ l.vat \in {None} \cup Accounts
         /\ l.net \in Nat /\ l.tax \in Nat /\ l.total \in Nat
  BY DEF StoredLine

LEMMA TaxOnInt ==
  ASSUME NEW lines \in Seq(StoredLine), NEW a
  PROVE  TaxOn(lines, a) \in Int
  <1>. DEFINE part == [n \in DOMAIN lines |-> IF lines[n].vat = a THEN lines[n].tax ELSE 0]
  <1>1. part \in [DOMAIN lines -> Int]
    BY LineFields
  <1>2. TaxOn(lines, a) = SumFunction(part)
    BY DEF TaxOn, SumOf
  <1>. HIDE DEF part
  <1>. QED  BY <1>1, <1>2, SumOfLines

LEMMA JournalLines ==
  ASSUME NEW row \in Row, NEW lines \in Seq(StoredLine)
  PROVE  LET L == IssueJournalLines(row, lines)
             sale == row.kind # "BILL"
             n == Cardinality(NetLines(lines))
             m == Cardinality(VatAccounts(lines))
             a == SetToSeq(NetLines(lines))
             b == SetToSeq(VatAccounts(lines))
         IN  /\ L \in Seq(JournalLine) /\ DOMAIN L = 1 .. 1 + n + m
             /\ L[1] = Posting(None, row.total, ~sale, row.party)
             /\ \A x \in 1 .. n :
                    L[1 + x] = Posting(lines[a[x]].account, lines[a[x]].net, sale, None)
             /\ \A x \in 1 .. m :
                    L[1 + n + x] = Posting(b[x], TaxOn(lines, b[x]), sale, None)
  <1>. DEFINE sale == row.kind # "BILL"
              P == NetLines(lines)  Q == VatAccounts(lines)
              n == Cardinality(P)  m == Cardinality(Q)  a == SetToSeq(P)  b == SetToSeq(Q)
              h == Posting(None, row.total, ~sale, row.party)
              u == [x \in DOMAIN a |-> Posting(lines[a[x]].account, lines[a[x]].net, sale, None)]
              v == [x \in DOMAIN b |-> Posting(b[x], TaxOn(lines, b[x]), sale, None)]
  <1>1. /\ n \in Nat /\ a \in [1 .. n -> P] /\ DOMAIN a = 1 .. n
        /\ m \in Nat /\ b \in [1 .. m -> Q] /\ DOMAIN b = 1 .. m
    BY LinesFinite, SetListed DEF Lists, Names
  <1>2. IssueJournalLines(row, lines) = <<h>> \o u \o v
    BY DEF IssueJournalLines, NetLines, VatAccounts, TaxLines
  <1>3. h \in JournalLine
    BY PostingIs, RowFields
  <1>. HIDE DEF a, b, n, m, h
  <1>4. u \in [1 .. n -> JournalLine]
    <2>1. ASSUME NEW x \in 1 .. n
          PROVE  Posting(lines[a[x]].account, lines[a[x]].net, sale, None) \in JournalLine
      <3>1. lines[a[x]] \in StoredLine
        BY <1>1 DEF NetLines
      <3>2. lines[a[x]].account \in {None} \cup Accounts /\ lines[a[x]].net \in Int
        BY <3>1, LineFields
      <3>. QED  BY <3>2, PostingIs
    <2>. QED  BY <1>1, <2>1
  <1>5. v \in [1 .. m -> JournalLine]
    <2>1. ASSUME NEW x \in 1 .. m PROVE Posting(b[x], TaxOn(lines, b[x]), sale, None) \in JournalLine
      <3>1. PICK k \in DOMAIN lines : b[x] = lines[k].vat
        BY <1>1 DEF VatAccounts, TaxLines
      <3>2. b[x] \in {None} \cup Accounts /\ TaxOn(lines, b[x]) \in Int
        BY <3>1, LineFields, TaxOnInt
      <3>. QED  BY <3>2, PostingIs
    <2>. QED  BY <1>1, <2>1
  <1>6. /\ \A x \in 1 .. n : u[x] = Posting(lines[a[x]].account, lines[a[x]].net, sale, None)
        /\ \A x \in 1 .. m : v[x] = Posting(b[x], TaxOn(lines, b[x]), sale, None)
    BY <1>1
  <1>. HIDE DEF u, v
  <1>7. Len(u) = n /\ Len(v) = m
    BY <1>1, <1>4, <1>5, IsSeq
  <1>11. u \in Seq(JournalLine)
    BY <1>1, <1>4, IsSeq
  <1>12. v \in Seq(JournalLine)
    BY <1>1, <1>5, IsSeq
  <1>. DEFINE L == Joined(h, u, v)
  <1>8. /\ L \in Seq(JournalLine) /\ DOMAIN L = 1 .. 1 + Len(u) + Len(v) /\ L[1] = h
        /\ \A x \in 1 .. Len(u) : L[1 + x] = u[x]
        /\ \A x \in 1 .. Len(v) : L[1 + Len(u) + x] = v[x]
    <2>1. L \in Seq(JournalLine) /\ HasParts(L, h, u, v)
      BY <1>3, <1>11, <1>12, HeadThenTails
    <2>. QED  BY <2>1 DEF HasParts
  <1>. HIDE DEF L
  <1>9. /\ L \in Seq(JournalLine) /\ DOMAIN L = 1 .. 1 + n + m /\ L[1] = h
        /\ \A x \in 1 .. n : L[1 + x] = Posting(lines[a[x]].account, lines[a[x]].net, sale, None)
        /\ \A x \in 1 .. m : L[1 + n + x] = Posting(b[x], TaxOn(lines, b[x]), sale, None)
    <2>1. Len(u) = n /\ Len(v) = m
      BY <1>7
    <2>2. \A x \in 1 .. n : L[1 + x] = u[x]
      BY <1>8, <2>1
    <2>3. \A x \in 1 .. m : L[1 + n + x] = v[x]
      BY <1>8, <2>1
    <2>4. DOMAIN L = 1 .. 1 + n + m
      BY <1>8, <2>1
    <2>. HIDE DEF sale, P, Q
    <2>5. \A x \in 1 .. n : L[1 + x] = Posting(lines[a[x]].account, lines[a[x]].net, sale, None)
      BY <1>6, <2>2
    <2>6. \A x \in 1 .. m : L[1 + n + x] = Posting(b[x], TaxOn(lines, b[x]), sale, None)
      BY <1>6, <2>3, Zenon
    <2>. QED  BY <1>8, <2>4, <2>5, <2>6
  <1>10. L = IssueJournalLines(row, lines)
    BY <1>2 DEF L, Joined
  <1>. QED  BY <1>9, <1>10 DEF h, n, m, a, b

(* What an account's lines of the journal add up to. *)
NetsOf(f, lines, a) ==
    /\ f \in [NetLines(lines) -> Int]
    /\ \A x \in NetLines(lines) : f[x] = IF lines[x].account = a THEN lines[x].net ELSE 0

TaxesOf(h, lines, a) ==
    /\ h \in [VatAccounts(lines) -> Int]
    /\ \A v \in VatAccounts(lines) : h[v] = IF v = a THEN TaxOn(lines, v) ELSE 0

LEMMA ElementOf ==
  ASSUME NEW S, NEW s \in Seq(S), NEW x \in DOMAIN s
  PROVE  s[x] \in S
  OBVIOUS

Worth(l, a) == IF l.account = a THEN l.credit - l.debit ELSE 0

LEMMA WorthOfPosting ==
  ASSUME NEW account \in {None} \cup Accounts, NEW amount \in Int, NEW credit \in BOOLEAN,
         NEW c \in {None} \cup Parties, NEW a
  PROVE  Worth(Posting(account, amount, credit, c), a)
            = IF account = a THEN (IF credit THEN amount ELSE -amount) ELSE 0
  BY DEF Posting, Worth

LEMMA OnAccountIs ==
  ASSUME DocumentsAssumption, NEW row \in Row, NEW lines \in Seq(StoredLine), NEW j,
         j.lines = IssueJournalLines(row, lines), NEW a,
         NEW f, NetsOf(f, lines, a), NEW h, TaxesOf(h, lines, a)
  PROVE  /\ SumFunction(f) \in Int /\ SumFunction(h) \in Int
         /\ OnAccount(j, a) = (IF a = None THEN -SignOf(row) * row.total ELSE 0)
                                + SignOf(row) * SumFunction(f) + SignOf(row) * SumFunction(h)
  <1>. DEFINE sale == row.kind # "BILL"  sign == SignOf(row)
              P == NetLines(lines)  Q == VatAccounts(lines)
              n == Cardinality(P)  m == Cardinality(Q)  p == SetToSeq(P)  q == SetToSeq(Q)
              L == IssueJournalLines(row, lines)
              g == [x \in DOMAIN L |-> Worth(L[x], a)]
  <1>1. L \in Seq(JournalLine) /\ DOMAIN L = 1 .. 1 + n + m
    BY JournalLines
  <1>2. L[1] = Posting(None, row.total, ~sale, row.party)
    BY JournalLines
  <1>3. \A x \in 1 .. n : L[1 + x] = Posting(lines[p[x]].account, lines[p[x]].net, sale, None)
    BY JournalLines
  <1>4. \A x \in 1 .. m : L[1 + n + x] = Posting(q[x], TaxOn(lines, q[x]), sale, None)
    BY JournalLines
  <1>5. /\ IsFiniteSet(P) /\ n \in Nat /\ Lists(p, n, P)
        /\ IsFiniteSet(Q) /\ m \in Nat /\ Lists(q, m, Q)
    BY LinesFinite, SetListed
  <1>6. p \in [1 .. n -> P] /\ q \in [1 .. m -> Q]
    BY <1>5 DEF Lists, Names
  <1>7. OnAccount(j, a) = SumFunction(g)
    BY DEF OnAccount, SumOf, Worth
  <1>8. sign \in Signs /\ sign = (IF sale THEN 1 ELSE -1) /\ sale \in BOOLEAN
    BY DEF SignOf, Signs
  <1>. HIDE DEF L, n, m, p, q, sale, sign
  <1>9. g \in [1 .. 1 + n + m -> Int] /\ \A x \in 1 .. 1 + n + m : g[x] = Worth(L[x], a)
    <2>1. \A l \in JournalLine : Worth(l, a) \in Int
      BY DEF JournalLine, Worth
    <2>2. \A x \in 1 .. 1 + n + m : L[x] \in JournalLine
      <3>1. \A x \in DOMAIN L : L[x] \in JournalLine
        BY <1>1, ElementOf
      <3>. QED  BY <1>1, <3>1, Zenon
    <2>3. \A x \in 1 .. 1 + n + m : Worth(L[x], a) \in Int
      BY <2>1, <2>2
    <2>4. g = [x \in 1 .. 1 + n + m |-> Worth(L[x], a)]
      BY <1>1
    <2>. HIDE DEF g
    <2>. QED  BY <2>3, <2>4
  <1>. HIDE DEF g
  <1>10. g[1] = IF a = None THEN -sign * row.total ELSE 0
    <2>1. row.total \in Int /\ row.party \in {None} \cup Parties
      BY RowFields
    <2>2. None \in {None} \cup Accounts /\ (~sale) \in BOOLEAN
      BY <1>8
    <2>3. 1 \in 1 .. 1 + n + m
      BY <1>5
    <2>4. g[1] = Worth(Posting(None, row.total, ~sale, row.party), a)
      BY <1>2, <1>9, <2>3
    <2>5. g[1] = IF None = a THEN (IF ~sale THEN row.total ELSE -row.total) ELSE 0
      <3>1. PICK total, credit, c : total = row.total /\ credit = ~sale /\ c = row.party
        OBVIOUS
      <3>2. g[1] = Worth(Posting(None, total, credit, c), a)
        BY <2>4, <3>1, Zenon
      <3>3. total \in Int /\ credit \in BOOLEAN /\ c \in {None} \cup Parties
        BY <2>1, <2>2, <3>1
      <3>4. g[1] = IF None = a THEN (IF credit THEN total ELSE -total) ELSE 0
        BY <2>2, <3>2, <3>3, WorthOfPosting
      <3>. QED  BY <3>1, <3>4, Zenon
    <2>. QED  BY <1>8, <2>1, <2>5
  <1>11. TakenSigned(g, 1, n, sign, f, p)
    <2>1. ASSUME NEW x \in 1 .. n PROVE g[1 + x] = sign * f[p[x]]
      <3>1. p[x] \in P /\ lines[p[x]] \in StoredLine
        BY <1>6 DEF NetLines
      <3>2. PICK account, net : account = lines[p[x]].account /\ net = lines[p[x]].net
        OBVIOUS
      <3>3. account \in {None} \cup Accounts /\ net \in Int /\ None \in {None} \cup Parties
        BY <3>1, <3>2, LineFields
      <3>4. 1 + x \in 1 .. 1 + n + m
        BY <1>5
      <3>5. g[1 + x] = Worth(Posting(account, net, sale, None), a)
        BY <1>3, <1>9, <3>2, <3>4
      <3>6. g[1 + x] = IF account = a THEN (IF sale THEN net ELSE -net) ELSE 0
        BY <1>8, <3>3, <3>5, WorthOfPosting
      <3>7. f[p[x]] = IF account = a THEN net ELSE 0
        BY <3>1, <3>2 DEF NetsOf
      <3>. QED  BY <1>8, <3>3, <3>6, <3>7
    <2>. QED  BY <2>1 DEF TakenSigned
  <1>12. TakenSigned(g, 1 + n, m, sign, h, q)
    <2>1. ASSUME NEW x \in 1 .. m PROVE g[(1 + n) + x] = sign * h[q[x]]
      <3>1. q[x] \in Q
        BY <1>6
      <3>2. PICK account, tax : account = q[x] /\ tax = TaxOn(lines, q[x])
        OBVIOUS
      <3>3. account \in {None} \cup Accounts /\ tax \in Int /\ None \in {None} \cup Parties
        BY <3>1, <3>2, LineFields, TaxOnInt DEF VatAccounts, TaxLines
      <3>4. (1 + n) + x \in 1 .. 1 + n + m
        BY <1>5
      <3>5. g[(1 + n) + x] = Worth(Posting(account, tax, sale, None), a)
        BY <1>4, <1>9, <3>2, <3>4
      <3>6. g[(1 + n) + x] = IF account = a THEN (IF sale THEN tax ELSE -tax) ELSE 0
        BY <1>8, <3>3, <3>5, WorthOfPosting
      <3>7. h[q[x]] = IF account = a THEN tax ELSE 0
        BY <3>1, <3>2 DEF TaxesOf
      <3>. QED  BY <1>8, <3>3, <3>6, <3>7
    <2>. QED  BY <2>1 DEF TakenSigned
  <1>13. TailsSigned(g, sign, n, f, p, P, m, h, q, Q)
    BY <1>5, <1>9, <1>11, <1>12 DEF TailsSigned, TailSigned, NetsOf, TaxesOf
  <1>14. /\ SumFunction(f) \in Int /\ SumFunction(h) \in Int
         /\ SumFunction(g) = g[1] + sign * SumFunction(f) + sign * SumFunction(h)
    BY <1>8, <1>13, HeadAndSignedTails
  <1>. QED  BY <1>7, <1>10, <1>14 DEF sign

LEMMA NetsAre ==
  ASSUME NEW lines \in Seq(StoredLine), NEW a
  PROVE  \E f : NetsOf(f, lines, a) /\ SumFunction(f) = NetOn(lines, a)
  <1>. DEFINE part(n) == IF lines[n].account = a THEN lines[n].net ELSE 0
              all == [n \in DOMAIN lines |-> part(n)]
              f == [n \in NetLines(lines) |-> part(n)]
  <1>1. \A n \in DOMAIN lines : lines[n].net \in Nat /\ part(n) \in Int
    BY LineFields
  <1>2. NetLines(lines) \subseteq DOMAIN lines /\ IsFiniteSet(DOMAIN lines)
    BY LinesFinite DEF NetLines
  <1>3. NetOn(lines, a) = SumFunction(all)
    BY DEF NetOn, SumOf
  <1>4. all \in [DOMAIN lines -> Int] /\ f \in [NetLines(lines) -> Int]
    <2>1. (\A n \in DOMAIN lines : part(n) \in Int) /\ \A n \in NetLines(lines) : part(n) \in Int
      BY <1>1, <1>2
    <2>. HIDE DEF part
    <2>. QED  BY <2>1
  <1>5. \A n \in NetLines(lines) : f[n] = all[n]
    BY <1>2
  <1>6. \A n \in DOMAIN lines \ NetLines(lines) : all[n] = 0
    BY <1>1 DEF NetLines
  <1>7. NetsOf(f, lines, a)
    BY <1>4 DEF NetsOf
  <1>. HIDE DEF all, f, part
  <1>8. SumFunction(f) = SumFunction(all)
    <2>1. PICK S, T : S = DOMAIN lines /\ T = NetLines(lines)
      OBVIOUS
    <2>2. IsFiniteSet(S) /\ T \in SUBSET S /\ all \in [S -> Int] /\ f \in [T -> Int]
      BY <1>2, <1>4, <2>1, Zenon
    <2>3. (\A x \in T : f[x] = all[x]) /\ \A x \in S \ T : all[x] = 0
      BY <1>5, <1>6, <2>1, Zenon
    <2>4. PartOf(f, all, T, S)
      BY <2>2, <2>3, Zenon DEF PartOf
    <2>. QED  BY <2>2, <2>4, SumPartOf
  <1>. QED  BY <1>3, <1>7, <1>8

LEMMA TaxesAre ==
  ASSUME NEW lines \in Seq(StoredLine), NEW a
  PROVE  \E h : TaxesOf(h, lines, a) /\ SumFunction(h) = TaxOn(lines, a)
  <1>. DEFINE Q == VatAccounts(lines)  h == Only(Q, a, TaxOn(lines, a))
  <1>1. TaxOn(lines, a) \in Int /\ IsFiniteSet(Q)
    BY TaxOnInt, LinesFinite
  <1>2. h \in [Q -> Int] /\ SumFunction(h) = IF a \in Q THEN TaxOn(lines, a) ELSE 0
    BY <1>1, SumOnly
  <1>3. TaxesOf(h, lines, a)
    BY <1>2 DEF TaxesOf, Only
  <1>4. CASE a \notin Q
    <2>. DEFINE part == [n \in DOMAIN lines |-> IF lines[n].vat = a THEN lines[n].tax ELSE 0]
    <2>1. \A n \in DOMAIN lines : lines[n].tax \in Nat /\ (lines[n].vat = a => ~(lines[n].tax > 0))
      BY <1>4, LineFields DEF VatAccounts, TaxLines
    <2>2. part = Zeros(DOMAIN lines)
      BY <2>1 DEF Zeros
    <2>3. TaxOn(lines, a) = SumFunction(part)
      BY DEF TaxOn, SumOf
    <2>. HIDE DEF part
    <2>4. TaxOn(lines, a) = 0
      BY <2>2, <2>3, LinesFinite, SumZeros
    <2>. QED  BY <1>2, <1>3, <1>4, <2>4
  <1>. QED  BY <1>2, <1>3, <1>4

LEMMA NothingOnNone ==
  ASSUME DocumentsAssumption, NEW row, Stored(row)
  PROVE  \E f, h : /\ NetsOf(f, row.lines, None) /\ SumFunction(f) = 0
                   /\ TaxesOf(h, row.lines, None) /\ SumFunction(h) = 0
  <1>. DEFINE P == NetLines(row.lines)  Q == VatAccounts(row.lines)
  <1>0. row.lines \in Seq(StoredLine)
    BY RowFields DEF Stored
  <1>1. IsFiniteSet(P) /\ IsFiniteSet(Q)
    BY <1>0, LinesFinite
  <1>2. /\ Zeros(P) \in [P -> Int] /\ SumFunction(Zeros(P)) = 0
        /\ Zeros(Q) \in [Q -> Int] /\ SumFunction(Zeros(Q)) = 0
    BY <1>1, SumZeros
  <1>3. \A x \in P : row.lines[x].account # None
    BY <1>0, LineFields DEF NetLines, DocumentsAssumption
  <1>4. \A v \in Q : v # None
    BY DEF VatAccounts, TaxLines, Stored, Built
  <1>5. NetsOf(Zeros(P), row.lines, None)
    BY <1>2, <1>3 DEF NetsOf, Zeros
  <1>6. TaxesOf(Zeros(Q), row.lines, None)
    BY <1>2, <1>4 DEF TaxesOf, Zeros
  <1>. QED  BY <1>2, <1>5, <1>6

LEMMA TotalOfLines ==
  ASSUME NEW row, Stored(row)
  PROVE  row.total = SumOf(row.lines, LAMBDA l : l.total)
  <1>. DEFINE S == DOMAIN row.lines
              net == [n \in S |-> row.lines[n].net]  tax == [n \in S |-> row.lines[n].tax]
              total == [n \in S |-> row.lines[n].total]
  <1>1. row.lines \in Seq(StoredLine)
    BY RowFields DEF Stored
  <1>2. IsFiniteSet(S)
    BY <1>1, LinesFinite
  <1>3. net \in [S -> Int] /\ tax \in [S -> Int] /\ total \in [S -> Int]
    BY <1>1, LineFields
  <1>4. \A n \in S : total[n] = net[n] + tax[n]
    BY DEF Stored, Built, LineAddsUp
  <1>5. /\ row.total = SumFunction(net) + SumFunction(tax)
        /\ SumOf(row.lines, LAMBDA l : l.total) = SumFunction(total)
    BY DEF Stored, ComputeTotal, SumOf
  <1>. HIDE DEF net, tax, total, S
  <1>6. SumFunction(total) = SumFunction(net) + SumFunction(tax)
    BY <1>2, <1>3, <1>4, SumPlus
  <1>. QED  BY <1>5, <1>6

LEMMA JournalTells ==
  ASSUME DocumentsAssumption, NEW row, Stored(row), NEW j, j.lines = IssueJournalLines(row, row.lines)
  PROVE  Tells(j, row)
  <1>1. row \in Row /\ row.lines \in Seq(StoredLine)
    BY RowFields DEF Stored
  <1>. DEFINE sign == SignOf(row)
  <1>2. sign \in {1, -1} /\ sign = IF row.kind = "BILL" THEN -1 ELSE 1
    BY DEF SignOf
  <1>. HIDE DEF sign
  <1>3. ASSUME NEW a \in Accounts
        PROVE  OnAccount(j, a) = sign * (NetOn(row.lines, a) + TaxOn(row.lines, a))
    <2>1. PICK f : NetsOf(f, row.lines, a) /\ SumFunction(f) = NetOn(row.lines, a)
      BY <1>1, NetsAre
    <2>2. PICK h : TaxesOf(h, row.lines, a) /\ SumFunction(h) = TaxOn(row.lines, a)
      BY <1>1, TaxesAre
    <2>3. a # None
      BY DEF DocumentsAssumption
    <2>4. /\ SumFunction(f) \in Int /\ SumFunction(h) \in Int
          /\ OnAccount(j, a) = (IF a = None THEN -SignOf(row) * row.total ELSE 0)
                                + SignOf(row) * SumFunction(f) + SignOf(row) * SumFunction(h)
      BY <1>1, <2>1, <2>2, OnAccountIs
    <2>5. OnAccount(j, a) = sign * SumFunction(f) + sign * SumFunction(h)
      BY <1>2, <2>3, <2>4 DEF sign
    <2>. QED  BY <1>2, <2>1, <2>2, <2>4, <2>5
  <1>4. OnAccount(j, None) = -sign * SumOf(row.lines, LAMBDA l : l.total)
    <2>1. PICK f, h : /\ NetsOf(f, row.lines, None) /\ SumFunction(f) = 0
                      /\ TaxesOf(h, row.lines, None) /\ SumFunction(h) = 0
      BY NothingOnNone
    <2>2. OnAccount(j, None) = (IF None = None THEN -SignOf(row) * row.total ELSE 0)
                                + SignOf(row) * SumFunction(f) + SignOf(row) * SumFunction(h)
      BY <1>1, <2>1, OnAccountIs
    <2>3. row.total \in Int
      BY <1>1, RowFields
    <2>4. OnAccount(j, None) = -sign * row.total
      BY <1>2, <2>1, <2>2, <2>3 DEF sign
    <2>5. row.total = SumOf(row.lines, LAMBDA l : l.total)
      BY TotalOfLines
    <2>. QED  BY <2>4, <2>5, Zenon
  <1>5. j.lines[1].party = row.party
    <2>1. j.lines[1] = Posting(None, row.total, ~(row.kind # "BILL"), row.party)
      BY <1>1, JournalLines
    <2>. QED  BY <2>1 DEF Posting
  <1>. QED  BY <1>2, <1>3, <1>4, <1>5, Zenon DEF Tells

(* It is a journal, of the party of the row. *)
JournalFor(row, lines) == [currency |-> BaseCurrency, lines |-> IssueJournalLines(row, lines)]

LEMMA JournalOf ==
  ASSUME NEW row \in Row, NEW lines \in Seq(StoredLine)
  PROVE  LET j == JournalFor(row, lines)
         IN  /\ j \in Journal /\ j.lines[1].party = row.party
             /\ j.lines = IssueJournalLines(row, lines)
  <1>. DEFINE L == IssueJournalLines(row, lines)
  <1>1. /\ L \in Seq(JournalLine)
        /\ DOMAIN L = 1 .. 1 + Cardinality(NetLines(lines)) + Cardinality(VatAccounts(lines))
        /\ L[1] = Posting(None, row.total, ~(row.kind # "BILL"), row.party)
    BY JournalLines
  <1>2. Cardinality(NetLines(lines)) \in Nat /\ Cardinality(VatAccounts(lines)) \in Nat
    BY LinesFinite, SetListed
  <1>. HIDE DEF L
  <1>3. L # <<>>
    BY <1>1, <1>2
  <1>4. L[1].party = row.party /\ row.party \in Parties
    BY <1>1, RowFields DEF Posting
  <1>. QED  BY <1>1, <1>3, <1>4 DEF Journal, JournalFor, L

LEMMA PreparesIssue ==
  ASSUME DocumentsAssumption, IInv, NEW r \in Requests, PrepareIssue(r)
  PROVE  IInv'
  <1>. DEFINE d == request[r].doc  row == request[r].row  base == request[r].base
              lines == IssueJournalLines(row, document[d].lines)
              fits == Exists(d) /\ SumOf(lines, LAMBDA l : l.debit - l.credit) = 0
  <1>1. CASE ~fits
    BY <1>1, Refusing DEF PrepareIssue
  <1>2. CASE fits
    <2>. DEFINE linesBase == Edition(d)
                journal == JournalFor(row, document[d].lines)
                q == [request[r] EXCEPT !.pc = "checked", !.since = clock, !.linesBase = linesBase,
                                        !.journal = journal]
    <2>1. /\ item \in [Items -> Item] /\ clock \in Nat /\ request[r] \in Request
          /\ Read(history, request[r]) /\ request[r].op = "issue"
      BY DEF PrepareIssue, At, IInv, TypeOK, Sound, ReadIssue, Working
    <2>2. /\ Edited(history, d, base) /\ row = history[d][base].row /\ d \in Docs
          /\ base \in 1 .. Len(history[d]) /\ Len(history[d]) \in Nat /\ Exists(d)
      <3>1. Edited(history, d, base) /\ row = history[d][base].row
        BY <2>1, Zenon DEF Read
      <3>2. d \in Docs /\ base \in 1 .. Len(history[d])
        BY <3>1 DEF Edited
      <3>3. Len(history[d]) \in Nat
        BY <3>2 DEF IInv, TypeOK
      <3>. QED  BY <1>2, <3>1, <3>2, <3>3
    <2>3. Stored(row) /\ row \in Row /\ row # None
      <3>. HIDE DEF d, row, base
      <3>1. Stored(row)
        BY <2>2, EditionStored
      <3>. QED  BY <3>1 DEF Stored, DocumentsAssumption
    <2>4. Stored(document[d]) /\ document[d] \in Row /\ document[d] = history[d][linesBase].row
      BY <2>2, Current
    <2>5. document[d].lines \in Seq(StoredLine)
      BY <2>4, RowFields
    <2>6. journal \in Journal /\ journal.lines[1].party = row.party /\ journal.lines = lines
      <3>. HIDE DEF d, row
      <3>. QED  BY <2>3, <2>5, JournalOf
    <2>7. linesBase = base => Tells(journal, row)
      <3>1. linesBase = base => lines = IssueJournalLines(row, row.lines)
        BY <2>2, <2>4
      <3>. HIDE DEF lines, journal
      <3>. QED  BY <2>3, <2>6, <3>1, JournalTells
    <2>8. Thinks(r, q) /\ item' \in [Items -> Item] /\ clock' \in Nat
      <3>1. request' = [request EXCEPT ![r] = q]
        BY <1>2, Zenon DEF PrepareIssue, JournalFor
      <3>. HIDE DEF q
      <3>. QED  BY <2>1, <3>1 DEF PrepareIssue, Thinks
    <2>9. linesBase = Len(history[d]) /\ linesBase \in Nat
      BY <2>2 DEF Edition
    <2>. HIDE DEF journal, linesBase
    <2>10. /\ q \in Request /\ q.pc = "checked" /\ q.op = "issue" /\ q.doc = d /\ q.row = row
           /\ q.base = base /\ q.linesBase = linesBase /\ q.journal = journal
      BY <2>1, <2>6, <2>9 DEF Request
    <2>. HIDE DEF q
    <2>11. Read(history, q)
      BY <2>2, <2>10, Zenon DEF Read
    <2>12. Prepared(history, q)
      <3>. HIDE DEF d, row, base
      <3>1. base <= linesBase /\ linesBase <= Len(history[d])
        BY <2>2, <2>9
      <3>. QED  BY <2>6, <2>7, <2>10, <3>1, Zenon DEF Prepared
    <2>13. Sound(history, q)
      BY <2>10, <2>11, <2>12 DEF Sound, Creating, ReadEstimate, Converting, ReadEdit, Updating,
                                 ReadIssue, Issuing, Repricing
    <2>14. \A c \in Parties : Held(q, c) => Held(request[r], c)
      BY <2>1, <2>3, <2>10 DEF Held
    <2>. QED  BY <2>8, <2>10, <2>13, <2>14, Thinking
  <1>. QED  BY <1>1, <1>2

LEMMA CommitsIssue ==
  ASSUME DocumentsAssumption, IInv, NEW r \in Requests, CommitIssue(r)
  PROVE  IInv'
  <1>0. PICK d : d = request[r].doc
    OBVIOUS
  <1>. DEFINE base == request[r].base  journal == request[r].journal
  <1>1. CASE ~AsRead(r)
    BY <1>1, Refusing DEF CommitIssue
  <1>2. CASE AsRead(r)
    <2>. DEFINE row == [document[d] EXCEPT !.status = "ISSUED"]
    <2>1. /\ At(r, "checked", "issue") /\ request[r] \in Request
          /\ Read(history, request[r]) /\ (journal # None => Prepared(history, request[r]))
      BY DEF CommitIssue, At, IInv, TypeOK, Sound, ReadIssue, Issuing, Working
    <2>2. Edited(history, d, base) /\ request[r].row = history[d][base].row
      BY <1>0, <2>1, Zenon DEF Read
    <2>3. d \in Docs /\ base \in 1 .. Len(history[d]) /\ base # 0
      BY <2>2 DEF Edited
    <2>4. Exists(d) /\ Is(d, "DRAFT") /\ document[d].stamp = request[r].row.stamp
      BY <1>0, <1>2 DEF AsRead, Is, Exists
    <2>5. Write(r, d, row, "issue") /\ request' = Done(r) /\ UNCHANGED <<party, item, clock, unsettled>>
      BY <1>0, <1>2 DEF CommitIssue
    <2>6. journals' = [journals EXCEPT ![d] = IF journal = None THEN @ ELSE Append(@, journal)]
      BY <1>0, <1>2 DEF CommitIssue
    <2>7. journals \in [Docs -> Seq(Journal)] /\ journal \in {None} \cup Journal
      BY <2>1 DEF Request, IInv, TypeOK
    <2>. HIDE DEF base, journal
    <2>8. /\ Stored(document[d]) /\ history[d] # <<>> /\ document[d].source = history[d][1].row.source
          /\ document[d] = history[d][Edition(d)].row /\ journals[d] = <<>>
      BY <2>3, <2>4, Current DEF IInv, Posted, Is
    <2>9. Stored(row) /\ row.status = "ISSUED" /\ SameTerms(row, document[d])
      BY <2>8, StatusSet
    <2>. HIDE DEF row
    <2>10. PICK e : Writes(r, d, e) /\ Records(r, e, row, "issue")
      <3>1. "issue" \in Origins
        BY DEF Origins
      <3>. QED  BY <2>3, <2>5, <2>9, <3>1, Wrote
    <2>11. /\ e \in Edit /\ Stored(e.row) /\ SameTerms(e.row, row) /\ e.by = "issue"
           /\ e.row.status = "ISSUED" /\ e.base = base
      BY <2>9, <2>10 DEF Records, base
    <2>12. SameTerms(e.row, document[d])
      BY <2>9, <2>11, ZenonT(30) DEF SameTerms
    <2>13. e.row.source = document[d].source /\ e.row.party = document[d].party
      BY <2>12 DEF SameTerms
    <2>14. ASSUME NEW v \in Docs, v # d, Exists(v), document[v].source = e.row.source
           PROVE  e.row.source = None
      BY <2>3, <2>4, <2>13, <2>14 DEF IInv, ConvertedOnce
    <2>15. Fits(d, e)
      BY <2>3, <2>8, <2>11, <2>13, <2>14 DEF Fits
    <2>16. Len(history[d]) \in Nat /\ base \in Nat /\ Edition(d) = Len(history[d])
      BY <2>3 DEF Edition, IInv, TypeOK
    <2>17. CASE journal = None
      <3>1. journals' = journals
        BY <2>3, <2>6, <2>7, <2>17
      <3>2. Posts(d, e.row)
        BY <2>3, <2>8, <3>1, LedgerStays
      <3>. QED  BY <2>3, <2>10, <2>15, <3>2, Writing
    <2>18. CASE journal # None
      <3>1. journal \in Journal
        BY <2>7, <2>18
      <3>2. /\ journals' \in [Docs -> Seq(Journal)] /\ journals'[d] = <<journal>>
            /\ \A v \in Docs : v # d => journals'[v] = journals[v]
        BY <2>3, <2>6, <2>7, <2>8, <2>18, <3>1
      <3>3. /\ journal.lines[1].party = request[r].row.party
            /\ base <= request[r].linesBase /\ request[r].linesBase <= Len(history[d])
            /\ request[r].linesBase = base => Tells(journal, request[r].row)
        BY <1>0, <2>1, <2>18, Zenon DEF Prepared, base, journal
      <3>4. Stored(request[r].row)
        BY <2>2, EditionStored
      <3>5. Tells(journal, e.row) \/ SameMillisecond(d)'
        <4>1. CASE base = Len(history[d])
          <5>1. request[r].linesBase = base
            <6>1. request[r].linesBase \in Nat
              BY <2>1 DEF Request
            <6>. QED  BY <2>16, <3>3, <4>1, <6>1
          <5>2. request[r].row = document[d]
            BY <2>2, <2>8, <2>16, <4>1
          <5>. QED  BY <2>12, <3>3, <5>1, <5>2, TellsSame
        <4>2. CASE base # Len(history[d])
          <5>1. base < Len(history[d])
            BY <2>3, <2>16, <4>2
          <5>2. /\ history' \in Histories /\ Grows(history, history')
                /\ Len(history'[d]) = Len(history[d]) + 1 /\ history'[d][Len(history[d]) + 1] = e
            BY <2>3, <2>10, <2>11, GrowsBy
          <5>3. \A n \in 1 .. Len(history[d]) : history'[d][n] = history[d][n]
            BY <2>3, <5>2 DEF Grows
          <5>4. PICK n : n = Len(history[d]) + 1
            OBVIOUS
          <5>5. n \in 2 .. Len(history'[d]) /\ base < n - 1 /\ n - 1 = Len(history[d])
            BY <2>3, <2>16, <5>1, <5>2, <5>4
          <5>6. history'[d][n].by = "issue" /\ history'[d][n].base = base
            BY <2>11, <5>2, <5>4
          <5>7. history'[d][base] = history[d][base]
            BY <2>3, <5>3
          <5>8. history'[d][n - 1] = history[d][Len(history[d])]
            <6>1. Len(history[d]) \in 1 .. Len(history[d])
              BY <2>3, <2>16
            <6>. QED  BY <5>3, <5>5, <6>1
          <5>9. history'[d][base].row.stamp = history'[d][n - 1].row.stamp
            BY <2>2, <2>4, <2>8, <2>16, <5>7, <5>8
          <5>10. /\ history'[d][n].by = "issue" /\ history'[d][n].base < n - 1
                 /\ history'[d][history'[d][n].base].row.stamp = history'[d][n - 1].row.stamp
            BY <5>5, <5>6, <5>9, Zenon
          <5>. QED  BY <5>5, <5>10, Zenon DEF SameMillisecond
        <4>. QED  BY <4>1, <4>2
      <3>6. Fixed(journal.lines[1].party)
        <4>1. request[r].row.party \in Parties /\ request[r].row # None
          BY <3>4, RowFields DEF Stored, DocumentsAssumption
        <4>2. Held(request[r], request[r].row.party)
          BY <2>1, <4>1 DEF Held, At
        <4>. QED  BY <3>3, <4>1, <4>2 DEF IInv, Settled
      <3>7. Posts(d, e.row)
        <4>1. journals'[d][1] = journal /\ DOMAIN journals'[d] = {1}
          BY <3>2
        <4>2. \A k \in DOMAIN journals'[d] : Fixed(journals'[d][k].lines[1].party)
          BY <3>6, <4>1
        <4>3. e.row.status # "DRAFT" /\ (Tells(journals'[d][1], e.row) \/ SameMillisecond(d)')
          BY <2>11, <3>5, <4>1
        <4>. QED  BY <3>2, <4>2, <4>3, Zenon DEF Posts
      <3>. QED  BY <2>3, <2>10, <2>15, <3>7, Writing
    <2>. QED  BY <2>17, <2>18
  <1>. QED  BY <1>1, <1>2

(* A reversal is a journal of the same party. *)
LEMMA Reversed ==
  ASSUME NEW j \in Journal
  PROVE  Reversal(j) \in Journal /\ Reversal(j).lines[1].party = j.lines[1].party
  <1>. DEFINE lines == [n \in DOMAIN j.lines |->
                  [j.lines[n] EXCEPT !.debit = j.lines[n].credit, !.credit = j.lines[n].debit]]
  <1>1. /\ j.lines \in Seq(JournalLine) /\ j.lines # <<>> /\ j.currency = BaseCurrency
        /\ j.lines[1].party \in Parties /\ j = [currency |-> BaseCurrency, lines |-> j.lines]
    BY DEF Journal
  <1>2. \A l \in JournalLine :
            LET m == [l EXCEPT !.debit = l.credit, !.credit = l.debit]
            IN  m \in JournalLine /\ m.party = l.party
    BY DEF JournalLine
  <1>3. \A n \in DOMAIN j.lines : lines[n] \in JournalLine /\ lines[n].party = j.lines[n].party
    BY <1>1, <1>2, ElementOf
  <1>4. DOMAIN j.lines = 1 .. Len(j.lines) /\ Len(j.lines) \in Nat /\ 1 \in DOMAIN j.lines
    BY <1>1
  <1>5. DOMAIN lines = 1 .. Len(j.lines)
    BY <1>4
  <1>6. Reversal(j) = [currency |-> BaseCurrency, lines |-> lines]
    <2>1. Reversal(j) = [j EXCEPT !.lines = lines]
      BY DEF Reversal
    <2>. HIDE DEF lines
    <2>. QED  BY <2>1 DEF Journal
  <1>7. lines = [n \in 1 .. Len(j.lines) |-> lines[n]]
    BY <1>5
  <1>. HIDE DEF lines
  <1>8. lines \in Seq(JournalLine) /\ lines # <<>>
    <2>1. lines \in [1 .. Len(j.lines) -> JournalLine]
      BY <1>3, <1>4, <1>7
    <2>. QED  BY <1>4, <1>5, <2>1, IsSeq
  <1>. QED  BY <1>1, <1>3, <1>4, <1>6, <1>8 DEF Journal

LEMMA Cancels ==
  ASSUME DocumentsAssumption, IInv, NEW r \in Requests, NEW d \in Docs, Cancel(r, d)
  PROVE  IInv'
  <1>1. CASE ~Is(d, "ISSUED")
    BY <1>1, Refusing DEF Cancel
  <1>2. CASE Is(d, "ISSUED")
    <2>1. Exists(d)
      BY <1>2 DEF Is, Exists
    <2>. DEFINE row == [document[d] EXCEPT !.status = "CANCELLED"]
                e == Entry(row, r, "cancel")
    <2>2. /\ Stored(document[d]) /\ document[d].status = "ISSUED" /\ history[d] # <<>>
          /\ document[d].source = history[d][1].row.source
      BY <1>2, <2>1, Current DEF Is
    <2>3. Stored(row) /\ SameTerms(row, document[d]) /\ row.status = "CANCELLED"
      BY <2>2, StatusSet
    <2>4. document \in [Docs -> {None} \cup Row] /\ journals \in [Docs -> Seq(Journal)]
      BY DEF IInv, TypeOK
    <2>5. document' = [document EXCEPT ![d] = row]
      BY <1>2, <2>4 DEF Cancel
    <2>6. document'[d] = row
      BY <2>4, <2>5
    <2>7. history' = [history EXCEPT ![d] = Append(@, e)]
      BY <1>2, <2>6, Zenon DEF Cancel
    <2>. HIDE DEF row
    <2>8. e \in Edit /\ e.row = row /\ e.by = "cancel"
      BY <2>3, EntryIs DEF Stored, Origins
    <2>. HIDE DEF e
    <2>9. Writes(r, d, e)
      BY <1>2, <2>5, <2>7, <2>8 DEF Cancel, Writes, Appended, Done
    <2>10. row.source = document[d].source
      BY <2>3 DEF SameTerms
    <2>11. ASSUME NEW v \in Docs, v # d, Exists(v), document[v].source = row.source PROVE row.source = None
      BY <2>1, <2>10, <2>11 DEF IInv, ConvertedOnce
    <2>12. Fits(d, e)
      BY <2>2, <2>3, <2>8, <2>10, <2>11 DEF Fits
    <2>13. history' \in Histories /\ Grows(history, history')
      BY <2>8, <2>9, GrowsBy
    <2>14. journals[d] # <<>> => Tells(journals[d][1], row) \/ SameMillisecond(d)'
      BY <2>3, <2>13, TellsSame, MillisecondStays DEF IInv, Posted
    <2>15. CASE journals[d] = <<>>
      <3>1. journals' = journals
        BY <1>2, <2>4, <2>15 DEF Cancel
      <3>2. Posts(d, e.row)
        BY <2>3, <2>8, <2>15, <3>1, LedgerStays
      <3>. QED  BY <2>9, <2>12, <3>2, Writing
    <2>16. CASE journals[d] # <<>>
      <3>. DEFINE L == Len(journals[d])  j == journals[d][L]
      <3>1. L \in Nat /\ L # 0 /\ j \in Journal /\ j = Last(journals[d])
        BY <2>4, <2>16 DEF Last
      <3>2. Reversal(j) \in Journal /\ Reversal(j).lines[1].party = j.lines[1].party
        BY <3>1, Reversed
      <3>3. journals' = [journals EXCEPT ![d] = Append(@, Reversal(j))]
        BY <1>2, <2>4, <2>16, <3>1 DEF Cancel
      <3>. HIDE DEF j
      <3>4. /\ journals' \in [Docs -> Seq(Journal)] /\ Len(journals'[d]) = L + 1
            /\ journals'[d][L + 1] = Reversal(j)
            /\ \A k \in 1 .. L : journals'[d][k] = journals[d][k]
            /\ \A v \in Docs : v # d => journals'[v] = journals[v]
        BY <2>4, <3>1, <3>2, <3>3
      <3>5. journals'[d][1] = journals[d][1]
        BY <3>1, <3>4
      <3>6. ASSUME NEW k \in DOMAIN journals'[d] PROVE Journalled(journals'[d][k].lines[1].party)
        <4>1. DOMAIN journals'[d] = 1 .. L + 1 /\ DOMAIN journals[d] = 1 .. L
          BY <2>4, <3>4
        <4>2. CASE k \in 1 .. L
          BY <3>4, <4>1, <4>2 DEF Journalled
        <4>3. CASE k = L + 1
          <5>1. L \in DOMAIN journals[d]
            BY <3>1, <4>1
          <5>. QED  BY <3>2, <3>4, <4>3, <5>1 DEF Journalled, j
        <4>. QED  BY <3>1, <4>1, <4>2, <4>3
      <3>7. Posts(d, e.row)
        BY <2>3, <2>8, <2>14, <2>16, <3>4, <3>5, <3>6 DEF Posts
      <3>. QED  BY <2>9, <2>12, <3>7, Writing
    <2>. QED  BY <2>15, <2>16
  <1>. QED  BY <1>1, <1>2

-----------------------------------------------------------------------------
(***************************************************************************)
(* The initial states.                                                     *)
(***************************************************************************)
LEMMA Starts ==
  ASSUME DocumentsAssumption, item \in [Items -> Item], NEW o \in Order, Creatable(o)
  PROVE  /\ Stored(Start(o)) /\ Start(o).source = None /\ Trades(Start(o).party)
         /\ Stored([Start(o) EXCEPT !.status = "ISSUED"])
         /\ [Start(o) EXCEPT !.status = "ISSUED"].source = None
         /\ Trades([Start(o) EXCEPT !.status = "ISSUED"].party)
  <1>1. /\ o.kind \in Kinds /\ o.party \in Parties /\ o.mode \in TaxModes /\ o.date \in Nat
        /\ o.due \in {None} \cup Nat /\ o.terms \in {None} \cup Nat /\ o.note \in STRING
        /\ o.lines \in Seq(Line)
    BY OrderFields
  <1>2. Trades(o.party) /\ Resolvable(o.lines, o.kind, FALSE)
    BY DEF Creatable
  <1>. DEFINE lines == ResolveLines(o.lines, o.kind)  row == NewRow(o, lines, None, InitialParty)
  <1>3. PricedLines(lines)
    BY <1>1, <1>2, LinesResolved
  <1>4. None \in {None} \cup Docs /\ InitialParty \in [Parties -> Party]
    BY DEF DocumentsAssumption
  <1>. HIDE DEF lines
  <1>5. Stored(row) /\ row.source = None /\ row.party = o.party
    BY <1>1, <1>3, <1>4, NewRowStored
  <1>6. Start(o) = row
    BY DEF Start, lines
  <1>. HIDE DEF row
  <1>. DEFINE sent == [row EXCEPT !.status = "ISSUED"]
  <1>7. Stored(sent) /\ SameTerms(sent, row)
    BY <1>5, StatusSet
  <1>8. sent.source = None /\ sent.party = o.party
    BY <1>5, <1>7 DEF SameTerms
  <1>. QED  BY <1>2, <1>5, <1>6, <1>7, <1>8

LEMMA NoSecond ==
  ASSUME NEW h, NEW e, h = <<e>> \/ h = <<>>, NEW n \in 2 .. Len(h)
  PROVE  FALSE
  <1>1. CASE h = <<e>>
    <2>1. Len(<<e>>) = 1
      OBVIOUS
    <2>. QED  BY <1>1, <2>1
  <1>2. CASE h = <<>>
    BY <1>2
  <1>. QED  BY <1>1, <1>2

LEMMA Begins ==
  ASSUME DocumentsAssumption, Init
  PROVE  IInv
  <1>0. /\ party = InitialParty /\ item = InitialItem /\ journals = [d \in Docs |-> <<>>]
        /\ request = [r \in Requests |-> Idle] /\ clock = 0 /\ unsettled = {}
        /\ party \in [Parties -> Party] /\ item \in [Items -> Item]
    BY DEF Init, DocumentsAssumption
  <1>15. PICK drafts \in {f \in Initial : \A d \in DOMAIN f : Creatable(f[d])} :
            \E sent \in SUBSET {d \in DOMAIN drafts : drafts[d].kind = "PROFORMA"} :
            LET row(d) == IF d \in sent THEN [Start(drafts[d]) EXCEPT !.status = "ISSUED"]
                          ELSE Start(drafts[d])
            IN  /\ document = [d \in Docs |-> IF d \in DOMAIN drafts THEN row(d) ELSE None]
                /\ history = [d \in Docs |-> IF d \notin DOMAIN drafts THEN <<>>
                        ELSE <<[row |-> row(d), by |-> "create", patch |-> None,
                                base |-> 0, linesBase |-> 0]>>]
    BY Zenon DEF Init
  <1>1. PICK sent :
            LET row(d) == IF d \in sent THEN [Start(drafts[d]) EXCEPT !.status = "ISSUED"]
                          ELSE Start(drafts[d])
            IN  /\ document = [d \in Docs |-> IF d \in DOMAIN drafts THEN row(d) ELSE None]
                /\ history = [d \in Docs |-> IF d \notin DOMAIN drafts THEN <<>>
                        ELSE <<[row |-> row(d), by |-> "create", patch |-> None,
                                base |-> 0, linesBase |-> 0]>>]
    BY <1>15, ZenonT(30)
  <1>. DEFINE row(d) == IF d \in sent THEN [Start(drafts[d]) EXCEPT !.status = "ISSUED"]
                        ELSE Start(drafts[d])
              entry(d) == [row |-> row(d), by |-> "create", patch |-> None, base |-> 0, linesBase |-> 0]
  <1>2. ASSUME NEW d \in DOMAIN drafts
        PROVE  d \in Docs /\ Stored(row(d)) /\ row(d).source = None /\ Trades(row(d).party)
    <2>1. d \in Docs /\ drafts[d] \in Order
      BY DEF DocumentsAssumption
    <2>2. Creatable(drafts[d])
      OBVIOUS
    <2>. QED  BY <1>0, <2>1, <2>2, Starts
  <1>3. /\ document = [d \in Docs |-> IF d \in DOMAIN drafts THEN row(d) ELSE None]
        /\ history = [d \in Docs |-> IF d \notin DOMAIN drafts THEN <<>> ELSE <<entry(d)>>]
    BY <1>1, Zenon
  <1>4. ASSUME NEW d \in DOMAIN drafts
        PROVE  /\ entry(d) \in Edit /\ entry(d).row = row(d) /\ entry(d).by = "create"
               /\ row(d) \in Row /\ row(d) # None
    <2>1. row(d) \in Row
      BY <1>2 DEF Stored
    <2>. HIDE DEF row
    <2>. QED  BY <2>1 DEF Edit, Origins, Changes, DocumentsAssumption
  <1>. HIDE DEF row, entry
  <1>5. ASSUME NEW d \in Docs
        PROVE  \/ /\ d \in DOMAIN drafts
                  /\ document[d] = row(d) /\ history[d] = <<entry(d)>>
               \/ document[d] = None /\ history[d] = <<>>
    <2>1. CASE d \in DOMAIN drafts
      BY <1>3, <2>1
    <2>2. CASE d \notin DOMAIN drafts
      BY <1>3, <2>2
    <2>. QED  BY <2>1, <2>2
  <1>6. TypeOK
    <2>1. document \in [Docs -> {None} \cup Row]
      BY <1>3, <1>4
    <2>2. history \in [Docs -> Seq(Edit)]
      BY <1>3, <1>4
    <2>3. request \in [Requests -> Request]
      BY <1>0 DEF Idle, Request, Changes
    <2>. QED  BY <1>0, <2>1, <2>2, <2>3 DEF TypeOK
  <1>7. Latest
    BY <1>4, <1>5 DEF Latest, Exists
  <1>8. Edits
    BY <1>2, <1>4, <1>5 DEF Edits
  <1>9. Converted(history)
    BY <1>2, <1>4, <1>5 DEF Converted
  <1>10. ConvertedOnce
    BY <1>2, <1>5 DEF ConvertedOnce, Exists
  <1>11. \A r \in Requests : Sound(history, request[r]) /\ \A c : ~Held(request[r], c)
    BY <1>0 DEF Sound, Creating, ReadEstimate, Converting, ReadEdit, Updating, ReadIssue, Issuing,
                Repricing, Working, Held, Idle
  <1>12. OverwrittenOnlyInARace
    <2>1. ASSUME NEW d \in Docs, NEW n \in 2 .. Len(history[d]) PROVE FALSE
      <3>1. history[d] = <<entry(d)>> \/ history[d] = <<>>
        BY <1>5, <2>1, Zenon
      <3>. QED  BY <2>1, <3>1, NoSecond
    <2>. QED  BY <2>1 DEF OverwrittenOnlyInARace
  <1>13. Posted
    BY <1>0 DEF Posted
  <1>14. Settled
    <2>1. \A c : Drafted(c) => Trades(c)
      BY <1>2, <1>5 DEF Drafted, Is
    <2>2. \A c : ~Journalled(c)
      BY <1>0 DEF Journalled
    <2>. QED  BY <1>11, <2>1, <2>2 DEF Settled, Fixed
  <1>. QED  BY <1>6, <1>7, <1>8, <1>9, <1>10, <1>11, <1>12, <1>13, <1>14 DEF IInv

LEMMA Proceeds ==
  ASSUME DocumentsAssumption, IInv, [Next]_vars
  PROVE  IInv'
  <1>1. CASE UNCHANGED vars
    BY <1>1, Stutters
  <1>2. CASE Tick
    BY <1>2, Ticks
  <1>3. ASSUME NEW r \in Requests,
               \/ \E o \in Orders : CheckCreate(r, o)
               \/ \E today \in Days : CheckConvert(r, today)
               \/ InsertInvoice(r)
               \/ CheckUpdate(r)
               \/ UpdateDraft(r)
               \/ PrepareIssue(r)
               \/ CommitIssue(r)
        PROVE  IInv'
    <2>1. \A today \in Days : today \in Nat
      BY DocumentsAssumption DEF DocumentsAssumption
    <2>. QED  BY <1>3, <2>1, Creates, Converts, Inserts, ChecksUpdate, UpdatesDraft, PreparesIssue,
                 CommitsIssue, Zenon
  <1>4. ASSUME NEW r \in Requests, NEW d \in Docs,
               \/ ReadProforma(r, d)
               \/ \E p \in Patches : ReadDraft(r, d, p)
               \/ DeleteDraft(r, d)
               \/ ReadForIssue(r, d)
               \/ Cancel(r, d)
               \/ \E answer \in {"ACCEPTED", "DECLINED"} : Respond(r, d, answer)
        PROVE  IInv'
    <2>1. CASE ReadProforma(r, d)
      BY <2>1, ReadsProforma
    <2>2. CASE \E p \in Patches : ReadDraft(r, d, p)
      BY <2>2, ReadsDraft
    <2>3. CASE DeleteDraft(r, d)
      BY <2>3, Deletes
    <2>4. CASE ReadForIssue(r, d)
      BY <2>4, ReadsForIssue
    <2>5. CASE Cancel(r, d)
      BY <2>5, Cancels
    <2>6. ASSUME NEW answer \in {"ACCEPTED", "DECLINED"}, Respond(r, d, answer) PROVE IInv'
      BY <2>6, Responds
    <2>. QED  BY <1>4, <2>1, <2>2, <2>3, <2>4, <2>5, <2>6
  <1>5. ASSUME NEW r \in Requests,
               \/ \E change \in PartyChanges : UpdateParty(r, change)
               \/ \E change \in ItemChanges : ReadItem(r, change)
               \/ UpdateItem(r)
               \/ \E i \in Items, active \in BOOLEAN : SetItemActive(r, i, active)
        PROVE  IInv'
    <2>1. CASE \E change \in PartyChanges : UpdateParty(r, change)
      BY <2>1, UpdatesParty
    <2>2. CASE \E change \in ItemChanges : ReadItem(r, change)
      BY <2>2, ReadsItem
    <2>3. CASE UpdateItem(r)
      BY <2>3, UpdatesItem
    <2>4. ASSUME NEW i \in Items, NEW active \in BOOLEAN, SetItemActive(r, i, active) PROVE IInv'
      BY <2>4, SetsItemActive
    <2>. QED  BY <1>5, <2>1, <2>2, <2>3, <2>4
  <1>. QED  BY <1>1, <1>2, <1>3, <1>4, <1>5, Zenon DEF Next

-----------------------------------------------------------------------------
(***************************************************************************)
(* What holds of every document, whatever the requests, their number and   *)
(* the order of their steps.                                               *)
(***************************************************************************)
LEMMA DocumentsInductive == Spec => []IInv
  BY Begins, Proceeds, DocumentsAssumption, PTL DEF Spec

(* Every row, journal, edit and request has its type: the row of an        *)
(* invoice, bill or estimate stays one the repository can read back.       *)
THEOREM DocumentsTyped == Spec => []TypeOK
  <1>1. IInv => TypeOK
    BY DEF IInv
  <1>. QED  BY <1>1, DocumentsInductive, PTL

(* The journal an invoice or bill is issued with says what the document    *)
(* says, account by account, although issueInvoice reads and prepares      *)
(* before it locks -- unless another write fell into the millisecond that  *)
(* its check of updated_at cannot tell apart.                              *)
THEOREM JournalSaysWhatTheDocumentSays == Spec => []PostedAsWritten
  <1>1. ASSUME IInv PROVE PostedAsWritten
    <2>1. ASSUME NEW d \in Docs, Exists(d), NEW n \in DOMAIN document[d].lines
          PROVE  LineAddsUp(document[d].lines[n], document[d].mode)
      <3>1. Stored(document[d])
        BY <1>1, <2>1, Current
      <3>. QED  BY <2>1, <3>1 DEF Stored, Built
    <2>2. ASSUME NEW d \in Docs, journals[d] # <<>>
          PROVE  Tells(journals[d][1], document[d]) \/ SameMillisecond(d)
      BY <1>1, <2>2 DEF IInv, Posted
    <2>. QED  BY <2>1, <2>2 DEF PostedAsWritten
  <1>. QED  BY <1>1, DocumentsInductive, PTL

(* updateDraft writes all of the row, but changes only what the patch      *)
(* names of the draft just before it, unless an edit was written since it  *)
(* was read.                                                               *)
THEOREM EditsChangeWhatTheyName == Spec => []OverwrittenOnlyInARace
  <1>1. IInv => OverwrittenOnlyInARace
    BY SMTT(30) DEF IInv
  <1>. QED  BY <1>1, DocumentsInductive, PTL

(* An invoice made from an estimate copies it to the cent: rebuilding the  *)
(* lines from the stored ones gives the same amounts, whatever became of   *)
(* the catalogue.                                                          *)
THEOREM EstimatesAreCopied == Spec => []ConversionsCopy
  <1>1. ASSUME IInv PROVE ConversionsCopy
    <2>1. ASSUME NEW d \in Docs, history[d] # <<>>, history[d][1].by = "convert"
          PROVE  Copied(history, history[d][1].row, history[d][1].base, history[d][1].linesBase)
      BY <1>1, <2>1, Zenon DEF IInv, Converted
    <2>. QED  BY <2>1 DEF Copied, Copies, ConversionsCopy
  <1>. QED  BY <1>1, DocumentsInductive, PTL

LEMMA StatusesAgree ==
  ASSUME NEW row \in Row, NEW converted \in BOOLEAN, NEW today \in Nat, None \notin Nat,
         None \notin {"ACCEPTED", "DECLINED"}
  PROVE  EstimateStatusSql(row, converted, today) = {EstimateStatus(row, converted, today)}
  <1>1. /\ row.status \in {"DRAFT", "ISSUED", "CANCELLED"}
        /\ row.response \in {None, "ACCEPTED", "DECLINED"} /\ row.due \in {None} \cup Nat
    BY DEF Row
  <1>. DEFINE pending == row.status = "ISSUED" /\ ~converted /\ row.response = None
              selects(s) ==
                  CASE s = "CANCELLED" -> row.status = "CANCELLED"
                    [] s = "CONVERTED" -> row.status # "CANCELLED" /\ converted
                    [] s = "DRAFT" -> row.status = "DRAFT" /\ ~converted
                    [] s \in {"ACCEPTED", "DECLINED"} ->
                          row.status = "ISSUED" /\ ~converted /\ row.response = s
                    [] s = "EXPIRED" -> pending /\ row.due # None /\ row.due < today
                    [] s = "PENDING" -> pending /\ (row.due = None \/ row.due >= today)
              status == EstimateStatus(row, converted, today)
  <1>2. status \in EstimateStatuses
    BY <1>1 DEF EstimateStatus, EstimateStatuses
  <1>3. selects("CANCELLED") <=> status = "CANCELLED"
    BY <1>1 DEF EstimateStatus
  <1>4. selects("CONVERTED") <=> status = "CONVERTED"
    BY <1>1 DEF EstimateStatus
  <1>5. selects("DRAFT") <=> status = "DRAFT"
    BY <1>1 DEF EstimateStatus
  <1>6. /\ selects("ACCEPTED") <=> status = "ACCEPTED"
        /\ selects("DECLINED") <=> status = "DECLINED"
    BY <1>1 DEF EstimateStatus
  <1>7. selects("EXPIRED") <=> status = "EXPIRED"
    BY <1>1 DEF EstimateStatus
  <1>8. selects("PENDING") <=> status = "PENDING"
    BY <1>1 DEF EstimateStatus
  <1>9. EstimateStatusSql(row, converted, today) = {s \in EstimateStatuses : selects(s)}
    BY Zenon DEF EstimateStatusSql
  <1>. HIDE DEF selects, status
  <1>10. \A s \in EstimateStatuses : selects(s) <=> s = status
    BY <1>3, <1>4, <1>5, <1>6, <1>7, <1>8, Zenon DEF EstimateStatuses
  <1>11. {s \in EstimateStatuses : selects(s)} = {status}
    BY <1>2, <1>10
  <1>. QED  BY <1>9, <1>11 DEF status

(* An estimate has one status on every day, the same whether listEstimates *)
(* selects it in SQL or the page computes it; it is converted at most once *)
(* and never after the customer declined it, unless the answer and the     *)
(* conversion crossed.                                                     *)
THEOREM EstimatesAreSettledOnce == Spec => []EstimatesSettle
  <1>1. ASSUME IInv PROVE EstimatesSettle
    <2>. SUFFICES ASSUME NEW p \in Proformas
                  PROVE  /\ \A today \in Days :
                              EstimateStatusSql(document[p], ConvertedInto(p) # {}, today)
                                  = {EstimateStatus(document[p], ConvertedInto(p) # {}, today)}
                         /\ Cardinality(ConvertedInto(p)) <= 1
                         /\ \A v \in ConvertedInto(p) : document[p].response = "DECLINED" =>
                              history[p][history[v][1].base].row.response # "DECLINED"
      BY Zenon DEF EstimatesSettle
    <2>1. p \in Docs /\ Exists(p)
      BY DEF Proformas
    <2>2. document[p] \in Row /\ None \notin Docs
          /\ None \notin Nat /\ None \notin {"ACCEPTED", "DECLINED"}
      BY <1>1, <2>1, Current, DocumentsAssumption
    <2>3. ASSUME NEW today \in Days
          PROVE  EstimateStatusSql(document[p], ConvertedInto(p) # {}, today)
                     = {EstimateStatus(document[p], ConvertedInto(p) # {}, today)}
      <3>1. today \in Nat /\ (ConvertedInto(p) # {}) \in BOOLEAN
        BY DocumentsAssumption DEF DocumentsAssumption
      <3>. QED  BY <2>2, <3>1, StatusesAgree
    <2>4. ASSUME NEW u \in ConvertedInto(p), NEW v \in ConvertedInto(p) PROVE u = v
      BY <1>1, <2>1, <2>2, <2>4 DEF IInv, ConvertedOnce, ConvertedInto
    <2>5. Cardinality(ConvertedInto(p)) <= 1
      <3>1. CASE ConvertedInto(p) = {}
        BY <3>1, FS_EmptySet
      <3>2. CASE ConvertedInto(p) # {}
        <4>1. PICK v : v \in ConvertedInto(p)
          BY <3>2
        <4>2. ConvertedInto(p) = {v}
          BY <2>4, <4>1
        <4>. QED  BY <4>2, FS_Singleton
      <3>. QED  BY <3>1, <3>2
    <2>6. ASSUME NEW v \in ConvertedInto(p)
          PROVE  history[p][history[v][1].base].row.response # "DECLINED"
      <3>1. v \in Docs /\ Exists(v) /\ document[v].source = p
        BY <2>6 DEF ConvertedInto
      <3>2. history[v] # <<>> /\ history[v][1].row.source = p
        BY <1>1, <3>1, Current
      <3>3. p # None
        BY <2>1, <2>2
      <3>4. Converted(history)
        BY <1>1 DEF IInv
      <3>5. Copied(history, history[v][1].row, history[v][1].base, history[v][1].linesBase)
        BY <3>1, <3>2, <3>3, <3>4 DEF Converted
      <3>. QED  BY <3>2, <3>5 DEF Copied
    <2>. QED  BY <2>3, <2>5, <2>6
  <1>. QED  BY <1>1, DocumentsInductive, PTL

(* No journal is in another currency than its party, unless the party's    *)
(* was changed while a draft of it was open or being issued: updateParty   *)
(* looks at the journals only.                                             *)
THEOREM PartiesKeepTheirCurrency == Spec => []PartyCurrencyKept
  <1>1. ASSUME IInv PROVE PartyCurrencyKept
    <2>. SUFFICES ASSUME NEW d \in Docs, NEW k \in DOMAIN journals[d]
                  PROVE  LET c == journals[d][k].lines[1].party
                         IN  \/ party[c].currency \in {None, journals[d][k].currency}
                             \/ c \in unsettled
      BY Zenon DEF PartyCurrencyKept
    <2>1. journals[d] \in Seq(Journal)
      BY <1>1 DEF IInv, TypeOK
    <2>2. journals[d][k] \in Journal
      BY <2>1, ElementOf
    <2>3. journals[d][k].currency = BaseCurrency /\ journals[d][k].lines[1].party \in Parties
      BY <2>2 DEF Journal
    <2>4. PICK c \in Parties : c = journals[d][k].lines[1].party
      BY <2>3
    <2>5. Fixed(c)
      BY <1>1, <2>4 DEF IInv, Settled, Journalled
    <2>. QED  BY <2>3, <2>4, <2>5 DEF Fixed, Trades
  <1>. QED  BY <1>1, DocumentsInductive, PTL
=============================================================================
