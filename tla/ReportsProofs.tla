-------------------------- MODULE ReportsProofs --------------------------
(***************************************************************************)
(* Proofs about Reports: that statements add up and keep their names, that *)
(* the reports over one ledger tie, that a trial balance balances, and     *)
(* that the ledger and the documents agree about every day.                *)
(***************************************************************************)
EXTENDS Reports, Sums

-----------------------------------------------------------------------------
(* The tables.                                                             *)

Holders == Payments \cup Docs

JournalRows == [customer : Customers, date : Int, source : DOMAIN SourceTypes,
                lines : [DOMAIN AccountType -> Int], account : DOMAIN AccountType, posted : BOOLEAN, reverses : Nat]
DocRows == [kind : {"INVOICE", "CREDIT_NOTE"}, customer : Customers, date : Int, due : Int, total : Nat \ {0},
            journal : Nat \ {0}, reversal : Nat, cancelled : Nat]
PaymentRows == [customer : Customers, date : Int, amount : Nat \ {0}, journal : Nat \ {0}]
RefundRows == [from : Holders, amount : Nat \ {0}, date : Int, journal : Nat \ {0}]
AllocationRows == [invoice : Docs, from : Holders, amount : Nat \ {0}, date : Int]

TypeOK ==
    /\ day \in Nat \ {0} /\ early \in BOOLEAN
    /\ accounts \in SUBSET DOMAIN AccountType /\ DOMAIN AccountType \ LateAccounts \subseteq accounts
    /\ invoice \in [Docs -> DocRows \cup {NoInvoice}]
    /\ payment \in [Payments -> PaymentRows \cup {NoPayment}]
    /\ refunds \in SUBSET RefundRows /\ IsFiniteSet(refunds)
    /\ allocations \in Seq(AllocationRows)
    /\ journals \in Seq(JournalRows)

(* A journal's lines balance, on accounts there are.                       *)
JournalsBalance ==
    \A k \in DOMAIN journals :
        /\ SumFunction(journals[k].lines) = 0
        /\ \A a \in DOMAIN AccountType : journals[k].lines[a] # 0 => a \in accounts

(* What waits for approval is no document's, payment's or refund's.        *)
DocumentedJournals == {k \in DOMAIN journals : Documented(k)}
DocumentsPosted == \A k \in DocumentedJournals : journals[k].posted

(* Links from documents lead to journals there are; a cancelled invoice    *)
(* has its reversal and nothing was ever given against it.                 *)
DocLinked(i) ==
    /\ invoice[i].journal <= Len(journals) /\ invoice[i].reversal <= Len(journals)
    /\ invoice[i].reversal = 0 <=> invoice[i].cancelled = 0
    /\ invoice[i].kind = "INVOICE" =>
          /\ journals[invoice[i].journal].customer = invoice[i].customer
          /\ CustomerAmount(invoice[i].journal) = invoice[i].total
    /\ invoice[i].reversal # 0 =>
          /\ invoice[i].kind = "INVOICE" /\ To(i) = {}
          /\ journals[invoice[i].reversal].date <= invoice[i].cancelled
DocsLinked == \A i \in Docs : DocLinked(i)

MoneyLinked ==
    /\ \A p \in Payments : payment[p].journal <= Len(journals)
    /\ \A f \in refunds : f.journal <= Len(journals) /\ \E c \in Customers : f.from \in Sources(c)

(* Credit goes to invoices of its customer, not before it was there, and   *)
(* no invoice gets more than its total.                                    *)
AllocationFits(k) ==
    \E i \in Docs, x \in Holders, c \in Customers :
        /\ allocations[k].invoice = i /\ allocations[k].from = x
        /\ invoice[i].kind = "INVOICE" /\ invoice[i].customer = c
        /\ x \in Sources(c) /\ Source(x).date <= allocations[k].date
AllocationsFit ==
    /\ \A k \in DOMAIN allocations : AllocationFits(k)
    /\ \A i \in Docs : invoice[i].kind = "INVOICE" => Taken(To(i)) <= invoice[i].total

(* What documents, payments and refunds have on the customer's ledger, and *)
(* what it is made of: invoices, their reversals, money and notes          *)
(* received, money returned.                                               *)
Entered(c, d) ==
    [k \in DocumentedJournals |-> IF k \in Tagged(c, Counted(None, d)) THEN CustomerAmount(k) ELSE 0]
Invoiced(c, d) == [i \in Docs |-> IF i \in IssuedBy(c, d) THEN invoice[i].total ELSE 0]
Reversed(i, d) == invoice[i].reversal # 0 /\ journals[invoice[i].reversal].date <= d
Withdrawn(c, d) ==
    [i \in Docs |-> IF invoice[i].customer = c /\ Reversed(i, d) THEN invoice[i].total ELSE 0]
Credited(c, d) ==
    [x \in Holders |-> IF x \in Sources(c) /\ Source(x).date <= d THEN Source(x).amount ELSE 0]
Returned(c, d) ==
    [f \in refunds |-> IF f.from \in Sources(c) /\ f.date <= d THEN f.amount ELSE 0]

BookedAt(c, d) ==
    SumFunction(Entered(c, d)) = SumFunction(Invoiced(c, d)) - SumFunction(Withdrawn(c, d))
                                   - SumFunction(Credited(c, d)) + SumFunction(Returned(c, d))
Booked == \A c \in Customers, d \in Int : BookedAt(c, d)

Books == TypeOK /\ JournalsBalance /\ DocsLinked /\ MoneyLinked /\ AllocationsFit

-----------------------------------------------------------------------------
(* Requests and statements.                                                *)

Has(ask, q) == ask.got[q].read
Value(ask, q) == ask.got[q].value
AllRead(ask) == \A q \in QueriesOf[ask.kind] : Has(ask, q)

AskShape(ask) ==
    /\ DOMAIN ask = DOMAIN Unasked /\ DOMAIN ask.got = Queries
    /\ ask.kind \in {"none", "statement", "trial"} /\ ask.overtaken \in BOOLEAN
    /\ \A q \in Queries : Has(ask, q) \in BOOLEAN
    /\ ask.kind = "none" => \A q \in Queries : ~Has(ask, q)

OpenList(v) == DOMAIN v \subseteq Docs /\ v \in [DOMAIN v -> [due : Int, left : Int]]
TotalList(v) == DOMAIN v \subseteq accounts /\ v \in [DOMAIN v -> [debit : Int, credit : Int]]

(* What a statement has read so far. *)
StatementRead(ask) ==
    /\ ask.customer \in Customers /\ ask.from \in Int /\ ask.to \in Int /\ ask.from <= ask.to
    /\ Has(ask, "opening") => Value(ask, "opening") \in Int
    /\ Has(ask, "journals") => Value(ask, "journals") \in Seq(DOMAIN journals)
    /\ Has(ask, "balance") => Value(ask, "balance") \in Int
    /\ Has(ask, "open") => OpenList(Value(ask, "open"))
    /\ Has(ask, "labels") =>
          Has(ask, "journals")
          /\ Value(ask, "labels") = [n \in DOMAIN Value(ask, "journals") |-> Label(Value(ask, "journals")[n])]

(* As long as nothing overtook it and something is still to be read, the   *)
(* ledger is as it was read; what was read adds up.                        *)
StatementFresh(ask) ==
    /\ Has(ask, "opening") => Value(ask, "opening") = BalanceBefore(ask.customer, ask.from)
    /\ Has(ask, "journals") => Value(ask, "journals") = LedgerJournals(ask.customer, ask.from, ask.to)
    /\ Has(ask, "balance") => Value(ask, "balance") = BalanceAsOf(ask.customer, ask.to)
AllMoved(rows) == Moved(rows, DOMAIN rows)
StatementTies(ask) ==
    Has(ask, "opening") /\ Has(ask, "journals") /\ Has(ask, "balance") =>
        Value(ask, "balance") = Value(ask, "opening") + AllMoved(Value(ask, "journals"))
StatementFits(ask) ==
    ask.kind = "statement" =>
        /\ StatementRead(ask)
        /\ ~ask.overtaken => StatementTies(ask) /\ (AllRead(ask) \/ StatementFresh(ask))

(* What a trial balance has read so far. *)
TrialFits(ask) ==
    ask.kind = "trial" =>
        /\ ask.from = None /\ ask.to \in Int \cup {None}
        /\ Has(ask, "accounts") => Value(ask, "accounts") \subseteq accounts
        /\ Has(ask, "totals") =>
              /\ TotalList(Value(ask, "totals"))
              /\ IsBalanced(BuildTrialBalance(Value(ask, "totals"), DOMAIN Value(ask, "totals")))
        /\ ~ask.overtaken /\ Has(ask, "accounts") =>
              IF Has(ask, "totals") THEN DOMAIN Value(ask, "totals") \subseteq Value(ask, "accounts")
              ELSE Value(ask, "accounts") = accounts

AskFits(ask) == AskShape(ask) /\ StatementFits(ask) /\ TrialFits(ask)
RequestsFit == DOMAIN req = Requests /\ \A r \in Requests : \A ask \in {req[r]} : AskFits(ask)

StatementStands(st) ==
    /\ \A n \in DOMAIN st.rows :
          st.rows[n].journal \in DOMAIN journals /\ st.rows[n].type = Label(st.rows[n].journal)
    /\ ~st.overtaken =>
          /\ st.ledger.opening + st.ledger.debit - st.ledger.credit = st.ledger.closing
          /\ InBuckets(st.aging, AgingBuckets) + st.aging.notInvoiced = st.ledger.closing
StatementsStand ==
    /\ statements \in Seq({statements[s] : s \in DOMAIN statements})
    /\ \A s \in DOMAIN statements : \A st \in {statements[s]} : StatementStands(st)

IInv == Books /\ DocumentsPosted /\ Booked /\ RequestsFit /\ StatementsStand

-----------------------------------------------------------------------------
(* Journals: what is appended balances and changes nothing before it.      *)

LEMMA LinesBalance ==
  ASSUME NEW dr \in DOMAIN AccountType, NEW cr \in DOMAIN AccountType, dr # cr, NEW n \in Int
  PROVE  /\ Lines(dr, cr, n) \in [DOMAIN AccountType -> Int]
         /\ SumFunction(Lines(dr, cr, n)) = 0
         /\ \A a \in DOMAIN AccountType : Lines(dr, cr, n)[a] # 0 => a \in {dr, cr}
         /\ Lines(dr, cr, n)[dr] = n /\ Lines(dr, cr, n)[cr] = 0 - n
  <1>. DEFINE A == DOMAIN AccountType
  <1>1. IsFiniteSet(A)
    BY TablesAssumption
  <1>2. 0 - n \in Int
    OBVIOUS
  <1>3. /\ Lines(dr, cr, n) \in [A -> Int]
        /\ \A a \in A : Lines(dr, cr, n)[a] = IF a = dr THEN n ELSE IF a = cr THEN 0 - n ELSE 0
    BY <1>2 DEF Lines
  <1>. HIDE DEF A
  <1>4. /\ Only(A, dr, n) \in [A -> Int] /\ SumFunction(Only(A, dr, n)) = n
        /\ \A a \in A : Only(A, dr, n)[a] = IF a = dr THEN n ELSE 0
    BY <1>1, SumOnly DEF Only, A
  <1>5. /\ Only(A, cr, 0 - n) \in [A -> Int] /\ SumFunction(Only(A, cr, 0 - n)) = 0 - n
        /\ \A a \in A : Only(A, cr, 0 - n)[a] = IF a = cr THEN 0 - n ELSE 0
    BY <1>1, <1>2, SumOnly DEF Only, A
  <1>6. \A a \in A : Lines(dr, cr, n)[a] = Only(A, dr, n)[a] + Only(A, cr, 0 - n)[a]
    BY <1>3, <1>4, <1>5
  <1>7. SumFunction(Lines(dr, cr, n)) = SumFunction(Only(A, dr, n)) + SumFunction(Only(A, cr, 0 - n))
    <2>1. IsPlus(Lines(dr, cr, n), Only(A, dr, n), Only(A, cr, 0 - n), A)
      BY <1>1, <1>3, <1>4, <1>5, <1>6 DEF IsPlus, A
    <2>. QED  BY <2>1, SumPlusOf
  <1>8. SumFunction(Lines(dr, cr, n)) = 0
    BY <1>4, <1>5, <1>7
  <1>9. dr \in A /\ cr \in A
    BY DEF A
  <1>. QED  BY <1>3, <1>8, <1>9 DEF A

LEMMA NegatedBalance ==
  ASSUME NEW lines \in [DOMAIN AccountType -> Int], SumFunction(lines) = 0
  PROVE  LET negated == [a \in DOMAIN AccountType |-> 0 - lines[a]]
         IN  /\ negated \in [DOMAIN AccountType -> Int] /\ SumFunction(negated) = 0
             /\ \A a \in DOMAIN AccountType : negated[a] = 0 - lines[a] /\ (negated[a] # 0 => lines[a] # 0)
  <1>. DEFINE A == DOMAIN AccountType
              negated == [a \in DOMAIN AccountType |-> 0 - lines[a]]
  <1>1. negated \in [A -> Int] /\ \A a \in A : negated[a] = 0 - lines[a] /\ lines[a] \in Int
    OBVIOUS
  <1>2. IsFiniteSet(A)
    BY TablesAssumption
  <1>. HIDE DEF negated
  <1>3. \A a \in A : Zeros(A)[a] = 0
    BY DEF Zeros
  <1>4. \A a \in A : negated[a] = Zeros(A)[a] - lines[a]
    BY <1>1, <1>3
  <1>5. SumFunction(negated) = SumFunction(Zeros(A)) - SumFunction(lines)
    BY <1>1, <1>2, <1>4, SumZeros, SumMinus
  <1>6. SumFunction(negated) = 0
    BY <1>2, <1>5, SumZeros
  <1>. QED  BY <1>1, <1>6 DEF negated

JournalsGrow ==
    /\ Len(journals) <= Len(journals') /\ Len(journals') \in Nat
    /\ \A k \in DOMAIN journals :
          /\ k \in DOMAIN journals'
          /\ journals'[k].customer = journals[k].customer /\ journals'[k].date = journals[k].date
          /\ journals'[k].source = journals[k].source /\ journals'[k].lines = journals[k].lines
          /\ journals'[k].account = journals[k].account

LEMMA Indices ==
  ASSUME journals \in Seq(JournalRows)
  PROVE  /\ Len(journals) \in Nat /\ DOMAIN journals = 1 .. Len(journals) /\ IsFiniteSet(DOMAIN journals)
         /\ NextJournal \in Nat \ {0} /\ NextJournal \notin DOMAIN journals
         /\ \A k \in DOMAIN journals :
              /\ k \in Nat \ {0} /\ journals[k] \in JournalRows /\ journals[k].lines \in [DOMAIN AccountType -> Int]
              /\ journals[k].account \in DOMAIN AccountType
              /\ CustomerAmount(k) \in Int /\ journals[k].date \in Int /\ journals[k].posted \in BOOLEAN
  <1>1. /\ Len(journals) \in Nat /\ DOMAIN journals = 1 .. Len(journals)
        /\ \A k \in DOMAIN journals : k \in Nat \ {0} /\ journals[k] \in JournalRows
    OBVIOUS
  <1>3. IsFiniteSet(DOMAIN journals)
    BY <1>1, FS_Interval
  <1>4. NextJournal \in Nat \ {0} /\ NextJournal \notin DOMAIN journals
    BY <1>1 DEF NextJournal
  <1>5. ASSUME NEW k \in DOMAIN journals
        PROVE  /\ journals[k].lines \in [DOMAIN AccountType -> Int] /\ journals[k].date \in Int
               /\ journals[k].posted \in BOOLEAN /\ journals[k].account \in DOMAIN AccountType
    BY <1>1 DEF JournalRows
  <1>6. \A k \in DOMAIN journals : CustomerAmount(k) \in Int
    BY <1>5 DEF CustomerAmount
  <1>. QED  BY <1>1, <1>3, <1>4, <1>5, <1>6

LEMMA AppendJournal ==
  ASSUME journals \in Seq(JournalRows), NEW j \in JournalRows, journals' = Append(journals, j)
  PROVE  /\ journals' \in Seq(JournalRows) /\ Len(journals') = NextJournal /\ JournalsGrow
         /\ DOMAIN journals' = DOMAIN journals \cup {NextJournal}
         /\ journals'[NextJournal] = j
         /\ \A k \in DOMAIN journals : journals'[k] = journals[k]
  BY DEF JournalsGrow, NextJournal

LEMMA PostBalanced ==
  ASSUME TypeOK, JournalsBalance, NEW j \in JournalRows, journals' = Append(journals, j), accounts' = accounts,
         SumFunction(j.lines) = 0, \A a \in DOMAIN AccountType : j.lines[a] # 0 => a \in accounts
  PROVE  JournalsBalance'
  BY AppendJournal DEF TypeOK, JournalsBalance

-----------------------------------------------------------------------------
(* Documents: what is credit, and how much of an invoice is settled.       *)

Sourced ==
    /\ \A x \in Payments, c \in Customers : x \in Sources(c) <=> payment[x].customer = c
    /\ \A x \in Docs, c \in Customers :
          x \in Sources(c) <=> invoice[x].kind = "CREDIT_NOTE" /\ invoice[x].customer = c
    /\ \A x \in Payments : Source(x) = payment[x]
    /\ \A x \in Docs : /\ Source(x).customer = invoice[x].customer /\ Source(x).date = invoice[x].date
                       /\ Source(x).amount = invoice[x].total
    /\ \A c \in Customers : \A x \in Sources(c) :
          x \in Holders /\ Source(x).date \in Int /\ Source(x).amount \in Nat \ {0}

LEMMA SourcesAre == TypeOK => Sourced
  <1>. SUFFICES ASSUME TypeOK PROVE Sourced
    OBVIOUS
  <1>0. Docs \cap Payments = {} /\ None \notin Customers
    BY TablesAssumption
  <1>1. \A x \in Payments : Source(x) = payment[x]
    BY DEF Source
  <1>2. \A x \in Docs : /\ Source(x).customer = invoice[x].customer /\ Source(x).date = invoice[x].date
                        /\ Source(x).amount = invoice[x].total
    BY <1>0 DEF Source
  <1>3. /\ \A x \in Payments, c \in Customers : x \in Sources(c) <=> payment[x].customer = c
        /\ \A x \in Docs, c \in Customers :
              x \in Sources(c) <=> invoice[x].kind = "CREDIT_NOTE" /\ invoice[x].customer = c
    BY <1>0, <1>1, <1>2 DEF Sources, IssuedDocs
  <1>4. ASSUME NEW c \in Customers, NEW x \in Sources(c)
        PROVE  x \in Holders /\ Source(x).date \in Int /\ Source(x).amount \in Nat \ {0}
    <2>1. CASE x \in Payments
      <3>1. payment[x] \in PaymentRows \cup {NoPayment} /\ payment[x].customer # None
        BY <1>0, <1>3, <2>1 DEF TypeOK
      <3>2. payment[x] \in PaymentRows
        BY <3>1 DEF NoPayment
      <3>. QED  BY <1>1, <2>1, <3>2 DEF PaymentRows, Holders
    <2>2. CASE x \in Docs
      <3>1. invoice[x] \in DocRows \cup {NoInvoice} /\ invoice[x].kind = "CREDIT_NOTE"
        BY <1>3, <2>2 DEF TypeOK
      <3>2. invoice[x] \in DocRows
        BY <3>1 DEF NoInvoice
      <3>. QED  BY <1>2, <2>2, <3>2 DEF DocRows, Holders
    <2>. QED  BY <2>1, <2>2 DEF Sources, IssuedDocs
  <1>. QED  BY <1>1, <1>2, <1>3, <1>4 DEF Sourced

LEMMA AmountsTaken ==
  ASSUME allocations \in Seq(AllocationRows)
  PROVE  /\ IsFiniteSet(DOMAIN allocations)
         /\ \A k \in DOMAIN allocations :
              /\ allocations[k].amount \in Nat \ {0} /\ allocations[k].date \in Int
              /\ allocations[k].invoice \in Docs /\ allocations[k].from \in Holders
         /\ \A S \in SUBSET DOMAIN allocations :
              /\ IsFiniteSet(S) /\ [k \in S |-> allocations[k].amount] \in [S -> Nat] /\ Taken(S) \in Nat
  <1>1. IsFiniteSet(DOMAIN allocations)
    <2>1. DOMAIN allocations = 1 .. Len(allocations) /\ Len(allocations) \in Nat
      OBVIOUS
    <2>. QED  BY <2>1, FS_Interval
  <1>2. \A k \in DOMAIN allocations :
           /\ allocations[k].amount \in Nat \ {0} /\ allocations[k].date \in Int
           /\ allocations[k].invoice \in Docs /\ allocations[k].from \in Holders
    <2>1. \A k \in DOMAIN allocations : allocations[k] \in AllocationRows
      OBVIOUS
    <2>. QED  BY <2>1 DEF AllocationRows
  <1>3. \A S \in SUBSET DOMAIN allocations :
           IsFiniteSet(S) /\ [k \in S |-> allocations[k].amount] \in [S -> Nat]
    BY <1>1, <1>2, FS_Subset
  <1>4. \A S \in SUBSET DOMAIN allocations : Taken(S) \in Nat
    BY <1>3, SumNonNegative DEF Taken
  <1>. QED  BY <1>1, <1>2, <1>3, <1>4

LEMMA AppendAllocation ==
  ASSUME allocations \in Seq(AllocationRows), NEW l \in AllocationRows, allocations' = Append(allocations, l)
  PROVE  /\ allocations' \in Seq(AllocationRows)
         /\ DOMAIN allocations' = DOMAIN allocations \cup {Len(allocations) + 1}
         /\ Len(allocations) + 1 \notin DOMAIN allocations
         /\ allocations'[Len(allocations) + 1] = l
         /\ \A k \in DOMAIN allocations : allocations'[k] = allocations[k]
  OBVIOUS

LEMMA TakenAppended ==
  ASSUME allocations \in Seq(AllocationRows), NEW l \in AllocationRows, allocations' = Append(allocations, l),
         NEW i \in Docs
  PROVE  /\ i # l.invoice => To(i)' = To(i) /\ Taken(To(i))' = Taken(To(i))
         /\ i = l.invoice => Taken(To(i))' = Taken(To(i)) + l.amount
  <1>. DEFINE m == Len(allocations) + 1
              f == [k \in To(i) |-> allocations[k].amount]
              g == [k \in To(i)' |-> allocations'[k].amount]
  <1>1. /\ DOMAIN allocations' = DOMAIN allocations \cup {m} /\ m \notin DOMAIN allocations
        /\ allocations'[m] = l /\ allocations' \in Seq(AllocationRows)
        /\ \A k \in DOMAIN allocations : allocations'[k] = allocations[k]
    BY AppendAllocation
  <1>. HIDE DEF m
  <1>2. To(i) \subseteq DOMAIN allocations /\ m \notin To(i)
    BY <1>1 DEF To
  <1>3. Taken(To(i)) = SumFunction(f) /\ Taken(To(i))' = SumFunction(g)
    BY DEF Taken
  <1>4. IsFiniteSet(To(i)) /\ f \in [To(i) -> Int]
    BY <1>2, AmountsTaken
  <1>5. l.amount \in Int
    BY DEF AllocationRows
  <1>6. CASE i # l.invoice
    <2>1. To(i)' = To(i)
      BY <1>1, <1>6 DEF To
    <2>2. g = f
      BY <1>1, <1>2, <2>1
    <2>. QED  BY <1>3, <1>6, <2>1, <2>2
  <1>7. CASE i = l.invoice
    <2>1. To(i)' = To(i) \cup {m}
      BY <1>1, <1>7 DEF To
    <2>2. /\ g \in [To(i) \cup {m} -> Int] /\ g[m] = l.amount /\ \A k \in To(i) : g[k] = f[k]
      BY <1>1, <1>2, <1>4, <1>5, <2>1
    <2>. HIDE DEF f, g
    <2>3. MoreAt(g, f, m, To(i))
      BY <1>2, <1>4, <2>2 DEF MoreAt
    <2>4. SumFunction(g) = SumFunction(f) + g[m]
      BY <2>3, SumMore
    <2>. QED  BY <1>3, <1>7, <2>2, <2>4
  <1>. QED  BY <1>6, <1>7

-----------------------------------------------------------------------------
(* What each action does to the tables.                                    *)

JournalAdded(j) ==
    /\ j \in JournalRows /\ SumFunction(j.lines) = 0
    /\ \A a \in DOMAIN AccountType : j.lines[a] # 0 => a \in accounts
    /\ journals' = Append(journals, j) /\ accounts' = accounts
    /\ Overtake("statement") /\ UNCHANGED <<day, early, statements>>
PostedFor(j, c, d, n) ==
    /\ j.customer = c /\ j.date = d /\ j.posted /\ j.lines[j.account] = n

DocAdded(i, row) ==
    /\ i \in Docs /\ invoice[i] = NoInvoice /\ row \in DocRows
    /\ row.journal = NextJournal /\ row.reversal = 0 /\ row.cancelled = 0
    /\ invoice' = [invoice EXCEPT ![i] = row]

(* An allocation of credit that customer c has had since day d. *)
AllocationAdded(l, c, d) ==
    /\ l \in AllocationRows /\ d <= l.date
    /\ l.invoice \in OpenInvoices(c) /\ l.amount <= BalanceDue(l.invoice)
    /\ allocations' = Append(allocations, l)

IssueStep(i, row, j) ==
    /\ DocAdded(i, row) /\ row.kind = "INVOICE"
    /\ JournalAdded(j) /\ PostedFor(j, row.customer, row.date, row.total)
    /\ UNCHANGED <<payment, refunds, allocations>>
NoteStep(i, row, j) ==
    /\ DocAdded(i, row) /\ row.kind = "CREDIT_NOTE"
    /\ JournalAdded(j) /\ PostedFor(j, row.customer, row.date, 0 - row.total)
    /\ \/ UNCHANGED allocations
       \/ \E l : l.from = i /\ AllocationAdded(l, row.customer, row.date)
    /\ UNCHANGED <<payment, refunds>>
CancelStep(i, j) ==
    /\ i \in Docs /\ invoice[i].kind = "INVOICE" /\ invoice[i].cancelled = 0 /\ To(i) = {}
    /\ invoice' = [invoice EXCEPT ![i].cancelled = day, ![i].reversal = NextJournal]
    /\ JournalAdded(j) /\ j.date <= day /\ PostedFor(j, invoice[i].customer, j.date, 0 - invoice[i].total)
    /\ UNCHANGED <<payment, refunds, allocations>>
ReceiveStep(p, row, j) ==
    /\ p \in Payments /\ payment[p] = NoPayment /\ row \in PaymentRows /\ row.journal = NextJournal
    /\ payment' = [payment EXCEPT ![p] = row]
    /\ JournalAdded(j) /\ PostedFor(j, row.customer, row.date, 0 - row.amount)
    /\ \/ UNCHANGED allocations
       \/ \E l : l.from = p /\ AllocationAdded(l, row.customer, row.date)
    /\ UNCHANGED <<invoice, refunds>>
ApplyStep(c, l) ==
    /\ c \in Customers /\ l.from \in Sources(c) /\ AllocationAdded(l, c, Source(l.from).date)
    /\ Overtake("statement")
    /\ UNCHANGED <<day, early, accounts, invoice, payment, refunds, journals, statements>>
RefundStep(c, f, j) ==
    /\ c \in Customers /\ f \in RefundRows /\ f.from \in Sources(c) /\ f.journal = NextJournal
    /\ refunds' = refunds \cup {f}
    /\ JournalAdded(j) /\ PostedFor(j, c, f.date, f.amount)
    /\ UNCHANGED <<invoice, payment, allocations>>
(* Journals no document, payment or refund knows of. *)
HandStep ==
    /\ journals' \in Seq(JournalRows) /\ Len(journals) <= Len(journals')
    /\ \A k \in DOMAIN journals : k \in DOMAIN journals' /\ journals'[k] = journals[k]
    /\ \A k \in DOMAIN journals' \ DOMAIN journals :
          /\ SumFunction(journals'[k].lines) = 0
          /\ \A a \in DOMAIN AccountType : journals'[k].lines[a] # 0 => a \in accounts
    /\ Overtake("statement") /\ UNCHANGED <<documents, day, early, accounts, statements>>
ApproveStep(k) == k \in DOMAIN journals /\ Approve(k)
QuietStep ==
    /\ UNCHANGED <<documents, journals>>
    /\ day' \in Nat \ {0} /\ early' \in BOOLEAN
    /\ accounts \subseteq accounts' /\ accounts' \subseteq DOMAIN AccountType

LEMMA IncomeIsNotReceivable ==
  ASSUME TypeOK, NEW a \in IncomeAccounts
  PROVE  a \in accounts /\ a \in DOMAIN AccountType /\ a # Receivable
  BY TablesAssumption DEF TypeOK, IncomeAccounts

LEMMA AccountsThere ==
  ASSUME TypeOK
  PROVE  {Receivable, Bank} \subseteq accounts /\ Receivable # Bank
  BY TablesAssumption DEF TypeOK

PostingFits(c, d, source, posted, dr, cr, n) ==
    /\ c \in Customers /\ d \in Int /\ n \in Int
    /\ source \in DOMAIN SourceTypes /\ posted \in BOOLEAN
    /\ dr \in accounts /\ cr \in accounts /\ dr # cr
Posting(j, c, d, posted, account, dr, cr, n) ==
    /\ j.customer = c /\ j.date = d /\ j.posted = posted /\ j.account = account
    /\ j.lines[dr] = n /\ j.lines[cr] = 0 - n
JournalFits(j) ==
    /\ j \in JournalRows /\ SumFunction(j.lines) = 0
    /\ \A a \in DOMAIN AccountType : j.lines[a] # 0 => a \in accounts

LEMMA JournalIs ==
  ASSUME TypeOK, NEW c, NEW d, NEW source, NEW posted, NEW dr, NEW cr, NEW n,
         PostingFits(c, d, source, posted, dr, cr, n), NEW account \in {dr, cr}
  PROVE  /\ JournalFits(Journal(c, d, source, Lines(dr, cr, n), account, posted))
         /\ Posting(Journal(c, d, source, Lines(dr, cr, n), account, posted), c, d, posted, account, dr, cr, n)
  <1>. DEFINE lines == Lines(dr, cr, n)
              j == Journal(c, d, source, lines, account, posted)
  <1>0. /\ c \in Customers /\ d \in Int /\ n \in Int
        /\ source \in DOMAIN SourceTypes /\ posted \in BOOLEAN
        /\ dr \in accounts /\ cr \in accounts /\ dr # cr
    BY DEF PostingFits
  <1>1. dr \in DOMAIN AccountType /\ cr \in DOMAIN AccountType /\ account \in DOMAIN AccountType
    BY <1>0 DEF TypeOK
  <1>2. /\ lines \in [DOMAIN AccountType -> Int] /\ SumFunction(lines) = 0
        /\ \A a \in DOMAIN AccountType : lines[a] # 0 => a \in {dr, cr}
        /\ lines[dr] = n /\ lines[cr] = 0 - n
    BY <1>0, <1>1, LinesBalance
  <1>. HIDE DEF lines
  <1>3. /\ j \in JournalRows
        /\ j.customer = c /\ j.date = d /\ j.posted = posted /\ j.account = account /\ j.lines = lines
    BY <1>0, <1>1, <1>2 DEF Journal, JournalRows
  <1>. HIDE DEF j
  <1>4. JournalFits(j)
    BY <1>0, <1>2, <1>3 DEF JournalFits
  <1>5. Posting(j, c, d, posted, account, dr, cr, n)
    BY <1>2, <1>3 DEF Posting
  <1>. QED  BY <1>4, <1>5 DEF j, lines

LEMMA ReversalIs ==
  ASSUME TypeOK, JournalsBalance, NEW k \in DOMAIN journals, NEW d \in Int
  PROVE  /\ JournalFits(Reversal(k, d))
         /\ PostedFor(Reversal(k, d), journals[k].customer, d, 0 - CustomerAmount(k))
  <1>. DEFINE row == journals[k]
              lines == row.lines
              negated == [a \in DOMAIN AccountType |-> 0 - lines[a]]
              j == Reversal(k, d)
  <1>1. /\ row \in JournalRows /\ k \in Nat /\ lines \in [DOMAIN AccountType -> Int] /\ SumFunction(lines) = 0
        /\ \A a \in DOMAIN AccountType : lines[a] # 0 => a \in accounts
        /\ row.account \in DOMAIN AccountType
    BY Indices DEF TypeOK, JournalsBalance
  <1>2. CustomerAmount(k) = lines[row.account]
    BY DEF CustomerAmount
  <1>3. j = [row EXCEPT !.date = d, !.source = "REVERSAL", !.posted = TRUE, !.reverses = k, !.lines = negated]
    BY DEF Reversal
  <1>. HIDE DEF lines, j
  <1>4. /\ negated \in [DOMAIN AccountType -> Int] /\ SumFunction(negated) = 0
        /\ \A a \in DOMAIN AccountType : negated[a] = 0 - lines[a] /\ (negated[a] # 0 => lines[a] # 0)
    BY <1>1, NegatedBalance
  <1>. HIDE DEF negated, row
  <1>5. "REVERSAL" \in DOMAIN SourceTypes
    BY DEF SourceTypes
  <1>6. /\ j \in JournalRows /\ j.customer = row.customer /\ j.date = d /\ j.posted = TRUE
        /\ j.account = row.account /\ j.lines = negated
    BY <1>1, <1>3, <1>4, <1>5 DEF JournalRows
  <1>7. JournalFits(j)
    BY <1>1, <1>4, <1>6 DEF JournalFits
  <1>8. PostedFor(j, row.customer, d, 0 - CustomerAmount(k))
    BY <1>1, <1>2, <1>4, <1>6 DEF PostedFor
  <1>. QED  BY <1>7, <1>8 DEF j, row

LEMMA PostAdds ==
  ASSUME NEW j, JournalFits(j), Post(j)
  PROVE  JournalAdded(j)
  BY DEF JournalFits, Post, JournalAdded

LEMMA DocumentPosts ==
  ASSUME TypeOK, NEW c, NEW d, NEW source, NEW dr, NEW cr, NEW n, PostingFits(c, d, source, TRUE, dr, cr, n),
         NEW account \in {dr, cr}, Post(Journal(c, d, source, Lines(dr, cr, n), account, TRUE))
  PROVE  /\ JournalAdded(Journal(c, d, source, Lines(dr, cr, n), account, TRUE))
         /\ PostedFor(Journal(c, d, source, Lines(dr, cr, n), account, TRUE), c, d, IF account = dr THEN n ELSE 0 - n)
  <1>. DEFINE j == Journal(c, d, source, Lines(dr, cr, n), account, TRUE)
  <1>1. JournalFits(j) /\ Posting(j, c, d, TRUE, account, dr, cr, n)
    BY JournalIs
  <1>2. Post(j)
    OBVIOUS
  <1>. HIDE DEF j
  <1>3. JournalAdded(j)
    BY <1>1, <1>2, PostAdds
  <1>4. PostedFor(j, c, d, IF account = dr THEN n ELSE 0 - n)
    BY <1>1 DEF Posting, PostedFor
  <1>. QED  BY <1>3, <1>4 DEF j

LEMMA IssueIs ==
  ASSUME Books, NEW i \in Docs, Issue(i)
  PROVE  \E row, j : IssueStep(i, row, j)
  <1>0. TypeOK
    BY DEF Books
  <1>. PICK c \in Customers, n \in Totals, d \in Dates, t \in Terms, a \in IncomeAccounts :
         /\ invoice[i] = NoInvoice
         /\ invoice' = [invoice EXCEPT ![i] = [NoInvoice EXCEPT !.kind = "INVOICE", !.customer = c, !.date = d,
                                                !.due = d + t, !.total = n, !.journal = NextJournal]]
         /\ Post(Journal(c, d, "SALE", Lines(Receivable, a, n), Receivable, TRUE))
         /\ UNCHANGED <<payment, refunds, allocations>>
    BY Zenon DEF Issue
  <1>. DEFINE row == [NoInvoice EXCEPT !.kind = "INVOICE", !.customer = c, !.date = d,
                                       !.due = d + t, !.total = n, !.journal = NextJournal]
              j == Journal(c, d, "SALE", Lines(Receivable, a, n), Receivable, TRUE)
  <1>1. n \in Nat \ {0} /\ n \in Int /\ d \in Int /\ d + t \in Int
    BY InputsAssumption
  <1>2. NextJournal \in Nat \ {0}
    BY <1>0, Indices DEF TypeOK
  <1>3. /\ row \in DocRows /\ row.kind = "INVOICE" /\ row.customer = c /\ row.date = d /\ row.total = n
        /\ row.journal = NextJournal /\ row.reversal = 0 /\ row.cancelled = 0
    BY <1>1, <1>2 DEF NoInvoice, DocRows
  <1>4. JournalAdded(j) /\ PostedFor(j, c, d, n)
    <2>1. "SALE" \in DOMAIN SourceTypes
      BY DEF SourceTypes
    <2>2. Receivable \in accounts /\ a \in accounts /\ a # Receivable
      BY <1>0, AccountsThere, IncomeIsNotReceivable
    <2>3. PostingFits(c, d, "SALE", TRUE, Receivable, a, n)
      BY <1>1, <2>1, <2>2 DEF PostingFits
    <2>. QED  BY <1>0, <2>2, <2>3, DocumentPosts
  <1>. HIDE DEF row, j
  <1>5. invoice' = [invoice EXCEPT ![i] = row]
    BY DEF row
  <1>6. IssueStep(i, row, j)
    BY <1>3, <1>4, <1>5 DEF IssueStep, DocAdded
  <1>. QED  BY <1>6

LEMMA OpenInvoiceIs ==
  ASSUME TypeOK, NEW c \in Customers, NEW o \in OpenInvoices(c)
  PROVE  /\ o \in Docs /\ invoice[o] \in DocRows /\ invoice[o].kind = "INVOICE" /\ invoice[o].customer = c
         /\ invoice[o].cancelled = 0 /\ BalanceDue(o) \in Nat \ {0}
         /\ BalanceDue(o) = invoice[o].total - Taken(To(o))
  <1>1. /\ o \in Docs /\ invoice[o].kind = "INVOICE" /\ invoice[o].customer = c /\ BalanceDue(o) > 0
    BY DEF OpenInvoices, IssuedDocs
  <1>2. invoice[o] \in DocRows
    BY <1>1 DEF TypeOK, NoInvoice
  <1>3. Taken(To(o)) \in Nat
    BY AmountsTaken DEF TypeOK, To
  <1>4. invoice[o].cancelled = 0 /\ BalanceDue(o) = invoice[o].total - Taken(To(o))
    BY <1>1 DEF BalanceDue
  <1>5. invoice[o].total \in Nat
    BY <1>2 DEF DocRows
  <1>. QED  BY <1>1, <1>2, <1>3, <1>4, <1>5

LEMMA NoteIs ==
  ASSUME Books, NEW i \in Docs, IssueNote(i)
  PROVE  \E row, j : NoteStep(i, row, j)
  <1>0. TypeOK
    BY DEF Books
  <1>. PICK c \in Customers, n \in Amounts, d \in Dates, a \in IncomeAccounts : \E o \in OpenInvoices(c) \cup {None} :
        /\ invoice[i] = NoInvoice
        /\ o # None => n <= BalanceDue(o)
        /\ invoice' = [invoice EXCEPT ![i] = [NoInvoice EXCEPT !.kind = "CREDIT_NOTE", !.customer = c,
                                                !.date = d, !.due = d, !.total = n, !.journal = NextJournal]]
        /\ allocations' = IF o = None THEN allocations
                          ELSE Append(allocations, [invoice |-> o, from |-> i, amount |-> n, date |-> d])
        /\ Post(Journal(c, d, "SALE", Lines(a, Receivable, n), Receivable, TRUE))
        /\ UNCHANGED <<payment, refunds>>
    BY Zenon DEF IssueNote
  <1>. PICK o \in OpenInvoices(c) \cup {None} :
        /\ invoice[i] = NoInvoice
        /\ o # None => n <= BalanceDue(o)
        /\ invoice' = [invoice EXCEPT ![i] = [NoInvoice EXCEPT !.kind = "CREDIT_NOTE", !.customer = c,
                                                !.date = d, !.due = d, !.total = n, !.journal = NextJournal]]
        /\ allocations' = IF o = None THEN allocations
                          ELSE Append(allocations, [invoice |-> o, from |-> i, amount |-> n, date |-> d])
        /\ Post(Journal(c, d, "SALE", Lines(a, Receivable, n), Receivable, TRUE))
        /\ UNCHANGED <<payment, refunds>>
    BY Zenon
  <1>. DEFINE row == [NoInvoice EXCEPT !.kind = "CREDIT_NOTE", !.customer = c,
                                       !.date = d, !.due = d, !.total = n, !.journal = NextJournal]
              j == Journal(c, d, "SALE", Lines(a, Receivable, n), Receivable, TRUE)
              l == [invoice |-> o, from |-> i, amount |-> n, date |-> d]
  <1>1. n \in Nat \ {0} /\ n \in Int /\ d \in Int
    BY InputsAssumption
  <1>2. NextJournal \in Nat \ {0}
    BY <1>0, Indices DEF TypeOK
  <1>3. /\ row \in DocRows /\ row.kind = "CREDIT_NOTE" /\ row.customer = c /\ row.date = d /\ row.total = n
        /\ row.journal = NextJournal /\ row.reversal = 0 /\ row.cancelled = 0
    BY <1>1, <1>2 DEF NoInvoice, DocRows
  <1>4. JournalAdded(j) /\ PostedFor(j, c, d, 0 - n)
    <2>1. "SALE" \in DOMAIN SourceTypes
      BY DEF SourceTypes
    <2>2. Receivable \in accounts /\ a \in accounts /\ a # Receivable
      BY <1>0, AccountsThere, IncomeIsNotReceivable
    <2>3. PostingFits(c, d, "SALE", TRUE, a, Receivable, n)
      BY <1>1, <2>1, <2>2 DEF PostingFits
    <2>. QED  BY <1>0, <2>2, <2>3, DocumentPosts
  <1>. HIDE DEF row, j
  <1>5. invoice' = [invoice EXCEPT ![i] = row]
    BY DEF row
  <1>6. o # None => l.from = i /\ AllocationAdded(l, c, d)
    <2>. SUFFICES ASSUME o # None PROVE l.from = i /\ AllocationAdded(l, c, d)
      OBVIOUS
    <2>1. o \in OpenInvoices(c) /\ o \in Docs
      BY <1>0, OpenInvoiceIs
    <2>2. l \in AllocationRows /\ l.invoice = o /\ l.amount = n /\ l.date = d
      BY <1>1, <2>1 DEF AllocationRows, Holders
    <2>3. allocations' = Append(allocations, l)
      OBVIOUS
    <2>. HIDE DEF l
    <2>4. AllocationAdded(l, c, d)
      BY <1>1, <2>1, <2>2, <2>3 DEF AllocationAdded
    <2>. QED  BY <2>4 DEF l
  <1>7. allocations' = allocations \/ \E k : k.from = i /\ AllocationAdded(k, c, d)
    BY <1>6
  <1>8. NoteStep(i, row, j)
    BY <1>3, <1>4, <1>5, <1>7 DEF NoteStep, DocAdded
  <1>. QED  BY <1>8

LEMMA CancelIs ==
  ASSUME Books, NEW i \in Docs, CancelInvoice(i)
  PROVE  \E j : CancelStep(i, j)
  <1>0. TypeOK /\ JournalsBalance /\ DocsLinked
    BY DEF Books
  <1>. PICK k, j : k = invoice[i].journal /\ j = Reversal(k, Utc)
    OBVIOUS
  <1>1. /\ invoice[i].kind = "INVOICE" /\ invoice[i].cancelled = 0 /\ To(i) = {}
        /\ invoice' = [invoice EXCEPT ![i].cancelled = day, ![i].reversal = NextJournal]
        /\ Post(j) /\ UNCHANGED <<payment, refunds, allocations>>
    BY DEF CancelInvoice
  <1>2. invoice[i] \in DocRows
    BY <1>0, <1>1 DEF TypeOK, NoInvoice
  <1>3. k \in DOMAIN journals
    BY <1>0, <1>2, Indices DEF DocRows, DocsLinked, DocLinked, TypeOK
  <1>4. journals[k].customer = invoice[i].customer /\ CustomerAmount(k) = invoice[i].total
    BY <1>0, <1>1 DEF DocsLinked, DocLinked
  <1>5. Utc \in Int /\ Utc <= day
    BY <1>0 DEF TypeOK, Utc
  <1>6. JournalFits(j) /\ PostedFor(j, invoice[i].customer, Utc, 0 - invoice[i].total)
    BY <1>0, <1>3, <1>4, <1>5, ReversalIs
  <1>7. JournalAdded(j) /\ j.date = Utc
    BY <1>1, <1>6, PostAdds DEF PostedFor
  <1>8. CancelStep(i, j)
    BY <1>1, <1>5, <1>6, <1>7 DEF CancelStep
  <1>. QED  BY <1>8

LEMMA ReceiveIs ==
  ASSUME Books, NEW p \in Payments, Receive(p)
  PROVE  \E row, j : ReceiveStep(p, row, j)
  <1>0. TypeOK
    BY DEF Books
  <1>. PICK c \in Customers, n \in Amounts, d \in Dates : \E i \in OpenInvoices(c) \cup {None} :
        LET used == IF i = None THEN 0 ELSE IF n <= BalanceDue(i) THEN n ELSE BalanceDue(i)
        IN  /\ payment[p] = NoPayment
            /\ payment' = [payment EXCEPT ![p] = [customer |-> c, date |-> d, amount |-> n, journal |-> NextJournal]]
            /\ allocations' = IF i = None THEN allocations
                              ELSE Append(allocations, [invoice |-> i, from |-> p, amount |-> used, date |-> d])
            /\ Post(Journal(c, d, "PAYMENT", Lines(Bank, Receivable, n), Receivable, TRUE))
            /\ UNCHANGED <<invoice, refunds>>
    BY Zenon DEF Receive
  <1>. PICK i \in OpenInvoices(c) \cup {None} :
        LET used == IF i = None THEN 0 ELSE IF n <= BalanceDue(i) THEN n ELSE BalanceDue(i)
        IN  /\ payment[p] = NoPayment
            /\ payment' = [payment EXCEPT ![p] = [customer |-> c, date |-> d, amount |-> n, journal |-> NextJournal]]
            /\ allocations' = IF i = None THEN allocations
                              ELSE Append(allocations, [invoice |-> i, from |-> p, amount |-> used, date |-> d])
            /\ Post(Journal(c, d, "PAYMENT", Lines(Bank, Receivable, n), Receivable, TRUE))
            /\ UNCHANGED <<invoice, refunds>>
    BY Zenon
  <1>. DEFINE row == [customer |-> c, date |-> d, amount |-> n, journal |-> NextJournal]
              j == Journal(c, d, "PAYMENT", Lines(Bank, Receivable, n), Receivable, TRUE)
              used == IF n <= BalanceDue(i) THEN n ELSE BalanceDue(i)
              l == [invoice |-> i, from |-> p, amount |-> used, date |-> d]
  <1>1. n \in Nat \ {0} /\ n \in Int /\ d \in Int
    BY InputsAssumption
  <1>2. NextJournal \in Nat \ {0}
    BY <1>0, Indices DEF TypeOK
  <1>3. /\ row \in PaymentRows /\ row.customer = c /\ row.date = d /\ row.amount = n /\ row.journal = NextJournal
    BY <1>1, <1>2 DEF PaymentRows
  <1>4. JournalAdded(j) /\ PostedFor(j, c, d, 0 - n)
    <2>1. "PAYMENT" \in DOMAIN SourceTypes
      BY DEF SourceTypes
    <2>2. Receivable \in accounts /\ Bank \in accounts /\ Bank # Receivable
      BY <1>0, AccountsThere
    <2>3. PostingFits(c, d, "PAYMENT", TRUE, Bank, Receivable, n)
      BY <1>1, <2>1, <2>2 DEF PostingFits
    <2>. QED  BY <1>0, <2>2, <2>3, DocumentPosts
  <1>. HIDE DEF row, j
  <1>5. payment' = [payment EXCEPT ![p] = row]
    BY DEF row
  <1>6. i # None => l.from = p /\ AllocationAdded(l, c, d)
    <2>. SUFFICES ASSUME i # None PROVE l.from = p /\ AllocationAdded(l, c, d)
      OBVIOUS
    <2>1. i \in OpenInvoices(c) /\ i \in Docs /\ BalanceDue(i) \in Nat \ {0}
      BY <1>0, OpenInvoiceIs
    <2>2. used \in Nat \ {0} /\ used <= BalanceDue(i)
      BY <1>1, <2>1
    <2>3. allocations' = Append(allocations, l)
      BY Zenon
    <2>. HIDE DEF used
    <2>4. l \in AllocationRows /\ l.invoice = i /\ l.amount = used /\ l.date = d
      BY <1>1, <2>1, <2>2 DEF AllocationRows, Holders
    <2>. HIDE DEF l
    <2>5. AllocationAdded(l, c, d)
      BY <1>1, <2>1, <2>2, <2>3, <2>4 DEF AllocationAdded
    <2>. QED  BY <2>5 DEF l
  <1>7. allocations' = allocations \/ \E k : k.from = p /\ AllocationAdded(k, c, d)
    BY <1>6
  <1>8. ReceiveStep(p, row, j)
    BY <1>3, <1>4, <1>5, <1>7 DEF ReceiveStep
  <1>. QED  BY <1>8

LEMMA ApplyIs ==
  ASSUME Books, NEW c \in Customers, NEW i \in Docs, ApplyCredit(c, i)
  PROVE  \E l : ApplyStep(c, l)
  <1>0. TypeOK /\ Sourced
    BY SourcesAre DEF Books
  <1>. PICK x \in Sources(c), n \in Amounts, d \in Dates :
        /\ i \in OpenInvoices(c)
        /\ d >= invoice[i].date /\ d >= Source(x).date
        /\ n <= BalanceDue(i) /\ n <= Unapplied(x)
        /\ allocations' = Append(allocations, [invoice |-> i, from |-> x, amount |-> n, date |-> d])
        /\ Overtake("statement")
        /\ UNCHANGED <<day, early, accounts, invoice, payment, refunds, journals, statements>>
    BY Zenon DEF ApplyCredit
  <1>. DEFINE l == [invoice |-> i, from |-> x, amount |-> n, date |-> d]
  <1>1. n \in Nat \ {0} /\ d \in Int /\ x \in Holders /\ Source(x).date \in Int
    BY <1>0, InputsAssumption DEF Sourced
  <1>2. l \in AllocationRows /\ l.invoice = i /\ l.amount = n /\ l.date = d /\ l.from = x
    BY <1>1 DEF AllocationRows
  <1>3. allocations' = Append(allocations, l)
    OBVIOUS
  <1>. HIDE DEF l
  <1>4. AllocationAdded(l, c, Source(x).date)
    BY <1>1, <1>2, <1>3 DEF AllocationAdded
  <1>5. ApplyStep(c, l)
    BY <1>2, <1>4 DEF ApplyStep
  <1>. QED  BY <1>5

LEMMA RefundIs ==
  ASSUME Books, NEW c \in Customers, Refund(c)
  PROVE  \E f, j : RefundStep(c, f, j)
  <1>0. TypeOK /\ Sourced
    BY SourcesAre DEF Books
  <1>. PICK x \in Sources(c), n \in Amounts, d \in Dates :
        /\ d >= Source(x).date /\ n <= Unapplied(x)
        /\ refunds' = refunds \cup {[from |-> x, amount |-> n, date |-> d, journal |-> NextJournal]}
        /\ Post(Journal(c, d, "PAYMENT", Lines(Receivable, Bank, n), Receivable, TRUE))
        /\ UNCHANGED <<invoice, payment, allocations>>
    BY Zenon DEF Refund
  <1>. DEFINE f == [from |-> x, amount |-> n, date |-> d, journal |-> NextJournal]
              j == Journal(c, d, "PAYMENT", Lines(Receivable, Bank, n), Receivable, TRUE)
  <1>1. n \in Nat \ {0} /\ n \in Int /\ d \in Int /\ x \in Holders
    BY <1>0, InputsAssumption DEF Sourced
  <1>2. NextJournal \in Nat \ {0}
    BY <1>0, Indices DEF TypeOK
  <1>3. f \in RefundRows /\ f.from = x /\ f.amount = n /\ f.date = d /\ f.journal = NextJournal
    BY <1>1, <1>2 DEF RefundRows
  <1>4. JournalAdded(j) /\ PostedFor(j, c, d, n)
    <2>1. "PAYMENT" \in DOMAIN SourceTypes
      BY DEF SourceTypes
    <2>2. Receivable \in accounts /\ Bank \in accounts /\ Bank # Receivable
      BY <1>0, AccountsThere
    <2>3. PostingFits(c, d, "PAYMENT", TRUE, Receivable, Bank, n)
      BY <1>1, <2>1, <2>2 DEF PostingFits
    <2>. QED  BY <1>0, <2>2, <2>3, DocumentPosts
  <1>5. refunds' = refunds \cup {f}
    OBVIOUS
  <1>. HIDE DEF f, j
  <1>6. RefundStep(c, f, j)
    BY <1>3, <1>4, <1>5 DEF RefundStep
  <1>. QED  BY <1>6

LEMMA HandAdded ==
  ASSUME TypeOK, NEW j, JournalFits(j), Post(j), UNCHANGED documents
  PROVE  HandStep
  <1>1. j \in JournalRows /\ journals \in Seq(JournalRows) /\ journals' = Append(journals, j)
    BY DEF JournalFits, Post, TypeOK
  <1>2. /\ journals' \in Seq(JournalRows) /\ DOMAIN journals' = DOMAIN journals \cup {NextJournal}
        /\ journals'[NextJournal] = j /\ \A k \in DOMAIN journals : journals'[k] = journals[k]
        /\ Len(journals) <= Len(journals')
    BY <1>1, AppendJournal DEF JournalsGrow
  <1>3. Overtake("statement") /\ UNCHANGED <<documents, day, early, accounts, statements>>
    BY DEF Post
  <1>. QED  BY <1>2, <1>3 DEF JournalFits, HandStep

LEMMA EntryIs ==
  ASSUME TypeOK, NEW c \in Customers, NEW m \in ByHand, {m.account, m.contra} \subseteq accounts
  PROVE  JournalFits(Entry(c, m)) /\ JournalFits([Entry(c, m) EXCEPT !.posted = TRUE])
  <1>1. /\ m.source \in DOMAIN SourceTypes /\ m.date \in Int /\ m.amount \in Int /\ m.posted \in BOOLEAN
        /\ m.account \in accounts /\ m.contra \in accounts /\ m.account # m.contra
    BY InputsAssumption
  <1>2. PostingFits(c, m.date, m.source, m.posted, m.account, m.contra, m.amount)
    BY <1>1 DEF PostingFits
  <1>. PICK j : j = Entry(c, m)
    OBVIOUS
  <1>3. JournalFits(j)
    BY <1>2, JournalIs DEF Entry
  <1>. DEFINE posted == [j EXCEPT !.posted = TRUE]
  <1>4. posted \in JournalRows /\ posted.lines = j.lines
    BY <1>3 DEF JournalFits, JournalRows
  <1>. HIDE DEF posted
  <1>5. JournalFits(posted)
    BY <1>3, <1>4 DEF JournalFits
  <1>. QED  BY <1>3, <1>5 DEF posted

LEMMA ManualIs ==
  ASSUME Books, PostManual
  PROVE  HandStep
  <1>. PICK c \in Customers, m \in ByHand :
        /\ {m.account, m.contra} \subseteq accounts
        /\ Post(Entry(c, m))
        /\ UNCHANGED documents
    BY Zenon DEF PostManual
  <1>1. TypeOK /\ JournalFits(Entry(c, m))
    BY EntryIs DEF Books
  <1>. QED  BY <1>1, HandAdded

LEMMA ReverseIs ==
  ASSUME Books, NEW k \in DOMAIN journals, ReverseByHand(k)
  PROVE  HandStep
  <1>1. TypeOK /\ JournalsBalance /\ Utc \in Int
    BY DEF Books, TypeOK, Utc
  <1>2. JournalFits(Reversal(k, Utc))
    BY <1>1, ReversalIs
  <1>. QED  BY <1>1, <1>2, HandAdded DEF ReverseByHand

LEMMA CollectIs ==
  ASSUME Books, CollectMpesa
  PROVE  HandStep
  <1>0. TypeOK
    BY DEF Books
  <1>. PICK c \in Customers, m \in Collections :
        /\ m.account \in accounts
        /\ Post(Journal(c, m.date, "PAYMENT", Lines(Bank, m.account, m.amount), m.account, TRUE))
        /\ UNCHANGED documents
    BY Zenon DEF CollectMpesa
  <1>1. m.date \in Int /\ m.amount \in Int /\ m.account # Bank /\ Bank \in accounts
    BY <1>0, InputsAssumption, AccountsThere
  <1>2. "PAYMENT" \in DOMAIN SourceTypes
    BY DEF SourceTypes
  <1>3. PostingFits(c, m.date, "PAYMENT", TRUE, Bank, m.account, m.amount)
    BY <1>1, <1>2 DEF PostingFits
  <1>4. JournalFits(Journal(c, m.date, "PAYMENT", Lines(Bank, m.account, m.amount), m.account, TRUE))
    BY <1>0, <1>3, JournalIs
  <1>. QED  BY <1>0, <1>4, HandAdded

LEMMA ReplaceIs ==
  ASSUME Books, NEW k \in DOMAIN journals, ReplaceOpening(k)
  PROVE  HandStep
  <1>0. TypeOK /\ JournalsBalance
    BY DEF Books
  <1>. PICK c \in Customers, m \in ByHand :
        /\ {m.account, m.contra} \subseteq accounts
        /\ journals' = journals \o <<Reversal(k, journals[k].date), [Entry(c, m) EXCEPT !.posted = TRUE]>>
        /\ Overtake("statement")
        /\ UNCHANGED <<day, early, accounts, statements, documents>>
    BY Zenon DEF ReplaceOpening
  <1>. PICK a, b : a = Reversal(k, journals[k].date) /\ b = [Entry(c, m) EXCEPT !.posted = TRUE]
    OBVIOUS
  <1>1. journals[k].date \in Int
    BY <1>0, Indices DEF TypeOK
  <1>2. JournalFits(a) /\ JournalFits(b)
    BY <1>0, <1>1, ReversalIs, EntryIs
  <1>3. journals \in Seq(JournalRows) /\ a \in JournalRows /\ b \in JournalRows /\ journals' = journals \o <<a, b>>
    BY <1>0, <1>2 DEF TypeOK, JournalFits
  <1>4. /\ journals' \in Seq(JournalRows) /\ Len(journals') = Len(journals) + 2
        /\ \A l \in DOMAIN journals : l \in DOMAIN journals' /\ journals'[l] = journals[l]
        /\ journals'[Len(journals) + 1] = a /\ journals'[Len(journals) + 2] = b
        /\ Len(journals) \in Nat /\ DOMAIN journals = 1 .. Len(journals) /\ DOMAIN journals' = 1 .. Len(journals')
    BY <1>3
  <1>5. /\ Len(journals) <= Len(journals')
        /\ \A l \in DOMAIN journals' \ DOMAIN journals : l = Len(journals) + 1 \/ l = Len(journals) + 2
    <2>. PICK n : n = Len(journals)
      OBVIOUS
    <2>1. n \in Nat /\ DOMAIN journals = 1 .. n /\ DOMAIN journals' = 1 .. (n + 2) /\ Len(journals') = n + 2
      BY <1>4
    <2>2. n <= n + 2 /\ \A l \in (1 .. (n + 2)) \ (1 .. n) : l = n + 1 \/ l = n + 2
      BY <2>1
    <2>. QED  BY <2>1, <2>2, Zenon
  <1>6. \A l \in DOMAIN journals' \ DOMAIN journals : journals'[l] \in {a, b}
    BY <1>4, <1>5
  <1>7. ASSUME NEW l \in DOMAIN journals' \ DOMAIN journals
        PROVE  /\ SumFunction(journals'[l].lines) = 0
               /\ \A x \in DOMAIN AccountType : journals'[l].lines[x] # 0 => x \in accounts
    <2>. PICK j : j = journals'[l]
      OBVIOUS
    <2>1. JournalFits(j)
      BY <1>2, <1>6, Zenon
    <2>. QED  BY <2>1 DEF JournalFits
  <1>. QED  BY <1>4, <1>5, <1>7 DEF HandStep

BookStep ==
    \/ \E i, row, j : IssueStep(i, row, j) \/ NoteStep(i, row, j)
    \/ \E i, j : CancelStep(i, j)
    \/ \E p, row, j : ReceiveStep(p, row, j)
    \/ \E c, l : ApplyStep(c, l)
    \/ \E c, f, j : RefundStep(c, f, j)
    \/ HandStep
    \/ \E k : ApproveStep(k)

QuietNext ==
    \/ \E a \in LateAccounts : CreateAccount(a)
    \/ Tick
    \/ \E r \in Requests : Ask(r) \/ Query(r) \/ InsertStatement(r)
    \/ UNCHANGED vars

LEMMA StepIs ==
  ASSUME Books, [Next]_vars
  PROVE  BookStep \/ QuietNext
  <1>1. CASE \E i \in Docs : Issue(i) \/ IssueNote(i) \/ CancelInvoice(i)
    BY <1>1, IssueIs, NoteIs, CancelIs DEF BookStep
  <1>2. CASE \E p \in Payments : Receive(p)
    BY <1>2, ReceiveIs DEF BookStep
  <1>3. CASE \E c \in Customers : Refund(c) \/ \E i \in Docs : ApplyCredit(c, i)
    BY <1>3, RefundIs, ApplyIs DEF BookStep
  <1>4. CASE PostManual \/ CollectMpesa
    BY <1>4, ManualIs, CollectIs DEF BookStep
  <1>5. CASE \E k \in DOMAIN journals : Approve(k) \/ ReverseByHand(k) \/ ReplaceOpening(k)
    BY <1>5, ReverseIs, ReplaceIs, Zenon DEF BookStep, ApproveStep
  <1>6. CASE \/ \E a \in LateAccounts : CreateAccount(a)
             \/ Tick
             \/ \E r \in Requests : Ask(r) \/ Query(r) \/ InsertStatement(r)
             \/ UNCHANGED vars
    BY <1>6, Zenon DEF QuietNext
  <1>. QED  BY <1>1, <1>2, <1>3, <1>4, <1>5, <1>6, Zenon DEF Next

LEMMA QuietIs ==
  ASSUME TypeOK, QuietNext
  PROVE  QuietStep
  <1>0. LateAccounts \subseteq DOMAIN AccountType
    BY TablesAssumption
  <1>1. CASE \E a \in LateAccounts : CreateAccount(a)
    BY <1>0, <1>1 DEF CreateAccount, QuietStep, TypeOK, documents
  <1>2. CASE Tick
    BY <1>2 DEF Tick, QuietStep, TypeOK, documents
  <1>3. CASE \E r \in Requests : Ask(r)
    BY <1>3 DEF Ask, QuietStep, TypeOK, documents
  <1>4. CASE \E r \in Requests : Query(r)
    BY <1>4 DEF Query, QuietStep, TypeOK, documents
  <1>5. CASE \E r \in Requests : InsertStatement(r)
    BY <1>5 DEF InsertStatement, QuietStep, TypeOK, documents
  <1>6. CASE UNCHANGED vars
    BY <1>6 DEF vars, QuietStep, TypeOK, documents
  <1>. QED  BY <1>1, <1>2, <1>3, <1>4, <1>5, <1>6 DEF QuietNext

-----------------------------------------------------------------------------
(* The initial states.                                                     *)

LEMMA InitBooks ==
  ASSUME Init
  PROVE  Books
  <1>0. /\ day = 1 /\ early = TRUE
        /\ accounts = DOMAIN AccountType \ LateAccounts
        /\ invoice = [i \in Docs |-> NoInvoice] /\ payment = [p \in Payments |-> NoPayment]
        /\ refunds = {} /\ allocations = <<>> /\ journals = <<>>
    BY DEF Init
  <1>1. TypeOK
    BY <1>0, FS_EmptySet DEF TypeOK
  <1>2. JournalsBalance
    BY <1>0 DEF JournalsBalance
  <1>3. DocsLinked
    BY <1>0 DEF DocsLinked, DocLinked, NoInvoice
  <1>4. MoneyLinked
    BY <1>0 DEF MoneyLinked, NoPayment
  <1>5. AllocationsFit
    BY <1>0 DEF AllocationsFit, NoInvoice
  <1>. QED  BY <1>1, <1>2, <1>3, <1>4, <1>5 DEF Books

LEMMA InitBooked ==
  ASSUME Init
  PROVE  Booked
  <1>0. /\ invoice = [i \in Docs |-> NoInvoice] /\ payment = [p \in Payments |-> NoPayment]
        /\ refunds = {} /\ journals = <<>>
    BY DEF Init
  <1>1. Sourced
    BY InitBooks, SourcesAre DEF Books
  <1>2. IsFiniteSet(Docs) /\ IsFiniteSet(Payments) /\ IsFiniteSet(Holders) /\ None \notin Customers
    BY TablesAssumption, FS_Union DEF Holders
  <1>. SUFFICES ASSUME NEW c \in Customers, NEW d \in Int
                PROVE  BookedAt(c, d)
    BY DEF Booked
  <1>3. SumFunction(Entered(c, d)) = 0
    <2>1. DOMAIN Entered(c, d) = {}
      BY <1>0 DEF Entered, DocumentedJournals
    <2>. QED  BY <2>1, SumEmpty DEF SumFunction
  <1>4. SumFunction(Returned(c, d)) = 0
    <2>1. DOMAIN Returned(c, d) = {}
      BY <1>0 DEF Returned
    <2>. QED  BY <2>1, SumEmpty DEF SumFunction
  <1>5. SumFunction(Invoiced(c, d)) = 0
    <2>1. Invoiced(c, d) = Zeros(Docs)
      BY <1>0 DEF Invoiced, Zeros, IssuedBy, IssuedDocs, NoInvoice
    <2>. QED  BY <1>2, <2>1, SumZeros
  <1>6. SumFunction(Withdrawn(c, d)) = 0
    <2>1. Withdrawn(c, d) = Zeros(Docs)
      BY <1>0 DEF Withdrawn, Zeros, Reversed, NoInvoice
    <2>. QED  BY <1>2, <2>1, SumZeros
  <1>7. SumFunction(Credited(c, d)) = 0
    <2>1. \A x \in Holders : x \notin Sources(c)
      BY <1>0, <1>1, <1>2 DEF Sourced, NoInvoice, NoPayment, Holders
    <2>2. Credited(c, d) = Zeros(Holders)
      BY <2>1 DEF Credited, Zeros
    <2>. QED  BY <1>2, <2>2, SumZeros
  <1>. QED  BY <1>3, <1>4, <1>5, <1>6, <1>7 DEF BookedAt

LEMMA InitIInv ==
  ASSUME Init
  PROVE  IInv
  <1>1. req = [r \in Requests |-> Unasked] /\ statements = <<>>
    BY DEF Init
  <1>2. RequestsFit
    <2>1. \A q \in Queries : Unasked.got[q].read = FALSE
      BY DEF Unasked, NoRead
    <2>2. DOMAIN Unasked.got = Queries /\ Unasked.kind = "none" /\ Unasked.overtaken = FALSE
      BY DEF Unasked
    <2>3. AskShape(Unasked)
      BY <2>1, <2>2 DEF AskShape, Has
    <2>4. StatementFits(Unasked) /\ TrialFits(Unasked)
      BY <2>2 DEF StatementFits, TrialFits
    <2>5. \A r \in Requests : req[r] = Unasked
      BY <1>1
    <2>. QED  BY <1>1, <2>3, <2>4, <2>5 DEF RequestsFit, AskFits
  <1>3. StatementsStand
    BY <1>1 DEF StatementsStand
  <1>4. DocumentsPosted
    BY DEF Init, DocumentsPosted, DocumentedJournals
  <1>. QED  BY <1>2, <1>3, <1>4, InitBooks, InitBooked DEF IInv

-----------------------------------------------------------------------------
(* Rows stay: a posting adds to the tables, and changes a document only by *)
(* cancelling it.                                                          *)

DocKept(i) ==
    /\ invoice'[i].kind = invoice[i].kind /\ invoice'[i].customer = invoice[i].customer
    /\ invoice'[i].date = invoice[i].date /\ invoice'[i].due = invoice[i].due
    /\ invoice'[i].total = invoice[i].total /\ invoice'[i].journal = invoice[i].journal
    /\ invoice[i].reversal # 0 => invoice'[i] = invoice[i]
RowsKept ==
    /\ \A p \in Payments : payment[p] # NoPayment => payment'[p] = payment[p]
    /\ \A i \in Docs : invoice[i] # NoInvoice => DocKept(i)
    /\ refunds \subseteq refunds'
    /\ \A k \in DOMAIN allocations : k \in DOMAIN allocations' /\ allocations'[k] = allocations[k]
    /\ JournalsGrow
StepTyped == TypeOK' /\ RowsKept

LEMMA AddedTyped ==
  ASSUME TypeOK, NEW j, JournalAdded(j)
  PROVE  /\ journals' \in Seq(JournalRows) /\ Len(journals') = NextJournal /\ JournalsGrow
         /\ DOMAIN journals' = DOMAIN journals \cup {NextJournal}
         /\ journals'[NextJournal] = j /\ \A k \in DOMAIN journals : journals'[k] = journals[k]
         /\ day' \in Nat \ {0} /\ early' \in BOOLEAN
         /\ accounts' \in SUBSET DOMAIN AccountType /\ DOMAIN AccountType \ LateAccounts \subseteq accounts'
  BY AppendJournal DEF TypeOK, JournalAdded

LEMMA DocTyped ==
  ASSUME TypeOK, NEW i, NEW row, DocAdded(i, row)
  PROVE  /\ invoice' \in [Docs -> DocRows \cup {NoInvoice}] /\ invoice'[i] = row
         /\ \A o \in Docs : o # i => invoice'[o] = invoice[o]
         /\ \A o \in Docs : invoice[o] # NoInvoice => DocKept(o)
  BY DEF TypeOK, DocAdded, DocKept

LEMMA AllocationTyped ==
  ASSUME TypeOK, NEW l, NEW c, NEW d, AllocationAdded(l, c, d)
  PROVE  /\ allocations' \in Seq(AllocationRows)
         /\ \A k \in DOMAIN allocations : k \in DOMAIN allocations' /\ allocations'[k] = allocations[k]
  BY AppendAllocation DEF TypeOK, AllocationAdded

LEMMA IssueTyped ==
  ASSUME TypeOK, NEW i, NEW row, NEW j, IssueStep(i, row, j)
  PROVE  StepTyped
  <1>1. DocAdded(i, row) /\ JournalAdded(j) /\ UNCHANGED <<payment, refunds, allocations>>
    BY DEF IssueStep
  <1>2. TypeOK'
    BY <1>1, AddedTyped, DocTyped DEF TypeOK
  <1>3. RowsKept
    BY <1>1, AddedTyped, DocTyped DEF RowsKept
  <1>. QED  BY <1>2, <1>3 DEF StepTyped

LEMMA NoteTyped ==
  ASSUME TypeOK, NEW i, NEW row, NEW j, NoteStep(i, row, j)
  PROVE  StepTyped
  <1>1. DocAdded(i, row) /\ JournalAdded(j) /\ UNCHANGED <<payment, refunds>>
    BY DEF NoteStep
  <1>2. UNCHANGED allocations \/ \E l : AllocationAdded(l, row.customer, row.date)
    BY DEF NoteStep
  <1>3. /\ allocations' \in Seq(AllocationRows)
        /\ \A k \in DOMAIN allocations : k \in DOMAIN allocations' /\ allocations'[k] = allocations[k]
    BY <1>2, AllocationTyped DEF TypeOK
  <1>4. TypeOK'
    BY <1>1, <1>3, AddedTyped, DocTyped DEF TypeOK
  <1>5. RowsKept
    BY <1>1, <1>3, AddedTyped, DocTyped DEF RowsKept
  <1>. QED  BY <1>4, <1>5 DEF StepTyped

LEMMA CancelTyped ==
  ASSUME TypeOK, DocsLinked, NEW i, NEW j, CancelStep(i, j)
  PROVE  StepTyped /\ \A o \in Docs : o # i => invoice'[o] = invoice[o]
  <1>1. /\ i \in Docs /\ invoice[i].kind = "INVOICE" /\ invoice[i].cancelled = 0
        /\ invoice' = [invoice EXCEPT ![i].cancelled = day, ![i].reversal = NextJournal]
        /\ JournalAdded(j) /\ UNCHANGED <<payment, refunds, allocations>>
    BY DEF CancelStep
  <1>2. invoice[i] \in DocRows /\ invoice[i].reversal = 0
    BY <1>1 DEF TypeOK, DocsLinked, DocLinked, NoInvoice
  <1>3. NextJournal \in Nat /\ day \in Nat
    BY Indices DEF TypeOK
  <1>. DEFINE row == [invoice[i] EXCEPT !.cancelled = day, !.reversal = NextJournal]
  <1>4. invoice' = [invoice EXCEPT ![i] = row]
    BY <1>1 DEF TypeOK
  <1>5. row \in DocRows
    BY <1>2, <1>3 DEF DocRows
  <1>6. /\ row.kind = invoice[i].kind /\ row.customer = invoice[i].customer /\ row.date = invoice[i].date
        /\ row.due = invoice[i].due /\ row.total = invoice[i].total /\ row.journal = invoice[i].journal
    BY <1>2 DEF DocRows
  <1>. HIDE DEF row
  <1>7. invoice' \in [Docs -> DocRows \cup {NoInvoice}] /\ invoice'[i] = row
    BY <1>1, <1>4, <1>5 DEF TypeOK
  <1>8. \A o \in Docs : o # i => invoice'[o] = invoice[o]
    BY <1>4 DEF TypeOK
  <1>9. \A o \in Docs : DocKept(o)
    BY <1>2, <1>6, <1>7, <1>8 DEF DocKept
  <1>10. TypeOK'
    BY <1>1, <1>7, AddedTyped DEF TypeOK
  <1>11. RowsKept
    BY <1>1, <1>9, AddedTyped DEF RowsKept
  <1>. QED  BY <1>8, <1>10, <1>11 DEF StepTyped

LEMMA ReceiveTyped ==
  ASSUME TypeOK, NEW p, NEW row, NEW j, ReceiveStep(p, row, j)
  PROVE  StepTyped
  <1>1. /\ p \in Payments /\ payment[p] = NoPayment /\ row \in PaymentRows
        /\ payment' = [payment EXCEPT ![p] = row]
        /\ JournalAdded(j) /\ UNCHANGED <<invoice, refunds>>
    BY DEF ReceiveStep
  <1>2. UNCHANGED allocations \/ \E l : AllocationAdded(l, row.customer, row.date)
    BY DEF ReceiveStep
  <1>3. /\ allocations' \in Seq(AllocationRows)
        /\ \A k \in DOMAIN allocations : k \in DOMAIN allocations' /\ allocations'[k] = allocations[k]
    BY <1>2, AllocationTyped DEF TypeOK
  <1>4. payment' \in [Payments -> PaymentRows \cup {NoPayment}]
    BY <1>1 DEF TypeOK
  <1>5. \A q \in Payments : payment[q] # NoPayment => payment'[q] = payment[q]
    BY <1>1 DEF TypeOK
  <1>6. TypeOK'
    BY <1>1, <1>3, <1>4, AddedTyped DEF TypeOK
  <1>7. RowsKept
    BY <1>1, <1>3, <1>5, AddedTyped DEF RowsKept, DocKept
  <1>. QED  BY <1>6, <1>7 DEF StepTyped

LEMMA ApplyTyped ==
  ASSUME TypeOK, NEW c, NEW l, ApplyStep(c, l)
  PROVE  StepTyped
  <1>1. UNCHANGED <<day, early, accounts, invoice, payment, refunds, journals>>
    BY DEF ApplyStep
  <1>2. /\ allocations' \in Seq(AllocationRows)
        /\ \A k \in DOMAIN allocations : k \in DOMAIN allocations' /\ allocations'[k] = allocations[k]
    BY AllocationTyped DEF ApplyStep
  <1>3. TypeOK'
    BY <1>1, <1>2 DEF TypeOK
  <1>4. RowsKept
    BY <1>1, <1>2, Indices DEF RowsKept, DocKept, JournalsGrow, TypeOK
  <1>. QED  BY <1>3, <1>4 DEF StepTyped

LEMMA RefundTyped ==
  ASSUME TypeOK, NEW c, NEW f, NEW j, RefundStep(c, f, j)
  PROVE  StepTyped
  <1>1. /\ f \in RefundRows /\ refunds' = refunds \cup {f}
        /\ JournalAdded(j) /\ UNCHANGED <<invoice, payment, allocations>>
    BY DEF RefundStep
  <1>2. IsFiniteSet(refunds')
    BY <1>1, FS_AddElement DEF TypeOK
  <1>3. TypeOK'
    BY <1>1, <1>2, AddedTyped DEF TypeOK
  <1>4. RowsKept
    BY <1>1, AddedTyped DEF RowsKept, DocKept
  <1>. QED  BY <1>3, <1>4 DEF StepTyped

LEMMA HandTyped ==
  ASSUME TypeOK, HandStep
  PROVE  StepTyped
  <1>1. UNCHANGED <<invoice, payment, refunds, allocations, day, early, accounts>> /\ journals' \in Seq(JournalRows)
    BY DEF HandStep, documents
  <1>2. TypeOK'
    BY <1>1 DEF TypeOK
  <1>3. JournalsGrow
    <2>1. Len(journals') \in Nat
      BY <1>1
    <2>. QED  BY <2>1 DEF HandStep, JournalsGrow
  <1>4. RowsKept
    BY <1>1, <1>3 DEF RowsKept, DocKept
  <1>. QED  BY <1>2, <1>4 DEF StepTyped

LEMMA ApproveTyped ==
  ASSUME TypeOK, NEW k, ApproveStep(k)
  PROVE  /\ StepTyped /\ UNCHANGED <<accounts, invoice, payment, refunds, allocations>>
         /\ DOMAIN journals' = DOMAIN journals
         /\ \A l \in DOMAIN journals : l # k => journals'[l] = journals[l]
  <1>1. /\ k \in DOMAIN journals /\ journals' = [journals EXCEPT ![k].posted = TRUE]
        /\ UNCHANGED <<day, early, accounts, invoice, payment, refunds, allocations>>
    BY DEF ApproveStep, Approve, documents
  <1>. DEFINE row == [journals[k] EXCEPT !.posted = TRUE]
  <1>2. journals[k] \in JournalRows
    BY <1>1, Indices DEF TypeOK
  <1>3. /\ row \in JournalRows /\ row.customer = journals[k].customer /\ row.date = journals[k].date
        /\ row.source = journals[k].source /\ row.lines = journals[k].lines /\ row.account = journals[k].account
    BY <1>2 DEF JournalRows
  <1>4. journals' = [journals EXCEPT ![k] = row]
    BY <1>1
  <1>. HIDE DEF row
  <1>5. /\ journals' \in Seq(JournalRows) /\ Len(journals') = Len(journals) /\ DOMAIN journals' = DOMAIN journals
        /\ journals'[k] = row /\ \A l \in DOMAIN journals : l # k => journals'[l] = journals[l]
    <2>1. journals \in Seq(JournalRows) /\ row \in JournalRows /\ k \in DOMAIN journals
      BY <1>1, <1>3 DEF TypeOK
    <2>. QED  BY <1>4, <2>1
  <1>6. JournalsGrow
    BY <1>3, <1>5, Indices DEF JournalsGrow, TypeOK
  <1>7. TypeOK'
    BY <1>1, <1>5 DEF TypeOK
  <1>8. RowsKept
    BY <1>1, <1>6 DEF RowsKept, DocKept
  <1>. QED  BY <1>1, <1>5, <1>7, <1>8 DEF StepTyped

LEMMA QuietTyped ==
  ASSUME TypeOK, QuietStep
  PROVE  StepTyped
  <1>1. /\ UNCHANGED <<invoice, payment, refunds, allocations, journals>>
        /\ day' \in Nat \ {0} /\ early' \in BOOLEAN
        /\ accounts \subseteq accounts' /\ accounts' \subseteq DOMAIN AccountType
    BY DEF QuietStep, documents
  <1>2. TypeOK'
    BY <1>1 DEF TypeOK
  <1>3. RowsKept
    BY <1>1, Indices DEF RowsKept, DocKept, JournalsGrow, TypeOK
  <1>. QED  BY <1>2, <1>3 DEF StepTyped

(* Credit is there to stay. *)
LEMMA SourcesKept ==
  ASSUME TypeOK, StepTyped
  PROVE  /\ Sourced /\ Sourced'
         /\ \A c \in Customers : \A x \in Sources(c) :
              /\ x \in Sources(c)' /\ Source(x)'.date = Source(x).date /\ Source(x)'.amount = Source(x).amount
  <1>1. TypeOK' /\ RowsKept
    BY DEF StepTyped
  <1>2. Sourced
    BY SourcesAre
  <1>3. Sourced'
    BY <1>1, SourcesAre, PTL
  <1>4. None \notin Customers
    BY TablesAssumption
  <1>. SUFFICES ASSUME NEW c \in Customers, NEW x \in Sources(c)
                PROVE  /\ x \in Sources(c)'
                       /\ Source(x)'.date = Source(x).date /\ Source(x)'.amount = Source(x).amount
    BY <1>2, <1>3
  <1>5. x \in Payments \/ x \in Docs
    BY <1>2 DEF Sourced, Holders
  <1>6. CASE x \in Payments
    <2>1. payment[x].customer = c
      BY <1>2, <1>6 DEF Sourced
    <2>2. payment'[x] = payment[x]
      BY <1>1, <1>4, <1>6, <2>1 DEF RowsKept, NoPayment
    <2>3. x \in Sources(c)'
      BY <1>3, <1>6, <2>1, <2>2 DEF Sourced
    <2>4. Source(x)' = Source(x)
      BY <1>2, <1>3, <1>6, <2>2 DEF Sourced
    <2>. QED  BY <2>3, <2>4
  <1>7. CASE x \in Docs
    <2>1. invoice[x].kind = "CREDIT_NOTE" /\ invoice[x].customer = c
      BY <1>2, <1>7 DEF Sourced
    <2>2. DocKept(x)
      BY <1>1, <1>7, <2>1 DEF RowsKept, NoInvoice
    <2>3. x \in Sources(c)'
      BY <1>3, <1>7, <2>1, <2>2 DEF Sourced, DocKept
    <2>4. Source(x)'.date = Source(x).date /\ Source(x)'.amount = Source(x).amount
      BY <1>2, <1>3, <1>7, <2>2 DEF Sourced, DocKept
    <2>. QED  BY <2>3, <2>4
  <1>. QED  BY <1>5, <1>6, <1>7

(* What a link leads to does not change. *)
LEMMA DocLinkKept ==
  ASSUME TypeOK, DocsLinked, StepTyped, NEW i \in Docs, invoice'[i] = invoice[i],
         invoice[i].reversal # 0 => To(i)' = To(i)
  PROVE  DocLinked(i)'
  <1>1. TypeOK' /\ JournalsGrow
    BY DEF StepTyped, RowsKept
  <1>2. DocLinked(i)
    BY DEF DocsLinked
  <1>3. Len(journals) \in Nat /\ Len(journals') \in Nat /\ Len(journals) <= Len(journals')
    BY <1>1, Indices DEF TypeOK, JournalsGrow
  <1>4. invoice[i].kind = "INVOICE" =>
           invoice[i].journal \in Nat \ {0} /\ invoice[i].reversal \in Nat
    BY DEF TypeOK, NoInvoice, DocRows
  <1>5. invoice[i].journal \in Nat /\ invoice[i].reversal \in Nat
    BY DEF TypeOK, NoInvoice, DocRows
  <1>6. \A k \in DOMAIN journals :
           /\ journals'[k].lines = journals[k].lines /\ journals'[k].date = journals[k].date
           /\ journals'[k].customer = journals[k].customer /\ journals'[k].account = journals[k].account
    BY <1>1 DEF JournalsGrow
  <1>7. invoice[i].kind = "INVOICE" => invoice[i].journal \in DOMAIN journals
    BY <1>2, <1>4, Indices DEF TypeOK, DocLinked
  <1>8. invoice[i].kind = "INVOICE" /\ invoice[i].reversal # 0 => invoice[i].reversal \in DOMAIN journals
    BY <1>2, <1>4, Indices DEF TypeOK, DocLinked
  <1>9. invoice[i].kind = "INVOICE" =>
           /\ journals'[invoice[i].journal].customer = invoice[i].customer
           /\ journals'[invoice[i].journal].lines[journals'[invoice[i].journal].account] = invoice[i].total
    BY <1>2, <1>6, <1>7 DEF DocLinked, CustomerAmount
  <1>10. invoice[i].reversal # 0 =>
            /\ invoice[i].kind = "INVOICE" /\ To(i)' = {}
            /\ journals'[invoice[i].reversal].date <= invoice[i].cancelled
    BY <1>2, <1>6, <1>8 DEF DocLinked
  <1>11. /\ invoice[i].journal <= Len(journals') /\ invoice[i].reversal <= Len(journals')
         /\ invoice[i].reversal = 0 <=> invoice[i].cancelled = 0
    BY <1>2, <1>3, <1>5 DEF DocLinked
  <1>12. invoice'[i] = invoice[i]
    OBVIOUS
  <1>. QED  BY <1>9, <1>10, <1>11, <1>12, Zenon DEF DocLinked, CustomerAmount

LEMMA AllocationLeavesCancelled ==
  ASSUME TypeOK, DocsLinked, NEW l, NEW c \in Customers, NEW d, AllocationAdded(l, c, d)
  PROVE  /\ l.invoice \in OpenInvoices(c) /\ l \in AllocationRows /\ allocations' = Append(allocations, l)
         /\ \A i \in Docs : invoice[i].reversal # 0 => i # l.invoice /\ To(i)' = To(i)
  <1>1. l.invoice \in OpenInvoices(c) /\ l \in AllocationRows /\ allocations' = Append(allocations, l)
    BY DEF AllocationAdded
  <1>2. ASSUME NEW i \in Docs, invoice[i].reversal # 0 PROVE i # l.invoice /\ To(i)' = To(i)
    <2>1. i # l.invoice
      BY <1>1, <1>2, OpenInvoiceIs DEF DocsLinked, DocLinked
    <2>. QED  BY <1>1, <2>1, TakenAppended DEF TypeOK
  <1>. QED  BY <1>1, <1>2

LEMMA AllocationKept ==
  ASSUME TypeOK, AllocationsFit, StepTyped, NEW k \in DOMAIN allocations
  PROVE  AllocationFits(k)' /\ k \in DOMAIN allocations'
  <1>0. TypeOK' /\ RowsKept
    BY DEF StepTyped
  <1>1. AllocationFits(k)
    BY DEF AllocationsFit
  <1>2. allocations'[k] = allocations[k] /\ k \in DOMAIN allocations'
    BY <1>0 DEF RowsKept
  <1>. PICK i \in Docs, x \in Holders, c \in Customers :
         /\ allocations[k].invoice = i /\ allocations[k].from = x
         /\ invoice[i].kind = "INVOICE" /\ invoice[i].customer = c
         /\ x \in Sources(c) /\ Source(x).date <= allocations[k].date
    BY <1>1 DEF AllocationFits
  <1>3. invoice'[i].kind = "INVOICE" /\ invoice'[i].customer = c
    BY <1>0 DEF RowsKept, DocKept, NoInvoice
  <1>4. x \in Sources(c)' /\ Source(x)'.date = Source(x).date
    BY SourcesKept
  <1>. QED  BY <1>2, <1>3, <1>4, Zenon DEF AllocationFits

LEMMA NothingOnOthers ==
  ASSUME AllocationsFit, NEW i, invoice[i].kind # "INVOICE"
  PROVE  To(i) = {} /\ Taken(To(i)) = 0
  <1>1. To(i) = {}
    BY DEF AllocationsFit, AllocationFits, To
  <1>. QED  BY <1>1, SumEmpty DEF Taken, SumFunction

LEMMA AllocationsKept ==
  ASSUME TypeOK, AllocationsFit, StepTyped, UNCHANGED allocations
  PROVE  AllocationsFit'
  <1>0. TypeOK' /\ RowsKept
    BY DEF StepTyped
  <1>1. \A k \in DOMAIN allocations' : AllocationFits(k)'
    BY AllocationKept
  <1>2. ASSUME NEW i \in Docs, invoice'[i].kind = "INVOICE"
        PROVE  Taken(To(i))' <= invoice'[i].total
    <2>1. Taken(To(i))' = Taken(To(i))
      BY DEF Taken, To
    <2>2. CASE invoice[i].kind = "INVOICE"
      <3>1. invoice'[i].total = invoice[i].total
        BY <1>0, <2>2 DEF RowsKept, DocKept, NoInvoice
      <3>. QED  BY <2>1, <2>2, <3>1 DEF AllocationsFit
    <2>3. CASE invoice[i].kind # "INVOICE"
      <3>1. Taken(To(i)) = 0
        BY <2>3, NothingOnOthers
      <3>2. invoice'[i].total \in Nat
        BY <1>0, <1>2 DEF TypeOK, NoInvoice, DocRows
      <3>. QED  BY <2>1, <3>1, <3>2
    <2>. QED  BY <2>2, <2>3
  <1>. QED  BY <1>1, <1>2 DEF AllocationsFit

LEMMA AllocationsAdded ==
  ASSUME TypeOK, AllocationsFit, StepTyped, NEW l, NEW c \in Customers, NEW d, AllocationAdded(l, c, d),
         l.from \in Sources(c)', Source(l.from)'.date <= l.date
  PROVE  AllocationsFit'
  <1>0. TypeOK' /\ RowsKept
    BY DEF StepTyped
  <1>1. /\ l.invoice \in OpenInvoices(c) /\ l \in AllocationRows /\ allocations' = Append(allocations, l)
        /\ l.amount <= BalanceDue(l.invoice) /\ allocations \in Seq(AllocationRows)
    BY DEF AllocationAdded, TypeOK
  <1>2. /\ l.invoice \in Docs /\ invoice[l.invoice].kind = "INVOICE" /\ invoice[l.invoice].customer = c
        /\ invoice[l.invoice] \in DocRows /\ BalanceDue(l.invoice) = invoice[l.invoice].total - Taken(To(l.invoice))
    BY <1>1, OpenInvoiceIs
  <1>3. /\ invoice'[l.invoice].kind = "INVOICE" /\ invoice'[l.invoice].customer = c
        /\ invoice'[l.invoice].total = invoice[l.invoice].total
    BY <1>0, <1>2 DEF RowsKept, DocKept, NoInvoice
  <1>4. \A k \in DOMAIN allocations' : AllocationFits(k)'
    <2>. PICK m : m = Len(allocations) + 1
      OBVIOUS
    <2>1. DOMAIN allocations' = DOMAIN allocations \cup {m} /\ allocations'[m] = l
      BY <1>1, AppendAllocation
    <2>2. l.invoice \in Docs /\ l.from \in Holders
      BY <1>1 DEF AllocationRows
    <2>3. AllocationFits(m)'
      <3>1. /\ allocations'[m].invoice = l.invoice /\ allocations'[m].from = l.from
            /\ invoice'[l.invoice].kind = "INVOICE" /\ invoice'[l.invoice].customer = c
            /\ l.from \in Sources(c)' /\ Source(l.from)'.date <= allocations'[m].date
        BY <1>3, <2>1
      <3>. QED  BY <2>2, <3>1 DEF AllocationFits
    <2>. QED  BY <2>1, <2>3, AllocationKept
  <1>5. ASSUME NEW i \in Docs, invoice'[i].kind = "INVOICE"
        PROVE  Taken(To(i))' <= invoice'[i].total
    <2>0. Taken(To(i)) \in Nat
      BY AmountsTaken DEF TypeOK, To
    <2>1. CASE i = l.invoice
      <3>1. Taken(To(i))' = Taken(To(i)) + l.amount
        BY <1>1, <2>1, TakenAppended
      <3>2. invoice[i].total \in Nat /\ l.amount \in Nat
        BY <1>1, <1>2, <2>1 DEF DocRows, AllocationRows
      <3>. QED  BY <1>1, <1>2, <1>3, <2>0, <2>1, <3>1, <3>2
    <2>2. CASE i # l.invoice
      <3>1. Taken(To(i))' = Taken(To(i))
        BY <1>1, <2>2, TakenAppended
      <3>2. CASE invoice[i].kind = "INVOICE"
        <4>1. invoice'[i].total = invoice[i].total
          BY <1>0, <3>2 DEF RowsKept, DocKept, NoInvoice
        <4>. QED  BY <3>1, <3>2, <4>1 DEF AllocationsFit
      <3>3. CASE invoice[i].kind # "INVOICE"
        <4>1. Taken(To(i)) = 0
          BY <3>3, NothingOnOthers
        <4>2. invoice'[i].total \in Nat
          BY <1>0, <1>5 DEF TypeOK, NoInvoice, DocRows
        <4>. QED  BY <3>1, <4>1, <4>2
      <3>. QED  BY <3>2, <3>3
    <2>. QED  BY <2>1, <2>2
  <1>. QED  BY <1>4, <1>5 DEF AllocationsFit

LEMMA DocLinksKept ==
  ASSUME TypeOK, DocsLinked, StepTyped, UNCHANGED invoice,
         UNCHANGED allocations \/ \E l, d : \E c \in Customers : AllocationAdded(l, c, d)
  PROVE  DocsLinked'
  <1>1. \A i \in Docs : invoice[i].reversal # 0 => To(i)' = To(i)
    <2>1. CASE UNCHANGED allocations
      BY <2>1 DEF To
    <2>2. CASE \E l, d : \E c \in Customers : AllocationAdded(l, c, d)
      BY <2>2, AllocationLeavesCancelled
    <2>. QED  BY <2>1, <2>2
  <1>. QED  BY <1>1, DocLinkKept DEF DocsLinked

LEMMA DocLinksAdded ==
  ASSUME TypeOK, DocsLinked, StepTyped, NEW i, NEW row, NEW j, DocAdded(i, row), JournalAdded(j),
         row.kind = "INVOICE" => j.customer = row.customer /\ j.lines[j.account] = row.total,
         UNCHANGED allocations \/ \E l, d : \E c \in Customers : AllocationAdded(l, c, d)
  PROVE  DocsLinked'
  <1>1. \A o \in Docs : invoice[o].reversal # 0 => To(o)' = To(o)
    <2>1. CASE UNCHANGED allocations
      BY <2>1 DEF To
    <2>2. CASE \E l, d : \E c \in Customers : AllocationAdded(l, c, d)
      BY <2>2, AllocationLeavesCancelled
    <2>. QED  BY <2>1, <2>2
  <1>2. \A o \in Docs : o # i => DocLinked(o)'
    BY <1>1, DocTyped, DocLinkKept
  <1>3. /\ invoice'[i] = row /\ row.journal = NextJournal /\ row.reversal = 0 /\ row.cancelled = 0
        /\ journals'[NextJournal] = j /\ Len(journals') = NextJournal /\ NextJournal \in Nat \ {0}
    BY DocTyped, AddedTyped, Indices DEF DocAdded, TypeOK
  <1>4. DocLinked(i)'
    BY <1>3 DEF DocLinked, CustomerAmount
  <1>. QED  BY <1>2, <1>4 DEF DocsLinked

LEMMA CancelLinked ==
  ASSUME TypeOK, DocsLinked, NEW i, NEW j, CancelStep(i, j)
  PROVE  DocsLinked'
  <1>1. StepTyped /\ \A o \in Docs : o # i => invoice'[o] = invoice[o]
    BY CancelTyped
  <1>2. /\ i \in Docs /\ invoice[i].kind = "INVOICE" /\ invoice[i].cancelled = 0 /\ To(i) = {}
        /\ invoice' = [invoice EXCEPT ![i].cancelled = day, ![i].reversal = NextJournal]
        /\ JournalAdded(j) /\ j.date <= day /\ UNCHANGED allocations
    BY DEF CancelStep
  <1>3. \A o \in Docs : o # i => DocLinked(o)'
    <2>1. \A o \in Docs : To(o)' = To(o)
      BY <1>2 DEF To
    <2>. QED  BY <1>1, <2>1, DocLinkKept
  <1>4. invoice[i] \in DocRows /\ invoice[i].journal \in DOMAIN journals
    BY <1>2, Indices DEF TypeOK, NoInvoice, DocRows, DocsLinked, DocLinked
  <1>5. /\ invoice'[i].kind = "INVOICE" /\ invoice'[i].total = invoice[i].total
        /\ invoice'[i].journal = invoice[i].journal
        /\ invoice'[i].reversal = NextJournal /\ invoice'[i].cancelled = day
    BY <1>2, <1>4 DEF TypeOK, DocRows
  <1>6. /\ journals'[NextJournal] = j /\ Len(journals') = NextJournal /\ NextJournal \in Nat \ {0}
        /\ journals'[invoice[i].journal] = journals[invoice[i].journal]
        /\ DOMAIN journals = 1 .. Len(journals) /\ Len(journals) \in Nat /\ day \in Nat \ {0}
    BY <1>2, <1>4, AddedTyped, Indices DEF TypeOK
  <1>7. /\ journals[invoice[i].journal].lines[journals[invoice[i].journal].account] = invoice[i].total
        /\ journals[invoice[i].journal].customer = invoice'[i].customer
    BY <1>2, <1>4 DEF TypeOK, DocRows, DocsLinked, DocLinked, CustomerAmount
  <1>8. To(i)' = {}
    BY <1>2 DEF To
  <1>9. invoice[i].journal <= NextJournal
    BY <1>4, <1>6 DEF NextJournal
  <1>10. DocLinked(i)'
    BY <1>2, <1>5, <1>6, <1>7, <1>8, <1>9 DEF DocLinked, CustomerAmount
  <1>. QED  BY <1>3, <1>10 DEF DocsLinked

LEMMA MoneyStaysLinked ==
  ASSUME TypeOK, MoneyLinked, StepTyped,
         \A p \in Payments : payment'[p] = payment[p] \/ payment'[p].journal = Len(journals'),
         \A f \in refunds' : f \in refunds \/ (f.journal = Len(journals') /\ \E c \in Customers : f.from \in Sources(c))
  PROVE  MoneyLinked'
  <1>1. TypeOK' /\ JournalsGrow
    BY DEF StepTyped, RowsKept
  <1>2. Len(journals) \in Nat /\ Len(journals') \in Nat /\ Len(journals) <= Len(journals')
    BY <1>1, Indices DEF TypeOK, JournalsGrow
  <1>3. \A p \in Payments : payment[p].journal \in Nat
    BY DEF TypeOK, NoPayment, PaymentRows
  <1>4. \A p \in Payments : payment'[p].journal <= Len(journals')
    BY <1>2, <1>3 DEF MoneyLinked
  <1>5. \A f \in refunds : f.journal \in Nat
    BY DEF TypeOK, RefundRows
  <1>6. \A f \in refunds' : f.journal <= Len(journals')
    BY <1>2, <1>5 DEF MoneyLinked
  <1>7. \A f \in refunds' : \E c \in Customers : f.from \in Sources(c)
    BY DEF MoneyLinked
  <1>8. \A f \in refunds' : \E c \in Customers : f.from \in Sources(c)'
    BY <1>7, SourcesKept
  <1>. QED  BY <1>4, <1>6, <1>8 DEF MoneyLinked, Sources, Source

LEMMA IssueBooks ==
  ASSUME Books, NEW i, NEW row, NEW j, IssueStep(i, row, j)
  PROVE  Books'
  <1>0. TypeOK /\ JournalsBalance /\ DocsLinked /\ MoneyLinked /\ AllocationsFit
    BY DEF Books
  <1>1. /\ DocAdded(i, row) /\ JournalAdded(j) /\ UNCHANGED <<payment, refunds, allocations>>
        /\ j.customer = row.customer /\ j.lines[j.account] = row.total
    BY DEF IssueStep, PostedFor
  <1>2. StepTyped
    BY <1>0, IssueTyped
  <1>3. JournalsBalance'
    BY <1>0, <1>1, PostBalanced DEF JournalAdded
  <1>4. DocsLinked'
    BY <1>0, <1>1, <1>2, DocLinksAdded
  <1>5. MoneyLinked'
    BY <1>0, <1>1, <1>2, MoneyStaysLinked
  <1>6. AllocationsFit'
    BY <1>0, <1>1, <1>2, AllocationsKept
  <1>. QED  BY <1>2, <1>3, <1>4, <1>5, <1>6 DEF Books, StepTyped

LEMMA NoteBooks ==
  ASSUME Books, NEW i, NEW row, NEW j, NoteStep(i, row, j)
  PROVE  Books'
  <1>0. TypeOK /\ JournalsBalance /\ DocsLinked /\ MoneyLinked /\ AllocationsFit
    BY DEF Books
  <1>1. /\ DocAdded(i, row) /\ JournalAdded(j) /\ UNCHANGED <<payment, refunds>> /\ row.kind = "CREDIT_NOTE"
    BY DEF NoteStep
  <1>2. StepTyped
    BY <1>0, NoteTyped
  <1>. PICK c \in Customers : row.customer = c
    BY <1>1 DEF DocAdded, DocRows
  <1>. PICK d : row.date = d
    OBVIOUS
  <1>3. UNCHANGED allocations \/ \E l : l.from = i /\ AllocationAdded(l, c, d)
    BY DEF NoteStep
  <1>4. JournalsBalance'
    BY <1>0, <1>1, PostBalanced DEF JournalAdded
  <1>5. DocsLinked'
    BY <1>0, <1>1, <1>2, <1>3, DocLinksAdded
  <1>6. MoneyLinked'
    BY <1>0, <1>1, <1>2, MoneyStaysLinked
  <1>7. AllocationsFit'
    <2>1. i \in Docs /\ invoice'[i] = row
      BY <1>0, <1>1, DocTyped DEF DocAdded
    <2>2. i \in Sources(c)' /\ Source(i)'.date = d
      BY <1>0, <1>1, <1>2, <2>1, SourcesKept DEF Sourced
    <2>3. ASSUME NEW l, l.from = i, AllocationAdded(l, c, d)
          PROVE  AllocationsFit'
      <3>1. d <= l.date
        BY <2>3 DEF AllocationAdded
      <3>2. l.from \in Sources(c)' /\ Source(l.from)'.date <= l.date
        BY <2>2, <2>3, <3>1
      <3>. QED  BY <1>0, <1>2, <2>3, <3>2, AllocationsAdded
    <2>4. CASE UNCHANGED allocations
      BY <1>0, <1>2, <2>4, AllocationsKept
    <2>. QED  BY <1>3, <2>3, <2>4
  <1>. QED  BY <1>2, <1>4, <1>5, <1>6, <1>7 DEF Books, StepTyped

LEMMA CancelBooks ==
  ASSUME Books, NEW i, NEW j, CancelStep(i, j)
  PROVE  Books'
  <1>0. TypeOK /\ JournalsBalance /\ DocsLinked /\ MoneyLinked /\ AllocationsFit
    BY DEF Books
  <1>1. JournalAdded(j) /\ UNCHANGED <<payment, refunds, allocations>>
    BY DEF CancelStep
  <1>2. StepTyped
    BY <1>0, CancelTyped
  <1>3. JournalsBalance'
    BY <1>0, <1>1, PostBalanced DEF JournalAdded
  <1>4. DocsLinked'
    BY <1>0, CancelLinked
  <1>5. MoneyLinked'
    BY <1>0, <1>1, <1>2, MoneyStaysLinked
  <1>6. AllocationsFit'
    BY <1>0, <1>1, <1>2, AllocationsKept
  <1>. QED  BY <1>2, <1>3, <1>4, <1>5, <1>6 DEF Books, StepTyped

LEMMA ReceiveBooks ==
  ASSUME Books, NEW p, NEW row, NEW j, ReceiveStep(p, row, j)
  PROVE  Books'
  <1>0. TypeOK /\ JournalsBalance /\ DocsLinked /\ MoneyLinked /\ AllocationsFit
    BY DEF Books
  <1>1. /\ p \in Payments /\ row \in PaymentRows /\ row.journal = NextJournal
        /\ payment' = [payment EXCEPT ![p] = row]
        /\ JournalAdded(j) /\ UNCHANGED <<invoice, refunds>>
    BY DEF ReceiveStep
  <1>2. StepTyped
    BY <1>0, ReceiveTyped
  <1>. PICK c \in Customers : row.customer = c
    BY <1>1 DEF PaymentRows
  <1>. PICK d : row.date = d
    OBVIOUS
  <1>3. UNCHANGED allocations \/ \E l : l.from = p /\ AllocationAdded(l, c, d)
    BY DEF ReceiveStep
  <1>4. JournalsBalance'
    BY <1>0, <1>1, PostBalanced DEF JournalAdded
  <1>5. DocsLinked'
    BY <1>0, <1>1, <1>2, <1>3, DocLinksKept
  <1>6. payment'[p] = row /\ \A q \in Payments : q # p => payment'[q] = payment[q]
    BY <1>0, <1>1 DEF TypeOK
  <1>7. MoneyLinked'
    <2>1. payment'[p].journal = Len(journals')
      BY <1>0, <1>1, <1>6, AddedTyped
    <2>2. \A q \in Payments : payment'[q] = payment[q] \/ payment'[q].journal = Len(journals')
      BY <1>6, <2>1
    <2>3. refunds' = refunds
      BY <1>1
    <2>. QED  BY <1>0, <1>2, <2>2, <2>3, MoneyStaysLinked
  <1>8. AllocationsFit'
    <2>1. p \in Sources(c)' /\ Source(p)'.date = d
      BY <1>0, <1>1, <1>2, <1>6, SourcesKept DEF Sourced
    <2>2. ASSUME NEW l, l.from = p, AllocationAdded(l, c, d)
          PROVE  AllocationsFit'
      <3>1. d <= l.date
        BY <2>2 DEF AllocationAdded
      <3>2. l.from \in Sources(c)' /\ Source(l.from)'.date <= l.date
        BY <2>1, <2>2, <3>1
      <3>. QED  BY <1>0, <1>2, <2>2, <3>2, AllocationsAdded
    <2>3. CASE UNCHANGED allocations
      BY <1>0, <1>2, <2>3, AllocationsKept
    <2>. QED  BY <1>3, <2>2, <2>3
  <1>. QED  BY <1>2, <1>4, <1>5, <1>7, <1>8 DEF Books, StepTyped

LEMMA ApplyBooks ==
  ASSUME Books, NEW c, NEW l, ApplyStep(c, l)
  PROVE  Books'
  <1>0. TypeOK /\ JournalsBalance /\ DocsLinked /\ MoneyLinked /\ AllocationsFit
    BY DEF Books
  <1>1. /\ c \in Customers /\ l.from \in Sources(c)
        /\ UNCHANGED <<accounts, invoice, payment, refunds, journals>>
    BY DEF ApplyStep
  <1>2. StepTyped
    BY <1>0, ApplyTyped
  <1>. PICK d : Source(l.from).date = d
    OBVIOUS
  <1>3. AllocationAdded(l, c, d) /\ d <= l.date
    BY DEF ApplyStep, AllocationAdded
  <1>4. JournalsBalance'
    BY <1>0, <1>1 DEF JournalsBalance
  <1>5. DocsLinked'
    BY <1>0, <1>1, <1>2, <1>3, DocLinksKept
  <1>6. MoneyLinked'
    BY <1>0, <1>1, <1>2, MoneyStaysLinked
  <1>7. AllocationsFit'
    <2>1. l.from \in Sources(c)' /\ Source(l.from)'.date <= l.date
      BY <1>0, <1>1, <1>2, <1>3, SourcesKept
    <2>. QED  BY <1>0, <1>1, <1>2, <1>3, <2>1, AllocationsAdded
  <1>. QED  BY <1>2, <1>4, <1>5, <1>6, <1>7 DEF Books, StepTyped

LEMMA RefundBooks ==
  ASSUME Books, NEW c, NEW f, NEW j, RefundStep(c, f, j)
  PROVE  Books'
  <1>0. TypeOK /\ JournalsBalance /\ DocsLinked /\ MoneyLinked /\ AllocationsFit
    BY DEF Books
  <1>1. /\ c \in Customers /\ f.from \in Sources(c) /\ f.journal = NextJournal /\ refunds' = refunds \cup {f}
        /\ JournalAdded(j) /\ UNCHANGED <<invoice, payment, allocations>>
    BY DEF RefundStep
  <1>2. StepTyped
    BY <1>0, RefundTyped
  <1>3. JournalsBalance'
    BY <1>0, <1>1, PostBalanced DEF JournalAdded
  <1>4. DocsLinked'
    BY <1>0, <1>1, <1>2, DocLinksKept
  <1>5. MoneyLinked'
    <2>1. f.journal = Len(journals')
      BY <1>0, <1>1, AddedTyped
    <2>. QED  BY <1>0, <1>1, <1>2, <2>1, MoneyStaysLinked
  <1>6. AllocationsFit'
    BY <1>0, <1>1, <1>2, AllocationsKept
  <1>. QED  BY <1>2, <1>3, <1>4, <1>5, <1>6 DEF Books, StepTyped

LEMMA HandBooks ==
  ASSUME Books, HandStep
  PROVE  Books'
  <1>0. TypeOK /\ JournalsBalance /\ DocsLinked /\ MoneyLinked /\ AllocationsFit
    BY DEF Books
  <1>1. UNCHANGED <<accounts, invoice, payment, refunds, allocations>>
    BY DEF HandStep, documents
  <1>2. StepTyped
    BY <1>0, HandTyped
  <1>3. JournalsBalance'
    <2>1. ASSUME NEW k \in DOMAIN journals'
          PROVE  /\ SumFunction(journals'[k].lines) = 0
                 /\ \A a \in DOMAIN AccountType : journals'[k].lines[a] # 0 => a \in accounts
      <3>1. CASE k \in DOMAIN journals
        BY <1>0, <3>1 DEF HandStep, JournalsBalance
      <3>2. CASE k \notin DOMAIN journals
        BY <3>2 DEF HandStep
      <3>. QED  BY <3>1, <3>2
    <2>. QED  BY <1>1, <2>1 DEF JournalsBalance
  <1>4. DocsLinked'
    BY <1>0, <1>1, <1>2, DocLinksKept
  <1>5. MoneyLinked'
    BY <1>0, <1>1, <1>2, MoneyStaysLinked
  <1>6. AllocationsFit'
    BY <1>0, <1>1, <1>2, AllocationsKept
  <1>. QED  BY <1>2, <1>3, <1>4, <1>5, <1>6 DEF Books, StepTyped

LEMMA ApproveBooks ==
  ASSUME Books, NEW k, ApproveStep(k)
  PROVE  Books'
  <1>0. TypeOK /\ JournalsBalance /\ DocsLinked /\ MoneyLinked /\ AllocationsFit
    BY DEF Books
  <1>1. /\ StepTyped /\ UNCHANGED <<accounts, invoice, payment, refunds, allocations>>
        /\ DOMAIN journals' = DOMAIN journals /\ JournalsGrow
    BY <1>0, ApproveTyped DEF StepTyped, RowsKept
  <1>4. JournalsBalance'
    BY <1>0, <1>1 DEF JournalsBalance, JournalsGrow
  <1>5. DocsLinked'
    BY <1>0, <1>1, DocLinksKept
  <1>6. MoneyLinked'
    BY <1>0, <1>1, MoneyStaysLinked
  <1>7. AllocationsFit'
    BY <1>0, <1>1, AllocationsKept
  <1>. QED  BY <1>1, <1>4, <1>5, <1>6, <1>7 DEF Books, StepTyped

LEMMA QuietBooks ==
  ASSUME Books, QuietStep
  PROVE  Books'
  <1>0. TypeOK /\ JournalsBalance /\ DocsLinked /\ MoneyLinked /\ AllocationsFit
    BY DEF Books
  <1>1. /\ UNCHANGED <<invoice, payment, refunds, allocations, journals>>
        /\ accounts \subseteq accounts'
    BY DEF QuietStep, documents
  <1>2. StepTyped
    BY <1>0, QuietTyped
  <1>3. JournalsBalance'
    BY <1>0, <1>1 DEF JournalsBalance
  <1>4. DocsLinked'
    BY <1>0, <1>1, <1>2, DocLinksKept
  <1>5. MoneyLinked'
    BY <1>0, <1>1, <1>2, MoneyStaysLinked
  <1>6. AllocationsFit'
    BY <1>0, <1>1, <1>2, AllocationsKept
  <1>. QED  BY <1>2, <1>3, <1>4, <1>5, <1>6 DEF Books, StepTyped

-----------------------------------------------------------------------------
(* Names: new documents link to the new journal, which is theirs from then *)
(* on, and to no other, so what is behind a journal stays what it was.     *)

LinksGrow ==
    /\ \A p \in Payments : \/ payment'[p].journal = payment[p].journal
                           \/ payment[p].journal = 0 /\ payment'[p].journal = NextJournal
    /\ \A f \in refunds' : f \in refunds \/ f.journal = NextJournal
    /\ \A i \in Docs : /\ \/ invoice'[i].journal = invoice[i].journal
                          \/ invoice[i].journal = 0 /\ invoice'[i].journal = NextJournal
                       /\ \/ invoice'[i].reversal = invoice[i].reversal
                          \/ invoice[i].reversal = 0 /\ invoice'[i].reversal = NextJournal

DocumentsJournal == \A m : m = NextJournal => Documented(m)'

LEMMA BehindKept ==
  ASSUME TypeOK, StepTyped, LinksGrow, NEW k \in DOMAIN journals
  PROVE  /\ PaymentOf(k)' = PaymentOf(k) /\ RefundOf(k)' = RefundOf(k) /\ LinksOf(k)' = LinksOf(k)
         /\ Documented(k)' <=> Documented(k)
  <1>0. RowsKept /\ k # 0 /\ k # NextJournal
    BY Indices DEF StepTyped, TypeOK
  <1>1. PaymentOf(k)' = PaymentOf(k)
    BY <1>0 DEF LinksGrow, PaymentOf
  <1>2. RefundOf(k)' = RefundOf(k)
    BY <1>0 DEF LinksGrow, RefundOf, RowsKept
  <1>3. \A i \in Docs : /\ invoice'[i].journal = k <=> invoice[i].journal = k
                        /\ invoice'[i].reversal = k <=> invoice[i].reversal = k
    BY <1>0 DEF LinksGrow
  <1>4. LinksOf(k)' = LinksOf(k)
    BY <1>3 DEF LinksOf
  <1>5. Documented(k)' <=> Documented(k)
    BY <1>1, <1>2, <1>4, Zenon DEF Documented
  <1>. QED  BY <1>1, <1>2, <1>4, <1>5

LEMMA LabelKept ==
  ASSUME TypeOK, StepTyped, LinksGrow, NEW k \in DOMAIN journals
  PROVE  Label(k)' = Label(k)
  <1>0. RowsKept /\ k # 0
    BY Indices DEF StepTyped, TypeOK
  <1>1. PaymentOf(k)' = PaymentOf(k)
    BY BehindKept
  <1>2. RefundOf(k)' = RefundOf(k)
    BY BehindKept
  <1>4. LinksOf(k)' = LinksOf(k)
    BY BehindKept
  <1>5. SourceTypes[journals[k].source]' = SourceTypes[journals[k].source]
    BY <1>0 DEF RowsKept, JournalsGrow, SourceTypes
  <1>6. ASSUME NEW link \in LinksOf(k) PROVE invoice'[link[1]].kind = invoice[link[1]].kind
    <2>. PICK i \in Docs : link[1] = i /\ (invoice[i].journal = k \/ invoice[i].reversal = k)
      BY DEF LinksOf
    <2>1. invoice[i] # NoInvoice
      BY <1>0 DEF NoInvoice
    <2>. QED  BY <1>0, <2>1 DEF RowsKept, DocKept
  <1>. PICK ps : ps = PaymentOf(k)
    OBVIOUS
  <1>. PICK fs : fs = RefundOf(k)
    OBVIOUS
  <1>. PICK ls : ls = LinksOf(k)
    OBVIOUS
  <1>. PICK t : t = SourceTypes[journals[k].source]
    OBVIOUS
  <1>7. CASE ps # {}
    BY <1>1, <1>7 DEF Label
  <1>8. CASE ps = {} /\ fs # {}
    BY <1>1, <1>2, <1>8 DEF Label
  <1>9. CASE ps = {} /\ fs = {} /\ ls = {}
    BY <1>1, <1>2, <1>4, <1>5, <1>9 DEF Label
  <1>10. CASE ps = {} /\ fs = {} /\ ls # {}
    <2>. PICK link : link = CHOOSE l \in ls : TRUE
      OBVIOUS
    <2>1. link \in ls
      BY <1>10
    <2>2. Label(k) = IF link[2] = "CANCEL" THEN "INVOICE_CANCELLED" ELSE invoice[link[1]].kind
      BY <1>10 DEF Label
    <2>3. Label(k)' = IF link[2] = "CANCEL" THEN "INVOICE_CANCELLED" ELSE invoice'[link[1]].kind
      BY <1>1, <1>2, <1>4, <1>10 DEF Label
    <2>4. invoice'[link[1]].kind = invoice[link[1]].kind
      BY <1>6, <2>1
    <2>. QED  BY <2>2, <2>3, <2>4
  <1>. QED  BY <1>7, <1>8, <1>9, <1>10

LEMMA LinksUntouched ==
  ASSUME UNCHANGED <<invoice, payment, refunds>>
  PROVE  LinksGrow
  BY DEF LinksGrow

LEMMA DocAddedLinks ==
  ASSUME TypeOK, NEW i, NEW row, DocAdded(i, row), UNCHANGED <<payment, refunds>>
  PROVE  LinksGrow /\ DocumentsJournal
  <1>1. invoice'[i] = row /\ \A o \in Docs : o # i => invoice'[o] = invoice[o]
    BY DocTyped
  <1>2. /\ invoice[i] = NoInvoice /\ row.journal = NextJournal /\ row.reversal = 0
    BY DEF DocAdded
  <1>3. i \in Docs /\ invoice[i].journal = 0 /\ invoice[i].reversal = 0
    BY <1>2 DEF NoInvoice, DocAdded
  <1>4. \A m : m = NextJournal => <<i, "ISSUE">> \in LinksOf(m)'
    BY <1>1, <1>2, <1>3 DEF LinksOf
  <1>5. DocumentsJournal
    BY <1>4 DEF DocumentsJournal, Documented
  <1>. QED  BY <1>1, <1>2, <1>3, <1>5 DEF LinksGrow

LEMMA CancelLinks ==
  ASSUME TypeOK, DocsLinked, NEW i, NEW j, CancelStep(i, j)
  PROVE  LinksGrow /\ DocumentsJournal
  <1>1. /\ i \in Docs /\ invoice[i].kind = "INVOICE" /\ invoice[i].cancelled = 0
        /\ invoice' = [invoice EXCEPT ![i].cancelled = day, ![i].reversal = NextJournal]
        /\ UNCHANGED <<payment, refunds>>
    BY DEF CancelStep
  <1>2. invoice[i] \in DocRows /\ invoice[i].reversal = 0
    BY <1>1 DEF TypeOK, DocsLinked, DocLinked, NoInvoice
  <1>3. invoice'[i].journal = invoice[i].journal /\ invoice'[i].reversal = NextJournal
    BY <1>1, <1>2 DEF TypeOK, DocRows
  <1>4. \A o \in Docs : o # i => invoice'[o] = invoice[o]
    BY CancelTyped
  <1>5. \A m : m = NextJournal => <<i, "CANCEL">> \in LinksOf(m)'
    BY <1>1, <1>3 DEF LinksOf
  <1>6. DocumentsJournal
    BY <1>5 DEF DocumentsJournal, Documented
  <1>. QED  BY <1>1, <1>2, <1>3, <1>4, <1>6 DEF LinksGrow

LEMMA ReceiveLinks ==
  ASSUME TypeOK, NEW p, NEW row, NEW j, ReceiveStep(p, row, j)
  PROVE  LinksGrow /\ DocumentsJournal
  <1>1. /\ p \in Payments /\ payment[p] = NoPayment /\ row.journal = NextJournal
        /\ payment' = [payment EXCEPT ![p] = row] /\ UNCHANGED <<invoice, refunds>>
    BY DEF ReceiveStep
  <1>2. payment[p].journal = 0 /\ payment'[p] = row /\ \A q \in Payments : q # p => payment'[q] = payment[q]
    BY <1>1 DEF NoPayment, TypeOK
  <1>3. \A m : m = NextJournal => p \in PaymentOf(m)'
    BY <1>1, <1>2 DEF PaymentOf
  <1>4. DocumentsJournal
    BY <1>3 DEF DocumentsJournal, Documented
  <1>. QED  BY <1>1, <1>2, <1>4 DEF LinksGrow

LEMMA RefundLinks ==
  ASSUME NEW c, NEW f, NEW j, RefundStep(c, f, j)
  PROVE  LinksGrow /\ DocumentsJournal
  <1>1. /\ refunds' = refunds \cup {f} /\ f.journal = NextJournal
        /\ UNCHANGED <<invoice, payment>>
    BY DEF RefundStep
  <1>2. \A m : m = NextJournal => f \in RefundOf(m)'
    BY <1>1 DEF RefundOf
  <1>3. DocumentsJournal
    BY <1>2 DEF DocumentsJournal, Documented
  <1>. QED  BY <1>1, <1>3 DEF LinksGrow

(* No journal to come has a document already, so as long as no document is *)
(* added the same journals have one.                                       *)
LEMMA DocumentedSame ==
  ASSUME TypeOK, DocsLinked, MoneyLinked, StepTyped, UNCHANGED <<invoice, payment, refunds>>
  PROVE  DocumentedJournals' = DocumentedJournals
  <1>1. \A k : Documented(k)' <=> Documented(k)
    BY DEF Documented, PaymentOf, RefundOf, LinksOf
  <1>2. /\ DOMAIN journals = 1 .. Len(journals) /\ Len(journals) \in Nat
        /\ DOMAIN journals' \subseteq Nat \ {0} /\ DOMAIN journals \subseteq DOMAIN journals'
    BY Indices DEF StepTyped, RowsKept, JournalsGrow, TypeOK
  <1>3. /\ \A p \in Payments : payment[p].journal <= Len(journals)
        /\ \A f \in refunds : f.journal <= Len(journals)
        /\ \A i \in Docs : invoice[i].journal <= Len(journals) /\ invoice[i].reversal <= Len(journals)
    BY DEF MoneyLinked, DocsLinked, DocLinked
  <1>4. ASSUME NEW k \in Nat, k > Len(journals) PROVE ~Documented(k)
    <2>1. PaymentOf(k) = {} /\ RefundOf(k) = {}
      BY <1>2, <1>3, <1>4 DEF PaymentOf, RefundOf
    <2>2. \A i \in Docs : invoice[i].journal # k /\ invoice[i].reversal # k
      BY <1>2, <1>3, <1>4
    <2>3. LinksOf(k) = {}
      BY <2>2 DEF LinksOf
    <2>. QED  BY <2>1, <2>3 DEF Documented
  <1>5. \A k \in DOMAIN journals' : Documented(k) => k \in DOMAIN journals
    BY <1>2, <1>4
  <1>. QED  BY <1>1, <1>2, <1>5 DEF DocumentedJournals

LEMMA DocumentsStayPosted ==
  ASSUME DocumentsPosted, DocumentedJournals' = DocumentedJournals,
         \A k \in DocumentedJournals : journals'[k].posted = journals[k].posted
  PROVE  DocumentsPosted'
  BY DEF DocumentsPosted

(* A posting of a document adds its journal to those. *)
LEMMA DocumentedMore ==
  ASSUME TypeOK, StepTyped, LinksGrow, DocumentsJournal, NEW j, JournalAdded(j)
  PROVE  /\ DocumentedJournals' = DocumentedJournals \cup {NextJournal}
         /\ j.posted /\ DocumentsPosted => DocumentsPosted'
  <1>. PICK m : m = NextJournal
    OBVIOUS
  <1>1. /\ DOMAIN journals' = DOMAIN journals \cup {m} /\ journals'[m] = j
        /\ \A k \in DOMAIN journals : journals'[k] = journals[k]
    BY AddedTyped
  <1>2. Documented(m)' /\ \A k \in DOMAIN journals : Documented(k)' <=> Documented(k)
    BY BehindKept DEF DocumentsJournal
  <1>3. DocumentedJournals' = DocumentedJournals \cup {m}
    BY <1>1, <1>2 DEF DocumentedJournals
  <1>4. j.posted /\ DocumentsPosted => DocumentsPosted'
    <2>1. DocumentedJournals \subseteq DOMAIN journals
      BY DEF DocumentedJournals
    <2>. QED  BY <1>1, <1>3, <2>1 DEF DocumentsPosted
  <1>. QED  BY <1>3, <1>4

-----------------------------------------------------------------------------
(* The customer's ledger is what the documents make of it: each posting    *)
(* moves both sides by the same amount.                                    *)

LEMMA SummandsInt ==
  ASSUME TypeOK, NEW c \in Customers, NEW d \in Int
  PROVE  /\ IsFiniteSet(DocumentedJournals) /\ Entered(c, d) \in [DocumentedJournals -> Int]
         /\ IsFiniteSet(Docs) /\ Invoiced(c, d) \in [Docs -> Int] /\ Withdrawn(c, d) \in [Docs -> Int]
         /\ IsFiniteSet(Holders) /\ Credited(c, d) \in [Holders -> Int]
         /\ IsFiniteSet(refunds) /\ Returned(c, d) \in [refunds -> Int]
  <1>1. IsFiniteSet(Docs) /\ IsFiniteSet(Holders) /\ IsFiniteSet(refunds)
    BY TablesAssumption, FS_Union DEF Holders, TypeOK
  <1>2. IsFiniteSet(DocumentedJournals) /\ Entered(c, d) \in [DocumentedJournals -> Int]
    <2>1. /\ DocumentedJournals \subseteq DOMAIN journals /\ IsFiniteSet(DOMAIN journals)
          /\ \A k \in DOMAIN journals : CustomerAmount(k) \in Int
      BY Indices DEF TypeOK, DocumentedJournals
    <2>2. IsFiniteSet(DocumentedJournals)
      BY <2>1, FS_Subset
    <2>. QED  BY <2>1, <2>2 DEF Entered
  <1>3. \A i \in Docs : invoice[i].total \in Int
    BY DEF TypeOK, DocRows, NoInvoice
  <1>4. Invoiced(c, d) \in [Docs -> Int] /\ Withdrawn(c, d) \in [Docs -> Int]
    BY <1>3 DEF Invoiced, Withdrawn
  <1>5. Credited(c, d) \in [Holders -> Int]
    BY SourcesAre DEF Sourced, Credited
  <1>6. \A f \in refunds : f.amount \in Int
    BY DEF TypeOK, RefundRows
  <1>7. Returned(c, d) \in [refunds -> Int]
    BY <1>6 DEF Returned
  <1>. QED  BY <1>1, <1>2, <1>4, <1>5, <1>7

(* By how much each of them moves. *)
Moves(c, d, entered, invoiced, withdrawn, credited, returned) ==
    /\ SumFunction(Entered(c, d))' = SumFunction(Entered(c, d)) + entered
    /\ SumFunction(Invoiced(c, d))' = SumFunction(Invoiced(c, d)) + invoiced
    /\ SumFunction(Withdrawn(c, d))' = SumFunction(Withdrawn(c, d)) + withdrawn
    /\ SumFunction(Credited(c, d))' = SumFunction(Credited(c, d)) + credited
    /\ SumFunction(Returned(c, d))' = SumFunction(Returned(c, d)) + returned
    /\ entered \in Int /\ invoiced \in Int /\ withdrawn \in Int /\ credited \in Int /\ returned \in Int
    /\ entered = invoiced - withdrawn - credited + returned

LEMMA MovesTogether ==
  ASSUME TypeOK, NEW c \in Customers, NEW d \in Int, BookedAt(c, d),
         NEW e, NEW i, NEW w, NEW x, NEW r, Moves(c, d, e, i, w, x, r)
  PROVE  BookedAt(c, d)'
  <1>1. /\ SumFunction(Entered(c, d)) \in Int /\ SumFunction(Invoiced(c, d)) \in Int
        /\ SumFunction(Withdrawn(c, d)) \in Int
        /\ SumFunction(Credited(c, d)) \in Int /\ SumFunction(Returned(c, d)) \in Int
    BY SummandsInt, SumOfInts
  <1>2. (SumFunction(Entered(c, d)) = SumFunction(Invoiced(c, d)) - SumFunction(Withdrawn(c, d))
                                   - SumFunction(Credited(c, d)) + SumFunction(Returned(c, d)))'
    BY <1>1 DEF Moves, BookedAt
  <1>. QED  BY <1>2 DEF BookedAt

LEMMA EnteredAdded ==
  ASSUME TypeOK, StepTyped, LinksGrow, DocumentsJournal, NEW j, JournalAdded(j), NEW c \in Customers, NEW d \in Int
  PROVE  LET v == IF j.customer = c /\ j.posted /\ j.date <= d THEN j.lines[j.account] ELSE 0
         IN  v \in Int /\ SumFunction(Entered(c, d))' = SumFunction(Entered(c, d)) + v
  <1>. PICK m : m = NextJournal
    OBVIOUS
  <1>. DEFINE v == IF j.customer = c /\ j.posted /\ j.date <= d THEN j.lines[j.account] ELSE 0
              f == Entered(c, d)
              g == Entered(c, d)'
              D == DocumentedJournals
  <1>1. /\ DOMAIN journals' = DOMAIN journals \cup {m} /\ m \notin DOMAIN journals
        /\ journals'[m] = j /\ \A k \in DOMAIN journals : journals'[k] = journals[k]
        /\ D \subseteq DOMAIN journals /\ D' = D \cup {m} /\ m \notin D
    BY AddedTyped, Indices, DocumentedMore DEF TypeOK, DocumentedJournals
  <1>2. None \notin Int
    BY TablesAssumption
  <1>3. v \in Int
    <2>1. j.lines \in [DOMAIN AccountType -> Int] /\ j.account \in DOMAIN AccountType
      BY DEF JournalAdded, JournalRows
    <2>. QED  BY <2>1
  <1>4. /\ DOMAIN g = D \cup {m}
        /\ \A k \in D : g[k] = f[k]
        /\ g[m] = v
    BY <1>1, <1>2 DEF Entered, Tagged, Counted, CustomerAmount
  <1>5. f \in [D -> Int] /\ IsFiniteSet(D)
    BY SummandsInt
  <1>6. g \in [D \cup {m} -> Int]
    <2>1. \A k \in D \cup {m} : g[k] \in Int
      BY <1>3, <1>4, <1>5
    <2>2. g = [k \in DOMAIN g |-> g[k]]
      BY DEF Entered
    <2>. QED  BY <1>4, <2>1, <2>2
  <1>7. MoreAt(g, f, m, D)
    BY <1>1, <1>4, <1>5, <1>6 DEF MoreAt
  <1>8. SumFunction(g) = SumFunction(f) + g[m]
    BY <1>7, SumMore
  <1>. QED  BY <1>3, <1>4, <1>8

LEMMA EnteredSame ==
  ASSUME TypeOK, StepTyped, DocumentedJournals' = DocumentedJournals,
         \A k \in DocumentedJournals : journals'[k].posted = journals[k].posted,
         NEW c \in Customers, NEW d \in Int
  PROVE  Entered(c, d)' = Entered(c, d)
  <1>1. \A k \in DocumentedJournals :
           /\ k \in DOMAIN journals /\ k \in DOMAIN journals'
           /\ journals'[k].customer = journals[k].customer /\ journals'[k].date = journals[k].date
           /\ journals'[k].lines = journals[k].lines /\ journals'[k].account = journals[k].account
    BY DEF StepTyped, RowsKept, JournalsGrow, DocumentedJournals
  <1>2. \A k \in DocumentedJournals :
           /\ k \in Tagged(c, Counted(None, d))' <=> k \in Tagged(c, Counted(None, d))
           /\ CustomerAmount(k)' = CustomerAmount(k)
    BY <1>1 DEF Tagged, Counted, CustomerAmount
  <1>. QED  BY <1>2 DEF Entered

LEMMA ReturnedSame ==
  ASSUME TypeOK, StepTyped, MoneyLinked, UNCHANGED refunds, NEW c \in Customers, NEW d \in Int
  PROVE  Returned(c, d)' = Returned(c, d)
  <1>1. TypeOK' /\ Sourced /\ Sourced'
    BY SourcesKept DEF StepTyped
  <1>2. ASSUME NEW f \in refunds PROVE f.from \in Sources(c)' <=> f.from \in Sources(c)
    <2>. PICK b \in Customers : f.from \in Sources(b)
      BY DEF MoneyLinked
    <2>1. f.from \in Sources(b)'
      BY SourcesKept
    <2>2. f.from \in Sources(c) <=> b = c
      BY DEF Sources
    <2>3. f.from \in Sources(c)' <=> b = c
      BY <2>1 DEF Sources
    <2>. QED  BY <2>2, <2>3
  <1>. QED  BY <1>2 DEF Returned

LEMMA InvoicedSame ==
  ASSUME \A i \in Docs : DocKept(i) \/ (invoice[i].kind # "INVOICE" /\ invoice'[i].kind # "INVOICE"),
         NEW c \in Customers, NEW d \in Int
  PROVE  Invoiced(c, d)' = Invoiced(c, d)
  <1>1. \A i \in Docs : i \in IssuedBy(c, d)' <=> i \in IssuedBy(c, d)
    BY DEF DocKept, IssuedBy, IssuedDocs
  <1>2. \A i \in Docs : i \in IssuedBy(c, d) => invoice'[i].total = invoice[i].total
    BY DEF DocKept, IssuedBy, IssuedDocs
  <1>. QED  BY <1>1, <1>2 DEF Invoiced

LEMMA ReversedSame ==
  ASSUME TypeOK, DocsLinked, StepTyped, NEW i \in Docs, invoice'[i] = invoice[i], NEW d \in Int
  PROVE  Reversed(i, d)' <=> Reversed(i, d)
  <1>1. JournalsGrow
    BY DEF StepTyped, RowsKept
  <1>2. invoice[i].reversal \in Nat
    BY DEF TypeOK, NoInvoice, DocRows
  <1>3. invoice[i].reversal # 0 => invoice[i].reversal \in DOMAIN journals
    BY <1>2, Indices DEF DocsLinked, DocLinked, TypeOK
  <1>. QED  BY <1>1, <1>3 DEF Reversed, JournalsGrow

LEMMA WithdrawnSame ==
  ASSUME TypeOK, DocsLinked, StepTyped,
         \A i \in Docs : invoice'[i] = invoice[i] \/ (invoice[i].reversal = 0 /\ invoice'[i].reversal = 0),
         NEW c \in Customers, NEW d \in Int
  PROVE  Withdrawn(c, d)' = Withdrawn(c, d)
  <1>1. \A i \in Docs : (Reversed(i, d)' <=> Reversed(i, d)) /\ (Reversed(i, d) => invoice'[i] = invoice[i])
    BY ReversedSame DEF Reversed
  <1>. QED  BY <1>1 DEF Withdrawn

LEMMA CreditedSame ==
  ASSUME TypeOK, StepTyped, UNCHANGED payment,
         \A i \in Docs : DocKept(i) \/ (invoice[i].kind # "CREDIT_NOTE" /\ invoice'[i].kind # "CREDIT_NOTE"),
         NEW c \in Customers, NEW d \in Int
  PROVE  Credited(c, d)' = Credited(c, d)
  <1>1. Sourced /\ Sourced'
    BY SourcesKept
  <1>2. ASSUME NEW x \in Holders
        PROVE  /\ x \in Sources(c)' <=> x \in Sources(c)
               /\ x \in Sources(c) => Source(x)'.date = Source(x).date /\ Source(x)'.amount = Source(x).amount
    <2>1. x \in Sources(c) => Source(x)'.date = Source(x).date /\ Source(x)'.amount = Source(x).amount
      BY SourcesKept
    <2>2. x \in Sources(c)' <=> x \in Sources(c)
      <3>1. CASE x \in Payments
        BY <1>1, <3>1 DEF Sourced
      <3>2. CASE x \in Docs
        BY <1>1, <3>2 DEF Sourced, DocKept
      <3>. QED  BY <3>1, <3>2 DEF Holders
    <2>. QED  BY <2>1, <2>2
  <1>. QED  BY <1>2 DEF Credited

LEMMA NothingMoves ==
  ASSUME TypeOK, NEW c \in Customers, NEW d \in Int, BookedAt(c, d),
         Entered(c, d)' = Entered(c, d), Invoiced(c, d)' = Invoiced(c, d), Withdrawn(c, d)' = Withdrawn(c, d),
         Credited(c, d)' = Credited(c, d), Returned(c, d)' = Returned(c, d)
  PROVE  BookedAt(c, d)'
  <1>1. /\ SumFunction(Entered(c, d))' = SumFunction(Entered(c, d))
        /\ SumFunction(Invoiced(c, d))' = SumFunction(Invoiced(c, d))
        /\ SumFunction(Withdrawn(c, d))' = SumFunction(Withdrawn(c, d))
        /\ SumFunction(Credited(c, d))' = SumFunction(Credited(c, d))
        /\ SumFunction(Returned(c, d))' = SumFunction(Returned(c, d))
    OBVIOUS
  <1>. QED  BY <1>1, Zenon DEF BookedAt

LEMMA InvoicedMore ==
  ASSUME TypeOK, NEW i, NEW row, DocAdded(i, row), row.kind = "INVOICE", NEW c \in Customers, NEW d \in Int
  PROVE  SumFunction(Invoiced(c, d))' =
            SumFunction(Invoiced(c, d)) + (IF row.customer = c /\ row.date <= d THEN row.total ELSE 0)
  <1>. DEFINE f == Invoiced(c, d)
              g == Invoiced(c, d)'
  <1>1. /\ i \in Docs /\ invoice[i].kind = "NONE" /\ invoice'[i] = row
        /\ \A o \in Docs : o # i => invoice'[o] = invoice[o]
    <2>1. invoice'[i] = row /\ \A o \in Docs : o # i => invoice'[o] = invoice[o]
      BY DocTyped
    <2>2. i \in Docs /\ invoice[i] = NoInvoice
      BY DEF DocAdded
    <2>. QED  BY <2>1, <2>2 DEF NoInvoice
  <1>2. /\ f[i] = 0 /\ g[i] = (IF row.customer = c /\ row.date <= d THEN row.total ELSE 0)
        /\ \A o \in Docs : o # i => g[o] = f[o]
    BY <1>1 DEF Invoiced, IssuedBy, IssuedDocs
  <1>3. row.total \in Int
    BY DEF DocAdded, DocRows
  <1>4. f \in [Docs -> Int] /\ IsFiniteSet(Docs)
    BY SummandsInt
  <1>5. g \in [Docs -> Int]
    <2>1. \A o \in Docs : g[o] \in Int
      BY <1>2, <1>3, <1>4
    <2>. QED  BY <2>1 DEF Invoiced
  <1>6. DiffersAt(g, f, i, Docs)
    BY <1>1, <1>2, <1>4, <1>5 DEF DiffersAt
  <1>7. SumFunction(f) \in Int /\ SumFunction(g) = SumFunction(f) + g[i] - f[i]
    BY <1>6, SumChangeAt
  <1>. HIDE DEF f, g
  <1>8. SumFunction(g) = SumFunction(f) + g[i]
    BY <1>1, <1>2, <1>5, <1>7
  <1>. QED  BY <1>2, <1>8 DEF f, g

LEMMA WithdrawnMore ==
  ASSUME TypeOK, DocsLinked, NEW i, NEW j, CancelStep(i, j), NEW c \in Customers, NEW d \in Int
  PROVE  SumFunction(Withdrawn(c, d))' =
            SumFunction(Withdrawn(c, d)) + (IF invoice[i].customer = c /\ j.date <= d THEN invoice[i].total ELSE 0)
  <1>. DEFINE f == Withdrawn(c, d)
              g == Withdrawn(c, d)'
  <1>1. /\ i \in Docs /\ invoice[i].kind = "INVOICE" /\ invoice[i].cancelled = 0
        /\ invoice' = [invoice EXCEPT ![i].cancelled = day, ![i].reversal = NextJournal]
        /\ JournalAdded(j)
    BY DEF CancelStep
  <1>2. StepTyped /\ \A o \in Docs : o # i => invoice'[o] = invoice[o]
    BY CancelTyped
  <1>3. invoice[i] \in DocRows /\ invoice[i].reversal = 0
    BY <1>1 DEF TypeOK, DocsLinked, DocLinked, NoInvoice
  <1>4. /\ invoice'[i].customer = invoice[i].customer /\ invoice'[i].total = invoice[i].total
        /\ invoice'[i].reversal = NextJournal
    BY <1>1, <1>3 DEF TypeOK, DocRows
  <1>5. journals'[NextJournal] = j /\ NextJournal # 0
    BY <1>1, AddedTyped, Indices DEF TypeOK
  <1>6. Reversed(i, d)' <=> j.date <= d
    BY <1>4, <1>5 DEF Reversed
  <1>7. ASSUME NEW o \in Docs, o # i PROVE Reversed(o, d)' <=> Reversed(o, d)
    <2>1. invoice'[o] = invoice[o]
      BY <1>2, <1>7
    <2>. QED  BY <1>2, <2>1, ReversedSame
  <1>8. ~Reversed(i, d)
    BY <1>3 DEF Reversed
  <1>9. /\ f[i] = 0 /\ g[i] = (IF invoice[i].customer = c /\ j.date <= d THEN invoice[i].total ELSE 0)
        /\ \A o \in Docs : o # i => g[o] = f[o]
    <2>1. /\ \A o \in Docs : f[o] = IF invoice[o].customer = c /\ Reversed(o, d) THEN invoice[o].total ELSE 0
          /\ \A o \in Docs : g[o] = IF invoice'[o].customer = c /\ Reversed(o, d)' THEN invoice'[o].total ELSE 0
      BY DEF Withdrawn
    <2>. HIDE DEF f, g
    <2>2. f[i] = 0 /\ g[i] = (IF invoice[i].customer = c /\ j.date <= d THEN invoice[i].total ELSE 0)
      BY <1>1, <1>4, <1>6, <1>8, <2>1
    <2>3. \A o \in Docs : o # i => g[o] = f[o]
      BY <1>2, <1>7, <2>1
    <2>. QED  BY <2>2, <2>3
  <1>10. invoice[i].total \in Int
    BY <1>3 DEF DocRows
  <1>11. f \in [Docs -> Int] /\ IsFiniteSet(Docs)
    BY SummandsInt
  <1>12. g \in [Docs -> Int]
    <2>1. \A o \in Docs : g[o] \in Int
      BY <1>9, <1>10, <1>11
    <2>. QED  BY <2>1 DEF Withdrawn
  <1>13. DiffersAt(g, f, i, Docs)
    BY <1>1, <1>9, <1>11, <1>12 DEF DiffersAt
  <1>14. SumFunction(f) \in Int /\ SumFunction(g) = SumFunction(f) + g[i] - f[i]
    BY <1>13, SumChangeAt
  <1>. HIDE DEF f, g
  <1>15. SumFunction(g) = SumFunction(f) + g[i]
    BY <1>1, <1>9, <1>12, <1>14
  <1>. QED  BY <1>9, <1>15 DEF f, g

(* New credit: x is a holder nobody had before. *)
LEMMA CreditedMore ==
  ASSUME TypeOK, StepTyped, NEW x \in Holders, \A b \in Customers : x \notin Sources(b),
         \A y \in Holders, b \in Customers : y # x => (y \in Sources(b)' <=> y \in Sources(b)),
         NEW b \in Customers, x \in Sources(b)', NEW c \in Customers, NEW d \in Int
  PROVE  SumFunction(Credited(c, d))' =
            SumFunction(Credited(c, d)) + (IF b = c /\ Source(x)'.date <= d THEN Source(x)'.amount ELSE 0)
  <1>. DEFINE f == Credited(c, d)
              g == Credited(c, d)'
  <1>0. TypeOK' /\ Sourced /\ Sourced'
    BY SourcesKept DEF StepTyped
  <1>1. x \in Sources(c)' <=> b = c
    BY DEF Sources
  <1>2. /\ f[x] = 0 /\ g[x] = (IF b = c /\ Source(x)'.date <= d THEN Source(x)'.amount ELSE 0)
    BY <1>1 DEF Credited
  <1>3. \A y \in Holders : y # x => g[y] = f[y]
    BY SourcesKept DEF Credited
  <1>4. f \in [Holders -> Int] /\ IsFiniteSet(Holders)
    BY SummandsInt
  <1>5. Source(x)'.amount \in Int
    BY <1>0 DEF Sourced
  <1>6. g \in [Holders -> Int]
    <2>1. \A y \in Holders : g[y] \in Int
      BY <1>2, <1>3, <1>4, <1>5
    <2>. QED  BY <2>1 DEF Credited
  <1>7. DiffersAt(g, f, x, Holders)
    BY <1>3, <1>4, <1>6 DEF DiffersAt
  <1>8. SumFunction(f) \in Int /\ SumFunction(g) = SumFunction(f) + g[x] - f[x]
    BY <1>7, SumChangeAt
  <1>. HIDE DEF f, g
  <1>9. SumFunction(g) = SumFunction(f) + g[x]
    BY <1>2, <1>6, <1>8
  <1>. QED  BY <1>2, <1>9 DEF f, g

LEMMA ReturnedMore ==
  ASSUME TypeOK, MoneyLinked, NEW b, NEW f, NEW j, RefundStep(b, f, j), NEW c \in Customers, NEW d \in Int
  PROVE  SumFunction(Returned(c, d))' =
            SumFunction(Returned(c, d)) + (IF b = c /\ f.date <= d THEN f.amount ELSE 0)
  <1>. DEFINE h == Returned(c, d)
              g == Returned(c, d)'
  <1>1. /\ b \in Customers /\ f \in RefundRows /\ f.from \in Sources(b) /\ f.journal = NextJournal
        /\ refunds' = refunds \cup {f} /\ UNCHANGED <<invoice, payment>>
    BY DEF RefundStep
  <1>2. f \notin refunds
    BY <1>1, Indices DEF MoneyLinked, TypeOK, NextJournal
  <1>3. \A x : x \in Sources(c)' <=> x \in Sources(c)
    BY <1>1 DEF Sources, Source, IssuedDocs
  <1>4. f.from \in Sources(c) <=> b = c
    BY <1>1 DEF Sources
  <1>5. /\ g[f] = (IF b = c /\ f.date <= d THEN f.amount ELSE 0)
        /\ \A e \in refunds : g[e] = h[e]
    BY <1>1, <1>3, <1>4 DEF Returned
  <1>6. h \in [refunds -> Int] /\ IsFiniteSet(refunds)
    BY SummandsInt
  <1>7. f.amount \in Int
    BY <1>1 DEF RefundRows
  <1>8. g \in [refunds \cup {f} -> Int]
    <2>1. \A e \in refunds \cup {f} : g[e] \in Int
      BY <1>5, <1>6, <1>7
    <2>. QED  BY <1>1, <2>1 DEF Returned
  <1>9. MoreAt(g, h, f, refunds)
    BY <1>2, <1>5, <1>6, <1>8 DEF MoreAt
  <1>10. SumFunction(g) = SumFunction(h) + g[f]
    BY <1>9, SumMore
  <1>. QED  BY <1>5, <1>10

LEMMA SumsInt ==
  ASSUME TypeOK, NEW c \in Customers, NEW d \in Int
  PROVE  /\ SumFunction(Entered(c, d)) \in Int /\ SumFunction(Invoiced(c, d)) \in Int
         /\ SumFunction(Withdrawn(c, d)) \in Int
         /\ SumFunction(Credited(c, d)) \in Int /\ SumFunction(Returned(c, d)) \in Int
  BY SummandsInt, SumOfInts

LEMMA IssueBooked ==
  ASSUME Books, Booked, NEW i, NEW row, NEW j, IssueStep(i, row, j)
  PROVE  Booked'
  <1>0. TypeOK /\ DocsLinked /\ MoneyLinked
    BY DEF Books
  <1>1. /\ DocAdded(i, row) /\ row.kind = "INVOICE" /\ row \in DocRows /\ JournalAdded(j)
        /\ j.customer = row.customer /\ j.date = row.date /\ j.posted
        /\ j.lines[j.account] = row.total
        /\ UNCHANGED <<payment, refunds, allocations>>
    BY DEF IssueStep, DocAdded, PostedFor
  <1>2. StepTyped /\ LinksGrow /\ DocumentsJournal
    BY <1>0, <1>1, IssueTyped, DocAddedLinks
  <1>3. /\ i \in Docs /\ invoice[i] = NoInvoice /\ invoice'[i] = row /\ row.reversal = 0
        /\ \A o \in Docs : o # i => invoice'[o] = invoice[o]
    BY <1>0, <1>1, DocTyped DEF DocAdded
  <1>4. invoice[i].kind = "NONE" /\ invoice[i].reversal = 0
    BY <1>3 DEF NoInvoice
  <1>5. \A o \in Docs : o # i => DocKept(o)
    BY <1>3 DEF DocKept
  <1>. SUFFICES ASSUME NEW c \in Customers, NEW d \in Int
                PROVE  BookedAt(c, d)'
    BY DEF Booked
  <1>. DEFINE v == IF row.customer = c /\ row.date <= d THEN row.total ELSE 0
  <1>6. v \in Int
    BY <1>1 DEF DocRows
  <1>7. SumFunction(Entered(c, d))' = SumFunction(Entered(c, d)) + v
    BY <1>0, <1>1, <1>2, EnteredAdded
  <1>8. SumFunction(Invoiced(c, d))' = SumFunction(Invoiced(c, d)) + v
    BY <1>0, <1>1, InvoicedMore
  <1>. HIDE DEF v
  <1>9. Withdrawn(c, d)' = Withdrawn(c, d)
    BY <1>0, <1>2, <1>3, <1>4, WithdrawnSame
  <1>10. Credited(c, d)' = Credited(c, d)
    BY <1>0, <1>1, <1>2, <1>3, <1>4, <1>5, CreditedSame
  <1>11. Returned(c, d)' = Returned(c, d)
    BY <1>0, <1>1, <1>2, ReturnedSame
  <1>12. Moves(c, d, v, v, 0, 0, 0)
    BY <1>0, <1>6, <1>7, <1>8, <1>9, <1>10, <1>11, SumsInt DEF Moves
  <1>. QED  BY <1>0, <1>12, MovesTogether DEF Booked

LEMMA NoteBooked ==
  ASSUME Books, Booked, NEW i, NEW row, NEW j, NoteStep(i, row, j)
  PROVE  Booked'
  <1>0. TypeOK /\ DocsLinked /\ MoneyLinked
    BY DEF Books
  <1>1. /\ DocAdded(i, row) /\ row.kind = "CREDIT_NOTE" /\ row \in DocRows /\ JournalAdded(j)
        /\ j.customer = row.customer /\ j.date = row.date /\ j.posted
        /\ j.lines[j.account] = 0 - row.total
        /\ UNCHANGED <<payment, refunds>>
    BY DEF NoteStep, DocAdded, PostedFor
  <1>2. StepTyped /\ LinksGrow /\ DocumentsJournal
    BY <1>0, <1>1, NoteTyped, DocAddedLinks
  <1>3. /\ i \in Docs /\ invoice[i] = NoInvoice /\ invoice'[i] = row /\ row.reversal = 0
        /\ \A o \in Docs : o # i => invoice'[o] = invoice[o]
    BY <1>0, <1>1, DocTyped DEF DocAdded
  <1>4. invoice[i].kind = "NONE" /\ invoice[i].reversal = 0
    BY <1>3 DEF NoInvoice
  <1>5. \A o \in Docs : o # i => DocKept(o)
    BY <1>3 DEF DocKept
  <1>. PICK b \in Customers : row.customer = b
    BY <1>1 DEF DocRows
  <1>6. Sourced /\ Sourced'
    BY <1>0, <1>2, SourcesKept
  <1>7. /\ i \in Holders /\ \A e \in Customers : i \notin Sources(e)
        /\ i \in Sources(b)' /\ Source(i)'.date = row.date /\ Source(i)'.amount = row.total
    BY <1>1, <1>3, <1>4, <1>6 DEF Sourced, Holders
  <1>8. \A y \in Holders, e \in Customers : y # i => (y \in Sources(e)' <=> y \in Sources(e))
    BY <1>1, <1>3, <1>6 DEF Sourced, Holders
  <1>. SUFFICES ASSUME NEW c \in Customers, NEW d \in Int
                PROVE  BookedAt(c, d)'
    BY DEF Booked
  <1>. DEFINE v == IF b = c /\ row.date <= d THEN row.total ELSE 0
  <1>9. v \in Int
    BY <1>1 DEF DocRows
  <1>10. SumFunction(Entered(c, d))' = SumFunction(Entered(c, d)) + (0 - v)
    BY <1>0, <1>1, <1>2, EnteredAdded
  <1>11. SumFunction(Credited(c, d))' = SumFunction(Credited(c, d)) + v
    <2>1. SumFunction(Credited(c, d))'
            = SumFunction(Credited(c, d)) + (IF b = c /\ Source(i)'.date <= d THEN Source(i)'.amount ELSE 0)
      BY <1>0, <1>2, <1>7, <1>8, CreditedMore
    <2>. QED  BY <1>7, <2>1
  <1>. HIDE DEF v
  <1>12. Withdrawn(c, d)' = Withdrawn(c, d)
    BY <1>0, <1>2, <1>3, <1>4, WithdrawnSame
  <1>13. Invoiced(c, d)' = Invoiced(c, d)
    BY <1>1, <1>3, <1>4, <1>5, InvoicedSame
  <1>14. Returned(c, d)' = Returned(c, d)
    BY <1>0, <1>1, <1>2, ReturnedSame
  <1>15. Moves(c, d, 0 - v, 0, 0, v, 0)
    <2>1. /\ SumFunction(Invoiced(c, d)) \in Int /\ SumFunction(Withdrawn(c, d)) \in Int
          /\ SumFunction(Returned(c, d)) \in Int
      BY <1>0, SumsInt
    <2>2. /\ SumFunction(Invoiced(c, d))' = SumFunction(Invoiced(c, d)) + 0
          /\ SumFunction(Withdrawn(c, d))' = SumFunction(Withdrawn(c, d)) + 0
          /\ SumFunction(Returned(c, d))' = SumFunction(Returned(c, d)) + 0
      BY <1>12, <1>13, <1>14, <2>1
    <2>3. 0 - v \in Int /\ 0 \in Int /\ 0 - v = 0 - 0 - v + 0
      BY <1>9
    <2>. QED  BY <1>9, <1>10, <1>11, <2>2, <2>3, Zenon DEF Moves
  <1>. QED  BY <1>0, <1>15, MovesTogether DEF Booked

LEMMA CancelBooked ==
  ASSUME Books, Booked, NEW i, NEW j, CancelStep(i, j)
  PROVE  Booked'
  <1>0. TypeOK /\ DocsLinked /\ MoneyLinked
    BY DEF Books
  <1>1. /\ i \in Docs /\ invoice[i].kind = "INVOICE" /\ JournalAdded(j)
        /\ j.customer = invoice[i].customer /\ j.posted
        /\ j.lines[j.account] = 0 - invoice[i].total
        /\ UNCHANGED <<payment, refunds, allocations>>
    BY DEF CancelStep, PostedFor
  <1>2. StepTyped /\ LinksGrow /\ DocumentsJournal /\ \A o \in Docs : o # i => invoice'[o] = invoice[o]
    BY <1>0, CancelTyped, CancelLinks
  <1>3. \A o \in Docs : o # i => DocKept(o)
    BY <1>2 DEF DocKept
  <1>4. DocKept(i)
    BY <1>1, <1>2 DEF StepTyped, RowsKept, NoInvoice
  <1>. SUFFICES ASSUME NEW c \in Customers, NEW d \in Int
                PROVE  BookedAt(c, d)'
    BY DEF Booked
  <1>. DEFINE v == IF invoice[i].customer = c /\ j.date <= d THEN invoice[i].total ELSE 0
  <1>5. v \in Int
    BY <1>0, <1>1 DEF TypeOK, DocRows, NoInvoice
  <1>6. SumFunction(Entered(c, d))' = SumFunction(Entered(c, d)) + (0 - v)
    BY <1>0, <1>1, <1>2, EnteredAdded
  <1>7. SumFunction(Withdrawn(c, d))' = SumFunction(Withdrawn(c, d)) + v
    BY <1>0, WithdrawnMore
  <1>. HIDE DEF v
  <1>8. Invoiced(c, d)' = Invoiced(c, d)
    BY <1>3, <1>4, InvoicedSame
  <1>9. Credited(c, d)' = Credited(c, d)
    BY <1>0, <1>1, <1>2, <1>3, <1>4, CreditedSame
  <1>10. Returned(c, d)' = Returned(c, d)
    BY <1>0, <1>1, <1>2, ReturnedSame
  <1>11. PICK u \in Int : u = v
    BY <1>5
  <1>12. Moves(c, d, 0 - u, 0, u, 0, 0)
    BY <1>0, <1>6, <1>7, <1>8, <1>9, <1>10, <1>11, SumsInt DEF Moves
  <1>. QED  BY <1>0, <1>12, MovesTogether DEF Booked

LEMMA ReceiveBooked ==
  ASSUME Books, Booked, NEW p, NEW row, NEW j, ReceiveStep(p, row, j)
  PROVE  Booked'
  <1>0. TypeOK /\ DocsLinked /\ MoneyLinked
    BY DEF Books
  <1>1. /\ p \in Payments /\ payment[p] = NoPayment /\ row \in PaymentRows /\ JournalAdded(j)
        /\ payment' = [payment EXCEPT ![p] = row]
        /\ j.customer = row.customer /\ j.date = row.date /\ j.posted
        /\ j.lines[j.account] = 0 - row.amount
        /\ UNCHANGED <<invoice, refunds>>
    BY DEF ReceiveStep, PostedFor
  <1>2. StepTyped /\ LinksGrow /\ DocumentsJournal
    BY <1>0, ReceiveTyped, ReceiveLinks
  <1>3. payment'[p] = row /\ \A q \in Payments : q # p => payment'[q] = payment[q]
    BY <1>0, <1>1 DEF TypeOK
  <1>4. payment[p].customer \notin Customers
    BY <1>1, TablesAssumption DEF NoPayment
  <1>. PICK b \in Customers : row.customer = b
    BY <1>1 DEF PaymentRows
  <1>6. Sourced /\ Sourced'
    BY <1>0, <1>2, SourcesKept
  <1>7. /\ p \in Holders /\ \A e \in Customers : p \notin Sources(e)
        /\ p \in Sources(b)' /\ Source(p)'.date = row.date /\ Source(p)'.amount = row.amount
    BY <1>1, <1>3, <1>4, <1>6 DEF Sourced, Holders
  <1>8. \A y \in Holders, e \in Customers : y # p => (y \in Sources(e)' <=> y \in Sources(e))
    BY <1>1, <1>3, <1>6 DEF Sourced, Holders
  <1>. SUFFICES ASSUME NEW c \in Customers, NEW d \in Int
                PROVE  BookedAt(c, d)'
    BY DEF Booked
  <1>. DEFINE v == IF b = c /\ row.date <= d THEN row.amount ELSE 0
  <1>9. v \in Int
    BY <1>1 DEF PaymentRows
  <1>10. SumFunction(Entered(c, d))' = SumFunction(Entered(c, d)) + (0 - v)
    BY <1>0, <1>1, <1>2, EnteredAdded
  <1>11. SumFunction(Credited(c, d))' = SumFunction(Credited(c, d)) + v
    <2>1. SumFunction(Credited(c, d))'
            = SumFunction(Credited(c, d)) + (IF b = c /\ Source(p)'.date <= d THEN Source(p)'.amount ELSE 0)
      BY <1>0, <1>2, <1>7, <1>8, CreditedMore
    <2>. QED  BY <1>7, <2>1
  <1>. HIDE DEF v
  <1>12. \A i \in Docs : DocKept(i) /\ invoice'[i] = invoice[i]
    BY <1>1 DEF DocKept
  <1>13. Withdrawn(c, d)' = Withdrawn(c, d)
    BY <1>0, <1>2, <1>12, WithdrawnSame
  <1>14. Invoiced(c, d)' = Invoiced(c, d)
    BY <1>12, InvoicedSame
  <1>15. Returned(c, d)' = Returned(c, d)
    BY <1>0, <1>1, <1>2, ReturnedSame
  <1>16. Moves(c, d, 0 - v, 0, 0, v, 0)
    <2>1. /\ SumFunction(Invoiced(c, d)) \in Int /\ SumFunction(Withdrawn(c, d)) \in Int
          /\ SumFunction(Returned(c, d)) \in Int
      BY <1>0, SumsInt
    <2>2. /\ SumFunction(Invoiced(c, d))' = SumFunction(Invoiced(c, d)) + 0
          /\ SumFunction(Withdrawn(c, d))' = SumFunction(Withdrawn(c, d)) + 0
          /\ SumFunction(Returned(c, d))' = SumFunction(Returned(c, d)) + 0
      BY <1>13, <1>14, <1>15, <2>1
    <2>3. 0 - v \in Int /\ 0 \in Int /\ 0 - v = 0 - 0 - v + 0
      BY <1>9
    <2>. QED  BY <1>9, <1>10, <1>11, <2>2, <2>3, Zenon DEF Moves
  <1>. QED  BY <1>0, <1>16, MovesTogether DEF Booked

LEMMA RefundBooked ==
  ASSUME Books, Booked, NEW b, NEW f, NEW j, RefundStep(b, f, j)
  PROVE  Booked'
  <1>0. TypeOK /\ DocsLinked /\ MoneyLinked
    BY DEF Books
  <1>1. /\ b \in Customers /\ f \in RefundRows /\ JournalAdded(j)
        /\ j.customer = b /\ j.date = f.date /\ j.posted
        /\ j.lines[j.account] = f.amount
        /\ UNCHANGED <<invoice, payment, allocations>>
    BY DEF RefundStep, PostedFor
  <1>2. StepTyped /\ LinksGrow /\ DocumentsJournal
    BY <1>0, RefundTyped, RefundLinks
  <1>3. \A i \in Docs : DocKept(i) /\ invoice'[i] = invoice[i]
    BY <1>1 DEF DocKept
  <1>. SUFFICES ASSUME NEW c \in Customers, NEW d \in Int
                PROVE  BookedAt(c, d)'
    BY DEF Booked
  <1>. DEFINE v == IF b = c /\ f.date <= d THEN f.amount ELSE 0
  <1>4. v \in Int
    BY <1>1 DEF RefundRows
  <1>5. SumFunction(Entered(c, d))' = SumFunction(Entered(c, d)) + v
    BY <1>0, <1>1, <1>2, EnteredAdded
  <1>6. SumFunction(Returned(c, d))' = SumFunction(Returned(c, d)) + v
    BY <1>0, ReturnedMore
  <1>. HIDE DEF v
  <1>7. Withdrawn(c, d)' = Withdrawn(c, d)
    BY <1>0, <1>2, <1>3, WithdrawnSame
  <1>8. Invoiced(c, d)' = Invoiced(c, d)
    BY <1>3, InvoicedSame
  <1>9. Credited(c, d)' = Credited(c, d)
    BY <1>0, <1>1, <1>2, <1>3, CreditedSame
  <1>10. Moves(c, d, v, 0, 0, 0, v)
    BY <1>0, <1>4, <1>5, <1>6, <1>7, <1>8, <1>9, SumsInt DEF Moves
  <1>. QED  BY <1>0, <1>10, MovesTogether DEF Booked

(* Journals no document has, applied credit, an approval and what is no    *)
(* posting move nothing.                                                   *)
LEMMA OthersBooked ==
  ASSUME Books, Booked, StepTyped, UNCHANGED <<invoice, payment, refunds>>,
         \A k \in DocumentedJournals : journals'[k].posted = journals[k].posted
  PROVE  Booked'
  <1>0. TypeOK /\ DocsLinked /\ MoneyLinked
    BY DEF Books
  <1>1. \A i \in Docs : DocKept(i) /\ invoice'[i] = invoice[i]
    BY DEF DocKept
  <1>. SUFFICES ASSUME NEW c \in Customers, NEW d \in Int
                PROVE  BookedAt(c, d)'
    BY DEF Booked
  <1>2. Entered(c, d)' = Entered(c, d)
    BY <1>0, DocumentedSame, EnteredSame
  <1>3. Withdrawn(c, d)' = Withdrawn(c, d)
    BY <1>0, <1>1, WithdrawnSame
  <1>4. Invoiced(c, d)' = Invoiced(c, d)
    BY <1>1, InvoicedSame
  <1>5. Credited(c, d)' = Credited(c, d)
    BY <1>0, <1>1, CreditedSame
  <1>6. Returned(c, d)' = Returned(c, d)
    BY <1>0, ReturnedSame
  <1>. QED  BY <1>0, <1>2, <1>3, <1>4, <1>5, <1>6, NothingMoves DEF Booked

LEMMA OthersPosted ==
  ASSUME Books, DocumentsPosted, Booked, StepTyped, UNCHANGED <<invoice, payment, refunds>>,
         \A k \in DocumentedJournals : journals'[k].posted = journals[k].posted
  PROVE  LinksGrow /\ DocumentsPosted' /\ Booked'
  <1>1. DocumentedJournals' = DocumentedJournals
    BY DocumentedSame DEF Books
  <1>. QED  BY <1>1, LinksUntouched, DocumentsStayPosted, OthersBooked

-----------------------------------------------------------------------------
(* What every posting does.                                                *)

Posted ==
    /\ StepTyped /\ LinksGrow /\ Overtake("statement") /\ UNCHANGED <<accounts, statements>>
    /\ Books' /\ DocumentsPosted' /\ Booked'

LEMMA DocumentStepPosts ==
  ASSUME Books, DocumentsPosted, NEW j, JournalAdded(j), j.posted, StepTyped, LinksGrow, DocumentsJournal,
         Books', Booked'
  PROVE  Posted
  <1>1. Overtake("statement") /\ UNCHANGED <<accounts, statements>>
    BY DEF JournalAdded
  <1>2. DocumentsPosted'
    BY DocumentedMore DEF Books
  <1>. QED  BY <1>1, <1>2 DEF Posted

LEMMA BookStepPosts ==
  ASSUME Books, DocumentsPosted, Booked, BookStep
  PROVE  Posted
  <1>0. TypeOK /\ DocsLinked /\ JournalsBalance
    BY DEF Books
  <1>1. DocumentedJournals \subseteq DOMAIN journals
    BY DEF DocumentedJournals
  <1>2. ASSUME NEW i, NEW row, NEW j, IssueStep(i, row, j) PROVE Posted
    <2>1. DocAdded(i, row) /\ JournalAdded(j) /\ j.posted /\ UNCHANGED <<payment, refunds>>
      BY <1>2 DEF IssueStep, PostedFor
    <2>2. StepTyped /\ Books' /\ Booked' /\ LinksGrow /\ DocumentsJournal
      BY <1>0, <1>2, <2>1, IssueTyped, IssueBooks, IssueBooked, DocAddedLinks
    <2>. QED  BY <2>1, <2>2, DocumentStepPosts
  <1>3. ASSUME NEW i, NEW row, NEW j, NoteStep(i, row, j) PROVE Posted
    <2>1. DocAdded(i, row) /\ JournalAdded(j) /\ j.posted /\ UNCHANGED <<payment, refunds>>
      BY <1>3 DEF NoteStep, PostedFor
    <2>2. StepTyped /\ Books' /\ Booked' /\ LinksGrow /\ DocumentsJournal
      BY <1>0, <1>3, <2>1, NoteTyped, NoteBooks, NoteBooked, DocAddedLinks
    <2>. QED  BY <2>1, <2>2, DocumentStepPosts
  <1>4. ASSUME NEW i, NEW j, CancelStep(i, j) PROVE Posted
    <2>1. JournalAdded(j) /\ j.posted
      BY <1>4 DEF CancelStep, PostedFor
    <2>2. StepTyped /\ Books' /\ Booked' /\ LinksGrow /\ DocumentsJournal
      BY <1>0, <1>4, CancelTyped, CancelBooks, CancelBooked, CancelLinks
    <2>. QED  BY <2>1, <2>2, DocumentStepPosts
  <1>5. ASSUME NEW p, NEW row, NEW j, ReceiveStep(p, row, j) PROVE Posted
    <2>1. JournalAdded(j) /\ j.posted
      BY <1>5 DEF ReceiveStep, PostedFor
    <2>2. StepTyped /\ Books' /\ Booked' /\ LinksGrow /\ DocumentsJournal
      BY <1>0, <1>5, ReceiveTyped, ReceiveBooks, ReceiveBooked, ReceiveLinks
    <2>. QED  BY <2>1, <2>2, DocumentStepPosts
  <1>6. ASSUME NEW c, NEW l, ApplyStep(c, l) PROVE Posted
    <2>1. /\ Overtake("statement")
          /\ UNCHANGED <<day, early, accounts, invoice, payment, refunds, journals, statements>>
      BY <1>6 DEF ApplyStep
    <2>2. StepTyped /\ Books'
      BY <1>0, <1>6, ApplyTyped, ApplyBooks
    <2>3. LinksGrow /\ DocumentsPosted' /\ Booked'
      BY <2>1, <2>2, OthersPosted
    <2>. QED  BY <2>1, <2>2, <2>3 DEF Posted
  <1>7. ASSUME NEW c, NEW f, NEW j, RefundStep(c, f, j) PROVE Posted
    <2>1. JournalAdded(j) /\ j.posted
      BY <1>7 DEF RefundStep, PostedFor
    <2>2. StepTyped /\ Books' /\ Booked' /\ LinksGrow /\ DocumentsJournal
      BY <1>0, <1>7, RefundTyped, RefundBooks, RefundBooked, RefundLinks
    <2>. QED  BY <2>1, <2>2, DocumentStepPosts
  <1>8. ASSUME HandStep PROVE Posted
    <2>1. /\ Overtake("statement") /\ UNCHANGED <<accounts, invoice, payment, refunds, statements>>
          /\ \A k \in DOMAIN journals : journals'[k] = journals[k]
      BY <1>8 DEF HandStep, documents
    <2>2. StepTyped /\ Books'
      BY <1>0, <1>8, HandTyped, HandBooks
    <2>3. LinksGrow /\ DocumentsPosted' /\ Booked'
      BY <1>1, <2>1, <2>2, OthersPosted
    <2>. QED  BY <2>1, <2>2, <2>3 DEF Posted
  <1>9. ASSUME NEW k, ApproveStep(k) PROVE Posted
    <2>1. Overtake("statement") /\ UNCHANGED statements /\ k \in DOMAIN journals /\ ~journals[k].posted
      BY <1>9 DEF ApproveStep, Approve
    <2>2. /\ StepTyped /\ UNCHANGED <<accounts, invoice, payment, refunds>>
          /\ \A l \in DOMAIN journals : l # k => journals'[l] = journals[l]
      BY <1>0, <1>9, ApproveTyped
    <2>3. Books'
      BY <1>9, ApproveBooks
    <2>4. k \notin DocumentedJournals
      BY <2>1 DEF DocumentsPosted
    <2>5. \A l \in DocumentedJournals : journals'[l].posted = journals[l].posted
      BY <1>1, <2>2, <2>4
    <2>6. LinksGrow /\ DocumentsPosted' /\ Booked'
      BY <2>2, <2>5, OthersPosted
    <2>. QED  BY <2>1, <2>2, <2>3, <2>6 DEF Posted
  <1>. QED  BY <1>2, <1>3, <1>4, <1>5, <1>6, <1>7, <1>8, <1>9 DEF BookStep

LEMMA QuietPosts ==
  ASSUME Books, DocumentsPosted, Booked, QuietStep
  PROVE  StepTyped /\ LinksGrow /\ Books' /\ DocumentsPosted' /\ Booked'
  <1>1. UNCHANGED <<invoice, payment, refunds, allocations, journals>>
    BY DEF QuietStep, documents
  <1>2. StepTyped /\ Books'
    BY QuietTyped, QuietBooks DEF Books
  <1>3. LinksGrow /\ DocumentsPosted' /\ Booked'
    BY <1>1, <1>2, OthersPosted
  <1>. QED  BY <1>2, <1>3

-----------------------------------------------------------------------------
(* Requests: what was read stays true of the books, and a request that a   *)
(* posting overtakes knows.                                                *)

LEMMA MovedKept ==
  ASSUME StepTyped, NEW rows, rows \in Seq(DOMAIN journals)
  PROVE  AllMoved(rows)' = AllMoved(rows)
  <1>1. \A k \in DOMAIN journals : CustomerAmount(k)' = CustomerAmount(k)
    BY DEF StepTyped, RowsKept, JournalsGrow, CustomerAmount
  <1>2. \A n \in DOMAIN rows : rows[n] \in DOMAIN journals
    OBVIOUS
  <1>3. [n \in DOMAIN rows |-> CustomerAmount(rows[n])'] = [n \in DOMAIN rows |-> CustomerAmount(rows[n])]
    BY <1>1, <1>2
  <1>. QED  BY <1>3, Zenon DEF AllMoved, Moved

LEMMA ReadKept ==
  ASSUME TypeOK, StepTyped, LinksGrow, NEW ask, StatementRead(ask)
  PROVE  StatementRead(ask)' /\ (StatementTies(ask) => StatementTies(ask)')
  <1>1. DOMAIN journals \subseteq DOMAIN journals'
    BY DEF StepTyped, RowsKept, JournalsGrow
  <1>2. ASSUME Has(ask, "journals")
        PROVE  /\ Value(ask, "journals") \in Seq(DOMAIN journals')
               /\ AllMoved(Value(ask, "journals"))' = AllMoved(Value(ask, "journals"))
               /\ \A n \in DOMAIN Value(ask, "journals") :
                     Label(Value(ask, "journals")[n])' = Label(Value(ask, "journals")[n])
    <2>1. Value(ask, "journals") \in Seq(DOMAIN journals)
      BY <1>2 DEF StatementRead
    <2>. PICK rows : rows = Value(ask, "journals")
      OBVIOUS
    <2>2. AllMoved(rows)' = AllMoved(rows)
      BY <2>1, MovedKept
    <2>3. rows \in Seq(DOMAIN journals')
      BY <1>1, <2>1
    <2>4. \A n \in DOMAIN rows : rows[n] \in DOMAIN journals
      BY <2>1
    <2>5. \A n \in DOMAIN rows : Label(rows[n])' = Label(rows[n])
      BY <2>4, LabelKept
    <2>. QED  BY <2>2, <2>3, <2>5
  <1>3. Has(ask, "labels") =>
          Has(ask, "journals")
          /\ Value(ask, "labels") = [n \in DOMAIN Value(ask, "journals") |-> Label(Value(ask, "journals")[n])']
    BY <1>2 DEF StatementRead
  <1>4. /\ ask.customer \in Customers /\ ask.from \in Int /\ ask.to \in Int /\ ask.from <= ask.to
        /\ Has(ask, "opening") => Value(ask, "opening") \in Int
        /\ Has(ask, "journals") => Value(ask, "journals") \in Seq(DOMAIN journals)'
        /\ Has(ask, "balance") => Value(ask, "balance") \in Int
        /\ Has(ask, "open") => OpenList(Value(ask, "open"))
    BY <1>2 DEF StatementRead
  <1>5. StatementRead(ask)'
    BY <1>3, <1>4, Zenon DEF StatementRead
  <1>6. StatementTies(ask) => StatementTies(ask)'
    BY <1>2 DEF StatementTies
  <1>. QED  BY <1>5, <1>6

LEMMA TrialKept ==
  ASSUME NEW ask, TrialFits(ask), UNCHANGED accounts
  PROVE  TrialFits(ask)'
  BY DEF TrialFits, TotalList

LEMMA OvertakenStill ==
  ASSUME NEW ask, AskShape(ask)
  PROVE  LET now == [ask EXCEPT !.overtaken = TRUE]
         IN  /\ AskShape(now) /\ now.overtaken = TRUE /\ now.kind = ask.kind
             /\ now.customer = ask.customer /\ now.from = ask.from /\ now.to = ask.to /\ now.got = ask.got
  BY DEF AskShape, Unasked, Has

LEMMA OvertakeIs ==
  ASSUME NEW kind, Overtake(kind), RequestsFit
  PROVE  /\ DOMAIN req' = Requests
         /\ \A r \in Requests :
              req'[r] = IF Reading(r, kind) THEN [req[r] EXCEPT !.overtaken = TRUE] ELSE req[r]
  BY DEF Overtake

LEMMA PostedRequests ==
  ASSUME TypeOK, RequestsFit, Posted
  PROVE  RequestsFit'
  <1>0. StepTyped /\ LinksGrow /\ Overtake("statement") /\ UNCHANGED accounts
    BY DEF Posted
  <1>1. /\ DOMAIN req' = Requests
        /\ \A r \in Requests :
              req'[r] = IF Reading(r, "statement") THEN [req[r] EXCEPT !.overtaken = TRUE] ELSE req[r]
    BY <1>0, OvertakeIs
  <1>2. ASSUME NEW r \in Requests, NEW now, now = req'[r] PROVE AskFits(now)'
    <2>. PICK ask : ask = req[r]
      OBVIOUS
    <2>1. AskShape(ask) /\ StatementFits(ask) /\ TrialFits(ask)
      BY DEF RequestsFit, AskFits
    <2>2. TrialFits(ask)'
      BY <1>0, <2>1, TrialKept
    <2>3. ask.kind = "statement" => StatementRead(ask)' /\ (StatementTies(ask) => StatementTies(ask)')
      BY <1>0, <2>1, ReadKept DEF StatementFits
    <2>4. CASE Reading(r, "statement")
      <3>1. now = [ask EXCEPT !.overtaken = TRUE]
        BY <1>1, <1>2, <2>4
      <3>2. /\ AskShape(now) /\ now.overtaken = TRUE /\ now.kind = ask.kind
            /\ now.customer = ask.customer /\ now.from = ask.from /\ now.to = ask.to /\ now.got = ask.got
        BY <2>1, <3>1, OvertakenStill
      <3>3. ask.kind = "statement"
        BY <2>4 DEF Reading
      <3>4. StatementRead(now)'
        BY <2>3, <3>2, <3>3, Zenon DEF StatementRead, Has, Value
      <3>5. StatementFits(now)' /\ TrialFits(now)'
        BY <3>2, <3>3, <3>4 DEF StatementFits, TrialFits
      <3>. QED  BY <3>2, <3>5 DEF AskFits, AskShape, Has
    <2>5. CASE ~Reading(r, "statement")
      <3>1. now = ask
        BY <1>1, <1>2, <2>5
      <3>2. ask.kind = "statement" /\ ~AllRead(ask) => \A q \in QueriesOf["statement"] : ~Has(ask, q)
        BY <2>5 DEF Reading, Partly, AllRead, Has
      <3>3. {"opening", "journals", "balance"} \subseteq QueriesOf["statement"]
        BY DEF QueriesOf
      <3>4. ask.kind = "statement" /\ ~AllRead(ask) => StatementFresh(ask)'
        BY <3>2, <3>3 DEF StatementFresh, Has
      <3>5. StatementFits(ask)'
        BY <2>1, <2>3, <3>4 DEF StatementFits, AllRead, Has
      <3>. QED  BY <2>1, <2>2, <3>1, <3>5 DEF AskFits, AskShape, Has
    <2>. QED  BY <2>4, <2>5
  <1>. QED  BY <1>1, <1>2 DEF RequestsFit

LEMMA StatementKept ==
  ASSUME TypeOK, StepTyped, LinksGrow, NEW st, StatementStands(st)
  PROVE  StatementStands(st)'
  <1>1. DOMAIN journals \subseteq DOMAIN journals'
    BY DEF StepTyped, RowsKept, JournalsGrow
  <1>2. \A n \in DOMAIN st.rows :
           st.rows[n].journal \in DOMAIN journals /\ st.rows[n].type = Label(st.rows[n].journal)
    BY DEF StatementStands
  <1>3. \A n \in DOMAIN st.rows :
           st.rows[n].journal \in DOMAIN journals' /\ st.rows[n].type = Label(st.rows[n].journal)'
    BY <1>1, <1>2, LabelKept
  <1>. QED  BY <1>3, Zenon DEF StatementStands, InBuckets, AgingBuckets

LEMMA StatementsKept ==
  ASSUME TypeOK, StepTyped, LinksGrow, StatementsStand, UNCHANGED statements
  PROVE  StatementsStand'
  BY StatementKept DEF StatementsStand

-----------------------------------------------------------------------------
(* The ledger of a customer: journals in order of their dates, each once.  *)

LEMMA CountedIn ==
  ASSUME TypeOK, NEW c, NEW from, NEW to
  PROVE  /\ Counted(from, to) \subseteq DOMAIN journals /\ IsFiniteSet(Counted(from, to))
         /\ Tagged(c, Counted(from, to)) \subseteq DOMAIN journals /\ IsFiniteSet(Tagged(c, Counted(from, to)))
  <1>1. /\ Counted(from, to) \subseteq DOMAIN journals /\ Tagged(c, Counted(from, to)) \subseteq DOMAIN journals
    BY DEF Counted, Tagged
  <1>. QED  BY <1>1, Indices, FS_Subset DEF TypeOK

LEMMA AmountsInt ==
  ASSUME TypeOK, NEW S \in SUBSET DOMAIN journals
  PROVE  /\ IsFiniteSet(S) /\ [k \in S |-> CustomerAmount(k)] \in [S -> Int]
         /\ SumFunction([k \in S |-> CustomerAmount(k)]) \in Int
  <1>1. IsFiniteSet(S) /\ [k \in S |-> CustomerAmount(k)] \in [S -> Int]
    BY Indices, FS_Subset DEF TypeOK
  <1>. QED  BY <1>1, SumOfInts

LEMMA BalanceInt ==
  ASSUME TypeOK, NEW c, NEW d
  PROVE  BalanceAsOf(c, d) \in Int
  BY CountedIn, AmountsInt DEF BalanceAsOf

LEMMA EarlierOrders ==
  ASSUME TypeOK, NEW k \in DOMAIN journals, NEW l \in DOMAIN journals
  PROVE  /\ ~Earlier(k, k) /\ ~(Earlier(k, l) /\ Earlier(l, k))
         /\ k # l => Earlier(k, l) \/ Earlier(l, k)
         /\ \A m \in DOMAIN journals : Earlier(k, l) /\ Earlier(l, m) => Earlier(k, m)
  <1>1. \A m \in DOMAIN journals : m \in Int /\ journals[m].date \in Int
    BY Indices DEF TypeOK
  <1>. QED  BY <1>1 DEF Earlier

Places(S) == [k \in S |-> Place(k, S)]

LEMMA PlacesAre ==
  ASSUME TypeOK, NEW S \in SUBSET DOMAIN journals
  PROVE  /\ IsFiniteSet(S) /\ Cardinality(S) \in Nat
         /\ \A k \in S : Place(k, S) \in 1 .. Cardinality(S)
         /\ \A k, l \in S : Earlier(k, l) => Place(k, S) < Place(l, S)
         /\ \A k, l \in S : Place(k, S) = Place(l, S) => k = l
         /\ \A n \in 1 .. Cardinality(S) : \E k \in S : Place(k, S) = n
  <1>1. IsFiniteSet(S) /\ Cardinality(S) \in Nat
    BY Indices, FS_Subset, FS_CardinalityType DEF TypeOK
  <1>. DEFINE Before(k) == {l \in S : Earlier(l, k)}
  <1>2. \A k \in S : /\ Before(k) \subseteq S /\ IsFiniteSet(Before(k)) /\ Cardinality(Before(k)) \in Nat
                     /\ Place(k, S) = Cardinality(Before(k)) + 1
    BY <1>1, FS_Subset, FS_CardinalityType DEF Place
  <1>3. ASSUME NEW k \in S PROVE Place(k, S) \in 1 .. Cardinality(S)
    <2>1. Before(k) \subseteq S \ {k}
      BY EarlierOrders
    <2>2. IsFiniteSet(S \ {k}) /\ Cardinality(S \ {k}) = Cardinality(S) - 1
      BY <1>1, FS_RemoveElement
    <2>. HIDE DEF Before
    <2>3. Cardinality(Before(k)) <= Cardinality(S \ {k})
      BY <2>1, <2>2, FS_Subset
    <2>. QED  BY <1>1, <1>2, <2>2, <2>3
  <1>4. ASSUME NEW k \in S, NEW l \in S, Earlier(k, l) PROVE Place(k, S) < Place(l, S)
    <2>1. Before(k) \subseteq Before(l)
      BY <1>4, EarlierOrders
    <2>2. k \in Before(l) /\ k \notin Before(k)
      BY <1>4, EarlierOrders
    <2>. HIDE DEF Before
    <2>3. /\ Cardinality(Before(k)) <= Cardinality(Before(l))
          /\ Cardinality(Before(l)) = Cardinality(Before(k)) => Before(l) = Before(k)
      BY <1>2, <2>1, FS_Subset
    <2>4. Before(l) # Before(k)
      BY <2>2
    <2>. QED  BY <1>2, <2>3, <2>4
  <1>5. ASSUME NEW k \in S, NEW l \in S, Place(k, S) = Place(l, S) PROVE k = l
    <2>1. k # l => Earlier(k, l) \/ Earlier(l, k)
      BY EarlierOrders
    <2>2. Place(k, S) \in Int /\ Place(l, S) \in Int
      BY <1>3
    <2>. QED  BY <1>4, <1>5, <2>1, <2>2
  <1>. HIDE DEF Before
  <1>6. Places(S) \in Injection(S, 1 .. Cardinality(S))
    <2>1. Places(S) \in [S -> 1 .. Cardinality(S)] /\ \A k \in S : Places(S)[k] = Place(k, S)
      BY <1>3 DEF Places
    <2>2. \A k, l \in S : Places(S)[k] = Places(S)[l] => k = l
      BY <1>5, <2>1
    <2>. QED  BY <2>1, <2>2 DEF Injection, IsInjective
  <1>7. IsFiniteSet(1 .. Cardinality(S)) /\ Cardinality(1 .. Cardinality(S)) = Cardinality(S)
    BY <1>1, FS_Interval
  <1>8. Places(S) \in Surjection(S, 1 .. Cardinality(S))
    BY <1>6, <1>7, FS_Injection
  <1>9. \A n \in 1 .. Cardinality(S) : \E k \in S : Place(k, S) = n
    BY <1>8 DEF Places, Surjection
  <1>. QED  BY <1>1, <1>3, <1>4, <1>5, <1>9

LEMMA LedgerLists ==
  ASSUME TypeOK, NEW c, NEW from, NEW to
  PROVE  LET rows == LedgerJournals(c, from, to)
             S == Tagged(c, Counted(from, to))
             n == Cardinality(S)
         IN  /\ n \in Nat /\ rows \in [1 .. n -> S] /\ rows \in Seq(DOMAIN journals)
             /\ DOMAIN rows = 1 .. n /\ Len(rows) = n
             /\ Names(rows, 1 .. n, S)
             /\ \A m \in 1 .. n : Place(rows[m], S) = m
  <1>. DEFINE S == Tagged(c, Counted(from, to))
              n == Cardinality(S)
              rows == LedgerJournals(c, from, to)
  <1>1. S \in SUBSET DOMAIN journals
    BY CountedIn
  <1>2. rows = [m \in 1 .. n |-> CHOOSE k \in S : Place(k, S) = m]
    BY DEF LedgerJournals
  <1>. HIDE DEF S, rows
  <1>3. /\ n \in Nat /\ \A k \in S : Place(k, S) \in 1 .. n
        /\ \A k, l \in S : Place(k, S) = Place(l, S) => k = l
        /\ \A m \in 1 .. n : \E k \in S : Place(k, S) = m
    BY <1>1, PlacesAre
  <1>. HIDE DEF n
  <1>4. \A m \in 1 .. n : rows[m] \in S /\ Place(rows[m], S) = m
    BY <1>2, <1>3
  <1>5. rows \in [1 .. n -> S] /\ DOMAIN rows = 1 .. n
    BY <1>2, <1>4
  <1>6. rows \in Seq(DOMAIN journals) /\ Len(rows) = n
    BY <1>1, <1>3, <1>5
  <1>7. Names(rows, 1 .. n, S)
    <2>1. \A x, y \in 1 .. n : rows[x] = rows[y] => x = y
      BY <1>4
    <2>2. \A z \in S : \E x \in 1 .. n : rows[x] = z
      BY <1>3, <1>4
    <2>. QED  BY <1>5, <2>1, <2>2 DEF Names
  <1>. QED  BY <1>3, <1>4, <1>5, <1>6, <1>7 DEF S, n, rows

(* A ledger's rows come to what the journals in the range come to. *)
LEMMA LedgerMoves ==
  ASSUME TypeOK, NEW c, NEW from, NEW to
  PROVE  AllMoved(LedgerJournals(c, from, to))
           = SumFunction([k \in Tagged(c, Counted(from, to)) |-> CustomerAmount(k)])
  <1>. DEFINE S == Tagged(c, Counted(from, to))
              n == Cardinality(S)
              rows == LedgerJournals(c, from, to)
              f == [k \in S |-> CustomerAmount(k)]
              g == [m \in DOMAIN rows |-> CustomerAmount(rows[m])]
  <1>1. /\ n \in Nat /\ rows \in [1 .. n -> S] /\ DOMAIN rows = 1 .. n /\ Names(rows, 1 .. n, S)
    BY LedgerLists
  <1>2. IsFiniteSet(S) /\ f \in [S -> Int]
    BY CountedIn, AmountsInt
  <1>3. \A m \in 1 .. n : g[m] = f[rows[m]]
    BY <1>1
  <1>4. AllMoved(rows) = SumFunction(g) /\ DOMAIN g = 1 .. n /\ DOMAIN f = S
    BY <1>1 DEF AllMoved, Moved
  <1>. HIDE DEF S, n, rows, f, g
  <1>5. IsFiniteSet(1 .. n)
    BY <1>1, FS_Interval
  <1>6. SumFunctionOnSet(g, 1 .. n) = SumFunctionOnSet(f, S)
    BY <1>1, <1>2, <1>3, <1>5, SumReindex
  <1>7. AllMoved(rows) = SumFunction(f)
    BY <1>4, <1>6 DEF SumFunction
  <1>. QED  BY <1>7 DEF rows, f, S

(* Opening balance and movements lead to the closing balance. *)
LEMMA LedgerLeads ==
  ASSUME TypeOK, NEW c, NEW from \in Int, NEW to \in Int, from <= to
  PROVE  BalanceAsOf(c, to) = BalanceBefore(c, from) + AllMoved(LedgerJournals(c, from, to))
  <1>0. None \notin Int
    BY TablesAssumption
  <1>. DEFINE S == Tagged(c, Counted(None, from - 1))
              T == Tagged(c, Counted(from, to))
              U == Tagged(c, Counted(None, to))
              f == [k \in U |-> CustomerAmount(k)]
  <1>1. \A k \in DOMAIN journals : journals[k].date \in Int
    BY Indices DEF TypeOK
  <1>2. from - 1 # None /\ to # None /\ from # None
    BY <1>0
  <1>3. S \cup T = U /\ S \cap T = {}
    BY <1>1, <1>2 DEF Tagged, Counted
  <1>4. IsFiniteSet(S) /\ IsFiniteSet(T) /\ f \in [U -> Int] /\ U \subseteq DOMAIN journals
    BY CountedIn, AmountsInt
  <1>5. /\ BalanceAsOf(c, to) = SumFunction(f)
        /\ BalanceBefore(c, from) = SumFunction([k \in S |-> CustomerAmount(k)])
        /\ AllMoved(LedgerJournals(c, from, to)) = SumFunction([k \in T |-> CustomerAmount(k)])
    BY LedgerMoves DEF BalanceAsOf, BalanceBefore
  <1>6. /\ \A k \in S : [j \in S |-> CustomerAmount(j)][k] = f[k]
        /\ \A k \in T : [j \in T |-> CustomerAmount(j)][k] = f[k]
    BY <1>3
  <1>7. \A k \in S \cup T : f[k] \in Int
    BY <1>3, <1>4
  <1>8. DOMAIN f = U
    OBVIOUS
  <1>. HIDE DEF S, T, U, f
  <1>9. SumFunctionOnSet(f, S \cup T) = SumFunctionOnSet(f, S) + SumFunctionOnSet(f, T)
    BY <1>3, <1>4, <1>7, SumParts
  <1>10. SumFunctionOnSet([k \in S |-> CustomerAmount(k)], S) = SumFunctionOnSet(f, S)
    BY <1>4, <1>6, SumSame
  <1>11. SumFunctionOnSet([k \in T |-> CustomerAmount(k)], T) = SumFunctionOnSet(f, T)
    BY <1>4, <1>6, SumSame
  <1>. QED  BY <1>3, <1>5, <1>8, <1>9, <1>10, <1>11 DEF SumFunction

-----------------------------------------------------------------------------
(* The totals of the accounts: each is its debits less its credits, and    *)
(* together they come to nothing.                                          *)

Entries(S) == [k \in S |-> journals[k].lines]
Net(S, a) == SumFunction([k \in S |-> journals[k].lines[a]])
Nets(S) == [a \in DOMAIN AccountType |-> Net(S, a)]

LEMMA LinesInt ==
  ASSUME TypeOK, NEW S \in SUBSET DOMAIN journals, NEW a \in DOMAIN AccountType
  PROVE  /\ IsFiniteSet(S) /\ [k \in S |-> journals[k].lines[a]] \in [S -> Int]
         /\ [k \in S |-> Debit(k, a)] \in [S -> Int] /\ [k \in S |-> Credit(k, a)] \in [S -> Int]
         /\ Net(S, a) \in Int
  <1>1. IsFiniteSet(S)
    BY Indices, FS_Subset DEF TypeOK
  <1>2. \A k \in S : journals[k].lines[a] \in Int
    BY Indices DEF TypeOK
  <1>3. \A k \in S : Debit(k, a) \in Int /\ Credit(k, a) \in Int
    BY <1>2 DEF Debit, Credit
  <1>4. [k \in S |-> journals[k].lines[a]] \in [S -> Int]
    BY <1>2
  <1>. QED  BY <1>1, <1>3, <1>4, SumOfInts DEF Net

LEMMA NetsBalance ==
  ASSUME TypeOK, JournalsBalance, NEW S \in SUBSET DOMAIN journals
  PROVE  IsFiniteSet(DOMAIN AccountType) /\ Nets(S) \in [DOMAIN AccountType -> Int] /\ SumFunction(Nets(S)) = 0
  <1>. DEFINE A == DOMAIN AccountType
              F == Entries(S)
  <1>1. IsFiniteSet(A) /\ IsFiniteSet(S)
    BY TablesAssumption, Indices, FS_Subset DEF TypeOK
  <1>2. \A k \in S : journals[k].lines \in [A -> Int] /\ SumFunction(journals[k].lines) = 0
    BY Indices DEF TypeOK, JournalsBalance
  <1>3. F \in [S -> [A -> Int]] /\ \A k \in S : F[k] = journals[k].lines
    BY <1>2 DEF Entries
  <1>4. Nets(S) = ColumnSums(F, S, A)
    <2>1. ASSUME NEW a \in A PROVE Column(F, S, a) = [k \in S |-> journals[k].lines[a]]
      BY <1>3 DEF Column
    <2>. HIDE DEF F
    <2>2. \A a \in A : SumFunction(Column(F, S, a)) = Net(S, a)
      BY <2>1, Zenon DEF Net
    <2>. QED  BY <2>2 DEF Nets, ColumnSums
  <1>. HIDE DEF A, F
  <1>5. RowSums(F, S) = Zeros(S)
    BY <1>2, <1>3 DEF RowSums, Zeros
  <1>6. /\ SumFunction(RowSums(F, S)) = SumFunction(ColumnSums(F, S, A))
        /\ ColumnSums(F, S, A) \in [A -> Int]
    BY <1>1, <1>3, SumOfTable
  <1>7. SumFunction(Zeros(S)) = 0
    BY <1>1, SumZeros
  <1>. QED  BY <1>1, <1>4, <1>5, <1>6, <1>7 DEF A

LEMMA TotalsAre ==
  ASSUME TypeOK, JournalsBalance, NEW from, NEW to
  PROVE  LET totals == PostedTotals(from, to)
             S == Counted(from, to)
         IN  /\ S \in SUBSET DOMAIN journals
             /\ DOMAIN totals \subseteq DOMAIN AccountType /\ IsFiniteSet(DOMAIN totals) /\ TotalList(totals)
             /\ \A a \in DOMAIN totals : totals[a].debit - totals[a].credit = Nets(S)[a]
             /\ \A a \in DOMAIN AccountType \ DOMAIN totals : Nets(S)[a] = 0
  <1>. DEFINE totals == PostedTotals(from, to)
              S == Counted(from, to)
              debits(a) == SumFunction([k \in S |-> Debit(k, a)])
              credits(a) == SumFunction([k \in S |-> Credit(k, a)])
              D == {a \in DOMAIN AccountType : \E k \in S : journals[k].lines[a] # 0}
  <1>1. S \in SUBSET DOMAIN journals
    BY CountedIn
  <1>2. DOMAIN totals = D /\ \A a \in D : totals[a] = [debit |-> debits(a), credit |-> credits(a)]
    BY DEF PostedTotals
  <1>3. D \subseteq DOMAIN AccountType /\ IsFiniteSet(D) /\ D \subseteq accounts
    BY <1>1, TablesAssumption, FS_Subset DEF JournalsBalance
  <1>4. ASSUME NEW a \in DOMAIN AccountType
        PROVE  debits(a) \in Int /\ credits(a) \in Int /\ debits(a) - credits(a) = Net(S, a)
    <2>. DEFINE f == [k \in S |-> Debit(k, a)]
                g == [k \in S |-> Credit(k, a)]
                h == [k \in S |-> journals[k].lines[a]]
    <2>1. IsFiniteSet(S) /\ f \in [S -> Int] /\ g \in [S -> Int] /\ h \in [S -> Int]
      BY <1>1, LinesInt
    <2>2. \A k \in S : h[k] = f[k] - g[k]
      BY <2>1 DEF Debit, Credit
    <2>3. debits(a) = SumFunction(f) /\ credits(a) = SumFunction(g) /\ Net(S, a) = SumFunction(h)
      BY DEF Net
    <2>. HIDE DEF f, g, h, debits, credits, S
    <2>4. IsMinus(h, f, g, S)
      BY <2>1, <2>2 DEF IsMinus
    <2>. QED  BY <2>3, <2>4, SumMinusOf
  <1>5. \A a \in D : totals[a].debit - totals[a].credit = Nets(S)[a]
    <2>1. \A a \in DOMAIN AccountType : Nets(S)[a] = Net(S, a)
      BY DEF Nets
    <2>. HIDE DEF totals, S, debits, credits, D
    <2>2. \A a \in D : totals[a].debit = debits(a) /\ totals[a].credit = credits(a)
      BY <1>2
    <2>. QED  BY <1>3, <1>4, <2>1, <2>2
  <1>6. ASSUME NEW a \in DOMAIN AccountType \ D PROVE Nets(S)[a] = 0
    <2>1. \A k \in S : journals[k].lines[a] = 0
      BY <1>6
    <2>2. [k \in S |-> journals[k].lines[a]] = Zeros(S)
      BY <2>1 DEF Zeros
    <2>3. IsFiniteSet(S)
      BY CountedIn
    <2>4. Net(S, a) = 0
      BY <2>2, <2>3, SumZeros DEF Net
    <2>. QED  BY <2>4 DEF Nets
  <1>7. TotalList(totals)
    <2>1. \A a \in D : totals[a] \in [debit : Int, credit : Int]
      <3>. HIDE DEF totals, debits, credits, D
      <3>1. \A a \in D : debits(a) \in Int /\ credits(a) \in Int
        BY <1>3, <1>4
      <3>. QED  BY <1>2, <3>1
    <2>2. totals = [a \in DOMAIN totals |-> totals[a]]
      BY DEF PostedTotals
    <2>. HIDE DEF totals, D
    <2>. QED  BY <1>2, <1>3, <2>1, <2>2 DEF TotalList
  <1>. HIDE DEF totals, S, debits, credits, D
  <1>. QED  BY <1>1, <1>2, <1>3, <1>5, <1>6, <1>7 DEF totals, S

LEMMA TrialOf ==
  ASSUME NEW v, NEW known, DOMAIN v \subseteq known
  PROVE  /\ BuildTrialBalance(v, known).rows = [a \in DOMAIN v |-> NaturalBalance(a, v[a])]
         /\ BuildTrialBalance(v, known).debit = SumFunction([a \in DOMAIN v |-> v[a].debit])
         /\ BuildTrialBalance(v, known).credit = SumFunction([a \in DOMAIN v |-> v[a].credit])
  <1>1. DOMAIN v \cap known = DOMAIN v
    OBVIOUS
  <1>. QED  BY <1>1 DEF BuildTrialBalance

LEMMA TrialBalances ==
  ASSUME TypeOK, JournalsBalance, NEW from, NEW to, NEW totals, totals = PostedTotals(from, to)
  PROVE  IsBalanced(BuildTrialBalance(totals, DOMAIN totals))
  <1>. DEFINE D == DOMAIN totals
              A == DOMAIN AccountType
              nets == Nets(Counted(from, to))
              f == [a \in D |-> totals[a].debit]
              g == [a \in D |-> totals[a].credit]
              h == [a \in D |-> nets[a]]
  <1>1. /\ Counted(from, to) \in SUBSET DOMAIN journals
        /\ D \subseteq A /\ IsFiniteSet(D) /\ TotalList(totals)
        /\ \A a \in D : totals[a].debit - totals[a].credit = nets[a]
        /\ \A a \in A \ D : nets[a] = 0
    BY TotalsAre
  <1>2. IsFiniteSet(A) /\ nets \in [A -> Int] /\ SumFunction(nets) = 0
    BY <1>1, NetsBalance
  <1>3. \A a \in D : totals[a].debit \in Int /\ totals[a].credit \in Int /\ nets[a] \in Int
    BY <1>1, <1>2 DEF TotalList
  <1>. HIDE DEF nets
  <1>4. PartOf(h, nets, D, A)
    BY <1>1, <1>2, <1>3 DEF PartOf
  <1>5. SumFunction(h) = 0
    BY <1>2, <1>4, SumPartOf
  <1>6. IsMinus(h, f, g, D)
    BY <1>1, <1>3 DEF IsMinus
  <1>. HIDE DEF f, g, h
  <1>7. SumFunction(f) = SumFunction(g)
    BY <1>5, <1>6, SumMinusOf
  <1>8. DOMAIN totals \cap DOMAIN totals = DOMAIN totals
    OBVIOUS
  <1>9. /\ BuildTrialBalance(totals, DOMAIN totals).debit = SumFunction(f)
        /\ BuildTrialBalance(totals, DOMAIN totals).credit = SumFunction(g)
    BY <1>8 DEF BuildTrialBalance, f, g
  <1>. QED  BY <1>7, <1>9 DEF IsBalanced

-----------------------------------------------------------------------------
(* Open invoices, and their ages.                                          *)

LEMMA LeftsInt ==
  ASSUME TypeOK, NEW i \in Docs, NEW d
  PROVE  invoice[i].total \in Nat /\ invoice[i].due \in Int /\ invoice[i].date \in Int /\ LeftAsOf(i, d) \in Int
  <1>1. invoice[i] \in DocRows \cup {NoInvoice}
    BY DEF TypeOK
  <1>2. invoice[i].total \in Nat /\ invoice[i].due \in Int /\ invoice[i].date \in Int
    BY <1>1 DEF DocRows, NoInvoice
  <1>3. {k \in To(i) : allocations[k].date <= d} \in SUBSET DOMAIN allocations
    BY DEF To
  <1>4. Taken({k \in To(i) : allocations[k].date <= d}) \in Nat
    BY <1>3, AmountsTaken DEF TypeOK
  <1>. QED  BY <1>2, <1>4 DEF LeftAsOf

OpenIs(open, c, d) ==
    /\ OpenList(open) /\ IsFiniteSet(DOMAIN open)
    /\ DOMAIN open = {i \in IssuedBy(c, d) : StandingAt(i, d) /\ LeftAsOf(i, d) > 0}
    /\ \A i \in DOMAIN open : open[i].due = invoice[i].due /\ open[i].left = LeftAsOf(i, d) /\ LeftAsOf(i, d) > 0

LEMMA OpensAre ==
  ASSUME TypeOK, NEW c, NEW d
  PROVE  OpenIs(OpenAsOf(c, d), c, d)
  <1>. DEFINE O == {i \in IssuedBy(c, d) : StandingAt(i, d) /\ LeftAsOf(i, d) > 0}
              open == OpenAsOf(c, d)
  <1>1. O \subseteq Docs /\ IsFiniteSet(O)
    BY TablesAssumption, FS_Subset DEF IssuedBy, IssuedDocs
  <1>2. open = [i \in O |-> [due |-> invoice[i].due, left |-> LeftAsOf(i, d)]]
    BY DEF OpenAsOf
  <1>3. \A i \in O : LeftAsOf(i, d) > 0
    OBVIOUS
  <1>4. \A i \in O : invoice[i].due \in Int /\ LeftAsOf(i, d) \in Int
    BY <1>1, LeftsInt
  <1>5. DOMAIN open = O
    BY <1>2
  <1>. HIDE DEF O, open
  <1>6. \A i \in O : open[i].due = invoice[i].due /\ open[i].left = LeftAsOf(i, d)
    BY <1>2
  <1>7. OpenList(open)
    BY <1>1, <1>2, <1>4, <1>5 DEF OpenList
  <1>. QED  BY <1>1, <1>3, <1>5, <1>6, <1>7 DEF OpenIs, O, open

LEMMA LeftsAddUp ==
  ASSUME NEW open, OpenList(open), NEW ids \in SUBSET DOMAIN open
  PROVE  /\ IsFiniteSet(DOMAIN open) /\ IsFiniteSet(ids) /\ [i \in ids |-> open[i].left] \in [ids -> Int]
         /\ LeftIn(open, ids) \in Int
  <1>1. IsFiniteSet(DOMAIN open) /\ IsFiniteSet(ids)
    BY TablesAssumption, FS_Subset DEF OpenList
  <1>2. \A i \in DOMAIN open : open[i].left \in Int
    BY DEF OpenList
  <1>3. [i \in ids |-> open[i].left] \in [ids -> Int]
    BY <1>2
  <1>. QED  BY <1>1, <1>3, SumOfInts DEF LeftIn

LEMMA BucketIs ==
  ASSUME NEW n
  PROVE  /\ AgingBucket(n) \in AgingBuckets
         /\ n \in Int => (AgingBucket(n) = "CURRENT" <=> n <= 0)
  BY DEF AgingBucket, AgingBuckets

(* Every open invoice has one age. *)
LEMMA BucketsAddUp ==
  ASSUME NEW open, OpenList(open), NEW balance, NEW d
  PROVE  InBuckets(Aging(balance, open, d), AgingBuckets) = LeftOn(open)
  <1>. DEFINE S == DOMAIN open
              f == [i \in S |-> open[i].left]
              g == [i \in S |-> AgingBucket(DaysPastDue(open[i].due, d))]
              In(b) == {i \in S : AgingBucket(DaysPastDue(open[i].due, d)) = b}
  <1>1. IsFiniteSet(S) /\ f \in [S -> Int]
    BY LeftsAddUp
  <1>2. g \in [S -> AgingBuckets] /\ IsFiniteSet(AgingBuckets)
    <2>1. \A i \in S : AgingBucket(DaysPastDue(open[i].due, d)) \in AgingBuckets
      BY BucketIs
    <2>2. IsFiniteSet(AgingBuckets)
      <3>1. AgingBuckets = ((((({} \cup {"CURRENT"}) \cup {"DAYS_1_30"}) \cup {"DAYS_31_60"})
                               \cup {"DAYS_61_90"}) \cup {"DAYS_OVER_90"})
        BY DEF AgingBuckets
      <3>. QED  BY <3>1, FS_EmptySet, FS_AddElement, Zenon
    <2>. QED  BY <2>1, <2>2
  <1>3. \A b \in AgingBuckets : LeftIn(open, In(b)) = SumFunction(Group(f, g, b, S))
    <2>. TAKE b \in AgingBuckets
    <2>1. {i \in S : g[i] = b} = In(b)
      OBVIOUS
    <2>2. Group(f, g, b, S) = [i \in In(b) |-> f[i]]
      BY <2>1 DEF Group
    <2>3. [i \in In(b) |-> f[i]] = [i \in In(b) |-> open[i].left]
      OBVIOUS
    <2>. QED  BY <2>2, <2>3 DEF LeftIn
  <1>4. InBuckets(Aging(balance, open, d), AgingBuckets) = SumFunction([b \in AgingBuckets |-> LeftIn(open, In(b))])
    BY DEF InBuckets, Aging
  <1>5. LeftOn(open) = SumFunction(f)
    BY DEF LeftOn, LeftIn
  <1>. HIDE DEF S, f, g, In
  <1>6. [b \in AgingBuckets |-> LeftIn(open, In(b))] = GroupSums(f, g, S, AgingBuckets)
    BY <1>3 DEF GroupSums
  <1>7. SumFunction(GroupSums(f, g, S, AgingBuckets)) = SumFunction(f)
    BY <1>1, <1>2, SumOfGroups
  <1>. QED  BY <1>4, <1>5, <1>6, <1>7

-----------------------------------------------------------------------------
(* Steps that post nothing: what a request has read keeps fitting.         *)

LEMMA LedgerStays ==
  ASSUME UNCHANGED journals, NEW c, NEW from, NEW to
  PROVE  /\ BalanceAsOf(c, to)' = BalanceAsOf(c, to)
         /\ LedgerJournals(c, from, to)' = LedgerJournals(c, from, to)
  <1>1. \A S : Tagged(c, S)' = Tagged(c, S)
    BY DEF Tagged
  <1>2. Counted(None, to)' = Counted(None, to) /\ Counted(from, to)' = Counted(from, to)
    BY DEF Counted
  <1>3. \A k : CustomerAmount(k)' = CustomerAmount(k)
    BY DEF CustomerAmount
  <1>4. \A k, l : Earlier(l, k)' = Earlier(l, k)
    BY DEF Earlier
  <1>5. \A S, k : {l \in S : Earlier(l, k)'} = {l \in S : Earlier(l, k)}
    BY <1>4
  <1>6. \A S, k : Place(k, S)' = Place(k, S)
    BY <1>5, Zenon DEF Place
  <1>. PICK S : S = Tagged(c, Counted(None, to))
    OBVIOUS
  <1>. PICK T : T = Tagged(c, Counted(from, to))
    OBVIOUS
  <1>7. S = Tagged(c, Counted(None, to))' /\ T = Tagged(c, Counted(from, to))'
    BY <1>1, <1>2
  <1>8. [k \in S |-> CustomerAmount(k)'] = [k \in S |-> CustomerAmount(k)]
    BY <1>3
  <1>9. BalanceAsOf(c, to)' = BalanceAsOf(c, to)
    BY <1>7, <1>8 DEF BalanceAsOf
  <1>10. \A n : (CHOOSE k \in T : Place(k, T)' = n) = (CHOOSE k \in T : Place(k, T) = n)
    BY <1>6
  <1>11. [n \in 1 .. Cardinality(T) |-> CHOOSE k \in T : Place(k, T)' = n]
           = [n \in 1 .. Cardinality(T) |-> CHOOSE k \in T : Place(k, T) = n]
    BY <1>10
  <1>12. LedgerJournals(c, from, to)' = LedgerJournals(c, from, to)
    BY <1>7, <1>11 DEF LedgerJournals
  <1>. QED  BY <1>9, <1>12

LEMMA FreshKept ==
  ASSUME UNCHANGED journals, NEW ask, StatementFresh(ask)
  PROVE  StatementFresh(ask)'
  <1>. PICK c : c = ask.customer
    OBVIOUS
  <1>. PICK from : from = ask.from
    OBVIOUS
  <1>. PICK to : to = ask.to
    OBVIOUS
  <1>1. BalanceAsOf(c, to)' = BalanceAsOf(c, to) /\ BalanceAsOf(c, from - 1)' = BalanceAsOf(c, from - 1)
        /\ LedgerJournals(c, from, to)' = LedgerJournals(c, from, to)
    BY LedgerStays
  <1>2. BalanceBefore(c, from)' = BalanceBefore(c, from)
    BY <1>1 DEF BalanceBefore
  <1>. QED  BY <1>1, <1>2 DEF StatementFresh, Has, Value

(* With the chart as it was. *)
LEMMA AskKept ==
  ASSUME TypeOK, StepTyped, LinksGrow, UNCHANGED journals, NEW ask, AskFits(ask),
         UNCHANGED accounts \/ ask.kind # "trial"
  PROVE  AskFits(ask)'
  <1>1. AskShape(ask)' /\ (TrialFits(ask) => TrialFits(ask)')
    BY TrialKept DEF AskFits, AskShape, Has, TrialFits
  <1>2. StatementFits(ask)'
    <2>1. CASE ask.kind = "statement"
      <3>1. StatementRead(ask) /\ StatementFits(ask)
        BY <2>1 DEF AskFits, StatementFits
      <3>2. StatementRead(ask)' /\ (StatementTies(ask) => StatementTies(ask)')
        BY <3>1, ReadKept
      <3>3. StatementFresh(ask) => StatementFresh(ask)'
        BY FreshKept
      <3>4. AllRead(ask)' = AllRead(ask)
        BY DEF AllRead, Has
      <3>. QED  BY <2>1, <3>1, <3>2, <3>3, <3>4, Zenon DEF StatementFits
    <2>. QED  BY <2>1 DEF StatementFits
  <1>. QED  BY <1>1, <1>2 DEF AskFits

(* An account is created while trial balances are read.                    *)
LEMMA ChartGrew ==
  ASSUME NEW ask, AskFits(ask), NEW now, ask.kind = "trial", accounts \subseteq accounts',
         \/ now = [ask EXCEPT !.overtaken = TRUE]
         \/ /\ now = ask
            /\ (\A q \in QueriesOf["trial"] : Has(ask, q)) \/ (\A q \in QueriesOf["trial"] : ~Has(ask, q))
  PROVE  AskFits(now)'
  <1>0. AskShape(ask) /\ TrialFits(ask) /\ "accounts" \in QueriesOf["trial"] /\ "totals" \in QueriesOf["trial"]
    BY DEF AskFits, QueriesOf
  <1>1. /\ ask.from = None /\ ask.to \in Int \cup {None}
        /\ Has(ask, "accounts") => Value(ask, "accounts") \subseteq accounts'
        /\ Has(ask, "totals") =>
              /\ TotalList(Value(ask, "totals"))'
              /\ IsBalanced(BuildTrialBalance(Value(ask, "totals"), DOMAIN Value(ask, "totals")))
    BY <1>0 DEF TrialFits, TotalList
  <1>2. CASE now = [ask EXCEPT !.overtaken = TRUE]
    <2>1. /\ AskShape(now) /\ now.overtaken = TRUE /\ now.kind = ask.kind
          /\ now.customer = ask.customer /\ now.from = ask.from /\ now.to = ask.to /\ now.got = ask.got
      BY <1>0, <1>2, OvertakenStill
    <2>2. AskShape(now)' /\ StatementFits(now)'
      BY <2>1 DEF AskShape, Has, StatementFits
    <2>3. TrialFits(now)'
      BY <1>1, <2>1 DEF TrialFits, Has, Value
    <2>. QED  BY <2>2, <2>3 DEF AskFits
  <1>3. CASE /\ now = ask
             /\ (\A q \in QueriesOf["trial"] : Has(ask, q)) \/ (\A q \in QueriesOf["trial"] : ~Has(ask, q))
    <2>1. ~ask.overtaken /\ Has(ask, "accounts") =>
             Has(ask, "totals") /\ DOMAIN Value(ask, "totals") \subseteq Value(ask, "accounts")
      BY <1>0, <1>3 DEF TrialFits
    <2>2. AskShape(now)' /\ StatementFits(now)'
      BY <1>0, <1>3 DEF AskShape, Has, StatementFits
    <2>3. TrialFits(now)'
      BY <1>1, <1>3, <2>1 DEF TrialFits, Has, Value
    <2>. QED  BY <2>2, <2>3 DEF AskFits
  <1>. QED  BY <1>2, <1>3

(* What was read while nothing overtook it ties. *)
LEMMA FreshTies ==
  ASSUME TypeOK, NEW ask, StatementRead(ask), StatementFresh(ask)
  PROVE  StatementTies(ask)
  <1>1. BalanceAsOf(ask.customer, ask.to)
           = BalanceBefore(ask.customer, ask.from) + AllMoved(LedgerJournals(ask.customer, ask.from, ask.to))
    BY LedgerLeads DEF StatementRead
  <1>. QED  BY <1>1 DEF StatementTies, StatementFresh

(* One query is answered. *)
Answered(now, ask, q, v) ==
    /\ AskShape(now) /\ now.kind = ask.kind /\ now.overtaken = ask.overtaken
    /\ now.customer = ask.customer /\ now.from = ask.from /\ now.to = ask.to
    /\ Has(now, q) = TRUE /\ Value(now, q) = v
    /\ \A p \in Queries \ {q} : Has(now, p) = Has(ask, p) /\ Value(now, p) = Value(ask, p)

LEMMA AnswerIs ==
  ASSUME NEW ask, AskShape(ask), ask.kind # "none", NEW q \in Queries, NEW v, NEW now,
         now = [ask EXCEPT !.got[q] = Read(v)]
  PROVE  Answered(now, ask, q, v)
  <1>1. {"kind", "customer", "from", "to", "got", "overtaken"} \subseteq DOMAIN ask /\ DOMAIN ask.got = Queries
    BY DEF AskShape, Unasked
  <1>2. /\ DOMAIN now = DOMAIN ask /\ now.kind = ask.kind /\ now.overtaken = ask.overtaken
        /\ now.customer = ask.customer /\ now.from = ask.from /\ now.to = ask.to
        /\ now.got = [ask.got EXCEPT ![q] = Read(v)]
    BY <1>1
  <1>3. /\ DOMAIN now.got = Queries /\ now.got[q] = Read(v)
        /\ \A p \in Queries \ {q} : now.got[p] = ask.got[p]
    BY <1>1, <1>2
  <1>4. Has(now, q) = TRUE /\ Value(now, q) = v
    BY <1>3 DEF Has, Value, Read
  <1>5. \A p \in Queries \ {q} : Has(now, p) = Has(ask, p) /\ Value(now, p) = Value(ask, p)
    BY <1>3 DEF Has, Value
  <1>6. AskShape(now)
    BY <1>2, <1>3, <1>4, <1>5 DEF AskShape
  <1>. QED  BY <1>2, <1>4, <1>5, <1>6 DEF Answered

StatementQueries == {"opening", "journals", "labels", "balance", "open"}

LEMMA StatementQueryReads ==
  ASSUME TypeOK, NEW ask, StatementRead(ask), NEW q \in StatementQueries, ~Has(ask, q),
         \A w \in Waits : w[1] = q => Has(ask, w[2]), NEW now, Answered(now, ask, q, Answer(q, ask))
  PROVE  StatementRead(now) /\ (StatementFresh(ask) => StatementFresh(now))
  <1>0. StatementQueries \subseteq Queries
    BY DEF StatementQueries, Queries, QueriesOf
  <1>1. /\ now.customer = ask.customer /\ now.from = ask.from /\ now.to = ask.to
        /\ Has(now, q) = TRUE /\ Value(now, q) = Answer(q, ask)
        /\ \A p \in StatementQueries \ {q} : Has(now, p) = Has(ask, p) /\ Value(now, p) = Value(ask, p)
    BY <1>0 DEF Answered
  <1>2. ask.customer \in Customers /\ ask.from \in Int /\ ask.to \in Int /\ ask.from <= ask.to
    BY DEF StatementRead
  <1>3. CASE q = "opening"
    <2>1. Value(now, "opening") = BalanceBefore(ask.customer, ask.from) /\ Value(now, "opening") \in Int
      BY <1>1, <1>3, BalanceInt DEF Answer, BalanceBefore
    <2>2. \A p \in {"journals", "labels", "balance", "open"} :
             Has(now, p) = Has(ask, p) /\ Value(now, p) = Value(ask, p)
      BY <1>1, <1>3 DEF StatementQueries
    <2>. QED  BY <1>1, <1>2, <2>1, <2>2 DEF StatementRead, StatementFresh
  <1>4. CASE q = "journals"
    <2>1. Value(now, "journals") = LedgerJournals(ask.customer, ask.from, ask.to)
      BY <1>1, <1>4 DEF Answer
    <2>2. Value(now, "journals") \in Seq(DOMAIN journals)
      BY <2>1, LedgerLists
    <2>3. \A p \in {"opening", "labels", "balance", "open"} :
             Has(now, p) = Has(ask, p) /\ Value(now, p) = Value(ask, p)
      BY <1>1, <1>4 DEF StatementQueries
    <2>4. ~Has(ask, "labels")
      BY <1>4 DEF StatementRead
    <2>. QED  BY <1>1, <1>2, <2>1, <2>2, <2>3, <2>4 DEF StatementRead, StatementFresh
  <1>5. CASE q = "labels"
    <2>1. Has(ask, "journals")
      BY <1>5 DEF Waits
    <2>2. Value(now, "labels") = [n \in DOMAIN Value(ask, "journals") |-> Label(Value(ask, "journals")[n])]
      BY <1>1, <1>5 DEF Answer, Value
    <2>3. \A p \in {"opening", "journals", "balance", "open"} :
             Has(now, p) = Has(ask, p) /\ Value(now, p) = Value(ask, p)
      BY <1>1, <1>5 DEF StatementQueries
    <2>. QED  BY <1>1, <1>2, <2>1, <2>2, <2>3 DEF StatementRead, StatementFresh
  <1>6. CASE q = "balance"
    <2>1. Value(now, "balance") = BalanceAsOf(ask.customer, ask.to) /\ Value(now, "balance") \in Int
      BY <1>1, <1>6, BalanceInt DEF Answer
    <2>2. \A p \in {"opening", "journals", "labels", "open"} :
             Has(now, p) = Has(ask, p) /\ Value(now, p) = Value(ask, p)
      BY <1>1, <1>6 DEF StatementQueries
    <2>. QED  BY <1>1, <1>2, <2>1, <2>2 DEF StatementRead, StatementFresh
  <1>7. CASE q = "open"
    <2>1. Value(now, "open") = OpenAsOf(ask.customer, ask.to)
      BY <1>1, <1>7 DEF Answer
    <2>2. OpenList(Value(now, "open"))
      <3>1. OpenIs(OpenAsOf(ask.customer, ask.to), ask.customer, ask.to)
        BY OpensAre
      <3>2. OpenList(OpenAsOf(ask.customer, ask.to))
        BY <3>1 DEF OpenIs
      <3>. QED  BY <2>1, <3>2, Zenon
    <2>3. \A p \in {"opening", "journals", "labels", "balance"} :
             Has(now, p) = Has(ask, p) /\ Value(now, p) = Value(ask, p)
      BY <1>1, <1>7 DEF StatementQueries
    <2>. QED  BY <1>1, <1>2, <2>2, <2>3 DEF StatementRead, StatementFresh
  <1>. QED  BY <1>3, <1>4, <1>5, <1>6, <1>7 DEF StatementQueries

LEMMA TrialQueryReads ==
  ASSUME TypeOK, JournalsBalance, NEW ask, TrialFits(ask), ask.kind = "trial",
         NEW q \in {"accounts", "totals"}, ~Has(ask, q),
         NEW now, Answered(now, ask, q, Answer(q, ask))
  PROVE  TrialFits(now)
  <1>0. {"accounts", "totals"} \subseteq Queries
    BY DEF Queries, QueriesOf
  <1>1. /\ now.kind = ask.kind /\ now.from = ask.from /\ now.to = ask.to /\ now.overtaken = ask.overtaken
        /\ Has(now, q) = TRUE /\ Value(now, q) = Answer(q, ask)
        /\ \A p \in {"accounts", "totals"} \ {q} : Has(now, p) = Has(ask, p) /\ Value(now, p) = Value(ask, p)
    BY <1>0 DEF Answered
  <1>2. CASE q = "accounts"
    <2>1. Value(now, "accounts") = accounts
      BY <1>1, <1>2 DEF Answer
    <2>2. Has(now, "totals") = Has(ask, "totals") /\ Value(now, "totals") = Value(ask, "totals")
      BY <1>1, <1>2
    <2>3. Has(ask, "totals") => DOMAIN Value(ask, "totals") \subseteq accounts
      BY DEF TrialFits, TotalList
    <2>. QED  BY <1>1, <2>1, <2>2, <2>3 DEF TrialFits
  <1>3. CASE q = "totals"
    <2>. PICK totals : totals = PostedTotals(ask.from, ask.to)
      OBVIOUS
    <2>1. Value(now, "totals") = totals
      BY <1>1, <1>3 DEF Answer
    <2>2. Has(now, "accounts") = Has(ask, "accounts") /\ Value(now, "accounts") = Value(ask, "accounts")
      BY <1>1, <1>3
    <2>3. TotalList(totals)
      BY TotalsAre
    <2>4. IsBalanced(BuildTrialBalance(totals, DOMAIN totals))
      BY TrialBalances
    <2>5. DOMAIN totals \subseteq accounts
      BY <2>3 DEF TotalList
    <2>6. ~ask.overtaken /\ Has(ask, "accounts") => Value(ask, "accounts") = accounts
      BY <1>3 DEF TrialFits
    <2>. QED  BY <1>1, <1>3, <2>1, <2>2, <2>3, <2>4, <2>5, <2>6 DEF TrialFits
  <1>. QED  BY <1>2, <1>3

LEMMA QueryFits ==
  ASSUME TypeOK, JournalsBalance, NEW ask, AskFits(ask), ask.kind # "none", NEW q \in QueriesOf[ask.kind],
         ~Has(ask, q), \A w \in Waits : w[1] = q => Has(ask, w[2]),
         NEW now, now = [ask EXCEPT !.got[q] = Read(Answer(q, ask))]
  PROVE  AskFits(now)
  <1>1. AskShape(ask) /\ StatementFits(ask) /\ TrialFits(ask) /\ ask.kind \in {"statement", "trial"}
    BY DEF AskFits, AskShape
  <1>2. q \in Queries
    BY <1>1 DEF Queries, QueriesOf
  <1>. PICK v : v = Answer(q, ask)
    OBVIOUS
  <1>3. Answered(now, ask, q, v)
    BY <1>1, <1>2, AnswerIs
  <1>4. now.kind = ask.kind /\ now.overtaken = ask.overtaken /\ AskShape(now)
    BY <1>3 DEF Answered
  <1>5. CASE ask.kind = "statement"
    <2>1. q \in StatementQueries
      BY <1>5 DEF QueriesOf, StatementQueries
    <2>2. StatementRead(ask) /\ (~ask.overtaken => StatementFresh(ask))
      BY <1>1, <1>5 DEF StatementFits, AllRead
    <2>3. StatementRead(now) /\ (StatementFresh(ask) => StatementFresh(now))
      BY <1>3, <2>1, <2>2, StatementQueryReads
    <2>4. ~now.overtaken => StatementTies(now) /\ StatementFresh(now)
      BY <1>4, <2>2, <2>3, FreshTies
    <2>. QED  BY <1>4, <1>5, <2>3, <2>4 DEF AskFits, StatementFits, TrialFits
  <1>6. CASE ask.kind = "trial"
    <2>1. q \in {"accounts", "totals"}
      BY <1>6 DEF QueriesOf
    <2>2. TrialFits(now)
      BY <1>1, <1>3, <1>6, <2>1, TrialQueryReads
    <2>. QED  BY <1>4, <1>6, <2>2 DEF AskFits, StatementFits
  <1>. QED  BY <1>1, <1>5, <1>6

-----------------------------------------------------------------------------
(* The steps that post nothing, one by one.                                *)

Stays == StepTyped /\ LinksGrow /\ UNCHANGED journals

LEMMA AskFitsThen ==
  ASSUME TypeOK, JournalsBalance, RequestsFit, Stays, NEW r \in Requests, Ask(r) \/ Query(r)
  PROVE  RequestsFit'
  <1>0. UNCHANGED accounts /\ DOMAIN req' = Requests /\ \A o \in Requests \ {r} : req'[o] = req[o]
    BY Zenon DEF Ask, Query, RequestsFit
  <1>1. ASSUME NEW ask, AskFits(ask) PROVE AskFits(ask)'
    BY <1>0, <1>1, AskKept DEF Stays
  <1>. PICK ask : ask = req[r]
    OBVIOUS
  <1>. PICK now : now = req'[r]
    OBVIOUS
  <1>2. AskFits(ask)
    BY DEF RequestsFit
  <1>3. CASE Ask(r)
    <2>1. PICK question \in Questions :
             now = [Unasked EXCEPT !.kind = question.kind, !.customer = question.customer,
                                   !.from = question.from, !.to = question.to]
      BY <1>3, Zenon DEF Ask, RequestsFit
    <2>2. /\ DOMAIN now = DOMAIN Unasked /\ now.kind = question.kind /\ now.customer = question.customer
          /\ now.from = question.from /\ now.to = question.to /\ now.got = [q \in Queries |-> NoRead]
          /\ now.overtaken = FALSE
      BY <2>1 DEF Unasked
    <2>3. /\ question.kind \in {"statement", "trial"}
          /\ question.kind = "statement" =>
                /\ question.customer \in Customers /\ question.from \in Int /\ question.to \in Int
                /\ question.from <= question.to
          /\ question.kind = "trial" => question.from = None /\ question.to \in Int \cup {None}
      BY InputsAssumption
    <2>4. \A q \in Queries : Has(now, q) = FALSE
      BY <2>2 DEF Has, NoRead
    <2>5. {"opening", "journals", "labels", "balance", "open", "accounts", "totals"} \subseteq Queries
      BY DEF Queries, QueriesOf
    <2>6. AskShape(now)
      BY <2>2, <2>3, <2>4 DEF AskShape
    <2>7. StatementFits(now)
      BY <2>2, <2>3, <2>4, <2>5 DEF StatementFits, StatementRead, StatementTies, StatementFresh
    <2>8. TrialFits(now)
      BY <2>2, <2>3, <2>4, <2>5 DEF TrialFits
    <2>9. AskFits(now)'
      BY <1>1, <2>6, <2>7, <2>8 DEF AskFits
    <2>. QED  BY <1>0, <1>1, <2>9 DEF RequestsFit
  <1>4. CASE Query(r)
    <2>1. PICK q \in QueriesOf[ask.kind] :
             /\ ~Has(ask, q) /\ \A w \in Waits : w[1] = q => Has(ask, w[2])
             /\ now = [ask EXCEPT !.got[q] = Read(Answer(q, ask))]
      BY <1>4 DEF Query, RequestsFit, Has
    <2>2. ask.kind # "none"
      BY <1>4 DEF Query
    <2>3. AskFits(now)
      BY <1>2, <2>1, <2>2, QueryFits
    <2>4. AskFits(now)'
      BY <1>1, <2>3
    <2>. QED  BY <1>0, <1>1, <2>4 DEF RequestsFit
  <1>. QED  BY <1>3, <1>4

LEMMA ChartFits ==
  ASSUME TypeOK, RequestsFit, Stays, NEW a, CreateAccount(a)
  PROVE  RequestsFit'
  <1>0. Overtake("trial") /\ accounts \subseteq accounts'
    BY DEF CreateAccount
  <1>1. /\ DOMAIN req' = Requests
        /\ \A r \in Requests :
              req'[r] = IF Reading(r, "trial") THEN [req[r] EXCEPT !.overtaken = TRUE] ELSE req[r]
    BY <1>0, OvertakeIs
  <1>2. ASSUME NEW r \in Requests, NEW now, now = req'[r] PROVE AskFits(now)'
    <2>. PICK ask : ask = req[r]
      OBVIOUS
    <2>1. AskFits(ask)
      BY DEF RequestsFit
    <2>2. CASE ask.kind = "trial"
      <3>1. CASE Reading(r, "trial")
        <4>1. now = [ask EXCEPT !.overtaken = TRUE]
          BY <1>1, <1>2, <3>1
        <4>. QED  BY <1>0, <2>1, <2>2, <4>1, ChartGrew
      <3>2. CASE ~Reading(r, "trial")
        <4>1. now = ask
          BY <1>1, <1>2, <3>2
        <4>2. (\A q \in QueriesOf["trial"] : Has(ask, q)) \/ (\A q \in QueriesOf["trial"] : ~Has(ask, q))
          BY <2>2, <3>2 DEF Reading, Partly, Has
        <4>. QED  BY <1>0, <2>1, <2>2, <4>1, <4>2, ChartGrew
      <3>. QED  BY <3>1, <3>2
    <2>3. CASE ask.kind # "trial"
      <3>1. now = ask
        BY <1>1, <1>2, <2>3 DEF Reading
      <3>. QED  BY <2>1, <2>3, <3>1, AskKept DEF Stays
    <2>. QED  BY <2>2, <2>3
  <1>. QED  BY <1>1, <1>2 DEF RequestsFit

LEMMA NothingAsked ==
  ASSUME TypeOK, RequestsFit, Stays, UNCHANGED <<accounts, req>>
  PROVE  RequestsFit'
  <1>1. ASSUME NEW ask, AskFits(ask) PROVE AskFits(ask)'
    BY <1>1, AskKept DEF Stays
  <1>. QED  BY <1>1 DEF RequestsFit

-----------------------------------------------------------------------------
(* A statement is stored.                                                  *)

(* Debits and credits of the rows come to all that moved. *)
LEMMA SidesAddUp ==
  ASSUME TypeOK, NEW opening \in Int, NEW rows, rows \in Seq(DOMAIN journals)
  PROVE  LET ledger == CustomerTransactions(opening, rows)
         IN  /\ ledger.opening + ledger.debit - ledger.credit = ledger.closing
             /\ ledger.closing = opening + AllMoved(rows) /\ ledger.closing \in Int
  <1>. DEFINE D == DOMAIN rows
              debits == {n \in D : CustomerAmount(rows[n]) > 0}
              rest == D \ debits
              f == [n \in D |-> CustomerAmount(rows[n])]
              ledger == CustomerTransactions(opening, rows)
  <1>1. Len(rows) \in Nat /\ D = 1 .. Len(rows)
    OBVIOUS
  <1>2. IsFiniteSet(D) /\ IsFiniteSet(debits) /\ IsFiniteSet(rest)
    <2>1. IsFiniteSet(D) /\ debits \subseteq D /\ rest \subseteq D
      BY <1>1, FS_Interval, SMTT(30)
    <2>. HIDE DEF D, debits, rest
    <2>. QED  BY <2>1, FS_Subset
  <1>3. f \in [D -> Int]
    <2>1. \A n \in D : rows[n] \in DOMAIN journals
      OBVIOUS
    <2>2. \A n \in D : CustomerAmount(rows[n]) \in Int
      BY <2>1, Indices DEF TypeOK
    <2>. HIDE DEF D
    <2>. QED  BY <2>2
  <1>4. \A S \in SUBSET D : Moved(rows, S) = SumFunctionOnSet(f, S)
    <2>. TAKE S \in SUBSET D
    <2>1. IsFiniteSet(S)
      BY <1>2, FS_Subset
    <2>2. \A n \in S : [m \in S |-> CustomerAmount(rows[m])][n] = f[n]
      OBVIOUS
    <2>. HIDE DEF D, f
    <2>3. SumFunctionOnSet([m \in S |-> CustomerAmount(rows[m])], S) = SumFunctionOnSet(f, S)
      BY <2>1, <2>2, SumSame
    <2>. QED  BY <2>3 DEF Moved, SumFunction
  <1>5. /\ ledger.opening = opening /\ ledger.debit = Moved(rows, debits) /\ ledger.credit = 0 - Moved(rows, rest)
        /\ ledger.closing = opening + Moved(rows, 1 .. Len(rows))
    BY DEF CustomerTransactions
  <1>6. debits \cap rest = {} /\ debits \cup rest = D /\ debits \subseteq D /\ rest \subseteq D
    OBVIOUS
  <1>. HIDE DEF D, debits, rest, f, ledger
  <1>7. \A n \in debits \cup rest : f[n] \in Int
    BY <1>3, <1>6
  <1>8. /\ SumFunctionOnSet(f, debits \cup rest) = SumFunctionOnSet(f, debits) + SumFunctionOnSet(f, rest)
        /\ SumFunctionOnSet(f, debits) \in Int /\ SumFunctionOnSet(f, rest) \in Int
    BY <1>2, <1>6, <1>7, SumParts
  <1>9. /\ Moved(rows, D) = Moved(rows, debits) + Moved(rows, rest)
        /\ Moved(rows, debits) \in Int /\ Moved(rows, rest) \in Int
    BY <1>4, <1>6, <1>8
  <1>10. ledger.closing = opening + Moved(rows, D)
    BY <1>1, <1>5
  <1>. QED  BY <1>5, <1>9, <1>10 DEF AllMoved, D, ledger

LEMMA InsertedStands ==
  ASSUME TypeOK, NEW ask, AskFits(ask), ask.kind = "statement", AllRead(ask), NEW st,
         st = [customer |-> ask.customer, overtaken |-> ask.overtaken,
               ledger |-> CustomerTransactions(Value(ask, "opening"), Value(ask, "journals")),
               rows |-> [n \in DOMAIN Value(ask, "journals") |->
                            [journal |-> Value(ask, "journals")[n], type |-> Value(ask, "labels")[n]]],
               aging |-> Aging(Value(ask, "balance"), Value(ask, "open"), ask.to)]
  PROVE  StatementStands(st)
  <1>. PICK opening : opening = Value(ask, "opening")
    OBVIOUS
  <1>. PICK js : js = Value(ask, "journals")
    OBVIOUS
  <1>. PICK labels : labels = Value(ask, "labels")
    OBVIOUS
  <1>. PICK balance : balance = Value(ask, "balance")
    OBVIOUS
  <1>. PICK open : open = Value(ask, "open")
    OBVIOUS
  <1>0. \A q \in {"opening", "journals", "labels", "balance", "open"} : Has(ask, q)
    BY DEF AllRead, QueriesOf
  <1>1. StatementRead(ask) /\ (~ask.overtaken => StatementTies(ask))
    BY DEF AskFits, StatementFits
  <1>2. /\ opening \in Int /\ js \in Seq(DOMAIN journals) /\ balance \in Int /\ OpenList(open)
        /\ labels = [n \in DOMAIN js |-> Label(js[n])]
    BY <1>0, <1>1 DEF StatementRead
  <1>3. /\ st.overtaken = ask.overtaken /\ st.ledger = CustomerTransactions(opening, js)
        /\ st.rows = [n \in DOMAIN js |-> [journal |-> js[n], type |-> labels[n]]]
        /\ st.aging = Aging(balance, open, ask.to)
    OBVIOUS
  <1>4. /\ st.ledger.opening + st.ledger.debit - st.ledger.credit = st.ledger.closing
        /\ st.ledger.closing = opening + AllMoved(js) /\ st.ledger.closing \in Int
    BY <1>2, <1>3, SidesAddUp
  <1>5. \A n \in DOMAIN st.rows :
           st.rows[n].journal \in DOMAIN journals /\ st.rows[n].type = Label(st.rows[n].journal)
    <2>1. \A n \in DOMAIN js : js[n] \in DOMAIN journals
      BY <1>2
    <2>. QED  BY <1>2, <1>3, <2>1
  <1>6. ASSUME ~ask.overtaken PROVE InBuckets(st.aging, AgingBuckets) + st.aging.notInvoiced = st.ledger.closing
    <2>1. balance = opening + AllMoved(js)
      BY <1>0, <1>1, <1>6 DEF StatementTies
    <2>2. InBuckets(st.aging, AgingBuckets) = LeftOn(open)
      BY <1>2, <1>3, BucketsAddUp
    <2>3. st.aging.notInvoiced = balance - LeftOn(open)
      BY <1>3 DEF Aging
    <2>4. LeftOn(open) \in Int
      BY <1>2, LeftsAddUp DEF LeftOn
    <2>. QED  BY <1>2, <1>4, <2>1, <2>2, <2>3, <2>4
  <1>. QED  BY <1>3, <1>4, <1>5, <1>6 DEF StatementStands

LEMMA OverItself ==
  ASSUME NEW S, NEW s \in Seq(S)
  PROVE  s \in Seq({s[k] : k \in DOMAIN s})
  <1>. PICK them : them = {s[k] : k \in DOMAIN s}
    OBVIOUS
  <1>1. Len(s) \in Nat /\ DOMAIN s = 1 .. Len(s) /\ s \in [1 .. Len(s) -> S]
    OBVIOUS
  <1>2. \A k \in 1 .. Len(s) : s[k] \in them
    BY <1>1
  <1>3. s \in [1 .. Len(s) -> them]
    BY <1>1, <1>2
  <1>4. s \in Seq(them)
    BY <1>1, <1>3, SMTT(30)
  <1>. QED  BY <1>4

LEMMA InsertFits ==
  ASSUME TypeOK, RequestsFit, StatementsStand, Stays, NEW r \in Requests, InsertStatement(r)
  PROVE  RequestsFit' /\ StatementsStand'
  <1>0. /\ UNCHANGED accounts /\ DOMAIN req' = Requests /\ \A o \in Requests \ {r} : req'[o] = req[o]
        /\ req'[r] = [Unasked EXCEPT !.stored = TRUE]
    BY DEF InsertStatement, RequestsFit
  <1>1. ASSUME NEW ask, AskFits(ask) PROVE AskFits(ask)'
    BY <1>0, <1>1, AskKept DEF Stays
  <1>2. RequestsFit'
    <2>. PICK now : now = req'[r]
      OBVIOUS
    <2>1. DOMAIN now = DOMAIN Unasked /\ now.kind = "none" /\ now.overtaken = FALSE /\ now.got = [q \in Queries |-> NoRead]
      BY <1>0 DEF Unasked
    <2>2. \A q \in Queries : Has(now, q) = FALSE
      BY <2>1 DEF Has, NoRead
    <2>3. AskShape(now)
      BY <2>1, <2>2 DEF AskShape
    <2>4. StatementFits(now) /\ TrialFits(now)
      BY <2>1 DEF StatementFits, TrialFits
    <2>5. AskFits(now)'
      BY <1>1, <2>3, <2>4 DEF AskFits
    <2>. QED  BY <1>0, <1>1, <2>5 DEF RequestsFit
  <1>. PICK ask : ask = req[r]
    OBVIOUS
  <1>. PICK st :
         st = [customer |-> ask.customer, overtaken |-> ask.overtaken,
               ledger |-> CustomerTransactions(Value(ask, "opening"), Value(ask, "journals")),
               rows |-> [n \in DOMAIN Value(ask, "journals") |->
                            [journal |-> Value(ask, "journals")[n], type |-> Value(ask, "labels")[n]]],
               aging |-> Aging(Value(ask, "balance"), Value(ask, "open"), ask.to)]
    OBVIOUS
  <1>3. statements' = Append(statements, st) /\ ask.kind = "statement" /\ AllRead(ask)
    BY DEF InsertStatement, Complete, Got, Value, AllRead, Has
  <1>4. StatementStands(st)'
    <2>1. AskFits(ask)
      BY DEF RequestsFit
    <2>2. StatementStands(st)
      BY <1>3, <2>1, InsertedStands
    <2>. QED  BY <2>2, StatementKept DEF Stays
  <1>5. \A s \in DOMAIN statements : \A old \in {statements[s]} : StatementStands(old)'
    BY StatementKept DEF Stays, StatementsStand
  <1>6. /\ statements \in Seq({statements[s] : s \in DOMAIN statements})
        /\ Len(statements) \in Nat /\ DOMAIN statements = 1 .. Len(statements)
    BY DEF StatementsStand
  <1>. PICK all : all = {statements[s] : s \in DOMAIN statements} \cup {st}
    OBVIOUS
  <1>7. statements \in Seq(all) /\ st \in all
    BY <1>6
  <1>8. /\ statements' \in Seq(all) /\ DOMAIN statements' = DOMAIN statements \cup {Len(statements) + 1}
        /\ statements'[Len(statements) + 1] = st /\ \A s \in DOMAIN statements : statements'[s] = statements[s]
    BY <1>3, <1>7
  <1>9. statements' \in Seq({statements'[s] : s \in DOMAIN statements'})
    BY <1>8, OverItself
  <1>10. \A s \in DOMAIN statements' : \A new \in {statements'[s]} : StatementStands(new)'
    BY <1>4, <1>5, <1>8
  <1>11. StatementsStand'
    BY <1>9, <1>10 DEF StatementsStand
  <1>. QED  BY <1>2, <1>11

-----------------------------------------------------------------------------
(* The invariant holds.                                                    *)

LEMMA QuietFits ==
  ASSUME TypeOK, JournalsBalance, RequestsFit, StatementsStand, StepTyped, LinksGrow, QuietNext
  PROVE  RequestsFit' /\ StatementsStand'
  <1>1. Stays \/ ~UNCHANGED journals
    BY DEF Stays
  <1>2. CASE \E a \in LateAccounts : CreateAccount(a)
    <2>1. PICK a : CreateAccount(a)
      BY <1>2
    <2>2. UNCHANGED <<journals, statements>>
      BY <2>1 DEF CreateAccount
    <2>3. RequestsFit'
      BY <1>1, <2>1, <2>2, ChartFits
    <2>. QED  BY <2>2, <2>3, StatementsKept
  <1>3. CASE Tick \/ UNCHANGED vars
    <2>1. UNCHANGED <<journals, accounts, req, statements>>
      BY <1>3 DEF Tick, vars
    <2>2. RequestsFit'
      BY <1>1, <2>1, NothingAsked
    <2>. QED  BY <2>1, <2>2, StatementsKept
  <1>4. CASE \E r \in Requests : Ask(r) \/ Query(r)
    <2>1. PICK r \in Requests : Ask(r) \/ Query(r)
      BY <1>4, Zenon
    <2>2. UNCHANGED <<journals, statements>>
      BY <2>1, Zenon DEF Ask, Query
    <2>3. RequestsFit'
      BY <1>1, <2>1, <2>2, AskFitsThen
    <2>. QED  BY <2>2, <2>3, StatementsKept
  <1>5. CASE \E r \in Requests : InsertStatement(r)
    <2>1. PICK r \in Requests : InsertStatement(r)
      BY <1>5
    <2>2. UNCHANGED journals
      BY <2>1 DEF InsertStatement
    <2>. QED  BY <1>1, <2>1, <2>2, InsertFits
  <1>. QED  BY <1>2, <1>3, <1>4, <1>5, Zenon DEF QuietNext

LEMMA IInvStep ==
  ASSUME IInv, [Next]_vars
  PROVE  IInv'
  <1>0. Books /\ DocumentsPosted /\ Booked /\ RequestsFit /\ StatementsStand /\ TypeOK /\ JournalsBalance
    BY DEF IInv, Books
  <1>1. CASE BookStep
    <2>1. Posted
      BY <1>0, <1>1, BookStepPosts
    <2>2. RequestsFit'
      BY <1>0, <2>1, PostedRequests
    <2>3. StepTyped /\ LinksGrow /\ UNCHANGED statements /\ Books' /\ DocumentsPosted' /\ Booked'
      BY <2>1 DEF Posted
    <2>4. StatementsStand'
      BY <1>0, <2>3, StatementsKept
    <2>. QED  BY <2>2, <2>3, <2>4 DEF IInv
  <1>2. CASE QuietNext
    <2>1. QuietStep
      BY <1>0, <1>2, QuietIs
    <2>2. StepTyped /\ LinksGrow /\ Books' /\ DocumentsPosted' /\ Booked'
      BY <1>0, <2>1, QuietPosts
    <2>3. RequestsFit' /\ StatementsStand'
      BY <1>0, <1>2, <2>2, QuietFits
    <2>. QED  BY <2>2, <2>3 DEF IInv
  <1>. QED  BY <1>0, <1>1, <1>2, StepIs

(* The invariant holds in every reachable state: the ledger moves as the
   documents do, and what a request has read is of now unless a posting
   overtook it. *)
THEOREM Inductive == Spec => []IInv
  BY InitIInv, IInvStep, PTL DEF Spec

-----------------------------------------------------------------------------
(* What the invariant says of statements and trial balances.               *)

(* A statement nothing overtook adds up. *)
THEOREM StatementsAlwaysAddUp == Spec => []StatementsAddUp
  <1>1. ASSUME IInv PROVE StatementsAddUp
    <2>1. \A s \in DOMAIN statements : StatementStands(statements[s])
      BY <1>1 DEF IInv, StatementsStand
    <2>. QED  BY <2>1 DEF StatementsAddUp, StatementStands
  <1>. QED  BY <1>1, Inductive, PTL

(* The names in a statement are the names the ledger has ever after. *)
THEOREM NamesAlwaysStand == Spec => []NamesStand
  <1>1. ASSUME IInv PROVE NamesStand
    <2>1. \A s \in DOMAIN statements : StatementStands(statements[s])
      BY <1>1 DEF IInv, StatementsStand
    <2>. QED  BY <2>1 DEF NamesStand, StatementStands
  <1>. QED  BY <1>1, Inductive, PTL

(* A trial balance read without an account created in between balances. *)
THEOREM TrialBalancesBalance == Spec => []BalancedUnlessTheChartGrew
  <1>1. ASSUME IInv PROVE BalancedUnlessTheChartGrew
    <2>1. SUFFICES ASSUME NEW r \in Requests, req[r].kind = "trial", Complete(r), ~req[r].overtaken
                   PROVE  IsBalanced(BuildTrialBalance(Got(r, "totals"), Got(r, "accounts")))
      BY DEF BalancedUnlessTheChartGrew
    <2>. PICK ask : ask = req[r]
      OBVIOUS
    <2>. PICK totals : totals = Got(r, "totals")
      OBVIOUS
    <2>. PICK known : known = Got(r, "accounts")
      OBVIOUS
    <2>2. TrialFits(ask)
      BY <1>1 DEF IInv, RequestsFit, AskFits
    <2>3. Has(ask, "accounts") /\ Has(ask, "totals") /\ Value(ask, "totals") = totals /\ Value(ask, "accounts") = known
      BY <2>1 DEF Complete, QueriesOf, Has, Got, Value
    <2>4. DOMAIN totals \subseteq known /\ IsBalanced(BuildTrialBalance(totals, DOMAIN totals))
      BY <2>1, <2>2, <2>3 DEF TrialFits
    <2>5. DOMAIN totals \cap known = DOMAIN totals \cap DOMAIN totals
      BY <2>4
    <2>6. BuildTrialBalance(totals, known) = BuildTrialBalance(totals, DOMAIN totals)
      BY <2>5, Zenon DEF BuildTrialBalance
    <2>. QED  BY <2>4, <2>6, Zenon
  <1>. QED  BY <1>1, Inductive, PTL

-----------------------------------------------------------------------------
(* Reports over one ledger.                                                *)

(* The balances of the accounts of some types. *)
OfTypes(rows, types) == [a \in DOMAIN rows |-> IF AccountType[a] \in types THEN rows[a] ELSE 0]

LEMMA OfTypeIs ==
  ASSUME NEW D, IsFiniteSet(D), NEW rows \in [D -> Int], NEW types
  PROVE  OfTypes(rows, types) \in [D -> Int] /\ OfType(rows, types) = SumFunction(OfTypes(rows, types))
  <1>. DEFINE f == OfTypes(rows, types)
              T == {a \in D : AccountType[a] \in types}
              g == [a \in T |-> rows[a]]
  <1>1. f \in [D -> Int] /\ \A a \in D : f[a] = IF AccountType[a] \in types THEN rows[a] ELSE 0
    BY DEF OfTypes
  <1>2. OfType(rows, types) = SumFunction(g)
    BY DEF OfType
  <1>3. T \in SUBSET D /\ g \in [T -> Int] /\ \A a \in T : g[a] = rows[a]
    OBVIOUS
  <1>4. /\ \A a \in T : AccountType[a] \in types
        /\ \A a \in D \ T : AccountType[a] \notin types
    OBVIOUS
  <1>. HIDE DEF f, T, g
  <1>5. PartOf(g, f, T, D)
    BY <1>1, <1>3, <1>4 DEF PartOf
  <1>6. SumFunction(g) = SumFunction(f)
    BY <1>5, SumPartOf
  <1>. QED  BY <1>1, <1>2, <1>6 DEF f

(* Profit since ever is what assets exceed liabilities and equity by. *)
LEMMA ProfitTies ==
  ASSUME TypeOK, JournalsBalance, NEW from, NEW to, NEW totals, totals = PostedTotals(from, to)
  PROVE  LET known == DOMAIN AccountType
             sheet == BuildTrialBalance(totals, known).rows
         IN  ProfitAndLoss(totals, known) = OfType(sheet, {"ASSET"}) - OfType(sheet, {"LIABILITY", "EQUITY"})
  <1>. DEFINE D == DOMAIN totals
              A == DOMAIN AccountType
              nets == Nets(Counted(from, to))
              rows == [a \in D |-> NaturalBalance(a, totals[a])]
              lines == Restrict(rows, {a \in DOMAIN rows : IsProfitAndLoss(a)})
              h == [a \in D |-> nets[a]]
  <1>1. /\ Counted(from, to) \in SUBSET DOMAIN journals
        /\ D \subseteq A /\ IsFiniteSet(D) /\ TotalList(totals)
        /\ \A a \in D : totals[a].debit - totals[a].credit = nets[a]
        /\ \A a \in A \ D : nets[a] = 0
    BY TotalsAre
  <1>2. IsFiniteSet(A) /\ nets \in [A -> Int] /\ SumFunction(nets) = 0
    BY <1>1, NetsBalance
  <1>3. \A a \in D : totals[a].debit \in Int /\ totals[a].credit \in Int /\ nets[a] \in Int
    BY <1>1, <1>2 DEF TotalList
  <1>4. D \cap A = D
    BY <1>1
  <1>5. BuildTrialBalance(totals, A).rows = rows
    BY <1>4 DEF BuildTrialBalance
  <1>6. ProfitAndLoss(totals, A) = OfType(lines, {"INCOME"}) - OfType(lines, {"EXPENSE"})
    BY <1>5 DEF ProfitAndLoss
  <1>. HIDE DEF nets
  <1>7. /\ rows \in [D -> Int] /\ DOMAIN rows = D
        /\ \A a \in D : rows[a] = IF AccountType[a] \in {"ASSET", "EXPENSE"} THEN nets[a] ELSE 0 - nets[a]
    <2>1. ASSUME NEW a \in D
          PROVE  NaturalBalance(a, totals[a]) = IF AccountType[a] \in {"ASSET", "EXPENSE"} THEN nets[a] ELSE 0 - nets[a]
      <3>1. totals[a].debit \in Int /\ totals[a].credit \in Int /\ nets[a] = totals[a].debit - totals[a].credit
        BY <1>1, <1>3
      <3>. QED  BY <3>1 DEF NaturalBalance, NaturalSide
    <2>. HIDE DEF D
    <2>. QED  BY <1>3, <2>1
  <1>8. ASSUME NEW types \in SUBSET {"INCOME", "EXPENSE"} PROVE OfType(lines, types) = OfType(rows, types)
    <2>. DEFINE P == {a \in DOMAIN rows : IsProfitAndLoss(a)}
    <2>1. DOMAIN lines = P /\ \A a \in P : lines[a] = rows[a]
      BY DEF Restrict
    <2>2. {a \in P : AccountType[a] \in types} = {a \in DOMAIN rows : AccountType[a] \in types}
      BY DEF IsProfitAndLoss
    <2>3. [a \in {a \in P : AccountType[a] \in types} |-> lines[a]]
            = [a \in {a \in DOMAIN rows : AccountType[a] \in types} |-> rows[a]]
      BY <2>1, <2>2
    <2>. HIDE DEF P, lines, rows
    <2>. QED  BY <2>1, <2>3 DEF OfType
  <1>9. \A a \in D : AccountType[a] \in {"ASSET", "LIABILITY", "EQUITY", "INCOME", "EXPENSE"}
    BY <1>1, TablesAssumption
  <1>. HIDE DEF D, A, rows, lines
  <1>. DEFINE assets == OfTypes(rows, {"ASSET"})
              owed == OfTypes(rows, {"LIABILITY", "EQUITY"})
              income == OfTypes(rows, {"INCOME"})
              expense == OfTypes(rows, {"EXPENSE"})
              wealth == [a \in D |-> assets[a] - owed[a]]
              profit == [a \in D |-> income[a] - expense[a]]
  <1>10. /\ assets \in [D -> Int] /\ owed \in [D -> Int] /\ income \in [D -> Int] /\ expense \in [D -> Int]
         /\ OfType(rows, {"ASSET"}) = SumFunction(assets)
         /\ OfType(rows, {"LIABILITY", "EQUITY"}) = SumFunction(owed)
         /\ OfType(rows, {"INCOME"}) = SumFunction(income)
         /\ OfType(rows, {"EXPENSE"}) = SumFunction(expense)
    BY <1>1, <1>7, OfTypeIs
  <1>11. /\ wealth \in [D -> Int] /\ profit \in [D -> Int]
         /\ \A a \in D : wealth[a] = assets[a] - owed[a] /\ profit[a] = income[a] - expense[a]
    <2>. HIDE DEF assets, owed, income, expense
    <2>1. \A a \in D : assets[a] \in Int /\ owed[a] \in Int /\ income[a] \in Int /\ expense[a] \in Int
      BY <1>10
    <2>. QED  BY <2>1
  <1>12. \A a \in D : wealth[a] - profit[a] = nets[a]
    <2>1. \A a \in D : /\ assets[a] = (IF AccountType[a] = "ASSET" THEN nets[a] ELSE 0)
                       /\ owed[a] = (IF AccountType[a] \in {"LIABILITY", "EQUITY"} THEN 0 - nets[a] ELSE 0)
                       /\ income[a] = (IF AccountType[a] = "INCOME" THEN 0 - nets[a] ELSE 0)
                       /\ expense[a] = (IF AccountType[a] = "EXPENSE" THEN nets[a] ELSE 0)
      BY <1>7 DEF OfTypes
    <2>. HIDE DEF assets, owed, income, expense, wealth, profit
    <2>. QED  BY <1>3, <1>9, <1>11, <2>1
  <1>13. h \in [D -> Int] /\ \A a \in D : h[a] = nets[a]
    BY <1>3
  <1>. HIDE DEF assets, owed, income, expense, wealth, profit, h
  <1>14. PartOf(h, nets, D, A)
    BY <1>1, <1>2, <1>13 DEF PartOf
  <1>15. SumFunction(h) = 0
    BY <1>2, <1>14, SumPartOf
  <1>16. IsMinus(wealth, assets, owed, D) /\ IsMinus(profit, income, expense, D) /\ IsMinus(h, wealth, profit, D)
    BY <1>1, <1>10, <1>11, <1>12, <1>13 DEF IsMinus
  <1>17. /\ SumFunction(wealth) = SumFunction(assets) - SumFunction(owed)
         /\ SumFunction(profit) = SumFunction(income) - SumFunction(expense)
         /\ SumFunction(h) = SumFunction(wealth) - SumFunction(profit)
         /\ SumFunction(wealth) \in Int /\ SumFunction(profit) \in Int
    BY <1>16, SumMinusOf
  <1>18. SumFunction(profit) = SumFunction(wealth)
    BY <1>15, <1>17
  <1>19. OfType(lines, {"INCOME"}) = OfType(rows, {"INCOME"}) /\ OfType(lines, {"EXPENSE"}) = OfType(rows, {"EXPENSE"})
    BY <1>8
  <1>. QED  BY <1>5, <1>6, <1>10, <1>17, <1>18, <1>19 DEF A

(* What a total comes to on the cash account. *)
LEMMA CashIs ==
  ASSUME TypeOK, JournalsBalance, NEW from, NEW to
  PROVE  LET cash == OfCash(PostedTotals(from, to))
         IN  /\ cash.debit \in Int /\ cash.credit \in Int
             /\ cash.debit - cash.credit = Net(Counted(from, to), Bank)
  <1>. PICK totals : totals = PostedTotals(from, to)
    OBVIOUS
  <1>0. Bank \in DOMAIN AccountType
    BY TablesAssumption
  <1>1. /\ TotalList(totals)
        /\ \A a \in DOMAIN totals : totals[a].debit - totals[a].credit = Nets(Counted(from, to))[a]
        /\ \A a \in DOMAIN AccountType \ DOMAIN totals : Nets(Counted(from, to))[a] = 0
    BY TotalsAre
  <1>2. Nets(Counted(from, to))[Bank] = Net(Counted(from, to), Bank)
    BY <1>0 DEF Nets
  <1>3. CASE Bank \in DOMAIN totals
    BY <1>1, <1>2, <1>3 DEF OfCash, TotalList
  <1>4. CASE Bank \notin DOMAIN totals
    BY <1>0, <1>1, <1>2, <1>4 DEF OfCash
  <1>. QED  BY <1>3, <1>4

(* A cash flow closes at what the trial balance has for the account. *)
LEMMA CashTies ==
  ASSUME TypeOK, JournalsBalance, NEW d \in Int
  PROVE  LET sheet == BuildTrialBalance(PostedTotals(None, d), DOMAIN AccountType).rows
         IN  CashFlow(d, d).closing = IF Bank \in DOMAIN sheet THEN sheet[Bank] ELSE 0
  <1>0. None \notin Int /\ Bank \in DOMAIN AccountType /\ AccountType[Bank] = "ASSET"
    BY TablesAssumption
  <1>. PICK totals : totals = PostedTotals(None, d)
    OBVIOUS
  <1>. PICK before : before = OfCash(PostedTotals(None, d - 1))
    OBVIOUS
  <1>. PICK moved : moved = OfCash(PostedTotals(d, d))
    OBVIOUS
  <1>. DEFINE S == Counted(None, d - 1)
              T == Counted(d, d)
              U == Counted(None, d)
              sheet == BuildTrialBalance(totals, DOMAIN AccountType).rows
              f == [k \in U |-> journals[k].lines[Bank]]
  <1>1. \A k \in DOMAIN journals : journals[k].date \in Int
    BY Indices DEF TypeOK
  <1>2. d - 1 # None /\ d # None
    BY <1>0
  <1>3. S \cup T = U /\ S \cap T = {}
    BY <1>1, <1>2 DEF Counted
  <1>4. IsFiniteSet(S) /\ IsFiniteSet(T) /\ f \in [U -> Int]
    BY <1>0, CountedIn, LinesInt
  <1>5. /\ CashFlow(d, d).closing = before.debit - before.credit + moved.debit - moved.credit
        /\ before.debit \in Int /\ before.credit \in Int /\ before.debit - before.credit = Net(S, Bank)
        /\ moved.debit \in Int /\ moved.credit \in Int /\ moved.debit - moved.credit = Net(T, Bank)
    BY CashIs DEF CashFlow
  <1>6. (IF Bank \in DOMAIN sheet THEN sheet[Bank] ELSE 0) = Net(U, Bank)
    <2>1. /\ DOMAIN totals \subseteq DOMAIN AccountType
          /\ \A a \in DOMAIN totals : totals[a].debit - totals[a].credit = Nets(U)[a]
          /\ \A a \in DOMAIN AccountType \ DOMAIN totals : Nets(U)[a] = 0
      BY TotalsAre
    <2>2. DOMAIN totals \cap DOMAIN AccountType = DOMAIN totals
      BY <2>1
    <2>3. sheet = [a \in DOMAIN totals |-> NaturalBalance(a, totals[a])]
      BY <2>2 DEF BuildTrialBalance
    <2>4. Nets(U)[Bank] = Net(U, Bank)
      BY <1>0 DEF Nets
    <2>. HIDE DEF sheet, U
    <2>. QED  BY <1>0, <2>1, <2>3, <2>4 DEF NaturalBalance, NaturalSide
  <1>7. /\ Net(S, Bank) = SumFunctionOnSet(f, S) /\ Net(T, Bank) = SumFunctionOnSet(f, T)
        /\ Net(U, Bank) = SumFunctionOnSet(f, U)
    <2>. DEFINE g(P) == [k \in P |-> journals[k].lines[Bank]]
    <2>1. DOMAIN g(S) = S /\ DOMAIN g(T) = T /\ DOMAIN f = U
      OBVIOUS
    <2>2. (\A k \in S : g(S)[k] = f[k]) /\ (\A k \in T : g(T)[k] = f[k])
      BY <1>3
    <2>3. Net(S, Bank) = SumFunction(g(S)) /\ Net(T, Bank) = SumFunction(g(T)) /\ Net(U, Bank) = SumFunction(f)
      BY DEF Net
    <2>. HIDE DEF S, T, U, f, g
    <2>4. SumFunctionOnSet(g(S), S) = SumFunctionOnSet(f, S) /\ SumFunctionOnSet(g(T), T) = SumFunctionOnSet(f, T)
      BY <1>4, <2>2, SumSame
    <2>. QED  BY <2>1, <2>3, <2>4 DEF SumFunction
  <1>. HIDE DEF S, T, U, f, sheet
  <1>8. \A k \in S \cup T : f[k] \in Int
    BY <1>3, <1>4
  <1>9. /\ SumFunctionOnSet(f, S \cup T) = SumFunctionOnSet(f, S) + SumFunctionOnSet(f, T)
        /\ SumFunctionOnSet(f, S) \in Int /\ SumFunctionOnSet(f, T) \in Int
    BY <1>3, <1>4, <1>8, SumParts
  <1>10. Net(U, Bank) = Net(S, Bank) + Net(T, Bank) /\ Net(S, Bank) \in Int /\ Net(T, Bank) \in Int
    BY <1>3, <1>7, <1>9
  <1>11. CashFlow(d, d).closing = Net(U, Bank)
    BY <1>5, <1>10
  <1>. QED  BY <1>6, <1>11 DEF sheet

(* The last row of a ledger is the customer's last activity. *)
LEMMA ActivityTies ==
  ASSUME TypeOK, NEW c, NEW d
  PROVE  LET rows == LedgerJournals(c, None, d)
         IN  LastActivity(c, d) = IF rows = <<>> THEN 0 ELSE rows[Len(rows)]
  <1>. DEFINE S == Tagged(c, Counted(None, d))
              n == Cardinality(S)
  <1>. PICK rows : rows = LedgerJournals(c, None, d)
    OBVIOUS
  <1>1. /\ n \in Nat /\ rows \in [1 .. n -> S] /\ rows \in Seq(DOMAIN journals)
        /\ Len(rows) = n /\ Names(rows, 1 .. n, S)
        /\ \A m \in 1 .. n : Place(rows[m], S) = m
    BY LedgerLists
  <1>2. S \in SUBSET DOMAIN journals
    BY CountedIn
  <1>3. LastActivity(c, d) = IF S = {} THEN 0 ELSE CHOOSE k \in S : \A l \in S : l = k \/ Earlier(l, k)
    BY DEF LastActivity
  <1>. HIDE DEF S
  <1>4. IsFiniteSet(S) /\ (n = 0 <=> S = {})
    BY <1>2, PlacesAre, FS_EmptySet
  <1>5. rows = <<>> <=> S = {}
    BY <1>1, <1>4
  <1>6. ASSUME S # {} PROVE (CHOOSE k \in S : \A l \in S : l = k \/ Earlier(l, k)) = rows[n]
    <2>. PICK k : k = rows[n]
      OBVIOUS
    <2>1. n \in 1 .. n
      BY <1>1, <1>4, <1>6
    <2>2. k \in S /\ Place(k, S) = n
      BY <1>1, <2>1
    <2>3. /\ \A l \in S : Place(l, S) \in 1 .. n
          /\ \A l \in S : Earlier(k, l) => Place(k, S) < Place(l, S)
      BY <1>2, <2>2, PlacesAre
    <2>4. \A l \in S : ~Earlier(k, l)
      <3>. HIDE DEF n
      <3>. QED  BY <1>1, <2>2, <2>3
    <2>5. \A l \in S : l = k \/ Earlier(l, k)
      BY <1>2, <2>2, <2>4, EarlierOrders
    <2>6. \A m \in S : (\A l \in S : l = m \/ Earlier(l, m)) => m = k
      BY <2>2, <2>4
    <2>. QED  BY <2>2, <2>5, <2>6
  <1>. QED  BY <1>1, <1>3, <1>5, <1>6

(* What is past due, of the open invoices of a customer. *)
Overdue(open, d) == {i \in DOMAIN open : DaysPastDue(open[i].due, d) >= 1}
PastDue == AgingBuckets \ {"CURRENT"}

LEMMA PastDueIs ==
  ASSUME NEW open, OpenList(open), NEW balance, NEW d \in Int
  PROVE  /\ InBuckets(Aging(balance, open, d), PastDue) = LeftIn(open, Overdue(open, d))
         /\ LeftIn(open, Overdue(open, d)) \in Int
  <1>. DEFINE S == Overdue(open, d)
              D == DOMAIN open
              Age(i) == AgingBucket(DaysPastDue(open[i].due, d))
              f == [i \in S |-> open[i].left]
              g == [i \in S |-> Age(i)]
              In(b) == {i \in D : Age(i) = b}
  <1>1. S \in SUBSET D
    BY DEF Overdue
  <1>2. IsFiniteSet(S) /\ f \in [S -> Int] /\ LeftIn(open, S) \in Int
    BY <1>1, LeftsAddUp
  <1>3. \A i \in D : Age(i) \in AgingBuckets /\ (Age(i) = "CURRENT" <=> i \notin S)
    <2>. TAKE i \in D
    <2>1. open[i].due \in Int
      BY DEF OpenList
    <2>2. DaysPastDue(open[i].due, d) \in Int
      BY <2>1 DEF DaysPastDue
    <2>3. i \notin S <=> DaysPastDue(open[i].due, d) <= 0
      BY <2>2 DEF Overdue
    <2>. QED  BY <2>2, <2>3, BucketIs
  <1>4. g \in [S -> PastDue]
    BY <1>1, <1>3 DEF PastDue
  <1>5. IsFiniteSet(PastDue)
    <2>1. PastDue = (((({} \cup {"DAYS_1_30"}) \cup {"DAYS_31_60"}) \cup {"DAYS_61_90"}) \cup {"DAYS_OVER_90"})
      BY DEF PastDue, AgingBuckets
    <2>. QED  BY <2>1, FS_EmptySet, FS_AddElement, Zenon
  <1>6. \A b \in PastDue : LeftIn(open, In(b)) = SumFunction(Group(f, g, b, S))
    <2>. TAKE b \in PastDue
    <2>1. {i \in S : g[i] = b} = In(b)
      BY <1>1, <1>3 DEF PastDue
    <2>2. Group(f, g, b, S) = [i \in In(b) |-> f[i]]
      BY <2>1 DEF Group
    <2>3. In(b) \subseteq S
      BY <1>3 DEF PastDue
    <2>4. [i \in In(b) |-> f[i]] = [i \in In(b) |-> open[i].left]
      BY <2>3
    <2>. QED  BY <2>2, <2>4 DEF LeftIn
  <1>7. InBuckets(Aging(balance, open, d), PastDue) = SumFunction([b \in PastDue |-> LeftIn(open, In(b))])
    <2>1. \A b \in PastDue : Aging(balance, open, d).buckets[b] = LeftIn(open, In(b))
      BY DEF Aging, PastDue
    <2>2. [b \in PastDue |-> Aging(balance, open, d).buckets[b]] = [b \in PastDue |-> LeftIn(open, In(b))]
      BY <2>1, Zenon
    <2>. QED  BY <2>2, Zenon DEF InBuckets
  <1>8. LeftIn(open, S) = SumFunction(f)
    BY DEF LeftIn
  <1>. HIDE DEF S, f, g, In, PastDue
  <1>9. [b \in PastDue |-> LeftIn(open, In(b))] = GroupSums(f, g, S, PastDue)
    BY <1>6 DEF GroupSums
  <1>10. SumFunction(GroupSums(f, g, S, PastDue)) = SumFunction(f)
    BY <1>2, <1>4, <1>5, SumOfGroups
  <1>. QED  BY <1>2, <1>7, <1>8, <1>9, <1>10 DEF S

LEMMA NoneLeft ==
  ASSUME TypeOK, NEW c, NEW d
  PROVE  LeftOn(OpenAsOf(c, d)) = 0 => DOMAIN OpenAsOf(c, d) = {}
  <1>. PICK open : open = OpenAsOf(c, d)
    OBVIOUS
  <1>. DEFINE f == [i \in DOMAIN open |-> open[i].left]
  <1>1. OpenIs(open, c, d)
    BY OpensAre
  <1>2. \A i \in DOMAIN open : open[i].left \in Int /\ open[i].left > 0
    BY <1>1 DEF OpenIs, OpenList
  <1>3. IsFiniteSet(DOMAIN open) /\ f \in [DOMAIN open -> Nat] /\ \A i \in DOMAIN open : f[i] # 0
    BY <1>1, <1>2 DEF OpenIs
  <1>4. LeftOn(open) = SumFunction(f)
    BY DEF LeftOn, LeftIn
  <1>. HIDE DEF f
  <1>5. SumFunction(f) = 0 => \A i \in DOMAIN open : f[i] = 0
    BY <1>3, SumNonNegative
  <1>. QED  BY <1>3, <1>4, <1>5

(* What is followed up is what aging has past due. *)
LEMMA FollowUpsTie ==
  ASSUME TypeOK, NEW d \in Int
  PROVE  LET open == [c \in Customers |-> OpenAsOf(c, d)]
             aging == AgingReport([c \in Customers |-> BalanceAsOf(c, d)], open, d)
         IN  SumFunction(FollowUps(open, d, 1))
               = SumFunction([c \in DOMAIN aging |-> InBuckets(aging[c], AgingBuckets \ {"CURRENT"})])
  <1>. PICK open : open = [c \in Customers |-> OpenAsOf(c, d)]
    OBVIOUS
  <1>. PICK balances : balances = [c \in Customers |-> BalanceAsOf(c, d)]
    OBVIOUS
  <1>. DEFINE aging == AgingReport(balances, open, d)
              late == FollowUps(open, d, 1)
              past == [c \in Customers |-> LeftIn(open[c], Overdue(open[c], d))]
              aged == [c \in DOMAIN aging |-> InBuckets(aging[c], AgingBuckets \ {"CURRENT"})]
              L == {c \in Customers : Overdue(open[c], d) # {}}
              A == {c \in Customers : balances[c] # 0 \/ LeftOn(open[c]) # 0}
  <1>0. IsFiniteSet(Customers)
    BY TablesAssumption
  <1>1. \A c \in Customers : OpenIs(open[c], c, d) /\ OpenList(open[c])
    BY OpensAre DEF OpenIs
  <1>2. \A c \in Customers : past[c] \in Int /\ past[c] = InBuckets(Aging(balances[c], open[c], d), PastDue)
    BY <1>1, PastDueIs
  <1>3. late = [c \in L |-> LeftIn(open[c], Overdue(open[c], d))]
    BY DEF FollowUps, Overdue
  <1>4. aging = [c \in A |-> Aging(balances[c], open[c], d)]
    BY DEF AgingReport
  <1>5. aged = [c \in A |-> InBuckets(Aging(balances[c], open[c], d), PastDue)]
    BY <1>4 DEF PastDue
  <1>6. \A c \in Customers \ L : past[c] = 0
    <2>. TAKE c \in Customers \ L
    <2>1. Overdue(open[c], d) = {}
      OBVIOUS
    <2>2. past[c] = LeftIn(open[c], {})
      BY <2>1, Zenon
    <2>3. DOMAIN [i \in {} |-> open[c][i].left] = {}
      OBVIOUS
    <2>. QED  BY <2>2, <2>3, SumEmpty DEF LeftIn, SumFunction
  <1>7. \A c \in Customers \ A : c \notin L
    <2>. TAKE c \in Customers \ A
    <2>1. LeftOn(OpenAsOf(c, d)) = 0
      OBVIOUS
    <2>2. DOMAIN OpenAsOf(c, d) = {}
      BY <2>1, NoneLeft
    <2>. QED  BY <2>2 DEF Overdue
  <1>. HIDE DEF aging
  <1>8. L \in SUBSET Customers /\ A \in SUBSET Customers /\ past \in [Customers -> Int]
    BY <1>2
  <1>9. late \in [L -> Int] /\ \A c \in L : late[c] = past[c]
    <2>. HIDE DEF late
    <2>1. \A c \in L : LeftIn(open[c], Overdue(open[c], d)) \in Int
      BY <1>2
    <2>. QED  BY <1>3, <2>1
  <1>10. aged \in [A -> Int] /\ \A c \in A : aged[c] = past[c]
    <2>1. \A c \in A : InBuckets(Aging(balances[c], open[c], d), PastDue) = past[c] /\ past[c] \in Int
      BY <1>2
    <2>. HIDE DEF aged, past, A
    <2>. QED  BY <1>5, <2>1
  <1>. HIDE DEF late, past, aged, L, A
  <1>11. PartOf(late, past, L, Customers) /\ PartOf(aged, past, A, Customers)
    BY <1>6, <1>7, <1>8, <1>9, <1>10 DEF PartOf
  <1>12. SumFunction(late) = SumFunction(past) /\ SumFunction(aged) = SumFunction(past)
    BY <1>0, <1>11, SumPartOf
  <1>. QED  BY <1>12 DEF late, aged, aging

(* Reports over one and the same ledger tie. *)
THEOREM ReportsAlwaysTie == Spec => []ReportsTie
  <1>1. ASSUME IInv PROVE ReportsTie
    <2>1. TypeOK /\ JournalsBalance /\ AsOfs \subseteq Int
      BY <1>1, InputsAssumption DEF IInv, Books
    <2>2. ASSUME NEW d \in AsOfs
          PROVE  LET known == DOMAIN AccountType
                     totals == PostedTotals(None, d)
                     sheet == BuildTrialBalance(totals, known).rows
                 IN  /\ ProfitAndLoss(totals, known) = OfType(sheet, {"ASSET"}) - OfType(sheet, {"LIABILITY", "EQUITY"})
                     /\ CashFlow(d, d).closing = (IF Bank \in DOMAIN sheet THEN sheet[Bank] ELSE 0)
      BY <2>1, ProfitTies, CashTies
    <2>3. ASSUME NEW d \in AsOfs
          PROVE  LET open == [c \in Customers |-> OpenAsOf(c, d)]
                     aging == AgingReport([c \in Customers |-> BalanceAsOf(c, d)], open, d)
                 IN  SumFunction(FollowUps(open, d, 1))
                       = SumFunction([c \in DOMAIN aging |-> InBuckets(aging[c], AgingBuckets \ {"CURRENT"})])
      BY <2>1, FollowUpsTie
    <2>4. ASSUME NEW d \in AsOfs, NEW c \in Customers
          PROVE  LET rows == LedgerJournals(c, None, d)
                 IN  LastActivity(c, d) = IF rows = <<>> THEN 0 ELSE rows[Len(rows)]
      BY <2>1, ActivityTies
    <2>. QED  BY <2>2, <2>3, <2>4, Zenon DEF ReportsTie
  <1>. QED  BY <1>1, Inductive, PTL

-----------------------------------------------------------------------------
(* The ledger and the documents agree about every day.                     *)

(* Allocations made by then to a customer's invoices dated by then, added  *)
(* up invoice by invoice and credit by credit.                             *)
Given(c, d) ==
    {k \in DOMAIN allocations : /\ allocations[k].date <= d
                                /\ allocations[k].invoice \in IssuedBy(c, d)}
Paid(c, d) ==
    [i \in Docs |-> IF i \in IssuedBy(c, d) THEN Taken({k \in To(i) : allocations[k].date <= d}) ELSE 0]
Used(c, d) ==
    [x \in Holders |-> IF x \in Sources(c) /\ Source(x).date <= d THEN Since(x, d) ELSE 0]

LEMMA NoneTaken == Taken({}) = 0
  <1>1. DOMAIN [k \in {} |-> allocations[k].amount] = {}
    OBVIOUS
  <1>. QED  BY <1>1, SumEmpty DEF Taken, SumFunction

LEMMA TakenInGroups ==
  ASSUME TypeOK, NEW c, NEW d, NEW B, IsFiniteSet(B), NEW g, g \in [Given(c, d) -> B],
         NEW h, h = [b \in B |-> Taken({k \in Given(c, d) : g[k] = b})]
  PROVE  h \in [B -> Int] /\ SumFunction(h) = Taken(Given(c, d))
  <1>. DEFINE K == Given(c, d)
              f == [k \in K |-> allocations[k].amount]
  <1>1. IsFiniteSet(K) /\ f \in [K -> Nat] /\ K \subseteq DOMAIN allocations
    <2>1. K \subseteq DOMAIN allocations
      BY DEF Given
    <2>. QED  BY <2>1, AmountsTaken DEF TypeOK
  <1>2. f \in [K -> Int] /\ Taken(K) = SumFunction(f)
    BY <1>1 DEF Taken
  <1>3. \A b \in B : Taken({k \in K : g[k] = b}) = SumFunction(Group(f, g, b, K))
    <2>. TAKE b \in B
    <2>1. [k \in {k \in K : g[k] = b} |-> allocations[k].amount] = Group(f, g, b, K)
      BY DEF Group
    <2>. QED  BY <2>1, Zenon DEF Taken
  <1>4. g \in [K -> B] /\ h = [b \in B |-> Taken({k \in K : g[k] = b})]
    OBVIOUS
  <1>. HIDE DEF K, f
  <1>5. h = GroupSums(f, g, K, B)
    BY <1>3, <1>4 DEF GroupSums
  <1>6. SumFunction(GroupSums(f, g, K, B)) = SumFunction(f) /\ GroupSums(f, g, K, B) \in [B -> Int]
    BY <1>1, <1>2, <1>4, SumOfGroups
  <1>. QED  BY <1>2, <1>5, <1>6 DEF K

LEMMA PaidByInvoice ==
  ASSUME TypeOK, NEW c, NEW d
  PROVE  Paid(c, d) \in [Docs -> Int] /\ SumFunction(Paid(c, d)) = Taken(Given(c, d))
  <1>. DEFINE g == [k \in Given(c, d) |-> allocations[k].invoice]
  <1>1. IsFiniteSet(Docs)
    BY TablesAssumption
  <1>2. g \in [Given(c, d) -> Docs]
    BY AmountsTaken DEF TypeOK, Given
  <1>3. ASSUME NEW i \in Docs PROVE Paid(c, d)[i] = Taken({k \in Given(c, d) : g[k] = i})
    <2>1. CASE i \in IssuedBy(c, d)
      <3>1. {k \in Given(c, d) : g[k] = i} = {k \in To(i) : allocations[k].date <= d}
        BY <2>1 DEF Given, To
      <3>. QED  BY <2>1, <3>1 DEF Paid
    <2>2. CASE i \notin IssuedBy(c, d)
      <3>1. {k \in Given(c, d) : g[k] = i} = {}
        BY <2>2 DEF Given
      <3>. QED  BY <2>2, <3>1, NoneTaken DEF Paid
    <2>. QED  BY <2>1, <2>2
  <1>4. Paid(c, d) = [i \in Docs |-> Taken({k \in Given(c, d) : g[k] = i})]
    <2>1. Paid(c, d) = [i \in Docs |-> Paid(c, d)[i]]
      BY DEF Paid
    <2>. HIDE DEF g
    <2>. QED  BY <1>3, <2>1, Zenon
  <1>. HIDE DEF g
  <1>. QED  BY <1>1, <1>2, <1>4, TakenInGroups

LEMMA UsedByCredit ==
  ASSUME TypeOK, AllocationsFit, NEW c \in Customers, NEW d \in Int
  PROVE  Used(c, d) \in [Holders -> Int] /\ SumFunction(Used(c, d)) = Taken(Given(c, d))
  <1>. DEFINE g == [k \in Given(c, d) |-> allocations[k].from]
  <1>1. IsFiniteSet(Holders)
    BY TablesAssumption, FS_Union DEF Holders
  <1>2. g \in [Given(c, d) -> Holders]
    BY AmountsTaken DEF TypeOK, Given
  <1>3. ASSUME NEW k \in DOMAIN allocations
        PROVE  /\ allocations[k].invoice \in Docs /\ allocations[k].date \in Int
               /\ \E b \in Customers :
                     /\ invoice[allocations[k].invoice].kind = "INVOICE"
                     /\ invoice[allocations[k].invoice].customer = b
                     /\ allocations[k].from \in Sources(b)
                     /\ Source(allocations[k].from).date <= allocations[k].date
    <2>1. allocations[k].invoice \in Docs /\ allocations[k].date \in Int
      BY AmountsTaken DEF TypeOK
    <2>2. AllocationFits(k)
      BY DEF AllocationsFit
    <2>. QED  BY <2>1, <2>2 DEF AllocationFits
  <1>4. \A x, b : x \in Sources(b) => Source(x).customer = b
    BY DEF Sources
  <1>5. \A b \in Customers : \A x \in Sources(b) : Source(x).date \in Int
    BY SourcesAre DEF Sourced
  <1>6. ASSUME NEW x \in Holders PROVE Used(c, d)[x] = Taken({k \in Given(c, d) : g[k] = x})
    <2>1. CASE x \in Sources(c) /\ Source(x).date <= d
      <3>1. {k \in Given(c, d) : g[k] = x}
              = {k \in From(x) : allocations[k].date <= d /\ invoice[allocations[k].invoice].date <= d}
        <4>1. ASSUME NEW k \in From(x), allocations[k].date <= d, invoice[allocations[k].invoice].date <= d
              PROVE  k \in Given(c, d) /\ g[k] = x
          <5>1. k \in DOMAIN allocations /\ allocations[k].from = x
            BY DEF From
          <5>2. allocations[k].invoice \in IssuedBy(c, d)
            BY <1>3, <1>4, <2>1, <4>1, <5>1 DEF IssuedBy, IssuedDocs
          <5>. QED  BY <4>1, <5>1, <5>2 DEF Given
        <4>2. ASSUME NEW k \in Given(c, d), g[k] = x
              PROVE  k \in From(x) /\ allocations[k].date <= d /\ invoice[allocations[k].invoice].date <= d
          BY <4>2 DEF Given, From, IssuedBy
        <4>. HIDE DEF g
        <4>. QED  BY <4>1, <4>2
      <3>. QED  BY <2>1, <3>1 DEF Used, Since
    <2>2. CASE ~(x \in Sources(c) /\ Source(x).date <= d)
      <3>1. ASSUME NEW k \in Given(c, d), g[k] = x PROVE FALSE
        <4>1. /\ k \in DOMAIN allocations /\ allocations[k].from = x /\ allocations[k].date <= d
              /\ invoice[allocations[k].invoice].customer = c
          BY <3>1 DEF Given, IssuedBy
        <4>2. x \in Sources(c) /\ Source(x).date <= allocations[k].date /\ allocations[k].date \in Int
          BY <1>3, <4>1
        <4>. QED  BY <1>5, <2>2, <4>1, <4>2
      <3>2. {k \in Given(c, d) : g[k] = x} = {}
        BY <3>1
      <3>. QED  BY <2>2, <3>2, NoneTaken DEF Used
    <2>. QED  BY <2>1, <2>2
  <1>7. Used(c, d) = [x \in Holders |-> Taken({k \in Given(c, d) : g[k] = x})]
    <2>1. Used(c, d) = [x \in Holders |-> Used(c, d)[x]]
      BY DEF Used
    <2>. HIDE DEF g
    <2>. QED  BY <1>6, <2>1, Zenon
  <1>. HIDE DEF g
  <1>. QED  BY <1>1, <1>2, <1>7, TakenInGroups

LEMMA TakenOfLess ==
  ASSUME TypeOK, NEW T \in SUBSET DOMAIN allocations, NEW S \in SUBSET T
  PROVE  Taken(S) <= Taken(T)
  <1>. DEFINE R == T \ S
              f == [k \in T |-> allocations[k].amount]
              g == [k \in S |-> allocations[k].amount]
              h == [k \in R |-> allocations[k].amount]
  <1>1. S \subseteq DOMAIN allocations /\ R \subseteq DOMAIN allocations /\ S \cup R = T /\ S \cap R = {}
    OBVIOUS
  <1>2. /\ IsFiniteSet(S) /\ IsFiniteSet(R) /\ f \in [T -> Nat]
        /\ Taken(S) \in Nat /\ Taken(R) \in Nat /\ Taken(T) \in Nat
    BY <1>1, AmountsTaken DEF TypeOK
  <1>3. (\A k \in S : g[k] = f[k]) /\ (\A k \in R : h[k] = f[k]) /\ DOMAIN f = T /\ DOMAIN g = S /\ DOMAIN h = R
    OBVIOUS
  <1>4. Taken(S) = SumFunction(g) /\ Taken(R) = SumFunction(h) /\ Taken(T) = SumFunction(f)
    BY DEF Taken
  <1>. HIDE DEF R, f, g, h
  <1>5. SumFunctionOnSet(g, S) = SumFunctionOnSet(f, S) /\ SumFunctionOnSet(h, R) = SumFunctionOnSet(f, R)
    BY <1>2, <1>3, SumSame
  <1>6. \A k \in S \cup R : f[k] \in Int
    BY <1>1, <1>2
  <1>7. SumFunctionOnSet(f, S \cup R) = SumFunctionOnSet(f, S) + SumFunctionOnSet(f, R)
    BY <1>1, <1>2, <1>6, SumParts
  <1>8. Taken(T) = Taken(S) + Taken(R)
    BY <1>1, <1>3, <1>4, <1>5, <1>7 DEF SumFunction
  <1>. QED  BY <1>2, <1>8

(* What is left on an invoice, whether or not anything is. *)
Lefts(c, d) == [i \in Docs |-> IF i \in DOMAIN OpenAsOf(c, d) THEN LeftAsOf(i, d) ELSE 0]

(* Without an unsettled cancellation, what is left on an invoice is its    *)
(* total less what the ledger took back and what was paid.                 *)
LEMMA LeftIs ==
  ASSUME TypeOK, DocsLinked, AllocationsFit, NEW c \in Customers, NEW d \in Int, NEW i \in Docs,
         invoice[i].customer = c => ~Unsettled(i, d)
  PROVE  Lefts(c, d)[i] = Invoiced(c, d)[i] - Withdrawn(c, d)[i] - Paid(c, d)[i]
  <1>. DEFINE P == {k \in To(i) : allocations[k].date <= d}
  <1>1. OpenIs(OpenAsOf(c, d), c, d)
    BY OpensAre
  <1>2. i \in DOMAIN OpenAsOf(c, d) <=> i \in IssuedBy(c, d) /\ StandingAt(i, d) /\ LeftAsOf(i, d) > 0
    BY <1>1 DEF OpenIs
  <1>3. /\ Lefts(c, d)[i] = IF i \in DOMAIN OpenAsOf(c, d) THEN LeftAsOf(i, d) ELSE 0
        /\ Invoiced(c, d)[i] = IF i \in IssuedBy(c, d) THEN invoice[i].total ELSE 0
        /\ Withdrawn(c, d)[i] = IF invoice[i].customer = c /\ Reversed(i, d) THEN invoice[i].total ELSE 0
        /\ Paid(c, d)[i] = IF i \in IssuedBy(c, d) THEN Taken(P) ELSE 0
    BY DEF Lefts, Invoiced, Withdrawn, Paid
  <1>4. P \subseteq To(i) /\ To(i) \subseteq DOMAIN allocations
    BY DEF To
  <1>5. Taken(P) \in Nat /\ Taken(To(i)) \in Nat /\ invoice[i].total \in Nat /\ invoice[i].date \in Int
    BY <1>4, AmountsTaken, LeftsInt DEF TypeOK
  <1>6. LeftAsOf(i, d) = invoice[i].total - Taken(P)
    BY DEF LeftAsOf
  <1>7. /\ DocLinked(i)
        /\ invoice[i].reversal \in Nat /\ invoice[i].cancelled \in Nat
        /\ invoice[i].reversal # 0 => journals[invoice[i].reversal].date \in Int
    <2>1. DocLinked(i)
      BY DEF DocsLinked
    <2>2. invoice[i] \in DocRows \cup {NoInvoice}
      BY DEF TypeOK
    <2>3. invoice[i].reversal \in Nat /\ invoice[i].cancelled \in Nat
      BY <2>2 DEF DocRows, NoInvoice
    <2>4. invoice[i].reversal # 0 => invoice[i].reversal \in DOMAIN journals
      BY <2>1, <2>3, Indices DEF DocLinked, TypeOK
    <2>. QED  BY <2>1, <2>3, <2>4, Indices DEF TypeOK
  <1>8. i \in IssuedBy(c, d) <=> invoice[i].kind = "INVOICE" /\ invoice[i].customer = c /\ invoice[i].date <= d
    BY DEF IssuedBy, IssuedDocs
  <1>9. CASE invoice[i].customer = c /\ Reversed(i, d)
    <2>1. /\ invoice[i].reversal # 0 /\ journals[invoice[i].reversal].date <= d
          /\ invoice[i].kind = "INVOICE" /\ To(i) = {} /\ invoice[i].cancelled # 0
      BY <1>7, <1>9 DEF Reversed, DocLinked
    <2>2. ~(d < invoice[i].cancelled) /\ ~(d < invoice[i].date)
      BY <1>7, <1>9, <2>1 DEF Unsettled
    <2>3. i \in IssuedBy(c, d) /\ ~StandingAt(i, d)
      BY <1>5, <1>7, <1>8, <1>9, <2>1, <2>2 DEF StandingAt
    <2>4. P = {}
      BY <2>1
    <2>5. Taken(P) = 0
      BY <2>4, NoneTaken
    <2>. HIDE DEF P
    <2>. QED  BY <1>2, <1>3, <1>5, <1>9, <2>3, <2>5
  <1>10. CASE ~(invoice[i].customer = c /\ Reversed(i, d)) /\ i \in IssuedBy(c, d)
    <2>1. StandingAt(i, d)
      BY <1>7, <1>8, <1>10 DEF Reversed, DocLinked, StandingAt
    <2>2. Taken(To(i)) <= invoice[i].total
      BY <1>8, <1>10 DEF AllocationsFit
    <2>3. Taken(P) <= Taken(To(i))
      BY <1>4, TakenOfLess
    <2>. HIDE DEF P
    <2>. QED  BY <1>2, <1>3, <1>5, <1>6, <1>10, <2>1, <2>2, <2>3
  <1>11. CASE ~(invoice[i].customer = c /\ Reversed(i, d)) /\ i \notin IssuedBy(c, d)
    BY <1>2, <1>3, <1>11
  <1>. QED  BY <1>9, <1>10, <1>11

(* What is open is what was invoiced, but for what was taken back and paid. *)
LEMMA OpenAddsUp ==
  ASSUME TypeOK, DocsLinked, AllocationsFit, NEW c \in Customers, NEW d \in Int,
         \A i \in Docs : invoice[i].customer = c => ~Unsettled(i, d)
  PROVE  LeftOn(OpenAsOf(c, d))
           = SumFunction(Invoiced(c, d)) - SumFunction(Withdrawn(c, d)) - SumFunction(Used(c, d))
  <1>. PICK open : open = OpenAsOf(c, d)
    OBVIOUS
  <1>. DEFINE D == DOMAIN open
              f == [i \in D |-> open[i].left]
              lefts == Lefts(c, d)
              invoiced == Invoiced(c, d)
              withdrawn == Withdrawn(c, d)
              paid == Paid(c, d)
              due == [i \in Docs |-> invoiced[i] - withdrawn[i]]
  <1>1. OpenIs(open, c, d)
    BY OpensAre
  <1>2. D \subseteq Docs /\ IsFiniteSet(Docs) /\ \A i \in D : open[i].left = LeftAsOf(i, d)
    BY <1>1, TablesAssumption DEF OpenIs, OpenList
  <1>3. LeftOn(open) = SumFunction(f)
    BY DEF LeftOn, LeftIn
  <1>4. lefts \in [Docs -> Int] /\ \A i \in Docs : lefts[i] = IF i \in D THEN LeftAsOf(i, d) ELSE 0
    BY LeftsInt DEF Lefts
  <1>5. invoiced \in [Docs -> Int] /\ withdrawn \in [Docs -> Int] /\ paid \in [Docs -> Int]
    BY SummandsInt, PaidByInvoice
  <1>6. \A i \in Docs : lefts[i] = invoiced[i] - withdrawn[i] - paid[i]
    BY LeftIs
  <1>7. SumFunction(paid) = SumFunction(Used(c, d))
    BY PaidByInvoice, UsedByCredit
  <1>8. f \in [D -> Int] /\ \A i \in D : f[i] = lefts[i]
    BY <1>2, <1>4
  <1>9. due \in [Docs -> Int] /\ \A i \in Docs : due[i] = invoiced[i] - withdrawn[i]
    <2>. HIDE DEF invoiced, withdrawn
    <2>. QED  BY <1>5
  <1>. HIDE DEF D, f, lefts, invoiced, withdrawn, paid, due
  <1>10. PartOf(f, lefts, D, Docs)
    BY <1>2, <1>4, <1>8 DEF PartOf
  <1>11. SumFunction(f) = SumFunction(lefts)
    BY <1>2, <1>10, SumPartOf
  <1>12. IsMinus(due, invoiced, withdrawn, Docs) /\ IsMinus(lefts, due, paid, Docs)
    BY <1>2, <1>4, <1>5, <1>6, <1>9 DEF IsMinus
  <1>13. /\ SumFunction(due) = SumFunction(invoiced) - SumFunction(withdrawn)
         /\ SumFunction(lefts) = SumFunction(due) - SumFunction(paid)
    BY <1>12, SumMinusOf
  <1>. QED  BY <1>3, <1>7, <1>11, <1>13 DEF invoiced, withdrawn

(* The balance is what no document has and what the documents made. *)
ByHandAt(c, d) == {k \in Tagged(c, Counted(None, d)) : ~Documented(k)}

LEMMA BalanceSplits ==
  ASSUME TypeOK, NEW c \in Customers, NEW d \in Int
  PROVE  /\ BalanceAsOf(c, d) = SumFunction([k \in ByHandAt(c, d) |-> CustomerAmount(k)]) + SumFunction(Entered(c, d))
         /\ SumFunction([k \in ByHandAt(c, d) |-> CustomerAmount(k)]) \in Int
  <1>. DEFINE U == Tagged(c, Counted(None, d))
              H == ByHandAt(c, d)
              R == U \ H
              f == [k \in U |-> CustomerAmount(k)]
              g == [k \in H |-> CustomerAmount(k)]
              h == [k \in R |-> CustomerAmount(k)]
              e == Entered(c, d)
              J == DocumentedJournals
  <1>1. /\ U \subseteq DOMAIN journals /\ IsFiniteSet(DOMAIN journals)
        /\ IsFiniteSet(J) /\ e \in [J -> Int]
    BY CountedIn, SummandsInt, Indices DEF TypeOK
  <1>2. H \subseteq U /\ H \cap R = {} /\ H \cup R = U
    BY DEF ByHandAt
  <1>3. /\ R \subseteq J
        /\ \A k \in R : e[k] = CustomerAmount(k)
        /\ \A k \in J \ R : e[k] = 0
    BY <1>1 DEF Entered, ByHandAt, DocumentedJournals
  <1>4. \A k \in DOMAIN journals : CustomerAmount(k) \in Int
    BY Indices DEF TypeOK
  <1>5. BalanceAsOf(c, d) = SumFunction(f)
    BY DEF BalanceAsOf
  <1>6. /\ f \in [U -> Int] /\ g \in [H -> Int] /\ h \in [R -> Int]
        /\ (\A k \in H : g[k] = f[k]) /\ (\A k \in R : h[k] = f[k]) /\ (\A k \in R : h[k] = e[k])
    <2>. HIDE DEF U, H, e, J
    <2>. QED  BY <1>1, <1>2, <1>3, <1>4
  <1>. HIDE DEF U, H, R, f, g, h, e, J
  <1>7. IsFiniteSet(U) /\ IsFiniteSet(H) /\ IsFiniteSet(R) /\ R \subseteq J
    BY <1>1, <1>2, <1>3, FS_Subset
  <1>8. \A k \in H \cup R : f[k] \in Int
    BY <1>2, <1>6
  <1>9. SumFunctionOnSet(f, H \cup R) = SumFunctionOnSet(f, H) + SumFunctionOnSet(f, R)
    BY <1>2, <1>7, <1>8, SumParts
  <1>10. SumFunctionOnSet(g, H) = SumFunctionOnSet(f, H) /\ SumFunctionOnSet(h, R) = SumFunctionOnSet(f, R)
    BY <1>6, <1>7, SumSame
  <1>11. /\ SumFunction(f) = SumFunctionOnSet(f, U) /\ SumFunction(g) = SumFunctionOnSet(g, H)
         /\ SumFunction(h) = SumFunctionOnSet(h, R) /\ SumFunction(g) \in Int
    BY <1>6, <1>7, SumOfInts
  <1>12. PartOf(h, e, R, J)
    BY <1>1, <1>3, <1>6, <1>7 DEF PartOf
  <1>13. SumFunction(h) = SumFunction(e)
    BY <1>1, <1>12, SumPartOf
  <1>14. SumFunction(f) = SumFunction(g) + SumFunction(e)
    BY <1>2, <1>9, <1>10, <1>11, <1>13
  <1>. QED  BY <1>5, <1>11, <1>14 DEF g, e, H

(* Credit that was on no invoice yet, and what of it went back. *)
LEMMA CreditLeft ==
  ASSUME TypeOK, AllocationsFit, NEW c \in Customers, NEW d \in Int
  PROVE  /\ SumFunction([x \in {x \in Sources(c) : Source(x).date <= d} |-> Source(x).amount - Since(x, d)])
              = SumFunction(Credited(c, d)) - SumFunction(Used(c, d))
         /\ SumFunction(Used(c, d)) \in Int
         /\ SumFunction([f \in {f \in refunds : f.from \in Sources(c) /\ f.date <= d} |-> f.amount])
              = SumFunction(Returned(c, d))
  <1>. DEFINE X == {x \in Sources(c) : Source(x).date <= d}
              g == [x \in X |-> Source(x).amount - Since(x, d)]
              credited == Credited(c, d)
              used == Used(c, d)
              h == [x \in Holders |-> credited[x] - used[x]]
              B == {f \in refunds : f.from \in Sources(c) /\ f.date <= d}
              back == [f \in B |-> f.amount]
              returned == Returned(c, d)
  <1>1. /\ IsFiniteSet(Holders) /\ credited \in [Holders -> Int] /\ used \in [Holders -> Int]
        /\ IsFiniteSet(refunds) /\ returned \in [refunds -> Int]
    BY SummandsInt, UsedByCredit
  <1>2. X \subseteq Holders
    BY SourcesAre DEF Sourced
  <1>3. /\ \A x \in X : credited[x] = Source(x).amount /\ used[x] = Since(x, d)
        /\ \A x \in Holders \ X : credited[x] = 0 /\ used[x] = 0
    BY <1>2 DEF Credited, Used
  <1>4. h \in [Holders -> Int] /\ \A x \in Holders : h[x] = credited[x] - used[x]
    <2>. HIDE DEF credited, used
    <2>. QED  BY <1>1
  <1>5. /\ \A x \in X : h[x] = Source(x).amount - Since(x, d) /\ h[x] \in Int
        /\ \A x \in Holders \ X : h[x] = 0
    <2>. HIDE DEF credited, used, h, X
    <2>. QED  BY <1>2, <1>3, <1>4
  <1>6. g \in [X -> Int] /\ \A x \in X : g[x] = h[x]
    <2>. HIDE DEF h, X
    <2>. QED  BY <1>5
  <1>7. B \subseteq refunds /\ \A f \in B : returned[f] = f.amount
    BY DEF Returned
  <1>8. \A f \in refunds \ B : returned[f] = 0
    BY DEF Returned
  <1>9. back \in [B -> Int] /\ \A f \in B : back[f] = returned[f]
    <2>. HIDE DEF B, returned
    <2>1. \A f \in B : f.amount \in Int
      BY <1>1, <1>7
    <2>. QED  BY <1>7, <2>1
  <1>. HIDE DEF X, g, credited, used, h, B, back, returned
  <1>10. PartOf(g, h, X, Holders) /\ PartOf(back, returned, B, refunds)
    BY <1>1, <1>2, <1>4, <1>5, <1>6, <1>7, <1>8, <1>9 DEF PartOf
  <1>11. SumFunction(g) = SumFunction(h) /\ SumFunction(back) = SumFunction(returned)
    BY <1>1, <1>10, SumPartOf
  <1>12. IsMinus(h, credited, used, Holders)
    BY <1>1, <1>4 DEF IsMinus
  <1>13. SumFunction(h) = SumFunction(credited) - SumFunction(used) /\ SumFunction(used) \in Int
    BY <1>12, SumMinusOf
  <1>. QED  BY <1>11, <1>13 DEF g, X, credited, used, back, B, returned

(* Whatever day is looked at, the ledger's picture and the documents' agree. *)
THEOREM UndocumentedIsAlwaysExplained == Spec => []UndocumentedIsExplained
  <1>1. ASSUME IInv PROVE UndocumentedIsExplained
    <2>0. TypeOK /\ DocsLinked /\ AllocationsFit /\ Booked /\ AsOfs \subseteq Int
      BY <1>1, InputsAssumption DEF IInv, Books
    <2>1. SUFFICES ASSUME NEW c \in Customers, NEW d \in AsOfs,
                          \A i \in Docs : invoice[i].customer = c => ~Unsettled(i, d)
                   PROVE  Aging(BalanceAsOf(c, d), OpenAsOf(c, d), d).notInvoiced = Explained(c, d)
      BY Zenon DEF UndocumentedIsExplained
    <2>2. d \in Int
      BY <2>0
    <2>. DEFINE hand == SumFunction([k \in ByHandAt(c, d) |-> CustomerAmount(k)])
                entered == SumFunction(Entered(c, d))
                invoiced == SumFunction(Invoiced(c, d))
                withdrawn == SumFunction(Withdrawn(c, d))
                credited == SumFunction(Credited(c, d))
                returned == SumFunction(Returned(c, d))
                used == SumFunction(Used(c, d))
    <2>3. /\ entered \in Int /\ invoiced \in Int /\ withdrawn \in Int /\ credited \in Int /\ returned \in Int
      BY <2>0, <2>2, SumsInt
    <2>4. BalanceAsOf(c, d) = hand + entered /\ hand \in Int
      BY <2>0, <2>2, BalanceSplits
    <2>5. entered = invoiced - withdrawn - credited + returned
      BY <2>0, <2>2 DEF Booked, BookedAt
    <2>6. LeftOn(OpenAsOf(c, d)) = invoiced - withdrawn - used
      BY <2>0, <2>1, <2>2, OpenAddsUp
    <2>7. Explained(c, d) = hand - (credited - used) + returned /\ used \in Int
      BY <2>0, <2>2, CreditLeft DEF Explained, ByHandAt
    <2>8. Aging(BalanceAsOf(c, d), OpenAsOf(c, d), d).notInvoiced = BalanceAsOf(c, d) - LeftOn(OpenAsOf(c, d))
      BY DEF Aging
    <2>. HIDE DEF hand, entered, invoiced, withdrawn, credited, returned, used
    <2>. QED  BY <2>3, <2>4, <2>5, <2>6, <2>7, <2>8
  <1>. QED  BY <1>1, Inductive, PTL
=============================================================================
