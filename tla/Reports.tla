------------------------------ MODULE Reports ------------------------------
(***************************************************************************)
(* What the business is told about its books: customer ledgers and the    *)
(* statements issued from them, aging, the customers to follow up, trial   *)
(* balance, profit and loss and cash flow.                                 *)
(*                                                                         *)
(* A report is put together from several queries that share no snapshot:   *)
(* postings commit between them.  And two pictures of the past must agree: *)
(* the ledger's, from the dates of journals, and the documents', from the  *)
(* dates of invoices, allocations and cancellations.                       *)
(*                                                                         *)
(* How a posting is checked, locked and numbered is modelled in Journals   *)
(* and Receivables; here it is one step, its whole transaction, so a       *)
(* journal is reversed once (MCDoubleReversal shows the race).  Dates are  *)
(* day numbers and may lie in the past or in the future of today.  Tax,    *)
(* currencies and branches are left out; there is one receivable account.  *)
(***************************************************************************)
EXTENDS Integers, Sequences, FiniteSets, Functions

CONSTANTS
    Customers,
    Docs,           \* ids of invoices and credit notes
    Payments,       \* ids of customer payments
    Requests,       \* statements and reports asked for
    None,
    AccountType,    \* type of each account there is or will be
    LateAccounts,   \* accounts created later on
    Receivable, Bank,   \* the accounts postings use besides income
    Questions,      \* what may be asked for
    Dates,          \* dates of documents, payments and journals by hand
    Terms,          \* days from the date of an invoice to its due date
    Totals,         \* amounts of invoices
    Amounts,        \* amounts of everything else
    ByHand,         \* journals by hand: Dr the customer's account, Cr the contra account
    Collections,    \* M-Pesa money for no invoice: Dr Bank, Cr its account
    AsOfs,          \* dates the books are looked at
    OvertakenOnce,  \* bound: one commit at most comes between a report's queries
    MaxDay,         \* bound: days that pass
    MaxJournals     \* bound: journals

(* The sources of journals, and what a customer's ledger calls each. *)
SourceTypes == [OPENING |-> "OPENING_BALANCE", SALE |-> "CREDIT_SALE", PAYMENT |-> "PAYMENT", REVERSAL |-> "REVERSAL",
                MANUAL |-> "JOURNAL", CASHBOOK |-> "JOURNAL", BILL |-> "JOURNAL", IMPORT |-> "JOURNAL",
                COMMUNITY |-> "JOURNAL"]

(* Ids are unique across the tables; the accounts postings use have keys   *)
(* and their types, and are there from the start.                          *)
ASSUME TablesAssumption ==
    /\ IsFiniteSet(Customers) /\ None \notin Customers /\ None \notin Int
    /\ IsFiniteSet(Docs) /\ IsFiniteSet(Payments) /\ Docs \cap Payments = {}
    /\ IsFiniteSet(DOMAIN AccountType) /\ LateAccounts \subseteq DOMAIN AccountType
    /\ \A a \in DOMAIN AccountType : AccountType[a] \in {"ASSET", "LIABILITY", "EQUITY", "INCOME", "EXPENSE"}
    /\ {Receivable, Bank} \subseteq DOMAIN AccountType \ LateAccounts
    /\ AccountType[Receivable] = "ASSET" /\ AccountType[Bank] = "ASSET"
    /\ Receivable # Bank

(* Days are whole, amounts positive but for journals by hand, and ranges   *)
(* end no sooner than they begin.  A journal by hand may have any source,  *)
(* and its customer on a line of any account.                              *)
ASSUME InputsAssumption ==
    /\ Dates \subseteq Int /\ Terms \subseteq Int /\ AsOfs \subseteq Int
    /\ Totals \subseteq Nat \ {0} /\ Amounts \subseteq Nat \ {0}
    /\ ByHand \subseteq [source : DOMAIN SourceTypes, date : Int, amount : Int, posted : BOOLEAN,
                         account : DOMAIN AccountType, contra : DOMAIN AccountType]
    /\ \A j \in ByHand : j.account # j.contra
    /\ Collections \subseteq [date : Int, amount : Nat \ {0}, account : DOMAIN AccountType \ {Bank}]
    /\ Questions \subseteq      [kind : {"statement"}, customer : Customers, from : Int, to : Int]
                        \cup [kind : {"trial"}, customer : {None}, from : {None}, to : Int \cup {None}]
    /\ \A question \in Questions : question.kind = "statement" => question.from <= question.to

VARIABLES
    day, early,     \* today in Nairobi; before 03:00, when UTC still has yesterday
    accounts,       \* ids of the accounts
    invoice,        \* the invoices table: issued documents
    payment,        \* the customer_payments table
    refunds,        \* the customer_refunds table
    allocations,    \* the invoice_allocations table
    journals,       \* the journals, in the order of their creation
    statements,     \* the customer_statements table, in the order of their numbers
    req             \* what each request asks for and has read

vars == <<day, early, accounts, invoice, payment, refunds, allocations, journals, statements, req>>
documents == <<invoice, payment, refunds, allocations>>

-----------------------------------------------------------------------------
(* Rows.                                                                   *)

NoInvoice == [kind |-> "NONE", customer |-> None, date |-> 0, due |-> 0, total |-> 0,
              journal |-> 0, reversal |-> 0, cancelled |-> 0]
NoPayment == [customer |-> None, date |-> 0, amount |-> 0, journal |-> 0]

(* Dr one account, Cr another; an amount is positive for a debit. *)
Lines(dr, cr, n) == [a \in DOMAIN AccountType |-> IF a = dr THEN n ELSE IF a = cr THEN 0 - n ELSE 0]

(* A journal: the line of its account carries the customer.  One with      *)
(* lines of several customers counts as one for each.                      *)
Journal(c, d, source, lines, account, posted) ==
    [customer |-> c, date |-> d, source |-> source, lines |-> lines, account |-> account,
     posted |-> posted, reverses |-> 0]

NoRead == [read |-> FALSE]
Read(v) == [read |-> TRUE, value |-> v]

(* The queries of a statement, and of a trial balance or profit and loss;  *)
(* two of them wait for another.                                           *)
QueriesOf ==
    [statement |-> {"opening", "journals", "labels", "balance", "open"},
     trial     |-> {"accounts", "totals"}]

Queries == UNION {QueriesOf[k] : k \in DOMAIN QueriesOf}
Waits == {<<"labels", "journals">>, <<"open", "balance">>}

(* `overtaken' (history): a posting committed, for a trial balance an      *)
(* account was created, when the request had read a part only.             *)
Unasked == [kind |-> "none", customer |-> None, from |-> None, to |-> None,
            got |-> [q \in Queries |-> NoRead], stored |-> FALSE, overtaken |-> FALSE]

-----------------------------------------------------------------------------
(* Documents, as they stand now.                                           *)

Taken(S) == SumFunction([k \in S |-> allocations[k].amount])
To(i) == {k \in DOMAIN allocations : allocations[k].invoice = i}
From(x) == {k \in DOMAIN allocations : allocations[k].from = x}

IssuedDocs(kind) == {i \in Docs : invoice[i].kind = kind}
BalanceDue(i) == IF invoice[i].cancelled = 0 THEN invoice[i].total - Taken(To(i)) ELSE 0
OpenInvoices(c) == {i \in IssuedDocs("INVOICE") : invoice[i].customer = c /\ BalanceDue(i) > 0}

(* What a customer may have credit on: payments and credit notes. *)
Source(x) == IF x \in Payments THEN payment[x]
             ELSE [customer |-> invoice[x].customer, date |-> invoice[x].date,
                   amount |-> invoice[x].total, journal |-> invoice[x].journal]
Sources(c) == {x \in Payments \cup IssuedDocs("CREDIT_NOTE") : Source(x).customer = c}
Refunded(x) == SumFunction([f \in {f \in refunds : f.from = x} |-> f.amount])
Unapplied(x) == Source(x).amount - Taken(From(x)) - Refunded(x)

-----------------------------------------------------------------------------
(* Queries over the ledger: only POSTED journals count.                    *)

(* A range of days is open at an end that is not given.                    *)
Counted(from, to) ==
    {k \in DOMAIN journals : /\ journals[k].posted
                             /\ from = None \/ from <= journals[k].date
                             /\ to = None \/ journals[k].date <= to}

CustomerAmount(k) == journals[k].lines[journals[k].account]
Tagged(c, S) == {k \in S : journals[k].customer = c}

BalanceAsOf(c, d) == SumFunction([k \in Tagged(c, Counted(None, d)) |-> CustomerAmount(k)])
(* Mutant: the first day of the range counts as before it. *)
BalanceBeforeAndOn(c, d) == BalanceAsOf(c, d)
BalanceBefore(c, d) == BalanceAsOf(c, d - 1)

Earlier(k, l) == journals[k].date < journals[l].date \/ (journals[k].date = journals[l].date /\ k < l)

(* ORDER BY date, then creation: a journal's place is one more than there  *)
(* are earlier ones.                                                       *)
Place(k, S) == Cardinality({l \in S : Earlier(l, k)}) + 1
LedgerJournals(c, from, to) ==
    LET S == Tagged(c, Counted(from, to))
    IN  [n \in 1 .. Cardinality(S) |-> CHOOSE k \in S : Place(k, S) = n]

(* The latest journal of a customer, 0 for none. *)
LastActivity(c, d) ==
    LET S == Tagged(c, Counted(None, d))
    IN  IF S = {} THEN 0 ELSE CHOOSE k \in S : \A l \in S : l = k \/ Earlier(l, k)

(* Debits and credits of each account that has any. *)
Debit(k, a) == IF journals[k].lines[a] > 0 THEN journals[k].lines[a] ELSE 0
Credit(k, a) == IF journals[k].lines[a] < 0 THEN 0 - journals[k].lines[a] ELSE 0
PostedTotals(from, to) ==
    LET S == Counted(from, to)
    IN  [a \in {a \in DOMAIN AccountType : \E k \in S : journals[k].lines[a] # 0} |->
            [debit |-> SumFunction([k \in S |-> Debit(k, a)]), credit |-> SumFunction([k \in S |-> Credit(k, a)])]]

(* Queries over the documents.                                             *)

IssuedBy(c, d) == {i \in IssuedDocs("INVOICE") : invoice[i].customer = c /\ invoice[i].date <= d}
StandingAt(i, d) == invoice[i].cancelled = 0 \/ invoice[i].cancelled > d

(* Mutant: allocations count whatever their date. *)
OpenAsOfByToday(c, d) ==
    LET Left(i) == invoice[i].total - Taken(To(i))
    IN  [i \in {i \in IssuedBy(c, d) : StandingAt(i, d) /\ Left(i) > 0} |-> [due |-> invoice[i].due, left |-> Left(i)]]

(* What was still owed on each invoice of a customer at the end of a day. *)
LeftAsOf(i, d) == invoice[i].total - Taken({k \in To(i) : allocations[k].date <= d})
OpenAsOf(c, d) ==
    [i \in {i \in IssuedBy(c, d) : StandingAt(i, d) /\ LeftAsOf(i, d) > 0} |->
        [due |-> invoice[i].due, left |-> LeftAsOf(i, d)]]

(* What a journal is called: after the payment, the refund or the document *)
(* it posted or cancelled, else after its source.                          *)
PaymentOf(k) == {p \in Payments : payment[p].journal = k}
RefundOf(k) == {f \in refunds : f.journal = k}
LinksOf(k) == {<<i, "ISSUE">> : i \in {i \in Docs : invoice[i].journal = k}}
         \cup {<<i, "CANCEL">> : i \in {i \in Docs : invoice[i].reversal = k}}

(* Mutant: the document's status names the row. *)
LabelByStatus(k) ==
    LET docs == {i \in Docs : k \in {invoice[i].journal, invoice[i].reversal}}
    IN  IF docs = {} THEN SourceTypes[journals[k].source]
        ELSE LET i == CHOOSE i \in docs : TRUE
             IN  IF invoice[i].cancelled > 0 THEN "INVOICE_CANCELLED" ELSE invoice[i].kind

(* A payment, a refund or a document names it. *)
Documented(k) == PaymentOf(k) # {} \/ RefundOf(k) # {} \/ LinksOf(k) # {}

Label(k) ==
    IF PaymentOf(k) # {} THEN "PAYMENT"
    ELSE IF RefundOf(k) # {} THEN "REFUND"
    ELSE IF LinksOf(k) = {} THEN SourceTypes[journals[k].source]
    ELSE LET link == CHOOSE l \in LinksOf(k) : TRUE
         IN  IF link[2] = "CANCEL" THEN "INVOICE_CANCELLED" ELSE invoice[link[1]].kind

-----------------------------------------------------------------------------
(* What reports make of what they read.                                    *)

AgingBucket(days) ==
    CASE days <= 0  -> "CURRENT"
      [] days \in 1 .. 30  -> "DAYS_1_30"
      [] days \in 31 .. 60 -> "DAYS_31_60"
      [] days \in 61 .. 90 -> "DAYS_61_90"
      [] OTHER -> "DAYS_OVER_90"

AgingBuckets == {"CURRENT", "DAYS_1_30", "DAYS_31_60", "DAYS_61_90", "DAYS_OVER_90"}
DaysPastDue(due, d) == d - due
LeftIn(open, ids) == SumFunction([i \in ids |-> open[i].left])
LeftOn(open) == LeftIn(open, DOMAIN open)

(* One customer's row of the aging report: open invoices by age, and what  *)
(* else is on the balance.                                                 *)
Aging(balance, open, d) ==
    [buckets |-> [b \in AgingBuckets |-> LeftIn(open, {i \in DOMAIN open : AgingBucket(DaysPastDue(open[i].due, d)) = b})],
     notInvoiced |-> balance - LeftOn(open),
     balance |-> balance]

InBuckets(aging, S) == SumFunction([b \in S |-> aging.buckets[b]])

(* GET /receivables-aging: the customers that have something on it. *)
AgingReport(balances, open, d) ==
    [c \in {c \in Customers : balances[c] # 0 \/ LeftOn(open[c]) # 0} |-> Aging(balances[c], open[c], d)]

(* Mutant: an invoice exactly minDays past due is left out. *)
FollowUpsAfter(open, d, minDays) ==
    LET Overdue(c) == {i \in DOMAIN open[c] : DaysPastDue(open[c][i].due, d) > minDays}
    IN  [c \in {c \in Customers : Overdue(c) # {}} |-> LeftIn(open[c], Overdue(c))]

(* The customers with an invoice at least minDays past due. *)
FollowUps(open, d, minDays) ==
    LET Overdue(c) == {i \in DOMAIN open[c] : DaysPastDue(open[c][i].due, d) >= minDays}
    IN  [c \in {c \in Customers : Overdue(c) # {}} |-> LeftIn(open[c], Overdue(c))]

(* A customer's ledger over a range: rows with the balance after each. *)
Moved(rows, places) == SumFunction([n \in places |-> CustomerAmount(rows[n])])
CustomerTransactions(opening, rows) ==
    LET debits == {n \in DOMAIN rows : CustomerAmount(rows[n]) > 0}
        After(n) == opening + Moved(rows, 1 .. n)
    IN  [opening |-> opening, debit |-> Moved(rows, debits), credit |-> 0 - Moved(rows, DOMAIN rows \ debits),
         closing |-> After(Len(rows)), balances |-> [n \in DOMAIN rows |-> After(n)]]

NaturalSide(a) == IF AccountType[a] \in {"ASSET", "EXPENSE"} THEN "DEBIT" ELSE "CREDIT"
IsProfitAndLoss(a) == AccountType[a] \in {"INCOME", "EXPENSE"}

NaturalBalance(a, total) ==
    IF NaturalSide(a) = "DEBIT" THEN total.debit - total.credit ELSE total.credit - total.debit

(* Mutant: only the natural side of each account is added up. *)
BuildTrialBalanceOneSided(totals, known) ==
    LET entered == DOMAIN totals \cap known
        Natural(side) == {a \in entered : NaturalSide(a) = side}
    IN  [rows   |-> [a \in entered |-> NaturalBalance(a, totals[a])],
         debit  |-> SumFunction([a \in Natural("DEBIT") |-> totals[a].debit]),
         credit |-> SumFunction([a \in Natural("CREDIT") |-> totals[a].credit])]

(* Accounts the chart read does not know are passed over. *)
BuildTrialBalance(totals, known) ==
    LET entered == DOMAIN totals \cap known
    IN  [rows   |-> [a \in entered |-> NaturalBalance(a, totals[a])],
         debit  |-> SumFunction([a \in entered |-> totals[a].debit]),
         credit |-> SumFunction([a \in entered |-> totals[a].credit])]

IsBalanced(report) == report.debit = report.credit

OfType(rows, types) == SumFunction([a \in {a \in DOMAIN rows : AccountType[a] \in types} |-> rows[a]])

ProfitAndLoss(totals, known) ==
    LET rows == BuildTrialBalance(totals, known).rows
        lines == Restrict(rows, {a \in DOMAIN rows : IsProfitAndLoss(a)})
    IN  OfType(lines, {"INCOME"}) - OfType(lines, {"EXPENSE"})

(* The cash account: what came before, what came in and went out. *)
OfCash(totals) == IF Bank \in DOMAIN totals THEN totals[Bank] ELSE [debit |-> 0, credit |-> 0]
CashFlow(from, to) ==
    LET before == OfCash(PostedTotals(None, from - 1))
        moved == OfCash(PostedTotals(from, to))
        opening == before.debit - before.credit
    IN  [opening |-> opening, inflow |-> moved.debit, outflow |-> moved.credit,
         closing |-> opening + moved.debit - moved.credit]

-----------------------------------------------------------------------------
(* Postings.                                                               *)

Partly(r) == \E q \in QueriesOf[req[r].kind] : req[r].got[q].read
Reading(r, kind) == req[r].kind = kind /\ Partly(r) /\ \E q \in QueriesOf[kind] : ~req[r].got[q].read

(* What commits between the queries of a report overtakes it.              *)
Overtake(kind) ==
    /\ OvertakenOnce => \A r \in Requests : Reading(r, kind) => ~req[r].overtaken
    /\ req' = [r \in Requests |-> IF Reading(r, kind) THEN [req[r] EXCEPT !.overtaken = TRUE] ELSE req[r]]

(* The date of a reversal is today's in UTC, every other `today' is Nairobi's. *)
Utc == IF early THEN day - 1 ELSE day

NextJournal == Len(journals) + 1
Post(journal) ==
    /\ Len(journals) < MaxJournals
    /\ journals' = Append(journals, journal)
    /\ Overtake("statement")
    /\ UNCHANGED <<day, early, accounts, statements>>

(* A journal the other way round. *)
Reversal(k, d) ==
    [journals[k] EXCEPT !.date = d, !.source = "REVERSAL", !.posted = TRUE, !.reverses = k,
                        !.lines = [a \in DOMAIN AccountType |-> 0 - journals[k].lines[a]]]
IsReversed(k) == \E l \in DOMAIN journals : journals[l].reverses = k

IncomeAccounts == {a \in accounts : AccountType[a] = "INCOME"}

Issue(i) ==
    \E c \in Customers, n \in Totals, d \in Dates, t \in Terms, a \in IncomeAccounts :
        /\ invoice[i] = NoInvoice
        /\ invoice' = [invoice EXCEPT ![i] = [NoInvoice EXCEPT !.kind = "INVOICE", !.customer = c, !.date = d,
                                                !.due = d + t, !.total = n, !.journal = NextJournal]]
        /\ Post(Journal(c, d, "SALE", Lines(Receivable, a, n), Receivable, TRUE))
        /\ UNCHANGED <<payment, refunds, allocations>>

(* A credit note against an open invoice is used up on it at once; one on  *)
(* its own is credit.                                                      *)
IssueNote(i) ==
    \E c \in Customers, n \in Amounts, d \in Dates, a \in IncomeAccounts : \E o \in OpenInvoices(c) \cup {None} :
        /\ invoice[i] = NoInvoice
        /\ o # None => n <= BalanceDue(o)
        /\ invoice' = [invoice EXCEPT ![i] = [NoInvoice EXCEPT !.kind = "CREDIT_NOTE", !.customer = c,
                                                !.date = d, !.due = d, !.total = n, !.journal = NextJournal]]
        /\ allocations' = IF o = None THEN allocations
                          ELSE Append(allocations, [invoice |-> o, from |-> i, amount |-> n, date |-> d])
        /\ Post(Journal(c, d, "SALE", Lines(a, Receivable, n), Receivable, TRUE))
        /\ UNCHANGED <<payment, refunds>>

(* The reversal is dated today in UTC, the cancellation is now. *)
CancelInvoice(i) ==
    /\ invoice[i].kind = "INVOICE" /\ invoice[i].cancelled = 0 /\ To(i) = {}
    /\ ~IsReversed(invoice[i].journal)
    /\ invoice' = [invoice EXCEPT ![i].cancelled = day, ![i].reversal = NextJournal]
    /\ Post(Reversal(invoice[i].journal, Utc))
    /\ UNCHANGED <<payment, refunds, allocations>>

(* Money received, on one invoice as far as it goes or on none. *)
Receive(p) ==
    \E c \in Customers, n \in Amounts, d \in Dates : \E i \in OpenInvoices(c) \cup {None} :
        LET used == IF i = None THEN 0 ELSE IF n <= BalanceDue(i) THEN n ELSE BalanceDue(i)
        IN  /\ payment[p] = NoPayment
            /\ payment' = [payment EXCEPT ![p] = [customer |-> c, date |-> d, amount |-> n, journal |-> NextJournal]]
            /\ allocations' = IF i = None THEN allocations
                              ELSE Append(allocations, [invoice |-> i, from |-> p, amount |-> used, date |-> d])
            /\ Post(Journal(c, d, "PAYMENT", Lines(Bank, Receivable, n), Receivable, TRUE))
            /\ UNCHANGED <<invoice, refunds>>

(* Credit left goes to an invoice: no journal. *)
ApplyCredit(c, i) ==
    \E x \in Sources(c), n \in Amounts, d \in Dates :
        /\ i \in OpenInvoices(c)
        /\ d >= invoice[i].date /\ d >= Source(x).date
        /\ n <= BalanceDue(i) /\ n <= Unapplied(x)
        /\ allocations' = Append(allocations, [invoice |-> i, from |-> x, amount |-> n, date |-> d])
        /\ Overtake("statement")
        /\ UNCHANGED <<day, early, accounts, invoice, payment, refunds, journals, statements>>

Refund(c) ==
    \E x \in Sources(c), n \in Amounts, d \in Dates :
        /\ d >= Source(x).date /\ n <= Unapplied(x)
        /\ refunds' = refunds \cup {[from |-> x, amount |-> n, date |-> d, journal |-> NextJournal]}
        /\ Post(Journal(c, d, "PAYMENT", Lines(Receivable, Bank, n), Receivable, TRUE))
        /\ UNCHANGED <<invoice, payment, allocations>>

(* First opening balances and journals by hand, guided sales and cheques   *)
(* among them; those above the threshold wait.                             *)
Entry(c, j) == Journal(c, j.date, j.source, Lines(j.account, j.contra, j.amount), j.account, j.posted)
PostManual ==
    \E c \in Customers, j \in ByHand :
        /\ {j.account, j.contra} \subseteq accounts
        /\ Post(Entry(c, j))
        /\ UNCHANGED documents

(* Any posted journal may be reversed by hand, a document's too, which     *)
(* stays as it is.                                                         *)
ReverseByHand(k) ==
    /\ journals[k].posted /\ ~IsReversed(k)
    /\ Post(Reversal(k, Utc))
    /\ UNCHANGED documents

(* Opening balances are replaced by reversing the newest that stand, on    *)
(* their own date, and posting others at once, in one transaction.         *)
StandingOpenings ==
    {k \in DOMAIN journals : journals[k].source = "OPENING" /\ journals[k].reverses = 0 /\ ~IsReversed(k)}
ReplaceOpening(k) ==
    \E c \in Customers, j \in ByHand :
        /\ k \in StandingOpenings /\ journals[k].posted
        /\ \A l \in StandingOpenings : l <= k
        /\ j.source = "OPENING" /\ {j.account, j.contra} \subseteq accounts
        /\ Len(journals) + 2 <= MaxJournals
        /\ journals' = journals \o <<Reversal(k, journals[k].date), [Entry(c, j) EXCEPT !.posted = TRUE]>>
        /\ Overtake("statement")
        /\ UNCHANGED <<day, early, accounts, statements, documents>>

(* M-Pesa money of a customer for no invoice is no customer payment: only  *)
(* its journal names the customer, on the account credited.                *)
CollectMpesa ==
    \E c \in Customers, m \in Collections :
        /\ m.account \in accounts
        /\ Post(Journal(c, m.date, "PAYMENT", Lines(Bank, m.account, m.amount), m.account, TRUE))
        /\ UNCHANGED documents

Approve(k) ==
    /\ ~journals[k].posted
    /\ journals' = [journals EXCEPT ![k].posted = TRUE]
    /\ Overtake("statement")
    /\ UNCHANGED <<day, early, accounts, statements, documents>>

CreateAccount(a) ==
    /\ a \notin accounts
    /\ accounts' = accounts \cup {a}
    /\ Overtake("trial")
    /\ UNCHANGED <<day, early, statements, journals, documents>>

(* 03:00 in Nairobi is midnight in UTC. *)
Tick ==
    /\ early \/ day < MaxDay
    /\ early' = ~early
    /\ day' = IF early THEN day ELSE day + 1
    /\ UNCHANGED <<accounts, journals, statements, req, documents>>

-----------------------------------------------------------------------------
(* Reports.                                                                *)

Ask(r) ==
    \E question \in Questions :
        /\ req[r] = Unasked
        /\ req' = [req EXCEPT ![r] = [Unasked EXCEPT !.kind = question.kind, !.customer = question.customer,
                                                !.from = question.from, !.to = question.to]]
        /\ UNCHANGED <<day, early, accounts, journals, statements, documents>>

(* One query, in a transaction of its own.  The documents behind a journal *)
(* commit with it, so the look-ups that name the rows are one query, over  *)
(* the journals read.                                                      *)
Answer(q, ask) ==
    CASE q = "opening"  -> BalanceBefore(ask.customer, ask.from)
      [] q = "journals" -> LedgerJournals(ask.customer, ask.from, ask.to)
      [] q = "labels"   -> [n \in DOMAIN ask.got["journals"].value |-> Label(ask.got["journals"].value[n])]
      [] q = "balance"  -> BalanceAsOf(ask.customer, ask.to)
      [] q = "open"     -> OpenAsOf(ask.customer, ask.to)
      [] q = "accounts" -> accounts
      [] q = "totals"   -> PostedTotals(ask.from, ask.to)

Query(r) ==
    /\ req[r].kind # "none"
    /\ \E q \in QueriesOf[req[r].kind] :
          /\ ~req[r].got[q].read
          /\ \A w \in Waits : w[1] = q => req[r].got[w[2]].read
          /\ req' = [req EXCEPT ![r].got[q] = Read(Answer(q, req[r]))]
    /\ UNCHANGED <<day, early, accounts, journals, statements, documents>>

Complete(r) == req[r].kind # "none" /\ \A q \in QueriesOf[req[r].kind] : req[r].got[q].read
Got(r, q) == req[r].got[q].value

(* The snapshot is numbered and stored in one transaction. *)
InsertStatement(r) ==
    /\ req[r].kind = "statement" /\ Complete(r) /\ ~req[r].stored
    /\ statements' = Append(statements,
          [customer |-> req[r].customer, overtaken |-> req[r].overtaken,
           ledger |-> CustomerTransactions(Got(r, "opening"), Got(r, "journals")),
           rows |-> [n \in DOMAIN Got(r, "journals") |->
                        [journal |-> Got(r, "journals")[n], type |-> Got(r, "labels")[n]]],
           aging |-> Aging(Got(r, "balance"), Got(r, "open"), req[r].to)])
    /\ req' = [req EXCEPT ![r] = [Unasked EXCEPT !.stored = TRUE]]
    /\ UNCHANGED <<day, early, accounts, journals, documents>>

-----------------------------------------------------------------------------
Init ==
    /\ day = 1 /\ early = TRUE
    /\ accounts = DOMAIN AccountType \ LateAccounts
    /\ invoice = [i \in Docs |-> NoInvoice] /\ payment = [p \in Payments |-> NoPayment]
    /\ refunds = {} /\ allocations = <<>> /\ journals = <<>> /\ statements = <<>>
    /\ req = [r \in Requests |-> Unasked]

Next ==
    \/ \E i \in Docs : Issue(i) \/ IssueNote(i) \/ CancelInvoice(i)
    \/ \E p \in Payments : Receive(p)
    \/ \E c \in Customers : Refund(c) \/ \E i \in Docs : ApplyCredit(c, i)
    \/ PostManual
    \/ CollectMpesa
    \/ \E k \in DOMAIN journals : Approve(k) \/ ReverseByHand(k) \/ ReplaceOpening(k)
    \/ \E a \in LateAccounts : CreateAccount(a)
    \/ Tick
    \/ \E r \in Requests : Ask(r) \/ Query(r) \/ InsertStatement(r)

Spec == Init /\ [][Next]_vars

-----------------------------------------------------------------------------
(* Properties.                                                             *)

(* A statement nothing overtook adds up: its rows lead from the opening to *)
(* the closing balance, and the open invoices by age with what isn't       *)
(* invoiced come to the same closing balance.                              *)
StatementsAddUp ==
    \A s \in DOMAIN statements :
        LET st == statements[s]
        IN  ~st.overtaken =>
                /\ st.ledger.opening + st.ledger.debit - st.ledger.credit = st.ledger.closing
                /\ InBuckets(st.aging, AgingBuckets) + st.aging.notInvoiced = st.ledger.closing

(* What a statement calls a row is what the row is called for ever after,  *)
(* whatever happened to the document behind it since.                      *)
NamesStand ==
    \A s \in DOMAIN statements :
        \A n \in DOMAIN statements[s].rows :
            statements[s].rows[n].type = Label(statements[s].rows[n].journal)

(* The ledger and the documents agree about every day, past and future:    *)
(* what no open invoice accounts for is what was posted without a          *)
(* document, payment or refund (by hand, as opening balances, by hand      *)
(* reversals, by M-Pesa collections for no invoice), less the money and    *)
(* notes that were on no invoice yet.  The exception is an invoice         *)
(* cancelled between midnight and 03:00, whose reversal is dated the day   *)
(* before, or before its own date.                                         *)
Since(x, d) == Taken({k \in From(x) : allocations[k].date <= d /\ invoice[allocations[k].invoice].date <= d})
Explained(c, d) ==
    LET hand == {k \in Tagged(c, Counted(None, d)) : ~Documented(k)}
        credit == {x \in Sources(c) : Source(x).date <= d}
        back == {f \in refunds : f.from \in Sources(c) /\ f.date <= d}
    IN  SumFunction([k \in hand |-> CustomerAmount(k)])
            - SumFunction([x \in credit |-> Source(x).amount - Since(x, d)])
            + SumFunction([f \in back |-> f.amount])

Unsettled(i, d) ==
    /\ invoice[i].reversal > 0 /\ journals[invoice[i].reversal].date <= d
    /\ d < invoice[i].cancelled \/ d < invoice[i].date

UndocumentedIsExplained ==
    \A c \in Customers, d \in AsOfs :
        (\A i \in Docs : invoice[i].customer = c => ~Unsettled(i, d)) =>
            Aging(BalanceAsOf(c, d), OpenAsOf(c, d), d).notInvoiced = Explained(c, d)

(* The same without the exception, as the aging report has it. *)
EverythingIsExplained ==
    \A c \in Customers, d \in AsOfs :
        Aging(BalanceAsOf(c, d), OpenAsOf(c, d), d).notInvoiced = Explained(c, d)

(* Reports over one and the same ledger tie: profit since ever is what     *)
(* assets exceed liabilities and equity by, a cash flow closes at what the *)
(* trial balance has for the account, what is followed up is what aging    *)
(* has past due, and the customer list's last activity is the last row of  *)
(* the ledger.                                                             *)
ReportsTie ==
    \A d \in AsOfs :
        LET known == DOMAIN AccountType
            totals == PostedTotals(None, d)
            sheet == BuildTrialBalance(totals, known).rows
            open == [c \in Customers |-> OpenAsOf(c, d)]
            aging == AgingReport([c \in Customers |-> BalanceAsOf(c, d)], open, d)
        IN  /\ ProfitAndLoss(totals, known) = OfType(sheet, {"ASSET"}) - OfType(sheet, {"LIABILITY", "EQUITY"})
            /\ CashFlow(d, d).closing = (IF Bank \in DOMAIN sheet THEN sheet[Bank] ELSE 0)
            /\ SumFunction(FollowUps(open, d, 1))
                 = SumFunction([c \in DOMAIN aging |-> InBuckets(aging[c], AgingBuckets \ {"CURRENT"})])
            /\ \A c \in Customers :
                 LET rows == LedgerJournals(c, None, d)
                 IN  LastActivity(c, d) = IF rows = <<>> THEN 0 ELSE rows[Len(rows)]

(* A trial balance balances unless an account was created while it was     *)
(* being read.                                                             *)
BalancedUnlessTheChartGrew ==
    \A r \in Requests :
        req[r].kind = "trial" /\ Complete(r) /\ ~req[r].overtaken =>
            IsBalanced(BuildTrialBalance(Got(r, "totals"), Got(r, "accounts")))
=============================================================================
