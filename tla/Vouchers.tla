------------------------------ MODULE Vouchers ------------------------------
(***************************************************************************)
(* Money that changes hands on the spot, on top of the chart of accounts:  *)
(* cash sales and cheques as numbered documents (sales receipts and cheque *)
(* payments), and the five guided entries that only post a journal (credit *)
(* sale, cash sale, bill, cash expense, cheque).                           *)
(*                                                                         *)
(* Each request looks up the accounts it was not told -- the cash, bank or *)
(* M-Pesa account by its system key, the VAT account of the business --    *)
(* checks that all of them take postings, and posts in a last transaction. *)
(* In between, the chart may change under it.  Lines are one per document, *)
(* with its tax; currencies, items and descriptions are left out, and the  *)
(* accounting period of the journal is modelled in Journals.               *)
(***************************************************************************)
EXTENDS Chart, Integers, Functions

CONSTANTS
    Documents,  \* client uuids of the requests
    Orders,     \* what the requests ask for
    Parties,    \* customers and suppliers
    Leaves      \* numbers printed on cheque leaves

VARIABLES
    doc,        \* what each document's request is doing, and its row
    sequence,   \* the last number of each kind
    journals    \* the lines posted for each document

docVars == <<doc, sequence, journals>>

-----------------------------------------------------------------------------
(* What requests ask for.                                                  *)

NumberedKinds == {"CASH_SALE", "CHEQUE"}
GuidedKinds == {"credit sale", "cash sale", "bill", "cash expense", "cheque"}
Kinds == NumberedKinds \cup GuidedKinds

PaymentMethods == {"CASH", "BANK", "MPESA", "OTHER"}

(* money: the account the money moves on, None for the default one (for    *)
(* the guided kinds also the receivable or payable account, always named). *)
Order == [kind : Kinds, method : PaymentMethods, money : Ids \cup {None},
          line : Ids, vat : Ids \cup {None}, net : Nat, tax : Nat,
          party : Parties \cup {None}, leaf : Leaves \cup {None}]

Total(o) == o.net + o.tax
Purchase(o) == o.kind \in {"CHEQUE", "bill", "cash expense", "cheque"}

(* The schemas of the requests: OTHER has no default account; the guided   *)
(* kinds name theirs, and the VAT account of their tax.                    *)
ValidReceipt(o) == o.method = "OTHER" => o.money # None
ValidChequePayment(o) == o.method = "BANK"
TaxNamed(o) == o.money # None /\ o.net > 0 /\ (o.tax > 0 => o.vat # None)
ValidCreditSale(o) == TaxNamed(o) /\ o.party # None
ValidCashSale(o) == TaxNamed(o) /\ o.party = None
ValidBill(o) == TaxNamed(o) /\ o.party # None
ValidCashExpense(o) == TaxNamed(o) /\ o.party = None
ValidCheque(o) == TaxNamed(o) /\ o.tax = 0

Valid(o) ==
    /\ Total(o) > 0
    /\ CASE o.kind = "CASH_SALE" -> ValidReceipt(o)
         [] o.kind = "CHEQUE" -> ValidChequePayment(o)
         [] o.kind = "credit sale" -> ValidCreditSale(o)
         [] o.kind = "cash sale" -> ValidCashSale(o)
         [] o.kind = "bill" -> ValidBill(o)
         [] o.kind = "cash expense" -> ValidCashExpense(o)
         [] o.kind = "cheque" -> ValidCheque(o)

(* A document: its step, its order with the accounts found, its number and *)
(* history: what changed of the chart since it was received, and what of   *)
(* its accounts was not as it should be when it was posted.                *)
Document ==
    [pc : {"new", "money", "mpesa", "vat", "lines", "prepared", "numbered", "posted", "failed"},
     order : Orders \cup {None}, money : Ids \cup {None}, vat : Ids \cup {None},
     caller : Requests \cup {None}, number : Nat,
     missed : SUBSET (Ids \cup SystemKeys), amiss : SUBSET Ids]

ASSUME VouchersAssumption ==
    /\ Orders \subseteq {o \in Order : Valid(o)}
    /\ None \notin Orders \cup Parties \cup Leaves

Blank == [pc |-> "new", order |-> None, money |-> None, vat |-> None,
          caller |-> None, number |-> 0, missed |-> {}, amiss |-> {}]

Is(d, pc) == doc[d].pc = pc
Posted == {d \in Documents : Is(d, "posted")}

-----------------------------------------------------------------------------
(* Finding the accounts.                                                   *)

Holder(k) == CHOOSE a \in Ids : a \in Holders(k)

DefaultMoneyKey(o) ==
    IF o.method = "MPESA" THEN "MPESA"
    ELSE IF o.method = "BANK" THEN "BANK" ELSE "CASH"

Receive(d, o) ==
    /\ Is(d, "new")
    /\ doc' = [doc EXCEPT ![d] = [Blank EXCEPT
            !.pc = IF o.kind \in GuidedKinds THEN "lines"
                   ELSE IF o.money # None THEN "vat" ELSE "money",
            !.order = o, !.money = o.money, !.vat = o.vat]]
    /\ UNCHANGED <<vars, sequence, journals>>

FindMoneyAccount(d) ==
    LET key == DefaultMoneyKey(doc[d].order)
    IN  /\ Is(d, "money")
        /\ key = "MPESA" => Holders(key) # {}
        /\ doc' = [doc EXCEPT
                ![d].pc = IF Holders(key) = {} THEN "failed" ELSE "vat",
                ![d].money = IF Holders(key) = {} THEN None ELSE Holder(key)]
        /\ UNCHANGED <<vars, sequence, journals>>

(* The M-Pesa account is made on first use, by the steps of Chart. *)
CreateMpesaAccount(d, r) ==
    /\ Is(d, "money")
    /\ DefaultMoneyKey(doc[d].order) = "MPESA"
    /\ FindSystemAccount(r, "MPESA")
    /\ doc' = [doc EXCEPT ![d].pc = "mpesa", ![d].caller = r]
    /\ UNCHANGED <<sequence, journals>>

TakeMpesaAccount(d) ==
    /\ Is(d, "mpesa")
    /\ request[doc[d].caller].pc \in {"done", "code_taken", "key_taken"}
    /\ LET found == At(doc[d].caller, "done") /\ Holders("MPESA") # {}
       IN  doc' = [doc EXCEPT ![d].pc = IF found THEN "vat" ELSE "failed",
                              ![d].money = IF found THEN Holder("MPESA") ELSE None]
    /\ UNCHANGED <<vars, sequence, journals>>

(* Only a business registered for VAT has tax on its documents; a taxed    *)
(* line without a VAT account gets the business's.                         *)
FindVatAccount(d) ==
    LET o == doc[d].order
        key == IF Purchase(o) THEN "VAT_INPUT" ELSE "VAT_OUTPUT"
        needed == o.tax > 0 /\ o.vat = None
        ok == (o.tax > 0 => VatRegistered) /\ (needed => Holders(key) # {})
    IN  /\ Is(d, "vat")
        /\ doc' = [doc EXCEPT ![d].pc = IF ok THEN "lines" ELSE "failed",
                              ![d].vat = IF needed /\ ok THEN Holder(key) ELSE @]
        /\ UNCHANGED <<vars, sequence, journals>>

Accounts(d) ==
    {doc[d].money, doc[d].order.line}
        \cup (IF doc[d].order.tax > 0 THEN {doc[d].vat} ELSE {})

(* Mutant: accounts need only be there. *)
PostableKnown(a) == a \in Known

Postable(a) == a \in Known /\ accounts[a].active

(* assertPostableAccount, then validateForPosting on one snapshot. *)
PrepareJournal(d) ==
    /\ Is(d, "lines")
    /\ doc' = [doc EXCEPT ![d].pc =
            IF \A a \in Accounts(d) : Postable(a) THEN "prepared" ELSE "failed"]
    /\ UNCHANGED <<vars, sequence, journals>>

-----------------------------------------------------------------------------
(* The lines of the journals.                                              *)

Debit(a, amount, p) == <<[account |-> a, debit |-> amount, credit |-> 0, party |-> p]>>
Credit(a, amount, p) == <<[account |-> a, debit |-> 0, credit |-> amount, party |-> p]>>
IfAny(amount, lines) == IF amount > 0 THEN lines ELSE <<>>

SalesReceiptLines(v, o) ==
    Debit(v.money, Total(o), None)
        \o IfAny(o.net, Credit(o.line, o.net, None))
        \o IfAny(o.tax, Credit(v.vat, o.tax, None))
ChequePaymentLines(v, o) ==
    IfAny(o.net, Debit(o.line, o.net, None))
        \o IfAny(o.tax, Debit(v.vat, o.tax, None))
        \o Credit(v.money, Total(o), None)
CreditSaleLines(v, o) ==
    Debit(v.money, Total(o), o.party) \o Credit(o.line, o.net, None)
        \o IfAny(o.tax, Credit(v.vat, o.tax, None))
CashSaleLines(v, o) ==
    Debit(v.money, Total(o), None) \o Credit(o.line, o.net, None)
        \o IfAny(o.tax, Credit(v.vat, o.tax, None))
BillLines(v, o) ==
    Debit(o.line, o.net, None) \o IfAny(o.tax, Debit(v.vat, o.tax, None))
        \o Credit(v.money, Total(o), o.party)

(* Mutant: the payment is short of the tax it reclaims. *)
CashExpenseLinesNet(v, o) ==
    Debit(o.line, o.net, None) \o IfAny(o.tax, Debit(v.vat, o.tax, None))
        \o Credit(v.money, o.net, None)

CashExpenseLines(v, o) ==
    Debit(o.line, o.net, None) \o IfAny(o.tax, Debit(v.vat, o.tax, None))
        \o Credit(v.money, Total(o), None)
ChequeLines(v, o) == Debit(o.line, o.net, o.party) \o Credit(v.money, o.net, None)

JournalLines(v) ==
    LET o == v.order
    IN  CASE o.kind = "CASH_SALE" -> SalesReceiptLines(v, o)
          [] o.kind = "CHEQUE" -> ChequePaymentLines(v, o)
          [] o.kind = "credit sale" -> CreditSaleLines(v, o)
          [] o.kind = "cash sale" -> CashSaleLines(v, o)
          [] o.kind = "bill" -> BillLines(v, o)
          [] o.kind = "cash expense" -> CashExpenseLines(v, o)
          [] o.kind = "cheque" -> ChequeLines(v, o)

-----------------------------------------------------------------------------
(* Posting.                                                                *)

(* Inserting rows that refer to an account waits for a PATCH that holds it. *)
Referable(d) == \A a \in Accounts(d), r \in Requests : a \notin Locked(r)

(* What of the accounts is no longer as the request found it. *)
Amiss(d) ==
    {a \in Accounts(d) : ~accounts[a].active}
        \cup (IF doc[d].order.kind \in NumberedKinds /\ doc[d].order.money = None
                 /\ accounts[doc[d].money].key # doc[d].order.method
              THEN {doc[d].money} ELSE {})

Post(d) ==
    /\ doc' = [doc EXCEPT ![d].pc = "posted", ![d].amiss = Amiss(d)]
    /\ journals' = [journals EXCEPT ![d] = JournalLines(doc[d])]

CreateJournal(d) ==
    /\ Is(d, "prepared")
    /\ doc[d].order.kind \in GuidedKinds
    /\ Referable(d)
    /\ Post(d)
    /\ UNCHANGED <<vars, sequence>>

(* The row of the sequence stays locked until the transaction ends. *)
NextSequence(d) ==
    LET kind == doc[d].order.kind
    IN  /\ Is(d, "prepared")
        /\ kind \in NumberedKinds
        /\ \A e \in Documents : Is(e, "numbered") => doc[e].order.kind # kind
        /\ doc' = [doc EXCEPT ![d].pc = "numbered", ![d].number = sequence[kind] + 1]
        /\ UNCHANGED <<vars, sequence, journals>>

(* The check constraints of a settled document. *)
ReceiptRow(v) == v.order.kind = "CASH_SALE" => v.money # None /\ v.number > 0
ChequeRow(v) == v.order.kind = "CHEQUE" => v.money # None /\ v.number > 0

(* The unique index on bank account and leaf. *)
LeafTaken(d) ==
    /\ doc[d].order.leaf # None
    /\ \E e \in Posted : /\ doc[e].order.kind = "CHEQUE" /\ doc[d].order.kind = "CHEQUE"
                         /\ doc[e].money = doc[d].money
                         /\ doc[e].order.leaf = doc[d].order.leaf

(* Mutant: the number is taken in a transaction of its own. *)
InsertSettledOutside(d) ==
    /\ Is(d, "numbered")
    /\ Referable(d)
    /\ IF LeafTaken(d)
       THEN doc' = [doc EXCEPT ![d].pc = "failed"] /\ UNCHANGED journals
       ELSE Post(d)
    /\ sequence' = [sequence EXCEPT ![doc[d].order.kind] = doc[d].number]
    /\ UNCHANGED vars

(* Journal, document and number are committed together or not at all. *)
InsertSettledDocument(d) ==
    /\ Is(d, "numbered")
    /\ Referable(d)
    /\ IF LeafTaken(d)
       THEN doc' = [doc EXCEPT ![d].pc = "failed"] /\ UNCHANGED <<journals, sequence>>
       ELSE /\ Post(d)
            /\ sequence' = [sequence EXCEPT ![doc[d].order.kind] = doc[d].number]
    /\ UNCHANGED vars

-----------------------------------------------------------------------------

VInit ==
    /\ Init
    /\ doc = [d \in Documents |-> Blank]
    /\ sequence = [k \in NumberedKinds |-> 0]
    /\ journals = [d \in Documents |-> <<>>]

(* What a step of the chart changed under the documents in progress. *)
ChangedRows == {a \in Known : accounts'[a] # accounts[a]}

ChartStep ==
    /\ Next
    /\ doc' = [d \in Documents |->
            IF doc[d].pc \in {"new", "posted", "failed"} THEN doc[d]
            ELSE [doc[d] EXCEPT !.missed = @ \cup ChangedRows]]
    /\ UNCHANGED <<sequence, journals>>

VoucherStep(d) ==
    \/ \E o \in Orders : Receive(d, o)
    \/ FindMoneyAccount(d)
    \/ \E r \in Requests : CreateMpesaAccount(d, r)
    \/ TakeMpesaAccount(d) \/ FindVatAccount(d) \/ PrepareJournal(d)
    \/ CreateJournal(d) \/ NextSequence(d) \/ InsertSettledDocument(d)

VNext == ChartStep \/ (Running /\ \E d \in Documents : VoucherStep(d))

VSpec == VInit /\ [][VNext]_<<vars, docVars>>

-----------------------------------------------------------------------------
(* Properties.                                                             *)

(* Every document has its type, its accounts once they were looked up, and *)
(* never fails on the check constraints of its row.                        *)
DocumentsTyped ==
    /\ TypeOK
    /\ doc \in [Documents -> Document]
    /\ sequence \in [NumberedKinds -> Nat]
    /\ \A d \in Documents :
            doc[d].pc \in {"lines", "prepared", "numbered", "posted"} => Accounts(d) \subseteq Ids
    /\ \A d \in Posted : ReceiptRow(doc[d]) /\ ChequeRow(doc[d])

(* The numbers of the cash sales and of the cheques that are there have no *)
(* gaps, although a cheque can fail after it took its number.              *)
VouchersGapless ==
    \A k \in NumberedKinds :
        LET those == {d \in Posted : doc[d].order.kind = k}
        IN  /\ {doc[d].number : d \in those} = 1 .. sequence[k]
            /\ \A d, e \in those : doc[d].number = doc[e].number => d = e

(* BALANCE_EXPR: the lines of an account on its natural side. *)
SumLines(lines, Value(_)) == SumFunction([n \in DOMAIN lines |-> Value(lines[n])])
Balance(a) ==
    LET side == IF accounts[a].type \in {"ASSET", "EXPENSE"} THEN 1 ELSE -1
    IN  SumFunction([d \in Documents |-> SumLines(journals[d], LAMBDA l :
            IF l.account = a THEN side * (l.debit - l.credit) ELSE 0)])

(* What a document says happened: money came in or went out, an income or  *)
(* an expense arose, tax was collected or can be reclaimed.                *)
MoneyMoved(d) == IF Purchase(doc[d].order) THEN -Total(doc[d].order) ELSE Total(doc[d].order)
Effect(d, a) ==
    LET o == doc[d].order
        sign == IF Purchase(o) THEN 1 ELSE -1
    IN  (IF a = doc[d].money THEN MoneyMoved(d) ELSE 0)
        + (IF a = o.line THEN sign * o.net ELSE 0)
        + (IF a = doc[d].vat THEN sign * o.tax ELSE 0)

(* The balances of the accounts are what the documents say: each document  *)
(* moves its total on its money account, in its direction and once, and    *)
(* its journal balances.                                                   *)
BalancesFollowDocuments ==
    /\ \A d \in Documents :
        /\ journals[d] # <<>> <=> d \in Posted
        /\ SumLines(journals[d], LAMBDA l : l.debit) = SumLines(journals[d], LAMBDA l : l.credit)
    /\ \A a \in Known : Balance(a) =
        LET side == IF accounts[a].type \in {"ASSET", "EXPENSE"} THEN 1 ELSE -1
        IN  side * SumFunction([d \in Posted |-> Effect(d, a)])

(* A document is posted to accounts that take postings and, when it named  *)
(* none, to the one marked for how it was paid -- unless the chart changed *)
(* that account while the request was on its way.                          *)
PostedAsFoundUnlessChanged ==
    \A d \in Posted : doc[d].amiss \subseteq doc[d].missed
=============================================================================
