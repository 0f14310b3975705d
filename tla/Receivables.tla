---------------------------- MODULE Receivables ----------------------------
(***************************************************************************)
(* The documents of one party and the money given for them: invoices and  *)
(* credit notes of a customer with the payments received (side AR), or     *)
(* bills and debit notes of a supplier with the payments made (side AP).   *)
(*                                                                         *)
(* A request reads, checks and prepares its journal outside any            *)
(* transaction (Prepare actions).  Its one transaction then locks rows one *)
(* by one (Lock), checks again what it relies on, and commits (Commit      *)
(* actions) or rolls back.  What a request means to take from each row is  *)
(* its plan: from an invoice a part of what is owed, from a credit note or *)
(* a payment a part of the credit left.                                    *)
(*                                                                         *)
(* Row ids are numbers, because transactions lock rows in the order of     *)
(* their ids, which is not the order of their creation.  Amounts are in    *)
(* minor units; lines, taxes, dates, currencies and accounts are left out. *)
(* The CHECK constraints on amounts are left out too: AmountsInRange says  *)
(* that they never have to refuse anything.                                *)
(***************************************************************************)
EXTENDS Integers, FiniteSets, Functions

CONSTANTS
    Requests,       \* in-flight HTTP requests the server can hold
    Nobody,         \* holder of a row that is not locked
    Mains,          \* ids of invoices (AR) or bills (AP)
    Notes,          \* ids of credit notes (AR) or debit notes (AP)
    Receipts,       \* ids of customer payments
    Amounts,        \* totals of documents and amounts of payments
    CreditLimit,    \* the customer's credit limit
    MaxByHand       \* bound: reversals by hand, those in flight included

Docs == Mains \cup Notes
Sources == Notes \cup Receipts
Rows == Docs \cup Receipts

ASSUME ReceivablesAssumption ==
    /\ Nobody \notin Requests
    /\ Rows \subseteq Nat \ {0}
    /\ Mains \cap Notes = {} /\ Docs \cap Receipts = {}
    /\ Amounts \subseteq Nat \ {0}
    /\ CreditLimit \in Nat /\ MaxByHand \in Nat

VARIABLES
    side,       \* which side is looked at; never changes
    doc,        \* the invoices table
    receipt,    \* the customer_payments table
    posted,     \* what the journals of a row and their reversals put on the control account
    control,    \* the party's balance on the control account
    byHand,     \* how often POST /journals/{id}/reverse reversed the journal of a row
    holder,     \* the row locks: row -> the request whose transaction holds it
    req         \* what each in-flight request means to do

vars == <<side, doc, receipt, posted, control, byHand, holder, req>>
tables == <<doc, receipt, posted, control, byHand>>

-----------------------------------------------------------------------------
(* Rows and request states.                                                *)

DocStatus == {"NONE", "DRAFT", "ISSUED", "PART_PAID", "PAID", "CANCELLED", "DELETED"}

(* A row of invoices; `against' is credited_invoice_id, 0 for none. *)
Document == [status : DocStatus, total : Nat, paid : Nat, against : Mains \cup {0}]

(* A row of customer_payments; amount 0: not received yet. *)
Receipt == [amount : Nat, applied : Nat, unapplied : Nat, refunded : Nat]

NoDoc == [status |-> "NONE", total |-> 0, paid |-> 0, against |-> 0]
Deleted == [NoDoc EXCEPT !.status = "DELETED"]
NoReceipt == [amount |-> 0, applied |-> 0, unapplied |-> 0, refunded |-> 0]

Ops == {"none", "save", "issue", "cancel", "pay", "receive", "apply", "refund", "reverse", "remove"}

(* `unchanged': nobody touched the draft since it was read (its            *)
(* updated_at); `raced' (history): the balance moved since the credit      *)
(* limit was checked; `saving': the call also created the draft.           *)
Request ==
    [op : Ops, row : Rows \cup {0}, amount : Nat, take : [Rows -> Nat],
     unchanged : BOOLEAN, overridden : BOOLEAN, raced : BOOLEAN, saving : BOOLEAN]

TakeNothing == [x \in Rows |-> 0]

Idle ==
    [op |-> "none", row |-> 0, amount |-> 0, take |-> TakeNothing,
     unchanged |-> TRUE, overridden |-> FALSE, raced |-> FALSE, saving |-> FALSE]

-----------------------------------------------------------------------------
(* Helpers.                                                                *)

Open == {"ISSUED", "PART_PAID"}
Posted(x) == IF x \in Docs THEN doc[x].status \in Open \cup {"PAID", "CANCELLED"}
                           ELSE receipt[x].amount > 0

BalanceDue(d) ==
    IF d \in Mains /\ doc[d].status \in Open \cup {"PAID"}
    THEN doc[d].total - doc[d].paid ELSE 0

(* What of a row can still be taken: of an invoice by a payment or a       *)
(* note, of a credit note or a payment by an application or a refund.      *)
Left(x) ==
    CASE x \in Mains    -> IF doc[x].status \in Open THEN BalanceDue(x) ELSE 0
      [] x \in Notes    -> IF side = "AR" /\ doc[x].status = "ISSUED"
                           THEN doc[x].total - doc[x].paid ELSE 0
      [] x \in Receipts -> receipt[x].unapplied

(* Plans that take from rows of S no more than is left. *)
Plans(S) ==
    {[x \in Rows |-> IF x \in S THEN f[x] ELSE 0] :
        f \in {g \in [S -> 0 .. SumFunction([x \in S |-> Left(x)])] :
                 \A x \in S : g[x] \in 0 .. Left(x)}}

Fits(take) == \A x \in Rows : take[x] <= Left(x)

(* What the journal of a row puts on the control account, on its natural side. *)
JournalAmount(x) ==
    CASE x \in Mains    -> doc[x].total
      [] x \in Notes    -> 0 - doc[x].total
      [] x \in Receipts -> 0 - receipt[x].amount

Reversed(x) == byHand[x] > 0 \/ (x \in Docs /\ doc[x].status = "CANCELLED")

(* The row of an invoice after n was allocated to it. *)
Allocated(row, n) ==
    IF n = 0 THEN row
    ELSE [row EXCEPT !.paid = @ + n,
                     !.status = IF row.paid + n >= row.total THEN "PAID" ELSE "PART_PAID"]

(* Mutant: credit that was used is not marked as used. *)
AfterTakingFromInvoices(take) ==
    [d \in Docs |-> IF d \in Mains THEN Allocated(doc[d], take[d]) ELSE doc[d]]

(* The documents after a plan took its part of them. *)
AfterTaking(take) ==
    [d \in Docs |-> IF d \in Mains THEN Allocated(doc[d], take[d])
                    ELSE [doc[d] EXCEPT !.paid = @ + take[d]]]

(* Credit limits are of customers and for invoices. *)
LimitApplies(d) == side = "AR" /\ d \in Mains

(* The rows a transaction locks: first the document it is about, where the *)
(* code locks that by itself, then the rows of its plan in id order.       *)
LocksItsRow(r) == req[r].op \in {"issue", "cancel", "apply"}
ToLock(r) == {x \in Rows : req[r].take[x] > 0} \cup (IF LocksItsRow(r) THEN {req[r].row} ELSE {})
Unlocked(r) == {x \in ToLock(r) : holder[x] # r}
(* Mutant: a refund locks its credits in the order it was asked for. *)
NextRowUnsorted(r) ==
    IF LocksItsRow(r) /\ req[r].row \in Unlocked(r) THEN req[r].row
    ELSE CHOOSE x \in Unlocked(r) : \A y \in Unlocked(r) :
             IF req[r].op = "refund" THEN x >= y ELSE x <= y
NextRow(r) ==
    IF LocksItsRow(r) /\ req[r].row \in Unlocked(r) THEN req[r].row
    ELSE CHOOSE x \in Unlocked(r) : \A y \in Unlocked(r) : x <= y

-----------------------------------------------------------------------------
(* Requests.                                                               *)

Init ==
    /\ side \in {"AR", "AP"}
    /\ doc = [d \in Docs |-> NoDoc]
    /\ receipt = [p \in Receipts |-> NoReceipt]
    /\ posted = [x \in Rows |-> 0]
    /\ control = 0
    /\ byHand = [x \in Rows |-> 0]
    /\ holder = [x \in Rows |-> Nobody]
    /\ req = [r \in Requests |-> Idle]

Idling(r) == req[r].op = "none"

(* r has read and checked, and now opens its transaction. *)
Begin(r, rec) ==
    /\ req' = [req EXCEPT ![r] = rec]
    /\ UNCHANGED <<side, tables, holder>>

(* COMMIT or ROLLBACK: the locks are released. *)
Release(r) ==
    holder' = [x \in Rows |-> IF holder[x] = r THEN Nobody ELSE holder[x]]

(* r is done.  If it moved the balance, requests about to issue an invoice *)
(* checked the credit limit against an old one.                            *)
Commit(r, moved) ==
    /\ Release(r)
    /\ req' = [x \in Requests |->
                  IF x = r THEN Idle
                  ELSE [req[x] EXCEPT !.raced = @ \/ (/\ moved /\ req[x].op = "issue"
                                                     /\ LimitApplies(req[x].row))]]
    /\ UNCHANGED side

(* Mutant: an issue does not look whether the draft was edited. *)
OwnRowStandsIfEdited(r) ==
    LET d == req[r].row IN
    CASE req[r].op = "issue"  -> doc[d].status = "DRAFT"
      [] req[r].op = "cancel" -> doc[d].status \in Open /\ doc[d].paid = 0
      [] req[r].op = "apply"  -> req[r].amount <= Left(d)
      [] OTHER                -> TRUE

(* What a transaction finds out about its own row once it is locked. *)
OwnRowStands(r) ==
    LET d == req[r].row IN
    CASE req[r].op = "issue"  -> doc[d].status = "DRAFT" /\ req[r].unchanged
      [] req[r].op = "cancel" -> doc[d].status \in Open /\ doc[d].paid = 0
      [] req[r].op = "apply"  -> req[r].amount <= Left(d)
      [] OTHER                -> TRUE

(* The transaction takes its next lock, or waits for its holder.  An issue *)
(* and an application check their own document before they lock more.  The *)
(* last lock is taken in the step that commits: once a transaction waits   *)
(* for nothing, the others only see what it committed.                     *)
Lock(r) ==
    /\ Cardinality(Unlocked(r)) > 1
    /\ holder[NextRow(r)] = Nobody
    /\ LocksItsRow(r) /\ holder[req[r].row] = r => OwnRowStands(r)
    /\ holder' = [holder EXCEPT ![NextRow(r)] = r]
    /\ UNCHANGED <<side, tables, req>>

(* All locks are held and everything the request relies on is still so. *)
Ready(r, op) ==
    /\ req[r].op = op
    /\ Cardinality(Unlocked(r)) <= 1
    /\ \A x \in Unlocked(r) : holder[x] = Nobody
    /\ OwnRowStands(r)
    /\ Fits(req[r].take)

(* The request fails: a check refuses, a period is closed, a uuid is taken *)
(* or the connection is lost.  createAndIssueInvoice then removes its      *)
(* draft.                                                                  *)
Fail(r) ==
    /\ req[r].op \notin {"none", "remove"}
    /\ req' = [req EXCEPT ![r] = IF req[r].saving
                                 THEN [Idle EXCEPT !.op = "remove", !.row = req[r].row]
                                 ELSE Idle]
    /\ Release(r)
    /\ UNCHANGED <<side, tables>>

(* The server dies between the transactions of createAndIssueInvoice. *)
Die(r) ==
    /\ req[r].saving \/ req[r].op = "remove"
    /\ req' = [req EXCEPT ![r] = Idle]
    /\ Release(r)
    /\ UNCHANGED <<side, tables>>

-----------------------------------------------------------------------------
(* Drafts.  One transaction each, which waits for the row's lock while it  *)
(* holds none; what it read before it is not relied on.                    *)

(* create, createReduction: a reduction needs an open document of the      *)
(* right size, which may change before the note is issued.                 *)
MayCreate(d, total, against) ==
    /\ doc[d].status = "NONE"
    /\ d \in Mains => against = 0
    /\ side = "AP" /\ d \in Notes => against # 0
    /\ against # 0 => /\ doc[against].status \in Open
                      /\ total + SumFunction([n \in {n \in Notes : doc[n].status = "DRAFT"
                                                            /\ doc[n].against = against}
                                              |-> doc[n].total])
                            <= BalanceDue(against)

NewDraft(d, total, against) ==
    doc' = [doc EXCEPT ![d] = [status |-> "DRAFT", total |-> total, paid |-> 0, against |-> against]]

Create(d, total, against) ==
    /\ MayCreate(d, total, against)
    /\ NewDraft(d, total, against)
    /\ UNCHANGED <<side, receipt, posted, control, byHand, holder, req>>

(* updateDraft, deleteDraft *)
Update(d, total) ==
    /\ doc[d].status = "DRAFT"
    /\ holder[d] = Nobody
    /\ doc' = [doc EXCEPT ![d].total = total]
    /\ req' = [x \in Requests |-> [req[x] EXCEPT !.unchanged =
                  @ /\ ~(req[x].op = "issue" /\ req[x].row = d)]]
    /\ UNCHANGED <<side, receipt, posted, control, byHand, holder>>

Remove(d) ==
    /\ doc[d].status = "DRAFT"
    /\ holder[d] = Nobody
    /\ doc' = [doc EXCEPT ![d] = Deleted]
    /\ UNCHANGED <<side, receipt, posted, control, byHand, holder, req>>

(* createAndIssueInvoice: the draft is created, issued by the same call,   *)
(* and removed if that fails -- if it still is a draft.                    *)
Save(r, d, total) ==
    /\ side = "AR"
    /\ Idling(r)
    /\ MayCreate(d, total, 0)
    /\ NewDraft(d, total, 0)
    /\ req' = [req EXCEPT ![r] = [Idle EXCEPT !.op = "save", !.row = d, !.saving = TRUE]]
    /\ UNCHANGED <<side, receipt, posted, control, byHand, holder>>

RemoveSaved(r) ==
    LET d == req[r].row IN
    /\ req[r].op = "remove"
    /\ holder[d] = Nobody
    /\ doc' = [doc EXCEPT ![d] = IF @.status = "DRAFT" THEN Deleted ELSE @]
    /\ req' = [req EXCEPT ![r] = Idle]
    /\ UNCHANGED <<side, receipt, posted, control, byHand, holder>>

-----------------------------------------------------------------------------
(* Issue, cancel, reverse by hand.                                         *)

(* Mutant: the limit is compared with the invoice, not with the balance. *)
PrepareIssueForItself(r, d) ==
    LET beyond == LimitApplies(d) /\ doc[d].total > CreditLimit
        o == doc[d].against
        take == [x \in Rows |-> IF x = o THEN doc[d].total ELSE 0]
    IN
    /\ Idling(r) \/ (req[r].op = "save" /\ req[r].row = d)
    /\ doc[d].status = "DRAFT"
    /\ Fits(take)
    /\ Begin(r, [Idle EXCEPT !.op = "issue", !.row = d, !.amount = doc[d].total,
                             !.take = take, !.overridden = beyond, !.saving = req[r].saving])

(* issue up to its transaction.  An invoice beyond the credit limit needs  *)
(* an override; a note against an invoice takes its total from it.         *)
PrepareIssue(r, d) ==
    LET beyond == LimitApplies(d) /\ control + doc[d].total > CreditLimit
        o == doc[d].against
        take == [x \in Rows |-> IF x = o THEN doc[d].total ELSE 0]
    IN
    /\ Idling(r) \/ (req[r].op = "save" /\ req[r].row = d)
    /\ doc[d].status = "DRAFT"
    /\ Fits(take)
    /\ Begin(r, [Idle EXCEPT !.op = "issue", !.row = d, !.amount = doc[d].total,
                             !.take = take, !.overridden = beyond, !.saving = req[r].saving])

(* Mutant: a note raised against an invoice is not marked as used. *)
CommitIssueUnused(r) ==
    LET d == req[r].row
        prepared == IF d \in Mains THEN req[r].amount ELSE 0 - req[r].amount
    IN
    /\ Ready(r, "issue")
    /\ doc' = [AfterTaking(req[r].take) EXCEPT ![d].status = "ISSUED"]
    /\ posted' = [posted EXCEPT ![d] = prepared]
    /\ control' = control + prepared
    /\ Commit(r, TRUE)
    /\ UNCHANGED <<receipt, byHand>>

CommitIssue(r) ==
    LET d == req[r].row
        used == IF side = "AR" /\ doc[d].against # 0 THEN doc[d].total ELSE 0
        prepared == IF d \in Mains THEN req[r].amount ELSE 0 - req[r].amount
    IN
    /\ Ready(r, "issue")
    /\ doc' = [AfterTaking(req[r].take) EXCEPT ![d].status = "ISSUED", ![d].paid = used]
    /\ posted' = [posted EXCEPT ![d] = prepared]
    /\ control' = control + prepared
    /\ Commit(r, TRUE)
    /\ UNCHANGED <<receipt, byHand>>

(* cancel: the reversal of the issue journal is prepared before the lock. *)
PrepareCancel(r, d) ==
    /\ Idling(r)
    /\ d \in Mains /\ Posted(d) /\ ~Reversed(d)
    /\ doc[d].paid = 0
    /\ Begin(r, [Idle EXCEPT !.op = "cancel", !.row = d])

CommitCancel(r) ==
    LET d == req[r].row IN
    /\ Ready(r, "cancel")
    /\ doc' = [doc EXCEPT ![d].status = "CANCELLED"]
    /\ posted' = [posted EXCEPT ![d] = @ - JournalAmount(d)]
    /\ control' = control - JournalAmount(d)
    /\ Commit(r, TRUE)
    /\ UNCHANGED <<receipt, byHand>>

(* reverseJournal on the journal of a document or a payment.  It neither   *)
(* looks at the document nor locks it.  Reversing a refund's or a          *)
(* reversal's journal is left out.                                         *)
PrepareReverse(r, x) ==
    /\ Idling(r)
    /\ SumFunction(byHand) + Cardinality({q \in Requests : req[q].op = "reverse"}) < MaxByHand
    /\ Posted(x) /\ ~Reversed(x)
    /\ Begin(r, [Idle EXCEPT !.op = "reverse", !.row = x])

CommitReverse(r) ==
    LET x == req[r].row IN
    /\ Ready(r, "reverse")
    /\ byHand' = [byHand EXCEPT ![x] = @ + 1]
    /\ posted' = [posted EXCEPT ![x] = @ - JournalAmount(x)]
    /\ control' = control - JournalAmount(x)
    /\ Commit(r, TRUE)
    /\ UNCHANGED <<doc, receipt>>

-----------------------------------------------------------------------------
(* Payments and credit.                                                    *)

(* pay (AP): one bill, never more than is owed. *)
PreparePay(r, d, n) ==
    /\ side = "AP"
    /\ Idling(r)
    /\ d \in Mains /\ n <= Left(d)
    /\ Begin(r, [Idle EXCEPT !.op = "pay", !.row = d, !.amount = n, !.take[d] = n])

CommitPay(r) ==
    /\ Ready(r, "pay")
    /\ doc' = AfterTaking(req[r].take)
    /\ control' = control - req[r].amount
    /\ Commit(r, TRUE)
    /\ UNCHANGED <<receipt, posted, byHand>>

(* receivePayment (AR): any invoices, chosen by the client or the oldest   *)
(* first; what they do not take is credit.                                 *)
PrepareReceive(r, n, take) ==
    /\ side = "AR"
    /\ Idling(r)
    /\ SumFunction(take) \in 0 .. n
    /\ Begin(r, [Idle EXCEPT !.op = "receive", !.amount = n, !.take = take])

CommitReceive(r, p) ==
    LET applied == SumFunction(req[r].take)
        n == req[r].amount
    IN
    /\ Ready(r, "receive")
    /\ receipt[p].amount = 0
    /\ doc' = AfterTaking(req[r].take)
    /\ receipt' = [receipt EXCEPT ![p] = [amount |-> n, applied |-> applied,
                                         unapplied |-> n - applied, refunded |-> 0]]
    /\ posted' = [posted EXCEPT ![p] = 0 - n]
    /\ control' = control - n
    /\ Commit(r, TRUE)
    /\ UNCHANGED byHand

(* applyCredit: credit of any sources onto one invoice; posts nothing. *)
PrepareApply(r, d, take) ==
    /\ side = "AR"
    /\ Idling(r)
    /\ d \in Mains
    /\ SumFunction(take) \in 1 .. Left(d)
    /\ Begin(r, [Idle EXCEPT !.op = "apply", !.row = d,
                             !.amount = SumFunction(take), !.take = take])

CommitApply(r) ==
    LET d == req[r].row
        take == req[r].take
    IN
    /\ Ready(r, "apply")
    /\ doc' = [AfterTaking(take) EXCEPT ![d] = Allocated(doc[d], req[r].amount)]
    /\ receipt' = [p \in Receipts |-> [receipt[p] EXCEPT !.unapplied = @ - take[p],
                                                        !.applied = @ + take[p]]]
    /\ Commit(r, FALSE)
    /\ UNCHANGED <<posted, control, byHand>>

(* createRefund: pays credit back. *)
PrepareRefund(r, take) ==
    /\ side = "AR"
    /\ Idling(r)
    /\ SumFunction(take) \in Nat \ {0}
    /\ Begin(r, [Idle EXCEPT !.op = "refund", !.amount = SumFunction(take), !.take = take])

(* Mutant: the money goes out and the credit stays. *)
CommitRefundKeeping(r) ==
    /\ Ready(r, "refund")
    /\ control' = control + req[r].amount
    /\ Commit(r, TRUE)
    /\ UNCHANGED <<doc, receipt, posted, byHand>>

CommitRefund(r) ==
    LET take == req[r].take IN
    /\ Ready(r, "refund")
    /\ doc' = AfterTaking(take)
    /\ receipt' = [p \in Receipts |-> [receipt[p] EXCEPT !.unapplied = @ - take[p],
                                                        !.refunded = @ + take[p]]]
    /\ control' = control + req[r].amount
    /\ Commit(r, TRUE)
    /\ UNCHANGED <<posted, byHand>>

-----------------------------------------------------------------------------

Next ==
    \/ \E d \in Docs, n \in Amounts :
          \/ \E o \in Mains \cup {0} : Create(d, n, o)
          \/ Update(d, n)
    \/ \E d \in Docs : Remove(d)
    \/ \E r \in Requests :
          \/ \E d \in Docs, n \in Amounts : Save(r, d, n)
          \/ \E d \in Docs : PrepareIssue(r, d) \/ PrepareCancel(r, d)
          \/ \E x \in Rows : PrepareReverse(r, x)
          \/ \E d \in Mains, n \in Amounts : PreparePay(r, d, n)
          \/ \E n \in Amounts, take \in Plans(Mains) : PrepareReceive(r, n, take)
          \/ \E d \in Mains, take \in Plans(Sources) : PrepareApply(r, d, take)
          \/ \E take \in Plans(Sources) : PrepareRefund(r, take)
          \/ Lock(r)
          \/ CommitIssue(r)
          \/ CommitCancel(r)
          \/ CommitReverse(r)
          \/ CommitPay(r)
          \/ \E p \in Receipts : CommitReceive(r, p)
          \/ CommitApply(r)
          \/ CommitRefund(r)
          \/ Fail(r)
          \/ Die(r)
          \/ RemoveSaved(r)

Spec == Init /\ [][Next]_vars
-----------------------------------------------------------------------------
(* Properties.                                                             *)

(* The tables, the locks and the requests hold what their columns allow. *)
TypeOK ==
    /\ side \in {"AR", "AP"}
    /\ doc \in [Docs -> Document]
    /\ receipt \in [Receipts -> Receipt]
    /\ posted \in [Rows -> Int]
    /\ control \in Int
    /\ byHand \in [Rows -> Nat]
    /\ holder \in [Rows -> Requests \cup {Nobody}]
    /\ req \in [Requests -> Request]

(* The CHECK constraints on amounts never have to refuse anything: however *)
(* payments, notes, applications and refunds interleave, no document is    *)
(* paid or used beyond its total, and a payment's parts add up to it.      *)
AmountsInRange ==
    /\ \A d \in Docs : doc[d].paid <= doc[d].total
    /\ \A p \in Receipts :
          receipt[p].amount = receipt[p].applied + receipt[p].unapplied + receipt[p].refunded

(* The status of a document tells what was paid of it: a cancelled one     *)
(* was never paid or credited, a settled one is settled to the last cent.  *)
StatusTellsPaid ==
    \A d \in Docs :
        LET paid == doc[d].paid  total == doc[d].total IN
        CASE doc[d].status = "PAID"      -> paid = total
          [] doc[d].status = "PART_PAID" -> 0 < paid /\ paid < total
          [] doc[d].status = "ISSUED"    -> d \in Mains => paid = 0
          [] OTHER                       -> paid = 0

(* A document and its journals agree: its total stands on the control      *)
(* account exactly while it is issued and not cancelled, apart from the    *)
(* times somebody reversed its journal by hand.                            *)
LedgerFollowsDocuments ==
    \A d \in Docs :
        posted[d] = (IF Posted(d) /\ doc[d].status # "CANCELLED" THEN JournalAmount(d) ELSE 0)
                    - byHand[d] * JournalAmount(d)

(* The party's balance is what its open documents still owe less its       *)
(* unused credit, apart from reversals by hand: nothing is lost or counted *)
(* twice between payments, notes, applications, refunds and cancellations. *)
BalanceIsOpenItems ==
    control = SumFunction([d \in Mains |-> BalanceDue(d)])
              - SumFunction([x \in Sources |-> Left(x)])
              - SumFunction([x \in Rows |-> byHand[x] * JournalAmount(x)])

(* All of a credit note raised against an invoice is used on it: it leaves *)
(* no credit that could be used again.                                     *)
NotesUsedOnTheirInvoice ==
    \A n \in Notes : side = "AR" /\ Posted(n) /\ doc[n].against # 0 => Left(n) = 0

(* Transactions never wait for each other in a circle, although they lock  *)
(* drafts, invoices, credit notes and payments, several of each: the order *)
(* in which every one takes its locks sees to it.                          *)
WaitsFor(a, b) == Unlocked(a) # {} /\ holder[NextRow(a)] = b
NoCircularWait ==
    \A S \in (SUBSET Requests) \ {{}} : \E a \in S : \A b \in S : ~WaitsFor(a, b)

(* An issue without override takes the balance beyond the credit limit     *)
(* only if the balance moved after the check.                              *)
IssuesUnderTheLimit(r) ==
    /\ req[r].op = "issue" /\ LimitApplies(req[r].row) /\ ~req[r].overridden
    /\ doc[req[r].row].status = "DRAFT" /\ doc'[req[r].row].status = "ISSUED"
    /\ req'[r] = Idle
LimitExceededOnlyInARace ==
    [][\A r \in Requests :
          IssuesUnderTheLimit(r) /\ ~req[r].raced => control' <= CreditLimit]_doc

(* documents.ts: "the customer's balance after this invoice must stay      *)
(* within" the credit limit, unless it was overridden.                     *)
LimitKept ==
    [][\A r \in Requests : IssuesUnderTheLimit(r) => control' <= CreditLimit]_doc

(* What was issued is frozen: only drafts change their total, and a        *)
(* document that is settled, cancelled or deleted stays so.                *)
IssuedIsFrozen ==
    [][\A d \in Docs :
          doc[d].status \notin {"NONE", "DRAFT"} =>
              /\ doc'[d].total = doc[d].total /\ doc'[d].against = doc[d].against
              /\ doc'[d].paid >= doc[d].paid
              /\ doc[d].status \in {"PAID", "CANCELLED", "DELETED"} => doc'[d] = doc[d]]_doc

(* Documents and payments implement OpenItems: an invoice falls only by    *)
(* what was given or used for it, and no credit is used twice.             *)
Items == INSTANCE OpenItems WITH
    Debts <- Mains,
    Credits <- Sources,
    charged <- [d \in Mains |-> IF Posted(d) THEN doc[d].total ELSE 0],
    owed <- [d \in Mains |-> BalanceDue(d)],
    credit <- [x \in Sources |-> Left(x)]
ImplementsOpenItems == Items!Spec
=============================================================================
