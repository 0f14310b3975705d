------------------------- MODULE ReceivablesProofs -------------------------
(***************************************************************************)
(* Proofs about Receivables, for any number of requests, documents and     *)
(* payments, and any amounts and credit limit.                             *)
(*                                                                         *)
(* DocMove lists the few things that can happen to one document in one     *)
(* step; what is said of single documents follows from it without looking  *)
(* at the actions again.  RequestsWF says what a request in flight still   *)
(* knows from its reads, LocksInv which rows it holds meanwhile, and       *)
(* SettlesInv that what it takes adds up to what it posts.  The sums over  *)
(* all documents and payments follow from those (lemmas of Sums): Takes    *)
(* says what one step does to them.                                        *)
(***************************************************************************)
EXTENDS Receivables, Sums

(* What may become of a document, `new' being its row after the step. *)
Born(d, new) ==
    /\ doc[d].status = "NONE"
    /\ \E n \in Nat, o \in Mains \cup {0} :
          /\ d \in Mains => o = 0
          /\ new = [status |-> "DRAFT", total |-> n, paid |-> 0, against |-> o]
Edited(d, new) ==
    doc[d].status = "DRAFT" /\ \E n \in Nat : new = [doc[d] EXCEPT !.total = n]
Removed(d, new) == doc[d].status = "DRAFT" /\ new = Deleted
IssuedNow(d, new) ==
    /\ doc[d].status = "DRAFT"
    /\ new = [doc[d] EXCEPT !.status = "ISSUED",
                  !.paid = IF side = "AR" /\ doc[d].against # 0 THEN doc[d].total ELSE 0]
CancelledNow(d, new) ==
    /\ d \in Mains /\ doc[d].status \in Open /\ doc[d].paid = 0
    /\ new = [doc[d] EXCEPT !.status = "CANCELLED"]
Taken(d, new) ==
    /\ d \in Mains /\ doc[d].status \in Open
    /\ \E n \in 1 .. (doc[d].total - doc[d].paid) : new = Allocated(doc[d], n)
Used(d, new) ==
    /\ d \in Notes /\ side = "AR" /\ doc[d].status = "ISSUED"
    /\ \E n \in 1 .. (doc[d].total - doc[d].paid) : new = [doc[d] EXCEPT !.paid = @ + n]

MoneyMove(d, new) == new = doc[d] \/ Taken(d, new) \/ Used(d, new)
DraftMove(d, new) == new = doc[d] \/ Born(d, new) \/ Edited(d, new) \/ Removed(d, new)
DocMove(d) ==
    \/ DraftMove(d, doc'[d]) \/ MoneyMove(d, doc'[d])
    \/ IssuedNow(d, doc'[d]) \/ CancelledNow(d, doc'[d])

(* The inductive invariant. *)
DocsWF ==
    \A d \in Docs :
        /\ d \in Mains => doc[d].against = 0
        /\ d \in Notes => doc[d].status \in {"NONE", "DRAFT", "ISSUED", "DELETED"}

ReversedWerePosted == \A x \in Rows : byHand[x] > 0 => Posted(x)

(* What a request still knows. *)
Knows(q) ==
    /\ q.saving => q.op \in {"save", "issue"}
    /\ q.op \in {"save", "remove"} => q.row \in Docs
    /\ q.op = "issue" => q.row \in Docs /\ doc[q.row].status # "NONE"
    /\ q.op \in {"cancel", "apply", "pay"} => q.row \in Mains
    /\ q.op = "reverse" => q.row \in Rows /\ Posted(q.row)
    /\ q.op = "receive" => SumFunction(q.take) \in 0 .. q.amount
    /\ q.op = "issue" /\ q.unchanged /\ doc[q.row].status = "DRAFT" => q.amount = doc[q.row].total
    /\ q.op = "issue" /\ LimitApplies(q.row) /\ ~q.overridden /\ ~q.raced
           => control + q.amount <= CreditLimit
RequestsWF == \A r \in Requests : Knows(req[r])

IInv ==
    /\ TypeOK
    /\ DocsWF
    /\ AmountsInRange
    /\ StatusTellsPaid
    /\ NotesUsedOnTheirInvoice
    /\ ReversedWerePosted
    /\ RequestsWF
    /\ LedgerFollowsDocuments

-----------------------------------------------------------------------------
(* Rows.                                                                   *)

LEMMA RowSets ==
  /\ Docs \subseteq Rows /\ Mains \subseteq Docs /\ Notes \subseteq Docs
  /\ Docs \cap Receipts = {} /\ Mains \cap Notes = {}
  /\ Receipts \subseteq Rows /\ Sources \subseteq Rows
  /\ \A x \in Rows : x \in Nat \ {0}
  BY ReceivablesAssumption DEF Docs, Rows, Sources

LEMMA DocType ==
  ASSUME TypeOK, NEW d \in Docs
  PROVE  /\ doc[d] \in Document
         /\ doc[d].status \in DocStatus
         /\ doc[d].total \in Nat /\ doc[d].paid \in Nat
         /\ doc[d].against \in Mains \cup {0}
  BY DEF TypeOK, Document

LEMMA ReqType ==
  ASSUME TypeOK, NEW r \in Requests
  PROVE  /\ req[r] \in Request
         /\ req[r].op \in Ops /\ req[r].row \in Rows \cup {0}
         /\ req[r].amount \in Nat /\ req[r].take \in [Rows -> Nat]
         /\ req[r].unchanged \in BOOLEAN /\ req[r].overridden \in BOOLEAN
         /\ req[r].raced \in BOOLEAN /\ req[r].saving \in BOOLEAN
  BY DEF TypeOK, Request

(* Every row a document can become is one. *)
LEMMA AllocatedType ==
  ASSUME NEW row \in Document, NEW n \in Nat
  PROVE  Allocated(row, n) \in Document
  <1>1. ASSUME NEW s \in DocStatus
        PROVE  [row EXCEPT !.paid = row.paid + n, !.status = s] \in Document
    <2>1. row.paid + n \in Nat
      BY DEF Document
    <2>2. [row EXCEPT !.paid = row.paid + n] \in Document
      BY <2>1 DEF Document
    <2>3. [row EXCEPT !.paid = row.paid + n, !.status = s]
            = [[row EXCEPT !.paid = row.paid + n] EXCEPT !.status = s]
      OBVIOUS
    <2>4. \A q \in Document : [q EXCEPT !.status = s] \in Document
      BY DEF Document
    <2>. QED  BY <2>2, <2>3, <2>4
  <1>2. "PAID" \in DocStatus /\ "PART_PAID" \in DocStatus
    BY DEF DocStatus
  <1>. QED  BY <1>1, <1>2 DEF Allocated

(* What can be taken, kind by kind. *)
LEMMA LeftIs ==
  ASSUME NEW x \in Rows
  PROVE  /\ x \in Mains => Left(x) = IF doc[x].status \in Open THEN doc[x].total - doc[x].paid ELSE 0
         /\ x \in Notes => Left(x) = IF side = "AR" /\ doc[x].status = "ISSUED"
                                     THEN doc[x].total - doc[x].paid ELSE 0
         /\ x \in Receipts => Left(x) = receipt[x].unapplied
  <1>1. x \in Mains => x \notin Notes /\ x \notin Receipts
    BY RowSets
  <1>2. x \in Notes => x \notin Receipts
    BY RowSets
  <1>. QED  BY <1>1, <1>2 DEF Left, BalanceDue

(* A plan that fits takes only from what is open, and no more. *)
LEMMA Taking ==
  ASSUME TypeOK, DocsWF, AmountsInRange, NEW take \in [Rows -> Nat], Fits(take), NEW d \in Docs
  PROVE  /\ AfterTaking(take)[d] \in Document
         /\ MoneyMove(d, AfterTaking(take)[d])
         /\ doc[d].status \notin Open => AfterTaking(take)[d] = doc[d]
  <1>1. take[d] \in Nat /\ take[d] <= Left(d) /\ doc[d].paid <= doc[d].total
    BY RowSets DEF Fits, AmountsInRange
  <1>2. CASE d \in Mains
    <2>1. AfterTaking(take)[d] = Allocated(doc[d], take[d])
      BY <1>2, RowSets DEF AfterTaking
    <2>2. AfterTaking(take)[d] \in Document
      BY <2>1, <1>1, DocType, AllocatedType
    <2>3. take[d] = 0 => Allocated(doc[d], take[d]) = doc[d]
      BY DEF Allocated
    <2>4. take[d] # 0 => doc[d].status \in Open /\ take[d] \in 1 .. (doc[d].total - doc[d].paid)
      BY <1>1, <1>2, DocType, LeftIs, RowSets
    <2>. QED  BY <1>2, <2>1, <2>2, <2>3, <2>4 DEF MoneyMove, Taken
  <1>3. CASE d \in Notes
    <2>1. AfterTaking(take)[d] = [doc[d] EXCEPT !.paid = @ + take[d]]
      BY <1>3, RowSets DEF AfterTaking
    <2>2. AfterTaking(take)[d] \in Document
      BY <2>1, <1>1, DocType DEF Document
    <2>3. take[d] = 0 => [doc[d] EXCEPT !.paid = @ + take[d]] = doc[d]
      BY DocType DEF Document
    <2>4. take[d] # 0 => side = "AR" /\ doc[d].status = "ISSUED"
                         /\ take[d] \in 1 .. (doc[d].total - doc[d].paid)
      BY <1>1, <1>3, DocType, RowSets, LeftIs
    <2>. QED  BY <1>3, <2>1, <2>2, <2>3, <2>4 DEF MoneyMove, Used, Open
  <1>. QED  BY <1>2, <1>3 DEF Docs

-----------------------------------------------------------------------------
(* The actions by kind: requests that begin, wait or fail leave the tables *)
(* alone; drafts and commits change them.                                  *)

Drafting ==
    \/ \E d \in Docs, n \in Amounts :
          \/ \E o \in Mains \cup {0} : Create(d, n, o)
          \/ Update(d, n)
    \/ \E d \in Docs : Remove(d)
    \/ \E r \in Requests :
          \/ \E d \in Docs, n \in Amounts : Save(r, d, n)
          \/ RemoveSaved(r)

Preparing(r) ==
    \/ \E d \in Docs : PrepareIssue(r, d) \/ PrepareCancel(r, d)
    \/ \E x \in Rows : PrepareReverse(r, x)
    \/ \E d \in Mains, n \in Amounts : PreparePay(r, d, n)
    \/ \E n \in Amounts, take \in Plans(Mains) : PrepareReceive(r, n, take)
    \/ \E d \in Mains, take \in Plans(Sources) : PrepareApply(r, d, take)
    \/ \E take \in Plans(Sources) : PrepareRefund(r, take)

Waiting(r) == Lock(r) \/ Fail(r) \/ Die(r)

Committing(r) ==
    \/ CommitIssue(r)
    \/ CommitCancel(r)
    \/ CommitReverse(r)
    \/ CommitPay(r)
    \/ \E p \in Receipts : CommitReceive(r, p)
    \/ CommitApply(r)
    \/ CommitRefund(r)

LEMMA NextIs ==
  Next => Drafting \/ \E r \in Requests : Preparing(r) \/ Waiting(r) \/ Committing(r)
  BY DEF Next, Drafting, Preparing, Waiting, Committing

LEMMA PlansType ==
  ASSUME NEW S \in SUBSET Rows, NEW take \in Plans(S)
  PROVE  take \in [Rows -> Nat]
  <1>1. PICK f \in [S -> 0 .. SumFunction([x \in S |-> Left(x)])] :
           /\ \A x \in S : f[x] \in 0 .. Left(x)
           /\ take = [x \in Rows |-> IF x \in S THEN f[x] ELSE 0]
    BY DEF Plans
  <1>2. \A x \in S : f[x] \in Nat
    BY <1>1
  <1>. QED  BY <1>1, <1>2

LEMMA IdleType ==
  /\ TakeNothing \in [Rows -> Nat]
  /\ Idle \in Request
  <1>1. TakeNothing \in [Rows -> Nat]
    BY DEF TakeNothing
  <1>2. "none" \in Ops /\ 0 \in Rows \cup {0}
    BY DEF Ops
  <1>. QED  BY <1>1, <1>2 DEF Idle, Request

LEMMA RequestExcept ==
  ASSUME NEW q \in Request
  PROVE  /\ \A v \in Ops : [q EXCEPT !.op = v] \in Request
         /\ \A v \in Rows \cup {0} : [q EXCEPT !.row = v] \in Request
         /\ \A v \in Nat : [q EXCEPT !.amount = v] \in Request
         /\ \A v \in [Rows -> Nat] : [q EXCEPT !.take = v] \in Request
         /\ \A v \in BOOLEAN : [q EXCEPT !.unchanged = v] \in Request
         /\ \A v \in BOOLEAN : [q EXCEPT !.overridden = v] \in Request
         /\ \A v \in BOOLEAN : [q EXCEPT !.raced = v] \in Request
         /\ \A v \in BOOLEAN : [q EXCEPT !.saving = v] \in Request
  BY DEF Request

(* A request begins with a record that is well formed. *)
LEMMA Begins ==
  ASSUME IInv, NEW r \in Requests, Preparing(r)
  PROVE  \E rec \in Request : Begin(r, rec) /\ Knows(rec)
  <1>. DEFINE Goal == \E rec \in Request : Begin(r, rec) /\ Knows(rec)
  <1>0. TypeOK /\ (\A n \in Amounts : n \in Nat) /\ Mains \subseteq Rows /\ CreditLimit \in Nat
    BY RowSets, ReceivablesAssumption DEF IInv
  <1>o. \A op \in {"issue", "cancel", "pay", "receive", "apply", "refund", "reverse"} : op \in Ops
    BY DEF Ops
  <1>1. ASSUME NEW d \in Docs, PrepareIssue(r, d) PROVE Goal
    <2>. DEFINE beyond == LimitApplies(d) /\ control + doc[d].total > CreditLimit
                take == [x \in Rows |-> IF x = doc[d].against THEN doc[d].total ELSE 0]
                rec == [Idle EXCEPT !.op = "issue", !.row = d, !.amount = doc[d].total,
                            !.take = take, !.overridden = beyond, !.saving = req[r].saving]
    <2>1. take \in [Rows -> Nat] /\ beyond \in BOOLEAN
      BY <1>0, DocType
    <2>2. rec \in Request
      BY <2>1, <1>0, <1>o, IdleType, RequestExcept, DocType, ReqType, RowSets
    <2>3. Begin(r, rec) /\ doc[d].status = "DRAFT"
      BY <1>1 DEF PrepareIssue
    <2>4. LimitApplies(d) /\ ~beyond => control + doc[d].total <= CreditLimit
      BY <1>0, DocType DEF TypeOK
    <2>5. rec.op = "issue" /\ rec.row = d /\ rec.amount = doc[d].total /\ rec.overridden = beyond
      BY DEF Idle
    <2>. HIDE DEF beyond, take, rec
    <2>6. Knows(rec)
      BY <2>3, <2>4, <2>5 DEF Knows
    <2>. QED  BY <2>2, <2>3, <2>6
  <1>2. ASSUME NEW d \in Docs, PrepareCancel(r, d) PROVE Goal
    <2>. DEFINE rec == [Idle EXCEPT !.op = "cancel", !.row = d]
    <2>1. rec \in Request
      BY <1>o, IdleType, RequestExcept, RowSets
    <2>2. Begin(r, rec) /\ d \in Mains
      BY <1>2 DEF PrepareCancel
    <2>3. Knows(rec)
      BY <2>2 DEF Knows, Idle
    <2>. QED  BY <2>1, <2>2, <2>3
  <1>3. ASSUME NEW x \in Rows, PrepareReverse(r, x) PROVE Goal
    <2>. DEFINE rec == [Idle EXCEPT !.op = "reverse", !.row = x]
    <2>1. rec \in Request
      BY <1>o, IdleType, RequestExcept
    <2>2. Begin(r, rec) /\ Posted(x)
      BY <1>3 DEF PrepareReverse
    <2>3. Knows(rec)
      BY <2>2 DEF Knows, Idle
    <2>. QED  BY <2>1, <2>2, <2>3
  <1>4. ASSUME NEW d \in Mains, NEW n \in Amounts, PreparePay(r, d, n) PROVE Goal
    <2>. DEFINE take == [TakeNothing EXCEPT ![d] = n]
                rec == [Idle EXCEPT !.op = "pay", !.row = d, !.amount = n, !.take[d] = n]
    <2>1. take \in [Rows -> Nat]
      BY <1>0, IdleType
    <2>2. rec = [Idle EXCEPT !.op = "pay", !.row = d, !.amount = n, !.take = take]
      BY DEF Idle
    <2>3. rec \in Request
      BY <2>1, <2>2, <1>0, <1>o, IdleType, RequestExcept
    <2>4. Begin(r, rec)
      BY <1>4 DEF PreparePay
    <2>5. Knows(rec)
      BY DEF Knows, Idle
    <2>. QED  BY <2>3, <2>4, <2>5
  <1>5. ASSUME NEW n \in Amounts, NEW take \in Plans(Mains), PrepareReceive(r, n, take) PROVE Goal
    <2>. DEFINE rec == [Idle EXCEPT !.op = "receive", !.amount = n, !.take = take]
    <2>1. rec \in Request
      BY <1>0, <1>o, IdleType, RequestExcept, PlansType
    <2>2. Begin(r, rec) /\ SumFunction(take) \in 0 .. n
      BY <1>5 DEF PrepareReceive
    <2>3. Knows(rec)
      BY <2>2 DEF Knows, Idle
    <2>. QED  BY <2>1, <2>2, <2>3
  <1>6. ASSUME NEW d \in Mains, NEW take \in Plans(Sources), PrepareApply(r, d, take) PROVE Goal
    <2>. DEFINE rec == [Idle EXCEPT !.op = "apply", !.row = d,
                                    !.amount = SumFunction(take), !.take = take]
    <2>1. SumFunction(take) \in Nat /\ take \in [Rows -> Nat]
      <3>1. SumFunction(take) \in 1 .. Left(d)
        BY <1>6 DEF PrepareApply
      <3>2. Left(d) \in Int
        BY <1>0, RowSets, LeftIs, DocType
      <3>. QED  BY <3>1, <3>2, PlansType, RowSets
    <2>2. rec \in Request
      BY <2>1, <1>0, <1>o, IdleType, RequestExcept
    <2>3. Begin(r, rec)
      BY <1>6 DEF PrepareApply
    <2>4. Knows(rec)
      BY DEF Knows, Idle
    <2>. QED  BY <2>2, <2>3, <2>4
  <1>7. ASSUME NEW take \in Plans(Sources), PrepareRefund(r, take) PROVE Goal
    <2>. DEFINE rec == [Idle EXCEPT !.op = "refund", !.amount = SumFunction(take), !.take = take]
    <2>1. SumFunction(take) \in Nat /\ take \in [Rows -> Nat]
      BY <1>7, PlansType, RowSets DEF PrepareRefund
    <2>2. rec \in Request
      BY <2>1, <1>o, IdleType, RequestExcept
    <2>3. Begin(r, rec)
      BY <1>7 DEF PrepareRefund
    <2>4. Knows(rec)
      BY DEF Knows, Idle
    <2>. QED  BY <2>2, <2>3, <2>4
  <1>. QED
    BY <1>1, <1>2, <1>3, <1>4, <1>5, <1>6, <1>7 DEF Preparing

-----------------------------------------------------------------------------
(* What happens to documents and payments.                                 *)

LEMMA DraftType ==
  ASSUME NEW n \in Nat, NEW o \in Mains \cup {0}
  PROVE  [status |-> "DRAFT", total |-> n, paid |-> 0, against |-> o] \in Document
  BY DEF Document, DocStatus

LEMMA DocumentExcept ==
  ASSUME NEW row \in Document
  PROVE  /\ \A v \in DocStatus : [row EXCEPT !.status = v] \in Document
         /\ \A v \in Nat : [row EXCEPT !.total = v] \in Document
         /\ \A v \in Nat : [row EXCEPT !.paid = v] \in Document
  BY DEF Document

LEMMA DeletedType == Deleted \in Document /\ Deleted.status = "DELETED" /\ Deleted.paid = 0
                     /\ Deleted.total = 0 /\ Deleted.against = 0
  <1>1. NoDoc \in Document /\ "DELETED" \in DocStatus
    BY DEF NoDoc, Document, DocStatus
  <1>. QED  BY <1>1, DocumentExcept DEF Deleted, NoDoc

LEMMA CreateMoves ==
  ASSUME TypeOK, NEW d \in Docs, NEW n \in Amounts, NEW o \in Mains \cup {0},
         MayCreate(d, n, o), NewDraft(d, n, o)
  PROVE  /\ doc' \in [Docs -> Document]
         /\ \A e \in Docs : DraftMove(e, doc'[e])
         /\ \A e \in Docs : doc[e].status = "DRAFT" => doc'[e] = doc[e]
  <1>1. n \in Nat /\ doc[d].status = "NONE" /\ (d \in Mains => o = 0)
    BY ReceivablesAssumption DEF MayCreate
  <1>2. doc' = [doc EXCEPT ![d] = [status |-> "DRAFT", total |-> n, paid |-> 0, against |-> o]]
    BY DEF NewDraft
  <1>3. doc'[d] = [status |-> "DRAFT", total |-> n, paid |-> 0, against |-> o]
    BY <1>2 DEF TypeOK
  <1>4. \A e \in Docs : e # d => doc'[e] = doc[e]
    BY <1>2 DEF TypeOK
  <1>5. doc' \in [Docs -> Document]
    BY <1>1, <1>2, DraftType DEF TypeOK
  <1>. QED  BY <1>1, <1>3, <1>4, <1>5 DEF DraftMove, Born

LEMMA DraftMoves ==
  ASSUME TypeOK, Drafting
  PROVE  /\ doc' \in [Docs -> Document]
         /\ \A d \in Docs : DraftMove(d, doc'[d])
         /\ UNCHANGED <<side, receipt, posted, control, byHand, holder>>
  <1>1. ASSUME NEW d \in Docs, NEW n \in Amounts, NEW o \in Mains \cup {0}, Create(d, n, o)
        PROVE  doc' \in [Docs -> Document] /\ \A e \in Docs : DraftMove(e, doc'[e])
    BY <1>1, CreateMoves DEF Create
  <1>2. ASSUME NEW d \in Docs, NEW n \in Amounts, Update(d, n)
        PROVE  doc' \in [Docs -> Document] /\ \A e \in Docs : DraftMove(e, doc'[e])
    <2>1. n \in Nat /\ doc[d].status = "DRAFT" /\ doc' = [doc EXCEPT ![d].total = n]
      BY <1>2, ReceivablesAssumption DEF Update
    <2>2. doc'[d] = [doc[d] EXCEPT !.total = n] /\ \A e \in Docs : e # d => doc'[e] = doc[e]
      BY <2>1 DEF TypeOK
    <2>3. doc' = [doc EXCEPT ![d] = [doc[d] EXCEPT !.total = n]]
      BY <2>1
    <2>4. doc' \in [Docs -> Document]
      BY <2>1, <2>3, DocType, DocumentExcept DEF TypeOK
    <2>. QED  BY <2>1, <2>2, <2>4 DEF DraftMove, Edited
  <1>3. ASSUME NEW d \in Docs, Remove(d)
        PROVE  doc' \in [Docs -> Document] /\ \A e \in Docs : DraftMove(e, doc'[e])
    <2>1. doc[d].status = "DRAFT" /\ doc' = [doc EXCEPT ![d] = Deleted]
      BY <1>3 DEF Remove
    <2>. QED  BY <2>1, DeletedType DEF TypeOK, DraftMove, Removed
  <1>4. ASSUME NEW r \in Requests, NEW d \in Docs, NEW n \in Amounts, Save(r, d, n)
        PROVE  doc' \in [Docs -> Document] /\ \A e \in Docs : DraftMove(e, doc'[e])
    BY <1>4, CreateMoves DEF Save
  <1>5. ASSUME NEW r \in Requests, RemoveSaved(r)
        PROVE  doc' \in [Docs -> Document] /\ \A e \in Docs : DraftMove(e, doc'[e])
    <2>. DEFINE d == req[r].row
    <2>1. doc' = [doc EXCEPT ![d] = IF @.status = "DRAFT" THEN Deleted ELSE @]
      BY <1>5 DEF RemoveSaved
    <2>2. doc' \in [Docs -> Document]
      BY <2>1, DeletedType DEF TypeOK
    <2>3. ASSUME NEW e \in Docs PROVE DraftMove(e, doc'[e])
      BY <2>1 DEF TypeOK, DraftMove, Removed
    <2>. QED  BY <2>2, <2>3
  <1>6. UNCHANGED <<side, receipt, posted, control, byHand, holder>>
    BY DEF Drafting, Create, Update, Remove, Save, RemoveSaved
  <1>. QED  BY <1>1, <1>2, <1>3, <1>4, <1>5, <1>6 DEF Drafting

CommitMove(d) == MoneyMove(d, doc'[d]) \/ IssuedNow(d, doc'[d]) \/ CancelledNow(d, doc'[d])

LEMMA AfterTakingMoves ==
  ASSUME TypeOK, DocsWF, AmountsInRange, NEW take \in [Rows -> Nat], Fits(take)
  PROVE  /\ AfterTaking(take) \in [Docs -> Document]
         /\ \A d \in Docs : MoneyMove(d, AfterTaking(take)[d])
         /\ \A d \in Docs : doc[d].status \notin Open => AfterTaking(take)[d] = doc[d]
  <1>1. AfterTaking(take) = [d \in Docs |-> AfterTaking(take)[d]]
    BY DEF AfterTaking
  <1>. QED  BY <1>1, Taking

LEMMA IssueMoves ==
  ASSUME IInv, NEW r \in Requests, CommitIssue(r)
  PROVE  /\ doc' \in [Docs -> Document]
         /\ req[r].row \in Docs /\ IssuedNow(req[r].row, doc'[req[r].row])
         /\ \A d \in Docs : d # req[r].row => MoneyMove(d, doc'[d])
  <1>. DEFINE d == req[r].row
              take == req[r].take
              used == IF side = "AR" /\ doc[d].against # 0 THEN doc[d].total ELSE 0
  <1>0. TypeOK /\ DocsWF /\ AmountsInRange /\ take \in [Rows -> Nat]
    BY ReqType DEF IInv
  <1>1. req[r].op = "issue" /\ Fits(take) /\ OwnRowStands(r)
    BY DEF CommitIssue, Ready
  <1>2. d \in Docs /\ doc[d].status = "DRAFT"
    BY <1>1 DEF IInv, RequestsWF, Knows, OwnRowStands
  <1>3. doc' = [AfterTaking(take) EXCEPT ![d].status = "ISSUED", ![d].paid = used]
    BY DEF CommitIssue
  <1>4. AfterTaking(take) \in [Docs -> Document] /\ AfterTaking(take)[d] = doc[d]
        /\ \A e \in Docs : MoneyMove(e, AfterTaking(take)[e])
    BY <1>0, <1>1, <1>2, AfterTakingMoves DEF Open
  <1>5. doc'[d] = [doc[d] EXCEPT !.status = "ISSUED", !.paid = used]
    BY <1>2, <1>3, <1>4
  <1>6. [doc[d] EXCEPT !.status = "ISSUED", !.paid = used] \in Document
    <2>1. used \in Nat /\ "ISSUED" \in DocStatus
      BY <1>0, <1>2, DocType DEF DocStatus
    <2>. QED  BY <1>0, <1>2, <2>1, DocType, DocumentExcept
  <1>7. \A e \in Docs : e # d => doc'[e] = AfterTaking(take)[e]
    BY <1>3, <1>4
  <1>8. DOMAIN doc' = Docs /\ doc' = [e \in Docs |-> doc'[e]]
    BY <1>3, <1>4
  <1>9. doc' \in [Docs -> Document]
    BY <1>4, <1>5, <1>6, <1>7, <1>8
  <1>. QED  BY <1>2, <1>4, <1>5, <1>7, <1>9 DEF IssuedNow

LEMMA ApplyMoves ==
  ASSUME IInv, NEW r \in Requests, CommitApply(r)
  PROVE  /\ doc' \in [Docs -> Document]
         /\ \A d \in Docs : MoneyMove(d, doc'[d])
  <1>. DEFINE d == req[r].row
              take == req[r].take
              n == req[r].amount
  <1>0. TypeOK /\ DocsWF /\ AmountsInRange /\ take \in [Rows -> Nat] /\ n \in Nat
    BY ReqType DEF IInv
  <1>1. req[r].op = "apply" /\ Fits(take) /\ OwnRowStands(r)
    BY DEF CommitApply, Ready
  <1>2. d \in Mains /\ d \in Docs /\ d \in Rows /\ n <= Left(d)
    BY <1>1, RowSets DEF IInv, RequestsWF, Knows, OwnRowStands
  <1>3. doc' = [AfterTaking(take) EXCEPT ![d] = Allocated(doc[d], n)]
    BY DEF CommitApply
  <1>4. AfterTaking(take) \in [Docs -> Document] /\ \A e \in Docs : MoneyMove(e, AfterTaking(take)[e])
    BY <1>0, <1>1, AfterTakingMoves
  <1>5. Allocated(doc[d], n) \in Document
    BY <1>0, <1>2, DocType, AllocatedType
  <1>6. MoneyMove(d, Allocated(doc[d], n))
    <2>1. CASE n = 0
      BY <2>1 DEF MoneyMove, Allocated
    <2>2. CASE n # 0
      <3>1. doc[d].status \in Open /\ n \in 1 .. (doc[d].total - doc[d].paid)
        BY <1>0, <1>2, <2>2, LeftIs, DocType
      <3>. QED  BY <1>2, <3>1 DEF MoneyMove, Taken
    <2>. QED  BY <2>1, <2>2
  <1>7. doc'[d] = Allocated(doc[d], n) /\ \A e \in Docs : e # d => doc'[e] = AfterTaking(take)[e]
    BY <1>2, <1>3, <1>4
  <1>8. doc' \in [Docs -> Document]
    BY <1>3, <1>4, <1>5
  <1>. QED  BY <1>4, <1>6, <1>7, <1>8

LEMMA CancelMoves ==
  ASSUME IInv, NEW r \in Requests, CommitCancel(r)
  PROVE  /\ doc' \in [Docs -> Document]
         /\ req[r].row \in Docs /\ CancelledNow(req[r].row, doc'[req[r].row])
         /\ \A d \in Docs : d # req[r].row => doc'[d] = doc[d]
  <1>. DEFINE d == req[r].row
  <1>1. TypeOK /\ d \in Mains /\ d \in Docs /\ doc[d].status \in Open /\ doc[d].paid = 0
    BY RowSets DEF CommitCancel, Ready, OwnRowStands, IInv, RequestsWF, Knows
  <1>2. doc' = [doc EXCEPT ![d] = [doc[d] EXCEPT !.status = "CANCELLED"]]
    BY DEF CommitCancel
  <1>3. [doc[d] EXCEPT !.status = "CANCELLED"] \in Document
    BY <1>1, DocType, DocumentExcept DEF DocStatus
  <1>. QED  BY <1>1, <1>2, <1>3 DEF TypeOK, CancelledNow

LEMMA CommitMoves ==
  ASSUME IInv, NEW r \in Requests, Committing(r)
  PROVE  doc' \in [Docs -> Document] /\ \A d \in Docs : CommitMove(d)
  <1>0. TypeOK /\ DocsWF /\ AmountsInRange /\ req[r].take \in [Rows -> Nat]
    BY ReqType DEF IInv
  <1>1. CASE CommitIssue(r)
    BY <1>1, IssueMoves DEF CommitMove
  <1>2. CASE CommitCancel(r)
    BY <1>2, CancelMoves DEF CommitMove, MoneyMove
  <1>3. CASE CommitReverse(r)
    BY <1>0, <1>3 DEF CommitReverse, CommitMove, MoneyMove, TypeOK
  <1>4. CASE CommitApply(r)
    BY <1>4, ApplyMoves DEF CommitMove
  <1>5. ASSUME doc' = AfterTaking(req[r].take), Fits(req[r].take)
        PROVE  doc' \in [Docs -> Document] /\ \A d \in Docs : CommitMove(d)
    BY <1>0, <1>5, AfterTakingMoves DEF CommitMove
  <1>6. CASE CommitPay(r)
    BY <1>5, <1>6 DEF CommitPay, Ready
  <1>7. ASSUME NEW p \in Receipts, CommitReceive(r, p)
        PROVE  doc' \in [Docs -> Document] /\ \A d \in Docs : CommitMove(d)
    BY <1>5, <1>7 DEF CommitReceive, Ready
  <1>8. CASE CommitRefund(r)
    BY <1>5, <1>8, ZenonT(30) DEF CommitRefund, Ready
  <1>. QED  BY <1>1, <1>2, <1>3, <1>4, <1>6, <1>7, <1>8 DEF Committing

LEMMA QuietMoves ==
  ASSUME NEW r \in Requests, Preparing(r) \/ Waiting(r)
  PROVE  UNCHANGED <<side, doc, receipt, posted, control, byHand>>
  BY ZenonT(30) DEF Preparing, Waiting, PrepareIssue, PrepareCancel, PrepareReverse, PreparePay,
         PrepareReceive, PrepareApply, PrepareRefund, Begin, Lock, Fail, Die, tables

LEMMA CommitSide ==
  ASSUME NEW r \in Requests, Committing(r)
  PROVE  side' = side
  BY DEF Committing, CommitIssue, CommitCancel, CommitReverse, CommitPay, CommitReceive,
         CommitApply, CommitRefund, Commit

LEMMA DocMoves ==
  ASSUME IInv, [Next]_vars
  PROVE  /\ side' = side
         /\ doc' \in [Docs -> Document]
         /\ \A d \in Docs : DocMove(d)
  <1>0. TypeOK
    BY DEF IInv
  <1>1. CASE Drafting
    BY <1>0, <1>1, DraftMoves DEF DocMove
  <1>2. ASSUME NEW r \in Requests, Preparing(r) \/ Waiting(r)
        PROVE  side' = side /\ doc' = doc
    BY <1>2, QuietMoves
  <1>3. ASSUME NEW r \in Requests, Committing(r)
        PROVE  side' = side /\ doc' \in [Docs -> Document] /\ \A d \in Docs : DocMove(d)
    BY <1>3, CommitMoves, CommitSide DEF DocMove, CommitMove
  <1>4. CASE doc' = doc /\ side' = side
    BY <1>0, <1>4 DEF DocMove, MoneyMove, TypeOK
  <1>5. CASE UNCHANGED vars
    BY <1>4, <1>5 DEF vars
  <1>. QED  BY <1>1, <1>2, <1>3, <1>4, <1>5, NextIs

(* The columns of a document after a step. *)
LEMMA MoveFields ==
  ASSUME TypeOK, NEW d \in Docs, DocMove(d)
  PROVE  LET old == doc[d]  new == doc'[d] IN
         \/ new = old
         \/ /\ old.status = "NONE" /\ new.status = "DRAFT" /\ new.paid = 0
            /\ d \in Mains => new.against = 0
         \/ /\ old.status = "DRAFT" /\ new.status = "DRAFT" /\ new.paid = old.paid
            /\ new.against = old.against
         \/ /\ old.status = "DRAFT" /\ new.status = "DELETED" /\ new.paid = 0
            /\ new.total = 0 /\ new.against = 0
         \/ /\ old.status = "DRAFT" /\ new.status = "ISSUED"
            /\ new.total = old.total /\ new.against = old.against
            /\ new.paid = IF side = "AR" /\ old.against # 0 THEN old.total ELSE 0
         \/ /\ d \in Mains /\ old.status \in Open /\ old.paid = 0 /\ new.status = "CANCELLED"
            /\ new.total = old.total /\ new.paid = 0 /\ new.against = old.against
         \/ /\ d \in Mains /\ old.status \in Open
            /\ new.total = old.total /\ new.against = old.against
            /\ new.paid \in (old.paid + 1) .. old.total
            /\ new.status = IF new.paid >= old.total THEN "PAID" ELSE "PART_PAID"
         \/ /\ d \in Notes /\ side = "AR" /\ old.status = "ISSUED" /\ new.status = "ISSUED"
            /\ new.total = old.total /\ new.against = old.against
            /\ new.paid \in (old.paid + 1) .. old.total
  <1>. DEFINE old == doc[d]  new == doc'[d]
  <1>0. old \in Document /\ old.total \in Nat /\ old.paid \in Nat
    BY DocType
  <1>1. CASE Born(d, new)
    BY <1>1 DEF Born
  <1>2. CASE Edited(d, new)
    BY <1>0, <1>2 DEF Edited, Document
  <1>3. CASE Removed(d, new)
    BY <1>3, DeletedType DEF Removed
  <1>4. CASE IssuedNow(d, new)
    BY <1>0, <1>4 DEF IssuedNow, Document
  <1>5. CASE CancelledNow(d, new)
    BY <1>0, <1>5 DEF CancelledNow, Document
  <1>6. CASE Taken(d, new)
    <2>1. PICK n \in 1 .. (old.total - old.paid) : new = Allocated(old, n)
      BY <1>6 DEF Taken
    <2>2. new = [old EXCEPT !.paid = old.paid + n,
                            !.status = IF old.paid + n >= old.total THEN "PAID" ELSE "PART_PAID"]
      BY <2>1 DEF Allocated
    <2>3. /\ new.paid = old.paid + n /\ new.total = old.total /\ new.against = old.against
          /\ new.status = IF old.paid + n >= old.total THEN "PAID" ELSE "PART_PAID"
      BY <1>0, <2>2 DEF Document
    <2>4. new.paid \in (old.paid + 1) .. old.total
      BY <1>0, <2>1, <2>3
    <2>5. new.status = IF new.paid >= old.total THEN "PAID" ELSE "PART_PAID"
      BY <2>3
    <2>. QED  BY <1>6, <2>3, <2>4, <2>5 DEF Taken
  <1>7. CASE Used(d, new)
    <2>1. PICK n \in 1 .. (old.total - old.paid) : new = [old EXCEPT !.paid = old.paid + n]
      BY <1>7 DEF Used
    <2>2. /\ new.paid = old.paid + n /\ new.total = old.total /\ new.against = old.against
          /\ new.status = old.status
      BY <1>0, <2>1 DEF Document
    <2>3. new.paid \in (old.paid + 1) .. old.total
      BY <1>0, <2>1, <2>2
    <2>. QED  BY <1>7, <2>2, <2>3 DEF Used
  <1>8. CASE new = old
    BY <1>8
  <1>. QED
    BY <1>1, <1>2, <1>3, <1>4, <1>5, <1>6, <1>7, <1>8 DEF DocMove, DraftMove, MoneyMove

-----------------------------------------------------------------------------
(* What is said of single documents, from DocMove alone.                   *)

(* What IssuedIsFrozen says of one document. *)
Frozen(d) ==
    doc[d].status \notin {"NONE", "DRAFT"} =>
        /\ doc'[d].total = doc[d].total /\ doc'[d].against = doc[d].against
        /\ doc'[d].paid >= doc[d].paid
        /\ doc[d].status \in {"PAID", "CANCELLED", "DELETED"} => doc'[d] = doc[d]

Tells(d) ==
    LET paid == doc[d].paid  total == doc[d].total IN
    CASE doc[d].status = "PAID"      -> paid = total
      [] doc[d].status = "PART_PAID" -> 0 < paid /\ paid < total
      [] doc[d].status = "ISSUED"    -> d \in Mains => paid = 0
      [] OTHER                       -> paid = 0

LEMMA TellsIs ==
  ASSUME NEW d \in Docs
  PROVE  Tells(d) <=>
            /\ doc[d].status = "PAID" => doc[d].paid = doc[d].total
            /\ doc[d].status = "PART_PAID" => 0 < doc[d].paid /\ doc[d].paid < doc[d].total
            /\ doc[d].status = "ISSUED" /\ d \in Mains => doc[d].paid = 0
            /\ doc[d].status \notin {"PAID", "PART_PAID", "ISSUED"} => doc[d].paid = 0
  BY DEF Tells

LEMMA OneDoc ==
  ASSUME IInv, side' = side, doc' \in [Docs -> Document], NEW d \in Docs, DocMove(d)
  PROVE  /\ d \in Mains => doc'[d].against = 0
         /\ d \in Notes => doc'[d].status \in {"NONE", "DRAFT", "ISSUED", "DELETED"}
         /\ doc'[d].paid <= doc'[d].total
         /\ Tells(d)'
         /\ side = "AR" /\ d \in Notes /\ doc'[d].status = "ISSUED" /\ doc'[d].against # 0
                => doc'[d].paid = doc'[d].total
         /\ Frozen(d)
         /\ doc[d].status \notin {"NONE", "DRAFT", "DELETED"}
                => doc'[d].status \notin {"NONE", "DRAFT", "DELETED"}
         /\ doc[d].status # "NONE" => doc'[d].status # "NONE"
         /\ doc'[d].status = "DRAFT" => doc[d].status \in {"NONE", "DRAFT"}
  <1>1. /\ TypeOK
        /\ d \in Mains => doc[d].against = 0
        /\ d \in Notes => doc[d].status \in {"NONE", "DRAFT", "ISSUED", "DELETED"}
        /\ doc[d].paid <= doc[d].total
        /\ doc[d].status = "PAID" => doc[d].paid = doc[d].total
        /\ doc[d].status = "PART_PAID" => 0 < doc[d].paid /\ doc[d].paid < doc[d].total
        /\ doc[d].status = "ISSUED" /\ d \in Mains => doc[d].paid = 0
        /\ doc[d].status \notin {"PAID", "PART_PAID", "ISSUED"} => doc[d].paid = 0
    <2>1. Tells(d)
      BY DEF IInv, StatusTellsPaid, Tells
    <2>. QED  BY <2>1, TellsIs DEF IInv, DocsWF, AmountsInRange
  <1>2. d \in Mains => d \notin Notes
    BY RowSets
  <1>3. side = "AR" /\ d \in Notes /\ doc[d].status = "ISSUED" /\ doc[d].against # 0
           => doc[d].paid = doc[d].total
    <2>1. SUFFICES ASSUME side = "AR", d \in Notes, doc[d].status = "ISSUED", doc[d].against # 0
                   PROVE  doc[d].paid = doc[d].total
      OBVIOUS
    <2>2. Posted(d)
      BY <2>1 DEF Posted, Open
    <2>3. Left(d) = 0
      BY <2>1, <2>2 DEF IInv, NotesUsedOnTheirInvoice
    <2>4. Left(d) = doc[d].total - doc[d].paid
      BY <2>1, LeftIs, RowSets
    <2>. QED  BY <1>1, <2>3, <2>4, DocType
  <1>4. /\ doc[d].status \in DocStatus /\ doc[d].total \in Nat /\ doc[d].paid \in Nat
        /\ doc'[d].status \in DocStatus /\ doc'[d].total \in Nat /\ doc'[d].paid \in Nat
    BY <1>1, DocType DEF Document
  <1>5. Tells(d)' <=>
            /\ doc'[d].status = "PAID" => doc'[d].paid = doc'[d].total
            /\ doc'[d].status = "PART_PAID" => 0 < doc'[d].paid /\ doc'[d].paid < doc'[d].total
            /\ doc'[d].status = "ISSUED" /\ d \in Mains => doc'[d].paid = 0
            /\ doc'[d].status \notin {"PAID", "PART_PAID", "ISSUED"} => doc'[d].paid = 0
    BY DEF Tells
  <1>. QED
    BY <1>1, <1>2, <1>3, <1>4, <1>5, MoveFields DEF Frozen, Open, DocStatus

-----------------------------------------------------------------------------
(* What a step leaves of the requests that do not move.                    *)

Kept(x, q) ==
    /\ q \in Request
    /\ q.op = req[x].op /\ q.row = req[x].row /\ q.amount = req[x].amount
    /\ q.take = req[x].take /\ q.overridden = req[x].overridden /\ q.saving = req[x].saving
    /\ q.unchanged => req[x].unchanged
    /\ req[x].raced => q.raced

LEMMA KeptSame ==
  ASSUME TypeOK, NEW x \in Requests
  PROVE  Kept(x, req[x])
  BY ReqType DEF Kept

LEMMA CommitRequests ==
  ASSUME TypeOK, NEW r \in Requests, NEW moved \in BOOLEAN, Commit(r, moved)
  PROVE  /\ req' = [x \in Requests |-> req'[x]]
         /\ req'[r] = Idle
         /\ \A x \in Requests \ {r} :
                /\ Kept(x, req'[x])
                /\ moved /\ req[x].op = "issue" /\ LimitApplies(req[x].row) => req'[x].raced
         /\ UNCHANGED side
         /\ \A x \in Rows : holder'[x] = IF holder[x] = r THEN Nobody ELSE holder[x]
         /\ holder' = [x \in Rows |-> holder'[x]]
  <1>. DEFINE Hit(x) == moved /\ req[x].op = "issue" /\ LimitApplies(req[x].row)
  <1>1. req' = [x \in Requests |-> IF x = r THEN Idle
                                   ELSE [req[x] EXCEPT !.raced = req[x].raced \/ Hit(x)]]
    BY DEF Commit
  <1>2. ASSUME NEW x \in Requests \ {r}
        PROVE  Kept(x, req'[x]) /\ (Hit(x) => req'[x].raced)
    <2>1. req'[x] = [req[x] EXCEPT !.raced = req[x].raced \/ Hit(x)]
      BY <1>1
    <2>2. (req[x].raced \/ Hit(x)) \in BOOLEAN /\ req[x] \in Request
      BY ReqType
    <2>3. req'[x] \in Request
      BY <2>1, <2>2, RequestExcept
    <2>4. /\ req'[x].op = req[x].op /\ req'[x].row = req[x].row /\ req'[x].amount = req[x].amount
          /\ req'[x].take = req[x].take /\ req'[x].overridden = req[x].overridden
          /\ req'[x].saving = req[x].saving /\ req'[x].unchanged = req[x].unchanged
          /\ req'[x].raced = (req[x].raced \/ Hit(x))
      BY <2>1, <2>2 DEF Request
    <2>. QED  BY <2>3, <2>4 DEF Kept
  <1>. QED  BY <1>1, <1>2 DEF Commit, Release

(* Where a commit moves the balance, it says so. *)
LEMMA CommitsTell ==
  ASSUME NEW r \in Requests, Committing(r)
  PROVE  \E moved \in BOOLEAN : Commit(r, moved) /\ (~moved => control' = control)
  <1>1. CommitApply(r) => Commit(r, FALSE) /\ control' = control
    BY ZenonT(30) DEF CommitApply
  <1>2. ~CommitApply(r) => Commit(r, TRUE)
    BY DEF Committing, CommitIssue, CommitCancel, CommitReverse, CommitPay, CommitReceive, CommitRefund
  <1>. QED  BY <1>1, <1>2

(* A request that only drafts something. *)
Fresh(q) ==
    /\ q \in Request /\ q.take = TakeNothing
    /\ q = Idle \/ (q.op \in {"save", "remove"} /\ q.row \in Docs)

LEMMA UpdateKeeps ==
  ASSUME TypeOK, NEW d \in Docs, NEW n \in Amounts, Update(d, n), NEW x \in Requests
  PROVE  /\ Kept(x, req'[x])
         /\ req'[x].op = "issue" /\ req'[x].unchanged => req'[x].row # d
  <1>. DEFINE same == req[x].unchanged /\ ~(req[x].op = "issue" /\ req[x].row = d)
  <1>1. req'[x] = [req[x] EXCEPT !.unchanged = same]
    BY DEF Update
  <1>2. same \in BOOLEAN
    BY ReqType
  <1>3. same => ~(req[x].op = "issue" /\ req[x].row = d) /\ req[x].unchanged
    OBVIOUS
  <1>. HIDE DEF same
  <1>4. req[x] \in Request
    BY ReqType
  <1>5. req'[x] \in Request
    BY <1>1, <1>2, <1>4, RequestExcept
  <1>6. /\ req'[x].op = req[x].op /\ req'[x].row = req[x].row /\ req'[x].amount = req[x].amount
        /\ req'[x].take = req[x].take /\ req'[x].overridden = req[x].overridden
        /\ req'[x].saving = req[x].saving /\ req'[x].raced = req[x].raced
        /\ req'[x].unchanged = same
    BY <1>1, <1>4 DEF Request
  <1>. QED  BY <1>3, <1>5, <1>6 DEF Kept

(* An edit of a draft is noticed by the requests that are to issue it. *)
LEMMA DraftRequests ==
  ASSUME IInv, Drafting
  PROVE  /\ req' = [x \in Requests |-> req'[x]]
         /\ \A x \in Requests : 
               /\ Kept(x, req'[x]) \/ (Fresh(req'[x]) /\ (req'[x].saving => req'[x].op = "save"))
               /\ /\ req'[x].op = "issue" /\ req'[x].unchanged /\ req'[x].row \in Docs
                  /\ doc[req'[x].row].status = "DRAFT" /\ doc'[req'[x].row].status = "DRAFT"
                  => doc'[req'[x].row].total = doc[req'[x].row].total
  <1>. DEFINE P(x) ==
               /\ Kept(x, req'[x]) \/ (Fresh(req'[x]) /\ (req'[x].saving => req'[x].op = "save"))
               /\ /\ req'[x].op = "issue" /\ req'[x].unchanged /\ req'[x].row \in Docs
                  /\ doc[req'[x].row].status = "DRAFT" /\ doc'[req'[x].row].status = "DRAFT"
                  => doc'[req'[x].row].total = doc[req'[x].row].total
              Goal == req' = [x \in Requests |-> req'[x]] /\ \A x \in Requests : P(x)
  <1>0. TypeOK /\ req = [x \in Requests |-> req[x]]
    BY DEF IInv, TypeOK
  <1>1. ASSUME NEW d \in Docs, NEW n \in Amounts, NEW o \in Mains \cup {0}, Create(d, n, o) PROVE Goal
    <2>1. req' = req /\ \A e \in Docs : doc[e].status = "DRAFT" => doc'[e] = doc[e]
      BY <1>0, <1>1, CreateMoves DEF Create
    <2>. QED  BY <1>0, <2>1, KeptSame
  <1>2. ASSUME NEW d \in Docs, NEW n \in Amounts, Update(d, n) PROVE Goal
    <2>1. req' = [x \in Requests |-> req'[x]] /\ doc' = [doc EXCEPT ![d].total = n]
      BY <1>2 DEF Update
    <2>2. \A e \in Docs : e # d => doc'[e] = doc[e]
      BY <1>0, <2>1 DEF TypeOK
    <2>3. ASSUME NEW x \in Requests PROVE P(x)
      BY <1>0, <1>2, <2>2, UpdateKeeps
    <2>. QED  BY <2>1, <2>3
  <1>3. ASSUME NEW d \in Docs, Remove(d) PROVE Goal
    <2>1. req' = req /\ doc' = [doc EXCEPT ![d] = Deleted]
      BY <1>3 DEF Remove
    <2>2. \A e \in Docs : doc'[e] = doc[e] \/ doc'[e].status = "DELETED"
      BY <1>0, <2>1, DeletedType DEF TypeOK
    <2>. QED  BY <1>0, <2>1, <2>2, KeptSame
  <1>4. ASSUME NEW r \in Requests, NEW d \in Docs, NEW n \in Amounts, Save(r, d, n) PROVE Goal
    <2>. DEFINE rec == [Idle EXCEPT !.op = "save", !.row = d, !.saving = TRUE]
    <2>1. req' = [req EXCEPT ![r] = rec] /\ \A e \in Docs : doc[e].status = "DRAFT" => doc'[e] = doc[e]
      <3>1. 0 \in Mains \cup {0}
        OBVIOUS
      <3>. QED  BY <1>0, <1>4, <3>1, CreateMoves DEF Save
    <2>2. rec \in Request /\ rec.op = "save" /\ rec.row = d
      <3>1. "save" \in Ops /\ d \in Rows
        BY RowSets DEF Ops
      <3>2. rec \in Request
        BY <3>1, IdleType, RequestExcept
      <3>. QED  BY <3>2 DEF Idle
    <2>3. rec.take = TakeNothing
      BY DEF Idle
    <2>. HIDE DEF rec
    <2>4. Fresh(rec)
      BY <2>2, <2>3 DEF Fresh
    <2>5. req'[r] = rec /\ \A x \in Requests : x # r => req'[x] = req[x]
      BY <1>0, <2>1
    <2>. QED  BY <1>0, <2>1, <2>2, <2>4, <2>5, KeptSame
  <1>5. ASSUME NEW r \in Requests, RemoveSaved(r) PROVE Goal
    <2>. DEFINE d == req[r].row
    <2>1. req' = [req EXCEPT ![r] = Idle] /\ doc' = [doc EXCEPT ![d] = IF @.status = "DRAFT" THEN Deleted ELSE @]
      BY <1>5 DEF RemoveSaved
    <2>2. \A e \in Docs : doc'[e] = doc[e] \/ doc'[e].status = "DELETED"
      BY <1>0, <2>1, DeletedType DEF TypeOK
    <2>3. Fresh(Idle) /\ ~Idle.saving
      BY IdleType DEF Fresh, Idle
    <2>. QED  BY <1>0, <2>1, <2>2, <2>3, KeptSame
  <1>. QED  BY <1>1, <1>2, <1>3, <1>4, <1>5 DEF Drafting

-----------------------------------------------------------------------------
(* Payments.                                                               *)

LEMMA ReceiptType ==
  ASSUME TypeOK, NEW p \in Receipts
  PROVE  /\ receipt[p] \in Receipt
         /\ receipt[p].amount \in Nat /\ receipt[p].applied \in Nat
         /\ receipt[p].unapplied \in Nat /\ receipt[p].refunded \in Nat
  BY DEF TypeOK, Receipt

ReceiptFine(new) == new \in Receipt /\ new.amount = new.applied + new.unapplied + new.refunded

LEMMA ReceiptMove ==
  ASSUME IInv, NEW take \in [Rows -> Nat], Fits(take), NEW p \in Receipts
  PROVE  LET applied  == [receipt[p] EXCEPT !.unapplied = @ - take[p], !.applied = @ + take[p]]
             refunded == [receipt[p] EXCEPT !.unapplied = @ - take[p], !.refunded = @ + take[p]]
         IN  /\ ReceiptFine(applied) /\ applied.amount = receipt[p].amount
             /\ ReceiptFine(refunded) /\ refunded.amount = receipt[p].amount
  <1>1. /\ receipt[p] \in Receipt /\ take[p] \in Nat /\ take[p] <= receipt[p].unapplied
        /\ receipt[p].amount = receipt[p].applied + receipt[p].unapplied + receipt[p].refunded
    <2>1. p \in Rows /\ take[p] \in Nat /\ take[p] <= Left(p)
      BY RowSets DEF Fits
    <2>. QED  BY <2>1, LeftIs, ReceiptType DEF IInv, AmountsInRange
  <1>2. receipt[p].unapplied - take[p] \in Nat /\ receipt[p].applied + take[p] \in Nat
        /\ receipt[p].refunded + take[p] \in Nat
    BY <1>1 DEF Receipt
  <1>3. \A q \in Receipt, v \in Nat : /\ [q EXCEPT !.unapplied = v] \in Receipt
                                      /\ [q EXCEPT !.applied = v] \in Receipt
                                      /\ [q EXCEPT !.refunded = v] \in Receipt
    BY DEF Receipt
  <1>. DEFINE less == [receipt[p] EXCEPT !.unapplied = receipt[p].unapplied - take[p]]
  <1>4. less \in Receipt /\ less.applied = receipt[p].applied /\ less.refunded = receipt[p].refunded
        /\ less.amount = receipt[p].amount /\ less.unapplied = receipt[p].unapplied - take[p]
    BY <1>1, <1>2, <1>3 DEF Receipt
  <1>5. ASSUME NEW new,
               new = [receipt[p] EXCEPT !.unapplied = @ - take[p], !.applied = @ + take[p]]
        PROVE  ReceiptFine(new) /\ new.amount = receipt[p].amount
    <2>1. new = [less EXCEPT !.applied = receipt[p].applied + take[p]]
      BY <1>5, <1>4
    <2>. HIDE DEF less
    <2>2. new \in Receipt /\ new.amount = less.amount /\ new.unapplied = less.unapplied
          /\ new.refunded = less.refunded /\ new.applied = receipt[p].applied + take[p]
      BY <1>2, <1>3, <1>4, <2>1 DEF Receipt
    <2>. QED  BY <1>1, <1>4, <2>2 DEF ReceiptFine, Receipt
  <1>6. ASSUME NEW new,
               new = [receipt[p] EXCEPT !.unapplied = @ - take[p], !.refunded = @ + take[p]]
        PROVE  ReceiptFine(new) /\ new.amount = receipt[p].amount
    <2>1. new = [less EXCEPT !.refunded = receipt[p].refunded + take[p]]
      BY <1>6, <1>4
    <2>. HIDE DEF less
    <2>2. new \in Receipt /\ new.amount = less.amount /\ new.unapplied = less.unapplied
          /\ new.applied = less.applied /\ new.refunded = receipt[p].refunded + take[p]
      BY <1>2, <1>3, <1>4, <2>1 DEF Receipt
    <2>. QED  BY <1>1, <1>4, <2>2 DEF ReceiptFine, Receipt
  <1>. QED  BY <1>5, <1>6

(* A payment received keeps its amount, and its parts add up to it. *)
LEMMA ReceiptMoves ==
  ASSUME IInv, [Next]_vars
  PROVE  /\ receipt' \in [Receipts -> Receipt]
         /\ \A p \in Receipts :
               /\ receipt'[p].amount = receipt'[p].applied + receipt'[p].unapplied + receipt'[p].refunded
               /\ receipt[p].amount > 0 => receipt'[p].amount = receipt[p].amount
  <1>. DEFINE Goal == /\ receipt' \in [Receipts -> Receipt]
                      /\ \A p \in Receipts :
                            /\ ReceiptFine(receipt'[p])
                            /\ receipt[p].amount > 0 => receipt'[p].amount = receipt[p].amount
  <1>0. TypeOK
    BY DEF IInv
  <1>1. ASSUME receipt' = receipt PROVE Goal
    BY <1>0, <1>1, ReceiptType DEF IInv, AmountsInRange, ReceiptFine, TypeOK
  <1>2. ASSUME NEW r \in Requests, NEW q \in Receipts, CommitReceive(r, q) PROVE Goal
    <2>. DEFINE n == req[r].amount
                applied == SumFunction(req[r].take)
                new == [amount |-> n, applied |-> applied, unapplied |-> n - applied, refunded |-> 0]
    <2>1. n \in Nat /\ applied \in 0 .. n
      BY <1>0, <1>2, ReqType DEF CommitReceive, Ready, IInv, RequestsWF, Knows
    <2>2. n - applied \in Nat /\ applied \in Nat /\ n = applied + (n - applied) + 0
      BY <2>1
    <2>3. ReceiptFine(new)
      BY <2>1, <2>2 DEF ReceiptFine, Receipt
    <2>4. receipt' = [receipt EXCEPT ![q] = new] /\ receipt[q].amount = 0
      BY <1>2 DEF CommitReceive
    <2>. HIDE DEF new
    <2>5. receipt'[q] = new /\ \A p \in Receipts : p # q => receipt'[p] = receipt[p]
      BY <1>0, <2>4 DEF TypeOK
    <2>6. \A p \in Receipts : ReceiptFine(receipt[p])
      BY <1>0, ReceiptType DEF IInv, AmountsInRange, ReceiptFine
    <2>7. receipt' \in [Receipts -> Receipt]
      BY <1>0, <2>3, <2>4 DEF TypeOK, ReceiptFine
    <2>. QED  BY <2>3, <2>4, <2>5, <2>6, <2>7
  <1>3. ASSUME NEW r \in Requests, CommitApply(r) \/ CommitRefund(r) PROVE Goal
    <2>. DEFINE take == req[r].take
    <2>1. take \in [Rows -> Nat] /\ Fits(take)
      BY <1>0, <1>3, ReqType, ZenonT(30) DEF CommitApply, CommitRefund, Ready
    <2>2. \/ receipt' = [p \in Receipts |-> [receipt[p] EXCEPT !.unapplied = @ - take[p], !.applied = @ + take[p]]]
          \/ receipt' = [p \in Receipts |-> [receipt[p] EXCEPT !.unapplied = @ - take[p], !.refunded = @ + take[p]]]
      BY <1>3 DEF CommitApply, CommitRefund
    <2>. HIDE DEF take
    <2>3. ASSUME NEW p \in Receipts
          PROVE  ReceiptFine(receipt'[p]) /\ receipt'[p].amount = receipt[p].amount
      <3>1. \/ receipt'[p] = [receipt[p] EXCEPT !.unapplied = @ - take[p], !.applied = @ + take[p]]
            \/ receipt'[p] = [receipt[p] EXCEPT !.unapplied = @ - take[p], !.refunded = @ + take[p]]
        BY <2>2
      <3>. QED  BY <2>1, <3>1, ReceiptMove, ZenonT(30)
    <2>4. receipt' = [p \in Receipts |-> receipt'[p]]
      BY <2>2
    <2>. QED  BY <2>3, <2>4, SMTT(30) DEF ReceiptFine
  <1>4. \A r \in Requests : Preparing(r) \/ Waiting(r) => receipt' = receipt
    BY QuietMoves
  <1>5. ASSUME Drafting PROVE receipt' = receipt
    BY <1>0, <1>5, DraftMoves
  <1>6. \A r \in Requests : CommitIssue(r) \/ CommitCancel(r) \/ CommitReverse(r) \/ CommitPay(r)
                              => receipt' = receipt
    BY DEF CommitIssue, CommitCancel, CommitReverse, CommitPay
  <1>7. UNCHANGED vars => receipt' = receipt
    BY DEF vars
  <1>. HIDE DEF Goal
  <1>8. ASSUME NEW r \in Requests, Committing(r) PROVE Goal
    BY <1>1, <1>2, <1>3, <1>6, <1>8 DEF Committing
  <1>9. Goal
    BY <1>1, <1>4, <1>5, <1>7, <1>8, NextIs
  <1>. QED  BY <1>9 DEF Goal, ReceiptFine

-----------------------------------------------------------------------------
(* What documents and payments never lose.                                 *)

Steady ==
    /\ side' = side
    /\ doc' \in [Docs -> Document] /\ receipt' \in [Receipts -> Receipt]
    /\ \A d \in Docs :
          /\ doc[d].status \notin {"NONE", "DRAFT", "DELETED"}
                 => doc'[d].status \notin {"NONE", "DRAFT", "DELETED"}
          /\ doc[d].status # "NONE" => doc'[d].status # "NONE"
          /\ doc'[d].status = "DRAFT" => doc[d].status \in {"NONE", "DRAFT"}
    /\ \A p \in Receipts : receipt[p].amount > 0 => receipt'[p].amount = receipt[p].amount

LEMMA IsSteady ==
  ASSUME IInv, [Next]_vars
  PROVE  Steady
  BY DocMoves, OneDoc, ReceiptMoves DEF Steady

LEMMA PostedIs ==
  ASSUME TypeOK, NEW d \in Docs
  PROVE  Posted(d) <=> doc[d].status \notin {"NONE", "DRAFT", "DELETED"}
  BY DocType DEF Posted, Open, DocStatus

LEMMA Remembers ==
  ASSUME IInv, Steady, NEW x \in Requests, Kept(x, req'[x]),
         LET d == req'[x].row IN
         req'[x].op = "issue" /\ req'[x].unchanged /\ doc'[d].status = "DRAFT" /\ doc[d].status = "DRAFT"
             => doc'[d].total = doc[d].total,
         control' = control \/ (req[x].op = "issue" /\ LimitApplies(req[x].row) => req'[x].raced)
  PROVE  Knows(req[x])'
  <1>. DEFINE q == req[x]  new == req'[x]  d == req[x].row
  <1>0. TypeOK /\ Knows(q) /\ side' = side /\ CreditLimit \in Nat /\ new.row = d
    BY ReceivablesAssumption DEF IInv, RequestsWF, Steady, Kept
  <1>1. /\ new.saving => new.op \in {"save", "issue"}
        /\ new.op \in {"save", "remove"} => new.row \in Docs
        /\ new.op \in {"cancel", "apply", "pay"} => new.row \in Mains
        /\ new.op = "receive" => SumFunction(new.take) \in 0 .. new.amount
    BY <1>0 DEF Knows, Kept
  <1>2. new.op = "issue" => new.row \in Docs /\ doc'[new.row].status # "NONE"
    BY <1>0 DEF Knows, Kept, Steady
  <1>3. new.op = "reverse" => new.row \in Rows /\ Posted(req[x].row)'
    <2>1. SUFFICES ASSUME new.op = "reverse" PROVE d \in Rows /\ Posted(req[x].row)'
      BY <1>0
    <2>2. d \in Rows /\ Posted(d)
      BY <1>0, <2>1 DEF Knows, Kept
    <2>3. CASE d \in Docs
      <3>1. doc[d].status \notin {"NONE", "DRAFT", "DELETED"}
        BY <1>0, <2>2, <2>3, PostedIs
      <3>2. doc'[d].status \notin {"NONE", "DRAFT", "DELETED"} /\ doc'[d].status \in DocStatus
        BY <2>3, <3>1 DEF Steady, Document
      <3>. QED  BY <1>0, <2>2, <2>3, <3>2 DEF Posted, DocStatus, Open
    <2>4. CASE d \notin Docs
      <3>1. d \in Receipts /\ receipt[d].amount > 0
        BY <2>2, <2>4 DEF Posted, Rows
      <3>2. receipt'[d].amount > 0
        BY <3>1 DEF Steady
      <3>. QED  BY <1>0, <2>2, <2>4, <3>2 DEF Posted
    <2>. QED  BY <2>3, <2>4
  <1>4. new.op = "issue" /\ new.unchanged /\ doc'[new.row].status = "DRAFT"
            => new.amount = doc'[new.row].total
    <2>1. SUFFICES ASSUME new.op = "issue", new.unchanged, doc'[d].status = "DRAFT"
                   PROVE  new.amount = doc'[d].total
      BY <1>0
    <2>2. q.op = "issue" /\ q.unchanged /\ d \in Docs /\ doc[d].status # "NONE" /\ new.amount = q.amount
      BY <1>0, <2>1 DEF Knows, Kept
    <2>3. doc[d].status = "DRAFT"
      BY <2>1, <2>2 DEF Steady
    <2>4. q.amount = doc[d].total
      BY <1>0, <2>2, <2>3 DEF Knows
    <2>. QED  BY <1>0, <2>1, <2>2, <2>3, <2>4
  <1>5. new.op = "issue" /\ LimitApplies(req[x].row)' /\ ~new.overridden /\ ~new.raced
            => control' + new.amount <= CreditLimit
    <2>1. LimitApplies(req[x].row)' <=> LimitApplies(d)
      BY <1>0 DEF LimitApplies
    <2>. QED  BY <1>0, <2>1 DEF Knows, Kept
  <1>. QED  BY <1>1, <1>2, <1>3, <1>4, <1>5 DEF Knows

-----------------------------------------------------------------------------
(* What requests know stays true.                                          *)

LEMMA FreshKnows ==
  ASSUME NEW x \in Requests, Fresh(req'[x]), req'[x].saving => req'[x].op = "save"
  PROVE  req'[x] \in Request /\ Knows(req[x])'
  BY DEF Fresh, Knows, Idle

LEMMA DraftingKnows ==
  ASSUME IInv, Drafting, Steady
  PROVE  req' \in [Requests -> Request] /\ RequestsWF'
  <1>1. req' = [x \in Requests |-> req'[x]] /\ control' = control
    BY DraftRequests, DraftMoves DEF IInv
  <1>2. ASSUME NEW x \in Requests
        PROVE  req'[x] \in Request /\ Knows(req[x])'
    <2>1. CASE Kept(x, req'[x])
      <3>1. req'[x] \in Request /\ (req'[x].op = "issue" => req'[x].row \in Docs)
        BY <2>1 DEF Kept, IInv, RequestsWF, Knows
      <3>. QED  BY <1>1, <2>1, <3>1, DraftRequests, Remembers
    <2>2. CASE Fresh(req'[x]) /\ (req'[x].saving => req'[x].op = "save")
      BY <2>2, FreshKnows
    <2>. QED  BY <2>1, <2>2, DraftRequests
  <1>. QED  BY <1>1, <1>2 DEF RequestsWF

LEMMA CommittingKnows ==
  ASSUME IInv, NEW r \in Requests, Committing(r), Steady
  PROVE  req' \in [Requests -> Request] /\ RequestsWF'
  <1>0. TypeOK
    BY DEF IInv
  <1>1. PICK moved \in BOOLEAN : Commit(r, moved) /\ (~moved => control' = control)
    BY CommitsTell
  <1>2. /\ req' = [x \in Requests |-> req'[x]] /\ req'[r] = Idle
        /\ \A x \in Requests \ {r} :
               /\ Kept(x, req'[x])
               /\ moved /\ req[x].op = "issue" /\ LimitApplies(req[x].row) => req'[x].raced
    BY <1>0, <1>1, CommitRequests
  <1>3. ASSUME NEW x \in Requests \ {r}
        PROVE  req'[x] \in Request /\ Knows(req[x])'
    <2>1. Kept(x, req'[x]) /\ req'[x] \in Request
      BY <1>2 DEF Kept
    <2>2. req'[x].op = "issue" => req'[x].row \in Docs
      BY <2>1 DEF Kept, IInv, RequestsWF, Knows
    <2>3. ASSUME NEW d \in Docs, doc[d].status = "DRAFT", doc'[d].status = "DRAFT"
          PROVE  doc'[d].total = doc[d].total
      <3>1. CommitMove(d) /\ doc[d] \in Document
        BY <1>0, CommitMoves, DocType
      <3>. QED  BY <2>3, <3>1 DEF CommitMove, MoneyMove, Taken, Used, IssuedNow, CancelledNow,
                                  Open, Document
    <2>4. control' = control \/ (req[x].op = "issue" /\ LimitApplies(req[x].row) => req'[x].raced)
      BY <1>1, <1>2
    <2>. QED  BY <2>1, <2>2, <2>3, <2>4, Remembers
  <1>4. Fresh(Idle) /\ ~Idle.saving
    BY IdleType DEF Fresh, Idle
  <1>5. req'[r] \in Request /\ Knows(req[r])'
    BY <1>2, <1>4, FreshKnows
  <1>. QED  BY <1>2, <1>3, <1>5 DEF RequestsWF

(* The tables stand still, and one request does something. *)
LEMMA QuietKnows ==
  ASSUME IInv, Steady, UNCHANGED <<side, tables>>, NEW r \in Requests, NEW rec \in Request,
         req' = [req EXCEPT ![r] = rec], Knows(rec)
  PROVE  req' \in [Requests -> Request] /\ RequestsWF'
  <1>0. /\ TypeOK /\ doc' = doc /\ receipt' = receipt /\ control' = control /\ side' = side
        /\ req'[r] = rec /\ \A x \in Requests : x # r => req'[x] = req[x]
    BY DEF IInv, TypeOK, tables
  <1>1. Knows(req[r])'
    BY <1>0 DEF Knows, Posted, LimitApplies
  <1>2. ASSUME NEW x \in Requests, x # r PROVE Knows(req[x])'
    BY <1>0, <1>2, KeptSame, Remembers
  <1>3. req' \in [Requests -> Request]
    BY <1>0 DEF TypeOK
  <1>. QED  BY <1>1, <1>2, <1>3 DEF RequestsWF

LEMMA PreparingKnows ==
  ASSUME IInv, Steady, NEW r \in Requests, Preparing(r)
  PROVE  req' \in [Requests -> Request] /\ RequestsWF' /\ holder' = holder
  <1>1. PICK rec \in Request : Begin(r, rec) /\ Knows(rec)
    BY Begins
  <1>. QED  BY <1>1, QuietKnows DEF Begin

LEMMA WaitingKnows ==
  ASSUME IInv, Steady, NEW r \in Requests, Waiting(r)
  PROVE  req' \in [Requests -> Request] /\ RequestsWF'
  <1>0. TypeOK /\ Knows(req[r]) /\ UNCHANGED <<side, tables>>
    BY DEF IInv, RequestsWF, Waiting, Lock, Fail, Die
  <1>1. Knows(Idle)
    BY DEF Knows, Idle
  <1>2. CASE Lock(r)
    <2>1. req' = [req EXCEPT ![r] = req[r]]
      BY <1>0, <1>2 DEF Lock, TypeOK
    <2>. QED  BY <1>0, <2>1, ReqType, QuietKnows
  <1>3. CASE Fail(r) /\ req[r].saving
    <2>. DEFINE rec == [Idle EXCEPT !.op = "remove", !.row = req[r].row]
    <2>1. req' = [req EXCEPT ![r] = rec]
      BY <1>3 DEF Fail
    <2>2. req[r].row \in Docs /\ req[r].row \in Rows /\ "remove" \in Ops
      BY <1>0, <1>3, RowSets DEF Knows, Ops
    <2>3. rec \in Request
      BY <2>2, IdleType, RequestExcept
    <2>4. Knows(rec)
      BY <2>2 DEF Knows, Idle
    <2>. QED  BY <1>0, <2>1, <2>3, <2>4, QuietKnows
  <1>4. CASE (Fail(r) /\ ~req[r].saving) \/ Die(r)
    <2>1. req' = [req EXCEPT ![r] = Idle]
      BY <1>4 DEF Fail, Die
    <2>. QED  BY <1>0, <1>1, <2>1, IdleType, QuietKnows
  <1>. QED  BY <1>2, <1>3, <1>4 DEF Waiting

LEMMA HolderType ==
  ASSUME TypeOK, NEW r \in Requests, Waiting(r) \/ Committing(r)
  PROVE  holder' \in [Rows -> Requests \cup {Nobody}]
  BY DEF TypeOK, Waiting, Lock, Fail, Die, Release, Committing, CommitIssue, CommitCancel,
         CommitReverse, CommitPay, CommitReceive, CommitApply, CommitRefund, Commit

LEMMA RequestsStep ==
  ASSUME IInv, [Next]_vars
  PROVE  /\ req' \in [Requests -> Request] /\ RequestsWF'
         /\ holder' \in [Rows -> Requests \cup {Nobody}]
  <1>0. TypeOK /\ Steady
    BY IsSteady DEF IInv
  <1>1. CASE Drafting
    BY <1>0, <1>1, DraftingKnows, DraftMoves DEF TypeOK
  <1>2. ASSUME NEW r \in Requests, Preparing(r) \/ Waiting(r) \/ Committing(r)
        PROVE  /\ req' \in [Requests -> Request] /\ RequestsWF'
               /\ holder' \in [Rows -> Requests \cup {Nobody}]
    <2>1. CASE Preparing(r)
      BY <1>0, <2>1, PreparingKnows DEF TypeOK
    <2>2. CASE Waiting(r)
      BY <1>0, <2>2, WaitingKnows, HolderType
    <2>3. CASE Committing(r)
      BY <1>0, <2>3, CommittingKnows, HolderType
    <2>. QED  BY <1>2, <2>1, <2>2, <2>3
  <1>3. CASE UNCHANGED vars
    BY <1>0, <1>3 DEF vars, IInv, TypeOK, RequestsWF, Knows, Posted, LimitApplies
  <1>. QED  BY <1>1, <1>2, <1>3, NextIs

-----------------------------------------------------------------------------
(* What the journals put on the control account.                           *)

LEMMA DocJournalAmount ==
  ASSUME NEW d \in Docs
  PROVE  /\ JournalAmount(d) = IF d \in Mains THEN doc[d].total ELSE 0 - doc[d].total
         /\ JournalAmount(d)' = IF d \in Mains THEN doc'[d].total ELSE 0 - doc'[d].total
  <1>1. d \in Mains => d \notin Notes /\ d \notin Receipts
    BY RowSets
  <1>2. d \notin Mains => d \in Notes /\ d \notin Receipts
    BY RowSets DEF Docs
  <1>. QED  BY <1>1, <1>2 DEF JournalAmount

LEMMA JournalAmountIs ==
  ASSUME TypeOK, NEW x \in Rows
  PROVE  /\ JournalAmount(x) \in Int
         /\ x \in Docs => JournalAmount(x) = IF x \in Mains THEN doc[x].total ELSE 0 - doc[x].total
  <1>1. CASE x \in Docs
    BY <1>1, DocType, RowSets DEF JournalAmount, Docs
  <1>2. CASE x \in Receipts
    BY <1>2, ReceiptType, RowSets DEF JournalAmount
  <1>. QED  BY <1>1, <1>2 DEF Rows

LEMMA JournalMoves ==
  ASSUME IInv, [Next]_vars
  PROVE  /\ posted' \in [Rows -> Int] /\ control' \in Int /\ byHand' \in [Rows -> Nat]
         /\ \A x \in Rows : byHand'[x] # byHand[x] => Posted(x)
  <1>. DEFINE Goal == /\ posted' \in [Rows -> Int] /\ control' \in Int /\ byHand' \in [Rows -> Nat]
                      /\ \A x \in Rows : byHand'[x] # byHand[x] => Posted(x)
  <1>0. TypeOK /\ posted \in [Rows -> Int] /\ control \in Int /\ byHand \in [Rows -> Nat]
    BY DEF IInv, TypeOK
  <1>1. ASSUME UNCHANGED <<posted, control, byHand>> PROVE Goal
    BY <1>0, <1>1
  <1>2. ASSUME NEW r \in Requests, Committing(r) PROVE Goal
    <2>. DEFINE d == req[r].row  n == req[r].amount
    <2>0. n \in Nat /\ Knows(req[r])
      BY <1>0, ReqType DEF IInv, RequestsWF
    <2>1. ASSUME CommitIssue(r) PROVE Goal
      <3>. DEFINE prepared == IF d \in Mains THEN n ELSE 0 - n
      <3>1. /\ posted' = [posted EXCEPT ![d] = prepared] /\ control' = control + prepared
            /\ byHand' = byHand
        BY <2>1 DEF CommitIssue
      <3>2. prepared \in Int
        BY <2>0
      <3>. HIDE DEF prepared, d, n
      <3>3. posted' \in [Rows -> Int]
        BY <1>0, <3>1, <3>2
      <3>4. control' \in Int
        BY <1>0, <3>1, <3>2
      <3>. QED  BY <1>0, <3>1, <3>3, <3>4
    <2>2. ASSUME CommitCancel(r) PROVE Goal
      <3>1. d \in Rows
        BY <2>0, <2>2, RowSets DEF CommitCancel, Ready, Knows
      <3>2. JournalAmount(d) \in Int
        BY <1>0, <3>1, JournalAmountIs
      <3>. QED  BY <1>0, <2>2, <3>1, <3>2 DEF CommitCancel
    <2>3. ASSUME CommitReverse(r) PROVE Goal
      <3>1. d \in Rows /\ Posted(d)
        BY <2>0, <2>3 DEF CommitReverse, Ready, Knows
      <3>2. JournalAmount(d) \in Int
        BY <1>0, <3>1, JournalAmountIs
      <3>. QED  BY <1>0, <2>3, <3>1, <3>2 DEF CommitReverse
    <2>4. ASSUME CommitPay(r) \/ CommitApply(r) \/ CommitRefund(r) PROVE Goal
      <3>1. /\ posted' = posted /\ byHand' = byHand
            /\ control' = control - n \/ control' = control + n \/ control' = control
        BY <2>4 DEF CommitPay, CommitApply, CommitRefund
      <3>. HIDE DEF n
      <3>. QED  BY <1>0, <2>0, <3>1, SMTT(30)
    <2>5. ASSUME NEW p \in Receipts, CommitReceive(r, p) PROVE Goal
      <3>1. /\ posted' = [posted EXCEPT ![p] = 0 - n] /\ byHand' = byHand
            /\ control' = control - n
        BY <2>5 DEF CommitReceive
      <3>. HIDE DEF n
      <3>2. 0 - n \in Int /\ control' \in Int
        BY <1>0, <2>0, <3>1
      <3>3. posted' \in [Rows -> Int]
        BY <1>0, <3>1, <3>2
      <3>. QED  BY <1>0, <3>1, <3>2, <3>3
    <2>. QED  BY <1>2, <2>1, <2>2, <2>3, <2>4, <2>5 DEF Committing
  <1>. HIDE DEF Goal
  <1>3. ASSUME NEW r \in Requests, Preparing(r) \/ Waiting(r) PROVE Goal
    BY <1>1, <1>3, QuietMoves
  <1>4. ASSUME Drafting PROVE Goal
    BY <1>0, <1>1, <1>4, DraftMoves
  <1>5. ASSUME UNCHANGED vars PROVE Goal
    BY <1>1, <1>5 DEF vars
  <1>6. Goal
    BY <1>2, <1>3, <1>4, <1>5, NextIs
  <1>. QED  BY <1>6 DEF Goal

(* What LedgerFollowsDocuments says of one document. *)
Follows(d) ==
    posted[d] = (IF Posted(d) /\ doc[d].status # "CANCELLED" THEN JournalAmount(d) ELSE 0)
                - byHand[d] * JournalAmount(d)

LEMMA MoneyFields ==
  ASSUME TypeOK, NEW d \in Docs, MoneyMove(d, doc'[d])
  PROVE  /\ doc'[d].total = doc[d].total
         /\ doc'[d].status = doc[d].status
            \/ (doc[d].status \in Open /\ doc'[d].status \in {"PAID", "PART_PAID"})
  <1>1. doc[d] \in Document
    BY DocType
  <1>. QED  BY <1>1 DEF MoneyMove, Taken, Used, Allocated, Open, Document

LEMMA MoneyFollows ==
  ASSUME IInv, doc' \in [Docs -> Document], NEW d \in Docs, MoneyMove(d, doc'[d]),
         posted'[d] = posted[d], byHand'[d] = byHand[d]
  PROVE  Follows(d)'
  <1>1. TypeOK /\ Follows(d) /\ d \in Rows
    BY RowSets DEF IInv, LedgerFollowsDocuments, Follows
  <1>2. Posted(d)' <=> Posted(d)
    BY <1>1, MoneyFields DEF Posted, Open
  <1>3. (doc'[d].status = "CANCELLED") <=> (doc[d].status = "CANCELLED")
    BY <1>1, MoneyFields DEF Open
  <1>4. JournalAmount(d)' = JournalAmount(d)
    BY <1>1, MoneyFields, DocJournalAmount
  <1>. QED  BY <1>1, <1>2, <1>3, <1>4 DEF Follows

(* A draft has no journal yet. *)
LEMMA DraftHasNoJournal ==
  ASSUME IInv, NEW d \in Docs, doc[d].status \in {"NONE", "DRAFT", "DELETED"}
  PROVE  posted[d] = 0 /\ byHand[d] = 0
  <1>1. TypeOK /\ d \in Rows /\ Follows(d)
    BY RowSets DEF IInv, LedgerFollowsDocuments, Follows
  <1>2. ~Posted(d)
    BY <1>1, PostedIs
  <1>3. byHand[d] = 0
    BY <1>1, <1>2 DEF IInv, ReversedWerePosted, TypeOK
  <1>. QED  BY <1>1, <1>2, <1>3, JournalAmountIs DEF Follows

(* A row without journal follows its document as long as that is not issued. *)
LEMMA DraftFollows ==
  ASSUME NEW d \in Docs, doc'[d].status \in {"NONE", "DRAFT", "DELETED"},
         doc' \in [Docs -> Document], posted'[d] = 0, byHand'[d] = 0
  PROVE  Follows(d)'
  <1>1. ~Posted(d)'
    BY DEF Posted, Open
  <1>2. JournalAmount(d)' \in Int
    BY DocJournalAmount DEF Document
  <1>. QED  BY <1>1, <1>2 DEF Follows

LEMMA LedgerFollowsStep ==
  ASSUME IInv, [Next]_vars, NEW d \in Docs
  PROVE  Follows(d)'
  <1>0. TypeOK /\ doc' \in [Docs -> Document] /\ d \in Rows /\ side' = side /\ Follows(d)
    BY DocMoves, RowSets DEF IInv, LedgerFollowsDocuments, Follows
  <1>1. ASSUME MoneyMove(d, doc'[d]), posted'[d] = posted[d], byHand'[d] = byHand[d]
        PROVE  Follows(d)'
    BY <1>0, <1>1, MoneyFollows
  <1>2. CASE Drafting
    <2>1. posted' = posted /\ byHand' = byHand /\ DraftMove(d, doc'[d])
      BY <1>0, <1>2, DraftMoves
    <2>2. CASE doc'[d] = doc[d]
      BY <1>1, <2>1, <2>2 DEF MoneyMove
    <2>3. CASE doc'[d] # doc[d]
      <3>1. doc[d].status \in {"NONE", "DRAFT"} /\ doc'[d].status \in {"DRAFT", "DELETED"}
        BY <1>0, <2>1, <2>3, DocType, DeletedType DEF DraftMove, Born, Edited, Removed, Document
      <3>. QED  BY <1>0, <2>1, <3>1, DraftHasNoJournal, DraftFollows
    <2>. QED  BY <2>2, <2>3
  <1>3. ASSUME NEW r \in Requests, Preparing(r) \/ Waiting(r) PROVE Follows(d)'
    BY <1>1, <1>3, QuietMoves DEF MoneyMove
  <1>4. ASSUME NEW r \in Requests, CommitIssue(r) PROVE Follows(d)'
    <2>. DEFINE x == req[r].row  n == req[r].amount
                prepared == IF x \in Mains THEN n ELSE 0 - n
    <2>1. posted' = [posted EXCEPT ![x] = prepared] /\ byHand' = byHand
      BY <1>4 DEF CommitIssue
    <2>2. CASE d # x
      BY <1>0, <1>1, <1>4, <2>1, <2>2, IssueMoves DEF TypeOK
    <2>3. CASE d = x
      <3>1. IssuedNow(d, doc'[d])
        BY <1>4, <2>3, IssueMoves
      <3>2. /\ doc[d].status = "DRAFT" /\ doc'[d].status = "ISSUED"
            /\ doc'[d].total = doc[d].total /\ doc[d].total \in Nat
        BY <1>0, <3>1, DocType DEF IssuedNow, Document
      <3>3. n = doc[d].total
        BY <1>4, <2>3, <3>2 DEF CommitIssue, Ready, OwnRowStands, IInv, RequestsWF, Knows
      <3>4. byHand'[d] = 0 /\ posted'[d] = prepared
        BY <1>0, <2>1, <2>3, <3>2, DraftHasNoJournal DEF TypeOK
      <3>5. Posted(d)'
        BY <3>2 DEF Posted, Open
      <3>6. JournalAmount(d)' = prepared /\ prepared \in Int
        BY <2>3, <3>2, <3>3, DocJournalAmount
      <3>. QED  BY <3>2, <3>4, <3>5, <3>6 DEF Follows
    <2>. QED  BY <2>2, <2>3
  <1>5. ASSUME NEW r \in Requests, CommitCancel(r) PROVE Follows(d)'
    <2>. DEFINE x == req[r].row
    <2>1. posted' = [posted EXCEPT ![x] = @ - JournalAmount(x)] /\ byHand' = byHand
      BY <1>5 DEF CommitCancel
    <2>2. CASE d # x
      BY <1>0, <1>1, <1>5, <2>1, <2>2, CancelMoves DEF TypeOK, MoneyMove
    <2>3. CASE d = x
      <3>1. CancelledNow(d, doc'[d])
        BY <1>5, <2>3, CancelMoves
      <3>2. /\ doc[d].status \in Open /\ doc'[d].status = "CANCELLED" /\ d \in Mains
            /\ doc'[d].total = doc[d].total /\ doc[d].total \in Nat
        BY <1>0, <3>1, DocType DEF CancelledNow, Document
      <3>3. /\ Posted(d) /\ doc[d].status # "CANCELLED"
            /\ JournalAmount(d) = doc[d].total /\ JournalAmount(d)' = doc[d].total
        BY <3>2, DocJournalAmount DEF Posted, Open
      <3>4. posted'[d] = posted[d] - doc[d].total /\ byHand'[d] = byHand[d]
        BY <1>0, <2>1, <2>3, <3>3 DEF TypeOK
      <3>5. posted[d] = doc[d].total - byHand[d] * doc[d].total
        BY <1>0, <3>3 DEF Follows
      <3>6. byHand[d] * doc[d].total \in Int
        BY <1>0, <3>2 DEF TypeOK
      <3>7. posted'[d] = 0 - byHand'[d] * doc[d].total
        BY <3>2, <3>4, <3>5, <3>6
      <3>. QED  BY <3>2, <3>3, <3>7 DEF Follows
    <2>. QED  BY <2>2, <2>3
  <1>6. ASSUME NEW r \in Requests, CommitReverse(r) PROVE Follows(d)'
    <2>. DEFINE x == req[r].row
    <2>1. /\ posted' = [posted EXCEPT ![x] = @ - JournalAmount(x)]
          /\ byHand' = [byHand EXCEPT ![x] = @ + 1] /\ doc' = doc
      BY <1>6 DEF CommitReverse
    <2>2. CASE d # x
      BY <1>0, <1>1, <2>1, <2>2 DEF TypeOK, MoneyMove
    <2>3. CASE d = x
      <3>. DEFINE a == JournalAmount(d)
                  b == byHand[d]
                  stand == IF Posted(d) /\ doc[d].status # "CANCELLED" THEN a ELSE 0
      <3>1. a \in Int /\ b \in Nat /\ stand \in Int
        BY <1>0, JournalAmountIs DEF TypeOK
      <3>2. posted'[d] = posted[d] - a /\ byHand'[d] = b + 1 /\ posted[d] = stand - b * a
        BY <1>0, <2>1, <2>3 DEF TypeOK, Follows
      <3>3. JournalAmount(d)' = a /\ (Posted(d)' <=> Posted(d))
        BY <2>1, DocJournalAmount DEF Posted
      <3>4. posted'[d] = stand - (b + 1) * a
        <4>. HIDE DEF a, b, stand
        <4>1. (b + 1) * a = b * a + a /\ b * a \in Int
          BY <3>1
        <4>. QED  BY <3>1, <3>2, <4>1
      <3>. QED  BY <2>1, <3>2, <3>3, <3>4 DEF Follows
    <2>. QED  BY <2>2, <2>3
  <1>7. ASSUME NEW r \in Requests, CommitPay(r) \/ CommitApply(r) \/ CommitRefund(r)
        PROVE  Follows(d)'
    <2>1. posted' = posted /\ byHand' = byHand
      BY <1>7 DEF CommitPay, CommitApply, CommitRefund
    <2>2. MoneyMove(d, doc'[d])
      <3>1. CASE CommitApply(r)
        BY <3>1, ApplyMoves
      <3>2. CASE CommitPay(r) \/ CommitRefund(r)
        BY <1>0, <3>2, ReqType, AfterTakingMoves DEF CommitPay, CommitRefund, Ready, IInv
      <3>. QED  BY <1>7, <3>1, <3>2
    <2>. QED  BY <1>1, <2>1, <2>2
  <1>8. ASSUME NEW r \in Requests, NEW p \in Receipts, CommitReceive(r, p) PROVE Follows(d)'
    <2>1. posted'[d] = posted[d] /\ byHand' = byHand
      <3>1. d # p
        BY RowSets
      <3>. QED  BY <1>0, <1>8, <3>1 DEF CommitReceive, TypeOK
    <2>2. MoneyMove(d, doc'[d])
      BY <1>0, <1>8, ReqType, AfterTakingMoves DEF CommitReceive, Ready, IInv
    <2>. QED  BY <1>1, <2>1, <2>2
  <1>9. ASSUME UNCHANGED vars PROVE Follows(d)'
    BY <1>1, <1>9 DEF vars, MoneyMove
  <1>10. ASSUME NEW r \in Requests, Committing(r) PROVE Follows(d)'
    BY <1>4, <1>5, <1>6, <1>7, <1>8, <1>10 DEF Committing
  <1>. QED  BY <1>2, <1>3, <1>9, <1>10, NextIs

-----------------------------------------------------------------------------
(* The invariant is inductive.                                             *)

LEMMA NextNoteLeft ==
  ASSUME NEW n \in Notes
  PROVE  Left(n)' = IF side' = "AR" /\ doc'[n].status = "ISSUED"
                    THEN doc'[n].total - doc'[n].paid ELSE 0
  <1>1. n \notin Mains /\ n \notin Receipts
    BY RowSets
  <1>. QED  BY <1>1 DEF Left

LEMMA InitIInv == Init => IInv
  <1>. SUFFICES ASSUME Init PROVE IInv
    OBVIOUS
  <1>0. /\ side \in {"AR", "AP"} /\ doc = [d \in Docs |-> NoDoc]
        /\ receipt = [p \in Receipts |-> NoReceipt] /\ posted = [x \in Rows |-> 0] /\ control = 0
        /\ byHand = [x \in Rows |-> 0] /\ holder = [x \in Rows |-> Nobody]
        /\ req = [r \in Requests |-> Idle]
    BY DEF Init
  <1>1. NoDoc \in Document /\ NoDoc.status = "NONE" /\ NoDoc.total = 0 /\ NoDoc.paid = 0 /\ NoDoc.against = 0
    BY DEF NoDoc, Document, DocStatus
  <1>2. NoReceipt \in Receipt /\ NoReceipt.amount = 0 /\ NoReceipt.applied = 0
        /\ NoReceipt.unapplied = 0 /\ NoReceipt.refunded = 0
    BY DEF NoReceipt, Receipt
  <1>3. TypeOK
    BY <1>0, <1>1, <1>2, IdleType DEF TypeOK
  <1>4. DocsWF /\ AmountsInRange
    BY <1>0, <1>1, <1>2 DEF DocsWF, AmountsInRange
  <1>5. StatusTellsPaid
    BY <1>0, <1>1 DEF StatusTellsPaid
  <1>6. \A d \in Docs : ~Posted(d)
    BY <1>0, <1>1 DEF Posted, Open
  <1>7. NotesUsedOnTheirInvoice
    BY <1>6, RowSets DEF NotesUsedOnTheirInvoice
  <1>8. ReversedWerePosted
    BY <1>0 DEF ReversedWerePosted
  <1>9. RequestsWF
    BY <1>0 DEF RequestsWF, Knows, Idle
  <1>10. LedgerFollowsDocuments
    BY <1>0, <1>3, <1>6, JournalAmountIs, RowSets DEF LedgerFollowsDocuments
  <1>. QED  BY <1>3, <1>4, <1>5, <1>7, <1>8, <1>9, <1>10 DEF IInv

LEMMA StepIInv == IInv /\ [Next]_vars => IInv'
  <1>. SUFFICES ASSUME IInv, [Next]_vars PROVE IInv'
    OBVIOUS
  <1>0. TypeOK /\ Steady
    BY IsSteady DEF IInv
  <1>1. TypeOK'
    <2>1. side' \in {"AR", "AP"}
      BY <1>0 DEF TypeOK, Steady
    <2>. QED  BY <1>0, <2>1, JournalMoves, RequestsStep DEF TypeOK, Steady
  <1>2. \A d \in Docs :
           /\ d \in Mains => doc'[d].against = 0
           /\ d \in Notes => doc'[d].status \in {"NONE", "DRAFT", "ISSUED", "DELETED"}
           /\ doc'[d].paid <= doc'[d].total
           /\ Tells(d)'
           /\ side = "AR" /\ d \in Notes /\ doc'[d].status = "ISSUED" /\ doc'[d].against # 0
                  => doc'[d].paid = doc'[d].total
    BY DocMoves, OneDoc
  <1>3. DocsWF'
    BY <1>2 DEF DocsWF
  <1>4. AmountsInRange'
    BY <1>2, ReceiptMoves DEF AmountsInRange
  <1>5. StatusTellsPaid'
    BY <1>2 DEF StatusTellsPaid, Tells
  <1>6. NotesUsedOnTheirInvoice'
    <2>1. SUFFICES ASSUME NEW n \in Notes, side' = "AR", Posted(n)', doc'[n].against # 0
                   PROVE  Left(n)' = 0
      BY DEF NotesUsedOnTheirInvoice
    <2>2. n \in Docs /\ side = "AR"
      BY <1>0, <2>1, RowSets DEF Steady
    <2>3. doc'[n].status = "ISSUED" /\ doc'[n].total \in Nat
      BY <1>0, <1>2, <2>1, <2>2 DEF Posted, Open, Steady, Document
    <2>. QED  BY <1>2, <2>1, <2>2, <2>3, NextNoteLeft
  <1>7. ReversedWerePosted'
    <2>1. ASSUME NEW x \in Rows, byHand'[x] > 0 PROVE Posted(x)'
      <3>1. Posted(x)
        <4>1. CASE byHand'[x] = byHand[x]
          BY <2>1, <4>1 DEF IInv, ReversedWerePosted
        <4>. QED  BY <4>1, JournalMoves
      <3>2. CASE x \in Docs
        <4>1. doc[x].status \notin {"NONE", "DRAFT", "DELETED"}
          BY <1>0, <3>1, <3>2, PostedIs
        <4>2. doc'[x].status \notin {"NONE", "DRAFT", "DELETED"} /\ doc'[x].status \in DocStatus
          BY <1>0, <3>2, <4>1 DEF Steady, Document
        <4>. QED  BY <3>2, <4>2 DEF Posted, DocStatus, Open
      <3>3. CASE x \notin Docs
        <4>1. x \in Receipts /\ receipt[x].amount > 0
          BY <3>1, <3>3 DEF Posted, Rows
        <4>. QED  BY <1>0, <3>3, <4>1 DEF Posted, Steady
      <3>. QED  BY <3>2, <3>3
    <2>. QED  BY <2>1 DEF ReversedWerePosted
  <1>8. RequestsWF'
    BY RequestsStep
  <1>9. LedgerFollowsDocuments'
    BY LedgerFollowsStep DEF LedgerFollowsDocuments, Follows
  <1>. QED  BY <1>1, <1>3, <1>4, <1>5, <1>6, <1>7, <1>8, <1>9 DEF IInv

(* Every reachable state satisfies the inductive invariant.                *)
THEOREM Inductive == Spec => []IInv
  BY InitIInv, StepIInv, PTL DEF Spec

-----------------------------------------------------------------------------
(* What follows.                                                           *)

(* The tables, the locks and the requests hold what their columns allow.   *)
THEOREM TypeCorrect == Spec => []TypeOK
  <1>1. IInv => TypeOK
    BY DEF IInv
  <1>. QED  BY Inductive, <1>1, PTL

(* No CHECK constraint on an amount ever has to refuse: nothing is paid or *)
(* used beyond its total, and the parts of a payment add up to it.         *)
THEOREM AmountsSound == Spec => []AmountsInRange
  <1>1. IInv => AmountsInRange
    BY DEF IInv
  <1>. QED  BY Inductive, <1>1, PTL

(* The status of a document tells what was paid of it.                     *)
THEOREM StatusesSound == Spec => []StatusTellsPaid
  <1>1. IInv => StatusTellsPaid
    BY DEF IInv
  <1>. QED  BY Inductive, <1>1, PTL

(* A document's total stands on the control account exactly while it is    *)
(* issued and not cancelled, apart from reversals by hand.                 *)
THEOREM LedgerFollows == Spec => []LedgerFollowsDocuments
  <1>1. IInv => LedgerFollowsDocuments
    BY DEF IInv
  <1>. QED  BY Inductive, <1>1, PTL

(* A note raised against an invoice leaves no credit to be used again.     *)
THEOREM NotesUsed == Spec => []NotesUsedOnTheirInvoice
  <1>1. IInv => NotesUsedOnTheirInvoice
    BY DEF IInv
  <1>. QED  BY Inductive, <1>1, PTL

(* Totals only change in drafts, and settled, cancelled and deleted        *)
(* documents stay as they are.                                             *)
THEOREM FrozenOnceIssued == Spec => IssuedIsFrozen
  <1>. DEFINE Act == \A d \in Docs :
          doc[d].status \notin {"NONE", "DRAFT"} =>
              /\ doc'[d].total = doc[d].total /\ doc'[d].against = doc[d].against
              /\ doc'[d].paid >= doc[d].paid
              /\ doc[d].status \in {"PAID", "CANCELLED", "DELETED"} => doc'[d] = doc[d]
  <1>1. IInv /\ [Next]_vars => [Act]_doc
    <2>1. ASSUME IInv, [Next]_vars PROVE \A d \in Docs : Frozen(d)
      BY <2>1, DocMoves, OneDoc
    <2>. QED  BY <2>1 DEF Frozen
  <1>2. (Spec => []IInv /\ [][Next]_vars) /\ ([][Act]_doc => IssuedIsFrozen)
    BY Inductive DEF Spec, IssuedIsFrozen
  <1>. QED  BY <1>1, <1>2, PTL

(* An invoice issued without override leaves the balance within the credit *)
(* limit, unless the balance moved since the limit was checked.            *)
THEOREM LimitLeaksOnlyInARace == Spec => LimitExceededOnlyInARace
  <1>. DEFINE Act == \A r \in Requests :
          IssuesUnderTheLimit(r) /\ ~req[r].raced => control' <= CreditLimit
  <1>1. ASSUME IInv, [Next]_vars, NEW r \in Requests, IssuesUnderTheLimit(r), ~req[r].raced
        PROVE  control' <= CreditLimit
    <2>. DEFINE d == req[r].row
    <2>0. /\ TypeOK /\ Knows(req[r]) /\ d \in Docs /\ d \in Mains
          /\ req[r].op = "issue" /\ doc[d].status = "DRAFT" /\ doc'[d].status = "ISSUED"
          /\ req'[r] = Idle /\ LimitApplies(d) /\ ~req[r].overridden /\ ~req[r].raced
      BY <1>1 DEF IInv, RequestsWF, Knows, IssuesUnderTheLimit, LimitApplies
    <2>1. ~Drafting
      <3>1. SUFFICES ASSUME Drafting PROVE FALSE
        OBVIOUS
      <3>2. DraftMove(d, doc'[d]) /\ doc[d] \in Document
        BY <2>0, <3>1, DraftMoves, DocType
      <3>. QED  BY <2>0, <3>2, DeletedType DEF DraftMove, Born, Edited, Removed, Document
    <2>2. \A x \in Requests : ~(Preparing(x) \/ Waiting(x))
      BY <2>0, QuietMoves
    <2>3. ~UNCHANGED vars
      BY <2>0 DEF vars
    <2>4. PICK x \in Requests : Committing(x)
      BY <1>1, <2>1, <2>2, <2>3, NextIs
    <2>5. x = r
      <3>1. SUFFICES ASSUME x # r PROVE FALSE
        OBVIOUS
      <3>2. Kept(r, req'[r])
        BY <2>0, <2>4, <3>1, CommitsTell, CommitRequests, SMTT(30)
      <3>. QED  BY <2>0, <3>2 DEF Kept, Idle
    <2>6. CommitIssue(r)
      BY <2>0, <2>4, <2>5 DEF Committing, CommitCancel, CommitReverse, CommitPay, CommitReceive,
                              CommitApply, CommitRefund, Ready
    <2>7. control' = control + req[r].amount
      BY <2>0, <2>6 DEF CommitIssue
    <2>. QED  BY <2>0, <2>7 DEF Knows
  <1>2. IInv /\ [Next]_vars => [Act]_doc
    BY <1>1
  <1>3. (Spec => []IInv /\ [][Next]_vars) /\ ([][Act]_doc => LimitExceededOnlyInARace)
    BY Inductive DEF Spec, LimitExceededOnlyInARace
  <1>. QED  BY <1>2, <1>3, PTL

-----------------------------------------------------------------------------
(***************************************************************************)
(* The transactions never wait for each other in a circle, for any number  *)
(* of requests and of rows.                                                *)
(*                                                                         *)
(* Rows have an order that follows from what they are: first the notes     *)
(* raised against an invoice, then the invoices, then what credit can be   *)
(* taken from; within these, the order of their ids.  The rows a           *)
(* transaction already holds come before the one it waits for.             *)
(***************************************************************************)

(* A note raised against an invoice; a deleted one no longer tells which. *)
Parented(d) == d \in Notes /\ (doc[d].against # 0 \/ doc[d].status = "DELETED")
FreeNote(x) == x \in Notes /\ doc[x].status = "ISSUED" /\ doc[x].against = 0

Class(x) == IF x \in Mains THEN 1 ELSE IF Parented(x) THEN 0 ELSE 2
Before(x, y) == Class(x) < Class(y) \/ (Class(x) = Class(y) /\ x < y)

(* What a plan takes from. *)
TakesWF(q) ==
    \A x \in Rows : q.take[x] > 0 =>
        \/ q.op \in {"pay", "receive"} /\ x \in Mains
        \/ q.op = "issue" /\ x \in Mains /\ Parented(q.row)
        \/ q.op \in {"apply", "refund"} /\ (x \in Receipts \/ FreeNote(x))

(* A transaction holds rows it needs, and these come before those it still needs. *)
InOrder(r) ==
    \A x \in Rows : holder[x] = r =>
        /\ x \in ToLock(r)
        /\ \A y \in Unlocked(r) :
              \/ LocksItsRow(r) /\ x = req[r].row
              \/ (LocksItsRow(r) => y # req[r].row) /\ x < y

LocksInv ==
    /\ IInv
    /\ \A r \in Requests : TakesWF(req[r]) /\ InOrder(r)

-----------------------------------------------------------------------------
(* Least and maximal elements.                                             *)

LessThan == {ss \in Nat \X Nat : ss[1] < ss[2]}

LEMMA LessThanWF == IsWellFoundedOn(LessThan, Nat)
  <1>1. OpToRel(<, Nat) = LessThan
    BY Zenon DEF OpToRel, LessThan
  <1>. QED  BY <1>1, NatLessThanWellFounded, Zenon

LEMMA LeastOf ==
  ASSUME NEW T \in SUBSET Nat, T # {}
  PROVE  \E x \in T : \A y \in T : x <= y
  <1>1. PICK x \in T : \A y \in T : ~(<<y, x>> \in LessThan)
    BY LessThanWF, WFMin
  <1>2. ASSUME NEW y \in T PROVE x <= y
    <2>1. <<y, x>> \in Nat \X Nat /\ <<y, x>>[1] = y /\ <<y, x>>[2] = x
      OBVIOUS
    <2>2. ~(<<y, x>>[1] < <<y, x>>[2])
      BY <1>1, <2>1, Zenon DEF LessThan
    <2>. QED  BY <2>1, <2>2
  <1>. QED  BY <1>2

(* The next row a transaction locks is one it needs and does not hold: its *)
(* own, or the first of the others.                                        *)
LEMMA NextRowIs ==
  ASSUME IInv, NEW r \in Requests, Unlocked(r) # {}
  PROVE  /\ NextRow(r) \in Unlocked(r) /\ NextRow(r) \in Rows
         /\ \/ LocksItsRow(r) /\ NextRow(r) = req[r].row
            \/ /\ LocksItsRow(r) => req[r].row \notin Unlocked(r)
               /\ \A y \in Unlocked(r) : NextRow(r) <= y
  <1>1. LocksItsRow(r) => req[r].row \in Rows
    BY RowSets DEF LocksItsRow, IInv, RequestsWF, Knows
  <1>2. Unlocked(r) \subseteq Rows /\ Unlocked(r) \in SUBSET Nat
    BY <1>1, RowSets DEF Unlocked, ToLock
  <1>3. CASE LocksItsRow(r) /\ req[r].row \in Unlocked(r)
    BY <1>2, <1>3 DEF NextRow
  <1>4. CASE ~(LocksItsRow(r) /\ req[r].row \in Unlocked(r))
    <2>1. NextRow(r) = CHOOSE x \in Unlocked(r) : \A y \in Unlocked(r) : x <= y
      BY <1>4 DEF NextRow
    <2>2. \E x \in Unlocked(r) : \A y \in Unlocked(r) : x <= y
      BY <1>2, LeastOf
    <2>3. NextRow(r) \in Unlocked(r) /\ \A y \in Unlocked(r) : NextRow(r) <= y
      BY <2>1, <2>2
    <2>. QED  BY <1>2, <1>4, <2>3
  <1>. QED  BY <1>3, <1>4

-----------------------------------------------------------------------------
(* What plans take from stays what it is.                                  *)

LEMMA NotesStay ==
  ASSUME IInv, [Next]_vars, NEW n \in Notes
  PROVE  /\ doc[n].status # "NONE" /\ Parented(n) => Parented(n)'
         /\ FreeNote(n) => FreeNote(n)'
  <1>1. TypeOK /\ n \in Docs /\ n \notin Mains
    BY RowSets DEF IInv
  <1>2. /\ doc'[n] \in Document /\ DocMove(n) /\ Frozen(n)
        /\ doc'[n].status \in {"NONE", "DRAFT", "ISSUED", "DELETED"}
        /\ doc[n].status \notin {"NONE", "DRAFT", "DELETED"}
               => doc'[n].status \notin {"NONE", "DRAFT", "DELETED"}
    BY <1>1, DocMoves, OneDoc
  <1>3. FreeNote(n) => FreeNote(n)'
    BY <1>2 DEF FreeNote, Frozen
  <1>4. doc[n].status # "NONE" /\ Parented(n) => doc'[n].against # 0 \/ doc'[n].status = "DELETED"
    <2>1. doc[n].status = "DELETED" => doc'[n].status = "DELETED"
      BY <1>2 DEF Frozen
    <2>2. doc[n].status # "NONE" => doc'[n].against = doc[n].against \/ doc'[n].status = "DELETED"
      BY <1>1, <1>2, MoveFields
    <2>. QED  BY <2>1, <2>2 DEF Parented
  <1>. QED  BY <1>3, <1>4 DEF Parented

LEMMA TakesKept ==
  ASSUME IInv, [Next]_vars, NEW r \in Requests, TakesWF(req[r]), Kept(r, req'[r])
  PROVE  TakesWF(req[r])'
  <1>. DEFINE q == req[r]  new == req'[r]
  <1>1. Knows(q) /\ new.op = q.op /\ new.row = q.row /\ new.take = q.take
    BY DEF IInv, RequestsWF, Kept
  <1>2. ASSUME NEW x \in Rows, new.take[x] > 0
        PROVE  \/ new.op \in {"pay", "receive"} /\ x \in Mains
               \/ new.op = "issue" /\ x \in Mains /\ Parented(req[r].row)'
               \/ new.op \in {"apply", "refund"} /\ (x \in Receipts \/ FreeNote(x)')
    <2>1. CASE q.op = "issue"
      <3>1. x \in Mains /\ Parented(q.row)
        BY <1>1, <1>2, <2>1 DEF TakesWF
      <3>2. q.row \in Notes /\ doc[q.row].status # "NONE"
        BY <1>1, <2>1, <3>1 DEF Knows, Parented
      <3>3. doc'[q.row].against # 0 \/ doc'[q.row].status = "DELETED"
        BY <3>1, <3>2, NotesStay DEF Parented
      <3>. QED  BY <1>1, <2>1, <3>1, <3>2, <3>3 DEF Parented
    <2>2. CASE q.op # "issue"
      <3>1. FreeNote(x) => FreeNote(x)'
        BY NotesStay DEF FreeNote
      <3>. QED  BY <1>1, <1>2, <2>2, <3>1 DEF TakesWF
    <2>. QED  BY <2>1, <2>2
  <1>. QED  BY <1>2 DEF TakesWF

LEMMA TakesNothing ==
  ASSUME NEW r \in Requests, req'[r].take = TakeNothing
  PROVE  TakesWF(req[r])'
  BY DEF TakesWF, TakeNothing

(* A plan over credits takes from payments and from notes nobody is owed. *)
LEMMA PlansTake ==
  ASSUME IInv, NEW S \in SUBSET Rows, NEW take \in Plans(S), NEW x \in Rows, take[x] > 0
  PROVE  /\ x \in S /\ Left(x) # 0
         /\ x \in Notes => FreeNote(x)
  <1>1. PICK f \in [S -> 0 .. SumFunction([y \in S |-> Left(y)])] :
           /\ \A y \in S : f[y] \in 0 .. Left(y)
           /\ take = [y \in Rows |-> IF y \in S THEN f[y] ELSE 0]
    BY DEF Plans
  <1>2. x \in S /\ take[x] \in 0 .. Left(x)
    BY <1>1
  <1>3. Left(x) # 0
    BY <1>2
  <1>4. ASSUME x \in Notes PROVE FreeNote(x)
    <2>1. side = "AR" /\ doc[x].status = "ISSUED"
      BY <1>3, <1>4, LeftIs
    <2>2. Posted(x)
      BY <1>4, <2>1, RowSets DEF Posted, Open
    <2>. QED  BY <1>3, <1>4, <2>1, <2>2 DEF FreeNote, IInv, NotesUsedOnTheirInvoice
  <1>. QED  BY <1>2, <1>3, <1>4

LEMMA BeginsTaking ==
  ASSUME IInv, NEW r \in Requests, Preparing(r)
  PROVE  /\ req' = [req EXCEPT ![r] = req'[r]] /\ UNCHANGED <<doc, holder>>
         /\ req[r].op \in {"none", "save"}
         /\ TakesWF(req'[r])
  <1>. DEFINE Goal == /\ TakesWF(req'[r]) /\ UNCHANGED <<doc, holder>>
                      /\ req' = [req EXCEPT ![r] = req'[r]]
  <1>0. TypeOK /\ Mains \subseteq Rows /\ Sources \subseteq Rows
    BY RowSets DEF IInv
  <1>1. ASSUME NEW rec, Begin(r, rec)
        PROVE  req' = [req EXCEPT ![r] = req'[r]] /\ UNCHANGED <<doc, holder>> /\ req'[r] = rec
    BY <1>0, <1>1 DEF Begin, TypeOK, tables
  <1>2. ASSUME NEW d \in Docs, PrepareIssue(r, d)
        PROVE  Goal
    <2>. DEFINE beyond == LimitApplies(d) /\ control + doc[d].total > CreditLimit
                take == [x \in Rows |-> IF x = doc[d].against THEN doc[d].total ELSE 0]
                rec == [Idle EXCEPT !.op = "issue", !.row = d, !.amount = doc[d].total,
                            !.take = take, !.overridden = beyond, !.saving = req[r].saving]
    <2>1. Begin(r, rec) /\ rec.op = "issue" /\ rec.row = d /\ rec.take = take
      BY <1>2 DEF PrepareIssue, Idle
    <2>2. ASSUME NEW x \in Rows, take[x] > 0 PROVE x \in Mains /\ Parented(d)
      <3>1. x = doc[d].against /\ x # 0
        BY <2>2, RowSets
      <3>2. x \in Mains /\ d \notin Mains
        BY <1>0, <3>1, DocType DEF IInv, DocsWF
      <3>. QED  BY <3>1, <3>2 DEF Parented, Docs
    <2>. HIDE DEF take, rec
    <2>3. TakesWF(rec)
      BY <2>1, <2>2 DEF TakesWF
    <2>. QED  BY <1>1, <2>1, <2>3
  <1>3. ASSUME NEW op \in {"cancel", "reverse"}, NEW d,
               Begin(r, [Idle EXCEPT !.op = op, !.row = d])
        PROVE  Goal
    <2>1. TakesWF([Idle EXCEPT !.op = op, !.row = d])
      BY DEF TakesWF, Idle, TakeNothing
    <2>. QED  BY <1>1, <1>3, <2>1
  <1>4. ASSUME NEW d \in Mains, NEW n \in Amounts, PreparePay(r, d, n)
        PROVE  Goal
    <2>. DEFINE rec == [Idle EXCEPT !.op = "pay", !.row = d, !.amount = n, !.take[d] = n]
    <2>1. Begin(r, rec)
      BY <1>4 DEF PreparePay
    <2>2. rec.op = "pay" /\ rec.take = [TakeNothing EXCEPT ![d] = n]
      BY DEF Idle
    <2>3. TakesWF(rec)
      BY <1>0, <2>2 DEF TakesWF, TakeNothing
    <2>. QED  BY <1>1, <2>1, <2>3
  <1>5. ASSUME NEW n \in Amounts, NEW take \in Plans(Mains), PrepareReceive(r, n, take)
        PROVE  Goal
    <2>. DEFINE rec == [Idle EXCEPT !.op = "receive", !.amount = n, !.take = take]
    <2>1. Begin(r, rec) /\ rec.op = "receive" /\ rec.take = take
      BY <1>5 DEF PrepareReceive, Idle
    <2>. HIDE DEF rec
    <2>2. TakesWF(rec)
      BY <1>0, <2>1, PlansTake DEF TakesWF
    <2>. QED  BY <1>1, <2>1, <2>2
  <1>6. ASSUME NEW take \in Plans(Sources), NEW rec, Begin(r, rec),
               rec.take = take, rec.op \in {"apply", "refund"}
        PROVE  Goal
    <2>1. ASSUME NEW x \in Rows, take[x] > 0 PROVE x \in Receipts \/ FreeNote(x)
      BY <1>0, <2>1, PlansTake DEF Sources
    <2>2. TakesWF(rec)
      BY <1>6, <2>1 DEF TakesWF
    <2>. QED  BY <1>1, <1>6, <2>2
  <1>7. ASSUME NEW d \in Mains, NEW take \in Plans(Sources), PrepareApply(r, d, take)
        PROVE  Goal
    <2>. DEFINE rec == [Idle EXCEPT !.op = "apply", !.row = d,
                                    !.amount = SumFunction(take), !.take = take]
    <2>1. Begin(r, rec) /\ rec.op = "apply" /\ rec.take = take
      BY <1>7 DEF PrepareApply, Idle
    <2>. QED  BY <1>6, <2>1
  <1>8. ASSUME NEW take \in Plans(Sources), PrepareRefund(r, take)
        PROVE  Goal
    <2>. DEFINE rec == [Idle EXCEPT !.op = "refund", !.amount = SumFunction(take), !.take = take]
    <2>1. Begin(r, rec) /\ rec.op = "refund" /\ rec.take = take
      BY <1>8 DEF PrepareRefund, Idle
    <2>. QED  BY <1>6, <2>1
  <1>9. ASSUME NEW d \in Docs, PrepareCancel(r, d)
        PROVE  Goal
    BY <1>3, <1>9 DEF PrepareCancel
  <1>10. ASSUME NEW x \in Rows, PrepareReverse(r, x)
        PROVE  Goal
    BY <1>3, <1>10, ZenonT(30) DEF PrepareReverse
  <1>11. req[r].op \in {"none", "save"}
    BY DEF Preparing, Idling, PrepareIssue, PrepareCancel, PrepareReverse, PreparePay,
           PrepareReceive, PrepareApply, PrepareRefund
  <1>. QED
    BY <1>2, <1>4, <1>5, <1>7, <1>8, <1>9, <1>10, <1>11 DEF Preparing

-----------------------------------------------------------------------------
(* Locks are taken in order.                                               *)

LEMMA ToLockRows ==
  ASSUME IInv, NEW q \in Requests
  PROVE  ToLock(q) \subseteq Rows
  <1>1. LocksItsRow(q) => req[q].row \in Rows
    BY RowSets DEF LocksItsRow, IInv, RequestsWF, Knows
  <1>. QED  BY <1>1 DEF ToLock

LEMMA InOrderKept ==
  ASSUME IInv, NEW q \in Requests, InOrder(q), Kept(q, req'[q]),
         \A x \in Rows : holder'[x] = q <=> holder[x] = q
  PROVE  InOrder(q)'
  <1>1. ToLock(q)' = ToLock(q) /\ (LocksItsRow(q)' <=> LocksItsRow(q)) /\ req'[q].row = req[q].row
    BY DEF Kept, ToLock, LocksItsRow
  <1>2. \A y \in Unlocked(q)' : y \in Unlocked(q)
    BY <1>1, ToLockRows DEF Unlocked
  <1>. QED  BY <1>1, <1>2 DEF InOrder

LEMMA InOrderNone ==
  ASSUME NEW q \in Requests, \A x \in Rows : holder'[x] # q
  PROVE  InOrder(q)'
  BY DEF InOrder

(* A request that does not run a transaction holds nothing. *)
LEMMA HoldsNothing ==
  ASSUME LocksInv, NEW q \in Requests, req[q].op \in {"none", "save", "remove"}
  PROVE  \A x \in Rows : holder[x] # q
  <1>1. \A x \in Rows : ~(req[q].take[x] > 0)
    BY DEF LocksInv, TakesWF
  <1>2. ToLock(q) = {}
    BY <1>1 DEF ToLock, LocksItsRow
  <1>. QED  BY <1>2 DEF LocksInv, InOrder

LEMMA LockInOrder ==
  ASSUME LocksInv, NEW r \in Requests, Lock(r), NEW q \in Requests
  PROVE  InOrder(q)'
  <1>. DEFINE z == NextRow(r)
  <1>0. IInv /\ TypeOK /\ InOrder(q) /\ InOrder(r) /\ Nobody \notin Requests /\ \A x \in Rows : x \in Nat
    BY ReceivablesAssumption, RowSets DEF LocksInv, IInv
  <1>1. /\ holder[z] = Nobody /\ holder' = [holder EXCEPT ![z] = r] /\ req' = req
        /\ Unlocked(r) # {}
    <2>1. Cardinality(Unlocked(r)) > 1
      BY DEF Lock
    <2>2. Unlocked(r) # {}
      BY <2>1, FS_EmptySet
    <2>. QED  BY <2>2 DEF Lock
  <1>2. /\ z \in Unlocked(r) /\ z \in Rows
        /\ \/ LocksItsRow(r) /\ z = req[r].row
           \/ (LocksItsRow(r) => req[r].row \notin Unlocked(r)) /\ \A y \in Unlocked(r) : z <= y
    BY <1>0, <1>1, NextRowIs
  <1>. HIDE DEF z
  <1>3. \A x \in Rows : holder'[x] = IF x = z THEN r ELSE holder[x]
    BY <1>0, <1>1, <1>2 DEF TypeOK
  <1>4. CASE q # r
    BY <1>0, <1>1, <1>3, <1>4, KeptSame, InOrderKept
  <1>5. CASE q = r
    <2>1. ToLock(r)' = ToLock(r) /\ (LocksItsRow(r)' <=> LocksItsRow(r))
      BY <1>1 DEF ToLock, LocksItsRow
    <2>2. Unlocked(r) \subseteq Rows
      BY <1>0, ToLockRows DEF Unlocked
    <2>3. Unlocked(r)' = {x \in ToLock(r) : holder'[x] # r}
      BY <2>1 DEF Unlocked
    <2>4. ToLock(r) \subseteq Rows
      BY <1>0, ToLockRows
    <2>5. \A y \in Unlocked(r)' : y \in Unlocked(r) /\ y # z /\ y \in Rows
      BY <1>3, <2>3, <2>4 DEF Unlocked
    <2>6. ASSUME NEW x \in Rows, holder'[x] = r
          PROVE  /\ x \in ToLock(r)
                 /\ \A y \in Unlocked(r)' :
                       \/ LocksItsRow(r) /\ x = req[r].row
                       \/ (LocksItsRow(r) => y # req[r].row) /\ x < y
      <3>1. CASE x = z
        <4>1. x \in ToLock(r)
          BY <1>2, <3>1 DEF Unlocked
        <4>2. ASSUME NEW y \in Unlocked(r)', ~(LocksItsRow(r) /\ x = req[r].row)
              PROVE  (LocksItsRow(r) => y # req[r].row) /\ x < y
          <5>1. z <= y /\ z # y /\ y \in Nat /\ z \in Nat
            BY <1>0, <1>2, <2>5, <3>1, <4>2
          <5>. QED  BY <1>2, <2>5, <3>1, <4>2, <5>1
        <4>. QED  BY <4>1, <4>2
      <3>2. CASE x # z
        BY <1>0, <1>3, <2>5, <2>6, <3>2 DEF InOrder
      <3>. QED  BY <3>1, <3>2
    <2>. QED  BY <1>1, <1>5, <2>1, <2>6 DEF InOrder
  <1>. QED  BY <1>4, <1>5

LEMMA ReleaseInOrder ==
  ASSUME LocksInv, NEW r \in Requests, Release(r), NEW q \in Requests, q # r => Kept(q, req'[q])
  PROVE  InOrder(q)'
  <1>1. /\ IInv /\ InOrder(q) /\ Nobody \notin Requests
        /\ \A x \in Rows : holder'[x] = IF holder[x] = r THEN Nobody ELSE holder[x]
    BY ReceivablesAssumption DEF LocksInv, Release
  <1>2. CASE q = r
    BY <1>1, <1>2, InOrderNone
  <1>3. CASE q # r
    BY <1>1, <1>3, InOrderKept
  <1>. QED  BY <1>2, <1>3

LEMMA DraftingKeeps ==
  ASSUME IInv, Drafting, NEW x \in Requests
  PROVE  Kept(x, req'[x]) \/ (req[x].op \in {"none", "remove"} /\ req'[x].take = TakeNothing)
  <1>0. TypeOK /\ req = [y \in Requests |-> req[y]]
    BY DEF IInv, TypeOK
  <1>1. Kept(x, req'[x]) \/ req[x].op \in {"none", "remove"}
    <2>1. ASSUME req'[x] = req[x] PROVE Kept(x, req'[x])
      BY <1>0, <2>1, KeptSame
    <2>2. CASE \E d \in Docs, n \in Amounts : \E o \in Mains \cup {0} : Create(d, n, o)
      BY <2>1, <2>2 DEF Create
    <2>3. ASSUME NEW d \in Docs, NEW n \in Amounts, Update(d, n) PROVE Kept(x, req'[x])
      BY <1>0, <2>3, UpdateKeeps
    <2>4. CASE \E d \in Docs : Remove(d)
      BY <2>1, <2>4 DEF Remove
    <2>5. ASSUME NEW r \in Requests, RemoveSaved(r) \/ \E d \in Docs, n \in Amounts : Save(r, d, n)
          PROVE  Kept(x, req'[x]) \/ req[x].op \in {"none", "remove"}
      <3>1. CASE x = r
        BY <2>5, <3>1 DEF RemoveSaved, Save, Idling
      <3>2. CASE x # r
        <4>1. req'[x] = req[x]
          BY <1>0, <2>5, <3>2 DEF RemoveSaved, Save
        <4>. QED  BY <2>1, <4>1
      <3>. QED  BY <3>1, <3>2
    <2>. QED  BY <2>2, <2>3, <2>4, <2>5 DEF Drafting
  <1>2. Kept(x, req'[x]) \/ req'[x].take = TakeNothing
    BY DraftRequests DEF Fresh
  <1>. QED  BY <1>1, <1>2

LEMMA InitLocksInv == Init => LocksInv
  <1>. SUFFICES ASSUME Init PROVE LocksInv
    OBVIOUS
  <1>1. \A r \in Requests : TakesWF(req[r])
    BY DEF Init, TakesWF, Idle, TakeNothing
  <1>2. \A r \in Requests : InOrder(r)
    BY ReceivablesAssumption DEF Init, InOrder
  <1>. QED  BY <1>1, <1>2, InitIInv DEF LocksInv

LEMMA StepLocksInv == LocksInv /\ [Next]_vars => LocksInv'
  <1>. SUFFICES ASSUME LocksInv, [Next]_vars PROVE LocksInv'
    OBVIOUS
  <1>0. /\ IInv /\ TypeOK /\ \A q \in Requests : TakesWF(req[q]) /\ InOrder(q)
        /\ req = [q \in Requests |-> req[q]]
    BY DEF LocksInv, IInv, TypeOK
  <1>. DEFINE Goal(q) == TakesWF(req[q])' /\ InOrder(q)'
  <1>1. ASSUME NEW q \in Requests, Kept(q, req'[q]), holder' = holder PROVE Goal(q)
    BY <1>0, <1>1, TakesKept, InOrderKept
  <1>2. ASSUME NEW q \in Requests, req[q].op \in {"none", "save", "remove"}, holder' = holder,
               TakesWF(req[q])'
        PROVE  Goal(q)
    BY <1>2, HoldsNothing, InOrderNone
  <1>3. ASSUME NEW r \in Requests, Release(r), req'[r].take = TakeNothing,
               \A q \in Requests : q # r => Kept(q, req'[q]), NEW q \in Requests
        PROVE  Goal(q)
    <2>1. TakesWF(req[q])'
      BY <1>0, <1>3, TakesKept, TakesNothing
    <2>. QED  BY <1>3, <2>1, ReleaseInOrder
  <1>4. ASSUME Drafting, NEW q \in Requests PROVE Goal(q)
    BY <1>0, <1>1, <1>2, <1>4, DraftMoves, DraftingKeeps, TakesNothing
  <1>5. ASSUME NEW r \in Requests, Preparing(r), NEW q \in Requests PROVE Goal(q)
    <2>1. /\ req' = [req EXCEPT ![r] = req'[r]] /\ UNCHANGED <<doc, holder>>
          /\ req[r].op \in {"none", "save"} /\ TakesWF(req'[r])
      BY <1>0, <1>5, BeginsTaking
    <2>2. CASE q # r
      <3>1. req'[q] = req[q]
        BY <1>0, <2>1, <2>2
      <3>. QED  BY <1>0, <1>1, <2>1, <3>1, KeptSame
    <2>3. CASE q = r
      <3>1. TakesWF(req[r])'
        BY <2>1 DEF TakesWF, Parented, FreeNote
      <3>. QED  BY <1>2, <2>1, <2>3, <3>1
    <2>. QED  BY <2>2, <2>3
  <1>6. ASSUME NEW r \in Requests, Lock(r), NEW q \in Requests PROVE Goal(q)
    <2>1. req' = req
      BY <1>6 DEF Lock
    <2>. QED  BY <1>0, <1>6, <2>1, KeptSame, TakesKept, LockInOrder
  <1>7. ASSUME NEW r \in Requests, Fail(r) \/ Die(r), NEW q \in Requests PROVE Goal(q)
    <2>1. Release(r) /\ \A x \in Requests : x # r => req'[x] = req[x]
      BY <1>0, <1>7 DEF Fail, Die
    <2>2. req'[r].take = TakeNothing
      <3>1. \/ req' = [req EXCEPT ![r] = Idle]
            \/ req' = [req EXCEPT ![r] = [Idle EXCEPT !.op = "remove", !.row = req[r].row]]
        BY <1>7 DEF Fail, Die
      <3>2. req'[r] = Idle \/ req'[r] = [Idle EXCEPT !.op = "remove", !.row = req[r].row]
        BY <1>0, <3>1
      <3>3. /\ Idle.take = TakeNothing
            /\ [Idle EXCEPT !.op = "remove", !.row = req[r].row].take = TakeNothing
        BY DEF Idle
      <3>. QED  BY <3>2, <3>3
    <2>. QED  BY <1>0, <1>3, <2>1, <2>2, KeptSame
  <1>8. ASSUME NEW r \in Requests, Committing(r), NEW q \in Requests PROVE Goal(q)
    <2>1. PICK moved \in BOOLEAN : Commit(r, moved)
      BY <1>8, CommitsTell
    <2>2. req'[r] = Idle /\ Release(r) /\ \A x \in Requests : x # r => Kept(x, req'[x])
      <3>1. Release(r)
        BY <2>1 DEF Commit
      <3>. QED  BY <1>0, <2>1, <3>1, CommitRequests
    <2>3. req'[r].take = TakeNothing
      BY <2>2 DEF Idle
    <2>. QED  BY <1>3, <2>2, <2>3
  <1>9. ASSUME UNCHANGED vars, NEW q \in Requests PROVE Goal(q)
    BY <1>0, <1>1, <1>9, KeptSame DEF vars
  <1>. HIDE DEF Goal
  <1>10. \A q \in Requests : Goal(q)
    BY <1>4, <1>5, <1>6, <1>7, <1>8, <1>9, NextIs DEF Waiting
  <1>. QED  BY <1>0, <1>10, StepIInv DEF LocksInv, Goal

-----------------------------------------------------------------------------
(* No circle.                                                              *)

(* Whoever is waited for waits, if at all, for a row that comes later. *)
LEMMA WaitsAreOrdered ==
  ASSUME LocksInv, NEW a \in Requests, NEW b \in Requests, WaitsFor(a, b), Unlocked(b) # {}
  PROVE  NextRow(a) \in Rows /\ NextRow(b) \in Rows /\ Before(NextRow(a), NextRow(b))
  <1>. DEFINE x == NextRow(a)  y == NextRow(b)  q == req[b]
  <1>1. /\ IInv /\ TypeOK /\ TakesWF(q) /\ InOrder(b) /\ Knows(q)
        /\ x \in Rows /\ y \in Rows /\ y \in Unlocked(b) /\ holder[x] = b
    BY NextRowIs DEF LocksInv, IInv, RequestsWF, WaitsFor
  <1>2. /\ x \in ToLock(b) /\ y \in ToLock(b) /\ x # y
        /\ \/ LocksItsRow(b) /\ x = q.row
           \/ (LocksItsRow(b) => y # q.row) /\ x < y
    BY <1>1 DEF InOrder, Unlocked
  <1>. HIDE DEF x, y, q
  <1>3. /\ q.take[x] > 0 \/ (LocksItsRow(b) /\ x = q.row)
        /\ q.take[y] > 0
    BY <1>2 DEF ToLock, q
  <1>4. /\ \A z \in Mains : Class(z) = 1
        /\ \A z \in Receipts : Class(z) = 2
        /\ \A z \in Notes : Class(z) = IF Parented(z) THEN 0 ELSE 2
        /\ \A z \in Notes : FreeNote(z) => ~Parented(z)
    BY RowSets DEF Class, Parented, FreeNote
  <1>5. CASE q.op = "issue"
    <2>1. y \in Mains /\ Parented(q.row) /\ q.row \in Notes
      BY <1>1, <1>3, <1>5 DEF TakesWF, Parented
    <2>2. x = q.row \/ (x \in Mains /\ x < y)
      BY <1>1, <1>2, <1>3, <1>5 DEF TakesWF
    <2>. QED  BY <1>1, <1>4, <2>1, <2>2 DEF Before, x, y
  <1>6. CASE q.op = "apply"
    <2>1. y \in Receipts \/ FreeNote(y)
      BY <1>1, <1>3, <1>6 DEF TakesWF
    <2>2. (x = q.row /\ x \in Mains) \/ ((x \in Receipts \/ FreeNote(x)) /\ x < y)
      BY <1>1, <1>2, <1>3, <1>6 DEF TakesWF, Knows
    <2>. QED  BY <1>1, <1>4, <2>1, <2>2 DEF Before, FreeNote, x, y
  <1>7. CASE q.op \notin {"issue", "apply"}
    <2>1. q.op \in {"pay", "receive", "refund"}
      BY <1>1, <1>3, <1>7 DEF TakesWF
    <2>2. ~LocksItsRow(b)
      BY <2>1 DEF LocksItsRow, q
    <2>3. x < y /\ q.take[x] > 0
      BY <1>2, <1>3, <2>2
    <2>4. \/ x \in Mains /\ y \in Mains
          \/ (x \in Receipts \/ FreeNote(x)) /\ (y \in Receipts \/ FreeNote(y))
      BY <1>1, <1>3, <2>1, <2>3 DEF TakesWF
    <2>. QED  BY <1>1, <1>4, <2>3, <2>4 DEF Before, FreeNote, x, y
  <1>. QED  BY <1>5, <1>6, <1>7

LEMMA BeforeOrder ==
  /\ \A x, y, z \in Rows : Before(x, y) /\ Before(y, z) => Before(x, z)
  /\ \A x \in Rows : ~Before(x, x)
  <1>1. \A x \in Rows : Class(x) \in 0 .. 2 /\ x \in Nat
    BY RowSets DEF Class
  <1>. QED  BY <1>1 DEF Before

(* A finite set of rows has one that none of them comes after. *)
LEMMA LastOf ==
  ASSUME IsFiniteSet(Rows), NEW W \in SUBSET Rows, W # {}
  PROVE  \E x \in W : \A y \in W : ~Before(x, y)
  <1>. DEFINE Later(x) == {y \in W : Before(x, y)}
              T == {Later(x) : x \in W}
  <1>1. IsFiniteSet(W)
    BY FS_Subset
  <1>2. T \subseteq FiniteSubsetsOf(W) /\ T # {}
    <2>1. \A x \in W : Later(x) \in SUBSET W /\ IsFiniteSet(Later(x))
      BY <1>1, FS_Subset
    <2>. QED  BY <2>1 DEF FiniteSubsetsOf
  <1>3. PICK U \in T : \A V \in T : ~(<<V, U>> \in StrictSubsetOrdering(W))
    <2>. HIDE DEF T
    <2>. QED  BY <1>2, FS_StrictSubsetOrderingWellFounded, WFMin
  <1>4. PICK x \in W : U = Later(x)
    BY <1>3
  <1>5. ASSUME NEW y \in W, Before(x, y) PROVE FALSE
    <2>1. Later(y) \subseteq Later(x) /\ Later(y) # Later(x) /\ Later(y) \in T
      BY <1>5, BeforeOrder
    <2>2. Later(x) \in SUBSET W /\ Later(y) \in SUBSET W
      OBVIOUS
    <2>. HIDE DEF Later
    <2>3. <<Later(y), Later(x)>> \in (SUBSET W) \X (SUBSET W)
          /\ <<Later(y), Later(x)>>[1] = Later(y) /\ <<Later(y), Later(x)>>[2] = Later(x)
      BY <2>2
    <2>4. <<Later(y), Later(x)>> \in StrictSubsetOrdering(W)
      BY <2>1, <2>3, Zenon DEF StrictSubsetOrdering
    <2>. QED  BY <1>3, <1>4, <2>1, <2>4
  <1>. QED  BY <1>5

(* Transactions never wait for each other in a circle, however many there  *)
(* are and however many rows they lock (the lock order of documents.ts,    *)
(* payments.ts and refunds.ts).                                            *)
THEOREM DeadlockFree == ASSUME IsFiniteSet(Rows) PROVE Spec => []NoCircularWait
  <1>1. LocksInv => NoCircularWait
    <2>1. SUFFICES ASSUME LocksInv, NEW S \in (SUBSET Requests) \ {{}},
                          \A a \in S : \E b \in S : WaitsFor(a, b)
                   PROVE  FALSE
      BY DEF NoCircularWait
    <2>. DEFINE W == {NextRow(a) : a \in S}
    <2>2. \A a \in S : Unlocked(a) # {} /\ NextRow(a) \in Rows
      BY <2>1, NextRowIs DEF WaitsFor, LocksInv
    <2>3. PICK x \in W : \A y \in W : ~Before(x, y)
      <3>1. W \in SUBSET Rows
        BY <2>2
      <3>2. PICK a \in S : TRUE
        BY <2>1
      <3>3. W # {}
        BY <3>2
      <3>. HIDE DEF W
      <3>. QED  BY <3>1, <3>3, LastOf
    <2>4. PICK a \in S : x = NextRow(a)
      BY <2>3
    <2>5. PICK b \in S : WaitsFor(a, b)
      BY <2>1
    <2>6. Before(NextRow(a), NextRow(b))
      BY <2>1, <2>2, <2>5, WaitsAreOrdered
    <2>. QED  BY <2>3, <2>4, <2>6
  <1>2. Spec => []LocksInv
    BY InitLocksInv, StepLocksInv, PTL DEF Spec
  <1>. QED  BY <1>1, <1>2, PTL

-----------------------------------------------------------------------------
(***************************************************************************)
(* The balance is what is owed less the credit left.                       *)
(*                                                                         *)
(* Settles says how what a request takes and the amount it posts belong    *)
(* together.  For one step there are then four things to know: what it     *)
(* does to the balance, to what every invoice owes, to what is left of     *)
(* every credit, and to what was reversed by hand.                         *)
(***************************************************************************)
Settles(q) ==
    /\ q.op = "issue" /\ doc[q.row].status = "DRAFT"
          => q.take = [x \in Rows |-> IF x = doc[q.row].against THEN q.amount ELSE 0]
    /\ q.op = "pay" => q.take = [x \in Rows |-> IF x = q.row THEN q.amount ELSE 0]
    /\ q.op \in {"pay", "receive", "apply", "refund"}
          => q.amount > 0 /\ side = IF q.op = "pay" THEN "AP" ELSE "AR"
    /\ q.op \in {"apply", "refund"} => q.amount = SumFunction(q.take)

(* A document is about something, and a debit note about a bill. *)
DocsStand ==
    \A d \in Docs : doc[d].status \notin {"NONE", "DELETED"} =>
        doc[d].total > 0 /\ (side = "AP" /\ d \in Notes => doc[d].against # 0)

SettlesInv ==
    /\ LocksInv
    /\ DocsStand
    /\ \A r \in Requests : Settles(req[r])

LEMMA SettlesKept ==
  ASSUME IInv, Steady, [Next]_vars, NEW r \in Requests, Settles(req[r]), Kept(r, req'[r])
  PROVE  Settles(req[r])'
  <1>. DEFINE q == req[r]  new == req'[r]
  <1>1. /\ Knows(q) /\ new.op = q.op /\ new.row = q.row /\ new.take = q.take
        /\ new.amount = q.amount /\ side' = side
    BY DEF IInv, RequestsWF, Kept, Steady
  <1>2. ASSUME new.op = "issue", doc'[new.row].status = "DRAFT"
        PROVE  new.take = [x \in Rows |-> IF x = doc'[new.row].against THEN new.amount ELSE 0]
    <2>1. q.row \in Docs /\ doc[q.row].status = "DRAFT"
      BY <1>1, <1>2 DEF Knows, Steady
    <2>2. doc'[q.row].against = doc[q.row].against
      BY <1>1, <1>2, <2>1, DocMoves, MoveFields DEF IInv
    <2>. QED  BY <1>1, <1>2, <2>1, <2>2 DEF Settles
  <1>. HIDE DEF q, new
  <1>3. req'[r] = new /\ Settles(q)
    BY DEF q, new
  <1>. QED  BY <1>1, <1>2, <1>3 DEF Settles

LEMMA SettlesNothing ==
  ASSUME NEW r \in Requests, req'[r].op \in {"none", "save", "cancel", "reverse", "remove"}
  PROVE  Settles(req[r])'
  BY DEF Settles

LEMMA BeginsSettling ==
  ASSUME IInv, NEW r \in Requests, Preparing(r)
  PROVE  Settles(req[r])'
  <1>0. TypeOK /\ \A n \in Amounts : n \in Nat /\ n > 0
    BY ReceivablesAssumption DEF IInv
  <1>1. ASSUME NEW rec, Begin(r, rec) PROVE req'[r] = rec /\ doc' = doc /\ side' = side
    BY <1>0, <1>1 DEF Begin, TypeOK, tables
  <1>2. ASSUME NEW d \in Docs, PrepareIssue(r, d) PROVE Settles(req[r])'
    <2>. DEFINE beyond == LimitApplies(d) /\ control + doc[d].total > CreditLimit
                take == [x \in Rows |-> IF x = doc[d].against THEN doc[d].total ELSE 0]
                rec == [Idle EXCEPT !.op = "issue", !.row = d, !.amount = doc[d].total,
                            !.take = take, !.overridden = beyond, !.saving = req[r].saving]
    <2>1. Begin(r, rec) /\ rec.op = "issue" /\ rec.row = d /\ rec.take = take
          /\ rec.amount = doc[d].total
      BY <1>2 DEF PrepareIssue, Idle
    <2>2. rec.take = [x \in Rows |-> IF x = doc[rec.row].against THEN rec.amount ELSE 0]
      BY <2>1
    <2>. HIDE DEF take, rec
    <2>3. req'[r] = rec /\ doc' = doc /\ side' = side
      BY <1>1, <2>1
    <2>. QED  BY <2>1, <2>2, <2>3 DEF Settles
  <1>3. ASSUME NEW d \in Docs, PrepareCancel(r, d) PROVE Settles(req[r])'
    <2>. DEFINE rec == [Idle EXCEPT !.op = "cancel", !.row = d]
    <2>1. Begin(r, rec)
      BY <1>3 DEF PrepareCancel
    <2>2. rec.op = "cancel"
      BY DEF Idle
    <2>. HIDE DEF rec
    <2>. QED  BY <1>1, <2>1, <2>2, SettlesNothing
  <1>4. ASSUME NEW x \in Rows, PrepareReverse(r, x) PROVE Settles(req[r])'
    <2>. DEFINE rec == [Idle EXCEPT !.op = "reverse", !.row = x]
    <2>1. Begin(r, rec)
      BY <1>4 DEF PrepareReverse
    <2>2. rec.op = "reverse"
      BY DEF Idle
    <2>. HIDE DEF rec
    <2>. QED  BY <1>1, <2>1, <2>2, SettlesNothing
  <1>5. ASSUME NEW d \in Mains, NEW n \in Amounts, PreparePay(r, d, n) PROVE Settles(req[r])'
    <2>. DEFINE rec == [Idle EXCEPT !.op = "pay", !.row = d, !.amount = n, !.take[d] = n]
    <2>1. Begin(r, rec) /\ side = "AP"
      BY <1>5 DEF PreparePay
    <2>2. rec.op = "pay" /\ rec.row = d /\ rec.amount = n /\ rec.take = [TakeNothing EXCEPT ![d] = n]
      BY DEF Idle
    <2>3. [TakeNothing EXCEPT ![d] = n] = [x \in Rows |-> IF x = d THEN n ELSE 0]
      BY RowSets DEF TakeNothing
    <2>. HIDE DEF rec
    <2>4. req'[r] = rec /\ doc' = doc /\ side' = side
      BY <1>1, <2>1
    <2>. QED  BY <1>0, <2>1, <2>2, <2>3, <2>4 DEF Settles
  <1>6. ASSUME NEW n \in Amounts, NEW take \in Plans(Mains), PrepareReceive(r, n, take)
        PROVE  Settles(req[r])'
    <2>. DEFINE rec == [Idle EXCEPT !.op = "receive", !.amount = n, !.take = take]
    <2>1. Begin(r, rec) /\ side = "AR" /\ rec.op = "receive" /\ rec.amount = n
      BY <1>6 DEF PrepareReceive, Idle
    <2>. HIDE DEF rec
    <2>2. req'[r] = rec /\ doc' = doc /\ side' = side
      BY <1>1, <2>1
    <2>. QED  BY <1>0, <2>1, <2>2 DEF Settles
  <1>7. ASSUME NEW take, NEW rec, Begin(r, rec), side = "AR", rec.op \in {"apply", "refund"},
               rec.amount = SumFunction(take), rec.take = take, SumFunction(take) > 0
        PROVE  Settles(req[r])'
    <2>1. req'[r] = rec /\ doc' = doc /\ side' = side
      BY <1>1, <1>7
    <2>. QED  BY <1>7, <2>1 DEF Settles
  <1>8. ASSUME NEW d \in Mains, NEW take \in Plans(Sources), PrepareApply(r, d, take)
        PROVE  Settles(req[r])'
    <2>. DEFINE rec == [Idle EXCEPT !.op = "apply", !.row = d,
                                    !.amount = SumFunction(take), !.take = take]
    <2>1. /\ Begin(r, rec) /\ rec.op = "apply" /\ rec.take = take
          /\ rec.amount = SumFunction(take) /\ side = "AR"
          /\ SumFunction(take) \in 1 .. Left(d)
      BY <1>8 DEF PrepareApply, Idle
    <2>2. SumFunction(take) > 0
      <3>1. Left(d) \in Int
        BY <1>0, RowSets, LeftIs, DocType
      <3>. QED  BY <2>1, <3>1
    <2>. HIDE DEF rec
    <2>. QED  BY <1>7, <2>1, <2>2
  <1>9. ASSUME NEW take \in Plans(Sources), PrepareRefund(r, take) PROVE Settles(req[r])'
    <2>. DEFINE rec == [Idle EXCEPT !.op = "refund", !.amount = SumFunction(take), !.take = take]
    <2>1. /\ Begin(r, rec) /\ rec.op = "refund" /\ rec.take = take
          /\ rec.amount = SumFunction(take) /\ side = "AR" /\ SumFunction(take) \in Nat \ {0}
      BY <1>9 DEF PrepareRefund, Idle
    <2>2. SumFunction(take) > 0
      BY <2>1
    <2>. HIDE DEF rec
    <2>. QED  BY <1>7, <2>1, <2>2
  <1>. QED
    BY <1>2, <1>3, <1>4, <1>5, <1>6, <1>8, <1>9 DEF Preparing

LEMMA DocsStandStep ==
  ASSUME IInv, DocsStand, [Next]_vars
  PROVE  DocsStand'
  <1>. DEFINE Stands(row, d) == row.status \notin {"NONE", "DELETED"} =>
                  row.total > 0 /\ (side = "AP" /\ d \in Notes => row.against # 0)
  <1>0. TypeOK /\ doc' \in [Docs -> Document] /\ side' = side /\ \A n \in Amounts : n > 0
    BY DocMoves, ReceivablesAssumption DEF IInv
  <1>1. \A d \in Docs : Stands(doc[d], d)
    BY DEF DocsStand
  <1>2. ASSUME NEW e \in Docs, NEW n \in Amounts, NEW o \in Mains \cup {0},
               MayCreate(e, n, o), NewDraft(e, n, o), NEW d \in Docs
        PROVE  Stands(doc'[d], d)
    <2>1. doc' = [doc EXCEPT ![e] = [status |-> "DRAFT", total |-> n, paid |-> 0, against |-> o]]
      BY <1>2 DEF NewDraft
    <2>2. d # e => doc'[d] = doc[d]
      BY <1>0, <2>1 DEF TypeOK
    <2>3. d = e => doc'[d] = [status |-> "DRAFT", total |-> n, paid |-> 0, against |-> o]
      BY <1>0, <2>1 DEF TypeOK
    <2>. QED  BY <1>0, <1>1, <1>2, <2>2, <2>3 DEF MayCreate
  <1>3. ASSUME Drafting, NEW d \in Docs
        PROVE  Stands(doc'[d], d)
    <2>1. CASE \E e \in Docs, n \in Amounts : \E o \in Mains \cup {0} : Create(e, n, o)
      BY <1>2, <2>1 DEF Create
    <2>2. CASE \E r \in Requests, e \in Docs, n \in Amounts : Save(r, e, n)
      BY <1>2, <2>2 DEF Save
    <2>3. ASSUME NEW e \in Docs, NEW n \in Amounts, Update(e, n) PROVE Stands(doc'[d], d)
      <3>1. doc' = [doc EXCEPT ![e].total = n] /\ doc[e].status = "DRAFT"
        BY <2>3 DEF Update
      <3>2. d # e => doc'[d] = doc[d]
        BY <1>0, <3>1 DEF TypeOK
      <3>3. d = e => /\ doc'[d].status = "DRAFT" /\ doc'[d].total = n
                     /\ doc'[d].against = doc[d].against
        BY <1>0, <3>1, DocType DEF TypeOK, Document
      <3>. QED  BY <1>0, <1>1, <3>1, <3>2, <3>3
    <2>4. ASSUME doc'[d] = doc[d] \/ doc'[d] = Deleted PROVE Stands(doc'[d], d)
      BY <1>1, <2>4, DeletedType
    <2>5. CASE \E e \in Docs : Remove(e)
      BY <1>0, <2>4, <2>5 DEF Remove, TypeOK
    <2>6. CASE \E r \in Requests : RemoveSaved(r)
      BY <1>0, <2>4, <2>6 DEF RemoveSaved, TypeOK
    <2>. QED  BY <1>3, <2>1, <2>2, <2>3, <2>5, <2>6 DEF Drafting
  <1>4. ASSUME NEW d \in Docs, CommitMove(d)
        PROVE  Stands(doc'[d], d)
    <2>1. doc[d] \in Document
      BY <1>0, DocType
    <2>2. /\ doc'[d].total = doc[d].total /\ doc'[d].against = doc[d].against
          /\ doc[d].status \in {"NONE", "DELETED"} => doc'[d] = doc[d]
      BY <1>4, <2>1 DEF CommitMove, MoneyMove, IssuedNow, CancelledNow, Taken, Used, Allocated,
                        Document, Open
    <2>. QED  BY <1>1, <2>2
  <1>5. ASSUME NEW r \in Requests, Committing(r), NEW d \in Docs PROVE Stands(doc'[d], d)
    BY <1>4, <1>5, CommitMoves
  <1>6. ASSUME doc' = doc, NEW d \in Docs PROVE Stands(doc'[d], d)
    BY <1>1, <1>6
  <1>7. UNCHANGED vars => doc' = doc
    BY DEF vars
  <1>8. \A r \in Requests : Preparing(r) \/ Waiting(r) => doc' = doc
    BY QuietMoves
  <1>. HIDE DEF Stands
  <1>9. \A d \in Docs : Stands(doc'[d], d)
    BY <1>3, <1>5, <1>6, <1>7, <1>8, NextIs
  <1>. QED  BY <1>0, <1>9 DEF DocsStand, Stands

LEMMA InitSettlesInv == Init => SettlesInv
  <1>. SUFFICES ASSUME Init PROVE SettlesInv
    OBVIOUS
  <1>1. \A r \in Requests : Settles(req[r])
    BY DEF Init, Settles, Idle
  <1>2. DocsStand
    BY DEF Init, DocsStand, NoDoc
  <1>. QED  BY <1>1, <1>2, InitLocksInv DEF SettlesInv

LEMMA StepSettlesInv == SettlesInv /\ [Next]_vars => SettlesInv'
  <1>. SUFFICES ASSUME SettlesInv, [Next]_vars PROVE SettlesInv'
    OBVIOUS
  <1>0. /\ LocksInv /\ IInv /\ TypeOK /\ Steady /\ DocsStand /\ \A q \in Requests : Settles(req[q])
    BY IsSteady DEF SettlesInv, LocksInv, IInv
  <1>1. ASSUME NEW q \in Requests, Kept(q, req'[q]) PROVE Settles(req[q])'
    BY <1>0, <1>1, SettlesKept
  <1>2. ASSUME Drafting, NEW q \in Requests PROVE Settles(req[q])'
    <2>1. Kept(q, req'[q]) \/ Fresh(req'[q])
      BY <1>0, <1>2, DraftRequests
    <2>2. Fresh(req'[q]) => req'[q].op \in {"none", "save", "remove"}
      BY DEF Fresh, Idle
    <2>. QED  BY <1>1, <2>1, <2>2, SettlesNothing
  <1>3. ASSUME NEW r \in Requests, Preparing(r), NEW q \in Requests PROVE Settles(req[q])'
    <2>1. req' = [req EXCEPT ![r] = req'[r]]
      BY <1>0, <1>3, BeginsTaking
    <2>2. q # r => req'[q] = req[q]
      BY <1>0, <2>1 DEF TypeOK
    <2>. QED  BY <1>0, <1>1, <1>3, <2>2, KeptSame, BeginsSettling
  <1>4. ASSUME NEW r \in Requests, Waiting(r), NEW q \in Requests PROVE Settles(req[q])'
    <2>. DEFINE removing == [Idle EXCEPT !.op = "remove", !.row = req[r].row]
    <2>1. req' = req \/ req' = [req EXCEPT ![r] = Idle] \/ req' = [req EXCEPT ![r] = removing]
      BY <1>4 DEF Waiting, Lock, Fail, Die
    <2>2. Idle.op = "none" /\ removing.op = "remove"
      BY DEF Idle
    <2>. HIDE DEF removing
    <2>3. req'[q] = req[q] \/ req'[q] = Idle \/ req'[q] = removing
      BY <1>0, <2>1 DEF TypeOK
    <2>. QED  BY <1>0, <1>1, <2>2, <2>3, KeptSame, SettlesNothing
  <1>5. ASSUME NEW r \in Requests, Committing(r), NEW q \in Requests PROVE Settles(req[q])'
    <2>1. Kept(q, req'[q]) \/ req'[q] = Idle
      BY <1>0, <1>5, CommitsTell, CommitRequests
    <2>. QED  BY <1>1, <2>1, SettlesNothing DEF Idle
  <1>6. ASSUME UNCHANGED vars, NEW q \in Requests PROVE Settles(req[q])'
    BY <1>0, <1>1, <1>6, KeptSame DEF vars
  <1>7. \A q \in Requests : Settles(req[q])'
    BY <1>2, <1>3, <1>4, <1>5, <1>6, NextIs
  <1>. QED  BY <1>0, <1>7, StepLocksInv, DocsStandStep DEF SettlesInv

-----------------------------------------------------------------------------
(* What a step takes from what is owed, from the credits and the balance.  *)

Hand(x) == byHand[x] * JournalAmount(x)
Dues == [d \in Mains |-> BalanceDue(d)]
Lefts == [x \in Sources |-> Left(x)]
Hands == [x \in Rows |-> Hand(x)]

Takes(due, left, n) ==
    /\ \A d \in Mains : BalanceDue(d)' = BalanceDue(d) - due[d]
    /\ \A x \in Sources : Left(x)' = Left(x) - left[x]
    /\ control' = control - n

(* What is owed on an invoice and left of a credit, read off its row. *)
DueOf(row) == IF row.status \in Open \cup {"PAID"} THEN row.total - row.paid ELSE 0
CreditOf(row) == IF side = "AR" /\ row.status = "ISSUED" THEN row.total - row.paid ELSE 0

LEMMA OpensAre ==
  /\ \A d \in Mains : BalanceDue(d) = DueOf(doc[d]) /\ BalanceDue(d)' = DueOf(doc'[d])
  /\ \A x \in Notes : /\ Left(x) = CreditOf(doc[x])
                      /\ side' = side => Left(x)' = CreditOf(doc'[x])
  /\ \A p \in Receipts : Left(p) = receipt[p].unapplied /\ Left(p)' = receipt'[p].unapplied
  <1>1. ASSUME NEW d \in Mains
        PROVE  BalanceDue(d) = DueOf(doc[d]) /\ BalanceDue(d)' = DueOf(doc'[d])
    BY DEF BalanceDue, DueOf
  <1>2. ASSUME NEW x \in Notes
        PROVE  Left(x) = CreditOf(doc[x]) /\ (side' = side => Left(x)' = CreditOf(doc'[x]))
    BY LeftIs, NextNoteLeft, RowSets DEF CreditOf
  <1>3. ASSUME NEW p \in Receipts
        PROVE  Left(p) = receipt[p].unapplied /\ Left(p)' = receipt'[p].unapplied
    <2>1. p \notin Mains /\ p \notin Notes
      BY RowSets
    <2>. QED  BY <2>1 DEF Left
  <1>. QED  BY <1>1, <1>2, <1>3

LEMMA RowDues ==
  ASSUME NEW row \in Document, row.paid <= row.total
  PROVE  DueOf(row) \in Nat /\ CreditOf(row) \in Nat
  <1>1. row.total \in Nat /\ row.paid \in Nat
    BY DEF Document
  <1>2. row.total - row.paid \in Nat
    BY <1>1
  <1>. QED  BY <1>2 DEF DueOf, CreditOf

OpensTyped ==
    /\ Dues \in [Mains -> Nat] /\ Lefts \in [Sources -> Nat] /\ Hands \in [Rows -> Int]
    /\ \A d \in Mains : Dues[d] = BalanceDue(d)
    /\ \A x \in Sources : Lefts[x] = Left(x)
    /\ \A x \in Rows : Hands[x] = Hand(x)

LEMMA OpensType == IInv => OpensTyped
  <1>. SUFFICES ASSUME IInv PROVE OpensTyped
    OBVIOUS
  <1>0. TypeOK
    BY DEF IInv
  <1>1. \A d \in Docs : DueOf(doc[d]) \in Nat /\ CreditOf(doc[d]) \in Nat
    BY <1>0, DocType, RowDues DEF IInv, AmountsInRange
  <1>2. \A d \in Mains : BalanceDue(d) \in Nat
    BY <1>1, OpensAre, RowSets
  <1>3. \A x \in Sources : Left(x) \in Nat
    BY <1>0, <1>1, OpensAre, ReceiptType, RowSets DEF Sources
  <1>4. \A x \in Rows : Hand(x) \in Int
    BY <1>0, JournalAmountIs DEF Hand, TypeOK
  <1>. QED  BY <1>2, <1>3, <1>4 DEF Dues, Lefts, Hands, OpensTyped

LEMMA OpensTypeNext == IInv /\ [Next]_vars => OpensTyped'
  BY StepIInv, OpensType, PTL

(* What a plan takes from a document is what it owes or leaves less. *)
LEMMA RowTakes ==
  ASSUME NEW row \in Document, row.paid <= row.total, NEW n \in Nat
  PROVE  /\ n <= (IF row.status \in Open THEN DueOf(row) ELSE 0)
                => DueOf(Allocated(row, n)) = DueOf(row) - n
         /\ n <= CreditOf(row) => CreditOf([row EXCEPT !.paid = @ + n]) = CreditOf(row) - n
  <1>1. row.total \in Nat /\ row.paid \in Nat
    BY DEF Document
  <1>2. ASSUME n <= (IF row.status \in Open THEN DueOf(row) ELSE 0), n # 0
        PROVE  DueOf(Allocated(row, n)) = DueOf(row) - n
    <2>1. row.status \in Open
      BY <1>2
    <2>2. DueOf(row) = row.total - row.paid
      BY <2>1 DEF DueOf
    <2>3. /\ Allocated(row, n).status \in {"PAID", "PART_PAID"}
          /\ Allocated(row, n).total = row.total /\ Allocated(row, n).paid = row.paid + n
      BY <1>2 DEF Allocated, Document
    <2>. QED  BY <1>1, <2>2, <2>3 DEF DueOf, Open
  <1>3. n = 0 => Allocated(row, n) = row /\ DueOf(row) - n = DueOf(row)
    BY <1>1 DEF Allocated, DueOf
  <1>4. ASSUME n <= CreditOf(row)
        PROVE  CreditOf([row EXCEPT !.paid = @ + n]) = CreditOf(row) - n
    <2>1. /\ [row EXCEPT !.paid = @ + n].status = row.status
          /\ [row EXCEPT !.paid = @ + n].total = row.total
          /\ [row EXCEPT !.paid = @ + n].paid = row.paid + n
      BY DEF Document
    <2>. QED  BY <1>1, <1>4, <2>1 DEF CreditOf
  <1>. QED  BY <1>2, <1>3, <1>4

LEMMA TakingOpens ==
  ASSUME IInv, NEW take \in [Rows -> Nat], Fits(take)
  PROVE  /\ \A d \in Mains : DueOf(AfterTaking(take)[d]) = BalanceDue(d) - take[d]
         /\ \A x \in Notes : CreditOf(AfterTaking(take)[x]) = Left(x) - take[x]
  <1>0. TypeOK /\ \A d \in Docs : doc[d] \in Document /\ doc[d].paid <= doc[d].total
    BY DocType DEF IInv, AmountsInRange
  <1>1. ASSUME NEW d \in Mains
        PROVE  DueOf(AfterTaking(take)[d]) = BalanceDue(d) - take[d]
    <2>1. d \in Docs /\ d \in Rows /\ take[d] \in Nat /\ take[d] <= Left(d)
      BY RowSets DEF Fits
    <2>2. AfterTaking(take)[d] = Allocated(doc[d], take[d])
      BY <2>1 DEF AfterTaking
    <2>3. Left(d) = IF doc[d].status \in Open THEN DueOf(doc[d]) ELSE 0
      BY <2>1, LeftIs DEF DueOf
    <2>. QED  BY <1>0, <2>1, <2>2, <2>3, RowTakes, OpensAre
  <1>2. ASSUME NEW x \in Notes
        PROVE  CreditOf(AfterTaking(take)[x]) = Left(x) - take[x]
    <2>1. x \in Docs /\ x \notin Mains /\ take[x] \in Nat /\ take[x] <= Left(x)
      BY RowSets DEF Fits
    <2>2. AfterTaking(take)[x] = [doc[x] EXCEPT !.paid = @ + take[x]]
      BY <2>1 DEF AfterTaking
    <2>. QED  BY <1>0, <2>1, <2>2, RowTakes, OpensAre
  <1>. QED  BY <1>1, <1>2

(* Steps that leave the money alone. *)
LEMMA NothingTaken ==
  ASSUME IInv, UNCHANGED <<side, receipt, control>>,
         \A d \in Docs : doc'[d] = doc[d]
                         \/ (doc[d].status \in {"NONE", "DRAFT"} /\ doc'[d].status \in {"DRAFT", "DELETED"})
  PROVE  Takes(Zeros(Mains), Zeros(Sources), 0)
  <1>1. ASSUME NEW d \in Docs
        PROVE  DueOf(doc'[d]) = DueOf(doc[d]) /\ CreditOf(doc'[d]) = CreditOf(doc[d])
    BY DEF DueOf, CreditOf, Open
  <1>2. OpensTyped /\ control \in Int
    BY OpensType DEF IInv, TypeOK
  <1>3. ASSUME NEW d \in Mains PROVE BalanceDue(d)' = BalanceDue(d) - Zeros(Mains)[d]
    <2>1. BalanceDue(d)' = BalanceDue(d) /\ BalanceDue(d) \in Nat
      BY <1>1, <1>2, OpensAre, RowSets DEF OpensTyped
    <2>. QED  BY <2>1 DEF Zeros
  <1>4. ASSUME NEW x \in Sources PROVE Left(x)' = Left(x) - Zeros(Sources)[x]
    <2>1. Left(x)' = Left(x) /\ Left(x) \in Nat
      BY <1>1, <1>2, OpensAre, RowSets DEF OpensTyped, Sources
    <2>. QED  BY <2>1 DEF Zeros
  <1>5. control' = control - 0
    BY <1>2
  <1>. QED  BY <1>3, <1>4, <1>5 DEF Takes

LEMMA QuietTakesNothing ==
  ASSUME IInv, [Next]_vars, ~\E r \in Requests : Committing(r)
  PROVE  Takes(Zeros(Mains), Zeros(Sources), 0) /\ byHand' = byHand
  <1>0. TypeOK
    BY DEF IInv
  <1>1. CASE Drafting
    <2>1. /\ doc' \in [Docs -> Document] /\ \A d \in Docs : DraftMove(d, doc'[d])
          /\ UNCHANGED <<side, receipt, posted, control, byHand, holder>>
      BY <1>0, <1>1, DraftMoves
    <2>2. ASSUME NEW d \in Docs
          PROVE  doc'[d] = doc[d] \/ (/\ doc[d].status \in {"NONE", "DRAFT"}
                                     /\ doc'[d].status \in {"DRAFT", "DELETED"})
      <3>1. doc[d] \in Document
        BY <1>0, DocType
      <3>. QED  BY <2>1, <3>1, DeletedType DEF DraftMove, Born, Edited, Removed, Document
    <2>. QED  BY <2>1, <2>2, NothingTaken
  <1>2. ASSUME NEW r \in Requests, Preparing(r) \/ Waiting(r)
        PROVE  Takes(Zeros(Mains), Zeros(Sources), 0) /\ byHand' = byHand
    BY <1>2, QuietMoves, NothingTaken
  <1>3. CASE UNCHANGED vars
    BY <1>3, NothingTaken DEF vars
  <1>. QED  BY <1>1, <1>2, <1>3, NextIs

LEMMA ReverseTakes ==
  ASSUME IInv, NEW r \in Requests, CommitReverse(r)
  PROVE  /\ req[r].row \in Rows
         /\ Takes(Zeros(Mains), Zeros(Sources), JournalAmount(req[r].row))
         /\ byHand' = [byHand EXCEPT ![req[r].row] = @ + 1]
         /\ UNCHANGED <<doc, receipt>>
  <1>1. /\ UNCHANGED <<side, doc, receipt>> /\ control' = control - JournalAmount(req[r].row)
        /\ req[r].op = "reverse" /\ byHand' = [byHand EXCEPT ![req[r].row] = @ + 1]
    BY DEF CommitReverse, Ready, Commit
  <1>2. \A d \in Mains : BalanceDue(d)' = BalanceDue(d)
    BY <1>1 DEF BalanceDue
  <1>3. \A x \in Sources : Left(x)' = Left(x)
    BY <1>1, OpensAre DEF Sources
  <1>4. \A d \in Mains : BalanceDue(d)' = BalanceDue(d) - Zeros(Mains)[d]
    BY <1>2, OpensType DEF OpensTyped, Zeros
  <1>5. \A x \in Sources : Left(x)' = Left(x) - Zeros(Sources)[x]
    BY <1>3, OpensType DEF OpensTyped, Zeros
  <1>6. req[r].row \in Rows
    BY <1>1 DEF IInv, RequestsWF, Knows
  <1>. QED  BY <1>1, <1>4, <1>5, <1>6 DEF Takes

(* An issue owes its total, or takes it from what is owed, or leaves it. *)
LEMMA IssueTakes ==
  ASSUME SettlesInv, NEW r \in Requests, CommitIssue(r),
         NEW d, d = req[r].row, NEW n, n = req[r].amount, NEW o, o = doc[d].against
  PROVE  /\ d \in Docs /\ n \in Nat /\ n > 0 /\ doc[d].status = "DRAFT" /\ o \in Mains \cup {0}
         /\ doc[d].total = n /\ doc'[d].total = n /\ doc'[d].status = "ISSUED"
         /\ d \in Mains => Takes(Only(Mains, d, 0 - n), Zeros(Sources), 0 - n)
         /\ d \in Notes => Takes(Only(Mains, o, n), Only(Sources, d, IF o = 0 THEN 0 - n ELSE 0), n)
         /\ d \in Notes /\ o # 0 => n <= BalanceDue(o)
  <1>. DEFINE take == req[r].take
              used == IF side = "AR" /\ o # 0 THEN doc[d].total ELSE 0
  <1>0. /\ IInv /\ TypeOK /\ Settles(req[r]) /\ Knows(req[r]) /\ take \in [Rows -> Nat]
        /\ DocsStand /\ control \in Int /\ OpensTyped
    BY ReqType, OpensType DEF SettlesInv, LocksInv, IInv, RequestsWF, TypeOK
  <1>1. req[r].op = "issue" /\ Fits(take) /\ OwnRowStands(r)
    BY DEF CommitIssue, Ready
  <1>2. /\ d \in Docs /\ doc[d].status = "DRAFT" /\ req[r].unchanged
        /\ n = doc[d].total /\ n \in Nat /\ n > 0 /\ o \in Mains \cup {0}
        /\ take = [x \in Rows |-> IF x = o THEN n ELSE 0]
    <2>1. d \in Docs /\ doc[d].status = "DRAFT" /\ req[r].unchanged
      BY <1>0, <1>1 DEF OwnRowStands, Knows
    <2>2. n = doc[d].total /\ take = [x \in Rows |-> IF x = o THEN n ELSE 0]
      BY <1>0, <1>1, <2>1 DEF Knows, Settles
    <2>. QED  BY <1>0, <2>1, <2>2, DocType DEF DocsStand
  <1>3. /\ doc' = [AfterTaking(take) EXCEPT ![d].status = "ISSUED", ![d].paid = used]
        /\ receipt' = receipt /\ side' = side
        /\ control' = control + (IF d \in Mains THEN n ELSE 0 - n)
    BY DEF CommitIssue, Commit
  <1>4. IssuedNow(d, doc'[d])
    BY <1>0, IssueMoves
  <1>5. AfterTaking(take) \in [Docs -> Document]
    BY <1>0, <1>1, AfterTakingMoves DEF IInv
  <1>6. \A e \in Docs : e # d => doc'[e] = AfterTaking(take)[e]
    BY <1>3, <1>5
  <1>7. doc[d] \in Document /\ doc[d].paid = 0
    <2>1. Tells(d)
      BY <1>0, <1>2 DEF IInv, StatusTellsPaid, Tells
    <2>. QED  BY <1>0, <1>2, <2>1, DocType, TellsIs
  <1>8. doc'[d] = [doc[d] EXCEPT !.status = "ISSUED", !.paid = used]
    BY <1>4 DEF IssuedNow
  <1>9. doc'[d].total = n /\ doc'[d].status = "ISSUED" /\ doc'[d].paid = used
    BY <1>2, <1>7, <1>8 DEF Document
  <1>. HIDE DEF take, used
  <1>10. /\ \A e \in Mains : e # d => BalanceDue(e)' = BalanceDue(e) - take[e]
         /\ \A x \in Notes : x # d => Left(x)' = Left(x) - take[x]
         /\ \A p \in Receipts : Left(p)' = Left(p)
    <2>1. \A e \in Mains : e # d => BalanceDue(e)' = DueOf(AfterTaking(take)[e])
      BY <1>6, OpensAre, RowSets
    <2>2. \A x \in Notes : x # d => Left(x)' = CreditOf(AfterTaking(take)[x])
      BY <1>3, <1>6, OpensAre, RowSets
    <2>3. \A p \in Receipts : Left(p)' = Left(p)
      BY <1>3, OpensAre
    <2>. QED  BY <1>0, <1>1, <2>1, <2>2, <2>3, TakingOpens
  <1>11. CASE d \in Mains
    <2>1. o = 0 /\ used = 0 /\ \A x \in Rows : take[x] = 0
      <3>1. o = 0
        BY <1>0, <1>2, <1>11 DEF IInv, DocsWF
      <3>. QED  BY <1>2, <3>1, RowSets DEF used
    <2>2. BalanceDue(d) = 0 /\ BalanceDue(d)' = n
      <3>1. DueOf(doc[d]) = 0
        BY <1>2 DEF DueOf, Open
      <3>2. DueOf(doc'[d]) = n
        BY <1>2, <1>9, <2>1 DEF DueOf, Open
      <3>. QED  BY <1>11, <3>1, <3>2, OpensAre
    <2>3. \A e \in Mains : BalanceDue(e)' = BalanceDue(e) - Only(Mains, d, 0 - n)[e]
      <3>1. ASSUME NEW e \in Mains PROVE BalanceDue(e)' = BalanceDue(e) - Only(Mains, d, 0 - n)[e]
        <4>1. CASE e = d
          BY <1>2, <2>2, <4>1 DEF Only
        <4>2. CASE e # d
          <5>1. take[e] = 0 /\ Only(Mains, d, 0 - n)[e] = 0
            BY <2>1, <4>2, RowSets DEF Only
          <5>. QED  BY <1>10, <4>2, <5>1
        <4>. QED  BY <4>1, <4>2
      <3>. QED  BY <3>1
    <2>4. \A x \in Sources : Left(x)' = Left(x) - Zeros(Sources)[x]
      <3>1. ASSUME NEW x \in Sources PROVE Left(x)' = Left(x) - Zeros(Sources)[x]
        <4>1. Zeros(Sources)[x] = 0 /\ Left(x) \in Nat /\ x # d
          BY <1>0, <1>11, RowSets DEF Zeros, OpensTyped, Sources
        <4>2. x \in Notes => take[x] = 0
          BY <2>1, RowSets
        <4>. QED  BY <1>10, <4>1, <4>2 DEF Sources
      <3>. QED  BY <3>1
    <2>5. control' = control - (0 - n)
      <3>1. control' = control + n
        BY <1>3, <1>11
      <3>. QED  BY <1>0, <1>2, <3>1
    <2>6. Takes(Only(Mains, d, 0 - n), Zeros(Sources), 0 - n)
      BY <2>3, <2>4, <2>5 DEF Takes
    <2>7. d \notin Notes
      BY <1>11, RowSets
    <2>. QED  BY <1>2, <1>9, <2>6, <2>7
  <1>12. CASE d \in Notes
    <2>0. d \notin Mains /\ d \in Sources
      BY <1>12, RowSets DEF Sources
    <2>1. Left(d) = 0 /\ Left(d)' = IF o = 0 THEN n ELSE 0
      <3>1. CreditOf(doc[d]) = 0
        BY <1>2 DEF CreditOf
      <3>2. CreditOf(doc'[d]) = IF side = "AR" THEN n - used ELSE 0
        BY <1>9 DEF CreditOf
      <3>3. (side = "AR" => n - used = IF o = 0 THEN n ELSE 0) /\ (side # "AR" => o # 0)
        <4>1. used = IF side = "AR" /\ o # 0 THEN n ELSE 0
          BY <1>2 DEF used
        <4>2. side # "AR" => o # 0
          BY <1>0, <1>2, <1>12 DEF DocsStand, TypeOK
        <4>3. n - n = 0 /\ n - 0 = n
          BY <1>2
        <4>. QED  BY <4>1, <4>2, <4>3
      <3>. QED  BY <1>3, <1>12, <3>1, <3>2, <3>3, OpensAre
    <2>2. \A e \in Mains : BalanceDue(e)' = BalanceDue(e) - Only(Mains, o, n)[e]
      <3>1. ASSUME NEW e \in Mains PROVE BalanceDue(e)' = BalanceDue(e) - Only(Mains, o, n)[e]
        <4>1. take[e] = Only(Mains, o, n)[e]
          BY <1>2, RowSets DEF Only
        <4>. QED  BY <1>10, <2>0, <4>1
      <3>. QED  BY <3>1
    <2>3. ASSUME NEW x \in Sources
          PROVE  Left(x)' = Left(x) - Only(Sources, d, IF o = 0 THEN 0 - n ELSE 0)[x]
      <3>1. CASE x = d
        <4>1. Only(Sources, d, IF o = 0 THEN 0 - n ELSE 0)[x] = IF o = 0 THEN 0 - n ELSE 0
          BY <3>1 DEF Only
        <4>. QED  BY <1>2, <2>1, <3>1, <4>1
      <3>2. CASE x # d
        <4>1. Only(Sources, d, IF o = 0 THEN 0 - n ELSE 0)[x] = 0
          BY <3>2 DEF Only
        <4>2. x \in Notes => take[x] = 0
          <5>1. \A y \in Notes : y \in Rows /\ y \notin Mains /\ y # 0
            BY RowSets
          <5>. QED  BY <1>2, <5>1
        <4>3. Left(x) \in Nat
          BY <1>0 DEF OpensTyped
        <4>. QED  BY <1>10, <3>2, <4>1, <4>2, <4>3 DEF Sources
      <3>. QED  BY <3>1, <3>2
    <2>4. control' = control - n
      <3>1. control' = control + (0 - n)
        BY <1>3, <2>0
      <3>. QED  BY <1>0, <1>2, <3>1
    <2>5. Takes(Only(Mains, o, n), Only(Sources, d, IF o = 0 THEN 0 - n ELSE 0), n)
      BY <2>2, <2>3, <2>4 DEF Takes
    <2>6. o # 0 => n <= BalanceDue(o)
      <3>1. ASSUME o # 0 PROVE n <= BalanceDue(o)
        <4>1. o \in Mains /\ o \in Rows /\ take[o] = n /\ n <= Left(o)
          BY <1>1, <1>2, <3>1, RowSets DEF Fits
        <4>2. Left(o) = BalanceDue(o) \/ Left(o) = 0
          BY <4>1, RowSets DEF Left
        <4>. QED  BY <1>2, <4>1, <4>2
      <3>. QED  BY <3>1
    <2>. QED  BY <1>2, <1>9, <2>0, <2>5, <2>6
  <1>. QED  BY <1>2, <1>11, <1>12 DEF Docs

LEMMA CancelTakes ==
  ASSUME SettlesInv, NEW r \in Requests, CommitCancel(r),
         NEW d, d = req[r].row, NEW n, n = doc[d].total
  PROVE  /\ d \in Mains /\ n \in Nat /\ n > 0 /\ BalanceDue(d) = n
         /\ doc[d].status \in Open /\ doc'[d].status = "CANCELLED"
         /\ \A e \in Docs : e # d => doc'[e] = doc[e]
         /\ doc'[d].total = n
         /\ Takes(Only(Mains, d, n), Zeros(Sources), n)
  <1>0. IInv /\ TypeOK /\ control \in Int /\ OpensTyped /\ DocsStand
    BY OpensType DEF SettlesInv, LocksInv, IInv, TypeOK
  <1>1. /\ d \in Docs /\ CancelledNow(d, doc'[d]) /\ \A e \in Docs : e # d => doc'[e] = doc[e]
    BY <1>0, CancelMoves
  <1>2. /\ d \in Mains /\ d \in Rows /\ doc[d].status \in Open /\ doc[d].paid = 0
        /\ doc[d] \in Document /\ n \in Nat
    BY <1>0, <1>1, DocType, RowSets DEF CancelledNow
  <1>3. doc'[d].status = "CANCELLED" /\ doc'[d].total = n
    BY <1>1, <1>2 DEF CancelledNow, Document
  <1>4. n > 0
    BY <1>0, <1>1, <1>2 DEF DocsStand, Open
  <1>5. JournalAmount(d) = n
    BY <1>1, <1>2, DocJournalAmount
  <1>6. control' = control - n /\ receipt' = receipt /\ side' = side
    BY <1>5 DEF CommitCancel, Commit
  <1>7. BalanceDue(d) = n /\ BalanceDue(d)' = 0
    <2>1. DueOf(doc[d]) = n /\ DueOf(doc'[d]) = 0
      BY <1>2, <1>3 DEF DueOf, Open
    <2>. QED  BY <1>2, <2>1, OpensAre
  <1>8. ASSUME NEW e \in Mains PROVE BalanceDue(e)' = BalanceDue(e) - Only(Mains, d, n)[e]
    <2>1. CASE e = d
      BY <1>2, <1>7, <2>1 DEF Only
    <2>2. CASE e # d
      <3>1. BalanceDue(e)' = BalanceDue(e) /\ BalanceDue(e) \in Nat
        BY <1>0, <1>1, <2>2, OpensAre, RowSets DEF OpensTyped
      <3>. QED  BY <2>2, <3>1 DEF Only
    <2>. QED  BY <2>1, <2>2
  <1>9. ASSUME NEW x \in Sources PROVE Left(x)' = Left(x) - Zeros(Sources)[x]
    <2>1. \A y \in Notes : doc'[y] = doc[y]
      BY <1>1, <1>2, RowSets
    <2>2. Left(x)' = Left(x) /\ Left(x) \in Nat
      BY <1>0, <1>6, <2>1, OpensAre DEF OpensTyped, Sources
    <2>. QED  BY <2>2 DEF Zeros
  <1>. QED  BY <1>1, <1>2, <1>3, <1>4, <1>6, <1>7, <1>8, <1>9 DEF Takes

(* What a plan takes from the rows of S. *)
Part(S, take) == [x \in S |-> take[x]]

LEMMA PartSum ==
  ASSUME IsFiniteSet(Rows), NEW S \in SUBSET Rows, NEW take \in [Rows -> Nat],
         \A x \in Rows \ S : take[x] = 0
  PROVE  Part(S, take) \in [S -> Int] /\ SumFunction(Part(S, take)) = SumFunction(take)
  <1>1. Part(S, take) \in [S -> Int] /\ take \in [Rows -> Int]
        /\ \A x \in S : Part(S, take)[x] = take[x]
    BY DEF Part
  <1>. QED  BY <1>1, SumPart

LEMMA PlanOf ==
  ASSUME SettlesInv, NEW r \in Requests, NEW op, Ready(r, op), NEW take, take = req[r].take
  PROVE  /\ IInv /\ Settles(req[r]) /\ Knows(req[r]) /\ TakesWF(req[r])
         /\ take \in [Rows -> Nat] /\ Fits(take) /\ req[r].amount \in Nat
         /\ req[r].op = op /\ OwnRowStands(r)
         /\ OpensTyped /\ TypeOK /\ control \in Int
         /\ \A x \in Rows : take[x] \in Nat /\ take[x] <= Left(x)
         /\ \A d \in Mains : take[d] <= BalanceDue(d) /\ Left(d) <= BalanceDue(d)
  <1>1. /\ IInv /\ Settles(req[r]) /\ Knows(req[r]) /\ TakesWF(req[r])
        /\ take \in [Rows -> Nat] /\ Fits(take) /\ req[r].amount \in Nat
        /\ req[r].op = op /\ OwnRowStands(r)
        /\ OpensTyped /\ TypeOK /\ control \in Int
    BY ReqType, OpensType DEF SettlesInv, LocksInv, IInv, RequestsWF, TypeOK, Ready
  <1>2. \A x \in Rows : take[x] \in Nat /\ take[x] <= Left(x)
    BY <1>1 DEF Fits
  <1>3. ASSUME NEW d \in Mains PROVE take[d] <= BalanceDue(d) /\ Left(d) <= BalanceDue(d)
    <2>1. d \in Rows /\ BalanceDue(d) \in Nat
      BY <1>1, RowSets DEF OpensTyped
    <2>2. Left(d) = BalanceDue(d) \/ Left(d) = 0
      BY <2>1, LeftIs DEF BalanceDue
    <2>. QED  BY <1>2, <2>1, <2>2
  <1>. QED  BY <1>1, <1>2, <1>3

(* Money given for invoices. *)
LEMMA GivingOpens ==
  ASSUME SettlesInv, NEW r \in Requests, NEW op \in {"pay", "receive"}, Ready(r, op), side' = side,
         NEW take, take = req[r].take, doc' = AfterTaking(take)
  PROVE  /\ \A x \in Rows : x \notin Mains => take[x] = 0
         /\ \A d \in Mains : BalanceDue(d)' = BalanceDue(d) - take[d]
         /\ \A x \in Notes : Left(x)' = Left(x) /\ Left(x) \in Nat
  <1>0. /\ IInv /\ TakesWF(req[r]) /\ take \in [Rows -> Nat] /\ Fits(take) /\ req[r].op = op
        /\ OpensTyped
    BY PlanOf
  <1>1. \A x \in Rows : x \notin Mains => take[x] = 0
    BY <1>0 DEF TakesWF
  <1>2. /\ \A d \in Mains : BalanceDue(d)' = BalanceDue(d) - take[d]
        /\ \A x \in Notes : Left(x)' = Left(x) - take[x]
    BY <1>0, OpensAre, TakingOpens
  <1>3. ASSUME NEW x \in Notes PROVE Left(x)' = Left(x) /\ Left(x) \in Nat
    <2>1. take[x] = 0 /\ Left(x) \in Nat
      BY <1>0, <1>1, RowSets DEF OpensTyped, Sources
    <2>. QED  BY <1>2, <2>1
  <1>. QED  BY <1>1, <1>2, <1>3

LEMMA PayTakes ==
  ASSUME SettlesInv, NEW r \in Requests, CommitPay(r),
         NEW d, d = req[r].row, NEW n, n = req[r].amount
  PROVE  /\ d \in Mains /\ n \in Nat /\ n > 0 /\ n <= BalanceDue(d)
         /\ Takes(Only(Mains, d, n), Zeros(Sources), n)
  <1>1. PICK take : take = req[r].take
    OBVIOUS
  <1>2. /\ Ready(r, "pay") /\ doc' = AfterTaking(take) /\ control' = control - n
        /\ receipt' = receipt /\ side' = side
    BY <1>1 DEF CommitPay, Commit
  <1>3. /\ Settles(req[r]) /\ Knows(req[r]) /\ req[r].op = "pay" /\ n \in Nat /\ OpensTyped
        /\ \A e \in Mains : take[e] <= BalanceDue(e)
    BY <1>1, <1>2, PlanOf
  <1>4. d \in Mains /\ n > 0 /\ take = [x \in Rows |-> IF x = d THEN n ELSE 0]
    BY <1>1, <1>3 DEF Settles, Knows
  <1>5. \A e \in Mains : take[e] = Only(Mains, d, n)[e]
    BY <1>4, RowSets DEF Only
  <1>6. \A e \in Mains : BalanceDue(e)' = BalanceDue(e) - Only(Mains, d, n)[e]
    BY <1>1, <1>2, <1>5, GivingOpens
  <1>7. ASSUME NEW x \in Sources PROVE Left(x)' = Left(x) - Zeros(Sources)[x]
    <2>1. Left(x)' = Left(x) /\ Left(x) \in Nat
      BY <1>1, <1>2, <1>3, GivingOpens, OpensAre DEF OpensTyped, Sources
    <2>. QED  BY <2>1 DEF Zeros
  <1>8. n <= BalanceDue(d)
    BY <1>3, <1>4, RowSets
  <1>. QED  BY <1>2, <1>3, <1>4, <1>6, <1>7, <1>8 DEF Takes

LEMMA ReceiveTakes ==
  ASSUME IsFiniteSet(Rows), SettlesInv, NEW r \in Requests, NEW p \in Receipts, CommitReceive(r, p),
         NEW take, take = req[r].take, NEW n, n = req[r].amount, NEW m, m = SumFunction(take)
  PROVE  /\ take \in [Rows -> Nat] /\ n \in Nat /\ n > 0 /\ m \in 0 .. n
         /\ \A x \in Rows \ Mains : take[x] = 0
         /\ \A d \in Mains : take[d] <= BalanceDue(d)
         /\ Left(p) = 0
         /\ Takes(Part(Mains, take), Only(Sources, p, m - n), n)
  <1>2. /\ Ready(r, "receive") /\ doc' = AfterTaking(take) /\ control' = control - n
        /\ receipt' = [receipt EXCEPT ![p] = [amount |-> n, applied |-> m,
                                              unapplied |-> n - m, refunded |-> 0]]
        /\ side' = side /\ receipt[p].amount = 0
    BY DEF CommitReceive, Commit
  <1>3. /\ IInv /\ TypeOK /\ Settles(req[r]) /\ Knows(req[r]) /\ req[r].op = "receive" /\ n \in Nat
        /\ take \in [Rows -> Nat] /\ OpensTyped
        /\ \A e \in Mains : take[e] <= BalanceDue(e)
    BY <1>2, PlanOf
  <1>4. n > 0 /\ m \in 0 .. n
    BY <1>3 DEF Settles, Knows
  <1>5. /\ \A x \in Rows \ Mains : take[x] = 0
        /\ \A d \in Mains : BalanceDue(d)' = BalanceDue(d) - take[d]
        /\ \A x \in Notes : Left(x)' = Left(x) /\ Left(x) \in Nat
    BY <1>2, GivingOpens
  <1>6. Left(p) = 0 /\ Left(p)' = n - m
    <2>1. receipt'[p].unapplied = n - m
      BY <1>2, <1>3 DEF TypeOK
    <2>2. receipt[p].unapplied = 0
      <3>1. receipt[p].amount = receipt[p].applied + receipt[p].unapplied + receipt[p].refunded
        BY <1>3 DEF IInv, AmountsInRange
      <3>. QED  BY <1>2, <1>3, <3>1, ReceiptType
    <2>. QED  BY <2>1, <2>2, OpensAre
  <1>7. \A d \in Mains : BalanceDue(d)' = BalanceDue(d) - Part(Mains, take)[d]
    BY <1>5 DEF Part
  <1>8. ASSUME NEW x \in Sources PROVE Left(x)' = Left(x) - Only(Sources, p, m - n)[x]
    <2>1. CASE x = p
      BY <1>3, <1>4, <1>6, <2>1 DEF Only
    <2>2. CASE x # p
      <3>1. Only(Sources, p, m - n)[x] = 0
        BY <2>2 DEF Only
      <3>2. x \in Receipts => Left(x)' = Left(x)
        BY <1>2, <1>3, <2>2, OpensAre DEF TypeOK
      <3>3. Left(x)' = Left(x) /\ Left(x) \in Nat
        BY <1>3, <1>5, <3>2 DEF Sources, OpensTyped
      <3>. QED  BY <3>1, <3>3
    <2>. QED  BY <2>1, <2>2
  <1>. QED  BY <1>2, <1>3, <1>4, <1>5, <1>6, <1>7, <1>8 DEF Takes

(* Credit used or paid back. *)
LEMMA UsingOpens ==
  ASSUME SettlesInv, NEW r \in Requests, NEW op \in {"apply", "refund"}, Ready(r, op), side' = side,
         NEW take, take = req[r].take, \A x \in Notes : doc'[x] = AfterTaking(take)[x],
         \A p \in Receipts : receipt'[p].unapplied = receipt[p].unapplied - take[p]
  PROVE  /\ \A x \in Rows \ Sources : take[x] = 0
         /\ \A x \in Sources : Left(x)' = Left(x) - Part(Sources, take)[x]
  <1>0. /\ IInv /\ TakesWF(req[r]) /\ take \in [Rows -> Nat] /\ Fits(take) /\ req[r].op = op
    BY PlanOf
  <1>1. \A x \in Rows \ Sources : take[x] = 0
    BY <1>0 DEF TakesWF, FreeNote, Sources
  <1>2. \A x \in Notes : Left(x)' = Left(x) - take[x]
    BY <1>0, OpensAre, TakingOpens
  <1>3. \A p \in Receipts : Left(p)' = Left(p) - take[p]
    BY OpensAre
  <1>. QED  BY <1>1, <1>2, <1>3 DEF Part, Sources

LEMMA ApplyTakes ==
  ASSUME SettlesInv, NEW r \in Requests, CommitApply(r),
         NEW take, take = req[r].take, NEW n, n = req[r].amount, NEW d, d = req[r].row
  PROVE  /\ take \in [Rows -> Nat] /\ n \in Nat /\ n > 0 /\ n = SumFunction(take)
         /\ \A x \in Rows \ Sources : take[x] = 0
         /\ \A x \in Sources : take[x] <= Left(x)
         /\ d \in Mains /\ n <= BalanceDue(d)
         /\ Takes(Only(Mains, d, n), Part(Sources, take), 0)
  <1>2. /\ Ready(r, "apply") /\ side' = side /\ control' = control
        /\ doc' = [AfterTaking(take) EXCEPT ![d] = Allocated(doc[d], n)]
        /\ receipt' = [p \in Receipts |-> [receipt[p] EXCEPT !.unapplied = @ - take[p],
                                                              !.applied = @ + take[p]]]
    BY DEF CommitApply, Commit
  <1>3. /\ IInv /\ TypeOK /\ Settles(req[r]) /\ Knows(req[r]) /\ req[r].op = "apply" /\ n \in Nat
        /\ take \in [Rows -> Nat] /\ Fits(take) /\ OpensTyped /\ control \in Int /\ OwnRowStands(r)
        /\ \A x \in Rows : take[x] <= Left(x)
        /\ \A e \in Mains : Left(e) <= BalanceDue(e)
    BY <1>2, PlanOf
  <1>4. d \in Mains /\ d \in Docs /\ d \notin Notes /\ n > 0 /\ n = SumFunction(take) /\ n <= Left(d)
    BY <1>3, RowSets DEF Settles, Knows, OwnRowStands
  <1>5. AfterTaking(take) \in [Docs -> Document]
    BY <1>3, AfterTakingMoves DEF IInv
  <1>6. doc'[d] = Allocated(doc[d], n) /\ \A e \in Docs : e # d => doc'[e] = AfterTaking(take)[e]
    BY <1>2, <1>4, <1>5
  <1>7. ASSUME NEW p \in Receipts
        PROVE  receipt'[p].unapplied = receipt[p].unapplied - take[p]
    <2>1. receipt[p] \in Receipt
      BY <1>3, ReceiptType
    <2>2. receipt'[p] = [receipt[p] EXCEPT !.unapplied = @ - take[p], !.applied = @ + take[p]]
      BY <1>2
    <2>. QED  BY <2>1, <2>2 DEF Receipt
  <1>8. /\ \A x \in Rows \ Sources : take[x] = 0
        /\ \A x \in Sources : Left(x)' = Left(x) - Part(Sources, take)[x]
    <2>1. \A x \in Notes : doc'[x] = AfterTaking(take)[x]
      BY <1>4, <1>6, RowSets
    <2>2. Ready(r, "apply") /\ side' = side
      BY <1>2
    <2>. QED  BY <1>7, <2>1, <2>2, UsingOpens
  <1>9. BalanceDue(d)' = BalanceDue(d) - n /\ n <= BalanceDue(d)
    <2>1. Left(d) = IF doc[d].status \in Open THEN DueOf(doc[d]) ELSE 0
      BY <1>4, LeftIs, RowSets DEF DueOf
    <2>2. DueOf(doc'[d]) = DueOf(doc[d]) - n
      BY <1>3, <1>4, <1>6, <2>1, RowTakes, DocType, ZenonT(30) DEF IInv, AmountsInRange
    <2>3. BalanceDue(d) \in Nat /\ Left(d) \in Nat
      BY <1>3, <1>4, <2>1, OpensAre DEF OpensTyped
    <2>. QED  BY <1>3, <1>4, <2>2, <2>3, OpensAre
  <1>10. ASSUME NEW e \in Mains PROVE BalanceDue(e)' = BalanceDue(e) - Only(Mains, d, n)[e]
    <2>1. CASE e = d
      BY <1>9, <2>1 DEF Only
    <2>2. CASE e # d
      <3>1. take[e] = 0 /\ e \in Docs
        BY <1>8, RowSets DEF Sources
      <3>2. BalanceDue(e)' = BalanceDue(e) - take[e]
        BY <1>3, <1>6, <2>2, <3>1, OpensAre, TakingOpens
      <3>3. Only(Mains, d, n)[e] = 0
        BY <2>2 DEF Only
      <3>. QED  BY <3>1, <3>2, <3>3
    <2>. QED  BY <2>1, <2>2
  <1>11. control' = control - 0
    <2>1. control' = control /\ control \in Int
      BY <1>2, <1>3
    <2>. QED  BY <2>1
  <1>12. \A x \in Sources : take[x] <= Left(x)
    BY <1>3, RowSets
  <1>. QED  BY <1>3, <1>4, <1>8, <1>9, <1>10, <1>11, <1>12 DEF Takes

LEMMA RefundTakes ==
  ASSUME SettlesInv, NEW r \in Requests, CommitRefund(r),
         NEW take, take = req[r].take, NEW n, n = req[r].amount
  PROVE  /\ take \in [Rows -> Nat] /\ n \in Nat /\ n > 0 /\ n = SumFunction(take)
         /\ \A x \in Rows \ Sources : take[x] = 0
         /\ \A x \in Sources : take[x] <= Left(x)
         /\ Takes(Zeros(Mains), Part(Sources, take), 0 - n)
  <1>2. /\ Ready(r, "refund") /\ side' = side /\ control' = control + n
        /\ doc' = AfterTaking(take)
        /\ receipt' = [p \in Receipts |-> [receipt[p] EXCEPT !.unapplied = @ - take[p],
                                                              !.refunded = @ + take[p]]]
    BY DEF CommitRefund, Commit
  <1>3. /\ IInv /\ TypeOK /\ Settles(req[r]) /\ req[r].op = "refund" /\ n \in Nat
        /\ take \in [Rows -> Nat] /\ Fits(take) /\ OpensTyped /\ control \in Int
        /\ \A x \in Rows : take[x] <= Left(x)
    BY <1>2, PlanOf
  <1>4. n > 0 /\ n = SumFunction(take)
    BY <1>3 DEF Settles
  <1>5. ASSUME NEW p \in Receipts
        PROVE  receipt'[p].unapplied = receipt[p].unapplied - take[p]
    <2>1. receipt[p] \in Receipt
      BY <1>3, ReceiptType
    <2>2. receipt'[p] = [receipt[p] EXCEPT !.unapplied = @ - take[p], !.refunded = @ + take[p]]
      BY <1>2
    <2>. QED  BY <2>1, <2>2 DEF Receipt
  <1>6. /\ \A x \in Rows \ Sources : take[x] = 0
        /\ \A x \in Sources : Left(x)' = Left(x) - Part(Sources, take)[x]
    <2>1. \A x \in Notes : doc'[x] = AfterTaking(take)[x]
      BY <1>2
    <2>2. Ready(r, "refund") /\ side' = side
      BY <1>2
    <2>. QED  BY <1>5, <2>1, <2>2, UsingOpens
  <1>7. ASSUME NEW e \in Mains PROVE BalanceDue(e)' = BalanceDue(e) - Zeros(Mains)[e]
    <2>1. take[e] = 0
      BY <1>6, RowSets DEF Sources
    <2>2. BalanceDue(e)' = BalanceDue(e) - take[e]
      BY <1>2, <1>3, OpensAre, TakingOpens
    <2>. QED  BY <2>1, <2>2 DEF Zeros
  <1>8. control' = control - (0 - n)
    <2>1. control' = control + n /\ control \in Int /\ n \in Nat
      BY <1>2, <1>3
    <2>. QED  BY <2>1
  <1>9. \A x \in Sources : take[x] <= Left(x)
    BY <1>3, RowSets
  <1>. QED  BY <1>3, <1>4, <1>6, <1>7, <1>8, <1>9 DEF Takes

-----------------------------------------------------------------------------
(* What was reversed by hand, and the balance.                             *)

JournalsTyped == \A x \in Rows : JournalAmount(x) \in Int

LEMMA JournalsType == TypeOK => JournalsTyped
  BY JournalAmountIs DEF JournalsTyped

(* The journal of a row that was reversed no longer changes its amount. *)
LEMMA HandKept ==
  ASSUME IInv, [Next]_vars, NEW x \in Rows, byHand'[x] = byHand[x]
  PROVE  Hand(x)' = Hand(x)
  <1>1. TypeOK /\ JournalAmount(x) \in Int /\ byHand[x] \in Nat
    BY JournalsType DEF IInv, TypeOK, JournalsTyped
  <1>2. JournalAmount(x)' \in Int
    <2>1. TypeOK'
      BY StepIInv DEF IInv
    <2>2. JournalsTyped'
      BY <2>1, JournalsType, PTL
    <2>. QED  BY <2>2 DEF JournalsTyped
  <1>3. CASE byHand[x] = 0
    <2>1. Hand(x) = 0
      BY <1>1, <1>3 DEF Hand
    <2>2. Hand(x)' = 0
      BY <1>2, <1>3 DEF Hand
    <2>. QED  BY <2>1, <2>2
  <1>4. CASE byHand[x] # 0
    <2>1. Posted(x)
      BY <1>1, <1>4 DEF IInv, ReversedWerePosted
    <2>2. JournalAmount(x)' = JournalAmount(x)
      <3>1. CASE x \in Docs
        <4>1. doc[x].status \notin {"NONE", "DRAFT"}
          BY <1>1, <2>1, <3>1, PostedIs
        <4>2. doc'[x].total = doc[x].total
          BY <3>1, <4>1, DocMoves, OneDoc DEF Frozen
        <4>. QED  BY <3>1, <4>2, DocJournalAmount
      <3>2. CASE x \notin Docs
        <4>1. x \in Receipts /\ x \notin Mains /\ x \notin Notes
          BY <3>2 DEF Rows, Docs
        <4>2. receipt'[x].amount = receipt[x].amount
          BY <2>1, <3>2, <4>1, ReceiptMoves DEF Posted
        <4>. QED  BY <4>1, <4>2 DEF JournalAmount
      <3>. QED  BY <3>1, <3>2
    <2>. QED  BY <2>2 DEF Hand
  <1>. QED  BY <1>3, <1>4

LEMMA HandsKept ==
  ASSUME IInv, [Next]_vars, byHand' = byHand
  PROVE  SumFunction(Hands)' = SumFunction(Hands)
  <1>1. \A x \in Rows : Hand(x)' = Hand(x)
    BY HandKept
  <1>2. Hands' = Hands
    BY <1>1, Zenon DEF Hands
  <1>. QED  BY <1>2

LEMMA HandsReversed ==
  ASSUME IsFiniteSet(Rows), IInv, [Next]_vars, NEW x \in Rows, UNCHANGED <<doc, receipt>>,
         byHand' = [byHand EXCEPT ![x] = @ + 1]
  PROVE  SumFunction(Hands)' = SumFunction(Hands) + JournalAmount(x)
  <1>0. TypeOK /\ OpensTyped /\ OpensTyped'
    BY OpensType, OpensTypeNext DEF IInv
  <1>1. JournalAmount(x) \in Int /\ byHand[x] \in Nat /\ byHand \in [Rows -> Nat]
    BY <1>0, JournalsType DEF TypeOK, JournalsTyped
  <1>2. byHand'[x] = byHand[x] + 1 /\ \A y \in Rows : y # x => byHand'[y] = byHand[y]
    BY <1>1
  <1>3. JournalAmount(x)' = JournalAmount(x)
    BY DEF JournalAmount
  <1>4. Hand(x)' = Hand(x) + JournalAmount(x)
    <2>1. \A b \in Nat, j \in Int : (b + 1) * j = b * j + j
      OBVIOUS
    <2>. QED  BY <1>1, <1>2, <1>3, <2>1 DEF Hand
  <1>5. /\ Hands \in [Rows -> Int] /\ Hands' \in [Rows -> Int]
        /\ Hands[x] = Hand(x) /\ Hands'[x] = Hand(x) + JournalAmount(x)
        /\ \A y \in Rows : y # x => Hands'[y] = Hands[y]
    BY <1>0, <1>2, <1>4, HandKept DEF OpensTyped
  <1>. DEFINE old == Hands  new == Hands'
  <1>6. SumFunction(new) = SumFunction(old) + new[x] - old[x] /\ SumFunction(old) \in Int
    <2>. HIDE DEF old, new
    <2>1. old \in [Rows -> Int] /\ new \in [Rows -> Int] /\ \A y \in Rows : y # x => new[y] = old[y]
      BY <1>5 DEF old, new
    <2>. QED  BY <2>1, SumChange, SumOfInts
  <1>7. Hand(x) \in Int
    BY <1>5
  <1>. QED  BY <1>1, <1>5, <1>6, <1>7

LEMMA BalanceIs ==
  BalanceIsOpenItems <=> control = SumFunction(Dues) - SumFunction(Lefts) - SumFunction(Hands)
  BY DEF BalanceIsOpenItems, Dues, Lefts, Hands, Hand

LEMMA BalanceMoves ==
  ASSUME IsFiniteSet(Rows), IInv, [Next]_vars, BalanceIsOpenItems,
         NEW due \in [Mains -> Int], NEW left \in [Sources -> Int], NEW n, NEW h \in Int,
         Takes(due, left, n), SumFunction(Hands)' = SumFunction(Hands) + h,
         n = SumFunction(due) - SumFunction(left) + h
  PROVE  BalanceIsOpenItems'
  <1>0. OpensTyped /\ OpensTyped' /\ control \in Int
    BY OpensType, OpensTypeNext DEF IInv, TypeOK
  <1>1. IsFiniteSet(Mains) /\ IsFiniteSet(Sources)
    BY RowSets, FS_Subset
  <1>2. /\ Dues \in [Mains -> Int] /\ Dues' \in [Mains -> Int]
        /\ \A d \in Mains : Dues'[d] = Dues[d] - due[d]
    BY <1>0 DEF Takes, OpensTyped
  <1>3. /\ Lefts \in [Sources -> Int] /\ Lefts' \in [Sources -> Int]
        /\ \A x \in Sources : Lefts'[x] = Lefts[x] - left[x]
    BY <1>0 DEF Takes, OpensTyped
  <1>4. SumFunction(Hands) \in Int
    BY <1>0, SumOfInts DEF OpensTyped
  <1>. DEFINE D == SumFunction(Dues)  DD == SumFunction(Dues')
              L == SumFunction(Lefts) LL == SumFunction(Lefts')
              H == SumFunction(Hands) HH == SumFunction(Hands')
              a == SumFunction(due)   b == SumFunction(left)
  <1>5. D \in Int /\ a \in Int /\ DD = D - a
    <2>. DEFINE old == Dues  new == Dues'
    <2>1. old \in [Mains -> Int] /\ new \in [Mains -> Int] /\ \A d \in Mains : new[d] = old[d] - due[d]
      BY <1>2
    <2>. HIDE DEF old, new
    <2>2. /\ SumFunction(old) \in Int /\ SumFunction(due) \in Int
          /\ SumFunction(new) = SumFunction(old) - SumFunction(due)
      BY <1>1, <2>1, SumMinus
    <2>. QED  BY <2>2 DEF old, new
  <1>6. L \in Int /\ b \in Int /\ LL = L - b
    <2>. DEFINE old == Lefts  new == Lefts'
    <2>1. old \in [Sources -> Int] /\ new \in [Sources -> Int]
          /\ \A x \in Sources : new[x] = old[x] - left[x]
      BY <1>3
    <2>. HIDE DEF old, new
    <2>2. /\ SumFunction(old) \in Int /\ SumFunction(left) \in Int
          /\ SumFunction(new) = SumFunction(old) - SumFunction(left)
      BY <1>1, <2>1, SumMinus
    <2>. QED  BY <2>2 DEF old, new
  <1>7. HH = H + h /\ H \in Int
    BY <1>4
  <1>8. control' = control - n /\ control = D - L - H /\ n = a - b + h
    BY BalanceIs DEF Takes
  <1>. HIDE DEF D, DD, L, LL, H, HH, a, b
  <1>9. control' = DD - LL - HH
    BY <1>5, <1>6, <1>7, <1>8
  <1>10. BalanceIsOpenItems' <=> control' = DD - LL - HH
    BY DEF BalanceIsOpenItems, Dues, Lefts, Hands, Hand, DD, LL, HH
  <1>. QED  BY <1>9, <1>10

LEMMA BalanceStep ==
  ASSUME IsFiniteSet(Rows), SettlesInv, [Next]_vars, BalanceIsOpenItems
  PROVE  BalanceIsOpenItems'
  <1>0. IInv /\ TypeOK /\ IsFiniteSet(Mains) /\ IsFiniteSet(Sources)
    BY RowSets, FS_Subset DEF SettlesInv, LocksInv, IInv
  <1>1. ASSUME byHand' = byHand, NEW due \in [Mains -> Int], NEW left \in [Sources -> Int],
               NEW n, Takes(due, left, n), n = SumFunction(due) - SumFunction(left)
        PROVE  BalanceIsOpenItems'
    <2>1. SumFunction(Hands)' = SumFunction(Hands) + 0
      <3>1. SumFunction(Hands) \in Int
        BY <1>0, OpensType, SumOfInts DEF OpensTyped
      <3>. QED  BY <1>0, <1>1, <3>1, HandsKept
    <2>2. n = SumFunction(due) - SumFunction(left) + 0
      BY <1>0, <1>1, SumOfInts
    <2>. QED  BY <1>0, <1>1, <2>1, <2>2, BalanceMoves
  <1>2. /\ Zeros(Mains) \in [Mains -> Int] /\ SumFunction(Zeros(Mains)) = 0
        /\ Zeros(Sources) \in [Sources -> Int] /\ SumFunction(Zeros(Sources)) = 0
    BY <1>0, SumZeros
  <1>3. CASE ~\E r \in Requests : Committing(r)
    <2>1. Takes(Zeros(Mains), Zeros(Sources), 0) /\ byHand' = byHand
      BY <1>0, <1>3, QuietTakesNothing
    <2>2. 0 = SumFunction(Zeros(Mains)) - SumFunction(Zeros(Sources))
      BY <1>2
    <2>. QED  BY <1>1, <1>2, <2>1, <2>2
  <1>4. ASSUME NEW r \in Requests, CommitReverse(r) PROVE BalanceIsOpenItems'
    <2>1. PICK x : x = req[r].row
      OBVIOUS
    <2>2. /\ x \in Rows /\ Takes(Zeros(Mains), Zeros(Sources), JournalAmount(x))
          /\ byHand' = [byHand EXCEPT ![x] = @ + 1] /\ UNCHANGED <<doc, receipt>>
      BY <1>0, <1>4, <2>1, ReverseTakes
    <2>3. SumFunction(Hands)' = SumFunction(Hands) + JournalAmount(x)
      BY <1>0, <2>2, HandsReversed
    <2>4. JournalAmount(x) \in Int
      BY <1>0, <2>2, JournalsType DEF JournalsTyped
    <2>5. JournalAmount(x) = SumFunction(Zeros(Mains)) - SumFunction(Zeros(Sources)) + JournalAmount(x)
      BY <1>2, <2>4
    <2>. QED  BY <1>0, <1>2, <2>2, <2>3, <2>4, <2>5, BalanceMoves
  <1>5. ASSUME NEW r \in Requests, CommitIssue(r) PROVE BalanceIsOpenItems'
    <2>1. PICK d, n, o : d = req[r].row /\ n = req[r].amount /\ o = doc[d].against
      OBVIOUS
    <2>2. /\ d \in Docs /\ n \in Nat /\ o \in Mains \cup {0}
          /\ d \in Mains => Takes(Only(Mains, d, 0 - n), Zeros(Sources), 0 - n)
          /\ d \in Notes => Takes(Only(Mains, o, n), Only(Sources, d, IF o = 0 THEN 0 - n ELSE 0), n)
      BY <1>5, <2>1, IssueTakes
    <2>3. byHand' = byHand
      BY <1>5 DEF CommitIssue
    <2>4. CASE d \in Mains
      <3>1. /\ Only(Mains, d, 0 - n) \in [Mains -> Int]
            /\ SumFunction(Only(Mains, d, 0 - n)) = 0 - n
        BY <1>0, <2>2, <2>4, SumOnly
      <3>2. 0 - n = SumFunction(Only(Mains, d, 0 - n)) - SumFunction(Zeros(Sources))
        BY <1>2, <2>2, <3>1
      <3>. QED  BY <1>1, <1>2, <2>2, <2>3, <2>4, <3>1, <3>2
    <2>5. CASE d \in Notes
      <3>. DEFINE c == IF o = 0 THEN 0 - n ELSE 0
      <3>1. c \in Int /\ d \in Sources /\ 0 \notin Mains
        BY <2>2, <2>5, RowSets DEF Sources
      <3>2. /\ Only(Mains, o, n) \in [Mains -> Int] /\ Only(Sources, d, c) \in [Sources -> Int]
            /\ SumFunction(Only(Mains, o, n)) = (IF o \in Mains THEN n ELSE 0)
            /\ SumFunction(Only(Sources, d, c)) = c
        <4>. HIDE DEF c
        <4>. QED  BY <1>0, <2>2, <3>1, SumOnly
      <3>3. (IF o \in Mains THEN n ELSE 0) - c = n
        BY <2>2, <3>1
      <3>4. n = SumFunction(Only(Mains, o, n)) - SumFunction(Only(Sources, d, c))
        BY <3>2, <3>3
      <3>. QED  BY <1>1, <2>2, <2>3, <2>5, <3>2, <3>4
    <2>. QED  BY <2>2, <2>4, <2>5 DEF Docs
  <1>6. ASSUME NEW r \in Requests, CommitCancel(r) PROVE BalanceIsOpenItems'
    <2>1. PICK d, n : d = req[r].row /\ n = doc[d].total
      OBVIOUS
    <2>2. d \in Mains /\ n \in Nat /\ Takes(Only(Mains, d, n), Zeros(Sources), n)
      BY <1>6, <2>1, CancelTakes
    <2>3. byHand' = byHand
      BY <1>6 DEF CommitCancel
    <2>4. Only(Mains, d, n) \in [Mains -> Int] /\ SumFunction(Only(Mains, d, n)) = n
      BY <1>0, <2>2, SumOnly
    <2>5. n = SumFunction(Only(Mains, d, n)) - SumFunction(Zeros(Sources))
      BY <1>2, <2>2, <2>4
    <2>. QED  BY <1>1, <1>2, <2>2, <2>3, <2>4, <2>5
  <1>7. ASSUME NEW r \in Requests, CommitPay(r) PROVE BalanceIsOpenItems'
    <2>1. PICK d, n : d = req[r].row /\ n = req[r].amount
      OBVIOUS
    <2>2. d \in Mains /\ n \in Nat /\ Takes(Only(Mains, d, n), Zeros(Sources), n)
      BY <1>7, <2>1, PayTakes
    <2>3. byHand' = byHand
      BY <1>7 DEF CommitPay
    <2>4. Only(Mains, d, n) \in [Mains -> Int] /\ SumFunction(Only(Mains, d, n)) = n
      BY <1>0, <2>2, SumOnly
    <2>5. n = SumFunction(Only(Mains, d, n)) - SumFunction(Zeros(Sources))
      BY <1>2, <2>2, <2>4
    <2>. QED  BY <1>1, <1>2, <2>2, <2>3, <2>4, <2>5
  <1>8. ASSUME NEW r \in Requests, NEW p \in Receipts, CommitReceive(r, p) PROVE BalanceIsOpenItems'
    <2>1. PICK take, n, m : take = req[r].take /\ n = req[r].amount /\ m = SumFunction(take)
      OBVIOUS
    <2>2. /\ take \in [Rows -> Nat] /\ n \in Nat /\ m \in 0 .. n
          /\ \A x \in Rows \ Mains : take[x] = 0
          /\ Takes(Part(Mains, take), Only(Sources, p, m - n), n)
      BY <1>8, <2>1, ReceiveTakes
    <2>3. byHand' = byHand
      BY <1>8 DEF CommitReceive
    <2>4. Part(Mains, take) \in [Mains -> Int] /\ SumFunction(Part(Mains, take)) = m
      BY <2>1, <2>2, PartSum, RowSets, SMTT(30)
    <2>5. p \in Sources /\ m - n \in Int
      BY <2>2 DEF Sources
    <2>6. /\ Only(Sources, p, m - n) \in [Sources -> Int]
          /\ SumFunction(Only(Sources, p, m - n)) = m - n
      BY <1>0, <2>5, SumOnly
    <2>7. n = SumFunction(Part(Mains, take)) - SumFunction(Only(Sources, p, m - n))
      <3>1. n = m - (m - n)
        BY <2>2
      <3>. QED  BY <2>4, <2>6, <3>1
    <2>. QED  BY <1>1, <2>2, <2>3, <2>4, <2>6, <2>7
  <1>9. ASSUME NEW r \in Requests, CommitApply(r) PROVE BalanceIsOpenItems'
    <2>1. PICK take, n, d : take = req[r].take /\ n = req[r].amount /\ d = req[r].row
      OBVIOUS
    <2>2. /\ take \in [Rows -> Nat] /\ n \in Nat /\ n = SumFunction(take) /\ d \in Mains
          /\ \A x \in Rows \ Sources : take[x] = 0
          /\ Takes(Only(Mains, d, n), Part(Sources, take), 0)
      BY <1>9, <2>1, ApplyTakes
    <2>3. byHand' = byHand
      BY <1>9 DEF CommitApply
    <2>4. Part(Sources, take) \in [Sources -> Int] /\ SumFunction(Part(Sources, take)) = n
      BY <2>2, PartSum, RowSets
    <2>5. Only(Mains, d, n) \in [Mains -> Int] /\ SumFunction(Only(Mains, d, n)) = n
      BY <1>0, <2>2, SumOnly
    <2>6. 0 = SumFunction(Only(Mains, d, n)) - SumFunction(Part(Sources, take))
      <3>1. n - n = 0
        BY <2>2
      <3>. QED  BY <2>4, <2>5, <3>1
    <2>. QED  BY <1>1, <2>2, <2>3, <2>4, <2>5, <2>6
  <1>10. ASSUME NEW r \in Requests, CommitRefund(r) PROVE BalanceIsOpenItems'
    <2>1. PICK take, n : take = req[r].take /\ n = req[r].amount
      OBVIOUS
    <2>2. /\ take \in [Rows -> Nat] /\ n \in Nat /\ n = SumFunction(take)
          /\ \A x \in Rows \ Sources : take[x] = 0
          /\ Takes(Zeros(Mains), Part(Sources, take), 0 - n)
      BY <1>10, <2>1, RefundTakes
    <2>3. byHand' = byHand
      BY <1>10 DEF CommitRefund
    <2>4. Part(Sources, take) \in [Sources -> Int] /\ SumFunction(Part(Sources, take)) = n
      BY <2>2, PartSum, RowSets
    <2>5. 0 - n = SumFunction(Zeros(Mains)) - SumFunction(Part(Sources, take))
      BY <1>2, <2>4
    <2>. QED  BY <1>1, <1>2, <2>2, <2>3, <2>4, <2>5
  <1>. QED
    BY <1>3, <1>4, <1>5, <1>6, <1>7, <1>8, <1>9, <1>10 DEF Committing

LEMMA InitBalance ==
  ASSUME IsFiniteSet(Rows), Init
  PROVE  BalanceIsOpenItems
  <1>0. /\ doc = [d \in Docs |-> NoDoc] /\ receipt = [p \in Receipts |-> NoReceipt]
        /\ byHand = [x \in Rows |-> 0] /\ control = 0
    BY DEF Init
  <1>1. \A d \in Mains : BalanceDue(d) = 0
    BY <1>0, OpensAre, RowSets DEF DueOf, NoDoc, Open
  <1>2. \A x \in Sources : Left(x) = 0
    <2>1. \A x \in Notes : Left(x) = 0
      BY <1>0, OpensAre, RowSets DEF CreditOf, NoDoc
    <2>2. \A p \in Receipts : Left(p) = 0
      BY <1>0, OpensAre DEF NoReceipt
    <2>. QED  BY <2>1, <2>2 DEF Sources
  <1>3. \A x \in Rows : Hand(x) = 0
    <2>1. IInv
      BY InitIInv
    <2>2. \A x \in Rows : JournalAmount(x) \in Int
      BY <2>1, JournalsType DEF IInv, JournalsTyped
    <2>. QED  BY <1>0, <2>2 DEF Hand
  <1>4. Dues = Zeros(Mains) /\ Lefts = Zeros(Sources) /\ Hands = Zeros(Rows)
    BY <1>1, <1>2, <1>3, Zenon DEF Dues, Lefts, Hands, Zeros
  <1>5. IsFiniteSet(Mains) /\ IsFiniteSet(Sources)
    BY RowSets, FS_Subset
  <1>6. SumFunction(Dues) = 0 /\ SumFunction(Lefts) = 0 /\ SumFunction(Hands) = 0
    BY <1>4, <1>5, SumZeros
  <1>. QED  BY <1>0, <1>6, BalanceIs

(* The balance on the control account is what is owed less the credit      *)
(* left, up to reversals by hand.                                          *)
THEOREM BalanceSound == ASSUME IsFiniteSet(Rows) PROVE Spec => []BalanceIsOpenItems
  <1>1. Init => SettlesInv /\ BalanceIsOpenItems
    BY InitSettlesInv, InitBalance
  <1>2. SettlesInv /\ BalanceIsOpenItems /\ [Next]_vars => SettlesInv' /\ BalanceIsOpenItems'
    BY StepSettlesInv, BalanceStep
  <1>. QED  BY <1>1, <1>2, PTL DEF Spec

-----------------------------------------------------------------------------
(***************************************************************************)
(* Documents and payments implement OpenItems.  What the abstract actions  *)
(* ask for, in terms of Charged, Dues and Lefts:                           *)
(***************************************************************************)
ChargeOf(d) == IF Posted(d) THEN doc[d].total ELSE 0
Charged == [d \in Mains |-> ChargeOf(d)]

LessOrSame(f, g, S) ==
    g = [x \in S |-> g[x]] /\ \A x \in S : g[x] \in 0 .. f[x]

LEMMA ItemsCharge ==
  ASSUME NEW d, Charged[d] = 0, Charged'[d] \in Nat \ {0},
         Charged' = [Charged EXCEPT ![d] = Charged'[d]],
         Dues' = [Dues EXCEPT ![d] = Charged'[d]], Lefts' = Lefts
  PROVE  Items!Charge(d)
  BY DEF Items!Charge, Charged, ChargeOf, Dues, Lefts

LEMMA ItemsWaive ==
  ASSUME NEW d, Charged[d] > 0, Dues[d] = Charged[d],
         Dues' = [Dues EXCEPT ![d] = 0], Charged' = Charged, Lefts' = Lefts
  PROVE  Items!Waive(d)
  BY DEF Items!Waive, Charged, ChargeOf, Dues, Lefts

LEMMA ItemsGive ==
  ASSUME LessOrSame(Dues, Dues', Mains), Charged' = Charged,
         \/ Lefts' = Lefts /\ Dues' # Dues
         \/ \E c \in Sources : /\ Lefts[c] = 0 /\ Lefts'[c] \in Nat \ {0}
                               /\ Lefts' = [Lefts EXCEPT ![c] = Lefts'[c]]
  PROVE  Items!Give
  BY DEF Items!Give, Items!Falls, LessOrSame, Charged, ChargeOf, Dues, Lefts

LEMMA ItemsSum ==
  ASSUME NEW f
  PROVE  Items!SumFunction(f) = SumFunction(f)
  BY DEF Items!SumFunction, Items!SumFunctionOnSet, Items!FoldFunctionOnSet, Items!MapThenFoldSet,
         SumFunction, SumFunctionOnSet, FoldFunctionOnSet, MapThenFoldSet

LEMMA ItemsUse ==
  ASSUME NEW d, NEW n, LessOrSame(Lefts, Lefts', Sources), Charged' = Charged,
         n = SumFunction([c \in Sources |-> Lefts[c] - Lefts'[c]]), n \in 1 .. Dues[d],
         Dues' = [Dues EXCEPT ![d] = @ - n]
  PROVE  Items!Use(d)
  BY ItemsSum DEF Items!Use, Items!Falls, LessOrSame, Charged, ChargeOf, Dues, Lefts

LEMMA ItemsPayBack ==
  ASSUME LessOrSame(Lefts, Lefts', Sources), Charged' = Charged, Dues' = Dues
  PROVE  Items!PayBack
  BY DEF Items!PayBack, Items!Falls, LessOrSame, Charged, ChargeOf, Dues, Lefts

LEMMA ItemsStutter ==
  ASSUME UNCHANGED <<Charged, Dues, Lefts>>
  PROVE  UNCHANGED Items!items
  BY DEF Items!items, Charged, ChargeOf, Dues, Lefts

LEMMA ItemsInit ==
  ASSUME Charged = [d \in Mains |-> 0], Dues = Charged, Lefts = [c \in Sources |-> 0]
  PROVE  Items!Init
  BY DEF Items!Init, Charged, ChargeOf, Dues, Lefts

(* What was charged stays; only an issue charges. *)
LEMMA ChargedIs ==
  ASSUME TypeOK, NEW d \in Mains
  PROVE  ChargeOf(d) = IF doc[d].status \notin {"NONE", "DRAFT", "DELETED"} THEN doc[d].total ELSE 0
  BY PostedIs, RowSets DEF ChargeOf

LEMMA ChargedNext ==
  ASSUME doc' \in [Docs -> Document], NEW d \in Mains
  PROVE  ChargeOf(d)' = IF doc'[d].status \notin {"NONE", "DRAFT", "DELETED"} THEN doc'[d].total ELSE 0
  <1>1. d \in Docs /\ doc'[d].status \in DocStatus
    BY RowSets DEF Document
  <1>. QED  BY <1>1 DEF ChargeOf, Posted, Open, DocStatus

LEMMA ChargeKept ==
  ASSUME TypeOK, doc' \in [Docs -> Document], NEW d \in Mains,
         MoneyMove(d, doc'[d]) \/ DraftMove(d, doc'[d]) \/ CancelledNow(d, doc'[d])
  PROVE  ChargeOf(d)' = ChargeOf(d)
  <1>0. doc[d] \in Document /\ d \in Docs
    BY DocType, RowSets
  <1>1. CASE MoneyMove(d, doc'[d])
    BY <1>0, <1>1, MoneyFields, ChargedIs, ChargedNext DEF Open
  <1>2. CASE CancelledNow(d, doc'[d])
    <2>1. doc[d].status \in Open /\ doc'[d].status = "CANCELLED" /\ doc'[d].total = doc[d].total
      BY <1>0, <1>2 DEF CancelledNow, Document
    <2>. QED  BY <2>1, ChargedIs, ChargedNext DEF Open
  <1>3. CASE Born(d, doc'[d]) \/ Edited(d, doc'[d]) \/ Removed(d, doc'[d])
    <2>1. doc[d].status \in {"NONE", "DRAFT"} /\ doc'[d].status \in {"DRAFT", "DELETED"}
      BY <1>0, <1>3, DeletedType DEF Born, Edited, Removed, Document
    <2>. QED  BY <2>1, ChargedIs, ChargedNext
  <1>. QED  BY <1>1, <1>2, <1>3 DEF DraftMove, MoneyMove

LEMMA AllChargesKept ==
  ASSUME TypeOK, doc' \in [Docs -> Document],
         \A d \in Mains : MoneyMove(d, doc'[d]) \/ DraftMove(d, doc'[d]) \/ CancelledNow(d, doc'[d])
  PROVE  Charged' = Charged
  <1>1. \A d \in Mains : ChargeOf(d)' = ChargeOf(d)
    BY ChargeKept
  <1>. QED  BY <1>1, Zenon DEF Charged

LEMMA OpensMove ==
  ASSUME IInv, [Next]_vars, NEW due, NEW left, NEW n, Takes(due, left, n)
  PROVE  /\ Dues' = [d \in Mains |-> Dues[d] - due[d]]
         /\ Lefts' = [x \in Sources |-> Lefts[x] - left[x]]
         /\ Dues \in [Mains -> Nat] /\ Lefts \in [Sources -> Nat]
         /\ Dues' \in [Mains -> Nat] /\ Lefts' \in [Sources -> Nat]
         /\ \A d \in Mains : Dues[d] = BalanceDue(d)
         /\ \A x \in Sources : Lefts[x] = Left(x)
  <1>1. OpensTyped /\ OpensTyped'
    BY OpensType, OpensTypeNext
  <1>. DEFINE dues == Dues  new == Dues'  lefts == Lefts  next == Lefts'
  <1>2. /\ dues \in [Mains -> Nat] /\ lefts \in [Sources -> Nat]
        /\ new \in [Mains -> Nat] /\ next \in [Sources -> Nat]
        /\ \A d \in Mains : dues[d] = BalanceDue(d)
        /\ \A x \in Sources : lefts[x] = Left(x)
    BY <1>1 DEF OpensTyped
  <1>3. \A d \in Mains : new[d] = dues[d] - due[d]
    BY <1>1 DEF OpensTyped, Takes
  <1>4. \A x \in Sources : next[x] = lefts[x] - left[x]
    BY <1>1 DEF OpensTyped, Takes
  <1>. HIDE DEF dues, new, lefts, next
  <1>5. new = [d \in Mains |-> dues[d] - due[d]] /\ next = [x \in Sources |-> lefts[x] - left[x]]
    BY <1>2, <1>3, <1>4
  <1>. QED  BY <1>2, <1>5 DEF dues, new, lefts, next

(* Taking nothing, or from one row, as functions. *)
LEMMA LessIs ==
  ASSUME NEW S, NEW f \in [S -> Nat]
  PROVE  /\ [x \in S |-> f[x] - Zeros(S)[x]] = f
         /\ \A take : (\A x \in S : take[x] \in Nat /\ take[x] <= f[x])
                => LessOrSame(f, [x \in S |-> f[x] - take[x]], S)
  <1>1. [x \in S |-> f[x] - Zeros(S)[x]] = f
    BY DEF Zeros
  <1>2. ASSUME NEW take, \A x \in S : take[x] \in Nat /\ take[x] <= f[x]
        PROVE  LessOrSame(f, [x \in S |-> f[x] - take[x]], S)
    <2>1. \A x \in S : f[x] - take[x] \in 0 .. f[x]
      BY <1>2
    <2>. QED  BY <2>1 DEF LessOrSame
  <1>. QED  BY <1>1, <1>2

(* Taking v from the row a alone, as EXCEPT. *)
LessAt(f, a, v) == [f EXCEPT ![a] = @ - v]

LEMMA LessOnly ==
  ASSUME NEW S, NEW f \in [S -> Nat], NEW g, NEW a, NEW v \in Int,
         g = [x \in S |-> f[x] - Only(S, a, v)[x]]
  PROVE  g = LessAt(f, a, v)
  <1>1. \A x \in S : Only(S, a, v)[x] = IF x = a THEN v ELSE 0
    BY DEF Only
  <1>2. \A x \in S : g[x] = IF x = a THEN f[a] - v ELSE f[x]
    BY <1>1
  <1>. QED  BY <1>2 DEF LessAt

LEMMA LessNothing ==
  ASSUME NEW S, NEW f \in [S -> Nat], NEW g, g = [x \in S |-> f[x] - Zeros(S)[x]]
  PROVE  g = f
  BY LessIs

LEMMA LessTyped ==
  ASSUME NEW S, NEW f \in [S -> Nat], NEW g \in [S -> Nat], \A x \in S : g[x] <= f[x]
  PROVE  LessOrSame(f, g, S)
  BY DEF LessOrSame

(* Each commit is a step of OpenItems. *)
LEMMA IssueRefines ==
  ASSUME SettlesInv, [Next]_vars, NEW r \in Requests, CommitIssue(r)
  PROVE  (\E d \in Mains : Items!Charge(d)) \/ Items!Give
  <1>0. IInv /\ TypeOK
    BY DEF SettlesInv, LocksInv, IInv
  <1>1. PICK d, n, o : d = req[r].row /\ n = req[r].amount /\ o = doc[d].against
    OBVIOUS
  <1>2. /\ d \in Docs /\ n \in Nat /\ n > 0 /\ doc[d].status = "DRAFT" /\ o \in Mains \cup {0}
        /\ doc[d].total = n /\ doc'[d].total = n /\ doc'[d].status = "ISSUED"
        /\ d \in Mains => Takes(Only(Mains, d, 0 - n), Zeros(Sources), 0 - n)
        /\ d \in Notes => Takes(Only(Mains, o, n), Only(Sources, d, IF o = 0 THEN 0 - n ELSE 0), n)
        /\ d \in Notes /\ o # 0 => n <= BalanceDue(o)
    BY <1>1, IssueTakes
  <1>3. doc' \in [Docs -> Document] /\ \A e \in Docs : e # d => MoneyMove(e, doc'[e])
    BY <1>0, <1>1, IssueMoves
  <1>4. CASE d \in Mains
    <2>1. /\ Dues' = [e \in Mains |-> Dues[e] - Only(Mains, d, 0 - n)[e]]
          /\ Lefts' = [x \in Sources |-> Lefts[x] - Zeros(Sources)[x]]
          /\ Dues \in [Mains -> Nat] /\ Lefts \in [Sources -> Nat]
          /\ \A e \in Mains : Dues[e] = BalanceDue(e)
      BY <1>0, <1>2, <1>4, OpensMove
    <2>2. Lefts' = Lefts /\ Dues' = [Dues EXCEPT ![d] = @ - (0 - n)]
      <3>1. 0 - n \in Int
        BY <1>2
      <3>2. Lefts' = Lefts
        BY <2>1, LessNothing
      <3>3. Dues' = LessAt(Dues, d, 0 - n)
        BY <2>1, <3>1, LessOnly
      <3>. QED  BY <3>2, <3>3 DEF LessAt
    <2>3. Dues[d] = 0
      BY <1>2, <1>4, <2>1, OpensAre DEF DueOf, Open
    <2>4. Dues' = [Dues EXCEPT ![d] = n]
      <3>1. Dues[d] - (0 - n) = n
        BY <1>2, <2>3
      <3>. QED  BY <2>2, <3>1
    <2>5. ChargeOf(d) = 0 /\ ChargeOf(d)' = n
      BY <1>0, <1>2, <1>3, <1>4, ChargedIs, ChargedNext
    <2>6. \A e \in Mains : e # d => ChargeOf(e)' = ChargeOf(e)
      BY <1>0, <1>3, ChargeKept, RowSets
    <2>7. Charged' = [Charged EXCEPT ![d] = n] /\ Charged[d] = 0 /\ Charged'[d] = n
      BY <1>4, <2>5, <2>6 DEF Charged
    <2>8. Items!Charge(d)
      <3>1. Charged'[d] \in Nat \ {0}
        BY <1>2, <2>7
      <3>. QED  BY <2>2, <2>4, <2>7, <3>1, ItemsCharge
    <2>. QED  BY <1>4, <2>8
  <1>5. CASE d \in Notes
    <2>. DEFINE c == IF o = 0 THEN 0 - n ELSE 0
    <2>0. d \in Sources /\ 0 \notin Mains /\ d \notin Mains
      BY <1>5, RowSets DEF Sources
    <2>1. /\ Dues' = [e \in Mains |-> Dues[e] - Only(Mains, o, n)[e]]
          /\ Lefts' = [x \in Sources |-> Lefts[x] - Only(Sources, d, c)[x]]
          /\ Dues \in [Mains -> Nat] /\ Lefts \in [Sources -> Nat]
          /\ Lefts' \in [Sources -> Nat]
          /\ \A e \in Mains : Dues[e] = BalanceDue(e)
          /\ \A x \in Sources : Lefts[x] = Left(x)
      BY <1>0, <1>2, <1>5, OpensMove
    <2>2. Dues' = [Dues EXCEPT ![o] = @ - n] /\ Lefts' = [Lefts EXCEPT ![d] = @ - c]
      <3>1. c \in Int /\ n \in Int
        BY <1>2
      <3>. HIDE DEF c
      <3>2. Dues' = LessAt(Dues, o, n)
        BY <2>1, <3>1, LessOnly
      <3>3. Lefts' = LessAt(Lefts, d, c)
        BY <2>1, <3>1, LessOnly
      <3>. QED  BY <3>2, <3>3 DEF LessAt
    <2>3. Charged' = Charged
      <3>1. \A e \in Mains : MoneyMove(e, doc'[e])
        BY <1>3, <2>0, RowSets
      <3>. QED  BY <1>0, <1>3, <3>1, AllChargesKept
    <2>4. \A e \in Mains : Only(Mains, o, n)[e] \in Nat /\ Only(Mains, o, n)[e] <= Dues[e]
      <3>1. \A e \in Mains : Only(Mains, o, n)[e] = IF e = o THEN n ELSE 0
        BY DEF Only
      <3>2. o \in Mains => o # 0 /\ n <= Dues[o]
        BY <1>2, <1>5, <2>0, <2>1
      <3>3. \A e \in Mains : Dues[e] \in Nat
        BY <2>1
      <3>. QED  BY <1>2, <3>1, <3>2, <3>3
    <2>5. LessOrSame(Dues, Dues', Mains)
      BY <2>1, <2>4, LessIs
    <2>6. CASE o # 0
      <3>1. c = 0 /\ o \in Mains
        BY <1>2, <2>6
      <3>2. Lefts' = Lefts
        BY <2>0, <2>1, <2>2, <3>1
      <3>3. Dues'[o] = Dues[o] - n /\ Dues[o] \in Nat
        BY <2>1, <2>2, <3>1
      <3>4. Dues' # Dues
        BY <1>2, <3>3
      <3>. QED  BY <2>3, <2>5, <3>2, <3>4, ItemsGive
    <2>7. CASE o = 0
      <3>1. Lefts[d] = 0
        BY <1>2, <1>5, <2>0, <2>1, OpensAre DEF CreditOf
      <3>2. Lefts'[d] = 0 - (0 - n)
        BY <2>0, <2>1, <2>2, <2>7, <3>1
      <3>3. Lefts'[d] \in Nat \ {0}
        BY <1>2, <3>2
      <3>4. Lefts' = [Lefts EXCEPT ![d] = Lefts'[d]]
        BY <2>1, <2>2
      <3>. QED  BY <2>0, <2>3, <2>5, <3>1, <3>3, <3>4, ItemsGive
    <2>. QED  BY <2>6, <2>7
  <1>. QED  BY <1>2, <1>4, <1>5 DEF Docs

LEMMA CancelRefines ==
  ASSUME SettlesInv, [Next]_vars, NEW r \in Requests, CommitCancel(r)
  PROVE  \E d \in Mains : Items!Waive(d)
  <1>0. IInv /\ TypeOK
    BY DEF SettlesInv, LocksInv, IInv
  <1>1. PICK d, n : d = req[r].row /\ n = doc[d].total
    OBVIOUS
  <1>2. /\ d \in Mains /\ n \in Nat /\ n > 0 /\ BalanceDue(d) = n
        /\ doc[d].status \in Open
        /\ Takes(Only(Mains, d, n), Zeros(Sources), n)
    BY <1>1, CancelTakes
  <1>3. /\ Dues' = [e \in Mains |-> Dues[e] - Only(Mains, d, n)[e]]
        /\ Lefts' = [x \in Sources |-> Lefts[x] - Zeros(Sources)[x]]
        /\ Dues \in [Mains -> Nat] /\ Lefts \in [Sources -> Nat]
        /\ \A e \in Mains : Dues[e] = BalanceDue(e)
    BY <1>0, <1>2, OpensMove
  <1>4. Lefts' = Lefts /\ Dues' = [Dues EXCEPT ![d] = @ - n]
    <2>1. Lefts' = Lefts
      BY <1>3, LessNothing
    <2>2. Dues' = LessAt(Dues, d, n)
      BY <1>2, <1>3, LessOnly
    <2>. QED  BY <2>1, <2>2 DEF LessAt
  <1>5. Dues[d] = n /\ Dues' = [Dues EXCEPT ![d] = 0]
    <2>1. Dues[d] = n /\ Dues[d] - n = 0
      BY <1>2, <1>3
    <2>. QED  BY <1>4, <2>1
  <1>6. Charged' = Charged
    <2>1. /\ doc' \in [Docs -> Document] /\ CancelledNow(d, doc'[d])
          /\ \A e \in Docs : e # d => doc'[e] = doc[e]
      BY <1>0, <1>1, CancelMoves
    <2>. QED  BY <1>0, <2>1, AllChargesKept, RowSets DEF MoneyMove
  <1>7. Charged[d] = n
    BY <1>0, <1>1, <1>2, ChargedIs DEF Charged, Open
  <1>8. Items!Waive(d)
    BY <1>2, <1>4, <1>5, <1>6, <1>7, ItemsWaive
  <1>. QED  BY <1>2, <1>8

LEMMA MoneyCommitCharges ==
  ASSUME SettlesInv, NEW r \in Requests,
         CommitPay(r) \/ (\E p \in Receipts : CommitReceive(r, p)) \/ CommitApply(r) \/ CommitRefund(r)
  PROVE  Charged' = Charged
  <1>0. IInv /\ TypeOK /\ DocsWF /\ AmountsInRange /\ req[r].take \in [Rows -> Nat]
    BY ReqType DEF SettlesInv, LocksInv, IInv
  <1>1. CASE CommitApply(r)
    BY <1>0, <1>1, ApplyMoves, AllChargesKept, RowSets
  <1>2. ASSUME doc' = AfterTaking(req[r].take), Fits(req[r].take) PROVE Charged' = Charged
    <2>1. doc' \in [Docs -> Document] /\ \A d \in Docs : MoneyMove(d, doc'[d])
      BY <1>0, <1>2, AfterTakingMoves
    <2>. QED  BY <1>0, <2>1, AllChargesKept, RowSets
  <1>3. CASE CommitPay(r)
    BY <1>2, <1>3 DEF CommitPay, Ready
  <1>4. CASE \E p \in Receipts : CommitReceive(r, p)
    BY <1>2, <1>4 DEF CommitReceive, Ready
  <1>5. CASE CommitRefund(r)
    BY <1>2, <1>5 DEF CommitRefund, Ready
  <1>. QED  BY <1>1, <1>3, <1>4, <1>5

LEMMA PayRefines ==
  ASSUME SettlesInv, [Next]_vars, NEW r \in Requests, CommitPay(r)
  PROVE  Items!Give
  <1>0. IInv /\ Charged' = Charged
    BY MoneyCommitCharges DEF SettlesInv, LocksInv
  <1>1. PICK d, n : d = req[r].row /\ n = req[r].amount
    OBVIOUS
  <1>2. /\ d \in Mains /\ n \in Nat /\ n > 0 /\ n <= BalanceDue(d)
        /\ Takes(Only(Mains, d, n), Zeros(Sources), n)
    BY <1>1, PayTakes
  <1>3. /\ Dues' = [e \in Mains |-> Dues[e] - Only(Mains, d, n)[e]]
        /\ Lefts' = [x \in Sources |-> Lefts[x] - Zeros(Sources)[x]]
        /\ Dues \in [Mains -> Nat] /\ Lefts \in [Sources -> Nat]
        /\ \A e \in Mains : Dues[e] = BalanceDue(e)
    BY <1>0, <1>2, OpensMove
  <1>4. Lefts' = Lefts
    BY <1>3, LessIs
  <1>5. \A e \in Mains : Only(Mains, d, n)[e] \in Nat /\ Only(Mains, d, n)[e] <= Dues[e]
    BY <1>2, <1>3 DEF Only
  <1>6. LessOrSame(Dues, Dues', Mains)
    BY <1>3, <1>5, LessIs
  <1>7. Dues' # Dues
    <2>1. Dues'[d] = Dues[d] - n /\ Dues[d] \in Nat
      BY <1>2, <1>3 DEF Only
    <2>. QED  BY <1>2, <2>1
  <1>. QED  BY <1>0, <1>4, <1>6, <1>7, ItemsGive

LEMMA ReceiveRefines ==
  ASSUME IsFiniteSet(Rows), SettlesInv, [Next]_vars, NEW r \in Requests, NEW p \in Receipts,
         CommitReceive(r, p)
  PROVE  Items!Give
  <1>0. IInv /\ Charged' = Charged
    BY MoneyCommitCharges DEF SettlesInv, LocksInv
  <1>1. PICK take, n, m : take = req[r].take /\ n = req[r].amount /\ m = SumFunction(take)
    OBVIOUS
  <1>2. /\ take \in [Rows -> Nat] /\ n \in Nat /\ n > 0 /\ m \in 0 .. n
        /\ \A x \in Rows \ Mains : take[x] = 0
        /\ \A d \in Mains : take[d] <= BalanceDue(d)
        /\ Left(p) = 0 /\ p \in Sources
        /\ Takes(Part(Mains, take), Only(Sources, p, m - n), n)
    BY <1>1, ReceiveTakes DEF Sources
  <1>3. /\ Dues' = [e \in Mains |-> Dues[e] - Part(Mains, take)[e]]
        /\ Lefts' = [x \in Sources |-> Lefts[x] - Only(Sources, p, m - n)[x]]
        /\ Dues \in [Mains -> Nat] /\ Lefts \in [Sources -> Nat]
        /\ \A e \in Mains : Dues[e] = BalanceDue(e)
        /\ \A x \in Sources : Lefts[x] = Left(x)
    BY <1>0, <1>2, OpensMove
  <1>4. \A e \in Mains : /\ Part(Mains, take)[e] = take[e] /\ take[e] \in Nat
                        /\ Part(Mains, take)[e] \in Nat /\ Part(Mains, take)[e] <= Dues[e]
    BY <1>2, <1>3, RowSets DEF Part
  <1>5. LessOrSame(Dues, Dues', Mains)
    BY <1>3, <1>4, LessIs
  <1>6. Lefts' = [Lefts EXCEPT ![p] = @ - (m - n)] /\ Lefts'[p] = n - m
    <2>1. m - n \in Int
      BY <1>2
    <2>2. Lefts' = LessAt(Lefts, p, m - n)
      BY <1>3, <2>1, LessOnly
    <2>3. Lefts'[p] = 0 - (m - n)
      BY <1>2, <1>3, <2>2 DEF LessAt
    <2>. QED  BY <1>2, <2>2, <2>3 DEF LessAt
  <1>7. CASE m = n
    <2>1. \E x \in Rows : take[x] # 0
      <3>1. SUFFICES ASSUME \A x \in Rows : take[x] = 0 PROVE FALSE
        OBVIOUS
      <3>2. take = Zeros(Rows)
        BY <1>2, <3>1 DEF Zeros
      <3>3. SumFunction(take) = 0
        BY <3>2, SumZeros
      <3>4. m = 0
        BY <1>1, <3>3, Zenon
      <3>5. n > 0 /\ n \in Nat
        BY <1>2
      <3>. QED  BY <1>7, <3>4, <3>5
    <2>2. PICK e \in Mains : take[e] # 0
      BY <1>2, <2>1
    <2>3. Dues'[e] = Dues[e] - take[e] /\ Dues[e] \in Nat /\ take[e] \in Nat
      BY <1>3, <1>4
    <2>4. Dues' # Dues
      BY <2>2, <2>3
    <2>5. Lefts' = Lefts
      <3>1. \A x \in Sources : Lefts[x] - Only(Sources, p, m - n)[x] = Lefts[x]
        <4>1. m - n = 0
          BY <1>2, <1>7
        <4>2. \A x \in Sources : Only(Sources, p, 0)[x] = 0
          BY DEF Only
        <4>. QED  BY <1>3, <4>1, <4>2
      <3>. QED  BY <1>3, <3>1
    <2>. QED  BY <1>0, <1>5, <2>4, <2>5, ItemsGive
  <1>8. CASE m # n
    <2>1. Lefts'[p] \in Nat \ {0}
      BY <1>2, <1>6, <1>8
    <2>2. Lefts' = [Lefts EXCEPT ![p] = Lefts'[p]]
      BY <1>3, <1>6
    <2>3. Lefts[p] = 0
      BY <1>2, <1>3
    <2>. QED  BY <1>0, <1>2, <1>5, <2>1, <2>2, <2>3, ItemsGive
  <1>. QED  BY <1>7, <1>8

LEMMA CreditFalls ==
  ASSUME IsFiniteSet(Rows), IInv, [Next]_vars, NEW take \in [Rows -> Nat], NEW due, NEW n,
         \A x \in Rows \ Sources : take[x] = 0, \A x \in Sources : take[x] <= Left(x),
         Takes(due, Part(Sources, take), n)
  PROVE  /\ LessOrSame(Lefts, Lefts', Sources)
         /\ SumFunction(take) = SumFunction([c \in Sources |-> Lefts[c] - Lefts'[c]])
  <1>1. /\ Lefts' = [x \in Sources |-> Lefts[x] - Part(Sources, take)[x]]
        /\ Lefts \in [Sources -> Nat] /\ \A x \in Sources : Lefts[x] = Left(x)
    BY OpensMove
  <1>2. \A x \in Sources : /\ Part(Sources, take)[x] = take[x] /\ take[x] \in Nat
                          /\ Part(Sources, take)[x] <= Lefts[x]
    BY <1>1, RowSets DEF Part
  <1>3. LessOrSame(Lefts, Lefts', Sources)
    BY <1>1, <1>2, LessIs
  <1>4. \A c \in Sources : Lefts[c] - Lefts'[c] = take[c]
    BY <1>1, <1>2
  <1>5. [c \in Sources |-> Lefts[c] - Lefts'[c]] = Part(Sources, take)
    BY <1>4 DEF Part
  <1>6. SumFunction(Part(Sources, take)) = SumFunction(take)
    BY PartSum, RowSets
  <1>. QED  BY <1>3, <1>5, <1>6

LEMMA ApplyRefines ==
  ASSUME IsFiniteSet(Rows), SettlesInv, [Next]_vars, NEW r \in Requests, CommitApply(r)
  PROVE  \E d \in Mains : Items!Use(d)
  <1>0. IInv /\ Charged' = Charged
    BY MoneyCommitCharges DEF SettlesInv, LocksInv
  <1>1. PICK take, n, d : take = req[r].take /\ n = req[r].amount /\ d = req[r].row
    OBVIOUS
  <1>2. /\ take \in [Rows -> Nat] /\ n \in Nat /\ n > 0 /\ n = SumFunction(take)
        /\ \A x \in Rows \ Sources : take[x] = 0
        /\ \A x \in Sources : take[x] <= Left(x)
        /\ d \in Mains /\ n <= BalanceDue(d)
        /\ Takes(Only(Mains, d, n), Part(Sources, take), 0)
    BY <1>1, ApplyTakes
  <1>3. /\ LessOrSame(Lefts, Lefts', Sources)
        /\ n = SumFunction([c \in Sources |-> Lefts[c] - Lefts'[c]])
    BY <1>0, <1>2, CreditFalls
  <1>4. /\ Dues' = [e \in Mains |-> Dues[e] - Only(Mains, d, n)[e]]
        /\ Dues \in [Mains -> Nat] /\ \A e \in Mains : Dues[e] = BalanceDue(e)
    BY <1>0, <1>2, OpensMove
  <1>5. Dues' = LessAt(Dues, d, n)
    BY <1>2, <1>4, LessOnly
  <1>6. n \in 1 .. Dues[d]
    BY <1>2, <1>4
  <1>7. Items!Use(d)
    BY <1>0, <1>3, <1>5, <1>6, ItemsUse DEF LessAt
  <1>. QED  BY <1>2, <1>7

LEMMA RefundRefines ==
  ASSUME IsFiniteSet(Rows), SettlesInv, [Next]_vars, NEW r \in Requests, CommitRefund(r)
  PROVE  Items!PayBack
  <1>0. IInv /\ Charged' = Charged
    BY MoneyCommitCharges DEF SettlesInv, LocksInv
  <1>1. PICK take, n : take = req[r].take /\ n = req[r].amount
    OBVIOUS
  <1>2. /\ take \in [Rows -> Nat]
        /\ \A x \in Rows \ Sources : take[x] = 0
        /\ \A x \in Sources : take[x] <= Left(x)
        /\ Takes(Zeros(Mains), Part(Sources, take), 0 - n)
    BY <1>1, RefundTakes
  <1>3. LessOrSame(Lefts, Lefts', Sources)
    BY <1>0, <1>2, CreditFalls
  <1>4. Dues' = [e \in Mains |-> Dues[e] - Zeros(Mains)[e]] /\ Dues \in [Mains -> Nat]
    BY <1>0, <1>2, OpensMove
  <1>5. Dues' = Dues
    BY <1>4, LessIs
  <1>. QED  BY <1>0, <1>3, <1>5, ItemsPayBack

(* Every other step is a stutter. *)
LEMMA OthersRefine ==
  ASSUME IInv, [Next]_vars,
         (\E r \in Requests : CommitReverse(r)) \/ ~\E r \in Requests : Committing(r)
  PROVE  UNCHANGED Items!items
  <1>0. TypeOK /\ doc' \in [Docs -> Document]
    BY DocMoves DEF IInv
  <1>1. \E n : Takes(Zeros(Mains), Zeros(Sources), n)
    BY ReverseTakes, QuietTakesNothing
  <1>2. PICK n : Takes(Zeros(Mains), Zeros(Sources), n)
    BY <1>1
  <1>3. Dues' = Dues /\ Lefts' = Lefts
    <2>1. /\ Dues' = [d \in Mains |-> Dues[d] - Zeros(Mains)[d]]
          /\ Lefts' = [x \in Sources |-> Lefts[x] - Zeros(Sources)[x]]
          /\ Dues \in [Mains -> Nat] /\ Lefts \in [Sources -> Nat]
      BY <1>2, OpensMove
    <2>. QED  BY <2>1, LessIs
  <1>4. Charged' = Charged
    <2>1. CASE Drafting
      BY <1>0, <2>1, DraftMoves, AllChargesKept, RowSets
    <2>2. ASSUME doc' = doc PROVE Charged' = Charged
      BY <1>0, <2>2, AllChargesKept DEF MoneyMove
    <2>3. \A r \in Requests : Preparing(r) \/ Waiting(r) \/ CommitReverse(r) => doc' = doc
      BY QuietMoves DEF CommitReverse
    <2>4. UNCHANGED vars => doc' = doc
      BY DEF vars
    <2>. QED  BY <2>1, <2>2, <2>3, <2>4, NextIs
  <1>. QED  BY <1>3, <1>4, ItemsStutter

LEMMA StepRefines ==
  ASSUME IsFiniteSet(Rows), SettlesInv, [Next]_vars
  PROVE  [Items!Next]_(Items!items)
  <1>0. IInv
    BY DEF SettlesInv, LocksInv
  <1>1. CASE (\E r \in Requests : CommitReverse(r)) \/ ~\E r \in Requests : Committing(r)
    BY <1>0, <1>1, OthersRefine
  <1>2. ASSUME NEW r \in Requests, Committing(r), ~CommitReverse(r)
        PROVE  Items!Next
    <2>1. \/ Items!Give \/ Items!PayBack
          \/ \E d \in Mains : Items!Charge(d) \/ Items!Waive(d) \/ Items!Use(d)
      BY <1>2, IssueRefines, CancelRefines, PayRefines, ReceiveRefines, ApplyRefines, RefundRefines
         DEF Committing
    <2>. QED  BY <2>1 DEF Items!Next
  <1>. QED  BY <1>1, <1>2

LEMMA InitRefines ==
  ASSUME Init
  PROVE  Items!Init
  <1>0. IInv /\ TypeOK /\ doc = [d \in Docs |-> NoDoc] /\ receipt = [p \in Receipts |-> NoReceipt]
    BY InitIInv DEF Init, IInv
  <1>1. \A d \in Mains : BalanceDue(d) = 0 /\ ChargeOf(d) = 0
    BY <1>0, OpensAre, ChargedIs, RowSets DEF DueOf, NoDoc, Open
  <1>2. \A x \in Sources : Left(x) = 0
    <2>1. \A x \in Notes : Left(x) = 0
      BY <1>0, OpensAre, RowSets DEF CreditOf, NoDoc
    <2>2. \A p \in Receipts : Left(p) = 0
      BY <1>0, OpensAre DEF NoReceipt
    <2>. QED  BY <2>1, <2>2 DEF Sources
  <1>3. Charged = [d \in Mains |-> 0] /\ Dues = [d \in Mains |-> 0] /\ Lefts = [c \in Sources |-> 0]
    BY <1>1, <1>2, Zenon DEF Charged, Dues, Lefts
  <1>. QED  BY <1>3, ItemsInit

(* Documents and payments implement the open items: debts fall only by     *)
(* what was given or used for them, and no credit is used twice.           *)
THEOREM RefinesOpenItems == ASSUME IsFiniteSet(Rows) PROVE Spec => ImplementsOpenItems
  <1>1. Init => SettlesInv /\ Items!Init
    BY InitSettlesInv, InitRefines
  <1>2. SettlesInv /\ [Next]_vars => SettlesInv' /\ [Items!Next]_(Items!items)
    BY StepSettlesInv, StepRefines
  <1>. QED  BY <1>1, <1>2, PTL DEF Spec, ImplementsOpenItems, Items!Spec
=============================================================================
