----------------------------- MODULE Documents -----------------------------
(***************************************************************************)
(* Invoices, estimates (pro-formas) and supplier bills from draft to       *)
(* posting: what a request writes is computed from what it has read in     *)
(* earlier transactions -- the row, its lines, the party, the catalogue -- *)
(* while other requests edit, answer, convert, issue or delete the same    *)
(* document, the customer's currency changes and items are repriced.       *)
(*                                                                         *)
(* Payments, notes and credit limits are modelled in Receivables, the      *)
(* accounts a line may post to in Vouchers.  Documents are in the base     *)
(* currency of the business.  Texts are one field (note); the control      *)
(* account, the branch and the delivery details are left out.              *)
(***************************************************************************)
EXTENDS Integers, FiniteSets, Functions, SequencesExt

CONSTANTS
    Docs,           \* ids of documents
    Parties,        \* customers and suppliers
    Items,          \* the catalogue
    Accounts,       \* accounts of lines and of their VAT
    VatAccount,     \* the business's own VAT account
    Requests,       \* requests, one each
    Orders,         \* what creating requests send
    Patches,        \* what editing requests send
    PartyChanges,   \* edits of a party: its currency and terms
    ItemChanges,    \* edits of an item: its price, and whether it is active
    Initial,        \* the drafts at the start: functions of Docs to Orders
    InitialParty,   \* the parties at the start
    InitialItem,    \* the catalogue at the start
    BaseCurrency, Currencies,
    Days,           \* the days that may be today
    MaxClock,       \* bound: milliseconds in which requests run
    Keep,           \* a field that a patch leaves alone
    None

VARIABLES
    document,   \* the row of each document with its lines, None if it has none
    journals,   \* the journals posted for each document, in order
    party,      \* currency and payment terms of each party
    item,       \* price, accounts and state of each item
    request,    \* what each request has read and computed
    clock,      \* milliseconds
    history,    \* history: every row each document has had, with its origin
    unsettled   \* history: parties whose currency changed under a draft

vars == <<document, journals, party, item, request, clock, history, unsettled>>

-----------------------------------------------------------------------------
(* Amounts of lines, in whole minor units; quantities are in thousandths,  *)
(* rates in basis points.                                                  *)

TaxModes == {"EXCLUSIVE", "INCLUSIVE", "NONE"}

BasisPoints == 10000

DivideHalfUp(n, d) == (2 * n + d) \div (2 * d)

Either(value, default) == IF value # None THEN value ELSE default

UnitPriceFromAmount(amount, quantity) == DivideHalfUp(amount * 1000, quantity)

Amount(line) ==
    IF line.amount # None THEN line.amount
    ELSE DivideHalfUp(line.quantity * line.price, 1000)

ComputeLine(line, mode) ==
    LET rate == IF mode = "NONE" THEN 0 ELSE line.rate
        whole == IF mode = "INCLUSIVE" THEN BasisPoints + rate ELSE BasisPoints
        tax == DivideHalfUp(Amount(line) * rate, whole)
        net == IF mode = "INCLUSIVE" THEN Amount(line) - tax ELSE Amount(line)
    IN  [net |-> net, tax |-> tax, total |-> net + tax]

SumOf(lines, part(_)) == SumFunction([n \in DOMAIN lines |-> part(lines[n])])

ComputeTotal(lines) ==
    SumOf(lines, LAMBDA l : l.net) + SumOf(lines, LAMBDA l : l.tax)

-----------------------------------------------------------------------------
(* Lines: as they are asked for, and as they are stored.                   *)

Rates == 0 .. BasisPoints

Line == [item : Items \cup {None}, quantity : Nat \ {0}, price : Nat \cup {None},
         amount : Nat \cup {None}, account : Accounts \cup {None},
         rate : Rates, vat : Accounts \cup {None}]

(* Only a bill's line may state its amount; a line without an item states  *)
(* its account and its price.                                              *)
ValidInvoiceLine(line) ==
    /\ line.amount = None
    /\ line.item = None => line.price # None /\ line.account # None

ValidBillLine(line) ==
    /\ line.price = None \/ line.amount = None
    /\ line.item = None => /\ line.account # None
                           /\ line.price # None \/ line.amount # None

ItemAccount(i, kind) == IF kind = "BILL" THEN item[i].purchase ELSE item[i].income

(* Mutant: the item's price of today wins over the one on the line. *)
ResolvedPriceToday(line) ==
    IF line.item # None /\ item[line.item].price # None THEN item[line.item].price
    ELSE IF line.price # None THEN line.price
    ELSE IF line.amount # None THEN UnitPriceFromAmount(line.amount, line.quantity) ELSE None

(* What a line states itself wins over its item. *)
ResolvedPrice(line) ==
    IF line.price # None THEN line.price
    ELSE IF line.amount # None THEN UnitPriceFromAmount(line.amount, line.quantity)
    ELSE IF line.item # None THEN item[line.item].price ELSE None

ResolvedAccount(line, kind) ==
    IF line.account # None \/ line.item = None THEN line.account
    ELSE ItemAccount(line.item, kind)

ResolveLine(line, kind) ==
    [line EXCEPT !.price = ResolvedPrice(line), !.account = ResolvedAccount(line, kind)]

ResolveLines(lines, kind) == [n \in DOMAIN lines |-> ResolveLine(lines[n], kind)]

Resolvable(lines, kind, allowInactive) ==
    \A n \in DOMAIN lines :
        /\ lines[n].item # None => item[lines[n].item].active \/ allowInactive
        /\ ResolvedPrice(lines[n]) # None
        /\ ResolvedAccount(lines[n], kind) # None

(* A line as it is stored: resolved, with its amounts. *)
StoredLine == [item : {None} \cup Items, quantity : Nat \ {0}, price : Nat,
               amount : {None} \cup Nat, account : Accounts, rate : Rates,
               vat : {None} \cup Accounts, net : Nat, tax : Nat, total : Nat]

LineFromRow(row) ==
    [item |-> row.item, quantity |-> row.quantity, price |-> row.price, amount |-> row.amount,
     account |-> row.account, rate |-> row.rate, vat |-> row.vat]

LinesFromRows(rows) == [n \in DOMAIN rows |-> LineFromRow(rows[n])]

(* A stored line: a taxed one has a VAT account, the business's by default.*)
BuildLine(line, mode) ==
    LET taxed == mode # "NONE" /\ line.rate > 0
        computed == ComputeLine(line, mode)
    IN  [item |-> line.item, quantity |-> line.quantity, price |-> line.price,
         amount |-> line.amount, account |-> line.account,
         rate |-> IF mode = "NONE" THEN 0 ELSE line.rate,
         vat |-> IF taxed THEN Either(line.vat, VatAccount) ELSE None,
         net |-> computed.net, tax |-> computed.tax, total |-> computed.total]

BuildLines(lines, mode) == [n \in DOMAIN lines |-> BuildLine(lines[n], mode)]

Buildable(lines, mode) ==
    /\ \A n \in DOMAIN lines : mode = "NONE" => lines[n].rate = 0
    /\ ComputeTotal(BuildLines(lines, mode)) > 0

-----------------------------------------------------------------------------
(* Documents: what requests ask for, and the rows.                         *)

Kinds == {"PROFORMA", "INVOICE", "BILL"}

Order == [kind : Kinds, party : Parties, mode : TaxModes, lines : Seq(Line),
          date : Nat, due : Nat \cup {None}, terms : Nat \cup {None}, note : STRING]

Untaxed(mode, lines) == mode = "NONE" => \A n \in DOMAIN lines : lines[n].rate = 0
DueAfter(o) == Len(o.lines) > 0 /\ (o.due # None => o.due >= o.date)

ValidInvoice(o) ==
    /\ Untaxed(o.mode, o.lines) /\ DueAfter(o)
    /\ \A n \in DOMAIN o.lines : ValidInvoiceLine(o.lines[n])

ValidBill(o) ==
    /\ Untaxed(o.mode, o.lines) /\ DueAfter(o) /\ o.terms = None
    /\ \A n \in DOMAIN o.lines : ValidBillLine(o.lines[n])

ValidOrder(o) == IF o.kind = "BILL" THEN ValidBill(o) ELSE ValidInvoice(o)

Fields == {"party", "mode", "lines", "date", "due", "terms", "note"}

Row == [kind : Kinds, status : {"DRAFT", "ISSUED", "CANCELLED"},
        response : {None, "ACCEPTED", "DECLINED"}, source : {None} \cup Docs, party : Parties,
        mode : TaxModes, lines : Seq(StoredLine), total : Int, date : Nat, terms : Nat,
        due : {None} \cup Nat, note : STRING, stamp : Nat]

(* A patch names at least one field; due and terms may be named as None.   *)
Patch == [party : {Keep} \cup Parties, mode : {Keep} \cup TaxModes, lines : {Keep} \cup Seq(Line),
          date : {Keep} \cup Nat, due : {Keep, None} \cup Nat, terms : {Keep, None} \cup Nat,
          note : {Keep} \cup STRING]

ValidPatch(p) == \E f \in Fields : p[f] # Keep

Party == [currency : {None} \cup Currencies, terms : {None} \cup Nat]
Item == [price : {None} \cup Nat, income : {None} \cup Accounts, purchase : {None} \cup Accounts,
         active : BOOLEAN]
PartyChange == [party : Parties, currency : {Keep, None} \cup Currencies,
                terms : {Keep, None} \cup Nat]
ItemChange == [item : Items, price : {Keep, None} \cup Nat]

ASSUME DocumentsAssumption ==
    /\ BaseCurrency \in Currencies
    /\ VatAccount \in Accounts
    /\ None \notin Docs \cup Parties \cup Items \cup Accounts \cup Currencies
    /\ None \notin Nat \cup {Keep, "ACCEPTED", "DECLINED"} /\ None \notin Row
    /\ \A o \in Orders : o \in Order /\ ValidOrder(o)
    /\ \A p \in Patches : p \in Patch /\ ValidPatch(p)
    /\ PartyChanges \subseteq PartyChange /\ ItemChanges \subseteq ItemChange
    /\ InitialParty \in [Parties -> Party] /\ InitialItem \in [Items -> Item]
    /\ \A drafts \in Initial : \A d \in DOMAIN drafts :
            d \in Docs /\ drafts[d] \in Order /\ ValidOrder(drafts[d])
    /\ Days \subseteq Nat /\ MaxClock \in Nat

Is(d, status) == document[d] # None /\ document[d].status = status
Exists(d) == document[d] # None
Proformas == {d \in Docs : Exists(d) /\ document[d].kind = "PROFORMA"}
Edition(d) == Len(history[d])
ConvertedInto(d) == {v \in Docs : Exists(v) /\ document[v].source = d}

(* An invoice or bill is due after its terms, an estimate when it says. *)
DueDate(kind, date, terms) == IF kind = "PROFORMA" THEN None ELSE date + terms

NewRow(o, lines, source, p) ==
    LET terms == Either(o.terms, Either(p[o.party].terms, 0))
        built == BuildLines(lines, o.mode)
    IN  [kind |-> o.kind, status |-> "DRAFT", response |-> None, source |-> source,
         party |-> o.party, mode |-> o.mode, lines |-> built, total |-> ComputeTotal(built),
         date |-> o.date, terms |-> terms, due |-> Either(o.due, DueDate(o.kind, o.date, terms)),
         note |-> o.note, stamp |-> 0]

Trades(c) == party[c].currency \in {None, BaseCurrency}

(* A request: what it does to which document, the row it has read (then    *)
(* the one it will write) with the editions of the row and of the lines it *)
(* saw, the journal it has prepared, and when it read.                     *)
Idle == [pc |-> "new", op |-> None, doc |-> None, patch |-> None, row |-> None,
         base |-> 0, linesBase |-> 0, journal |-> None, since |-> 0]

At(r, pc, op) == request[r].pc = pc /\ request[r].op = op
Refuse(r) == request' = [request EXCEPT ![r] = [Idle EXCEPT !.pc = "refused"]]
Done(r) == [request EXCEPT ![r] = [Idle EXCEPT !.pc = "done"]]

Entry(row, r, by) == [row |-> row, by |-> by, patch |-> request[r].patch,
                      base |-> request[r].base, linesBase |-> request[r].linesBase]

(* Writing a row: updated_at is when the transaction began, to the         *)
(* millisecond -- some moment between the last read of the request and now.*)
Write(r, d, row, by) ==
    \E stamp \in request[r].since .. clock :
        LET written == [row EXCEPT !.stamp = stamp]
        IN  /\ document' = [document EXCEPT ![d] = written]
            /\ history' = [history EXCEPT ![d] = Append(@, Entry(written, r, by))]

-----------------------------------------------------------------------------
(* Creating a draft, and converting an estimate into one.                  *)

Creatable(o) ==
    /\ Trades(o.party) /\ Resolvable(o.lines, o.kind, FALSE)
    /\ Buildable(ResolveLines(o.lines, o.kind), o.mode)

CheckCreate(r, o) ==
    /\ request[r].pc = "new"
    /\ IF Creatable(o)
       THEN request' = [request EXCEPT ![r] = [Idle EXCEPT
                !.pc = "checked", !.op = "create", !.since = clock,
                !.row = NewRow(o, ResolveLines(o.lines, o.kind), None, party)]]
       ELSE Refuse(r)
    /\ UNCHANGED <<document, journals, party, item, clock, history, unsettled>>

(* Mutant: any estimate that was not cancelled can be converted. *)
ConvertibleAny(row) == row.kind = "PROFORMA" /\ row.status # "CANCELLED"

Convertible(row) ==
    /\ row.kind = "PROFORMA"
    /\ row.status # "CANCELLED"
    /\ row.response # "DECLINED"

ReadProforma(r, p) ==
    /\ request[r].pc = "new"
    /\ Exists(p)
    /\ IF Convertible(document[p])
       THEN request' = [request EXCEPT ![r] = [Idle EXCEPT
                !.pc = "read", !.op = "convert", !.doc = p,
                !.row = document[p], !.base = Edition(p)]]
       ELSE Refuse(r)
    /\ UNCHANGED <<document, journals, party, item, clock, history, unsettled>>

(* The lines are read after the row.  They are copied as they are, items   *)
(* deactivated since included.                                             *)
CheckConvert(r, today) ==
    LET p == request[r].doc
        row == request[r].row
        lines == LinesFromRows(IF Exists(p) THEN document[p].lines ELSE <<>>)
        order == [row EXCEPT !.kind = "INVOICE", !.date = today, !.due = None]
    IN  /\ At(r, "read", "convert")
        /\ IF Trades(row.party) /\ Resolvable(lines, "INVOICE", TRUE)
              /\ Buildable(ResolveLines(lines, "INVOICE"), row.mode)
           THEN request' = [request EXCEPT ![r] = [@ EXCEPT
                    !.pc = "checked", !.since = clock, !.linesBase = Edition(p),
                    !.row = NewRow(order, ResolveLines(lines, "INVOICE"), p, party)]]
           ELSE Refuse(r)
        /\ UNCHANGED <<document, journals, party, item, clock, history, unsettled>>

Insertable(row) ==
    row.source # None => Exists(row.source) /\ ConvertedInto(row.source) = {}

NewId == CHOOSE d \in Docs : history[d] = <<>>

InsertInvoice(r) ==
    /\ request[r].pc = "checked"
    /\ request[r].op \in {"create", "convert"}
    /\ \E d \in Docs : history[d] = <<>>
    /\ IF Insertable(request[r].row)
       THEN /\ Write(r, NewId, request[r].row, request[r].op)
            /\ request' = Done(r)
       ELSE /\ Refuse(r)
            /\ UNCHANGED <<document, history>>
    /\ UNCHANGED <<journals, party, item, clock, unsettled>>

-----------------------------------------------------------------------------
(* Editing and deleting a draft.                                           *)

Named(new, old) == IF new # Keep THEN new ELSE old

PatchedTerms(row, p) ==
    LET ofParty == Either(party[Named(p.party, row.party)].terms, 0)
    IN  IF p.terms # Keep THEN Either(p.terms, ofParty)
        ELSE IF Named(p.party, row.party) # row.party THEN ofParty ELSE row.terms

(* The due date follows what it depends on, unless the patch states it. *)
PatchedDue(row, p) ==
    IF p.due \notin {Keep, None} THEN p.due
    ELSE IF \E f \in {"due", "date", "party", "terms"} : p[f] # Keep
         THEN DueDate(row.kind, Named(p.date, row.date), PatchedTerms(row, p))
         ELSE row.due

(* Mutant: a note that is not sent is cleared. *)
PatchedCleared(row, p, lines) ==
    LET built == BuildLines(lines, Named(p.mode, row.mode))
    IN  [row EXCEPT !.party = Named(p.party, @), !.mode = Named(p.mode, @),
            !.lines = built, !.total = ComputeTotal(built),
            !.date = Named(p.date, @), !.terms = PatchedTerms(row, p),
            !.due = PatchedDue(row, p), !.note = IF p.note # Keep THEN p.note ELSE None]

Patched(row, p, lines) ==
    LET built == BuildLines(lines, Named(p.mode, row.mode))
    IN  [row EXCEPT !.party = Named(p.party, @), !.mode = Named(p.mode, @),
            !.lines = built, !.total = ComputeTotal(built),
            !.date = Named(p.date, @), !.terms = PatchedTerms(row, p),
            !.due = PatchedDue(row, p), !.note = Named(p.note, @)]

ReadDraft(r, d, p) ==
    /\ request[r].pc = "new"
    /\ Exists(d)
    /\ IF document[d].status = "DRAFT"
       THEN request' = [request EXCEPT ![r] = [Idle EXCEPT
                !.pc = "read", !.op = "update", !.doc = d, !.patch = p,
                !.row = document[d], !.base = Edition(d)]]
       ELSE Refuse(r)
    /\ UNCHANGED <<document, journals, party, item, clock, history, unsettled>>

(* Lines that are not sent are those of the document, read now. *)
CheckUpdate(r) ==
    LET d == request[r].doc
        row == request[r].row
        p == request[r].patch
        stored == IF Exists(d) THEN document[d].lines ELSE <<>>
        lines == IF p.lines # Keep THEN ResolveLines(p.lines, row.kind) ELSE LinesFromRows(stored)
        due == PatchedDue(row, p)
    IN  /\ At(r, "read", "update")
        /\ IF /\ Trades(Named(p.party, row.party))
              /\ p.lines # Keep => Resolvable(p.lines, row.kind, FALSE)
              /\ Buildable(lines, Named(p.mode, row.mode))
              /\ due # None => due >= Named(p.date, row.date)
           THEN request' = [request EXCEPT ![r] = [@ EXCEPT
                    !.pc = "checked", !.since = clock, !.row = Patched(row, p, lines),
                    !.linesBase = IF p.lines # Keep THEN request[r].base ELSE Edition(d)]]
           ELSE Refuse(r)
        /\ UNCHANGED <<document, journals, party, item, clock, history, unsettled>>

(* Whatever the draft is by now, it is written over. *)
UpdateDraft(r) ==
    LET d == request[r].doc
    IN  /\ At(r, "checked", "update")
        /\ IF Is(d, "DRAFT")
           THEN Write(r, d, request[r].row, "update") /\ request' = Done(r)
           ELSE Refuse(r) /\ UNCHANGED <<document, history>>
        /\ UNCHANGED <<journals, party, item, clock, unsettled>>

(* An estimate that an invoice was made from is held by its foreign key. *)
DeleteDraft(r, d) ==
    /\ request[r].pc = "new"
    /\ Exists(d)
    /\ IF Is(d, "DRAFT") /\ ConvertedInto(d) = {}
       THEN document' = [document EXCEPT ![d] = None] /\ request' = Done(r)
       ELSE Refuse(r) /\ UNCHANGED document
    /\ UNCHANGED <<journals, party, item, clock, history, unsettled>>

-----------------------------------------------------------------------------
(* Issuing (posting) and cancelling.                                       *)

Posting(account, amount, credit, c) ==
    [account |-> account, debit |-> IF credit THEN 0 ELSE amount,
     credit |-> IF credit THEN amount ELSE 0, party |-> c]

NetOn(lines, a) == SumOf(lines, LAMBDA l : IF l.account = a THEN l.net ELSE 0)
TaxOn(lines, a) == SumOf(lines, LAMBDA l : IF l.vat = a THEN l.tax ELSE 0)

(* The control line has the total and the party; each line posts its net   *)
(* amount and the tax is one line per VAT account.  Zeros are left out.    *)
IssueJournalLines(row, lines) ==
    LET sale == row.kind # "BILL"
        nets == SetToSeq({n \in DOMAIN lines : lines[n].net > 0})
        vats == SetToSeq({lines[n].vat : n \in {m \in DOMAIN lines : lines[m].tax > 0}})
    IN  <<Posting(None, row.total, ~sale, row.party)>>
        \o [n \in DOMAIN nets |-> Posting(lines[nets[n]].account, lines[nets[n]].net, sale, None)]
        \o [n \in DOMAIN vats |-> Posting(vats[n], TaxOn(lines, vats[n]), sale, None)]

ReadForIssue(r, d) ==
    /\ request[r].pc = "new"
    /\ Exists(d)
    /\ IF document[d].status = "DRAFT"
       THEN request' = [request EXCEPT ![r] = [Idle EXCEPT
                !.pc = IF document[d].kind = "PROFORMA" THEN "checked" ELSE "read",
                !.op = "issue", !.doc = d, !.row = document[d],
                !.base = Edition(d), !.since = clock]]
       ELSE Refuse(r)
    /\ UNCHANGED <<document, journals, party, item, clock, history, unsettled>>

(* The ledger takes balanced journals only; BaseCurrency is that of the row. *)
PrepareIssue(r) ==
    LET d == request[r].doc
        lines == IssueJournalLines(request[r].row, document[d].lines)
    IN  /\ At(r, "read", "issue")
        /\ IF Exists(d) /\ SumOf(lines, LAMBDA l : l.debit - l.credit) = 0
           THEN request' = [request EXCEPT ![r] = [@ EXCEPT
                    !.pc = "checked", !.since = clock, !.linesBase = Edition(d),
                    !.journal = [currency |-> BaseCurrency, lines |-> lines]]]
           ELSE Refuse(r)
        /\ UNCHANGED <<document, journals, party, item, clock, history, unsettled>>

(* Mutant: a document that is still a draft is issued whatever it has become. *)
AsReadAnyDraft(r) == Is(request[r].doc, "DRAFT")

(* Still the draft that was read, as far as its time of change tells. *)
AsRead(r) ==
    /\ Is(request[r].doc, "DRAFT")
    /\ document[request[r].doc].stamp = request[r].row.stamp

CommitIssue(r) ==
    LET d == request[r].doc
    IN  /\ At(r, "checked", "issue")
        /\ IF AsRead(r)
           THEN /\ Write(r, d, [document[d] EXCEPT !.status = "ISSUED"], "issue")
                /\ journals' = [journals EXCEPT ![d] =
                        IF request[r].journal = None THEN @ ELSE Append(@, request[r].journal)]
                /\ request' = Done(r)
           ELSE Refuse(r) /\ UNCHANGED <<document, history, journals>>
        /\ UNCHANGED <<party, item, clock, unsettled>>

Reversal(j) == [j EXCEPT !.lines = [n \in DOMAIN j.lines |->
    [j.lines[n] EXCEPT !.debit = j.lines[n].credit, !.credit = j.lines[n].debit]]]

(* Nothing is paid here.  All that is read before the lock is fixed once   *)
(* the document is issued, or checked again under it.                      *)
Cancel(r, d) ==
    /\ request[r].pc = "new"
    /\ Exists(d)
    /\ IF Is(d, "ISSUED")
       THEN /\ document' = [document EXCEPT ![d].status = "CANCELLED"]
            /\ journals' = [journals EXCEPT ![d] =
                    IF @ = <<>> THEN @ ELSE Append(@, Reversal(Last(@)))]
            /\ history' = [history EXCEPT ![d] = Append(@, Entry(document'[d], r, "cancel"))]
            /\ request' = Done(r)
       ELSE Refuse(r) /\ UNCHANGED <<document, journals, history>>
    /\ UNCHANGED <<party, item, clock, unsettled>>

-----------------------------------------------------------------------------
(* The customer's answer to an estimate, and its status on screen.         *)

(* The row is locked, and an invoice is made from it by an insert that     *)
(* waits for that lock: the two never overlap.                             *)
Respond(r, d, answer) ==
    /\ request[r].pc = "new"
    /\ d \in Proformas
    /\ IF Is(d, "ISSUED") /\ ConvertedInto(d) = {}
       THEN /\ document' = [document EXCEPT ![d].response = answer]
            /\ history' = [history EXCEPT ![d] = Append(@, Entry(document'[d], r, "answer"))]
            /\ request' = Done(r)
       ELSE Refuse(r) /\ UNCHANGED <<document, history>>
    /\ UNCHANGED <<journals, party, item, clock, unsettled>>

EstimateStatuses ==
    {"DRAFT", "PENDING", "ACCEPTED", "DECLINED", "EXPIRED", "CONVERTED", "CANCELLED"}

EstimateStatus(row, converted, today) ==
    IF row.status = "CANCELLED" THEN "CANCELLED"
    ELSE IF converted THEN "CONVERTED"
    ELSE IF row.status = "DRAFT" THEN "DRAFT"
    ELSE IF row.response # None THEN row.response
    ELSE IF row.due # None /\ row.due < today THEN "EXPIRED" ELSE "PENDING"

(* The same in SQL, where it selects the estimates of one status. *)
EstimateStatusSql(row, converted, today) ==
    LET pending == row.status = "ISSUED" /\ ~converted /\ row.response = None
        selects(s) ==
            CASE s = "CANCELLED" -> row.status = "CANCELLED"
              [] s = "CONVERTED" -> row.status # "CANCELLED" /\ converted
              [] s = "DRAFT" -> row.status = "DRAFT" /\ ~converted
              [] s \in {"ACCEPTED", "DECLINED"} ->
                    row.status = "ISSUED" /\ ~converted /\ row.response = s
              [] s = "EXPIRED" -> pending /\ row.due # None /\ row.due < today
              [] s = "PENDING" -> pending /\ (row.due = None \/ row.due >= today)
    IN  {s \in EstimateStatuses : selects(s)}

-----------------------------------------------------------------------------
(* What documents are drawn on: parties and the catalogue.                 *)

Tagged(c) == \E d \in Docs : \E k \in DOMAIN journals[d] :
                \E n \in DOMAIN journals[d][k].lines : journals[d][k].lines[n].party = c

(* A draft of the party, or a request that has found its currency in order.*)
UnderWay(c) ==
    \/ \E d \in Docs : Is(d, "DRAFT") /\ document[d].party = c
    \/ \E r \in Requests : request[r].row # None /\ request[r].row.party = c

(* Mutant: a party's currency can be changed at any time. *)
CurrencyFreeAlways(c) == TRUE

(* The currency is fixed once a journal line names the party. *)
CurrencyFree(c) == ~Tagged(c)

UpdateParty(r, change) ==
    LET c == change.party
        changed == Named(change.currency, party[c].currency) # party[c].currency
    IN  /\ request[r].pc = "new"
        /\ IF changed => CurrencyFree(c)
           THEN /\ party' = [party EXCEPT ![c].currency = Named(change.currency, @),
                                          ![c].terms = Named(change.terms, @)]
                /\ unsettled' = IF changed /\ UnderWay(c) THEN unsettled \cup {c} ELSE unsettled
                /\ request' = Done(r)
           ELSE Refuse(r) /\ UNCHANGED <<party, unsettled>>
        /\ UNCHANGED <<document, journals, item, clock, history>>

(* An edit of an item rewrites all of it, its price as it had been read. *)
ReadItem(r, change) ==
    /\ request[r].pc = "new"
    /\ request' = [request EXCEPT ![r] = [Idle EXCEPT
            !.pc = "checked", !.op = "item", !.doc = change.item,
            !.patch = Named(change.price, item[change.item].price)]]
    /\ UNCHANGED <<document, journals, party, item, clock, history, unsettled>>

UpdateItem(r) ==
    /\ At(r, "checked", "item")
    /\ item' = [item EXCEPT ![request[r].doc].price = request[r].patch]
    /\ request' = Done(r)
    /\ UNCHANGED <<document, journals, party, clock, history, unsettled>>

SetItemActive(r, i, active) ==
    /\ request[r].pc = "new"
    /\ item' = [item EXCEPT ![i].active = active]
    /\ request' = Done(r)
    /\ UNCHANGED <<document, journals, party, clock, history, unsettled>>

Tick ==
    /\ clock < MaxClock
    /\ clock' = clock + 1
    /\ UNCHANGED <<document, journals, party, item, request, history, unsettled>>

-----------------------------------------------------------------------------

Start(o) == NewRow(o, ResolveLines(o.lines, o.kind), None, InitialParty)

(* A few drafts that requests have made; estimates may have been issued. *)
Init ==
    /\ party = InitialParty
    /\ item = InitialItem
    /\ \E drafts \in {f \in Initial : \A d \in DOMAIN f : Creatable(f[d])} :
        \E sent \in SUBSET {d \in DOMAIN drafts : drafts[d].kind = "PROFORMA"} :
            LET row(d) == IF d \in sent THEN [Start(drafts[d]) EXCEPT !.status = "ISSUED"]
                          ELSE Start(drafts[d])
            IN  /\ document = [d \in Docs |-> IF d \in DOMAIN drafts THEN row(d) ELSE None]
                /\ history = [d \in Docs |-> IF d \notin DOMAIN drafts THEN <<>>
                        ELSE <<[row |-> row(d), by |-> "create", patch |-> None,
                                base |-> 0, linesBase |-> 0]>>]
    /\ journals = [d \in Docs |-> <<>>]
    /\ request = [r \in Requests |-> Idle]
    /\ clock = 0
    /\ unsettled = {}

Next ==
    \/ \E r \in Requests :
        \/ \E o \in Orders : CheckCreate(r, o)
        \/ \E d \in Docs : \/ ReadProforma(r, d)
                           \/ \E p \in Patches : ReadDraft(r, d, p)
                           \/ DeleteDraft(r, d)
                           \/ ReadForIssue(r, d)
                           \/ Cancel(r, d)
                           \/ \E answer \in {"ACCEPTED", "DECLINED"} : Respond(r, d, answer)
        \/ \E today \in Days : CheckConvert(r, today)
        \/ InsertInvoice(r)
        \/ CheckUpdate(r)
        \/ UpdateDraft(r)
        \/ PrepareIssue(r)
        \/ CommitIssue(r)
        \/ \E change \in PartyChanges : UpdateParty(r, change)
        \/ \E change \in ItemChanges : ReadItem(r, change)
        \/ UpdateItem(r)
        \/ \E i \in Items, active \in BOOLEAN : SetItemActive(r, i, active)
    \/ Tick

Spec == Init /\ [][Next]_vars

-----------------------------------------------------------------------------
(* Properties.                                                             *)

(* What is left over of an exact share of an amount after rounding it. *)
Rounded(tax, amount, rate, whole) ==
    LET off == tax * whole - amount * rate
    IN  2 * off <= whole /\ -2 * off <= whole

LineAddsUp(line, mode) ==
    /\ line.total = line.net + line.tax
    /\ Amount(line) = IF mode = "INCLUSIVE" THEN line.total ELSE line.net
    /\ Rounded(line.tax, Amount(line), line.rate,
               IF mode = "INCLUSIVE" THEN BasisPoints + line.rate ELSE BasisPoints)

(* On a sale lines are credited, on a purchase debited. *)
OnAccount(j, a) ==
    SumOf(j.lines, LAMBDA l : IF l.account = a THEN l.credit - l.debit ELSE 0)

Tells(j, row) ==
    LET sign == IF row.kind = "BILL" THEN -1 ELSE 1
    IN  /\ \A a \in Accounts : OnAccount(j, a) = sign * (NetOn(row.lines, a) + TaxOn(row.lines, a))
        /\ OnAccount(j, None) = -sign * SumOf(row.lines, LAMBDA l : l.total)
        /\ j.lines[1].party = row.party

(* The row had been written again in the millisecond in which it was read. *)
SameMillisecond(d) ==
    \E n \in 2 .. Len(history[d]) :
        /\ history[d][n].by = "issue"
        /\ history[d][n].base < n - 1
        /\ history[d][history[d][n].base].row.stamp = history[d][n - 1].row.stamp

(* The journal of an invoice or bill says what the document says: it       *)
(* posts every line's net amount and tax to their accounts and the total   *)
(* to the party it names, each line's tax being the exact share rounded to *)
(* the nearest cent -- although row, lines and journal are read, read and  *)
(* prepared in different transactions while the draft may be edited.  The  *)
(* check that it was not tells the time to the millisecond only.           *)
PostedAsWritten ==
    \A d \in Docs : Exists(d) =>
        /\ \A n \in DOMAIN document[d].lines : LineAddsUp(document[d].lines[n], document[d].mode)
        /\ journals[d] # <<>> => Tells(journals[d][1], document[d]) \/ SameMillisecond(d)

(* Follows what the patch names: the rest is as it stood before. *)
Follows(new, old, p) ==
    /\ \A f \in {"party", "mode", "date", "note"} : new[f] = Named(p[f], old[f])
    /\ p.lines = Keep /\ p.mode = Keep => new.lines = old.lines /\ new.total = old.total
    /\ p.lines # Keep => Len(new.lines) = Len(p.lines)
    /\ (\A f \in {"party", "date", "due", "terms"} : p[f] = Keep)
            => new.due = old.due /\ new.terms = old.terms

(* An edit changes what it names and nothing else of the draft as it stood *)
(* just before, unless another edit was written between its reads and its  *)
(* write: then, and only then, it undoes the other one silently.           *)
OverwrittenOnlyInARace ==
    \A d \in Docs : \A n \in 2 .. Len(history[d]) :
        LET new == history[d][n]
            old == history[d][n - 1]
        IN  new.by = "update" =>
                \/ Follows(new.row, old.row, new.patch)
                \/ new.base < n - 1

(* An invoice made from an estimate has its party, tax mode, note and      *)
(* lines, to the cent, whatever has happened to the catalogue since --     *)
(* unless the estimate was edited between the reads of its row and of its  *)
(* lines.                                                                  *)
ConversionsCopy ==
    \A d \in Docs : history[d] # <<>> /\ history[d][1].by = "convert" =>
        LET new == history[d][1]
            p == new.row.source
            old == history[p][new.base].row
        IN  \/ /\ \A f \in {"party", "mode", "note", "terms"} : new.row[f] = old[f]
               /\ new.row.lines = old.lines
               /\ new.row.total = old.total
            \/ new.linesBase # new.base

(* Every estimate has exactly one status on every day, the same in the     *)
(* list's SQL as on its own page; it is converted once; and one that was   *)
(* declined is converted only if the answer came while the conversion was  *)
(* under way.                                                              *)
EstimatesSettle ==
    \A p \in Proformas :
        LET row == document[p]
            converted == ConvertedInto(p)
        IN  /\ \A today \in Days :
                EstimateStatusSql(row, converted # {}, today)
                    = {EstimateStatus(row, converted # {}, today)}
            /\ Cardinality(converted) <= 1
            /\ \A v \in converted : row.response = "DECLINED" =>
                    history[p][history[v][1].base].row.response # "DECLINED"

(* What is posted to a party is in its currency, unless that was changed   *)
(* while a draft of the party, or a request that had checked it, was open. *)
PartyCurrencyKept ==
    \A d \in Docs : \A k \in DOMAIN journals[d] :
        LET c == journals[d][k].lines[1].party
        IN  party[c].currency \in {None, journals[d][k].currency} \/ c \in unsettled

=============================================================================
