# JIBUKS: a verification of the accounting back end

JIBUKS is a multi-tenant accounting API (TypeScript, Express, PostgreSQL; the code is in `src/backend`). A business keeps its books in it: journals and periods, invoices and bills, customer payments and credits, M-Pesa collections. Every handler reads in one or more database transactions, decides, waits for other services now and then, and writes in a later transaction. Correctness therefore rests on what happens *between* the transactions of concurrent, retried and dying requests, which the test suite, one request at a time, hardly reaches. That is what these modules are about.

## Modules

| Module | What it is |
|---|---|
| `Ledger.tla` | Abstract specification: an append-only book of journals. |
| `Journals.tla` | The general ledger of a tenant: journals, their approval and reversal, periods, opening balances, and the requests that work on them. Implements `Ledger`. |
| `MCJournals.tla` | The symmetry set for TLC. |
| `JournalsProofs.tla` | Proofs about `Journals`. |
| `MpesaPayments.tla` | Collecting one M-Pesa payment: push, callback, poll, settlement, posting, repost. |
| `Idempotency.tla` | The `Idempotency-Key` middleware: claim, take-over, settlement, replay. |
| `RetriesProofs.tla` | Proofs about `MpesaPayments` and about `Idempotency`. |
| `OpenItems.tla` | Abstract specification: debts that are charged, given against and waived, and credit that is used once. |
| `Receivables.tla` | The documents of one customer or supplier, the payments and the credit, with the row locks of the transactions. Implements `OpenItems`. |
| `MCReceivables.tla` | The symmetry set for TLC. |
| `ReceivablesProofs.tla` | Proofs about `Receivables`: amounts, statuses, ledger postings, locks, the balance, the refinement. |
| `Documents.tla` | What documents say: their lines, tax and rounding, the merge of a PATCH, estimates and their conversion, and the parties and items they are drawn from. |
| `MCDocuments.tla` | Two drafts, a catalogue of one item, a few orders and patches. |
| `DocumentsProofs.tla` | Proofs about `Documents`. |
| `Access.tla` | Tenants, users, roles and invites. |
| `MCAccess.tla` | The lists of roles and the symmetry set for TLC. |
| `AccessProofs.tla` | Proofs about `Access`. |
| `Chart.tla` | The chart of accounts: parents, codes, system keys, and their locks. |
| `MCChart.tla` | An excerpt of the GENERAL template and a few requests. |
| `Vouchers.tla` | Cash sales, cheques and guided entries over a chart that changes: extends `Chart`. |
| `VouchersProofs.tla` | Proofs about `Chart` and `Vouchers`. |
| `MCVouchers.tla` | A small chart and one order of each kind. |
| `Reports.tla` | Ledgers, statements, aging, trial balance, profit and loss, cash flow over books that change between their reads. |
| `MCReports.tla` | One customer, two documents, a payment, one report. |
| `ReportsProofs.tla` | Proofs about `Reports`. |
| `Sums.tla` | Lemmas about sums over finite sets, for the proofs. |

A definition whose comment starts with "Mutant:" is not part of a model. It is the operator that follows it with a plausible bug; substituted for it, it must break the property it is listed with in `PROJECT.json`. It shows that the property depends on that code.

## Inventory

The state of the program is the database; the server keeps none between requests, except for the values a request has read and goes on using after an `await`.

| Component | State | Operations | Hard behaviour | Correct when |
|---|---|---|---|---|
| Journals (`modules/journals`, `packages/ledger`) | `journals`, `journal_lines`, `journal_number_sequences` | create by hand or for a document, approve, reject, reverse | checks in one transaction, insert in another; client retries; two deciders | posted journals are never changed; numbers gapless; one journal per client uuid; a second person approved what needs approval; posted only into open periods |
| Periods (`modules/periods`) | `periods` | create, open the current month implicitly, close, reopen | status read, then written unconditionally; races with every posting | closed means closed |
| Opening balances (`modules/openingBalances`) | the OPENING journal that is not reversed | replace (reverse and post in one transaction) | optimistic read, advisory lock; journals of source OPENING by other ways | no lost update; what is shown counts |
| M-Pesa (`modules/payments`) | `payments` | push, callback, poll, settle, post, repost | Safaricom answers late, twice, wrongly or never; death between posting and link; expiry against late callback | money counts once, only when confirmed and for the amount a callback claims, and is accounted for; a known result is recorded |
| Idempotency (`middleware/idempotency.ts`, `modules/idempotency`) | `idempotency_keys` | claim, take over, complete, release | stale claims, dying handlers, handlers that commit and then fail, statements of one claim seeing different states | a 2xx is replayed; what is executed twice, and when, is known; no key stays blocked |
| Documents (`modules/invoices`, used by bills, credit sales, supplier bills, estimates) | `invoices`, `invoice_lines`, sequences | create, update, delete, issue, cancel, pay, credit note, answer and convert an estimate | credit limit checked outside the transaction; optimistic locking by a timestamp cut to milliseconds; row and lines read in two transactions; a PATCH that rewrites the whole row; several documents locked in one transaction | open amount between zero and total; documents agree with their control account; the journal says what the document says, to the cent; an edit changes only what it names; an estimate is converted once, as it stands |
| Parties and items (`modules/customers`, `suppliers`, `items`) | `customers`, `suppliers`, `items` | create, edit, deactivate | the currency lock asks for journal lines and open drafts while a draft is being issued | what is posted to a party is in its currency |
| Customer payments and credits (`modules/customerPayments`, `customerCredits`) | `customer_payments`, allocations, unapplied amounts | receive, apply, refund | several invoices and sources locked in an order | no credit used twice |
| Cash and cheque documents (`cashSales`, `cashExpenses`, `salesReceipts`, `cheques`, `chequePayments`) | one journal, and a row for some | create | the accounts are looked up and checked before the transaction that posts; a cheque can fail after it took its number | numbers gapless; balances are what the documents say; posted to accounts that were fit for it |
| Accounts (`modules/accounts`) | `accounts` | create, re-parent, recode, give a key, deactivate, reactivate, create a system account on first use, seed the template | the check of a new parent runs before the write; keys move under a lock that seeding does not take | one account per key, of its type, and never none again; no cycle |
| Access (`roles`, `users`, `invites`, `onboarding`) | `roles`, `user_roles`, `users`, `invites`, `tenants` | assign, invite, accept, onboard; create, edit, deactivate roles | two owners demote each other; invite accepted twice; half-done onboarding | a tenant always has an owner; an identity has one account; an invite makes one user; roles stay in their tenant |
| Audit log (`packages/db/src/auditLog.ts`, a trigger) | `audit_logs` | append in the writing transaction | previous hash read without a lock | one chain |
| Reports (`trialBalance`, `profitAndLoss`, `cashFlow`, `aging`, `customerStatements`, ...) | none | read | several queries without a common snapshot; dates in UTC and in Nairobi; two pictures of the past, the ledger's and the documents' | statements add up; reports tie with each other; what the documents do not explain is what was posted without one |

Components interact through the ledger: every document and payment posts by `journals.createJournal` or `postPreparedJournal`; opening balances reverse and post in one transaction; M-Pesa settles into a journal or, for an invoice, into a customer payment; idempotency wraps every mutating request of a tenant. The listing in `PROJECT.json` names the files of each and what is left out.

## The ledger: `Journals`

**State.** `journals` is the table in insertion order (an index is a journal id; the code orders by `created_at`, the start of the inserting transaction, which the model takes for the order of insertion). `lastNumber` is the counter row behind the JE- numbers, `periodStatus` the periods table. `req` is what each in-flight request holds from its reads; `late` is a history variable: the requests whose validated period was closed since they validated.

**Actions.** A handler is split where the code commits or reads again: `Prepare*` actions are the reads up to the last check (`prepareJournal`, `approveJournal`, `prepareReversal`, `setOpeningBalances`), `ValidateForPosting` is the snapshot in which the period is found open, and `Write*` actions are the transaction that commits, with its own re-checks where the code has them: the unique client uuid (`InsertJournal`), `SELECT ... WHERE status = 'PENDING_APPROVAL' FOR UPDATE` (`WriteDecision`), the look-up under the advisory lock (`LockOpening`). Where the code does not look again, the model does not either (`WriteReverse`, `WriteClose`). `Drop` ends a request that has written nothing, for any other refusal or a death.

**Abstractions.** A journal's lines are its total; a date is the period that covers it; accounts, currencies and texts are left out, their checks are among the reasons for `Drop`. Approval switched off is a threshold above every amount.

**Properties.** `GaplessNumbers`, `OneJournalPerUuid`, `SegregationOfDuties`, `ReversalsCorrectPosted` and the action property `DecisionsAreFinal` are what survives the races. `OnlyOvertakenPostings` says exactly how far a close leaks: only a request that had already validated gets through. `OpeningReplacedOnce` is the absence of lost updates in replacing the opening balances, also when two people replace the *same* opening journal, each by a reversal and a new one. `ImplementsLedger` is the refinement: the posted journals are `Ledger`'s append-only book.

**Disagreements found.** Two concurrent reversals of one journal are both posted (`AtMostOneReversal`, the run `double_reversal`). Two more are stated as definitions without a run. A posting validated before a close is inserted after it: `PostsOnlyIntoOpenPeriods` fails as a PROPERTY of the run `journals`. A rejected hand-entered OPENING journal remains "the" opening journal and cannot be replaced: `ActiveOpeningIsPosted` fails as an INVARIANT of the run `openings`.

## M-Pesa: `MpesaPayments`

**State.** One `payments` row (payments share nothing), the number of `journals` under the payment's id, Safaricom's side (`phone`), how old the row is as far as `RECHECK_AFTER_MS` and `OUTCOME_UNKNOWN_EXPIRY_MS` ask (`age`), and a program counter per worker with what it holds across an `await`. Of a stored callback the row keeps the amount it claims (`payload`): the one that was asked or another. Two histories: `claims`, the amounts of all callbacks that were stored, and `reposted`, that a person asked for a repost.

**Actions.** One per stretch between awaits of `initiateStkPush`, `handleStkCallback`, `settle`, `postToLedger`, `repostPayment` and `getPayment`; `settle` and `postToLedger` are shared by their callers as in the code. `Crash` ends a request anywhere. Safaricom is the environment, modelled from how the code uses it: a push may be answered, refused or time out whatever becomes of the prompt; once the prompt has an outcome a callback may come any number of times, and since nothing in it is signed, each may claim success or failure and either amount. The code confirms a success with Daraja's query, which tells no amount; it takes a failure, and the amount of a success, at the callback's word, and so does the model. A callback replaces the stored one as long as the payment is PENDING; `settle` holds the amount of the one it read, while another may replace it.

**Properties.** `OnlyConfirmedMoneyCounts`: SUCCEEDED needs Daraja's confirmation and a callback with a receipt, and a journal needs in addition that some stored callback claimed the amount that was asked. It does not say that the money that arrived was that amount, which nothing in the program could know, nor that the callback with that amount is the one the row ends up with, which is not so when two callbacks differ. `OnePoster`: however many callbacks and polls settle a payment at once, one of them goes on to post; only a repost by a person puts a second request there. That request may find the first one's journal or collide with it on the client uuid, which is the payment's id; `LinkedIsPosted` says that whatever they do, a payment that is linked is in the ledger once and shows no posting error, and one whose journal was left without its link can still be reposted. Proved only: `VerdictsAreFinal`. Progress: `ReportedIsSettled`, `UnknownOutcomeEnds`, `ArrivedIsAccountedFor`. The push to the phone is not repeated for a payment (the row's client uuid); what a person does who sees a payment expire and starts another is outside the model.

**Fairness**, and why the code justifies it: every await of a request has a time-out or ends in a database answer, so a started request goes on (weak fairness of `Proceed` per worker); time passes (`Tick`); the client polls a pending payment, as the API reference tells it to, and the server takes the request in eventually (strong fairness of `PollRead`, because other requests may occupy a worker again and again); Daraja does not fail *every* query about an answered prompt (strong fairness of `QueryAnswered`). Nothing is assumed of callbacks, customers or reposts. Deadlock is not checked: when the push's request died and the payment expired, the system has nothing left to do.

**Disagreements found** (definitions without a run; both fail with two workers). `GivenUpIsRevivable`: a request that gives a payment up on what it knew can overtake the callback that just adopted it. The push is refused or times out (`PushRefused`, or `PollRead` after the expiry), a callback adopts the row and makes it PENDING with its checkout id (`Adopt`), and then the first request's `completeIfPending` finds it PENDING and makes it FAILED (`FailPush`, `Expire`); the payment is then FAILED with a checkout id, and no callback revives it, against the comment and the API reference ("money is never lost"). `LostCallbackResolves`: a success whose callback is lost is confirmed by every re-check and never settled, because the receipt only comes with the callback, against "so a lost callback still resolves".

## Idempotency keys: `Idempotency`

**State.** The row of one key, what each request that carries the key is doing (`request`), how often the handler committed for each body. A *body* stands for all that is hashed: user, method, path and body. `GuardedBodies` are those whose handler writes under a client uuid. Histories: `answered` (bodies whose execution was answered with a 2xx), `replayed` (what was replayed to whom) `disturbed` (a claim was taken from a request that was still running, or was not settled) and `halfway` (bodies that committed and were then answered an error).

**Actions.** The three statements of `claim` are three actions, because each sees what others committed before it. `complete` and `release` act on the row of the key whoever claimed it, as their SQL does. The answer is sent after settling, also when settling failed. The handler is the environment: it commits and answers 2xx, is refused, or answers an error after a first transaction committed (`FailHalfway`). Two handlers do the last: a refused M-Pesa push, whose payment row has a client uuid, and `POST /invites`, whose look-up of the inviter or e-mail can throw once the invite is there, without a client uuid.

**Properties.** Without a disturbed claim, a 2xx is replayed for good (`AnsweredIsReplayed`) and a replay reports a success of the same request (`ReplaysReportSuccess`, proved only). `ReExecutedOnlyAfterTrouble` lists everything that makes a handler commit twice for the same request under one key: a death, a disturbed claim, or a handler without a client uuid that committed and then answered an error (`halfway`), for the error frees the key and the retry is executed again. The last is reached in the run: a client that retries an invite whose e-mail failed gets a second invite. A claim never blocks its key for ever (`ClaimsEnd`, under: started requests go on, time passes, the client sends its request again until it is served). Deadlock is not checked, since clients may be content. The names of the specification (`KeySpec`, `KeyNext`, `keyVars`, ...) differ from those of `MpesaPayments` because one module extends both for the proofs.

**Disagreement found** (a definition without a run). `ReplaysAnswerTheirRequest`: since `complete` is not tied to the claim, a slow request can store its answer in the later claim of a *different* request, which is then replayed a success that was never its own.

## Documents and money: `Receivables`

**State.** For one party, on the side `AR` (a customer: invoices, credit notes, payments, refunds) or `AP` (a supplier: bills, debit notes, payments of one bill each): `doc` is the `invoices` table, `receipt` the `customer_payments`, `control` the party's balance on the control account, `posted` what each row and its reversals put there, `holder` the row locks, `req` what each in-flight request means to do. `invoice_allocations` are not a table of their own: what they say is in the amounts of the rows they tie together. A row id is a number, because `lockSources` and `receivePayment` lock in the order of ids, which are random; the configuration places the invoice between a note and a payment so that all orders occur.

**Actions.** `documents.ts` and the customer modules share one shape: read and plan without a lock (`Prepare*`), then one transaction that locks rows (`Lock`, one row per step), looks again at what it relies on (`OwnRowStands` for its document, `Fits` for what it takes) and writes (`Commit*`). Every conflict, refusal, time-out or lost connection is `Fail`: the transaction is rolled back. The last lock and the commit are one step, since nothing can come between for others to see; a draft's edit or deletion, one lock and one write, is one step. `createAndIssueInvoice` is `Save`, then the issue with `saving` set, then `RemoveSaved` if that failed, and the server may die in between (`Die`). A client chooses invoices and credits at will (`Plans`); "the oldest first" is one of the plans. `reverse` is `POST /journals/{id}/reverse` on the journal of a document or a payment: neither looks at nor locks the row.

**Abstractions.** Totals only: lines, taxes, accounts, currencies, dates and numbers are left out (numbers and periods are in `Journals`). The `CHECK` constraints on amounts are left out *on purpose*: `AmountsInRange` shows that the code never makes the database refuse. `updated_at` changes with every edit, so "unchanged since it was read" is a flag; that two edits can fall into one millisecond, to which JavaScript cuts the column, is in `Documents`, and so are pro-formas. `pay` with `allowOverpayment` is left out.

**Properties.** `BalanceIsOpenItems` is the control-account reconciliation an accountant does: balance = open documents less unused credit, exactly, apart from reversals by hand. `LedgerFollowsDocuments` is its counterpart per document. `AmountsInRange`, `StatusTellsPaid`, `NotesUsedOnTheirInvoice` and `IssuedIsFrozen`, which are proved and not in the run, are what the re-checks under the locks are for. `NoCircularWait` is the absence of deadlock among the row locks, which rests on drafts, invoices and credits being locked in that order and each kind by id. `LimitExceededOnlyInARace` says that the credit limit leaks only when the balance moved between check and commit. `ImplementsOpenItems` is the refinement. Deadlock in TLC's sense is not checked: the tables are finite, so the system may run out of rows; and waiting requests may always fail.

**Disagreement found** (a definition without a run). `LimitKept`: two invoices issued at once each pass the credit-limit check and together exceed it.

## What documents say: `Documents`

**State.** `document` is the row of each document together with its lines (the code replaces both in one transaction), `journals` what was posted for it, `party` and `item` the rows documents are drawn from, `request` what each request has read and computed so far. `clock` counts milliseconds; a row's `stamp` is its `updated_at` as JavaScript sees it. `history` keeps every version of a row with who wrote it and which version the writer had read, `unsettled` the parties whose currency was changed while a draft of theirs, or a request that had checked it, was open.

**Actions.** Creating, editing, converting, issuing, answering and deleting are split at every transaction of `documents.ts` and `invoices/service.ts`: the row, the lines and the party are read in transactions of their own, the write comes last. `PATCH` merges what it names into what it read and rewrites every column. Lines are computed as `domain/src/invoices.ts` computes them: net and tax forwards from net prices, backwards from inclusive ones, rounded half up per line; the journal is the one `issueJournalLines` builds. `estimateStatus` is there twice, as the page computes it and as the list's SQL does. Editing a customer's currency looks for journal lines under the row lock and does not look at drafts; drafts check it when they are saved.

**Properties.** `PostedAsWritten` (the journal says what the document says, each line's tax the exact share rounded), `OverwrittenOnlyInARace` (an edit changes only what it names, unless another one was written between its read and its write), `ConversionsCopy`, `EstimatesSettle`, `PartyCurrencyKept`. Three of them name an exception the code leaves open, as narrowly as TLC allows: the row was edited twice in the millisecond in which it was read; two edits overlapped, and the earlier is undone silently; an estimate was edited between the reads of its row and its lines. Each exception is reachable.

One thing the model shows without a property: editing the issue date or the customer of an estimate clears its "valid until" date, because the due date is recomputed from terms for every kind but the main one (documents.ts:619-627).

## Who may do what: `Access`

**State.** The rows of tenants, users, custom roles and invites, the advisory lock `user_roles:<tenant>`, and what each request has read. Histories: `joined`, how many users came by an invite; `raced`, invites whose acceptances overlapped or died.

**Actions.** Onboarding, inviting, accepting, expiry of an invite, creating users and roles, setting a user's roles, each read and write a step; a request may die between any two. Setting roles takes the lock, counts the owners and replaces the roles in one transaction. Unique identities are the database's index (`UniqueViolation`).

**Properties.** `EveryTenantHasOwner`, `OneAccountPerIdentity`, `RolesStayInTenant` and `InviteReusedOnlyInARace`: an invite brings in a second user only when two acceptances overlapped or one died before marking it. Deadlock is checked: some request can always begin or end.

## The chart: `Chart` and `Vouchers`

**State.** `Chart` keeps the rows of accounts (type, parent, code, key, active), the advisory lock `system_account:<tenant>`, what each request checked, and how far the seeding of the template has got; `treeRaced` and `missed` are histories of what a request overtook. `Vouchers` extends it with the documents' requests and rows, the sequences of cash-sale and cheque numbers, and the journals.

**Actions.** `PATCH /accounts/{id}` is its check against a snapshot (`CheckUpdate`), the row lock, the advisory lock, freeing the key, and the commit that the unique indexes may refuse. A walk up the parents that never ends is `Loop`: the server's event loop is stuck in it, and nothing happens any more. PostgreSQL breaks the one deadlock these locks allow (`AbortDeadlock`). In `Vouchers` a request finds its money and VAT accounts, checks that they take postings, prepares the journal and posts in one transaction with its number and row; the chart changes in between by the actions of `Chart`.

**Properties.** `CyclesOnlyInARace`, `KeysNeverCollide`, the action property `KeysStayHeld`; `VouchersGapless`, `BalancesFollowDocuments`, `PostedAsFoundUnlessChanged`. Deadlock in TLC's sense is not checked: requests are finite in number, and a server may be stuck in the loop.

**Disagreement found** (`chart_cycle`). `NeverUnderItself`: two requests that put A under B and B under A pass their checks against the same snapshot, against the comment "not be the account itself or one of its descendants"; the next request that walks past them never ends.

## What is reported: `Reports`

**State.** Days (`early` is the time before 03:00 in Nairobi, when UTC still has yesterday), the journals with dates, sources, the party, the account of its line and what they reverse, the documents, payments, refunds and allocations with theirs, and per request the answers of the queries it has made so far.

**Actions.** Postings are one step each, their whole transaction (how they are checked, and the race of two reversals of one journal, are in `Journals` and `Receivables`); a report is one step per query, with no snapshot across them. Everything that puts a line with a customer on the ledger is there:

* documents, payments and refunds: `Issue`, `IssueNote`, `CancelInvoice`, `Receive`, `Refund`; `ApplyCredit`, which posts nothing;
* `PostManual`: `POST /journals` with any of the sources it accepts, first opening balances, and the guided credit sales and cheques that tag a customer (`creditSales/service.ts:62`, `cheques/service.ts:61`), on any account; `Approve` for those that wait;
* `ReverseByHand`: `POST /journals/{id}/reverse` of any posted journal, a document's, a payment's or another reversal included, which looks at no document;
* `ReplaceOpening`: the reversal of the opening balances that stand and the new ones, in one transaction;
* `CollectMpesa`: M-Pesa money of a customer for no invoice, which is no customer payment and tags the customer on the account it credits.

Sales receipts tag no line. The pure parts are operators translated from the code: `BuildTrialBalance`, `ProfitAndLoss`, `CashFlow`, `Aging`, `LedgerJournals`, `Label`, `FollowUps`, `LastActivity`.

**Abstractions.** A journal has two lines and one of them, `account`, names a customer; a journal by hand with lines of several customers counts as one for each. Tax, currencies and branches are left out, and there is one receivable account.

**Properties.** `StatementsAddUp`, `NamesStand`, `UndocumentedIsExplained`, `ReportsTie`, `BalancedUnlessTheChartGrew`. `UndocumentedIsExplained` compares the two pictures of a day: what the ledger has on a customer beyond the invoices open on that day is what was posted by journals that no document, payment or refund names (`Documented`: by hand, as opening balances, by hand reversals, by M-Pesa for no invoice), less the money and notes that were on no invoice yet. A hand reversal of an invoice's journal thus shows as undocumented, as it does in the aging report, since the invoice stays open. The property has the one exception the code leaves: an invoice cancelled between midnight and 03:00, whose reversal is dated the day before (`EverythingIsExplained`, without the exception, fails). Statements and trial balances have theirs: a commit between their queries, and an account created while the trial balance was read.

## Runs and bounds

| Run | Instance | Shows |
|---|---|---|
| `journals` | 2 requests, 2 users, 1 client uuid, past and current period, totals below and at the threshold, 3 journals | decisions and reversals, the leak of closed periods, the refinement |
| `openings` | 2 requests, 2 users, 1 client uuid, 1 period, hand-entered OPENING journals at the threshold, 5 journals | no lost update when opening balances are replaced, twice at once included; numbers |
| `double_reversal` | 2 requests, 2 users, 3 journals | the disagreement, by a counterexample |
| `mpesa` | 2 workers, 1 death, callbacks that claim either amount | safety and progress of a payment |
| `idempotency` | 2 requests at a time, a body with a client uuid and one without, 2 deaths or failed settlements, 3 effects of a body | safety and progress of a key |
| `receivables` | 2 requests, an invoice, a credit note, a payment, amounts 1 and 2, limit 2, 1 reversal by hand | documents, control account, credit, locks |
| `documents` | 3 requests, an estimate and an invoice or a bill to begin with, 2 parties, 1 item, amounts that do not divide, 2 milliseconds, today the day an estimate is valid until or the day after | what documents, conversions and edits leave |
| `access` | 2 requests, 2 tenants, 3 users and identities, 1 role, 1 invite | owners, identities, roles, invites |
| `chart` | 3 requests, 3 accounts, a template of 4 with and without keys | cycles and keys |
| `chart_cycle` | as above | the disagreement, by a counterexample |
| `vouchers` | 2 documents of 9 kinds, 1 request on a chart of 4 accounts | numbers, balances, accounts |
| `reports` | 1 customer, 2 documents dated before or after today, a payment, opening balances, M-Pesa money for no invoice, 1 report, 3 journals, seen from a day in between, 1 commit at most between the queries of a report | statements and reports |

Two requests suffice for most races because each is between one that has read and one that writes; a cycle of accounts and its walk need three, and so does an edit that is overtaken while a draft is issued. Three journals let an original, its reversal and a competing journal exist; five let one opening journal be replaced twice, each time by a reversal and a new one (696,919 states, about a minute). In `reports` (453,035 states, about two minutes), three journals are an opening and its replacement, a document and its reversal by hand with another posting, or one collection among them; the day asked about, 0, lies between the dates of the documents, so that each falls before or after it, and the statement covers the days from there to 2. The proofs remove these bounds for the safety properties they cover. For the payment, 3 workers were also explored for the safety properties (8,732,061 states, no error). For `Receivables`, two invoices and a payment (no note) were also explored (826,691 states, no error): a payment spread over several invoices.

Deadlock is checked in the runs of `Journals`, where a request can always be dropped, and of `Access`. Type invariants are not among the runs' properties where they are proved; they have all been run as invariants of the same configurations.

## Proofs

Every theorem below holds for any number of requests, rows and values, from the assumptions on the constants that its module names (`JournalsAssumption` and so on). Theorems about sums over all rows, and about circles of waiting, say in addition that there are finitely many rows (`IsFiniteSet(Rows)`, `IsFiniteSet(Documents)`), as there are in a table; nothing else bounds them.

`JournalsProofs` proves that the specification implies `TypeOK`, `GaplessNumbers`, `OneJournalPerUuid`, `SegregationOfDuties`, `ReversalsCorrectPosted`, `DecisionsAreFinal`, `OnlyOvertakenPostings`, `OpeningReplacedOnce` and `ImplementsLedger`. The properties are not inductive as they stand; `IInv` adds two things:

* `RequestsWF`, what a request may still rely on from its reads: whom it decides about is not its creator, its target exists and, for a reversal, is posted. It is preserved because rows are only appended or decided once.
* `ReliedOnOpen`, the period a request validated is open unless a close overtook the request (`late`).

`IInvStep` splits into one lemma per conjunct, each with one step per action. `LedgerImplemented` maps each step to an insertion into the book or a stutter. `OpeningsKnow` strengthens `IInv` for the opening balances: one request holds the advisory lock, and what it found there stays so until it writes, since the writers that do not take the lock add no opening journal of the server's (`NoNewOpening`).

`RetriesProofs` is about the two parts of the server that must not do twice what is asked of them twice. Of `MpesaPayments` it proves `TypeOK`, `OnlyConfirmedMoneyCounts`, `OnePoster`, `LinkedIsPosted` and `VerdictsAreFinal`. Its `IInv` adds `WorkersKnow`, what a request at each program counter still knows (whoever is about to record a success was told by Daraja that the customer paid; whoever holds the amount that was asked holds it from a callback that was stored; whoever posts found the payment SUCCEEDED and nobody else can un-succeed it), `PushedOnce` (only the request that inserted the row pushes), and that a PENDING row carries no result. `OnePoster` is inductive because `completeIfPending` moves the row out of PENDING once: `MayPost` is what each action has to show of it. `Kept` is what no step takes away; `KnowsKept` lifts it to the requests that do not move, so that each action only has to show its own request and the row.

Of `Idempotency` it proves `KeyTypeOK`, `AnsweredIsReplayed`, `ReExecutedOnlyAfterTrouble` and `ReplaysReportSuccess`. `KeyInv` says: unless claims were disturbed, at most one request is between claim and settlement, the row is its claim, and every effect of a body without a client uuid is visible in the row or in that request, or the body is among those that committed and were answered an error (`halfway`).

`ReceivablesProofs` proves `TypeOK`, `AmountsInRange`, `StatusTellsPaid`, `LedgerFollowsDocuments`, `NotesUsedOnTheirInvoice`, `IssuedIsFrozen`, `LimitExceededOnlyInARace`, `NoCircularWait`, `BalanceIsOpenItems` and `ImplementsOpenItems`, in four steps.

* *Single documents.* `DocMove` lists the few things that can happen to one document in a step (born, edited, removed, issued, cancelled, part of it taken or used); `DocMoves` shows that every step of the system is one of them for every document, and whatever is said of single documents follows from `DocMove` alone (`OneDoc`), without looking at the actions again. `RequestsWF` says what a request in flight still knows: the invariants are not inductive without it, because a commit relies on reads made before its locks (an unedited draft still has the total its journal was prepared with; the row of a reversal is posted; as long as nothing moved the balance, the invoice still fits the credit limit). `Remembers` shows once and for all that steps of others leave this true.
* *Locks.* `Before` orders the rows by what they are (notes raised against an invoice, invoices, sources of credit), then by id; `LocksInv` adds that plans take only from the right kind of row and that the rows a transaction holds come before those it still needs. A circle would have a row that none comes after, yet its holder waits for a later one. A note that was deleted forgets its invoice but keeps its place in the order, which is why `Parented` mentions it.
* *The balance.* `SettlesInv` adds that what a request takes from the rows it locked adds up to what its journal posts. With it, `BalanceStep` shows for each action that the balance moves by as much as the three sums of `BalanceIsOpenItems` do together: what is due, what is left, and what was reversed by hand.
* *The refinement.* `charged` is the total of a posted invoice, `owed` what is due of it, `credit` what is left of a note or payment. Every step is then a charge, a waiver, a gift, a use of credit, a paying back or a stutter of `OpenItems`, in which debts fall by exactly what was given or used.

`DocumentsProofs` proves its `TypeOK`, `PostedAsWritten`, `OverwrittenOnlyInARace`, `ConversionsCopy`, `EstimatesSettle` and `PartyCurrencyKept`. None of them is inductive, because a request writes what it read and worked out several transactions earlier. `IInv` adds:

* `Sound`, what a request knows in each of its states, always as of a numbered edition of a document: the row it read is that edition; the row it prepared follows from that edition by its patch, or is no longer the last; the journal it prepared says what the row says, or row and lines were read of different editions. Since the history only grows (`Grows`), this survives every step of the others; the writes have to show that the edition is still the last one or that they race.
* `Built`: a stored line is one that building it again from its columns leaves as it is, so that a conversion copies it to the cent. This is where the rounding is: forwards for net prices, backwards for inclusive ones, a unit price computed from an amount, the VAT account filled in. Net, tax and total of a line are whole and add up (`LineAddsUp`), and the journal has them once per account (`HeadAndTails` adds up the control line, the net lines and the tax lines of a journal).
* `ConvertedOnce`, which the unique index of the migration gives, and `Settled`: a party that a draft, a request or a journal relies on trades in the base currency or had its currency changed meanwhile.

`StatusesAgree` shows that the `CASE` of the page and the `WHERE` conditions of the list give every row one and the same status on every day.

`AccessProofs` proves `TypeOK`, `EveryTenantHasOwner`, `OneAccountPerIdentity`, `RolesStayInTenant` and `InviteReusedOnlyInARace`. Its `IInv` adds `RequestsKnow`: whoever sets roles holds the tenant's lock from its count of the owners to its write, and so the write still leaves an owner; and `Acceptances`: as long as no two acceptances of an invite overlapped and none died, there is one at a time, and a user who came by the invite is there only while it is about to be marked or is marked.

`VouchersProofs` is about the chart first and proves `TypeOK`, `CyclesOnlyInARace`, `KeysNeverCollide` and `KeysStayHeld` of `Chart`. Its `IInv` adds `Knows`: what a PATCH found of the tree (`KnowsOfTree`) and of the key (`KnowsOfKey`) still holds when it commits, or is among the commits it missed; whoever is past the advisory lock holds it; and that no two requests hold a row (`RowsLockedOnce`). `Left` is what a step leaves to the other requests, and `KnowsKept` draws from it that they know what they knew. That there is no cycle is an argument about closed sets: that an account is not above its new parent means that some set of accounts contains the parent, is closed under "parent of" and does not contain the account, and that set survives any step that re-parents nobody.

It then shows that vouchers touch the chart only by steps of `Chart` (`ChartKept`), so that all this holds under them too, and proves `DocumentsTyped`, `VouchersGapless` and `PostedAsFoundUnlessChanged`. `VInv` adds `Stands`, what a document's request still knows of the accounts it found or which change it has missed, and `NumbersTaken`, that a number taken and not yet committed is the next one and taken by one document. `OneDocument` covers every step that neither takes a number nor posts one.

`BalancesFollowDocuments` needs two more arguments. `Recorded` is the invariant: there is a journal for each posted document and no other, and it is the one that document's kind prepares from its order and the accounts it found. Then the lines are weighed, by their debits, by their credits and for each account: every kind of journal puts on every account what `Effect` says (`WeightJoined` takes a journal apart into its lines), and a balance is the sum of that over the posted documents.

`ReportsProofs` proves `StatementsAddUp`, `NamesStand`, `UndocumentedIsExplained`, `ReportsTie` and `BalancedUnlessTheChartGrew`, for any customers, documents, accounts, requests and days. The properties are about what a report shows; `IInv` says what of the books makes that so (TLC was let check it first, with days in a range, on the instance of the run `reports`):

* `Books`: every journal balances on accounts there are; documents, payments and refunds name journals there are (`DocsLinked`, `MoneyLinked`); a cancelled invoice has a reversal and nothing given against it; credit goes to invoices of its own customer, from a day it was there, and no invoice gets more than its total (`AllocationsFit`).
* `DocumentsPosted`: the journals that a document, payment or refund names (`DocumentedJournals`) are posted, so that an approval makes none of them count later than its document.
* `Booked`: for every customer and *every* day, past or future, what those journals have on the ledger is what was invoiced, less what was withdrawn and credited, plus what was returned. Journals of all other sources are outside it, whatever they post and reverse: a step that posts one leaves both sides alone (`OthersBooked`, `OthersPosted`), and a step that posts a document moves one journal and one document by the same amount on the same days (`DocumentStepPosts`). `Posted` is what all postings have in common, so that the rest of the invariant needs to be shown once for all of them.
* `RequestsFit`: as long as nothing overtook a request, what it has read is what the tables say now, until it has read everything; what it has read of the ledger ties even after that; and a trial balance whose chart was read knows every account its totals have, unless the chart grew. A posting between two reads marks the request `overtaken`, which is the one way to lose this.
* `StatementsStand`: a stored statement adds up unless it was overtaken, and the names of its rows are those the ledger has now. That names stay is because what a journal is called depends on the document that names it, and no step makes an older journal the journal of a document, a payment or a refund (`LinksGrow`).

The rest is about what `IInv` means for sums. A trial balance balances because the journals are a table whose rows, one per journal, add up to zero, and so do its columns, one per account (`SumOfTable`). The buckets of an aging are a grouping of the open invoices, so they add up to what is open (`SumOfGroups`), and what is past due is that without the first bucket. `LedgerJournals` sorts by counting, for each journal, those before it (`Place`); the proofs show that this is a numbering of the customer's journals, so that a sum over the rows is a sum over the journals and the last row is the latest journal. `UndocumentedIsAlwaysExplained` turns the allocations round: what was taken of a credit, summed over the credits, is what was given to an invoice, summed over the invoices, because each allocation is in one group of either kind; with `Booked` the two pictures of a day then differ by exactly what the undocumented journals have and the money that was on no invoice yet.

`Sums` holds what those proofs need of sums. `SumFunction` is defined by recursion over subsets, and the provers cannot apply a library theorem on induction to a predicate of ours. `SubsetInduction` and `FiniteInduction` are therefore stated for a *collection* of sets, `G`: if every subset of `S` whose proper subsets are in `G` is in `G`, all are. They follow from the well-foundedness of the subset ordering of a finite set. From there the sum is what one gets by adding the summands in any order (`SumAddsUp`), and the rest follows one summand at a time: `SumSplit`, `SumChange`, `SumPlus`, `SumPart`, `SumReindex`, `SumParts`; and, for the reports, sums over tables by row and by column (`SumOfTable`), over groups (`SumOfGroups`), and over a part of a set (`SumPartOf`).

What is only model-checked: all liveness (`ReportedIsSettled`, `UnknownOutcomeEnds`, `ArrivedIsAccountedFor`, `ClaimsEnd`), since neither liveness under fairness nor `ENABLED` is within the prover's reach, and the absence of deadlock in `Journals` and `Access`, which is a statement about `ENABLED`. Every safety property that a passing run checks has a theorem.

## Not modelled

* **Audit log.** The trigger hashes each record with the newest one's hash, read without a lock, so that two concurrent transactions fork the chain. Nothing in the code reads the chain back, so there is no property of it to check that is not its insertion order.
* **Periods with dates.** `Journals` knows a date by the period that covers it. That nothing keeps a period made by `POST /periods` from overlapping another one, and how `createPeriodCoveringDate` narrows the month, under a lock, to fit between its neighbours, is not modelled; it would need dates in the state of every posting, and which of two periods then covers a date is the order of a `SELECT`.
* **`pay` with `allowOverpayment`**: an M-Pesa payment larger than its invoice leaves a credit; `Receivables` has the receipt with a remainder, by the other path.
* **The item tree**: two re-parentings at once can form a cycle, as in the chart (`items/service.ts:67`), and the items on it vanish from lists (`items/repository.ts:39-46`); `Chart` shows the pattern where it does harm. Likewise, `PATCH` of an item rewrites every column as it read it.
* **The tenant's profile, `markSent`, the latest payment of a document**: one row, one statement.
* **E-mail, PDF, schemas of requests, token verification, row-level security**: libraries, formatting or PostgreSQL. The models assume that a request acts in its own tenant; `Access` covers what rows say about it.

`PROJECT.json` has the status of each component with the same reasons in short.
